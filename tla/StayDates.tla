----------------------------- MODULE StayDates -----------------------------
(***************************************************************************)
(* How the dates of a stay are counted and compared: the nights a guest    *)
(* pays for, and the three tests that decide whether a booking, a hold or  *)
(* a block competes with a requested stay for the same rooms.              *)
(*                                                                         *)
(* A date arrives as an ISO 8601 string (IsDateString): a day, or a day    *)
(* with a time and a UTC offset.  The code reads it in three ways: its     *)
(* first ten characters, the instant new Date() makes of it, and, once in  *)
(* a DATE column, the day that instant falls on in the server's time zone. *)
(* Instants are counted in hours since some midnight UTC.                  *)
(***************************************************************************)
EXTENDS Integers

CONSTANT HoursPerDay

ASSUME HoursAssumption == HoursPerDay \in Nat \ {0}

\* The offsets a time zone may have, of a server or in a string.
Zone == (1 - HoursPerDay) .. (HoursPerDay - 1)

DateString == [day: Int, hour: 0 .. (HoursPerDay - 1), offset: Zone]

\* A string without a time is midnight UTC.
DateOnly(d) == [day |-> d, hour |-> 0, offset |-> 0]

\* new Date(string)
Instant(s) == s.day * HoursPerDay + s.hour - s.offset

-----------------------------------------------------------------------------
(* Nights, in src/src/modules/booking/booking.service.ts *)

\* Slip: the days that elapse, which a late check-in and an early check-out cut
\* short.
NightsElapsed(stay) == (Instant(stay.out) - Instant(stay.in)) \div HoursPerDay

\* calculateNights reads the written days only.
calculateNights(stay) == stay.out.day - stay.in.day

\* It rejects a stay that does not last a night.
ValidDates(stay) == stay.out.day > stay.in.day

-----------------------------------------------------------------------------
(* Competing stays *)

\* What TypeORM writes into a DATE column: the server's local day.
StoredDay(t, zone) == (t + zone) \div HoursPerDay

\* The nights between the two days stored for a booking.
StoredNights(stay, zone) ==
    StoredDay(Instant(stay.out), zone) - StoredDay(Instant(stay.in), zone)

\* What the driver makes of a Date in a query: the server's local date and time.
LocalTime(t, zone) == t + zone

\* Slip: a stay that ends on the day another begins competes with it.
ClosedOverlap(from, to, start, end) == from <= end /\ to >= start

\* Slip: only stays that begin within the requested one compete with it.
StartsWithin(from, to, start, end) == from < end /\ from >= start

\* The test all three strategies share.
isDateRangeOverlap(from, to, start, end) == from < end /\ to > start

\* checkInDate < :checkOut AND checkOutDate > :checkIn, and the same with the
\* dates of a block: DATE columns, compared as midnights, against local times.
StoredOverlap(stay, ctx, zone) ==
    isDateRangeOverlap(StoredDay(Instant(stay.in), zone) * HoursPerDay,
                       StoredDay(Instant(stay.out), zone) * HoursPerDay,
                       LocalTime(Instant(ctx.in), zone),
                       LocalTime(Instant(ctx.out), zone))

\* RedisHoldStrategy compares instants: the hold carries toISOString of both.
HeldOverlap(stay, ctx) ==
    isDateRangeOverlap(Instant(stay.in), Instant(stay.out),
                       Instant(ctx.in), Instant(ctx.out))

-----------------------------------------------------------------------------
(* Reference: nights as sets *)

Nights(stay) == stay.in.day .. (stay.out.day - 1)

ShareANight(stay, other) == Nights(stay) \cap Nights(other) # {}

=============================================================================
