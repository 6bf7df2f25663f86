-------------------------- MODULE StayDates_proofs --------------------------
(***************************************************************************)
(* Theorems about StayDates, for every length of a day and every server    *)
(* time zone.                                                              *)
(***************************************************************************)
EXTENDS StayDates, TLAPS

\* The local day of a UTC midnight is its own day, or the day before on a server
\* west of Greenwich.
LEMMA LocalDayOfMidnight ==
    ASSUME NEW d \in Int, NEW zone \in Zone
    PROVE  StoredDay(d * HoursPerDay, zone) = IF zone >= 0 THEN d ELSE d - 1
<1> DEFINE H == HoursPerDay
<1>1. H \in Nat /\ H > 0 /\ zone \in Int /\ -H < zone /\ zone < H
  BY HoursAssumption DEF Zone
<1>2. CASE zone >= 0
  <2>1. (d * H + zone) \div H = d
    BY <1>1, <1>2
  <2>2. QED
    BY <1>2, <2>1 DEF StoredDay
<1>3. CASE zone < 0
  <2>1. (d * H + zone) \div H = d - 1
    BY <1>1, <1>3
  <2>2. QED
    BY <1>1, <1>3, <2>1 DEF StoredDay
<1>4. QED
  BY <1>1, <1>2, <1>3

\* Multiplying two days by the length of a day keeps them at least a day apart.
LEMMA DaysApart ==
    ASSUME NEW d \in Int, NEW e \in Int, d < e
    PROVE  d * HoursPerDay + HoursPerDay <= e * HoursPerDay
<1>1. HoursPerDay \in Nat
  BY HoursAssumption
<1>2. (d + 1) * HoursPerDay <= e * HoursPerDay
  BY <1>1
<1>3. QED
  BY <1>1, <1>2

\* A date-only stay: what a date picker sends.
DayStay(from, to) == [in |-> DateOnly(from), out |-> DateOnly(to)]

\* Two date-only stays share a night exactly when each begins before the other
\* ends.
LEMMA SharedNight ==
    ASSUME NEW a \in Int, NEW b \in Int, NEW c \in Int, NEW d \in Int, a < b, c < d
    PROVE  ShareANight(DayStay(a, b), DayStay(c, d)) <=> a < d /\ c < b
<1>1. Nights(DayStay(a, b)) = a .. (b - 1) /\ Nights(DayStay(c, d)) = c .. (d - 1)
  BY DEF Nights, DayStay, DateOnly
<1>2. ASSUME a < d, c < b PROVE (a .. (b - 1)) \cap (c .. (d - 1)) # {}
  <2>1. CASE a <= c
    <3>1. c \in a .. (b - 1) /\ c \in c .. (d - 1)
      BY <1>2, <2>1
    <3>2. QED
      BY <3>1
  <2>2. CASE c < a
    <3>1. a \in a .. (b - 1) /\ a \in c .. (d - 1)
      BY <1>2, <2>2
    <3>2. QED
      BY <3>1
  <2>3. QED
    BY <2>1, <2>2
<1>3. ASSUME NEW n \in (a .. (b - 1)) \cap (c .. (d - 1)) PROVE a < d /\ c < b
  OBVIOUS
<1>4. QED
  BY <1>1, <1>2, <1>3 DEF ShareANight

\* Holds are compared exactly: a hold competes with a date-only request if and
\* only if the two stays share a night.
THEOREM HeldOverlapIsExact ==
    ASSUME NEW a \in Int, NEW b \in Int, NEW c \in Int, NEW d \in Int, a < b, c < d
    PROVE  HeldOverlap(DayStay(a, b), DayStay(c, d)) <=> ShareANight(DayStay(a, b), DayStay(c, d))
<1> DEFINE H == HoursPerDay
<1>1. H \in Nat /\ H > 0
  BY HoursAssumption
<1>2. HeldOverlap(DayStay(a, b), DayStay(c, d)) <=> a * H < d * H /\ b * H > c * H
  BY <1>1 DEF HeldOverlap, isDateRangeOverlap, Instant, DayStay, DateOnly
<1>3. \A x, y \in Int : x * H < y * H <=> x < y
  <2> SUFFICES ASSUME NEW x \in Int, NEW y \in Int PROVE x * H < y * H <=> x < y
    OBVIOUS
  <2>1. CASE x < y
    BY <1>1, <2>1, DaysApart
  <2>2. CASE x = y
    BY <1>1, <2>2
  <2>3. CASE y < x
    BY <1>1, <2>3, DaysApart
  <2>4. QED
    BY <2>1, <2>2, <2>3
<1>4. QED
  BY <1>2, <1>3, SharedNight

\* Bookings and blocks are compared safely on a server in any time zone: two
\* date-only stays that share a night always compete.
THEOREM StoredOverlapMissesNothing ==
    ASSUME NEW a \in Int, NEW b \in Int, NEW c \in Int, NEW d \in Int, a < b, c < d,
           NEW zone \in Zone, ShareANight(DayStay(a, b), DayStay(c, d))
    PROVE  StoredOverlap(DayStay(a, b), DayStay(c, d), zone)
<1> DEFINE H == HoursPerDay
<1>1. H \in Nat /\ H > 0 /\ zone \in Int /\ -H < zone /\ zone < H
  BY HoursAssumption DEF Zone
<1>2. a < d /\ c < b
  BY SharedNight
<1>3. a * H + H <= d * H /\ c * H + H <= b * H
  BY <1>2, DaysApart
<1>4. StoredOverlap(DayStay(a, b), DayStay(c, d), zone) <=>
        /\ StoredDay(a * H, zone) * H < d * H + zone
        /\ StoredDay(b * H, zone) * H > c * H + zone
  BY <1>1 DEF StoredOverlap, isDateRangeOverlap, LocalTime, Instant, DayStay, DateOnly
<1>5. CASE zone >= 0
  <2>1. StoredDay(a * H, zone) = a /\ StoredDay(b * H, zone) = b
    BY <1>5, LocalDayOfMidnight
  <2>2. QED
    BY <1>1, <1>3, <1>4, <1>5, <2>1
<1>6. CASE zone < 0
  <2>1. StoredDay(a * H, zone) = a - 1 /\ StoredDay(b * H, zone) = b - 1
    BY <1>1, <1>6, LocalDayOfMidnight
  <2>2. (a - 1) * H = a * H - H /\ (b - 1) * H = b * H - H
    BY <1>1
  <2>3. QED
    BY <1>1, <1>3, <1>4, <1>6, <2>1, <2>2
<1>7. QED
  BY <1>1, <1>5, <1>6
\* Whole days carry over: a day later is stored a day later.
LEMMA WholeDaysCarry ==
    ASSUME NEW d \in Int, NEW k \in Int
    PROVE  (d * HoursPerDay + k) \div HoursPerDay = d + (k \div HoursPerDay)
<1> DEFINE H == HoursPerDay
           q == k \div H
           n == d * H + k
           p == n \div H
<1>1. H \in Nat /\ H > 0
  BY HoursAssumption
<1>2. q \in Int /\ q * H <= k /\ k < q * H + H
  BY <1>1
<1>3. n \in Int /\ p \in Int /\ p * H <= n /\ n < p * H + H
  BY <1>1
<1>4. (d + q) * H = d * H + q * H /\ (d + q) \in Int
  BY <1>1, <1>2
<1> HIDE DEF q, p
<1>5. (d + q) * H <= n /\ n < (d + q) * H + H
  BY <1>1, <1>2, <1>4
<1>6. ASSUME p < d + q PROVE FALSE
  <2>1. p * H + H <= (d + q) * H
    BY <1>3, <1>4, <1>6, DaysApart
  <2>2. p * H \in Int /\ (d + q) * H \in Int
    BY <1>1, <1>3, <1>4
  <2> HIDE DEF n, H
  <2>3. QED
    BY <1>1, <1>3, <1>5, <2>1, <2>2
<1>7. ASSUME d + q < p PROVE FALSE
  <2>1. (d + q) * H + H <= p * H
    BY <1>3, <1>4, <1>7, DaysApart
  <2>2. p * H \in Int /\ (d + q) * H \in Int
    BY <1>1, <1>3, <1>4
  <2> HIDE DEF n, H
  <2>3. QED
    BY <1>1, <1>3, <1>5, <2>1, <2>2
<1>8. p = d + q
  BY <1>3, <1>4, <1>6, <1>7
<1>9. QED
  BY <1>8 DEF p, q

\* A guest pays for the nights the booking occupies, for every stay whose two strings
\* have one offset and either one time of day or a server in that offset.
THEOREM ChargedNightsAreStored ==
    ASSUME NEW stay \in [in: DateString, out: DateString], NEW zone \in Zone,
           stay.in.offset = stay.out.offset,
           stay.in.hour = stay.out.hour \/ stay.in.offset = zone
    PROVE  calculateNights(stay) = StoredNights(stay, zone)
<1> DEFINE H == HoursPerDay
           Clock(s) == s.hour - s.offset + zone
<1>1. H \in Nat /\ H > 0 /\ zone \in Int
  BY HoursAssumption DEF Zone
<1>2. \A s \in DateString : Clock(s) \in Int /\ s.day \in Int
  BY <1>1 DEF DateString, Zone
<1>3. \A s \in DateString : StoredDay(Instant(s), zone) = s.day + (Clock(s) \div H)
  <2> TAKE s \in DateString
  <2>1. Instant(s) + zone = s.day * H + Clock(s)
    BY <1>1 DEF Instant, DateString, Zone
  <2>2. QED
    BY <1>2, <2>1, WholeDaysCarry DEF StoredDay
<1>4. stay.in \in DateString /\ stay.out \in DateString
  OBVIOUS
<1>5. Clock(stay.in) \div H = Clock(stay.out) \div H
  <2>1. CASE stay.in.hour = stay.out.hour
    BY <2>1
  <2>2. CASE stay.in.offset = zone
    <3>1. \A s \in DateString : s.offset = zone => Clock(s) = s.hour /\ s.hour \in 0 .. (H - 1)
      BY <1>1 DEF DateString, Zone
    <3>2. \A h \in 0 .. (H - 1) : h \div H = 0
      BY <1>1
    <3>3. QED
      BY <1>4, <2>2, <3>1, <3>2
  <2>3. QED
    BY <2>1, <2>2
<1>6. (Clock(stay.in) \div H) \in Int
  BY <1>1, <1>2, <1>4
<1>7. QED
  BY <1>2, <1>3, <1>4, <1>5, <1>6 DEF calculateNights, StoredNights

-----------------------------------------------------------------------------
(* Strings with a time of day, and stays that follow each other *)

LEMMA DaysShared ==
    ASSUME NEW stay \in [in: DateString, out: DateString], NEW other \in [in: DateString, out: DateString],
           ShareANight(stay, other)
    PROVE  stay.in.day < other.out.day /\ other.in.day < stay.out.day
<1>1. /\ stay.in.day \in Int /\ stay.out.day \in Int
      /\ other.in.day \in Int /\ other.out.day \in Int
  BY DEF DateString
<1>2. PICK n \in stay.in.day .. (stay.out.day - 1) : n \in other.in.day .. (other.out.day - 1)
  BY DEF ShareANight, Nights
<1>3. QED
  BY <1>1, <1>2

\* On a server in UTC nothing is missed either when the strings carry times of day in
\* UTC: stays that share a night compete as bookings, blocks and holds.
THEOREM UtcStaysMissNothing ==
    ASSUME NEW stay \in [in: DateString, out: DateString], NEW other \in [in: DateString, out: DateString],
           stay.in.offset = 0, stay.out.offset = 0, other.in.offset = 0, other.out.offset = 0,
           ShareANight(stay, other)
    PROVE  StoredOverlap(stay, other, 0) /\ HeldOverlap(stay, other)
<1> DEFINE H == HoursPerDay
           UtcString(s) == s \in DateString /\ s.offset = 0
<1>1. H \in Nat /\ H > 0
  BY HoursAssumption
<1>2. \A s : UtcString(s) => /\ s.day \in Int /\ s.day * H \in Int /\ s.hour \in 0 .. (H - 1)
                             /\ Instant(s) = s.day * H + s.hour
  BY <1>1 DEF DateString, Instant
<1>3. \A s : UtcString(s) => StoredDay(Instant(s), 0) = s.day
  <2> SUFFICES ASSUME NEW s, UtcString(s) PROVE StoredDay(Instant(s), 0) = s.day
    OBVIOUS
  <2>0. \A h \in 0 .. (H - 1) : h \in Int /\ h \div H = 0
    BY <1>1
  <2>1. s.hour \in Int /\ s.hour \div H = 0 /\ s.day \in Int
    BY <1>2, <2>0
  <2>2. (s.day * H + s.hour) \div H = s.day + (s.hour \div H)
    BY <2>1, WholeDaysCarry
  <2>3. Instant(s) + 0 = s.day * H + s.hour
    BY <1>1, <1>2
  <2>4. QED
    BY <2>1, <2>2, <2>3 DEF StoredDay
<1>4. UtcString(stay.in) /\ UtcString(stay.out) /\ UtcString(other.in) /\ UtcString(other.out)
  OBVIOUS
<1> HIDE DEF UtcString
<1>5. stay.in.day < other.out.day /\ other.in.day < stay.out.day
  BY DaysShared
<1>6. /\ stay.in.day * H + H <= other.out.day * H
      /\ other.in.day * H + H <= stay.out.day * H
  BY <1>2, <1>4, <1>5, DaysApart
<1>7. HeldOverlap(stay, other)
  BY <1>1, <1>2, <1>4, <1>6 DEF HeldOverlap, isDateRangeOverlap
<1>8. StoredOverlap(stay, other, 0)
  BY <1>1, <1>2, <1>3, <1>4, <1>6 DEF StoredOverlap, isDateRangeOverlap, LocalTime
<1>9. QED
  BY <1>7, <1>8

\* On a server in UTC bookings and blocks of date-only stays compete exactly when a
\* night is shared: a guest may arrive on the day another leaves.
THEOREM StoredOverlapIsExactInUtc ==
    ASSUME NEW a \in Int, NEW b \in Int, NEW c \in Int, NEW d \in Int, a < b, c < d
    PROVE  StoredOverlap(DayStay(a, b), DayStay(c, d), 0)
              <=> ShareANight(DayStay(a, b), DayStay(c, d))
<1> DEFINE H == HoursPerDay
<1>1. H \in Nat /\ H > 0 /\ 0 \in Zone
  BY HoursAssumption DEF Zone
<1>2. StoredDay(a * H, 0) = a /\ StoredDay(b * H, 0) = b
  BY <1>1, LocalDayOfMidnight
<1>3. /\ Instant(DateOnly(a)) = a * H /\ Instant(DateOnly(b)) = b * H
      /\ Instant(DateOnly(c)) = c * H /\ Instant(DateOnly(d)) = d * H
  BY <1>1 DEF Instant, DateOnly
<1>4. LocalTime(c * H, 0) = c * H /\ LocalTime(d * H, 0) = d * H
  BY <1>1 DEF LocalTime
<1>5. /\ DayStay(a, b).in = DateOnly(a) /\ DayStay(a, b).out = DateOnly(b)
      /\ DayStay(c, d).in = DateOnly(c) /\ DayStay(c, d).out = DateOnly(d)
  BY DEF DayStay
<1>6. StoredOverlap(DayStay(a, b), DayStay(c, d), 0) <=> a * H < d * H /\ b * H > c * H
  BY <1>2, <1>3, <1>4, <1>5 DEF StoredOverlap, isDateRangeOverlap
<1>7. HeldOverlap(DayStay(a, b), DayStay(c, d)) <=> a * H < d * H /\ b * H > c * H
  BY <1>3, <1>5 DEF HeldOverlap, isDateRangeOverlap
<1>8. QED
  BY <1>6, <1>7, HeldOverlapIsExact
=============================================================================
