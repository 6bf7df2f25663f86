------------------------- MODULE MCBookingLifecycle -------------------------
(***************************************************************************)
(* Instances of BookingLifecycle for TLC.  Requests and booking codes are  *)
(* interchangeable, so the safety runs use their symmetry.                 *)
(***************************************************************************)
EXTENDS BookingLifecycle, TLC

\* Owners send any of the five statuses.
AnyStatus == BookingStatus

Symmetry == Permutations(Request) \cup Permutations(Booking)
=============================================================================
