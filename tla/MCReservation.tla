--------------------------- MODULE MCReservation ---------------------------
(***************************************************************************)
(* Instances of Reservation for TLC: three days, stays of one and two      *)
(* nights that overlap, touch and nest, and one that ends before it begins.*)
(***************************************************************************)
EXTENDS Reservation, TLC

StayOf(from, to, n) == [in |-> DateOnly(from), out |-> DateOnly(to), quantity |-> n]

SomeStays == {StayOf(0, 1, 1), StayOf(1, 2, 1), StayOf(0, 2, 1), StayOf(1, 0, 1)}
MoreStays == SomeStays \cup {StayOf(0, 2, 2), StayOf(1, 2, 2)}

BlockOf(id, from, to, n) == [id |-> id, in |-> DateOnly(from), out |-> DateOnly(to), quantity |-> n]

\* Two that are equal but for their ids.
SomeBlocks == {BlockOf(1, 0, 1, 1), BlockOf(2, 0, 1, 1)}

Reception == {"CONFIRMED", "PENDING_PAYMENT", "CANCELLED"}

\* OversellHasACause says nothing of what follows a cause, so the run stops there.
NoCauseYet == causes = {}

Symmetry == Permutations(Request) \cup Permutations(Booking)
=============================================================================
