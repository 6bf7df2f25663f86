----------------------------- MODULE MCCatalog -----------------------------
(***************************************************************************)
(* Instances of Catalog for TLC.                                           *)
(***************************************************************************)
EXTENDS Catalog, TLC

\* Labels are phones and names here, and names do not differ in case only.
Phones == {"1", "2"}
NoCase == [l \in Phones |-> l]

PublicPages == {"publicDetail", "publicRoomTypes", "publicList"}
NoPages == {}
BothPages == {"detail", "roomTypes"}

\* hotel.seed's; booking-test.seed has its own phone, in a name that is not its own.
TwoHotels == <<[phone |-> "1", name |-> "1"], [phone |-> "2", name |-> "1"]>>
NoHotels == <<>>
TheTestHotel == [phone |-> "2", name |-> "1"]

Symmetry == Permutations(Request)
=============================================================================
