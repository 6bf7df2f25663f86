------------------------------ MODULE MCReview ------------------------------
(***************************************************************************)
(* Instances of Review for TLC.                                            *)
(***************************************************************************)
EXTENDS Review, TLC

CancelOnly == {"CANCELLED"}

Symmetry == Permutations(Request) \cup Permutations(Booking) \cup Permutations(Post)
=============================================================================
