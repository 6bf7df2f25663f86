----------------------------- MODULE MCAccounts -----------------------------
(***************************************************************************)
(* An instance of Accounts for TLC: two Google accounts whose profiles     *)
(* have two e-mails.                                                       *)
(***************************************************************************)
EXTENDS Accounts, TLC

CONSTANTS u2, u3, g1, g2, e1, e2

ProfileEmail == g1 :> e1 @@ g2 :> e2

Symmetry == Permutations(Request) \cup Permutations({u2, u3})
=============================================================================
