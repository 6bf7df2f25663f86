------------------------------ MODULE MCAccess ------------------------------
(***************************************************************************)
(* An instance of Access for TLC.                                          *)
(***************************************************************************)
EXTENDS Access, TLC

CONSTANTS u1, i1, i2, i3, p1, p2, c1, c2

\* Removing users and assigning roles takes one permission, the rest of the system
\* two; the endpoints of roles require none.
Metadata == [op \in Op |-> CASE op = "use" -> {p1, p2}
                             [] op \in {"assign", "remove"} -> {p1}
                             [] OTHER -> {}]

\* An administrator, whose role may lack a permission.
OneAdmin == {<<u1, i1>>, <<i1, p1>>}

\* i3 is there for a second role of a code.
Lists == {{}, {i1}, {i1, i2}, {p1}, {p1, p2}}

\* The seed provides for the first code only, and its role has both permissions.
Administrators == {<<c1, p1>>, <<c1, p2>>}

Symmetry == Permutations(Request)
=============================================================================
