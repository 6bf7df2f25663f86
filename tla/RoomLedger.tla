----------------------------- MODULE RoomLedger -----------------------------
(***************************************************************************)
(* What POST /bookings promises about the rooms of one room type, with no  *)
(* requests, queries, Redis keys, payments or locks in sight: a guest asks *)
(* for a stay, the booking is promised its rooms and gives them up, and    *)
(* the owner closes rooms, reopens them or changes their number, each in   *)
(* one step.  Reservation is shown to implement it.                        *)
(*                                                                         *)
(* The promise: a step concerns one booking, one block or the total; the   *)
(* stay of a booking is valid and never changes; and until the ledger is   *)
(* disturbed, rooms are promised only if they are left on every night of   *)
(* the stay, and closed or given up only if what was promised still fits.  *)
(***************************************************************************)
EXTENDS StayDates, FiniteSets

CONSTANTS
    Booking,     \* booking codes
    Stay,        \* the stays guests ask for: [in, out, quantity]
    Block,       \* the blocks owners create: [id, in, out, quantity]
    Total,       \* how many rooms there are at the start
    NewTotal,    \* how many there may be later
    None         \* no stay

VARIABLES
    stay,        \* the stay each booking is for, or None
    promised,    \* the bookings that have been promised their rooms
    blocks,      \* the rooms closed
    total,       \* the rooms there are
    disturbed    \* whether promises may have been made that cannot be kept

vars == <<stay, promised, blocks, total, disturbed>>

Rooms(quantity) == UNION {{x} \X (1 .. quantity[x]) : x \in DOMAIN quantity}

\* The rooms that are a guest's, or closed, on a night.
Taken(night) ==
    Cardinality(Rooms([b \in {b \in promised : night \in Nights(stay[b])} |-> stay[b].quantity]))
        + Cardinality(Rooms([k \in {k \in blocks : night \in Nights(k)} |-> k.quantity]))

\* Everything promised and closed can be had at once.
Fits == \A night \in UNION {Nights(s) : s \in Stay \cup Block} : Taken(night) <= total

\* There are rooms for booking b on every night of its stay.
Left(b) == \A night \in Nights(stay[b]) : Taken(night) + stay[b].quantity <= total

Init ==
    /\ stay = [b \in Booking |-> None]
    /\ promised = {}
    /\ blocks = {}
    /\ total = Total
    /\ ~disturbed

Ask(b, s) ==
    /\ stay[b] = None
    /\ s.quantity > 0 /\ ValidDates(s)
    /\ stay' = [stay EXCEPT ![b] = s]
    /\ UNCHANGED <<promised, blocks, total>>

Promise(b) ==
    /\ stay[b] # None /\ b \notin promised
    /\ ~disturbed' => Left(b)
    /\ promised' = promised \cup {b}
    /\ UNCHANGED <<stay, blocks, total>>

Release(b) ==
    /\ b \in promised
    /\ promised' = promised \ {b}
    /\ UNCHANGED <<stay, blocks, total>>

Close(k) ==
    /\ k \notin blocks
    /\ blocks' = blocks \cup {k}
    /\ ~disturbed' => Fits'
    /\ UNCHANGED <<stay, promised, total>>

Reopen(k) ==
    /\ k \in blocks
    /\ blocks' = blocks \ {k}
    /\ UNCHANGED <<stay, promised, total>>

Resize(n) ==
    /\ total' = n
    /\ ~disturbed' => Fits'
    /\ UNCHANGED <<stay, promised, blocks>>

\* Two guests are being served at once: nothing is promised yet.
Disturb == disturbed' /\ UNCHANGED <<stay, promised, blocks, total>>

\* Once disturbed, always disturbed.
Next ==
    /\ disturbed => disturbed'
    /\ \/ \E b \in Booking : (\E s \in Stay : Ask(b, s)) \/ Promise(b) \/ Release(b)
       \/ \E k \in Block : Close(k) \/ Reopen(k)
       \/ \E n \in NewTotal : Resize(n)
       \/ Disturb

Spec == Init /\ [][Next]_vars
=============================================================================
