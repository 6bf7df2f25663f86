--------------------------- MODULE BookingLedger ---------------------------
(***************************************************************************)
(* What the booking service promises about one booking's row and its       *)
(* invoices, with no requests, locks, transactions or cached entities in   *)
(* sight: booking, payment, cancellation and the hotel owner's override    *)
(* are single steps.  BookingLifecycle is shown to implement it.           *)
(*                                                                         *)
(* The promise: a payment flips both statuses and records its invoice in   *)
(* one indivisible step, and only from PENDING_PAYMENT; an invoice, once   *)
(* recorded, stays; a booking is PAID only on the strength of an invoice;  *)
(* and only an owner takes a booking out of CANCELLED.                     *)
(***************************************************************************)

CONSTANTS
    Booking,      \* booking codes
    Request,      \* HTTP requests; an invoice is known by the payment it records
    OwnerStatus   \* the statuses owners send to PATCH /owner/bookings/:id/status

VARIABLES
    row,          \* the bookings table
    invoices      \* the invoices table: per booking, the payments recorded

vars == <<row, invoices>>

BookingStatus == {"PENDING_PAYMENT", "CONFIRMED", "CANCELLED", "EXPIRED", "FAILED"}
BookingPaymentStatus == {"PENDING", "PAID", "FAILED", "EXPIRED", "CANCELLED"}

Entity == [status: BookingStatus, payment: BookingPaymentStatus]

\* A code with no row in the table.
NoRow == [status |-> "NONE", payment |-> "NONE"]

Entered(b) == row[b] # NoRow

\* A payment status a save may leave behind without taking a payment: the one
\* there is, one read earlier from this row, or PAID when an invoice backs it.
Unpaid(b) == {"PENDING", "CANCELLED"} \cup {row[b].payment}
Backed(b) == IF invoices[b] = {} THEN {} ELSE {"PAID"}

Init ==
    /\ row = [b \in Booking |-> NoRow]
    /\ invoices = [b \in Booking |-> {}]

Book(b) ==
    /\ ~Entered(b)
    /\ row' = [row EXCEPT ![b] = [status |-> "PENDING_PAYMENT", payment |-> "PENDING"]]
    /\ UNCHANGED invoices

Pay(b, r) ==
    /\ row[b].status = "PENDING_PAYMENT"
    /\ r \notin invoices[b]
    /\ row' = [row EXCEPT ![b] = [status |-> "CONFIRMED", payment |-> "PAID"]]
    /\ invoices' = [invoices EXCEPT ![b] = @ \cup {r}]

\* A cancellation never makes a payment PENDING again.  One that crosses an
\* owner's override may find its status change undone and touch the payment only.
Cancel(b) ==
    /\ Entered(b)
    /\ \E t \in {"CANCELLED", row[b].status},
          p \in {"CANCELLED", row[b].payment} \cup Backed(b) :
          row' = [row EXCEPT ![b] = [status |-> t, payment |-> p]]
    /\ UNCHANGED invoices

Override(b, s) ==
    /\ Entered(b)
    /\ \E t \in {s, row[b].status}, p \in Unpaid(b) \cup Backed(b) :
          row' = [row EXCEPT ![b] = [status |-> t, payment |-> p]]
    /\ UNCHANGED invoices

Next ==
    \E b \in Booking :
        \/ Book(b)
        \/ Cancel(b)
        \/ \E r \in Request : Pay(b, r)
        \/ \E s \in OwnerStatus : Override(b, s)

Spec == Init /\ [][Next]_vars
=============================================================================
