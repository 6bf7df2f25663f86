-------------------------- MODULE BookingLifecycle --------------------------
(***************************************************************************)
(* The life of a booking in src/src/modules/booking: POST /bookings, PATCH *)
(* /bookings/:code/pay, PATCH /bookings/:code/cancel and the owner's PATCH *)
(* /owner/bookings/:id/status, as concurrent requests over MySQL (InnoDB), *)
(* Redis and the invoices written with a payment.                          *)
(*                                                                         *)
(* A request is one run of one endpoint.  It stops at every await whose    *)
(* outcome another request can influence; between two awaits it runs       *)
(* without interruption.  Any awaited call may throw (RequestFails,        *)
(* PayRollback): the request ends there with an error and what it had      *)
(* committed stays.  A crash of the process is that for every request in   *)
(* flight.                                                                 *)
(***************************************************************************)

CONSTANTS
    Booking,      \* booking codes, the candidates of generateBookingCode
    Request,      \* requests that may arrive, each handled once
    OwnerStatus,  \* the statuses owners choose; the endpoint accepts all of them
    None          \* no request, no booking

VARIABLES
    row,          \* bookings: the committed row of each code, or NoRow
    lock,         \* the transaction holding the row's exclusive lock, or None
    invoices,     \* invoices: per booking, the pay requests that committed one
    hold,         \* Redis: codes whose nestbook:booking:hold key exists
    mails,        \* invoice mails sent: per booking, the pay requests they report
    req           \* where each request stands and the entity it has in memory

vars == <<row, lock, invoices, hold, mails, req>>

BookingStatus == {"PENDING_PAYMENT", "CONFIRMED", "CANCELLED", "EXPIRED", "FAILED"}
BookingPaymentStatus == {"PENDING", "PAID", "FAILED", "EXPIRED", "CANCELLED"}

\* The two columns of BookingEntity that change after the insert.
Entity == [status: BookingStatus, payment: BookingPaymentStatus]

\* A code with no row in the table; in memory, no entity loaded.
NoRow == [status |-> "NONE", payment |-> "NONE"]

ASSUME OwnerStatusAssumption == OwnerStatus \subseteq BookingStatus
ASSUME NoneAssumption == None \notin Request /\ None \notin Booking

-----------------------------------------------------------------------------
(* Requests *)

\* What a request does next, by endpoint; the last line is how it ended.
PC == {"idle"}
    \cup {"accepted", "coded", "inserted"}
    \cup {"payArrived", "payLocked", "payReleased", "payCommitted"}
    \cup {"cancelRead", "cancelLoaded", "cancelUpdated"}
    \cup {"ownerRead", "ownerLoaded"}
    \cup {"created", "paid", "cancelled", "updated", "rejected", "failed"}

Ended == {"created", "paid", "cancelled", "updated", "rejected", "failed"}

\* entity: the BookingEntity in memory; loaded: the row save() compares it with.
Idle == [pc |-> "idle", code |-> None, entity |-> NoRow, loaded |-> NoRow]

At(r, pc) == req[r].pc = pc

InPayTransaction(r) == req[r].pc \in {"payLocked", "payReleased"}

Goto(r, pc) == req' = [req EXCEPT ![r].pc = pc]

\* The request is answered; what it had in memory is gone, its booking is kept.
End(r, outcome) ==
    req' = [req EXCEPT ![r] = [pc |-> outcome, code |-> @.code,
                               entity |-> NoRow, loaded |-> NoRow]]

\* The request is about booking b and holds entity e.
Arrive(r, b, pc, e) ==
    req' = [req EXCEPT ![r] = [pc |-> pc, code |-> b, entity |-> e, loaded |-> NoRow]]

\* save(): its own SELECT of the row, before the entity is compared with it.
Load(r, pc) ==
    req' = [req EXCEPT ![r] = [pc |-> pc, code |-> @.code,
                               entity |-> @.entity, loaded |-> row[@.code]]]

\* Slip: the row is read and written without a lock.
NoRowLock(b) == TRUE

\* A statement that writes the row waits for the lock.
Unlocked(b) == lock[b] = None

-----------------------------------------------------------------------------
(* What the handlers decide.  A definition whose comment begins with "Slip:" is   *)
(* a faulty variant of the one that follows; the mutation runs put it in place. *)

PendingEntity == [status |-> "PENDING_PAYMENT", payment |-> "PENDING"]

\* Slip: the payment status is forgotten.
ConfirmedEntity == [status |-> "CONFIRMED", payment |-> "PENDING"]

PaidEntity == [status |-> "CONFIRMED", payment |-> "PAID"]

\* Slip: the handlers do not test that a booking was found.
FoundUnchecked(b) == TRUE

Found(b) == row[b] # NoRow

\* Slip: the payment status is tested instead of the booking's.
NotYetPaid(e) == e.payment \in {"PENDING", "CANCELLED"}

\* confirmPayment: only a booking awaiting payment.
Payable(e) == e.status = "PENDING_PAYMENT"

\* cancel: every status but CANCELLED, EXPIRED and FAILED.
Cancellable(e) == e.status \notin {"CANCELLED", "EXPIRED", "FAILED"}

\* cancelBooking: a pending payment is cancelled with its booking.
CancelledEntity(e) ==
    [status |-> "CANCELLED",
     payment |-> IF e.payment = "PENDING" THEN "CANCELLED" ELSE e.payment]

\* Slip: a confirmation by the owner counts as a payment.
ConfirmedMeansPaid(e, s) ==
    [status |-> s, payment |-> IF s = "CONFIRMED" THEN "PAID" ELSE e.payment]

\* updateBookingStatus: the owner's status, and the payment status as it was read.
OverriddenEntity(e, s) == [status |-> s, payment |-> e.payment]

\* Repository.save writes the columns in which the entity differs from the row
\* it loaded first, and leaves the others as they are in the table by then.
Saved(current, loaded, e) ==
    [status  |-> IF e.status = loaded.status THEN current.status ELSE e.status,
     payment |-> IF e.payment = loaded.payment THEN current.payment ELSE e.payment]

-----------------------------------------------------------------------------
Init ==
    /\ row = [b \in Booking |-> NoRow]
    /\ lock = [b \in Booking |-> None]
    /\ invoices = [b \in Booking |-> {}]
    /\ hold = {}
    /\ mails = [b \in Booking |-> {}]
    /\ req = [r \in Request |-> Idle]

(* POST /bookings *)

\* Quantity, dates and availability are in order (see Reservation).
CreateAccept(r) ==
    /\ At(r, "idle")
    /\ Goto(r, "accepted")
    /\ UNCHANGED <<row, lock, invoices, hold, mails>>

\* They are not.
CreateRefuse(r) ==
    /\ At(r, "idle")
    /\ End(r, "rejected")
    /\ UNCHANGED <<row, lock, invoices, hold, mails>>

\* The candidate code has no booking yet.
GenerateBookingCode(r, b) ==
    /\ At(r, "accepted")
    /\ row[b] = NoRow
    /\ Arrive(r, b, "coded", NoRow)
    /\ UNCHANGED <<row, lock, invoices, hold, mails>>

\* Five candidates in a row were taken.
GenerateBookingCodeGivesUp(r) ==
    /\ At(r, "accepted")
    /\ \E b \in Booking : row[b] # NoRow
    /\ End(r, "rejected")
    /\ UNCHANGED <<row, lock, invoices, hold, mails>>

\* The insert, unless another request has inserted the code since it was
\* looked up: booking_code is unique and the insert then fails.
InsertBooking(r) ==
    LET b == req[r].code IN
    /\ At(r, "coded")
    /\ IF row[b] = NoRow
       THEN /\ row' = [row EXCEPT ![b] = PendingEntity]
            /\ Goto(r, "inserted")
       ELSE /\ End(r, "failed")
            /\ UNCHANGED row
    /\ UNCHANGED <<lock, invoices, hold, mails>>

\* SET key payload EX 120, then the response.
CreateBookingHold(r) ==
    /\ At(r, "inserted")
    /\ hold' = hold \cup {req[r].code}
    /\ End(r, "created")
    /\ UNCHANGED <<row, lock, invoices, mails>>

(* PATCH /bookings/:code/pay *)

\* The transaction begins; its first statement may have to wait for the lock.
ConfirmPayment(r, b) ==
    /\ At(r, "idle")
    /\ Arrive(r, b, "payArrived", NoRow)
    /\ UNCHANGED <<row, lock, invoices, hold, mails>>

\* SELECT ... FOR UPDATE, then the two checks on what it read: either the
\* request is refused and the transaction rolled back, or it goes on with the
\* row locked.
ConfirmPaymentLock(r) ==
    LET b == req[r].code IN
    /\ At(r, "payArrived")
    /\ Unlocked(b)
    /\ IF Payable(row[b])
       THEN /\ lock' = [lock EXCEPT ![b] = r]
            /\ Arrive(r, b, "payLocked", PaidEntity)
       ELSE /\ End(r, "rejected")
            /\ UNCHANGED lock
    /\ UNCHANGED <<row, invoices, hold, mails>>

\* Slip: the mail is sent from inside the transaction.
ReleaseAndMail(r) ==
    /\ At(r, "payLocked")
    /\ hold' = hold \ {req[r].code}
    /\ mails' = [mails EXCEPT ![req[r].code] = @ \cup {r}]
    /\ Goto(r, "payReleased")
    /\ UNCHANGED <<row, lock, invoices>>

\* UPDATE of the row and INSERT of the invoice, seen by no one before the
\* commit, then DEL of the hold, seen by everyone at once.
ConfirmPaymentRelease(r) ==
    /\ At(r, "payLocked")
    /\ hold' = hold \ {req[r].code}
    /\ Goto(r, "payReleased")
    /\ UNCHANGED <<row, lock, invoices, mails>>

ConfirmPaymentCommit(r) ==
    LET b == req[r].code IN
    /\ At(r, "payReleased")
    /\ row' = [row EXCEPT ![b] = req[r].entity]
    /\ invoices' = [invoices EXCEPT ![b] = @ \cup {r}]
    /\ lock' = [lock EXCEPT ![b] = None]
    /\ Goto(r, "payCommitted")
    /\ UNCHANGED <<hold, mails>>

\* Slip: a failed payment leaves its transaction open.
RollbackForgotten(r) ==
    /\ InPayTransaction(r)
    /\ End(r, "failed")
    /\ UNCHANGED <<row, lock, invoices, hold, mails>>

\* The invoice's code, a statement, the DEL or the commit failed.
PayRollback(r) ==
    /\ InPayTransaction(r)
    /\ lock' = [lock EXCEPT ![req[r].code] = None]
    /\ End(r, "failed")
    /\ UNCHANGED <<row, invoices, hold, mails>>

\* The names for the mail are read, the mail is handed over, the response sent.
SendBookingInvoiceEmail(r) ==
    /\ At(r, "payCommitted")
    /\ mails' = [mails EXCEPT ![req[r].code] = @ \cup {r}]
    /\ End(r, "paid")
    /\ UNCHANGED <<row, lock, invoices, hold>>

(* PATCH /bookings/:code/cancel *)

\* A plain read of the row; the checks; the entity changed in memory.
CancelRead(r, b) ==
    /\ At(r, "idle")
    /\ IF Found(b) /\ Cancellable(row[b])
       THEN Arrive(r, b, "cancelRead", CancelledEntity(row[b]))
       ELSE Arrive(r, b, "rejected", NoRow)
    /\ UNCHANGED <<row, lock, invoices, hold, mails>>

\* save() reads the row it compares the entity with.
CancelLoad(r) ==
    /\ At(r, "cancelRead")
    /\ Load(r, "cancelLoaded")
    /\ UNCHANGED <<row, lock, invoices, hold, mails>>

\* save() updates the columns that differ: cancelled_at always does.
CancelUpdate(r) ==
    LET b == req[r].code IN
    /\ At(r, "cancelLoaded")
    /\ Unlocked(b)
    /\ row' = [row EXCEPT ![b] = Saved(@, req[r].loaded, req[r].entity)]
    /\ Goto(r, "cancelUpdated")
    /\ UNCHANGED <<lock, invoices, hold, mails>>

CancelRemoveHold(r) ==
    /\ At(r, "cancelUpdated")
    /\ hold' = hold \ {req[r].code}
    /\ End(r, "cancelled")
    /\ UNCHANGED <<row, lock, invoices, mails>>

(* PATCH /owner/bookings/:id/status *)

\* A plain read; the status becomes what the owner sent, whatever it was, and
\* the payment status stays what was read.
OwnerRead(r, b, s) ==
    /\ At(r, "idle")
    /\ IF Found(b)
       THEN Arrive(r, b, "ownerRead", OverriddenEntity(row[b], s))
       ELSE Arrive(r, b, "rejected", NoRow)
    /\ UNCHANGED <<row, lock, invoices, hold, mails>>

OwnerLoad(r) ==
    /\ At(r, "ownerRead")
    /\ Load(r, "ownerLoaded")
    /\ UNCHANGED <<row, lock, invoices, hold, mails>>

\* No column differs, no UPDATE, and nothing to wait for.  The hold stays.
OwnerUpdate(r) ==
    LET b == req[r].code IN
    /\ At(r, "ownerLoaded")
    /\ req[r].entity # req[r].loaded => Unlocked(b)
    /\ row' = [row EXCEPT ![b] = Saved(@, req[r].loaded, req[r].entity)]
    /\ End(r, "updated")
    /\ UNCHANGED <<lock, invoices, hold, mails>>

(* Failures and time *)

\* An awaited call of a request that holds no lock throws.
RequestFails(r) ==
    /\ req[r].pc \notin Ended \cup {"idle"}
    /\ ~InPayTransaction(r)
    /\ End(r, "failed")
    /\ UNCHANGED <<row, lock, invoices, hold, mails>>

\* The hold's 120 seconds are over.
ExpireHold(b) ==
    /\ b \in hold
    /\ hold' = hold \ {b}
    /\ UNCHANGED <<row, lock, invoices, mails, req>>

\* Every request has been answered and no key is left to expire.
AllDone ==
    /\ \A r \in Request : req[r].pc \in Ended
    /\ hold = {}
    /\ UNCHANGED vars

-----------------------------------------------------------------------------
\* The awaits of a request in flight that come back with a result.
Continue(r) ==
    \/ \E b \in Booking : GenerateBookingCode(r, b)
    \/ GenerateBookingCodeGivesUp(r)
    \/ InsertBooking(r)
    \/ CreateBookingHold(r)
    \/ ConfirmPaymentLock(r)
    \/ ConfirmPaymentRelease(r)
    \/ ConfirmPaymentCommit(r)
    \/ SendBookingInvoiceEmail(r)
    \/ CancelLoad(r)
    \/ CancelUpdate(r)
    \/ CancelRemoveHold(r)
    \/ OwnerLoad(r)
    \/ OwnerUpdate(r)

Start(r) ==
    \/ CreateAccept(r)
    \/ CreateRefuse(r)
    \/ \E b \in Booking :
          \/ ConfirmPayment(r, b)
          \/ CancelRead(r, b)
          \/ \E s \in OwnerStatus : OwnerRead(r, b, s)

Next ==
    \/ \E r \in Request : Start(r) \/ Continue(r) \/ PayRollback(r) \/ RequestFails(r)
    \/ \E b \in Booking : ExpireHold(b)
    \/ AllDone

Spec == Init /\ [][Next]_vars

\* The event loop resumes every promise that settles, statements and Redis
\* commands are answered, and Redis expires a key whose time has come.  No
\* fairness is asked of arrivals and of failures.
Fairness ==
    /\ \A r \in Request : WF_vars(Continue(r))
    /\ \A b \in Booking : WF_vars(ExpireHold(b))

FairSpec == Spec /\ Fairness

-----------------------------------------------------------------------------
(* Properties *)

\* Every variable keeps the shape the schema and the handlers give it; a request
\* past its first step has a booking, and the lock is held by the payment
\* transaction that took it.
TypeOK ==
    /\ row \in [Booking -> Entity \cup {NoRow}]
    /\ lock \in [Booking -> Request \cup {None}]
    /\ invoices \in [Booking -> SUBSET Request]
    /\ hold \in SUBSET Booking
    /\ mails \in [Booking -> SUBSET Request]
    /\ req \in [Request -> [pc: PC, code: Booking \cup {None},
                           entity: Entity \cup {NoRow}, loaded: Entity \cup {NoRow}]]

\* No booking is PAID without an invoice, whatever a cancellation or an owner
\* writes back from an entity read before, during or after a payment
\* (Repository.save of a stale entity, confirmPayment's rollback).
PaidHasInvoice == \A b \in Booking : row[b].payment = "PAID" => invoices[b] # {}

\* The invoice mail is sent for committed payments only: a payment that was
\* rolled back after its invoice was inserted mails nothing.
MailHasInvoice == \A b \in Booking : mails[b] \subseteq invoices[b]

\* A booking is charged at most once (invoices.booking_id is not unique: only
\* the status check under the row lock prevents a second invoice).
AtMostOneInvoice == \A b \in Booking : \A r, s \in invoices[b] : r = s

\* As long as owners only cancel, a CONFIRMED booking has been paid and invoiced:
\* no save of a stale entity, by a guest or an owner, undoes one half of a payment
\* or revives a cancelled booking.
ConfirmedIsPaid ==
    \A b \in Booking :
        row[b].status = "CONFIRMED" => row[b].payment = "PAID" /\ invoices[b] # {}

\* Payment and invoice happen in one step and only to a booking awaiting
\* payment; only an owner revives a cancelled booking: the promise of
\* BookingLedger, with the table rows as its rows.
Ledger == INSTANCE BookingLedger WITH row <- row, invoices <- invoices
LedgerSpec == Ledger!Spec

\* No request waits for ever: whoever holds a row lock finishes, fails or rolls
\* back, and those waiting for the lock get it.
EveryRequestEnds ==
    \A r \in Request : ~At(r, "idle") ~> req[r].pc \in Ended

\* booking-payment.http:161, "Confirm payment again - already paid -> 400": a
\* booking that is PAID is not charged again.
PaidIsNotChargedAgain ==
    [][\A b \in Booking : row[b].payment = "PAID" => invoices'[b] = invoices[b]]_vars

\* API_TEST_REPORT.md:175-195, "PATCH /bookings/:code/pay runs an atomic DB
\* transaction ... both records consistent": a booking with an invoice is PAID.
InvoicedIsPaid == \A b \in Booking : invoices[b] # {} => row[b].payment = "PAID"

-----------------------------------------------------------------------------
(* The inductive invariant behind the safety properties *)

\* A request between its read and the UPDATE of its save().
Saving(r) == req[r].pc \in {"cancelRead", "cancelLoaded", "ownerRead", "ownerLoaded"}

CodeInv ==
    \A r \in Request :
        req[r].pc \in {"coded", "inserted", "payArrived", "payCommitted", "cancelUpdated"}
            => req[r].code \in Booking

\* The payment transaction has the lock, and what it checked is still so.
TransactionInv ==
    \A r \in Request : InPayTransaction(r) =>
        /\ req[r].code \in Booking
        /\ lock[req[r].code] = r
        /\ row[req[r].code].status = "PENDING_PAYMENT"
        /\ req[r].entity = PaidEntity

\* A stale entity is a row of the booking with its status changed, and claims no
\* payment that was not made.
SaveInv ==
    \A r \in Request : Saving(r) =>
        /\ req[r].code \in Booking
        /\ row[req[r].code] # NoRow
        /\ req[r].entity \in Entity
        /\ req[r].entity.payment \in {"PENDING", "PAID", "CANCELLED"}
        /\ req[r].entity.payment = "PAID" => invoices[req[r].code] # {}
        /\ IF req[r].pc \in {"cancelRead", "cancelLoaded"}
           THEN req[r].entity.status = "CANCELLED" /\ req[r].entity.payment # "PENDING"
           ELSE req[r].entity.status \in OwnerStatus

RowInv ==
    \A b \in Booking :
        /\ row[b].payment \in {"NONE", "PENDING", "PAID", "CANCELLED"}
        /\ row[b].payment = "PAID" => invoices[b] # {}
        /\ row[b] = NoRow => invoices[b] = {}

\* Only a payment that has committed has an invoice, and it keeps it.
InvoiceInv ==
    /\ \A b \in Booking : \A r \in invoices[b] : req[r].pc \in {"payCommitted", "paid", "failed"}
    /\ \A r \in Request : At(r, "payCommitted") => r \in invoices[req[r].code]

\* Only a payment in its transaction has a lock, and on its own booking.
LockInv ==
    \A b \in Booking : lock[b] # None =>
        lock[b] \in Request /\ InPayTransaction(lock[b]) /\ req[lock[b]].code = b

\* What is true before every step and makes the next one safe: a stale entity
\* and a payment transaction in flight never disagree with the tables.
IndInv == TypeOK /\ CodeInv /\ TransactionInv /\ SaveInv /\ RowInv /\ InvoiceInv
=============================================================================
