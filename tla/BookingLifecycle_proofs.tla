----------------------- MODULE BookingLifecycle_proofs -----------------------
(***************************************************************************)
(* Theorems about BookingLifecycle, for any number of bookings and         *)
(* requests, and, at the end, about Review, which adds reviews to it: they *)
(* are backed by payments and unique.  There the steps of the lifecycle    *)
(* are handled by what is proved of it before: its inductive invariant     *)
(* holds, and it implements a ledger that never takes an invoice back.     *)
(***************************************************************************)
EXTENDS Review, TLAPS

-----------------------------------------------------------------------------
(* Helpers *)

LEMMA SavedType ==
    ASSUME NEW c \in Entity, NEW l \in Entity \cup {NoRow}, NEW e \in Entity
    PROVE  Saved(c, l, e) \in Entity
BY DEF Saved, Entity, NoRow, BookingStatus, BookingPaymentStatus

LEMMA EntityTypes ==
    /\ PendingEntity \in Entity
    /\ PaidEntity \in Entity
    /\ NoRow \notin Entity
    /\ \A e \in Entity : CancelledEntity(e) \in Entity
    /\ \A e \in Entity, s \in BookingStatus : OverriddenEntity(e, s) \in Entity
BY DEF OverriddenEntity, PendingEntity, PaidEntity, NoRow, CancelledEntity, Entity,
       BookingStatus, BookingPaymentStatus

-----------------------------------------------------------------------------
(* The inductive invariant *)

LEMMA InitInv == Init => IndInv
BY NoneAssumption
   DEF Init, IndInv, TypeOK, CodeInv, TransactionInv, SaveInv, RowInv, InvoiceInv,
       Idle, PC, At, InPayTransaction, Saving, NoRow

LEMMA NextTypeOK == IndInv /\ [Next]_vars => TypeOK'
<1> SUFFICES ASSUME IndInv, [Next]_vars PROVE TypeOK'
  OBVIOUS
<1> USE EntityTypes DEF IndInv, TypeOK, At, Goto, End, Arrive, Load, PC
<1>1. ASSUME NEW r \in Request, CreateAccept(r) PROVE TypeOK'
  BY <1>1 DEF CreateAccept
<1>2. ASSUME NEW r \in Request, NEW b \in Booking, GenerateBookingCode(r, b) PROVE TypeOK'
  BY <1>2 DEF GenerateBookingCode
<1>3. ASSUME NEW r \in Request, GenerateBookingCodeGivesUp(r) PROVE TypeOK'
  BY <1>3 DEF GenerateBookingCodeGivesUp
<1>4. ASSUME NEW r \in Request, InsertBooking(r) PROVE TypeOK'
  BY <1>4 DEF InsertBooking, CodeInv
<1>5. ASSUME NEW r \in Request, CreateBookingHold(r) PROVE TypeOK'
  BY <1>5 DEF CreateBookingHold, CodeInv
<1>6. ASSUME NEW r \in Request, NEW b \in Booking, ConfirmPayment(r, b) PROVE TypeOK'
  BY <1>6 DEF ConfirmPayment
<1>7. ASSUME NEW r \in Request, ConfirmPaymentLock(r) PROVE TypeOK'
  <2>1. req[r].code \in Booking /\ row' = row /\ invoices' = invoices /\ hold' = hold /\ mails' = mails
    BY <1>7 DEF ConfirmPaymentLock, CodeInv
  <2>2. CASE Payable(row[req[r].code])
    <3>1. lock' = [lock EXCEPT ![req[r].code] = r] /\ Arrive(r, req[r].code, "payLocked", PaidEntity)
      BY <1>7, <2>2 DEF ConfirmPaymentLock
    <3>2. lock' \in [Booking -> Request \cup {None}]
      BY <3>1
    <3>3. req' \in [Request -> [pc: PC, code: Booking \cup {None},
                               entity: Entity \cup {NoRow}, loaded: Entity \cup {NoRow}]]
      BY <2>1, <3>1
    <3>4. QED
      BY <2>1, <3>2, <3>3
  <2>3. CASE ~Payable(row[req[r].code])
    BY <1>7, <2>1, <2>3 DEF ConfirmPaymentLock
  <2>4. QED
    BY <2>2, <2>3
<1>8. ASSUME NEW r \in Request, ConfirmPaymentRelease(r) PROVE TypeOK'
  BY <1>8 DEF ConfirmPaymentRelease
<1>9. ASSUME NEW r \in Request, ConfirmPaymentCommit(r) PROVE TypeOK'
  <2>1. req[r].code \in Booking /\ req[r].entity \in Entity
    BY <1>9 DEF ConfirmPaymentCommit, TransactionInv, InPayTransaction
  <2>2. row' \in [Booking -> Entity \cup {NoRow}]
    BY <1>9, <2>1 DEF ConfirmPaymentCommit
  <2>3. invoices' \in [Booking -> SUBSET Request] /\ lock' \in [Booking -> Request \cup {None}]
    BY <1>9, <2>1 DEF ConfirmPaymentCommit
  <2>4. hold' = hold /\ mails' = mails /\ Goto(r, "payCommitted")
    BY <1>9 DEF ConfirmPaymentCommit
  <2>5. req' \in [Request -> [pc: PC, code: Booking \cup {None},
                             entity: Entity \cup {NoRow}, loaded: Entity \cup {NoRow}]]
    BY <2>4
  <2>6. QED
    BY <2>2, <2>3, <2>4, <2>5
<1>10. ASSUME NEW r \in Request, PayRollback(r) PROVE TypeOK'
  BY <1>10 DEF PayRollback
<1>11. ASSUME NEW r \in Request, SendBookingInvoiceEmail(r) PROVE TypeOK'
  BY <1>11 DEF SendBookingInvoiceEmail
<1>12. ASSUME NEW r \in Request, NEW b \in Booking, CancelRead(r, b) PROVE TypeOK'
  BY <1>12 DEF CancelRead, Found
<1>13. ASSUME NEW r \in Request, CancelLoad(r) PROVE TypeOK'
  BY <1>13 DEF CancelLoad, SaveInv, Saving
<1>14. ASSUME NEW r \in Request, CancelUpdate(r) PROVE TypeOK'
  BY <1>14, SavedType DEF CancelUpdate, SaveInv, Saving
<1>15. ASSUME NEW r \in Request, CancelRemoveHold(r) PROVE TypeOK'
  BY <1>15 DEF CancelRemoveHold
<1>16. ASSUME NEW r \in Request, NEW b \in Booking, NEW s \in OwnerStatus, OwnerRead(r, b, s)
       PROVE TypeOK'
  BY <1>16, OwnerStatusAssumption DEF OwnerRead, Found
<1>17. ASSUME NEW r \in Request, OwnerLoad(r) PROVE TypeOK'
  BY <1>17 DEF OwnerLoad, SaveInv, Saving
<1>18. ASSUME NEW r \in Request, OwnerUpdate(r) PROVE TypeOK'
  BY <1>18, SavedType DEF OwnerUpdate, SaveInv, Saving
<1>19. ASSUME NEW r \in Request, RequestFails(r) PROVE TypeOK'
  BY <1>19 DEF RequestFails
<1>20. ASSUME NEW b \in Booking, ExpireHold(b) PROVE TypeOK'
  BY <1>20 DEF ExpireHold
<1>21. CASE UNCHANGED vars
  BY <1>21 DEF vars
<1>22. ASSUME NEW r \in Request, CreateRefuse(r) PROVE TypeOK'
  BY <1>22 DEF CreateRefuse
<1>23. QED
  BY <1>1, <1>2, <1>3, <1>4, <1>5, <1>6, <1>7, <1>8, <1>9, <1>10, <1>11, <1>12,
     <1>13, <1>14, <1>15, <1>16, <1>17, <1>18, <1>19, <1>20, <1>21, <1>22
     DEF Next, Start, Continue, AllDone

LEMMA NextRest ==
    IndInv /\ [Next]_vars => CodeInv' /\ TransactionInv' /\ SaveInv' /\ RowInv' /\ InvoiceInv'
<1> DEFINE Rest == CodeInv /\ TransactionInv /\ SaveInv /\ RowInv /\ InvoiceInv
<1> SUFFICES ASSUME IndInv, [Next]_vars PROVE Rest'
  OBVIOUS
<1> USE EntityTypes, NoneAssumption DEF IndInv, TypeOK, At, Goto, End, Arrive, Load, InPayTransaction, Saving
<1>1. ASSUME NEW r \in Request, CreateAccept(r) PROVE Rest'
  <2>1. CodeInv'
    BY <1>1 DEF CreateAccept, CodeInv
  <2>2. TransactionInv'
    BY <1>1 DEF CreateAccept, TransactionInv
  <2>3. SaveInv'
    BY <1>1 DEF CreateAccept, SaveInv
  <2>4. RowInv'
    BY <1>1 DEF CreateAccept, RowInv
  <2>5. InvoiceInv'
    BY <1>1 DEF CreateAccept, InvoiceInv
  <2>6. QED
    BY <2>1, <2>2, <2>3, <2>4, <2>5
<1>2. ASSUME NEW r \in Request, NEW b \in Booking, GenerateBookingCode(r, b) PROVE Rest'
  <2>1. CodeInv'
    BY <1>2 DEF GenerateBookingCode, CodeInv
  <2>2. TransactionInv'
    BY <1>2 DEF GenerateBookingCode, TransactionInv
  <2>3. SaveInv'
    BY <1>2 DEF GenerateBookingCode, SaveInv
  <2>4. RowInv'
    BY <1>2 DEF GenerateBookingCode, RowInv
  <2>5. InvoiceInv'
    BY <1>2 DEF GenerateBookingCode, InvoiceInv
  <2>6. QED
    BY <2>1, <2>2, <2>3, <2>4, <2>5
<1>3. ASSUME NEW r \in Request, GenerateBookingCodeGivesUp(r) PROVE Rest'
  <2>1. CodeInv'
    BY <1>3 DEF GenerateBookingCodeGivesUp, CodeInv
  <2>2. TransactionInv'
    BY <1>3 DEF GenerateBookingCodeGivesUp, TransactionInv
  <2>3. SaveInv'
    BY <1>3 DEF GenerateBookingCodeGivesUp, SaveInv
  <2>4. RowInv'
    BY <1>3 DEF GenerateBookingCodeGivesUp, RowInv
  <2>5. InvoiceInv'
    BY <1>3 DEF GenerateBookingCodeGivesUp, InvoiceInv
  <2>6. QED
    BY <2>1, <2>2, <2>3, <2>4, <2>5
<1>4. ASSUME NEW r \in Request, InsertBooking(r) PROVE Rest'
  <2>1. CodeInv'
    BY <1>4 DEF InsertBooking, CodeInv
  <2>2. TransactionInv'
    BY <1>4 DEF InsertBooking, TransactionInv, CodeInv, PendingEntity, NoRow
  <2>3. SaveInv'
    BY <1>4 DEF InsertBooking, SaveInv
  <2>4. RowInv'
    BY <1>4 DEF InsertBooking, RowInv, CodeInv, PendingEntity, NoRow
  <2>5. InvoiceInv'
    BY <1>4 DEF InsertBooking, InvoiceInv
  <2>6. QED
    BY <2>1, <2>2, <2>3, <2>4, <2>5
<1>5. ASSUME NEW r \in Request, CreateBookingHold(r) PROVE Rest'
  <2>1. CodeInv'
    BY <1>5 DEF CreateBookingHold, CodeInv
  <2>2. TransactionInv'
    BY <1>5 DEF CreateBookingHold, TransactionInv
  <2>3. SaveInv'
    BY <1>5 DEF CreateBookingHold, SaveInv
  <2>4. RowInv'
    BY <1>5 DEF CreateBookingHold, RowInv
  <2>5. InvoiceInv'
    BY <1>5 DEF CreateBookingHold, InvoiceInv
  <2>6. QED
    BY <2>1, <2>2, <2>3, <2>4, <2>5
<1>6. ASSUME NEW r \in Request, NEW b \in Booking, ConfirmPayment(r, b) PROVE Rest'
  <2>1. CodeInv'
    BY <1>6 DEF ConfirmPayment, CodeInv
  <2>2. TransactionInv'
    BY <1>6 DEF ConfirmPayment, TransactionInv
  <2>3. SaveInv'
    BY <1>6 DEF ConfirmPayment, SaveInv
  <2>4. RowInv'
    BY <1>6 DEF ConfirmPayment, RowInv
  <2>5. InvoiceInv'
    BY <1>6 DEF ConfirmPayment, InvoiceInv
  <2>6. QED
    BY <2>1, <2>2, <2>3, <2>4, <2>5
<1>7. ASSUME NEW r \in Request, ConfirmPaymentLock(r) PROVE Rest'
  <2>1. CodeInv'
    <3>1. \A q \in Request \ {r} : req'[q] = req[q]
      BY <1>7 DEF ConfirmPaymentLock
    <3>2. req'[r].pc \in {"payLocked", "rejected"}
      BY <1>7 DEF ConfirmPaymentLock
    <3>3. QED
      BY <3>1, <3>2 DEF CodeInv
  <2>2. TransactionInv'
    <3> DEFINE b == req[r].code
    <3>1. b \in Booking /\ row' = row /\ lock[b] = None
      BY <1>7 DEF ConfirmPaymentLock, CodeInv, Unlocked
    <3>2. ASSUME NEW q \in Request, q # r, InPayTransaction(q)'
          PROVE  InPayTransaction(q) /\ req'[q] = req[q] /\ lock'[req[q].code] = lock[req[q].code]
      BY <1>7, <3>1, <3>2 DEF ConfirmPaymentLock, TransactionInv
    <3>3. InPayTransaction(r)' => /\ req'[r].code = b /\ req'[r].entity = PaidEntity
                                  /\ lock'[b] = r /\ row[b].status = "PENDING_PAYMENT"
      BY <1>7, <3>1 DEF ConfirmPaymentLock, Payable
    <3>4. QED
      BY <3>1, <3>2, <3>3 DEF TransactionInv
  <2>3. SaveInv'
    BY <1>7 DEF ConfirmPaymentLock, SaveInv
  <2>4. RowInv'
    BY <1>7 DEF ConfirmPaymentLock, RowInv
  <2>5. InvoiceInv'
    <3>1. \A q \in Request \ {r} : req'[q] = req[q]
      BY <1>7 DEF ConfirmPaymentLock
    <3>2. req[r].pc = "payArrived" /\ req'[r].pc \in {"payLocked", "rejected"}
      BY <1>7 DEF ConfirmPaymentLock
    <3>3. invoices' = invoices
      BY <1>7 DEF ConfirmPaymentLock
    <3>4. QED
      BY <3>1, <3>2, <3>3 DEF InvoiceInv
  <2>6. QED
    BY <2>1, <2>2, <2>3, <2>4, <2>5
<1>8. ASSUME NEW r \in Request, ConfirmPaymentRelease(r) PROVE Rest'
  <2>1. CodeInv'
    BY <1>8 DEF ConfirmPaymentRelease, CodeInv
  <2>2. TransactionInv'
    BY <1>8 DEF ConfirmPaymentRelease, TransactionInv
  <2>3. SaveInv'
    BY <1>8 DEF ConfirmPaymentRelease, SaveInv
  <2>4. RowInv'
    BY <1>8 DEF ConfirmPaymentRelease, RowInv
  <2>5. InvoiceInv'
    BY <1>8 DEF ConfirmPaymentRelease, InvoiceInv
  <2>6. QED
    BY <2>1, <2>2, <2>3, <2>4, <2>5
<1>9. ASSUME NEW r \in Request, ConfirmPaymentCommit(r) PROVE Rest'
  <2>1. CodeInv'
    BY <1>9 DEF ConfirmPaymentCommit, CodeInv, TransactionInv
  <2>2. TransactionInv'
    BY <1>9 DEF ConfirmPaymentCommit, TransactionInv
  <2>3. SaveInv'
    BY <1>9 DEF ConfirmPaymentCommit, SaveInv, TransactionInv
  <2>4. RowInv'
    <3> DEFINE c == req[r].code
    <3>1. c \in Booking /\ row' = [row EXCEPT ![c] = PaidEntity]
      BY <1>9 DEF ConfirmPaymentCommit, TransactionInv
    <3>2. invoices' = [invoices EXCEPT ![c] = @ \cup {r}]
      BY <1>9 DEF ConfirmPaymentCommit
    <3>3. row'[c].payment = "PAID" /\ row'[c] # NoRow /\ invoices'[c] # {}
      BY <3>1, <3>2 DEF PaidEntity, NoRow
    <3>4. \A b \in Booking \ {c} : row'[b] = row[b] /\ invoices'[b] = invoices[b]
      BY <3>1, <3>2
    <3>5. QED
      BY <3>3, <3>4 DEF RowInv
  <2>5. InvoiceInv'
    BY <1>9 DEF ConfirmPaymentCommit, InvoiceInv, TransactionInv
  <2>6. QED
    BY <2>1, <2>2, <2>3, <2>4, <2>5
<1>10. ASSUME NEW r \in Request, PayRollback(r) PROVE Rest'
  <2>1. CodeInv'
    BY <1>10 DEF PayRollback, CodeInv
  <2>2. TransactionInv'
    BY <1>10 DEF PayRollback, TransactionInv
  <2>3. SaveInv'
    BY <1>10 DEF PayRollback, SaveInv
  <2>4. RowInv'
    BY <1>10 DEF PayRollback, RowInv
  <2>5. InvoiceInv'
    BY <1>10 DEF PayRollback, InvoiceInv
  <2>6. QED
    BY <2>1, <2>2, <2>3, <2>4, <2>5
<1>11. ASSUME NEW r \in Request, SendBookingInvoiceEmail(r) PROVE Rest'
  <2>1. CodeInv'
    BY <1>11 DEF SendBookingInvoiceEmail, CodeInv
  <2>2. TransactionInv'
    BY <1>11 DEF SendBookingInvoiceEmail, TransactionInv
  <2>3. SaveInv'
    BY <1>11 DEF SendBookingInvoiceEmail, SaveInv
  <2>4. RowInv'
    BY <1>11 DEF SendBookingInvoiceEmail, RowInv
  <2>5. InvoiceInv'
    BY <1>11 DEF SendBookingInvoiceEmail, InvoiceInv
  <2>6. QED
    BY <2>1, <2>2, <2>3, <2>4, <2>5
<1>12. ASSUME NEW r \in Request, NEW b \in Booking, CancelRead(r, b) PROVE Rest'
  <2>1. CodeInv'
    BY <1>12 DEF CancelRead, CodeInv
  <2>2. TransactionInv'
    BY <1>12 DEF CancelRead, TransactionInv
  <2>3. SaveInv'
    <3> DEFINE e == CancelledEntity(row[b])
    <3>1. CASE row[b] # NoRow /\ Cancellable(row[b])
      <4>1. req' = [req EXCEPT ![r] = [pc |-> "cancelRead", code |-> b,
                                       entity |-> e, loaded |-> NoRow]]
        BY <1>12, <3>1 DEF CancelRead, Found
      <4>2. e \in Entity /\ e.status = "CANCELLED"
        BY <3>1 DEF CancelledEntity
      <4>3. e.payment \in {"PAID", "CANCELLED"} /\ (e.payment = "PAID" => invoices[b] # {})
        BY <3>1 DEF CancelledEntity, RowInv, Entity, BookingPaymentStatus
      <4> HIDE DEF e
      <4>4. QED
        BY <1>12, <3>1, <4>1, <4>2, <4>3 DEF CancelRead, SaveInv
    <3>2. CASE ~(row[b] # NoRow /\ Cancellable(row[b]))
      BY <1>12, <3>2 DEF CancelRead, SaveInv, Found
    <3>3. QED
      BY <3>1, <3>2
  <2>4. RowInv'
    BY <1>12 DEF CancelRead, RowInv
  <2>5. InvoiceInv'
    <3>1. UNCHANGED invoices
      BY <1>12 DEF CancelRead
    <3>2. \E pc \in {"cancelRead", "rejected"} : \E e : Arrive(r, b, pc, e)
      BY <1>12 DEF CancelRead
    <3>3. QED
      BY <1>12, <3>1, <3>2 DEF CancelRead, InvoiceInv
  <2>6. QED
    BY <2>1, <2>2, <2>3, <2>4, <2>5
<1>13. ASSUME NEW r \in Request, CancelLoad(r) PROVE Rest'
  <2>1. CodeInv'
    BY <1>13 DEF CancelLoad, CodeInv
  <2>2. TransactionInv'
    BY <1>13 DEF CancelLoad, TransactionInv
  <2>3. SaveInv'
    BY <1>13 DEF CancelLoad, SaveInv
  <2>4. RowInv'
    BY <1>13 DEF CancelLoad, RowInv
  <2>5. InvoiceInv'
    BY <1>13 DEF CancelLoad, InvoiceInv
  <2>6. QED
    BY <2>1, <2>2, <2>3, <2>4, <2>5
<1>14. ASSUME NEW r \in Request, CancelUpdate(r) PROVE Rest'
  <2>1. CodeInv'
    BY <1>14 DEF CancelUpdate, CodeInv, SaveInv
  <2>2. TransactionInv'
    BY <1>14 DEF CancelUpdate, TransactionInv, Unlocked
  <2>3. SaveInv'
    BY <1>14, SavedType DEF CancelUpdate, SaveInv
  <2>4. RowInv'
    BY <1>14, SavedType DEF CancelUpdate, RowInv, SaveInv, Saved
  <2>5. InvoiceInv'
    BY <1>14 DEF CancelUpdate, InvoiceInv
  <2>6. QED
    BY <2>1, <2>2, <2>3, <2>4, <2>5
<1>15. ASSUME NEW r \in Request, CancelRemoveHold(r) PROVE Rest'
  <2>1. CodeInv'
    BY <1>15 DEF CancelRemoveHold, CodeInv
  <2>2. TransactionInv'
    BY <1>15 DEF CancelRemoveHold, TransactionInv
  <2>3. SaveInv'
    BY <1>15 DEF CancelRemoveHold, SaveInv
  <2>4. RowInv'
    BY <1>15 DEF CancelRemoveHold, RowInv
  <2>5. InvoiceInv'
    BY <1>15 DEF CancelRemoveHold, InvoiceInv
  <2>6. QED
    BY <2>1, <2>2, <2>3, <2>4, <2>5
<1>16. ASSUME NEW r \in Request, NEW b \in Booking, NEW s \in OwnerStatus, OwnerRead(r, b, s) PROVE Rest'
  <2>1. CodeInv'
    BY <1>16 DEF OwnerRead, CodeInv
  <2>2. TransactionInv'
    BY <1>16 DEF OwnerRead, TransactionInv
  <2>3. SaveInv'
    <3> DEFINE e == OverriddenEntity(row[b], s)
    <3>1. CASE row[b] # NoRow
      <4>1. req' = [req EXCEPT ![r] = [pc |-> "ownerRead", code |-> b,
                                       entity |-> e, loaded |-> NoRow]]
        BY <1>16, <3>1 DEF OwnerRead, Found
      <4>2. e \in Entity /\ e.status = s
        BY <3>1, OwnerStatusAssumption DEF OverriddenEntity
      <4>3. e.payment \in {"PENDING", "PAID", "CANCELLED"} /\ (e.payment = "PAID" => invoices[b] # {})
        BY <3>1 DEF OverriddenEntity, RowInv, Entity, BookingPaymentStatus
      <4> HIDE DEF e
      <4>4. QED
        BY <1>16, <3>1, <4>1, <4>2, <4>3 DEF OwnerRead, SaveInv
    <3>2. CASE row[b] = NoRow
      BY <1>16, <3>2 DEF OwnerRead, SaveInv, Found
    <3>3. QED
      BY <3>1, <3>2
  <2>4. RowInv'
    BY <1>16 DEF OwnerRead, RowInv
  <2>5. InvoiceInv'
    <3>1. UNCHANGED invoices
      BY <1>16 DEF OwnerRead
    <3>2. \E pc \in {"ownerRead", "rejected"} : \E e : Arrive(r, b, pc, e)
      BY <1>16 DEF OwnerRead
    <3>3. QED
      BY <1>16, <3>1, <3>2 DEF OwnerRead, InvoiceInv
  <2>6. QED
    BY <2>1, <2>2, <2>3, <2>4, <2>5
<1>17. ASSUME NEW r \in Request, OwnerLoad(r) PROVE Rest'
  <2>1. CodeInv'
    BY <1>17 DEF OwnerLoad, CodeInv
  <2>2. TransactionInv'
    BY <1>17 DEF OwnerLoad, TransactionInv
  <2>3. SaveInv'
    BY <1>17 DEF OwnerLoad, SaveInv
  <2>4. RowInv'
    BY <1>17 DEF OwnerLoad, RowInv
  <2>5. InvoiceInv'
    BY <1>17 DEF OwnerLoad, InvoiceInv
  <2>6. QED
    BY <2>1, <2>2, <2>3, <2>4, <2>5
<1>18. ASSUME NEW r \in Request, OwnerUpdate(r) PROVE Rest'
  <2>1. CodeInv'
    BY <1>18 DEF OwnerUpdate, CodeInv
  <2>2. TransactionInv'
    BY <1>18 DEF OwnerUpdate, TransactionInv, SaveInv, Unlocked, Saved
  <2>3. SaveInv'
    BY <1>18, SavedType DEF OwnerUpdate, SaveInv
  <2>4. RowInv'
    BY <1>18, SavedType DEF OwnerUpdate, RowInv, SaveInv, Saved
  <2>5. InvoiceInv'
    BY <1>18 DEF OwnerUpdate, InvoiceInv
  <2>6. QED
    BY <2>1, <2>2, <2>3, <2>4, <2>5
<1>19. ASSUME NEW r \in Request, RequestFails(r) PROVE Rest'
  <2>1. CodeInv'
    BY <1>19 DEF RequestFails, CodeInv
  <2>2. TransactionInv'
    BY <1>19 DEF RequestFails, TransactionInv
  <2>3. SaveInv'
    BY <1>19 DEF RequestFails, SaveInv
  <2>4. RowInv'
    BY <1>19 DEF RequestFails, RowInv
  <2>5. InvoiceInv'
    BY <1>19 DEF RequestFails, InvoiceInv
  <2>6. QED
    BY <2>1, <2>2, <2>3, <2>4, <2>5
<1>20. ASSUME NEW b \in Booking, ExpireHold(b) PROVE Rest'
  BY <1>20 DEF ExpireHold, CodeInv, TransactionInv, SaveInv, RowInv, InvoiceInv
<1>21. CASE UNCHANGED vars
  BY <1>21 DEF vars, CodeInv, TransactionInv, SaveInv, RowInv, InvoiceInv
<1>22. ASSUME NEW r \in Request, CreateRefuse(r) PROVE Rest'
  BY <1>22 DEF CreateRefuse, CodeInv, TransactionInv, SaveInv, RowInv, InvoiceInv
<1>23. QED
  BY <1>1, <1>2, <1>3, <1>4, <1>5, <1>6, <1>7, <1>8, <1>9, <1>10, <1>11, <1>12, <1>13, <1>14, <1>15, <1>16, <1>17, <1>18, <1>19, <1>20, <1>21, <1>22
     DEF Next, Start, Continue, AllDone

\* A payment in its transaction holds its booking's lock and the booking still awaits
\* it, and an entity about to be saved claims no payment that was not made.
THEOREM Invariance == Spec => []IndInv
<1>1. IndInv /\ [Next]_vars => IndInv'
  BY NextTypeOK, NextRest DEF IndInv
<1>2. QED
  BY InitInv, <1>1, PTL DEF Spec

-----------------------------------------------------------------------------
(* Safety *)

\* The variables keep their types in every reachable state.
THEOREM TypeCorrect == Spec => []TypeOK
BY Invariance, PTL DEF IndInv

\* No booking is ever PAID without an invoice, whatever cancellations and owner
\* updates write back from entities they read before or after the payment.
THEOREM PaymentBacked == Spec => []PaidHasInvoice
<1>1. IndInv => PaidHasInvoice
  BY DEF IndInv, RowInv, PaidHasInvoice
<1>2. QED
  BY <1>1, Invariance, PTL

\* A mail is only sent for a payment whose invoice has been committed.
THEOREM MailsBacked == Spec => []MailHasInvoice
<1>1. Init => MailHasInvoice
  BY DEF Init, MailHasInvoice
<1>2. IndInv /\ MailHasInvoice /\ [Next]_vars => MailHasInvoice'
  <2> SUFFICES ASSUME IndInv, MailHasInvoice, [Next]_vars
               PROVE  MailHasInvoice'
    OBVIOUS
  <2> USE DEF IndInv, TypeOK, MailHasInvoice
  <2>1. ASSUME NEW r \in Request, SendBookingInvoiceEmail(r) PROVE MailHasInvoice'
    BY <2>1 DEF SendBookingInvoiceEmail, InvoiceInv
  <2>2. ASSUME NEW r \in Request, ConfirmPaymentCommit(r) PROVE MailHasInvoice'
    BY <2>2 DEF ConfirmPaymentCommit
  <2>3. CASE UNCHANGED <<mails, invoices>>
    BY <2>3
  <2>4. QED
    BY <2>1, <2>2, <2>3
       DEF Next, Start, Continue, AllDone, vars, CreateAccept, CreateRefuse, GenerateBookingCode,
           GenerateBookingCodeGivesUp, InsertBooking, CreateBookingHold, ConfirmPayment,
           ConfirmPaymentLock, ConfirmPaymentRelease, PayRollback, CancelRead, CancelLoad,
           CancelUpdate, CancelRemoveHold, OwnerRead, OwnerLoad, OwnerUpdate, RequestFails,
           ExpireHold
<1>3. QED
  BY <1>1, <1>2, Invariance, PTL DEF Spec

\* When owners never send PENDING_PAYMENT, a booking is never invoiced twice,
\* however payments, cancellations and owner updates interleave.
THEOREM ChargedOnce ==
    ASSUME "PENDING_PAYMENT" \notin OwnerStatus
    PROVE  Spec => []AtMostOneInvoice
<1> DEFINE Settled == \A b \in Booking : invoices[b] # {} => row[b].status # "PENDING_PAYMENT"
           Once == AtMostOneInvoice /\ Settled
<1>1. Init => Once
  BY DEF Init, AtMostOneInvoice
<1>2. IndInv /\ Once /\ [Next]_vars => Once'
  <2> SUFFICES ASSUME IndInv, Once, [Next]_vars
               PROVE  Once'
    OBVIOUS
  <2> USE DEF IndInv, TypeOK, AtMostOneInvoice
  <2>1. ASSUME NEW r \in Request, ConfirmPaymentCommit(r) PROVE Once'
    <3> DEFINE c == req[r].code
    <3>1. c \in Booking /\ invoices[c] = {}
      BY <2>1 DEF ConfirmPaymentCommit, TransactionInv, InPayTransaction, At
    <3>2. invoices'[c] = {r} /\ row'[c].status = "CONFIRMED"
      BY <2>1, <3>1 DEF ConfirmPaymentCommit, TransactionInv, InPayTransaction, At, PaidEntity
    <3>3. \A b \in Booking \ {c} : row'[b] = row[b] /\ invoices'[b] = invoices[b]
      BY <2>1 DEF ConfirmPaymentCommit
    <3>4. QED
      BY <3>2, <3>3
  <2>2. ASSUME NEW r \in Request, InsertBooking(r) PROVE Once'
    BY <2>2 DEF InsertBooking, RowInv, CodeInv, At
  <2>3. ASSUME NEW r \in Request, CancelUpdate(r) \/ OwnerUpdate(r) PROVE Once'
    <3> DEFINE c == req[r].code
    <3>1. c \in Booking /\ req[r].entity.status # "PENDING_PAYMENT"
      BY <2>3 DEF CancelUpdate, OwnerUpdate, SaveInv, Saving, At
    <3>2. row' = [row EXCEPT ![c] = Saved(@, req[r].loaded, req[r].entity)] /\ invoices' = invoices
      BY <2>3 DEF CancelUpdate, OwnerUpdate
    <3>3. row'[c].status \in {row[c].status, req[r].entity.status}
      BY <3>1, <3>2 DEF Saved
    <3>4. QED
      BY <3>1, <3>2, <3>3
  <2>4. CASE UNCHANGED <<row, invoices>>
    BY <2>4
  <2>5. QED
    BY <2>1, <2>2, <2>3, <2>4
       DEF Next, Start, Continue, AllDone, vars, CreateAccept, CreateRefuse, GenerateBookingCode,
           GenerateBookingCodeGivesUp, CreateBookingHold, ConfirmPayment,
           ConfirmPaymentLock, ConfirmPaymentRelease, PayRollback, SendBookingInvoiceEmail,
           CancelRead, CancelLoad, CancelRemoveHold, OwnerRead, OwnerLoad, RequestFails,
           ExpireHold
<1>3. Once => AtMostOneInvoice
  OBVIOUS
<1>4. QED
  BY <1>1, <1>2, <1>3, Invariance, PTL DEF Spec

\* A status no handler leaves again, unless an owner sends another.
Closed == {"CANCELLED", "EXPIRED", "FAILED"}

\* When owners only close bookings, a CONFIRMED one has been paid and invoiced: what
\* a stale entity is compared with is closed only if the row still is, so that a save
\* which leaves the status alone cannot meet a payment made since.
THEOREM ConfirmedWasPaid ==
    ASSUME OwnerStatus \subseteq Closed
    PROVE  Spec => []ConfirmedIsPaid
<1> DEFINE Comparing(r) == req[r].pc \in {"cancelLoaded", "ownerLoaded"}
           StillClosed == \A r \in Request :
               Comparing(r) /\ req[r].loaded.status \in Closed => row[req[r].code].status \in Closed
           Paid == \A b \in Booking : row[b].status = "CONFIRMED" => row[b].payment = "PAID"
           CInv == Paid /\ StillClosed
<1>1. Init => CInv
  BY DEF Init, Idle, NoRow
<1>2. IndInv /\ CInv /\ [Next]_vars => CInv'
  <2> SUFFICES ASSUME IndInv, CInv, [Next]_vars
               PROVE  CInv'
    OBVIOUS
  <2> USE DEF IndInv, TypeOK, At
  <2>1. ASSUME NEW r \in Request, ConfirmPaymentCommit(r) PROVE CInv'
    <3> DEFINE c == req[r].code
    <3>1. c \in Booking /\ row[c].status = "PENDING_PAYMENT" /\ row' = [row EXCEPT ![c] = PaidEntity]
      BY <2>1 DEF ConfirmPaymentCommit, TransactionInv, InPayTransaction
    <3>2. Paid'
      BY <3>1 DEF PaidEntity
    <3>3. \A q \in Request : Comparing(q)' => Comparing(q) /\ req'[q] = req[q]
      BY <2>1 DEF ConfirmPaymentCommit, Goto
    <3>4. StillClosed'
      BY <3>1, <3>3 DEF Closed, PaidEntity, SaveInv, Saving
    <3>5. QED
      BY <3>2, <3>4
  <2>2. ASSUME NEW r \in Request, InsertBooking(r) PROVE CInv'
    <3> DEFINE c == req[r].code
    <3>1. c \in Booking /\ (row' = row \/ (row[c] = NoRow /\ row' = [row EXCEPT ![c] = PendingEntity]))
      BY <2>2 DEF InsertBooking, CodeInv
    <3>2. Paid'
      BY <3>1 DEF PendingEntity
    <3>3. \A q \in Request : Comparing(q)' => Comparing(q) /\ req'[q] = req[q]
      BY <2>2 DEF InsertBooking, Goto, End
    <3>4. \A q \in Request : Comparing(q) => row'[req[q].code] = row[req[q].code]
      BY <3>1 DEF SaveInv, Saving
    <3>5. StillClosed'
      BY <3>3, <3>4
    <3>6. QED
      BY <3>2, <3>5
  <2>3. ASSUME NEW r \in Request, CancelUpdate(r) \/ OwnerUpdate(r) PROVE CInv'
    <3> DEFINE c == req[r].code
               e == req[r].entity
    <3>1. c \in Booking /\ Comparing(r) /\ e.status \in Closed
      BY <2>3 DEF CancelUpdate, OwnerUpdate, SaveInv, Saving, Closed
    <3>2. row' = [row EXCEPT ![c] = Saved(@, req[r].loaded, e)]
      BY <2>3 DEF CancelUpdate, OwnerUpdate
    <3>3. row'[c].status \in Closed
      BY <3>1, <3>2 DEF Saved
    <3>4. \A b \in Booking \ {c} : row'[b] = row[b]
      BY <3>2
    <3>5. \A q \in Request : Comparing(q)' => Comparing(q) /\ req'[q] = req[q]
      BY <2>3 DEF CancelUpdate, OwnerUpdate, Goto, End
    <3>6. StillClosed'
      BY <3>3, <3>4, <3>5 DEF SaveInv, Saving
    <3>7. QED
      BY <3>3, <3>4, <3>6 DEF Closed
  <2>4. ASSUME NEW r \in Request, CancelLoad(r) \/ OwnerLoad(r) PROVE CInv'
    <3>1. row' = row /\ req'[r].code = req[r].code /\ req'[r].loaded = row[req[r].code]
      BY <2>4 DEF CancelLoad, OwnerLoad, Load
    <3>2. \A q \in Request \ {r} : req'[q] = req[q]
      BY <2>4 DEF CancelLoad, OwnerLoad, Load
    <3>3. QED
      BY <3>1, <3>2
  <2>5. ASSUME UNCHANGED row, \A q \in Request : Comparing(q)' => Comparing(q) /\ req'[q] = req[q]
        PROVE  CInv'
    BY <2>5
  <2>6. CASE UNCHANGED vars
    BY <2>6 DEF vars
  <2>7. QED
    BY <2>1, <2>2, <2>3, <2>4, <2>5, <2>6
       DEF Next, Start, Continue, AllDone, CreateAccept, CreateRefuse, GenerateBookingCode,
           GenerateBookingCodeGivesUp, CreateBookingHold, ConfirmPayment,
           ConfirmPaymentLock, ConfirmPaymentRelease, PayRollback, SendBookingInvoiceEmail,
           CancelRead, CancelRemoveHold, OwnerRead, RequestFails, ExpireHold,
           Goto, End, Arrive
<1>3. IndInv /\ CInv => ConfirmedIsPaid
  BY DEF IndInv, RowInv, ConfirmedIsPaid
<1>4. QED
  BY <1>1, <1>2, <1>3, Invariance, PTL DEF Spec

\* Whoever has a row's lock is a payment of that booking between its SELECT ... FOR
\* UPDATE and its commit or rollback: a lock is never left behind.
LEMMA LocksHaveHolders == Spec => []LockInv
<1>1. Init => LockInv
  BY DEF Init, LockInv
<1>2. IndInv /\ LockInv /\ [Next]_vars => LockInv'
  <2> SUFFICES ASSUME IndInv, LockInv, [Next]_vars
               PROVE  LockInv'
    OBVIOUS
  <2> USE DEF IndInv, TypeOK, At, LockInv
  <2>1. ASSUME NEW r \in Request, ConfirmPaymentLock(r) PROVE LockInv'
    <3> DEFINE c == req[r].code
    <3>1. c \in Booking
      BY <2>1 DEF ConfirmPaymentLock, CodeInv
    <3>2. \A q \in Request \ {r} : req'[q] = req[q]
      BY <2>1 DEF ConfirmPaymentLock, Arrive, End
    <3>3. ~InPayTransaction(r)
      BY <2>1 DEF ConfirmPaymentLock, InPayTransaction
    <3>4. \/ lock' = lock
          \/ lock' = [lock EXCEPT ![c] = r] /\ req'[r].pc = "payLocked" /\ req'[r].code = c
      BY <2>1 DEF ConfirmPaymentLock, Arrive
    <3>5. QED
      BY <3>1, <3>2, <3>3, <3>4 DEF InPayTransaction
  <2>2. ASSUME NEW r \in Request, ConfirmPaymentCommit(r) \/ PayRollback(r) PROVE LockInv'
    <3> DEFINE c == req[r].code
    <3>1. lock' = [lock EXCEPT ![c] = None] /\ c \in Booking
      BY <2>2 DEF ConfirmPaymentCommit, PayRollback, TransactionInv, InPayTransaction
    <3>2. \A q \in Request \ {r} : req'[q] = req[q]
      BY <2>2 DEF ConfirmPaymentCommit, PayRollback, Goto, End
    <3>3. QED
      BY <3>1, <3>2 DEF InPayTransaction
  <2>3. ASSUME UNCHANGED lock,
               \A q \in Request : InPayTransaction(q) => InPayTransaction(q)' /\ req'[q].code = req[q].code
        PROVE  LockInv'
    BY <2>3
  <2>4. CASE UNCHANGED vars
    BY <2>4 DEF vars, InPayTransaction
  <2>5. QED
    BY <2>1, <2>2, <2>3, <2>4
       DEF Next, Start, Continue, AllDone, CreateAccept, CreateRefuse, GenerateBookingCode,
           GenerateBookingCodeGivesUp, InsertBooking, CreateBookingHold, ConfirmPayment,
           ConfirmPaymentRelease, SendBookingInvoiceEmail, CancelRead, CancelLoad,
           CancelUpdate, CancelRemoveHold, OwnerRead, OwnerLoad, OwnerUpdate, RequestFails,
           ExpireHold, Goto, End, Arrive, Load, InPayTransaction
<1>3. QED
  BY <1>1, <1>2, Invariance, PTL DEF Spec

-----------------------------------------------------------------------------
(* Refinement *)

\* Every step of the requests that changes a row or an invoice is one of the
\* ledger's.
LEMMA StepImplementsLedger == IndInv /\ [Next]_vars => [Ledger!Next]_(Ledger!vars)
<1> SUFFICES ASSUME IndInv, [Next]_vars
             PROVE  Ledger!Next \/ UNCHANGED <<row, invoices>>
  BY DEF Ledger!vars
<1> USE DEF IndInv, TypeOK, At, InPayTransaction
<1>1. ASSUME NEW r \in Request, InsertBooking(r)
      PROVE  Ledger!Next \/ UNCHANGED <<row, invoices>>
  <2> DEFINE c == req[r].code
  <2>1. c \in Booking
    BY <1>1 DEF InsertBooking, CodeInv
  <2>2. CASE row[c] = NoRow
    <3>1. Ledger!Book(c)
      BY <1>1, <2>1, <2>2
         DEF InsertBooking, PendingEntity, NoRow, Ledger!Book, Ledger!Entered, Ledger!NoRow
    <3>2. QED
      BY <2>1, <3>1 DEF Ledger!Next
  <2>3. CASE row[c] # NoRow
    BY <1>1, <2>3 DEF InsertBooking
  <2>4. QED
    BY <2>2, <2>3
<1>2. ASSUME NEW r \in Request, ConfirmPaymentCommit(r) PROVE Ledger!Next
  <2> DEFINE c == req[r].code
  <2>1. c \in Booking /\ row[c].status = "PENDING_PAYMENT" /\ req[r].entity = PaidEntity
    BY <1>2 DEF ConfirmPaymentCommit, TransactionInv
  <2>2. r \notin invoices[c]
    BY <1>2, <2>1 DEF ConfirmPaymentCommit, InvoiceInv
  <2>3. Ledger!Pay(c, r)
    BY <1>2, <2>1, <2>2 DEF ConfirmPaymentCommit, PaidEntity, Ledger!Pay
  <2>4. QED
    BY <2>1, <2>3 DEF Ledger!Next
<1>3. ASSUME NEW r \in Request, CancelUpdate(r) PROVE Ledger!Next
  <2> DEFINE c == req[r].code
             e == req[r].entity
             t == Saved(row[c], req[r].loaded, e).status
             p == Saved(row[c], req[r].loaded, e).payment
  <2>1. /\ c \in Booking /\ row[c] # NoRow /\ e.status = "CANCELLED"
        /\ e.payment \in {"CANCELLED", "PAID"} /\ (e.payment = "PAID" => invoices[c] # {})
    BY <1>3 DEF CancelUpdate, SaveInv, Saving
  <2>2. t \in {"CANCELLED", row[c].status}
    BY <2>1 DEF Saved
  <2>3. p \in {"CANCELLED", row[c].payment} \cup Ledger!Backed(c)
    BY <2>1 DEF Saved, Ledger!Backed
  <2>4. row' = [row EXCEPT ![c] = [status |-> t, payment |-> p]] /\ invoices' = invoices
    BY <1>3 DEF CancelUpdate, Saved
  <2> HIDE DEF t, p
  <2>5. Ledger!Cancel(c)
    BY <2>1, <2>2, <2>3, <2>4 DEF Ledger!Cancel, Ledger!Entered, Ledger!NoRow, NoRow
  <2>6. QED
    BY <2>1, <2>5 DEF Ledger!Next
<1>4. ASSUME NEW r \in Request, OwnerUpdate(r) PROVE Ledger!Next
  <2> DEFINE c == req[r].code
             e == req[r].entity
             t == Saved(row[c], req[r].loaded, e).status
             p == Saved(row[c], req[r].loaded, e).payment
  <2>1. /\ c \in Booking /\ row[c] # NoRow /\ e.status \in OwnerStatus
        /\ e.payment \in {"PENDING", "CANCELLED", "PAID"}
        /\ (e.payment = "PAID" => invoices[c] # {})
    BY <1>4 DEF OwnerUpdate, SaveInv, Saving
  <2>2. t \in {e.status, row[c].status}
    BY <2>1 DEF Saved
  <2>3. p \in Ledger!Unpaid(c) \cup Ledger!Backed(c)
    BY <2>1 DEF Saved, Ledger!Backed, Ledger!Unpaid
  <2>4. row' = [row EXCEPT ![c] = [status |-> t, payment |-> p]] /\ invoices' = invoices
    BY <1>4 DEF OwnerUpdate, Saved
  <2> HIDE DEF t, p
  <2>5. Ledger!Override(c, e.status)
    BY <2>1, <2>2, <2>3, <2>4 DEF Ledger!Override, Ledger!Entered, Ledger!NoRow, NoRow
  <2>6. QED
    BY <2>1, <2>5 DEF Ledger!Next
<1>5. CASE UNCHANGED <<row, invoices>>
  BY <1>5
<1>6. QED
  BY <1>1, <1>2, <1>3, <1>4, <1>5
     DEF Next, Start, Continue, AllDone, vars, CreateAccept, CreateRefuse, GenerateBookingCode,
         GenerateBookingCodeGivesUp, CreateBookingHold, ConfirmPayment,
         ConfirmPaymentLock, ConfirmPaymentRelease, PayRollback, SendBookingInvoiceEmail,
         CancelRead, CancelLoad, CancelRemoveHold, OwnerRead, OwnerLoad, RequestFails,
         ExpireHold

\* The requests implement the ledger: payment and invoice in one step, from
\* PENDING_PAYMENT only, and nothing but an owner revives a cancelled booking.
THEOREM ImplementsLedger == Spec => LedgerSpec
<1>1. Init => Ledger!Init
  BY DEF Init, Ledger!Init, NoRow, Ledger!NoRow
<1>2. QED
  BY <1>1, StepImplementsLedger, Invariance, PTL DEF Spec, LedgerSpec, Ledger!Spec

-----------------------------------------------------------------------------
(* Reviews *)

\* The checks of a review stay true: no step of a booking removes an invoice.
LEMMA InvoicesStay ==
    ASSUME IndInv, [Next]_vars
    PROVE  \A b \in Booking : invoices[b] \subseteq invoices'[b]
<1>1. Ledger!Next \/ UNCHANGED <<row, invoices>>
  BY StepImplementsLedger DEF Ledger!vars
<1>2. ASSUME NEW b \in Booking, NEW r \in Request, Ledger!Pay(b, r)
      PROVE  \A c \in Booking : invoices[c] \subseteq invoices'[c]
  BY <1>2 DEF Ledger!Pay, IndInv, TypeOK
<1>3. CASE UNCHANGED invoices
  BY <1>3
<1>4. QED
  BY <1>1, <1>2, <1>3
     DEF Ledger!Next, Ledger!Book, Ledger!Cancel, Ledger!Override

LEMMA RevInitInv == RevInit => RevInv
BY InitInv
   DEF RevInit, RevInv, NoPost, PostAt, PostState, PostPC, ReviewedWasPaid, OneReviewPerBooking

\* A step of the lifecycle leaves reviews and their requests alone and keeps the
\* invoices they rely on.
LEMMA LifecycleStep ==
    ASSUME RevInv, [Next]_vars, UNCHANGED <<reviews, post>>
    PROVE  RevInv'
<1>1. IndInv'
  BY NextTypeOK, NextRest DEF RevInv, IndInv
<1>2. \A b \in Booking : invoices[b] # {} => invoices'[b] # {}
  BY InvoicesStay DEF RevInv
<1>3. ReviewedWasPaid'
  BY <1>2 DEF RevInv, ReviewedWasPaid, ReviewRow
<1>4. OneReviewPerBooking'
  BY DEF RevInv, OneReviewPerBooking
<1>5. QED
  BY <1>1, <1>2, <1>3, <1>4 DEF RevInv, PostAt

\* A step of a review request leaves the bookings alone.
LEMMA PostStep ==
    ASSUME RevInv, NEW p \in Post, PostNext(p), UNCHANGED vars
    PROVE  RevInv'
<1> USE DEF RevInv, PostAt, Step
<1>1. IndInv'
  BY DEF vars, IndInv, TypeOK, CodeInv, TransactionInv, SaveInv, RowInv, InvoiceInv, At,
         InPayTransaction, Saving
<1>2. invoices' = invoices
  BY DEF vars
<1>3. ASSUME UNCHANGED reviews
      PROVE  reviews' \subseteq ReviewRow /\ ReviewedWasPaid' /\ OneReviewPerBooking'
  BY <1>2, <1>3 DEF ReviewedWasPaid, OneReviewPerBooking
<1>4. ASSUME NEW b \in Booking, FindBooking(p, b) PROVE RevInv'
  <2>1. Reviewable(row[b]) => invoices[b] # {}
    BY DEF Reviewable, IndInv, RowInv
  <2>2. QED
    BY <1>1, <1>2, <1>3, <1>4, <2>1 DEF FindBooking, PostState, PostPC
<1>5. CASE FindReview(p)
  BY <1>1, <1>2, <1>3, <1>5 DEF FindReview, PostState, PostPC
<1>6. CASE InsertReview(p)
  <2> DEFINE b   == post[p].code
             new == [bookingCode |-> b, by |-> p, status |-> "VISIBLE"]
  <2>1. b \in Booking /\ invoices[b] # {}
    BY <1>6 DEF InsertReview
  <2>2. new \in ReviewRow
    BY <2>1 DEF ReviewRow, ReviewStatus
  <2>3. \/ UNCHANGED reviews
        \/ reviews' = reviews \cup {new} /\ \A x \in reviews : x.bookingCode # b
    BY <1>6 DEF InsertReview, Duplicate, Reviewed
  <2>4. reviews' \subseteq ReviewRow /\ ReviewedWasPaid' /\ OneReviewPerBooking'
    BY <1>2, <2>1, <2>2, <2>3 DEF ReviewedWasPaid, OneReviewPerBooking
  <2>5. QED
    BY <1>1, <1>2, <1>6, <2>4 DEF InsertReview, PostState, PostPC
<1>7. CASE DeleteReview(p)
  BY <1>1, <1>2, <1>3, <1>7 DEF DeleteReview, PostState, PostPC
<1>8. ASSUME NEW x \in reviews, NEW s \in ReviewStatus, FindById(p, x, s) PROVE RevInv'
  <2>1. /\ post' = [post EXCEPT ![p] = [@ EXCEPT !.pc = "found", !.review = x, !.status = s]]
        /\ UNCHANGED reviews
    BY <1>8 DEF FindById
  <2>2. [post[p] EXCEPT !.pc = "found", !.review = x, !.status = s] \in PostState
    BY DEF PostState, PostPC
  <2>3. post' \in [Post -> PostState]
    BY <2>1, <2>2
  <2>4. \A q \in Post : q # p => post'[q] = post[q]
    BY <2>1
  <2>5. post'[p].pc = "found" /\ post'[p].status = s
    BY <2>1 DEF PostState
  <2>6. QED
    BY <1>1, <1>2, <1>3, <2>1, <2>3, <2>4, <2>5
<1>9. CASE UpdateStatus(p)
  <2>1. post[p].status \in ReviewStatus
    BY <1>9 DEF UpdateStatus
  <2>2. \A y \in reviews' : y \in ReviewRow
                            /\ \E x \in reviews : x.bookingCode = y.bookingCode
                                                  /\ (y = x \/ y = [x EXCEPT !.status = post[p].status])
    BY <1>9, <2>1 DEF UpdateStatus, ReviewRow
  <2>3. ReviewedWasPaid'
    BY <1>2, <2>2 DEF ReviewedWasPaid
  <2>4. OneReviewPerBooking'
    BY <1>9 DEF UpdateStatus, OneReviewPerBooking, ReviewRow
  <2>5. QED
    BY <1>1, <1>2, <1>9, <2>2, <2>3, <2>4 DEF UpdateStatus, PostState, PostPC
<1>10. CASE PostFails(p)
  BY <1>1, <1>2, <1>3, <1>10 DEF PostFails, PostState, PostPC
<1>11. QED
  BY <1>4, <1>5, <1>6, <1>7, <1>8, <1>9, <1>10 DEF PostNext

LEMMA RevInvariance == RevSpec => []RevInv
<1>1. RevInv /\ [RevNext]_revVars => RevInv'
  <2> SUFFICES ASSUME RevInv, [RevNext]_revVars PROVE RevInv'
    OBVIOUS
  <2>1. CASE UNCHANGED revVars
    BY <2>1, LifecycleStep DEF revVars, vars
  <2>2. QED
    BY <2>1, LifecycleStep, PostStep DEF RevNext
<1>2. QED
  BY RevInitInv, <1>1, PTL DEF RevSpec

\* Whatever happens to a booking before, while and after it is reviewed, a
\* review has an invoice behind it.
THEOREM ReviewsAreBacked == RevSpec => []ReviewedWasPaid
BY RevInvariance, PTL DEF RevInv

\* However many requests review a booking at once, one review is kept.
THEOREM ReviewsAreUnique == RevSpec => []OneReviewPerBooking
BY RevInvariance, PTL DEF RevInv

-----------------------------------------------------------------------------
(* The lifecycle under reviews *)

LEMMA RevImplementsLifecycle == RevSpec => Spec
<1>1. RevInit => Init
  BY DEF RevInit
<1>2. [RevNext]_revVars => [Next]_vars
  BY DEF RevNext, revVars, vars
<1>3. QED
  BY <1>1, <1>2, PTL DEF RevSpec, Spec

\* Guests who review change nothing about payments: mails still tell of committed ones
\* and, if owners only close bookings, who is CONFIRMED has paid, and once.
THEOREM ReviewsLeavePaymentsAlone ==
    ASSUME OwnerStatus \subseteq Closed
    PROVE  RevSpec => []MailHasInvoice /\ []AtMostOneInvoice /\ []ConfirmedIsPaid
<1>1. "PENDING_PAYMENT" \notin OwnerStatus
  BY DEF Closed
<1>2. QED
  BY <1>1, RevImplementsLifecycle, MailsBacked, ChargedOnce, ConfirmedWasPaid
=============================================================================
