------------------------- MODULE Reservation_proofs -------------------------
(***************************************************************************)
(* Every behaviour of Reservation is a behaviour of BookingLifecycle, so   *)
(* what is proved of the lifecycle holds with availability checks, holds   *)
(* and blocks around it.  And a room is sold twice for one of six causes   *)
(* only: the proof follows what each create request has read, which bounds *)
(* what there is as long as none of the causes has arisen, through its     *)
(* decision to the hold that takes the rooms.                              *)
(***************************************************************************)
EXTENDS Reservation, BookingLifecycle_proofs, StayDates_proofs, FiniteSetTheorems

\* Adding the availability checks takes nothing from the lifecycle and adds no
\* step to it.
LEMMA ResImplementsLifecycle == ResSpec => Spec
<1>1. ResInit => Init
  BY DEF ResInit
<1>2. [ResNext]_resVars => [Next]_vars
  <2> SUFFICES ASSUME ResNext PROVE Next \/ UNCHANGED vars
    BY DEF resVars, vars
  <2>1. ASSUME NEW r \in Request, RefuseInvalid(r) \/ Decide(r) \/ CheckFails(r) PROVE Next
    BY <2>1 DEF RefuseInvalid, Decide, CheckFails, Next, Start
  <2>2. ASSUME NEW r \in Request, StartOther(r) PROVE Next
    BY <2>2 DEF StartOther, Next, Start
  <2>3. ASSUME NEW r \in Request, ContinueOther(r) PROVE Next
    BY <2>3 DEF ContinueOther, Next
  <2>4. ASSUME NEW b \in Booking, Expire(b) PROVE Next
    BY <2>4 DEF Expire, Next
  <2>5. CASE UNCHANGED vars
    BY <2>5
  <2>6. QED
    BY <2>1, <2>2, <2>3, <2>4, <2>5
       DEF ResNext, BeginCheck, ReadBlocked, ReadBooked, ListHolds, ReadHolds, CreateBlock,
           RemoveBlock, UpdateTotal
<1>3. QED
  BY <1>1, <1>2, PTL DEF ResSpec, Spec

\* With availability checked and holds expiring, payments still imply invoices,
\* and the table rows still follow the ledger.
THEOREM ReservationIsALedger == ResSpec => []PaidHasInvoice /\ LedgerSpec
BY ResImplementsLifecycle, PaymentBacked, ImplementsLedger

-----------------------------------------------------------------------------
(* Sums *)

\* The rooms of one booking or block.
Span(n) == 1 .. n

LEMMA Counting ==
    \A n \in Int : IsFiniteSet(Span(n)) /\ (n >= 0 => Cardinality(Span(n)) = n)
<1> TAKE n \in Int
<1>1. IsFiniteSet(1 .. n) /\ Cardinality(1 .. n) = IF 1 > n THEN 0 ELSE n - 1 + 1
  BY FS_Interval
<1>2. QED
  BY <1>1 DEF Span

LEMMA RoomsAreFinite ==
    ASSUME NEW D, IsFiniteSet(D), NEW q \in [D -> Int]
    PROVE  IsFiniteSet(Rooms(q))
<1> DEFINE F == {{x} \X Span(q[x]) : x \in D}
           f == [x \in D |-> {x} \X Span(q[x])]
<1>1. f \in Surjection(D, F)
  BY DEF Surjection
<1>2. IsFiniteSet(F)
  BY <1>1, FS_Surjection
<1>3. ASSUME NEW T \in F PROVE IsFiniteSet(T)
  <2>1. PICK x \in D : T = {x} \X Span(q[x])
    OBVIOUS
  <2>2. IsFiniteSet({x})
    BY FS_Singleton
  <2>3. IsFiniteSet(Span(q[x]))
    BY Counting
  <2>4. QED
    BY <2>1, <2>2, <2>3, FS_Product
<1>4. IsFiniteSet(UNION F)
  BY <1>2, <1>3, FS_UNION
<1>5. Rooms(q) = UNION F
  BY DEF Rooms, Span
<1>6. QED
  BY <1>4, <1>5

\* How many rooms the bookings of B have, with stays from f.
RoomsIn(f, B) == Cardinality(Rooms([b \in B |-> f[b].quantity]))

LEMMA RoomsInType ==
    ASSUME NEW B, IsFiniteSet(B), NEW f, \A b \in B : f[b].quantity \in Int
    PROVE  /\ IsFiniteSet(Rooms([b \in B |-> f[b].quantity]))
           /\ RoomsIn(f, B) \in Nat
<1>1. [b \in B |-> f[b].quantity] \in [B -> Int]
  OBVIOUS
<1>2. IsFiniteSet(Rooms([b \in B |-> f[b].quantity]))
  BY <1>1, RoomsAreFinite
<1>3. QED
  BY <1>2, FS_CardinalityType DEF RoomsIn

\* Fewer bookings have no more rooms.
LEMMA RoomsInMonotone ==
    ASSUME NEW B, IsFiniteSet(B), NEW f, \A b \in B : f[b].quantity \in Int,
           NEW A \in SUBSET B
    PROVE  RoomsIn(f, A) <= RoomsIn(f, B)
<1>1. Rooms([b \in A |-> f[b].quantity]) \subseteq Rooms([b \in B |-> f[b].quantity])
  BY DEF Rooms
<1>2. QED
  BY <1>1, RoomsInType, FS_Subset DEF RoomsIn

\* The rooms of two sets of bookings are at most those of each, added up.
LEMMA RoomsInUnion ==
    ASSUME NEW A, NEW B, IsFiniteSet(A), IsFiniteSet(B), NEW f,
           \A b \in A \cup B : f[b].quantity \in Int
    PROVE  RoomsIn(f, A \cup B) <= RoomsIn(f, A) + RoomsIn(f, B)
<1> DEFINE R(S) == Rooms([b \in S |-> f[b].quantity])
<1>1. R(A \cup B) = R(A) \cup R(B)
  BY DEF Rooms
<1>2. /\ IsFiniteSet(R(A)) /\ IsFiniteSet(R(B))
      /\ RoomsIn(f, A) \in Nat /\ RoomsIn(f, B) \in Nat
  BY RoomsInType
<1>3. IsFiniteSet(R(A) \cap R(B)) /\ Cardinality(R(A) \cap R(B)) \in Nat
  BY <1>2, FS_Intersection, FS_CardinalityType
<1>4. Cardinality(R(A) \cup R(B)) = Cardinality(R(A)) + Cardinality(R(B)) - Cardinality(R(A) \cap R(B))
  BY <1>2, FS_Union
<1>5. /\ RoomsIn(f, A) = Cardinality(R(A)) /\ RoomsIn(f, B) = Cardinality(R(B))
      /\ RoomsIn(f, A \cup B) = Cardinality(R(A \cup B))
  BY DEF RoomsIn
<1>6. Cardinality(R(A) \cup R(B)) <= Cardinality(R(A)) + Cardinality(R(B))
  <2> DEFINE both == Cardinality(R(A) \cap R(B))
  <2>1. both \in Nat /\ Cardinality(R(A)) \in Nat /\ Cardinality(R(B)) \in Nat
    BY <1>2, <1>3, <1>5
  <2>2. Cardinality(R(A) \cup R(B)) = Cardinality(R(A)) + Cardinality(R(B)) - both
    BY <1>4
  <2> HIDE DEF both, R
  <2>3. QED
    BY <2>1, <2>2
<1>7. QED
  BY <1>1, <1>5, <1>6

\* One booking has as many rooms as its quantity says.
LEMMA RoomsInOne ==
    ASSUME NEW b, NEW f, f[b].quantity \in Nat
    PROVE  RoomsIn(f, {b}) = f[b].quantity
<1> DEFINE n == f[b].quantity
           R == Rooms([x \in {b} |-> f[x].quantity])
<1>1. R = {b} \X Span(n)
  BY DEF Rooms, Span
<1>2. IsFiniteSet({b}) /\ Cardinality({b}) = 1
  BY FS_Singleton
<1>3. IsFiniteSet(Span(n)) /\ Cardinality(Span(n)) = n
  BY Counting
<1>4. Cardinality({b} \X Span(n)) = 1 * n
  BY <1>2, <1>3, FS_Product
<1> HIDE DEF R
<1>5. Cardinality(R) = n
  BY <1>1, <1>4
<1>6. QED
  BY <1>5 DEF RoomsIn, R

-----------------------------------------------------------------------------
(* Types, and what a create request has in memory *)

\* What the awaits of a request in flight may do to requests, rows and holds.
LEMMA ContinueEffects ==
    ASSUME IndInv, NEW r \in Request, Continue(r) \/ PayRollback(r) \/ RequestFails(r)
    PROVE  /\ \A q \in Request \ {r} : req'[q] = req[q]
           /\ req[r].pc \notin Ended \cup {"idle"} /\ req'[r].pc # "idle"
           /\ Accepted(r)' => Accepted(r)
           /\ \A b \in Booking : row[b] # NoRow => row'[b] # NoRow
           /\ \A b \in Booking :
                 row[b] = NoRow /\ row'[b] # NoRow => At(r, "coded") /\ b = req[r].code
           /\ At(r, "inserted")' => /\ At(r, "coded") /\ req'[r].code = req[r].code
                                    /\ row[req[r].code] = NoRow /\ row'[req[r].code] # NoRow
           /\ \/ hold' \subseteq hold
              \/ At(r, "inserted") /\ hold' = hold \cup {req[r].code}
<1> DEFINE Effects ==
             /\ \A q \in Request \ {r} : req'[q] = req[q]
             /\ req[r].pc \notin Ended \cup {"idle"} /\ req'[r].pc # "idle"
             /\ Accepted(r)' => Accepted(r)
             /\ \A b \in Booking : row[b] # NoRow => row'[b] # NoRow
             /\ \A b \in Booking :
                   row[b] = NoRow /\ row'[b] # NoRow => At(r, "coded") /\ b = req[r].code
             /\ At(r, "inserted")' => /\ At(r, "coded") /\ req'[r].code = req[r].code
                                      /\ row[req[r].code] = NoRow /\ row'[req[r].code] # NoRow
             /\ \/ hold' \subseteq hold
                \/ At(r, "inserted") /\ hold' = hold \cup {req[r].code}
<1> SUFFICES Effects
  OBVIOUS
<1> USE EntityTypes DEF IndInv, TypeOK, At, Goto, End, Arrive, Load, Accepted, Ended
<1>1. ASSUME NEW b \in Booking, GenerateBookingCode(r, b) PROVE Effects
  BY <1>1 DEF GenerateBookingCode
<1>2. CASE GenerateBookingCodeGivesUp(r)
  BY <1>2 DEF GenerateBookingCodeGivesUp
<1>3. CASE InsertBooking(r)
  BY <1>3 DEF InsertBooking, CodeInv
<1>4. CASE CreateBookingHold(r)
  BY <1>4 DEF CreateBookingHold
<1>5. CASE ConfirmPaymentLock(r)
  BY <1>5 DEF ConfirmPaymentLock
<1>6. CASE ConfirmPaymentRelease(r)
  BY <1>6 DEF ConfirmPaymentRelease
<1>7. CASE ConfirmPaymentCommit(r)
  BY <1>7 DEF ConfirmPaymentCommit, TransactionInv, InPayTransaction, NoRow
<1>8. CASE SendBookingInvoiceEmail(r)
  BY <1>8 DEF SendBookingInvoiceEmail
<1>9. CASE CancelLoad(r) \/ OwnerLoad(r)
  BY <1>9 DEF CancelLoad, OwnerLoad
<1>10. CASE CancelUpdate(r) \/ OwnerUpdate(r)
  <2> DEFINE c == req[r].code
  <2>1. /\ c \in Booking /\ row[c] \in Entity
        /\ row' = [row EXCEPT ![c] = Saved(@, req[r].loaded, req[r].entity)]
    BY <1>10 DEF CancelUpdate, OwnerUpdate, SaveInv, Saving
  <2>2. row'[c] \in Entity
    BY <1>10, <2>1, SavedType DEF CancelUpdate, OwnerUpdate, SaveInv, Saving
  <2>3. \A b \in Booking : (row[b] # NoRow <=> row'[b] # NoRow)
    BY <2>1, <2>2
  <2>4. hold' = hold /\ \A q \in Request \ {r} : req'[q] = req[q]
    BY <1>10 DEF CancelUpdate, OwnerUpdate
  <2>5. /\ req[r].pc \in {"cancelLoaded", "ownerLoaded"}
        /\ req'[r].pc \in {"cancelUpdated", "updated"}
    BY <1>10 DEF CancelUpdate, OwnerUpdate
  <2>6. QED
    BY <2>3, <2>4, <2>5
<1>11. CASE CancelRemoveHold(r)
  BY <1>11 DEF CancelRemoveHold
<1>12. CASE PayRollback(r)
  BY <1>12 DEF PayRollback, InPayTransaction
<1>13. CASE RequestFails(r)
  BY <1>13 DEF RequestFails
<1>14. QED
  BY <1>1, <1>2, <1>3, <1>4, <1>5, <1>6, <1>7, <1>8, <1>9, <1>10, <1>11, <1>12, <1>13
     DEF Continue

\* A request that begins another endpoint is idle before and neither idle nor
\* creating after.
LEMMA StartEffects ==
    ASSUME IndInv, NEW r \in Request, StartOther(r)
    PROVE  /\ \A q \in Request \ {r} : req'[q] = req[q]
           /\ At(r, "idle") /\ check[r] = NoCheck
           /\ req'[r].pc \notin {"idle", "accepted", "coded", "inserted", "payLocked", "payReleased"}
           /\ UNCHANGED <<row, lock, invoices, hold, mails, total, stay, blocks, check>>
BY DEF StartOther, ConfirmPayment, CancelRead, OwnerRead, IndInv, TypeOK, At, Arrive

LEMMA CheckTypes ==
    /\ NoCheck \in Check
    /\ \A c \in Check :
          /\ c.stay \in Stay \cup {None} /\ c.total \in Nat \cup {Unread}
          /\ c.blocked \in Nat \cup {Unread} /\ c.booked \in Nat \cup {Unread}
          /\ c.keys \in (SUBSET Booking) \cup {None} /\ c.held \in Nat \cup {Unread}
    /\ \A s \in Stay : [NoCheck EXCEPT !.stay = s] \in Check
BY DEF Check, NoCheck

\* What ReadBlocked, ReadBooked and ReadHolds store is a number.
LEMMA SumTypes ==
    ASSUME ResTypeOK, IsFiniteSet(blocks)
    PROVE  /\ \A S \in SUBSET blocks : Quantity(S) \in Nat
           /\ \A B \in SUBSET Booking :
                 (\A b \in B : row[b] # NoRow) => BookedQuantity(B) \in Nat
<1>1. ASSUME NEW S \in SUBSET blocks PROVE Quantity(S) \in Nat
  <2>1. IsFiniteSet(S)
    BY FS_Subset
  <2>2. [s \in S |-> s.quantity] \in [S -> Int]
    BY ReservationAssumption DEF ResTypeOK
  <2>3. QED
    BY <2>1, <2>2, RoomsAreFinite, FS_CardinalityType DEF Quantity
<1>2. ASSUME NEW B \in SUBSET Booking, \A b \in B : row[b] # NoRow
      PROVE  BookedQuantity(B) \in Nat
  <2>1. IsFiniteSet(B)
    BY ReservationAssumption, FS_Subset
  <2>2. \A b \in B : stay[b].quantity \in Int
    BY <1>2, ReservationAssumption DEF ResTypeOK
  <2>3. QED
    BY <2>1, <2>2, RoomsInType DEF BookedQuantity, RoomsIn
<1>3. QED
  BY <1>1, <1>2

LEMMA InitStay == ResInit => ResTypeOK /\ StayInv
<1> SUFFICES ASSUME ResInit PROVE ResTypeOK /\ StayInv
  OBVIOUS
<1>1. TypeOK
  BY InitInv DEF ResInit, IndInv
<1>2. ResTypeOK
  BY <1>1, CheckTypes, ReservationAssumption DEF ResInit, Init, ResTypeOK
<1>3. \A r \in Request : ~Checking(r) /\ ~Relying(r) /\ ~At(r, "inserted")
  BY DEF ResInit, Init, Checking, Relying, Accepted, At, Idle
<1>4. QED
  BY <1>2, <1>3, FS_EmptySet DEF ResInit, StayInv

LEMMA NextStay ==
    ASSUME IndInv, TypeOK', ResTypeOK, StayInv, [ResNext]_resVars
    PROVE  ResTypeOK' /\ StayInv'
<1> USE DEF StayInv
<1>1. ASSUME UNCHANGED <<vars, stay, blocks>>, total' \in {Total} \cup NewTotal,
             NEW r \in Request, \A q \in Request \ {r} : check'[q] = check[q],
             check' \in [Request -> Check], At(r, "idle"),
             check'[r].stay \in Stay /\ Valid(check'[r].stay)
      PROVE  ResTypeOK' /\ StayInv'
  <2>1. ResTypeOK'
    BY <1>1 DEF ResTypeOK, vars
  <2>2. \A q \in Request : /\ At(q, "idle")' <=> At(q, "idle")
                           /\ At(q, "inserted")' <=> At(q, "inserted")
                           /\ Accepted(q)' <=> Accepted(q)
    BY <1>1 DEF At, Accepted, vars
  <2>3. StayInv'
    BY <1>1, <2>2 DEF Checking, Relying, Accepted, At, vars, Valid
  <2>4. QED
    BY <2>1, <2>3
<1>2. ASSUME NEW r \in Request, NEW s \in Stay, BeginCheck(r, s) PROVE ResTypeOK' /\ StayInv'
  <2>1. check' = [check EXCEPT ![r] = [NoCheck EXCEPT !.stay = s, !.total = total]]
    BY <1>2 DEF BeginCheck, ResTypeOK
  <2>2. [NoCheck EXCEPT !.stay = s, !.total = total] \in Check
    BY ReservationAssumption DEF ResTypeOK, NoCheck, Check
  <2>3. check' \in [Request -> Check] /\ check'[r].stay = s
    BY <2>1, <2>2 DEF ResTypeOK, NoCheck
  <2>4. QED
    BY <1>1, <1>2, <2>1, <2>3 DEF BeginCheck, ResTypeOK
<1>3. ASSUME NEW r \in Request, ReadBlocked(r) \/ ReadBooked(r) \/ ListHolds(r) \/ ReadHolds(r)
      PROVE  ResTypeOK' /\ StayInv'
  <2> DEFINE c == check[r]
  <2>1. c \in Check /\ c.stay \in Stay /\ Valid(c.stay) /\ At(r, "idle")
    BY <1>3 DEF ReadBlocked, ReadBooked, ListHolds, ReadHolds, Checking, Relying, ResTypeOK
  <2>2. \A B \in SUBSET Booking : (\A b \in B : row[b] # NoRow) => BookedQuantity(B) \in Nat
    BY SumTypes
  <2>3. BookedQuantity(Booked(c.stay)) \in Nat
    BY <2>2 DEF Booked, NoRow
  <2>4. BookedQuantity(Held(c.stay, c.keys)) \in Nat
    BY <2>2 DEF Held, ResTypeOK, TypeOK
  <2>5. Quantity({k \in blocks : StoredOverlap(k, c.stay, ServerZone)}) \in Nat
    BY SumTypes
  <2>6. hold \in SUBSET Booking
    BY DEF ResTypeOK, TypeOK
  <2> DEFINE Updated(e) == e \in Check /\ e.stay = c.stay /\ check' = [check EXCEPT ![r] = e]
  <2>7. \E e : Updated(e)
    <3>1. ASSUME NEW n \in Nat
          PROVE  /\ [c EXCEPT !.blocked = n] \in Check
                 /\ [c EXCEPT !.booked = n] \in Check
                 /\ [c EXCEPT !.held = n] \in Check
      BY <2>1 DEF Check
    <3>2. [c EXCEPT !.keys = hold] \in Check
      BY <2>1, <2>6 DEF Check
    <3>3. CASE ReadBlocked(r)
      <4> DEFINE n == Quantity({k \in blocks : StoredOverlap(k, c.stay, ServerZone)})
      <4>1. n \in Nat /\ check' = [check EXCEPT ![r] = [c EXCEPT !.blocked = n]]
        BY <2>5, <3>3 DEF ReadBlocked, ResTypeOK
      <4> HIDE DEF n
      <4>2. Updated([c EXCEPT !.blocked = n])
        BY <2>1, <3>1, <4>1 DEF Check
      <4>3. QED
        BY <4>2
    <3>4. CASE ReadBooked(r)
      <4> DEFINE n == BookedQuantity(Booked(c.stay))
      <4>1. n \in Nat /\ check' = [check EXCEPT ![r] = [c EXCEPT !.booked = n]]
        BY <2>3, <3>4 DEF ReadBooked, ResTypeOK
      <4> HIDE DEF n
      <4>2. Updated([c EXCEPT !.booked = n])
        BY <2>1, <3>1, <4>1 DEF Check
      <4>3. QED
        BY <4>2
    <3>5. CASE ListHolds(r)
      <4>1. Updated([c EXCEPT !.keys = hold])
        BY <2>1, <3>2, <3>5 DEF Check, ListHolds, ResTypeOK
      <4>2. QED
        BY <4>1
    <3>6. CASE ReadHolds(r)
      <4> DEFINE n == BookedQuantity(Held(c.stay, c.keys))
      <4>1. n \in Nat /\ check' = [check EXCEPT ![r] = [c EXCEPT !.held = n]]
        BY <2>4, <3>6 DEF ReadHolds, ResTypeOK
      <4> HIDE DEF n
      <4>2. Updated([c EXCEPT !.held = n])
        BY <2>1, <3>1, <4>1 DEF Check
      <4>3. QED
        BY <4>2
    <3>7. QED
      BY <1>3, <3>3, <3>4, <3>5, <3>6
  <2>8. UNCHANGED <<vars, total, stay, blocks>>
    BY <1>3 DEF ReadBlocked, ReadBooked, ListHolds, ReadHolds
  <2>9. PICK e : Updated(e)
    BY <2>7
  <2>10. check' \in [Request -> Check] /\ check'[r] = e /\ \A q \in Request \ {r} : check'[q] = check[q]
    BY <2>9 DEF ResTypeOK
  <2>11. QED
    BY <1>1, <2>1, <2>8, <2>9, <2>10 DEF ResTypeOK
<1>4. ASSUME NEW r \in Request, Decide(r) \/ CheckFails(r) \/ RefuseInvalid(r) PROVE ResTypeOK' /\ StayInv'
  <2>1. /\ \A q \in Request \ {r} : req'[q] = req[q]
        /\ req'[r].pc \in {"accepted", "rejected"}
        /\ UNCHANGED <<row, lock, invoices, hold, mails, stay, blocks, total>>
    BY <1>4 DEF Decide, CheckFails, RefuseInvalid, CreateAccept, CreateRefuse, Goto, End, At,
                ResTypeOK, TypeOK
  <2>2. \/ check' = check /\ req'[r].pc = "rejected"
        \/ check' = [check EXCEPT ![r] = NoCheck] /\ req'[r].pc = "rejected"
        \/ /\ check' = [check EXCEPT ![r] = [NoCheck EXCEPT !.stay = check[r].stay]]
           /\ Checking(r)
    BY <1>4 DEF Decide, CheckFails, RefuseInvalid, AllRead, CreateRefuse, End, ResTypeOK, TypeOK
  <2>3. check' \in [Request -> Check] /\ \A q \in Request \ {r} : check'[q] = check[q]
    BY <2>2, CheckTypes DEF Relying, ResTypeOK
  <2>4. Accepted(r)' => check'[r].stay \in Stay /\ Valid(check'[r].stay)
    BY <2>1, <2>2, CheckTypes DEF Relying, ResTypeOK, Accepted, NoCheck
  <2>5. ResTypeOK'
    BY <2>1, <2>3 DEF ResTypeOK
  <2>6. ~Checking(r)' /\ ~At(r, "inserted")'
    BY <2>1 DEF Checking, At
  <2>7. \A q \in Request \ {r} : /\ Checking(q)' <=> Checking(q)
                                 /\ Accepted(q)' <=> Accepted(q)
                                 /\ At(q, "inserted")' <=> At(q, "inserted")
    BY <2>1, <2>3 DEF Checking, Accepted, At
  <2>8. StayInv'
    BY <2>1, <2>3, <2>4, <2>6, <2>7 DEF Relying, Valid
  <2>9. QED
    BY <2>5, <2>8
<1>5. ASSUME NEW r \in Request, StartOther(r) PROVE ResTypeOK' /\ StayInv'
  <2>1. ResTypeOK'
    BY <1>5, StartEffects DEF ResTypeOK
  <2>2. ~Checking(r)' /\ ~Accepted(r)' /\ ~At(r, "inserted")'
    BY <1>5, StartEffects DEF Checking, Accepted, At
  <2>3. \A q \in Request \ {r} : /\ Checking(q)' <=> Checking(q)
                                 /\ Accepted(q)' <=> Accepted(q)
                                 /\ At(q, "inserted")' <=> At(q, "inserted")
    BY <1>5, StartEffects DEF Checking, Accepted, At
  <2>4. StayInv'
    BY <1>5, <2>2, <2>3, StartEffects DEF Relying, Valid
  <2>5. QED
    BY <2>1, <2>4
<1>6. ASSUME NEW r \in Request, ContinueOther(r) PROVE ResTypeOK' /\ StayInv'
  <2>1. /\ \A q \in Request \ {r} : req'[q] = req[q]
        /\ req[r].pc \notin Ended \cup {"idle"} /\ req'[r].pc # "idle"
        /\ Accepted(r)' => Accepted(r)
        /\ \A b \in Booking : row[b] # NoRow => row'[b] # NoRow
        /\ \A b \in Booking :
              row[b] = NoRow /\ row'[b] # NoRow => At(r, "coded") /\ b = req[r].code
        /\ At(r, "inserted")' => /\ At(r, "coded") /\ req'[r].code = req[r].code
                                 /\ row[req[r].code] = NoRow /\ row'[req[r].code] # NoRow
        /\ \/ hold' \subseteq hold
           \/ At(r, "inserted") /\ hold' = hold \cup {req[r].code}
    BY <1>6, ContinueEffects DEF ContinueOther
  <2>2. /\ stay' = [b \in Booking |-> IF row[b] = NoRow /\ row'[b] # NoRow
                                      THEN check[r].stay ELSE stay[b]]
        /\ check' = IF req'[r].pc \in Ended THEN [check EXCEPT ![r] = NoCheck] ELSE check
        /\ total' = total /\ blocks' = blocks
    BY <1>6 DEF ContinueOther, Recorded
  <2>3. \A b \in Booking : row[b] = NoRow /\ row'[b] # NoRow => check[r].stay \in Stay
    BY <2>1 DEF Relying, Accepted, At
  <2>4. ResTypeOK'
    <3>1. stay' \in [Booking -> Stay \cup {None}]
      BY <2>2, <2>3 DEF ResTypeOK
    <3>2. check' \in [Request -> Check]
      BY <2>2, CheckTypes DEF ResTypeOK
    <3>3. \A b \in Booking : (row'[b] # NoRow <=> stay'[b] # None)
      BY <2>1, <2>2, <2>3, ReservationAssumption DEF ResTypeOK
    <3>4. \A b \in hold' : row'[b] # NoRow
      BY <2>1 DEF ResTypeOK, TypeOK, IndInv, CodeInv, At
    <3>5. QED
      BY <2>2, <3>1, <3>2, <3>3, <3>4 DEF ResTypeOK
  <2>5. ~Checking(r)'
    BY <2>1 DEF Checking, At
  <2>6. Accepted(r)' => check'[r] = check[r] /\ check[r].stay \in Stay /\ Valid(check[r].stay)
    BY <2>1, <2>2 DEF Accepted, Relying, Ended
  <2>7. At(r, "inserted")' => row'[req'[r].code] # NoRow /\ stay'[req'[r].code] = check'[r].stay
    <3> SUFFICES ASSUME At(r, "inserted")'
                 PROVE  row'[req'[r].code] # NoRow /\ stay'[req'[r].code] = check'[r].stay
      OBVIOUS
    <3>1. req[r].code \in Booking
      BY <2>1 DEF IndInv, CodeInv, At
    <3>2. check'[r] = check[r]
      BY <2>6 DEF At, Accepted
    <3>3. QED
      BY <2>1, <2>2, <3>1, <3>2
  <2>8. \A q \in Request \ {r} : check'[q] = check[q]
    BY <2>2 DEF ResTypeOK
  <2>9. \A q \in Request \ {r} : /\ Checking(q)' <=> Checking(q)
                                 /\ Accepted(q)' <=> Accepted(q)
                                 /\ At(q, "inserted")' <=> At(q, "inserted")
    BY <2>1, <2>8 DEF Checking, Accepted, At
  <2>10. ASSUME NEW q \in Request \ {r}, At(q, "inserted")
         PROVE  row'[req'[q].code] # NoRow /\ stay'[req'[q].code] = check'[q].stay
    <3>1. req[q].code \in Booking /\ row[req[q].code] # NoRow
      BY <2>10 DEF IndInv, CodeInv, At
    <3>2. QED
      BY <2>1, <2>2, <2>8, <2>10, <3>1
  <2>11. StayInv'
    BY <2>2, <2>5, <2>6, <2>7, <2>8, <2>9, <2>10 DEF Relying, Valid
  <2>12. QED
    BY <2>4, <2>11
<1>7. ASSUME UNCHANGED <<row, lock, req, stay, check>>, hold' \subseteq hold, IsFiniteSet(blocks'),
             blocks' \in SUBSET Block, total' \in {Total} \cup NewTotal
      PROVE  ResTypeOK' /\ StayInv'
  <2>1. ResTypeOK'
    BY <1>7 DEF ResTypeOK
  <2>2. StayInv'
    BY <1>7 DEF Checking, Relying, Accepted, At, Valid
  <2>3. QED
    BY <2>1, <2>2
<1>8. ASSUME NEW b \in Booking, Expire(b) PROVE ResTypeOK' /\ StayInv'
  BY <1>7, <1>8 DEF Expire, ExpireHold, ResTypeOK
<1>9. ASSUME NEW k \in Block, CreateBlock(k) \/ RemoveBlock(k) PROVE ResTypeOK' /\ StayInv'
  BY <1>7, <1>9, FS_AddElement, FS_RemoveElement DEF CreateBlock, RemoveBlock, ResTypeOK, vars
<1>10. ASSUME NEW n \in NewTotal, UpdateTotal(n) PROVE ResTypeOK' /\ StayInv'
  BY <1>7, <1>10 DEF UpdateTotal, ResTypeOK, vars
<1>11. CASE UNCHANGED resVars
  BY <1>7, <1>11 DEF resVars, ResTypeOK
<1>12. QED
  BY <1>2, <1>3, <1>4, <1>5, <1>6, <1>8, <1>9, <1>10, <1>11 DEF ResNext

-----------------------------------------------------------------------------
(* Rooms taken *)

\* Who sleeps in the hotel on a night, and which rooms are closed.
Guests(night) == {b \in Booking : Promised(b) /\ night \in Nights(stay[b])}
ClosedOn(night) == {k \in blocks : night \in Nights(k)}

LEMMA TakenSplit == \A night : TakenOn(night) = BookedQuantity(Guests(night)) + Quantity(ClosedOn(night))
BY DEF TakenOn, Guests, ClosedOn

\* A promised booking has a row, and with it a stay.
LEMMA PromisedHasStay ==
    ASSUME ResTypeOK, IndInv, LockInv
    PROVE  \A b \in Booking :
              /\ Promised(b) => row[b] # NoRow
              /\ row[b] # NoRow => stay[b] \in Stay /\ stay[b].quantity \in Int
              /\ b \in hold => row[b] # NoRow
<1>1. \A b \in Booking : Promised(b) => row[b] # NoRow
  BY DEF Promised, NoRow
<1>2. \A b \in Booking : row[b] # NoRow => stay[b] \in Stay /\ stay[b].quantity \in Int
  BY ReservationAssumption DEF ResTypeOK
<1>3. QED
  BY <1>1, <1>2 DEF ResTypeOK, TypeOK

\* What holds before every step, whatever has happened.
Sound == ResTypeOK /\ IndInv /\ LockInv /\ StayInv

TakenNat ==
    \A night : /\ BookedQuantity(Guests(night)) \in Nat
               /\ Quantity(ClosedOn(night)) \in Nat
               /\ TakenOn(night) = BookedQuantity(Guests(night)) + Quantity(ClosedOn(night))

LEMMA TakenType == Sound => TakenNat
<1> SUFFICES ASSUME Sound, NEW night
             PROVE  /\ BookedQuantity(Guests(night)) \in Nat
                    /\ Quantity(ClosedOn(night)) \in Nat
                    /\ TakenOn(night) = BookedQuantity(Guests(night)) + Quantity(ClosedOn(night))
  BY DEF TakenNat
<1>1. BookedQuantity(Guests(night)) \in Nat
  BY SumTypes, PromisedHasStay DEF Guests, StayInv, Sound
<1>2. Quantity(ClosedOn(night)) \in Nat
  BY SumTypes DEF ClosedOn, StayInv, Sound
<1>3. QED
  BY <1>1, <1>2, TakenSplit

\* Fewer blocks close no more rooms.
LEMMA QuantityMonotone ==
    ASSUME NEW S \in SUBSET Block, IsFiniteSet(S), NEW T \in SUBSET S
    PROVE  Quantity(T) <= Quantity(S)
<1> DEFINE itself == [k \in Block |-> k]
<1>1. \A U \in SUBSET Block : Quantity(U) = RoomsIn(itself, U)
  <2> TAKE U \in SUBSET Block
  <2>1. [s \in U |-> s.quantity] = [s \in U |-> itself[s].quantity]
    OBVIOUS
  <2>2. QED
    BY <2>1 DEF Quantity, RoomsIn
<1>2. \A k \in S : itself[k].quantity \in Int
  BY ReservationAssumption
<1> HIDE DEF itself
<1>3. RoomsIn(itself, T) <= RoomsIn(itself, S)
  BY <1>2, RoomsInMonotone
<1>4. QED
  BY <1>1, <1>3

\* Fewer bookings with the same stays take no more rooms, also one step later.
LEMMA BookedMonotone ==
    ASSUME ResTypeOK, NEW B \in SUBSET Booking, \A b \in B : row[b] # NoRow, NEW A \in SUBSET B
    PROVE  BookedQuantity(A) <= BookedQuantity(B)
<1>1. IsFiniteSet(B) /\ \A b \in B : stay[b].quantity \in Int
  BY ReservationAssumption, FS_Subset DEF ResTypeOK
<1>2. RoomsIn(stay, A) <= RoomsIn(stay, B)
  BY <1>1, RoomsInMonotone
<1>3. QED
  BY <1>2 DEF BookedQuantity, RoomsIn

LEMMA BookedLater ==
    ASSUME ResTypeOK, NEW B \in SUBSET Booking, \A b \in B : row[b] # NoRow,
           NEW A \in SUBSET B, \A b \in A : stay'[b] = stay[b]
    PROVE  RoomsIn(stay', A) <= BookedQuantity(B)
<1>1. [b \in A |-> stay'[b].quantity] = [b \in A |-> stay[b].quantity]
  OBVIOUS
<1>2. RoomsIn(stay', A) = BookedQuantity(A)
  BY <1>1 DEF RoomsIn, BookedQuantity
<1>3. QED
  BY <1>2, BookedMonotone

\* A step that promises no booking more and closes no room takes no room more.
LEMMA NothingTaken ==
    ASSUME Sound, Sound',
           \A b \in Booking : Promised(b)' => Promised(b) /\ stay'[b] = stay[b],
           blocks' \subseteq blocks
    PROVE  \A night : TakenOn(night)' <= TakenOn(night) /\ TakenOn(night) \in Nat /\ TakenOn(night)' \in Nat
<1> TAKE night
<1>1. BookedQuantity(Guests(night))' <= BookedQuantity(Guests(night))
  <2> DEFINE A == {b \in Booking : Promised(b)' /\ night \in Nights(stay'[b])}
  <2>1. A \in SUBSET Guests(night) /\ \A b \in A : stay'[b] = stay[b]
    BY DEF Guests
  <2>2. Guests(night) \in SUBSET Booking /\ \A b \in Guests(night) : row[b] # NoRow
    BY PromisedHasStay DEF Guests, Sound
  <2>3. BookedQuantity(Guests(night))' = RoomsIn(stay', A)
    BY DEF BookedQuantity, Guests, RoomsIn
  <2> HIDE DEF A
  <2>4. QED
    BY <2>1, <2>2, <2>3, BookedLater DEF Sound
<1>2. Quantity(ClosedOn(night))' <= Quantity(ClosedOn(night))
  <2>1. ClosedOn(night)' \in SUBSET ClosedOn(night) /\ ClosedOn(night) \in SUBSET Block
    BY DEF ClosedOn, ResTypeOK, Sound
  <2>2. IsFiniteSet(ClosedOn(night))
    BY FS_Subset DEF ClosedOn, StayInv, Sound
  <2>3. Quantity(ClosedOn(night)') <= Quantity(ClosedOn(night))
    BY <2>1, <2>2, QuantityMonotone
  <2>4. QED
    BY <2>3
<1>3. TakenNat
  BY TakenType
<1>4. TakenNat'
  BY TakenType, PTL
<1> DEFINE g == BookedQuantity(Guests(night))
           k == Quantity(ClosedOn(night))
<1>5. g \in Nat /\ k \in Nat /\ TakenOn(night) = g + k
  BY <1>3 DEF TakenNat
<1>6. g' \in Nat /\ k' \in Nat /\ TakenOn(night)' = g' + k'
  BY <1>4 DEF TakenNat
<1> HIDE DEF g, k
<1>7. g' <= g /\ k' <= k
  BY <1>1, <1>2 DEF g, k
<1>8. \A a, b, c, d \in Nat : a <= b /\ c <= d => a + c <= b + d /\ a + c \in Nat /\ b + d \in Nat
  OBVIOUS
<1>9. g' + k' <= g + k /\ g' + k' \in Nat /\ g + k \in Nat
  BY <1>5, <1>6, <1>7, <1>8
<1>10. QED
  BY <1>5, <1>6, <1>9

-----------------------------------------------------------------------------
(* Steps without a cause *)

\* Only a payment in its transaction locks a booking.
LEMMA LockedIsPaying ==
    ASSUME LockInv, NEW b \in Booking, lock[b] # None
    PROVE  lock[b] \in Request /\ InPayTransaction(lock[b])
BY DEF LockInv

LEMMA NothingArises ==
    ASSUME ResNext, causes' = {}
    PROVE  /\ causes = {}
           /\ ~ConcurrentCreates' /\ ~PaymentDuringCheck' /\ ~UnheldPayment /\ ~OwnerConfirms
           /\ ~BlockUnnoticed /\ ~CutUnnoticed
<1>1. causes = {} /\ Arising = {}
  BY DEF ResNext
<1>2. \A c : c \notin Arising
  BY <1>1
<1> HIDE DEF ResNext
<1>3. /\ "concurrent creates" \notin Arising /\ "payment during check" \notin Arising
      /\ "unheld payment" \notin Arising /\ "owner confirms" \notin Arising
      /\ "block unnoticed" \notin Arising /\ "cut unnoticed" \notin Arising
  BY <1>2
<1>4. ~ConcurrentCreates'
  BY <1>3 DEF Arising
<1>5. ~PaymentDuringCheck'
  BY <1>3 DEF Arising
<1>6. ~UnheldPayment /\ ~OwnerConfirms
  BY <1>3 DEF Arising
<1>7. ~BlockUnnoticed /\ ~CutUnnoticed
  BY <1>3 DEF Arising
<1>8. QED
  BY <1>1, <1>4, <1>5, <1>6, <1>7

\* Without an unheld payment or an owner's confirmation, the awaits of a request
\* in flight promise a room to nobody, except by setting a hold.
LEMMA FewerPromised ==
    ASSUME ResTypeOK, IndInv, LockInv, ~UnheldPayment, ~OwnerConfirms,
           NEW r \in Request, Continue(r) \/ PayRollback(r) \/ RequestFails(r),
           ~CreateBookingHold(r)
    PROVE  /\ \A b \in Booking : Promised(b)' => Promised(b)
           /\ hold' \subseteq hold
           /\ \/ InPayTransaction(r)
              \/ \A b \in Booking : row'[b].status = "CONFIRMED" => row[b].status = "CONFIRMED"
<1> DEFINE Fewer ==
             /\ \A b \in Booking : Promised(b)' => Promised(b)
             /\ hold' \subseteq hold
             /\ \/ InPayTransaction(r)
                \/ \A b \in Booking : row'[b].status = "CONFIRMED" => row[b].status = "CONFIRMED"
<1> SUFFICES Fewer
  OBVIOUS
<1> USE DEF Promised, IndInv, TypeOK, At, Goto, End, Arrive, Load
<1>1. CASE UNCHANGED <<row, lock>> /\ hold' \subseteq hold
  BY <1>1
<1>2. ASSUME NEW b \in Booking, GenerateBookingCode(r, b) PROVE Fewer
  BY <1>1, <1>2 DEF GenerateBookingCode
<1>3. CASE GenerateBookingCodeGivesUp(r) \/ SendBookingInvoiceEmail(r) \/ CancelLoad(r)
           \/ OwnerLoad(r) \/ CancelRemoveHold(r) \/ RequestFails(r) \/ ConfirmPaymentRelease(r)
  BY <1>1, <1>3 DEF GenerateBookingCodeGivesUp, SendBookingInvoiceEmail, CancelLoad, OwnerLoad,
                    CancelRemoveHold, RequestFails, ConfirmPaymentRelease
<1>4. CASE InsertBooking(r)
  <2> DEFINE c == req[r].code
  <2>1. CASE row[c] = NoRow
    <3>1. c \in Booking /\ c \notin hold
      BY <1>4, <2>1 DEF InsertBooking, CodeInv, ResTypeOK
    <3>2. lock[c] = None
      BY <2>1, <3>1 DEF LockInv, TransactionInv, NoRow
    <3>3. row' = [row EXCEPT ![c] = PendingEntity] /\ UNCHANGED <<lock, hold>>
      BY <1>4, <2>1 DEF InsertBooking
    <3>4. QED
      BY <3>1, <3>2, <3>3 DEF PendingEntity
  <2>2. CASE row[c] # NoRow
    BY <1>1, <1>4, <2>2 DEF InsertBooking
  <2>3. QED
    BY <2>1, <2>2
<1>5. CASE ConfirmPaymentLock(r)
  <2> DEFINE c == req[r].code
  <2>1. CASE Payable(row[c])
    <3>1. c \in Booking /\ lock[c] = None /\ lock' = [lock EXCEPT ![c] = r] /\ UNCHANGED <<row, hold>>
      BY <1>5, <2>1 DEF ConfirmPaymentLock, CodeInv, Unlocked
    <3>2. lock'[c] # None
      BY <3>1, NoneAssumption
    <3>3. c \in hold
      BY <3>1, <3>2 DEF UnheldPayment
    <3>4. QED
      BY <3>1, <3>3
  <2>2. CASE ~Payable(row[c])
    BY <1>1, <1>5, <2>2 DEF ConfirmPaymentLock
  <2>3. QED
    BY <2>1, <2>2
<1>6. CASE ConfirmPaymentCommit(r)
  <2> DEFINE c == req[r].code
  <2>1. /\ c \in Booking /\ lock[c] = r /\ row[c].status = "PENDING_PAYMENT"
        /\ row' = [row EXCEPT ![c] = req[r].entity] /\ lock' = [lock EXCEPT ![c] = None]
        /\ hold' = hold /\ InPayTransaction(r)
    BY <1>6 DEF ConfirmPaymentCommit, TransactionInv, InPayTransaction
  <2>2. r # None
    BY NoneAssumption
  <2>3. QED
    BY <2>1, <2>2
<1>7. CASE PayRollback(r)
  <2>1. /\ req[r].code \in Booking /\ lock' = [lock EXCEPT ![req[r].code] = None]
        /\ UNCHANGED <<row, hold>>
    BY <1>7 DEF PayRollback, TransactionInv
  <2>2. QED
    BY <2>1
<1>8. CASE CancelUpdate(r) \/ OwnerUpdate(r)
  <2> DEFINE c == req[r].code
  <2>1. /\ c \in Booking /\ row[c] \in Entity /\ UNCHANGED <<lock, hold>>
        /\ row' = [row EXCEPT ![c] = Saved(@, req[r].loaded, req[r].entity)]
        /\ req[r].entity # req[r].loaded => lock[c] = None
    BY <1>8, EntityTypes DEF CancelUpdate, OwnerUpdate, SaveInv, Saving, Unlocked
  <2>2. CASE req[r].entity = req[r].loaded
    <3>1. Saved(row[c], req[r].loaded, req[r].entity) = row[c]
      BY <2>1, <2>2 DEF Saved, Entity
    <3>2. row' = row
      BY <2>1, <3>1
    <3>3. QED
      BY <1>1, <2>1, <3>2
  <2>3. CASE lock[c] = None
    <3>1. \/ row'[c].status = row[c].status
          \/ row'[c].status # "CONFIRMED" /\ ~(row'[c].status = "PENDING_PAYMENT" /\ c \in hold)
      BY <2>1, <2>3 DEF OwnerConfirms
    <3>2. \A b \in Booking \ {c} : row'[b] = row[b]
      BY <2>1
    <3>3. lock'[c] = None
      BY <2>1, <2>3
    <3>4. \A b \in Booking : b = c => (Promised(b)' => Promised(b))
      BY <2>1, <3>1, <3>3
    <3>5. \A b \in Booking \ {c} : Promised(b)' => Promised(b)
      BY <2>1, <3>2
    <3>6. \A b \in Booking : row'[b].status = "CONFIRMED" => row[b].status = "CONFIRMED"
      BY <2>1, <3>1, <3>2
    <3>7. QED
      BY <2>1, <3>4, <3>5, <3>6
  <2>4. QED
    BY <2>1, <2>2, <2>3
<1>9. QED
  BY <1>2, <1>3, <1>4, <1>5, <1>6, <1>7, <1>8 DEF Continue

\* What a check would read does not grow when no booking is confirmed, no hold set
\* and no block created.
LEMMA SumsShrink ==
    ASSUME Sound, Sound', NEW s \in Stay,
           hold' \subseteq hold, blocks' \subseteq blocks,
           \A b \in Booking : row'[b].status = "CONFIRMED" => row[b].status = "CONFIRMED",
           \A b \in Booking : row[b] # NoRow => stay'[b] = stay[b]
    PROVE  /\ Quantity({k \in blocks' : StoredOverlap(k, s, ServerZone)})
                 <= Quantity({k \in blocks : StoredOverlap(k, s, ServerZone)})
           /\ RoomsIn(stay', {b \in Booking : row'[b].status = "CONFIRMED"
                                               /\ StoredOverlap(stay'[b], s, ServerZone)})
                 <= BookedQuantity(Booked(s))
           /\ RoomsIn(stay', {b \in hold' : HeldOverlap(stay'[b], s)})
                 <= BookedQuantity(Held(s, hold))
<1>1. /\ \A b \in Booking : row[b].status = "CONFIRMED" => row[b] # NoRow
      /\ \A b \in hold : row[b] # NoRow
      /\ hold \in SUBSET Booking /\ blocks \in SUBSET Block /\ IsFiniteSet(blocks)
  BY DEF Sound, ResTypeOK, TypeOK, StayInv, NoRow
<1>2. Quantity({k \in blocks' : StoredOverlap(k, s, ServerZone)})
        <= Quantity({k \in blocks : StoredOverlap(k, s, ServerZone)})
  <2> DEFINE S == {k \in blocks : StoredOverlap(k, s, ServerZone)}
             T == {k \in blocks' : StoredOverlap(k, s, ServerZone)}
  <2>1. S \in SUBSET Block /\ IsFiniteSet(S)
    BY <1>1, FS_Subset
  <2>2. T \in SUBSET S
    OBVIOUS
  <2> HIDE DEF S, T
  <2>3. QED
    BY <2>1, <2>2, QuantityMonotone DEF S, T
<1>3. RoomsIn(stay', {b \in Booking : row'[b].status = "CONFIRMED"
                                       /\ StoredOverlap(stay'[b], s, ServerZone)})
        <= BookedQuantity(Booked(s))
  <2> DEFINE A == {b \in Booking : row'[b].status = "CONFIRMED"
                                   /\ StoredOverlap(stay'[b], s, ServerZone)}
  <2>1. \A b \in A : b \in Booking /\ row[b].status = "CONFIRMED" /\ stay'[b] = stay[b]
    BY <1>1
  <2>2. A \in SUBSET Booked(s)
    BY <2>1 DEF Booked
  <2>3. Booked(s) \in SUBSET Booking /\ \A b \in Booked(s) : row[b] # NoRow
    BY <1>1 DEF Booked
  <2> HIDE DEF A
  <2>4. RoomsIn(stay', A) <= BookedQuantity(Booked(s))
    BY <2>1, <2>2, <2>3, BookedLater DEF Sound
  <2>5. QED
    BY <2>4 DEF A
<1>4. RoomsIn(stay', {b \in hold' : HeldOverlap(stay'[b], s)}) <= BookedQuantity(Held(s, hold))
  <2> DEFINE A == {b \in hold' : HeldOverlap(stay'[b], s)}
  <2>1. \A b \in A : b \in hold /\ b \in Booking /\ stay'[b] = stay[b]
    BY <1>1
  <2>2. A \in SUBSET Held(s, hold)
    BY <2>1 DEF Held
  <2>3. Held(s, hold) \in SUBSET Booking /\ \A b \in Held(s, hold) : row[b] # NoRow
    BY <1>1 DEF Held
  <2> HIDE DEF A
  <2>4. RoomsIn(stay', A) <= BookedQuantity(Held(s, hold))
    BY <2>1, <2>2, <2>3, BookedLater DEF Sound
  <2>5. QED
    BY <2>4 DEF A
<1>5. QED
  BY <1>2, <1>3, <1>4

\* What an availability check counts, as numbers.
CountsNat ==
    \A s \in Stay : /\ Quantity({k \in blocks : StoredOverlap(k, s, ServerZone)}) \in Nat
                    /\ BookedQuantity(Booked(s)) \in Nat
                    /\ BookedQuantity(Held(s, hold)) \in Nat

LEMMA CountsType == Sound => CountsNat
<1> SUFFICES ASSUME Sound, NEW s \in Stay
             PROVE  /\ Quantity({k \in blocks : StoredOverlap(k, s, ServerZone)}) \in Nat
                    /\ BookedQuantity(Booked(s)) \in Nat
                    /\ BookedQuantity(Held(s, hold)) \in Nat
  BY DEF CountsNat
<1> USE DEF Sound, StayInv
<1>1. BookedQuantity(Booked(s)) \in Nat
  BY SumTypes DEF Booked, NoRow
<1>2. BookedQuantity(Held(s, hold)) \in Nat
  BY SumTypes DEF Held, ResTypeOK, TypeOK
<1>3. Quantity({k \in blocks : StoredOverlap(k, s, ServerZone)}) \in Nat
  BY SumTypes
<1>4. QED
  BY <1>1, <1>2, <1>3

LEMMA ReadsStayBound ==
    ASSUME Sound, Sound', NEW r \in Request, Checking(r), check'[r] = check[r], ReadsBound(r),
           total <= total', hold' \subseteq hold, blocks' \subseteq blocks,
           \A b \in Booking : row'[b].status = "CONFIRMED" => row[b].status = "CONFIRMED",
           \A b \in Booking : row[b] # NoRow => stay'[b] = stay[b]
    PROVE  ReadsBound(r)'
<1> DEFINE c == check[r]
<1>1. PICK s \in Stay : s = c.stay
  BY DEF Sound, StayInv, Relying
<1>2. check[r] = check'[r] /\ check'[r].stay = s
  BY <1>1
<1>3. c \in Check /\ total \in Nat /\ total' \in Nat
  BY ReservationAssumption DEF Sound, ResTypeOK
<1>4. c.total \in Nat /\ c.total <= total'
  BY <1>3 DEF ReadsBound
<1> DEFINE k == Quantity({x \in blocks : StoredOverlap(x, s, ServerZone)})
           b == BookedQuantity(Booked(s))
           h == BookedQuantity(Held(s, hold))
           k2 == Quantity({x \in blocks' : StoredOverlap(x, s, ServerZone)})
           b2 == RoomsIn(stay', {x \in Booking : row'[x].status = "CONFIRMED"
                                                  /\ StoredOverlap(stay'[x], s, ServerZone)})
           h2 == RoomsIn(stay', {x \in hold' : HeldOverlap(stay'[x], s)})
<1>5. k2 <= k /\ b2 <= b /\ h2 <= h
  BY SumsShrink
<1>6. k \in Nat /\ b \in Nat /\ h \in Nat
  BY CountsType DEF CountsNat
<1>7. k2 \in Nat /\ b2 \in Nat /\ h2 \in Nat
  <2>1. CountsNat'
    BY CountsType, PTL
  <2>2. b2 = BookedQuantity(Booked(s))' /\ h2 = BookedQuantity(Held(s, hold))'
    BY DEF BookedQuantity, Booked, Held, RoomsIn
  <2>3. QED
    BY <2>1, <2>2 DEF CountsNat
<1>8. /\ c.blocked # Unread => k <= c.blocked
      /\ c.booked # Unread => b <= c.booked
      /\ c.held # Unread => h <= c.held
      /\ c.keys # None => hold \subseteq c.keys
  BY <1>1 DEF ReadsBound
<1>9. c.blocked \in Nat \cup {Unread} /\ c.booked \in Nat \cup {Unread} /\ c.held \in Nat \cup {Unread}
  BY <1>3, CheckTypes
<1> HIDE DEF k, b, h, k2, b2, h2
<1>10. /\ c.blocked # Unread => k2 <= c.blocked
       /\ c.booked # Unread => b2 <= c.booked
       /\ c.held # Unread => h2 <= c.held
       /\ c.keys # None => hold' \subseteq c.keys
  BY <1>5, <1>6, <1>7, <1>8, <1>9
<1>11. QED
  BY <1>2, <1>4, <1>10 DEF k2, b2, h2, ReadsBound, BookedQuantity, Booked, Held, RoomsIn

-----------------------------------------------------------------------------
(* The decision *)

\* The engine's date tests find every stay and every block that shares a night
\* with the stay asked for.  They do if dates come without a time, or with the
\* server's own offset (DaysAreSeen and LocalTimesAreSeen below).
NightsSeen ==
    \A t \in Stay : Valid(t) =>
        /\ \A s \in Stay : ShareANight(s, t) => StoredOverlap(s, t, ServerZone) /\ HeldOverlap(s, t)
        /\ \A k \in Block : ShareANight(k, t) => StoredOverlap(k, t, ServerZone)

LEMMA MaxWithZero == \A n \in Int, q \in Nat : q > 0 /\ Max({n, 0}) >= q => n >= q
<1> SUFFICES ASSUME NEW n \in Int, NEW q \in Nat, q > 0, Max({n, 0}) >= q PROVE n >= q
  OBVIOUS
<1>1. \E x \in {n, 0} : \A y \in {n, 0} : x >= y
  OBVIOUS
<1>2. Max({n, 0}) \in {n, 0}
  BY <1>1 DEF Max
<1>3. QED
  BY <1>2

\* What is taken of a night of the stay is no more than the three counts.
LEMMA CountsCover ==
    ASSUME Sound, NightsSeen, NEW t \in Stay, Valid(t), NEW night \in Nights(t),
           \A b \in Booking : lock[b] = None
    PROVE  /\ TakenOn(night) \in Nat
           /\ TakenOn(night) <= BookedQuantity(Booked(t)) + BookedQuantity(Held(t, hold))
                                 + Quantity({k \in blocks : StoredOverlap(k, t, ServerZone)})
<1> DEFINE B == Booked(t)
           H == Held(t, hold)
           K == {k \in blocks : StoredOverlap(k, t, ServerZone)}
<1>1. /\ \A b \in B \cup H : row[b] # NoRow
      /\ B \in SUBSET Booking /\ H \in SUBSET Booking
      /\ K \in SUBSET Block /\ IsFiniteSet(K)
  BY FS_Subset DEF Sound, ResTypeOK, TypeOK, StayInv, Booked, Held, NoRow
<1>2. \A b \in Booking : Promised(b) => stay[b] \in Stay
  BY PromisedHasStay DEF Sound
<1>3. Guests(night) \in SUBSET (B \cup H)
  <2> SUFFICES ASSUME NEW b \in Guests(night) PROVE b \in B \cup H
    OBVIOUS
  <2>1. b \in Booking /\ Promised(b) /\ stay[b] \in Stay /\ ShareANight(stay[b], t)
    BY <1>2 DEF Guests, ShareANight
  <2>2. StoredOverlap(stay[b], t, ServerZone) /\ HeldOverlap(stay[b], t)
    BY <2>1 DEF NightsSeen
  <2>3. row[b].status = "CONFIRMED" \/ b \in hold
    BY <2>1 DEF Promised
  <2>4. QED
    BY <2>1, <2>2, <2>3 DEF Booked, Held
<1>4. ClosedOn(night) \in SUBSET K
  <2> SUFFICES ASSUME NEW k \in ClosedOn(night) PROVE k \in K
    OBVIOUS
  <2>1. k \in blocks /\ k \in Block /\ ShareANight(k, t)
    BY DEF ClosedOn, ShareANight, Sound, ResTypeOK
  <2>2. QED
    BY <2>1 DEF NightsSeen
<1>5. BookedQuantity(Guests(night)) <= BookedQuantity(B \cup H)
  BY <1>1, <1>3, BookedMonotone DEF Sound
<1>6. BookedQuantity(B \cup H) <= BookedQuantity(B) + BookedQuantity(H)
  <2>1. IsFiniteSet(B) /\ IsFiniteSet(H) /\ \A b \in B \cup H : stay[b].quantity \in Int
    BY <1>1, ReservationAssumption, FS_Subset, PromisedHasStay DEF Sound
  <2> HIDE DEF B, H
  <2>2. RoomsIn(stay, B \cup H) <= RoomsIn(stay, B) + RoomsIn(stay, H)
    BY <2>1, RoomsInUnion
  <2>3. QED
    BY <2>2 DEF BookedQuantity, RoomsIn
<1>7. Quantity(ClosedOn(night)) <= Quantity(K)
  BY <1>1, <1>4, QuantityMonotone
<1>8. BookedQuantity(B) \in Nat /\ BookedQuantity(H) \in Nat /\ Quantity(K) \in Nat
  BY CountsType DEF CountsNat
<1>9. BookedQuantity(B \cup H) \in Nat
  BY <1>1, SumTypes DEF Sound, StayInv
<1>10. /\ BookedQuantity(Guests(night)) \in Nat /\ Quantity(ClosedOn(night)) \in Nat
       /\ TakenOn(night) = BookedQuantity(Guests(night)) + Quantity(ClosedOn(night))
  BY TakenType DEF TakenNat
<1> HIDE DEF B, H, K
<1>11. /\ TakenOn(night) \in Nat
       /\ TakenOn(night) <= BookedQuantity(B) + BookedQuantity(H) + Quantity(K)
  BY <1>5, <1>6, <1>7, <1>8, <1>9, <1>10
<1>12. QED
  BY <1>11 DEF B, H, K

\* A request that may book finds the rooms it asks for on each of its nights.
LEMMA DecisionIsSound ==
    ASSUME Sound, NightsSeen, NEW r \in Request, AllRead(r), ReadsBound(r),
           ~PaymentDuringCheck, canBook(check[r])
    PROVE  RoomsLeft(r) /\ check[r].stay.quantity > 0
<1> DEFINE c == check[r]
           t == c.stay
<1>1. t \in Stay /\ Valid(t) /\ c \in Check /\ total \in Nat /\ Relying(r)
  BY ReservationAssumption DEF Sound, StayInv, AllRead, Relying, ResTypeOK
<1>2. t.quantity \in Nat /\ t.quantity > 0
  BY <1>1, ReservationAssumption DEF Valid
<1>3. \A b \in Booking : lock[b] = None
  BY <1>1, LockedIsPaying DEF PaymentDuringCheck, Sound
<1> DEFINE k == Quantity({x \in blocks : StoredOverlap(x, t, ServerZone)})
           b == BookedQuantity(Booked(t))
           h == BookedQuantity(Held(t, hold))
<1>4. k \in Nat /\ b \in Nat /\ h \in Nat
  BY <1>1, CountsType DEF CountsNat
<1>5. /\ c.blocked \in Nat /\ c.booked \in Nat /\ c.held \in Nat
      /\ c.total \in Nat /\ c.total <= total
      /\ k <= c.blocked /\ b <= c.booked /\ h <= c.held
  BY <1>1, CheckTypes DEF AllRead, ReadsBound
<1>6. Max({c.total - c.booked - c.held - c.blocked, 0}) >= t.quantity
  BY DEF canBook, available
<1>7. c.total - c.booked - c.held - c.blocked >= t.quantity
  BY <1>2, <1>5, <1>6, MaxWithZero
<1>8. ASSUME NEW night \in Nights(t) PROVE TakenOn(night) + t.quantity <= total
  <2>1. TakenOn(night) \in Nat /\ TakenOn(night) <= b + h + k
    BY <1>1, <1>3, CountsCover
  <2> HIDE DEF b, h, k, c, t
  <2>2. QED
    BY <1>1, <1>2, <1>4, <1>5, <1>7, <2>1
<1>9. QED
  BY <1>2, <1>8 DEF RoomsLeft

-----------------------------------------------------------------------------
(* Steps, while no cause has arisen *)

\* The first read of a check, and each that follows, bound what there is.
LEMMA BeginBounds ==
    ASSUME Sound, NEW r \in Request, NEW s \in Stay, BeginCheck(r, s)
    PROVE  ReadsBound(r)'
<1>1. check' = [check EXCEPT ![r] = [NoCheck EXCEPT !.stay = s, !.total = total]] /\ total' = total
  BY DEF BeginCheck, Sound, ResTypeOK
<1>2. check'[r] = [NoCheck EXCEPT !.stay = s, !.total = total]
  BY <1>1 DEF Sound, ResTypeOK
<1>3. /\ check'[r].total = total /\ check'[r].keys = None
      /\ check'[r].blocked = Unread /\ check'[r].booked = Unread /\ check'[r].held = Unread
  BY <1>2 DEF NoCheck
<1>4. total \in Nat
  BY ReservationAssumption DEF Sound, ResTypeOK
<1> HIDE DEF NoCheck
<1>5. total' \in Nat /\ total <= total'
  BY <1>1, <1>4
<1>6. QED
  BY <1>3, <1>5, <1>4 DEF ReadsBound

LEMMA ReadBounds ==
    ASSUME Sound, NEW r \in Request, ReadsBound(r),
           ReadBlocked(r) \/ ReadBooked(r) \/ ListHolds(r) \/ ReadHolds(r)
    PROVE  ReadsBound(r)'
<1> DEFINE c == check[r]
<1>1. /\ c \in Check /\ Checking(r) /\ UNCHANGED <<vars, total, stay, blocks>>
      /\ row' = row /\ hold' = hold
  BY DEF ReadBlocked, ReadBooked, ListHolds, ReadHolds, Sound, ResTypeOK, vars
<1>2. PICK s \in Stay : s = c.stay
  BY <1>1 DEF Sound, StayInv, Relying
<1> DEFINE k == Quantity({x \in blocks : StoredOverlap(x, s, ServerZone)})
           b == BookedQuantity(Booked(s))
           h == BookedQuantity(Held(s, hold))
<1>3. k \in Nat /\ b \in Nat /\ h \in Nat
  BY CountsType DEF CountsNat
<1>4. /\ c.total \in Nat /\ c.total <= total
      /\ c.blocked # Unread => k <= c.blocked
      /\ c.booked # Unread => b <= c.booked
      /\ c.keys # None => hold \subseteq c.keys
      /\ c.held # Unread => h <= c.held
  BY <1>2 DEF ReadsBound
<1>5. k' = k /\ b' = b /\ h' = h
  BY <1>1 DEF BookedQuantity, Booked, Held
<1> HIDE DEF k, b, h
<1>6. ASSUME NEW e, check'[r] = e, e.stay = s, e.total = c.total,
             e.blocked # Unread => k <= e.blocked,
             e.booked # Unread => b <= e.booked,
             e.keys # None => hold \subseteq e.keys,
             e.held # Unread => h <= e.held
      PROVE  ReadsBound(r)'
  <2>1. /\ e.total \in Nat /\ e.total <= total'
        /\ e.blocked # Unread => k' <= e.blocked
        /\ e.booked # Unread => b' <= e.booked
        /\ e.keys # None => hold' \subseteq e.keys
        /\ e.held # Unread => h' <= e.held
    BY <1>1, <1>4, <1>5, <1>6
  <2>2. QED
    BY <1>6, <2>1 DEF ReadsBound, BookedQuantity, Booked, Held, k, b, h
<1>7. CASE ReadBlocked(r)
  <2>1. check'[r] = [c EXCEPT !.blocked = k]
    BY <1>2, <1>7 DEF ReadBlocked, Sound, ResTypeOK, k
  <2> DEFINE e == [c EXCEPT !.blocked = k]
  <2>2. /\ e.stay = s /\ e.total = c.total /\ e.blocked = k /\ e.booked = c.booked
        /\ e.keys = c.keys /\ e.held = c.held
    BY <1>1, <1>2 DEF Check
  <2>3. check'[r] = e
    BY <2>1
  <2> HIDE DEF e
  <2>4. /\ e.blocked # Unread => k <= e.blocked
        /\ e.booked # Unread => b <= e.booked
        /\ e.keys # None => hold \subseteq e.keys
        /\ e.held # Unread => h <= e.held
    BY <1>3, <1>4, <2>2
  <2>5. QED
    BY <1>6, <2>2, <2>3, <2>4
<1>8. CASE ReadBooked(r)
  <2>1. check'[r] = [c EXCEPT !.booked = b]
    BY <1>2, <1>8 DEF ReadBooked, Sound, ResTypeOK, b
  <2> DEFINE e == [c EXCEPT !.booked = b]
  <2>2. /\ e.stay = s /\ e.total = c.total /\ e.blocked = c.blocked /\ e.booked = b
        /\ e.keys = c.keys /\ e.held = c.held
    BY <1>1, <1>2 DEF Check
  <2>3. check'[r] = e
    BY <2>1
  <2> HIDE DEF e
  <2>4. /\ e.blocked # Unread => k <= e.blocked
        /\ e.booked # Unread => b <= e.booked
        /\ e.keys # None => hold \subseteq e.keys
        /\ e.held # Unread => h <= e.held
    BY <1>3, <1>4, <2>2
  <2>5. QED
    BY <1>6, <2>2, <2>3, <2>4
<1>9. CASE ListHolds(r)
  <2>1. check'[r] = [c EXCEPT !.keys = hold]
    BY <1>9 DEF ListHolds, Sound, ResTypeOK
  <2> DEFINE e == [c EXCEPT !.keys = hold]
  <2>2. /\ e.stay = s /\ e.total = c.total /\ e.blocked = c.blocked /\ e.booked = c.booked
        /\ e.keys = hold /\ e.held = c.held
    BY <1>1, <1>2 DEF Check
  <2> HIDE DEF e
  <2>3. QED
    BY <1>4, <1>6, <2>1, <2>2 DEF e
<1>10. CASE ReadHolds(r)
  <2>1. hold \subseteq c.keys
    BY <1>4, <1>10 DEF ReadHolds
  <2>2. Held(s, c.keys) = Held(s, hold)
    BY <2>1 DEF Held
  <2>3. check'[r] = [c EXCEPT !.held = h]
    BY <1>2, <1>10, <2>2 DEF ReadHolds, Sound, ResTypeOK, h
  <2> DEFINE e == [c EXCEPT !.held = h]
  <2>4. /\ e.stay = s /\ e.total = c.total /\ e.blocked = c.blocked /\ e.booked = c.booked
        /\ e.keys = c.keys /\ e.held = h
    BY <1>1, <1>2 DEF Check
  <2>5. check'[r] = e
    BY <2>3
  <2> HIDE DEF e
  <2>6. /\ e.blocked # Unread => k <= e.blocked
        /\ e.booked # Unread => b <= e.booked
        /\ e.keys # None => hold \subseteq e.keys
        /\ e.held # Unread => h <= e.held
    BY <1>3, <1>4, <2>4
  <2>7. QED
    BY <1>6, <2>4, <2>5, <2>6
<1>11. QED
  BY <1>7, <1>8, <1>9, <1>10

\* Nothing is lost in a step that takes no room and confirms or holds nothing a
\* check in progress would have to count.
LEMMA QuietStep ==
    ASSUME Sound, Sound', CauselessInv, causes = {}, ~ConcurrentCreates', ~PaymentDuringCheck',
           total <= total', blocks' \subseteq blocks,
           \A b \in Booking : Promised(b)' => Promised(b),
           \A b \in Booking : row[b] # NoRow => stay'[b] = stay[b],
           \A r \in Request : Checking(r)' =>
               \/ ReadsBound(r)'
               \/ /\ Checking(r) /\ check'[r] = check[r]
                  /\ hold' \subseteq hold
                  /\ \A b \in Booking : row'[b].status = "CONFIRMED" => row[b].status = "CONFIRMED",
           \A r \in Request : Accepted(r)' =>
               check'[r].stay = check[r].stay /\ RoomsLeft(r) /\ check[r].stay.quantity > 0
    PROVE  CauselessInv'
<1>1. total \in Nat /\ total' \in Nat
  BY ReservationAssumption DEF Sound, ResTypeOK
<1>2. \A night : TakenOn(night)' <= TakenOn(night) /\ TakenOn(night) \in Nat /\ TakenOn(night)' \in Nat
  BY NothingTaken, PromisedHasStay DEF Sound
<1>3. NoOversell'
  <2>1. \A night \in AllNights : TakenOn(night) <= total
    BY DEF CauselessInv, NoOversell
  <2>2. \A night \in AllNights : TakenOn(night)' <= total'
    BY <1>1, <1>2, <2>1
  <2>3. QED
    BY <2>2 DEF NoOversell, AllNights, Nights
<1>4. ASSUME NEW r \in Request, Checking(r)' PROVE ReadsBound(r)'
  <2> SUFFICES ASSUME ~ReadsBound(r)' PROVE FALSE
    OBVIOUS
  <2>1. /\ Checking(r) /\ check'[r] = check[r]
        /\ hold' \subseteq hold
        /\ \A b \in Booking : row'[b].status = "CONFIRMED" => row[b].status = "CONFIRMED"
    BY <1>4
  <2>2. ReadsBound(r)
    BY <2>1 DEF CauselessInv
  <2>3. ReadsBound(r)'
    BY <2>1, <2>2, ReadsStayBound
  <2>4. QED
    BY <2>3
<1>5. ASSUME NEW r \in Request, Accepted(r)' PROVE RoomsLeft(r)' /\ check'[r].stay.quantity > 0
  <2>1. check'[r].stay = check[r].stay /\ RoomsLeft(r) /\ check[r].stay.quantity > 0
    BY <1>5
  <2>2. check'[r].stay \in Stay
    BY <1>5 DEF Sound, StayInv, Relying
  <2>3. PICK t \in Stay : t = check'[r].stay
    BY <2>2
  <2>4. t.quantity \in Int
    BY ReservationAssumption
  <2>5. \A night \in Nights(t) : TakenOn(night) + t.quantity <= total
    BY <2>1, <2>3 DEF RoomsLeft
  <2>6. \A night \in Nights(t) : TakenOn(night)' + t.quantity <= total'
    BY <1>1, <1>2, <2>4, <2>5
  <2>7. QED
    BY <2>1, <2>3, <2>6 DEF RoomsLeft, Nights
<1>6. QED
  BY <1>3, <1>4, <1>5 DEF CauselessInv

\* Setting the hold takes the rooms that were left for it.
LEMMA HoldFits ==
    ASSUME Sound, Sound', CauselessInv, causes = {}, ~ConcurrentCreates', ~PaymentDuringCheck',
           NEW r \in Request, CreateBookingHold(r), Recorded(r)
    PROVE  CauselessInv'
<1>1. /\ At(r, "inserted") /\ hold' = hold \cup {req[r].code}
      /\ UNCHANGED <<row, lock, total, blocks>>
      /\ req' = [req EXCEPT ![r] = [pc |-> "created", code |-> req[r].code,
                                    entity |-> NoRow, loaded |-> NoRow]]
  BY DEF CreateBookingHold, Recorded, End
<1>2. req[r].code \in Booking
  BY <1>1 DEF Sound, IndInv, CodeInv, At
<1>3. PICK b \in Booking : b = req[r].code
  BY <1>2
<1>4. stay' = stay
  BY <1>1 DEF Recorded, Sound, ResTypeOK
<1>5. /\ Relying(r) /\ RoomsLeft(r) /\ check[r].stay.quantity > 0
      /\ stay[b] = check[r].stay /\ row[b] # NoRow /\ stay[b] \in Stay
  BY <1>1, <1>3 DEF CauselessInv, Sound, StayInv, Relying, Accepted, At
<1>6. /\ \A q \in Request \ {r} : req'[q] = req[q] /\ check'[q] = check[q]
      /\ req'[r].pc = "created"
  BY <1>1 DEF Recorded, Sound, ResTypeOK, TypeOK, IndInv
<1>7. \A q \in Request : ~Relying(q)'
  <2>1. \A q \in Request \ {r} : ~Relying(q)
    BY <1>5 DEF CauselessInv, ConcurrentCreates
  <2>2. \A q \in Request \ {r} : ~Relying(q)'
    BY <1>6, <2>1 DEF Relying, Checking, Accepted, At
  <2>3. ~Relying(r)'
    BY <1>6 DEF Relying, Checking, Accepted, At
  <2>4. QED
    BY <2>2, <2>3
<1> DEFINE q == stay[b].quantity
<1>8. q \in Nat /\ RoomsIn(stay, {b}) = q
  <2>1. q > 0
    BY <1>5
  <2>2. stay[b].quantity \in Nat
    BY <1>5, <2>1, ReservationAssumption
  <2>3. QED
    BY <2>2, RoomsInOne
<1>9. \A x \in Booking : Promised(x)' => Promised(x) \/ x = b
  BY <1>1, <1>3 DEF Promised
<1>10. TakenNat /\ TakenNat'
  BY TakenType, PTL
<1>11. total \in Nat
  BY ReservationAssumption DEF Sound, ResTypeOK
<1>12. ASSUME NEW night \in AllNights PROVE TakenOn(night)' <= total
  <2> DEFINE G == Guests(night)
             H == {x \in Booking : Promised(x)' /\ night \in Nights(stay[x])}
  <2>1. BookedQuantity(Guests(night))' = RoomsIn(stay, H)
    BY <1>4 DEF BookedQuantity, Guests, RoomsIn
  <2>2. Quantity(ClosedOn(night))' = Quantity(ClosedOn(night))
    BY <1>1 DEF ClosedOn
  <2>3. G \in SUBSET Booking /\ \A x \in G : row[x] # NoRow
    BY PromisedHasStay DEF Guests, Sound
  <2>4. RoomsIn(stay, G) = BookedQuantity(G)
    BY DEF RoomsIn, BookedQuantity
  <2>5. TakenOn(night) <= total
    BY DEF CauselessInv, NoOversell
  <2>6. /\ BookedQuantity(G) \in Nat /\ Quantity(ClosedOn(night)) \in Nat
        /\ TakenOn(night) = BookedQuantity(G) + Quantity(ClosedOn(night))
    BY <1>10 DEF TakenNat
  <2>7. /\ BookedQuantity(Guests(night))' \in Nat
        /\ TakenOn(night)' = BookedQuantity(Guests(night))' + Quantity(ClosedOn(night))'
    BY <1>10 DEF TakenNat
  <2>8. CASE night \notin Nights(stay[b])
    <3>1. H \in SUBSET G
      BY <1>9, <2>8 DEF Guests
    <3> HIDE DEF G, H
    <3>2. RoomsIn(stay, H) <= BookedQuantity(G)
      BY <2>3, <3>1, BookedLater, <1>4 DEF Sound
    <3>3. QED
      BY <1>11, <2>1, <2>2, <2>5, <2>6, <2>7, <3>2
  <2>9. CASE night \in Nights(stay[b])
    <3>1. H \in SUBSET (G \cup {b})
      BY <1>9 DEF Guests
    <3>2. TakenOn(night) + q <= total
      BY <1>5, <2>9 DEF RoomsLeft
    <3> HIDE DEF G, H
    <3>3. IsFiniteSet(G) /\ IsFiniteSet({b}) /\ IsFiniteSet(G \cup {b})
      BY <2>3, ReservationAssumption, FS_Subset
    <3>4. \A x \in G \cup {b} : stay[x].quantity \in Int
      BY <1>5, <2>3, PromisedHasStay DEF Sound
    <3>5. RoomsIn(stay, H) <= RoomsIn(stay, G \cup {b}) /\ RoomsIn(stay, G \cup {b}) \in Nat
      BY <3>1, <3>3, <3>4, RoomsInMonotone, RoomsInType
    <3>6. RoomsIn(stay, G \cup {b}) <= RoomsIn(stay, G) + RoomsIn(stay, {b})
      BY <3>3, <3>4, RoomsInUnion
    <3> HIDE DEF q
    <3>7. QED
      BY <1>8, <1>11, <2>1, <2>2, <2>4, <2>6, <2>7, <3>2, <3>5, <3>6
  <2>10. QED
    BY <2>8, <2>9
<1>13. NoOversell'
  BY <1>1, <1>12 DEF NoOversell, AllNights, Nights
<1>14. QED
  BY <1>7, <1>13 DEF CauselessInv, Relying

\* Requests, rows, holds and locks as they were.
LEMMA SameRequest ==
    ASSUME NEW q \in Request, req'[q] = req[q], check'[q] = check[q]
    PROVE  /\ Checking(q)' <=> Checking(q)
           /\ Accepted(q)' <=> Accepted(q)
BY DEF Checking, Accepted, At

LEMMA CausesStay ==
    ASSUME Sound, Sound', NightsSeen, CauselessInv, ResNext, causes' = {}
    PROVE  CauselessInv'
<1>1. /\ causes = {}
      /\ ~ConcurrentCreates' /\ ~PaymentDuringCheck' /\ ~UnheldPayment /\ ~OwnerConfirms
      /\ ~BlockUnnoticed /\ ~CutUnnoticed
  BY NothingArises
<1>2. /\ ~ConcurrentCreates /\ ~PaymentDuringCheck
      /\ \A r \in Request : /\ Checking(r) => ReadsBound(r)
                            /\ Accepted(r) => RoomsLeft(r) /\ check[r].stay.quantity > 0
  BY <1>1 DEF CauselessInv
<1>3. /\ total \in Nat /\ total' \in Nat /\ NewTotal \subseteq Nat
      /\ check \in [Request -> Check] /\ stay \in [Booking -> Stay \cup {None}]
  BY ReservationAssumption DEF Sound, ResTypeOK
\* Nothing but the reads of one check.
<1>4. ASSUME UNCHANGED <<row, lock, hold, total, stay, blocks>>, NEW r \in Request,
             \A q \in Request \ {r} : req'[q] = req[q] /\ check'[q] = check[q],
             Checking(r)' => ReadsBound(r)',
             Accepted(r)' =>
                check'[r].stay = check[r].stay /\ RoomsLeft(r) /\ check[r].stay.quantity > 0
      PROVE  CauselessInv'
  <2>1. total <= total' /\ blocks' \subseteq blocks
    BY <1>3, <1>4
  <2>2. \A b \in Booking : (Promised(b)' => Promised(b)) /\ stay'[b] = stay[b]
    BY <1>4 DEF Promised
  <2>3. ASSUME NEW q \in Request \ {r}
        PROVE  /\ Checking(q)' => Checking(q)
               /\ Accepted(q)' => Accepted(q)
               /\ check'[q] = check[q]
    BY <1>4, SameRequest
  <2>4. hold' \subseteq hold /\ \A b \in Booking : row'[b].status = "CONFIRMED" => row[b].status = "CONFIRMED"
    BY <1>4
  <2>5. \A q \in Request : Checking(q)' =>
            \/ ReadsBound(q)'
            \/ /\ Checking(q) /\ check'[q] = check[q]
               /\ hold' \subseteq hold
               /\ \A b \in Booking : row'[b].status = "CONFIRMED" => row[b].status = "CONFIRMED"
    BY <1>4, <2>3, <2>4
  <2>6. \A q \in Request : Accepted(q)' =>
            check'[q].stay = check[q].stay /\ RoomsLeft(q) /\ check[q].stay.quantity > 0
    BY <1>2, <1>4, <2>3
  <2>7. QED
    BY <1>1, <2>1, <2>2, <2>5, <2>6, QuietStep
<1>5. ASSUME NEW r \in Request, NEW s \in Stay, BeginCheck(r, s) PROVE CauselessInv'
  <2>1. /\ UNCHANGED <<row, lock, hold, total, stay, blocks>> /\ req' = req /\ At(r, "idle")
        /\ \A q \in Request \ {r} : check'[q] = check[q]
    BY <1>3, <1>5 DEF BeginCheck, vars
  <2>2. ~Accepted(r)'
    BY <2>1 DEF Accepted, At
  <2>3. ReadsBound(r)'
    BY <1>5, BeginBounds
  <2>4. QED
    BY <1>4, <2>1, <2>2, <2>3
<1>6. ASSUME NEW r \in Request, ReadBlocked(r) \/ ReadBooked(r) \/ ListHolds(r) \/ ReadHolds(r)
      PROVE  CauselessInv'
  <2>1. /\ UNCHANGED <<row, lock, hold, total, stay, blocks>> /\ req' = req /\ Checking(r)
        /\ \A q \in Request \ {r} : check'[q] = check[q]
    BY <1>3, <1>6 DEF ReadBlocked, ReadBooked, ListHolds, ReadHolds, vars
  <2>2. ~Accepted(r)'
    BY <2>1 DEF Accepted, Checking, At
  <2>3. ReadsBound(r)'
    BY <1>2, <1>6, <2>1, ReadBounds
  <2>4. QED
    BY <1>4, <2>1, <2>2, <2>3
<1>7. ASSUME NEW r \in Request, Decide(r) \/ CheckFails(r) \/ RefuseInvalid(r) PROVE CauselessInv'
  <2>1. /\ UNCHANGED <<row, lock, hold, total, stay, blocks>>
        /\ req'[r].pc \in {"accepted", "rejected"}
        /\ \A q \in Request \ {r} : req'[q] = req[q] /\ check'[q] = check[q]
    BY <1>3, <1>7 DEF Decide, CheckFails, RefuseInvalid, CreateAccept, CreateRefuse, Goto, End, At,
                      Sound, IndInv, TypeOK
  <2>2. ~Checking(r)'
    BY <2>1 DEF Checking, At
  <2>3. ASSUME Accepted(r)'
        PROVE  check'[r].stay = check[r].stay /\ RoomsLeft(r) /\ check[r].stay.quantity > 0
    <3>1. /\ Decide(r) /\ canBook(check[r]) /\ AllRead(r)
          /\ check' = [check EXCEPT ![r] = [NoCheck EXCEPT !.stay = check[r].stay]]
      BY <1>7, <2>3 DEF Decide, CheckFails, RefuseInvalid, CreateRefuse, End, Accepted,
                        Sound, IndInv, TypeOK
    <3>2. ReadsBound(r)
      BY <1>2, <3>1 DEF AllRead
    <3>3. RoomsLeft(r) /\ check[r].stay.quantity > 0
      BY <1>2, <3>1, <3>2, DecisionIsSound
    <3>4. check'[r].stay = check[r].stay
      BY <1>3, <3>1 DEF NoCheck
    <3>5. QED
      BY <3>3, <3>4
  <2>4. QED
    BY <1>4, <2>1, <2>2, <2>3
<1>8. ASSUME NEW r \in Request, StartOther(r) PROVE CauselessInv'
  <2>1. /\ UNCHANGED <<row, lock, hold, total, stay, blocks>> /\ check' = check
        /\ \A q \in Request \ {r} : req'[q] = req[q]
        /\ ~Checking(r)' /\ ~Accepted(r)'
    BY <1>8, StartEffects DEF Sound, Checking, Accepted, At
  <2>2. QED
    BY <1>4, <2>1
<1>9. ASSUME NEW r \in Request, ContinueOther(r), ~CreateBookingHold(r) PROVE CauselessInv'
  <2>1. Continue(r) \/ PayRollback(r) \/ RequestFails(r)
    BY <1>9 DEF ContinueOther
  <2>2. /\ stay' = [b \in Booking |-> IF row[b] = NoRow /\ row'[b] # NoRow
                                      THEN check[r].stay ELSE stay[b]]
        /\ check' = IF req'[r].pc \in Ended THEN [check EXCEPT ![r] = NoCheck] ELSE check
        /\ total' = total /\ blocks' = blocks
    BY <1>9 DEF ContinueOther, Recorded
  <2>3. /\ \A b \in Booking : Promised(b)' => Promised(b)
        /\ hold' \subseteq hold
        /\ \/ InPayTransaction(r)
           \/ \A b \in Booking : row'[b].status = "CONFIRMED" => row[b].status = "CONFIRMED"
    BY <1>1, <1>9, <2>1, FewerPromised DEF Sound
  <2>4. /\ \A q \in Request \ {r} : req'[q] = req[q]
        /\ req'[r].pc # "idle"
        /\ Accepted(r)' => Accepted(r)
    BY <2>1, ContinueEffects DEF Sound
  <2>5. \A q \in Request \ {r} : check'[q] = check[q]
    BY <1>3, <2>2
  <2>6. \A b \in Booking : row[b] # NoRow => stay'[b] = stay[b]
    BY <2>2
  <2>7. ASSUME NEW q \in Request, Checking(q)'
        PROVE  /\ Checking(q) /\ check'[q] = check[q]
               /\ hold' \subseteq hold
               /\ \A b \in Booking : row'[b].status = "CONFIRMED" => row[b].status = "CONFIRMED"
    <3>1. q # r
      BY <2>4, <2>7 DEF Checking, At
    <3>2. Checking(q) /\ check'[q] = check[q]
      BY <2>4, <2>5, <2>7, <3>1, SameRequest
    <3>3. ~InPayTransaction(r)
      BY <1>2, <3>2 DEF PaymentDuringCheck, Relying
    <3>4. QED
      BY <2>3, <3>2, <3>3
  <2>8. ASSUME NEW q \in Request, Accepted(q)'
        PROVE  check'[q].stay = check[q].stay /\ RoomsLeft(q) /\ check[q].stay.quantity > 0
    <3>1. CASE q = r
      <4>1. check' = check
        BY <2>2, <2>8, <3>1 DEF Accepted, Ended
      <4>2. QED
        BY <1>2, <2>4, <2>8, <3>1, <4>1
    <3>2. CASE q # r
      <4>1. Accepted(q) /\ check'[q] = check[q]
        BY <2>4, <2>5, <2>8, <3>2, SameRequest
      <4>2. QED
        BY <1>2, <4>1
    <3>3. QED
      BY <3>1, <3>2
  <2>9. total <= total' /\ blocks' \subseteq blocks
    BY <1>3, <2>2
  <2>10. QED
    BY <1>1, <2>3, <2>6, <2>7, <2>8, <2>9, QuietStep
<1>10. ASSUME NEW r \in Request, ContinueOther(r), CreateBookingHold(r) PROVE CauselessInv'
  BY <1>1, <1>10, HoldFits DEF ContinueOther
\* Holds that expire, blocks that go, rooms that are added.
<1>11. ASSUME UNCHANGED <<row, lock, req, stay, check>>, hold' \subseteq hold,
              blocks' \subseteq blocks, total <= total'
       PROVE  CauselessInv'
  <2>1. \A b \in Booking : (Promised(b)' => Promised(b)) /\ stay'[b] = stay[b]
    BY <1>11 DEF Promised
  <2>2. \A q \in Request : (Checking(q)' => Checking(q)) /\ (Accepted(q)' => Accepted(q))
    BY <1>11, SameRequest
  <2>3. QED
    BY <1>1, <1>2, <1>11, <2>1, <2>2, QuietStep
<1>12. ASSUME NoOversell', \A r \in Request : ~Relying(r)' PROVE CauselessInv'
  BY <1>1, <1>12 DEF CauselessInv, Relying
<1>13. ASSUME NEW b \in Booking, Expire(b) PROVE CauselessInv'
  BY <1>3, <1>11, <1>13 DEF Expire, ExpireHold
<1>14. ASSUME NEW k \in Block, RemoveBlock(k) PROVE CauselessInv'
  BY <1>3, <1>11, <1>14 DEF RemoveBlock, vars
<1>15. ASSUME NEW k \in Block, CreateBlock(k) PROVE CauselessInv'
  <2>1. k \in blocks' \ blocks
    BY <1>15 DEF CreateBlock
  <2>2. ~Unnoticed'
    BY <1>1, <2>1 DEF BlockUnnoticed
  <2>3. QED
    BY <1>12, <2>2 DEF Unnoticed
<1>16. ASSUME NEW n \in NewTotal, UpdateTotal(n) PROVE CauselessInv'
  <2>1. CASE total' < total
    <3>1. ~Unnoticed'
      BY <1>1, <2>1 DEF CutUnnoticed
    <3>2. QED
      BY <1>12, <3>1 DEF Unnoticed
  <2>2. CASE ~(total' < total)
    BY <1>3, <1>11, <1>16, <2>2 DEF UpdateTotal, vars
  <2>3. QED
    BY <2>1, <2>2
<1>17. QED
  BY <1>5, <1>6, <1>7, <1>8, <1>9, <1>10, <1>13, <1>14, <1>15, <1>16 DEF ResNext

LEMMA CausesStutter ==
    ASSUME Sound, Sound', CauselessInv, UNCHANGED resVars, causes' = {}
    PROVE  CauselessInv'
<1>1. /\ UNCHANGED <<row, lock, hold, req, total, stay, blocks, check>> /\ causes = {}
  BY DEF resVars
<1>2. ~ConcurrentCreates' /\ ~PaymentDuringCheck'
  BY <1>1 DEF CauselessInv, ConcurrentCreates, PaymentDuringCheck, Relying, Checking, Accepted, At,
              InPayTransaction
<1>3. \A b \in Booking : (Promised(b)' => Promised(b)) /\ stay'[b] = stay[b]
  BY <1>1 DEF Promised
<1>4. \A q \in Request : (Checking(q)' => Checking(q)) /\ (Accepted(q)' => Accepted(q))
  BY <1>1, SameRequest
<1>5. total <= total'
  <2>1. total \in Nat
    <3>1. total \in {Total} \cup NewTotal
      BY DEF Sound, ResTypeOK
    <3>2. QED
      BY <3>1, ReservationAssumption
  <2>2. total' = total
    BY <1>1
  <2>3. QED
    BY <2>1, <2>2
<1>6. QED
  BY <1>1, <1>2, <1>3, <1>4, <1>5, QuietStep DEF CauselessInv

LEMMA InitCauseless == ResInit => CauselessInv
<1> SUFFICES ASSUME ResInit PROVE CauselessInv
  OBVIOUS
<1>1. /\ \A r \in Request : req[r].pc = "idle" /\ check[r] = NoCheck
      /\ \A b \in Booking : row[b] = NoRow
      /\ blocks = {} /\ total = Total
  BY DEF ResInit, Init, Idle
<1>2. \A r \in Request : ~Relying(r) /\ ~Accepted(r) /\ ~Checking(r) /\ ~InPayTransaction(r)
  BY <1>1 DEF Relying, Accepted, Checking, InPayTransaction
<1>3. ASSUME NEW night PROVE TakenOn(night) <= total
  <2>1. Guests(night) = {} /\ ClosedOn(night) = {}
    BY <1>1 DEF Guests, ClosedOn, Promised, NoRow
  <2>2. Rooms([b \in {} |-> stay[b].quantity]) = {} /\ Rooms([s \in {} |-> s.quantity]) = {}
    BY DEF Rooms
  <2>3. BookedQuantity({}) = 0 /\ Quantity({}) = 0
    BY <2>2, FS_EmptySet DEF BookedQuantity, Quantity
  <2>4. TakenOn(night) = 0
    BY <2>1, <2>3, TakenSplit
  <2>5. QED
    BY <1>1, <2>4, ReservationAssumption
<1>4. QED
  BY <1>2, <1>3 DEF CauselessInv, ConcurrentCreates, PaymentDuringCheck, NoOversell

-----------------------------------------------------------------------------
(* Theorems *)

\* Strings without a time, as the requests in booking-payment.http send them.
DatesAreDays ==
    \A s \in Stay \cup Block : \E d, e \in Int : s.in = DateOnly(d) /\ s.out = DateOnly(e)

\* Strings whose offset is the server's.
TimesAreLocal ==
    \A s \in Stay \cup Block : s.in.offset = ServerZone /\ s.out.offset = ServerZone

LEMMA SharedNightIs ==
    ASSUME NEW s, NEW t, ShareANight(s, t),
           s.in.day \in Int, s.out.day \in Int, t.in.day \in Int, t.out.day \in Int
    PROVE  /\ s.in.day < s.out.day /\ t.in.day < t.out.day
           /\ s.in.day < t.out.day /\ t.in.day < s.out.day
<1>1. PICK n : n \in s.in.day .. (s.out.day - 1) /\ n \in t.in.day .. (t.out.day - 1)
  BY DEF ShareANight, Nights
<1>2. QED
  BY <1>1

\* Without a time, every overlap is found, whatever the server's zone.
LEMMA DaysAreSeen == DatesAreDays => NightsSeen
<1> SUFFICES ASSUME DatesAreDays, NEW t \in Stay, NEW s \in Stay \cup Block, ShareANight(s, t)
             PROVE  StoredOverlap(s, t, ServerZone) /\ HeldOverlap(s, t)
  BY DEF NightsSeen
<1>1. PICK a \in Int, b \in Int : s.in = DateOnly(a) /\ s.out = DateOnly(b)
  BY DEF DatesAreDays
<1>2. PICK c \in Int, d \in Int : t.in = DateOnly(c) /\ t.out = DateOnly(d)
  BY DEF DatesAreDays
<1>3. ShareANight(DayStay(a, b), DayStay(c, d))
  BY <1>1, <1>2 DEF ShareANight, Nights, DayStay
<1>4. a < b /\ c < d
  BY <1>1, <1>2, SharedNightIs DEF DateOnly
<1>5. /\ StoredOverlap(DayStay(a, b), DayStay(c, d), ServerZone)
      /\ HeldOverlap(DayStay(a, b), DayStay(c, d))
  BY <1>3, <1>4, ReservationAssumption, StoredOverlapMissesNothing, HeldOverlapIsExact
<1>6. QED
  BY <1>1, <1>2, <1>5 DEF StoredOverlap, HeldOverlap, DayStay

\* With a time, if it is the server's.
LEMMA LocalTimesAreSeen == TimesAreLocal => NightsSeen
<1> SUFFICES ASSUME TimesAreLocal, NEW t \in Stay, NEW s \in Stay \cup Block, ShareANight(s, t)
             PROVE  StoredOverlap(s, t, ServerZone) /\ HeldOverlap(s, t)
  BY DEF NightsSeen
<1> DEFINE H == HoursPerDay
<1>1. /\ s.in \in DateString /\ s.out \in DateString /\ t.in \in DateString /\ t.out \in DateString
      /\ s.in.offset = ServerZone /\ s.out.offset = ServerZone
      /\ t.in.offset = ServerZone /\ t.out.offset = ServerZone
  BY ReservationAssumption DEF TimesAreLocal
<1>2. H \in Nat /\ H > 0 /\ ServerZone \in Int
  BY HoursAssumption, ReservationAssumption DEF Zone
<1>3. \A x \in DateString : x.day \in Int /\ x.hour \in 0 .. (H - 1)
  BY DEF DateString
<1>4. s.in.day < t.out.day /\ t.in.day < s.out.day
  BY <1>1, <1>3, SharedNightIs
<1>5. s.in.day * H + H <= t.out.day * H /\ t.in.day * H + H <= s.out.day * H
  BY <1>1, <1>3, <1>4, DaysApart
<1>6. \A x \in DateString : x.offset = ServerZone => /\ Instant(x) + ServerZone = x.day * H + x.hour
                                                     /\ x.day * H \in Int
  BY <1>2, <1>3 DEF Instant
<1>7. \A x \in DateString : x.offset = ServerZone => StoredDay(Instant(x), ServerZone) = x.day
  <2> SUFFICES ASSUME NEW x \in DateString, x.offset = ServerZone
               PROVE  StoredDay(Instant(x), ServerZone) = x.day
    OBVIOUS
  <2>1. x.day \in Int /\ x.hour \in Int /\ 0 <= x.hour /\ x.hour < H
    BY <1>2, <1>3
  <2>2. (x.day * H + x.hour) \div H = x.day + (x.hour \div H)
    BY <2>1, WholeDaysCarry
  <2>3. x.hour \div H = 0
    BY <1>2, <2>1
  <2>4. StoredDay(Instant(x), ServerZone) = x.day + 0
    BY <1>6, <2>2, <2>3 DEF StoredDay
  <2>5. QED
    BY <2>1, <2>4
<1> DEFINE si == s.in.day * H  so == s.out.day * H  ti == t.in.day * H  to == t.out.day * H
<1>8. StoredOverlap(s, t, ServerZone)
  <2>1. StoredOverlap(s, t, ServerZone) <=> si < to + t.out.hour /\ so > ti + t.in.hour
    BY <1>1, <1>6, <1>7 DEF StoredOverlap, isDateRangeOverlap, LocalTime
  <2>2. /\ si \in Int /\ so \in Int /\ ti \in Int /\ to \in Int
        /\ t.out.hour \in 0 .. (H - 1) /\ t.in.hour \in 0 .. (H - 1)
        /\ si + H <= to /\ ti + H <= so
    BY <1>1, <1>3, <1>5, <1>6
  <2> HIDE DEF si, so, ti, to
  <2>3. QED
    BY <1>2, <2>1, <2>2
<1>9. HeldOverlap(s, t)
  <2>1. /\ Instant(s.in) + ServerZone = si + s.in.hour /\ Instant(t.out) + ServerZone = to + t.out.hour
        /\ Instant(s.out) + ServerZone = so + s.out.hour /\ Instant(t.in) + ServerZone = ti + t.in.hour
    BY <1>1, <1>6
  <2>2. /\ si \in Int /\ so \in Int /\ ti \in Int /\ to \in Int
        /\ \A x \in {s.in, s.out, t.in, t.out} : x.hour \in 0 .. (H - 1)
        /\ si + H <= to /\ ti + H <= so
    BY <1>1, <1>3, <1>5, <1>6
  <2>3. /\ Instant(s.in) \in Int /\ Instant(s.out) \in Int
        /\ Instant(t.in) \in Int /\ Instant(t.out) \in Int
    BY <1>1, <1>2, <1>3 DEF Instant
  <2> HIDE DEF si, so, ti, to
  <2>4. Instant(s.in) < Instant(t.out) /\ Instant(s.out) > Instant(t.in)
    BY <1>2, <2>1, <2>2, <2>3
  <2>5. QED
    BY <2>4 DEF HeldOverlap, isDateRangeOverlap
<1>10. QED
  BY <1>8, <1>9

LEMMA ReservationSound == ResSpec => []Sound
<1>1. ResInit => ResTypeOK /\ StayInv
  BY InitStay
<1>2. IndInv /\ TypeOK' /\ (ResTypeOK /\ StayInv) /\ [ResNext]_resVars => (ResTypeOK /\ StayInv)'
  BY NextStay
<1>3. IndInv => TypeOK
  BY DEF IndInv
<1>4. Sound <=> ResTypeOK /\ IndInv /\ LockInv /\ StayInv
  BY DEF Sound
<1>5. QED
  BY <1>1, <1>2, <1>3, <1>4, ResImplementsLifecycle, Invariance, LocksHaveHolders, PTL DEF ResSpec

\* Every variable of the reservation model keeps its type, for any number of
\* requests, bookings, stays and blocks.
THEOREM ReservationTypes == ResSpec => []ResTypeOK
<1>1. Sound => ResTypeOK
  BY DEF Sound
<1>2. QED
  BY <1>1, ReservationSound, PTL

LEMMA CauselessStays == ASSUME NightsSeen PROVE ResSpec => []CauselessInv
<1>1. ResInit => CauselessInv
  BY InitCauseless
<1>2. Sound /\ Sound' /\ CauselessInv /\ [ResNext]_resVars => CauselessInv'
  <2> SUFFICES ASSUME Sound, Sound', CauselessInv, [ResNext]_resVars PROVE CauselessInv'
    OBVIOUS
  <2>1. CASE causes' # {}
    BY <2>1 DEF CauselessInv
  <2>2. CASE causes' = {}
    BY <2>2, CausesStay, CausesStutter
  <2>3. QED
    BY <2>1, <2>2
<1>3. QED
  BY <1>1, <1>2, ReservationSound, PTL DEF ResSpec

\* If the date tests miss no shared night, a room is sold twice only after one of
\* the six causes: the engine's five reads, the insert and the hold, spread over
\* seven awaits among everybody else's, are otherwise as good as one step.
THEOREM OversellIsCaused == ASSUME NightsSeen PROVE ResSpec => []OversellHasACause
<1>1. CauselessInv => OversellHasACause
  BY DEF CauselessInv, OversellHasACause
<1>2. QED
  BY <1>1, CauselessStays, PTL

\* So it is for guests and owners who send dates without a time, in any time zone,
\* or times with the server's offset.
THEOREM OversellIsCausedByDay ==
    ASSUME DatesAreDays \/ TimesAreLocal PROVE ResSpec => []OversellHasACause
BY DaysAreSeen, LocalTimesAreSeen, OversellIsCaused

-----------------------------------------------------------------------------
(* The room ledger *)

PromisedSet == {b \in Booking : Promised(b)}

\* An await of a request in flight makes or breaks the promise of one booking at
\* most, and the insert of a row that of none.
LEMMA OnePromise ==
    ASSUME ResTypeOK, IndInv, LockInv,
           NEW r \in Request, Continue(r) \/ PayRollback(r) \/ RequestFails(r)
    PROVE  \/ \A x \in Booking : Promised(x)' <=> Promised(x)
           \/ /\ ~At(r, "coded")
              /\ \E b \in Booking : \A x \in Booking \ {b} : Promised(x)' <=> Promised(x)
<1> DEFINE One == \/ \A x \in Booking : Promised(x)' <=> Promised(x)
                  \/ /\ ~At(r, "coded")
                     /\ \E b \in Booking : \A x \in Booking \ {b} : Promised(x)' <=> Promised(x)
           c == req[r].code
<1> SUFFICES One
  OBVIOUS
<1> USE DEF Promised, IndInv, TypeOK, At, Goto, End, Arrive, Load
<1>1. CASE UNCHANGED <<row, lock, hold>>
  BY <1>1
<1>2. CASE /\ c \in Booking /\ ~At(r, "coded")
           /\ \/ row' = row
              \/ \E e : row' = [row EXCEPT ![c] = e]
           /\ \/ lock' = lock
              \/ \E t : lock' = [lock EXCEPT ![c] = t]
           /\ \/ hold' \in {hold, hold \ {c}, hold \cup {c}}
  <2>1. \A x \in Booking \ {c} : row'[x] = row[x] /\ lock'[x] = lock[x] /\ (x \in hold' <=> x \in hold)
    BY <1>2
  <2>2. QED
    BY <1>2, <2>1
<1>3. CASE \/ \E b \in Booking : GenerateBookingCode(r, b)
           \/ GenerateBookingCodeGivesUp(r) \/ SendBookingInvoiceEmail(r) \/ CancelLoad(r)
           \/ OwnerLoad(r) \/ RequestFails(r)
  BY <1>1, <1>3 DEF GenerateBookingCode, GenerateBookingCodeGivesUp, SendBookingInvoiceEmail, CancelLoad,
                    OwnerLoad, RequestFails
<1>4. CASE InsertBooking(r)
  <2>1. CASE row[c] = NoRow
    <3>1. c \in Booking /\ c \notin hold
      BY <1>4, <2>1 DEF InsertBooking, CodeInv, ResTypeOK
    <3>2. lock[c] = None
      BY <2>1, <3>1 DEF LockInv, TransactionInv, NoRow
    <3>3. row' = [row EXCEPT ![c] = PendingEntity] /\ UNCHANGED <<lock, hold>>
      BY <1>4, <2>1 DEF InsertBooking
    <3>4. QED
      BY <2>1, <3>1, <3>2, <3>3 DEF PendingEntity, NoRow
  <2>2. CASE row[c] # NoRow
    BY <1>1, <1>4, <2>2 DEF InsertBooking
  <2>3. QED
    BY <2>1, <2>2
<1>5. CASE ConfirmPaymentLock(r)
  <2>1. CASE Payable(row[c])
    BY <1>2, <1>5, <2>1 DEF ConfirmPaymentLock, CodeInv
  <2>2. CASE ~Payable(row[c])
    BY <1>1, <1>5, <2>2 DEF ConfirmPaymentLock
  <2>3. QED
    BY <2>1, <2>2
<1>6. CASE ConfirmPaymentRelease(r) \/ ConfirmPaymentCommit(r) \/ PayRollback(r)
  <2>1. c \in Booking /\ ~At(r, "coded")
    BY <1>6 DEF ConfirmPaymentRelease, ConfirmPaymentCommit, PayRollback, TransactionInv, InPayTransaction
  <2>2. QED
    BY <1>2, <1>6, <2>1 DEF ConfirmPaymentRelease, ConfirmPaymentCommit, PayRollback
<1>7. CASE CreateBookingHold(r) \/ CancelRemoveHold(r)
  <2>1. c \in Booking /\ ~At(r, "coded")
    BY <1>7 DEF CreateBookingHold, CancelRemoveHold, CodeInv
  <2>2. QED
    BY <1>2, <1>7, <2>1 DEF CreateBookingHold, CancelRemoveHold
<1>8. CASE CancelUpdate(r) \/ OwnerUpdate(r)
  <2>1. /\ c \in Booking /\ ~At(r, "coded") /\ UNCHANGED <<lock, hold>>
        /\ row' = [row EXCEPT ![c] = Saved(@, req[r].loaded, req[r].entity)]
    BY <1>8 DEF CancelUpdate, OwnerUpdate, SaveInv, Saving
  <2>2. QED
    BY <1>2, <2>1
<1>9. QED
  BY <1>3, <1>4, <1>5, <1>6, <1>7, <1>8 DEF Continue

\* The step of the ledger that one promise more or less is.
LEMMA PromiseOrRelease ==
    ASSUME Sound, Sound', causes # {} => causes' # {}, UNCHANGED <<stay, blocks, total>>,
           \/ \A x \in Booking : Promised(x)' <=> Promised(x)
           \/ \E b \in Booking : \A x \in Booking \ {b} : Promised(x)' <=> Promised(x),
           \A b \in Booking : ~Promised(b) /\ Promised(b)' /\ causes' = {} => Inventory!Left(b)
    PROVE  [Inventory!Next]_(Inventory!vars)
<1>1. CASE \A x \in Booking : Promised(x)' <=> Promised(x)
  <2>1. PromisedSet' = PromisedSet
    BY <1>1 DEF PromisedSet
  <2>2. CASE causes' # {}
    BY <2>1, <2>2 DEF PromisedSet, Inventory!Next, Inventory!Disturb
  <2>3. CASE causes' = {}
    BY <2>1, <2>3 DEF PromisedSet, Inventory!vars
  <2>4. QED
    BY <2>2, <2>3
<1>2. ASSUME NEW b \in Booking, \A x \in Booking \ {b} : Promised(x)' <=> Promised(x),
             ~Promised(b), Promised(b)'
      PROVE  [Inventory!Next]_(Inventory!vars)
  <2>1. PromisedSet' = PromisedSet \cup {b} /\ b \notin PromisedSet
    BY <1>2 DEF PromisedSet
  <2>2. stay[b] # None
    <3>1. row'[b] # NoRow
      BY <1>2 DEF Promised, NoRow
    <3>2. stay'[b] # None
      BY <3>1 DEF Sound, ResTypeOK
    <3>3. QED
      BY <3>2
  <2>3. Inventory!Promise(b)
    BY <1>2, <2>1, <2>2 DEF PromisedSet, Inventory!Promise
  <2>4. QED
    BY <2>3 DEF Inventory!Next
<1>3. ASSUME NEW b \in Booking, \A x \in Booking \ {b} : Promised(x)' <=> Promised(x),
             Promised(b), ~Promised(b)'
      PROVE  [Inventory!Next]_(Inventory!vars)
  <2>1. PromisedSet' = PromisedSet \ {b} /\ b \in PromisedSet
    BY <1>3 DEF PromisedSet
  <2>2. Inventory!Release(b)
    BY <2>1 DEF PromisedSet, Inventory!Release
  <2>3. QED
    BY <2>2 DEF Inventory!Next
<1>4. QED
  BY <1>1, <1>2, <1>3

\* The ledger counts what TakenOn counts.
LEMMA TakenIsTaken ==
    /\ \A night : Inventory!Taken(night) = TakenOn(night)
    /\ Inventory!Fits <=> NoOversell
    /\ \A b : Inventory!Left(b) <=> \A night \in Nights(stay[b]) : TakenOn(night) + stay[b].quantity <= total
<1>0. \A S : Inventory!Cardinality(S) = Cardinality(S)
  BY DEF Inventory!Cardinality, Cardinality
<1>1. ASSUME NEW night PROVE Inventory!Taken(night) = TakenOn(night)
  <2>1. {b \in {x \in Booking : Promised(x)} : night \in Nights(stay[b])}
          = {b \in Booking : Promised(b) /\ night \in Nights(stay[b])}
    OBVIOUS
  <2>2. QED
    BY <2>1, <1>0 DEF Inventory!Taken, Inventory!Rooms, Inventory!Nights, TakenOn, BookedQuantity, Quantity,
                Rooms, Nights
<1>2. QED
  BY <1>1 DEF Inventory!Fits, Inventory!Left, Inventory!Nights, NoOversell, AllNights, Nights

\* A create request that sets its hold makes a promise there are rooms for.
LEMMA HoldIsLeft ==
    ASSUME Sound, CauselessInv, causes = {}, NEW r \in Request, CreateBookingHold(r),
           NEW b \in Booking, ~Promised(b), Promised(b)'
    PROVE  Inventory!Left(b)
<1>1. At(r, "inserted") /\ hold' = hold \cup {req[r].code} /\ UNCHANGED <<row, lock>>
  BY DEF CreateBookingHold
<1>2. b = req[r].code
  BY <1>1 DEF Promised
<1>3. RoomsLeft(r) /\ stay[b] = check[r].stay
  BY <1>1, <1>2 DEF CauselessInv, Sound, StayInv, Accepted, At
<1>4. \A night \in Nights(stay[b]) : TakenOn(night) + stay[b].quantity <= total
  BY <1>3 DEF RoomsLeft
<1>5. QED
  BY <1>4, TakenIsTaken

\* The awaits of a request in flight are steps of the ledger: the insert asks for a
\* stay, the others promise or release one booking's rooms, or do neither.
LEMMA ContinueIsLedger ==
    ASSUME Sound, Sound', CauselessInv, ResNext, NEW r \in Request, ContinueOther(r)
    PROVE  [Inventory!Next]_(Inventory!vars)
<1>1. /\ Continue(r) \/ PayRollback(r) \/ RequestFails(r)
      /\ Recorded(r)
  BY DEF ContinueOther
<1>2. causes # {} => causes' # {}
  BY DEF ResNext
<1>3. /\ stay' = [b \in Booking |-> IF row[b] = NoRow /\ row'[b] # NoRow
                                    THEN check[r].stay ELSE stay[b]]
      /\ total' = total /\ blocks' = blocks /\ stay \in [Booking -> Stay \cup {None}]
  BY <1>1 DEF Recorded, Sound, ResTypeOK
<1>4. CASE \E b \in Booking : row[b] = NoRow /\ row'[b] # NoRow
  <2>1. PICK b \in Booking : row[b] = NoRow /\ row'[b] # NoRow
    BY <1>4
  <2>2. /\ At(r, "coded") /\ b = req[r].code
        /\ \A x \in Booking \ {b} : ~(row[x] = NoRow /\ row'[x] # NoRow)
    BY <1>1, <2>1, ContinueEffects DEF Sound
  <2>3. PICK s \in Stay : s = check[r].stay /\ Valid(s)
    BY <2>2 DEF Sound, StayInv, Relying, Accepted, At
  <2>4. stay[b] = None /\ stay' = [stay EXCEPT ![b] = s]
    BY <1>3, <2>1, <2>2, <2>3 DEF Sound, ResTypeOK
  <2>5. PromisedSet' = PromisedSet
    BY <1>1, <2>2, OnePromise DEF Sound, PromisedSet
  <2>6. Inventory!Ask(b, s)
    BY <1>3, <2>3, <2>4, <2>5 DEF Inventory!Ask, Inventory!ValidDates, Valid, ValidDates, PromisedSet
  <2>7. QED
    BY <1>2, <2>6 DEF Inventory!Next
<1>5. CASE \A b \in Booking : ~(row[b] = NoRow /\ row'[b] # NoRow)
  <2>1. stay' = stay
    BY <1>3, <1>5
  <2>2. \/ \A x \in Booking : Promised(x)' <=> Promised(x)
        \/ \E b \in Booking : \A x \in Booking \ {b} : Promised(x)' <=> Promised(x)
    BY <1>1, OnePromise DEF Sound
  <2>3. ASSUME NEW b \in Booking, ~Promised(b), Promised(b)', causes' = {} PROVE Inventory!Left(b)
    <3>1. causes = {} /\ ~UnheldPayment /\ ~OwnerConfirms
      BY <2>3, NothingArises
    <3>2. CASE CreateBookingHold(r)
      BY <2>3, <3>1, <3>2, HoldIsLeft
    <3>3. CASE ~CreateBookingHold(r)
      BY <1>1, <2>3, <3>1, <3>3, FewerPromised DEF Sound
    <3>4. QED
      BY <3>2, <3>3
  <2>4. QED
    BY <1>2, <1>3, <2>1, <2>2, <2>3, PromiseOrRelease
<1>6. QED
  BY <1>4, <1>5

\* Every step of the reservation model is one of the ledger, or none.
LEMMA StepIsLedger ==
    ASSUME Sound, Sound', CauselessInv, CauselessInv', [ResNext]_resVars
    PROVE  [Inventory!Next]_(Inventory!vars)
<1> DEFINE Done == [Inventory!Next]_(Inventory!vars)
<1>1. CASE UNCHANGED resVars
  <2>1. PromisedSet' = PromisedSet /\ UNCHANGED <<stay, blocks, total, causes>>
    BY <1>1 DEF resVars, PromisedSet, Promised
  <2>2. QED
    BY <2>1 DEF PromisedSet, Inventory!vars
<1> SUFFICES ASSUME ResNext PROVE Done
  BY <1>1
<1>2. causes # {} => causes' # {}
  BY DEF ResNext
<1>3. causes' = {} => Inventory!Fits'
  <2>1. causes' = {} => NoOversell'
    BY DEF CauselessInv
  <2>2. Inventory!Fits' <=> NoOversell'
    BY TakenIsTaken, PTL
  <2>3. QED
    BY <2>1, <2>2
<1>4. CASE UNCHANGED <<row, lock, hold, stay, blocks, total>>
  <2>1. \A x \in Booking : Promised(x)' <=> Promised(x)
    BY <1>4 DEF Promised
  <2>2. QED
    BY <1>2, <1>4, <2>1, PromiseOrRelease
<1>5. ASSUME NEW r \in Request,
             \/ \E s \in Stay : BeginCheck(r, s)
             \/ RefuseInvalid(r)
             \/ ReadBlocked(r) \/ ReadBooked(r) \/ ListHolds(r) \/ ReadHolds(r)
             \/ Decide(r) \/ CheckFails(r)
             \/ StartOther(r)
      PROVE  Done
  <2>1. UNCHANGED <<row, lock, hold, stay, blocks, total>>
    BY <1>5, StartEffects DEF BeginCheck, RefuseInvalid, ReadBlocked, ReadBooked, ListHolds, ReadHolds,
          Decide, CheckFails, CreateAccept, CreateRefuse, Sound, vars
  <2>2. QED
    BY <1>4, <2>1
<1>6. ASSUME NEW r \in Request, ContinueOther(r) PROVE Done
  BY <1>6, ContinueIsLedger
<1>7. ASSUME NEW b \in Booking, Expire(b) PROVE Done
  <2>1. hold' = hold \ {b} /\ UNCHANGED <<row, lock, stay, blocks, total>>
    BY <1>7 DEF Expire, ExpireHold
  <2>2. \A x \in Booking \ {b} : Promised(x)' <=> Promised(x)
    BY <2>1 DEF Promised
  <2>3. \A x \in Booking : ~(~Promised(x) /\ Promised(x)')
    BY <2>1 DEF Promised
  <2>4. QED
    BY <1>2, <2>1, <2>2, <2>3, PromiseOrRelease
<1>8. ASSUME UNCHANGED <<row, lock, hold, stay>> PROVE PromisedSet' = PromisedSet
  BY <1>8 DEF PromisedSet, Promised
<1>9. ASSUME NEW k \in Block, CreateBlock(k) \/ RemoveBlock(k) PROVE Done
  <2>1. UNCHANGED <<row, lock, hold, stay, total>>
    BY <1>9 DEF CreateBlock, RemoveBlock, vars
  <2>2. PromisedSet' = PromisedSet
    BY <1>8, <2>1
  <2>3. Inventory!Close(k) \/ Inventory!Reopen(k)
    BY <1>3, <1>9, <2>1, <2>2 DEF CreateBlock, RemoveBlock, PromisedSet, Inventory!Close, Inventory!Reopen
  <2>4. QED
    BY <1>2, <2>3 DEF Inventory!Next
<1>10. ASSUME NEW n \in NewTotal, UpdateTotal(n) PROVE Done
  <2>1. UNCHANGED <<row, lock, hold, stay, blocks>> /\ total' = n
    BY <1>10 DEF UpdateTotal, vars
  <2>2. PromisedSet' = PromisedSet
    BY <1>8, <2>1
  <2>3. Inventory!Resize(n)
    BY <1>3, <2>1, <2>2 DEF PromisedSet, Inventory!Resize
  <2>4. QED
    BY <1>2, <2>3 DEF Inventory!Next
<1>11. QED
  BY <1>5, <1>6, <1>7, <1>9, <1>10 DEF ResNext

LEMMA InitIsLedger == ResInit => Inventory!Init
<1> SUFFICES ASSUME ResInit PROVE Inventory!Init
  OBVIOUS
<1>1. \A b \in Booking : row[b] = NoRow
  BY DEF ResInit, Init
<1>2. {b \in Booking : Promised(b)} = {}
  BY <1>1 DEF Promised, NoRow
<1>3. QED
  BY <1>2 DEF ResInit, Inventory!Init

\* If the date tests miss no shared night, the availability reads, inserts, holds
\* and payments of any number of requests implement the room ledger: until one of
\* the six causes, rooms are promised one booking at a time and only if they are
\* left on each of its nights.
THEOREM ReservationIsARoomLedger == ASSUME NightsSeen PROVE ResSpec => InventorySpec
<1>1. ResInit => Inventory!Init
  BY InitIsLedger
<1>2. Sound /\ Sound' /\ CauselessInv /\ CauselessInv' /\ [ResNext]_resVars => [Inventory!Next]_(Inventory!vars)
  BY StepIsLedger
<1>3. QED
  BY <1>1, <1>2, ReservationSound, CauselessStays, PTL DEF ResSpec, InventorySpec, Inventory!Spec

\* So they do for dates without a time, or times with the server's offset.
THEOREM ReservationIsARoomLedgerByDay ==
    ASSUME DatesAreDays \/ TimesAreLocal PROVE ResSpec => InventorySpec
BY DaysAreSeen, LocalTimesAreSeen, ReservationIsARoomLedger
=============================================================================
