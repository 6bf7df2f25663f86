---------------------------- MODULE Reservation ----------------------------
(***************************************************************************)
(* BookingLifecycle together with src/src/modules/availability: how many   *)
(* rooms of one room type are free, as POST /bookings finds out before it  *)
(* inserts a booking, while payments, cancellations, owner updates, hold   *)
(* expiry and availability blocks go on.                                   *)
(*                                                                         *)
(* AvailabilityEngine reads MySQL three times and Redis twice: nothing     *)
(* keeps what it read from changing before the booking is inserted, held.  *)
(* Every query and key is filtered by room type, so one room type is       *)
(* modelled.                                                               *)
(***************************************************************************)
EXTENDS BookingLifecycle, StayDates, FiniteSets, FiniteSetsExt

CONSTANTS
    Total,       \* totalQuantity of the room type at the start
    NewTotal,    \* what an update may make of it
    Stay,        \* the stays guests ask for: [in, out, quantity]
    Block,       \* the availability blocks owners create: [id, in, out, quantity]
    ServerZone   \* the time zone the server runs in

ASSUME ReservationAssumption ==
    /\ Total \in Nat /\ NewTotal \subseteq Nat
    /\ Stay \subseteq [in: DateString, out: DateString, quantity: Int]
    /\ Block \subseteq [id: Nat, in: DateString, out: DateString, quantity: Nat]
    /\ ServerZone \in Zone
    /\ None \notin Stay
    /\ IsFiniteSet(Booking)

VARIABLES
    total,       \* room_types: totalQuantity
    stay,        \* bookings: the dates and the quantity of each row
    blocks,      \* availability_blocks
    check,       \* per create request: the stay asked for and what was read so far
    causes       \* history: what has happened that may sell a room twice

resVars == <<row, lock, invoices, hold, mails, req, total, stay, blocks, check, causes>>

Unread == -1

Check == [stay: Stay \cup {None}, total: Nat \cup {Unread}, blocked: Nat \cup {Unread},
          booked: Nat \cup {Unread}, keys: (SUBSET Booking) \cup {None}, held: Nat \cup {Unread}]

NoCheck == [stay |-> None, total |-> Unread, blocked |-> Unread, booked |-> Unread, keys |-> None, held |-> Unread]

\* SUM(quantity), as the number of rooms that blocks, or bookings, stand for.
Rooms(quantity) == UNION {{x} \X (1 .. quantity[x]) : x \in DOMAIN quantity}

Quantity(S) == Cardinality(Rooms([s \in S |-> s.quantity]))
BookedQuantity(B) == Cardinality(Rooms([b \in B |-> stay[b].quantity]))

ResInit ==
    /\ Init
    /\ total = Total
    /\ stay = [b \in Booking |-> None]
    /\ blocks = {}
    /\ check = [r \in Request |-> NoCheck]
    /\ causes = {}

-----------------------------------------------------------------------------
(* BookingService.create up to the availability decision *)

\* validateQuantity and calculateNights.
Valid(s) == s.quantity > 0 /\ ValidDates(s)

\* roomTypeService.findById answers with the total; the other reads go out.
BeginCheck(r, s) ==
    /\ At(r, "idle") /\ check[r] = NoCheck
    /\ Valid(s)
    /\ check' = [check EXCEPT ![r].stay = s, ![r].total = total]
    /\ UNCHANGED <<vars, total, stay, blocks>>

\* A request that fails validation is refused before any read.
RefuseInvalid(r) ==
    /\ check[r] = NoCheck
    /\ \E s \in Stay : ~Valid(s)
    /\ CreateRefuse(r)
    /\ UNCHANGED <<total, stay, blocks, check>>

Checking(r) == At(r, "idle") /\ check[r] # NoCheck

\* The bookings of the two counts, as of now.
Booked(s) == {b \in Booking : row[b].status = "CONFIRMED" /\ StoredOverlap(stay[b], s, ServerZone)}
Held(s, keys) == {b \in keys \cap hold : HeldOverlap(stay[b], s)}

ReadBlocked(r) ==
    /\ Checking(r) /\ check[r].blocked = Unread
    /\ check' = [check EXCEPT ![r].blocked =
                    Quantity({k \in blocks : StoredOverlap(k, check[r].stay, ServerZone)})]
    /\ UNCHANGED <<vars, total, stay, blocks>>

ReadBooked(r) ==
    /\ Checking(r) /\ check[r].booked = Unread
    /\ check' = [check EXCEPT ![r].booked = BookedQuantity(Booked(check[r].stay))]
    /\ UNCHANGED <<vars, total, stay, blocks>>

\* KEYS nestbook:booking:hold:room-type:<id>:booking:*
ListHolds(r) ==
    /\ Checking(r) /\ check[r].keys = None
    /\ check' = [check EXCEPT ![r].keys = hold]
    /\ UNCHANGED <<vars, total, stay, blocks>>

\* MGET of the keys listed: those gone by then count nothing.
ReadHolds(r) ==
    /\ Checking(r) /\ check[r].keys # None /\ check[r].held = Unread
    /\ check' = [check EXCEPT ![r].held =
                    BookedQuantity(Held(check[r].stay, check[r].keys))]
    /\ UNCHANGED <<vars, total, stay, blocks>>

AllRead(r) == Checking(r) /\ Unread \notin {check[r].blocked, check[r].booked, check[r].held}

\* max(total - booked - held - blocked, 0)
available(c) == Max({c.total - c.booked - c.held - c.blocked, 0})

\* Slip: one room left is enough for any number asked for.
AnyRoomLeft(c) == available(c) > 0

canBook(c) == available(c) >= c.stay.quantity

Decide(r) ==
    /\ AllRead(r)
    /\ IF canBook(check[r])
       THEN /\ CreateAccept(r)
            /\ check' = [check EXCEPT ![r] = [NoCheck EXCEPT !.stay = check[r].stay]]
       ELSE /\ CreateRefuse(r)
            /\ check' = [check EXCEPT ![r] = NoCheck]
    /\ UNCHANGED <<total, stay, blocks>>

\* A read throws, or the room type is not found: the request is answered with
\* an error and leaves nothing behind.
CheckFails(r) ==
    /\ Checking(r)
    /\ CreateRefuse(r)
    /\ check' = [check EXCEPT ![r] = NoCheck]
    /\ UNCHANGED <<total, stay, blocks>>

-----------------------------------------------------------------------------
(* The rest of the lifecycle, and the owner's blocks and room type *)

\* A row that appears has the stay its request asked for; an answered request
\* has nothing left in memory.
Recorded(r) ==
    /\ stay' = [b \in Booking |-> IF row[b] = NoRow /\ row'[b] # NoRow
                                  THEN check[r].stay ELSE stay[b]]
    /\ check' = IF req'[r].pc \in Ended THEN [check EXCEPT ![r] = NoCheck] ELSE check
    /\ UNCHANGED <<total, blocks>>

StartOther(r) ==
    /\ check[r] = NoCheck
    /\ \E b \in Booking :
          \/ ConfirmPayment(r, b)
          \/ CancelRead(r, b)
          \/ \E s \in OwnerStatus : OwnerRead(r, b, s)
    /\ UNCHANGED <<total, stay, blocks, check>>

ContinueOther(r) == (Continue(r) \/ PayRollback(r) \/ RequestFails(r)) /\ Recorded(r)

Expire(b) == ExpireHold(b) /\ UNCHANGED <<total, stay, blocks, check>>

\* A block is stored as it comes: neither its dates nor its quantity are tested
\* against the bookings there are.  Two blocks may be equal but for their ids.
CreateBlock(k) ==
    /\ k \notin blocks
    /\ blocks' = blocks \cup {k}
    /\ UNCHANGED <<vars, total, stay, check>>

RemoveBlock(k) ==
    /\ k \in blocks
    /\ blocks' = blocks \ {k}
    /\ UNCHANGED <<vars, total, stay, check>>

\* RoomTypeService.update, and an image upload that writes back the total it
\* read: no booking or block is looked at.
UpdateTotal(n) ==
    /\ n # total
    /\ total' = n
    /\ UNCHANGED <<vars, stay, blocks, check>>

-----------------------------------------------------------------------------
(* What may sell a room twice *)

\* A booking the hotel has promised rooms to: confirmed, being paid, or held.
Promised(b) ==
    \/ row[b].status = "CONFIRMED"
    \/ row[b].status = "PENDING_PAYMENT" /\ (b \in hold \/ lock[b] # None)

\* The rooms taken on a night, by guests and by blocks.
TakenOn(night) ==
    BookedQuantity({b \in Booking : Promised(b) /\ night \in Nights(stay[b])})
        + Quantity({k \in blocks : night \in Nights(k)})

AllNights == UNION {Nights(s) : s \in Stay \cup Block}

NoOversell == \A night \in AllNights : TakenOn(night) <= total

\* From its first read to its hold, a create request relies on what it read.
Accepted(r) == req[r].pc \in {"accepted", "coded", "inserted"}
Relying(r) == Checking(r) \/ Accepted(r)

\* Two guests book at the same time: neither sees the other.
ConcurrentCreates == \E r, s \in Request : r # s /\ Relying(r) /\ Relying(s)

\* A payment moves its booking from the holds to the bookings: between the reads
\* of a check, or between its DEL and its commit, it is seen in neither.
PaymentDuringCheck == \E r, s \in Request : Relying(r) /\ InPayTransaction(s)

\* The hold had expired, or a failed payment had removed it, or it was never set:
\* the rooms were free for others, and the booking is paid all the same.
UnheldPayment == \E b \in Booking \ hold : lock[b] = None /\ lock'[b] # None

\* An owner confirms a booking whatever its hold and the rooms left, or reopens one
\* whose hold is still there: nobody counted it as long as it was cancelled.
OwnerConfirms ==
    \E b \in Booking :
        /\ lock[b] = None
        /\ row'[b].status # row[b].status
        /\ \/ row'[b].status = "CONFIRMED"
           \/ row'[b].status = "PENDING_PAYMENT" /\ b \in hold

\* The owner closes or gives up rooms already promised, or ones a create request
\* has read as free and is about to promise.
Unnoticed == ~NoOversell \/ \E r \in Request : Relying(r)
BlockUnnoticed == (\E k \in Block : k \in blocks' \ blocks) /\ Unnoticed'
CutUnnoticed == total' < total /\ Unnoticed'

Arising ==
    {c \in {"concurrent creates", "payment during check", "unheld payment", "owner confirms",
            "block unnoticed", "cut unnoticed"} :
        \/ c = "concurrent creates" /\ ConcurrentCreates'
        \/ c = "payment during check" /\ PaymentDuringCheck'
        \/ c = "unheld payment" /\ UnheldPayment
        \/ c = "owner confirms" /\ OwnerConfirms
        \/ c = "block unnoticed" /\ BlockUnnoticed
        \/ c = "cut unnoticed" /\ CutUnnoticed}

-----------------------------------------------------------------------------
ResNext ==
    /\ \/ \E r \in Request :
             \/ \E s \in Stay : BeginCheck(r, s)
             \/ RefuseInvalid(r)
             \/ ReadBlocked(r) \/ ReadBooked(r) \/ ListHolds(r) \/ ReadHolds(r)
             \/ Decide(r) \/ CheckFails(r)
             \/ StartOther(r)
             \/ ContinueOther(r)
       \/ \E b \in Booking : Expire(b)
       \/ \E k \in Block : CreateBlock(k) \/ RemoveBlock(k)
       \/ \E n \in NewTotal : UpdateTotal(n)
    /\ causes' = causes \cup Arising

ResSpec == ResInit /\ [][ResNext]_resVars

-----------------------------------------------------------------------------
(* Properties *)

ResTypeOK ==
    /\ TypeOK
    /\ stay \in [Booking -> Stay \cup {None}]
    /\ blocks \in SUBSET Block
    /\ total \in {Total} \cup NewTotal
    /\ check \in [Request -> Check]
    \* A row has its dates, and a hold has a row.
    /\ \A b \in Booking : row[b] # NoRow <=> stay[b] # None
    /\ \A b \in hold : row[b] # NoRow

\* More rooms are taken for a night, by guests and by blocks, than the room type has
\* only if one of the six things above has happened: with creates one at a time, no
\* payment in between, payments within the hold's lifetime, no confirmation or
\* reopening by an owner, and blocks and cuts that leave what is promised alone, the engine's five
\* separate reads never let a room be sold twice.
OversellHasACause == causes = {} => NoOversell

\* The reads, the insert and the hold of a create request, spread over seven awaits,
\* are two steps of RoomLedger: one asks for the stay, one promises the rooms, and
\* that is taken only if they are left; a payment moves a promise from the holds to
\* the bookings without breaking it; nothing else promises, releases, closes or
\* resizes more than one thing at a time.  The six causes are what disturbs the ledger.
Inventory == INSTANCE RoomLedger WITH
    promised <- {b \in Booking : Promised(b)}, disturbed <- causes # {}
InventorySpec == Inventory!Spec

-----------------------------------------------------------------------------
(* The inductive invariant behind OversellHasACause *)

\* A create request has its stay in memory until it is answered, and its row has
\* the stay from the insert on.
StayInv ==
    /\ IsFiniteSet(blocks)
    /\ \A r \in Request :
          /\ Relying(r) => check[r].stay \in Stay /\ Valid(check[r].stay)
          /\ At(r, "inserted") => /\ row[req[r].code] # NoRow
                                  /\ stay[req[r].code] = check[r].stay

\* What a check has read is no less than what there is by now, and its total no
\* more: the others can only have given rooms back.
ReadsBound(r) ==
    LET c == check[r] IN
    /\ c.total \in Nat /\ c.total <= total
    /\ c.blocked # Unread =>
          Quantity({k \in blocks : StoredOverlap(k, c.stay, ServerZone)}) <= c.blocked
    /\ c.booked # Unread => BookedQuantity(Booked(c.stay)) <= c.booked
    /\ c.keys # None => hold \subseteq c.keys
    /\ c.held # Unread => BookedQuantity(Held(c.stay, hold)) <= c.held

\* What a create request was promised is still there on each of its nights.
RoomsLeft(r) ==
    \A night \in Nights(check[r].stay) : TakenOn(night) + check[r].stay.quantity <= total

CauselessInv ==
    causes = {} =>
        /\ ~ConcurrentCreates /\ ~PaymentDuringCheck
        /\ NoOversell
        /\ \A r \in Request : /\ Checking(r) => ReadsBound(r)
                              /\ Accepted(r) => RoomsLeft(r) /\ check[r].stay.quantity > 0

ResInv == ResTypeOK /\ StayInv /\ CauselessInv
=============================================================================
