--------------------------- MODULE Catalog_proofs ---------------------------
(***************************************************************************)
(* Theorems about Catalog, for any number of hotels, room types and        *)
(* requests.                                                               *)
(***************************************************************************)
EXTENDS Catalog, TLAPS

LEMMA SavedType ==
    ASSUME NEW c \in Row, NEW l \in Row, NEW e \in Row
    PROVE  Saved(c, l, e) \in Row
BY DEF Saved, Row

LEMMA SentType ==
    ASSUME NEW q \in RequestState, q.entity \in Row, q.loaded \in Row
    PROVE  Sent(q) \in Row /\ Sent(q).of = q.entity.of
BY DEF Sent, Row

LEMMA EditedType ==
    ASSUME NEW old \in Row, NEW r \in Request, NEW op \in {"update", "upload", "assign", "remove"},
           NEW l \in Label \cup {None}, NEW o \in Owner \cup {None}
    PROVE  Edited(old, r, op, l, o) \in Row
BY DEF Edited, Row

LEMMA IdleType == Idle \in RequestState
<1>1. 0 \in 0 .. Len(SeedHotels)
  BY CatalogAssumption
<1>2. QED
  BY <1>1 DEF Idle, RequestState, PC, Op

LEMMA ChangeState ==
    ASSUME NEW op \in Op, NEW i \in Item, NEW l \in Label \cup {None}, NEW o \in Owner \cup {None},
           NEW e \in Row, NEW pc \in PC
    PROVE  [Idle EXCEPT !.op = op, !.item = i, !.label = l, !.by = o, !.entity = e, !.pc = pc] \in RequestState
BY IdleType DEF RequestState

LEMMA Begun ==
    ASSUME NEW pc \in PC
    PROVE  /\ [Idle EXCEPT !.pc = pc, !.op = "seed"] \in RequestState
           /\ [Idle EXCEPT !.pc = pc, !.op = "seed"].pc = pc
<1>1. Idle \in RequestState /\ "seed" \in Op
  BY IdleType DEF Op
<1>2. QED
  BY <1>1 DEF RequestState

LEMMA SeedData ==
    ASSUME NEW n \in 1 .. Len(SeedHotels)
    PROVE  SeedHotels[n] \in [phone: Label, name: Label]
<1>1. \A S : \A s \in Seq(S) : \A m \in 1 .. Len(s) : s[m] \in S
  OBVIOUS
<1>2. QED
  BY <1>1, CatalogAssumption, Zenon

LEMMA UpsertedType ==
    ASSUME NEW old \in Row, NEW r \in Request, NEW parent \in Owner \cup Hotel \cup {None}
    PROVE  Upserted(old, r, parent) \in Row /\ Upserted(old, r, parent).label = old.label
BY DEF Upserted, Row

LEMMA NewRowType ==
    ASSUME NEW r \in Request \cup {None}, NEW l \in Label, NEW parent \in Owner \cup Hotel \cup {None}
    PROVE  NewRow(r, l, parent) \in Row /\ NewRow(r, l, parent).label = l
BY DEF NewRow, Row

-----------------------------------------------------------------------------
(* No two hotels have the same phone *)

LEMMA PhoneInit == Init => PhoneInv
<1> SUFFICES ASSUME Init PROVE PhoneInv
  OBVIOUS
<1>1. row \in [Item -> Row \cup {None}]
  <2>1. \A l \in Label, parent \in Owner \cup Hotel \cup {None} : NewRow(None, l, parent) \in Row
    BY NewRowType
  <2>2. QED
    BY <2>1 DEF Init, Furnished
<1>2. req \in [Request -> RequestState]
  BY IdleType DEF Init
<1>3. RequestInv
  BY DEF Init, RequestInv, Sound, Idle
<1>4. PhoneIsUnique
  BY DEF Init, Furnished, PhoneIsUnique, Siblings, Item
<1>5. QED
  BY <1>1, <1>2, <1>3, <1>4 DEF PhoneInv

\* A step that writes no row and takes one request to a sound state.
LEMMA ReadingStep ==
    ASSUME PhoneInv, row' = row, NEW r \in Request, NEW q \in RequestState, Sound(q),
           req' = [req EXCEPT ![r] = q]
    PROVE  PhoneInv'
<1>1. req' \in [Request -> RequestState]
  BY DEF PhoneInv
<1>2. ASSUME NEW s \in Request PROVE Sound(req[s])'
  <2>1. req'[s] = q \/ req'[s] = req[s]
    BY DEF PhoneInv
  <2>2. QED
    BY <2>1 DEF PhoneInv, RequestInv, Sound
<1>3. QED
  BY <1>1, <1>2 DEF PhoneInv, RequestInv, PhoneIsUnique

\* A step that writes the row of i and takes one request to a state that relies
\* on no row.
LEMMA WritingStep ==
    ASSUME PhoneInv, NEW i \in Item, NEW new \in Row, row' = [row EXCEPT ![i] = new],
           i \in Hotel => \A h \in Hotel \ {i} : row[h] # None => row[h].label # new.label,
           NEW r \in Request, NEW q \in RequestState, q.pc \in {"saved", "done"},
           req' = [req EXCEPT ![r] = q]
    PROVE  PhoneInv'
<1>0. None \notin Row
  BY CatalogAssumption
<1>1. row' \in [Item -> Row \cup {None}]
  BY DEF PhoneInv
<1>2. req' \in [Request -> RequestState]
  BY DEF PhoneInv
<1>3. \A j \in Item : row[j] # None => row'[j] # None
  BY <1>0 DEF PhoneInv
<1>4. ASSUME NEW s \in Request PROVE Sound(req[s])'
  <2>1. req'[s] = q \/ req'[s] = req[s]
    BY DEF PhoneInv
  <2>2. QED
    BY <1>3, <2>1 DEF PhoneInv, RequestInv, Sound
<1>5. PhoneIsUnique'
  BY DEF PhoneInv, PhoneIsUnique, Item
<1>6. QED
  BY <1>1, <1>2, <1>4, <1>5 DEF PhoneInv, RequestInv

\* A step of a seed that writes a hotel and a room type.
LEMMA WritingBothStep ==
    ASSUME PhoneInv, NEW h \in Hotel, NEW t \in RoomType, NEW hotel \in Row, NEW room \in Row,
           row' = [row EXCEPT ![h] = hotel, ![t] = room],
           \A g \in Hotel \ {h} : row[g] # None => row[g].label # hotel.label,
           NEW r \in Request, NEW q \in RequestState, q.pc \in {"seeding", "done"},
           q.pc = "seeding" => q.next > 0,
           req' = [req EXCEPT ![r] = q]
    PROVE  PhoneInv'
<1>0. None \notin Row /\ h \in Item /\ t \in Item /\ t \notin Hotel
  BY CatalogAssumption DEF Item
<1>1. row' \in [Item -> Row \cup {None}]
  BY <1>0 DEF PhoneInv
<1>2. req' \in [Request -> RequestState]
  BY DEF PhoneInv
<1>3. \A j \in Item : row[j] # None => row'[j] # None
  BY <1>0 DEF PhoneInv
<1>4. ASSUME NEW s \in Request PROVE Sound(req[s])'
  <2>1. req'[s] = q \/ req'[s] = req[s]
    BY DEF PhoneInv
  <2>2. CASE req'[s] = q
    BY <2>2 DEF Sound
  <2>3. CASE req'[s] = req[s]
    <3>1. Sound(req[s]) /\ req[s] \in RequestState
      BY DEF PhoneInv, RequestInv
    <3>2. QED
      BY <1>3, <2>3, <3>1 DEF Sound, RequestState, Item
  <2>4. QED
    BY <2>1, <2>2, <2>3
<1>5. PhoneIsUnique'
  <2>1. \A g \in Hotel : row'[g] = IF g = h THEN hotel ELSE row[g]
    BY <1>0 DEF PhoneInv, Item
  <2>2. QED
    BY <2>1 DEF PhoneInv, PhoneIsUnique
<1>6. QED
  BY <1>1, <1>2, <1>4, <1>5 DEF PhoneInv, RequestInv

\* What a request in flight holds, spelled out for the steps below.
LEMMA Holds ==
    ASSUME PhoneInv, NEW r \in Request
    PROVE  req[r] \in RequestState /\ Sound(req[r])
BY DEF PhoneInv, RequestInv

LEMMA EndStep ==
    ASSUME PhoneInv, row' = row, NEW r \in Request, NEW outcome \in Ended, End(r, outcome)
    PROVE  PhoneInv'
<1> DEFINE q == [Idle EXCEPT !.pc = outcome]
<1>1. q \in RequestState /\ Sound(q)
  BY DEF RequestState, Sound, Idle, Ended, PC, Op
<1>2. QED
  BY <1>1, ReadingStep DEF End

LEMMA GotoStep ==
    ASSUME PhoneInv, row' = row, NEW r \in Request, NEW pc \in PC, Goto(r, pc),
           Sound([req[r] EXCEPT !.pc = pc])
    PROVE  PhoneInv'
<1>1. [req[r] EXCEPT !.pc = pc] \in RequestState
  BY Holds DEF RequestState
<1>2. req' = [req EXCEPT ![r] = [req[r] EXCEPT !.pc = pc]]
  BY DEF Goto
<1>3. QED
  BY <1>1, <1>2, ReadingStep

LEMMA ReadStep ==
    ASSUME PhoneInv, row' = row, NEW r \in Request, NEW i \in Item,
           NEW op \in {"update", "upload", "assign", "remove"},
           NEW l \in Label \cup {None}, NEW o \in Owner \cup {None}, Read(r, i, op, l, o)
    PROVE  PhoneInv'
<1>1. CASE Live(i)
  <2> DEFINE q == [Idle EXCEPT !.op = op, !.item = i, !.label = l, !.by = o,
                               !.entity = Edited(row[i], r, op, l, o),
                               !.pc = IF op = "remove" THEN "toDelete"
                                      ELSE IF MustCheck(row[i], op, l) THEN "toCheck" ELSE "toSave"]
  <2>1. row[i] \in Row /\ row[i] # None /\ None \notin Row
    BY <1>1, CatalogAssumption DEF Live, PhoneInv
  <2>2. Edited(row[i], r, op, l, o) \in Row
    BY <2>1, EditedType
  <2>3. q.pc \in {"toDelete", "toCheck", "toSave"}
    BY DEF Idle
  <2>4. q \in RequestState
    <3> DEFINE e == Edited(row[i], r, op, l, o)
               pc == IF op = "remove" THEN "toDelete"
                     ELSE IF MustCheck(row[i], op, l) THEN "toCheck" ELSE "toSave"
    <3>1. e \in Row /\ pc \in PC /\ op \in Op
      BY <2>2 DEF PC, Op
    <3>2. q = [Idle EXCEPT !.op = op, !.item = i, !.label = l, !.by = o, !.entity = e, !.pc = pc]
      OBVIOUS
    <3> HIDE DEF e, pc, q
    <3>3. QED
      BY <3>1, <3>2, ChangeState
  <2>5. Sound(q)
    BY <2>1, <2>2, <2>3 DEF Sound, Idle
  <2>6. QED
    BY <1>1, <2>4, <2>5, ReadingStep DEF Read
<1>2. CASE ~Live(i)
  BY <1>2, EndStep DEF Read, Ended
<1>3. QED
  BY <1>1, <1>2

LEMMA GetStep ==
    ASSUME PhoneInv, NEW r \in Request, NEW p \in Page, NEW fields \in RequestState,
           NEW after \in {"done", "found"}, Get(r, p, fields, after),
           fields.op = "create" \/ after = "found" => fields.label \in Label
    PROVE  PhoneInv'
<1>1. row' = row
  BY DEF Get
<1>2. CASE cache[p] # None /\ after = "done"
  BY <1>1, <1>2, EndStep DEF Get, Ended
<1>3. ASSUME NEW pc \in {"missed", "found"}, pc = "found" => after = "found",
             req' = [req EXCEPT ![r] = [fields EXCEPT !.pc = pc, !.page = p]]
      PROVE  PhoneInv'
  <2> DEFINE q == [fields EXCEPT !.pc = pc, !.page = p]
  <2>1. q \in RequestState
    BY DEF RequestState, PC
  <2>2. q.pc = pc /\ q.op = fields.op /\ q.label = fields.label
    BY DEF RequestState
  <2>3. Sound(q)
    BY <1>3, <2>2 DEF Sound
  <2>4. QED
    BY <1>1, <1>3, <2>1, <2>3, ReadingStep
<1>4. QED
  BY <1>2, <1>3 DEF Get

LEMMA StartStep == ASSUME PhoneInv, NEW r \in Request, Start(r) PROVE PhoneInv'
<1>1. ASSUME NEW p \in Page, GetPage(r, p) PROVE PhoneInv'
  <2>1. Idle \in RequestState /\ Idle.op = "read"
    BY DEF Idle, RequestState, PC, Op
  <2>2. QED
    BY <1>1, <2>1, GetStep DEF GetPage
<1>2. ASSUME NEW h \in Hotel, NEW l \in Label, CreateRoomType(r, h, l) PROVE PhoneInv'
  <2> DEFINE fields == [Idle EXCEPT !.op = "create", !.label = l]
  <2>1. fields \in RequestState /\ fields.label \in Label
    BY IdleType DEF RequestState, Op
  <2>2. Detail(h) \in Page
    BY DEF Detail, Page
  <2>3. QED
    BY <1>2, <2>1, <2>2, GetStep DEF CreateRoomType
<1>3. ASSUME NEW l \in Label, CreateHotel(r, l) PROVE PhoneInv'
  <2> DEFINE q == [Idle EXCEPT !.pc = "toInsert", !.op = "create", !.label = l]
  <2>1. q \in RequestState
    BY IdleType DEF RequestState, PC, Op
  <2>2. Sound(q)
    BY DEF Idle, Sound
  <2>3. row' = row /\ (End(r, "rejected") \/ req' = [req EXCEPT ![r] = q])
    BY <1>3 DEF CreateHotel
  <2>4. QED
    BY <2>1, <2>2, <2>3, ReadingStep, EndStep DEF Ended
<1>4. ASSUME NEW i \in Item, NEW l \in Label \cup {None},
             NEW op \in {"update", "upload", "remove"}, Change(r, i, op, l)
      PROVE  PhoneInv'
  BY <1>4, ReadStep DEF Change
<1>5. ASSUME NEW h \in Hotel, NEW o \in Owner, AssignOwner(r, h, o) PROVE PhoneInv'
  BY <1>5, ReadStep DEF AssignOwner, Item
<1>6. ASSUME NEW h \in Hotel, NEW o \in Owner, NEW l \in Label \cup {None},
             NEW op \in {"update", "upload"}, CheckOwner(r, h, op, l, o)
      PROVE  PhoneInv'
  <2> DEFINE q == [Idle EXCEPT !.pc = "owned", !.op = op, !.item = h, !.label = l, !.by = o]
  <2>1. row' = row
    BY <1>6 DEF CheckOwner
  <2>2. CASE Live(h) /\ OwnedBy(row[h], o)
    <3>1. q \in RequestState
      BY IdleType DEF RequestState, PC, Op, Item
    <3>2. Sound(q)
      BY <2>2 DEF Sound, Idle, Live, Item
    <3>3. req' = [req EXCEPT ![r] = q]
      BY <1>6, <2>2 DEF CheckOwner
    <3>4. QED
      BY <2>1, <3>1, <3>2, <3>3, ReadingStep
  <2>3. CASE ~(Live(h) /\ OwnedBy(row[h], o))
    BY <1>6, <2>1, <2>3, EndStep DEF CheckOwner, Ended
  <2>4. QED
    BY <2>2, <2>3
<1>7. ASSUME CountHotels(r) PROVE PhoneInv'
  <2> DEFINE q == [Idle EXCEPT !.pc = "seeding", !.op = "seed", !.next = 1]
  <2>1. row' = row /\ (End(r, "done") \/ req' = [req EXCEPT ![r] = q]) /\ SeedHotels # <<>>
    BY <1>7 DEF CountHotels
  <2>2. 1 \in 0 .. Len(SeedHotels)
    BY <2>1, CatalogAssumption
  <2>3. q \in RequestState
    BY <2>2, IdleType DEF RequestState, PC, Op
  <2>4. Sound(q)
    BY DEF Idle, Sound
  <2>5. QED
    BY <2>1, <2>3, <2>4, ReadingStep, EndStep DEF Ended
<1>8. ASSUME FindTestHotel(r) PROVE PhoneInv'
  <2>1. row' = row /\ TestHotel # None
    BY <1>8 DEF FindTestHotel
  <2>2. CASE req' = [req EXCEPT ![r] = [Idle EXCEPT !.pc = "upserting", !.op = "seed"]]
    <3>1. [Idle EXCEPT !.pc = "upserting", !.op = "seed"] \in RequestState
      BY Begun DEF PC
    <3>2. Sound([Idle EXCEPT !.pc = "upserting", !.op = "seed"])
      BY <2>1 DEF Idle, Sound
    <3>3. QED
      BY <2>1, <2>2, <3>1, <3>2, ReadingStep
  <2>3. ASSUME NEW h \in Hotel, NEW t \in RoomType \cup {None}, row[h] # None, t # None => row[t] # None,
               req' = [req EXCEPT ![r] =
                   [Idle EXCEPT !.pc = "upserting", !.op = "seed", !.item = h, !.loaded = row[h],
                                !.room = t, !.roomLoaded = IF t = None THEN None ELSE row[t]]]
        PROVE  PhoneInv'
    <3> DEFINE old == IF t = None THEN None ELSE row[t]
               begun == [Idle EXCEPT !.pc = "upserting", !.op = "seed"]
               q == [begun EXCEPT !.item = h, !.loaded = row[h], !.room = t, !.roomLoaded = old]
    <3>1. h \in Item /\ row[h] \in Row \cup {None} /\ old \in Row \cup {None}
      BY DEF PhoneInv, Item
    <3>2. q \in RequestState /\ q.pc = "upserting" /\ q.item = h /\ q.loaded = row[h] /\ q.room = t /\ q.roomLoaded = old
      <4>1. begun \in RequestState /\ begun.pc = "upserting"
        BY Begun DEF PC
      <4> HIDE DEF begun, old
      <4> DEFINE found == [begun EXCEPT !.item = h, !.loaded = row[h]]
      <4>2. found \in RequestState
        BY <3>1, <4>1 DEF RequestState
      <4>3. found.pc = "upserting" /\ found.item = h /\ found.loaded = row[h]
        BY <4>1 DEF RequestState
      <4>4. q = [found EXCEPT !.room = t, !.roomLoaded = old]
        OBVIOUS
      <4> HIDE DEF found, q
      <4>5. q \in RequestState
        BY <3>1, <4>2, <4>4 DEF RequestState
      <4>6. QED
        BY <4>2, <4>3, <4>4, <4>5 DEF RequestState
    <3>3. Sound(q)
      <4> HIDE DEF q
      <4>1. QED
        BY <2>1, <2>3, <3>2 DEF Sound
    <3>4. QED
      BY <2>1, <2>3, <3>2, <3>3, ReadingStep
  <2>4. QED
    BY <1>8, <2>2, <2>3 DEF FindTestHotel
<1>9. QED
  BY <1>1, <1>2, <1>3, <1>4, <1>5, <1>6, <1>7, <1>8 DEF Start

\* A request that has written its row holds nothing that another step could upset.
LEMMA WroteState ==
    ASSUME NEW i \in Item
    PROVE  [Idle EXCEPT !.pc = "saved", !.item = i] \in RequestState
BY IdleType DEF RequestState, PC

LEMMA InsertStep ==
    ASSUME PhoneInv, NEW r \in Request,
           \/ \E t \in RoomType : InsertRoomType(r, t)
           \/ \E h \in Hotel : InsertHotel(r, h)
    PROVE  PhoneInv'
<1>1. ASSUME At(r, "toInsert") PROVE req[r].label \in Label /\ req[r].page \in Page \cup {None}
  BY <1>1, Holds DEF At, Sound, RequestState
<1>2. ASSUME NEW t \in RoomType, InsertRoomType(r, t) PROVE PhoneInv'
  <2> DEFINE new == NewRow(r, req[r].label, req[r].page.hotel)
  <2>1. req[r].page.hotel \in Hotel
    BY <1>1, <1>2 DEF InsertRoomType, Page
  <2>2. new \in Row
    BY <1>1, <1>2, <2>1, NewRowType DEF InsertRoomType
  <2>3. t \in Item /\ t \notin Hotel
    BY CatalogAssumption DEF Item
  <2>4. QED
    BY <1>2, <2>2, <2>3, WroteState, WritingStep DEF InsertRoomType, Wrote, Idle
<1>3. ASSUME NEW h \in Hotel, InsertHotel(r, h) PROVE PhoneInv'
  <2> DEFINE new == NewRow(r, req[r].label, None)
  <2>1. new \in Row
    BY <1>1, <1>3, NewRowType DEF InsertHotel
  <2>2. CASE Clashes(h, new)
    BY <1>3, <2>2, EndStep DEF InsertHotel, Ended
  <2>3. CASE ~Clashes(h, new)
    <3>1. \A g \in Hotel \ {h} : row[g] # None => row[g].label # new.label
      BY <2>3 DEF Clashes
    <3>2. row' = [row EXCEPT ![h] = new] /\ End(r, "done")
      BY <1>3, <2>3 DEF InsertHotel
    <3>3. [Idle EXCEPT !.pc = "done"] \in RequestState /\ [Idle EXCEPT !.pc = "done"].pc = "done"
      BY DEF Idle, RequestState, PC, Op
    <3>4. QED
      BY <2>1, <3>1, <3>2, <3>3, WritingStep DEF End, Item
  <2>4. QED
    BY <2>2, <2>3
<1>4. QED
  BY <1>2, <1>3

LEMMA UpdateStep == ASSUME PhoneInv, NEW r \in Request, Update(r) PROVE PhoneInv'
<1> DEFINE i == req[r].item
           new == Saved(row[i], req[r].loaded, Sent(req[r]))
<1>1. i \in Item /\ row[i] \in Row /\ req[r].loaded \in Row /\ req[r].entity \in Row
  BY Holds DEF Update, At, Sound, RequestState, PhoneInv
<1>2. new \in Row
  BY <1>1, Holds, SentType, SavedType
<1>3. CASE Clashes(i, new)
  BY <1>3, EndStep DEF Update, Ended
<1>4. CASE ~Clashes(i, new)
  <2>1. i \in Hotel => \A g \in Hotel \ {i} : row[g] # None => row[g].label # new.label
    BY <1>4 DEF Clashes
  <2>2. row' = [row EXCEPT ![i] = new] /\ Wrote(r, i)
    BY <1>4 DEF Update
  <2>3. QED
    BY <1>1, <1>2, <2>1, <2>2, WroteState, WritingStep DEF Wrote, Idle
<1>5. QED
  BY <1>3, <1>4

LEMMA SoftDeleteStep == ASSUME PhoneInv, NEW r \in Request, SoftDelete(r) PROVE PhoneInv'
<1> DEFINE i == req[r].item
           new == [row[i] EXCEPT !.deleted = TRUE]
<1>1. i \in Item /\ row[i] \in Row /\ row[i] # None
  BY Holds DEF SoftDelete, At, Sound, PhoneInv
<1>2. new \in Row /\ new.label = row[i].label
  BY <1>1 DEF Row
<1>3. row' = [row EXCEPT ![i] = new] /\ Wrote(r, i)
  BY DEF SoftDelete
<1>4. i \in Hotel => \A g \in Hotel \ {i} : row[g] # None => row[g].label # new.label
  BY <1>1, <1>2 DEF PhoneInv, PhoneIsUnique
<1>5. QED
  BY <1>1, <1>2, <1>3, <1>4, WroteState, WritingStep DEF Wrote, Idle

LEMMA SeedHotelStep ==
    ASSUME PhoneInv, NEW r \in Request, NEW h \in Hotel, NEW t \in RoomType, SeedHotel(r, h, t)
    PROVE  PhoneInv'
<1> DEFINE data == SeedHotels[req[r].next]
           new == NewRow(r, data.phone, None)
           room == NewRow(r, data.name, h)
<1>1. req[r].next \in 1 .. Len(SeedHotels)
  BY Holds, CatalogAssumption DEF SeedHotel, At, Sound, RequestState
<1>2. data.phone \in Label /\ data.name \in Label
  <2>1. SeedHotels[req[r].next] \in [phone: Label, name: Label]
    BY <1>1, SeedData
  <2>2. QED
    BY <2>1
<1>3. new \in Row /\ room \in Row
  BY <1>2, NewRowType
<1>4. CASE Clashes(h, new)
  BY <1>4, EndStep DEF SeedHotel, Ended
<1>5. CASE ~Clashes(h, new)
  <2>1. \A g \in Hotel \ {h} : row[g] # None => row[g].label # new.label
    BY <1>5 DEF Clashes
  <2>2. row' = [row EXCEPT ![h] = new, ![t] = room]
    BY <1>5 DEF SeedHotel
  <2>3. CASE End(r, "done")
    <3>1. [Idle EXCEPT !.pc = "done"] \in RequestState /\ [Idle EXCEPT !.pc = "done"].pc = "done"
      BY IdleType DEF RequestState, PC
    <3>2. QED
      BY <1>3, <2>1, <2>2, <2>3, <3>1, WritingBothStep DEF End
  <2>4. CASE req[r].next # Len(SeedHotels) /\ req' = [req EXCEPT ![r].next = @ + 1]
    <3> DEFINE q == [req[r] EXCEPT !.next = @ + 1]
    <3>1. req[r] \in RequestState /\ req[r].pc = "seeding" /\ Len(SeedHotels) \in Nat
      BY Holds, CatalogAssumption DEF SeedHotel, At
    <3>2. req[r].next + 1 \in 0 .. Len(SeedHotels) /\ req[r].next + 1 > 0
      BY <1>1, <2>4, <3>1
    <3>3. q \in RequestState /\ q.pc = "seeding" /\ q.next > 0
      BY <3>1, <3>2 DEF RequestState
    <3>4. req' = [req EXCEPT ![r] = q]
      BY <2>4
    <3>5. QED
      BY <1>3, <2>1, <2>2, <3>3, <3>4, WritingBothStep
  <2>5. QED
    BY <1>5, <2>3, <2>4 DEF SeedHotel
<1>6. QED
  BY <1>4, <1>5

LEMMA UpsertTestHotelStep ==
    ASSUME PhoneInv, NEW r \in Request, NEW h \in Hotel, NEW t \in RoomType, UpsertTestHotel(r, h, t)
    PROVE  PhoneInv'
<1> DEFINE q == req[r]
           hotel == IF q.item = None THEN NewRow(r, TestHotel.phone, None)
                    ELSE Saved(row[h], q.loaded, Upserted(q.loaded, r, None))
           room == IF q.room = None THEN NewRow(r, TestHotel.name, h)
                   ELSE Saved(row[t], q.roomLoaded, Upserted(q.roomLoaded, r, h))
<1>1. q \in RequestState /\ Sound(q) /\ q.pc = "upserting"
  BY Holds DEF UpsertTestHotel, At
<1>2. TestHotel.phone \in Label /\ TestHotel.name \in Label
  BY <1>1, CatalogAssumption DEF Sound
<1>3. hotel \in Row
  <2>1. CASE q.item = None
    BY <1>2, <2>1, NewRowType
  <2>2. CASE q.item # None
    <3>1. h = q.item /\ row[h] \in Row /\ q.loaded \in Row
      BY <1>1, <2>2 DEF UpsertTestHotel, Sound, RequestState, PhoneInv, Item
    <3>2. QED
      BY <2>2, <3>1, UpsertedType, SavedType
  <2>3. QED
    BY <2>1, <2>2
<1>4. room \in Row
  <2>1. CASE q.room = None
    BY <1>2, <2>1, NewRowType
  <2>2. CASE q.room # None
    <3>1. t = q.room /\ row[t] \in Row /\ q.roomLoaded \in Row
      BY <1>1, <2>2 DEF UpsertTestHotel, Sound, RequestState, PhoneInv, Item
    <3>2. QED
      BY <2>2, <3>1, UpsertedType, SavedType
  <2>3. QED
    BY <2>1, <2>2
<1>5. CASE Clashes(h, hotel)
  BY <1>5, EndStep DEF UpsertTestHotel, Ended
<1>6. CASE ~Clashes(h, hotel)
  <2>1. \A g \in Hotel \ {h} : row[g] # None => row[g].label # hotel.label
    BY <1>6 DEF Clashes
  <2>2. row' = [row EXCEPT ![h] = hotel, ![t] = room] /\ End(r, "done")
    BY <1>6 DEF UpsertTestHotel
  <2>3. [Idle EXCEPT !.pc = "done"] \in RequestState /\ [Idle EXCEPT !.pc = "done"].pc = "done"
    BY IdleType DEF RequestState, PC
  <2> HIDE DEF hotel, room
  <2>4. QED
    BY <1>3, <1>4, <2>1, <2>2, <2>3, WritingBothStep DEF End
<1>7. QED
  BY <1>5, <1>6

LEMMA ContinueStep == ASSUME PhoneInv, NEW r \in Request, Continue(r) PROVE PhoneInv'
<1>1. ASSUME NEW part \in {"hotel", "rooms", "publicHotel", "hotelName", "hotels"}, Select(r, part)
      PROVE  PhoneInv'
  BY <1>1 DEF Select, PhoneInv, RequestInv, Sound, PhoneIsUnique
<1>2. ASSUME NotFound(r) PROVE PhoneInv'
  BY <1>2, EndStep DEF NotFound, Ended
<1>3. ASSUME Set(r) PROVE PhoneInv'
  <2>1. CASE req[r].op = "create"
    <3>1. Goto(r, "found") /\ row' = row /\ At(r, "missed")
      BY <1>3, <2>1 DEF Set, AllSelected
    <3>2. Sound([req[r] EXCEPT !.pc = "found"])
      BY <2>1, <3>1, Holds DEF Sound, At, RequestState
    <3>3. QED
      BY <3>1, <3>2, GotoStep DEF PC
  <2>2. CASE req[r].op # "create"
    BY <1>3, <2>2, EndStep DEF Set, Ended
  <2>3. QED
    BY <2>1, <2>2
<1>4. ASSUME CheckName(r) PROVE PhoneInv'
  <2>1. row' = row /\ At(r, "found") /\ (End(r, "rejected") \/ Goto(r, "toInsert"))
    BY <1>4 DEF CheckName
  <2>2. Sound([req[r] EXCEPT !.pc = "toInsert"])
    BY <2>1, Holds DEF Sound, At, RequestState
  <2>3. QED
    BY <2>1, <2>2, EndStep, GotoStep DEF Ended, PC
<1>5. ASSUME ChangeOwned(r) PROVE PhoneInv'
  <2>1. /\ req[r].item \in Item /\ req[r].op \in {"update", "upload"}
        /\ req[r].label \in Label \cup {None} /\ req[r].by \in Owner \cup {None}
    BY <1>5, Holds DEF ChangeOwned, At, Sound, RequestState
  <2>2. QED
    BY <1>5, <2>1, ReadStep DEF ChangeOwned
<1>6. ASSUME CheckLabel(r) PROVE PhoneInv'
  <2>1. row' = row /\ At(r, "toCheck") /\ (End(r, "rejected") \/ Goto(r, "toSave"))
    BY <1>6 DEF CheckLabel
  <2>2. Sound([req[r] EXCEPT !.pc = "toSave"])
    BY <2>1, Holds DEF Sound, At, RequestState
  <2>3. QED
    BY <2>1, <2>2, EndStep, GotoStep DEF Ended, PC
<1>7. ASSUME Load(r) PROVE PhoneInv'
  <2> DEFINE q == [req[r] EXCEPT !.pc = "loaded", !.loaded = row[req[r].item]]
  <2>1. At(r, "toSave") /\ row' = row /\ req' = [req EXCEPT ![r] = q]
    BY <1>7 DEF Load
  <2>2. req[r].item \in Item /\ row[req[r].item] \in Row /\ row[req[r].item] # None
    BY <2>1, Holds DEF At, Sound, PhoneInv
  <2>3. q \in RequestState
    <3>1. req[r] \in RequestState /\ "loaded" \in PC
      BY Holds DEF PC
    <3>2. QED
      BY <2>2, <3>1 DEF RequestState
  <2>4. Sound(q)
    BY <2>1, <2>2, Holds DEF Sound, At, RequestState
  <2>5. QED
    BY <2>1, <2>3, <2>4, ReadingStep
<1>8. ASSUME Del(r) PROVE PhoneInv'
  BY <1>8, EndStep DEF Del, Ended
<1>9. QED
  BY <1>1, <1>2, <1>3, <1>4, <1>5, <1>6, <1>7, <1>8, InsertStep, UpdateStep, SoftDeleteStep,
     SeedHotelStep, UpsertTestHotelStep
     DEF Continue

LEMMA PhoneNext == PhoneInv /\ [Next]_vars => PhoneInv'
<1> SUFFICES ASSUME PhoneInv, [Next]_vars PROVE PhoneInv'
  OBVIOUS
<1>1. CASE row' = row /\ req' = req
  BY <1>1 DEF PhoneInv, RequestInv, Sound, PhoneIsUnique
<1>2. ASSUME NEW r \in Request, Fail(r) PROVE PhoneInv'
  BY <1>2, EndStep DEF Fail, Ended
<1>3. ASSUME NEW p \in Page, Expire(p) PROVE PhoneInv'
  BY <1>1, <1>3 DEF Expire
<1>4. CASE AllDone
  BY <1>1, <1>4 DEF AllDone
<1>5. CASE UNCHANGED vars
  BY <1>1, <1>5 DEF vars
<1>6. QED
  BY <1>2, <1>3, <1>4, <1>5, StartStep, ContinueStep DEF Next

\* No two hotels ever have the same phone, for any number of hotels, requests and
\* phones: every check may be overtaken, and the unique column still holds.
THEOREM UniquePhones == Spec => []PhoneIsUnique
<1>1. PhoneInv => PhoneIsUnique
  BY DEF PhoneInv
<1>2. QED
  BY <1>1, PhoneInit, PhoneNext, PTL DEF Spec

\* The rows and what a request is to write stay of their types together, and no row is
\* removed from under a request: what phones are unique by.
THEOREM RequestsAreSound == Spec => []PhoneInv
BY PhoneInit, PhoneNext, PTL DEF Spec

-----------------------------------------------------------------------------
(* What the requests and the stores hold *)

\* No row goes, and a room type stays in its hotel.
RowsGrow ==
    /\ \A i \in Item : row[i] # None => row'[i] # None
    /\ \A t \in RoomType : row[t] # None => row'[t].of = row[t].of

Moves(r) == Start(r) \/ Continue(r) \/ Fail(r)

Writes(r) ==
    \/ \E t \in RoomType : InsertRoomType(r, t)
    \/ \E h \in Hotel : InsertHotel(r, h)
    \/ Update(r) \/ SoftDelete(r)
    \/ \E h \in Hotel, t \in RoomType : SeedHotel(r, h, t) \/ UpsertTestHotel(r, h, t)

LEMMA Reading ==
    ASSUME NEW r \in Request, Moves(r), ~Writes(r)
    PROVE  row' = row
BY DEF Moves, Writes, Start, GetPage, Get, CreateRoomType, CreateHotel, Change, AssignOwner, CheckOwner,
       CountHotels, FindTestHotel, Continue, Select, NotFound, Set, CheckName, ChangeOwned, CheckLabel,
       Load, Del, Fail

\* Each step is a request's, and moves no other.
LEMMA OneMoves ==
    ASSUME PhoneInv, StoresInv, NEW r \in Request, Moves(r), NEW s \in Request, s # r
    PROVE  req'[s] = req[s] /\ seen'[s] = seen[s]
<1>1. req \in [Request -> RequestState] /\ DOMAIN seen = Request
  BY DEF PhoneInv, StoresInv
<1>2. CASE Start(r)
  BY <1>1, <1>2 DEF Start, GetPage, Get, CreateRoomType, CreateHotel, Change, Read, AssignOwner, CheckOwner,
     CountHotels, FindTestHotel, End
<1>3. CASE Continue(r)
  BY <1>1, <1>3 DEF Continue, Select, NotFound, Set, Forget, CheckName, ChangeOwned, Read, CheckLabel,
     Load, Del, InsertRoomType, InsertHotel, Update, SoftDelete, SeedHotel, UpsertTestHotel, Wrote, Goto, End
<1>4. CASE Fail(r)
  BY <1>1, <1>4 DEF Fail, Forget, End
<1>5. QED
  BY <1>2, <1>3, <1>4 DEF Moves

\* A request's seen is its SELECTs', of which it has made none but when reading a page.
LEMMA SeenMoves ==
    ASSUME NEW r \in Request, Moves(r)
    PROVE  \/ seen' = seen
           \/ Forget(r)
           \/ \E part \in {"hotel", "rooms", "publicHotel", "hotelName", "hotels"} : Select(r, part)
<1>1. CASE Start(r)
  BY <1>1 DEF Start, GetPage, Get, CreateRoomType, CreateHotel, Change, AssignOwner, CheckOwner,
     CountHotels, FindTestHotel
<1>2. CASE Continue(r)
  BY <1>2 DEF Continue, NotFound, Set, CheckName, ChangeOwned, CheckLabel,
     Load, Del, InsertRoomType, InsertHotel, Update, SoftDelete, SeedHotel, UpsertTestHotel
<1>3. QED
  BY <1>1, <1>2 DEF Moves, Fail

LEMMA NothingSeen == DOMAIN <<>> = {}
OBVIOUS

LEMMA Held ==
    ASSUME PhoneInv, StoresInv, NEW r \in Request
    PROVE  req[r] \in RequestState /\ Sound(req[r]) /\ Holding(r)
BY DEF PhoneInv, RequestInv, StoresInv

\* The columns of a room type are saved with the hotel they were read with.
LEMMA SavedOf ==
    ASSUME NEW c, NEW l, NEW e, e.of = l.of
    PROVE  Saved(c, l, e).of = c.of
BY DEF Saved

LEMMA UpdateGrows ==
    ASSUME PhoneInv, StoresInv, NEW r \in Request, Update(r), row' # row
    PROVE  /\ req[r].item \in Item /\ row[req[r].item] \in Row
           /\ row' = [row EXCEPT ![req[r].item] = Saved(row[req[r].item], req[r].loaded, Sent(req[r]))]
           /\ Saved(row[req[r].item], req[r].loaded, Sent(req[r])) \in Row
           /\ req[r].item \in RoomType =>
                 Saved(row[req[r].item], req[r].loaded, Sent(req[r])).of = row[req[r].item].of
           /\ Wrote(r, req[r].item)
<1>1. req[r].pc = "loaded" /\ req[r] \in RequestState /\ Sound(req[r]) /\ Holding(r)
  BY Held DEF Update, At
<1>2. /\ req[r].item \in Item /\ row[req[r].item] \in Row
      /\ req[r].loaded \in Row /\ req[r].entity \in Row
  BY <1>1 DEF Sound, RequestState, PhoneInv
<1>3. Sent(req[r]) \in Row /\ Sent(req[r]).of = req[r].entity.of
  BY <1>1, <1>2, SentType
<1>4. req[r].item \in RoomType => Sent(req[r]).of = req[r].loaded.of
  BY <1>1, <1>3 DEF Holding
<1>5. QED
  BY <1>2, <1>3, <1>4, SavedType, SavedOf DEF Update

\* What the upsert writes: a hotel, and a room type in it, each new or as it was.
LEMMA UpsertGrows ==
    ASSUME PhoneInv, StoresInv, NEW r \in Request, NEW h \in Hotel, NEW t \in RoomType,
           UpsertTestHotel(r, h, t), row' # row
    PROVE  \E hotel, room \in Row :
              /\ row' = [row EXCEPT ![h] = hotel, ![t] = room]
              /\ room.of = h
              /\ row[t] # None => req[r].room = t /\ row[t].of = h /\ room.label = row[t].label
              /\ row[t] = None => room.label = TestHotel.name /\ req[r].room = None
              /\ req[r].item = None => row[h] = None /\ hotel = NewRow(r, TestHotel.phone, None)
              /\ req[r].item # None =>
                    /\ req[r].item = h /\ row[h] \in Row /\ req[r].loaded \in Row
                    /\ hotel = Saved(row[h], req[r].loaded, Upserted(req[r].loaded, r, None))
<1> DEFINE q == req[r]
           hotel == IF q.item = None THEN NewRow(r, TestHotel.phone, None)
                    ELSE Saved(row[h], q.loaded, Upserted(q.loaded, r, None))
           room == IF q.room = None THEN NewRow(r, TestHotel.name, h)
                   ELSE Saved(row[t], q.roomLoaded, Upserted(q.roomLoaded, r, h))
<1>1. q \in RequestState /\ Sound(q) /\ q.pc = "upserting" /\ Holding(r)
  BY Held DEF UpsertTestHotel, At
<1>2. TestHotel.phone \in Label /\ TestHotel.name \in Label
  BY <1>1, CatalogAssumption DEF Sound
<1>3. hotel \in Row /\ (q.item # None => h = q.item /\ row[h] \in Row /\ q.loaded \in Row)
  <2>1. CASE q.item = None
    BY <1>2, <2>1, NewRowType
  <2>2. CASE q.item # None
    <3>1. h = q.item /\ row[h] \in Row /\ q.loaded \in Row
      BY <1>1, <2>2 DEF UpsertTestHotel, Sound, RequestState, PhoneInv, Item
    <3>2. QED
      BY <2>2, <3>1, UpsertedType, SavedType
  <2>3. QED
    BY <2>1, <2>2
<1>4. /\ room \in Row /\ room.of = h
      /\ row[t] # None => q.room = t /\ row[t].of = h /\ room.label = row[t].label
      /\ row[t] = None => room.label = TestHotel.name /\ q.room = None
  <2>1. CASE q.room = None
    <3>1. row[t] = None
      BY <2>1 DEF UpsertTestHotel
    <3>2. QED
      BY <1>2, <2>1, <3>1, NewRowType DEF NewRow
  <2>2. CASE q.room # None
    <3>1. t = q.room /\ row[t] \in Row /\ row[t] # None /\ q.roomLoaded \in Row
      BY <1>1, <2>2 DEF UpsertTestHotel, Sound, RequestState, PhoneInv, Item
    <3>2. row[t].of = q.item /\ q.roomLoaded.of = q.item /\ q.item = h
      BY <1>1, <1>3, <2>2, <3>1 DEF Holding
    <3>3. /\ Upserted(q.roomLoaded, r, h) \in Row
          /\ Upserted(q.roomLoaded, r, h).label = q.roomLoaded.label
          /\ Upserted(q.roomLoaded, r, h).of = h
      BY <3>1, UpsertedType DEF Upserted, Row
    <3>4. QED
      BY <2>2, <3>1, <3>2, <3>3, SavedType DEF Saved
  <2>3. QED
    BY <2>1, <2>2
<1>5. row' = [row EXCEPT ![h] = hotel, ![t] = room]
  BY DEF UpsertTestHotel
<1>6. q.item = None => row[h] = None
  BY DEF UpsertTestHotel
<1> HIDE DEF room
<1>7. QED
  BY <1>3, <1>4, <1>5, <1>6

LEMMA SeedGrows ==
    ASSUME PhoneInv, StoresInv, NEW r \in Request, NEW h \in Hotel, NEW t \in RoomType,
           SeedHotel(r, h, t), row' # row \/ ~End(r, "failed")
    PROVE  /\ req[r].next \in 1 .. Len(SeedHotels)
           /\ NewRow(r, SeedHotels[req[r].next].phone, None) \in Row
           /\ NewRow(r, SeedHotels[req[r].next].name, h) \in Row
           /\ row' = [row EXCEPT ![h] = NewRow(r, SeedHotels[req[r].next].phone, None),
                                 ![t] = NewRow(r, SeedHotels[req[r].next].name, h)]
           /\ row[h] = None /\ row[t] = None
<1>1. req[r].next \in 1 .. Len(SeedHotels)
  BY Held, CatalogAssumption DEF SeedHotel, At, Sound, RequestState
<1>2. SeedHotels[req[r].next] \in [phone: Label, name: Label]
  BY <1>1, SeedData
<1>3. SeedHotels[req[r].next].phone \in Label /\ SeedHotels[req[r].next].name \in Label
  BY <1>2
<1>4. QED
  BY <1>1, <1>3, NewRowType DEF SeedHotel

LEMMA InsertGrows ==
    ASSUME PhoneInv, StoresInv, NEW r \in Request, NEW t \in RoomType, InsertRoomType(r, t)
    PROVE  /\ req[r].pc = "toInsert" /\ req[r].label \in Label
           /\ req[r].page \in Page /\ req[r].page.hotel \in Hotel /\ row[req[r].page.hotel] # None
           /\ NewRow(r, req[r].label, req[r].page.hotel) \in Row
           /\ row' = [row EXCEPT ![t] = NewRow(r, req[r].label, req[r].page.hotel)]
           /\ row[t] = None /\ Wrote(r, t)
<1>1. /\ req[r].pc = "toInsert" /\ req[r].page # None
      /\ req[r] \in RequestState /\ Sound(req[r]) /\ Holding(r)
  BY Held DEF InsertRoomType, At
<1>2. req[r].label \in Label /\ req[r].page \in Page
  BY <1>1 DEF Sound, RequestState
<1>3. req[r].page.hotel \in Hotel /\ row[req[r].page.hotel] # None
  BY <1>1, <1>2 DEF Holding, Page
<1>4. QED
  BY <1>1, <1>2, <1>3, NewRowType DEF InsertRoomType

LEMMA HotelGrows ==
    ASSUME PhoneInv, StoresInv, NEW r \in Request, NEW h \in Hotel, InsertHotel(r, h), row' # row
    PROVE  /\ NewRow(r, req[r].label, None) \in Row
           /\ row' = [row EXCEPT ![h] = NewRow(r, req[r].label, None)]
           /\ row[h] = None
<1>1. req[r].label \in Label
  BY Held DEF InsertHotel, At, Sound
<1>2. QED
  BY <1>1, NewRowType DEF InsertHotel

LEMMA DeleteGrows ==
    ASSUME PhoneInv, StoresInv, NEW r \in Request, SoftDelete(r)
    PROVE  /\ req[r].item \in Item /\ row[req[r].item] \in Row
           /\ row' = [row EXCEPT ![req[r].item] = [row[req[r].item] EXCEPT !.deleted = TRUE]]
           /\ Wrote(r, req[r].item)
BY Held DEF SoftDelete, At, Sound, PhoneInv

\* Either nothing is written, or one item, or a hotel with a room type in it.
LEMMA Growth ==
    ASSUME PhoneInv, StoresInv, NEW r \in Request, Moves(r), row' # row
    PROVE  \/ \E i \in Item, new \in Row :
                /\ row' = [row EXCEPT ![i] = new]
                /\ i \in RoomType => /\ new.of \in Hotel /\ row[new.of] # None
                                     /\ row[i] # None => new.of = row[i].of
           \/ \E h \in Hotel, t \in RoomType, hotel, room \in Row :
                /\ row' = [row EXCEPT ![h] = hotel, ![t] = room]
                /\ room.of = h
                /\ row[t] # None => room.of = row[t].of
<1> USE CatalogAssumption
<1>1. Writes(r)
  BY Reading
<1>2. ASSUME NEW t \in RoomType, InsertRoomType(r, t)
      PROVE  \E i \in Item, new \in Row :
                /\ row' = [row EXCEPT ![i] = new]
                /\ i \in RoomType => /\ new.of \in Hotel /\ row[new.of] # None
                                     /\ row[i] # None => new.of = row[i].of
  <2>1. NewRow(r, req[r].label, req[r].page.hotel).of = req[r].page.hotel
    BY DEF NewRow
  <2>2. QED
    BY <1>2, <2>1, InsertGrows DEF Item
<1>3. ASSUME NEW h \in Hotel, InsertHotel(r, h)
      PROVE  \E i \in Item, new \in Row : row' = [row EXCEPT ![i] = new] /\ i \notin RoomType
  BY <1>3, HotelGrows DEF Item
<1>4. CASE Update(r)
  <2>1. req[r].item \in RoomType =>
           row[row[req[r].item].of] # None /\ row[req[r].item].of \in Hotel
    BY <1>4, UpdateGrows DEF StoresInv
  <2>2. QED
    BY <1>4, <2>1, UpdateGrows
<1>5. CASE SoftDelete(r)
  <2> DEFINE i == req[r].item
             new == [row[i] EXCEPT !.deleted = TRUE]
  <2>1. i \in Item /\ row[i] \in Row /\ row' = [row EXCEPT ![i] = new]
    BY <1>5, DeleteGrows
  <2>2. new \in Row /\ new.of = row[i].of
    BY <2>1 DEF Row
  <2>3. i \in RoomType => row[row[i].of] # None /\ row[i].of \in Hotel
    BY <2>1 DEF StoresInv
  <2> HIDE DEF new
  <2>4. QED
    BY <2>1, <2>2, <2>3
<1>6. ASSUME NEW h \in Hotel, NEW t \in RoomType, SeedHotel(r, h, t)
      PROVE  \E hotel, room \in Row :
                /\ row' = [row EXCEPT ![h] = hotel, ![t] = room]
                /\ room.of = h
                /\ row[t] # None => room.of = row[t].of
  <2>1. NewRow(r, SeedHotels[req[r].next].name, h).of = h
    BY DEF NewRow
  <2>2. QED
    BY <1>6, <2>1, SeedGrows
<1>7. ASSUME NEW h \in Hotel, NEW t \in RoomType, UpsertTestHotel(r, h, t)
      PROVE  \E hotel, room \in Row :
                /\ row' = [row EXCEPT ![h] = hotel, ![t] = room]
                /\ room.of = h
                /\ row[t] # None => room.of = row[t].of
  BY <1>7, UpsertGrows
<1>8. QED
  BY <1>1, <1>2, <1>3, <1>4, <1>5, <1>6, <1>7 DEF Writes

LEMMA Grows ==
    ASSUME PhoneInv, StoresInv, NEW r \in Request, Moves(r)
    PROVE  /\ RowsGrow
           /\ \A t \in RoomType : row'[t] # None => row'[t].of \in Hotel /\ row'[row'[t].of] # None
<1> USE CatalogAssumption
<1>0. row \in [Item -> Row \cup {None}] /\ Hotel \subseteq Item /\ RoomType \subseteq Item
  BY DEF PhoneInv, Item
<1>1. CASE row' = row
  BY <1>1 DEF RowsGrow, StoresInv
<1>2. ASSUME NEW i \in Item, NEW new \in Row, row' = [row EXCEPT ![i] = new],
             i \in RoomType => /\ new.of \in Hotel /\ row[new.of] # None
                               /\ row[i] # None => new.of = row[i].of
      PROVE  /\ RowsGrow
             /\ \A t \in RoomType : row'[t] # None => row'[t].of \in Hotel /\ row'[row'[t].of] # None
  <2>1. RowsGrow
    BY <1>0, <1>2 DEF RowsGrow
  <2>2. ASSUME NEW t \in RoomType, row'[t] # None
        PROVE  row'[t].of \in Hotel /\ row'[row'[t].of] # None
    <3>1. row'[t].of \in Hotel /\ row[row'[t].of] # None
      BY <1>0, <1>2, <2>2 DEF StoresInv
    <3>2. QED
      BY <1>0, <2>1, <3>1 DEF RowsGrow
  <2>3. QED
    BY <2>1, <2>2
<1>3. ASSUME NEW h \in Hotel, NEW t \in RoomType, NEW hotel \in Row, NEW room \in Row,
             row' = [row EXCEPT ![h] = hotel, ![t] = room], room.of = h,
             row[t] # None => room.of = row[t].of
      PROVE  /\ RowsGrow
             /\ \A u \in RoomType : row'[u] # None => row'[u].of \in Hotel /\ row'[row'[u].of] # None
  <2>1. RowsGrow
    BY <1>0, <1>3 DEF RowsGrow
  <2>2. ASSUME NEW u \in RoomType, row'[u] # None
        PROVE  row'[u].of \in Hotel /\ row'[row'[u].of] # None
    <3>1. CASE u = t
      BY <1>0, <1>3, <3>1
    <3>2. CASE u # t
      <4>1. row'[u] = row[u]
        BY <1>0, <1>3, <3>2
      <4>2. row'[u].of \in Hotel /\ row[row'[u].of] # None
        BY <2>2, <4>1 DEF StoresInv
      <4>3. QED
        BY <1>0, <2>1, <4>2 DEF RowsGrow
    <3>3. QED
      BY <3>1, <3>2
  <2>3. QED
    BY <2>1, <2>2
<1>4. QED
  BY <1>1, <1>2, <1>3, Growth

LEMMA HoldingKept ==
    ASSUME PhoneInv, StoresInv, RowsGrow, NEW s \in Request, req'[s] = req[s],
           seen'[s] = seen[s] \/ DOMAIN seen'[s] = {}
    PROVE  Holding(s)'
<1>1. req[s] \in RequestState /\ Sound(req[s]) /\ Holding(s)
  BY Held
<1>2. \A i \in Item : row[i] # None => row'[i] # None
  BY DEF RowsGrow
<1>3. \A t \in RoomType : row[t] # None => row'[t].of = row[t].of
  BY DEF RowsGrow
<1>4. \A p \in Page : p.hotel \in Item
  BY DEF Page, Item
<1>5. req[s].page \in Page \cup {None}
  BY <1>1 DEF RequestState
<1>6. CASE req[s].pc = "missed"
  BY <1>1, <1>2, <1>4, <1>6 DEF Holding
<1>7. CASE req[s].pc \in {"found", "toInsert"}
  BY <1>1, <1>2, <1>4, <1>5, <1>7 DEF Holding
<1>8. CASE req[s].pc \in {"toCheck", "toSave", "loaded"}
  <2>1. row[req[s].item] # None
    BY <1>1, <1>8 DEF Sound
  <2>2. req[s].item \in RoomType => row'[req[s].item].of = row[req[s].item].of
    BY <1>3, <2>1
  <2>3. QED
    BY <1>1, <1>8, <2>2 DEF Holding
<1>9. CASE req[s].pc = "upserting"
  <2>1. req[s].room # None => req[s].room \in RoomType /\ row[req[s].room] # None
    BY <1>1, <1>9 DEF Sound, RequestState
  <2>2. req[s].room # None => row'[req[s].room].of = row[req[s].room].of
    BY <1>3, <2>1
  <2>3. QED
    BY <1>1, <1>9, <2>2 DEF Holding
<1>10. CASE req[s].pc \in {"saved", "owned", "toDelete"}
  BY <1>1, <1>2, <1>10 DEF Holding
<1>11. QED
  BY <1>1, <1>6, <1>7, <1>8, <1>9, <1>10 DEF Holding

\* What a request that has not read a page, or no longer does, may hold next.
LEMMA HoldsNext ==
    ASSUME PhoneInv, StoresInv, NEW r \in Request, DOMAIN seen'[r] = {},
           NEW q, req' = [req EXCEPT ![r] = q]
    PROVE  /\ req'[r] = q
           /\ q.pc \in Ended \cup {"seeding"} => Holding(r)'
           /\ q.pc = "toInsert" /\ q.page = None => Holding(r)'
           /\ q.pc = "saved" /\ q.item \in Item /\ row'[q.item] # None => Holding(r)'
<1>1. req'[r] = q
  BY DEF PhoneInv
<1>2. QED
  BY <1>1 DEF Holding, Ended

LEMMA EndHolds ==
    ASSUME PhoneInv, StoresInv, NEW r \in Request, DOMAIN seen'[r] = {},
           NEW outcome \in Ended, End(r, outcome)
    PROVE  Holding(r)'
<1>1. [Idle EXCEPT !.pc = outcome].pc = outcome
  BY DEF Idle
<1>2. QED
  BY <1>1, HoldsNext DEF End

LEMMA WroteHolds ==
    ASSUME PhoneInv, StoresInv, NEW r \in Request, DOMAIN seen'[r] = {},
           NEW i \in Item, Wrote(r, i), row'[i] # None
    PROVE  Holding(r)'
<1>1. [Idle EXCEPT !.pc = "saved", !.item = i].pc = "saved" /\ [Idle EXCEPT !.pc = "saved", !.item = i].item = i
  BY DEF Idle
<1>2. QED
  BY <1>1, HoldsNext DEF Wrote

\* The columns of a room type's entity.
LEMMA EditedOf ==
    ASSUME NEW old \in Row, NEW r \in Request, NEW op, op # "assign", NEW l, NEW o
    PROVE  Edited(old, r, op, l, o).of = old.of
BY DEF Edited, Row

LEMMA ReadHolds ==
    ASSUME PhoneInv, StoresInv, NEW r \in Request, DOMAIN seen'[r] = {}, row' = row,
           NEW i \in Item, NEW op \in {"update", "upload", "assign", "remove"},
           NEW l, l # None => op = "update", NEW o, op = "remove" => o = None,
           op = "assign" => i \in Hotel, Read(r, i, op, l, o)
    PROVE  Holding(r)'
<1>1. CASE Live(i)
  <2> DEFINE e == Edited(row[i], r, op, l, o)
             pc == IF op = "remove" THEN "toDelete"
                   ELSE IF MustCheck(row[i], op, l) THEN "toCheck" ELSE "toSave"
             q == [Idle EXCEPT !.op = op, !.item = i, !.label = l, !.by = o, !.entity = e, !.pc = pc]
  <2>1. q.op = op /\ q.item = i /\ q.label = l /\ q.by = o /\ q.entity = e /\ q.pc = pc
    BY DEF Idle
  <2>2. req' = [req EXCEPT ![r] = q]
    BY <1>1 DEF Read
  <2>3. i \in RoomType => op # "assign" /\ e.of = row[i].of
    <3>1. row[i] \in Row
      BY <1>1 DEF Live, PhoneInv
    <3>2. i \in RoomType => op # "assign"
      BY CatalogAssumption
    <3>3. QED
      BY <3>1, <3>2, EditedOf
  <2>4. (pc = "toDelete" /\ op = "remove") \/ (pc \in {"toCheck", "toSave"} /\ op # "remove")
    OBVIOUS
  <2> HIDE DEF q, pc, e
  <2>5. req'[r] = q
    BY <2>2, HoldsNext
  <2>6. QED
    BY <2>1, <2>3, <2>4, <2>5 DEF Holding
<1>2. CASE ~Live(i)
  BY <1>2, EndHolds DEF Read, Ended
<1>3. QED
  BY <1>1, <1>2

LEMMA GetHolds ==
    ASSUME PhoneInv, StoresInv, NEW r \in Request, NEW p \in Page, NEW fields \in RequestState,
           NEW after \in {"done", "found"}, Get(r, p, fields, after),
           fields.op = "create" \/ after = "found" => p.kind = "detail"
    PROVE  Holding(r)'
<1>1. DOMAIN seen'[r] = {} /\ row' = row
  BY Held DEF Get, At, Holding
<1>2. CASE cache[p] # None /\ after = "done"
  BY <1>1, <1>2, EndHolds DEF Get, Ended
<1>3. ASSUME NEW pc \in {"missed", "found"}, pc = "found" => after = "found" /\ cache[p] # None,
             req' = [req EXCEPT ![r] = [fields EXCEPT !.pc = pc, !.page = p]]
      PROVE  Holding(r)'
  <2> DEFINE q == [fields EXCEPT !.pc = pc, !.page = p]
  <2>1. q.pc = pc /\ q.op = fields.op /\ q.page = p
    BY DEF RequestState
  <2> HIDE DEF q
  <2>2. req'[r] = q
    BY <1>1, <1>3, HoldsNext DEF q
  <2>3. pc = "found" => p.kind = "detail" /\ row[p.hotel] # None
    BY <1>3 DEF StoresInv
  <2>4. QED
    BY <1>1, <2>1, <2>2, <2>3 DEF Holding
<1>4. QED
  BY <1>2, <1>3 DEF Get

LEMMA StartHolds ==
    ASSUME PhoneInv, StoresInv, NEW r \in Request, Start(r)
    PROVE  Holding(r)'
<1>1. ASSUME NEW p \in Page, GetPage(r, p) PROVE Holding(r)'
  <2>1. Idle.op = "read"
    BY DEF Idle
  <2>2. QED
    BY <1>1, <2>1, IdleType, GetHolds DEF GetPage
<1>2. ASSUME NEW h \in Hotel, NEW l \in Label, CreateRoomType(r, h, l) PROVE Holding(r)'
  <2>1. [Idle EXCEPT !.op = "create", !.label = l] \in RequestState
    BY IdleType DEF RequestState, Op
  <2>2. Detail(h) \in Page /\ Detail(h).kind = "detail"
    BY DEF Detail, Page
  <2>3. QED
    BY <1>2, <2>1, <2>2, GetHolds DEF CreateRoomType
<1>3. ASSUME NEW l \in Label, CreateHotel(r, l) PROVE Holding(r)'
  <2>1. DOMAIN seen'[r] = {}
    BY <1>3, Held DEF CreateHotel, At, Holding
  <2>2. /\ [Idle EXCEPT !.pc = "toInsert", !.op = "create", !.label = l].pc = "toInsert"
        /\ [Idle EXCEPT !.pc = "toInsert", !.op = "create", !.label = l].page = None
    BY DEF Idle
  <2>3. QED
    BY <1>3, <2>1, <2>2, HoldsNext, EndHolds DEF CreateHotel, Ended
<1>4. ASSUME NEW i \in Item, NEW l \in Label \cup {None},
             NEW op \in {"update", "upload", "remove"}, Change(r, i, op, l)
      PROVE  Holding(r)'
  <2>1. DOMAIN seen'[r] = {} /\ row' = row /\ Read(r, i, op, l, None) /\ (l # None => op = "update")
    BY <1>4, Held DEF Change, At, Holding
  <2>2. QED
    BY <2>1, ReadHolds
<1>5. ASSUME NEW h \in Hotel, NEW o \in Owner, AssignOwner(r, h, o) PROVE Holding(r)'
  <2>1. DOMAIN seen'[r] = {} /\ row' = row /\ Read(r, h, "assign", None, o) /\ h \in Item
    BY <1>5, Held DEF AssignOwner, At, Holding, Item
  <2>2. QED
    BY <2>1, ReadHolds
<1>6. ASSUME NEW h \in Hotel, NEW o \in Owner, NEW l \in Label \cup {None},
             NEW op \in {"update", "upload"}, CheckOwner(r, h, op, l, o)
      PROVE  Holding(r)'
  <2> DEFINE q == [Idle EXCEPT !.pc = "owned", !.op = op, !.item = h, !.label = l, !.by = o]
  <2>1. DOMAIN seen'[r] = {} /\ (op = "update" \/ l = None)
    BY <1>6, Held DEF CheckOwner, At, Holding
  <2>2. q.pc = "owned" /\ q.op = op /\ q.item = h /\ q.label = l
    BY DEF Idle
  <2>3. CASE req' = [req EXCEPT ![r] = q]
    <3> HIDE DEF q
    <3>1. req'[r] = q
      BY <2>1, <2>3, HoldsNext
    <3>2. QED
      BY <2>1, <2>2, <3>1 DEF Holding
  <2>4. CASE End(r, "rejected")
    BY <2>1, <2>4, EndHolds DEF Ended
  <2>5. QED
    BY <1>6, <2>3, <2>4 DEF CheckOwner
<1>7. ASSUME CountHotels(r) PROVE Holding(r)'
  <2>1. DOMAIN seen'[r] = {}
    BY <1>7, Held DEF CountHotels, At, Holding
  <2>2. [Idle EXCEPT !.pc = "seeding", !.op = "seed", !.next = 1].pc = "seeding"
    BY DEF Idle
  <2>3. QED
    BY <1>7, <2>1, <2>2, HoldsNext, EndHolds DEF CountHotels, Ended
<1>8. ASSUME FindTestHotel(r) PROVE Holding(r)'
  <2>1. DOMAIN seen'[r] = {} /\ row' = row
    BY <1>8, Held DEF FindTestHotel, At, Holding
  <2>2. CASE req' = [req EXCEPT ![r] = [Idle EXCEPT !.pc = "upserting", !.op = "seed"]]
    <3> DEFINE q == [Idle EXCEPT !.pc = "upserting", !.op = "seed"]
    <3>1. q.pc = "upserting" /\ q.room = None
      BY DEF Idle
    <3> HIDE DEF q
    <3>2. req'[r] = q
      BY <2>1, <2>2, HoldsNext DEF q
    <3>3. QED
      BY <2>1, <3>1, <3>2 DEF Holding
  <2>3. ASSUME NEW h \in Hotel, NEW t \in RoomType \cup {None}, t # None => t \in RoomType /\ row[t].of = h,
               req' = [req EXCEPT ![r] =
                   [Idle EXCEPT !.pc = "upserting", !.op = "seed", !.item = h, !.loaded = row[h],
                                !.room = t, !.roomLoaded = IF t = None THEN None ELSE row[t]]]
        PROVE  Holding(r)'
    <3> DEFINE old == IF t = None THEN None ELSE row[t]
               q == [Idle EXCEPT !.pc = "upserting", !.op = "seed", !.item = h, !.loaded = row[h],
                                 !.room = t, !.roomLoaded = old]
    <3>1. q.pc = "upserting" /\ q.item = h /\ q.room = t /\ q.roomLoaded = old
      BY DEF Idle
    <3>2. h # None
      BY CatalogAssumption DEF Item
    <3>3. t # None => old.of = h
      BY <2>3
    <3> HIDE DEF q, old
    <3>4. req'[r] = q
      BY <2>1, <2>3, HoldsNext DEF q, old
    <3>5. QED
      BY <2>1, <2>3, <3>1, <3>2, <3>3, <3>4 DEF Holding
  <2>4. QED
    BY <1>8, <2>2, <2>3 DEF FindTestHotel
<1>9. QED
  BY <1>1, <1>2, <1>3, <1>4, <1>5, <1>6, <1>7, <1>8 DEF Start

\* Every SELECT of a page was made, and the hotel, if it is one of them, was found.
LEMMA Selected ==
    ASSUME PhoneInv, StoresInv, NEW r \in Request, AllSelected(r), ~Missing(seen[r])
    PROVE  /\ req[r].page \in Page /\ req[r].pc = "missed"
           /\ req[r].op = "create" => req[r].page.kind = "detail"
           /\ req[r].page.kind = "detail" =>
                 /\ "hotel" \in DOMAIN seen[r] /\ seen[r]["hotel"] # None
                 /\ row[req[r].page.hotel] # None
<1>1. req[r].pc = "missed" /\ Holding(r) /\ DOMAIN seen[r] = Parts(req[r].page)
  BY Held DEF AllSelected, At
<1>2. req[r].page.kind = "detail" => "hotel" \in Parts(req[r].page)
  BY DEF Parts
<1>3. QED
  BY <1>1, <1>2 DEF Holding, Missing

LEMMA ContinueHolds ==
    ASSUME PhoneInv, StoresInv, RowsGrow, NEW r \in Request, Continue(r)
    PROVE  Holding(r)'
<1>0. req[r] \in RequestState /\ Sound(req[r]) /\ Holding(r) /\ DOMAIN seen = Request
  BY Held DEF StoresInv
<1>1. ASSUME NEW part \in {"hotel", "rooms", "publicHotel", "hotelName", "hotels"}, Select(r, part)
      PROVE  Holding(r)'
  <2>1. req' = req /\ row' = row /\ req[r].pc = "missed" /\ part \in Parts(req[r].page)
    BY <1>1 DEF Select, At
  <2>2. seen'[r] = [q \in DOMAIN seen[r] \cup {part} |->
                       IF q = part THEN Result(part, req[r].page.hotel) ELSE seen[r][q]]
    BY <1>0, <1>1 DEF Select
  <2>3. DOMAIN seen'[r] \subseteq Parts(req[r].page)
    BY <1>0, <2>1, <2>2 DEF Holding
  <2>4. "hotel" \in DOMAIN seen'[r] /\ seen'[r]["hotel"] # None => row[req[r].page.hotel] # None
    <3>1. CASE part = "hotel"
      BY <2>2, <3>1 DEF Result
    <3>2. CASE part # "hotel"
      BY <1>0, <2>1, <2>2, <3>2 DEF Holding
    <3>3. QED
      BY <3>1, <3>2
  <2>5. QED
    BY <1>0, <2>1, <2>3, <2>4 DEF Holding
<1>2. ASSUME NotFound(r) \/ Set(r), ~ \E part \in {"hotel", "rooms", "publicHotel", "hotelName", "hotels"} : Select(r, part)
      PROVE  Holding(r)'
  <2>1. DOMAIN seen'[r] = {} /\ row' = row
    BY <1>0, <1>2, NothingSeen DEF NotFound, Set, Forget
  <2>2. ASSUME Goto(r, "found"), AllSelected(r), ~Missing(seen[r]), req[r].op = "create" PROVE Holding(r)'
    <3>1. req'[r] = [req[r] EXCEPT !.pc = "found"]
      BY <2>1, <2>2 DEF Goto, PhoneInv
    <3>2. req'[r].pc = "found" /\ req'[r].page = req[r].page
      BY <1>0, <3>1 DEF RequestState
    <3>3. QED
      BY <2>1, <2>2, <3>2, Selected DEF Holding
  <2>3. QED
    BY <1>2, <2>1, <2>2, EndHolds DEF NotFound, Set, Ended
<1>3. ASSUME req[r].pc # "missed", seen' = seen PROVE DOMAIN seen'[r] = {}
  BY <1>0, <1>3 DEF Holding
<1>4. ASSUME CheckName(r) PROVE Holding(r)'
  <2>1. req[r].pc = "found" /\ seen' = seen /\ row' = row /\ (End(r, "rejected") \/ Goto(r, "toInsert"))
    BY <1>4 DEF CheckName, At
  <2>2. CASE Goto(r, "toInsert")
    <3>1. req'[r].pc = "toInsert" /\ req'[r].page = req[r].page
      BY <1>0, <2>2 DEF Goto, PhoneInv, RequestState
    <3>2. QED
      BY <1>0, <1>3, <2>1, <3>1 DEF Holding
  <2>3. QED
    BY <1>3, <2>1, <2>2, EndHolds DEF Ended
<1>5. ASSUME NEW t \in RoomType, InsertRoomType(r, t) PROVE Holding(r)'
  <2>1. t \in Item /\ DOMAIN seen'[r] = {} /\ Wrote(r, t)
    BY <1>3, <1>5, InsertGrows DEF InsertRoomType, Item
  <2>2. row'[t] # None
    BY <1>5, <2>1, InsertGrows, CatalogAssumption DEF PhoneInv
  <2>3. QED
    BY <2>1, <2>2, WroteHolds
<1>6. ASSUME NEW h \in Hotel, InsertHotel(r, h) PROVE Holding(r)'
  BY <1>3, <1>6, EndHolds DEF InsertHotel, At, Ended
<1>7. ASSUME ChangeOwned(r) PROVE Holding(r)'
  <2>1. /\ req[r].item \in Item /\ req[r].op \in {"update", "upload"}
        /\ req[r].label # None => req[r].op = "update"
        /\ DOMAIN seen'[r] = {} /\ row' = row
    BY <1>0, <1>3, <1>7 DEF ChangeOwned, At, Sound, Holding
  <2>2. QED
    BY <1>7, <2>1, ReadHolds DEF ChangeOwned
<1>8. ASSUME CheckLabel(r) PROVE Holding(r)'
  <2>1. req[r].pc = "toCheck" /\ seen' = seen /\ row' = row /\ (End(r, "rejected") \/ Goto(r, "toSave"))
    BY <1>8 DEF CheckLabel, At
  <2>2. CASE Goto(r, "toSave")
    <3>1. /\ req'[r].pc = "toSave" /\ req'[r].item = req[r].item /\ req'[r].op = req[r].op
          /\ req'[r].label = req[r].label /\ req'[r].entity = req[r].entity
      BY <1>0, <2>2 DEF Goto, PhoneInv, RequestState
    <3>2. QED
      BY <1>0, <1>3, <2>1, <3>1 DEF Holding
  <2>3. QED
    BY <1>3, <2>1, <2>2, EndHolds DEF Ended
<1>9. ASSUME Load(r) PROVE Holding(r)'
  <2>1. req[r].pc = "toSave" /\ seen' = seen /\ row' = row
        /\ req' = [req EXCEPT ![r] = [req[r] EXCEPT !.pc = "loaded", !.loaded = row[req[r].item]]]
    BY <1>9 DEF Load, At
  <2>2. /\ req'[r].pc = "loaded" /\ req'[r].item = req[r].item /\ req'[r].op = req[r].op
        /\ req'[r].label = req[r].label /\ req'[r].entity = req[r].entity
        /\ req'[r].loaded = row[req[r].item]
    BY <1>0, <2>1 DEF PhoneInv, RequestState
  <2>3. QED
    BY <1>0, <1>3, <2>1, <2>2 DEF Holding
<1>10. ASSUME Update(r) PROVE Holding(r)'
  <2>1. DOMAIN seen'[r] = {} /\ req[r].item \in Item /\ row[req[r].item] # None
    BY <1>0, <1>3, <1>10 DEF Update, At, Sound
  <2>2. End(r, "failed") \/ Wrote(r, req[r].item)
    BY <1>10 DEF Update
  <2>3. QED
    BY <2>1, <2>2, EndHolds, WroteHolds DEF Ended, RowsGrow
<1>11. ASSUME SoftDelete(r) PROVE Holding(r)'
  <2>1. DOMAIN seen'[r] = {} /\ req[r].item \in Item /\ row[req[r].item] # None /\ Wrote(r, req[r].item)
    BY <1>0, <1>3, <1>11 DEF SoftDelete, At, Sound
  <2>2. QED
    BY <2>1, WroteHolds DEF RowsGrow
<1>12. ASSUME Del(r) PROVE Holding(r)'
  BY <1>3, <1>12, EndHolds DEF Del, At, Ended
<1>13. ASSUME NEW h \in Hotel, NEW t \in RoomType, SeedHotel(r, h, t) PROVE Holding(r)'
  <2>1. DOMAIN seen'[r] = {} /\ req[r].pc = "seeding"
    BY <1>3, <1>13 DEF SeedHotel, At
  <2>2. CASE req' = [req EXCEPT ![r].next = @ + 1]
    <3>1. req'[r].pc = "seeding"
      BY <1>0, <2>1, <2>2 DEF PhoneInv, RequestState
    <3>2. QED
      BY <2>1, <3>1 DEF Holding
  <2>3. QED
    BY <1>13, <2>1, <2>2, EndHolds DEF SeedHotel, Ended
<1>14. ASSUME NEW h \in Hotel, NEW t \in RoomType, UpsertTestHotel(r, h, t) PROVE Holding(r)'
  BY <1>3, <1>14, EndHolds DEF UpsertTestHotel, At, Ended
<1>15. QED
  BY <1>1, <1>2, <1>4, <1>5, <1>6, <1>7, <1>8, <1>9, <1>10, <1>11, <1>12, <1>13, <1>14 DEF Continue

\* Pages: only those of a hotel that was found are stored.
LEMMA CacheMoves ==
    ASSUME PhoneInv, StoresInv, NEW r \in Request, Moves(r)
    PROVE  \/ cache' = cache
           \/ /\ Set(r) /\ AllSelected(r) /\ ~Missing(seen[r])
              /\ cache' = [cache EXCEPT ![req[r].page] = seen[r]]
           \/ Del(r) /\ cache' = [cache EXCEPT ![Invalidated(req[r].item)] = None]
BY DEF Moves, Start, GetPage, Get, CreateRoomType, CreateHotel, Change, AssignOwner, CheckOwner,
       CountHotels, FindTestHotel, Continue, Select, NotFound, Set, CheckName, ChangeOwned, CheckLabel,
       Load, Del, InsertRoomType, InsertHotel, Update, SoftDelete, SeedHotel, UpsertTestHotel, Fail

LEMMA StoresInit == Init => StoresInv
<1> SUFFICES ASSUME Init PROVE StoresInv
  OBVIOUS
<1>1. \A t \in RoomType : row[t] # None => row[t].of \in Hotel /\ row[row[t].of] # None
  BY DEF Init, Furnished, Item
<1>2. \A r \in Request : Holding(r)
  BY NothingSeen DEF Init, Idle, Holding
<1>3. <<>> = [part \in DOMAIN <<>> |-> <<>>[part]]
  OBVIOUS
<1>4. QED
  BY <1>1, <1>2, <1>3 DEF Init, StoresInv

LEMMA StoresMove ==
    ASSUME PhoneInv, StoresInv, NEW r \in Request, Moves(r)
    PROVE  StoresInv'
<1>1. /\ RowsGrow
      /\ \A t \in RoomType : row'[t] # None => row'[t].of \in Hotel /\ row'[row'[t].of] # None
  BY Grows
<1>2. ASSUME NEW s \in Request PROVE Holding(s)'
  <2>1. CASE s # r
    BY <1>1, <2>1, OneMoves, HoldingKept
  <2>2. CASE Fail(r) /\ s = r
    BY <2>2, NothingSeen, EndHolds DEF Fail, Forget, Ended, StoresInv
  <2>3. CASE ~Fail(r) /\ s = r
    BY <1>1, <2>3, StartHolds, ContinueHolds DEF Moves
  <2>4. QED
    BY <2>1, <2>2, <2>3
<1>3. DOMAIN seen' = Request /\ DOMAIN cache' = Page
  <2>1. DOMAIN seen' = Request
    BY SeenMoves DEF StoresInv, Forget, Select
  <2>2. QED
    BY <2>1, CacheMoves DEF StoresInv
<1>4. ASSUME NEW p \in Page, cache'[p] # None
      PROVE  ~Missing(cache'[p]) /\ (p.kind = "detail" => row'[p.hotel] # None)
  <2>1. ~Missing(cache'[p]) /\ (p.kind = "detail" => row[p.hotel] # None)
    <3>1. CASE cache'[p] = cache[p]
      BY <1>4, <3>1 DEF StoresInv
    <3>2. CASE cache'[p] # cache[p]
      <4>1. AllSelected(r) /\ ~Missing(seen[r]) /\ p = req[r].page /\ cache'[p] = seen[r]
        BY <1>4, <3>2, CacheMoves DEF StoresInv
      <4>2. QED
        BY <4>1, Selected
    <3>3. QED
      BY <3>1, <3>2
  <2>2. p.hotel \in Item
    BY DEF Page, Item
  <2>3. QED
    BY <1>1, <2>1, <2>2 DEF RowsGrow
<1>5. ASSUME NEW s \in Request PROVE seen'[s] = [part \in DOMAIN seen'[s] |-> seen'[s][part]]
  <2>1. CASE s # r
    BY <2>1, OneMoves DEF StoresInv
  <2>2. CASE seen' = seen
    BY <2>2 DEF StoresInv
  <2>3. CASE Forget(r) /\ s = r
    <3>1. seen'[s] = <<>>
      BY <2>3 DEF Forget, StoresInv
    <3>2. QED
      BY <3>1
  <2>4. ASSUME NEW part, Select(r, part), s = r PROVE seen'[s] = [q \in DOMAIN seen'[s] |-> seen'[s][q]]
    <3>1. seen'[s] = [q \in DOMAIN seen[s] \cup {part} |->
                         IF q = part THEN Result(part, req[r].page.hotel) ELSE seen[s][q]]
      BY <2>4 DEF Select, StoresInv
    <3>2. QED
      BY <3>1
  <2>5. QED
    BY <2>1, <2>2, <2>3, <2>4, SeenMoves
<1>6. QED
  BY <1>1, <1>2, <1>3, <1>4, <1>5 DEF StoresInv

LEMMA StoresNext == PhoneInv /\ StoresInv /\ [Next]_vars => StoresInv'
<1> SUFFICES ASSUME PhoneInv, StoresInv, [Next]_vars PROVE StoresInv'
  OBVIOUS
<1>1. ASSUME row' = row, req' = req, seen' = seen, DOMAIN cache' = Page,
             \A p \in Page : cache'[p] \in {None, cache[p]}
      PROVE  StoresInv'
  <2>1. \A r \in Request : Holding(r)'
    BY <1>1 DEF StoresInv, Holding
  <2>2. \A p \in Page : cache'[p] # None => cache'[p] = cache[p]
    BY <1>1
  <2>3. QED
    BY <1>1, <2>1, <2>2 DEF StoresInv
<1>2. ASSUME NEW p \in Page, Expire(p) PROVE StoresInv'
  BY <1>1, <1>2 DEF Expire, StoresInv
<1>3. CASE AllDone \/ UNCHANGED vars
  BY <1>1, <1>3 DEF AllDone, vars, StoresInv
<1>4. QED
  BY <1>2, <1>3, StoresMove DEF Next, Moves

-----------------------------------------------------------------------------
(* What a request knows that was not overtaken *)

LEMMA NotOvertaken ==
    ASSUME History, NEW s \in Request, s \notin overtaken'
    PROVE  \/ req'[s].pc \in Ended
           \/ /\ s \notin overtaken /\ ~Misled(s)
              /\ req'[s] = req[s] => \A i \in Written : ~Relies(s, i)
BY DEF History

LEMMA EndedKnowsNothing ==
    ASSUME NEW s \in Request, req[s].pc \in Ended \cup {"idle", "saved", "toDelete"}
    PROVE  Current(s)
BY DEF Current, Ended

\* Nothing that s relies on was written.
LEMMA CurrentKept ==
    ASSUME PhoneInv, PhoneInv', StoresInv, RowsGrow, NEW s \in Request, req'[s] = req[s], seen'[s] = seen[s],
           \A i \in Written : ~Relies(s, i), Current(s)
    PROVE  Current(s)'
<1> USE CatalogAssumption
<1>1. req[s] \in RequestState /\ Sound(req[s]) /\ Holding(s)
  BY Held
<1>2. \A i \in Item : i \notin Written => row'[i] = row[i]
  BY DEF Written
<1>3. Hotel \subseteq Item /\ RoomType \subseteq Item /\ \A t \in RoomType : t \notin Hotel
  BY DEF Item
<1>4. CASE req[s].pc = "missed"
  <2>1. ASSUME NEW part \in DOMAIN seen[s]
        PROVE  Result(part, req[s].page.hotel)' = Result(part, req[s].page.hotel)
    <3>1. CASE Written = {}
      <4>1. row' = row
        BY <1>2, <3>1 DEF PhoneInv
      <4>2. QED
        BY <4>1 DEF Result, Live, RoomTypesOf
    <3>2. CASE Written # {}
      <4>1. Rendered(req[s].page)' = Rendered(req[s].page)
        BY <1>4, <2>1, <3>2 DEF Relies, At
      <4>2. part \in Parts(req[s].page)
        BY <1>1, <1>4, <2>1 DEF Holding
      <4>3. Rendered(req[s].page)[part] = Result(part, req[s].page.hotel)
        BY <4>2 DEF Rendered
      <4>4. Rendered(req[s].page)'[part] = Result(part, req[s].page.hotel)'
        BY <4>2 DEF Rendered, Parts
      <4>5. QED
        BY <4>1, <4>3, <4>4
    <3>3. QED
      BY <3>1, <3>2
  <2>2. QED
    BY <1>4, <2>1 DEF Current
<1>5. CASE req[s].pc \in {"owned", "toCheck", "toSave", "loaded"}
  <2>1. req[s].item \in Item /\ req[s].item \notin Written
    BY <1>1, <1>5 DEF Sound, Relies
  <2>2. row'[req[s].item] = row[req[s].item]
    BY <1>2, <2>1
  <2>3. ASSUME req[s].pc \in {"toSave", "loaded"}, req[s].label # None, req[s].item \in RoomType,
               NameTaken(req[s].label, row[req[s].item].of)'
        PROVE  NameTaken(req[s].label, row[req[s].item].of)
    <3>1. PICK t \in RoomType : /\ row'[t] # None /\ ~row'[t].deleted /\ row'[t].of = row[req[s].item].of
                                /\ Lower[row'[t].label] = Lower[req[s].label]
      BY <2>2, <2>3 DEF NameTaken, RoomTypesOf, Live
    <3>2. t \in Siblings(req[s].item)'
      BY <1>3, <2>2, <2>3, <3>1 DEF Siblings
    <3>3. row'[t] = row[t]
      BY <1>2, <1>3, <2>3, <3>1, <3>2 DEF Relies
    <3>4. QED
      BY <3>1, <3>3 DEF NameTaken, RoomTypesOf, Live
  <2>4. QED
    BY <1>5, <2>2, <2>3 DEF Current, Live
<1>6. CASE req[s].pc \in {"found", "toInsert"}
  <2>1. CASE req[s].page = None
    BY <1>6, <2>1 DEF Current
  <2>2. CASE req[s].page # None
    <3>1. req[s].page.hotel \in Hotel
      BY <1>1, <2>2 DEF RequestState, Page
    <3>2. row'[req[s].page.hotel] = row[req[s].page.hotel]
      BY <1>2, <1>3, <1>6, <2>2, <3>1 DEF Relies
    <3>3. ASSUME NameTaken(req[s].label, req[s].page.hotel)'
          PROVE  NameTaken(req[s].label, req[s].page.hotel)
      <4>1. PICK t \in RoomType : /\ row'[t] # None /\ ~row'[t].deleted /\ row'[t].of = req[s].page.hotel
                                  /\ Lower[row'[t].label] = Lower[req[s].label]
        BY <3>3 DEF NameTaken, RoomTypesOf, Live
      <4>2. row'[t] = row[t]
        BY <1>2, <1>3, <1>6, <2>2, <4>1 DEF Relies
      <4>3. QED
        BY <4>1, <4>2 DEF NameTaken, RoomTypesOf, Live
    <3>4. QED
      BY <1>6, <3>2, <3>3 DEF Current, Live
  <2>3. QED
    BY <2>1, <2>2
<1>7. CASE req[s].pc = "seeding"
  <2>1. \A h \in Hotel : row'[h] = row[h]
    BY <1>2, <1>3, <1>7 DEF Relies, At
  <2>2. QED
    BY <1>7, <2>1 DEF Current, Live
<1>8. CASE req[s].pc = "upserting"
  <2>1. \A i \in Written : i \notin Hotel /\ row'[i].of # req[s].item
    BY <1>8 DEF Relies, At
  <2>2. req[s].item # None => row'[req[s].item] = row[req[s].item]
    BY <1>1, <1>2, <1>3, <1>8, <2>1 DEF Sound
  <2>3. ASSUME NEW t \in RoomType, row'[t] # None, row'[t].of = req[s].item
        PROVE  row'[t] = row[t]
    BY <1>2, <1>3, <2>1, <2>3
  <2>4. QED
    BY <1>8, <2>2, <2>3 DEF Current
<1>9. CASE req[s].pc \in Ended \cup {"idle", "saved", "toDelete"}
  BY <1>9 DEF Current, Ended
<1>10. QED
  BY <1>1, <1>4, <1>5, <1>6, <1>7, <1>8, <1>9 DEF RequestState, PC, Ended

LEMMA CurrentInit == Init => CurrentInv
BY DEF Init, Idle, Current, CurrentInv

\* A row read and edited.
LEMMA ReadKnows ==
    ASSUME PhoneInv, NEW r \in Request, row' = row,
           NEW i \in Item, NEW op, NEW l, l # None => op = "update",
           NEW o, o # None /\ op # "assign" => row[i].of = o, Read(r, i, op, l, o)
    PROVE  Current(r)'
<1>1. CASE Live(i)
  <2> DEFINE e == Edited(row[i], r, op, l, o)
             pc == IF op = "remove" THEN "toDelete"
                   ELSE IF MustCheck(row[i], op, l) THEN "toCheck" ELSE "toSave"
             q == [Idle EXCEPT !.op = op, !.item = i, !.label = l, !.by = o, !.entity = e, !.pc = pc]
  <2>1. q.op = op /\ q.item = i /\ q.label = l /\ q.by = o /\ q.entity = e /\ q.pc = pc
    BY DEF Idle
  <2>2. req' = [req EXCEPT ![r] = q]
    BY <1>1 DEF Read
  <2>3. /\ pc \in {"toDelete", "toCheck", "toSave"}
        /\ pc = "toSave" /\ l # None => l = row[i].label
    BY DEF MustCheck
  <2>4. e = Edited(row[i], r, op, l, o)
    OBVIOUS
  <2> HIDE DEF q, pc, e
  <2>5. req'[r] = q
    BY <2>2 DEF PhoneInv
  <2>6. row'[i] = row[i] /\ Live(i)' /\ e = Edited(row[i], r, op, l, o)'
    BY <1>1, <2>4 DEF Live, Edited
  <2>7. QED
    BY <2>1, <2>3, <2>5, <2>6 DEF Current, Edited
<1>2. CASE ~Live(i)
  <2>1. req'[r].pc = "rejected"
    BY <1>2 DEF Read, End, Idle, PhoneInv
  <2>2. QED
    BY <2>1 DEF Current
<1>3. QED
  BY <1>1, <1>2

LEMMA StartKnows ==
    ASSUME PhoneInv, StoresInv, NEW r \in Request, Start(r), ~Misled(r)
    PROVE  Current(r)'
<1>0. req \in [Request -> RequestState] /\ Holding(r)
  BY Held DEF PhoneInv
<1>1. ASSUME NEW p \in Page, NEW fields \in RequestState, NEW after \in {"done", "found"},
             Get(r, p, fields, after), after = "found" => p.kind = "detail"
      PROVE  Current(r)'
  <2>1. req'[r].pc \in {"done", "missed"} \/ (req'[r].pc = "found" /\ after = "found")
    BY <1>0, <1>1 DEF Get, End, Idle, RequestState
  <2>2. CASE req'[r].pc = "done"
    BY <2>2 DEF Current
  <2>3. CASE req'[r].pc = "missed"
    <3>1. DOMAIN seen'[r] = {}
      BY <1>0, <1>1 DEF Get, At, Holding
    <3>2. QED
      BY <2>3, <3>1 DEF Current
  <2>4. CASE req'[r].pc = "found" /\ after = "found"
    <3>1. cache[p] # None /\ req'[r].page = p /\ row' = row /\ At(r, "idle")
      BY <1>0, <1>1, <2>4 DEF Get, End, Idle, RequestState
    <3>2. cache[p] = Rendered(p) /\ ~Missing(cache[p]) /\ p.kind = "detail"
      BY <1>1, <2>4, <3>1 DEF Misled, StoresInv
    <3>3. Result("hotel", p.hotel) # None
      BY <3>2 DEF Rendered, Missing, Parts
    <3>4. Live(p.hotel)
      BY <3>3 DEF Result
    <3>5. QED
      BY <2>4, <3>1, <3>4 DEF Current, Live
  <2>5. QED
    BY <2>1, <2>2, <2>3, <2>4
<1>2. ASSUME NEW p \in Page, GetPage(r, p) PROVE Current(r)'
  BY <1>1, <1>2, IdleType DEF GetPage
<1>3. ASSUME NEW h \in Hotel, NEW l \in Label, CreateRoomType(r, h, l) PROVE Current(r)'
  <2>1. [Idle EXCEPT !.op = "create", !.label = l] \in RequestState
    BY IdleType DEF RequestState, Op
  <2>2. Detail(h) \in Page /\ Detail(h).kind = "detail"
    BY DEF Detail, Page
  <2>3. QED
    BY <1>1, <1>3, <2>1, <2>2 DEF CreateRoomType
<1>4. ASSUME NEW l \in Label, CreateHotel(r, l) PROVE Current(r)'
  <2>1. req'[r].pc = "rejected" \/ (req'[r].pc = "toInsert" /\ req'[r].page = None)
    BY <1>0, <1>4 DEF CreateHotel, End, Idle
  <2>2. QED
    BY <2>1 DEF Current
<1>5. ASSUME NEW i \in Item, NEW l \in Label \cup {None},
             NEW op \in {"update", "upload", "remove"}, Change(r, i, op, l)
      PROVE  Current(r)'
  <2>1. row' = row /\ Read(r, i, op, l, None) /\ (l # None => op = "update")
    BY <1>5 DEF Change
  <2>2. QED
    BY <2>1, ReadKnows
<1>6. ASSUME NEW h \in Hotel, NEW o \in Owner, AssignOwner(r, h, o) PROVE Current(r)'
  <2>1. row' = row /\ Read(r, h, "assign", None, o) /\ h \in Item
    BY <1>6 DEF AssignOwner, Item
  <2>2. QED
    BY <2>1, ReadKnows
<1>7. ASSUME NEW h \in Hotel, NEW o \in Owner, NEW l \in Label \cup {None},
             NEW op \in {"update", "upload"}, CheckOwner(r, h, op, l, o)
      PROVE  Current(r)'
  <2>1. \/ req'[r].pc = "rejected"
        \/ /\ req'[r].pc = "owned" /\ req'[r].item = h /\ req'[r].by = o
           /\ row'[h] = row[h] /\ OwnedBy(row[h], o)
    BY <1>0, <1>7 DEF CheckOwner, End, Idle
  <2>2. QED
    BY <2>1 DEF Current, OwnedBy
<1>8. ASSUME CountHotels(r) PROVE Current(r)'
  <2>1. \/ req'[r].pc = "done"
        \/ req'[r].pc = "seeding" /\ row' = row /\ \A h \in Hotel : ~Live(h)
    BY <1>0, <1>8 DEF CountHotels, End, Idle
  <2>2. QED
    BY <2>1 DEF Current, Live
<1>9. ASSUME FindTestHotel(r) PROVE Current(r)'
  <2>1. CASE req' = [req EXCEPT ![r] = [Idle EXCEPT !.pc = "upserting", !.op = "seed"]]
    <3>1. req'[r].pc = "upserting" /\ req'[r].item = None
      BY <1>0, <2>1 DEF Idle
    <3>2. QED
      BY <3>1 DEF Current
  <2>2. ASSUME NEW h \in Hotel, NEW t \in RoomType \cup {None},
               t = None => \A u \in RoomType : row[u] # None /\ row[u].of = h =>
                              Lower[row[u].label] # Lower[TestHotel.name],
               req' = [req EXCEPT ![r] =
                   [Idle EXCEPT !.pc = "upserting", !.op = "seed", !.item = h, !.loaded = row[h],
                                !.room = t, !.roomLoaded = IF t = None THEN None ELSE row[t]]]
        PROVE  Current(r)'
    <3>1. req'[r].pc = "upserting" /\ req'[r].item = h /\ req'[r].loaded = row[h] /\ req'[r].room = t
      BY <1>0, <2>2 DEF Idle
    <3>2. row' = row
      BY <1>9 DEF FindTestHotel
    <3>3. QED
      BY <2>2, <3>1, <3>2 DEF Current
  <2>3. None \notin RoomType
    BY CatalogAssumption DEF Item
  <2>4. QED
    BY <1>9, <2>1, <2>2, <2>3 DEF FindTestHotel
<1>10. QED
  BY <1>2, <1>3, <1>4, <1>5, <1>6, <1>7, <1>8, <1>9 DEF Start

LEMMA ContinueKnows ==
    ASSUME PhoneInv, StoresInv, NEW r \in Request, Continue(r), Current(r), r \notin overtaken
    PROVE  Current(r)'
<1>0. /\ req \in [Request -> RequestState] /\ req[r] \in RequestState
      /\ Sound(req[r]) /\ Holding(r) /\ DOMAIN seen = Request
  BY Held DEF PhoneInv, StoresInv
<1>1. ASSUME NEW part \in {"hotel", "rooms", "publicHotel", "hotelName", "hotels"}, Select(r, part)
      PROVE  Current(r)'
  <2>1. req' = req /\ row' = row /\ req[r].pc = "missed"
    BY <1>1 DEF Select, At
  <2>2. seen'[r] = [q \in DOMAIN seen[r] \cup {part} |->
                       IF q = part THEN Result(part, req[r].page.hotel) ELSE seen[r][q]]
    BY <1>0, <1>1 DEF Select
  <2>3. ASSUME NEW q \in DOMAIN seen'[r]
        PROVE  seen'[r][q] = Result(q, req[r].page.hotel)
    BY <2>1, <2>2, <2>3 DEF Current
  <2>4. \A q : Result(q, req[r].page.hotel)' = Result(q, req[r].page.hotel)
    BY <2>1 DEF Result, Live, RoomTypesOf
  <2>5. QED
    BY <2>1, <2>3, <2>4 DEF Current
<1>2. ASSUME NotFound(r) \/ Set(r) PROVE Current(r)'
  <2>1. CASE Set(r) /\ req[r].op = "create"
    <3>1. AllSelected(r) /\ ~Missing(seen[r]) /\ row' = row /\ Goto(r, "found")
      BY <2>1 DEF Set
    <3>2. /\ req[r].pc = "missed" /\ req[r].page.kind = "detail"
          /\ "hotel" \in DOMAIN seen[r] /\ seen[r]["hotel"] # None
      BY <2>1, <3>1, Selected
    <3>3. Result("hotel", req[r].page.hotel) # None
      BY <3>2 DEF Current
    <3>4. Live(req[r].page.hotel)
      BY <3>3 DEF Result
    <3>5. req'[r].pc = "found" /\ req'[r].page = req[r].page
      BY <1>0, <3>1 DEF Goto, RequestState
    <3>6. QED
      BY <3>1, <3>4, <3>5 DEF Current, Live
  <2>2. CASE NotFound(r) \/ req[r].op # "create"
    <3>1. req'[r].pc \in {"done", "rejected"}
      BY <1>0, <1>2, <2>2 DEF NotFound, Set, End, Idle
    <3>2. QED
      BY <3>1 DEF Current
  <2>3. QED
    BY <1>2, <2>1, <2>2
<1>3. ASSUME CheckName(r) PROVE Current(r)'
  <2>1. req[r].pc = "found" /\ row' = row
    BY <1>3 DEF CheckName, At
  <2>2. \/ req'[r].pc = "rejected"
        \/ /\ req'[r].pc = "toInsert" /\ req'[r].page = req[r].page /\ req'[r].label = req[r].label
           /\ ~NameTaken(req[r].label, req[r].page.hotel)
    BY <1>0, <1>3 DEF CheckName, End, Goto, Idle, RequestState
  <2>3. QED
    BY <2>1, <2>2 DEF Current, Live, NameTaken, RoomTypesOf
<1>4. ASSUME ChangeOwned(r) PROVE Current(r)'
  <2>1. /\ req[r].item \in Item /\ (req[r].label # None => req[r].op = "update")
        /\ row' = row /\ row[req[r].item].of = req[r].by
    BY <1>0, <1>4 DEF ChangeOwned, At, Sound, Holding, Current
  <2>2. QED
    BY <1>4, <2>1, ReadKnows DEF ChangeOwned
<1>5. ASSUME CheckLabel(r) PROVE Current(r)'
  <2>1. req[r].pc = "toCheck" /\ row' = row
    BY <1>5 DEF CheckLabel, At
  <2>2. \/ req'[r].pc = "rejected"
        \/ /\ req'[r].pc = "toSave" /\ req'[r].item = req[r].item /\ req'[r].op = req[r].op
           /\ req'[r].label = req[r].label /\ req'[r].entity = req[r].entity /\ req'[r].by = req[r].by
           /\ ~Taken(req[r].label, req[r].item)
    BY <1>0, <1>5 DEF CheckLabel, End, Goto, Idle, RequestState
  <2>3. req[r].item \in RoomType => req[r].item \notin Hotel
    BY CatalogAssumption
  <2>4. CASE req'[r].pc = "rejected"
    BY <2>4 DEF Current
  <2>5. CASE req'[r].pc = "toSave"
    <3>0. PICK q \in RequestState : q = req[r]
      BY <1>0
    <3>1. /\ Live(q.item) /\ q.entity = Edited(row[q.item], r, q.op, q.label, q.by)
          /\ q.by # None /\ q.op # "assign" => row[q.item].of = q.by
      BY <2>1, <3>0 DEF Current
    <3>2. q.item \in RoomType => ~NameTaken(q.label, row[q.item].of)
      BY <2>2, <2>3, <2>5, <3>0 DEF Taken
    <3>3. PICK h : h = row[q.item].of
      OBVIOUS
    <3>4. Live(q.item)' /\ (q.item \in RoomType => ~NameTaken(q.label, h)')
      BY <2>1, <3>1, <3>2, <3>3 DEF NameTaken, RoomTypesOf, Live
    <3>5. q.item \in RoomType /\ req'[r].label = q.label /\ row'[q.item].of = h =>
             ~NameTaken(req[r].label, row[q.item].of)'
      BY <3>4
    <3>6. /\ req'[r].pc = "toSave" /\ req'[r].item = q.item /\ req'[r].op = q.op
          /\ req'[r].label = q.label /\ req'[r].entity = q.entity /\ req'[r].by = q.by
      BY <2>2, <2>5, <3>0
    <3>7. row' = row
      BY <2>1
    <3>8. QED
      BY <3>1, <3>3, <3>4, <3>5, <3>6, <3>7 DEF Current, Edited
  <2>6. QED
    BY <2>2, <2>4, <2>5
<1>6. ASSUME Load(r) PROVE Current(r)'
  <2>1. req[r].pc = "toSave" /\ row' = row
    BY <1>6 DEF Load, At
  <2>2. /\ req'[r].pc = "loaded" /\ req'[r].item = req[r].item /\ req'[r].op = req[r].op
        /\ req'[r].label = req[r].label /\ req'[r].entity = req[r].entity /\ req'[r].by = req[r].by
        /\ req'[r].loaded = row[req[r].item]
    BY <1>0, <1>6 DEF Load, RequestState
  <2>3. QED
    BY <2>1, <2>2 DEF Current, Live, NameTaken, RoomTypesOf, Edited
<1>7. ASSUME \/ \E t \in RoomType : InsertRoomType(r, t)
             \/ \E h \in Hotel : InsertHotel(r, h)
             \/ Update(r) \/ SoftDelete(r) \/ Del(r)
             \/ \E h \in Hotel, t \in RoomType : UpsertTestHotel(r, h, t)
      PROVE  Current(r)'
  <2>1. req'[r].pc \in {"saved", "done", "failed"}
    BY <1>0, <1>7 DEF InsertRoomType, InsertHotel, Update, SoftDelete, Del, UpsertTestHotel, Wrote, End, Idle
  <2>2. QED
    BY <2>1 DEF Current
<1>8. ASSUME NEW h \in Hotel, NEW t \in RoomType, SeedHotel(r, h, t) PROVE Current(r)'
  <2>1. req[r].pc = "seeding" /\ CatalogAssumption
    BY <1>8, CatalogAssumption DEF SeedHotel, At
  <2>2. CASE End(r, "failed") \/ End(r, "done")
    <3>1. req'[r].pc \in {"done", "failed"}
      BY <1>0, <2>2 DEF End, Idle
    <3>2. QED
      BY <3>1 DEF Current
  <2>3. CASE ~End(r, "failed") /\ req' = [req EXCEPT ![r].next = @ + 1]
    <3> DEFINE n == req[r].next
    <3>1. req'[r].pc = "seeding" /\ req'[r].next = n + 1 /\ n \in 1 .. Len(SeedHotels)
      BY <1>0, <1>8, <2>1, <2>3, SeedGrows DEF RequestState
    <3>2. \A g \in Hotel : g # h => row'[g] = row[g]
      BY <1>8, <2>1, <2>3, SeedGrows DEF PhoneInv, Item
    <3>3. row'[h] = NewRow(r, SeedHotels[n].phone, None)
      BY <1>8, <2>1, <2>3, SeedGrows DEF PhoneInv, Item
    <3>4. row'[h].label = SeedHotels[n].phone
      BY <3>3 DEF NewRow
    <3>5. n \in 1 .. n /\ 1 .. n - 1 \subseteq 1 .. n /\ n \in Nat /\ n + 1 - 1 = n
      BY <2>1, <3>1
    <3>6. ASSUME NEW g \in Hotel, Live(g)'
          PROVE  \E m \in 1 .. n : row'[g].label = SeedHotels[m].phone
      <4>1. CASE g = h
        BY <3>4, <3>5, <4>1
      <4>2. CASE g # h
        <5>1. Live(g) /\ row'[g].label = row[g].label
          BY <3>2, <3>6, <4>2 DEF Live
        <5>2. \E m \in 1 .. n - 1 : row[g].label = SeedHotels[m].phone
          BY <2>1, <5>1 DEF Current
        <5>3. QED
          BY <3>5, <5>1, <5>2
      <4>3. QED
        BY <4>1, <4>2
    <3> HIDE DEF n
    <3>7. QED
      BY <3>1, <3>5, <3>6 DEF Current
  <2>4. QED
    BY <1>8, <2>2, <2>3 DEF SeedHotel
<1>9. QED
  BY <1>1, <1>2, <1>3, <1>4, <1>5, <1>6, <1>7, <1>8 DEF Continue

LEMMA CurrentNext ==
    ASSUME PhoneInv, PhoneInv', StoresInv, CurrentInv, [Next]_vars
    PROVE  CurrentInv'
<1> SUFFICES ASSUME NEW s \in Request, s \notin overtaken' PROVE Current(s)'
  BY DEF CurrentInv
<1>1. ASSUME row' = row, req' = req, seen' = seen, History \/ overtaken' = overtaken
      PROVE  Current(s)'
  <2>1. CASE s \notin overtaken
    <3>1. Current(s)
      BY <2>1 DEF CurrentInv
    <3>2. \A part, h : Result(part, h)' = Result(part, h)
      BY <1>1 DEF Result, Live, RoomTypesOf
    <3>3. QED
      BY <1>1, <3>1, <3>2 DEF Current, Live, NameTaken, RoomTypesOf, Edited
  <2>2. CASE s \in overtaken
    <3>1. req'[s].pc \in Ended
      BY <1>1, <2>2, NotOvertaken
    <3>2. QED
      BY <3>1 DEF Current, Ended
  <2>3. QED
    BY <2>1, <2>2
<1>2. ASSUME NEW r \in Request, Moves(r), History PROVE Current(s)'
  <2>1. CASE req'[s].pc \in Ended
    BY <2>1 DEF Current, Ended
  <2>2. CASE req'[s].pc \notin Ended
    <3>1. /\ s \notin overtaken /\ ~Misled(s)
          /\ req'[s] = req[s] => \A i \in Written : ~Relies(s, i)
      BY <1>2, <2>2, NotOvertaken
    <3>2. Current(s)
      BY <3>1 DEF CurrentInv
    <3>3. CASE s # r
      <4>1. req'[s] = req[s] /\ seen'[s] = seen[s] /\ RowsGrow
        BY <1>2, <3>3, OneMoves, Grows
      <4>2. QED
        BY <3>1, <3>2, <4>1, CurrentKept
    <3>4. CASE s = r
      <4>1. CASE Start(r)
        BY <3>1, <3>4, <4>1, StartKnows
      <4>2. CASE Continue(r)
        BY <3>1, <3>2, <3>4, <4>2, ContinueKnows
      <4>3. CASE Fail(r)
        <5>1. req'[r].pc = "failed"
          BY <4>3 DEF Fail, End, Idle, PhoneInv
        <5>2. QED
          BY <2>2, <3>4, <5>1 DEF Ended
      <4>4. QED
        BY <1>2, <4>1, <4>2, <4>3 DEF Moves
    <3>5. QED
      BY <3>3, <3>4
  <2>3. QED
    BY <2>1, <2>2
<1>3. ASSUME NEW p \in Page, Expire(p), History PROVE Current(s)'
  BY <1>1, <1>3 DEF Expire
<1>4. CASE UNCHANGED vars \/ (AllDone /\ History)
  BY <1>1, <1>4 DEF AllDone, vars
<1>5. QED
  BY <1>2, <1>3, <1>4 DEF Next, Moves

LEMMA CatalogInvariance == Spec => [](PhoneInv /\ CatalogInv)
<1>1. Init => PhoneInv /\ CatalogInv
  BY PhoneInit, StoresInit, CurrentInit DEF CatalogInv
<1>2. PhoneInv /\ CatalogInv /\ [Next]_vars => PhoneInv' /\ CatalogInv'
  BY PhoneNext, StoresNext, CurrentNext DEF CatalogInv
<1>3. QED
  BY <1>1, <1>2, PTL DEF Spec

\* hotel.seed, of which every process that starts runs one, is not stopped by a hotel that
\* is there, its own from a moment ago included, as long as no other request or run changes
\* a hotel: its hotels have phones of their own, and it begins when none is there.  A removed
\* hotel, which it does not count, may have the phone and stop it.
THEOREM SeedsStopAtRemovedHotels == Spec => []OnlyRemovedHotelsStopASeed
<1>1. PhoneInv /\ CatalogInv => OnlyRemovedHotelsStopASeed
  <2> SUFFICES ASSUME PhoneInv, CatalogInv, NEW r \in Request \ overtaken, At(r, "seeding"),
                      NEW h \in Hotel, Live(h), row[h].label = SeedHotels[req[r].next].phone
               PROVE  FALSE
    BY DEF OnlyRemovedHotelsStopASeed
  <2>1. req[r].pc = "seeding" /\ req[r] \in RequestState /\ Sound(req[r]) /\ Current(r)
    BY Held DEF At, CatalogInv, CurrentInv
  <2>2. req[r].next \in 1 .. Len(SeedHotels) /\ Len(SeedHotels) \in Nat
    BY <2>1, CatalogAssumption DEF Sound, RequestState
  <2>3. PICK n \in 1 .. req[r].next - 1 : row[h].label = SeedHotels[n].phone
    BY <2>1 DEF Current
  <2>4. n \in 1 .. Len(SeedHotels) /\ n # req[r].next
    BY <2>2, <2>3
  <2>5. QED
    BY <2>2, <2>3, <2>4, CatalogAssumption
<1>2. QED
  BY <1>1, CatalogInvariance, PTL

-----------------------------------------------------------------------------
(* What goes wrong has a cause *)

\* A request that writes has not been overtaken and knows what it does, or does it late.
LEMMA WriterKnows ==
    ASSUME PhoneInv, StoresInv, CurrentInv, row' # row, NEW r \in Request,
           \/ \E t \in RoomType : InsertRoomType(r, t)
           \/ Update(r)
           \/ \E h \in Hotel, t \in RoomType : UpsertTestHotel(r, h, t)
    PROVE  /\ req'[r] # req[r]
           /\ Current(r) \/ Late
<1>1. req[r].pc \in {"toInsert", "loaded", "upserting"}
  BY DEF InsertRoomType, Update, UpsertTestHotel, At
<1>2. (\E i : Wrote(r, i)) \/ End(r, "done") \/ End(r, "failed")
  BY DEF InsertRoomType, Update, UpsertTestHotel
<1>3. req'[r].pc \in {"saved", "done", "failed"}
  BY <1>2 DEF PhoneInv, Wrote, End, Idle
<1>4. req'[r] # req[r]
  BY <1>1, <1>3
<1>5. QED
  BY <1>4 DEF CurrentInv, Late

\* An entity read from the row that is there is saved as it is.
LEMMA SavedUndisturbed ==
    ASSUME NEW old \in Row, NEW e \in Row
    PROVE  Saved(old, old, e) = e
BY DEF Saved, Row

LEMMA UpdateKnows ==
    ASSUME PhoneInv, StoresInv, NEW r \in Request, Update(r), row' # row, Current(r)
    PROVE  \E i \in Item, old \in Row, new \in Row :
              /\ i = req[r].item /\ old = row[i] /\ Live(i)
              /\ new = Edited(old, r, req[r].op, req[r].label, req[r].by)
              /\ row' = [row EXCEPT ![i] = new]
<1> DEFINE q == req[r]
           i == q.item
<1>1. q.pc = "loaded" /\ q \in RequestState /\ Sound(q)
  BY Held DEF Update, At
<1>2. i \in Item /\ row[i] \in Row /\ q.entity \in Row
  BY <1>1 DEF Sound, RequestState, PhoneInv
<1>3. q.loaded = row[i] /\ Live(i) /\ q.entity = Edited(row[i], r, q.op, q.label, q.by)
  BY <1>1 DEF Current
<1>4. Sent(q) = q.entity
  <2>1. q.op = "update" /\ q.label = None => q.entity.label = row[i].label
    BY <1>2, <1>3 DEF Edited, Row
  <2>2. q.op = "update" /\ q.label = None => [q.entity EXCEPT !.label = row[i].label] = q.entity
    BY <1>2, <2>1 DEF Row
  <2>3. QED
    BY <1>3, <2>2 DEF Sent
<1>5. row' = [row EXCEPT ![i] = Saved(row[i], row[i], q.entity)]
  BY <1>3, <1>4, UpdateGrows
<1>6. row' = [row EXCEPT ![i] = q.entity]
  BY <1>2, <1>5, SavedUndisturbed
<1>7. QED
  BY <1>2, <1>3, <1>6

(* Names *)

\* One room type at most is written: if that gives it its name or brings it back, it has a
\* cause to be second, or no other in its hotel has the name.
LEMMA NoSecondName ==
    ASSUME DuplicateNameHasACause, History, RowsGrow, NEW t \in RoomType,
           \A u \in RoomType \ {t} : row'[u] = row[u],
           Enters(t) => \/ t \in doubtful'
                        \/ \A u \in RoomType \ {t} :
                              Live(u) /\ row[u].of = row'[t].of => Lower[row[u].label] # Lower[row'[t].label]
    PROVE  DuplicateNameHasACause'
<1>1. ASSUME NEW u \in RoomType, ~Enters(u), Live(u)', u \notin doubtful'
      PROVE  u \notin doubtful /\ Live(u) /\ row'[u].label = row[u].label /\ row'[u].of = row[u].of
  BY <1>1 DEF History, Enters, Live, RowsGrow
<1>2. ASSUME NEW u \in RoomType \ {t}, Live(t)', Live(u)', t \notin doubtful', u \notin doubtful',
             row'[t].of = row'[u].of, Lower[row'[t].label] = Lower[row'[u].label]
      PROVE  FALSE
  <2>1. ~Enters(u) /\ row'[u] = row[u] /\ Live(u)
    BY <1>2 DEF Enters, Live
  <2>2. u \notin doubtful
    BY <1>1, <1>2, <2>1
  <2>3. CASE Enters(t)
    BY <1>2, <2>1, <2>3
  <2>4. CASE ~Enters(t)
    <3>1. t \notin doubtful /\ Live(t) /\ row'[t].label = row[t].label /\ row'[t].of = row[t].of
      BY <1>1, <1>2, <2>4
    <3>2. QED
      BY <1>2, <2>1, <2>2, <3>1 DEF DuplicateNameHasACause
  <2>5. QED
    BY <2>3, <2>4
<1>3. ASSUME NEW u \in RoomType \ {t}, NEW v \in RoomType \ {t}, Live(u)', Live(v)',
             u \notin doubtful', v \notin doubtful', row'[u].of = row'[v].of,
             Lower[row'[u].label] = Lower[row'[v].label]
      PROVE  u = v
  <2>1. ~Enters(u) /\ ~Enters(v)
    BY <1>3 DEF Enters, Live
  <2>2. u \notin doubtful /\ v \notin doubtful /\ Live(u) /\ Live(v)
    BY <1>1, <1>3, <2>1
  <2>3. row'[u] = row[u] /\ row'[v] = row[v]
    OBVIOUS
  <2>4. QED
    BY <1>3, <2>2, <2>3 DEF DuplicateNameHasACause
<1>4. QED
  BY <1>2, <1>3 DEF DuplicateNameHasACause

\* No room type is written, or given its name, or brought back.
LEMMA SameNames ==
    ASSUME DuplicateNameHasACause, History, RowsGrow,
           \A t \in RoomType : row'[t] = row[t] \/ (row'[t] # None /\ row'[t].deleted)
    PROVE  DuplicateNameHasACause'
<1>1. \A u \in RoomType : Live(u)' => Live(u) /\ row'[u] = row[u] /\ ~Enters(u)
  BY DEF Live, Enters
<1>2. \A u \in RoomType : Live(u)' /\ u \notin doubtful' => u \notin doubtful
  BY <1>1 DEF History
<1>3. QED
  BY <1>1, <1>2 DEF DuplicateNameHasACause

\* The hotel is new, so no other room type is in it.
LEMMA EmptyHotel ==
    ASSUME PhoneInv, StoresInv, NEW h \in Hotel, row[h] = None, NEW u \in RoomType, Live(u)
    PROVE  row[u].of # h
BY DEF StoresInv, Live

LEMMA NamesMove ==
    ASSUME PhoneInv, StoresInv, CurrentInv, DuplicateNameHasACause, History,
           NEW r \in Request, Moves(r)
    PROVE  DuplicateNameHasACause'
<1> USE CatalogAssumption
<1>0. row \in [Item -> Row \cup {None}] /\ Hotel \subseteq Item /\ RoomType \subseteq Item /\ RowsGrow
  BY Grows DEF PhoneInv, Item
<1>1. CASE row' = row
  BY <1>0, <1>1, SameNames
<1>2. ASSUME NEW t \in RoomType, InsertRoomType(r, t), row' # row PROVE DuplicateNameHasACause'
  <2> DEFINE room == NewRow(r, req[r].label, req[r].page.hotel)
  <2>1. row' = [row EXCEPT ![t] = room] /\ req[r].pc = "toInsert" /\ req[r].page # None
    BY <1>2, InsertGrows DEF InsertRoomType
  <2>2. room.label = req[r].label /\ room.of = req[r].page.hotel
    BY DEF NewRow
  <2> HIDE DEF room
  <2>3. row'[t] = room /\ \A u \in RoomType \ {t} : row'[u] = row[u]
    BY <1>0, <2>1
  <2>4. CASE Late
    <3>1. Enters(t) => t \in doubtful'
      BY <2>4 DEF History, Enters
    <3>2. QED
      BY <1>0, <2>3, <3>1, NoSecondName
  <2>5. CASE Current(r)
    <3>1. ~NameTaken(req[r].label, req[r].page.hotel)
      BY <2>1, <2>5 DEF Current
    <3>2. \A u \in RoomType : Live(u) /\ row[u].of = row'[t].of => Lower[row[u].label] # Lower[row'[t].label]
      BY <2>2, <2>3, <3>1 DEF NameTaken, RoomTypesOf
    <3>3. QED
      BY <1>0, <2>3, <3>2, NoSecondName
  <2>6. QED
    BY <1>2, <2>4, <2>5, WriterKnows
<1>3. ASSUME NEW h \in Hotel, InsertHotel(r, h), row' # row PROVE DuplicateNameHasACause'
  <2>1. \A t \in RoomType : row'[t] = row[t]
    BY <1>0, <1>3, HotelGrows
  <2>2. QED
    BY <1>0, <2>1, SameNames
<1>4. ASSUME Update(r), row' # row PROVE DuplicateNameHasACause'
  <2>0. req[r].pc = "loaded" /\ Holding(r)
    BY <1>4, Held DEF Update, At
  <2>1. /\ req[r].item \in Item
        /\ \A j \in Item \ {req[r].item} : row'[j] = row[j]
    BY <1>0, <1>4, UpdateGrows
  <2>2. CASE req[r].item \in Hotel
    <3>1. \A t \in RoomType : row'[t] = row[t]
      BY <1>0, <2>1, <2>2
    <3>2. QED
      BY <1>0, <3>1, SameNames
  <2>3. CASE req[r].item \in RoomType /\ Late
    <3>1. PICK t \in RoomType : t = req[r].item
      BY <2>3
    <3>2. Enters(t) => t \in doubtful'
      BY <2>3 DEF History, Enters
    <3>3. \A u \in RoomType \ {t} : row'[u] = row[u]
      BY <1>0, <2>1, <3>1
    <3>4. QED
      BY <1>0, <3>2, <3>3, NoSecondName
  <2>4. CASE req[r].item \in RoomType /\ Current(r)
    <3>1. PICK i \in Item, old \in Row, new \in Row :
                /\ i = req[r].item /\ old = row[i] /\ Live(i)
                /\ new = Edited(old, r, req[r].op, req[r].label, req[r].by)
                /\ row' = [row EXCEPT ![i] = new]
      BY <1>4, <2>4, UpdateKnows
    <3>2. new.of = old.of
      <4>1. req[r].op # "assign"
        BY <2>0, <2>4 DEF Holding
      <4>2. QED
        BY <3>1, <4>1, EditedOf
    <3>3. new.label = old.label \/ ~NameTaken(new.label, old.of)
      <4>1. new.label = old.label \/ (req[r].label # None /\ new.label = req[r].label)
        BY <3>1 DEF Edited, Row
      <4>2. req[r].label # None => req[r].label = old.label \/ ~NameTaken(req[r].label, old.of)
        BY <2>0, <2>4, <3>1 DEF Current
      <4>3. QED
        BY <4>1, <4>2
    <3>4. row'[i] = new /\ row[i] = old
      BY <1>0, <3>1
    <3>5. ASSUME Enters(i), NEW u \in RoomType, Live(u), row[u].of = row'[i].of
          PROVE  Lower[row[u].label] # Lower[row'[i].label]
      <4>1. ~NameTaken(new.label, old.of)
        BY <3>1, <3>3, <3>4, <3>5 DEF Enters
      <4>2. QED
        BY <3>2, <3>4, <3>5, <4>1 DEF NameTaken, RoomTypesOf
    <3>6. QED
      BY <1>0, <2>1, <2>4, <3>1, <3>5, NoSecondName
  <2>5. QED
    BY <1>4, <2>1, <2>2, <2>3, <2>4, WriterKnows DEF Item
<1>5. ASSUME SoftDelete(r) PROVE DuplicateNameHasACause'
  <2> DEFINE i == req[r].item
             new == [row[i] EXCEPT !.deleted = TRUE]
  <2>1. i \in Item /\ row[i] \in Row /\ row' = [row EXCEPT ![i] = new]
    BY <1>5, DeleteGrows
  <2>2. new.deleted /\ new # None
    BY <2>1 DEF Row
  <2> HIDE DEF new, i
  <2>3. \A u \in RoomType : row'[u] = row[u] \/ (row'[u] # None /\ row'[u].deleted)
    BY <1>0, <2>1, <2>2
  <2>4. QED
    BY <1>0, <2>3, SameNames
<1>6. ASSUME NEW h \in Hotel, NEW t \in RoomType, SeedHotel(r, h, t), row' # row PROVE DuplicateNameHasACause'
  <2> DEFINE room == NewRow(r, SeedHotels[req[r].next].name, h)
  <2>1. row'[t] = room /\ row[h] = None /\ \A u \in RoomType \ {t} : row'[u] = row[u]
    BY <1>0, <1>6, SeedGrows
  <2>2. room.of = h
    BY DEF NewRow
  <2> HIDE DEF room
  <2>3. \A u \in RoomType : Live(u) => row[u].of # row'[t].of
    BY <2>1, <2>2, EmptyHotel
  <2>4. QED
    BY <1>0, <2>1, <2>3, NoSecondName
<1>7. ASSUME NEW h \in Hotel, NEW t \in RoomType, UpsertTestHotel(r, h, t), row' # row PROVE DuplicateNameHasACause'
  <2>0. /\ At(r, "upserting") /\ BySeed
        /\ Current(r) \/ Late
    BY <1>7, WriterKnows DEF UpsertTestHotel, At, BySeed
  <2>1. PICK hotel \in Row, room \in Row :
              /\ row' = [row EXCEPT ![h] = hotel, ![t] = room]
              /\ room.of = h
              /\ row[t] # None => row[t].of = h /\ room.label = row[t].label
              /\ row[t] = None => room.label = TestHotel.name /\ req[r].room = None
              /\ req[r].item = None => row[h] = None
              /\ req[r].item # None => req[r].item = h
    BY <1>7, UpsertGrows
  <2>2. row'[t] = room /\ \A u \in RoomType \ {t} : row'[u] = row[u]
    BY <1>0, <2>1
  <2>3. CASE row[t] # None \/ Late
    <3>1. Enters(t) => t \in doubtful'
      BY <2>0, <2>3 DEF History, Enters
    <3>2. QED
      BY <1>0, <2>2, <3>1, NoSecondName
  <2>4. CASE row[t] = None /\ req[r].item = None
    <3>1. \A u \in RoomType : Live(u) => row[u].of # row'[t].of
      BY <2>1, <2>2, <2>4, EmptyHotel
    <3>2. QED
      BY <1>0, <2>2, <3>1, NoSecondName
  <2>5. CASE row[t] = None /\ req[r].item # None /\ Current(r)
    <3>1. \A v \in RoomType : row[v] # None /\ row[v].of = req[r].item =>
             Lower[row[v].label] # Lower[TestHotel.name]
      BY <2>0, <2>1, <2>5 DEF Current, At
    <3>2. \A u \in RoomType : Live(u) /\ row[u].of = row'[t].of => Lower[row[u].label] # Lower[row'[t].label]
      BY <2>1, <2>2, <2>5, <3>1 DEF Live
    <3>3. QED
      BY <1>0, <2>2, <3>2, NoSecondName
  <2>6. QED
    BY <2>0, <2>3, <2>4, <2>5
<1>8. QED
  BY <1>1, <1>2, <1>3, <1>4, <1>5, <1>6, <1>7, Reading DEF Writes

LEMMA NamesNext ==
    ASSUME PhoneInv, CatalogInv, DuplicateNameHasACause, [Next]_vars
    PROVE  DuplicateNameHasACause'
<1>1. ASSUME row' = row, History PROVE DuplicateNameHasACause'
  BY <1>1, SameNames, CatalogAssumption DEF RowsGrow
<1>2. ASSUME History, NEW p \in Page, Expire(p) PROVE DuplicateNameHasACause'
  BY <1>1, <1>2 DEF Expire
<1>3. CASE AllDone /\ History
  BY <1>1, <1>3 DEF AllDone
<1>4. CASE UNCHANGED vars
  BY <1>4 DEF vars, DuplicateNameHasACause, Live
<1>5. QED
  BY <1>2, <1>3, <1>4, NamesMove DEF Next, Moves, CatalogInv

(* Pages *)

\* The page is one that no change deletes, is right, is about to be deleted, or has a cause.
Settled(p) ==
    \/ p \notin OwnPage \/ p \in spoilt
    \/ cache[p] \in {None, Rendered(p)}
    \/ \E r \in Request : At(r, "saved") /\ Invalidated(req[r].item) = p

\* The page of a hotel's room types, after a step that leaves them alone.
LEMMA SameRooms ==
    ASSUME NEW h, \A t \in RoomType : \/ row'[t] = row[t]
                                      \/ /\ row[t] = None \/ row[t].of # h
                                         /\ row'[t] = None \/ row'[t].of # h
    PROVE  Result("rooms", h)' = Result("rooms", h)
<1>1. \A t \in RoomType : (Live(t) /\ row[t].of = h)' <=> (Live(t) /\ row[t].of = h)
  BY DEF Live
<1>2. RoomTypesOf(h)' = RoomTypesOf(h)
  BY <1>1 DEF RoomTypesOf
<1>3. \A t \in RoomTypesOf(h) : row'[t] = row[t]
  BY DEF RoomTypesOf, Live
<1>4. QED
  BY <1>2, <1>3 DEF Result

LEMMA SamePage ==
    ASSUME NEW p \in Page, p.kind \in {"detail", "roomTypes"},
           p.kind = "detail" => row'[p.hotel] = row[p.hotel],
           p.kind = "roomTypes" => Result("rooms", p.hotel)' = Result("rooms", p.hotel)
    PROVE  Rendered(p)' = Rendered(p)
<1>1. CASE p.kind = "detail"
  <2>1. Parts(p) = {"hotel"} /\ Result("hotel", p.hotel)' = Result("hotel", p.hotel)
    BY <1>1 DEF Parts, Result, Live
  <2>2. QED
    BY <2>1 DEF Rendered
<1>2. CASE p.kind = "roomTypes"
  <2>1. Parts(p) = {"rooms"}
    BY <1>2 DEF Parts
  <2>2. QED
    BY <1>2, <2>1 DEF Rendered
<1>3. QED
  BY <1>1, <1>2

\* Writing one item changes no page but the one that its change deletes.
LEMMA OtherPages ==
    ASSUME PhoneInv, RowsGrow, NEW i \in Item, NEW new \in Row, row' = [row EXCEPT ![i] = new],
           NEW p \in Page, p.kind \in {"detail", "roomTypes"}, p # Invalidated(i)'
    PROVE  Rendered(p)' = Rendered(p)
<1> USE CatalogAssumption
<1>1. row'[i] = new /\ \A j \in Item : j # i => row'[j] = row[j]
  BY DEF PhoneInv
<1>2. p.kind = "detail" => row'[p.hotel] = row[p.hotel]
  <2>1. CASE p.kind = "detail" /\ p.hotel = i
    BY <2>1 DEF Page, Invalidated, Detail
  <2>2. CASE p.hotel # i
    BY <1>1, <2>2 DEF Page, Item
  <2>3. QED
    BY <2>1, <2>2
<1>3. ASSUME p.kind = "roomTypes"
      PROVE  Result("rooms", p.hotel)' = Result("rooms", p.hotel)
  <2>1. ASSUME NEW t \in RoomType
        PROVE  \/ row'[t] = row[t]
               \/ /\ row[t] = None \/ row[t].of # p.hotel
                  /\ row'[t] = None \/ row'[t].of # p.hotel
    <3>1. CASE t # i
      BY <1>1, <3>1 DEF Item
    <3>2. CASE t = i
      <4>1. Invalidated(i)' = [kind |-> "roomTypes", hotel |-> row'[i].of]
        BY <3>2 DEF Invalidated
      <4>2. row'[t].of # p.hotel
        BY <1>3, <3>2, <4>1 DEF Page
      <4>3. row[t] = None \/ row[t].of = row'[t].of
        BY DEF RowsGrow
      <4>4. QED
        BY <4>2, <4>3
    <3>3. QED
      BY <3>1, <3>2
  <2>2. QED
    BY <2>1, SameRooms
<1>4. QED
  BY <1>2, <1>3, SamePage

\* Whoever is about to delete the page is still about to.
LEMMA SavedWaits ==
    ASSUME PhoneInv, StoresInv, RowsGrow, NEW s \in Request, At(s, "saved"), req'[s] = req[s]
    PROVE  At(s, "saved")' /\ Invalidated(req[s].item)' = Invalidated(req[s].item)
<1>1. req[s].item \in Item /\ row[req[s].item] # None
  BY Held DEF At, Holding
<1>2. req[s].item \in Hotel \/ row'[req[s].item].of = row[req[s].item].of
  BY <1>1 DEF RowsGrow, Item
<1>3. QED
  BY <1>2 DEF At, Invalidated, Detail

LEMMA StaysSettled ==
    ASSUME PhoneInv, StoresInv, History, NEW r \in Request, Moves(r),
           req[r].pc # "saved" \/ req'[r].pc = "failed",
           NEW p \in Page, Settled(p), cache'[p] \in {None, cache[p]},
           cache[p] = None \/ Rendered(p)' = Rendered(p)
    PROVE  Settled(p)'
<1>1. CASE p \notin OwnPage
  BY <1>1 DEF Settled, OwnPage
<1>2. CASE cache[p] \in {None, Rendered(p)} \/ cache'[p] = None
  BY <1>2 DEF Settled
<1>3. CASE p \in OwnPage /\ cache'[p] # None /\ p \in spoilt
  BY <1>3 DEF Settled, History
<1>4. ASSUME p \in OwnPage, cache'[p] # None,
             NEW s \in Request, At(s, "saved"), Invalidated(req[s].item) = p
      PROVE  Settled(p)'
  <2>1. CASE s = r
    <3>1. Undeleted(p)
      BY <1>4, <2>1 DEF At, Undeleted
    <3>2. QED
      BY <1>4, <3>1 DEF Settled, History
  <2>2. CASE s # r
    <3>1. req'[s] = req[s] /\ RowsGrow
      BY <2>2, OneMoves, Grows
    <3>2. At(s, "saved")' /\ Invalidated(req[s].item)' = p
      BY <1>4, <3>1, SavedWaits
    <3>3. QED
      BY <3>2 DEF Settled
  <2>3. QED
    BY <2>1, <2>2
<1>5. QED
  BY <1>1, <1>2, <1>3, <1>4 DEF Settled

\* A change of one item: its page is about to be deleted.
LEMMA WriterSettles ==
    ASSUME PhoneInv, StoresInv, History, NEW r \in Request, Moves(r), req[r].pc # "saved", cache' = cache,
           NEW i \in Item, NEW new \in Row, row' = [row EXCEPT ![i] = new], Wrote(r, i),
           NEW p \in Page, Settled(p)
    PROVE  Settled(p)'
<1>1. req'[r].pc = "saved" /\ req'[r].item = i
  BY DEF Wrote, Idle, PhoneInv
<1>2. CASE p = Invalidated(i)'
  <2>1. At(r, "saved")' /\ Invalidated(req[r].item)' = p
    BY <1>1, <1>2 DEF At, Invalidated
  <2>2. QED
    BY <2>1 DEF Settled
<1>3. CASE p # Invalidated(i)' /\ p \in OwnPage
  <2>1. Rendered(p)' = Rendered(p)
    BY <1>3, Grows, OtherPages DEF OwnPage
  <2>2. QED
    BY <2>1, StaysSettled
<1>4. CASE p \notin OwnPage
  BY <1>4 DEF Settled, OwnPage
<1>5. QED
  BY <1>2, <1>3, <1>4

\* A page is stored as it was read, or late.
LEMMA SetSettles ==
    ASSUME PhoneInv, StoresInv, CurrentInv, History, NEW r \in Request, Set(r),
           NEW p \in Page, Settled(p)
    PROVE  Settled(p)'
<1>0. /\ AllSelected(r) /\ req[r].pc = "missed" /\ row' = row /\ Moves(r)
      /\ cache' = [cache EXCEPT ![req[r].page] = seen[r]]
      /\ DOMAIN cache = Page /\ Rendered(p)' = Rendered(p)
  BY DEF Set, AllSelected, At, Moves, Continue, StoresInv, Rendered, Result, Live, RoomTypesOf
<1>1. CASE cache'[p] \in {None, cache[p]}
  BY <1>0, <1>1, StaysSettled
<1>2. CASE cache'[p] \notin {None, cache[p]} /\ r \in overtaken
  <2>1. req'[r] # req[r]
    <3>1. req'[r].pc \in {"found", "done"}
      BY Held DEF Set, Goto, End, Idle, PhoneInv, RequestState
    <3>2. QED
      BY <1>0, <3>1
  <2>2. Late
    BY <1>2, <2>1 DEF Late
  <2>3. QED
    BY <1>2, <2>2 DEF Settled, History, OwnPage
<1>3. CASE cache'[p] \notin {None, cache[p]} /\ r \notin overtaken
  <2>1. p = req[r].page /\ cache'[p] = seen[r]
    BY <1>0, <1>3
  <2>2. Current(r)
    BY <1>3 DEF CurrentInv
  <2>3. \A part \in DOMAIN seen[r] : seen[r][part] = Result(part, p.hotel)
    BY <1>0, <2>1, <2>2 DEF Current
  <2>4. DOMAIN seen[r] = Parts(p)
    BY <1>0, <2>1 DEF AllSelected
  <2>5. seen[r] = Rendered(p)
    <3>1. seen[r] = [part \in DOMAIN seen[r] |-> seen[r][part]]
      BY DEF StoresInv
    <3>2. QED
      BY <2>3, <2>4, <3>1 DEF Rendered
  <2>6. QED
    BY <1>0, <2>1, <2>5 DEF Settled
<1>4. QED
  BY <1>1, <1>2, <1>3

\* Deleting a page settles it, and no other.
LEMMA DelSettles ==
    ASSUME PhoneInv, StoresInv, History, NEW r \in Request, Del(r), NEW p \in Page, Settled(p)
    PROVE  Settled(p)'
<1>0. /\ At(r, "saved") /\ row' = row /\ Moves(r) /\ DOMAIN cache = Page
      /\ cache' = [cache EXCEPT ![Invalidated(req[r].item)] = None]
      /\ Rendered(p)' = Rendered(p)
  BY DEF Del, Moves, Continue, StoresInv, Rendered, Result, Live, RoomTypesOf
<1>1. CASE p = Invalidated(req[r].item)
  BY <1>0, <1>1 DEF Settled
<1>2. CASE p # Invalidated(req[r].item)
  <2>1. cache'[p] = cache[p]
    BY <1>0, <1>2
  <2>2. CASE p \notin OwnPage \/ cache[p] \in {None, Rendered(p)}
    BY <1>0, <2>1, <2>2 DEF Settled, OwnPage
  <2>3. CASE p \in OwnPage /\ p \in spoilt /\ cache[p] # None
    BY <2>1, <2>3 DEF Settled, History
  <2>4. ASSUME NEW s \in Request, At(s, "saved"), Invalidated(req[s].item) = p
        PROVE  Settled(p)'
    <3>1. s # r
      BY <1>2, <2>4
    <3>2. req'[s] = req[s] /\ RowsGrow
      BY <1>0, <3>1, OneMoves, Grows
    <3>3. At(s, "saved")' /\ Invalidated(req[s].item)' = p
      BY <2>4, <3>2, SavedWaits
    <3>4. QED
      BY <3>3 DEF Settled
  <2>5. QED
    BY <2>2, <2>3, <2>4 DEF Settled
<1>3. QED
  BY <1>1, <1>2

\* A seed's transaction: the cached pages it changes are spoilt.
LEMMA SeedSettles ==
    ASSUME PhoneInv, StoresInv, History, NEW r \in Request,
           NEW h \in Hotel, NEW t \in RoomType, SeedHotel(r, h, t) \/ UpsertTestHotel(r, h, t), row' # row,
           NEW p \in Page, Settled(p)
    PROVE  Settled(p)'
<1>1. cache' = cache /\ req[r].pc \in {"seeding", "upserting"} /\ Moves(r)
  BY DEF SeedHotel, UpsertTestHotel, At, Moves, Continue
<1>2. BySeed
  <2>1. CASE UpsertTestHotel(r, h, t)
    <3>1. req'[r].pc \in {"done", "failed"}
      BY <2>1 DEF UpsertTestHotel, End, Idle, PhoneInv
    <3>2. QED
      BY <1>1, <3>1 DEF BySeed
  <2>2. CASE SeedHotel(r, h, t)
    <3>1. \/ req'[r].pc \in {"done", "failed"}
          \/ req' = [req EXCEPT ![r].next = @ + 1]
      BY <2>2 DEF SeedHotel, End, Idle, PhoneInv
    <3>2. req[r] \in RequestState /\ req[r].next \in 1 .. Len(SeedHotels) /\ Len(SeedHotels) \in Nat
      BY <2>2, SeedGrows, Held, CatalogAssumption
    <3>3. req[r].next + 1 # req[r].next
      BY <3>2
    <3>4. req' = [req EXCEPT ![r].next = @ + 1] => req'[r].next = req[r].next + 1
      BY <3>2 DEF PhoneInv, RequestState
    <3>5. QED
      BY <1>1, <3>1, <3>3, <3>4 DEF BySeed
  <2>3. QED
    BY <2>1, <2>2
<1>3. CASE cache[p] = None \/ Rendered(p)' = Rendered(p)
  BY <1>1, <1>3, StaysSettled
<1>4. CASE p \in OwnPage /\ cache[p] # None /\ Rendered(p)' # Rendered(p)
  BY <1>1, <1>2, <1>4 DEF Settled, History
<1>5. CASE p \notin OwnPage
  BY <1>5 DEF Settled, OwnPage
<1>6. QED
  BY <1>3, <1>4, <1>5

LEMMA PagesMove ==
    ASSUME PhoneInv, StoresInv, CurrentInv, History, NEW r \in Request, Moves(r),
           NEW p \in Page, Settled(p)
    PROVE  Settled(p)'
<1> USE CatalogAssumption
<1>0. row \in [Item -> Row \cup {None}] /\ Hotel \subseteq Item /\ RoomType \subseteq Item
  BY DEF PhoneInv, Item
<1>1. CASE Set(r) \/ Del(r)
  BY <1>1, SetSettles, DelSettles
<1>2. CASE cache' = cache /\ row' = row /\ ~Del(r)
  <2>1. req[r].pc # "saved" \/ req'[r].pc = "failed"
    <3>1. CASE Fail(r)
      BY <3>1 DEF Fail, End, Idle, PhoneInv
    <3>2. CASE ~Fail(r)
      BY <1>2, <3>2 DEF Moves, Start, GetPage, Get, CreateRoomType, CreateHotel, Change, AssignOwner, CheckOwner,
         CountHotels, FindTestHotel, Continue, Select, NotFound, Set, AllSelected, CheckName, ChangeOwned, CheckLabel,
         Load, InsertRoomType, InsertHotel, Update, SoftDelete, SeedHotel, UpsertTestHotel, At
    <3>3. QED
      BY <3>1, <3>2
  <2>2. Rendered(p)' = Rendered(p)
    BY <1>2 DEF Rendered, Result, Live, RoomTypesOf
  <2>3. QED
    BY <1>2, <2>1, <2>2, StaysSettled
<1>3. ASSUME NEW t \in RoomType, InsertRoomType(r, t) PROVE Settled(p)'
  <2>1. /\ row' = [row EXCEPT ![t] = NewRow(r, req[r].label, req[r].page.hotel)] /\ req[r].pc # "saved"
        /\ NewRow(r, req[r].label, req[r].page.hotel) \in Row /\ Wrote(r, t) /\ cache' = cache
    BY <1>3, InsertGrows DEF InsertRoomType
  <2>2. QED
    BY <1>0, <2>1, WriterSettles
<1>4. ASSUME NEW h \in Hotel, InsertHotel(r, h), row' # row PROVE Settled(p)'
  <2>1. /\ row' = [row EXCEPT ![h] = NewRow(r, req[r].label, None)] /\ row[h] = None
        /\ NewRow(r, req[r].label, None) \in Row /\ cache' = cache /\ req[r].pc # "saved"
    BY <1>4, HotelGrows DEF InsertHotel, At
  <2>2. CASE p = Detail(h)
    <3>1. cache[p] = None
      BY <2>1, <2>2 DEF StoresInv, Detail
    <3>2. QED
      BY <2>1, <3>1 DEF Settled
  <2>3. CASE p \notin OwnPage
    BY <2>3 DEF Settled, OwnPage
  <2>4. CASE p # Detail(h) /\ p \in OwnPage
    <3>1. Rendered(p)' = Rendered(p)
      BY <1>0, <2>1, <2>4, Grows, OtherPages DEF Invalidated, Detail, OwnPage
    <3>2. QED
      BY <2>1, <3>1, StaysSettled
  <2>5. QED
    BY <2>2, <2>3, <2>4
<1>5. ASSUME Update(r), row' # row PROVE Settled(p)'
  <2>1. cache' = cache /\ req[r].pc # "saved"
    BY <1>5 DEF Update, At
  <2>2. QED
    BY <1>5, <2>1, UpdateGrows, WriterSettles
<1>6. ASSUME SoftDelete(r) PROVE Settled(p)'
  <2> DEFINE i == req[r].item
             new == [row[i] EXCEPT !.deleted = TRUE]
  <2>1. /\ i \in Item /\ row[i] \in Row /\ row' = [row EXCEPT ![i] = new] /\ Wrote(r, i)
        /\ cache' = cache /\ req[r].pc # "saved"
    BY <1>6, DeleteGrows DEF SoftDelete, At
  <2>2. new \in Row
    BY <2>1 DEF Row
  <2> HIDE DEF new
  <2>3. QED
    BY <2>1, <2>2, WriterSettles
<1>7. CASE row' # row /\ Writes(r)
  BY <1>3, <1>4, <1>5, <1>6, <1>7, SeedSettles DEF Writes
<1>8. QED
  BY <1>1, <1>2, <1>7, Reading, CacheMoves

LEMMA PagesNext ==
    ASSUME PhoneInv, CatalogInv, StalePageHasACause, [Next]_vars
    PROVE  StalePageHasACause'
<1> SUFFICES ASSUME NEW p \in Page PROVE Settled(p)'
  BY DEF StalePageHasACause, Settled, OwnPage
<1>1. Settled(p) /\ (History \/ UNCHANGED vars)
  BY DEF StalePageHasACause, Settled, Next, vars
<1>2. ASSUME row' = row, req' = req, cache'[p] \in {None, cache[p]} PROVE Settled(p)'
  <2>1. Rendered(p)' = Rendered(p)
    BY <1>2 DEF Rendered, Result, Live, RoomTypesOf
  <2>2. \A i : Invalidated(i)' = Invalidated(i)
    BY <1>2 DEF Invalidated, Detail
  <2>3. CASE p \in OwnPage /\ p \in spoilt /\ cache'[p] # None
    BY <1>1, <1>2, <2>3 DEF Settled, History, vars
  <2>4. CASE p \notin OwnPage \/ p \notin spoilt \/ cache'[p] = None
    BY <1>1, <1>2, <2>1, <2>2, <2>4 DEF Settled, At, OwnPage
  <2>5. QED
    BY <2>3, <2>4
<1>3. ASSUME NEW p2 \in Page, Expire(p2) PROVE Settled(p)'
  BY <1>2, <1>3 DEF Expire, CatalogInv, StoresInv
<1>4. CASE UNCHANGED vars \/ AllDone
  BY <1>2, <1>4 DEF vars, AllDone
<1>5. ASSUME NEW r \in Request, Moves(r), History PROVE Settled(p)'
  BY <1>1, <1>5, PagesMove DEF CatalogInv
<1>6. QED
  BY <1>3, <1>4, <1>5 DEF Next, Moves

LEMMA CausesInit == Init => DuplicateNameHasACause /\ StalePageHasACause
<1> SUFFICES ASSUME Init PROVE DuplicateNameHasACause /\ StalePageHasACause
  OBVIOUS
<1>1. StalePageHasACause
  BY DEF Init, StalePageHasACause, OwnPage
<1>2. DuplicateNameHasACause
  <2>1. ASSUME NEW t \in RoomType, NEW u \in RoomType, Live(t), Live(u), row[t].of = row[u].of,
               Lower[row[t].label] = Lower[row[u].label], t # u
        PROVE  FALSE
    <3>1. Furnished /\ t \in Seeded /\ u \in Seeded /\ t \in Item /\ t \notin Hotel
      BY <2>1, CatalogAssumption DEF Init, Live, Furnished, Item
    <3>2. u \in Siblings(t)
      BY <2>1, <3>1 DEF Siblings, Live
    <3>3. QED
      BY <2>1, <3>1, <3>2 DEF Furnished
  <2>2. QED
    BY <2>1 DEF DuplicateNameHasACause
<1>3. QED
  BY <1>1, <1>2

LEMMA CausesInvariance == Spec => [](DuplicateNameHasACause /\ StalePageHasACause)
<1>1. PhoneInv /\ CatalogInv /\ DuplicateNameHasACause /\ StalePageHasACause /\ [Next]_vars
         => DuplicateNameHasACause' /\ StalePageHasACause'
  BY NamesNext, PagesNext
<1>2. QED
  BY <1>1, CausesInit, CatalogInvariance, PTL DEF Spec

\* Two room types of a hotel have the same name only if one of them was given it, or
\* brought back, by a request overtaken since it looked for duplicates, or was brought back
\* by booking-test.seed: the column is not unique, and everyone else looks first.
THEOREM DuplicateNamesAreCaused == Spec => []DuplicateNameHasACause
BY CausesInvariance, PTL

\* Each of the two pages that changes delete is right, or about to be deleted, or what it
\* shows was stored by a request overtaken while it read, or left by one that failed between
\* its save and its DEL, or written under by a seed since: no operation of the services
\* forgets the page it changes.
THEOREM StalePagesAreCaused == Spec => []StalePageHasACause
BY CausesInvariance, PTL

-----------------------------------------------------------------------------
(* What a step may never do *)

\* A room type that is written for the first time is in a hotel that is there.
LEMMA HousedMoves ==
    ASSUME PhoneInv, StoresInv, CurrentInv, NEW r \in Request \ overtaken, Moves(r),
           NEW t \in RoomType, row[t] = None, row'[t] # None
    PROVE  Live(row[t].of)'
<1> USE CatalogAssumption
<1>0. row \in [Item -> Row \cup {None}] /\ t \in Item /\ t \notin Hotel /\ Hotel \subseteq Item /\ row' # row
  BY DEF PhoneInv, Item
<1>1. ASSUME NEW u \in RoomType, InsertRoomType(r, u) PROVE Live(row[t].of)'
  <2> DEFINE h == req[r].page.hotel
  <2>1. /\ row' = [row EXCEPT ![u] = NewRow(r, req[r].label, h)]
        /\ h \in Hotel /\ req[r].pc = "toInsert" /\ req[r].page # None /\ Current(r)
    BY <1>0, <1>1, InsertGrows DEF InsertRoomType, CurrentInv
  <2>2. Live(h)
    BY <2>1 DEF Current
  <2>3. NewRow(r, req[r].label, h).of = h
    BY DEF NewRow
  <2> HIDE DEF h
  <2>4. u \in Item /\ u = t /\ row'[t].of = h /\ row'[h] = row[h]
    BY <1>0, <2>1, <2>3 DEF Item
  <2>5. QED
    BY <2>2, <2>4 DEF Live
<1>2. ASSUME NEW h \in Hotel, InsertHotel(r, h) PROVE FALSE
  BY <1>0, <1>2, HotelGrows
<1>3. ASSUME Update(r) PROVE FALSE
  BY <1>0, <1>3, UpdateGrows
<1>4. ASSUME SoftDelete(r) PROVE FALSE
  BY <1>0, <1>4, DeleteGrows
<1>5. ASSUME NEW h \in Hotel, NEW u \in RoomType, SeedHotel(r, h, u) PROVE Live(row[t].of)'
  <2> DEFINE hotel == NewRow(r, SeedHotels[req[r].next].phone, None)
             room == NewRow(r, SeedHotels[req[r].next].name, h)
  <2>1. row' = [row EXCEPT ![h] = hotel, ![u] = room] /\ hotel \in Row
    BY <1>0, <1>5, SeedGrows
  <2>2. room.of = h /\ ~hotel.deleted
    BY DEF NewRow
  <2> HIDE DEF hotel, room
  <2>3. u = t /\ row'[t] = room /\ row'[h] = hotel
    BY <1>0, <2>1
  <2>4. QED
    BY <2>1, <2>2, <2>3 DEF Live
<1>6. ASSUME NEW h \in Hotel, NEW u \in RoomType, UpsertTestHotel(r, h, u) PROVE Live(row[t].of)'
  <2>1. Current(r) /\ At(r, "upserting")
    BY <1>6 DEF UpsertTestHotel, CurrentInv
  <2>2. PICK hotel \in Row, room \in Row :
              /\ row' = [row EXCEPT ![h] = hotel, ![u] = room]
              /\ room.of = h
              /\ req[r].item = None => hotel = NewRow(r, TestHotel.phone, None)
              /\ req[r].item # None =>
                    /\ req[r].item = h /\ row[h] \in Row /\ req[r].loaded \in Row
                    /\ hotel = Saved(row[h], req[r].loaded, Upserted(req[r].loaded, r, None))
    BY <1>0, <1>6, UpsertGrows
  <2>3. ~hotel.deleted
    <3>1. CASE req[r].item = None
      BY <2>2, <3>1 DEF NewRow
    <3>2. CASE req[r].item # None
      <4>1. req[r].loaded = row[h]
        BY <2>1, <2>2, <3>2 DEF Current, At
      <4>2. Upserted(row[h], r, None) \in Row /\ ~Upserted(row[h], r, None).deleted
        BY <2>2, <3>2, UpsertedType DEF Upserted, Row
      <4>3. hotel = Upserted(row[h], r, None)
        BY <2>2, <3>2, <4>1, <4>2, SavedUndisturbed
      <4>4. QED
        BY <4>2, <4>3
    <3>3. QED
      BY <3>1, <3>2
  <2>4. u = t /\ row'[t] = room /\ row'[h] = hotel
    BY <1>0, <2>2
  <2>5. QED
    BY <2>2, <2>3, <2>4 DEF Live
<1>7. QED
  BY <1>0, <1>1, <1>2, <1>3, <1>4, <1>5, <1>6, Reading DEF Writes

\* No room type is created in a hotel that is removed, except by a request that was
\* overtaken by the removal or misled by a page that still showed the hotel.
THEOREM RoomTypesAreHoused == Spec => RoomTypesHaveAHotel
<1>1. ASSUME PhoneInv, CatalogInv, [Next]_vars
      PROVE  [\A r \in Request \ overtaken, t \in RoomType :
                 req'[r] # req[r] /\ row[t] = None /\ row'[t] # None => Live(row[t].of)']_vars
  <2> SUFFICES ASSUME NEW r \in Request \ overtaken, NEW t \in RoomType, req'[r] # req[r],
                      row[t] = None, row'[t] # None
               PROVE  Live(row[t].of)'
    OBVIOUS
  <2>1. PICK s \in Request : Moves(s)
    BY <1>1 DEF Next, Expire, AllDone, vars, Moves
  <2>2. s = r
    BY <1>1, <2>1, OneMoves DEF CatalogInv
  <2>3. QED
    BY <1>1, <2>1, <2>2, HousedMoves DEF CatalogInv
<1>2. QED
  BY <1>1, CatalogInvariance, PTL DEF Spec, RoomTypesHaveAHotel

\* What an update may write of the row it read.
LEMMA EditedNamed ==
    ASSUME NEW old \in Row, NEW r \in Request, NEW q \in RequestState,
           q.op \in {"update", "upload", "assign"},
           NEW new, new = Edited(old, r, q.op, q.label, q.by)
    PROVE  /\ \A c \in DOMAIN old : new[c] # old[c] => c \in Named(q)
           /\ old.images \subseteq new.images
<1>1. DOMAIN old = {"label", "text", "of", "images", "deleted"}
  BY DEF Row
<1>2. CASE q.op = "update"
  <2>1. /\ new.of = old.of /\ new.images = old.images /\ new.deleted = old.deleted
        /\ q.label = None => new.label = old.label
    BY <1>2 DEF Edited, Row
  <2>2. "text" \in Named(q) /\ (q.label # None => "label" \in Named(q))
    BY <1>2 DEF Named
  <2>3. QED
    BY <1>1, <2>1, <2>2
<1>3. CASE q.op = "upload"
  <2>1. /\ new.of = old.of /\ old.images \subseteq new.images /\ new.deleted = old.deleted
        /\ new.label = old.label /\ new.text = old.text
    BY <1>3 DEF Edited, Row
  <2>2. "images" \in Named(q)
    BY <1>3 DEF Named
  <2>3. QED
    BY <1>1, <2>1, <2>2
<1>4. CASE q.op = "assign"
  <2>1. /\ new.images = old.images /\ new.deleted = old.deleted
        /\ new.label = old.label /\ new.text = old.text
    BY <1>4 DEF Edited, Row
  <2>2. "of" \in Named(q)
    BY <1>4 DEF Named
  <2>3. QED
    BY <1>1, <2>1, <2>2
<1>5. QED
  BY <1>2, <1>3, <1>4

LEMMA ChangeMoves ==
    ASSUME PhoneInv, StoresInv, CurrentInv, NEW r \in Request \ overtaken, Moves(r), row' # row,
           req[r].pc \in {"loaded", "toDelete"}, NEW i \in Written, req[r].item = i
    PROVE  /\ {c \in DOMAIN row[i] : row'[i][c] # row[i][c]} \subseteq Named(req[r])
           /\ row[i].images \subseteq row'[i].images
           /\ req[r].by # None /\ req[r].op # "assign" => row[i].of = req[r].by
<1> DEFINE q == req[r]
<1>0. q \in RequestState /\ Holding(r) /\ Current(r) /\ row \in [Item -> Row \cup {None}]
  BY Held DEF CurrentInv, PhoneInv
<1>1. Update(r) \/ SoftDelete(r)
  <2>1. Writes(r)
    BY Reading
  <2>2. QED
    BY <2>1 DEF Writes, InsertRoomType, InsertHotel, SeedHotel, UpsertTestHotel, At
<1>2. CASE Update(r)
  <2>1. q.pc = "loaded" /\ q.op \in {"update", "upload", "assign"}
    BY <1>0, <1>2 DEF Update, At, Holding
  <2>2. PICK j \in Item, old \in Row, new \in Row :
              /\ j = q.item /\ old = row[j]
              /\ new = Edited(old, r, q.op, q.label, q.by)
              /\ row' = [row EXCEPT ![j] = new]
    BY <1>0, <1>2, UpdateKnows
  <2>3. /\ \A c \in DOMAIN old : new[c] # old[c] => c \in Named(q)
        /\ old.images \subseteq new.images
    BY <1>0, <2>1, <2>2, EditedNamed
  <2>4. row[i] = old /\ row'[i] = new
    BY <1>0, <2>2
  <2>5. q.by # None /\ q.op # "assign" => row[i].of = q.by
    BY <1>0, <2>1 DEF Current
  <2>6. QED
    BY <2>3, <2>4, <2>5
<1>3. CASE SoftDelete(r)
  <2>1. i \in Item /\ row[i] \in Row /\ row' = [row EXCEPT ![i] = [row[i] EXCEPT !.deleted = TRUE]]
    BY <1>3, DeleteGrows
  <2>2. row'[i] = [row[i] EXCEPT !.deleted = TRUE]
    BY <1>0, <2>1
  <2>3. q.op = "remove" /\ q.by = None
    BY <1>0, <1>3 DEF SoftDelete, At, Holding
  <2>4. "deleted" \in Named(q)
    BY <2>3 DEF Named
  <2>5. row'[i].images = row[i].images /\ \A c \in DOMAIN row[i] : row'[i][c] # row[i][c] => c = "deleted"
    BY <2>1, <2>2 DEF Row
  <2>6. QED
    BY <2>3, <2>4, <2>5
<1>4. QED
  BY <1>1, <1>2, <1>3

\* An update, an upload, an assignment or a removal that was not overtaken writes the
\* columns it is for, loses no image, brings nothing back, and is the owner's: save()
\* writes what differs from the row it loads, so only a second writer can be lost.
THEOREM ChangesAreExact == Spec => UndisturbedChange
<1>1. ASSUME PhoneInv, CatalogInv, [Next]_vars
      PROVE  [\A r \in Request \ overtaken : \A i \in Written :
                (req[r].item = i /\ req'[r] # req[r] /\ req[r].pc \in {"loaded", "toDelete"}) =>
                    /\ {c \in DOMAIN row[i] : row'[i][c] # row[i][c]} \subseteq Named(req[r])
                    /\ row[i].images \subseteq row'[i].images
                    /\ req[r].by # None /\ req[r].op # "assign" => row[i].of = req[r].by]_vars
  <2> SUFFICES ASSUME NEW r \in Request \ overtaken, NEW i \in Written, req[r].item = i,
                      req'[r] # req[r], req[r].pc \in {"loaded", "toDelete"}
               PROVE  /\ {c \in DOMAIN row[i] : row'[i][c] # row[i][c]} \subseteq Named(req[r])
                      /\ row[i].images \subseteq row'[i].images
                      /\ req[r].by # None /\ req[r].op # "assign" => row[i].of = req[r].by
    OBVIOUS
  <2>1. row' # row
    BY DEF Written
  <2>2. PICK s \in Request : Moves(s)
    BY <1>1, <2>1 DEF Next, Expire, AllDone, vars, Moves
  <2>3. s = r
    BY <1>1, <2>2, OneMoves DEF CatalogInv
  <2>4. QED
    BY <1>1, <2>1, <2>2, <2>3, ChangeMoves DEF CatalogInv
<1>2. QED
  BY <1>1, CatalogInvariance, PTL DEF Spec, UndisturbedChange
=============================================================================
