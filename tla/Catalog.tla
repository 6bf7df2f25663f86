------------------------------ MODULE Catalog ------------------------------
(***************************************************************************)
(* Hotels and room types (src/src/modules/hotel, src/src/modules/room-type *)
(* and the public pages beside it): two MySQL tables that administrators,  *)
(* owners and two seeds change, and the pages of them kept in Redis.       *)
(*                                                                         *)
(* Every change reads an entity, edits it in memory, saves it and deletes  *)
(* one page; every page is looked up in Redis, else read from the tables   *)
(* and stored for 300 seconds.  No lock and no transaction spans any of    *)
(* this.  A hotel and a room type go through the same steps and share      *)
(* their columns here:                                                     *)
(*    label    what must not be taken twice: a hotel's phone, the name of  *)
(*             a room type within its hotel                                *)
(*    text     the other columns an update may set, known by the request   *)
(*             that set them last                                          *)
(*    of       a hotel's owner; the hotel of a room type                   *)
(*    images   the uploads whose URLs are in the JSON column               *)
(*    deleted  deletedAt is set                                            *)
(***************************************************************************)
EXTENDS Naturals, FiniteSets, Sequences

CONSTANTS
    Hotel, RoomType,   \* their ids
    Request,           \* HTTP requests
    Label,             \* phones and names
    Lower,             \* toLowerCase, on names
    Owner,             \* users that own hotels
    Seeded,            \* the hotels and room types that are there to begin with
    SeedHotels,        \* SEED_HOTELS, with one room type each; empty: hotel.seed is skipped
    TestHotel,         \* TEST_HOTEL and TEST_ROOM_TYPE; None: booking-test.seed is not run
    PageKind,          \* the kinds of page that are asked for
    None

Item == Hotel \cup RoomType

Row == [label: Label, text: Request \cup {None}, of: Owner \cup Hotel \cup {None},
        images: SUBSET Request, deleted: BOOLEAN]

ASSUME CatalogAssumption ==
    /\ Hotel \cap RoomType = {} /\ Seeded \subseteq Item
    /\ PageKind \subseteq {"detail", "roomTypes", "publicDetail", "publicRoomTypes", "publicList"}
    /\ Lower \in [Label -> Label]
    /\ SeedHotels \in Seq([phone: Label, name: Label])
    /\ \A m, n \in 1 .. Len(SeedHotels) : SeedHotels[m].phone = SeedHotels[n].phone => m = n
    /\ TestHotel \in [phone: Label, name: Label] \cup {None}
    /\ None \notin Row
    /\ None \notin Item \cup Request \cup Label \cup Owner

VARIABLES
    row,        \* hotels and room_types: the row of each id, or None
    cache,      \* Redis: the page under each key, or None
    req,        \* where each request or run of a seed stands, and what it has in memory
    seen,       \* the results of the SELECTs of the page it is rendering
    overtaken,  \* history: requests in flight that rely on what is no longer so
    spoilt,     \* history: the cached pages that have a cause to be wrong
    doubtful    \* history: the room types that have a cause to be second of their name

vars == <<row, cache, req, seen, overtaken, spoilt, doubtful>>

Live(i) == row[i] # None /\ ~row[i].deleted

\* The rows among which a label may be used once.
Siblings(i) == IF i \in Hotel THEN Hotel ELSE {t \in RoomType : row[t] # None /\ row[t].of = row[i].of}

RoomTypesOf(h) == {t \in RoomType : Live(t) /\ row[t].of = h}

-----------------------------------------------------------------------------
(* Pages *)

Page == [kind: PageKind \cup {"detail", "roomTypes"}, hotel: Hotel]

\* hotel.service.ts's and room-type.service.ts's, which changes delete.
OwnPage == {p \in Page : p.kind \in {"detail", "roomTypes"}}

\* The SELECTs a page is made of.
Parts(p) ==
    CASE p.kind = "detail"          -> {"hotel"}
      [] p.kind = "roomTypes"       -> {"rooms"}
      [] p.kind = "publicDetail"    -> {"publicHotel"}
      [] p.kind = "publicRoomTypes" -> {"hotelName", "rooms"}
      [] p.kind = "publicList"      -> {"hotels"}

\* What each SELECT returns.  Deleted rows never are, the public pages leave out
\* columns, and status is ACTIVE in every row: no endpoint sets it.
Result(part, h) ==
    CASE part = "hotel"       -> IF Live(h) THEN row[h] ELSE None
      [] part = "publicHotel" -> IF Live(h) THEN [row[h] EXCEPT !.of = None] ELSE None
      [] part = "hotelName"   -> IF Live(h) THEN <<row[h].text>> ELSE None
      [] part = "rooms"       -> {<<t, row[t]>> : t \in RoomTypesOf(h)}
      [] part = "hotels"      -> {<<g, row[g]>> : g \in {g \in Hotel : Live(g)}}

Rendered(p) == [part \in Parts(p) |-> Result(part, p.hotel)]

\* Slip: a page without a hotel is as good as any.
NeverMissing(results) == FALSE

\* The hotel was not found: an error, which is not cached.
Missing(results) == \E part \in DOMAIN results : results[part] = None

Detail(h) == [kind |-> "detail", hotel |-> h]

\* Slip: the two keys are mixed up.
MixedUp(i) ==
    IF i \in Hotel THEN [kind |-> "roomTypes", hotel |-> i] ELSE Detail(row[i].of)

\* The page a change of i deletes.  No change deletes a public page.
Invalidated(i) ==
    IF i \in Hotel THEN Detail(i) ELSE [kind |-> "roomTypes", hotel |-> row[i].of]

-----------------------------------------------------------------------------
(* Requests *)

PC == {"idle", "missed", "owned", "found", "toCheck", "toSave", "loaded", "toInsert",
       "toDelete", "saved", "seeding", "upserting", "done", "rejected", "failed"}

Ended == {"done", "rejected", "failed"}

Op == {"read", "create", "update", "upload", "assign", "remove", "seed"}

\* item: the row concerned; label: the phone or name asked for; by: the owner
\* asking; entity, loaded: as in BookingLifecycle; room, roomLoaded: the room type a
\* seed upserts beside its hotel; next: the hotel hotel.seed is at.
Idle == [pc |-> "idle", op |-> "read", item |-> None, label |-> None, by |-> None,
         entity |-> None, loaded |-> None, page |-> None, room |-> None, roomLoaded |-> None,
         next |-> 0]

RequestState ==
    [pc: PC, op: Op, item: Item \cup {None}, label: Label \cup {None}, by: Owner \cup {None},
     entity: Row \cup {None}, loaded: Row \cup {None}, page: Page \cup {None},
     room: RoomType \cup {None}, roomLoaded: Row \cup {None}, next: 0 .. Len(SeedHotels)]

At(r, pc) == req[r].pc = pc

Goto(r, pc) == req' = [req EXCEPT ![r].pc = pc]

End(r, outcome) == req' = [req EXCEPT ![r] = [Idle EXCEPT !.pc = outcome]]

\* The row is written and its page not yet deleted.
Wrote(r, i) == req' = [req EXCEPT ![r] = [Idle EXCEPT !.pc = "saved", !.item = i]]

-----------------------------------------------------------------------------
(* What the handlers decide *)

\* findHotelByPhone: deleted rows are not seen.
PhoneTaken(l) == \E h \in Hotel : Live(h) /\ row[h].label = l

\* The look for a duplicate name, the room type's own included.
NameTaken(l, h) == \E t \in RoomTypesOf(h) : Lower[row[t].label] = Lower[l]

Taken(l, i) == IF i \in Hotel THEN PhoneTaken(l) ELSE NameTaken(l, row[i].of)

\* Slip: the column is unique among the hotels that are not deleted.
ClashesWithLive(i, new) ==
    i \in Hotel /\ \E j \in Hotel \ {i} : Live(j) /\ row[j].label = new.label

\* hotels.phone is unique, deleted rows included; a room type's name is not.
Clashes(i, new) ==
    i \in Hotel /\ \E j \in Hotel \ {i} : row[j] # None /\ row[j].label = new.label

\* Slip: a phone or name that was not sent is assigned all the same.
EditedBlindly(old, r, op, l, o) ==
    [old EXCEPT !.text   = IF op = "update" THEN r ELSE @,
                !.label  = IF op = "update" THEN l ELSE @,
                !.images = IF op = "upload" THEN @ \cup {r} ELSE @,
                !.of     = IF op = "assign" THEN o ELSE @]

\* The entity an endpoint makes of the row it read.
Edited(old, r, op, l, o) ==
    [old EXCEPT !.text   = IF op = "update" THEN r ELSE @,
                !.label  = IF op = "update" /\ l # None THEN l ELSE @,
                !.images = IF op = "upload" THEN @ \cup {r} ELSE @,
                !.of     = IF op = "assign" THEN o ELSE @]

\* Slip: only creations look for duplicates.
NeverChecks(old, op, l) == FALSE

\* A name or phone is looked up only if it changes.
MustCheck(old, op, l) == op = "update" /\ l \notin {None, old.label}

\* Repository.save writes the columns in which the entity differs from the row
\* it loads first.  It loads deleted rows too: an entity read before the deletion
\* has deletedAt null and undoes it.
Saved(current, loaded, entity) ==
    LET Column(now, before, new) == IF new = before THEN now ELSE new IN
    [label   |-> Column(current.label, loaded.label, entity.label),
     text    |-> Column(current.text, loaded.text, entity.text),
     of      |-> Column(current.of, loaded.of, entity.of),
     images  |-> Column(current.images, loaded.images, entity.images),
     deleted |-> Column(current.deleted, loaded.deleted, entity.deleted)]

\* Slip: every owner may change every hotel.
OwnedByAnyone(hotel, o) == TRUE

OwnedBy(hotel, o) == hotel.of = o

-----------------------------------------------------------------------------
NewRow(r, l, parent) ==
    [label |-> l, text |-> r, of |-> parent, images |-> {}, deleted |-> FALSE]

\* As a seed, and some owner being assigned, left the tables.
Furnished ==
    /\ row \in [Item -> {NewRow(None, l, parent) : l \in Label, parent \in Owner \cup Hotel \cup {None}}
                        \cup {None}]
    /\ \A i \in Item : row[i] # None <=> i \in Seeded
    /\ \A h \in Hotel \cap Seeded : row[h].of \in Owner \cup {None}
    /\ \A t \in RoomType \cap Seeded : row[t].of \in Hotel \cap Seeded
    /\ \A i \in Seeded : \A j \in Siblings(i) \cap Seeded : i # j => Lower[row[i].label] # Lower[row[j].label]

\* Tables without a row, or furnished; nothing is cached.
Init ==
    /\ row = [i \in Item |-> None] \/ Furnished
    /\ cache = [p \in Page |-> None]
    /\ req = [r \in Request |-> Idle]
    /\ seen = [r \in Request |-> <<>>]
    /\ overtaken = {} /\ spoilt = {} /\ doubtful = {}

(* Pages: GET; the SELECTs; SET EX 300 *)

\* POST /owner/room-types looks up the hotel first, as GET /admin/hotels/:id does.
\* after: what follows a hit.
Get(r, p, fields, after) ==
    /\ At(r, "idle")
    /\ IF cache[p] # None
       THEN IF after = "done" THEN End(r, "done")
            ELSE req' = [req EXCEPT ![r] = [fields EXCEPT !.pc = after, !.page = p]]
       ELSE req' = [req EXCEPT ![r] = [fields EXCEPT !.pc = "missed", !.page = p]]
    /\ UNCHANGED <<row, cache, seen>>

GetPage(r, p) == p.kind \in PageKind /\ Get(r, p, Idle, "done")

CreateRoomType(r, h, l) ==
    Get(r, Detail(h), [Idle EXCEPT !.op = "create", !.label = l], "found")

Select(r, part) ==
    LET p == req[r].page IN
    /\ At(r, "missed")
    /\ part \in Parts(p) \ DOMAIN seen[r]
    /\ seen' = [seen EXCEPT ![r] = [q \in DOMAIN @ \cup {part} |->
                                       IF q = part THEN Result(part, p.hotel) ELSE @[q]]]
    /\ UNCHANGED <<row, cache, req>>

AllSelected(r) == At(r, "missed") /\ DOMAIN seen[r] = Parts(req[r].page)

Forget(r) == seen' = [seen EXCEPT ![r] = <<>>]

NotFound(r) ==
    /\ AllSelected(r) /\ Missing(seen[r])
    /\ End(r, "rejected") /\ Forget(r)
    /\ UNCHANGED <<row, cache>>

Set(r) ==
    /\ AllSelected(r) /\ ~Missing(seen[r])
    /\ cache' = [cache EXCEPT ![req[r].page] = seen[r]]
    /\ IF req[r].op = "create" THEN Goto(r, "found") ELSE End(r, "done")
    /\ Forget(r)
    /\ UNCHANGED row

(* Creation *)

\* The names in the hotel, or the phones, are searched.
CheckName(r) ==
    /\ At(r, "found")
    /\ IF NameTaken(req[r].label, req[r].page.hotel)
       THEN End(r, "rejected") ELSE Goto(r, "toInsert")
    /\ UNCHANGED <<row, cache, seen>>

CreateHotel(r, l) ==
    /\ At(r, "idle")
    /\ IF PhoneTaken(l)
       THEN End(r, "rejected")
       ELSE req' = [req EXCEPT ![r] = [Idle EXCEPT !.pc = "toInsert", !.op = "create", !.label = l]]
    /\ UNCHANGED <<row, cache, seen>>

InsertRoomType(r, t) ==
    /\ At(r, "toInsert") /\ req[r].page # None
    /\ row[t] = None
    /\ row' = [row EXCEPT ![t] = NewRow(r, req[r].label, req[r].page.hotel)]
    /\ Wrote(r, t)
    /\ UNCHANGED <<cache, seen>>

\* No page shows a hotel that was not there: none is deleted.
InsertHotel(r, h) ==
    LET new == NewRow(r, req[r].label, None) IN
    /\ At(r, "toInsert") /\ req[r].page = None
    /\ row[h] = None
    /\ IF Clashes(h, new)
       THEN End(r, "failed") /\ UNCHANGED row
       ELSE End(r, "done") /\ row' = [row EXCEPT ![h] = new]
    /\ UNCHANGED <<cache, seen>>

(* Changes: read; check; save() or softDelete; DEL *)

\* The row is read and, but for the deletion, edited in memory; an upload then
\* goes to S3, an assignment looks the new owner up.
Read(r, i, op, l, o) ==
    IF Live(i)
    THEN req' = [req EXCEPT ![r] =
             [Idle EXCEPT !.op = op, !.item = i, !.label = l, !.by = o,
                          !.entity = Edited(row[i], r, op, l, o),
                          !.pc = IF op = "remove" THEN "toDelete"
                                 ELSE IF MustCheck(row[i], op, l) THEN "toCheck" ELSE "toSave"]]
    ELSE End(r, "rejected")

Change(r, i, op, l) ==
    /\ At(r, "idle")
    /\ op = "update" \/ l = None
    /\ Read(r, i, op, l, None)
    /\ UNCHANGED <<row, cache, seen>>

\* PATCH /admin/hotels/:id/owner
AssignOwner(r, h, o) ==
    /\ At(r, "idle")
    /\ Read(r, h, "assign", None, o)
    /\ UNCHANGED <<row, cache, seen>>

\* PATCH /owner/hotels/:id and POST /owner/hotels/:id/images: the owner is
\* checked on one read, and the change begins with another.
CheckOwner(r, h, op, l, o) ==
    /\ At(r, "idle")
    /\ op = "update" \/ l = None
    /\ IF Live(h) /\ OwnedBy(row[h], o)
       THEN req' = [req EXCEPT ![r] = [Idle EXCEPT !.pc = "owned", !.op = op, !.item = h,
                                                   !.label = l, !.by = o]]
       ELSE End(r, "rejected")
    /\ UNCHANGED <<row, cache, seen>>

ChangeOwned(r) ==
    /\ At(r, "owned")
    /\ Read(r, req[r].item, req[r].op, req[r].label, req[r].by)
    /\ UNCHANGED <<row, cache, seen>>

CheckLabel(r) ==
    /\ At(r, "toCheck")
    /\ IF Taken(req[r].label, req[r].item) THEN End(r, "rejected") ELSE Goto(r, "toSave")
    /\ UNCHANGED <<row, cache, seen>>

Load(r) ==
    /\ At(r, "toSave")
    /\ req' = [req EXCEPT ![r].pc = "loaded", ![r].loaded = row[req[r].item]]
    /\ UNCHANGED <<row, cache, seen>>

\* updateRoomType assigns undefined for a name that was not sent, and save() skips it:
\* the column is left even if it has changed since the room type was read.
Sent(q) ==
    IF q.item \in RoomType /\ q.op = "update" /\ q.label = None
    THEN [q.entity EXCEPT !.label = q.loaded.label] ELSE q.entity

Update(r) ==
    LET i == req[r].item
        new == Saved(row[i], req[r].loaded, Sent(req[r])) IN
    /\ At(r, "loaded")
    /\ IF Clashes(i, new)
       THEN End(r, "failed") /\ UNCHANGED row
       ELSE Wrote(r, i) /\ row' = [row EXCEPT ![i] = new]
    /\ UNCHANGED <<cache, seen>>

\* The rows that refer to a deleted hotel stay as they are.
SoftDelete(r) ==
    /\ At(r, "toDelete")
    /\ row' = [row EXCEPT ![req[r].item].deleted = TRUE]
    /\ Wrote(r, req[r].item)
    /\ UNCHANGED <<cache, seen>>

Del(r) ==
    /\ At(r, "saved")
    /\ cache' = [cache EXCEPT ![Invalidated(req[r].item)] = None]
    /\ End(r, "done")
    /\ UNCHANGED <<row, seen>>

(* hotel.seed, when a process starts, and booking-test.seed, by hand *)

\* Slip: the seed does not look whether there are hotels.
SeedAnyway(r) ==
    /\ At(r, "idle")
    /\ req' = [req EXCEPT ![r] = [Idle EXCEPT !.pc = "seeding", !.op = "seed", !.next = 1]]
    /\ UNCHANGED <<row, cache, seen>>

\* Removed hotels are not counted.
CountHotels(r) ==
    /\ At(r, "idle") /\ SeedHotels # <<>>
    /\ IF \E h \in Hotel : Live(h)
       THEN End(r, "done")
       ELSE req' = [req EXCEPT ![r] = [Idle EXCEPT !.pc = "seeding", !.op = "seed", !.next = 1]]
    /\ UNCHANGED <<row, cache, seen>>

\* One transaction for each hotel with its room types.  No page is deleted, not even
\* the empty list that somebody who asked for the room types too early left there.
SeedHotel(r, h, t) ==
    LET data == SeedHotels[req[r].next]
        new == NewRow(r, data.phone, None) IN
    /\ At(r, "seeding")
    /\ row[h] = None /\ row[t] = None
    /\ IF Clashes(h, new)
       THEN End(r, "failed") /\ UNCHANGED row
       ELSE /\ row' = [row EXCEPT ![h] = new, ![t] = NewRow(r, data.name, h)]
            /\ IF req[r].next = Len(SeedHotels) THEN End(r, "done")
               ELSE req' = [req EXCEPT ![r].next = @ + 1]
    /\ UNCHANGED <<cache, seen>>

\* What the test hotel and its room type are made of the rows there are.
Upserted(old, r, parent) == [old EXCEPT !.text = r, !.of = parent, !.deleted = FALSE]

\* The transaction's SELECTs see one snapshot, removed rows included; MySQL 8
\* compares names without regard to case.
FindTestHotel(r) ==
    LET HotelRows == {h \in Hotel : row[h] # None /\ row[h].label = TestHotel.phone}
        RoomRows(h) == {t \in RoomType : row[t] # None /\ row[t].of = h
                                             /\ Lower[row[t].label] = Lower[TestHotel.name]} IN
    /\ At(r, "idle") /\ TestHotel # None
    /\ \/ HotelRows = {} /\ req' = [req EXCEPT ![r] = [Idle EXCEPT !.pc = "upserting", !.op = "seed"]]
       \/ \E h \in HotelRows, t \in RoomType \cup {None} :
             /\ IF RoomRows(h) = {} THEN t = None ELSE t \in RoomRows(h)
             /\ req' = [req EXCEPT ![r] =
                   [Idle EXCEPT !.pc = "upserting", !.op = "seed", !.item = h, !.loaded = row[h],
                                !.room = t, !.roomLoaded = IF t = None THEN None ELSE row[t]]]
    /\ UNCHANGED <<row, cache, seen>>

\* Its saves, committed together: no page is deleted.
UpsertTestHotel(r, h, t) ==
    LET q == req[r]
        hotel == IF q.item = None THEN NewRow(r, TestHotel.phone, None)
                 ELSE Saved(row[h], q.loaded, Upserted(q.loaded, r, None))
        room == IF q.room = None THEN NewRow(r, TestHotel.name, h)
                ELSE Saved(row[t], q.roomLoaded, Upserted(q.roomLoaded, r, h)) IN
    /\ At(r, "upserting")
    /\ IF q.item = None THEN row[h] = None ELSE h = q.item
    /\ IF q.room = None THEN row[t] = None ELSE t = q.room
    /\ IF Clashes(h, hotel)
       THEN End(r, "failed") /\ UNCHANGED row
       ELSE End(r, "done") /\ row' = [row EXCEPT ![h] = hotel, ![t] = room]
    /\ UNCHANGED <<cache, seen>>

(* Failures and time *)

\* An awaited call throws; what was written stays.
Fail(r) ==
    /\ req[r].pc \notin Ended \cup {"idle"}
    /\ End(r, "failed") /\ Forget(r)
    /\ UNCHANGED <<row, cache>>

Expire(p) ==
    /\ cache[p] # None
    /\ cache' = [cache EXCEPT ![p] = None]
    /\ UNCHANGED <<row, req, seen>>

AllDone ==
    /\ \A r \in Request : req[r].pc \in Ended
    /\ \A p \in Page : cache[p] = None
    /\ UNCHANGED <<row, cache, req, seen>>

-----------------------------------------------------------------------------
(* Who relies on what *)

Written == {i \in Item : row'[i] # row[i]}

\* A reader relies on the rows it has selected, a change on the row it read, who
\* checks a label on its siblings, and a creation on its hotel.
Relies(s, i) ==
    LET q == req[s] IN
    \/ At(s, "missed") /\ DOMAIN seen[s] # {} /\ (Rendered(q.page) # Rendered(q.page)')
    \/ q.pc \in {"owned", "toCheck", "toSave", "loaded"} /\ q.item = i
    \/ q.pc \in {"toSave", "loaded"} /\ q.label # None /\ i \in Siblings(q.item)'
    \/ /\ q.pc \in {"found", "toInsert"} /\ q.page # None
       /\ i = q.page.hotel \/ (i \in RoomType /\ row'[i].of = q.page.hotel)
    \/ At(s, "toInsert") /\ q.page = None /\ i \in Hotel
    \/ At(s, "seeding") /\ i \in Hotel
    \/ At(s, "upserting") /\ (i \in Hotel \/ row'[i].of = q.item)

\* A creation finds its hotel in a page that is out of date.
Misled(s) == At(s, "idle") /\ req'[s].pc = "found" /\ cache[req'[s].page] # Rendered(req'[s].page)

\* What the step does is based on what is no longer so.
Late == \E s \in overtaken : req'[s] # req[s]

\* The request fails before its DEL.
Undeleted(p) ==
    \E s \in Request : At(s, "saved") /\ req'[s].pc = "failed" /\ p = Invalidated(req[s].item)

\* The step is a seed's, which deletes no page.
BySeed == \E s \in Request : req[s].pc \in {"seeding", "upserting"} /\ req'[s] # req[s]

\* The room type is given its name, or is back.
Enters(t) == Live(t)' /\ (~Live(t) \/ row'[t].label # row[t].label)

\* A page was stored by a request that had been overtaken, or has since been left by a
\* failure or a seed; a name was given by such a request, or booking-test.seed brought it
\* back.  A page stored again, a room type renamed or removed is judged anew.
History ==
    /\ overtaken' = {s \in Request : /\ req'[s].pc \notin Ended
                                     /\ \/ s \in overtaken \/ Misled(s)
                                        \/ req'[s] = req[s] /\ \E i \in Written : Relies(s, i)}
    /\ spoilt' = {p \in OwnPage : /\ cache'[p] # None
                                  /\ IF cache'[p] # cache[p] THEN Late
                                     ELSE \/ p \in spoilt \/ Undeleted(p)
                                          \/ BySeed /\ Rendered(p)' # Rendered(p)}
    /\ doubtful' = {t \in RoomType : /\ Live(t)'
                                     /\ IF Enters(t) THEN Late \/ (BySeed /\ row[t] # None)
                                        ELSE t \in doubtful}

-----------------------------------------------------------------------------
Start(r) ==
    \/ \E p \in Page : GetPage(r, p)
    \/ \E h \in Hotel, l \in Label : CreateRoomType(r, h, l)
    \/ \E l \in Label : CreateHotel(r, l)
    \/ \E i \in Item, l \in Label \cup {None}, op \in {"update", "upload", "remove"} : Change(r, i, op, l)
    \/ \E h \in Hotel, o \in Owner : AssignOwner(r, h, o)
    \/ \E h \in Hotel, o \in Owner, l \in Label \cup {None}, op \in {"update", "upload"} :
          CheckOwner(r, h, op, l, o)
    \/ CountHotels(r) \/ FindTestHotel(r)

Continue(r) ==
    \/ \E part \in {"hotel", "rooms", "publicHotel", "hotelName", "hotels"} : Select(r, part)
    \/ NotFound(r) \/ Set(r)
    \/ CheckName(r)
    \/ \E t \in RoomType : InsertRoomType(r, t)
    \/ \E h \in Hotel : InsertHotel(r, h)
    \/ ChangeOwned(r) \/ CheckLabel(r) \/ Load(r) \/ Update(r) \/ SoftDelete(r) \/ Del(r)
    \/ \E h \in Hotel, t \in RoomType : SeedHotel(r, h, t) \/ UpsertTestHotel(r, h, t)

Next ==
    /\ \/ \E r \in Request : Start(r) \/ Continue(r) \/ Fail(r)
       \/ \E p \in Page : Expire(p)
       \/ AllDone
    /\ History

Spec == Init /\ [][Next]_vars

-----------------------------------------------------------------------------
(* Properties *)

TypeOK ==
    /\ row \in [Item -> Row \cup {None}]
    /\ DOMAIN cache = Page
    /\ \A p \in Page : cache[p] # None => DOMAIN cache[p] = Parts(p)
    /\ req \in [Request -> RequestState] /\ DOMAIN seen = Request
    /\ overtaken \subseteq Request /\ spoilt \subseteq OwnPage /\ doubtful \subseteq RoomType

\* Two hotels never have the same phone, whatever was checked before: the unique
\* column holds against creations, updates and the saving back of an old phone.
PhoneIsUnique ==
    \A h, g \in Hotel : row[h] # None /\ row[g] # None /\ row[h].label = row[g].label => h = g

\* A request that is to write a row has the entity or the label it needs, and rows
\* are never removed from under it: what PhoneIsUnique needs to be inductive.
Sound(q) ==
    /\ q.pc \in {"owned", "toCheck", "toSave", "loaded", "toDelete"} =>
          q.item \in Item /\ row[q.item] # None
    /\ q.pc \in {"toCheck", "toSave", "loaded"} => q.entity # None
    /\ q.pc = "loaded" => q.loaded # None
    /\ q.pc = "upserting" =>
          /\ TestHotel # None
          /\ q.item # None => q.item \in Hotel /\ row[q.item] # None /\ q.loaded # None
          /\ q.room # None => row[q.room] # None /\ q.roomLoaded # None
    /\ q.pc = "seeding" => q.next > 0
    /\ q.pc = "owned" => q.op \in {"update", "upload"}
    /\ q.pc \in {"found", "toInsert"} \/ (q.pc = "missed" /\ q.op = "create") => q.label \in Label

RequestInv == \A r \in Request : Sound(req[r])

PhoneInv ==
    /\ row \in [Item -> Row \cup {None}]
    /\ req \in [Request -> RequestState]
    /\ RequestInv
    /\ PhoneIsUnique

\* The two pages that changes delete (hotel.service.ts, room-type.service.ts) are never
\* wrong without a cause of their own: their DEL is due; or whoever stored what they
\* show was overtaken between a SELECT and the SET, or whoever changed it failed between
\* save and DEL, or a seed wrote under them.  A DEL or a SET puts an end to each.
StalePageHasACause ==
    \A p \in OwnPage \ spoilt :
        \/ cache[p] \in {None, Rendered(p)}
        \/ \E r \in Request : At(r, "saved") /\ Invalidated(req[r].item) = p

\* Of two room types with one name in a hotel, one was given its name, or brought back, by
\* a request that had been overtaken since it looked for the name, or was brought back
\* by booking-test.seed, which looks for no other room type of the name.
DuplicateNameHasACause ==
    \A t, u \in RoomType \ doubtful :
        /\ Live(t) /\ Live(u) /\ row[t].of = row[u].of
        /\ Lower[row[t].label] = Lower[row[u].label]
        => t = u

\* As long as no other request or run changes a hotel after hotel.seed counted them, only
\* a removed hotel, which it does not count, can have the phone it is to insert next and
\* so stop it half-way: it never meets a hotel of its own.
OnlyRemovedHotelsStopASeed ==
    \A r \in Request \ overtaken : At(r, "seeding") =>
        \A h \in Hotel : Live(h) => row[h].label # SeedHotels[req[r].next].phone

\* A room type is created in a hotel that is there, unless its request was
\* overtaken by the deletion or misled by a page the deletion had yet to delete.
RoomTypesHaveAHotel ==
    [][\A r \in Request \ overtaken, t \in RoomType :
          req'[r] # req[r] /\ row[t] = None /\ row'[t] # None => Live(row[t].of)']_vars

\* The columns an endpoint is for.
Named(q) ==
    CASE q.op = "update" -> IF q.label = None THEN {"text"} ELSE {"text", "label"}
      [] q.op = "upload" -> {"images"}
      [] q.op = "assign" -> {"of"}
      [] OTHER -> {"deleted"}

\* A change that no other has overtaken touches the columns it is for and no
\* other, loses no image, revives nothing, and comes from whoever owns the hotel.
UndisturbedChange ==
    [][\A r \in Request \ overtaken : \A i \in Written :
          (req[r].item = i /\ req'[r] # req[r] /\ req[r].pc \in {"loaded", "toDelete"}) =>
              /\ {c \in DOMAIN row[i] : row'[i][c] # row[i][c]} \subseteq Named(req[r])
              /\ row[i].images \subseteq row'[i].images
              /\ req[r].by # None /\ req[r].op # "assign" => row[i].of = req[r].by]_vars

\* API_TEST_REPORT.md:226, "Images are appended (not replaced) - each upload adds
\* one URL to the images[] array": an image that is there stays.
ImagesAreAppended ==
    [][\A i \in Item : row[i] # None => row[i].images \subseteq row'[i].images]_vars

\* The rows a cached page shows are in the tables, as it shows them.  A row that was
\* created since may be missing.
ShowsCurrentRows(p) ==
    \A part \in Parts(p) :
        IF part \in {"rooms", "hotels"} THEN cache[p][part] \subseteq Result(part, p.hotel)
        ELSE cache[p][part] = Result(part, p.hotel)

\* B03.md:274, cache invalidation is in place when hotels and room types are
\* updated or deleted: with every request answered, no page shows an old row.
ChangesReachThePages ==
    (\A r \in Request : req[r].pc \in {"idle", "done", "rejected"}) =>
        \A p \in Page : cache[p] # None => ShowsCurrentRows(p)

-----------------------------------------------------------------------------
(* What the requests and the stores hold, of which the properties are inductive *)

\* Whether overtaken or not: a room type stays in its hotel, and no row goes.
Holding(r) ==
    LET q == req[r] IN
    /\ q.pc # "missed" => DOMAIN seen[r] = {}
    /\ q.pc = "missed" =>
          /\ q.page \in Page /\ DOMAIN seen[r] \subseteq Parts(q.page)
          /\ q.op = "create" => q.page.kind = "detail"
          /\ "hotel" \in DOMAIN seen[r] /\ seen[r]["hotel"] # None => row[q.page.hotel] # None
    /\ q.pc \in {"found", "toInsert"} /\ q.page # None =>
          q.page.kind = "detail" /\ row[q.page.hotel] # None
    /\ q.pc = "saved" => q.item \in Item /\ row[q.item] # None
    /\ q.pc = "owned" => q.item \in Hotel /\ (q.label # None => q.op = "update")
    /\ q.pc \in {"toCheck", "toSave", "loaded"} =>
          /\ q.op \in {"update", "upload", "assign"} /\ (q.label # None => q.op = "update")
          /\ q.item \in RoomType => q.op # "assign" /\ q.entity.of = row[q.item].of
    /\ q.pc = "loaded" /\ q.item \in RoomType => q.loaded.of = row[q.item].of
    /\ q.pc = "toDelete" => q.op = "remove" /\ q.by = None
    /\ q.pc = "upserting" =>
          /\ q.item = None => q.room = None
          /\ q.room # None => row[q.room].of = q.item /\ q.roomLoaded.of = q.item

\* A page of a hotel that was not found is not kept, and a room type's hotel is there.
StoresInv ==
    /\ DOMAIN cache = Page /\ DOMAIN seen = Request
    /\ \A r \in Request : seen[r] = [part \in DOMAIN seen[r] |-> seen[r][part]]
    /\ \A p \in Page : cache[p] # None =>
          ~Missing(cache[p]) /\ (p.kind = "detail" => row[p.hotel] # None)
    /\ \A t \in RoomType : row[t] # None => row[t].of \in Hotel /\ row[row[t].of] # None
    /\ \A r \in Request : Holding(r)

\* Unless overtaken: what was read is what the tables hold, what was checked holds.
Current(r) ==
    LET q == req[r] IN
    /\ q.pc = "missed" => \A part \in DOMAIN seen[r] : seen[r][part] = Result(part, q.page.hotel)
    /\ q.pc = "owned" => row[q.item].of = q.by
    /\ q.pc \in {"toCheck", "toSave", "loaded"} =>
          /\ Live(q.item) /\ q.entity = Edited(row[q.item], r, q.op, q.label, q.by)
          /\ q.by # None /\ q.op # "assign" => row[q.item].of = q.by
    /\ q.pc \in {"toSave", "loaded"} /\ q.label # None /\ q.item \in RoomType =>
          q.label = row[q.item].label \/ ~NameTaken(q.label, row[q.item].of)
    /\ q.pc = "loaded" => q.loaded = row[q.item]
    /\ q.pc \in {"found", "toInsert"} /\ q.page # None => Live(q.page.hotel)
    /\ q.pc = "toInsert" /\ q.page # None => ~NameTaken(q.label, q.page.hotel)
    /\ q.pc = "seeding" => \A h \in Hotel : Live(h) =>
          \E n \in 1 .. q.next - 1 : row[h].label = SeedHotels[n].phone
    /\ q.pc = "upserting" /\ q.item # None =>
          /\ q.loaded = row[q.item]
          /\ q.room = None => \A t \in RoomType : row[t] # None /\ row[t].of = q.item =>
                Lower[row[t].label] # Lower[TestHotel.name]

CurrentInv == \A r \in Request \ overtaken : Current(r)

CatalogInv == StoresInv /\ CurrentInv
=============================================================================
