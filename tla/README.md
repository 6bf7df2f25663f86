# NestBook backend: TLA+ models and proofs

NestBook is a NestJS back end for hotel bookings: HTTP requests handled on one event loop, rows
in MySQL (InnoDB, through TypeORM), booking holds and cached pages in Redis, images in S3, mails
over SMTP. Nothing in it runs in parallel with itself except at an `await`; almost everything
that can go wrong goes wrong between two of them. This directory models those parts in TLA+,
checks them with TLC on small instances and proves the main results for every instance with
TLAPS. Paths are relative to the repository; `m/` stands for `src/modules/`.

    tlc -config review_desk.cfg MCReview     # one run
    tlapm BookingLifecycle_proofs.tla        # one module's proofs

## 1. Inventory

| Component | State | Operations that change it | What makes it hard |
|---|---|---|---|
| Booking (`m/booking`) | `bookings` rows: `booking_status`, `payment_status`, dates, quantity, a unique `booking_code` | create, confirmPayment, cancel, owner's updateBookingStatus | payment is a transaction under a row lock, cancel and the owner's update save an entity read without one; the hold in Redis is set after the insert and deleted before the commit |
| Availability (`m/availability`) | `availability_blocks`; reads bookings and holds | createBlock, removeBlock; `AvailabilityEngine.calculate` reads four times | what was read may change before the booking is inserted and held; date columns, local times and instants are compared |
| Invoice (`m/invoice`) | `invoices`, no unique index on `booking_id` | an insert inside confirmPayment | must exist exactly for paid bookings |
| Hotel (`m/hotel`) | `hotels` (unique `phone`), images, owner; `nestbook:hotel:detail:*` | create, update, remove, assignOwner, upload; the owner's variants | read, edit in memory, save whole columns, DEL one key |
| Room type (`m/room-type`) | `room_types`; `nestbook:room-types:hotel:*` | create, update, remove, upload | the same; names are unique by a look before the insert only |
| Public pages (`m/room-type/public-hotel.service.ts`) | `nestbook:hotel:public:*` | none but SET EX 300 | no change deletes these keys |
| Hotel search (`m/hotel/hotel-search.service.ts`) | none | none | filters and pages in memory |
| Review (`m/review`) | `reviews`, unique `booking_code` | createReview, deleteReview, updateStatus | depends on the booking's payment status at one moment |
| User, Role, Permission (`m/user`, `m/role`, `m/permission`) | `users`, `roles`, `user_roles`, `role_permissions` | create, update, remove, setUserRoles, syncRolePermissions | read, compute the difference, then write it in a transaction; link tables without unique indexes |
| Auth (`m/auth`) | `auth_credentials`; JWTs | register, login, MFA, providerLogin | two inserts without a transaction; look up, then create or link |
| Guards (`m/auth/guards`) | none | none | read what Role writes |
| Mail (`src/infrastructures/mail`) | one SMTP session per mail: a buffer, a queue of waiters | send, expect, flush | answers matched to waiters by order, timers, half lines |
| Redis, Database, S3, Logger | clients | none of their own | their commands are the steps of the models |
| Seeds (`src/databases/seed`) | roles, permissions, the administrator, hotels | hotel.seed and admin.seed whenever a process starts, rbac.seed and booking-test.seed by hand | they look, then insert, while another process serves requests or seeds as well |

Interactions: POST /bookings asks Availability, which reads Room type, the bookings, the holds
and the blocks; a payment writes the booking and the invoice in one transaction, deletes the hold
and hands a mail over; a room type's creation looks its hotel up in Hotel's cache; guards read
roles on every request; a review reads the booking. There are no queues, workers or callbacks
between components: only calls, shared tables and shared Redis keys. The seeds share the tables with
all of them: nothing keeps a second process from starting, or a script from being run, under load.

What makes each correct: a payment is never half done, never done twice and never undone by a
stale save; a room is not promised to more guests than there are rooms; invoices and mails speak
of committed payments; whoever waits for a lock gets an answer; phones stay unique; a page is out
of date only as long as its reason lasts; no change undoes another. `PROJECT.json` lists the
hazards one by one, at their lines, with the properties that cover them.

## 2. Modules

| Module | What it is | Checked by | Proved in |
|---|---|---|---|
| `BookingLedger` | the promise about one booking's row and invoices, in single steps | `lifecycle_owner` (as `LedgerSpec`) | `BookingLifecycle_proofs` |
| `BookingLifecycle` | the four booking endpoints as requests over MySQL, Redis and mail | `lifecycle_*`, `review_desk` | `BookingLifecycle_proofs` |
| `Review` | `BookingLifecycle` with the review endpoints | `review_desk` | `BookingLifecycle_proofs` (its end) |
| `StayDates` | nights and the three overlap tests | `pure_functions` | `StayDates_proofs` |
| `Reservation` | `BookingLifecycle` and `StayDates` with the availability engine, blocks and stays | `reservation_races` | `Reservation_proofs` |
| `RoomLedger` | the promise of rooms: asked for, promised, given up, closed, each in one step | `reservation_races` (as `InventorySpec`) | `Reservation_proofs` |
| `Catalog` | hotels, room types, their images and their cached pages | `catalog`, `catalog_*` | `Catalog_proofs` |
| `Access` | users' roles, roles' permissions, and the guard that reads both | `access` | `Access_proofs` |
| `Accounts` | users, credentials, registration and the logins | `accounts` | `Accounts_proofs` |
| `Delivery` | the promise of `send()`: it ends, and well only if the message was taken or an answer misread | `smtp_session` (as `DeliverySpec`) | `SmtpSession_proofs` (its steps) |
| `SmtpSession` | one `send()` over one socket | `smtp_session` | `SmtpSession_proofs` |
| `Listings` | hotel search and review pages as functions | `pure_functions` | `PureFunctions_proofs` |
| `PureFunctions` | `StayDates` and `Listings`, one input to a state, and what they should return | `pure_functions` | `PureFunctions_proofs` |

`MC...` modules hold the instances TLC needs; `MCPure` gives `PureFunctions` its bounded inputs, and
`MCSmtpSession` gives `SmtpSession` the rests of lines a cut may leave. A
definition whose comment begins with "Slip:" is a faulty variant of the definition after it:
replacing the one by the other must break the property it is paired with in `PROJECT.json`
("mutants"), which shows that the property can fail.

### BookingLifecycle and BookingLedger

A request is one run of one endpoint; `req[r].pc` says which await it has reached, and
`req[r].entity` is the `BookingEntity` it has in memory. The correspondence:

| Action | Code (`m/booking/booking.service.ts` unless noted) |
|---|---|
| `CreateAccept`, `CreateRefuse` | `create`, 107-128: the decision (its reads are in `Reservation`) |
| `GenerateBookingCode`, `...GivesUp` | `generateBookingCode`: look up, at most five candidates |
| `InsertBooking` | `BookingRepository.createBooking`; a duplicate code fails on the unique column |
| `CreateBookingHold` | SET of the hold, EX 120, after the insert |
| `ConfirmPayment`, `ConfirmPaymentLock` | `confirmPayment`: begin, SELECT ... FOR UPDATE, the two checks |
| `ConfirmPaymentRelease` | UPDATE and INSERT (invisible until the commit), then DEL of the hold (visible at once) |
| `ConfirmPaymentCommit`, `PayRollback` | the two ends of `manager.transaction` |
| `SendBookingInvoiceEmail` | the mail after the commit, not awaited, failures logged |
| `CancelRead`, `CancelLoad`, `CancelUpdate`, `CancelRemoveHold` | `cancel`: plain read and checks; `save()` = its SELECT, then an UPDATE of the columns that differ; DEL |
| `OwnerRead`, `OwnerLoad`, `OwnerUpdate` | `updateBookingStatus`: the same, no check of the present status, the hold stays |
| `RequestFails`, `ExpireHold` | an awaited call throws; the hold's 120 seconds are over |

`save()` is modelled as TypeORM does it: it loads the row, compares, and updates only the columns
in which the entity in memory differs from what it loaded (`Saved`). That is why two statements of
a cancellation may be separated by a payment and still write one column and not the other. A crash
of the process is `RequestFails` or `PayRollback` for every request in flight.

`BookingLedger` has no requests, locks or entities: `Book`, `Pay`, `Cancel` and `Override` are
single steps on `row` and `invoices`. `Pay` flips both statuses and adds the invoice at once and
only from PENDING_PAYMENT; the others may leave PAID only where an invoice backs it; only
`Override` takes a booking out of CANCELLED. The refinement mapping is the identity on `row` and
`invoices`: the tables themselves behave like the ledger.

### Review

`FindBooking`, `FindReview` and `InsertReview` are the three awaits of `createReview`: the booking
must be PAID at the first, unreviewed at the second, and the insert fails if another request has
reviewed it since (the unique index on the booking's code). `FindById` and `UpdateStatus` are the
moderator's; `DeleteReview` refuses everybody (section 5). Reviews carry no user, for the DTO has
none. The bookings go on living meanwhile: a review may come to stand behind a booking that is
cancelled or set back.

### StayDates and Listings

A date string is a day, an hour and an offset; `Instant`, `StoredDay` and `LocalTime` are what
`new Date`, a DATE column and the driver make of it. `calculateNights` uses the first ten
characters only; `StoredNights` counts between the two days the DATE columns hold. `Nights` is the
reference: the set of nights a guest pays for.

`Listings` gives `HotelSearchService.search` and `getHotelReviews` as functions of what they read. A
text is the set of words that occur in it, because `includes()` is all that is asked of one;
`slice` is JavaScript's, negative places included. The references are `Suits` (could this guest take
this room type?) and `IsFiltered` (are these the entries asked for, each once and in order?), of all
the pages in a row (`Joined`). `filter` is written with `Joined`, a recursive function, and not as
`SelectSeq`, of which the prover knows nothing.

`PureFunctions` has one variable, the input, and no step but stuttering, so that what the functions
return is an invariant, which TLC checks for the inputs of `MCPure` and the proofs for all. Its
constants are the days, the words, the searches and the readings of review pages; that a room type
has no more rooms available than it has rooms, and that a search has a positive page size, is assumed
of them.

### Reservation

Adds to each create request the stay it asks for and the four values the engine reads, each in a
step of its own: `ReadBlocked`, `ReadBooked`, `ListHolds` (KEYS) and `ReadHolds` (MGET). They may
come in any order, as under `Promise.all`; KEYS precedes MGET. `Decide` is `available` and
`canBook`. Every query and key is filtered by room type, so one room type is modelled; its
`totalQuantity` is the variable `total`, read first (`BeginCheck`) and changed by `UpdateTotal` at
any time (an update, or an image upload that writes back the total it read). `CreateBlock` and
`RemoveBlock` look at nothing. `NoOversell` counts what is taken on each night, by promised bookings
and by blocks, against `total`. `causes` is a history variable: which of six things has happened
that the code does nothing against: two creates at once, a payment during a check, a payment of a
booking no longer held, an owner who confirms a booking or reopens one whose hold is still there, a
block or a cut of the total that takes rooms already promised or about to be. A sum over bookings or
blocks is the number of their rooms (`Rooms`).

`RoomLedger` is what the endpoints promise about the rooms, with no requests, reads, holds, rows or
locks: `Ask` (a booking is for a stay), `Promise`, `Release`, `Close`, `Reopen` and `Resize` are
single steps, and until the ledger is `disturbed`, `Promise` wants the rooms left on every night of
the stay, and `Close` and `Resize` want everything promised to fit. The refinement mapping
(`Inventory`): a booking is promised its rooms while it is confirmed, held or being paid
(`Promised`), and the ledger is disturbed once a cause has arisen. So the seven awaits of a create
request are two steps of the ledger, the insert and the hold; a payment, which moves the rooms from
Redis to MySQL, is none; a hold that expires, a cancellation and a failed commit are `Release`.

### Catalog

Hotels and room types go through the same steps, so they share their actions: read the row, check
the phone or name if it changes, `save()` (its SELECT, then its UPDATE), DEL one page; a deletion
is `softDelete`, then DEL. Pages are looked up, else rendered from their SELECTs one by one, and
set for 300 s; a creation of a room type begins with such a look-up of its hotel. `text` stands for
all the columns an update may set and no property tells apart. Room type names are compared in
lower case (`Lower`), by the services and by MySQL 8's default collation alike; phones as they are.
`save()` loads deleted rows too, so an entity read before a deletion carries `deletedAt = null` and
undoes it. In `RoomTypeRepository.updateRoomType` a name that was not sent is `undefined` in the
entity, and `save()` skips the column (`Sent`). The list page has one key per query string; here
there is one per hotel, which stands for a query that finds it.

Three history variables say what may be wrong, thing by thing. `overtaken`: the requests in flight
that rely on a row changed since they read it (or on a page already out of date). `spoilt`: the
cached pages with a cause to be wrong. A page is spoilt when a request that had been overtaken
stores it, when a request fails between its UPDATE and the page's DEL, or when a seed changes what
the page shows, for no seed deletes a page; it is no longer spoilt when it is deleted, expires or is
stored again by a request that was not overtaken. `doubtful`: the room types that have a cause to be
second of their name. A room type becomes doubtful when an overtaken request gives it its name or
brings it back, or when booking-test.seed brings it back, which asks for no other room type of the
name; it is no longer doubtful when it is removed, or renamed by a request that was not overtaken. So
every stale page and every pair of room types with one name has to have a cause of its own, and one
that went wrong long ago excuses nothing else.

Two seeds write these tables, and a run of one is a request here. hotel.seed, when a process starts:
`CountHotels` (removed hotels are not counted), then `SeedHotel` for each entry of `SEED_HOTELS`, a
transaction each; a phone that is taken ends it (`Clashes`), and what it has inserted stays.
booking-test.seed, by hand: `FindTestHotel` reads the hotel with its phone and the room type with
its name, removed ones included, and `UpsertTestHotel` revives and saves them, or inserts them, in
the same transaction. Neither deletes a page. Runs of either may meet requests, each other and
themselves. The list of a hotel's room types is cached for any id, also of a hotel that is not there
(`RoomTypeService.findByHotelId` asks for no hotel), and a seed may insert the hotel afterwards.

### Access

`setUserRoles` and `syncRolePermissions` are the same code twice, so a link is `[of, to]` with a
user or a role as subject. A request goes through the guard (`GetUser`, `FindRoleIds`,
`FindPermissions`: three reads, `hasPermissions`), looks its subject up (`FindSubject`), validates
the ids it was sent (`Validate`), reads the present ones (`FindCurrentIds`) and writes the
difference in one transaction (`SetLinks`). `by` tells equal rows apart: the link tables have no
unique index. `RemoveUser` leaves the links; `FindRoleByCode` and `InsertRole` create roles.
rbac.seed is `RunSeed`, the first SELECT of its transaction, which fixes what all of them see
(REPEATABLE READ, MySQL's default), and `Seed`, the commit of everything it then inserts: the
permissions not seen, the roles whose codes were not seen (`MissingCodes`), and the links of each
role of its lists that were not seen. A permission that another run has inserted in between makes it
fail (`UniquePermissions`); a role or a link does not. The tables begin empty, or as a run with
shorter or longer lists left them. The instance's `RequiredBy` says which endpoint requires which
permissions; those of roles require none, as in the code. Three history variables: `moments[r]`, the
answers r's guard would have given if it had read everything at once, at one moment or another of
its reading; `changed[r]`, which of the things r relies on have changed since; `disturbed`, the
subjects and codes written by a request with such a change.

### Accounts

Registration and POST /users look the e-mail up (`CheckNewEmail`, removed users included), insert
the user (`InsertUser`, unique column) and, for a registration, the credential in a second insert
(`CreateLocalCredential`). Logins: `FindByEmail`, `ComparePassword`; with a second factor they end
in a token (`mfaTokens`) that `VerifyMfa` and `FindVerified` turn into an access token until
`MfaTokenExpires`. A login with Google finds its credential (`FindProviderAuth`, `FindLinked`), or
the user with the profile's e-mail who has no Google credential yet (`FindByProfile`,
`FindExistingProvider`), or nobody (`CheckEmail`, `InsertUser`, `FindCreated`), and then links
(`CreateGoogleCredential`). `ReadUser`, `Load`, `UpdateUser` are PATCH with TypeORM's `save()` as in
`Catalog`; `FindToRemove` and `SoftDelete` are DELETE. admin.seed, whenever a process starts, is
`LookForAdmin` (among users that are not removed; without the role it stops) and `SeedAdmin`, one
transaction with user and credential; the users begin empty, or with the administrator. Passwords,
codes and Google's tokens are right or wrong. History: `active[r]`, who has been ACTIVE during r;
`stale`, the requests overtaken by a write to what they had read; `moved`, the Google logins during
which an e-mail changed; `loose`, the users left without a credential by a request that was to make
none or ended before it did.

### SmtpSession and Delivery

One `send()`: `step` is the command whose answer it awaits, `waiters` and `buffer` are the
session's. An answer is a sequence of pieces: continuation lines, the head of the last line (code,
space, some text) and the rest of it in one or more pieces, so that the network can cut it at the
places that matter: inside a line, between `\r` and `\n`, between answers. The session takes an answer
as soon as the space after the code is there. What comes of the line later is then the first line of
the buffer and is read as what it looks like (`Looks`): text, the `\n` alone, a number of more than
three digits (whose first three are the code of the answer it becomes part of), or three digits and a
space, which is an answer of its own. `answers` remembers for each answer given to a waiter which
command the server had answered with that text, and whether it was such a rest. `Flush` is `flush()`
and `nextCompleteResponse()`: at most one answer for the first waiter. `Resume` is the code after an
`await` up to the next one; it comes before any other event of the client, as microtasks do.
`Timeout` rejects a waiter and leaves it in the queue; `SocketEnds` is the `error` or `close` event.
Server and network are external: the server answers as expected, refuses, or shuts down with a 421;
it may also fall silent.

`Delivery` is what is left for the caller: `outcome`, `accepted` and `misread`, four actions (`Take`,
`Misread`, `Succeed`, `GiveUp`) and the fairness that one of the last two comes. `SmtpSession`
implements it, with the identity on `outcome` and `accepted`, and with `misread` once a waiter was
given a rest of a line as its answer: so every `send()` ends, and it succeeds only after the server
has taken the message or an answer was misread. It may end badly although the message was taken, and
well after a misreading although it was not: the specification allows both, and the code does them
(section 5).

## 3. Runs

Requests (and ids that no constant tells apart) are interchangeable in every run that has requests
and no liveness property: symmetry is used there, and not in `lifecycle_owner`.

| Run | Instance | What it shows |
|---|---|---|
| `review_desk` | 2 bookings, 4 requests, 2 review requests, owners only cancel | who is CONFIRMED has paid; one invoice at most; mails follow commits; reviews are backed by an invoice and unique |
| `lifecycle_owner` | 1 booking, 3 requests, any owner status, fair | PAID rests on an invoice; `IndInv` holds; the rows follow `BookingLedger`; every request is answered, those waiting for a lock too |
| `reservation_races` | 3 bookings, 3 requests, 2 rooms that become 1 or 3, two blocks that are equal but for their ids, owners confirm, reopen and cancel; explored up to the first cause | `OversellHasACause`; until a cause arises, requests are single steps of `RoomLedger` |
| `pure_functions` | days 0-3, 3 hours a day, all zones; small lists of hotels and of reviews | the overlap tests never lose a night; back-to-back stays do not compete (server in UTC); the nights charged are the nights stored; searches and pages contain what they should |
| `catalog` | 2 hotels and 2 room types, 1 owner, 3 requests or runs of a seed, 2 labels | phones are unique; only a removed hotel stops an undisturbed hotel.seed half-way; changes nobody overtook do what they say; each stale page, each second room type of a name and each room type of a removed hotel has a cause of its own |
| `access` | 2 users, 3 roles, 2 permissions, 2 codes, 3 requests or runs of rbac.seed; empty or seeded tables | the guard's answers were right at a moment; replacements nobody disturbed do what they say; duplicates have a cause; links refer |
| `accounts` | 3 users, 2 e-mails, 2 Google accounts, 3 requests or runs of admin.seed; with or without an administrator | e-mails are unique; tokens go to active users; the unique column refuses only who was overtaken; second credentials and users without any have a cause |
| `smtp_session` | answers of one or two lines, with last lines cut in five ways, with and without STARTTLS, fair | the session implements `Delivery`; answers and commands stay in step until a rest of a line is read as an answer |
| `lifecycle_cancel_over_pay` | violation | a cancellation undoes a committed payment and leaves its invoice |
| `lifecycle_pay_again` | violation | a PAID booking put back to PENDING_PAYMENT is charged again |
| `catalog_images` | violation | an uploaded image is lost |
| `catalog_public` | violation | public pages outlive the change |

Why the bounds are enough. A race here needs one request that read, one that overtook it and, for
some, one that made the table so. In `review_desk` four requests let a create, a payment and two
cancellations meet while two guests review. `lifecycle_owner` has one request that holds the lock,
one that waits and one more. Two rooms, and stays of one and two nights with quantities 1 and 2,
give partial overlap, touching and nesting; three days suffice because every test compares two end
points with two end points. In `pure_functions` an hour is a third of a day, so that offsets can
move a midnight to either neighbouring day or neither; lists of four entries in pages of one to
three have full pages, a last page that is not full, and none. The theorems remove these bounds. In
`catalog`, three requests are what it takes to delete a room type, create another of its name and
revive the first. In `access`, three requests let the guard of one read between two changes by the
others, and two replacements of the same links overlap a third; the third role is there for a
second role of a code. In `accounts`, the administrator and two more users, of whom each may be
created, removed or linked, and an e-mail more than the administrator needs. `MaxMore` = 1 gives
continuation lines and their absence; each command is awaited once, so nothing longer can pile up.
`MCRests` has a rest of each look, and one of two pieces that look like the answers to the body and to
QUIT, with which a whole mail can be misread.
Counters: there are none; the five attempts of `generateBookingCode` are a nondeterministic choice
between "found a free code" and "gave up". `smtp_session` is checked without deadlock checking,
because a `send()` ends; in every other run nothing may be stuck (`AllDone` stutters when all
requests are answered and nothing is left to expire). In `catalog`, names are compared as they are
(`Lower` is the identity), to keep one instance for phones and names.

`reservation_races` is cut off by the constraint `NoCauseYet`: `OversellHasACause` says nothing of
what follows a cause, so states after one are checked and not explored further. The run is of the
whole behaviour up to there, almost 900,000 states; what follows is the other runs' subject
(`lifecycle_*` put no such limit on the same actions).

Experiments behind `OversellHasACause`: each of the six causes is needed; taking any one of them out
of `Arising` makes TLC find an oversold night. The same for the three causes of `spoilt` and the two
of `doubtful`: without any one of them, `StalePageHasACause` or `DuplicateNameHasACause` fails.

Seeds in the instances: hotel.seed has two hotels, one room type each, so that it can stop between
them, and the test hotel has the phone of the second. rbac.seed provides for the first of two codes,
with both permissions, over tables that have one. The two violation runs of `Catalog` run no seed,
to keep their counterexamples about requests.

### Fairness

Two runs assume any. `lifecycle_owner`: weak fairness of `Continue(r)` (the event loop resumes every
promise that settles; MySQL and Redis answer or fail; a transaction callback that throws is rolled
back) and of `ExpireHold(b)` (Redis expires keys). Nothing is assumed of arrivals and failures. Weak
fairness suffices for lock waiters because requests are finitely many, so the lock is not taken away
from a waiter for ever. `smtp_session`: weak fairness of `Resume` (settled promises run on) and of
`Timeout` (Node's timers fire). Nothing is assumed of the server and the network, which may fall
silent for ever.

## 4. Proofs

All proofs are for any finite or infinite sets of bookings, requests, hotels, users and so on.

*Booking lifecycle.* `PaidHasInvoice` is not inductive: whether a save may write PAID depends on
what some request has in memory, and whether a commit is right depends on what was true when the
lock was taken. `IndInv` says both. Its conjuncts are `TypeOK`; `CodeInv` (a request past its first
step has a booking code); `TransactionInv` (a payment in its transaction holds the lock, and the row
is still PENDING_PAYMENT: nobody else could write it); `SaveInv` (an entity in memory claims PAID
only if there is an invoice already, and a cancellation's entity is never PENDING); `RowInv` (the
same for rows) and `InvoiceInv` (only committed payments have invoices, and keep them).
`NextTypeOK` and `NextRest` prove it preserved action by action. From it:

- `TypeCorrect`: `TypeOK`.
- `PaymentBacked`: no booking is PAID without an invoice, whatever statuses owners send.
- `MailsBacked`: mails tell of committed payments only.
- `ChargedOnce`: if owners never send PENDING_PAYMENT, a booking has one invoice at most. The
  assumption is necessary: `lifecycle_pay_again` is the counterexample without it.
- `ConfirmedWasPaid`: if owners only close bookings (CANCELLED, EXPIRED, FAILED), who is CONFIRMED is
  PAID. A save that leaves the status alone because entity and row agreed on a closed one must not
  meet a payment: nothing reopens a closed booking, so the row is still closed when the UPDATE comes.
- `ImplementsLedger`: `Spec => Ledger!Spec`, each action mapped to a ledger step or a stutter.
- `Invariance`: `IndInv` itself, which a run checks as well.

*Reviews.* A review rests on what a row said at one moment, so the row may say something else by now
and only the invoice remains. `RevInv` is `IndInv` and what requests have seen: whoever is past
`FindBooking` has a booking with an invoice, and so has every review. It is preserved because
invoices are never taken away, which is `ImplementsLedger`'s step lemma once more. From it
`ReviewsAreBacked` and `ReviewsAreUnique` (the unique index). `ReviewsLeavePaymentsAlone` says that
the lifecycle's theorems hold beside reviews, as the run checks them.

*Stay dates.* `HeldOverlapIsExact`: for date-only stays a hold competes exactly when a night is
shared. `StoredOverlapMissesNothing`: in every server time zone, a stored booking or block that
shares a night competes. `UtcStaysMissNothing`: neither test misses a night when the strings carry
times in UTC and the server is in UTC. `StoredOverlapIsExactInUtc`: there, date-only stays that only
touch do not compete. `ChargedNightsAreStored`: for strings with one offset, and one time of day
unless the server is in that offset, as many nights are charged as lie between the stored days. The
lemmas are about `\div` on midnights and sets of nights.

*Pure functions.* `SharedNightsAlwaysCompete` and `NightsChargedAreAlwaysStored` put the theorems on
stay dates together into the invariants of the run, for any set of days. `ReviewPagesAreAlwaysExact`
and `SearchIsAlwaysExact` are about lists of any length and pages of any size. They need induction,
which is had from the well-foundedness of the naturals without a theorem that takes an operator: a
set of naturals that is not empty has a least element (`Least`), so a set with 0 in it and n + 1 for
each n in it has them all (`Inductive`). With that, `Joined` is what its recursion says
(`JoinedSteps`), `filter` keeps the entries asked for, each once and in order (`KeptIsExact`), and the
pages of a list, put together, are the list (`PagesMakeTheList`), for `Math.ceil` gives enough pages
and the last one is not empty (`EnoughPages`). What remains is that an offer is made exactly where the
reference says the room type suits (`OfferedSuits`, `OffersAreExact`), that the cheapest price is one
of the offers' (`EntriesAreTrue`), and that the page asked for changes nothing but the page
(`SameResult`).

*Reservation.* `ReservationIsALedger`: every step of `Reservation` is a step of `BookingLifecycle` or
a stutter on its variables, so its theorems carry over. `ReservationTypes`: `ResTypeOK`.
`OversellIsCaused`: `OversellHasACause` is far from inductive, for the decision to accept rests on
four reads of different moments. `CauselessInv` says, as long as nothing has happened that counts as
a cause, what each request may rely on: what it has read is no less than what there is now
(`ReadsBound`: others have only given rooms back), and once accepted its rooms are left on each of
its nights (`RoomsLeft`). Each action either preserves this or is a cause, and the step that accepts
turns the one into the other. `StayInv` and `LockInv` (a lock has a payment behind it) supply what
rows, stays and locks have to do with each other. The theorem assumes `NightsSeen`: the overlap tests
miss no night shared by stays and blocks that occur. `OversellIsCausedByDay` replaces that by
conditions on the strings: dates without a time, on a server anywhere, or times in the server's zone.
With offsets that differ the tests do miss nights, and the condition is needed.

`ReservationIsARoomLedger`: under the same assumption, `ResSpec => InventorySpec`. The argument is
`ResInv` once more. `HoldIsLeft` shows that where a hold is set and no cause has arisen, the rooms
are left on each night of its stay (`RoomsLeft`); `OnePromise` that a step changes the promise of
one booking at most; `CauselessStays` that everything fits until a cause arises; and `StepIsLedger`
maps each action to its ledger step or a stutter. `ReservationIsARoomLedgerByDay` is the same under
the conditions on the strings.

*Catalog.* `UniquePhones`: phones are unique. `PhoneInv` adds to it what requests hold: `Sound(q)`
says that who is about to save has an entity and a row that exists. `ReadingStep` and
`WritingStep` reduce every action to "one request moves to a sound state" and "one row is written
with a phone nobody else has"; the seeds' steps write a hotel and a room type at once and are
`WritingBothStep`. `Clashes`, the unique column, is used wherever a hotel is written, and without it
each of these fails.

`CatalogInv` is what the other properties rest on. Its first half, `StoresInv`, holds of everybody,
overtaken or not: who is at which step with what in hand (`Holding`), a room type's hotel has a row,
no page of a missing hotel is kept. Its second half, `CurrentInv`, is the meaning of the history
variable: unless a request was overtaken, what it has read is what the tables hold and what it has
checked is so (`Current`). `StoresNext` and `CurrentNext` prove it preserved, from the observation
that each step is one request's and moves no other (`OneMoves`), and that a row written makes all who
rely on it overtaken (`CurrentKept`). Who acts without breaking anything was not overtaken
(`WriterKnows`), so:

- `SeedsStopAtRemovedHotels`: unless another request or run changed a hotel since the count, at each
  of its hotels hotel.seed finds none but those it has inserted, of which no two have a phone in
  common (an assumption on `SEED_HOTELS`, which the source satisfies). Removed hotels are not
  counted, so the phone of one stops the seed with nobody else about (section 5).
- `DuplicateNamesAreCaused` and `StalePagesAreCaused`: inductive beside `CatalogInv`. For the pages,
  a step either leaves what a page is made of alone, or its request is now the one that is to delete
  it (`WriterSettles`), or the page is spoilt (`SeedSettles`, for the seeds); a page that is set by a
  request nobody overtook is set as it would be rendered now. For the names, whoever looked for a name
  and was not overtaken finds it free when it is written (`NoSecondName`).
- `RoomTypesAreHoused` and `ChangesAreExact`: what a step may never do, for the same reason; `save()`
  writes exactly the entity when it loads the row that was read (`SavedUndisturbed`).
- `RequestsAreSound`: `PhoneInv` itself.

*Access.* `IndInv` is `RefInv` and `MomentInv`. `RefInv` (`LinksAlwaysRefer`): ids that were
validated still exist when they are written, some awaits later, because nothing removes a role or a
permission and only rows of validated ids are inserted; what a seed saw when its transaction began
is still there when it commits, for the same reason. `MomentInv` (`VerdictsHaveMoments`) follows a
guard through its reads: unless users, or user links, have changed since, what it has read is what
it would read; and unless two of the three have, the answer it is heading for is in `moments`.

`ComparedInv` adds what a request compares with the tables: unless its subject, or the codes, have
changed since (`changed`), the links it read are the links there are, and the code it looked up is
still free. `DuplicateLinksAreCaused` and `SameCodesAreCaused` are inductive with it, and
`ReplacementsAreExact` follows: the difference was computed against the links that are replaced.
`AccessIsInductive` is `IndInv` itself.

*Accounts.* `IndInv` is `TypeOK`, `AllPrepared` (what a request has in memory at its next step),
`SeenActive` (who is past the check of the status was ACTIVE during the request) and
`EmailIsUnique`. `EmailsStayUnique`: every write of a row goes through `Clashes`, the unique column;
the look-ups before it are not needed for that, only for `FreeUntilOvertaken`.
`TokensGoToActiveUsers` from `SeenActive`. `OrphansHaveCauses`: `OrphanHasACause` is inductive
beside `IndInv`, because credentials are never taken away: a user is inserted by a step that makes a
credential too, or by a request that then is between its two inserts, and whichever step takes it
from there makes the credential or adds the user to `loose`.

`MemoryInv` is the same idea for what requests remember: `Fresh`, unless overtaken by a write to what
it had read (`stale`); `SameUser`, unless an e-mail changed during a login with Google (`moved`);
`OnCourse`, always. From it `NoRefusalWithoutARace` (the unique column refuses only who was
overtaken), `SecondCredentialsHaveCauses`, `AccountsHaveOneUser` and `UpdatesAreExact`. `Inductive`
is `IndInv` itself.

*SMTP.* The session matches answers to commands by counting, so what must be shown is whose answers
are on their way. `SessionInv` looks at `Stream`, everything the server has said and the session not
taken, be it in the buffer or in the network. As long as `send()` goes on, one answer at most is
outstanding (`OneAnswer`): to the command awaited, with its continuation lines before its last line,
or a 421; rests of answers already taken are the only other thing there. `TakenInv` adds what a 250
to the body means. Both hold until a rest is read as the code expected (`Misread`), after which
nothing is claimed but that the session ends. The chunks are arbitrary prefixes and the rests
arbitrary sequences of looks, so `flush()` is reasoned about through lemmas on sub-sequences. From it
`SessionTypes`, `OnlyLeftoversShift` (`AnswersInStep`) and `SessionIsADelivery`: every step is a step of
`Delivery` or a stutter, which is `DeliverySpec` without its fairness. That `send()` ends is left to TLC.

Assumptions, all on constants and evaluated by TLC in every run: `OwnerStatusAssumption` (owners
send statuses of the enum: the DTO validates), `NoneAssumption`, `HoursAssumption`,
`ReservationAssumption`, `CatalogAssumption`, `AccessAssumption`, `AccountsAssumption`,
`SmtpAssumption` (ids are
distinct, `None` is none of them nor a row; what the seeds leave behind; `SEED_HOTELS` have phones
of their own) and `InputsAssumption` (`None` is no number; what searches and readings are made of).
The assumptions of single theorems are in their statements: `ConfirmedWasPaid` and `ChargedOnce`
about the statuses owners send, `OversellIsCaused` and `ReservationIsARoomLedger` about dates.
`review_desk` and `reservation_races` are instances within them.

Model-checked only, and why:

- `EveryRequestEnds` and the liveness of `DeliverySpec`: fairness and ENABLED are out of TLAPS's
  reach.
- The violation runs' properties, which do not hold.

## 5. Findings and observations

The four violation runs are disagreements with the repository's own documents; `PROJECT.json`
quotes the lines. Besides, not contradicted by any document:

- The hold lasts 120 s, the booking stays payable for ever: no job sets EXPIRED, and
  `confirmPayment` does not look at the hold. A late payment may find the rooms sold.
- The hold is deleted inside the transaction, before the commit: in between the rooms are counted
  nowhere, and if the commit fails the booking is PENDING_PAYMENT without a hold.
- A confirmation by the owner leaves the hold: until it expires the rooms are counted twice.
- Blocks are created without a look at bookings; the engine adds up everything that overlaps the
  range, not the busiest night, so it may refuse a stay that fits. Neither oversells.
- `totalQuantity` may be set below what is promised, or raised again by an image upload that read it
  before the cut; nothing compares it with bookings or blocks.
- On a server east or west of UTC a stored booking may compete with a stay that only touches it;
  strings with two different offsets, or with two times of day on a server elsewhere, may be charged
  a night more or less than is stored.
- A stale `save()` may bring back a hotel's former owner, and a deleted hotel or room type.
- Renaming a room type to its own name in another case is refused: it finds itself.
- The phone of a deleted hotel passes the check and then fails on the column, as a server error.
- hotel.seed stops at a phone that a removed hotel, or a second process, holds; what it has inserted
  stays, so that the next start finds hotels and never completes it. A removed hotel's phone is enough:
  nobody else need do anything.
- booking-test.seed takes the test hotel from its owner, and may bring a removed room type back beside
  one that was given its name since, with nobody else about.
- Neither catalog seed deletes a page. The list of room types is cached for ids without a hotel too, so
  it may be shown empty for 300 s after a seed has inserted the hotel.
- An administrator who has been removed is never seeded again: the look-up does not see the row and
  the unique column does, so every start logs a failed insert.
- rbac.seed gives back permissions that were taken from a role of its list. Two runs at once, over
  tables that have all permissions, may insert the same links, or the same role, twice.
- Between the insert and the credential of a first login with Google, the new user can be linked to
  another Google account with the same e-mail: nothing looks again.
- The guard reads a user, their roles and the roles' permissions one after the other. If two of
  these change meanwhile it may combine a role that was taken away with a permission the role was
  given afterwards. The endpoints of roles require no permission at all.
- The links of a removed user stay, and so do the credentials. Two replacements of a user's roles
  that overlap may leave a mixture, and duplicate links.
- A registration that fails between its two inserts leaves a user nobody can log in as by password,
  whose e-mail is taken.
- Two logins with the same new Google account that overlap link it twice; if the user's e-mail
  changes between them, to two users. A PATCH that read a user before the removal revives the user.
- DELETE /reviews/:id answers 403 to everybody: reviews have no `userId`, since the DTO does not let
  one in, and the JWT guard puts no role on the request.
- SMTP: of an answer cut inside its last line, the rest of the line stays in the buffer and becomes
  the beginning of the next answer, which is then refused for its code, or, if the rest is a single
  `\n`, not recognised before the timeout: a mail may be logged as failed that the server has taken.
  If the rest begins with three digits and a space ("221 bytes ..."), it is an answer of its own. If
  that is the code expected, the dialogue is a step ahead of the server from then on, and a mail may
  be logged as sent that the server refuses. That takes a cut in that very place, of a line with such
  a text, and for a refused mail to be logged as sent the answers up to QUIT have to be misread too.
- Hotel search: `page` is not clamped. A page of -1 or less shows hotels from the end of the list;
  `pageSize=0` divides by zero. Its reads are not of one moment, so what it offers may be sold.

## 6. Not modelled, and why

Quotes, finders and uncached lists read only. The mail's text, invoice codes (date and a random
part; a duplicate is a failed insert, i.e. `PayRollback`), prices, guests' names: no property tells
them apart. Payments are not taken from any provider: "charged" means CONFIRMED, PAID and invoiced.
Several server processes behave like more requests, and a restart like the end of all requests of a
process and new runs of its seeds, since nothing is kept in memory. A payment's transaction locks
one row; the seeds' transactions write several, and a lock wait or a deadlock in them is one of
their failures (`Fail`), after which nothing of the transaction remains. Isolation is read-committed
as far as it matters: each SELECT outside the payment's transaction is a statement of its own.

The components with status `not_modelled` in `PROJECT.json` are I/O, output and wiring: `S3` (an
upload is an await of `Catalog` that may fail), `Logger`, and the modules, decorators, filters and
response wrappers. `Redis` and `Database` are `partly`, because only the commands that the services
use exist in the models, as their steps. Of the seeds, the texts and descriptions they update are
left out; of rbac.seed, that it sets status and names of what it finds.

## 7. Plan

In this order, because money and rooms come first: `BookingLedger`, `BookingLifecycle`, `StayDates`,
`Reservation`, `Catalog`, `Access`, `Accounts`, `Review`, `SmtpSession`, `Listings`, the seeds in the
modules whose tables they fill, `Delivery`, `RoomLedger`; then the proofs of each, type invariants and
unique columns first, the invariants of what requests remember after them, the refinements and the
pure functions last. Every invariant and every action property that a passing run checks is now proved
for all values of the constants, and so is every refinement, but for the fairness of `Delivery`.

What could be added, in this order:

1. An abstract specification for `Access`, as `RoomLedger` is for `Reservation`: each replacement is
   one step unless disturbed (`ReplacementsAreExact` says so of the last step only). The same for the
   changes of `Catalog`.
2. Room type names that differ in case only, in an instance of `Catalog` of their own; the theorems
   about `Catalog` hold for any `Lower`.
3. Several room types in `Reservation`, for a creation that names one and an owner who cuts another:
   every query and key is filtered by room type, so that they do not meet.
