------------------------------ MODULE Listings ------------------------------
(***************************************************************************)
(* The two listings that filter or cut a list in memory or by the page:    *)
(* GET /hotels/search in src/src/modules/hotel and GET /hotels/:id/reviews *)
(* in src/src/modules/review, as functions of what they read.              *)
(*                                                                         *)
(* A text is the set of the words a guest may look for in it, since all    *)
(* that is asked of it is includes().                                      *)
(***************************************************************************)
EXTENDS StayDates, Sequences, FiniteSets, FiniteSetsExt

CONSTANT None    \* a parameter that was not sent

\* A room type: name, price, totalQuantity, and the number that
\* AvailabilityService.check finds available for the stay searched for.
\* A hotel: city and roomTypes, a sequence.

\* The lists in parts, one after the other.
Joined(parts) ==
    LET upTo[n \in 0 .. Len(parts)] == IF n = 0 THEN <<>> ELSE upTo[n - 1] \o parts[n]
    IN  upTo[Len(parts)]

\* Array.prototype.filter
filter(s, Test(_)) == Joined([i \in 1 .. Len(s) |-> IF Test(s[i]) THEN <<s[i]>> ELSE <<>>])

-----------------------------------------------------------------------------
(* HotelSearchService.search *)

Includes(text, word) == word = None \/ word \in text

Within(price, q) ==
    /\ q.minPrice # None => price >= q.minPrice
    /\ q.maxPrice # None => price <= q.maxPrice

Dated(q) == q.in # None /\ q.out # None

\* 'Invalid date range'; one date alone is ignored.
Invalid(q) == Dated(q) /\ Instant(q.in) >= Instant(q.out)

\* Slip: a room type with rooms left is offered, however many are needed.
AnyRoomLeft(room, q) == Dated(q) => room.available > 0

canBook(room, q) == Dated(q) => room.available >= q.quantity

Offered(room, q) == Includes(room.name, q.roomType) /\ Within(room.price, q) /\ canBook(room, q)

\* What is said of a room type: without dates, all its rooms.
Offer(room, q) ==
    [name |-> room.name, pricePerNight |-> room.price,
     availableQuantity |-> IF Dated(q) THEN room.available ELSE room.totalQuantity]

availableRoomTypes(hotel, q) ==
    LET Fits(room) == Offered(room, q)
        fitting == filter(hotel.roomTypes, Fits)
    IN  [i \in 1 .. Len(fitting) |-> Offer(fitting[i], q)]

Entry(hotel, q) ==
    LET rooms == availableRoomTypes(hotel, q)
    IN  [hotel |-> hotel, availableRoomTypes |-> rooms,
         minPricePerNight |-> Min({rooms[i].pricePerNight : i \in 1 .. Len(rooms)})]

\* Hotels of the city with something to offer, in the order they were read.
Result(hotels, q) ==
    LET Shown(hotel) == Includes(hotel.city, q.city) /\ availableRoomTypes(hotel, q) # <<>>
        shown == filter(hotels, Shown)
    IN  [i \in 1 .. Len(shown) |-> Entry(shown[i], q)]

\* Array.prototype.slice: negative places count from the end.
slice(s, from, to) ==
    LET At(i) == IF i < 0 THEN Max({Len(s) + i, 0}) ELSE Min({i, Len(s)})
    IN  SubSeq(s, At(from) + 1, At(to))

\* Slip: pages are counted from 0.
PageFromZero(s, page, pageSize) == slice(s, page * pageSize, (page + 1) * pageSize)

paged(s, page, pageSize) == slice(s, (page - 1) * pageSize, page * pageSize)

\* Slip: a page that is not full is not counted.
FullPages(n, pageSize) == n \div pageSize

\* Math.ceil(totalItems / pageSize)
totalPages(n, pageSize) == (n + pageSize - 1) \div pageSize

\* GET /hotels/search, with pageSize > 0.
search(hotels, q) ==
    LET result == Result(hotels, q)
    IN  IF Invalid(q) THEN [error |-> "Invalid date range"]
        ELSE [data |-> paged(result, q.page, q.pageSize), totalItems |-> Len(result),
              totalPages |-> totalPages(Len(result), q.pageSize)]

-----------------------------------------------------------------------------
(* ReviewService.getHotelReviews *)

\* Math.max(1, Number(query.page) || 1)
reviewPage(n) == IF n \in {None, 0} THEN 1 ELSE Max({1, n})

\* Math.min(50, Math.max(1, Number(query.pageSize) || 10))
reviewPageSize(n) == IF n \in {None, 0} THEN 10 ELSE Min({50, Max({1, n})})

\* findByHotelId: the visible ones, newest first; OFFSET and LIMIT.
getHotelReviews(rows, q) ==
    LET Visible(x) == x.status = "VISIBLE"
        visible == filter(rows, Visible)
        page    == reviewPage(q.page)
        size    == reviewPageSize(q.pageSize)
    IN  [data |-> SubSeq(visible, (page - 1) * size + 1, Min({page * size, Len(visible)})),
         page |-> page, pageSize |-> size, totalItems |-> Len(visible),
         totalPages |-> totalPages(Len(visible), size)]

-----------------------------------------------------------------------------
(* Reference: what a listing should contain *)

\* A guest who asks for this, the stay included, could take this room type.
Suits(room, q) ==
    /\ q.roomType = None \/ q.roomType \in room.name
    /\ q.minPrice = None \/ room.price >= q.minPrice
    /\ q.maxPrice = None \/ room.price <= q.maxPrice
    /\ q.in = None \/ q.out = None \/ room.available \in {n \in 0 .. room.totalQuantity : n >= q.quantity}

SuitsHotel(hotel, q) ==
    /\ q.city = None \/ q.city \in hotel.city
    /\ \E i \in 1 .. Len(hotel.roomTypes) : Suits(hotel.roomTypes[i], q)

\* s lists the entries of t at which P holds, each once and in order; what it says
\* of them is so.
IsFiltered(s, t, P(_), IsSo(_, _)) ==
    \E f \in [1 .. Len(s) -> 1 .. Len(t)] :
        /\ \A i, j \in 1 .. Len(s) : i < j => f[i] < f[j]
        /\ \A i \in 1 .. Len(s) : IsSo(s[i], t[f[i]])
        /\ \A k \in 1 .. Len(t) : P(t[k]) <=> \E i \in 1 .. Len(s) : f[i] = k
=============================================================================
