------------------------------- MODULE MCPure -------------------------------
(***************************************************************************)
(* Instances of PureFunctions for TLC: every pair of short stays; every    *)
(* hotel with up to two room types against every query; every list of up   *)
(* to four hotels that suit a query or do not; and every list of up to     *)
(* four reviews, visible or hidden.                                        *)
(***************************************************************************)
EXTENDS PureFunctions

UpTo(n, S) == UNION {[1 .. m -> S] : m \in 0 .. n}

\* How many rooms are left matters between none and the two a guest asks for.
RoomTypes == [name: {{}, {"sea"}}, price: {1, 2}, totalQuantity: {2}, available: 0 .. 2]
Hotels == [city: {{}, {"hue"}}, roomTypes: UpTo(2, RoomTypes)]

Queries(dates, quantities) ==
    [city: {None, "hue"}, roomType: {None, "sea"}, minPrice: {None, 2}, maxPrice: {None, 1},
     in: dates, out: dates, quantity: quantities, page: {1}, pageSize: {1}]

SomeDates == {None, DateOnly(0), DateOnly(1)}

Suited == [city |-> {"hue"}, roomTypes |-> <<[name |-> {}, price |-> 1, totalQuantity |-> 2, available |-> 2]>>]
Unsuited == [Suited EXCEPT !.roomTypes = <<>>]
Everything(size) ==
    [city |-> None, roomType |-> None, minPrice |-> None, maxPrice |-> None, in |-> None,
     out |-> None, quantity |-> 1, page |-> 1, pageSize |-> size]

SomeReviews == {[id |-> i, status |-> s] : i \in 1 .. 4, s \in {"VISIBLE", "HIDDEN"}}

SomeWords == {"sea", "hue"}

SomeSearches ==
    [hotels: UpTo(1, Hotels), query: Queries(SomeDates, {1, 2})]
        \cup [hotels: UpTo(4, {Suited, Unsuited}), query: {Everything(n) : n \in 1 .. 3}]

SomeReadings ==
    [reviews: {r \in UpTo(4, SomeReviews) : \A i \in DOMAIN r : r[i].id = i},
     query: [page: {1}, pageSize: {-1, 1, 2, 3, None}]]
=============================================================================
