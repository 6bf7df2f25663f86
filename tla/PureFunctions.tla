--------------------------- MODULE PureFunctions ---------------------------
(***************************************************************************)
(* The functions of StayDates and Listings, one input to a state: pairs of *)
(* stays, as date-only strings on servers in every time zone, and with a   *)
(* time of day, in UTC, on a server in UTC; stays whose two strings have   *)
(* one offset, on every server; searches of a list of hotels; and pages of *)
(* a list of reviews.                                                      *)
(***************************************************************************)
EXTENDS Listings

CONSTANTS
    Days,        \* the days stays begin and end on
    Word,        \* the words names and cities are made of
    Searches,    \* the hotels there are and what a guest asks of them
    Readings     \* the reviews of a hotel and the page asked for

\* The engine counts no more rooms available than there are.
RoomType == {r \in [name: SUBSET Word, price: Nat, totalQuantity: Nat, available: Nat] :
                r.available <= r.totalQuantity}

Hotel == [city: SUBSET Word, roomTypes: Seq(RoomType)]

Query == [city: Word \cup {None}, roomType: Word \cup {None},
          minPrice: Int \cup {None}, maxPrice: Int \cup {None},
          in: DateString \cup {None}, out: DateString \cup {None},
          quantity: Int, page: Int, pageSize: Nat \ {0}]

ReviewRow == [id: Nat, status: {"VISIBLE", "HIDDEN"}]

ASSUME InputsAssumption ==
    /\ None \notin Int
    /\ Days \subseteq Int
    /\ Searches \subseteq [hotels: Seq(Hotel), query: Query]
    /\ Readings \subseteq [reviews: Seq(ReviewRow), query: [page: Int \cup {None}, pageSize: Int \cup {None}]]

VARIABLE case

DateOnlyStrings == {DateOnly(d) : d \in Days}
UtcStrings == [day: Days, hour: 0 .. (HoursPerDay - 1), offset: {0}]

Stays(strings) == {s \in [in: strings, out: strings] : ValidDates(s)}

\* Stays with one UTC offset, and either one time of day or a server in that offset.
Bookable(zone) ==
    {s \in Stays([day: Days, hour: 0 .. (HoursPerDay - 1), offset: Zone]) :
        /\ s.in.offset = s.out.offset
        /\ s.in.hour = s.out.hour \/ s.in.offset = zone}

Init ==
    \/ case \in [stay: Stays(DateOnlyStrings), ctx: Stays(DateOnlyStrings), zone: Zone]
    \/ case \in [stay: Stays(UtcStrings), ctx: Stays(UtcStrings), zone: {0}]
    \/ \E z \in Zone : case \in [booked: Bookable(z), zone: {z}]
    \/ case \in Searches
    \/ case \in Readings

\* The cases are independent of each other.
Next == UNCHANGED case

Spec == Init /\ [][Next]_case

IsAbout(what) == what \in DOMAIN case

-----------------------------------------------------------------------------
\* Two stays that share a night the guests pay for always compete, for a stored
\* booking or block as for a hold, whatever the server's time zone: the comparisons
\* of dates, local times and instants never lose a stay.  And with date-only strings
\* only such stays compete, for a hold anywhere and in the tables on a server in UTC:
\* a guest may arrive on the day another leaves.
SharedNightsCompete ==
    IsAbout("stay") =>
        /\ ShareANight(case.stay, case.ctx) =>
              StoredOverlap(case.stay, case.ctx, case.zone) /\ HeldOverlap(case.stay, case.ctx)
        /\ case.stay \in Stays(DateOnlyStrings) /\ case.ctx \in Stays(DateOnlyStrings) =>
              /\ HeldOverlap(case.stay, case.ctx) => ShareANight(case.stay, case.ctx)
              /\ StoredOverlap(case.stay, case.ctx, 0) => ShareANight(case.stay, case.ctx)

\* A guest pays for the nights the booking occupies: the written days that are
\* charged (booking.service.ts:331) and the days the columns hold differ by the same
\* number, with both times alike on any server, and with any two times on a server
\* in the offset they are written in.
NightsChargedAreStored ==
    IsAbout("booked") => calculateNights(case.booked) = StoredNights(case.booked, case.zone)

\* The entry of a hotel offers the room types that suit the guest, each once and in
\* order, and names the price of the cheapest.
EntryIsTrue(entry, q) ==
    LET offers == entry.availableRoomTypes
        least  == entry.minPricePerNight
        Taken(room) == Suits(room, q)
        Priced(offer, room) == offer.name = room.name /\ offer.pricePerNight = room.price
    IN  /\ IsFiltered(offers, entry.hotel.roomTypes, Taken, Priced)
        /\ \A k \in 1 .. Len(offers) : least <= offers[k].pricePerNight
        /\ \E k \in 1 .. Len(offers) : least = offers[k].pricePerNight

\* The pages of a search, put together, are the hotels with a room type that suits
\* the guest, each once and in order, with those room types only and the price of
\* the cheapest (hotel-search.service.ts).
SearchIsExact ==
    (IsAbout("hotels") /\ ~Invalid(case.query)) =>
        LET pages == [n \in 1 .. search(case.hotels, case.query).totalPages |->
                         search(case.hotels, [case.query EXCEPT !.page = n]).data]
            found == Joined(pages)
            Fits(hotel) == SuitsHotel(hotel, case.query)
            Entered(entry, hotel) == entry.hotel = hotel
        IN  /\ IsFiltered(found, case.hotels, Fits, Entered)
            /\ \A i \in 1 .. Len(found) : EntryIsTrue(found[i], case.query)

\* The pages of a hotel's reviews, put together, are its visible reviews, each once
\* and in order, whatever page size was asked for (review.service.ts:63).
ReviewPagesAreExact ==
    IsAbout("reviews") =>
        LET pages == [n \in 1 .. getHotelReviews(case.reviews, case.query).totalPages |->
                         getHotelReviews(case.reviews, [case.query EXCEPT !.page = n]).data]
            Visible(x) == x.status = "VISIBLE"
            Shown(x, y) == x = y
        IN  IsFiltered(Joined(pages), case.reviews, Visible, Shown)
=============================================================================
