SPECIFICATION Spec
CONSTANTS
    Hotel = {h1, h2}
    RoomType = {t1, t2}
    Request = {r1, r2, r3}
    Label <- Phones
    Lower <- NoCase
    Owner = {o1}
    Seeded = {h1, t1}
    SeedHotels <- TwoHotels
    TestHotel <- TheTestHotel
    PageKind <- BothPages
    None = None
SYMMETRY Symmetry
INVARIANTS PhoneInv PhoneIsUnique StalePageHasACause OnlyRemovedHotelsStopASeed DuplicateNameHasACause
PROPERTIES UndisturbedChange RoomTypesHaveAHotel
