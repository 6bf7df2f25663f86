SPECIFICATION Spec
CONSTANTS
    Hotel = {h1}
    RoomType = {t1}
    Request = {r1, r2, r3}
    Label <- Phones
    Lower <- NoCase
    Owner = {}
    Seeded = {h1, t1}
    SeedHotels <- NoHotels
    TestHotel = None
    PageKind <- PublicPages
    None = None
SYMMETRY Symmetry
INVARIANT ChangesReachThePages
