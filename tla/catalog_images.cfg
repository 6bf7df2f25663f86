SPECIFICATION Spec
CONSTANTS
    Hotel = {h1}
    RoomType = {}
    Request = {r1, r2}
    Label <- Phones
    Lower <- NoCase
    Owner = {}
    Seeded = {h1}
    SeedHotels <- NoHotels
    TestHotel = None
    PageKind <- NoPages
    None = None
SYMMETRY Symmetry
PROPERTY ImagesAreAppended
