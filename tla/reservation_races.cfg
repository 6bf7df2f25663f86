SPECIFICATION ResSpec
CONSTANTS
    Booking = {b1, b2, b3}
    Request = {r1, r2, r3}
    OwnerStatus <- Reception
    None = None
    HoursPerDay = 1
    ServerZone = 0
    Total = 2
    NewTotal = {1, 3}
    Stay <- MoreStays
    Block <- SomeBlocks
CONSTRAINT NoCauseYet
SYMMETRY Symmetry
INVARIANTS ResTypeOK OversellHasACause
PROPERTY InventorySpec
