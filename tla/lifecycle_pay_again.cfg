SPECIFICATION Spec
CONSTANTS
    Booking = {b1}
    Request = {r1, r2, r3, r4}
    OwnerStatus <- AnyStatus
    None = None
SYMMETRY Symmetry
PROPERTY PaidIsNotChargedAgain
