SPECIFICATION Spec
CONSTANTS
    Booking = {b1}
    Request = {r1, r2, r3}
    OwnerStatus = {}
    None = None
SYMMETRY Symmetry
INVARIANT InvoicedIsPaid
