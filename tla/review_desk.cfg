SPECIFICATION RevSpec
CONSTANTS
    Booking = {b1, b2}
    Request = {r1, r2, r3, r4}
    Post = {p1, p2}
    OwnerStatus <- CancelOnly
    None = None
SYMMETRY Symmetry
INVARIANTS ConfirmedIsPaid MailHasInvoice AtMostOneInvoice ReviewedWasPaid OneReviewPerBooking
