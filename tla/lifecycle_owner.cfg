SPECIFICATION FairSpec
CONSTANTS
    Booking = {b1}
    Request = {r1, r2, r3}
    OwnerStatus <- AnyStatus
    None = None
INVARIANTS PaidHasInvoice IndInv
PROPERTIES LedgerSpec EveryRequestEnds
