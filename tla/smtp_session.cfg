SPECIFICATION Spec
CONSTANTS
    MaxMore = 1
    Rests <- MCRests
CHECK_DEADLOCK FALSE
INVARIANTS TypeOK AnswersInStep
PROPERTY DeliverySpec
