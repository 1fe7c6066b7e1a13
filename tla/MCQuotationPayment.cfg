SPECIFICATION Spec
CONSTANTS
    Quotations = {first, second}
    MaxAttempts = 1
    Stops = TRUE
SYMMETRY Symmetry
INVARIANTS
    TypeOK
    EngagedByOnePayment
PROPERTIES
    KeepsPromise
CHECK_DEADLOCK FALSE
