SPECIFICATION FairSpec
CONSTANTS
    TopUps = {small}
    Fee = fee
    Calls = {c1, c2}
    MaxAttempts = 2
    MaxCards = 2
INVARIANTS
    TypeOK
    TakenOnce
PROPERTIES
    PaidIsRecorded
CHECK_DEADLOCK FALSE
