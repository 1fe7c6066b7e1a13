SPECIFICATION FairSpec
CONSTANTS
    Quotations = {only}
    MaxAttempts = 2
    Stops = FALSE
INVARIANTS
    OneAttemptWaits
    LateMoneyIsRefunded
PROPERTIES
    PaidIsRecorded
    LateMoneyComesBack
    AcceptedIsDecided
CHECK_DEADLOCK FALSE
