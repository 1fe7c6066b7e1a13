SPECIFICATION Spec
CONSTANTS
    Refunds = {here, there}
    Amount = 4
    ServiceFee = 3
SYMMETRY Symmetry
INVARIANTS
    TypeOK
    NeverOverRefunded
    LawyerGivesBackTheirPart
    DisputedIsHeld
CHECK_DEADLOCK FALSE
