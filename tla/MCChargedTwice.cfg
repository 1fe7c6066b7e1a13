SPECIFICATION Spec
CONSTANTS
    TopUps = {small}
    Fee = fee
    Calls = {c1, c2}
    MaxAttempts = 3
    MaxCards = 1
INVARIANTS
    NeverChargedTwice
CHECK_DEADLOCK FALSE
