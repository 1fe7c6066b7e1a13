SPECIFICATION Spec
CONSTANTS
    Lawyers = {ann, bob, cat}
    NoLawyer = nobody
    MaxLawyers = 2
    RoutingWindow = 1
    DirectWindow = 1
    HoldWindow = 2
    MaxValidity = 1
    StepsFail = FALSE
SYMMETRY Symmetry
INVARIANTS
    PlacesRespected
PROPERTIES
    HolderNotDropped
