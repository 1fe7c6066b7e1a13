SPECIFICATION FairSpec
CONSTANTS
    Lawyers = {ann, bob}
    NoLawyer = nobody
    MaxLawyers = 2
    RoutingWindow = 2
    DirectWindow = 1
    HoldWindow = 1
    MaxValidity = 2
    StepsFail = TRUE
INVARIANTS
    TypeOK
    TablesAgree
    PickByCoversQuotes
PROPERTIES
    ClosedIsFinal
    GoodQuoteNotExpired
    KeepsPromise
    EventuallyDecided
