SPECIFICATION Spec
CONSTANTS
    MaxRetries = 1
    MaxSeq = 2
    IdPeriod = 3
    Trailing = TRUE
    Qty = 2
    PartialFills = {"entry"}
    MaxPrice = 5
    InitialStop = 1
    ExitIsInstant = FALSE
    Routers = {"trader","client"}
    Faults = {}
    Calls = {"terminate","idle"}
    ExitOnError = TRUE
INVARIANTS
    TypeOK
    OneWayOut
    OffersWhatItHolds
PROPERTIES
    StopNeverRetreats
CHECK_DEADLOCK FALSE
