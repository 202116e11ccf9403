SPECIFICATION FairSpec
CONSTANTS
    MaxRetries = 1
    MaxSeq = 1
    IdPeriod = 3
    Trailing = FALSE
    Qty = 1
    PartialFills = {}
    MaxPrice = 1
    InitialStop = 1
    ExitIsInstant = TRUE
    Routers = {"trader"}
    Faults = {}
    Calls = {}
    ExitOnError = TRUE
PROPERTIES
    StopMakesWay
CHECK_DEADLOCK FALSE
