SPECIFICATION Spec
CONSTANTS
    MaxRetries = 1
    MaxSeq = 1
    IdPeriod = 2
    Trailing = FALSE
    Qty = 1
    PartialFills = {}
    MaxPrice = 1
    InitialStop = 1
    ExitIsInstant = FALSE
    Routers = {"trader","client"}
    Faults = {"cancel"}
    Calls = {"terminate","idle","resume"}
    ExitOnError = FALSE
INVARIANTS
    NeverOversold
PROPERTIES
    TerminatedOpensNothing
CHECK_DEADLOCK FALSE
