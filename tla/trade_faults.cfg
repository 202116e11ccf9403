SPECIFICATION FairSpec
CONSTANTS
    MaxRetries = 1
    MaxSeq = 1
    IdPeriod = 3
    Trailing = FALSE
    Qty = 2
    PartialFills = {"entry","exit","stop"}
    MaxPrice = 1
    InitialStop = 1
    ExitIsInstant = FALSE
    Routers = {"trader","client"}
    Faults = {"reject","cancel","expire"}
    Calls = {"terminate","idle"}
    ExitOnError = TRUE
INVARIANTS
    InFlightMatchesSlot
    BookAgreement
    NoDoubleCreate
    ClosedIsQuiet
PROPERTIES
    FinishedIsFinal
    RunningIsAnswered
CHECK_DEADLOCK FALSE
