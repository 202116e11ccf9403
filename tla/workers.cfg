SPECIFICATION WorkersSpec
CONSTANTS
    Focuses = {"simulator", "limiter", "semaphore"}
    Clients = {c1, c2}
    MaxId = 3
    MaxPrice = 2
    Types = {"Market", "Limit", "LimitMaker", "StopLoss", "StopLossLimit"}
    Sides = {"Buy", "Sell"}
    OcoStops = {"StopLossLimit"}
    Callers = {"candles", "updates", "coins"}
    Limits = {"request", "websocket", "raw"}
    Interval <- LimitIntervals
    Full <- LimitFull
    Plans <- CallPlans
    Threads = {t1, t2, t3, t4, t5, t6}
    Permits = 3
INVARIANTS
    FoundByClientId
    GrantsBounded
    NeverTooMany
    NoLostWakeup
PROPERTIES
    KeepsThePromise
    CancelledIsAnnounced
    AllGranted
    AllServed
CHECK_DEADLOCK FALSE
