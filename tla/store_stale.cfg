SPECIFICATION PartsSpec
CONSTANTS
    Focuses = {"store"}
    Capacity = 3
    Items = {a, b}
    NoItem = NoItem
    BookSize = 3
    Books <- MarketBooks
    MaxUpdates = 2
    SeriesCapacity = 4
    Goals = {1, 2}
    BaseTicks = 2
    LoadedCandles = 2
    MaxTicks = 11
    MaxVolume = 3
    StoreFrames <- MarketFrames
    CandleTicks = 2
    ChunkSize = 2
    InitialCandles = 1
    MinCandles = 2
    RecentOnly = TRUE
    Rows0 = 1
    MaxClock = 5
    MaxBreaks = 1
    MaxInstructions = 4
    Priorities = {1, 2}
    Credentials = TRUE
    TriggerPrices = {1, 2, 3}
    Delay = 1
    Ratio <- OneHalf
    MaxWait = 4
    MaxChecks = 3
    Askers = {"ui", "worker"}
    MaxOrders = 4
    TotalUses = 2
    Downtime = 2
    Funds = 2
    Amounts = {2, 3}
    FillAmounts = {1, 2}
    FillPrices = {1, 3}
    Balances <- SomeBalances
    MaxEvents = 4
    GenCapacity = 3
    Factors = {2, 3}
    TicksPerCandle = {1, 2}
    Counts = {3}
    MaxGenTicks = 28
    BuilderConfigs <- SomeConfigs
    PlotPoints = {0, 2, 3, 4, 6}
    TickSize = 2
    MarketPrices = {3, 5}
    MaxTrades = 1
    HandleSpan = 4
    SequenceSpan = 3
    HalfSpan = 2
    Drafts <- SomeDrafts
    Filters <- SomeFilters
    NewStops = {1107, 1312}
    Routes = {"simulated", "real"}
INVARIANT LoadedIsCurrent
CHECK_DEADLOCK FALSE
