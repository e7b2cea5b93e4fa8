SPECIFICATION MCSpec
CONSTANTS
    Requests = {r1, r2}
    Burst = 1
    IdleExpiry = 1
    MaxPerDay = 1
    MaxClock = 3
    LastDay = 1
    DXSignals = {d1, d2}
    Tickets = {t1}
    MaxRetries = 1
    TripAt = 2
    MaxDeliver = 2
    MaxDXFaults = 1
    Alerts = {a1, a2}
    MaxMLFaults = 1
    Unit = 256
    Lags <- LagSet
    EmaLen = 3
    RmaLen = 2
    BandLen = 3
    VolLen = 2
    SlopeLag = 2
    Factor = 2
    HigherLag = 1
    Candles <- CandleSet
    MaxBars = 6
    MaxSignals = 4
    Ticks = {0, 1, 2, 4}
    Values = {0, 1, 2}
    Volumes <- VolumeSet
    Budgets = {0, 3, 5, 8}
    Requested = 7
INVARIANTS
    RateIsBounded
    
    HaltHolds
    OrdersAreAccountedFor
    OutageIsShed
    NeverPyramids
    
    BranchReportIsTrue
    PassingModelChangesNothing
    
PROPERTY NoLookAhead
CHECK_DEADLOCK FALSE
