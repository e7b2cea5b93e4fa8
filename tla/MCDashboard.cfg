SPECIFICATION MCSpec
CONSTANTS
    Openers = {o1, o2, o3}
    MaxFaults = 1
    Requests = {r1, r2}
    Aliases = {GOLD, SILVER}
    Brokers = {XAUUSD}
    Trades = {t1, t2}
    EnvDryRun = TRUE
    HasLicence = TRUE
    BeatEvery = 1
    StaleAfter = 2
    Positions = {p1, p2}
    Ours = {p1}
    Traces = {g1, g2}
    Profits <- MCProfits
    Lot = 2
    StartBalance = 0
    DayLen = 2
    MonthLen = 2
    Offset = 1
    ResultDays = 1
    BackfillDays = 3
    MaxTime = 3
    MaxDeals = 4
    MaxAttempts = 3
SYMMETRY MCSymmetry
INVARIANTS
    MigrationIsComplete
    DryRunIsObeyed
    AnsweredChangesAreKept
    GreenIsRecent
    StoreAgreesWithBroker
    
CHECK_DEADLOCK FALSE
