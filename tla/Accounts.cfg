SPECIFICATION AccountsSpec
CONSTANTS
    u1 = u1
    u2 = u2
    u3 = u3
    u4 = u4
    o1 = o1
    w1 = w1
    w2 = w2
    d1 = d1
    d2 = d2
    Workers = {w1, w2}
    PauseWorkers = {w1}
    Durations = {1, 3}
    RevokedHours = 6
    Horizon = 4
    Users = {u1, u2, u3, u4}
    Orgs = {o1}
    Admin <- Administrator
    OnTrial = {u1}
    Invitations = {i1}
    MaxMembers = 2
    NoOne = NoOne
    Signals <- SomeSignals
    MaxAssessments = 2
    BUFFER_MIN_DAYS = 60
    NoValue = NoValue
    Proposals = {d1, d2}
    AppTrades = {t1}
    Symbols = {"a"}
    Amounts = {1, 2}
    Settings <- SomeSettings
    WINDOW = 1
    LastHour = 2
    Writers = {w1, w2}
    MonthDays <- ShortFebruary
    MaxExpenses = 2
    MaxCount = 3
    MaxDisturbances = 1
SYMMETRY Symmetric
INVARIANTS
    AccountsTypeOK
    UsageIsCounted
    OvershootIsBounded
PROPERTIES
    PeriodsTile
    PausesHold
    
    CapIsKept
    CapacityCounts
    CapHoldsOneByOne
CHECK_DEADLOCK FALSE
