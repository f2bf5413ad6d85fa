SPECIFICATION RecordsSpec
CONSTANTS
    BalanceAmount <- Powers
    BalanceCurrencies = {COP, USD}
    CARRY_OVER_DAYS = 2
    BalanceFirst = 27
    BalanceLast = 29
    Backdates = {0, 1}
    Emails = {m1, m2}
    Reference <- OnePurchase
    Tasks = {k1, k2}
    Handlers = {h1}
    MaxDeliveries = 3
    MaxRetries = 1
    MaxKills = 1
    Workers = {w1, w2}
    Keys = {"d", "a", "otros"}
    DefaultKeys = {"d"}
    Otros = "otros"
    Spellings = {"title", "upper"}
    Title = "title"
    MaxCategory = 3
    Movements = {v1}
    Starts <- OldTables
    Asked <- SomeNames
    None = None
    HoursPerDay = 2
    WeekDays = 3
    MonthStarts = {0, 4, 10, 14, 20, 24, 30}
    YearStarts = {0, 10, 20, 30}
    YearSpan = 10
    Offset <- MinusOne
    NoDate = NoDate
    NoName = NoName
    LineDayMax = 7
    StackedDayMax = 5
    WeekMax = 10
    Ids = {1, 2}
    Amount <- OneAndTwo
    Currencies = {COP}
    Stamps <- SomeStamps
    UserNames = {"A"}
    GlobalNames = {"A"}
    Customs <- SomeRanges
    FirstHour = 30
    LastHour = 31
SYMMETRY Symmetric
INVARIANTS
    ReportedChartsAgree
    
    BalanceIsSound
    

    
CHECK_DEADLOCK FALSE
