SPECIFICATION TrafficSpec
CONSTANTS
    Calls = {c1, c2, c3}
    Writes = {c1}
    FailFast = {c3}
    MAX_ATTEMPTS = 2
    Deposits = {d1}
    AppTxs = {t1}
    Trades = {}
    Syncs = {s1, s2}
    Order <- Alike
    Labelled = {}
    NoTx = NoTx
    PageLimit = 3
    Requests = {r1, r2}
    MaxKey = 2
    CanCrash = TRUE
INVARIANTS
    WriteAppliedOnce
    FailuresAreDefinitive
    SnapshotIsSound
PROPERTIES
    BlockIsRespected
    EveryCallReturns
    EveryTransactionRecorded
    EveryRequestAnswered
CHECK_DEADLOCK FALSE
