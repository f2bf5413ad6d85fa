SPECIFICATION Spec
CONSTANTS
    d1 = d1
    d2 = d2
    t1 = t1
    Workers = {w1, w2}
    Decisions = {d1}
    Tool <- OneMove
    Order <- AllDistinct
    AppTrades = {}
    NoDecision = NoDecision
    NoTx = NoTx
    RECONCILE_MAX_ATTEMPTS = 2
    PageLimit = 1
    CanCrash = FALSE
    BrokerMayFail = FALSE
PROPERTY CancelledStaysCancelled
