SPECIFICATION Spec
CONSTANTS
    d1 = d1
    d2 = d2
    t1 = t1
    Workers = {w1, w2}
    Decisions = {d1, d2}
    Tool <- TradeAndResume
    Order <- AllDistinct
    AppTrades = {t1}
    NoDecision = NoDecision
    NoTx = NoTx
    RECONCILE_MAX_ATTEMPTS = 4
    PageLimit = 2
    CanCrash = TRUE
    BrokerMayFail = TRUE
SYMMETRY WorkerSymmetry
INVARIANTS
    VerdictsAreSound
    OnePostPerDecision
PROPERTIES
    NoPostUnderStandingPause
    NoAnswerIsNotRejection
    NeverActionableAgain
    ImplementsWriteOnce
