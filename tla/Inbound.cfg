SPECIFICATION InboundSpec
CONSTANTS
    People = {p1, p2}
    Listed = {}
    Threads = {h1}
    Processes = {q1}
    MaxAccounts = 2
    None = NoTx
    a2 = a2
    Deposits = {d1}
    AppTxs = {a1, a2}
    Trades = {a2}
    Syncs = {s1, s2}
    Order <- OneOther
    Labelled = {}
    NoTx = NoTx
    PageLimit = 2
SYMMETRY Symmetric
INVARIANTS
    LedgerIsSound
    PeopleKeepOneAccount

    
CHECK_DEADLOCK FALSE
