SPECIFICATION FairSpec
CONSTANTS
    Workers = {p1}
    MaxAccounts = 2
    MaxQueued = 1
    MaxRetries = 1
    MaxTransients = 1
INVARIANTS
    ConnectionIsTruthful
PROPERTIES
    ConnectionIsKept
    ActivationSettles
