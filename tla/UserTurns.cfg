SPECIFICATION MessagesSpec
CONSTANTS
    Turns = {1, 2, 3}
    Wordings = {n1}
    MaxFaults = 1
    NoTurn = NoTurn
    Tasks = {}
    NoTask = NoTask
    MaxRetries = 1
    RunLimit = 5
    LockLife = 6
    MaxCrashes = 1
    BrokerMayFail = TRUE
INVARIANTS
    TurnsAreSerial
    
PROPERTIES
    EveryTurnAnswers
CHECK_DEADLOCK FALSE
