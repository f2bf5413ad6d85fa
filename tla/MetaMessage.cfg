SPECIFICATION MessagesSpec
CONSTANTS
    Turns = {}
    Wordings = {n1}
    MaxFaults = 1
    NoTurn = NoTurn
    Tasks = {a, b}
    NoTask = NoTask
    MaxRetries = 1
    RunLimit = 5
    LockLife = 6
    MaxCrashes = 1
    BrokerMayFail = TRUE

    
PROPERTIES
    EveryDeliverySettles
CHECK_DEADLOCK FALSE
