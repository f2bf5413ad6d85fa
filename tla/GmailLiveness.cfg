SPECIFICATION FairSpec
CONSTANTS
    Emails = {m1, m2}
    Reference <- OnePurchase
    Tasks = {k1}
    Handlers = {h1}
    MaxDeliveries = 2
    MaxRetries = 1
    MaxKills = 1
    None = None
PROPERTY NoMailStaysPending
CHECK_DEADLOCK FALSE
