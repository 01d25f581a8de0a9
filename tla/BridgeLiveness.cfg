SPECIFICATION FairFlowSpec
CONSTANTS
    Logins = {l1}
    Keys = {k1}
    NoKey = NoKey
    NoLogin = NoLogin
    Pollers = {p1}
    Callbacks = {c1, c2}
    TTL = 0
    MaxTime = 1
PROPERTIES DeliveryIsAnswered StoredIsCollected
