SPECIFICATION FairSpec
CONSTANTS
    Goroutines = {g1}
    Keys = {}
    NoKey = nokey
    Nobody = nobody
    MaxMessages = 1
PROPERTIES DisconnectReturns
CHECK_DEADLOCK FALSE
