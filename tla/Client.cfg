SPECIFICATION FairSpec
CONSTANTS
    Goroutines = {g1, g2}
    Keys = {k1}
    NoKey = nokey
    Nobody = nobody
    MaxMessages = 2
INVARIANTS TypeOK AnswersOwn
PROPERTIES CallsReturn
CHECK_DEADLOCK FALSE
