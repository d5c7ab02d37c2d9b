SPECIFICATION Spec
CONSTANTS
    Goroutines = {g1}
    Keys = {k1}
    NoKey = nokey
    Nobody = nobody
    MaxMessages = 2
INVARIANTS AnswersOwnAlways
CHECK_DEADLOCK FALSE
