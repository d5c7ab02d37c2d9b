SPECIFICATION FairSpec
CONSTANTS
    MaxPools = 3
    Users = {u1}
    Loops = {l1, l2}
    Queries = {q1, q2}
    StmtCacheSize = 1
INVARIANTS TypeOK PoolsOwned OneDetector WrapperCurrent StatementsUsable NilWrapperOnlyAtFirstConnect
PROPERTIES BackgroundEnds
CHECK_DEADLOCK FALSE
