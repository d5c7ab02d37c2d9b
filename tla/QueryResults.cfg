SPECIFICATION FairSpec
CONSTANTS
    Goroutines = {g1, g2}
    Rows = {r1, r2}
    TTLs = {0, 1}
    DefaultTTL = 2
    None = None
INVARIANTS TypeOK CompleteResults
PROPERTIES CacheConverges
