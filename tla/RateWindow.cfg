SPECIFICATION WindowFairSpec
CONSTANTS
    RefillRate = 2
    BurstSeconds = 2
    TicksPerSecond = 3
    MaxElapsed = 9
INVARIANTS WindowTypeOK RateBudget
PROPERTIES BucketRefills
