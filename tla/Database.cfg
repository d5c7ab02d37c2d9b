SPECIFICATION DBFairSpec
CONSTANTS
    Goroutines = {g1, g2}
    MaxConnections = 1
    MaxFailures = 2
    ResetTimeout = 1
    RefillRate = 1
    BurstSeconds = 1
    TicksPerSecond = 1
    Modes = {"drop", "block", "no timeout"}
    MaxRetries = 1
INVARIANTS DBTypeOK BreakerCounterInv SlotAccounting ConcurrencyBound OpenTransactionsBound
PROPERTIES OpsReturn BreakerRecovers
