SPECIFICATION Spec
CONSTANTS
    Goroutines = {g1, g2}
    MaxConnections = 2
    MaxFailures = 2
    ResetTimeout = 1
    RefillRate = 1
    BurstSeconds = 1
    TicksPerSecond = 1
    Modes = {"block"}
INVARIANTS SemIsInFlight
