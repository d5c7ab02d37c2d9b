SPECIFICATION FairSpec
CONSTANTS
    Conns = {c1, c2}
    IPs = {i1}
    IpOf <- OneIP
    MaxConnectionsPerIP = 1
    RateLimitPerIP = 1
    Blacklist = {}
    Whitelist = {}
INVARIANTS TypeOK WaitGroupCounts StoppedIsQuiet PerIPBound
PROPERTIES StopReturns
CHECK_DEADLOCK FALSE
