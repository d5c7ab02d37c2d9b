SPECIFICATION FairSpec
CONSTANTS
    Conns = {c1, c2}
    IPs = {i1}
    IpOf <- OneIP
    MaxConnectionsPerIP = 1
    RateLimitPerIP = 1
    Blacklist = {}
    Whitelist = {}
PROPERTIES StopClosesAll
CHECK_DEADLOCK FALSE
