CONSTANTS
    r1 = r1
    r2 = r2
    s1 = s1
    s2 = s2
    Requests = {r1, r2}
    Servers = {s1, s2}
    Settings <- MCSettings
SPECIFICATION FairSpec
INVARIANT AtMostOnce
PROPERTIES
    RpcSpec
    CallReturns
CHECK_DEADLOCK FALSE
