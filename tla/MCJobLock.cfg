SPECIFICATION LockFairSpec
CONSTANTS
    p1 = p1
    p2 = p2
    s1 = s1
    s2 = s2
    Processes = {p1, p2}
    Slots = {s1, s2}
    Interval = 1
    Ttl = 2
CHECK_DEADLOCK FALSE
INVARIANTS
    OneCoveredProcess
PROPERTIES
    JobIsRunForEver
