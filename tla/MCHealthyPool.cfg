SPECIFICATION Spec
CONSTANTS
    p1 = p1
    p2 = p2
    p3 = p3
    NoProxy = NoProxy
    Proxies = {p1, p2, p3}
    Lists <- TwoLists
    Callers = {a1, a2}
    Threshold = 50
    MinRequests = 2
    Cooldown = 1
    MaxClock = 5
    MaxCalls = 5
CHECK_DEADLOCK FALSE
SYMMETRY Symmetry
INVARIANTS TypeOK SoloFallback FreshStart
PROPERTIES CooldownHeld
