SPECIFICATION LiveSpec
CONSTANTS
    p1 = p1
    p2 = p2
    Proxies = {p1, p2}
    Direct = Direct
    Pools <- EveryPool
    NoPool = NoPool
    Refusable = {p2}
    Calls = {a1, a2}
    Cancellable = {a2}
    BlockRetries = 1
CHECK_DEADLOCK FALSE
INVARIANTS TypeOK RightProxy RetryDiscipline AuthReported
PROPERTIES CancelledReturns GoroutineEnds
