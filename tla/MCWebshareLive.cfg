SPECIFICATION LiveSpec
CONSTANTS
    Loop = Loop
    NoThread = NoThread
    NoCloser = NoCloser
    Triggered = {t1, t2}
    Closers = {c1, c2}
    Readers = {}
    MinGap = 1
    MaxPages = 2
    PageSize = 1
    CounterMod = 4
    MaxClock = 2
    MaxCred = 1
CHECK_DEADLOCK FALSE
PROPERTIES CloseReturns EventuallyFresh
