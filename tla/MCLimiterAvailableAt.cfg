SPECIFICATION Spec
CONSTANTS
    Keys = {k1}
    Callers = {a1, a2}
    Window = 1
    DefaultCap = 1
    Limits = {0, 2}
    MaxClock = 4
    MaxCalls = 4
CHECK_DEADLOCK FALSE
SYMMETRY Symmetry
INVARIANTS AvailableAtAfterBlock
