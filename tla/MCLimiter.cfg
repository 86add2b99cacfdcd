SPECIFICATION Spec
CONSTANTS
    Keys = {k1, k2}
    Callers = {a1, a2}
    Window = 1
    DefaultCap = 1
    Limits = {0, 2}
    MaxClock = 3
    MaxCalls = 3
CHECK_DEADLOCK FALSE
SYMMETRY Symmetry
INVARIANTS TypeOK AdmissionCap BlockHolds AnswersRight
