SPECIFICATION Spec
CONSTANTS
    URLs = {u1, u2, u3, u4, bad, direct}
    Direct = direct
    Endpoints = {e1, e2}
    None = None
    Callers = {a1, a2, a3}
    Nobody = Nobody
    Rejected = {bad}
    Flaky = {u1}
    MaxRemembered = 3
CHECK_DEADLOCK FALSE
SYMMETRY Symmetry
INVARIANTS Coherent DialAllowed RejectedForgotten
PROPERTIES ImplementsProxySwitch
