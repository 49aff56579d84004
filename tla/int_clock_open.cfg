SPECIFICATION Spec
CONSTANTS
    Proc = {p0, hd}
    first = p0
    hd = hd
    MaxWork = 2
    MaxNest = 4
INVARIANTS CurrentClosed
CHECK_DEADLOCK FALSE
