SPECIFICATION Spec
CONSTANTS
    Proc = {p0, hd}
    first = p0
    hd = hd
    MaxWork = 2
    MaxNest = 4
INVARIANTS OnlyEnabledOpen
CHECK_DEADLOCK FALSE
