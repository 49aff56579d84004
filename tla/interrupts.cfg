SPECIFICATION Spec
CONSTANTS
    Proc = {p0, hd}
    first = p0
    hd = hd
    MaxWork = 2
    MaxNest = 5
INVARIANTS ReturnsInOrder ContextKept ReadyIsRunning HandlersNotReentered LinesReopened
CHECK_DEADLOCK FALSE
