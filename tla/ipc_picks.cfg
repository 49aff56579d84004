SPECIFICATION Spec
CONSTANTS
    Proc = {0, 1, 2, 3}
    HD = 2
    Calls <- PickCalls
INVARIANTS SenderIsWakeable
