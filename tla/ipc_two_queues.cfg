SPECIFICATION Spec
CONSTANTS
    Proc = {0, 2, 3}
    HD = 2
    Calls <- AllCalls
INVARIANTS OneReceiveQueue
