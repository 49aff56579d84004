SPECIFICATION FairSpec
CONSTANTS
    KB_IN_BYTES = 2
    TTY_IN_BYTES = 2
    NR_CONSOLE = 3
    SCREEN_WIDTH = 2
    SCREEN_SIZE = 4
    V_MEM_LIMIT = 12
    Keys = {"LSHIFT", "RSHIFT", "RCTRL", "A", "LALT", "F1", "F2", "DOWN", "ENTER", "PAUSE", "PRTSC"}
    MaxEvents = 3
INVARIANTS ModifiersFollowKeys NothingLeftBehind ScreenShowsFocus
PROPERTIES TypedInOrder KbBufferIsFifo ReadReturns
CHECK_DEADLOCK FALSE
