SPECIFICATION Spec
CONSTANTS
    KB_IN_BYTES = 3
    TTY_IN_BYTES = 2
    NR_CONSOLE = 2
    SCREEN_WIDTH = 2
    SCREEN_SIZE = 4
    V_MEM_LIMIT = 12
    Keys = {"LALT", "RALT"}
    MaxEvents = 4
INVARIANTS TypeOK AltFollowsKeys
CHECK_DEADLOCK FALSE
