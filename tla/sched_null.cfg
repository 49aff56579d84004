SPECIFICATION Spec
CONSTANTS
    NR_TASK = 2
    FIRST_QUENE_SLICE = 2
    SECOND_QUENE_SLICE = 4
    LAST_QUENE_SLICE = 8
    TtyQueen = {1}
    BlockFlag = {4}
INVARIANTS AlwaysAProcess
CHECK_DEADLOCK FALSE
