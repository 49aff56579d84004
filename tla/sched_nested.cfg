SPECIFICATION StepsSpec
CONSTANTS
    NR_TASK = 3
    FIRST_QUENE_SLICE = 1
    SECOND_QUENE_SLICE = 2
    LAST_QUENE_SLICE = 2
    TtyQueen = {1}
    BlockFlag = {4}
    Interrupted = {"call"}
INVARIANTS SlicesLimited
CHECK_DEADLOCK FALSE
