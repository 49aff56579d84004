SPECIFICATION FairSpec
CONSTANTS
    NR_TASK = 3
    FIRST_QUENE_SLICE = 1
    SECOND_QUENE_SLICE = 2
    LAST_QUENE_SLICE = 2
    TtyQueen = {0, 1}
    BlockFlag = {4}
INVARIANTS TypeOK QueuesWellFormed SliceNeverMissed
PROPERTIES ImplementsMLFQ NoStarvation
CHECK_DEADLOCK FALSE
