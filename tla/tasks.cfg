SPECIFICATION FairTasks
CONSTANTS
    Proc = {0, 2, 3}
    HD = 2
    TTY = 0
    FS = 3
    Calls <- TaskCalls
    SECTOR_SIZE = 2
    ENTRY_SIZE = 2
    MaxBatch = 3
    NDirect = 1
    InodeAt <- Files
    Indirect <- IndirectBlocks
    TableSector = 60
    TableBytes = 9
    SIZE_OF_TTY_DIR = 13
INVARIANTS AnsweredUpToBatch AnswerIsTheFile AnswerOfMyRequest DataIsReady DiskIsIdle
PROPERTIES AnsweredUnlessLost
CHECK_DEADLOCK FALSE
