SPECIFICATION Spec
CONSTANTS
    NR_CONSOLE = 2
    SCREEN_WIDTH = 3
    ConsoleCells = 8
    disp_pos = 1
    TTY_IN_BYTES = 6
    Char <- MCChar
    Lines <- MCLines
    Texts <- MCTexts
    Directories <- MCDirectories
    MaxLines = 2
    MaxWrites = 1
INVARIANTS TypeOK FocusShown
CHECK_DEADLOCK FALSE
