CONSTANTS
    Processors = {c1, c2}
    MaxNest = 1
    MAX_CONSOLE_BUF = 3
    MAX_MSG_QUEUE = 2
    POS_RANGE = 16
    Sizes = {1, 2}
    Calls = {"cons_putstr", "console_putstr"}
    MaxCalls = 3
SPECIFICATION ConsSpec
SYMMETRY CpuSymmetry
INVARIANTS HoldersRun DrawnInOrder NothingLeft
