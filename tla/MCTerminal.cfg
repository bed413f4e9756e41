SPECIFICATION TerminalSpec
CONSTANTS
    Letters = {"a", "b", "i", "v", "s", "#", " ", "_", "E", "!", "?"}
    width = 9
    height = 2
    TabStop = 2
    MaxChars = 80
    Keys = {"i", "v", "s", " ", "BS", "CR"}
    Names <- MCNames
    MAX_KTERM_CMDS = 16
    BootTexts <- MCBootTexts
    MaxKeys = 5
    MaxBatch = 3
INVARIANTS LineAsTyped EchoShowsLine ScreenShowsText
CHECK_DEADLOCK FALSE
