SPECIFICATION FairSpec
CONSTANTS
    None = None
    Versions = {"task4", "task3", "lab6", "myshell"}
    Words = {"a", "e", "d", "x", "cd", "quit", "home"}
    MAX_ARGUMENTS = 4
    Lines <- MCLines
    Garbage <- ShortLines
    MaxTokens = 4
    Programs = {"a", "e"}
    Endless = {"e"}
    Dirs = {"home", "d"}
    Home = "home"
    MaxProcs = 3
CHECK_DEADLOCK FALSE
INVARIANTS
    ShellTypeOK
    LineParsed
    ForegroundReaped
    CrashCause
PROPERTIES
    PromptReturns
    TableFills
