SPECIFICATION BothSpec
CONSTANTS
    a = a
    b = b
    Letters = {a, b}
    Space = Space
    NewLine = NewLine
    Inputs <- MCInputs
    Words <- MCWords
    BUFFER_SIZE = 2
    IOMayFail = TRUE
    BUFSIZE = 3
    OpenErrors = {1, 2}
    ReadMayFail = TRUE
CHECK_DEADLOCK FALSE
INVARIANTS
    TypeOK
    WordsCounted
    EqualCounted
    LineCountsRight
    AgreeOnWords
    CopyComplete
