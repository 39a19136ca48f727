SPECIFICATION BothSpec
CONSTANTS
    a = a
    b = b
    Letters = {a, b}
    Space = Space
    NewLine = NewLine
    Inputs <- MCShortInputs
    Words <- MCOneWord
    BUFFER_SIZE = 2
    IOMayFail = FALSE
    BUFSIZE = 3
    OpenErrors = {1, 2}
    ReadMayFail = FALSE
CHECK_DEADLOCK FALSE
INVARIANT LineOpenFailureReported
