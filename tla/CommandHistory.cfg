SPECIFICATION Spec
CONSTANTS
    a = a
    b = b
    None = None
    HISTORY_SIZE = 3
    Programs = {a, b}
    BangArgs <- MCBangArgs
    MaxCount = 6
    MaxDepth = 3
SYMMETRY ProgramSymmetry
CHECK_DEADLOCK FALSE
INVARIANTS
    TypeOK
    RingInv
    ListingRight
    DirectRecallRecorded
    CrashCauses
PROPERTY LogSpec
