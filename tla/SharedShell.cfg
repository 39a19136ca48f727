SPECIFICATION Spec
CONSTANTS
    c1 = c1
    c2 = c2
    ls = ls
    echo = echo
    cat = cat
    find = find
    sort = sort
    nosuch = nosuch
    None = None
    Clients = {c1, c2}
    Dirs <- MCDirs
    Files <- MCFiles
    Known <- MCShared
    Faults = {"database"}
    MaxFaults = 0
    Typable = {"mount_shared", "cd_host", "cd", "run", "exit"}
    Bases <- MCBases
    Names = {".."}
    Programs = {echo, cat, find}
    CopyNames = {}
    MaxInputs <- MCFour
CHECK_DEADLOCK FALSE
SYMMETRY ClientSymmetry
INVARIANTS
    TypeOK
    PairsAligned
    SettledAgreement
    
    DepartedForgotten
PROPERTY EveryCommandShown
