SPECIFICATION FairSpec
CONSTANTS
    c1 = c1
    c2 = c2
    ls = ls
    echo = echo
    cat = cat
    find = find
    sort = sort
    nosuch = nosuch
    None = None
    Clients = {c1, c2}
    Dirs <- MCDirs
    Files <- MCFiles
    Known <- MCAll
    Faults = {"database"}
    MaxFaults = 0
    Typable = {"mount_shared", "cd_host", "run"}
    Bases <- MCBases
    Names = {".."}
    Programs = {echo, cat, find, sort}
    CopyNames = {}
    MaxInputs <- MCFourAndThree
CHECK_DEADLOCK FALSE
PROPERTIES
    
    JoinsEnd
