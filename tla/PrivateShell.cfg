SPECIFICATION Spec
CONSTANTS
    c1 = c1
    c2 = c2
    ls = ls
    echo = echo
    cat = cat
    find = find
    sort = sort
    nosuch = nosuch
    None = None
    Clients = {c1}
    Dirs <- MCDirs
    Files <- MCFiles
    Known <- MCPrivate
    Faults = {"lose", "duplicate", "restart", "database"}
    MaxFaults = 2
    Typable = {"mount_private", "mount_shared", "cd_host", "cd", "run", "cp", "exit"}
    Bases <- MCMounts
    Names = {"usr", "a.pdf", ".."}
    Programs = {ls, cat, find, nosuch}
    CopyNames = {"a.pdf", "empty.txt", "missing"}
    MaxInputs <- MCSix
CHECK_DEADLOCK FALSE
INVARIANTS
    PrivateBelowMount
    UntimedDirExists
    RepliesMatch
