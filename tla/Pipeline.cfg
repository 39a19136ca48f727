SPECIFICATION FairSpec
CONSTANTS
    Versions = {"task2", "task3", "task4"}
    Kinds = {"source", "filter", "head", "missing"}
    Redirections <- AnyRedirection
    ForkMayFail = TRUE
    MaxCommands = 3
    MaxPipelines = 2
    Volume = 2
    Capacity = 1
    MaxFds = 8
CHECK_DEADLOCK FALSE
INVARIANTS
    TypeOK
    LeakBudget
    NothingLost
    HangCause
PROPERTY PipelineEnds
