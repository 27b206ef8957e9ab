CONSTANTS
    d = d
    e = e
    f = f
    g = g
    c1 = c1
    c2 = c2
    NoPath = NoPath
    NoRename = NoRename
    NoOne = NoOne
    Dirs <- MCDirs
    Tree <- MCTree
    InitialFiles <- OneFile
    Targets <- MCTargets
    NotesLimit = 2
    MaxObjects = 2
    Changes = {"make", "rename", "delete", "write", "fail"}
    MaxChanges = 2
    MayCall <- RemoveRaces
    Callers = {c1, c2}
    MaxCalls = 3
    EventBuffer = 1
SPECIFICATION FairSpec
INVARIANTS TypeOK HandlesHaveOneOwner ChannelsOutliveRuns ReportsAreTheHistory LossIsReported RootsAreServed
PROPERTIES CloseReturns RemovedRunsEnd ImplementsContract
CHECK_DEADLOCK FALSE
