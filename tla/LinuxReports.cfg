CONSTANTS
    r = r
    a = a
    b = b
    c = c
    f = f
    c1 = c1
    c2 = c2
    NoName = NoName
    NoPath = NoPath
    NoTarget = NoTarget
    Tree <- Files
    InitialDirs <- JustRoot
    Lasting <- JustRoot
    DirNames <- MCDirNames
    QueueLimit = 10
    Changes = {"make", "delete", "write", "chmod"}
    MaxChanges = 4
    Callers = {c1}
    Targets <- RootAndFile
    Excluded <- NoExcludes
    MaxCalls = 1
    MayClose = FALSE
SPECIFICATION Spec
INVARIANTS ReportsAreTrue TreeIsWatchedUnlessCut
CHECK_DEADLOCK FALSE
