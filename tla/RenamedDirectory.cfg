CONSTANTS
    r = r
    a = a
    b = b
    c = c
    f = f
    c1 = c1
    c2 = c2
    NoName = NoName
    NoPath = NoPath
    NoTarget = NoTarget
    Tree <- Dirs
    InitialDirs <- JustRoot
    Lasting <- JustRoot
    DirNames <- MCDirNames
    QueueLimit = 10
    Changes = {"make", "move"}
    MaxChanges = 2
    Callers = {c1}
    Targets <- OneRoot
    Excluded <- NoExcludes
    MaxCalls = 1
    MayClose = FALSE
SPECIFICATION Spec
INVARIANT TreeIsWatched
CHECK_DEADLOCK FALSE
