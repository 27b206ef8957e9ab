CONSTANTS
    r = r
    a = a
    b = b
    c = c
    f = f
    c1 = c1
    c2 = c2
    NoName = NoName
    NoPath = NoPath
    NoTarget = NoTarget
    Tree <- Dirs
    InitialDirs <- RootAndDir
    Lasting <- JustRoot
    DirNames <- MCDirNames
    QueueLimit = 10
    Changes = {"make", "delete", "unmount"}
    MaxChanges = 2
    Callers = {c1, c2}
    Targets <- TwoRoots
    Excluded <- ExcludeB
    MaxCalls = 3
    MayClose = FALSE
SPECIFICATION Spec
SYMMETRY CallerSymmetry
INVARIANTS TypeOK TablesAgree NothingLeftBehind WatchesAreTrue TreeIsWatchedUnlessLost
CHECK_DEADLOCK FALSE
