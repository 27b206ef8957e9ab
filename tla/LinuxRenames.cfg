CONSTANTS
    r = r
    a = a
    b = b
    c = c
    f = f
    c1 = c1
    c2 = c2
    NoName = NoName
    NoPath = NoPath
    NoTarget = NoTarget
    Tree <- Dirs
    InitialDirs <- JustRoot
    Lasting <- JustRoot
    DirNames <- MCDirNames
    QueueLimit = 2
    Changes = {"make", "delete", "move"}
    MaxChanges = 3
    Callers = {c1, c2}
    Targets <- OneRoot
    Excluded <- NoExcludes
    MaxCalls = 2
    MayClose = TRUE
SPECIFICATION Spec
SYMMETRY CallerSymmetry
INVARIANT NodesAreReleasable
CHECK_DEADLOCK FALSE
