CONSTANTS
    r = r
    a = a
    f = f
    g = g
    h = h
    c1 = c1
    c2 = c2
    NoPath = NoPath
    Initial <- JustRoot
    Lasting <- JustRoot
    DirNames <- MCDirNames
    Tree <- SmallTree
    Changes = {"make", "delete"}
    MaxChanges = 1
    Callers = {c1}
    MayCall <- OneAddsAndRemoves
    Targets <- OneTarget
    Excluded <- NoExcludes
    MaxCalls = 2
SPECIFICATION Spec
INVARIANTS SnapshotsAreOwned
CHECK_DEADLOCK FALSE
