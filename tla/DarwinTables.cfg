CONSTANTS
    r = r
    a = a
    f = f
    g = g
    h = h
    c1 = c1
    c2 = c2
    NoPath = NoPath
    Initial <- WithFile
    Lasting <- JustRoot
    DirNames <- MCDirNames
    Tree <- MovingTree
    Changes = {"make", "delete", "move", "write", "chmod"}
    MaxChanges = 2
    Callers = {c1, c2}
    MayCall <- AddersAndRemovers
    Targets <- AllTargets
    Excluded <- ExcludeF
    MaxCalls = 2
SPECIFICATION Spec
INVARIANTS TypeOK DescriptorsAreHeld NodesAreReleasable TablesAgree WatchesAreTrue ReportsAreTrueUnlessSpoilt TreeIsWatchedUnlessSpoilt CloseReleasesAll
CHECK_DEADLOCK FALSE
