CONSTANTS
    c1 = c1
    c2 = c2
    d = d
    e = e
    t = t
    f = f
    x = x
    l = l
    NoPath = NoPath
    NoRoot = NoRoot
    Names <- MCNames
    Lookups <- MCLookups
    Callers = {c1, c2}
    MayCall <- CloseUnderLoad
    Inputs <- SameRoot
    Events <- OnlyOverflows
    MaxEvents = 5
    Ops <- DefaultOps
    Excluded <- NoExcludes
    Recursion = "default"
    FollowSymlinks = FALSE
    Capacity = 1
    EventBuffer = 1
    ErrorBuffer = 1
SPECIFICATION FairSpec
PROPERTIES CloseReturns AcceptedReachHandler
