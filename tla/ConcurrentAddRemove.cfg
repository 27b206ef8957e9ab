CONSTANTS
    c1 = c1
    c2 = c2
    d = d
    e = e
    t = t
    f = f
    x = x
    l = l
    NoPath = NoPath
    NoRoot = NoRoot
    Names <- MCNames
    Lookups <- MCLookups
    Callers = {c1, c2}
    MayCall <- Pair
    Inputs <- SameRoot
    Events <- PlainEvents
    MaxEvents = 0
    Ops <- DefaultOps
    Excluded <- NoExcludes
    Recursion = "default"
    FollowSymlinks = FALSE
    Capacity = 1
    EventBuffer = 1
    ErrorBuffer = 1
SPECIFICATION Spec
INVARIANT RegistriesAgree
