CONSTANTS
    c1 = c1
    c2 = c2
    d = d
    e = e
    t = t
    f = f
    x = x
    l = l
    NoPath = NoPath
    NoRoot = NoRoot
    Names <- MCNames
    Lookups <- MCLookups
    Callers = {c1, c2}
    MayCall <- AllAtOnce
    Inputs <- OwnRoots
    Events <- MixedEvents
    MaxEvents = 2
    Ops <- SomeOps
    Excluded <- ExcludeX
    Recursion = "default"
    FollowSymlinks = TRUE
    Capacity = 1
    EventBuffer = 1
    ErrorBuffer = 1
SPECIFICATION Spec
INVARIANTS TypeOK CloseMeansDrained CloseErrorStable QueueOpenWhileHandling RegistriesAgree AddedCanBeRemoved
PROPERTIES ImplementsDelivery DriverKeepsContract
