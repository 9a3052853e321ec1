\* Two threads that need a service of the program's own and the resolver service,
\* two resolvers, two operations, a fork, destruction.
CONSTANTS
    t1 = t1  t2 = t2  a = a  b = b
    Threads = {t1, t2}
    Keys = {"scheduler", "resolver", "user"}
    Needs <- UserNeeds
    Wants <- SomeWants
    MaxServices = 4
    MaxForks = 1
    Resolvers = {a, b}
    MaxOps = 2
    Made = {"resolver"}
    Uses = {}
SPECIFICATION FairSpec
INVARIANTS NothingOutlives ResolvedOnce
PROPERTIES ResolveEnds
CHECK_DEADLOCK FALSE
