\* The scheduler's own thread and another in run(), under fair scheduling: sleeping on
\* the event and in the reactor, continuations, stop, and shutdown at any point.
CONSTANTS
    t1 = t1  t2 = t2  none = none
    Contexts = {t1, t2}
    Outer <- FlatOuter
    NoContext = none
    MaxOps = 3
    MaxBatch = 2
    MaxGuards = 0
    OneThread = FALSE
    OwnThread = t1
    Modes = {"run"}
    Uses = {"spurious", "post", "continuation", "timer", "stop", "shutdown"}
SPECIFICATION FairSpec
INVARIANTS NoStrandedHandler ReactorExclusive ReactorInterruptible
PROPERTIES StopPreventsDispatch QueuedEventuallyRuns StopReturns
CHECK_DEADLOCK FALSE
