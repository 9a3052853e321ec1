\* Concurrency hint 1: one thread that does all posting, with a poll nested in a handler.
CONSTANTS
    t1 = t1  t2 = t2  none = none
    Contexts = {t1, t2}
    Outer <- NestedOuter
    NoContext = none
    MaxOps = 3
    MaxBatch = 2
    MaxGuards = 1
    OneThread = TRUE
    OwnThread = none
    Modes = {"run", "run_one", "poll", "poll_one", "wait_one"}
    Uses = {"post", "continuation", "dispatch", "timer", "io", "guard", "restart", "throw", "cancel", "shutdown"}
SPECIFICATION Spec
INVARIANTS DescriptorDequeued WorkConserved HandlerOnce
PROPERTIES StopsOnlyWhenFinished
CHECK_DEADLOCK FALSE
