\* A continuation deferred inside run_one() while another thread waits in run().
CONSTANTS
    t1 = t1  t2 = t2  none = none
    Contexts = {t1, t2}
    Outer <- FlatOuter
    NoContext = none
    MaxOps = 3
    MaxBatch = 2
    MaxGuards = 0
    OneThread = FALSE
    OwnThread = none
    Modes = {"run", "run_one"}
    Uses = {"post", "continuation"}
SPECIFICATION Spec

INVARIANTS NoStrandedHandler
CHECK_DEADLOCK FALSE
