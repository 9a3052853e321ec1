\* Two threads, overlapped calls, timers, failing posts, stops, shutdown.
CONSTANTS
    t1 = t1  t2 = t2
    Threads = {t1, t2}
    MaxOps = 2
    MaxFails = 1
    FiniteTimeout = TRUE
    Modes = {"run", "wait_one"}
    Uses = {"post", "io", "timer", "cancel", "stop", "restart", "throw", "shutdown"}
SPECIFICATION Spec
SYMMETRY ThreadSymmetry
INVARIANTS DispatchedOnce NothingStranded
CHECK_DEADLOCK FALSE
