\* Two timers the program uses and five that wait in the background.
CONSTANTS
    t1 = t1  t2 = t2  b1 = b1  b2 = b2  b3 = b3  b4 = b4  b5 = b5
    w1 = w1  w2 = w2  v1 = v1  v2 = v2  v3 = v3  v4 = v4  v5 = v5
    Timers = {t1, t2, b1, b2, b3, b4, b5}
    Waits = {w1, w2, v1, v2, v3, v4, v5}
    MaxTime = 2
    MaxWait = 1
    Never = 9
    Preset <- SixTimers
    Active = {t1, t2}
    Expiries = {1, 9}
    Uses = {"cancel", "cancel_one", "cancel_by_key", "move", "shutdown"}
SPECIFICATION FairSpec
INVARIANTS HeapConsistent WaitsAreKept WokenInTime
PROPERTIES FiredWhenDue WaitEnds
CHECK_DEADLOCK FALSE
