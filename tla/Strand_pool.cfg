\* A strand<Executor> and an io_context::strand, two pool threads and one outside.
CONSTANTS
    t1 = t1  t2 = t2  t3 = t3  s1 = s1  s2 = s2
    Threads = {t1, t2, t3}
    Pool = {t1, t2}
    Strands = {s1, s2}
    MaxHandlers = 4
    MaxDepth = 3
    Immediate = {s2}
    Uses = {"post", "dispatch", "poll", "throw", "shutdown"}
SPECIFICATION FairSpec
INVARIANTS LockedByOne
PROPERTIES Serial AcceptedEventuallyRuns
CHECK_DEADLOCK FALSE
