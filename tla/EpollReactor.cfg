\* Two sockets whose descriptor states are reused while events are on their way.
CONSTANTS
    s1 = s1  s2 = s2  t1 = t1  t2 = t2
    Sockets = {s1, s2}
    Threads = {t1}
    MaxFiles = 2
    MaxStates = 2
    MaxOps = 2
    MaxData = 1
    MaxEvents = 2
    MaxExtras = 2
    Kinds = {"read", "write", "connect", "wait_error"}
    Uses = {"assign", "plain_file", "release", "add_fails", "move", "cancel", "cancel_key",
            "internal", "shutdown", "eof", "fork"}
SYMMETRY Symmetry
SPECIFICATION Spec
INVARIANTS StatesOwned NoMissedEvent PerformedInOrder
CHECK_DEADLOCK FALSE
