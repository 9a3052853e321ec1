\* Two operations: one composed and on a strand, one without an executor; cancellation from all sides.
CONSTANTS
    s1 = s1  none = none
    N = 2
    Strands = {s1}
    Executor <- FewExecutors
    NoExecutor = none
    Types = {"terminal"}
    MaxCancels = 1
    Text <- Lines
    Delim <- LineEnd
    MaxSize = 3
    Leftovers <- SomeLeft
    BufferDelta = 2
    MinRead = 1
    MaxTransfer = 3
    Ends <- FourBuffers
    MaxBuffers = 2
    Conditions <- AllOrPart
    Endpoints = 2
    MayFail = TRUE
SPECIFICATION FairComposed
INVARIANTS CalledWhenComplete SignalledOnce ComposedTrue
PROPERTIES CancelEndsGroup
CHECK_DEADLOCK FALSE
