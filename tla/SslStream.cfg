CONSTANTS
    BufferSize = 2
    BioSize = 1
    MaxIn = 3
    MaxAsks = 2
    MaxWrites = 2
    Uses = {"duplex", "cancel", "error", "eof"}
SPECIFICATION SslFairSpec
INVARIANTS InputInOrder OutputInOrder
PROPERTIES StreamOpsEnd
CHECK_DEADLOCK FALSE
