\* Both ends of the bridge, with the header timeout.
SPECIFICATION Spec
CONSTANTS
    MaxBytes = 8
    ChunkSizes = {1, 3}
    BufSize = 2
    SlowHeaders = TRUE
INVARIANTS EofMeansAllRead ErrorMeansFailed
PROPERTIES ReadEnds CloseEnds BridgeIsFreed
CHECK_DEADLOCK FALSE
