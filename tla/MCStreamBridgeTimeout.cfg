\* The header timeout elapses first.
SPECIFICATION Spec
CONSTANTS
    MaxBytes = 8
    ChunkSizes = {1, 3}
    BufSize = 2
    SlowHeaders = TRUE
PROPERTY OpenEnds
CHECK_DEADLOCK FALSE
