\* Every kind of event on both routes; the upstream answers before the header timeout.
SPECIFICATION PumpSpec
CONSTANTS
    MaxBytes = 3
    ChunkSizes = {1, 2}
    BufSize = 2
    SlowHeaders = FALSE
    Kinds = {"text", "usage", "badusage", "done", "final", "overlong"}
    Routes = {"run_stream", "handle"}
    FlushAt = 2
INVARIANTS BilledIsReported LeavingIsNotFree StayingClientGetsAll
PROPERTIES PumpEnds UsesBridge
CHECK_DEADLOCK FALSE
