\* One connection more than threads.
SPECIFICATION Spec
CONSTANTS
    Threads = {t1, t2, t3}
    MaxOpen = 4
    MaxCalls = 2
INVARIANT NeverExhausted
PROPERTY OperationsEnd
CHECK_DEADLOCK FALSE
