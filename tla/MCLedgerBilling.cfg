\* Three concurrent requests of two tokens and a profile edit on one process, no faults.
SPECIFICATION Spec
CONSTANTS
    p1 = p1  p2 = p2  u1 = u1  t1 = t1  t2 = t2  r1 = r1  r2 = r2  r3 = r3
    Procs = {p1}
    Users = {u1}
    Tokens = {t1, t2}
    Owner <- MCOwner
    Requests = {r1, r2, r3}
    TokenOf <- MCTokenOf
    ProcOf <- MCProcOf
    Streams = {r1}
    Costs = {0, 1, 2}
    Stored <- MCStored
    Edits = {e1}
    EditUser <- MCEditUser
    Amounts = {0}
    Deletions = {}
    MaxFaults = 0
INVARIANTS CommittedIsRecorded TotalsWithinRows OnlyCostsAreCharged
CHECK_DEADLOCK FALSE
