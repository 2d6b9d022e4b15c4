\* Two concurrent requests of one user.
SPECIFICATION Spec
CONSTANTS
    p1 = p1  p2 = p2  u1 = u1  t1 = t1  t2 = t2  r1 = r1  r2 = r2  r3 = r3
    Procs = {p1}
    Users = {u1}
    Tokens = {t1}
    Owner <- MCOwner
    Requests = {r1, r2}
    TokenOf <- MCTokenOf
    ProcOf <- MCProcOf
    Streams = {}
    Costs = {2}
    Stored <- MCStored
    Edits = {}
    EditUser <- MCEditUser
    Amounts = {0, 2}
    Deletions = {}
    MaxFaults = 0
INVARIANT EveryDebitCounts
CHECK_DEADLOCK FALSE
