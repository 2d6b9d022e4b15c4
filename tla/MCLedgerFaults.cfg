\* Two processes, restarts and database errors, a token or user deletion, an edit.
SPECIFICATION Spec
CONSTANTS
    p1 = p1  p2 = p2  u1 = u1  t1 = t1  t2 = t2  r1 = r1  r2 = r2  r3 = r3
    Procs = {p1, p2}
    Users = {u1}
    Tokens = {t1}
    Owner <- MCOwner
    Requests = {r1, r2}
    TokenOf <- MCTokenOf
    ProcOf <- MCProcOf
    Streams = {r1}
    Costs = {0, 1, 2}
    Stored <- MCStored
    Edits = {e1}
    EditUser <- MCEditUser
    Amounts = {0, 2}
    Deletions = {d1}
    MaxFaults = 1
INVARIANTS PaidBeforeRecorded NoMoneyFromNowhere NeverOverdrawn
PROPERTY DeletedUserStaysDeleted
CHECK_DEADLOCK FALSE
