------------------------------- MODULE Ledger -------------------------------
(***************************************************************************)
(* Prepaid billing of the /v1 data plane (http_dispatch.cpp, gateway.cpp,  *)
(* users.cpp, tokens.cpp, request.cpp), between the arrival of a request   *)
(* and the row that records it, with everything else that writes the same  *)
(* tables: account edits and administrator top-ups (a read of the whole    *)
(* user row followed by a write of the whole row), the deletion of tokens  *)
(* and users, and the restart of a server process.                         *)
(*                                                                         *)
(* One action per database statement or transaction.  Raw SQL (sql_exec,   *)
(* sql_query_one) takes a connection of its own from the pool, so each     *)
(* statement commits by itself even inside a ScopedTransaction; statements *)
(* of the object layer share the transaction's connection and take effect  *)
(* together.  A transaction's writes are applied at its commit: they hold  *)
(* row locks from then back to the write, so nobody sees them earlier.     *)
(***************************************************************************)
EXTENDS Integers, FiniteSets

CONSTANTS Procs,      \* server processes (replicas) sharing one database
          Users,      \* user ids
          Tokens,     \* API token ids
          Owner,      \* the user a token belongs to
          Requests,   \* /v1 requests that may arrive
          TokenOf,    \* the token a request presents
          ProcOf,     \* the process that serves a request
          Streams,    \* the requests with "stream": true
          Costs,      \* what compute_usd may yield (0: an upstream failure)
          Stored,     \* the balances "%.6f" can write, in the unit of Costs
          Edits,      \* account edits and top-ups
          EditUser,   \* the user an edit is about
          Amounts,    \* what an edit adds to the balance (0: a profile edit)
          Deletions,  \* token and user deletions
          MaxFaults   \* bound on restarts and database errors

ASSUME ConstantsAssumption ==
    /\ Owner \in [Tokens -> Users]
    /\ TokenOf \in [Requests -> Tokens]
    /\ ProcOf \in [Requests -> Procs]
    /\ Streams \subseteq Requests
    /\ EditUser \in [Edits -> Users]
    /\ Costs \subseteq Nat
    /\ Stored \subseteq Int
    /\ 0 \in Stored
    /\ Amounts \subseteq Nat
    /\ MaxFaults \in Nat

VARIABLES
    exists,     \* users: the row is present
    balance,    \* users.balance_usd
    live,       \* the rows of user_tokens
    rows,       \* the rows of requests: primary key and the request recorded
    total,      \* request_totals.requests of a token (0: no such row)
    counter,    \* the process's request_counter
    pc,         \* where the thread serving a request is
    id,         \* ProxyRequest::id
    cost,       \* compute_usd of the request
    seen,       \* the balance the debit read
    seenTotal,  \* the total the commit's snapshot holds
    epc,        \* where an account edit is
    copy,       \* the balance in its copy of the user row
    dpc,        \* where a deletion is
    todo,       \* the tokens it has yet to delete
    dcur,       \* the token it is deleting (a set of at most one)
    duser,      \* the user it deletes after the tokens (at most one)
    faults,     \* restarts and database errors so far
    credited,   \* history: what a user had, plus all amounts added since
    paid        \* history: the requests whose debit reported success

dbVars == <<exists, balance, live, rows, total>>
reqVars == <<counter, pc, id, cost, seen, seenTotal>>
editVars == <<epc, copy>>
delVars == <<dpc, todo, dcur, duser>>
vars == <<dbVars, reqVars, editVars, delVars, faults, credited, paid>>

User(r) == Owner[TokenOf[r]]

RowsOf(t) == {w \in rows : TokenOf[w.req] = t}

Distance(x, y) == IF x <= y THEN y - x ELSE x - y

(* "%.6f" writes the nearest storable balance; on a tie the binary value of *)
(* the double decides, so either neighbour is possible.                     *)
Printed(x) == {y \in Stored : \A z \in Stored : Distance(x, y) <= Distance(x, z)}

Terminal == {"rejected", "unbilled", "unpaid", "committed", "threw", "crashed"}
InFlight == {"gate", "upstream", "debit", "debitWrite", "commit", "commitWrite"}

Goto(r, l) == pc' = [pc EXCEPT ![r] = l]

Init ==
    /\ exists = [u \in Users |-> TRUE]
    /\ balance \in [Users -> Stored \cap Nat]
    /\ live = Tokens
    /\ rows = {}
    /\ total = [t \in Tokens |-> 0]
    /\ counter = [p \in Procs |-> 0]
    /\ pc = [r \in Requests |-> "new"]
    /\ id = [r \in Requests |-> 0]
    /\ cost = [r \in Requests |-> 0]
    /\ seen = [r \in Requests |-> 0]
    /\ seenTotal = [r \in Requests |-> 0]
    /\ epc = [e \in Edits |-> "idle"]
    /\ copy = [e \in Edits |-> 0]
    /\ dpc = [d \in Deletions |-> "idle"]
    /\ todo = [d \in Deletions |-> {}]
    /\ dcur = [d \in Deletions |-> {}]
    /\ duser = [d \in Deletions |-> {}]
    /\ faults = 0
    /\ credited = balance
    /\ paid = {}

-----------------------------------------------------------------------------
(* The request thread.                                                     *)

(* Mutant: the counter is read but not advanced.                           *)
ArriveSameId(r) ==
    /\ pc[r] = "new"
    /\ id' = [id EXCEPT ![r] = counter[ProcOf[r]] + 1]
    /\ Goto(r, "gate")
    /\ UNCHANGED <<dbVars, counter, cost, seen, seenTotal, editVars, delVars,
                   faults, credited, paid>>

(* make_request numbers the request; the token must be live and its user   *)
(* present, otherwise the answer is 401 (a 413 ends the request likewise). *)
Arrive(r) ==
    /\ pc[r] = "new"
    /\ counter' = [counter EXCEPT ![ProcOf[r]] = @ + 1]
    /\ id' = [id EXCEPT ![r] = counter[ProcOf[r]] + 1]
    /\ \/ TokenOf[r] \in live /\ exists[User(r)] /\ Goto(r, "gate")
       \/ Goto(r, "rejected")
    /\ UNCHANGED <<dbVars, cost, seen, seenTotal, editVars, delVars, faults,
                   credited, paid>>

(* paygo_balance_gate: 402 unless the balance read now is positive.        *)
Gate(r) ==
    /\ pc[r] = "gate"
    /\ Goto(r, IF exists[User(r)] /\ balance[User(r)] > 0
                 THEN "upstream" ELSE "rejected")
    /\ UNCHANGED <<dbVars, counter, id, cost, seen, seenTotal, editVars,
                   delVars, faults, credited, paid>>

(* Mutant: usage is recorded before, and without, the debit.               *)
UpstreamUnpaid(r) ==
    /\ pc[r] = "upstream"
    /\ \E c \in Costs : Goto(r, "commit") /\ cost' = [cost EXCEPT ![r] = c]
    /\ UNCHANGED <<dbVars, counter, id, seen, seenTotal, editVars, delVars,
                   faults, credited, paid>>

(* The gateway answers the client.  Without a channel, or when a stream    *)
(* ended without billable usage, nothing is committed; otherwise the usage *)
(* and the channel's prices give the cost (0 for a failed upstream).       *)
Upstream(r) ==
    /\ pc[r] = "upstream"
    /\ \/ Goto(r, "unbilled") /\ UNCHANGED cost
       \/ \E c \in Costs : Goto(r, "debit") /\ cost' = [cost EXCEPT ![r] = c]
    /\ UNCHANGED <<dbVars, counter, id, seen, seenTotal, editVars, delVars,
                   faults, credited, paid>>

(* Mutant: the balance is not compared with the cost.                      *)
DebitReadUnchecked(r) ==
    /\ pc[r] = "debit"
    /\ Goto(r, "debitWrite")
    /\ seen' = [seen EXCEPT ![r] = balance[User(r)]]
    /\ UNCHANGED <<dbVars, counter, id, cost, seenTotal, editVars, delVars,
                   faults, credited, paid>>

(* debit_user_balance_usd, its SELECT ... FOR UPDATE: the lock goes with   *)
(* the connection that ran it.  Nothing to debit is a success; a balance   *)
(* below the cost (0 for a missing user) ends the request unbilled.        *)
DebitRead(r) ==
    LET found == IF exists[User(r)] THEN balance[User(r)] ELSE 0
    IN  /\ pc[r] = "debit"
        /\ \/ /\ cost[r] = 0
              /\ Goto(r, "commit")
              /\ paid' = paid \cup {r}
              /\ UNCHANGED seen
           \/ /\ cost[r] > 0
              /\ found < cost[r]
              /\ Goto(r, "unpaid")
              /\ UNCHANGED <<seen, paid>>
           \/ /\ cost[r] > 0
              /\ found >= cost[r]
              /\ Goto(r, "debitWrite")
              /\ seen' = [seen EXCEPT ![r] = found]
              /\ UNCHANGED paid
        /\ UNCHANGED <<dbVars, counter, id, cost, seenTotal, editVars,
                       delVars, faults, credited>>

(* debit_user_balance_usd, its UPDATE: an absolute balance computed from   *)
(* the one read before; no row is touched when the user is gone.           *)
DebitWrite(r) ==
    /\ pc[r] = "debitWrite"
    /\ \E b \in Printed(seen[r] - cost[r]) :
          balance' = [balance EXCEPT ![User(r)] =
                        IF exists[User(r)] THEN b ELSE @]
    /\ Goto(r, "commit")
    /\ paid' = paid \cup {r}
    /\ UNCHANGED <<exists, live, rows, total, counter, id, cost, seen,
                   seenTotal, editVars, delVars, faults, credited>>

(* Request::commit, its first query: a row with this id ends the commit    *)
(* with success and without an insert.  The query also fixes the snapshot  *)
(* apply_total will read the total from.                                   *)
CommitBegin(r) ==
    /\ pc[r] = "commit"
    /\ \/ /\ \E w \in rows : w.id = id[r]
          /\ Goto(r, "committed")
          /\ UNCHANGED seenTotal
       \/ /\ \A w \in rows : w.id # id[r]
          /\ Goto(r, "commitWrite")
          /\ seenTotal' = [seenTotal EXCEPT ![r] = total[TokenOf[r]]]
    /\ UNCHANGED <<dbVars, counter, id, cost, seen, editVars, delVars, faults,
                   credited, paid>>

(* persist and apply_total fail, and the transaction with them, when the   *)
(* id was taken meanwhile, when the total to insert is there by now, or    *)
(* when the total to update is gone.                                       *)
CommitConflict(r) ==
    \/ \E w \in rows : w.id = id[r]
    \/ (seenTotal[r] = 0) # (total[TokenOf[r]] = 0)

(* Mutant: a commit that failed is tried again from the debit on.          *)
CommitWriteRetries(r) ==
    /\ pc[r] = "commitWrite"
    /\ \/ /\ ~CommitConflict(r)
          /\ rows' = rows \cup {[id |-> id[r], req |-> r]}
          /\ total' = [total EXCEPT ![TokenOf[r]] = seenTotal[r] + 1]
          /\ Goto(r, "committed")
       \/ /\ CommitConflict(r)
          /\ Goto(r, "debit")
          /\ UNCHANGED <<rows, total>>
    /\ UNCHANGED <<exists, balance, live, counter, id, cost, seen, seenTotal,
                   editVars, delVars, faults, credited, paid>>

(* Mutant: the total is updated outside the transaction of the row.        *)
CommitWriteTotalApart(r) ==
    /\ pc[r] = "commitWrite"
    /\ total' = [total EXCEPT ![TokenOf[r]] = @ + 1]
    /\ \/ ~CommitConflict(r) /\ rows' = rows \cup {[id |-> id[r], req |-> r]}
       \/ CommitConflict(r) /\ UNCHANGED rows
    /\ Goto(r, "committed")
    /\ UNCHANGED <<exists, balance, live, counter, id, cost, seen, seenTotal,
                   editVars, delVars, faults, credited, paid>>

CommitWrite(r) ==
    /\ pc[r] = "commitWrite"
    /\ \/ /\ ~CommitConflict(r)
          /\ rows' = rows \cup {[id |-> id[r], req |-> r]}
          /\ total' = [total EXCEPT ![TokenOf[r]] = seenTotal[r] + 1]
          /\ Goto(r, "committed")
       \/ /\ CommitConflict(r)
          /\ Goto(r, "threw")
          /\ UNCHANGED <<rows, total>>
    /\ UNCHANGED <<exists, balance, live, counter, id, cost, seen, seenTotal,
                   editVars, delVars, faults, credited, paid>>

(* A database error in any of the billing statements: an exception that    *)
(* proxy_stream_commit_usage logs and finish_proxy_usage lets through.     *)
DbError(r) ==
    /\ pc[r] \in {"debit", "debitWrite", "commit", "commitWrite"}
    /\ faults < MaxFaults
    /\ faults' = faults + 1
    /\ Goto(r, "threw")
    /\ UNCHANGED <<dbVars, counter, id, cost, seen, seenTotal, editVars,
                   delVars, credited, paid>>

-----------------------------------------------------------------------------
(* Account edits: admin_add_user_balance, and with amount 0 the handlers   *)
(* that change an email, a password, a role or a status.                   *)

EditRead(e) ==
    /\ epc[e] = "idle"
    /\ copy' = [copy EXCEPT ![e] = balance[EditUser[e]]]
    /\ epc' = [epc EXCEPT ![e] =
                 IF exists[EditUser[e]] THEN "write" ELSE "refused"]
    /\ UNCHANGED <<dbVars, reqVars, delVars, faults, credited, paid>>

(* Mutants: the edit adds its copy to the balance; the edit inserts the    *)
(* row when it is gone.                                                    *)
EditWriteAdds(e) ==
    LET u == EditUser[e]
    IN  /\ epc[e] = "write"
        /\ balance[u] + copy[e] \in Stored
        /\ balance' = [balance EXCEPT ![u] = @ + copy[e]]
        /\ epc' = [epc EXCEPT ![e] = "ok"]
        /\ UNCHANGED <<exists, live, rows, total, reqVars, copy, delVars,
                       faults, credited, paid>>

EditWriteUpserts(e) ==
    LET u == EditUser[e]
    IN  /\ epc[e] = "write"
        /\ exists' = [exists EXCEPT ![u] = TRUE]
        /\ epc' = [epc EXCEPT ![e] = "ok"]
        /\ UNCHANGED <<balance, live, rows, total, reqVars, copy, delVars,
                       faults, credited, paid>>

(* UserStore::update_user: every column of the copy, balance included.     *)
EditWrite(e) ==
    LET u == EditUser[e]
    IN  /\ epc[e] = "write"
        /\ \/ /\ exists[u]
              /\ \E a \in Amounts :
                    /\ copy[e] + a \in Stored
                    /\ balance' = [balance EXCEPT ![u] = copy[e] + a]
                    /\ credited' = [credited EXCEPT ![u] = @ + a]
              /\ epc' = [epc EXCEPT ![e] = "ok"]
           \/ /\ ~exists[u]
              /\ epc' = [epc EXCEPT ![e] = "refused"]
              /\ UNCHANGED <<balance, credited>>
        /\ UNCHANGED <<exists, live, rows, total, reqVars, copy,
                       delVars, faults, paid>>

-----------------------------------------------------------------------------
(* TokenStore::delete_user_token, alone or for each token of a user that   *)
(* UserStore::delete_user removes.                                         *)

DeleteToken(d) ==
    /\ dpc[d] = "idle"
    /\ \E t \in Tokens : todo' = [todo EXCEPT ![d] = {t}]
    /\ dpc' = [dpc EXCEPT ![d] = "next"]
    /\ UNCHANGED <<dbVars, reqVars, editVars, dcur, duser, faults, credited,
                   paid>>

DeleteUser(d) ==
    /\ dpc[d] = "idle"
    /\ \E u \in Users :
          /\ exists[u]
          /\ todo' = [todo EXCEPT ![d] = {t \in live : Owner[t] = u}]
          /\ duser' = [duser EXCEPT ![d] = {u}]
    /\ dpc' = [dpc EXCEPT ![d] = "next"]
    /\ UNCHANGED <<dbVars, reqVars, editVars, dcur, faults, credited, paid>>

(* The SELECT of the token row: a token already gone is skipped.           *)
DeleteNext(d) ==
    /\ dpc[d] = "next"
    /\ \/ \E t \in todo[d] :
             /\ todo' = [todo EXCEPT ![d] = @ \ {t}]
             /\ dcur' = [dcur EXCEPT ![d] = {t}]
             /\ dpc' = [dpc EXCEPT ![d] = IF t \in live THEN "totals" ELSE "next"]
       \/ /\ todo[d] = {}
          /\ dpc' = [dpc EXCEPT ![d] = IF duser[d] = {} THEN "done" ELSE "user"]
          /\ UNCHANGED <<todo, dcur>>
    /\ UNCHANGED <<dbVars, reqVars, editVars, duser, faults, credited, paid>>

DeleteTotals(d) ==
    /\ dpc[d] = "totals"
    /\ total' = [t \in Tokens |-> IF t \in dcur[d] THEN 0 ELSE total[t]]
    /\ dpc' = [dpc EXCEPT ![d] = "rows"]
    /\ UNCHANGED <<exists, balance, live, rows, reqVars, editVars, todo, dcur,
                   duser, faults, credited, paid>>

DeleteRows(d) ==
    /\ dpc[d] = "rows"
    /\ rows' = {w \in rows : TokenOf[w.req] \notin dcur[d]}
    /\ dpc' = [dpc EXCEPT ![d] = "token"]
    /\ UNCHANGED <<exists, balance, live, total, reqVars, editVars, todo, dcur,
                   duser, faults, credited, paid>>

DeleteTokenRow(d) ==
    /\ dpc[d] = "token"
    /\ live' = live \ dcur[d]
    /\ dpc' = [dpc EXCEPT ![d] = "next"]
    /\ UNCHANGED <<exists, balance, rows, total, reqVars, editVars, todo, dcur,
                   duser, faults, credited, paid>>

(* The object layer's part of delete_user: one transaction; it throws, and *)
(* changes nothing, when another deletion erased the user first.           *)
DeleteUserRow(d) ==
    /\ dpc[d] = "user"
    /\ \E u \in duser[d] :
          \/ /\ exists[u]
             /\ exists' = [exists EXCEPT ![u] = FALSE]
             /\ rows' = {w \in rows : User(w.req) # u}
             /\ total' = [t \in Tokens |-> IF Owner[t] = u THEN 0 ELSE total[t]]
          \/ ~exists[u] /\ UNCHANGED <<exists, rows, total>>
    /\ dpc' = [dpc EXCEPT ![d] = "done"]
    /\ UNCHANGED <<balance, live, reqVars, editVars, todo, dcur, duser, faults,
                   credited, paid>>

-----------------------------------------------------------------------------
(* A process dies with its threads and starts again: the request counter   *)
(* is a static of the process and is back at 0.  Edits and deletions of    *)
(* the control plane are served by every process; those caught are lost.   *)
Restart(p) ==
    /\ faults < MaxFaults
    /\ faults' = faults + 1
    /\ counter' = [counter EXCEPT ![p] = 0]
    /\ pc' = [r \in Requests |->
                IF ProcOf[r] = p /\ pc[r] \in InFlight THEN "crashed" ELSE pc[r]]
    /\ \E lostE \in SUBSET Edits, lostD \in SUBSET Deletions :
          /\ epc' = [e \in Edits |->
                       IF e \in lostE /\ epc[e] = "write" THEN "lost" ELSE epc[e]]
          /\ dpc' = [d \in Deletions |->
                       IF d \in lostD /\ dpc[d] \notin {"idle", "done"}
                         THEN "done" ELSE dpc[d]]
    /\ UNCHANGED <<dbVars, id, cost, seen, seenTotal, copy, todo, dcur,
                   duser, credited, paid>>

RequestStep(r) ==
    \/ Arrive(r) \/ Gate(r) \/ Upstream(r)
    \/ DebitRead(r) \/ DebitWrite(r)
    \/ CommitBegin(r) \/ CommitWrite(r)
    \/ DbError(r)

EditStep(e) == EditRead(e) \/ EditWrite(e)

DeletionStep(d) ==
    \/ DeleteToken(d) \/ DeleteUser(d) \/ DeleteNext(d)
    \/ DeleteTotals(d) \/ DeleteRows(d) \/ DeleteTokenRow(d)
    \/ DeleteUserRow(d)

Next ==
    \/ \E r \in Requests : RequestStep(r)
    \/ \E e \in Edits : EditStep(e)
    \/ \E d \in Deletions : DeletionStep(d)
    \/ \E p \in Procs : Restart(p)

Spec == Init /\ [][Next]_vars

-----------------------------------------------------------------------------
(* Properties.                                                             *)

(* The values the tables and the threads hold; every balance is one that   *)
(* "%.6f" can print.                                                       *)
TypeOK ==
    /\ exists \in [Users -> BOOLEAN]
    /\ balance \in [Users -> Stored]
    /\ live \subseteq Tokens
    /\ rows \subseteq [id : Nat, req : Requests]
    /\ total \in [Tokens -> Nat]
    /\ counter \in [Procs -> Nat]
    /\ pc \in [Requests -> {"new"} \cup InFlight \cup Terminal]
    /\ id \in [Requests -> Nat]
    /\ cost \in [Requests -> Nat]
    /\ seen \in [Requests -> Stored]
    /\ seenTotal \in [Requests -> Nat]
    /\ epc \in [Edits -> {"idle", "write", "ok", "refused", "lost"}]
    /\ copy \in [Edits -> Stored]
    /\ dpc \in [Deletions -> {"idle", "next", "totals", "rows", "token", "user",
                              "done"}]
    /\ todo \in [Deletions -> SUBSET Tokens]
    /\ dcur \in [Deletions -> SUBSET Tokens]
    /\ duser \in [Deletions -> SUBSET Users]
    /\ faults \in 0..MaxFaults
    /\ credited \in [Users -> Int]
    /\ paid \subseteq Requests

(* commit_proxy_usage debits before it records: whatever restarts, errors, *)
(* reused ids and deletions intervene, every row of requests belongs to a  *)
(* request whose debit reported success.                                   *)
PaidBeforeRecorded == \A w \in rows : w.req \in paid

(* The debit writes a balance computed from a stale read, and rounded, but *)
(* it checked that read against the cost: no interleaving of debits, edits *)
(* and deletions takes a balance below zero.                               *)
NeverOverdrawn == \A u \in Users : balance[u] >= 0

(* Debits and edits write absolute balances computed from stale copies and *)
(* may undo each other, yet no interleaving leaves a user more than what   *)
(* the account ever received.                                              *)
NoMoneyFromNowhere == \A u \in Users : balance[u] <= credited[u]

(* Request::commit reporting success means the request has its row.        *)
CommittedIsRecorded ==
    \A r \in Requests :
        pc[r] = "committed" => \E w \in rows : w.req = r

(* A user that delete_user removed never comes back, although edits in     *)
(* progress still hold a full copy of the row and write all of it.         *)
DeletedUserStaysDeleted == [][\A u \in Users : ~exists[u] => ~exists'[u]]_vars

(* request_totals never counts a request that requests does not hold, and  *)
(* has a row for a token exactly when requests has one: concurrent         *)
(* apply_total steps can only lose increments.                             *)
TotalsWithinRows ==
    \A t \in Tokens :
        /\ total[t] <= Cardinality(RowsOf(t))
        /\ total[t] = 0 <=> RowsOf(t) = {}
=============================================================================
