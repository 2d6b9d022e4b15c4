---------------------------- MODULE LedgerProofs ----------------------------
(***************************************************************************)
(* Theorems about Ledger, for every set of processes, users, tokens,       *)
(* requests, edits and deletions, every cost and every grid of storable    *)
(* balances that has 0.                                                    *)
(***************************************************************************)
EXTENDS Ledger, FiniteSetTheorems, TLAPS

(* The stale copies threads hold are bounded like the balance they were    *)
(* read from: this is what makes NeverOverdrawn and NoMoneyFromNowhere     *)
(* inductive.                                                              *)
CopiesBounded ==
    /\ \A e \in Edits :
          epc[e] = "write" => 0 <= copy[e] /\ copy[e] <= credited[EditUser[e]]
    /\ \A r \in Requests :
          pc[r] = "debitWrite" => cost[r] <= seen[r] /\ seen[r] <= credited[User(r)]

(* A thread that is recording has paid.                                    *)
RecordersPaid ==
    \A r \in Requests : pc[r] \in {"commit", "commitWrite"} => r \in paid

MoneyInv == NeverOverdrawn /\ NoMoneyFromNowhere /\ CopiesBounded

RecordInv == PaidBeforeRecorded /\ RecordersPaid

-----------------------------------------------------------------------------
(* What "%.6f" prints for a difference of a storable balance and a cost it *)
(* covers lies between 0 and that balance.                                 *)
LEMMA PrintedBetween ==
    ASSUME NEW b \in Stored, NEW c \in Nat, c <= b, NEW y \in Printed(b - c)
    PROVE  y \in Stored /\ 0 <= y /\ y <= b
  <1>1. y \in Stored /\ y \in Int /\ b \in Int /\ 0 \in Stored
    BY ConstantsAssumption DEF Printed
  <1>2. Distance(b - c, y) <= Distance(b - c, b)
    BY <1>1 DEF Printed
  <1>3. Distance(b - c, y) <= Distance(b - c, 0)
    BY <1>1 DEF Printed
  <1>4. QED
    BY <1>1, <1>2, <1>3 DEF Distance

-----------------------------------------------------------------------------
LEMMA TypeInit == Init => TypeOK
  BY ConstantsAssumption DEF Init, TypeOK, InFlight, Terminal

LEMMA TypeRequest ==
    ASSUME TypeOK, NEW r \in Requests, RequestStep(r)
    PROVE  TypeOK'
  <1>0. /\ User(r) \in Users /\ TokenOf[r] \in Tokens /\ ProcOf[r] \in Procs
        /\ 0 \in Stored
    BY ConstantsAssumption DEF User
  <1>1. CASE Arrive(r)
    BY <1>0, <1>1 DEF TypeOK, Arrive, Goto, dbVars, editVars, delVars, InFlight, Terminal
  <1>2. CASE Gate(r)
    BY <1>2 DEF TypeOK, Gate, Goto, dbVars, editVars, delVars, InFlight, Terminal
  <1>3. CASE Upstream(r)
    <2>1. cost' \in [Requests -> Nat]
      BY <1>3, ConstantsAssumption DEF TypeOK, Upstream
    <2>2. pc' \in [Requests -> {"new"} \cup InFlight \cup Terminal]
      BY <1>3 DEF TypeOK, Upstream, Goto, InFlight, Terminal
    <2>3. UNCHANGED <<dbVars, counter, id, seen, seenTotal, editVars, delVars, faults, credited,
                      paid>>
      BY <1>3 DEF Upstream
    <2>4. QED
      BY <2>1, <2>2, <2>3 DEF TypeOK, dbVars, editVars, delVars
  <1>4. CASE DebitRead(r)
    BY <1>0, <1>4 DEF TypeOK, DebitRead, Goto, dbVars, editVars, delVars, InFlight, Terminal
  <1>5. CASE DebitWrite(r)
    BY <1>0, <1>5
       DEF TypeOK, DebitWrite, Printed, Goto, dbVars, editVars, delVars, InFlight, Terminal
  <1>6. CASE CommitBegin(r)
    BY <1>0, <1>6 DEF TypeOK, CommitBegin, Goto, dbVars, editVars, delVars, InFlight, Terminal
  <1>7. CASE CommitWrite(r)
    BY <1>0, <1>7 DEF TypeOK, CommitWrite, Goto, dbVars, editVars, delVars, InFlight, Terminal
  <1>8. CASE DbError(r)
    BY <1>8, ConstantsAssumption
       DEF TypeOK, DbError, Goto, dbVars, editVars, delVars, InFlight, Terminal
  <1>9. QED
    BY <1>1, <1>2, <1>3, <1>4, <1>5, <1>6, <1>7, <1>8 DEF RequestStep

LEMMA TypeEdit ==
    ASSUME TypeOK, NEW e \in Edits, EditStep(e)
    PROVE  TypeOK'
  <1>0. EditUser[e] \in Users
    BY ConstantsAssumption
  <1>1. CASE EditRead(e)
    BY <1>0, <1>1 DEF TypeOK, EditRead, dbVars, reqVars, delVars
  <1>2. CASE EditWrite(e)
    BY <1>0, <1>2, ConstantsAssumption DEF TypeOK, EditWrite, reqVars, delVars
  <1>3. QED
    BY <1>1, <1>2 DEF EditStep

LEMMA TypeDeletion ==
    ASSUME TypeOK, NEW d \in Deletions, DeletionStep(d)
    PROVE  TypeOK'
  <1>1. CASE DeleteToken(d)
    BY <1>1 DEF TypeOK, DeleteToken, dbVars, reqVars, editVars
  <1>2. CASE DeleteUser(d)
    BY <1>2 DEF TypeOK, DeleteUser, dbVars, reqVars, editVars
  <1>3. CASE DeleteNext(d)
    BY <1>3 DEF TypeOK, DeleteNext, dbVars, reqVars, editVars
  <1>4. CASE DeleteTotals(d)
    BY <1>4 DEF TypeOK, DeleteTotals, reqVars, editVars
  <1>5. CASE DeleteRows(d)
    BY <1>5 DEF TypeOK, DeleteRows, reqVars, editVars
  <1>6. CASE DeleteTokenRow(d)
    BY <1>6 DEF TypeOK, DeleteTokenRow, reqVars, editVars
  <1>7. CASE DeleteUserRow(d)
    <2>1. PICK u \in duser[d] :
             \/ /\ exists' = [exists EXCEPT ![u] = FALSE]
                /\ rows' = {w \in rows : User(w.req) # u}
                /\ total' = [t \in Tokens |-> IF Owner[t] = u THEN 0 ELSE total[t]]
             \/ UNCHANGED <<exists, rows, total>>
      BY <1>7 DEF DeleteUserRow
    <2>2. exists' \in [Users -> BOOLEAN]
      BY <2>1 DEF TypeOK
    <2>3. rows' \subseteq rows /\ total' \in [Tokens -> Nat]
      BY <2>1 DEF TypeOK
    <2>4. QED
      BY <1>7, <2>2, <2>3 DEF TypeOK, DeleteUserRow, reqVars, editVars
  <1>8. QED
    BY <1>1, <1>2, <1>3, <1>4, <1>5, <1>6, <1>7 DEF DeletionStep

LEMMA TypeRestart ==
    ASSUME TypeOK, NEW p \in Procs, Restart(p)
    PROVE  TypeOK'
  BY ConstantsAssumption DEF TypeOK, Restart, dbVars, InFlight, Terminal

LEMMA TypeNext == TypeOK /\ [Next]_vars => TypeOK'
  <1> SUFFICES ASSUME TypeOK, [Next]_vars PROVE TypeOK'
    OBVIOUS
  <1>1. CASE UNCHANGED vars
    BY <1>1 DEF TypeOK, vars, dbVars, reqVars, editVars, delVars
  <1>2. CASE Next
    BY <1>2, TypeRequest, TypeEdit, TypeDeletion, TypeRestart DEF Next
  <1>3. QED
    BY <1>1, <1>2

(* The tables and the threads of the billing path keep their types.        *)
THEOREM LedgerTyped == Spec => []TypeOK
  BY TypeInit, TypeNext, PTL DEF Spec

-----------------------------------------------------------------------------
LEMMA MoneyInit == Init => MoneyInv
  BY ConstantsAssumption
     DEF Init, MoneyInv, NeverOverdrawn, NoMoneyFromNowhere, CopiesBounded

(* No request step but the two of the debit touches a balance or a copy.   *)
LEMMA MoneyRequest ==
    ASSUME TypeOK, MoneyInv, NEW r \in Requests, RequestStep(r)
    PROVE  MoneyInv'
  <1> USE DEF MoneyInv, NeverOverdrawn, NoMoneyFromNowhere, CopiesBounded
  <1>0. User(r) \in Users /\ Stored \subseteq Int
    BY ConstantsAssumption DEF User
  <1>1. CASE DebitRead(r)
    <2>1. \/ pc'[r] # "debitWrite" /\ UNCHANGED seen
          \/ /\ exists[User(r)]
             /\ seen' = [seen EXCEPT ![r] = balance[User(r)]]
             /\ cost[r] <= balance[User(r)]
      BY <1>0, <1>1 DEF DebitRead, TypeOK, Goto
    <2>2. UNCHANGED <<balance, credited, epc, copy, cost>>
      BY <1>1 DEF DebitRead, dbVars, editVars
    <2>3. \A q \in Requests : q # r => pc'[q] = pc[q] /\ User(q)' = User(q)
      BY <1>1 DEF DebitRead, Goto, TypeOK, User
    <2>4. QED
      BY <1>0, <2>1, <2>2, <2>3 DEF TypeOK, User
  <1>2. CASE DebitWrite(r)
    <2>1. PICK b \in Printed(seen[r] - cost[r]) :
             balance' = [balance EXCEPT ![User(r)] = IF exists[User(r)] THEN b ELSE @]
      BY <1>2 DEF DebitWrite
    <2>2. 0 <= b /\ b <= seen[r] /\ b \in Int
      <3>1. cost[r] \in Nat /\ seen[r] \in Stored /\ cost[r] <= seen[r]
        BY <1>2 DEF DebitWrite, TypeOK
      <3>2. QED
        BY <1>0, <2>1, <3>1, PrintedBetween
    <2>3. b <= credited[User(r)]
      <3>1. pc[r] = "debitWrite" /\ seen[r] \in Int /\ credited[User(r)] \in Int
        BY <1>0, <1>2 DEF DebitWrite, TypeOK
      <3>2. seen[r] <= credited[User(r)]
        BY <3>1
      <3>3. QED
        BY <2>2, <3>1, <3>2
    <2>4. \A u \in Users : 0 <= balance'[u] /\ balance'[u] <= credited[u]
      BY <1>0, <2>1, <2>2, <2>3 DEF TypeOK
    <2>5. QED
      BY <1>2, <2>4 DEF DebitWrite, Goto, editVars, TypeOK, User
  <1>3. CASE \/ Arrive(r) \/ Gate(r) \/ Upstream(r) \/ CommitBegin(r)
             \/ CommitWrite(r) \/ DbError(r)
    <2>1. UNCHANGED <<balance, credited, epc, copy, seen>> /\ pc'[r] # "debitWrite"
      BY <1>3 DEF Arrive, Gate, Upstream, CommitBegin, CommitWrite, DbError,
                  Goto, dbVars, editVars, TypeOK
    <2>2. \A q \in Requests : q # r => pc'[q] = pc[q] /\ cost'[q] = cost[q]
      BY <1>3 DEF Arrive, Gate, Upstream, CommitBegin, CommitWrite, DbError,
                  Goto, TypeOK
    <2>3. QED
      BY <2>1, <2>2 DEF User
  <1>4. QED
    BY <1>1, <1>2, <1>3 DEF RequestStep

LEMMA MoneyEdit ==
    ASSUME TypeOK, MoneyInv, NEW e \in Edits, EditStep(e)
    PROVE  MoneyInv'
  <1> USE DEF MoneyInv, NeverOverdrawn, NoMoneyFromNowhere, CopiesBounded
  <1>0. EditUser[e] \in Users /\ Stored \subseteq Int /\ Amounts \subseteq Nat
    BY ConstantsAssumption
  <1>1. CASE EditRead(e)
    BY <1>0, <1>1 DEF EditRead, dbVars, reqVars, TypeOK, User
  <1>2. CASE EditWrite(e)
    <2>1. CASE UNCHANGED <<balance, credited>>
      BY <1>2, <2>1 DEF EditWrite, reqVars, TypeOK, User
    <2>2. CASE \E a \in Amounts :
                  /\ balance' = [balance EXCEPT ![EditUser[e]] = copy[e] + a]
                  /\ credited' = [credited EXCEPT ![EditUser[e]] = @ + a]
      <3>1. PICK a \in Amounts :
                  /\ balance' = [balance EXCEPT ![EditUser[e]] = copy[e] + a]
                  /\ credited' = [credited EXCEPT ![EditUser[e]] = @ + a]
        BY <2>2
      <3>2. \A u \in Users : credited[u] \in Int /\ credited'[u] \in Int
                             /\ credited[u] <= credited'[u]
        BY <1>0, <3>1 DEF TypeOK
      <3>3. \A u \in Users : 0 <= balance'[u] /\ balance'[u] <= credited'[u]
        <4>1. /\ copy[e] \in Int /\ 0 <= copy[e] /\ copy[e] <= credited[EditUser[e]]
              /\ a \in Nat
          BY <1>0, <1>2 DEF EditWrite, TypeOK
        <4>2. \A u \in Users : /\ balance[u] \in Int
                                /\ 0 <= balance[u] /\ balance[u] <= credited[u]
          BY <1>0 DEF TypeOK
        <4>3. \A u \in Users :
                 \/ u = EditUser[e] /\ balance'[u] = copy[e] + a
                                    /\ credited'[u] = credited[u] + a
                 \/ balance'[u] = balance[u] /\ credited'[u] = credited[u]
          BY <1>0, <3>1 DEF TypeOK
        <4>4. QED
          BY <1>0, <3>2, <4>1, <4>2, <4>3
      <3>4. \A f \in Edits : epc'[f] = "write" => epc[f] = "write"
        BY <1>2 DEF EditWrite, TypeOK
      <3>5. UNCHANGED <<copy, pc, cost, seen>>
        BY <1>2 DEF EditWrite, reqVars
      <3>6. \A f \in Edits : EditUser[f] \in Users /\ copy[f] \in Int
        BY <1>0, ConstantsAssumption DEF TypeOK
      <3>7. \A q \in Requests : User(q) \in Users /\ seen[q] \in Int
        BY <1>0, ConstantsAssumption DEF TypeOK, User
      <3>8. QED
        BY <3>2, <3>3, <3>4, <3>5, <3>6, <3>7 DEF User
    <2>3. QED
      BY <1>2, <2>1, <2>2 DEF EditWrite
  <1>3. QED
    BY <1>1, <1>2 DEF EditStep

(* Deletions and restarts only end threads and remove rows.                *)
LEMMA MoneyOther ==
    ASSUME TypeOK, MoneyInv,
           \/ \E d \in Deletions : DeletionStep(d)
           \/ \E p \in Procs : Restart(p)
           \/ UNCHANGED vars
    PROVE  MoneyInv'
  <1>1. UNCHANGED <<balance, credited, copy, cost, seen>>
    BY DEF DeletionStep, DeleteToken, DeleteUser, DeleteNext, DeleteTotals,
           DeleteRows, DeleteTokenRow, DeleteUserRow, Restart, vars, dbVars,
           reqVars, editVars
  <1>2. /\ \A e \in Edits : epc'[e] = "write" => epc[e] = "write"
        /\ \A r \in Requests : pc'[r] = "debitWrite" => pc[r] = "debitWrite"
    BY DEF DeletionStep, DeleteToken, DeleteUser, DeleteNext, DeleteTotals,
           DeleteRows, DeleteTokenRow, DeleteUserRow, Restart, vars, dbVars,
           reqVars, editVars
  <1>3. QED
    BY <1>1, <1>2
       DEF MoneyInv, NeverOverdrawn, NoMoneyFromNowhere, CopiesBounded, User

LEMMA MoneyNext == TypeOK /\ MoneyInv /\ [Next]_vars => MoneyInv'
  BY MoneyRequest, MoneyEdit, MoneyOther DEF Next

(* Whatever stale copies debits, edits and top-ups work from, and whatever *)
(* fails in between, no balance goes below zero.                           *)
THEOREM BalanceNeverOverdrawn == Spec => []NeverOverdrawn
  <1>1. MoneyInv => NeverOverdrawn
    BY DEF MoneyInv
  <1>2. QED
    BY <1>1, MoneyInit, MoneyNext, LedgerTyped, PTL DEF Spec

(* ... and none exceeds what the account received.                         *)
THEOREM BalanceWithinCredits == Spec => []NoMoneyFromNowhere
  <1>1. MoneyInv => NoMoneyFromNowhere
    BY DEF MoneyInv
  <1>2. QED
    BY <1>1, MoneyInit, MoneyNext, LedgerTyped, PTL DEF Spec

-----------------------------------------------------------------------------
LEMMA RecordInit == Init => RecordInv
  BY DEF Init, RecordInv, PaidBeforeRecorded, RecordersPaid

LEMMA RecordRequest ==
    ASSUME TypeOK, RecordInv, NEW r \in Requests, RequestStep(r)
    PROVE  RecordInv'
  <1> USE DEF RecordInv, PaidBeforeRecorded, RecordersPaid
  <1>1. CASE CommitWrite(r)
    <2>1. CASE UNCHANGED rows
      BY <1>1, <2>1 DEF CommitWrite, Goto, TypeOK
    <2>2. CASE ~CommitConflict(r) /\ rows' = rows \cup {[id |-> id[r], req |-> r]}
      <3>1. r \in paid /\ UNCHANGED paid
        BY <1>1 DEF CommitWrite
      <3>2. QED
        BY <1>1, <2>2, <3>1 DEF CommitWrite, Goto, TypeOK
    <2>3. QED
      BY <1>1, <2>1, <2>2 DEF CommitWrite
  <1>2. CASE DebitRead(r) \/ DebitWrite(r)
    BY <1>2 DEF DebitRead, DebitWrite, Goto, dbVars, TypeOK
  <1>3. CASE Arrive(r) \/ Gate(r) \/ Upstream(r) \/ CommitBegin(r) \/ DbError(r)
    BY <1>3 DEF Arrive, Gate, Upstream, CommitBegin, DbError, Goto, dbVars, TypeOK
  <1>4. QED
    BY <1>1, <1>2, <1>3 DEF RequestStep

LEMMA RecordOther ==
    ASSUME TypeOK, RecordInv,
           \/ \E e \in Edits : EditStep(e)
           \/ \E d \in Deletions : DeletionStep(d)
           \/ \E p \in Procs : Restart(p)
           \/ UNCHANGED vars
    PROVE  RecordInv'
  <1>1. rows' \subseteq rows /\ UNCHANGED paid
    BY DEF EditStep, EditRead, EditWrite, DeletionStep, DeleteToken,
           DeleteUser, DeleteNext, DeleteTotals, DeleteRows, DeleteTokenRow,
           DeleteUserRow, Restart, vars, dbVars
  <1>2. \A r \in Requests :
           pc'[r] \in {"commit", "commitWrite"} => pc'[r] = pc[r]
    BY DEF EditStep, EditRead, EditWrite, DeletionStep, DeleteToken,
           DeleteUser, DeleteNext, DeleteTotals, DeleteRows, DeleteTokenRow,
           DeleteUserRow, Restart, vars, reqVars
  <1>3. QED
    BY <1>1, <1>2 DEF RecordInv, PaidBeforeRecorded, RecordersPaid

LEMMA RecordNext == TypeOK /\ RecordInv /\ [Next]_vars => RecordInv'
  BY RecordRequest, RecordOther DEF Next

(* No row of requests is unpaid, whatever crashes or collides.             *)
THEOREM RowsArePaid == Spec => []PaidBeforeRecorded
  <1>1. RecordInv => PaidBeforeRecorded
    BY DEF RecordInv
  <1>2. QED
    BY <1>1, RecordInit, RecordNext, LedgerTyped, PTL DEF Spec

-----------------------------------------------------------------------------
(* Without restarts, deletions and replicas the ids are fresh.             *)

Undisturbed == MaxFaults = 0 /\ Deletions = {} /\ \A p, q \in Procs : p = q

IdsAreFresh ==
    /\ \A r \in Requests : pc[r] # "new" => id[r] <= counter[ProcOf[r]]
    /\ \A r, s \in Requests : pc[r] # "new" /\ pc[s] # "new" /\ id[r] = id[s] => r = s

RowsAreCommitted == \A w \in rows : w.id = id[w.req] /\ pc[w.req] = "committed"

FreshInv == TypeOK /\ IdsAreFresh /\ RowsAreCommitted /\ CommittedIsRecorded

LEMMA FreshArrive ==
    ASSUME Undisturbed, FreshInv, TypeOK', NEW r \in Requests, Arrive(r)
    PROVE  FreshInv'
  <1>1. /\ pc[r] = "new" /\ ProcOf[r] \in Procs /\ UNCHANGED rows
        /\ id'[r] = counter[ProcOf[r]] + 1 /\ counter'[ProcOf[r]] = counter[ProcOf[r]] + 1
        /\ \A s \in Requests \ {r} : id'[s] = id[s] /\ pc'[s] = pc[s]
        /\ pc'[r] \in {"gate", "rejected"}
    BY ConstantsAssumption DEF Arrive, Goto, FreshInv, TypeOK, dbVars
  <1>2. \A s \in Requests : ProcOf[s] = ProcOf[r]
    BY ConstantsAssumption DEF Undisturbed
  <1>3. /\ counter[ProcOf[r]] \in Nat
        /\ \A s \in Requests : id[s] \in Nat
        /\ \A s \in Requests : pc[s] # "new" => id[s] <= counter[ProcOf[r]]
    BY <1>1, <1>2 DEF FreshInv, TypeOK, IdsAreFresh
  <1>4. IdsAreFresh'
    <2>1. ProcOf' = ProcOf
      OBVIOUS
    <2>2. \A s \in Requests : pc'[s] # "new" => id'[s] <= counter'[ProcOf[r]]
      BY <1>1, <1>3
    <2>3. \A s, t \in Requests : pc'[s] # "new" /\ pc'[t] # "new" /\ id'[s] = id'[t] => s = t
      <3> SUFFICES ASSUME NEW s \in Requests, NEW t \in Requests,
                          pc'[s] # "new", pc'[t] # "new", id'[s] = id'[t]
                   PROVE  s = t
        OBVIOUS
      <3>1. CASE s # r /\ t # r
        BY <1>1, <3>1 DEF FreshInv, IdsAreFresh
      <3>2. CASE s = r /\ t # r
        <4>1. id[t] <= counter[ProcOf[r]] /\ id'[t] = id[t]
          BY <1>1, <1>3, <3>2
        <4>2. QED
          BY <1>1, <1>3, <3>2, <4>1
      <3>3. CASE s # r /\ t = r
        <4>1. id[s] <= counter[ProcOf[r]] /\ id'[s] = id[s]
          BY <1>1, <1>3, <3>3
        <4>2. QED
          BY <1>1, <1>3, <3>3, <4>1
      <3>4. QED
        BY <3>1, <3>2, <3>3
    <2>4. QED
      BY <1>2, <2>1, <2>2, <2>3 DEF IdsAreFresh
  <1>5. RowsAreCommitted'
    <2>1. \A w \in rows : w.req \in Requests /\ w.req # r
      BY <1>1 DEF FreshInv, TypeOK, RowsAreCommitted
    <2>2. QED
      BY <1>1, <2>1 DEF FreshInv, RowsAreCommitted
  <1>6. CommittedIsRecorded'
    BY <1>1 DEF FreshInv, CommittedIsRecorded
  <1>7. QED
    BY <1>4, <1>5, <1>6 DEF FreshInv

(* The other steps of a request leave ids and counters alone; only a       *)
(* request that has its row is committed.                                  *)
LEMMA FreshRequest ==
    ASSUME Undisturbed, FreshInv, TypeOK', NEW r \in Requests, RequestStep(r), ~Arrive(r)
    PROVE  FreshInv'
  <1>1. UNCHANGED <<id, counter>> /\ pc[r] # "new" /\ pc[r] # "committed"
    BY DEF RequestStep, Gate, Upstream, DebitRead, DebitWrite, CommitBegin, CommitWrite, DbError
  <1>2. \A s \in Requests \ {r} : pc'[s] = pc[s]
    BY DEF RequestStep, Gate, Upstream, DebitRead, DebitWrite, CommitBegin, CommitWrite,
           DbError, Goto, FreshInv, TypeOK
  <1>3. IdsAreFresh'
    BY <1>1, <1>2 DEF FreshInv, IdsAreFresh
  <1>4. \A w \in rows : w.req \in Requests /\ w.req # r /\ w.id # id[r]
    BY <1>1 DEF FreshInv, TypeOK, RowsAreCommitted, IdsAreFresh
  <1>5. CASE UNCHANGED rows /\ pc'[r] # "committed"
    BY <1>1, <1>2, <1>3, <1>4, <1>5
       DEF FreshInv, RowsAreCommitted, CommittedIsRecorded
  <1>6. CASE rows' = rows \cup {[id |-> id[r], req |-> r]} /\ pc'[r] = "committed"
    <2>1. id' = id
      BY <1>1
    <2>2. RowsAreCommitted'
      BY <1>2, <1>4, <1>6, <2>1 DEF FreshInv, RowsAreCommitted
    <2>3. CommittedIsRecorded'
      <3> SUFFICES ASSUME NEW s \in Requests, pc'[s] = "committed"
                   PROVE  \E w \in rows' : w.req = s
        BY DEF CommittedIsRecorded
      <3>1. CASE s = r
        <4>1. [id |-> id[r], req |-> r] \in rows' /\ [id |-> id[r], req |-> r].req = r
          BY <1>6
        <4>2. QED
          BY <3>1, <4>1
      <3>2. CASE s # r
        <4>1. pc[s] = "committed"
          BY <1>2, <3>2
        <4>2. PICK w \in rows : w.req = s
          BY <4>1 DEF FreshInv, CommittedIsRecorded
        <4>3. w \in rows'
          BY <1>6
        <4>4. QED
          BY <4>2, <4>3
      <3>3. QED
        BY <3>1, <3>2
    <2>4. QED
      BY <1>3, <2>2, <2>3 DEF FreshInv
  <1>7. \/ UNCHANGED rows /\ pc'[r] # "committed"
        \/ rows' = rows \cup {[id |-> id[r], req |-> r]} /\ pc'[r] = "committed"
    <2>1. CASE CommitBegin(r)
      BY <1>4, <2>1 DEF CommitBegin, Goto, dbVars, FreshInv, TypeOK
    <2>2. CASE CommitWrite(r)
      BY <2>2 DEF CommitWrite, Goto, FreshInv, TypeOK
    <2>3. CASE ~CommitBegin(r) /\ ~CommitWrite(r)
      BY <2>3 DEF RequestStep, Gate, Upstream, DebitRead, DebitWrite, DbError, Goto, dbVars,
             FreshInv, TypeOK
    <2>4. QED
      BY <2>1, <2>2, <2>3
  <1>8. QED
    BY <1>5, <1>6, <1>7

LEMMA FreshNext == ASSUME Undisturbed PROVE FreshInv /\ [Next]_vars => FreshInv'
  <1> SUFFICES ASSUME FreshInv, [Next]_vars PROVE FreshInv'
    OBVIOUS
  <1>0. TypeOK'
    BY TypeNext DEF FreshInv
  <1>1. CASE \E r \in Requests : RequestStep(r)
    BY <1>0, <1>1, FreshArrive, FreshRequest
  <1>2. CASE (\E e \in Edits : EditStep(e)) \/ UNCHANGED vars
    <2>1. UNCHANGED <<id, counter, rows, pc>>
      BY <1>2 DEF EditStep, EditRead, EditWrite, vars, dbVars, reqVars
    <2>2. QED
      BY <1>0, <2>1 DEF FreshInv, IdsAreFresh, RowsAreCommitted, CommittedIsRecorded
  <1>3. CASE \E d \in Deletions : DeletionStep(d)
    BY <1>3 DEF Undisturbed
  <1>4. CASE \E p \in Procs : Restart(p)
    BY <1>4 DEF Undisturbed, Restart, FreshInv, TypeOK
  <1>5. QED
    BY <1>1, <1>2, <1>3, <1>4 DEF Next

(* On one process that is not restarted, and while nothing is deleted, a   *)
(* commit that reports success has stored its row.                         *)
THEOREM CommitsAreRecorded == ASSUME Undisturbed PROVE Spec => []CommittedIsRecorded
  <1>1. Init => FreshInv
    <2> SUFFICES ASSUME Init PROVE FreshInv
      OBVIOUS
    <2>1. \A r \in Requests : pc[r] = "new"
      BY DEF Init
    <2>2. rows = {}
      BY DEF Init
    <2>3. QED
      BY <2>1, <2>2, TypeInit DEF FreshInv, IdsAreFresh, RowsAreCommitted, CommittedIsRecorded
  <1>2. FreshInv => CommittedIsRecorded
    BY DEF FreshInv
  <1>3. QED
    BY <1>1, <1>2, FreshNext, PTL DEF Spec

-----------------------------------------------------------------------------
(* request_totals.                                                         *)

(* What a commit will add one to was no more than the rows there are now.  *)
TotalsInv ==
    /\ TypeOK /\ IsFiniteSet(rows)
    /\ TotalsWithinRows
    /\ \A r \in Requests : pc[r] = "commitWrite" =>
          seenTotal[r] <= Cardinality(RowsOf(TokenOf[r]))

LEMMA RowsOfFinite ==
    ASSUME IsFiniteSet(rows), NEW t
    PROVE  IsFiniteSet(RowsOf(t)) /\ Cardinality(RowsOf(t)) \in Nat
  BY FS_Subset, FS_CardinalityType DEF RowsOf

(* A commit adds its row to those of its token and sets the total to one   *)
(* more than it saw.                                                       *)
LEMMA TotalsCommit ==
    ASSUME TotalsInv, TypeOK', NEW r \in Requests, pc[r] = "commitWrite",
           ~CommitConflict(r),
           rows' = rows \cup {[id |-> id[r], req |-> r]},
           total' = [total EXCEPT ![TokenOf[r]] = seenTotal[r] + 1],
           pc' = [pc EXCEPT ![r] = "committed"], UNCHANGED seenTotal
    PROVE  TotalsInv'
  <1> DEFINE w == [id |-> id[r], req |-> r]
             T == TokenOf[r]
  <1>1. T \in Tokens /\ w \notin rows /\ w.req = r
    BY ConstantsAssumption DEF CommitConflict
  <1>2. IsFiniteSet(rows')
    BY FS_AddElement DEF TotalsInv
  <1>3. /\ RowsOf(T)' = RowsOf(T) \cup {w}
        /\ \A t \in Tokens \ {T} : RowsOf(t)' = RowsOf(t)
    BY <1>1 DEF RowsOf
  <1>4. w \notin RowsOf(T)
    BY <1>1 DEF RowsOf
  <1> HIDE DEF w
  <1>5. Cardinality(RowsOf(T)') = Cardinality(RowsOf(T)) + 1
    BY <1>3, <1>4, RowsOfFinite, FS_AddElement DEF TotalsInv
  <1>6. /\ total'[T] = seenTotal[r] + 1
        /\ \A t \in Tokens \ {T} : total'[t] = total[t]
    BY <1>1 DEF TotalsInv, TypeOK
  <1>7. seenTotal[r] \in Nat /\ seenTotal[r] <= Cardinality(RowsOf(T))
    BY DEF TotalsInv, TypeOK
  <1>8. TotalsWithinRows'
    <2>1. total'[T] <= Cardinality(RowsOf(T)') /\ total'[T] # 0 /\ RowsOf(T)' # {}
      <3>1. Cardinality(RowsOf(T)) \in Nat
        BY RowsOfFinite DEF TotalsInv
      <3>2. QED
        BY <1>3, <1>5, <1>6, <1>7, <3>1
    <2>2. \A t \in Tokens \ {T} :
             total'[t] <= Cardinality(RowsOf(t)') /\ (total'[t] = 0 <=> RowsOf(t)' = {})
      BY <1>3, <1>6 DEF TotalsInv, TotalsWithinRows
    <2>3. QED
      BY <2>1, <2>2 DEF TotalsWithinRows
  <1>9. \A s \in Requests : pc'[s] = "commitWrite" =>
           seenTotal[s] <= Cardinality(RowsOf(TokenOf[s])')
    <2> SUFFICES ASSUME NEW s \in Requests, pc'[s] = "commitWrite"
                 PROVE  seenTotal[s] <= Cardinality(RowsOf(TokenOf[s])')
      OBVIOUS
    <2>1. /\ seenTotal[s] \in Nat /\ TokenOf[s] \in Tokens
          /\ seenTotal[s] <= Cardinality(RowsOf(TokenOf[s]))
          /\ Cardinality(RowsOf(TokenOf[s])) \in Nat
      BY ConstantsAssumption, RowsOfFinite DEF TotalsInv, TypeOK
    <2>2. CASE TokenOf[s] = T
      BY <1>5, <2>1, <2>2
    <2>3. CASE TokenOf[s] # T
      <3>1. RowsOf(TokenOf[s])' = RowsOf(TokenOf[s])
        BY <1>3, <2>1, <2>3
      <3>2. QED
        BY <2>1, <3>1
    <2>4. QED
      BY <2>2, <2>3
  <1>10. QED
    BY <1>2, <1>8, <1>9 DEF TotalsInv, RowsOf

LEMMA TotalsNext == ASSUME Deletions = {} PROVE TotalsInv /\ [Next]_vars => TotalsInv'
  <1> SUFFICES ASSUME TotalsInv, [Next]_vars PROVE TotalsInv'
    OBVIOUS
  <1>0. TypeOK'
    BY TypeNext DEF TotalsInv
  <1>1. CASE \E r \in Requests : CommitWrite(r) /\ ~CommitConflict(r) /\ UNCHANGED seenTotal
             /\ rows' = rows \cup {[id |-> id[r], req |-> r]}
             /\ total' = [total EXCEPT ![TokenOf[r]] = seenTotal[r] + 1]
             /\ pc' = [pc EXCEPT ![r] = "committed"]
    BY <1>0, <1>1, TotalsCommit DEF CommitWrite
  <1>2. CASE \E r \in Requests : CommitBegin(r)
    <2>1. PICK r \in Requests : CommitBegin(r)
      BY <1>2
    <2>2. UNCHANGED <<rows, total>>
      BY <2>1 DEF CommitBegin, dbVars
    <2>3. \A t : RowsOf(t)' = RowsOf(t)
      BY <2>2 DEF RowsOf
    <2>4. TokenOf[r] \in Tokens /\ total[TokenOf[r]] <= Cardinality(RowsOf(TokenOf[r]))
      BY ConstantsAssumption DEF TotalsInv, TotalsWithinRows
    <2>5. \A s \in Requests : pc'[s] = "commitWrite" =>
             \/ pc[s] = "commitWrite" /\ seenTotal'[s] = seenTotal[s]
             \/ s = r /\ seenTotal'[s] = total[TokenOf[r]]
      BY <2>1 DEF CommitBegin, Goto, TotalsInv, TypeOK
    <2>6. QED
      BY <1>0, <2>2, <2>3, <2>4, <2>5 DEF TotalsInv, TotalsWithinRows
  <1>3. CASE /\ UNCHANGED <<rows, total, seenTotal>>
             /\ \A s \in Requests : pc'[s] = "commitWrite" => pc[s] = "commitWrite"
    <2>1. \A t : RowsOf(t)' = RowsOf(t)
      BY <1>3 DEF RowsOf
    <2>2. QED
      BY <1>0, <1>3, <2>1 DEF TotalsInv, TotalsWithinRows
  <1>4. CASE \E r \in Requests : RequestStep(r)
    <2>1. PICK r \in Requests : RequestStep(r)
      BY <1>4
    <2>2. CASE CommitWrite(r)
      BY <1>1, <1>3, <2>2 DEF CommitWrite, Goto, TotalsInv, TypeOK
    <2>3. CASE ~CommitWrite(r) /\ ~CommitBegin(r)
      <3>1. UNCHANGED <<rows, total, seenTotal>>
        BY <2>1, <2>3 DEF RequestStep, Arrive, Gate, Upstream, DebitRead, DebitWrite, DbError,
           dbVars
      <3>2. \A s \in Requests : pc'[s] = "commitWrite" => pc[s] = "commitWrite"
        BY <2>1, <2>3 DEF RequestStep, Arrive, Gate, Upstream, DebitRead, DebitWrite, DbError,
           Goto, TotalsInv, TypeOK
      <3>3. QED
        BY <1>3, <3>1, <3>2
    <2>4. QED
      BY <1>2, <2>2, <2>3
  <1>5. CASE \/ \E e \in Edits : EditStep(e)
             \/ \E p \in Procs : Restart(p)
             \/ UNCHANGED vars
    <2>1. UNCHANGED <<rows, total, seenTotal>>
      BY <1>5 DEF EditStep, EditRead, EditWrite, Restart, vars, dbVars, reqVars
    <2>2. \A s \in Requests : pc'[s] = "commitWrite" => pc[s] = "commitWrite"
      BY <1>5 DEF EditStep, EditRead, EditWrite, Restart, vars, reqVars
    <2>3. QED
      BY <1>3, <2>1, <2>2
  <1>6. QED
    BY <1>4, <1>5 DEF Next

(* However commits of one token interleave, on any number of processes     *)
(* that may be restarted, request_totals never counts more requests of a   *)
(* token than requests holds, as long as nothing is deleted.               *)
THEOREM TotalsNeverExceedRows == ASSUME Deletions = {} PROVE Spec => []TotalsWithinRows
  <1>1. Init => TotalsInv
    <2> SUFFICES ASSUME Init PROVE TotalsInv
      OBVIOUS
    <2>1. /\ rows = {} /\ \A t \in Tokens : total[t] = 0
          /\ \A r \in Requests : pc[r] = "new"
      BY DEF Init
    <2>2. \A t : RowsOf(t) = {}
      BY <2>1 DEF RowsOf
    <2>3. QED
      BY <2>1, <2>2, TypeInit, FS_EmptySet DEF TotalsInv, TotalsWithinRows
  <1>2. TotalsInv => TotalsWithinRows
    BY DEF TotalsInv
  <1>3. QED
    BY <1>1, <1>2, TotalsNext, PTL DEF Spec
-----------------------------------------------------------------------------
(* Only the object layer's part of delete_user writes the column exists.   *)
LEMMA ExistsOnlyFalls ==
    ASSUME TypeOK, [Next]_vars
    PROVE  \A u \in Users : ~exists[u] => ~exists'[u]
  <1>1. ASSUME NEW r \in Requests, RequestStep(r) PROVE UNCHANGED exists
    BY <1>1 DEF RequestStep, Arrive, Gate, Upstream, DebitRead, DebitWrite, CommitBegin,
                CommitWrite, DbError, dbVars
  <1>2. ASSUME NEW e \in Edits, EditStep(e) PROVE UNCHANGED exists
    BY <1>2 DEF EditStep, EditRead, EditWrite, dbVars
  <1>3. ASSUME NEW d \in Deletions, DeletionStep(d)
        PROVE  \A u \in Users : ~exists[u] => ~exists'[u]
    <2>1. \/ UNCHANGED exists
          \/ \E u \in duser[d] : exists' = [exists EXCEPT ![u] = FALSE]
      BY <1>3 DEF DeletionStep, DeleteToken, DeleteUser, DeleteNext, DeleteTotals,
                  DeleteRows, DeleteTokenRow, DeleteUserRow, dbVars
    <2>2. QED
      BY <2>1 DEF TypeOK
  <1>4. ASSUME NEW p \in Procs, Restart(p) PROVE UNCHANGED exists
    BY <1>4 DEF Restart, dbVars
  <1>5. CASE UNCHANGED vars
    BY <1>5 DEF vars, dbVars
  <1>6. QED
    BY <1>1, <1>2, <1>3, <1>4, <1>5 DEF Next

(* No edit in progress and no restart brings back a user whom delete_user  *)
(* removed.                                                                *)
THEOREM DeletionIsFinal == Spec => DeletedUserStaysDeleted
  BY LedgerTyped, ExistsOnlyFalls, PTL DEF Spec, DeletedUserStaysDeleted
=============================================================================
