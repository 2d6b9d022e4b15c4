------------------------------ MODULE MCLedger ------------------------------
(* Instances of Ledger.  Money is counted in half micro-dollars: balances  *)
(* are even, a cost of 1 exercises the rounding of "%.6f".                 *)
EXTENDS Ledger, FiniteSetsExt

CONSTANTS p1, p2, u1, t1, t2, r1, r2, r3

MCOwner == [t \in Tokens |-> u1]
MCTokenOf == [r \in Requests |-> IF r = r3 /\ t2 \in Tokens THEN t2 ELSE t1]
MCProcOf == [r \in Requests |-> IF r = r2 /\ p2 \in Procs THEN p2 ELSE p1]
MCEditUser == [e \in Edits |-> u1]
MCStored == {-2, 0, 2, 4}

-----------------------------------------------------------------------------
(* What a debit may take: the cost, rounded up to a whole micro-dollar.    *)
Charge(r) == cost[r] + (cost[r] % 2)

(* While nobody tops the account up, debits that overwrite each other, the *)
(* whole-row write of a profile edit, the rounding of each new balance and *)
(* commits that fail after their debit never make a user pay more than the *)
(* costs of the requests whose debit reported success, each of them once   *)
(* and rounded up.                                                         *)
OnlyCostsAreCharged ==
    \A u \in Users :
        credited[u] - balance[u] <=
            MapThenSumSet(Charge, {r \in paid : User(r) = u})

-----------------------------------------------------------------------------
(* What the documentation promises and the code does not keep.             *)

Quiescent == /\ \A r \in Requests : pc[r] \in {"new"} \cup Terminal
             /\ \A e \in Edits : epc[e] # "write"

PaidBy(u) == MapThenSumSet(LAMBDA r : cost[r], {r \in paid : User(r) = u})

(* Requests are charged to users.balance_usd (data-model.md): once nothing *)
(* is in progress, the balance has gone down by every debit that reported  *)
(* success.                                                                *)
EveryDebitCounts ==
    Quiescent => \A u \in Users : balance[u] + PaidBy(u) <= credited[u]
=============================================================================
