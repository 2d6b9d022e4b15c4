------------------------------ MODULE ConnPool ------------------------------
(***************************************************************************)
(* The connections of the MySQL pool (database.cpp) as the threads of the  *)
(* HTTP server use them.  A store operation opens a ScopedTransaction,     *)
(* which takes a connection until the transaction ends, and runs its       *)
(* statements through sql_exec and sql_query_*, each of which takes a      *)
(* connection of its own for as long as it runs.  Some statements run      *)
(* outside a transaction.  The pool makes a thread wait, without a limit,  *)
(* while MaxOpen connections are out.                                      *)
(***************************************************************************)
EXTENDS Integers, FiniteSets

CONSTANTS Threads,       \* the threads of the HTTP server
          MaxOpen,       \* db_max_open_conns
          MaxCalls       \* bound on the store calls of a thread

ASSUME PoolAssumption ==
    /\ IsFiniteSet(Threads)
    /\ MaxOpen \in Nat \ {0}
    /\ MaxCalls \in Nat

VARIABLES
    pc,        \* "out", "begin", "txn", "nested", "running", "alone" or
               \* "running_alone"
    calls,     \* the store calls a thread has made
    txns,      \* the threads whose transaction holds a connection
    stmts      \* the threads whose statement holds a connection

vars == <<pc, calls, txns, stmts>>

Open == Cardinality(txns) + Cardinality(stmts)

(* Mutant: the bound on the connections is off by one.                     *)
AvailableLate == Open < MaxOpen - 1

Available == Open < MaxOpen

Init ==
    /\ pc = [t \in Threads |-> "out"]
    /\ calls = [t \in Threads |-> 0]
    /\ txns = {}
    /\ stmts = {}

-----------------------------------------------------------------------------
(* A store operation starts, with a transaction or without.                *)
Call(t) ==
    /\ pc[t] = "out" /\ calls[t] < MaxCalls
    /\ pc' = [pc EXCEPT ![t] = "begin"] \/ pc' = [pc EXCEPT ![t] = "alone"]
    /\ calls' = [calls EXCEPT ![t] = @ + 1]
    /\ UNCHANGED <<txns, stmts>>

(* db.begin(): waits until a connection is available.                      *)
Begin(t) ==
    /\ pc[t] = "begin" /\ Available
    /\ txns' = txns \cup {t}
    /\ pc' = [pc EXCEPT ![t] = "txn"]
    /\ UNCHANGED <<calls, stmts>>

(* The operation comes to its next statement; statements of ODB run on the *)
(* transaction's connection and need none.                                 *)
Nest(t) ==
    /\ pc[t] = "txn"
    /\ pc' = [pc EXCEPT ![t] = "nested"]
    /\ UNCHANGED <<calls, txns, stmts>>

(* db.connection() in sql_exec, sql_query_one and sql_query_rows.          *)
Statement(t) ==
    /\ pc[t] \in {"nested", "alone"} /\ Available
    /\ stmts' = stmts \cup {t}
    /\ pc' = [pc EXCEPT ![t] = IF pc[t] = "nested" THEN "running" ELSE "running_alone"]
    /\ UNCHANGED <<calls, txns>>

(* A new connection to the server cannot be made: the operation ends with  *)
(* an exception.                                                           *)
ConnectFails(t) ==
    /\ pc[t] \in {"begin", "nested", "alone"} /\ Available
    /\ txns' = txns \ {t}
    /\ pc' = [pc EXCEPT ![t] = "out"]
    /\ UNCHANGED <<calls, stmts>>

(* The statement ends and its connection_ptr goes out of scope.            *)
StatementEnds(t) ==
    /\ pc[t] = "running"
    /\ stmts' = stmts \ {t}
    /\ pc' = [pc EXCEPT ![t] = "txn"]
    /\ UNCHANGED <<calls, txns>>

StatementEndsAlone(t) ==
    /\ pc[t] = "running_alone"
    /\ stmts' = stmts \ {t}
    /\ pc' = [pc EXCEPT ![t] = "out"]
    /\ UNCHANGED <<calls, txns>>

(* commit(), an early return, or an exception: of ODB, or of the statement *)
(* that runs.  The transaction gives its connection back.                  *)
Release(t) ==
    /\ pc[t] \in {"txn", "running"}
    /\ txns' = txns \ {t}
    /\ stmts' = stmts \ {t}
    /\ pc' = [pc EXCEPT ![t] = "out"]
    /\ UNCHANGED calls

Step(t) ==
    \/ Begin(t) \/ Nest(t) \/ Statement(t) \/ ConnectFails(t)
    \/ StatementEnds(t) \/ StatementEndsAlone(t) \/ Release(t)

Next == \E t \in Threads : Call(t) \/ Step(t)

(* A thread that can run does, and an operation runs finitely many         *)
(* statements: it is released again and again unless it waits.             *)
Fairness == \A t \in Threads :
    /\ WF_vars(Begin(t) \/ Statement(t) \/ StatementEnds(t) \/ StatementEndsAlone(t))
    /\ SF_vars(Release(t))

Spec == Init /\ [][Next]_vars /\ Fairness

-----------------------------------------------------------------------------
(* Properties.                                                             *)

TypeOK ==
    /\ pc \in [Threads -> {"out", "begin", "txn", "nested", "running", "alone",
                           "running_alone"}]
    /\ calls \in [Threads -> 0..MaxCalls]
    /\ txns = {t \in Threads : pc[t] \in {"txn", "nested", "running"}}
    /\ stmts = {t \in Threads : pc[t] \in {"running", "running_alone"}}

Waiting == {t \in Threads : pc[t] \in {"begin", "nested", "alone"}}

(* Threads that wait for a connection do not all wait for each other:      *)
(* either there is one, or a thread that holds one is running.             *)
NeverExhausted == Waiting # {} => Available \/ (txns \cup stmts) \ Waiting # {}

(* Every store operation ends.                                             *)
OperationsEnd == \A t \in Threads : pc[t] # "out" ~> pc[t] = "out"
=============================================================================
