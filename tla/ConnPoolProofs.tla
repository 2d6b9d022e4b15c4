--------------------------- MODULE ConnPoolProofs ---------------------------
(***************************************************************************)
(* The size of the pool that rules out that its threads block each other,  *)
(* for every number of threads and calls.                                  *)
(***************************************************************************)
EXTENDS ConnPool, FiniteSetTheorems, TLAPS

LEMMA PoolInit == Init => TypeOK
  <1> SUFFICES ASSUME Init PROVE TypeOK
    OBVIOUS
  <1>1. /\ pc \in [Threads -> {"out", "begin", "txn", "nested", "running", "alone",
                               "running_alone"}]
        /\ calls \in [Threads -> 0..MaxCalls]
    BY PoolAssumption DEF Init
  <1>2. /\ {t \in Threads : pc[t] \in {"txn", "nested", "running"}} = {}
        /\ {t \in Threads : pc[t] \in {"running", "running_alone"}} = {}
    BY DEF Init
  <1>3. QED
    BY <1>1, <1>2 DEF Init, TypeOK

(* What a thread holds is determined by where it is.                       *)
LEMMA PoolNext == TypeOK /\ [Next]_vars => TypeOK'
  <1> SUFFICES ASSUME TypeOK, [Next]_vars PROVE TypeOK'
    OBVIOUS
  <1> USE DEF TypeOK
  <1>1. CASE UNCHANGED vars
    BY <1>1 DEF vars
  <1>2. ASSUME NEW t \in Threads, Call(t) PROVE TypeOK'
    <2>1. calls[t] + 1 \in 0..MaxCalls
      BY <1>2, PoolAssumption DEF Call
    <2>2. QED
      BY <1>2, <2>1 DEF Call
  <1>3. ASSUME NEW t \in Threads, Begin(t) PROVE TypeOK'
    BY <1>3 DEF Begin
  <1>4. ASSUME NEW t \in Threads, Nest(t) PROVE TypeOK'
    BY <1>4 DEF Nest
  <1>5. ASSUME NEW t \in Threads, Statement(t) PROVE TypeOK'
    BY <1>5 DEF Statement
  <1>6. ASSUME NEW t \in Threads, ConnectFails(t) PROVE TypeOK'
    BY <1>6 DEF ConnectFails
  <1>7. ASSUME NEW t \in Threads, StatementEnds(t) PROVE TypeOK'
    BY <1>7 DEF StatementEnds
  <1>8. ASSUME NEW t \in Threads, StatementEndsAlone(t) PROVE TypeOK'
    BY <1>8 DEF StatementEndsAlone
  <1>9. ASSUME NEW t \in Threads, Release(t) PROVE TypeOK'
    BY <1>9 DEF Release
  <1>10. QED
    BY <1>1, <1>2, <1>3, <1>4, <1>5, <1>6, <1>7, <1>8, <1>9 DEF Next, Step

(* If every thread that holds a connection waits, no statement runs, and   *)
(* each thread holds at most the connection of its transaction.            *)
LEMMA LargePoolHasOne ==
    ASSUME TypeOK, MaxOpen > Cardinality(Threads)
    PROVE  NeverExhausted
  <1> SUFFICES ASSUME (txns \cup stmts) \subseteq Waiting PROVE Available
    BY DEF NeverExhausted
  <1>1. stmts = {}
    BY DEF TypeOK, Waiting
  <1>2. Cardinality(stmts) = 0
    BY <1>1, FS_EmptySet
  <1>3. Cardinality(txns) <= Cardinality(Threads) /\ Cardinality(txns) \in Nat
        /\ Cardinality(Threads) \in Nat
    <2>1. txns \subseteq Threads
      BY DEF TypeOK
    <2>2. QED
      BY <2>1, PoolAssumption, FS_Subset, FS_CardinalityType
  <1>4. QED
    BY <1>2, <1>3, PoolAssumption DEF Available, Open

(* A thread holds a connection exactly where the code says it does.        *)
THEOREM PoolTyped == Spec => []TypeOK
  BY PoolInit, PoolNext, PTL DEF Spec

(* A pool with more connections than the server has threads is never       *)
(* exhausted by transactions that wait for the connection of a statement.  *)
THEOREM LargePoolNeverExhausted ==
    ASSUME MaxOpen > Cardinality(Threads)
    PROVE  Spec => []NeverExhausted
  <1>1. TypeOK => NeverExhausted
    BY LargePoolHasOne
  <1>2. QED
    BY <1>1, PoolTyped, PTL
=============================================================================
