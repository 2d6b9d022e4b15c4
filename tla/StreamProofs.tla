---------------------------- MODULE StreamProofs ----------------------------
(***************************************************************************)
(* Theorems about StreamBridge and about StreamPump, the caller that uses  *)
(* it, for bodies, chunks, buffers and scripts of any size.                *)
(***************************************************************************)
EXTENDS StreamPump, FiniteSetTheorems, TLAPS

(* The queue holds the ends of the chunks between got and sent, in order.  *)
QueueInv ==
    /\ \A i, j \in 1..Len(chunks) : i < j => chunks[i] < chunks[j]
    /\ chunks # <<>> => chunks[Len(chunks)] = sent /\ got <= chunks[1]
    /\ chunks = <<>> => got = sent

(* Flags follow the worker: after its last critical section nothing is     *)
(* added to the queue.                                                     *)
FlagInv ==
    /\ done => wpc \in {"unwind", "destroying", "leaving", "exited"}
    /\ worker_error => done
    /\ cpc = "eof" => done /\ got = sent
    /\ cpc = "error" => worker_error /\ got = sent

BridgeInv == TypeOK /\ QueueInv /\ FlagInv

LEMMA BridgeInit == Init => BridgeInv
  <1> SUFFICES ASSUME Init PROVE BridgeInv
    OBVIOUS
  <1>1. TypeOK
    <2>1. /\ mu \in {"free", "caller"}
          /\ wpc \in {"send", "ok", "failed", "unwind", "destroying", "leaving", "exited"}
          /\ cpc \in {"wait", "joinLocked", "failed", "open", "reading", "eof",
                      "error", "joining", "closed", "destroying", "dropped"}
      BY DEF Init
    <2>2. chunks \in Seq(Nat) /\ sent \in Nat /\ got \in 0..sent
      BY DEF Init
    <2>3. /\ headers_ready \in BOOLEAN /\ done \in BOOLEAN
          /\ worker_error \in BOOLEAN /\ joinable \in BOOLEAN
      BY DEF Init
    <2>4. refs \subseteq {"caller", "worker"}
      BY DEF Init
    <2>5. QED
      BY <2>1, <2>2, <2>3, <2>4 DEF TypeOK
  <1>2. QueueInv
    BY DEF Init, QueueInv
  <1>3. FlagInv
    BY DEF Init, FlagInv
  <1>4. QED
    BY <1>1, <1>2, <1>3 DEF BridgeInv

(* Adding a chunk that ends after sent.                                    *)
LEMMA AppendKeeps ==
    ASSUME BridgeInv, NEW e \in Nat, sent < e, chunks' = Append(chunks, e),
           sent' = e, UNCHANGED got
    PROVE  chunks' \in Seq(Nat) /\ QueueInv' /\ got' \in 0..sent'
  <1>0. chunks \in Seq(Nat) /\ sent \in Nat /\ got \in 0..sent
    BY DEF BridgeInv, TypeOK
  <1>1. /\ chunks' \in Seq(Nat) /\ Len(chunks') = Len(chunks) + 1
        /\ chunks'[Len(chunks) + 1] = e
        /\ \A i \in 1..Len(chunks) : chunks'[i] = chunks[i]
    BY <1>0
  <1>2. \A i \in 1..Len(chunks) : chunks[i] \in Nat /\ chunks[i] < e
    <2> TAKE i \in 1..Len(chunks)
    <2>1. chunks # <<>> /\ Len(chunks) \in 1..Len(chunks) /\ chunks[Len(chunks)] = sent
      BY <1>0 DEF BridgeInv, QueueInv
    <2>2. chunks[i] <= sent
      BY <1>0, <2>1 DEF BridgeInv, QueueInv
    <2>3. QED
      BY <1>0, <2>2
  <1>3. \A i, j \in 1..Len(chunks') : i < j => chunks'[i] < chunks'[j]
    <2> SUFFICES ASSUME NEW i \in 1..Len(chunks'), NEW j \in 1..Len(chunks'), i < j
                 PROVE  chunks'[i] < chunks'[j]
      OBVIOUS
    <2>1. i \in 1..Len(chunks) /\ chunks'[i] = chunks[i]
      BY <1>0, <1>1
    <2>2. CASE j = Len(chunks) + 1
      BY <1>1, <1>2, <2>1, <2>2
    <2>3. CASE j \in 1..Len(chunks)
      <3>1. chunks[i] < chunks[j]
        BY <2>1, <2>3 DEF BridgeInv, QueueInv
      <3>2. QED
        BY <1>1, <2>1, <2>3, <3>1
    <2>4. Len(chunks) \in Nat /\ j \in 1..(Len(chunks) + 1)
      BY <1>0, <1>1
    <2>5. j = Len(chunks) + 1 \/ j \in 1..Len(chunks)
      BY <2>4
    <2>6. QED
      BY <2>2, <2>3, <2>5
  <1>4. chunks' # <<>> /\ got <= chunks'[1]
    BY <1>0, <1>1 DEF BridgeInv, QueueInv
  <1>5. QED
    BY <1>0, <1>1, <1>3, <1>4 DEF QueueInv

LEMMA WorkerKeeps == BridgeInv /\ Worker => BridgeInv'
  <1> SUFFICES ASSUME BridgeInv, Worker PROVE BridgeInv'
    OBVIOUS
  <1> USE DEF BridgeInv, TypeOK, QueueInv, FlagInv
  <1>1. CASE WorkerHeaders
    BY <1>1 DEF WorkerHeaders
  <1>2. CASE WorkerChunk
    <2>1. PICK k \in ChunkSizes : sent' = sent + k /\ chunks' = Append(chunks, sent + k)
      BY <1>2 DEF WorkerChunk
    <2>2. sent + k \in Nat /\ sent < sent + k /\ UNCHANGED got
      BY <1>2, BridgeAssumption DEF WorkerChunk
    <2>3. chunks' \in Seq(Nat) /\ QueueInv' /\ got' \in 0..sent'
      BY <2>1, <2>2, AppendKeeps
    <2>4. QED
      BY <1>2, <2>1, <2>2, <2>3 DEF WorkerChunk
  <1>3. CASE WorkerReturn
    BY <1>3 DEF WorkerReturn
  <1>4. CASE WorkerFinish
    <2>1. UNCHANGED got /\ sent' \in Nat /\ chunks' \in Seq(Nat) /\ QueueInv'
                        /\ got' \in 0..sent'
      <3>1. CASE UNCHANGED <<chunks, sent>>
        BY <1>4, <3>1 DEF WorkerFinish
      <3>2. CASE sent = 0 /\ \E k \in ChunkSizes : sent' = k /\ chunks' = Append(chunks, k)
        BY <1>4, <3>2, AppendKeeps, BridgeAssumption DEF WorkerFinish
      <3>3. QED
        BY <1>4, <3>1, <3>2 DEF WorkerFinish
    <2>2. done' /\ wpc' = "unwind" /\ UNCHANGED <<cpc, mu, joinable, refs>>
      BY <1>4 DEF WorkerFinish
    <2>3. headers_ready' \in BOOLEAN /\ worker_error' \in BOOLEAN
      BY <1>4 DEF WorkerFinish
    <2>4. cpc \notin {"eof", "error"}
      BY <1>4 DEF WorkerFinish
    <2>5. QED
      BY <2>1, <2>2, <2>3, <2>4
  <1>5. CASE WorkerLeaves
    <2>1. /\ wpc \in {"unwind", "destroying", "leaving"}
          /\ wpc' \in {"destroying", "leaving", "exited"}
          /\ UNCHANGED <<mu, chunks, sent, got, headers_ready, done, worker_error, cpc>>
      BY <1>5 DEF WorkerLeaves, WorkerRelease, WorkerDestroys, WorkerExit
    <2>2. refs' \subseteq {"caller", "worker"}
      BY <1>5 DEF WorkerLeaves, WorkerRelease, WorkerDestroys, WorkerExit
    <2>3. joinable' \in BOOLEAN
      BY <1>5, Zenon DEF WorkerLeaves, WorkerRelease, WorkerDestroys, WorkerExit
    <2>4. QED
      BY <2>1, <2>2, <2>3
  <1>6. QED
    BY <1>1, <1>2, <1>3, <1>4, <1>5 DEF Worker

(* Popping a chunk that is read leaves a queue that begins after got.      *)
LEMMA UnreadKeeps ==
    ASSUME BridgeInv
    PROVE  /\ Unread \in Seq(Nat)
           /\ \A i, j \in 1..Len(Unread) : i < j => Unread[i] < Unread[j]
           /\ Unread # <<>> => Unread[Len(Unread)] = sent /\ got < Unread[1]
                                                          /\ Unread[1] <= sent
           /\ Unread = <<>> => got = sent
  <1>0. chunks \in Seq(Nat) /\ sent \in Nat /\ got \in 0..sent
    BY DEF BridgeInv, TypeOK
  <1>1. CASE chunks = <<>>
    BY <1>0, <1>1 DEF Unread, BridgeInv, QueueInv
  <1>2. CASE chunks # <<>>
    <2>1. /\ Head(chunks) = chunks[1] /\ Len(chunks) \in Nat \ {0}
          /\ chunks[Len(chunks)] = sent /\ got <= chunks[1]
          /\ \A i \in 1..Len(chunks) : chunks[i] \in Nat
          /\ \A i, j \in 1..Len(chunks) : i < j => chunks[i] < chunks[j]
      BY <1>0, <1>2 DEF BridgeInv, QueueInv
    <2>2. CASE got < chunks[1]
      <3>1. Unread = chunks
        BY <1>0, <2>1, <2>2 DEF Unread
      <3>2. chunks[1] <= sent
        BY <1>0, <2>1
      <3>3. QED
        BY <1>0, <1>2, <2>1, <2>2, <3>1, <3>2
    <2>3. CASE got >= chunks[1]
      <3>0. Unread = Tail(chunks)
        BY <2>1, <2>3 DEF Unread
      <3>1. /\ Unread \in Seq(Nat)
            /\ Len(Unread) = Len(chunks) - 1
            /\ \A i \in 1..Len(Unread) : Unread[i] = chunks[i + 1]
        BY <1>0, <1>2, <2>1, <3>0
      <3>2. got = chunks[1]
        BY <1>0, <2>1, <2>3
      <3>3. CASE Len(chunks) = 1
        BY <1>0, <2>1, <3>1, <3>2, <3>3
      <3>4. CASE Len(chunks) > 1
        <4>1. Unread # <<>> /\ Unread[Len(Unread)] = sent
          <5>1. Len(Unread) \in 1..Len(Unread) /\ Len(Unread) + 1 = Len(chunks)
            BY <2>1, <3>1, <3>4
          <5>2. Unread[Len(Unread)] = chunks[Len(chunks)]
            BY <3>1, <5>1
          <5>3. QED
            BY <2>1, <5>1, <5>2
        <4>2. Unread[1] = chunks[2] /\ got < chunks[2] /\ chunks[2] <= sent
          <5>1. 1 \in 1..Len(Unread) /\ 2 \in 1..Len(chunks) /\ Len(chunks) \in 2..Len(chunks)
            BY <2>1, <3>1, <3>4
          <5>2. Unread[1] = chunks[2]
            BY <3>1, <5>1
          <5>3. chunks[1] < chunks[2]
            BY <2>1, <5>1
          <5>4. chunks[2] <= chunks[Len(chunks)]
            BY <2>1, <5>1
          <5>5. QED
            BY <2>1, <3>2, <5>2, <5>3, <5>4
        <4>3. ASSUME NEW i \in 1..Len(Unread), NEW j \in 1..Len(Unread), i < j
              PROVE  Unread[i] < Unread[j]
          <5>1. i + 1 \in 1..Len(chunks) /\ j + 1 \in 1..Len(chunks) /\ i + 1 < j + 1
            BY <2>1, <3>1, <4>3
          <5>2. chunks[i + 1] < chunks[j + 1]
            BY <2>1, <5>1
          <5>3. QED
            BY <3>1, <5>2
        <4>4. got < Unread[1] /\ Unread[1] <= sent
          BY <4>2
        <4> HIDE DEF Unread
        <4>5. QED
          BY <3>1, <4>1, <4>3, <4>4
      <3>5. Len(chunks) = 1 \/ Len(chunks) > 1
        BY <2>1
      <3>6. QED
        BY <3>3, <3>4, <3>5
    <2>4. QED
      BY <1>0, <2>1, <2>2, <2>3
  <1>3. QED
    BY <1>1, <1>2

LEMMA ReadTurnKeeps ==
    ASSUME BridgeInv, ReadTurn, 
           UNCHANGED <<mu, sent, headers_ready, done, worker_error, wpc, joinable, refs>>
    PROVE  BridgeInv'
  <1>1. /\ chunks' = Unread
        /\ \/ Unread # <<>> /\ got' = Upto(got + BufSize, Unread[1]) /\ cpc' = "open"
           \/ Unread = <<>> /\ got' = got /\ cpc' = "eof" /\ done
           \/ Unread = <<>> /\ got' = got /\ cpc' = "reading"
    BY UnreadKeeps DEF ReadTurn
  <1>2. Unread # <<>> => Upto(got + BufSize, Unread[1]) \in Nat
                         /\ Upto(got + BufSize, Unread[1]) <= Unread[1]
    BY UnreadKeeps, BridgeAssumption DEF Upto, BridgeInv, TypeOK
  <1>3. QED
    BY <1>1, <1>2, UnreadKeeps DEF BridgeInv, TypeOK, QueueInv, FlagInv

LEMMA CallerKeeps == BridgeInv /\ Caller => BridgeInv'
  <1> SUFFICES ASSUME BridgeInv, Caller PROVE BridgeInv'
    OBVIOUS
  <1>1. CASE HeadersArrive \/ HeadersTimeout \/ Join \/ Close \/ Drop \/ CallerDestroys
    <2>1. /\ UNCHANGED <<chunks, sent, got, headers_ready, done, worker_error, wpc>>
          /\ cpc' \in {"joinLocked", "open", "failed", "closed", "joining", "destroying",
                       "dropped"}
      BY <1>1 DEF HeadersArrive, HeadersTimeout, Join, Close, Drop, CallerDestroys
    <2>2. mu' \in {"free", "caller"}
      BY <1>1 DEF HeadersArrive, HeadersTimeout, Join, Close, Drop, CallerDestroys,
                  BridgeInv, TypeOK
    <2>3. refs' \subseteq {"caller", "worker"}
      BY <1>1 DEF HeadersArrive, HeadersTimeout, Join, Close, Drop, CallerDestroys,
                  BridgeInv, TypeOK
    <2>4. joinable' \in BOOLEAN
      BY <1>1, Zenon DEF HeadersArrive, HeadersTimeout, Join, Close, Drop, CallerDestroys,
                         BridgeInv, TypeOK
    <2>5. QED
      BY <2>1, <2>2, <2>3, <2>4 DEF BridgeInv, TypeOK, QueueInv, FlagInv
  <1>2. CASE Read
    BY <1>2, ReadTurnKeeps DEF Read
  <1>3. CASE ReadWake
    <2>1. CASE worker_error /\ chunks = <<>> /\ cpc' = "error" /\ UNCHANGED <<chunks, got>>
      BY <1>3, <2>1 DEF ReadWake, BridgeInv, TypeOK, QueueInv, FlagInv
    <2>2. CASE ReadTurn
      BY <1>3, <2>2, ReadTurnKeeps DEF ReadWake
    <2>3. QED
      BY <1>3, <2>1, <2>2 DEF ReadWake
  <1>4. QED
    BY <1>1, <1>2, <1>3 DEF Caller

LEMMA BridgeNext == BridgeInv /\ [Next]_bridgeVars => BridgeInv'
  <1>1. BridgeInv /\ UNCHANGED bridgeVars => BridgeInv'
    BY DEF BridgeInv, TypeOK, QueueInv, FlagInv, bridgeVars
  <1>2. QED
    BY <1>1, WorkerKeeps, CallerKeeps DEF Next

(* The shared state keeps its types and the reader never overtakes the     *)
(* worker.                                                                 *)
THEOREM BridgeTyped == Spec => []TypeOK
  <1>1. BridgeInv => TypeOK
    BY DEF BridgeInv
  <1>2. QED
    BY <1>1, BridgeInit, BridgeNext, PTL DEF Spec

(* A read that reports the end of the stream has delivered every byte.     *)
THEOREM NoByteLostAtEof == Spec => []EofMeansAllRead
  <1>1. BridgeInv => EofMeansAllRead
    BY DEF BridgeInv, FlagInv, EofMeansAllRead
  <1>2. QED
    BY <1>1, BridgeInit, BridgeNext, PTL DEF Spec

(* A read that reports an error does so for a failed transfer, after its   *)
(* bytes.                                                                  *)
THEOREM ErrorsAreReal == Spec => []ErrorMeansFailed
  <1>1. BridgeInv => ErrorMeansFailed
    BY DEF BridgeInv, FlagInv, ErrorMeansFailed
  <1>2. QED
    BY <1>1, BridgeInit, BridgeNext, PTL DEF Spec

-----------------------------------------------------------------------------
(* The pump uses the bridge as a caller of the bridge may.                 *)

LEMMA PumpStepIsBridgeStep == [PumpNext]_allVars => [Next]_bridgeVars
  <1> SUFFICES ASSUME [PumpNext]_allVars PROVE [Next]_bridgeVars
    OBVIOUS
  <1>1. CASE ClientLeaves \/ PumpStart \/ UNCHANGED allVars
    BY <1>1 DEF ClientLeaves, PumpStart, allVars, bridgeVars
  <1>2. CASE PumpWorker
    BY <1>2 DEF PumpWorker, Beside, Next
  <1>3. CASE PumpOpen
    BY <1>3 DEF PumpOpen, Beside, Next, Caller
  <1>4. CASE PumpRead
    BY <1>4 DEF PumpRead, Next, Caller
  <1>5. CASE PumpClose
    BY <1>5 DEF PumpClose, Next, Caller
  <1>6. CASE PumpComplete
    BY <1>6 DEF PumpComplete, Next, Caller
  <1>7. CASE PumpAbandon
    BY <1>7 DEF PumpAbandon, Next, Caller
  <1>8. QED
    BY <1>1, <1>2, <1>3, <1>4, <1>5, <1>6, <1>7 DEF PumpNext

(* Every behaviour of a content provider is one of the bridge; what the    *)
(* bridge promises about fairness is left to the model checker.            *)
THEOREM PumpIsABridge == PumpSpec => Init /\ [][Next]_bridgeVars
  <1>1. PumpInit => Init
    BY DEF PumpInit
  <1>2. QED
    BY <1>1, PumpStepIsBridgeStep, PTL DEF PumpSpec

-----------------------------------------------------------------------------
(* The largest of finitely many numbers: no set of the numbers larger than *)
(* one of them is smaller than that of the largest.                        *)
LEMMA MaxOfFinite ==
    ASSUME NEW S \in SUBSET Nat, IsFiniteSet(S), S # {}
    PROVE  Max(S) \in S /\ \A y \in S : y <= Max(S)
  <1> DEFINE Above(e) == {y \in S : y > e}
             T == {Above(e) : e \in S}
  <1>1. IsWellFoundedOn(StrictSubsetOrdering(S), SUBSET S)
    BY FS_StrictSubsetOrderingWellFounded, FS_FiniteSubsetsOfFinite
  <1>2. T \subseteq SUBSET S /\ T # {}
    OBVIOUS
  <1>3. PICK U \in T : \A V \in T : <<V, U>> \notin StrictSubsetOrdering(S)
    <2> HIDE DEF T
    <2> QED
      BY <1>1, <1>2, WFMin
  <1>4. PICK e \in S : U = Above(e)
    BY <1>3
  <1>5. \A y \in S : y <= e
    <2> SUFFICES ASSUME NEW y \in S, y > e PROVE FALSE
      OBVIOUS
    <2>1. Above(y) \in T /\ Above(y) \subseteq U /\ y \in U /\ y \notin Above(y)
      <3>1. Above(y) \in T /\ y \in U
        BY <1>4
      <3>2. y \notin Above(y)
        OBVIOUS
      <3>3. Above(y) \subseteq U
        <4> SUFFICES ASSUME NEW z \in S, z > y PROVE z > e
          BY <1>4
        <4>1. z \in Nat /\ y \in Nat /\ e \in Nat
          OBVIOUS
        <4>2. QED
          BY <4>1
      <3>4. QED
        BY <3>1, <3>2, <3>3
    <2>2. Above(y) \subseteq S /\ U \subseteq S
      BY <1>4
    <2> HIDE DEF Above, T
    <2>3. <<Above(y), U>> \in StrictSubsetOrdering(S)
      BY <2>1, <2>2 DEF StrictSubsetOrdering
    <2>4. QED
      BY <1>3, <2>1, <2>3
  <1>6. \A y \in S : e >= y
    BY <1>5
  <1> HIDE DEF Above, T
  <1>7. Max(S) \in S /\ \A y \in S : Max(S) >= y
    BY <1>6 DEF Max
  <1>8. QED
    BY <1>7

LEMMA MaxIsUnique ==
    ASSUME NEW S \in SUBSET Nat, NEW m \in S, \A y \in S : y <= m
    PROVE  Max(S) = m
  <1>1. m \in S /\ \A y \in S : m >= y
    OBVIOUS
  <1>2. Max(S) \in S /\ \A y \in S : Max(S) >= y
    BY <1>1 DEF Max
  <1>3. Max(S) \in Nat /\ m \in Nat /\ Max(S) >= m /\ m >= Max(S)
    BY <1>1, <1>2
  <1>4. QED
    BY <1>3

-----------------------------------------------------------------------------
(* The invariant.                                                          *)

(* What the pump has read so far.                                          *)
Reports == Events(1..got, {"usage", "final"})
Ends == Events(1..got, {"done", "final"})
Overlongs == Events(1..got, {"overlong"})
Faults == Events(1..got, {"badusage"})

PumpTyped ==
    /\ client \in {"here", "gone"}
    /\ loop \in {"await", "run", "skipped", "stopped", "thrown", "terminated"}
    /\ pending \in Nat /\ written \in Nat /\ usage \in Nat /\ billed \in Nat
    /\ pump \in [completed : BOOLEAN, client_disconnected : BOOLEAN,
                 idle_timeout : BOOLEAN, upstream_error : BOOLEAN,
                 saw_usage : BOOLEAN]

(* finalize has thrown.                                                    *)
Thrown == loop \in {"thrown", "terminated"}

(* Where the threads are.  A stream that never opened has a failed worker: *)
(* the header timeout alone never gets that far.                           *)
PhaseInv ==
    /\ mu = "caller" => cpc = "joinLocked"
    /\ wpc \in {"unwind", "destroying", "leaving", "exited"} => done
    /\ cpc = "joinLocked" => mu = "caller" /\ (done => worker_error)
    /\ cpc = "failed" => worker_error
    /\ cpc \in {"wait", "joinLocked", "failed"} => loop = "await"
    /\ loop = "await" => cpc \in {"wait", "joinLocked", "failed", "open"} \/ Ended
    /\ loop = "await" /\ Ended => worker_error
    /\ loop \in {"await", "skipped"} => got = 0 /\ pending = 0 /\ written = 0
    /\ loop = "run" => cpc \in {"open", "reading"}
    /\ cpc = "reading" => loop = "run"
    /\ loop = "terminated" => cpc = "open"

(* What the client was given and what waits is what was read.              *)
ClientInv ==
    client = "here" =>
        /\ ~pump.client_disconnected
        /\ ~Thrown => written + pending = got
        /\ ~Thrown /\ (cpc \in {"joining", "closed"} \/ Ended) => pending = 0

(* The flags and the usage tell what was read, up to an event that the     *)
(* reader refuses; and why the loop has stopped.                           *)
EventInv ==
    /\ Thrown => Faults # {}
    /\ usage # 0 => usage \in Reports
    /\ pump.saw_usage => usage # 0
    /\ pump.completed => Ends # {}
    /\ ~Thrown /\ Overlongs = {} =>
          /\ \A e \in Reports : e <= usage
          /\ Reports # {} => pump.saw_usage
          /\ Ends # {} => pump.completed
    /\ pump.upstream_error \/ pump.idle_timeout => worker_error \/ Overlongs # {}
    /\ loop = "stopped" =>
          worker_error \/ Overlongs # {} \/ pump.completed \/ (done /\ got = sent)

(* A bill is written at the very end, and is the usage.                    *)
BillInv ==
    /\ billed # 0 =>
          /\ Ended /\ loop = "stopped" /\ billed = usage
          /\ pump.saw_usage
          /\ route = "run_stream" => pump.completed
    /\ /\ Ended /\ loop = "stopped" /\ route = "run_stream"
       /\ pump.completed /\ pump.saw_usage
       /\ ~pump.upstream_error /\ ~pump.idle_timeout
       => billed = usage

PumpInv == BridgeInv /\ PumpTyped /\ PhaseInv /\ ClientInv /\ EventInv /\ BillInv

LEMMA PumpStarts == PumpInit => PumpInv
  <1> SUFFICES ASSUME PumpInit PROVE PumpInv
    OBVIOUS
  <1>1. BridgeInv
    BY BridgeInit DEF PumpInit
  <1>2. /\ cpc = "wait" /\ mu = "free" /\ wpc = "send" /\ got = 0 /\ loop = "await"
        /\ pending = 0 /\ written = 0 /\ usage = 0 /\ billed = 0 /\ client = "here"
        /\ pump = [completed |-> FALSE, client_disconnected |-> FALSE,
                   idle_timeout |-> FALSE, upstream_error |-> FALSE, saw_usage |-> FALSE]
    BY DEF PumpInit, Init
  <1>3. PumpTyped /\ PhaseInv /\ ClientInv /\ BillInv
    BY <1>2 DEF PumpTyped, PhaseInv, ClientInv, BillInv, Thrown, Ended
  <1>4. \A K : Events(1..got, K) = {}
    BY <1>2 DEF Events
  <1>5. EventInv
    BY <1>2, <1>4 DEF EventInv, Thrown, Reports, Ends, Overlongs, Faults
  <1>6. QED
    BY <1>1, <1>3, <1>5 DEF PumpInv

-----------------------------------------------------------------------------
(* Steps that read nothing.                                                *)

LEMMA ReadNothing ==
    ASSUME UNCHANGED <<script, got>>
    PROVE  Reports' = Reports /\ Ends' = Ends /\ Overlongs' = Overlongs /\ Faults' = Faults
  BY DEF Reports, Ends, Overlongs, Faults, Events

LEMMA BridgeKept == ASSUME PumpInv, PumpNext PROVE BridgeInv'
  BY PumpStepIsBridgeStep, BridgeNext DEF PumpInv

(* The events stand as they are when nothing is read and no flag changes,  *)
(* and the worker does not take back that it failed or is done.            *)
LEMMA EventsStand ==
    ASSUME EventInv,
           script' = script, got' = got, pump' = pump, usage' = usage, loop' = loop,
           worker_error => worker_error',
           done => done' /\ sent' = sent
    PROVE  EventInv'
  <1>1. Reports' = Reports /\ Ends' = Ends /\ Overlongs' = Overlongs /\ Faults' = Faults
    BY ReadNothing
  <1>2. QED
    BY <1>1 DEF EventInv, Thrown

LEMMA WorkerKeepsPump == ASSUME PumpInv, PumpWorker PROVE PumpInv'
  <1>1. BridgeInv'
    BY BridgeKept DEF PumpNext
  <1>2. /\ script' = script /\ route' = route /\ client' = client /\ pending' = pending
        /\ written' = written /\ pump' = pump /\ usage' = usage /\ loop' = loop
        /\ billed' = billed
    BY DEF PumpWorker, Beside, pumpVars
  <1>0. Worker
    BY DEF PumpWorker, Beside
  <1> USE DEF WorkerHeaders, WorkerChunk, WorkerReturn, WorkerFinish, WorkerLeaves,
              WorkerRelease, WorkerDestroys, WorkerExit
  <1>3. got' = got /\ cpc' = cpc /\ mu' = mu
    BY <1>0 DEF Worker
  <1>4. worker_error => worker_error'
    BY <1>0 DEF Worker
  <1>5. done => done' /\ sent' = sent
    BY <1>0 DEF Worker, PumpInv, BridgeInv, FlagInv
  <1>6. mu = "caller" => done' = done
    BY <1>0 DEF Worker
  <1>7. wpc' \in {"unwind", "destroying", "leaving", "exited"} => done'
    BY <1>0 DEF Worker, PumpInv, PhaseInv
  <1>8. PhaseInv'
    BY <1>2, <1>3, <1>4, <1>6, <1>7 DEF PumpInv, PhaseInv, Ended
  <1>9. PumpTyped' /\ ClientInv' /\ BillInv'
    BY <1>2, <1>3 DEF PumpInv, PumpTyped, ClientInv, BillInv, Thrown, Ended
  <1>10. EventInv'
    BY <1>2, <1>3, <1>4, <1>5, EventsStand DEF PumpInv
  <1>11. QED
    BY <1>1, <1>8, <1>9, <1>10 DEF PumpInv

LEMMA OpenKeepsPump == ASSUME PumpInv, PumpOpen PROVE PumpInv'
  <1>1. BridgeInv'
    BY BridgeKept DEF PumpNext
  <1>2. /\ script' = script /\ route' = route /\ client' = client /\ pending' = pending
        /\ written' = written /\ pump' = pump /\ usage' = usage /\ loop' = loop
        /\ billed' = billed
    BY DEF PumpOpen, Beside, pumpVars
  <1>3. /\ got' = got /\ sent' = sent /\ done' = done /\ worker_error' = worker_error
        /\ wpc' = wpc /\ loop # "terminated"
    BY DEF PumpOpen, Beside, HeadersArrive, HeadersTimeout, Join, CallerDestroys
  <1>4. \/ cpc = "wait" /\ cpc' = "open" /\ mu' = "free"
        \/ cpc = "wait" /\ cpc' = "joinLocked" /\ mu' = "caller" /\ (done => worker_error)
        \/ cpc = "joinLocked" /\ cpc' = "failed" /\ mu' = "free" /\ wpc = "exited"
        \/ cpc = "joining" /\ cpc' = "closed" /\ mu' = "free"
        \/ cpc = "destroying" /\ cpc' = "dropped" /\ mu' = mu
    BY DEF PumpOpen, Beside, HeadersArrive, HeadersTimeout, Join, CallerDestroys
  <1>5. PhaseInv'
    BY <1>2, <1>3, <1>4 DEF PumpInv, PhaseInv, Ended
  <1>6. PumpTyped' /\ ClientInv'
    BY <1>2, <1>3, <1>4 DEF PumpInv, PumpTyped, ClientInv, PhaseInv, Thrown, Ended
  <1>7. BillInv'
    BY <1>2, <1>4 DEF PumpInv, BillInv, PhaseInv, Ended
  <1>8. EventInv'
    BY <1>2, <1>3, EventsStand DEF PumpInv
  <1>9. QED
    BY <1>1, <1>5, <1>6, <1>7, <1>8 DEF PumpInv

LEMMA StartKeepsPump == ASSUME PumpInv, PumpStart PROVE PumpInv'
  <1>1. BridgeInv'
    BY BridgeKept DEF PumpNext
  <1>2. /\ loop = "await" /\ cpc = "open" /\ loop' \in {"run", "skipped"}
        /\ UNCHANGED <<bridgeVars, script, route, client, pending, written, pump,
                       usage, billed>>
    BY DEF PumpStart
  <1>3. PhaseInv' /\ PumpTyped' /\ ClientInv' /\ BillInv'
    BY <1>2 DEF PumpInv, PhaseInv, PumpTyped, ClientInv, BillInv, bridgeVars, Thrown, Ended
  <1>4. Reports' = Reports /\ Ends' = Ends /\ Overlongs' = Overlongs /\ Faults' = Faults
    BY <1>2, ReadNothing DEF bridgeVars
  <1>5. EventInv'
    BY <1>2, <1>4 DEF PumpInv, EventInv, Thrown, bridgeVars
  <1>6. QED
    BY <1>1, <1>3, <1>5 DEF PumpInv

LEMMA ClientKeepsPump == ASSUME PumpInv, ClientLeaves PROVE PumpInv'
  <1>1. BridgeInv'
    BY BridgeKept DEF PumpNext
  <1>2. UNCHANGED <<bridgeVars, script, route, pending, written, pump, usage, loop, billed>>
        /\ client' = "gone"
    BY DEF ClientLeaves
  <1>3. PhaseInv' /\ PumpTyped' /\ ClientInv' /\ BillInv'
    BY <1>2 DEF PumpInv, PhaseInv, PumpTyped, ClientInv, BillInv, bridgeVars, Thrown, Ended
  <1>4. EventInv'
    BY <1>2, EventsStand DEF PumpInv, bridgeVars
  <1>5. QED
    BY <1>1, <1>3, <1>4 DEF PumpInv

-----------------------------------------------------------------------------
(* The end of the stream.                                                  *)

LEMMA CloseKeepsPump == ASSUME PumpInv, PumpClose PROVE PumpInv'
  <1>1. BridgeInv'
    BY BridgeKept DEF PumpNext
  <1>2. /\ loop = "stopped" /\ cpc \in {"open", "eof", "error"} /\ cpc' = "joining"
        /\ pending' = 0
        /\ written' = IF client = "here" /\ ~pump.client_disconnected
                        THEN written + pending ELSE written
        /\ script' = script /\ route' = route /\ client' = client /\ pump' = pump
        /\ usage' = usage /\ loop' = loop /\ billed' = billed
        /\ mu' = mu /\ got' = got /\ sent' = sent /\ done' = done
        /\ worker_error' = worker_error /\ wpc' = wpc
    BY DEF PumpClose, Close
  <1>3. PhaseInv'
    BY <1>2 DEF PumpInv, PhaseInv, Ended
  <1>4. PumpTyped' /\ ClientInv'
    <2>1. pending \in Nat /\ written \in Nat /\ written + pending \in Nat
      BY DEF PumpInv, PumpTyped
    <2>2. PumpTyped'
      BY <1>2, <2>1 DEF PumpInv, PumpTyped
    <2>3. CASE client = "here"
      <3>1. written' = written + pending
        BY <1>2, <2>3 DEF PumpInv, ClientInv, Thrown
      <3>2. written + pending = got
        BY <1>2, <2>3 DEF PumpInv, ClientInv, Thrown
      <3>3. written' + pending' = got'
        BY <1>2, <2>1, <3>1, <3>2
      <3>4. ~pump'.client_disconnected
        BY <1>2, <2>3 DEF PumpInv, ClientInv, Thrown
      <3>5. QED
        BY <1>2, <2>2, <3>3, <3>4 DEF ClientInv
    <2>4. CASE client # "here"
      BY <1>2, <2>2, <2>4 DEF ClientInv
    <2>5. QED
      BY <2>3, <2>4
  <1>5. BillInv'
    BY <1>2 DEF PumpInv, BillInv, Ended
  <1>6. EventInv'
    BY <1>2, EventsStand DEF PumpInv
  <1>7. QED
    BY <1>1, <1>3, <1>4, <1>5, <1>6 DEF PumpInv

LEMMA CompleteKeepsPump == ASSUME PumpInv, PumpComplete PROVE PumpInv'
  <1>1. BridgeInv'
    BY BridgeKept DEF PumpNext
  <1>2. /\ loop = "stopped" /\ cpc = "closed" /\ cpc' \in {"destroying", "dropped"}
        /\ script' = script /\ route' = route /\ client' = client /\ pump' = pump
        /\ usage' = usage /\ loop' = loop /\ pending' = pending /\ written' = written
        /\ mu' = mu /\ got' = got /\ sent' = sent /\ done' = done
        /\ worker_error' = worker_error /\ wpc' = wpc
    BY DEF PumpComplete, Drop
  <1>3. PhaseInv'
    BY <1>2 DEF PumpInv, PhaseInv, Ended
  <1>4. Bill
    BY DEF PumpComplete
  <1>5. billed' \in {usage, 0} /\ (billed' # 0 => pump.saw_usage)
        /\ (billed' # 0 /\ route = "run_stream" => pump.completed)
    BY <1>4 DEF Bill
  <1>6. /\ route = "run_stream" /\ pump.completed /\ pump.saw_usage
        /\ ~pump.upstream_error /\ ~pump.idle_timeout
        => billed' = usage
    BY <1>4 DEF Bill
  <1>7. BillInv'
    BY <1>2, <1>5, <1>6 DEF BillInv, Ended
  <1>8. PumpTyped' /\ ClientInv'
    BY <1>2, <1>5 DEF PumpInv, PumpTyped, ClientInv, Thrown, Ended
  <1>9. EventInv'
    BY <1>2, EventsStand DEF PumpInv
  <1>10. QED
    BY <1>1, <1>3, <1>7, <1>8, <1>9 DEF PumpInv

LEMMA AbandonKeepsPump == ASSUME PumpInv, PumpAbandon PROVE PumpInv'
  <1>1. BridgeInv'
    BY BridgeKept DEF PumpNext
  <1>2. /\ script' = script /\ route' = route /\ client' = client /\ pending' = pending
        /\ written' = written /\ pump' = pump /\ usage' = usage /\ loop' = loop
        /\ billed' = billed
    BY DEF PumpAbandon, pumpVars
  <1>3. /\ mu' = mu /\ got' = got /\ sent' = sent /\ done' = done
        /\ worker_error' = worker_error /\ wpc' = wpc
    BY DEF PumpAbandon, Drop, Close
  <1>4. \/ loop = "thrown" /\ cpc' \in {"destroying", "dropped"}
        \/ loop = "skipped" /\ cpc' \in {"destroying", "dropped", "joining"}
        \/ cpc = "failed" /\ cpc' \in {"destroying", "dropped"}
    BY DEF PumpAbandon, Drop, Close
  <1>5. cpc \in {"open", "eof", "error", "closed", "failed"}
    BY DEF PumpAbandon, Drop, Close
  <1>6. PhaseInv'
    BY <1>2, <1>3, <1>4, <1>5 DEF PumpInv, PhaseInv, Ended
  <1>7. PumpTyped' /\ ClientInv'
    BY <1>2, <1>3, <1>4 DEF PumpInv, PumpTyped, ClientInv, PhaseInv, Thrown, Ended
  <1>8. BillInv'
    BY <1>2, <1>4, <1>5 DEF PumpInv, BillInv, PhaseInv, Ended
  <1>9. EventInv'
    BY <1>2, <1>3, EventsStand DEF PumpInv
  <1>10. QED
    BY <1>1, <1>6, <1>7, <1>8, <1>9 DEF PumpInv

-----------------------------------------------------------------------------
(* A read.                                                                 *)

LEMMA ReadFacts ==
    ASSUME PumpInv, PumpRead
    PROVE  /\ loop = "run" /\ cpc \in {"open", "reading"}
           /\ got \in Nat /\ got' \in Nat /\ got <= got'
           /\ script' = script /\ route' = route /\ client' = client /\ billed' = billed
           /\ mu' = mu /\ sent' = sent /\ done' = done /\ worker_error' = worker_error
           /\ wpc' = wpc
           /\ \/ /\ cpc' = "reading" /\ got' = got
                 /\ pending' = pending /\ written' = written /\ pump' = pump
                 /\ usage' = usage /\ loop' = loop
              \/ /\ cpc' = "open"
                 /\ PassOn(got + 1 .. got') /\ Consume(got + 1 .. got')
              \/ /\ cpc' = "eof" /\ got' = got /\ done /\ got = sent /\ loop' = "stopped"
                 /\ pending' = pending /\ written' = written /\ pump' = pump
                 /\ usage' = usage
              \/ cpc' = "error" /\ got' = got /\ worker_error /\ ReadFails
  <1>1. BridgeInv /\ BridgeInv'
    BY BridgeKept DEF PumpNext, PumpInv
  <1>2. got \in Nat /\ got' \in Nat /\ sent \in Nat
    BY <1>1 DEF BridgeInv, TypeOK
  <1>3. /\ loop = "run" /\ cpc \in {"open", "reading"}
        /\ script' = script /\ route' = route /\ client' = client /\ billed' = billed
        /\ mu' = mu /\ sent' = sent /\ done' = done /\ worker_error' = worker_error
        /\ wpc' = wpc
    BY DEF PumpRead, Read, ReadWake
  <1>4. ReadTurn \/ (cpc' = "error" /\ worker_error /\ got' = got)
    BY DEF PumpRead, Read, ReadWake
  <1>5. /\ got <= got'
        /\ cpc' # "open" => got' = got
        /\ cpc' = "error" => worker_error
    <2>1. CASE ReadTurn
      <3>1. CASE Unread # <<>> /\ got' = Upto(got + BufSize, Head(Unread)) /\ cpc' = "open"
        <4>1. Head(Unread) = Unread[1] /\ got < Unread[1] /\ Unread[1] \in Nat
          <5>1. Unread \in Seq(Nat) /\ Len(Unread) \in Nat \ {0} /\ got < Unread[1]
            BY <1>1, <3>1, UnreadKeeps
          <5>2. QED
            BY <5>1
        <4>2. got <= Upto(got + BufSize, Unread[1])
          BY <1>2, <4>1, BridgeAssumption DEF Upto
        <4>3. QED
          BY <3>1, <4>1, <4>2
      <3>2. CASE got' = got /\ cpc' \in {"eof", "reading"}
        BY <1>2, <3>2
      <3>3. QED
        BY <2>1, <3>1, <3>2 DEF ReadTurn
    <2>2. CASE cpc' = "error" /\ worker_error /\ got' = got
      BY <1>2, <2>2
    <2>3. QED
      BY <1>4, <2>1, <2>2
  <1>6. cpc' = "eof" => done' /\ got' = sent'
    BY <1>1 DEF BridgeInv, FlagInv
  <1>7. \/ /\ cpc' = "reading"
           /\ pending' = pending /\ written' = written /\ pump' = pump
           /\ usage' = usage /\ loop' = loop
        \/ cpc' = "open" /\ PassOn(got + 1 .. got') /\ Consume(got + 1 .. got')
        \/ /\ cpc' = "eof" /\ loop' = "stopped"
           /\ pending' = pending /\ written' = written /\ pump' = pump /\ usage' = usage
        \/ cpc' = "error" /\ ReadFails
    BY DEF PumpRead
  <1>8. CASE cpc' = "eof" /\ loop' = "stopped"
             /\ pending' = pending /\ written' = written /\ pump' = pump /\ usage' = usage
    BY <1>2, <1>3, <1>5, <1>6, <1>8
  <1>9. QED
    BY <1>2, <1>3, <1>5, <1>7, <1>8

(* What is read next adds to what was read.                                *)
LEMMA EventsGrow ==
    ASSUME got \in Nat, got' \in Nat, got <= got', script' = script
    PROVE  /\ Reports' = Reports \cup Events(got + 1 .. got', {"usage", "final"})
           /\ Ends' = Ends \cup Events(got + 1 .. got', {"done", "final"})
           /\ Overlongs' = Overlongs \cup Events(got + 1 .. got', {"overlong"})
           /\ Faults' = Faults \cup Events(got + 1 .. got', {"badusage"})
  <1>1. 1..got' = (1..got) \cup (got + 1 .. got')
    OBVIOUS
  <1>2. QED
    BY <1>1 DEF Reports, Ends, Overlongs, Faults, Events

(* The bytes passed on and those that wait are those that were read.       *)
LEMMA PassedOn ==
    ASSUME PumpInv, loop = "run", got' \in Nat, got <= got', client' = client,
           PassOn(got + 1 .. got')
    PROVE  /\ pending' \in Nat /\ written' \in Nat
           /\ client = "here" => written' + pending' = got'
           /\ client = "here" => ~Lost(got + 1 .. got')
  <1> DEFINE n == Cardinality(got + 1 .. got')
  <1>1. got \in Nat /\ pending \in Nat /\ written \in Nat
    BY DEF PumpInv, BridgeInv, TypeOK, PumpTyped
  <1>2. n = got' - got
    BY <1>1, FS_Interval
  <1>3. n \in Nat
    BY <1>1, <1>2
  <1> DEFINE q == Queued(got + 1 .. got')
  <1>4. q = IF pump.client_disconnected THEN 0 ELSE pending + n
    BY DEF Queued
  <1> HIDE DEF n
  <1>5. q \in Nat
    BY <1>1, <1>3, <1>4
  <1>6. \/ pending' = q /\ written' = written
        \/ pending' = 0 /\ written' = IF client = "here" THEN written + q ELSE written
    BY DEF PassOn
  <1>7. client = "here" => ~pump.client_disconnected /\ written + pending = got
    BY DEF PumpInv, ClientInv, Thrown
  <1>8. client = "here" => q = pending + n
    BY <1>4, <1>7
  <1> HIDE DEF q
  <1>9. pending' \in Nat /\ written' \in Nat
    BY <1>1, <1>5, <1>6
  <1>10. client = "here" => written' + pending' = got'
    <2> SUFFICES ASSUME client = "here" PROVE written' + pending' = got'
      OBVIOUS
    <2>1. written' + pending' = written + q
      BY <1>1, <1>5, <1>6
    <2>2. written + q = got + n
      BY <1>1, <1>3, <1>7, <1>8
    <2>3. QED
      BY <1>1, <1>2, <2>1, <2>2
  <1>11. client = "here" => ~Lost(got + 1 .. got')
    BY <1>7 DEF Lost
  <1>12. QED
    BY <1>9, <1>10, <1>11

(* The usage after a batch of sound events is the latest there is.         *)
LEMMA LatestUsage ==
    ASSUME usage \in Nat, got \in Nat, got' \in Nat, NEW S, S \subseteq got + 1 .. got',
           usage' = Max(S \cup {usage})
    PROVE  /\ usage' \in S \cup {usage}
           /\ usage' \in Nat
           /\ usage <= usage' /\ \A e \in S : e <= usage' /\ usage' # 0
  <1>1. IsFiniteSet(S \cup {usage})
    <2>1. IsFiniteSet(got + 1 .. got')
      <3>1. got + 1 \in Int /\ got' \in Int
        OBVIOUS
      <3>2. QED
        BY <3>1, FS_Interval
    <2>2. IsFiniteSet(S)
      BY <2>1, FS_Subset
    <2>3. QED
      BY <2>2, FS_AddElement
  <1>2. S \cup {usage} \in SUBSET Nat /\ S \cup {usage} # {}
    OBVIOUS
  <1>3. usage' \in S \cup {usage} /\ \A e \in S \cup {usage} : e <= usage'
    BY <1>1, <1>2, MaxOfFinite
  <1>4. QED
    BY <1>2, <1>3

LEMMA BatchKeepsEvents ==
    ASSUME PumpInv, loop = "run", got \in Nat, got' \in Nat, got <= got',
           script' = script, worker_error' = worker_error,
           Consume(got + 1 .. got')
    PROVE  EventInv' /\ pump' \in [completed : BOOLEAN, client_disconnected : BOOLEAN,
                                   idle_timeout : BOOLEAN, upstream_error : BOOLEAN,
                                   saw_usage : BOOLEAN]
           /\ loop' \in {"run", "stopped", "thrown", "terminated"} /\ usage' \in Nat
           /\ (pump'.client_disconnected => Lost(got + 1 .. got'))
  <1> DEFINE New(K) == Events(got + 1 .. got', K)
             Loses == Lost(got + 1 .. got')
  <1>0. /\ usage \in Nat /\ EventInv /\ ~Thrown
        /\ pump \in [completed : BOOLEAN, client_disconnected : BOOLEAN,
                     idle_timeout : BOOLEAN, upstream_error : BOOLEAN,
                     saw_usage : BOOLEAN]
    BY DEF PumpInv, PumpTyped, Thrown
  <1>1. /\ Reports' = Reports \cup New({"usage", "final"})
        /\ Ends' = Ends \cup New({"done", "final"})
        /\ Overlongs' = Overlongs \cup New({"overlong"})
        /\ Faults' = Faults \cup New({"badusage"})
    BY EventsGrow
  <1>2. CASE /\ New({"overlong"}) # {}
             /\ pump' = [pump EXCEPT !.client_disconnected = Loses, !.upstream_error = TRUE]
             /\ loop' = "stopped" /\ usage' = usage
    <2>1. /\ pump' \in [completed : BOOLEAN, client_disconnected : BOOLEAN,
                        idle_timeout : BOOLEAN, upstream_error : BOOLEAN,
                        saw_usage : BOOLEAN]
          /\ pump'.completed = pump.completed /\ pump'.saw_usage = pump.saw_usage
          /\ pump'.idle_timeout = pump.idle_timeout
          /\ pump'.client_disconnected => Loses
      BY <1>0, <1>2 DEF Lost
    <2> HIDE DEF New, Loses
    <2>2. Overlongs' # {}
      BY <1>1, <1>2
    <2>3. EventInv'
      <3>1. ~Thrown'
        BY <1>2 DEF Thrown
      <3>2. usage' # 0 => usage' \in Reports'
        BY <1>0, <1>1, <1>2 DEF EventInv
      <3>3. (pump.saw_usage)' => usage' # 0
        BY <1>0, <1>2, <2>1 DEF EventInv
      <3>4. (pump.completed)' => Ends' # {}
        BY <1>0, <1>1, <2>1 DEF EventInv
      <3>5. QED
        BY <2>2, <3>1, <3>2, <3>3, <3>4 DEF EventInv
    <2>4. QED
      BY <1>0, <1>2, <2>1, <2>3 DEF Loses
  <1>3. CASE /\ New({"badusage"}) # {}
             /\ pump' = [pump EXCEPT !.client_disconnected = Loses]
             /\ loop' \in {"thrown", "terminated"} /\ usage' = usage
    <2>1. /\ pump' \in [completed : BOOLEAN, client_disconnected : BOOLEAN,
                        idle_timeout : BOOLEAN, upstream_error : BOOLEAN,
                        saw_usage : BOOLEAN]
          /\ pump'.completed = pump.completed /\ pump'.saw_usage = pump.saw_usage
          /\ pump'.idle_timeout = pump.idle_timeout
          /\ pump'.upstream_error = pump.upstream_error
          /\ pump'.client_disconnected => Loses
      BY <1>0, <1>3 DEF Lost
    <2> HIDE DEF New, Loses
    <2>2. Faults' # {}
      BY <1>1, <1>3
    <2>3. EventInv'
      <3>1. Thrown' /\ loop' # "stopped"
        BY <1>3 DEF Thrown
      <3>2. usage' # 0 => usage' \in Reports'
        BY <1>0, <1>1, <1>3 DEF EventInv
      <3>3. (pump.saw_usage)' => usage' # 0
        BY <1>0, <1>3, <2>1 DEF EventInv
      <3>4. (pump.completed)' => Ends' # {}
        BY <1>0, <1>1, <2>1 DEF EventInv
      <3>5. (pump.upstream_error)' \/ (pump.idle_timeout)' =>
               worker_error' \/ Overlongs' # {}
        <4>1. pump.upstream_error \/ pump.idle_timeout => worker_error \/ Overlongs # {}
          BY <1>0 DEF EventInv
        <4>2. QED
          BY <1>1, <2>1, <4>1
      <3>6. QED
        BY <2>2, <3>1, <3>2, <3>3, <3>4, <3>5 DEF EventInv
    <2>4. QED
      BY <1>0, <1>3, <2>1, <2>3 DEF Loses
  <1>4. CASE /\ pump' = [pump EXCEPT
                           !.client_disconnected = Loses,
                           !.completed = @ \/ New({"done", "final"}) # {},
                           !.saw_usage = @ \/ New({"usage", "final"}) # {}]
             /\ usage' = Max(New({"usage", "final"}) \cup {usage})
             /\ loop' = IF NothingLeft(pump') THEN "stopped" ELSE "run"
    <2>1. pump' \in [completed : BOOLEAN, client_disconnected : BOOLEAN,
                     idle_timeout : BOOLEAN, upstream_error : BOOLEAN,
                     saw_usage : BOOLEAN]
      BY <1>0, <1>4 DEF Lost
    <2>2. /\ pump'.completed <=> pump.completed \/ New({"done", "final"}) # {}
          /\ pump'.saw_usage <=> pump.saw_usage \/ New({"usage", "final"}) # {}
          /\ pump'.idle_timeout = pump.idle_timeout
          /\ pump'.upstream_error = pump.upstream_error
          /\ pump'.client_disconnected => Loses
      BY <1>0, <1>4 DEF Lost
    <2>3. loop' \in {"run", "stopped"} /\ (loop' = "stopped" => pump'.completed)
      BY <1>4 DEF NothingLeft
    <2>4. New({"usage", "final"}) \subseteq got + 1 .. got'
      BY DEF Events
    <2> HIDE DEF New, Loses
    <2>5. /\ usage' \in New({"usage", "final"}) \cup {usage}
          /\ usage' \in Nat
          /\ usage <= usage' /\ \A e \in New({"usage", "final"}) : e <= usage' /\ usage' # 0
      BY <1>0, <1>4, <2>4, LatestUsage
    <2>6. usage' # 0 => usage' \in Reports'
      BY <1>0, <1>1, <2>5 DEF EventInv
    <2>7. pump'.saw_usage => usage' # 0
      <3>1. CASE pump.saw_usage
        <4>1. usage # 0
          BY <1>0, <3>1 DEF EventInv
        <4>2. QED
          BY <1>0, <2>5, <4>1
      <3>2. CASE New({"usage", "final"}) # {}
        BY <2>5, <3>2
      <3>3. QED
        BY <2>2, <3>1, <3>2
    <2>8. pump'.completed => Ends' # {}
      BY <1>0, <1>1, <2>2 DEF EventInv
    <2>9. ASSUME Overlongs' = {}
          PROVE  /\ \A e \in Reports' : e <= usage'
                 /\ Reports' # {} => pump'.saw_usage
                 /\ Ends' # {} => pump'.completed
      <3>1. Overlongs = {}
        BY <1>1, <2>9
      <3>2. /\ \A e \in Reports : e <= usage
            /\ Reports # {} => pump.saw_usage
            /\ Ends # {} => pump.completed
        BY <1>0, <3>1 DEF EventInv
      <3>3. \A e \in Reports : e \in Nat
        BY DEF Reports, Events
      <3>4. \A e \in Reports : e <= usage'
        BY <1>0, <2>5, <3>2, <3>3
      <3>5. \A e \in Reports' : e <= usage'
        BY <1>1, <2>5, <3>4
      <3>6. QED
        BY <1>1, <2>2, <3>2, <3>5
    <2>10. pump'.upstream_error \/ pump'.idle_timeout => worker_error' \/ Overlongs' # {}
      BY <1>0, <1>1, <2>2 DEF EventInv
    <2>11. EventInv'
      <3>1. ~Thrown'
        BY <2>3 DEF Thrown
      <3>2. (loop = "stopped")' => (pump.completed)'
        BY <2>3
      <3>3. QED
        BY <2>6, <2>7, <2>8, <2>9, <2>10, <3>1, <3>2 DEF EventInv
    <2>12. QED
      BY <2>1, <2>2, <2>3, <2>5, <2>11 DEF Loses
  <1>5. QED
    BY <1>2, <1>3, <1>4 DEF Consume

LEMMA ReadKeepsPump == ASSUME PumpInv, PumpRead PROVE PumpInv'
  <1>1. BridgeInv'
    BY BridgeKept DEF PumpNext
  <1>2. /\ loop = "run" /\ cpc \in {"open", "reading"}
        /\ got \in Nat /\ got' \in Nat /\ got <= got'
        /\ script' = script /\ route' = route /\ client' = client /\ billed' = billed
        /\ mu' = mu /\ sent' = sent /\ done' = done /\ worker_error' = worker_error
        /\ wpc' = wpc
    BY ReadFacts
  <1>3. billed = 0 /\ mu # "caller"
    BY <1>2 DEF PumpInv, BillInv, PhaseInv, Ended
  <1>4. CASE /\ cpc' = "reading" /\ got' = got
             /\ pending' = pending /\ written' = written /\ pump' = pump
             /\ usage' = usage /\ loop' = loop
    <2>1. PumpTyped' /\ PhaseInv' /\ ClientInv' /\ BillInv'
      BY <1>2, <1>3, <1>4 DEF PumpInv, PumpTyped, PhaseInv, ClientInv, BillInv, Thrown, Ended
    <2>2. EventInv'
      BY <1>2, <1>4, EventsStand DEF PumpInv
    <2>3. QED
      BY <1>1, <2>1, <2>2 DEF PumpInv
  <1>5. CASE cpc' = "open" /\ PassOn(got + 1 .. got') /\ Consume(got + 1 .. got')
    <2>1. /\ pending' \in Nat /\ written' \in Nat
          /\ client = "here" => written' + pending' = got'
          /\ client = "here" => ~Lost(got + 1 .. got')
      BY <1>2, <1>5, PassedOn
    <2>2. /\ EventInv'
          /\ pump' \in [completed : BOOLEAN, client_disconnected : BOOLEAN,
                        idle_timeout : BOOLEAN, upstream_error : BOOLEAN,
                        saw_usage : BOOLEAN]
          /\ loop' \in {"run", "stopped", "thrown", "terminated"} /\ usage' \in Nat
          /\ (pump'.client_disconnected => Lost(got + 1 .. got'))
      BY <1>2, <1>5, BatchKeepsEvents
    <2>3. PumpTyped'
      BY <1>2, <2>1, <2>2 DEF PumpInv, PumpTyped
    <2>4. PhaseInv'
      BY <1>2, <1>3, <1>5, <2>2 DEF PumpInv, PhaseInv, Ended
    <2>5. ClientInv'
      BY <1>2, <1>5, <2>1, <2>2 DEF ClientInv, Ended
    <2>6. BillInv'
      BY <1>2, <1>3, <1>5 DEF BillInv, Ended
    <2>7. QED
      BY <1>1, <2>2, <2>3, <2>4, <2>5, <2>6 DEF PumpInv
  <1>6. CASE /\ cpc' = "eof" /\ got' = got /\ done /\ got = sent /\ loop' = "stopped"
             /\ pending' = pending /\ written' = written /\ pump' = pump
             /\ usage' = usage
    <2>1. PumpTyped' /\ PhaseInv' /\ ClientInv' /\ BillInv'
      BY <1>2, <1>3, <1>6 DEF PumpInv, PumpTyped, PhaseInv, ClientInv, BillInv, Thrown, Ended
    <2>2. Reports' = Reports /\ Ends' = Ends /\ Overlongs' = Overlongs /\ Faults' = Faults
      BY <1>2, <1>6, ReadNothing
    <2>3. EventInv'
      BY <1>2, <1>6, <2>2 DEF PumpInv, EventInv, Thrown
    <2>4. QED
      BY <1>1, <2>1, <2>3 DEF PumpInv
  <1>7. CASE cpc' = "error" /\ got' = got /\ worker_error /\ ReadFails
    <2>1. /\ pending' = pending /\ written' = written /\ usage' = usage /\ loop' = "stopped"
          /\ pump' \in {[pump EXCEPT !.upstream_error = TRUE],
                        [pump EXCEPT !.idle_timeout = ~pump.client_disconnected]}
      BY <1>7 DEF ReadFails
    <2>2. /\ pump' \in [completed : BOOLEAN, client_disconnected : BOOLEAN,
                        idle_timeout : BOOLEAN, upstream_error : BOOLEAN,
                        saw_usage : BOOLEAN]
          /\ pump'.client_disconnected = pump.client_disconnected
          /\ pump'.completed = pump.completed /\ pump'.saw_usage = pump.saw_usage
      BY <2>1 DEF PumpInv, PumpTyped
    <2>3. PumpTyped' /\ PhaseInv' /\ ClientInv' /\ BillInv'
      BY <1>2, <1>3, <1>7, <2>1, <2>2
         DEF PumpInv, PumpTyped, PhaseInv, ClientInv, BillInv, Thrown, Ended
    <2>4. Reports' = Reports /\ Ends' = Ends /\ Overlongs' = Overlongs /\ Faults' = Faults
      BY <1>2, <1>7, ReadNothing
    <2>5. EventInv'
      BY <1>2, <1>7, <2>1, <2>2, <2>4 DEF PumpInv, EventInv, Thrown
    <2>6. QED
      BY <1>1, <2>3, <2>5 DEF PumpInv
  <1>8. QED
    BY <1>4, <1>5, <1>6, <1>7, ReadFacts

LEMMA PumpSteps == PumpInv /\ [PumpNext]_allVars => PumpInv'
  <1> SUFFICES ASSUME PumpInv, [PumpNext]_allVars PROVE PumpInv'
    OBVIOUS
  <1>1. CASE UNCHANGED allVars
    <2>1. BridgeInv'
      BY <1>1, PumpStepIsBridgeStep, BridgeNext DEF PumpInv
    <2>2. PumpTyped' /\ PhaseInv' /\ ClientInv' /\ BillInv'
      BY <1>1 DEF PumpInv, PumpTyped, PhaseInv, ClientInv, BillInv, Thrown, Ended,
                    allVars, bridgeVars, pumpVars
    <2>3. EventInv'
      BY <1>1, EventsStand DEF PumpInv, allVars, bridgeVars, pumpVars
    <2>4. QED
      BY <2>1, <2>2, <2>3 DEF PumpInv
  <1>2. QED
    BY <1>1, ClientKeepsPump, WorkerKeepsPump, OpenKeepsPump, StartKeepsPump,
       ReadKeepsPump, CloseKeepsPump, CompleteKeepsPump, AbandonKeepsPump DEF PumpNext

-----------------------------------------------------------------------------
(* The theorems.                                                           *)

(* A client that stays gets every byte the pump read, for chunks, buffers  *)
(* and flushes of any size.                                                *)
THEOREM StayingGetsAll == PumpSpec => []StayingClientGetsAll
  <1>1. PumpInv => StayingClientGetsAll
    <2> SUFFICES ASSUME PumpInv, Ended, client = "here", loop # "thrown" PROVE written = got
      BY DEF StayingClientGetsAll
    <2>1. written + pending = got /\ pending = 0 /\ written \in Nat
      BY DEF PumpInv, PumpTyped, ClientInv, PhaseInv, Thrown, Ended
    <2>2. QED
      BY <2>1
  <1>2. QED
    BY <1>1, PumpStarts, PumpSteps, PTL DEF PumpSpec

(* Only reported usage is billed, and the last report that was read.       *)
THEOREM BillsAreReported == PumpSpec => []BilledIsReported
  <1>1. PumpInv => BilledIsReported
    <2> SUFFICES ASSUME PumpInv, billed # 0
                 PROVE  /\ billed \in Reports
                        /\ Overlongs = {} => billed = Max(Reports)
                        /\ route = "run_stream" => Ends # {}
      BY DEF BilledIsReported, Reports, Overlongs, Ends
    <2>1. loop = "stopped" /\ billed = usage /\ (route = "run_stream" => pump.completed)
      BY DEF PumpInv, BillInv
    <2>2. billed \in Reports /\ (route = "run_stream" => Ends # {})
      BY <2>1 DEF PumpInv, EventInv
    <2>3. Overlongs = {} => \A e \in Reports : e <= billed
      BY <2>1 DEF PumpInv, EventInv, Thrown
    <2>4. Reports \in SUBSET Nat
      BY DEF Reports, Events
    <2>5. QED
      BY <2>2, <2>3, <2>4, MaxIsUnique
  <1>2. QED
    BY <1>1, PumpStarts, PumpSteps, PTL DEF PumpSpec

(* Leaving does not make a complete chat or messages stream free, once the *)
(* provider has been called.                                               *)
THEOREM LeavingIsBilled == PumpSpec => []LeavingIsNotFree
  <1>1. PumpInv => LeavingIsNotFree
    <2> SUFFICES ASSUME PumpInv, Ended, loop # "skipped", route = "run_stream", ~worker_error,
                        Regular(1..sent)
                 PROVE  billed # 0
      BY DEF LeavingIsNotFree
    <2>1. got \in Nat /\ sent \in Nat /\ got <= sent
      BY DEF PumpInv, BridgeInv, TypeOK
    <2>2. Overlongs = {} /\ Faults = {}
      BY <2>1 DEF Regular, Overlongs, Faults, Events
    <2>3. ~Thrown /\ loop = "stopped"
      BY <2>2 DEF Ended, Thrown, PumpInv, PumpTyped, PhaseInv, EventInv
    <2>4. PICK e \in Events(1..sent, {"done", "final"}) :
             /\ Events(1..e, {"usage", "final"}) # {}
             /\ \A f \in Events(1..sent, {"done", "final"}) : f = e
      BY DEF Regular
    <2>5. Ends # {}
      <3>1. CASE pump.completed
        BY <3>1 DEF PumpInv, EventInv
      <3>2. CASE got = sent
        BY <2>4, <3>2 DEF Ends
      <3>3. QED
        BY <2>2, <2>3, <3>1, <3>2 DEF PumpInv, EventInv
    <2>6. e \in Ends
      BY <2>1, <2>4, <2>5 DEF Ends, Events
    <2>7. Reports # {}
      BY <2>1, <2>4, <2>6 DEF Reports, Ends, Events
    <2>8. pump.completed /\ pump.saw_usage
      BY <2>2, <2>3, <2>5, <2>7 DEF PumpInv, EventInv
    <2>9. ~pump.upstream_error /\ ~pump.idle_timeout
      BY <2>2 DEF PumpInv, EventInv
    <2>10. billed = usage
      BY <2>3, <2>8, <2>9 DEF PumpInv, BillInv
    <2>11. QED
      BY <2>8, <2>10 DEF PumpInv, EventInv
  <1>2. QED
    BY <1>1, PumpStarts, PumpSteps, PTL DEF PumpSpec
=============================================================================
