----------------------------- MODULE StreamPump -----------------------------
(***************************************************************************)
(* One streamed answer on top of the bridge: pump_gateway_stream reads the *)
(* upstream, passes the bytes on to the client, picks usage and completion *)
(* out of the events, and the content provider closes the stream and       *)
(* decides whether the request is billed.  run_stream serves chat and      *)
(* messages (apply_upstream_gateway_stream), handle serves responses       *)
(* (stream_gateway_session_to_httplib).                                    *)
(*                                                                         *)
(* A byte of the bridge stands for one event; script says what it carries. *)
(***************************************************************************)
EXTENDS StreamBridge, FiniteSetsExt

CONSTANTS Kinds,         \* the kinds of event the upstream may send
          Routes,        \* the content providers in use
          FlushAt        \* kFlushBytes

ASSUME PumpAssumption ==
    /\ Kinds \subseteq {"text",      \* no usage, no end
                        "usage",     \* a usage object
                        "badusage",  \* a usage object that lacks a count
                        "done",      \* [DONE] or message_stop
                        "final",     \* response.completed, with its usage
                        "overlong"}  \* a line beyond kMaxSseLineBytes
    /\ Routes \subseteq {"run_stream", "handle"}
    /\ FlushAt \in Nat \ {0}

VARIABLES
    script,    \* what the upstream will send
    route,
    client,    \* "here" or "gone"
    pending,   \* the bytes in pending_send
    written,   \* the bytes the client has been given
    pump,      \* GatewayStreamPump
    usage,     \* the usage event last finalized into the request; 0 is none
    loop,      \* the content provider: "await"ed, "run"ning, "skipped",
               \* "stopped" or "thrown"; "terminated" is the end of the process
    billed     \* the usage event on_usage was called with; 0 is none

pumpVars == <<script, route, client, pending, written, pump, usage, loop, billed>>

PumpInit ==
    /\ Init
    /\ script \in [1..MaxBytes -> Kinds]
    /\ route \in Routes
    /\ client = "here"
    /\ pending = 0
    /\ written = 0
    /\ pump = [completed |-> FALSE, client_disconnected |-> FALSE,
               idle_timeout |-> FALSE, upstream_error |-> FALSE, saw_usage |-> FALSE]
    /\ usage = 0
    /\ loop = "await"
    /\ billed = 0

(* The events among bytes that are of one of the given kinds.              *)
Events(bytes, kinds) == {e \in bytes : script[e] \in kinds}

ClientLeaves ==
    /\ loop # "terminated"
    /\ client = "here"
    /\ client' = "gone"
    /\ UNCHANGED <<bridgeVars, script, route, pending, written, pump, usage,
                   loop, billed>>

-----------------------------------------------------------------------------
(* A step of the bridge that is not the pump's, while there is a process.  *)
Beside(A) == loop # "terminated" /\ A /\ UNCHANGED pumpVars

PumpWorker == Beside(Worker)

PumpOpen == Beside(HeadersArrive \/ HeadersTimeout \/ Join \/ CallerDestroys)

(* The response is being written: httplib calls the content provider, or   *)
(* does not call it at all when it finds the client gone before.           *)
PumpStart ==
    /\ loop = "await" /\ cpc = "open"
    /\ loop' \in IF client = "gone" THEN {"run", "skipped"} ELSE {"run"}
    /\ UNCHANGED <<bridgeVars, script, route, client, pending, written, pump,
                   usage, billed>>

(* The part of ingest that serves the client: the bytes are collected and  *)
(* written once FlushAt of them wait; a failed write ends the writing.     *)
Queued(bytes) ==
    IF pump.client_disconnected THEN 0 ELSE pending + Cardinality(bytes)

Lost(bytes) ==
    pump.client_disconnected \/ (Queued(bytes) >= FlushAt /\ client = "gone")

PassOn(bytes) ==
    IF Queued(bytes) < FlushAt
      THEN pending' = Queued(bytes) /\ UNCHANGED written
      ELSE /\ pending' = 0
           /\ written' = IF client = "here" THEN written + Queued(bytes) ELSE written

(* Mutant: a client that left ends the loop.                               *)
NothingLeftIfGone(p) == p.client_disconnected

(* When nobody reads on, the loop runs only up to the end of the stream.   *)
NothingLeft(p) == p.client_disconnected /\ p.completed

(* The part of ingest that reads the events.  SseReader refuses the whole  *)
(* batch at an overlong line.  finalize throws at a usage without a count: *)
(* the provider of run_stream catches that, in the one of handle it leaves *)
(* a function of a pool thread, and std::terminate ends the process.       *)
Consume(bytes) ==
    \/ /\ Events(bytes, {"overlong"}) # {}
       /\ pump' = [pump EXCEPT !.client_disconnected = Lost(bytes),
                               !.upstream_error = TRUE]
       /\ loop' = "stopped"
       /\ UNCHANGED usage
    \/ /\ Events(bytes, {"overlong"}) = {} /\ Events(bytes, {"badusage"}) # {}
       /\ pump' = [pump EXCEPT !.client_disconnected = Lost(bytes)]
       /\ loop' = IF route = "run_stream" THEN "thrown" ELSE "terminated"
       /\ UNCHANGED usage
    \/ /\ Events(bytes, {"overlong", "badusage"}) = {}
       /\ pump' = [pump EXCEPT
                     !.client_disconnected = Lost(bytes),
                     !.completed = @ \/ Events(bytes, {"done", "final"}) # {},
                     !.saw_usage = @ \/ Events(bytes, {"usage", "final"}) # {}]
       /\ usage' = Max(Events(bytes, {"usage", "final"}) \cup {usage})
       /\ loop' = IF NothingLeft(pump') THEN "stopped" ELSE "run"

(* Mutant: the loop reads on after a failure.                              *)
ReadFailsGoesOn ==
    /\ pump' = [pump EXCEPT !.upstream_error = TRUE]
    /\ UNCHANGED <<pending, written, usage, loop>>

(* A read fails.  stream_bridge_read does not set errno, so the pump tests *)
(* whatever the thread left there; a timeout of a client that is gone      *)
(* raises no flag.                                                         *)
ReadFails ==
    /\ \/ pump' = [pump EXCEPT !.upstream_error = TRUE]
       \/ pump' = [pump EXCEPT !.idle_timeout = ~pump.client_disconnected]
    /\ loop' = "stopped"
    /\ UNCHANGED <<pending, written, usage>>

(* One read and what the loop does with its result.                        *)
PumpRead ==
    /\ loop = "run"
    /\ Read \/ ReadWake
    /\ \/ cpc' = "reading" /\ UNCHANGED <<pending, written, pump, usage, loop>>
       \/ /\ cpc' = "open"
          /\ PassOn(got + 1 .. got')
          /\ Consume(got + 1 .. got')
       \/ cpc' = "eof" /\ loop' = "stopped" /\ UNCHANGED <<pending, written, pump, usage>>
       \/ cpc' = "error" /\ ReadFails
    /\ UNCHANGED <<script, route, client, billed>>

(* Mutants: what waits is forgotten; the worker is not joined.             *)
PumpCloseForgets ==
    /\ loop = "stopped"
    /\ Close
    /\ pending' = 0
    /\ UNCHANGED <<script, route, client, written, pump, usage, loop, billed>>

PumpCloseUnjoined ==
    /\ loop = "stopped" /\ cpc \in {"open", "eof", "error"}
    /\ cpc' = "closed"
    /\ UNCHANGED <<mu, chunks, sent, got, headers_ready, done, worker_error,
                   wpc, joinable, refs>>
    /\ UNCHANGED pumpVars

(* The loop is left: what waits is written once more, whether or not that  *)
(* succeeds, and the provider closes the stream.                           *)
PumpClose ==
    /\ loop = "stopped"
    /\ Close
    /\ pending' = 0
    /\ written' = IF client = "here" /\ ~pump.client_disconnected
                    THEN written + pending ELSE written
    /\ UNCHANGED <<script, route, client, pump, usage, loop, billed>>

(* Mutant: a stream is billed although its end was not read.               *)
BillIncomplete == billed' = IF pump.saw_usage THEN usage ELSE 0

(* on_complete.  The one of handle reads its options through references    *)
(* into frames that have returned, so it may or may not find on_usage.     *)
Bill ==
    \/ /\ route = "run_stream"
       /\ billed' = IF /\ pump.completed /\ pump.saw_usage
                       /\ ~pump.upstream_error /\ ~pump.idle_timeout
                      THEN usage ELSE 0
    \/ /\ route = "handle"
       /\ billed' \in IF pump.saw_usage THEN {usage, 0} ELSE {0}

PumpComplete ==
    /\ loop = "stopped" /\ cpc = "closed"
    /\ Drop
    /\ Bill
    /\ UNCHANGED <<script, route, client, pending, written, pump, usage, loop>>

(* The stream is let go without on_complete.  What run_stream keeps has no *)
(* destructor that closes it, the session of handle has one.               *)
PumpAbandon ==
    /\ \/ loop = "thrown" /\ Drop
       \/ loop = "skipped" /\ route = "run_stream" /\ Drop
       \/ loop = "skipped" /\ route = "handle" /\ (IF cpc = "closed" THEN Drop ELSE Close)
       \/ cpc = "failed" /\ Drop
    /\ UNCHANGED pumpVars

PumpNext ==
    \/ ClientLeaves
    \/ PumpWorker
    \/ PumpOpen
    \/ PumpStart
    \/ PumpRead
    \/ PumpClose
    \/ PumpComplete
    \/ PumpAbandon

allVars == <<bridgeVars, pumpVars>>

(* As for the bridge: httplib's client returns and threads that can run    *)
(* do, as long as there is a process.  Nothing is assumed of the client.   *)
PumpFairness ==
    /\ WF_allVars(Beside(WorkerReturn))
    /\ WF_allVars(Beside(WorkerFinish))
    /\ WF_allVars(Beside(WorkerLeaves))
    /\ WF_allVars(PumpOpen)
    /\ WF_allVars(PumpStart \/ PumpRead)
    /\ WF_allVars(PumpClose \/ PumpComplete \/ PumpAbandon)

PumpSpec == PumpInit /\ [][PumpNext]_allVars /\ PumpFairness

-----------------------------------------------------------------------------
(* Properties.                                                             *)

PumpTypeOK ==
    /\ script \in [1..MaxBytes -> Kinds]
    /\ route \in Routes
    /\ client \in {"here", "gone"}
    /\ pending \in 0..(FlushAt - 1)
    /\ written \in 0..sent
    /\ pump \in [completed : BOOLEAN, client_disconnected : BOOLEAN,
                 idle_timeout : BOOLEAN, upstream_error : BOOLEAN,
                 saw_usage : BOOLEAN]
    /\ usage \in 0..got
    /\ loop \in {"await", "run", "skipped", "stopped", "thrown", "terminated"}
    /\ billed \in 0..got

Ended == cpc \in {"destroying", "dropped"}

(* A stream whose events are sound and in protocol order: usage, then the  *)
(* end.                                                                    *)
Regular(bytes) ==
    /\ Events(bytes, {"overlong", "badusage"}) = {}
    /\ \E e \in Events(bytes, {"done", "final"}) :
          Events(1..e, {"usage", "final"}) # {}
    /\ \A e, f \in Events(bytes, {"done", "final"}) : e = f

(* Only what the upstream reported is billed, and it is the last report    *)
(* read, unless the last batch was refused; chat and messages are billed   *)
(* only for a stream whose end was read.                                   *)
BilledIsReported ==
    billed # 0 =>
        /\ billed \in Events(1..got, {"usage", "final"})
        /\ Events(1..got, {"overlong"}) = {} =>
              billed = Max(Events(1..got, {"usage", "final"}))
        /\ route = "run_stream" => Events(1..got, {"done", "final"}) # {}

(* Once httplib has called its provider, a chat or messages stream that    *)
(* the upstream delivers completely is billed, whenever the client leaves: *)
(* the pump reads on up to the end of the stream.                          *)
LeavingIsNotFree ==
    Ended /\ loop # "skipped" /\ route = "run_stream" /\ ~worker_error /\ Regular(1..sent)
       => billed # 0

(* A client that stays has been given every byte the pump read, however    *)
(* the stream ended, unless finalize threw.                                *)
StayingClientGetsAll ==
    Ended /\ client = "here" /\ loop # "thrown" => written = got

(* Whatever happens to client and upstream, and whether or not the         *)
(* provider is called, an answer that was opened ends with its worker      *)
(* joined or detached.  Nothing but a usage without a count on the route   *)
(* of handle, which ends the process, keeps it from that.                  *)
PumpEnds ==
    cpc = "open" ~>
        \/ cpc = "dropped" /\ wpc = "exited" /\ ~joinable
        \/ loop = "terminated" /\ route = "handle" /\ Events(1..got, {"badusage"}) # {}

(* The provider uses the bridge as the bridge's own specification allows,  *)
(* and lets its threads run on as long as the process does.                *)
UsesBridge ==
    Init /\ [][Next]_bridgeVars /\ (Fairness \/ <>(loop = "terminated"))
=============================================================================
