---------------------------- MODULE StreamBridge ----------------------------
(***************************************************************************)
(* The bridge between the httplib client and the reader of an upstream     *)
(* stream (upstream.cpp, StreamBridgeState): a worker thread runs          *)
(* client->send and hands headers and chunks over under a mutex, the       *)
(* caller waits for the headers, reads the chunks and joins the worker.    *)
(*                                                                         *)
(* Bytes are numbered 1, 2, ...; a queued chunk is the number of its last  *)
(* byte, so chunk_offset >= size means that got has reached it.  A         *)
(* critical section that does not block is one step; mu is a variable      *)
(* because the caller joins the worker while it holds the mutex.           *)
(***************************************************************************)
EXTENDS Integers, Sequences

CONSTANTS MaxBytes,      \* bound on the bytes of the upstream body
          ChunkSizes,    \* the sizes of the chunks httplib delivers
          BufSize,       \* the size of the reader's buffer
          SlowHeaders    \* whether the header timeout may elapse first

ASSUME BridgeAssumption ==
    /\ MaxBytes \in Nat
    /\ ChunkSizes \subseteq Nat \ {0}
    /\ BufSize \in Nat \ {0}
    /\ SlowHeaders \in BOOLEAN

VARIABLES
    mu,            \* who holds the mutex between steps: "free" or "caller"
    chunks,        \* the queue
    sent,          \* the last byte handed over by the worker
    got,           \* the last byte the caller read
    headers_ready,
    done,
    worker_error,
    wpc,           \* where the worker thread is
    cpc,           \* where the calling thread is
    joinable,      \* std::thread::joinable
    refs           \* the threads that still own the shared state

bridgeVars == <<mu, chunks, sent, got, headers_ready, done, worker_error,
                wpc, cpc, joinable, refs>>

Init ==
    /\ mu = "free"
    /\ chunks = <<>>
    /\ sent = 0
    /\ got = 0
    /\ headers_ready = FALSE
    /\ done = FALSE
    /\ worker_error = FALSE
    /\ wpc = "send"
    /\ cpc = "wait"
    /\ joinable = TRUE
    /\ refs = {"caller", "worker"}

-----------------------------------------------------------------------------
(* The worker.                                                             *)

(* response_handler.                                                       *)
WorkerHeaders ==
    /\ wpc = "send" /\ mu = "free" /\ ~headers_ready
    /\ headers_ready' = TRUE
    /\ UNCHANGED <<mu, chunks, sent, got, done, worker_error, wpc, cpc,
                   joinable, refs>>

(* content_receiver.                                                       *)
WorkerChunk ==
    /\ wpc = "send" /\ mu = "free" /\ headers_ready
    /\ \E k \in ChunkSizes :
          /\ sent + k <= MaxBytes
          /\ sent' = sent + k
          /\ chunks' = Append(chunks, sent + k)
    /\ UNCHANGED <<mu, got, headers_ready, done, worker_error, wpc, cpc,
                   joinable, refs>>

(* client->send returns; no lock is needed for that.                       *)
WorkerReturn ==
    /\ wpc = "send"
    /\ wpc' \in {"ok", "failed"}
    /\ UNCHANGED <<mu, chunks, sent, got, headers_ready, done, worker_error,
                   cpc, joinable, refs>>

(* Mutant: a worker that succeeded does not say that it is done.           *)
WorkerFinishQuietSuccess ==
    /\ wpc \in {"ok", "failed"} /\ mu = "free"
    /\ done' = (wpc = "failed")
    /\ worker_error' = (wpc = "failed")
    /\ headers_ready' = (headers_ready \/ wpc = "ok")
    /\ wpc' = "unwind"
    /\ UNCHANGED <<mu, chunks, sent, got, cpc, joinable, refs>>

(* The last critical section.  A body that httplib did not deliver through *)
(* the receiver is queued here.                                            *)
WorkerFinish ==
    /\ wpc \in {"ok", "failed"} /\ mu = "free"
    /\ done' = TRUE
    /\ \/ /\ wpc = "failed"
          /\ worker_error' = TRUE
          /\ UNCHANGED <<headers_ready, chunks, sent>>
       \/ /\ wpc = "ok"
          /\ headers_ready' = TRUE
          /\ UNCHANGED worker_error
          /\ \/ UNCHANGED <<chunks, sent>>
             \/ /\ sent = 0
                /\ \E k \in ChunkSizes :
                      /\ k <= MaxBytes
                      /\ sent' = k
                      /\ chunks' = Append(chunks, k)
    /\ wpc' = "unwind"
    /\ UNCHANGED <<mu, got, cpc, joinable, refs>>

(* The thread function has returned and its captures are destroyed; the    *)
(* destructor of the shared state runs on the worker if they were the last *)
(* reference.                                                              *)
WorkerRelease ==
    /\ wpc = "unwind"
    /\ refs' = refs \ {"worker"}
    /\ wpc' = IF refs' = {} THEN "destroying" ELSE "leaving"
    /\ UNCHANGED <<mu, chunks, sent, got, headers_ready, done, worker_error,
                   cpc, joinable>>

(* Mutant: the destructor joins on every thread, its own one included.     *)
WorkerDestroysByJoin ==
    /\ wpc = "destroying"
    /\ joinable => wpc = "exited"
    /\ joinable' = FALSE
    /\ wpc' = "leaving"
    /\ UNCHANGED <<mu, chunks, sent, got, headers_ready, done, worker_error, cpc, refs>>

(* ~StreamBridgeState on the worker detaches it.                           *)
WorkerDestroys ==
    /\ wpc = "destroying"
    /\ joinable' = FALSE
    /\ wpc' = "leaving"
    /\ UNCHANGED <<mu, chunks, sent, got, headers_ready, done, worker_error, cpc, refs>>

WorkerExit ==
    /\ wpc = "leaving"
    /\ wpc' = "exited"
    /\ UNCHANGED <<mu, chunks, sent, got, headers_ready, done, worker_error,
                   cpc, joinable, refs>>

WorkerLeaves == WorkerRelease \/ WorkerDestroys \/ WorkerExit

Worker == WorkerHeaders \/ WorkerChunk \/ WorkerReturn \/ WorkerFinish \/ WorkerLeaves

-----------------------------------------------------------------------------
(* The caller: execute_upstream_http_stream_request.                       *)

(* The wait for the headers succeeds.  After a failure the worker is       *)
(* joined under the mutex, before the exception.                           *)
HeadersArrive ==
    /\ cpc = "wait" /\ mu = "free" /\ (headers_ready \/ done)
    /\ IF worker_error
         THEN cpc' = "joinLocked" /\ mu' = "caller"
         ELSE cpc' = "open" /\ UNCHANGED mu
    /\ UNCHANGED <<chunks, sent, got, headers_ready, done, worker_error, wpc,
                   joinable, refs>>

(* The wait times out; the worker is joined under the mutex here too.      *)
HeadersTimeout ==
    /\ SlowHeaders
    /\ cpc = "wait" /\ mu = "free" /\ ~headers_ready /\ ~done
    /\ cpc' = "joinLocked"
    /\ mu' = "caller"
    /\ UNCHANGED <<chunks, sent, got, headers_ready, done, worker_error, wpc,
                   joinable, refs>>

(* worker.join() returns: in the two error paths, and in stream.close().   *)
Join ==
    /\ cpc \in {"joinLocked", "joining"}
    /\ wpc = "exited"
    /\ joinable' = FALSE
    /\ cpc' = IF cpc = "joining" THEN "closed" ELSE "failed"
    /\ mu' = "free"
    /\ UNCHANGED <<chunks, sent, got, headers_ready, done, worker_error, wpc, refs>>

(* One turn of the loop of stream_bridge_read, the mutex held.             *)
Unread == IF chunks # <<>> /\ got >= Head(chunks) THEN Tail(chunks) ELSE chunks

Upto(x, y) == IF x <= y THEN x ELSE y

(* Mutant: the end of the worker is noticed before the queue is drained.   *)
ReadTurnDoneFirst ==
    /\ chunks' = Unread
    /\ \/ /\ done
          /\ cpc' = "eof"
          /\ UNCHANGED got
       \/ /\ ~done /\ Unread # <<>>
          /\ got' = Upto(got + BufSize, Head(Unread))
          /\ cpc' = "open"
       \/ /\ ~done /\ Unread = <<>>
          /\ cpc' = "reading"
          /\ UNCHANGED got

ReadTurn ==
    /\ chunks' = Unread
    /\ \/ /\ Unread # <<>>
          /\ got' = Upto(got + BufSize, Head(Unread))
          /\ cpc' = "open"
       \/ /\ Unread = <<>> /\ done
          /\ cpc' = "eof"
          /\ UNCHANGED got
       \/ /\ Unread = <<>> /\ ~done
          /\ cpc' = "reading"
          /\ UNCHANGED got

Read ==
    /\ cpc = "open" /\ mu = "free"
    /\ ReadTurn
    /\ UNCHANGED <<mu, sent, headers_ready, done, worker_error, wpc, joinable, refs>>

(* Mutant: an error of the worker is reported although bytes are queued.   *)
ReadWakeErrorFirst ==
    /\ cpc = "reading" /\ mu = "free"
    /\ \/ worker_error /\ cpc' = "error" /\ UNCHANGED <<chunks, got>>
       \/ ~worker_error /\ ReadTurn
    /\ UNCHANGED <<mu, sent, headers_ready, done, worker_error, wpc, joinable, refs>>

(* The wait of 100 ms ends, by notification or timeout: an error with an   *)
(* empty queue is reported, otherwise the loop turns again.                *)
ReadWake ==
    /\ cpc = "reading" /\ mu = "free"
    /\ \/ worker_error /\ chunks = <<>> /\ cpc' = "error" /\ UNCHANGED <<chunks, got>>
       \/ ~(worker_error /\ chunks = <<>>) /\ ReadTurn
    /\ UNCHANGED <<mu, sent, headers_ready, done, worker_error, wpc, joinable, refs>>

(* Mutant: the worker is joined with the mutex held.                       *)
CloseLocked ==
    /\ cpc \in {"open", "eof", "error"} /\ mu = "free"
    /\ cpc' = "joining"
    /\ mu' = "caller"
    /\ UNCHANGED <<chunks, sent, got, headers_ready, done, worker_error, wpc,
                   joinable, refs>>

(* The consumer stops, at the end of the stream or before, and closes.     *)
Close ==
    /\ cpc \in {"open", "eof", "error"}
    /\ cpc' = "joining"
    /\ UNCHANGED <<mu, chunks, sent, got, headers_ready, done, worker_error,
                   wpc, joinable, refs>>

(* The caller's last owner goes: after close, or without one when the      *)
(* consumer threw.  The destructor runs here if the worker has let go.     *)
Drop ==
    /\ cpc \in {"open", "eof", "error", "closed", "failed"}
    /\ refs' = refs \ {"caller"}
    /\ cpc' = IF refs' = {} /\ joinable THEN "destroying" ELSE "dropped"
    /\ UNCHANGED <<mu, chunks, sent, got, headers_ready, done, worker_error,
                   wpc, joinable>>

(* ~StreamBridgeState on the caller joins the worker.                      *)
CallerDestroys ==
    /\ cpc = "destroying"
    /\ wpc = "exited"
    /\ joinable' = FALSE
    /\ cpc' = "dropped"
    /\ UNCHANGED <<mu, chunks, sent, got, headers_ready, done, worker_error, wpc, refs>>

Caller ==
    \/ HeadersArrive \/ HeadersTimeout \/ Join \/ Read \/ ReadWake
    \/ Close \/ Drop \/ CallerDestroys

Next == Worker \/ Caller

(* httplib's client has connect, read and write timeouts, so client->send  *)
(* returns; both threads keep running when they are not blocked.           *)
Fairness ==
    /\ WF_bridgeVars(WorkerReturn)
    /\ WF_bridgeVars(WorkerFinish)
    /\ WF_bridgeVars(WorkerLeaves)
    /\ WF_bridgeVars(HeadersArrive \/ Join \/ Read \/ ReadWake \/ CallerDestroys)

Spec == Init /\ [][Next]_bridgeVars /\ Fairness

-----------------------------------------------------------------------------
(* Properties.                                                             *)

(* The values of the shared state and of the two threads; the reader is    *)
(* never ahead of the worker.                                              *)
TypeOK ==
    /\ mu \in {"free", "caller"}
    /\ chunks \in Seq(Nat)
    /\ sent \in Nat /\ got \in 0..sent
    /\ headers_ready \in BOOLEAN /\ done \in BOOLEAN /\ worker_error \in BOOLEAN
    /\ wpc \in {"send", "ok", "failed", "unwind", "destroying", "leaving", "exited"}
    /\ cpc \in {"wait", "joinLocked", "failed", "open", "reading", "eof", "error",
                "joining", "closed", "destroying", "dropped"}
    /\ joinable \in BOOLEAN
    /\ refs \subseteq {"caller", "worker"}

(* stream_bridge_read returns 0 only when the worker is through and every  *)
(* byte it handed over has been read, whatever the sizes of chunks and     *)
(* buffer and however the threads interleave.                              *)
EofMeansAllRead == cpc = "eof" => done /\ got = sent

(* It returns -1 only for a failed transfer, and not before the bytes that *)
(* were received have been read.                                           *)
ErrorMeansFailed == cpc = "error" => worker_error /\ got = sent

(* execute_upstream_http_stream_request returns or throws.                 *)
OpenEnds == cpc = "wait" ~> cpc \in {"open", "failed"}

(* A read that waits returns, and a close returns: the reader is never     *)
(* left behind by a worker that has ended.                                 *)
ReadEnds == cpc = "reading" ~> cpc # "reading"
CloseEnds == cpc = "joining" ~> cpc = "closed"

(* A bridge its reader has let go of, with or without a close, frees       *)
(* itself: whichever thread turns out to be the last owner, the destructor *)
(* returns, and the worker ends joined or detached.                        *)
BridgeIsFreed ==
    cpc \in {"destroying", "dropped"} ~> cpc = "dropped" /\ wpc = "exited" /\ ~joinable
=============================================================================
