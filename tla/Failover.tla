------------------------------ MODULE Failover ------------------------------
(***************************************************************************)
(* One request on its way through the channels of its group: Gateway::run  *)
(* (chat and messages), Gateway::run_stream and Gateway::handle            *)
(* (responses, streamed or not, and input_tokens).  The members of the     *)
(* group are tried in turn until one answers below 400; then the answer is *)
(* written and, on most paths, a row is recorded by commit_proxy_usage.    *)
(*                                                                         *)
(* Members are named by their position, so that a channel listed twice is  *)
(* two members.  A header or a body is represented by the position of the  *)
(* member it came from, 0 being the gateway.                               *)
(***************************************************************************)
EXTENDS Integers, FiniteSets

CONSTANTS MaxMembers,    \* bound on the members of the group
          Routes         \* the routes in use

ASSUME FailoverAssumption ==
    /\ MaxMembers \in Nat
    /\ Routes \subseteq {"run", "run_stream", "handle", "handle_stream", "input_tokens"}

VARIABLES
    route,
    size,        \* the number of members in the copy of the group
    usable,      \* the members that channel_ok accepts
    pc,          \* "load", "loop", "rewrite", "end", "finish", "done"
    pointer,     \* the member that is looked at
    failed,      \* the members tried so far without success
    sends,       \* how often the request was sent to each member
    last,        \* last_status, last_body and last_headers
    upstream,    \* request.upstream: the member of channel_id, status_code
    answer,      \* what the client got
    recorded     \* the member named by the row that was recorded; 0 is none

vars == <<route, size, usable, pc, pointer, failed, sends, last, upstream,
          answer, recorded>>

Members == 1..size

Message(status, body, headers, from) ==
    [status |-> status, body |-> body, headers |-> headers, from |-> from]

(* from is the member that the message is due to.                          *)
OwnError(i) == Message("error", 0, {}, i)

Nothing == Message("none", 0, {}, 0)

Streams == route \in {"run_stream", "handle_stream"}

Init ==
    /\ route \in Routes
    /\ size \in 0..MaxMembers
    /\ usable \in SUBSET (1..size)
    /\ pc = "load"
    /\ pointer = 1
    /\ failed = {}
    /\ sends = [i \in 1..MaxMembers |-> 0]
    /\ last = OwnError(0)
    /\ upstream = [member |-> 0, status |-> "none"]
    /\ answer = Nothing
    /\ recorded = 0

-----------------------------------------------------------------------------
(* load_channel_group: a group that is disabled, deleted or empty ends the *)
(* request with 400.                                                       *)
LoadGroup ==
    /\ pc = "load"
    /\ \/ size > 0 /\ pc' = "loop" /\ UNCHANGED answer
       \/ pc' = "finish" /\ answer' = OwnError(0)
    /\ UNCHANGED <<route, size, usable, pointer, failed, sends, last, upstream, recorded>>

(* Mutant: the ring is left one member early.                              *)
NextChannelEarly ==
    /\ pointer' = (pointer % size) + 1
    /\ pc' = IF pointer' \in {1, size} THEN "end" ELSE "loop"

(* next_channel, and the test of the loop.                                 *)
NextChannel ==
    /\ pointer' = (pointer % size) + 1
    /\ pc' = IF pointer' = 1 THEN "end" ELSE "loop"

(* Mutant: a member may be passed over although channel_ok accepts it.     *)
SkipAny ==
    /\ pc = "loop"
    /\ NextChannel
    /\ UNCHANGED <<route, size, usable, failed, sends, last, upstream, answer, recorded>>

Skip ==
    /\ pc = "loop" /\ pointer \notin usable
    /\ NextChannel
    /\ UNCHANGED <<route, size, usable, failed, sends, last, upstream, answer, recorded>>

Sent == sends' = [sends EXCEPT ![pointer] = @ + 1]

(* The exchange yields no response: the channel is gone or disabled by     *)
(* now, the connection fails, the headers do not come in time.             *)
TransportFails ==
    /\ pc = "loop" /\ pointer \in usable
    /\ sends' = sends \/ Sent
    /\ failed' = failed \cup {pointer}
    /\ last' = OwnError(pointer)
    /\ upstream' = [member |-> pointer, status |-> "error"]
    /\ NextChannel
    /\ UNCHANGED <<route, size, usable, answer, recorded>>

(* Mutant: every path appends.                                             *)
KeepErrorAppends ==
    /\ failed' = failed \cup {pointer}
    /\ last' = Message("error", pointer, last.headers \cup {pointer}, pointer)
    /\ upstream' = [member |-> pointer, status |-> "error"]
    /\ NextChannel

(* A response of 400 or more is kept as the last one.  The stream path of  *)
(* handle appends its headers to those it already has.                     *)
KeepError ==
    /\ failed' = failed \cup {pointer}
    /\ last' = Message("error", pointer,
                       (IF route = "handle_stream" THEN last.headers ELSE {}) \cup {pointer},
                       pointer)
    /\ upstream' = [member |-> pointer, status |-> "error"]
    /\ NextChannel

Refused ==
    /\ pc = "loop" /\ pointer \in usable
    /\ Sent
    /\ KeepError
    /\ UNCHANGED <<route, size, usable, answer, recorded>>

(* A 4xx that names an unsupported parameter, on a path that is not        *)
(* streamed: UpstreamExecutor::execute sends a rewritten request.          *)
RefusedParameter ==
    /\ pc = "loop" /\ pointer \in usable /\ ~Streams
    /\ Sent
    /\ pc' = "rewrite"
    /\ UNCHANGED <<route, size, usable, pointer, failed, last, upstream, answer, recorded>>

(* The rewritten request fails in any way: the first response stands.      *)
RewriteRefused ==
    /\ pc = "rewrite"
    /\ Sent
    /\ KeepError
    /\ UNCHANGED <<route, size, usable, answer, recorded>>

(* Mutant: the failed member stays in the request.                         *)
ServedKeepsMember ==
    /\ upstream' = [member |-> IF upstream.member = 0 THEN pointer ELSE upstream.member,
                    status |-> "ok"]
    /\ answer' = Message("ok", pointer, {pointer}, pointer)
    /\ pc' = "finish"

(* What a response below 400 does to the request and the answer.  Its body *)
(* may carry a usage object that lacks a count: finalize throws, run lets  *)
(* the exception out of the route and handle answers 502.  input_tokens    *)
(* returns before it fills in the request.                                 *)
Served ==
    \/ /\ route # "input_tokens"
       /\ upstream' = [member |-> pointer, status |-> "ok"]
       /\ answer' = Message("ok", pointer, {pointer}, pointer)
       /\ pc' = "finish"
    \/ /\ route = "input_tokens"
       /\ UNCHANGED upstream
       /\ answer' = Message("ok", pointer, {pointer}, pointer)
       /\ pc' = "finish"
    \/ /\ route \in {"run", "handle", "handle_stream"}
       /\ upstream' = [member |-> pointer, status |-> "ok"]
       /\ answer' = OwnError(pointer)
       /\ pc' = IF route = "run" THEN "done" ELSE "finish"

Accepted ==
    /\ pc = "loop" /\ pointer \in usable
    /\ Sent
    /\ Served
    /\ UNCHANGED <<route, size, usable, pointer, failed, last, recorded>>

RewriteAccepted ==
    /\ pc = "rewrite"
    /\ Sent
    /\ Served
    /\ UNCHANGED <<route, size, usable, pointer, failed, last, recorded>>

(* Mutant: nothing is answered when nothing was tried.                     *)
GiveUpIfTried ==
    /\ pc = "end" /\ failed # {}
    /\ answer' = last
    /\ pc' = "finish"
    /\ UNCHANGED <<route, size, usable, pointer, failed, sends, last, upstream, recorded>>

(* The ring has been walked: 400 if nothing was tried, else the last       *)
(* failure.                                                                *)
GiveUp ==
    /\ pc = "end"
    /\ answer' = IF failed = {} THEN OwnError(0) ELSE last
    /\ pc' = "finish"
    /\ UNCHANGED <<route, size, usable, pointer, failed, sends, last, upstream, recorded>>

(* finish_proxy_usage, or the callback of a stream: a row for the member   *)
(* in the request, if there is one and commit_proxy_usage succeeds.  A     *)
(* failure of run_stream is not recorded.                                  *)
Finish ==
    /\ pc = "finish"
    /\ pc' = "done"
    /\ recorded' \in IF route = "run_stream" /\ answer.status # "ok"
                       THEN {0} ELSE {0, upstream.member}
    /\ UNCHANGED <<route, size, usable, pointer, failed, sends, last, upstream, answer>>

Next ==
    \/ LoadGroup \/ Skip
    \/ TransportFails \/ Refused \/ RefusedParameter \/ RewriteRefused
    \/ Accepted \/ RewriteAccepted
    \/ GiveUp \/ Finish

(* Every exchange with an upstream ends, with httplib's timeouts.          *)
Spec == Init /\ [][Next]_vars /\ WF_vars(Next)

-----------------------------------------------------------------------------
(* Properties.                                                             *)

Messages == [status : {"none", "ok", "error"}, body : 0..MaxMembers,
             headers : SUBSET (1..MaxMembers), from : 0..MaxMembers]

(* Types; no member is sent the request more than twice.                   *)
TypeOK ==
    /\ route \in {"run", "run_stream", "handle", "handle_stream", "input_tokens"}
    /\ size \in 0..MaxMembers
    /\ usable \subseteq Members
    /\ pc \in {"load", "loop", "rewrite", "end", "finish", "done"}
    /\ pointer \in 1..(IF size = 0 THEN 1 ELSE size)
    /\ failed \subseteq usable
    /\ sends \in [1..MaxMembers -> 0..2]
    /\ last \in Messages
    /\ upstream \in [member : 0..MaxMembers, status : {"none", "ok", "error"}]
    /\ answer \in Messages
    /\ recorded \in 0..MaxMembers

(* A success comes from the first member, in the order of the group, that  *)
(* is usable and did not fail; every usable one before it was tried.       *)
FirstHealthyAnswers ==
    answer.status = "ok" =>
        /\ answer.from \in usable \ failed
        /\ failed = {i \in usable : i < answer.from}

(* A failure reaches the client only after every usable member has failed, *)
(* or because the one that succeeded could not be billed.                  *)
FailureMeansAllTried ==
    answer.status = "error" /\ answer.from # 0 /\ upstream.status # "ok" =>
        failed = usable

(* Body and headers of an answer come from one member, whichever failed    *)
(* before it; a streamed responses request may collect the headers of      *)
(* several members, but only in its final failure.                         *)
AnswerIsOneMembers ==
    answer.status = "ok" \/ route # "handle_stream" =>
        answer.headers \subseteq {answer.body}

(* The row names the member whose response the client got, on every route  *)
(* but input_tokens.                                                       *)
RowNamesTheAnswer ==
    recorded # 0 /\ route # "input_tokens" => recorded = answer.from

(* Every request is answered.                                              *)
Answered == <>(pc = "done")
=============================================================================
