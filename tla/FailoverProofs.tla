--------------------------- MODULE FailoverProofs ---------------------------
(***************************************************************************)
(* Theorems about Failover, for groups of any size.                        *)
(***************************************************************************)
EXTENDS Failover, TLAPS

(* While the ring is walked the members that failed are the usable ones    *)
(* before the pointer; past its end they are all the usable ones.          *)
WalkInv ==
    /\ pc = "load" => failed = {} /\ pointer = 1
    /\ pc \in {"loop", "rewrite"} =>
          /\ pointer \in 1..size
          /\ failed = {i \in usable : i < pointer}
    /\ pc = "rewrite" => pointer \in usable
    /\ pc = "end" => failed = usable
    /\ pc \in {"load", "loop", "rewrite", "end"} =>
          answer.status = "none" /\ upstream.status # "ok"

Shape ==
    /\ size \in Nat
    /\ usable \subseteq Members
    /\ pc \in {"load", "loop", "rewrite", "end", "finish", "done"}
    /\ last.status # "ok"

RingInv == Shape /\ WalkInv /\ FirstHealthyAnswers /\ FailureMeansAllTried

LEMMA RingInit == Init => RingInv
  <1> SUFFICES ASSUME Init PROVE RingInv
    OBVIOUS
  <1>1. Shape
    BY FailoverAssumption DEF Init, Shape, Members, OwnError, Message
  <1>2. WalkInv /\ FirstHealthyAnswers /\ FailureMeansAllTried
    BY DEF Init, WalkInv, FirstHealthyAnswers, FailureMeansAllTried, Nothing, Message,
           OwnError
  <1>3. QED
    BY <1>1, <1>2 DEF RingInv

(* One turn of the ring with the pointer's member settled.                 *)
LEMMA NextChannelKeeps ==
    ASSUME RingInv, pc \in {"loop", "rewrite"}, NextChannel,
           UNCHANGED <<size, usable, answer>>, upstream'.status # "ok",
           last'.status # "ok",
           \/ pointer \in usable /\ failed' = failed \cup {pointer}
           \/ pointer \notin usable /\ failed' = failed
    PROVE  RingInv'
  <1>0. /\ size \in Nat /\ usable \subseteq 1..size
        /\ pointer \in 1..size /\ failed = {i \in usable : i < pointer}
        /\ answer.status = "none"
    BY DEF RingInv, Shape, WalkInv, Members
  <1>01. \A i \in usable : i \in 1..size /\ i \in Int
    BY <1>0
  <1>1. failed' = {i \in usable : i < pointer + 1}
    <2>1. \A i \in usable : i < pointer + 1 <=> i < pointer \/ i = pointer
      BY <1>0, <1>01
    <2>2. failed' \subseteq {i \in usable : i < pointer + 1}
      BY <1>0, <2>1
    <2>3. {i \in usable : i < pointer + 1} \subseteq failed'
      BY <1>0, <2>1
    <2>4. QED
      BY <2>2, <2>3
  <1>2. CASE pointer = size
    <2>1. (pointer % size) + 1 = 1
      <3>1. size > 0 /\ pointer % size = 0
        BY <1>0, <1>2
      <3>2. QED
        BY <3>1
    <2>2. pc' = "end"
      BY <2>1 DEF NextChannel
    <2>3. failed' = usable'
      <3>1. \A i \in usable : i < pointer + 1
        BY <1>0, <1>01, <1>2
      <3>2. QED
        BY <1>1, <3>1
    <2>4. QED
      BY <1>0, <2>2, <2>3 DEF RingInv, Shape, WalkInv, Members, FirstHealthyAnswers,
                              FailureMeansAllTried
  <1>3. CASE pointer < size
    <2>1. (pointer % size) + 1 = pointer + 1
      <3>1. pointer % size = pointer
        BY <1>0, <1>3
      <3>2. QED
        BY <3>1
    <2>2. pc' = "loop" /\ pointer' = pointer + 1 /\ pointer' \in 1..size'
      BY <1>0, <1>3, <2>1 DEF NextChannel
    <2>3. QED
      BY <1>0, <1>1, <2>2 DEF RingInv, Shape, WalkInv, Members, FirstHealthyAnswers,
                              FailureMeansAllTried
  <1>4. QED
    BY <1>0, <1>2, <1>3

LEMMA ServedKeeps ==
    ASSUME RingInv, pc \in {"loop", "rewrite"}, pointer \in usable, Served,
           UNCHANGED <<size, usable, failed, last>>
    PROVE  RingInv'
  <1>0. /\ size \in Nat /\ usable \subseteq 1..size
        /\ pointer \in 1..size /\ failed = {i \in usable : i < pointer}
    BY DEF RingInv, Shape, WalkInv, Members
  <1>1. pointer \notin failed
    BY <1>0
  <1>2. /\ pc' \in {"finish", "done"}
        /\ \/ answer'.status = "ok" /\ answer'.from = pointer
           \/ answer'.status = "error" /\ upstream'.status = "ok"
    BY DEF Served, Message, OwnError
  <1>3. QED
    BY <1>0, <1>1, <1>2 DEF RingInv, Shape, WalkInv, Members, FirstHealthyAnswers,
                            FailureMeansAllTried

LEMMA RingNext == RingInv /\ [Next]_vars => RingInv'
  <1> SUFFICES ASSUME RingInv, [Next]_vars PROVE RingInv'
    OBVIOUS
  <1>1. CASE LoadGroup
    <2>1. /\ failed = {} /\ pointer = 1 /\ size \in Nat /\ usable \subseteq 1..size
          /\ answer.status = "none" /\ upstream.status # "ok" /\ last.status # "ok"
      BY <1>1 DEF LoadGroup, RingInv, Shape, WalkInv, Members
    <2>2. \A i \in usable : ~(i < pointer)
      BY <2>1
    <2>3. failed = {i \in usable : i < pointer}
      BY <2>1, <2>2
    <2>4. CASE size > 0 /\ pc' = "loop" /\ UNCHANGED answer
      <3>1. pointer \in 1..size
        BY <2>1, <2>4
      <3>2. QED
        BY <1>1, <2>1, <2>3, <2>4, <3>1
           DEF LoadGroup, RingInv, Shape, WalkInv, Members, FirstHealthyAnswers,
               FailureMeansAllTried
    <2>5. CASE pc' = "finish" /\ answer' = OwnError(0)
      BY <1>1, <2>1, <2>5
         DEF LoadGroup, RingInv, Shape, WalkInv, Members, FirstHealthyAnswers,
             FailureMeansAllTried, OwnError, Message
    <2>6. QED
      BY <1>1, <2>4, <2>5 DEF LoadGroup
  <1>2. CASE Skip
    <2>1. upstream'.status # "ok" /\ last'.status # "ok"
      BY <1>2 DEF Skip, RingInv, WalkInv, Shape
    <2>2. QED
      BY <1>2, <2>1, NextChannelKeeps DEF Skip
  <1>3. CASE TransportFails
    BY <1>3, NextChannelKeeps DEF TransportFails, OwnError, Message
  <1>4. CASE Refused
    BY <1>4, NextChannelKeeps DEF Refused, KeepError, Message
  <1>5. CASE RefusedParameter
    BY <1>5 DEF RefusedParameter, RingInv, Shape, WalkInv, Members,
                FirstHealthyAnswers, FailureMeansAllTried
  <1>6. CASE RewriteRefused
    <2>1. pointer \in usable
      BY <1>6 DEF RewriteRefused, RingInv, WalkInv
    <2>2. QED
      BY <1>6, <2>1, NextChannelKeeps DEF RewriteRefused, KeepError, Message
  <1>7. CASE Accepted
    BY <1>7, ServedKeeps DEF Accepted
  <1>8. CASE RewriteAccepted
    <2>1. pointer \in usable
      BY <1>8 DEF RewriteAccepted, RingInv, WalkInv
    <2>2. QED
      BY <1>8, <2>1, ServedKeeps DEF RewriteAccepted
  <1>9. CASE GiveUp
    BY <1>9 DEF GiveUp, RingInv, Shape, WalkInv, Members, FirstHealthyAnswers,
                FailureMeansAllTried, OwnError, Message
  <1>10. CASE Finish
    BY <1>10 DEF Finish, RingInv, Shape, WalkInv, Members, FirstHealthyAnswers,
                 FailureMeansAllTried
  <1>11. CASE UNCHANGED vars
    BY <1>11 DEF vars, RingInv, Shape, WalkInv, Members, FirstHealthyAnswers,
                 FailureMeansAllTried
  <1>12. QED
    BY <1>1, <1>2, <1>3, <1>4, <1>5, <1>6, <1>7, <1>8, <1>9, <1>10, <1>11 DEF Next

(* The first usable member, in the order of the group, that does not fail  *)
(* is the one that answers.                                                *)
THEOREM SuccessIsFirstHealthy == Spec => []FirstHealthyAnswers
  <1>1. RingInv => FirstHealthyAnswers
    BY DEF RingInv
  <1>2. QED
    BY <1>1, RingInit, RingNext, PTL DEF Spec

(* No client sees a failure while a usable member is untried.              *)
THEOREM FailureIsLastResort == Spec => []FailureMeansAllTried
  <1>1. RingInv => FailureMeansAllTried
    BY DEF RingInv
  <1>2. QED
    BY <1>1, RingInit, RingNext, PTL DEF Spec

-----------------------------------------------------------------------------
(* What the client gets, and what the row says of it.                      *)

(* A kept failure is one member's too, but for the streams of handle.      *)
AnswerInv ==
    /\ last.status # "ok"
    /\ route # "handle_stream" => last.headers \subseteq {last.body}
    /\ AnswerIsOneMembers

(* The request names the member that the kept failure is due to, until an  *)
(* answer is due to another one, which the request then names.             *)
RowInv ==
    /\ pc \in {"load", "loop", "rewrite", "end", "finish", "done"}
    /\ pc = "load" => upstream.member = 0 /\ failed = {}
    /\ pc # "done" => recorded = 0
    /\ pc \in {"loop", "rewrite", "end"} =>
          IF failed = {} THEN upstream.member = 0 ELSE last.from = upstream.member
    /\ pc = "finish" /\ route # "input_tokens" /\ upstream.member # 0 =>
          answer.from = upstream.member
    /\ RowNamesTheAnswer

LEMMA AnswerNext == AnswerInv /\ [Next]_vars => AnswerInv'
  <1> SUFFICES ASSUME AnswerInv, [Next]_vars PROVE AnswerInv'
    OBVIOUS
  <1> USE DEF AnswerInv, AnswerIsOneMembers
  <1>1. CASE LoadGroup
    BY <1>1 DEF LoadGroup, OwnError, Message
  <1>2. CASE Skip \/ RefusedParameter
    BY <1>2 DEF Skip, RefusedParameter
  <1>3. CASE TransportFails
    BY <1>3 DEF TransportFails, OwnError, Message
  <1>4. CASE Refused \/ RewriteRefused
    <2>1. /\ UNCHANGED <<route, answer>>
          /\ last'.status = "error"
          /\ last'.body = pointer
          /\ route # "handle_stream" => last'.headers = {} \cup {pointer}
      BY <1>4 DEF Refused, RewriteRefused, KeepError, Message
    <2>2. QED
      BY <2>1
  <1>5. CASE Accepted \/ RewriteAccepted
    <2>1. UNCHANGED <<route, last>>
      BY <1>5 DEF Accepted, RewriteAccepted
    <2>2. answer' \in {Message("ok", pointer, {pointer}, pointer), OwnError(pointer)}
      BY <1>5 DEF Accepted, RewriteAccepted, Served
    <2>3. answer'.headers \subseteq {answer'.body}
      BY <2>2 DEF OwnError, Message
    <2>4. QED
      BY <2>1, <2>3
  <1>6. CASE GiveUp
    BY <1>6 DEF GiveUp, OwnError, Message
  <1>7. CASE Finish \/ UNCHANGED vars
    BY <1>7 DEF Finish, vars
  <1>8. QED
    BY <1>1, <1>2, <1>3, <1>4, <1>5, <1>6, <1>7 DEF Next

(* A member that failed is named by the request and the kept failure.      *)
LEMMA FailureNamed ==
    ASSUME RowInv, pc \in {"loop", "rewrite"}, NextChannel,
           failed' = failed \cup {pointer}, last'.from = pointer,
           upstream'.member = pointer, UNCHANGED <<route, answer, recorded>>
    PROVE  RowInv'
  <1>1. pc' \in {"loop", "end"} /\ failed' # {}
    BY DEF NextChannel
  <1>2. QED
    BY <1>1 DEF RowInv, RowNamesTheAnswer

LEMMA AcceptanceNamed ==
    ASSUME RowInv, pc \in {"loop", "rewrite"}, Served, UNCHANGED <<route, recorded>>
    PROVE  RowInv'
  <1>1. recorded' = 0 /\ pc' \in {"finish", "done"} /\ answer'.from = pointer
    BY DEF RowInv, Served, OwnError, Message
  <1>2. route # "input_tokens" => upstream'.member = pointer
    BY DEF Served
  <1>3. QED
    BY <1>1, <1>2 DEF RowInv, RowNamesTheAnswer

LEMMA RowNext == RowInv /\ [Next]_vars => RowInv'
  <1> SUFFICES ASSUME RowInv, [Next]_vars PROVE RowInv'
    OBVIOUS
  <1>1. CASE LoadGroup
    BY <1>1 DEF LoadGroup, RowInv, RowNamesTheAnswer, OwnError, Message
  <1>2. CASE Skip
    BY <1>2 DEF Skip, NextChannel, RowInv, RowNamesTheAnswer
  <1>3. CASE TransportFails
    BY <1>3, FailureNamed DEF TransportFails, OwnError, Message
  <1>4. CASE Refused \/ RewriteRefused
    BY <1>4, FailureNamed DEF Refused, RewriteRefused, KeepError, Message
  <1>5. CASE RefusedParameter
    BY <1>5 DEF RefusedParameter, RowInv, RowNamesTheAnswer
  <1>6. CASE Accepted \/ RewriteAccepted
    BY <1>6, AcceptanceNamed DEF Accepted, RewriteAccepted
  <1>7. CASE GiveUp
    BY <1>7 DEF GiveUp, RowInv, RowNamesTheAnswer
  <1>8. CASE Finish
    BY <1>8 DEF Finish, RowInv, RowNamesTheAnswer
  <1>9. CASE UNCHANGED vars
    BY <1>9 DEF vars, RowInv, RowNamesTheAnswer
  <1>10. QED
    BY <1>1, <1>2, <1>3, <1>4, <1>5, <1>6, <1>7, <1>8, <1>9 DEF Next

(* No answer mixes the headers and the body of two members, except in the  *)
(* final failure of a streamed responses request.                          *)
THEOREM AnswersAreNotMixed == Spec => []AnswerIsOneMembers
  <1>1. Init => AnswerInv
    BY DEF Init, AnswerInv, AnswerIsOneMembers, OwnError, Nothing, Message
  <1>2. AnswerInv => AnswerIsOneMembers
    BY DEF AnswerInv
  <1>3. QED
    BY <1>1, <1>2, AnswerNext, PTL DEF Spec

(* The row of a request names the member whose response the client got.    *)
THEOREM RowIsOfTheAnswer == Spec => []RowNamesTheAnswer
  <1>1. Init => RowInv
    BY DEF Init, RowInv, RowNamesTheAnswer
  <1>2. RowInv => RowNamesTheAnswer
    BY DEF RowInv
  <1>3. QED
    BY <1>1, <1>2, RowNext, PTL DEF Spec
=============================================================================
