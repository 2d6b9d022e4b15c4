---------------------------- MODULE ConsoleLemmas ----------------------------
(***************************************************************************)
(* What the proofs about both consoles rest on: how a step of a page       *)
(* changes the handlers that wait, how a chart asks for its series, and    *)
(* what the server cuts out of the events.                                 *)
(***************************************************************************)
EXTENDS TimeSeriesChart, UsagePaging, FiniteSetTheorems, WellFoundedInduction, TLAPS

-----------------------------------------------------------------------------
(* There is no set of all arguments and answers: what has the five fields  *)
(* is a call.                                                              *)

CallFields == {"op", "arg", "stage", "ok", "data"}
IsCall(c) == c = [f \in CallFields |-> c[f]]

ShapedCalls == calls = [n \in Slots |-> calls[n]] /\ \A n \in Slots : IsCall(calls[n])

(* After a step nothing but n has changed, or what n is for has not.       *)
OnlySlot(n) == \A m \in Slots \ {n} : calls'[m] = calls[m]
SameErrands == \A m \in Slots : calls'[m].op = calls[m].op /\ calls'[m].arg = calls[m].arg

LEMMA SentIsCall ==
    ASSUME NEW op, NEW arg
    PROVE  /\ IsCall(Sent(op, arg))
           /\ Sent(op, arg).op = op /\ Sent(op, arg).arg = arg
           /\ Sent(op, arg).stage = "sent" /\ ~Sent(op, arg).ok
  BY DEF IsCall, Sent, CallFields

LEMMA IdleIsCall == IsCall(Idle) /\ Idle.op = "idle" /\ ~Idle.ok /\ Idle.stage = "idle" /\ Idle.arg = <<>>
  BY DEF IsCall, Idle, CallFields

LEMMA SlotIs ==
    ASSUME ShapedCalls, NEW n \in Slots, NEW x, IsCall(x), calls' = [calls EXCEPT ![n] = x]
    PROVE  ShapedCalls' /\ calls'[n] = x /\ OnlySlot(n)
  BY DEF ShapedCalls, OnlySlot

LEMMA SendIs ==
    ASSUME ShapedCalls, NEW n \in Slots, NEW op, NEW arg, Send(n, op, arg)
    PROVE  /\ ShapedCalls' /\ OnlySlot(n)
           /\ calls'[n].op = op /\ calls'[n].arg = arg
           /\ calls'[n].stage = "sent" /\ ~calls'[n].ok
  <1>1. calls' = [calls EXCEPT ![n] = Sent(op, arg)]
    BY DEF Send
  <1>2. IsCall(Sent(op, arg))
    BY SentIsCall
  <1>3. ShapedCalls' /\ OnlySlot(n) /\ calls'[n] = Sent(op, arg)
    BY <1>1, <1>2, SlotIs
  <1>4. QED
    BY <1>3, SentIsCall

LEMMA SendBothIs ==
    ASSUME ShapedCalls, NEW n \in Slots, NEW op, NEW arg, NEW m \in Slots, NEW effect, NEW effectArg,
           SendBoth(n, op, arg, m, effect, effectArg)
    PROVE  /\ ShapedCalls' /\ m # n /\ calls[m].op = "idle"
           /\ \A k \in Slots \ {n, m} : calls'[k] = calls[k]
           /\ calls'[n].op = op /\ calls'[n].arg = arg
           /\ calls'[n].stage = "sent" /\ ~calls'[n].ok
           /\ calls'[m].op = effect /\ calls'[m].arg = effectArg
           /\ calls'[m].stage = "sent" /\ ~calls'[m].ok
  <1> DEFINE x == Sent(op, arg)
             y == Sent(effect, effectArg)
  <1>1. m # n /\ calls[m].op = "idle" /\ calls' = [calls EXCEPT ![n] = x, ![m] = y]
    BY DEF SendBoth, Is
  <1>2. IsCall(x) /\ IsCall(y)
    BY SentIsCall
  <1> HIDE DEF x, y
  <1>3. /\ calls' = [k \in Slots |-> calls'[k]] /\ calls'[n] = x /\ calls'[m] = y
        /\ \A k \in Slots \ {n, m} : calls'[k] = calls[k]
    BY <1>1 DEF ShapedCalls
  <1>4. ShapedCalls'
    BY <1>2, <1>3 DEF ShapedCalls
  <1>5. /\ x.op = op /\ x.arg = arg /\ x.stage = "sent" /\ ~x.ok
        /\ y.op = effect /\ y.arg = effectArg /\ y.stage = "sent" /\ ~y.ok
    BY SentIsCall DEF x, y
  <1>6. QED
    BY <1>1, <1>3, <1>4, <1>5

LEMMA FinishIs ==
    ASSUME ShapedCalls, NEW n \in Slots, Finish(n)
    PROVE  /\ ShapedCalls' /\ OnlySlot(n)
           /\ calls'[n].op = "idle" /\ calls'[n].arg = <<>>
           /\ calls'[n].stage = "idle" /\ ~calls'[n].ok
  <1>1. calls' = [calls EXCEPT ![n] = Idle]
    BY DEF Finish
  <1>2. ShapedCalls' /\ OnlySlot(n) /\ calls'[n] = Idle
    BY <1>1, SlotIs, IdleIsCall
  <1>3. QED
    BY <1>2, IdleIsCall

LEMMA AnswerIs ==
    ASSUME ShapedCalls, NEW n \in Slots, NEW o \in BOOLEAN, NEW d,
           calls' = [calls EXCEPT ![n] = [@ EXCEPT !.stage = "answered", !.ok = o, !.data = d]]
    PROVE  /\ ShapedCalls' /\ OnlySlot(n) /\ SameErrands
           /\ calls'[n].stage = "answered" /\ calls'[n].ok = o /\ calls'[n].data = d
  <1> DEFINE x == [calls[n] EXCEPT !.stage = "answered", !.ok = o, !.data = d]
  <1>1. IsCall(calls[n])
    BY DEF ShapedCalls
  <1>2. /\ IsCall(x) /\ x.op = calls[n].op /\ x.arg = calls[n].arg
        /\ x.stage = "answered" /\ x.ok = o /\ x.data = d
    BY <1>1 DEF IsCall, CallFields
  <1>3. calls' = [calls EXCEPT ![n] = x]
    OBVIOUS
  <1> HIDE DEF x
  <1>4. ShapedCalls' /\ calls'[n] = x /\ OnlySlot(n)
    BY <1>2, <1>3, SlotIs
  <1>5. SameErrands
    BY <1>2, <1>4 DEF OnlySlot, SameErrands
  <1>6. QED
    BY <1>2, <1>4, <1>5

LEMMA AnsweredIs ==
    ASSUME ShapedCalls, NEW n \in Slots, NEW d, Answer(n, d)
    PROVE  /\ ShapedCalls' /\ OnlySlot(n) /\ SameErrands
           /\ calls'[n].stage = "answered" /\ calls'[n].ok /\ calls'[n].data = d
  BY AnswerIs DEF Answer

LEMMA FailedIs ==
    ASSUME ShapedCalls, NEW n \in Slots, CallFails(n)
    PROVE  /\ ShapedCalls' /\ OnlySlot(n) /\ SameErrands
           /\ calls'[n].stage = "answered" /\ ~calls'[n].ok
  BY AnswerIs DEF CallFails

(* Before the user has done anything.                                      *)
LEMMA MountedIs ==
    ASSUME NEW mount, BrowserInit(mount), \A n \in Slots \cap DOMAIN mount : IsCall(mount[n])
    PROVE  /\ ShapedCalls
           /\ \A n \in Slots : calls[n] = IF n \in DOMAIN mount THEN mount[n] ELSE Idle
  BY IdleIsCall DEF BrowserInit, ShapedCalls

(* A page that is mounted with one request, or with none.                  *)
LEMMA OneIsMounted ==
    ASSUME NEW op, NEW arg, BrowserInit(<<Sent(op, arg)>>)
    PROVE  /\ ShapedCalls /\ 1 \in Slots
           /\ calls[1].op = op /\ calls[1].arg = arg /\ calls[1].stage = "sent" /\ ~calls[1].ok
           /\ \A n \in Slots \ {1} : calls[n] = Idle
  <1> DEFINE mount == <<Sent(op, arg)>>
  <1>1. DOMAIN mount = {1} /\ mount[1] = Sent(op, arg)
    OBVIOUS
  <1>2. BrowserInit(mount)
    OBVIOUS
  <1> HIDE DEF mount
  <1>3. 1 \in Slots
    BY BrowserAssumption DEF Slots
  <1>4. \A n \in Slots \cap DOMAIN mount : IsCall(mount[n])
    BY <1>1, SentIsCall
  <1>5. /\ ShapedCalls
        /\ \A n \in Slots : calls[n] = IF n \in {1} THEN mount[n] ELSE Idle
    BY <1>1, <1>2, <1>4, MountedIs
  <1>6. QED
    BY <1>1, <1>3, <1>5, SentIsCall

LEMMA NoneIsMounted ==
    ASSUME BrowserInit(<<>>)
    PROVE  ShapedCalls /\ \A n \in Slots : calls[n] = Idle
  <1> DEFINE mount == <<>>
  <1>1. DOMAIN mount = {} /\ BrowserInit(mount)
    OBVIOUS
  <1> HIDE DEF mount
  <1>2. QED
    BY <1>1, MountedIs

(* The chart's effect takes a slot that is free after the handler's step.  *)
LEMMA LoadIs ==
    ASSUME NEW others, others = [n \in Slots |-> others[n]], \A n \in Slots : IsCall(others[n]),
           NEW g, LoadPoints(others, g)
    PROVE  /\ ShapedCalls' /\ pointsCall' \in Slots
           /\ others[pointsCall'].op = "idle"
           /\ \A m \in Slots \ {pointsCall'} : calls'[m] = others[m]
           /\ calls'[pointsCall'].op = "points" /\ calls'[pointsCall'].arg = g
           /\ calls'[pointsCall'].stage = "sent" /\ ~calls'[pointsCall'].ok
  <1>1. /\ pointsCall' \in Slots /\ others[pointsCall'].op = "idle"
        /\ calls' = [others EXCEPT ![pointsCall'] = Sent("points", g)]
    BY DEF LoadPoints
  <1>2. IsCall(Sent("points", g))
    BY SentIsCall
  <1>3. /\ ShapedCalls' /\ calls'[pointsCall'] = Sent("points", g)
        /\ \A m \in Slots \ {pointsCall'} : calls'[m] = others[m]
    BY <1>1, <1>2 DEF ShapedCalls
  <1>4. QED
    BY <1>1, <1>3, SentIsCall
-----------------------------------------------------------------------------
(* The smallest and the largest of a set of ids.                           *)

LEMMA IdsAreFinite ==
    ASSUME NEW k \in Nat, NEW S \in SUBSET (0..k)
    PROVE  IsFiniteSet(S)
  <1>1. IsFiniteSet(0..k)
    BY FS_Interval, 0 \in Int, k \in Int
  <1>2. QED
    BY <1>1, FS_Subset

(* There are fewer ids above the largest than above any other.             *)
LEMMA MaxOfIds ==
    ASSUME NEW S \in SUBSET Nat, IsFiniteSet(S), S # {}
    PROVE  Max(S) \in S /\ \A y \in S : y <= Max(S)
  <1> DEFINE over(e) == {y \in S : y > e}
             overs == {over(e) : e \in S}
  <1>1. IsWellFoundedOn(StrictSubsetOrdering(S), SUBSET S)
    <2>1. QED
      BY FS_StrictSubsetOrderingWellFounded, FS_FiniteSubsetsOfFinite
  <1>2. overs \subseteq SUBSET S /\ overs # {}
    OBVIOUS
  <1>3. PICK U \in overs : \A V \in overs : <<V, U>> \notin StrictSubsetOrdering(S)
    <2> HIDE DEF overs
    <2> QED
      BY <1>1, <1>2, WFMin
  <1>4. PICK e \in S : U = over(e)
    BY <1>3
  <1>5. ASSUME NEW y \in S, y > e PROVE FALSE
    <2>1. over(y) \in overs
      OBVIOUS
    <2>0. y \in U /\ y \notin over(y)
      <3>1. y \in Nat /\ e \in Nat
        OBVIOUS
      <3>2. ~(y > y)
        BY <3>1
      <3>3. QED
        BY <1>4, <1>5, <3>2
    <2>2. over(y) \subseteq U /\ over(y) \subseteq S /\ U \subseteq S
      <3>1. ASSUME NEW z \in S, z > y PROVE z > e
        <4>1. z \in Nat /\ y \in Nat /\ e \in Nat
          OBVIOUS
        <4>2. QED
          BY <1>5, <3>1, <4>1
      <3>2. QED
        BY <1>4, <3>1
    <2> HIDE DEF over, overs
    <2>3. <<over(y), U>> \in StrictSubsetOrdering(S)
      BY <2>0, <2>2 DEF StrictSubsetOrdering
    <2>4. QED
      BY <1>3, <2>1, <2>3
  <1>6. \A y \in S : e >= y
    BY <1>5
  <1>7. Max(S) \in S /\ \A y \in S : Max(S) >= y
    BY <1>6 DEF Max
  <1>8. QED
    BY <1>7

(* The smallest is the largest of what is at most all of them.             *)
LEMMA MinOfIds ==
    ASSUME NEW k \in Nat, NEW S \in SUBSET (0..k), S # {}
    PROVE  Min(S) \in S /\ \A y \in S : Min(S) <= y
  <1> DEFINE below == {n \in 0..k : \A y \in S : n <= y}
  <1>1. below \in SUBSET (0..k) /\ below # {}
    <2>1. 0 \in below
      OBVIOUS
    <2>2. QED
      BY <2>1
  <1>2. PICK m \in below : \A n \in below : n <= m
    <2> HIDE DEF below
    <2>1. IsFiniteSet(below) /\ below \in SUBSET Nat
      BY <1>1, IdsAreFinite
    <2>2. Max(below) \in below /\ \A n \in below : n <= Max(below)
      BY <1>1, <2>1, MaxOfIds
    <2>3. QED
      BY <2>2
  <1>3. m \in S
    <2> SUFFICES ASSUME m \notin S PROVE FALSE
      OBVIOUS
    <2>1. \A y \in S : m < y /\ y <= k
      BY <1>2
    <2>2. m + 1 \in below
      <3>1. m \in 0..k /\ k \in Nat
        BY <1>2
      <3>2. PICK y \in S : TRUE
        OBVIOUS
      <3>3. m < y /\ y \in 0..k
        BY <2>1
      <3>4. m + 1 \in 0..k
        BY <3>1, <3>3
      <3>5. ASSUME NEW z \in S PROVE m + 1 <= z
        BY <2>1, <3>1
      <3>6. QED
        BY <3>4, <3>5
    <2>3. QED
      BY <1>2, <2>2
  <1>4. \A y \in S : m =< y
    BY <1>2
  <1> HIDE DEF below
  <1>5. Min(S) \in S /\ \A y \in S : Min(S) =< y
    BY <1>3, <1>4 DEF Min
  <1>6. QED
    BY <1>5

-----------------------------------------------------------------------------
(* The newest and the oldest of the ids: whoever passes one of them passes *)
(* what is newer, or older; and of ids there is one unless there is none.  *)

LEMMA NewestOfIds ==
    ASSUME NEW k \in Nat, NEW S \in SUBSET (1..k), NEW c \in Nat \ {0}
    PROVE  /\ Newest(S, c) \subseteq S
           /\ \A e \in S, p \in Newest(S, c) : p <= e => e \in Newest(S, c)
           /\ \A e \in S : \E p \in Newest(S, c) : e <= p
  <1> DEFINE over(e) == {f \in S : f > e}
  <1>0. S \in SUBSET (0..k)
    OBVIOUS
  <1>1. IsFiniteSet(S)
    BY <1>0, IdsAreFinite
  <1>2. ASSUME NEW e \in S, NEW p \in Newest(S, c), p <= e PROVE e \in Newest(S, c)
    <2>1. p \in S /\ Cardinality(over(p)) < c
      BY DEF Newest
    <2>2. over(e) \in SUBSET over(p) /\ over(p) \in SUBSET S
      <3>1. ASSUME NEW z \in S, z > e PROVE z > p
        <4>1. z \in Nat /\ e \in Nat /\ p \in Nat
          BY <2>1
        <4>2. QED
          BY <1>2, <3>1, <4>1
      <3>2. QED
        BY <3>1
    <2>3. IsFiniteSet(over(p))
      BY <1>1, <2>2, FS_Subset
    <2>4. Cardinality(over(e)) <= Cardinality(over(p))
      BY <2>2, <2>3, FS_Subset
    <2>5. IsFiniteSet(over(e))
      BY <2>2, <2>3, FS_Subset
    <2>6. Cardinality(over(e)) \in Nat /\ Cardinality(over(p)) \in Nat
      BY <2>3, <2>5, FS_CardinalityType
    <2>7. Cardinality(over(e)) < c
      BY <2>1, <2>4, <2>6
    <2>8. QED
      BY <2>7 DEF Newest
  <1>3. ASSUME NEW e \in S PROVE \E p \in Newest(S, c) : e <= p
    <2>1. Max(S) \in S /\ \A y \in S : y <= Max(S)
      <3>1. S # {}
        BY <1>3
      <3>2. QED
        BY <1>1, <3>1, MaxOfIds
    <2>2. over(Max(S)) = {}
      <3>1. ASSUME NEW y \in S PROVE ~(y > Max(S))
        <4>1. y \in 1..k /\ Max(S) \in 1..k
          BY <2>1
        <4>2. QED
          BY <2>1, <4>1
      <3>2. QED
        BY <3>1
    <2>3. Cardinality(over(Max(S))) < c
      BY <2>2, FS_EmptySet
    <2>4. Max(S) \in Newest(S, c)
      BY <2>1, <2>3 DEF Newest
    <2>5. QED
      BY <2>1, <2>4
  <1>4. Newest(S, c) \subseteq S
    BY DEF Newest
  <1>5. QED
    BY <1>2, <1>3, <1>4

LEMMA OldestOfIds ==
    ASSUME NEW k \in Nat, NEW S \in SUBSET (1..k), NEW c \in Nat \ {0}
    PROVE  /\ Oldest(S, c) \subseteq S
           /\ \A e \in S, p \in Oldest(S, c) : e <= p => e \in Oldest(S, c)
  <1> DEFINE under(e) == {f \in S : f < e}
  <1>0. S \in SUBSET (0..k)
    OBVIOUS
  <1>1. IsFiniteSet(S)
    BY <1>0, IdsAreFinite
  <1>2. ASSUME NEW e \in S, NEW p \in Oldest(S, c), e <= p PROVE e \in Oldest(S, c)
    <2>1. p \in S /\ Cardinality(under(p)) < c
      BY DEF Oldest
    <2>2. under(e) \in SUBSET under(p) /\ under(p) \in SUBSET S
      <3>1. ASSUME NEW z \in S, z < e PROVE z < p
        <4>1. z \in Nat /\ e \in Nat /\ p \in Nat
          BY <2>1
        <4>2. QED
          BY <1>2, <3>1, <4>1
      <3>2. QED
        BY <3>1
    <2>3. IsFiniteSet(under(p))
      BY <1>1, <2>2, FS_Subset
    <2>4. Cardinality(under(e)) <= Cardinality(under(p))
      BY <2>2, <2>3, FS_Subset
    <2>5. IsFiniteSet(under(e))
      BY <2>2, <2>3, FS_Subset
    <2>6. Cardinality(under(e)) \in Nat /\ Cardinality(under(p)) \in Nat
      BY <2>3, <2>5, FS_CardinalityType
    <2>7. Cardinality(under(e)) < c
      BY <2>1, <2>4, <2>6
    <2>8. QED
      BY <2>7 DEF Oldest
  <1>3. Oldest(S, c) \subseteq S
    BY DEF Oldest
  <1>4. QED
    BY <1>2, <1>3

-----------------------------------------------------------------------------
(* A page leaves out no id between two of its own.  One that was asked for *)
(* below a cursor holds none from there on, and leaves out none above its  *)
(* newest.  The cursor that goes with it, if any, is its oldest.           *)

CutWhole(P, ids) == \A e \in ids : (\E p \in P : p <= e) /\ (\E p \in P : e <= p) => e \in P
CutFromTop(P, ids) == \A e \in ids : \E p \in P : e <= p
CutBelow(P, ids, c) == (\A p \in P : p < c) /\ CutFromTop(P, {e \in ids : e < c})
CursorIsOldest(next, P) == next # 0 => next \in P /\ \A p \in P : next <= p

LEMMA ExtraOfNone ==
    ASSUME NEW S, IsFiniteSet(S), NEW c \in Nat, HasExtra(S, c) PROVE S # {}
  BY FS_EmptySet DEF HasExtra

LEMMA CutIs ==
    ASSUME NEW k \in Nat, NEW cand \in SUBSET (1..k), NEW limit \in Nat \ {0},
           NEW loaded \in SUBSET cand, NEW next,
           \/ loaded = Newest(cand, limit + 1)
           \/ loaded = Oldest(cand, limit + 1),
           next = IF HasExtra(loaded, limit) THEN Min(Newest(loaded, limit)) ELSE 0
    PROVE  /\ Newest(loaded, limit) \subseteq cand
           /\ CutWhole(Newest(loaded, limit), cand)
           /\ loaded = Newest(cand, limit + 1) => CutFromTop(Newest(loaded, limit), cand)
           /\ CursorIsOldest(next, Newest(loaded, limit))
  <1> DEFINE P == Newest(loaded, limit)
  <1>0. loaded \in SUBSET (1..k) /\ limit + 1 \in Nat \ {0}
    OBVIOUS
  <1>1. /\ P \subseteq loaded
        /\ \A e \in loaded, p \in P : p <= e => e \in P
        /\ \A e \in loaded : \E p \in P : e <= p
    BY <1>0, NewestOfIds
  <1>2. ASSUME NEW e \in cand, NEW p \in P, p <= e, NEW q \in P, e <= q PROVE e \in loaded
    <2>1. p \in loaded /\ q \in loaded
      BY <1>1
    <2>2. CASE loaded = Newest(cand, limit + 1)
      BY <1>0, <1>2, <2>1, <2>2, NewestOfIds
    <2>3. CASE loaded = Oldest(cand, limit + 1)
      BY <1>0, <1>2, <2>1, <2>3, OldestOfIds
    <2>4. QED
      BY <2>2, <2>3
  <1>3. CutWhole(P, cand)
    BY <1>1, <1>2 DEF CutWhole
  <1>4. ASSUME loaded = Newest(cand, limit + 1), NEW e \in cand PROVE \E p \in P : e <= p
    <2>1. PICK q \in loaded : e <= q
      BY <1>0, <1>4, NewestOfIds
    <2>2. PICK p \in P : q <= p
      BY <1>1
    <2>3. e \in Nat /\ q \in Nat /\ p \in Nat
      <3>1. q \in loaded /\ p \in loaded
        BY <1>1, <2>1, <2>2
      <3>2. e \in 1..k /\ q \in 1..k /\ p \in 1..k
        BY <1>0, <3>1
      <3>3. QED
        BY <3>2
    <2>4. QED
      BY <2>1, <2>2, <2>3
  <1>5. CursorIsOldest(next, P)
    <2>1. CASE HasExtra(loaded, limit)
      <3>0. loaded \in SUBSET (0..k)
        BY <1>0
      <3>1. IsFiniteSet(loaded)
        BY <3>0, IdsAreFinite
      <3>2. PICK e : e \in loaded
        BY <2>1, <3>1, ExtraOfNone
      <3>3. P # {} /\ P \in SUBSET (0..k)
        BY <1>1, <3>0, <3>2
      <3> HIDE DEF P
      <3>4. Min(P) \in P /\ \A p \in P : Min(P) <= p
        BY <3>3, MinOfIds
      <3>5. next = Min(P)
        BY <2>1 DEF P
      <3>6. QED
        BY <3>4, <3>5 DEF CursorIsOldest
    <2>2. CASE ~HasExtra(loaded, limit)
      BY <2>2 DEF CursorIsOldest
    <2>3. QED
      BY <2>1, <2>2
  <1>6. QED
    BY <1>1, <1>3, <1>4, <1>5 DEF CutFromTop

(* To be between two of the page is to be a candidate.                     *)
LEMMA CutOfCandidates ==
    ASSUME NEW k \in Nat, NEW ids \in SUBSET (1..k), NEW cand \in SUBSET ids, NEW P \in SUBSET cand,
           CutWhole(P, cand),
           \A e \in ids, p \in cand, q \in cand : p <= e /\ e <= q => e \in cand
    PROVE  CutWhole(P, ids)
  BY DEF CutWhole

LEMMA UserPageIs ==
    ASSUME NEW k \in Nat, NEW ids \in SUBSET (1..k), NEW before \in Nat, NEW limit \in Nat \ {0},
           NEW cut, cut = UserPageOf(ids, before, limit)
    PROVE  /\ cut.events \subseteq ids
           /\ CutWhole(cut.events, ids)
           /\ before # 0 => CutBelow(cut.events, ids, before)
           /\ CursorIsOldest(cut.next, cut.events)
  <1> DEFINE cand == {e \in ids : before = 0 \/ e < before}
             loaded == Newest(cand, limit + 1)
  <1>1. cut.events = Newest(loaded, limit)
        /\ cut.next = IF HasExtra(loaded, limit) THEN Min(Newest(loaded, limit)) ELSE 0
    BY DEF UserPageOf
  <1>2. cand \in SUBSET (1..k) /\ cand \in SUBSET ids /\ loaded \in SUBSET cand
    BY DEF Newest
  <1>3. loaded = Newest(cand, limit + 1)
    OBVIOUS
  <1>4. ASSUME NEW e \in ids, NEW p \in cand, NEW q \in cand, p <= e, e <= q PROVE e \in cand
    <2>1. e \in 1..k /\ q \in 1..k
      OBVIOUS
    <2>2. QED
      BY <1>4, <2>1
  <1>5. before # 0 => cand = {e \in ids : e < before}
    OBVIOUS
  <1>6. \A p \in cand : before # 0 => p < before
    OBVIOUS
  <1> HIDE DEF cand, loaded
  <1>7. /\ Newest(loaded, limit) \subseteq cand
        /\ CutWhole(Newest(loaded, limit), cand)
        /\ CutFromTop(Newest(loaded, limit), cand)
        /\ CursorIsOldest(cut.next, Newest(loaded, limit))
    BY <1>1, <1>2, <1>3, CutIs
  <1>8. /\ cut.events \in SUBSET cand /\ CutWhole(cut.events, cand)
        /\ CutFromTop(cut.events, cand) /\ CursorIsOldest(cut.next, cut.events)
    BY <1>1, <1>7
  <1>9. CutWhole(cut.events, ids)
    BY <1>2, <1>4, <1>8, CutOfCandidates
  <1>10. before # 0 => CutBelow(cut.events, ids, before)
    BY <1>5, <1>6, <1>8 DEF CutBelow
  <1>11. QED
    BY <1>2, <1>8, <1>9, <1>10

LEMMA AdminPageIs ==
    ASSUME NEW k \in Nat, NEW ids \in SUBSET (1..k), NEW before \in Nat, NEW after \in Nat,
           NEW limit \in Nat \ {0}, NEW cut, cut = AdminPageOf(ids, before, after, limit)
    PROVE  /\ cut.events \subseteq ids
           /\ CutWhole(cut.events, ids)
           /\ after = 0 /\ before # 0 => CutBelow(cut.events, ids, before)
           /\ CursorIsOldest(cut.next, cut.events)
           /\ cut.prev \in {0} \cup cut.events
  <1> DEFINE cand == IF after # 0 THEN {e \in ids : e > after}
                     ELSE {e \in ids : before = 0 \/ e < before}
             loaded == IF after # 0 THEN Oldest(cand, limit + 1) ELSE Newest(cand, limit + 1)
  <1>1. /\ cut.events = Newest(loaded, limit)
        /\ cut.next = IF HasExtra(loaded, limit) THEN Min(Newest(loaded, limit)) ELSE 0
        /\ cut.prev = IF (after # 0 \/ before # 0) /\ cut.events # {} THEN Max(cut.events) ELSE 0
    BY DEF AdminPageOf
  <1>2. cand \in SUBSET (1..k) /\ cand \in SUBSET ids /\ loaded \in SUBSET cand
    BY DEF Newest, Oldest
  <1>3. /\ after # 0 => loaded = Oldest(cand, limit + 1)
        /\ after = 0 => loaded = Newest(cand, limit + 1)
    OBVIOUS
  <1>4. ASSUME NEW e \in ids, NEW p \in cand, NEW q \in cand, p <= e, e <= q PROVE e \in cand
    <2>1. e \in 1..k /\ p \in 1..k /\ q \in 1..k
      OBVIOUS
    <2>2. QED
      BY <1>4, <2>1
  <1>5. after = 0 /\ before # 0 => cand = {e \in ids : e < before}
    OBVIOUS
  <1>6. after = 0 /\ before # 0 => \A p \in cand : p < before
    OBVIOUS
  <1> HIDE DEF cand, loaded
  <1>7. /\ Newest(loaded, limit) \subseteq cand
        /\ CutWhole(Newest(loaded, limit), cand)
        /\ after = 0 => CutFromTop(Newest(loaded, limit), cand)
        /\ CursorIsOldest(cut.next, Newest(loaded, limit))
    BY <1>1, <1>2, <1>3, CutIs
  <1>8. /\ cut.events \in SUBSET cand /\ CutWhole(cut.events, cand)
        /\ after = 0 => CutFromTop(cut.events, cand)
        /\ CursorIsOldest(cut.next, cut.events)
    BY <1>1, <1>7
  <1>9. CutWhole(cut.events, ids)
    BY <1>2, <1>4, <1>8, CutOfCandidates
  <1>10. after = 0 /\ before # 0 => CutBelow(cut.events, ids, before)
    BY <1>5, <1>6, <1>8 DEF CutBelow
  <1>11. cut.prev \in {0} \cup cut.events
    <2>0. cut.events \subseteq ids
      BY <1>2, <1>8
    <2>1. ids \subseteq 0..k /\ 0..k \subseteq Nat
      OBVIOUS
    <2>2. cut.events \in SUBSET (0..k) /\ cut.events \in SUBSET Nat
      BY <2>0, <2>1, Zenon
    <2>3. IsFiniteSet(cut.events)
      BY <2>2, IdsAreFinite
    <2>4. cut.events # {} => Max(cut.events) \in cut.events
      BY <2>2, <2>3, MaxOfIds
    <2>5. QED
      BY <1>1, <2>4
  <1>12. QED
    BY <1>2, <1>8, <1>9, <1>10, <1>11

LEMMA AdminPageIsWhole ==
    ASSUME NEW k \in Nat, NEW ids \in SUBSET (1..k), NEW before \in Nat, NEW after \in Nat,
           NEW limit \in Nat \ {0}, NEW cut, cut = AdminPageOf(ids, before, after, limit)
    PROVE  CutWhole(cut.events, ids)
  BY AdminPageIs

(* A page that root asks for by the event before it starts right below it. *)
LEMMA AdminPageBelow ==
    ASSUME NEW k \in Nat, NEW ids \in SUBSET (1..k), NEW before \in Nat \ {0},
           NEW limit \in Nat \ {0}, NEW cut, cut = AdminPageOf(ids, before, 0, limit)
    PROVE  CutBelow(cut.events, ids, before)
  BY AdminPageIs

-----------------------------------------------------------------------------
(* What a walk met reaches down to a cursor: nothing that it still has to  *)
(* meet is newer than all rows below the cursor.                           *)

Reaches(met, c) == met = {} \/ \E m \in met : m <= c

(* The cursor of a page is one of its own rows, so it is below the one it  *)
(* was asked from.                                                         *)
LEMMA NextIsBelow ==
    ASSUME NEW k \in Nat, NEW had, NEW P \in SUBSET (1..k), NEW next, CursorIsOldest(next, P)
    PROVE  /\ next # 0 => next \in 1..k /\ next \in P
           /\ \A b \in 1..k : CutBelow(P, had, b) => \A c \in 1..k : b <= c => next <= c
  <1>1. next # 0 => next \in 1..k /\ next \in P
    BY DEF CursorIsOldest
  <1>2. ASSUME NEW b \in 1..k, CutBelow(P, had, b), NEW c \in 1..k, b <= c PROVE next <= c
    <2>1. CASE next = 0
      BY <2>1
    <2>2. CASE next # 0
      <3>1. next < b /\ next \in 1..k
        BY <1>1, <1>2, <2>2 DEF CutBelow
      <3>2. QED
        BY <1>2, <3>1
    <2>3. QED
      BY <2>1, <2>2
  <1>3. QED
    BY <1>1, <1>2

(* The first page of a walk shows what it passes.                          *)
LEMMA FirstPageHasAll ==
    ASSUME NEW had, NEW P, CutWhole(P, had)
    PROVE  Passed(had, {}, P, P) \subseteq P
  BY DEF Passed, CutWhole

(* So does a page from a cursor that the walk reached: what it passes is   *)
(* older than what was met, hence below the cursor.                        *)
LEMMA NextPageHasAll ==
    ASSUME NEW k \in Nat, NEW had \in SUBSET (1..k), NEW met \in SUBSET (1..k),
           NEW P \in SUBSET (1..k), NEW b \in 1..k,
           Reaches(met, b), CutWhole(P, had), CutBelow(P, had, b)
    PROVE  Passed(had, met, met \cup P, P) \subseteq P
  <1> SUFFICES ASSUME NEW e \in Passed(had, met, met \cup P, P) PROVE e \in P
    OBVIOUS
  <1>1. /\ e \in had /\ \E p \in P : p <= e
        /\ \E m \in met \cup P : e <= m
        /\ \A m \in met : e < m
    BY DEF Passed
  <1>2. CASE met = {}
    BY <1>1, <1>2 DEF CutWhole
  <1>3. CASE met # {}
    <2>1. PICK m \in met : m <= b
      BY <1>3 DEF Reaches
    <2>2. e \in 1..k /\ m \in 1..k /\ e < m
      BY <1>1, <2>1
    <2>3. e < b
      BY <2>1, <2>2
    <2>4. \E p \in P : e <= p
      BY <1>1, <2>3 DEF CutBelow, CutFromTop
    <2>5. QED
      BY <1>1, <2>4 DEF CutWhole
  <1>4. QED
    BY <1>2, <1>3

(* The walk after another page: a new one, or the same gone on.            *)
WalksOn(after, walking, before, cut, had) ==
    \/ after.met = cut.events /\ after.due = Passed(had, {}, cut.events, cut.events)
    \/ /\ before # 0 /\ after.met = walking.met \cup cut.events
       /\ after.due = walking.due \cup Passed(had, walking.met, walking.met \cup cut.events, cut.events)

LEMMA WalkedIs ==
    ASSUME NEW walking, NEW filter0, NEW before, NEW cut, NEW had,
           NEW after, after = Walked(walking, filter0, before = 0, cut, had)
    PROVE  WalksOn(after, walking, before, cut, had)
  <1>1. CASE before = 0 \/ walking.of # filter0
    BY <1>1 DEF Walked, NoWalk, WalksOn
  <1>2. CASE before # 0 /\ walking.of = filter0
    BY <1>2 DEF Walked, WalksOn
  <1>3. QED
    BY <1>1, <1>2

(* A walk that has met what it had to meet has done so after another page, *)
(* too, and reaches down to the cursor of the page and to those above it.  *)
LEMMA WalkGoesOn ==
    ASSUME NEW k \in Nat, NEW walking, NoGap(walking), walking.met \in SUBSET (1..k),
           NEW before \in 0..k, NEW cut, NEW had \in SUBSET (1..k),
           cut.events \in SUBSET had, CutWhole(cut.events, had), CursorIsOldest(cut.next, cut.events),
           before # 0 => CutBelow(cut.events, had, before) /\ Reaches(walking.met, before),
           NEW after, WalksOn(after, walking, before, cut, had)
    PROVE  /\ NoGap(after) /\ after.met \in SUBSET (1..k)
           /\ cut.next # 0 => cut.next \in 1..k /\ Reaches(after.met, cut.next)
           /\ before # 0 => \A c \in 1..k : before <= c => cut.next <= c /\ Reaches(after.met, c)
  <1> DEFINE P == cut.events
  <1>0. P \in SUBSET (1..k)
    OBVIOUS
  <1>1. /\ cut.next # 0 => cut.next \in 1..k /\ cut.next \in P
        /\ before # 0 => \A c \in 1..k : before <= c => cut.next <= c
    <2>1. before # 0 => before \in 1..k /\ CutBelow(P, had, before)
      OBVIOUS
    <2>2. CursorIsOldest(cut.next, P)
      OBVIOUS
    <2> HIDE DEF P
    <2>3. QED
      BY <1>0, <2>1, <2>2, NextIsBelow
  <1>2. ASSUME NEW met, P \subseteq met PROVE cut.next # 0 => Reaches(met, cut.next)
    <2> SUFFICES ASSUME cut.next # 0 PROVE Reaches(met, cut.next)
      OBVIOUS
    <2>1. cut.next \in met /\ cut.next \in 1..k
      BY <1>1, <1>2
    <2>2. cut.next <= cut.next
      BY <2>1
    <2>3. QED
      BY <2>1, <2>2 DEF Reaches
  <1>3. CASE after.met = P /\ after.due = Passed(had, {}, P, P)
    <2>1. after.met = P /\ after.due = Passed(had, {}, P, P)
      BY <1>3
    <2>2. NoGap(after) /\ after.met \in SUBSET (1..k)
      BY <1>0, <2>1, FirstPageHasAll DEF NoGap
    <2>3. ASSUME before # 0, NEW c \in 1..k, before <= c PROVE Reaches(after.met, c)
      <3>1. \A p \in P : p < before /\ p \in 1..k
        BY <1>0, <2>3 DEF CutBelow
      <3>2. \A p \in P : p <= c
        BY <2>3, <3>1
      <3>3. QED
        BY <2>1, <3>2 DEF Reaches
    <2>4. cut.next # 0 => Reaches(after.met, cut.next)
      BY <1>2, <2>1
    <2>5. QED
      BY <1>1, <2>2, <2>3, <2>4
  <1>4. CASE /\ before # 0 /\ after.met = walking.met \cup P
             /\ after.due = walking.due \cup Passed(had, walking.met, walking.met \cup P, P)
    <2>1. after.met = walking.met \cup P
          /\ after.due = walking.due \cup Passed(had, walking.met, walking.met \cup P, P)
      BY <1>4
    <2>2. before \in 1..k /\ CutBelow(P, had, before) /\ Reaches(walking.met, before)
      BY <1>4
    <2>3. Passed(had, walking.met, walking.met \cup P, P) \subseteq P
      BY <1>0, <2>2, NextPageHasAll
    <2>4. NoGap(after) /\ after.met \in SUBSET (1..k)
      BY <1>0, <2>1, <2>3 DEF NoGap
    <2>5. ASSUME NEW c \in 1..k, before <= c PROVE Reaches(after.met, c)
      <3>1. \A p \in P : p < before /\ p \in 1..k
        BY <1>0, <2>2 DEF CutBelow
      <3>2. \A p \in P : p <= c
        BY <2>2, <2>5, <3>1
      <3>3. ASSUME NEW m \in walking.met, m <= before PROVE m <= c
        BY <2>2, <2>5, <3>3
      <3>4. QED
        BY <2>1, <2>2, <3>2, <3>3 DEF Reaches
    <2>6. cut.next # 0 => Reaches(after.met, cut.next)
      BY <1>2, <2>1
    <2>7. QED
      BY <1>1, <1>4, <2>4, <2>5, <2>6
  <1>5. QED
    BY <1>3, <1>4 DEF WalksOn
=============================================================================
