----------------------------- MODULE UsagePaging -----------------------------
(***************************************************************************)
(* The pages of usage events that the server cuts: for a user, and for     *)
(* root, who can also ask for what is newer than an event.  Events are     *)
(* their ids, newest first; 0 stands for no cursor.                        *)
(***************************************************************************)
EXTENDS Integers, FiniteSets, FiniteSetsExt

Newest(ids, k) == {e \in ids : Cardinality({f \in ids : f > e}) < k}
Oldest(ids, k) == {e \in ids : Cardinality({f \in ids : f < e}) < k}

(* One row more than the page is loaded, to learn whether there is more.   *)
HasExtra(loaded, limit) == Cardinality(loaded) > limit

(* Mutant: the cursor is the row too many.                                 *)
UserPageOfExtra(ids, before, limit) ==
    LET loaded == Newest({e \in ids : before = 0 \/ e < before}, limit + 1)
    IN [events |-> Newest(loaded, limit), next |-> IF HasExtra(loaded, limit) THEN Min(loaded) ELSE 0]

(* requests_http_response                                                  *)
UserPageOf(ids, before, limit) ==
    LET loaded == Newest({e \in ids : before = 0 \/ e < before}, limit + 1)
        events == Newest(loaded, limit)
    IN [events |-> events, next |-> IF HasExtra(loaded, limit) THEN Min(events) ELSE 0]

(* Mutant: the cursor is the row too many.                                 *)
AdminPageOfExtra(ids, before, after, limit) ==
    LET loaded == IF after # 0 THEN Oldest({e \in ids : e > after}, limit + 1)
                  ELSE Newest({e \in ids : before = 0 \/ e < before}, limit + 1)
        events == Newest(loaded, limit)
    IN [events |-> events,
        next |-> IF HasExtra(loaded, limit) THEN Min(loaded) ELSE 0,
        prev |-> IF (after # 0 \/ before # 0) /\ events # {} THEN Max(events) ELSE 0]

(* admin_usage_page_http_response.  The rows after an event are loaded     *)
(* oldest first and reversed; of one row too many the oldest is dropped.   *)
AdminPageOf(ids, before, after, limit) ==
    LET loaded == IF after # 0 THEN Oldest({e \in ids : e > after}, limit + 1)
                  ELSE Newest({e \in ids : before = 0 \/ e < before}, limit + 1)
        events == Newest(loaded, limit)
    IN [events |-> events,
        next |-> IF HasExtra(loaded, limit) THEN Min(events) ELSE 0,
        prev |-> IF (after # 0 \/ before # 0) /\ events # {} THEN Max(events) ELSE 0]

(* A walk through pages: the filter it goes by, the events it met, and     *)
(* those it had to meet.  A page of a walk is a cut of the rows "had" that *)
(* passed the filter just then.                                            *)
NoWalk == [of |-> {}, met |-> {}, due |-> {}]

(* A walk has to meet what it passes: each row there is from the oldest on *)
(* the page up to what it met before, or, of its first page, to the newest *)
(* on it.  A row that is stored later than the walk came by its place is   *)
(* passed by no page.                                                      *)
Passed(had, before, met, events) ==
    {e \in had : /\ \E p \in events : p <= e
                 /\ \E m \in met : e <= m
                 /\ \A m \in before : e < m}

Walked(walk, filter, fresh, cut, had) ==
    LET last == IF fresh \/ walk.of # filter THEN NoWalk ELSE walk
        met == last.met \cup cut.events
    IN [of |-> filter, met |-> met, due |-> last.due \cup Passed(had, last.met, met, cut.events)]

NoGap(walk) == walk.due \subseteq walk.met
=============================================================================
