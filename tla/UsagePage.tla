------------------------------ MODULE UsagePage ------------------------------
(***************************************************************************)
(* The page on which a user reads the usage of a range of days and goes    *)
(* through its events.  Whatever is picked above the table takes effect    *)
(* with the next refresh only, the buttons of the table included.          *)
(*                                                                         *)
(* Of a day it matters whether there is one.  What the range, the key and  *)
(* the model select is one filter: the set of the events that pass them.   *)
(* The two requests of a refresh are one call.                             *)
(***************************************************************************)
EXTENDS Browser, UsagePaging

CONSTANTS MaxEvent,     \* bound on the ids of events
          OldEvents,    \* the events that exist when the page is opened
          Filters,      \* what a range and what is typed may select; all events at first
          Limits        \* the sizes of a page

ASSUME UsageAssumption ==
    /\ MaxEvent \in Nat /\ OldEvents \subseteq 1..MaxEvent
    /\ Filters \subseteq SUBSET (1..MaxEvent) /\ 1..MaxEvent \in Filters
    /\ Limits \subseteq Nat \ {0} /\ IsFiniteSet(Limits) /\ Limits # {}

VARIABLES
    events,            \* the rows that the server holds
    start, end,        \* a day is given
    allTime,
    limit,
    filter,            \* of start, end, filterKey and filterModel: what passes
    usageLoading,
    usageData,         \* the answer on show
    shown,             \* the events on show
    nextBeforeID,      \* 0 is null
    beforeStack,
    expandedID,        \* 0 is null
    detailByEventID,   \* the events whose detail is known
    detailLoadingID,
    tokenByID,         \* the names of the tokens are known
    walk

pickVars == <<start, end, allTime, limit, filter>>
listVars == <<usageData, shown, nextBeforeID, walk>>
detailVars == <<detailByEventID, detailLoadingID>>
usageVars == <<events, pickVars, usageLoading, listVars, beforeStack, expandedID, detailVars, tokenByID>>

AnyEvent == 1..MaxEvent

UsageInit ==
    /\ events = OldEvents
    /\ start = TRUE /\ end = TRUE /\ allTime = FALSE
    /\ limit = Max(Limits) /\ filter = AnyEvent
    /\ usageLoading = TRUE /\ usageData = FALSE /\ shown = {} /\ nextBeforeID = 0 /\ walk = NoWalk
    /\ beforeStack = <<>> /\ expandedID = 0
    /\ detailByEventID = {} /\ detailLoadingID = 0
    /\ tokenByID = FALSE

UsageQuery(before) == [before |-> before, limit |-> limit, filter |-> filter, start |-> start, end |-> end]

UsageMount ==
    <<Sent("usage", [before |-> 0, limit |-> Max(Limits), filter |-> AnyEvent, start |-> TRUE, end |-> TRUE]),
      Sent("tokenMap", <<>>)>>

-----------------------------------------------------------------------------

RefreshUsage(n, query) == usageLoading' = TRUE /\ Free(n) /\ Send(n, "usage", query)

(* The answer fills in the day that the query left open, whatever the user *)
(* picked in the meantime.  Both days open is a query for all time.  With  *)
(* a day that was open filled in, other events pass.                       *)
UsageAnswered(n) ==
    /\ Resumes(n, "usage")
    /\ LET q == calls[n].arg
           cut == calls[n].data.cut
       IN IF Ok(n)
          THEN /\ usageData' = TRUE /\ shown' = cut.events /\ nextBeforeID' = cut.next
               /\ walk' = Walked(walk, q.filter, q.before = 0, cut, calls[n].data.had)
               /\ start' = (start \/ (~q.start /\ q.end))
               /\ end' = (end \/ (q.start /\ ~q.end))
               /\ filter' \in (IF q.start = q.end THEN {filter} ELSE Filters)
          ELSE /\ usageData' = FALSE /\ shown' = {} /\ nextBeforeID' = 0
               /\ UNCHANGED <<walk, start, end, filter>>
    /\ usageLoading' = FALSE
    /\ Finish(n)
    /\ UNCHANGED <<events, allTime, limit, beforeStack, expandedID, detailVars, tokenByID>>

(* Picking a range, a size or a filter: the cursors are forgotten, the     *)
(* answer on show stays.                                                   *)
Picks == beforeStack' = <<>> /\ expandedID' = 0
         /\ UNCHANGED <<calls, events, usageLoading, listVars, detailVars, tokenByID>>

PickUsageRange ==
    /\ \E s, e \in BOOLEAN : start' = s /\ end' = e /\ allTime' = (~s /\ ~e)
    /\ filter' \in Filters
    /\ Picks
    /\ UNCHANGED limit

PickLimit ==
    /\ limit' \in Limits
    /\ Picks
    /\ UNCHANGED <<start, end, allTime, filter>>

PickFilter ==
    /\ ~usageLoading
    /\ filter' \in Filters
    /\ Picks
    /\ UNCHANGED <<start, end, allTime, limit>>

UpdateClick(n) ==
    /\ ~usageLoading
    /\ beforeStack' = <<>> /\ expandedID' = 0
    /\ RefreshUsage(n, UsageQuery(0))
    /\ UNCHANGED <<events, pickVars, listVars, detailVars, tokenByID>>

ResetUsageClick(n) ==
    /\ ~usageLoading
    /\ start' = TRUE /\ end' = TRUE /\ allTime' = FALSE /\ filter' = AnyEvent
    /\ beforeStack' = <<>> /\ expandedID' = 0
    /\ RefreshUsage(n, [before |-> 0, limit |-> limit, filter |-> AnyEvent, start |-> TRUE, end |-> TRUE])
    /\ UNCHANGED <<events, limit, listVars, detailVars, tokenByID>>

-----------------------------------------------------------------------------
(* The table.                                                              *)

CardShown == ~usageLoading /\ usageData

CanPrev == beforeStack # <<>>
CanNext == nextBeforeID # 0 /\ Cardinality(shown) = limit

OnPrevPage(n) ==
    /\ CardShown /\ CanPrev
    /\ beforeStack' = SubSeq(beforeStack, 1, Len(beforeStack) - 1)
    /\ expandedID' = 0
    /\ RefreshUsage(n, UsageQuery(IF beforeStack' = <<>> THEN 0 ELSE beforeStack'[Len(beforeStack')]))
    /\ UNCHANGED <<events, pickVars, listVars, detailVars, tokenByID>>

OnNextPage(n) ==
    /\ CardShown /\ CanNext
    /\ beforeStack' = Append(beforeStack, nextBeforeID)
    /\ expandedID' = 0
    /\ RefreshUsage(n, UsageQuery(nextBeforeID))
    /\ UNCHANGED <<events, pickVars, listVars, detailVars, tokenByID>>

ToggleEvent(n, e) ==
    /\ CardShown /\ e \in shown
    /\ expandedID' = IF expandedID = e THEN 0 ELSE e
    /\ IF expandedID = e \/ e \in detailByEventID THEN UNCHANGED <<calls, detailLoadingID>>
       ELSE detailLoadingID' = e /\ Free(n) /\ Send(n, "detail", e)
    /\ UNCHANGED <<events, pickVars, usageLoading, listVars, beforeStack, detailByEventID, tokenByID>>

DetailAnswered(n) ==
    /\ Resumes(n, "detail")
    /\ detailByEventID' = IF Ok(n) THEN detailByEventID \cup {calls[n].arg} ELSE detailByEventID
    /\ detailLoadingID' = 0
    /\ Finish(n)
    /\ UNCHANGED <<events, pickVars, usageLoading, listVars, beforeStack, expandedID, tokenByID>>

TokenMapAnswered(n) ==
    /\ Resumes(n, "tokenMap")
    /\ tokenByID' = (tokenByID \/ Ok(n))
    /\ Finish(n)
    /\ UNCHANGED <<events, pickVars, usageLoading, listVars, beforeStack, expandedID, detailVars>>

-----------------------------------------------------------------------------
(* The server, where requests end and a token may be deleted with its rows. *)

UsageServe(n) ==
    /\ \/ /\ Waits(n, "usage")
          /\ LET q == calls[n].arg
                 had == events \cap q.filter
             IN Answer(n, [cut |-> UserPageOf(had, q.before, q.limit), had |-> had])
       \/ Waits(n, "detail") /\ calls[n].arg \in events /\ Answer(n, <<>>)
       \/ Waits(n, "tokenMap") /\ Answer(n, <<>>)
    /\ UNCHANGED usageVars

(* The id was taken when the request came: newer requests may be listed    *)
(* already, and a counter that was restarted gives old ids.                *)
RequestEnds ==
    /\ \E e \in AnyEvent \ events : events' = events \cup {e}
    /\ UNCHANGED <<calls, pickVars, usageLoading, listVars, beforeStack, expandedID, detailVars, tokenByID>>

RowsDeleted ==
    /\ \E e \in events : events' = events \ {e}
    /\ UNCHANGED <<calls, pickVars, usageLoading, listVars, beforeStack, expandedID, detailVars, tokenByID>>

-----------------------------------------------------------------------------

UsageClick ==
    \/ PickUsageRange \/ PickLimit \/ PickFilter
    \/ \E n \in Slots : UpdateClick(n) \/ ResetUsageClick(n) \/ OnPrevPage(n) \/ OnNextPage(n)
    \/ \E n \in Slots, e \in AnyEvent : ToggleEvent(n, e)
    \/ RequestEnds \/ RowsDeleted      \* what others do is bounded as well

UsageStep == \E n \in Slots : \/ UsageServe(n)
                              \/ UsageAnswered(n) \/ DetailAnswered(n) \/ TokenMapAnswered(n)

UsageNext ==
    /\ page = "usage"
    /\ \/ UsageClick /\ Clicked
       \/ UsageStep /\ UNCHANGED clicks
       \/ \E n \in Slots : CallFails(n) /\ UNCHANGED <<clicks, usageVars>>
    /\ UNCHANGED page /\ NoDialogChange

-----------------------------------------------------------------------------
(* Whoever goes through the pages meets every event that was stored when   *)
(* they came by its place, although requests end in any order, rows are    *)
(* deleted, the size of a page and the range are changed and answers fail  *)
(* in between.                                                             *)
UsageWalkHasNoGap == NoGap(walk)

UsageFlagsFall ==
    page = "usage" => /\ usageLoading => InFlight("usage")
                      /\ detailLoadingID # 0 => InFlightFor("detail", detailLoadingID)
=============================================================================
