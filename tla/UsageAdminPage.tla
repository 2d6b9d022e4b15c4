--------------------------- MODULE UsageAdminPage ---------------------------
(***************************************************************************)
(* The page on which root reads the usage of all users: a summary, and the *)
(* events a page at a time.  A page reached by a cursor comes without a    *)
(* summary, and the one on show is kept for it.                            *)
(*                                                                         *)
(* As in UsagePage, of a day it matters whether there is one, and what the *)
(* range and the filters select is one set of events.  beforeID and        *)
(* afterID are left out: each refresh that reads them is told its cursor.  *)
(***************************************************************************)
EXTENDS Browser, UsagePaging

CONSTANTS MaxEvent,     \* bound on the ids of events
          OldEvents,    \* the events that exist when the page is opened
          Filters,      \* what a range and what is typed may select; all events at first
          Limits        \* the sizes of a page

ASSUME UsageAssumption ==
    /\ MaxEvent \in Nat /\ OldEvents \subseteq 1..MaxEvent
    /\ Filters \subseteq SUBSET (1..MaxEvent) /\ 1..MaxEvent \in Filters
    /\ Limits \subseteq Nat \ {0} /\ IsFiniteSet(Limits) /\ Limits # {}

VARIABLES
    events,            \* the rows that the server holds
    start, end,        \* a day is given
    allTime,
    limit,
    filter,            \* of start, end, filterUser, filterChannel and filterModel: what passes
    usageLoading,
    usageData,         \* there is an answer on show, of the five parts below
    shown,             \* its events
    shownOf,           \* the filter they passed
    windowOf,          \* the filter of its summary; {} for none
    nextBefore, prevAfter,
    expandedID,        \* 0 is null
    detailByEventID,   \* the events whose detail is known
    detailLoadingID,
    walk,
    retyped            \* range or filter changed after the last refresh without cursor

pickVars == <<start, end, allTime, limit, filter>>
dataVars == <<usageData, shown, shownOf, windowOf, nextBefore, prevAfter, walk>>
eventDetailVars == <<detailByEventID, detailLoadingID>>
usageAdminVars == <<events, pickVars, usageLoading, dataVars, expandedID, eventDetailVars, retyped>>

AnyEvent == 1..MaxEvent

UsageAdminInit ==
    /\ events = OldEvents
    /\ start = FALSE /\ end = FALSE /\ allTime = FALSE
    /\ limit = Max(Limits) /\ filter = AnyEvent
    /\ usageLoading = TRUE
    /\ usageData = FALSE /\ shown = {} /\ shownOf = {} /\ windowOf = {}
    /\ nextBefore = 0 /\ prevAfter = 0 /\ walk = NoWalk
    /\ expandedID = 0 /\ detailByEventID = {} /\ detailLoadingID = 0
    /\ retyped = FALSE

UsageAdminMount ==
    <<Sent("usage", [before |-> 0, after |-> 0, limit |-> Max(Limits), filter |-> AnyEvent,
                     fillStart |-> TRUE, fillEnd |-> TRUE])>>

-----------------------------------------------------------------------------

(* buildAdminUsagePageParams.  A range open at both ends is a query for    *)
(* all time if that was picked; otherwise the answer fills the open ends.  *)
AdminQuery(before, after, s, e, all, what) ==
    [before |-> before, after |-> after, limit |-> limit, filter |-> what,
     fillStart |-> ~s /\ (e \/ ~all), fillEnd |-> ~e /\ (s \/ ~all)]

RefreshUsage(n, query) == usageLoading' = TRUE /\ Free(n) /\ Send(n, "usage", query)

PageAt(n, before, after) == RefreshUsage(n, AdminQuery(before, after, start, end, allTime, filter))

HasCursor(q) == q.before # 0 \/ q.after # 0

(* The days that an answer fills in are those the server went by: the same *)
(* events pass as before, unless another range was picked meanwhile.       *)
UsageAnswered(n) ==
    /\ Resumes(n, "usage")
    /\ LET q == calls[n].arg
           cut == calls[n].data.cut
       IN IF Ok(n)
          THEN /\ usageData' = TRUE /\ shown' = cut.events /\ shownOf' = q.filter
               /\ windowOf' = IF HasCursor(q) THEN windowOf ELSE q.filter
               /\ nextBefore' = cut.next /\ prevAfter' = cut.prev
               /\ walk' = Walked(walk, q.filter, q.before = 0, cut, calls[n].data.had)
               /\ start' = (start \/ q.fillStart) /\ end' = (end \/ q.fillEnd)
               /\ filter' \in (IF retyped /\ (q.fillStart \/ q.fillEnd) THEN Filters ELSE {filter})
          ELSE /\ usageData' = FALSE /\ shown' = {} /\ shownOf' = {} /\ windowOf' = {}
               /\ nextBefore' = 0 /\ prevAfter' = 0
               /\ UNCHANGED <<walk, start, end, filter>>
    /\ usageLoading' = FALSE
    /\ Finish(n)
    /\ UNCHANGED <<events, allTime, limit, expandedID, eventDetailVars, retyped>>

HandleDateRangeChange ==
    /\ \E s, e \in BOOLEAN : start' = s /\ end' = e /\ allTime' = (~s /\ ~e)
    /\ filter' \in Filters
    /\ retyped' = TRUE
    /\ UNCHANGED <<calls, events, limit, usageLoading, dataVars, expandedID, eventDetailVars>>

PickLimit ==
    /\ limit' \in Limits \ {limit}
    /\ UNCHANGED <<calls, events, start, end, allTime, filter, usageLoading, dataVars, expandedID,
                   eventDetailVars, retyped>>

HandleFilterChange ==
    /\ ~usageLoading
    /\ filter' \in Filters \ {filter}
    /\ retyped' = TRUE
    /\ UNCHANGED <<calls, events, start, end, allTime, limit, usageLoading, dataVars, expandedID,
                   eventDetailVars>>

HandleRefresh(n) ==
    /\ ~usageLoading
    /\ PageAt(n, 0, 0)
    /\ retyped' = FALSE
    /\ UNCHANGED <<events, pickVars, dataVars, expandedID, eventDetailVars>>

HandleReset(n) ==
    /\ ~usageLoading
    /\ start' = FALSE /\ end' = FALSE /\ allTime' = FALSE /\ filter' = AnyEvent
    /\ RefreshUsage(n, AdminQuery(0, 0, FALSE, FALSE, FALSE, AnyEvent))
    /\ retyped' = FALSE
    /\ UNCHANGED <<events, limit, dataVars, expandedID, eventDetailVars>>

-----------------------------------------------------------------------------
(* The table.                                                              *)

CardShown == ~usageLoading /\ usageData /\ windowOf # {}

HandlePrevPage(n) ==
    /\ CardShown /\ prevAfter # 0
    /\ PageAt(n, 0, prevAfter)
    /\ UNCHANGED <<events, pickVars, dataVars, expandedID, eventDetailVars, retyped>>

HandleNextPage(n) ==
    /\ CardShown /\ nextBefore # 0
    /\ PageAt(n, nextBefore, 0)
    /\ UNCHANGED <<events, pickVars, dataVars, expandedID, eventDetailVars, retyped>>

HandleToggleEvent(n, e) ==
    /\ CardShown /\ e \in shown
    /\ expandedID' = IF expandedID = e THEN 0 ELSE e
    /\ IF expandedID = e \/ e \in detailByEventID THEN UNCHANGED <<calls, detailLoadingID>>
       ELSE detailLoadingID' = e /\ Free(n) /\ Send(n, "detail", e)
    /\ UNCHANGED <<events, pickVars, usageLoading, dataVars, detailByEventID, retyped>>

EventDetailAnswered(n) ==
    /\ Resumes(n, "detail")
    /\ detailByEventID' = IF Ok(n) THEN detailByEventID \cup {calls[n].arg} ELSE detailByEventID
    /\ detailLoadingID' = 0
    /\ Finish(n)
    /\ UNCHANGED <<events, pickVars, usageLoading, dataVars, expandedID, retyped>>

-----------------------------------------------------------------------------
(* The server, where requests end.                                         *)

UsageAdminServe(n) ==
    /\ \/ /\ Waits(n, "usage")
          /\ LET q == calls[n].arg
                 had == events \cap q.filter
             IN Answer(n, [cut |-> AdminPageOf(had, q.before, q.after, q.limit), had |-> had])
       \/ Waits(n, "detail") /\ Answer(n, <<>>)
    /\ UNCHANGED usageAdminVars

(* As in UsagePage: in any order of the ids.                               *)
RequestEnds ==
    /\ \E e \in AnyEvent \ events : events' = events \cup {e}
    /\ UNCHANGED <<calls, pickVars, usageLoading, dataVars, expandedID, eventDetailVars, retyped>>

-----------------------------------------------------------------------------

UsageAdminClick ==
    \/ HandleDateRangeChange \/ PickLimit \/ HandleFilterChange
    \/ \E n \in Slots : HandleRefresh(n) \/ HandleReset(n) \/ HandlePrevPage(n) \/ HandleNextPage(n)
    \/ \E n \in Slots, e \in AnyEvent : HandleToggleEvent(n, e)
    \/ RequestEnds

UsageAdminStep == \E n \in Slots : UsageAdminServe(n) \/ UsageAnswered(n) \/ EventDetailAnswered(n)

UsageAdminNext ==
    /\ page = "usageAdmin"
    /\ \/ UsageAdminClick /\ Clicked
       \/ UsageAdminStep /\ UNCHANGED clicks
       \/ \E n \in Slots : CallFails(n) /\ UNCHANGED <<clicks, usageAdminVars>>
    /\ UNCHANGED page /\ NoDialogChange

-----------------------------------------------------------------------------
(* Going on to the next page never passes over an event that is stored,    *)
(* and the summary above the events is of the same range and filter as     *)
(* they are, unless these were changed and not applied before the page was *)
(* turned.  Turning back is left out: the page before does pass over       *)
(* events.                                                                 *)
UsageAdminIsWhole ==
    /\ NoGap(walk)
    /\ usageData /\ ~usageLoading /\ ~retyped => windowOf \in {{}, shownOf}

UsageAdminFlagsFall ==
    page = "usageAdmin" => /\ usageLoading => InFlight("usage")
                           /\ detailLoadingID # 0 => InFlightFor("detail", detailLoadingID)
=============================================================================
