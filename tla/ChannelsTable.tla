---------------------------- MODULE ChannelsTable ----------------------------
(***************************************************************************)
(* The page of upstream channels: the table with the usage of a range of   *)
(* days, and under one row the time series of its channel.  The dialogs of *)
(* this page are in ChannelSettings.                                       *)
(*                                                                         *)
(* A range is a name: "" is what the server replaces by today's.           *)
(***************************************************************************)
EXTENDS Browser

CONSTANTS TableRows,     \* the channels of the table
          Picked         \* the ranges that the user may pick; "" is all time

ASSUME TableAssumption == "none" \notin TableRows /\ "all" \notin Picked

VARIABLES
    usageRange,          \* usageStart and usageEnd
    usageAllTime,
    usageRangeCustomized,
    usageRangeDirty,     \* a change of the range waits for 400 ms
    tableLoading,
    tableRange,          \* the range of the usage in the table
    tableStale,          \* the last refresh failed and left the table alone
    expandedChannelID,
    detailGranularity,
    detailSeries,        \* what the series is of: channel, range, granularity
    detailSeriesLoading,
    seriesCall,          \* the call whose active is still true; 0 is none
    rangeMixed,          \* a range was picked while a handler waited
    creator              \* the handler that set creatingType; 0 is none

rangeVars == <<usageRange, usageAllTime, usageRangeCustomized>>
seriesVars == <<expandedChannelID, detailGranularity, detailSeries, detailSeriesLoading, seriesCall>>
tableDataVars == <<rangeVars, usageRangeDirty, tableLoading, tableRange, tableStale, seriesVars, rangeMixed>>
tableVars == <<tableDataVars, creator>>

NoSeries == <<"none", "none", "none">>
FailedSeries == <<"failed", "failed", "failed">>

TableInit ==
    /\ usageRange = "" /\ usageAllTime = FALSE /\ usageRangeCustomized = FALSE
    /\ usageRangeDirty = FALSE
    /\ tableLoading = TRUE /\ tableRange = "none" /\ tableStale = FALSE
    /\ expandedChannelID = "none" /\ detailGranularity = "hour"
    /\ detailSeries = NoSeries /\ detailSeriesLoading = FALSE /\ seriesCall = 0
    /\ rangeMixed = FALSE
    /\ creator = 0

Echo(range) == IF range = "" THEN "today" ELSE range

TableMount == <<Sent("page", "today")>>

(* The parameters of refreshWithCurrentRange, as its closure has them.     *)
CurrentRange == IF usageAllTime THEN "all" ELSE Echo(usageRange)

-----------------------------------------------------------------------------
(* The effect that loads the series.                                       *)

SeriesRange(range, allTime, customized, granularity) ==
    IF allTime /\ range = "" THEN "all"
    ELSE IF granularity = "day" /\ ~customized THEN "implicit" ELSE range

SeriesKey == <<expandedChannelID, detailGranularity, rangeVars>>

WantedSeries ==
    <<expandedChannelID, detailGranularity,
      SeriesRange(usageRange, usageAllTime, usageRangeCustomized, detailGranularity)>>

(* What follows every change of the state: others are the calls as the     *)
(* handler leaves them.  A dependency that changed makes the call before   *)
(* inactive, which keeps its slot until it is answered.                    *)
SeriesEffect(others) ==
    CASE SeriesKey' = SeriesKey ->
            calls' = others /\ UNCHANGED <<detailSeries, detailSeriesLoading, seriesCall>>
      [] SeriesKey' # SeriesKey /\ expandedChannelID' = "none" ->
            /\ calls' = others
            /\ detailSeries' = NoSeries /\ detailSeriesLoading' = FALSE /\ seriesCall' = 0
      [] OTHER ->
            /\ \E m \in Slots : /\ others[m].op = "idle" /\ \A k \in 1..(m - 1) : others[k].op # "idle"
                                /\ calls' = [others EXCEPT ![m] = Sent("series", WantedSeries')]
                                /\ seriesCall' = m
            /\ detailSeriesLoading' = TRUE
            /\ UNCHANGED detailSeries

(* Mutant: an answer counts although the effect was cleaned up.            *)
SeriesAnsweredAnyway(n) ==
    /\ Resumes(n, "series")
    /\ detailSeries' = IF Ok(n) THEN calls[n].arg ELSE FailedSeries
    /\ detailSeriesLoading' = FALSE /\ seriesCall' = 0
    /\ Finish(n)
    /\ UNCHANGED <<rangeVars, usageRangeDirty, tableLoading, tableRange, tableStale,
                   expandedChannelID, detailGranularity, rangeMixed, creator>>

SeriesAnswered(n) ==
    /\ Resumes(n, "series")
    /\ IF n = seriesCall
       THEN /\ detailSeries' = IF Ok(n) THEN calls[n].arg ELSE FailedSeries
            /\ detailSeriesLoading' = FALSE
            /\ seriesCall' = 0
       ELSE UNCHANGED <<detailSeries, detailSeriesLoading, seriesCall>>
    /\ Finish(n)
    /\ UNCHANGED <<rangeVars, usageRangeDirty, tableLoading, tableRange, tableStale,
                   expandedChannelID, detailGranularity, rangeMixed, creator>>

-----------------------------------------------------------------------------
(* The table.                                                              *)

Refresh(n, range) == tableLoading' = TRUE /\ Send(n, "page", range)

HandlerEnds(n) == creator' = IF creator = n THEN 0 ELSE creator

PageAnswered(n) ==
    /\ Resumes(n, "page")
    /\ usageRange' = IF Ok(n) /\ calls[n].arg # "all" THEN calls[n].arg ELSE usageRange
    /\ tableRange' = IF Ok(n) THEN calls[n].arg ELSE tableRange
    /\ tableStale' = ~Ok(n)
    /\ tableLoading' = FALSE
    /\ HandlerEnds(n)
    /\ UNCHANGED <<usageAllTime, usageRangeCustomized, usageRangeDirty, expandedChannelID,
                   detailGranularity, rangeMixed>>
    /\ SeriesEffect([calls EXCEPT ![n] = Idle])

RefreshClick(n) ==
    /\ ~tableLoading
    /\ Free(n) /\ Refresh(n, CurrentRange)
    /\ UNCHANGED <<rangeVars, usageRangeDirty, tableRange, tableStale, seriesVars, rangeMixed, creator>>

(* Switching a channel on or off, deleting or creating one: the handler    *)
(* refreshes with the range of the moment of the click.  Creating one does *)
(* not wait for the table, only for another that is being created.         *)
ChangeClick(n) ==
    /\ ~tableLoading
    /\ Free(n) /\ Send(n, "change", CurrentRange)
    /\ UNCHANGED tableVars

StartCreateClick(n) ==
    /\ creator = 0
    /\ creator' = n
    /\ Free(n) /\ Send(n, "change", CurrentRange)
    /\ UNCHANGED tableDataVars

ChannelChanged(n) ==
    /\ Resumes(n, "change")
    /\ IF Ok(n) THEN Refresh(n, calls[n].arg) /\ UNCHANGED creator
                ELSE Finish(n) /\ HandlerEnds(n) /\ UNCHANGED tableLoading
    /\ UNCHANGED <<rangeVars, usageRangeDirty, tableRange, tableStale, seriesVars, rangeMixed>>

TableServe(n) ==
    /\ Waits(n, "page") \/ Waits(n, "change") \/ Waits(n, "series")
    /\ Answer(n, <<>>)
    /\ UNCHANGED tableVars

-----------------------------------------------------------------------------
(* The range: picked, reset, and applied when nothing changed for 400 ms.  *)

Mixing == rangeMixed' = (rangeMixed \/ InFlight("page") \/ InFlight("change"))

PickRange(range) ==
    /\ usageRangeCustomized' = TRUE
    /\ usageAllTime' = (range = "")
    /\ detailGranularity' = IF range = "" THEN "day" ELSE detailGranularity
    /\ usageRange' = range
    /\ usageRangeDirty' = TRUE
    /\ Mixing
    /\ UNCHANGED <<tableLoading, tableRange, tableStale, expandedChannelID, creator>>
    /\ SeriesEffect(calls)

(* Mutant: a reset does not wait for the timer.                            *)
ResetRangeOnly ==
    /\ ~tableLoading
    /\ usageAllTime' = FALSE /\ usageRangeCustomized' = FALSE
    /\ usageRange' = ""
    /\ Mixing
    /\ UNCHANGED <<usageRangeDirty, tableLoading, tableRange, tableStale, expandedChannelID,
                   detailGranularity, creator>>
    /\ SeriesEffect(calls)

ResetRange ==
    /\ ~tableLoading
    /\ usageAllTime' = FALSE /\ usageRangeCustomized' = FALSE
    /\ usageRange' = ""
    /\ usageRangeDirty' = TRUE
    /\ Mixing
    /\ UNCHANGED <<tableLoading, tableRange, tableStale, expandedChannelID, detailGranularity, creator>>
    /\ SeriesEffect(calls)

RangeTimer(n) ==
    /\ usageRangeDirty
    /\ usageRangeDirty' = FALSE
    /\ Free(n) /\ Refresh(n, CurrentRange)
    /\ UNCHANGED <<rangeVars, tableRange, tableStale, seriesVars, rangeMixed, creator>>

-----------------------------------------------------------------------------
(* The row that is open.                                                   *)

ToggleChannelPanel(c) ==
    /\ ~tableLoading /\ tableRange # "none"
    /\ expandedChannelID' = IF expandedChannelID = c THEN "none" ELSE c
    /\ UNCHANGED <<rangeVars, usageRangeDirty, tableLoading, tableRange, tableStale,
                   detailGranularity, rangeMixed, creator>>
    /\ SeriesEffect(calls)

SetGranularity(g) ==
    /\ ~tableLoading /\ expandedChannelID # "none" /\ detailGranularity # g
    /\ detailGranularity' = g
    /\ UNCHANGED <<rangeVars, usageRangeDirty, tableLoading, tableRange, tableStale,
                   expandedChannelID, rangeMixed, creator>>
    /\ SeriesEffect(calls)

-----------------------------------------------------------------------------

TableClick ==
    \/ \E n \in Slots : RefreshClick(n) \/ ChangeClick(n) \/ StartCreateClick(n)
    \/ \E range \in Picked : PickRange(range)
    \/ \E c \in TableRows : ToggleChannelPanel(c)
    \/ \E g \in {"hour", "day"} : SetGranularity(g)
    \/ ResetRange

TableStep == \E n \in Slots : \/ TableServe(n) \/ RangeTimer(n)
                              \/ SeriesAnswered(n) \/ PageAnswered(n) \/ ChannelChanged(n)

TableNext ==
    /\ page = "channels"
    /\ \/ TableClick /\ Clicked
       \/ TableStep /\ UNCHANGED clicks
       \/ \E n \in Slots : CallFails(n) /\ UNCHANGED <<clicks, tableVars>>
    /\ UNCHANGED page /\ NoDialogChange

-----------------------------------------------------------------------------
(* The series under the open row, and whether it is said to be loading,    *)
(* follow the channel, range and granularity chosen last, in whatever      *)
(* order the answers come: the effect implements LastRequest.              *)
Series == INSTANCE LastRequest WITH
    Nothing <- NoSeries, Failed <- FailedSeries,
    wanted <- IF expandedChannelID = "none" THEN NoSeries ELSE WantedSeries,
    shown <- detailSeries, busy <- detailSeriesLoading

SeriesKeepsUp == Series!Spec

(* The usage in the table is of the range above it once the page is at     *)
(* rest, if the last refresh succeeded and no range was picked while a     *)
(* handler waited: such a handler puts back the range it was clicked with. *)
TableMatchesRange ==
    page = "channels" /\ Quiet /\ ~usageRangeDirty /\ ~tableStale /\ ~rangeMixed
        => tableRange = CurrentRange

TableFlagsFall ==
    page = "channels" =>
        /\ tableLoading => InFlight("page")
        /\ detailSeriesLoading => seriesCall # 0 /\ Is(seriesCall, "series")
=============================================================================
