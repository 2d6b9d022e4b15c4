---------------------------- MODULE AdminDashboard ----------------------------
(***************************************************************************)
(* The dashboard of the administrator: the figures and the series are two  *)
(* requests from the start, and there is no card before the figures come.  *)
(***************************************************************************)
EXTENDS TimeSeriesChart

VARIABLE figures     \* data and err: "none", "data" or "failed"

adminDashboardVars == <<chartVars, figures>>

AdminDashboardInit == ChartInit /\ pointsCall = 2 /\ figures = "none"

AdminDashboardMount == <<Sent("board", <<>>), Sent("points", "hour")>>

(* The card is mounted with the figures, and its effect runs.              *)
FiguresAnswered(n) ==
    /\ Resumes(n, "board")
    /\ figures' = IF Ok(n) THEN "data" ELSE "failed"
    /\ chart' = Drawn(chart, ~Ok(n) \/ pointsLoading, TRUE, <<points, field, granularity>>)
    /\ Finish(n)
    /\ UNCHANGED <<points, pointsLoading, pointsCall, field, granularity>>

AdminGranularity(g) ==
    /\ figures = "data" /\ g # granularity
    /\ granularity' = g
    /\ LoadPoints(calls, g)
    /\ UNCHANGED <<field, figures>>

AdminField(f) == figures = "data" /\ SetField(f) /\ UNCHANGED figures

AdminDashboardClick ==
    \/ \E g \in Granularities : AdminGranularity(g)
    \/ \E f \in ChartFields : AdminField(f)

AdminDashboardStep ==
    \E n \in Slots : \/ FiguresAnswered(n)
                     \/ PointsAnswered(n, figures = "data") /\ UNCHANGED figures
                     \/ PointsServed(n) /\ UNCHANGED adminDashboardVars

AdminDashboardNext ==
    /\ page = "adminDashboard"
    /\ \/ AdminDashboardClick /\ Clicked
       \/ AdminDashboardStep /\ UNCHANGED clicks
       \/ \E n \in Slots : CallFails(n) /\ UNCHANGED <<clicks, adminDashboardVars>>
    /\ UNCHANGED page /\ NoDialogChange

-----------------------------------------------------------------------------
(* When nothing loads, the chart shows what was chosen last, in whatever   *)
(* order the figures and the series come.                                  *)
AdminChartIsCurrent ==
    page = "adminDashboard" /\ figures = "data" /\ ~pointsLoading => ChartIsOfChoice

AdminDashboardFlagsFall ==
    page = "adminDashboard" /\ pointsLoading => pointsCall # 0 /\ Is(pointsCall, "points")
=============================================================================
