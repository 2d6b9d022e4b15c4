------------------------------ MODULE Dashboard ------------------------------
(***************************************************************************)
(* The dashboard of a user: one request for everything about today, the    *)
(* hours of the chart included, and one for the days when they are asked   *)
(* for.                                                                    *)
(***************************************************************************)
EXTENDS TimeSeriesChart

VARIABLES
    board,         \* data and err: "none", "data" or "failed"
    turnedBack     \* the hours were chosen again while the days were loading

dashboardVars == <<chartVars, board, turnedBack>>

DashboardInit == ChartInit /\ pointsCall = 0 /\ board = "none" /\ turnedBack = FALSE

DashboardMount == <<Sent("board", <<>>)>>

(* The effect that chooses the series, which follows a change of data, err *)
(* or granularity.  The array of the hours is a part of data and the same  *)
(* one each time; drawn is the chart of the render before.                 *)
SeriesOf(others, b, g, drawn) ==
    IF g = "day" THEN LoadPoints(others, "day")
    ELSE /\ calls' = others
         /\ pointsLoading' = (b = "none")
         /\ points' = IF b = "data" THEN "hour" ELSE NoPoints
         /\ pointsCall' = 0
         /\ chart' = Drawn(drawn, pointsLoading', points' = NoPoints \/ points' # points, <<points', field, g>>)

BoardAnswered(n) ==
    /\ Resumes(n, "board")
    /\ board' = IF Ok(n) THEN "data" ELSE "failed"
    /\ SeriesOf([calls EXCEPT ![n] = Idle], board', granularity, chart)
    /\ UNCHANGED <<field, granularity, turnedBack>>

DashboardGranularity(g) ==
    /\ g # granularity
    /\ granularity' = g
    /\ turnedBack' = (g = "hour" /\ pointsLoading)
    /\ SeriesOf(calls, board, g, Drawn(chart, pointsLoading, TRUE, <<points, field, g>>))
    /\ UNCHANGED <<field, board>>

DashboardField(f) == SetField(f) /\ turnedBack' = FALSE /\ UNCHANGED board

DashboardClick ==
    \/ \E g \in Granularities : DashboardGranularity(g)
    \/ \E f \in ChartFields : DashboardField(f)

DashboardStep ==
    \E n \in Slots : \/ BoardAnswered(n)
                     \/ PointsAnswered(n, TRUE) /\ UNCHANGED <<board, turnedBack>>
                     \/ PointsServed(n) /\ UNCHANGED dashboardVars

DashboardNext ==
    /\ page = "dashboard"
    /\ \/ DashboardClick /\ Clicked
       \/ DashboardStep /\ UNCHANGED clicks
       \/ \E n \in Slots : CallFails(n) /\ UNCHANGED <<clicks, dashboardVars>>
    /\ UNCHANGED page /\ NoDialogChange

-----------------------------------------------------------------------------
(* When nothing loads, the chart shows what was chosen last.  It is blank, *)
(* and never wrong, when the hours were chosen again before the days had   *)
(* come: the canvas is back, but for the effect that draws nothing changed.*)
DashboardChartIsCurrent ==
    page = "dashboard" /\ ~pointsLoading =>
        \/ ChartIsOfChoice
        \/ turnedBack /\ chart = NoChart

DashboardFlagsFall ==
    page = "dashboard" /\ pointsLoading =>
        IF granularity = "day" THEN pointsCall # 0 /\ Is(pointsCall, "points") ELSE InFlight("board")
=============================================================================
