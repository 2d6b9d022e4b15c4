--------------------------- MODULE TimeSeriesChart ---------------------------
(***************************************************************************)
(* The card with the chart of a time series, as the two dashboards use it. *)
(*                                                                         *)
(* While the series loads there is a line of text and no canvas.  The      *)
(* effect that draws does not depend on that flag: it runs when the series *)
(* (another array, whatever is in it), the field or the granularity has    *)
(* changed, and draws if the canvas is there.                              *)
(***************************************************************************)
EXTENDS Browser

VARIABLES
    points,          \* detailSeries: what it is a series of
    pointsLoading,   \* detailSeriesLoading
    pointsCall,      \* the call whose active is still true; 0 is none
    field,           \* detailField
    granularity,     \* detailGranularity
    chart            \* what is drawn on the canvas that is shown

chartVars == <<points, pointsLoading, pointsCall, field, granularity, chart>>

ChartFields == {"requests", "usd"}
Granularities == {"hour", "day"}
NoChart == <<>>
NoPoints == "none"           \* an empty array, made where it is used

(* The chart after a render that leaves the card loading or not.           *)
Drawn(before, loading, changed, of) ==
    IF loading THEN NoChart ELSE IF changed THEN of ELSE before

ChartInit ==
    /\ points = NoPoints /\ pointsLoading = TRUE
    /\ field = "requests" /\ granularity = "hour"
    /\ chart = NoChart

(* The parent's effect asks for a series; the canvas leaves the page.      *)
LoadPoints(others, g) ==
    /\ \E m \in Slots : /\ others[m].op = "idle" /\ \A k \in 1..(m - 1) : others[k].op # "idle"
                        /\ calls' = [others EXCEPT ![m] = Sent("points", g)]
                        /\ pointsCall' = m
    /\ pointsLoading' = TRUE
    /\ chart' = NoChart
    /\ UNCHANGED points

(* Mutant: an answer counts although the effect was cleaned up.            *)
PointsAnsweredAnyway(n, mounted) ==
    /\ Resumes(n, "points")
    /\ points' = IF Ok(n) THEN calls[n].arg ELSE NoPoints
    /\ pointsLoading' = FALSE /\ pointsCall' = 0
    /\ chart' = Drawn(chart, ~mounted, TRUE, <<points', field, granularity>>)
    /\ Finish(n)
    /\ UNCHANGED <<field, granularity>>

(* The answer, or an empty array; mounted: the card is on the page.        *)
PointsAnswered(n, mounted) ==
    /\ Resumes(n, "points")
    /\ IF n = pointsCall
       THEN /\ points' = IF Ok(n) THEN calls[n].arg ELSE NoPoints
            /\ pointsLoading' = FALSE
            /\ pointsCall' = 0
            /\ chart' = Drawn(chart, ~mounted, TRUE, <<points', field, granularity>>)
       ELSE UNCHANGED <<points, pointsLoading, pointsCall, chart>>
    /\ Finish(n)
    /\ UNCHANGED <<field, granularity>>

SetField(f) ==
    /\ f # field
    /\ field' = f
    /\ chart' = Drawn(chart, pointsLoading, TRUE, <<points, f, granularity>>)
    /\ UNCHANGED <<calls, points, pointsLoading, pointsCall, granularity>>

PointsServed(n) == (Waits(n, "points") \/ Waits(n, "board")) /\ Answer(n, <<>>)

(* The chart is of the series, field and granularity chosen last.          *)
ChartIsOfChoice == chart = <<points, field, granularity>> /\ points \in {granularity, NoPoints}
=============================================================================
