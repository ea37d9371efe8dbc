----------------------------- MODULE Dashboards -----------------------------
(***************************************************************************)
(* The Dashboards screen (dashboards/ui): an overview that is asked for    *)
(* again every thirty seconds, and one of its charts with the drag that    *)
(* zooms into it (ui/charts/useChartZoom.ts).                              *)
(*                                                                         *)
(* A series is its length: what is drawn, hovered or selected is counted   *)
(* in points, as in the code. The overview is read table by table and not  *)
(* in one transaction, so a table that is just being rewritten or reset    *)
(* may be empty beside others that are not (api/dashboards_handler.go).    *)
(***************************************************************************)
EXTENDS Integers, Sequences, FiniteSets

CONSTANTS
  Sizes           \* the lengths a series may have

ASSUME DashboardsAssumption == Sizes \subseteq Nat /\ 0 \in Sizes

VARIABLES
  overview,       \* the query: its status, the chart's length, and whether
                  \*   any other Gold table has rows
  chart           \* the chart the user works with

dashVars == <<overview, chart>>

\* Two of the charts the guard of the screen looks at, one it does not, and
\* the one that needs two points to be mounted at all.
Lines == {"daily", "congestion", "models"}
ChartKinds == Lines \cup {"hourly"}

Answers == [st : {"loading", "error", "ok"}, n : Sizes, others : BOOLEAN]
Closed == [st |-> "closed", n |-> 0, others |-> FALSE]

None == <<>>
Unzoomed(kind) == [kind |-> kind, drawn |-> FALSE, dead |-> FALSE, zoom |-> None,
                 drag |-> None, base |-> 0, hover |-> -1]

Smaller(a, b) == IF a <= b THEN a ELSE b
Larger(a, b) == IF a >= b THEN a ELSE b

(***************************************************************************)
(* useChartZoom: the window of points that is drawn.                       *)
(***************************************************************************)

\* Mutant: the window may begin at the last point.
ClampToLast(zoom, n) ==
  IF zoom = None THEN <<0, n - 1>>
  ELSE <<Larger(0, Smaller(zoom[1], n - 1)), Smaller(zoom[2], n - 1)>>

\* The first and the last index that are drawn. Without a zoom it is the whole
\* series; a zoom is cut to the series as it is now.
Clamp(zoom, n) ==
  IF zoom = None THEN <<0, n - 1>>
  ELSE <<Larger(0, Smaller(zoom[1], n - 2)), Smaller(zoom[2], n - 1)>>

Span(w) == Larger(0, w[2] - w[1] + 1)
Window(c, n) == Clamp(c.zoom, n)
Displayed(c, n) == Span(Window(c, n))
Low(range) == Smaller(range[1], range[2])
High(range) == Larger(range[1], range[2])

\* TrendChart's axis: at most six labels, evenly spread and rounded to points.
LabelCount(len) == Smaller(6, len)
LabelIndex(i, len) ==
  (2 * i * (len - 1) + LabelCount(len) - 1) \div (2 * (LabelCount(len) - 1))

(***************************************************************************)
(* A render.                                                               *)
(***************************************************************************)
hasAnyGoldData(o, kind) ==
  o.others \/ (kind \in {"daily", "hourly"} /\ o.n > 0)

\* Is the chart's component part of the screen?
Mounted(o, kind) ==
  /\ o.st = "ok" /\ hasAnyGoldData(o, kind)
  /\ kind = "models" => o.n >= 2

\* What throws: the label of a zoom into nothing; labels spread over a window
\* of one point; and a band dragged over points that are no longer there.
Throws(c, n) ==
  \/ c.zoom # None /\ n = 0
  \/ /\ c.kind \in Lines /\ n >= 2
     /\ \/ Displayed(c, n) < 2
        \/ c.drag # None /\ High(c.drag) >= Displayed(c, n)

\* A chart that is unmounted forgets its zoom. A render that throws takes the
\* screen with it until the page is opened again: there is no error boundary.
Redrawn(c, o) ==
  IF c.dead THEN c
  ELSE IF ~ Mounted(o, c.kind) THEN Unzoomed(c.kind)
  ELSE IF Throws(c, o.n) THEN [c EXCEPT !.drawn = TRUE, !.dead = TRUE]
  ELSE [c EXCEPT !.drawn = TRUE]

Draw(c) == chart' = Redrawn(c, overview)

DashInit == overview = Closed /\ chart = Unzoomed("daily")

\* The screen opens on whatever the query cache still has.
OpenDashboards ==
  /\ overview = Closed
  /\ \E kind \in ChartKinds, o \in Answers :
       overview' = o /\ chart' = Redrawn(Unzoomed(kind), o)

LeaveDashboards ==
  /\ overview # Closed
  /\ overview' = Closed /\ chart' = Unzoomed("daily")

fetchOverview ==
  /\ overview # Closed /\ ~ chart.dead
  /\ \E n \in Sizes, others \in BOOLEAN :
       /\ overview' = [st |-> "ok", n |-> n, others |-> others]
       /\ chart' = Redrawn(chart, overview')

\* After the retry the query is in error, and so is the screen, whatever data
\* it already had.
OverviewFails ==
  /\ overview # Closed /\ ~ chart.dead
  /\ overview' = [overview EXCEPT !.st = "error"]
  /\ chart' = Redrawn(chart, overview')

(***************************************************************************)
(* The pointer. The drag's indices count from the first point drawn.       *)
(***************************************************************************)

\* The chart is more than its line "Not enough data yet."
Drawable == chart.drawn /\ overview.n >= (IF chart.kind \in Lines THEN 2 ELSE 1)
Plotted == Drawable /\ ~ chart.dead
Pointable == 0..(Displayed(chart, overview.n) - 1)

\* The effect that waits for the button to be released keeps the window's
\* start of the render in which the drag last changed.
WithDrag(range) ==
  [chart EXCEPT !.drag = range,
                !.base = IF range = chart.drag THEN @
                         ELSE Window(chart, overview.n)[1]]

MouseDown(k) ==
  /\ Plotted /\ chart.drag = None /\ k \in Pointable
  /\ Draw([WithDrag(<<k, k>>) EXCEPT !.hover = -1])
  /\ UNCHANGED overview

MouseMove(k) ==
  /\ Plotted /\ k \in Pointable
  /\ \/ chart.drag # None /\ Draw(WithDrag(<<chart.drag[1], k>>))
     \/ chart.drag = None /\ Draw([chart EXCEPT !.hover = k])
  /\ UNCHANGED overview

MouseLeave ==
  /\ Plotted /\ chart.drag = None /\ chart.hover # -1
  /\ Draw([chart EXCEPT !.hover = -1])
  /\ UNCHANGED overview

\* Mutant: the selection is taken for one of the whole series.
MouseUpWithoutBase ==
  /\ chart.drawn /\ ~ chart.dead /\ chart.drag # None
  /\ LET taken == [chart EXCEPT !.drag = None, !.base = 0]
     IN  IF Low(chart.drag) = High(chart.drag) THEN Draw(taken)
         ELSE Draw([taken EXCEPT !.zoom = <<Low(chart.drag), High(chart.drag)>>])
  /\ UNCHANGED overview

\* The button is released anywhere in the window. A drag over one point is a
\* click and selects nothing.
MouseUp ==
  /\ chart.drawn /\ ~ chart.dead /\ chart.drag # None
  /\ LET taken == [chart EXCEPT !.drag = None, !.base = 0]
     IN  IF Low(chart.drag) = High(chart.drag) THEN Draw(taken)
         ELSE Draw([taken EXCEPT !.zoom = <<chart.base + Low(chart.drag),
                                            chart.base + High(chart.drag)>>])
  /\ UNCHANGED overview

ResetZoom ==
  /\ Plotted /\ chart.drag = None /\ chart.zoom # None
  /\ Draw([chart EXCEPT !.zoom = None])
  /\ UNCHANGED overview

DashStep ==
  \/ fetchOverview \/ OverviewFails
  \/ \E k \in Pointable : MouseDown(k) \/ MouseMove(k)
  \/ MouseLeave \/ MouseUp \/ ResetZoom

DashNext == OpenDashboards \/ LeaveDashboards \/ DashStep
DashSpec == DashInit /\ [][DashNext]_dashVars

(***************************************************************************)
(* Properties.                                                             *)
(***************************************************************************)
DashTypeOK ==
  /\ overview \in Answers \cup {Closed}
  /\ chart.kind \in ChartKinds /\ chart.drawn \in BOOLEAN
  /\ chart.dead \in BOOLEAN
  /\ chart.zoom = None \/ chart.zoom \in Nat \X Nat
  /\ chart.drag = None \/ chart.drag \in Nat \X Nat
  /\ chart.base \in Nat /\ chart.hover \in Nat \cup {-1}
  /\ chart.drawn => Mounted(overview, chart.kind)

\* However often the series was zoomed into, grew, shrank or was rewritten in
\* between, a plotted line has a window of at least two of its points, so that
\* its axis has labels: they begin at the first point, end at the last and
\* none is repeated (useChartZoom.ts:17-21, TrendChart.tsx:117-122).
WindowHolds ==
  Drawable /\ chart.kind \in Lines =>
    LET w == Window(chart, overview.n)
        len == Displayed(chart, overview.n)
    IN  /\ 0 <= w[1] /\ w[1] < w[2] /\ w[2] < overview.n
        /\ LabelIndex(0, len) = 0
        /\ LabelIndex(LabelCount(len) - 1, len) = len - 1
        /\ \A i \in 1..(LabelCount(len) - 1) :
             LabelIndex(i - 1, len) < LabelIndex(i, len)

\* Releasing the button over a selection shows the points that were under the
\* band, also inside a window that is already zoomed, unless the series was
\* refetched since the band was last moved (useChartZoom.ts:35-51).
ZoomIsSelection ==
  [][LET w == Window(chart, overview.n)
     IN  /\ Plotted /\ chart.drag # None /\ chart'.drag = None
         /\ overview' = overview
         /\ Low(chart.drag) # High(chart.drag)
         /\ chart.base = w[1] /\ High(chart.drag) < Displayed(chart, overview.n)
         => Window(chart', overview.n)
              = <<w[1] + Low(chart.drag), w[1] + High(chart.drag)>>]_dashVars
=============================================================================
