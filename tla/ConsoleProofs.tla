---------------------------- MODULE ConsoleProofs ----------------------------
(***************************************************************************)
(* What holds of the console for any series, queries, services and search  *)
(* lists. First each screen by itself: the Dashboards, the Infrastructure  *)
(* screen, the SQL editor and the catalog. A screen of the console behaves *)
(* as its module says, so what is proved of a screen alone carries over;   *)
(* the editor needs to know that a search result carries one of its texts. *)
(* Where a search result lands is proved here, and that only the screen    *)
(* that is shown has a state.                                              *)
(***************************************************************************)
EXTENDS Console, SequenceTheorems, TLAPS

(***************************************************************************)
(* For series of any length: a plotted line never loses its window, and a  *)
(* selection shows what was selected. Both follow from what is kept of a   *)
(* chart, DashInv: a zoom has its ends in order, a drag and its base are   *)
(* indices, and a chart that is drawn is part of the screen.               *)
(***************************************************************************)
Zooms == {None} \cup {z \in Nat \X Nat : z[1] < z[2]}
Drags == {None} \cup (Nat \X Nat)

Charts == [kind : ChartKinds, drawn : BOOLEAN, dead : BOOLEAN, zoom : Zooms,
           drag : Drags, base : Nat, hover : Nat \cup {-1}]

DashInv ==
  /\ overview \in Answers \cup {Closed}
  /\ chart \in Charts
  /\ chart.drawn => Mounted(overview, chart.kind)

-----------------------------------------------------------------------------
(***************************************************************************)
(* The window and the labels.                                              *)
(***************************************************************************)

\* Whatever is known of a series, n is a number of points.
LEMMA SizeIsNat ==
  ASSUME NEW o \in Answers \cup {Closed} PROVE o.n \in Nat
<1>1. Sizes \subseteq Nat
  BY DashboardsAssumption DEF DashboardsAssumption
<1>2. CASE o \in Answers
  BY <1>1, <1>2 DEF Answers
<1>3. CASE o = Closed
  BY <1>3 DEF Closed
<1> QED
  BY <1>2, <1>3

\* A zoom cut to a series of two points or more keeps two of them.
LEMMA ClampKeepsTwo ==
  ASSUME NEW z \in Zooms, NEW n \in Nat, n >= 2
  PROVE  /\ Clamp(z, n)[1] \in Int /\ Clamp(z, n)[2] \in Int
         /\ 0 <= Clamp(z, n)[1] /\ Clamp(z, n)[1] < Clamp(z, n)[2]
         /\ Clamp(z, n)[2] < n
BY DEF Zooms, Clamp, Larger, Smaller

LEMMA WindowStartIsNat ==
  ASSUME NEW c \in Charts, NEW n \in Nat
  PROVE  /\ Window(c, n)[1] \in Nat /\ Window(c, n)[2] \in Int
         /\ Displayed(c, n) \in Nat
BY DEF Charts, Zooms, Displayed, Span, Window, Clamp, Larger, Smaller

\* The labels of an axis over two or more points begin at the first, end at the
\* last, and none is repeated.
LEMMA LabelsSpread ==
  ASSUME NEW len \in Nat, len >= 2
  PROVE  /\ LabelIndex(0, len) = 0
         /\ LabelIndex(LabelCount(len) - 1, len) = len - 1
         /\ \A i \in 1..(LabelCount(len) - 1) :
              LabelIndex(i - 1, len) < LabelIndex(i, len)
<1>1. CASE len = 2
  BY <1>1 DEF LabelIndex, LabelCount, Smaller
<1>2. CASE len = 3
  BY <1>2 DEF LabelIndex, LabelCount, Smaller
<1>3. CASE len = 4
  BY <1>3 DEF LabelIndex, LabelCount, Smaller
<1>4. CASE len = 5
  BY <1>4 DEF LabelIndex, LabelCount, Smaller
<1>5. CASE len >= 6
  <2>1. /\ LabelCount(len) = 6
        /\ \A i \in 0..5 : LabelIndex(i, len) = (2 * i * (len - 1) + 5) \div 10
    BY <1>5 DEF LabelIndex, LabelCount, Smaller
  <2>2. /\ LabelIndex(0, len) = 0
        /\ LabelIndex(1, len) = (2 * (len - 1) + 5) \div 10
        /\ LabelIndex(2, len) = (4 * (len - 1) + 5) \div 10
        /\ LabelIndex(3, len) = (6 * (len - 1) + 5) \div 10
        /\ LabelIndex(4, len) = (8 * (len - 1) + 5) \div 10
        /\ LabelIndex(5, len) = len - 1
    BY <2>1
  <2>3. \A i \in 1..5 : LabelIndex(i - 1, len) < LabelIndex(i, len)
    BY <1>5, <2>2
  <2> QED
    BY <2>1, <2>2, <2>3
<1> QED
  BY <1>1, <1>2, <1>3, <1>4, <1>5
-----------------------------------------------------------------------------
(***************************************************************************)
(* DashInv is inductive.                                                   *)
(***************************************************************************)
LEMMA UnzoomedIsChart ==
  ASSUME NEW kind \in ChartKinds PROVE Unzoomed(kind) \in Charts
BY DEF Unzoomed, Charts, Zooms, Drags, None

\* A render keeps a chart a chart, and draws it only where it is mounted.
LEMMA RedrawnIsChart ==
  ASSUME NEW c \in Charts, NEW o \in Answers \cup {Closed},
         c.dead => (c.drawn => Mounted(o, c.kind))
  PROVE  /\ Redrawn(c, o) \in Charts
         /\ Redrawn(c, o).drawn => Mounted(o, Redrawn(c, o).kind)
<1>1. CASE c.dead
  BY <1>1 DEF Redrawn
<1>2. CASE ~ c.dead /\ ~ Mounted(o, c.kind)
  <2>1. Unzoomed(c.kind) \in Charts /\ ~ Unzoomed(c.kind).drawn
    BY UnzoomedIsChart DEF Charts, Unzoomed
  <2> QED
    BY <1>2, <2>1 DEF Redrawn
<1>3. CASE ~ c.dead /\ Mounted(o, c.kind)
  BY <1>3 DEF Redrawn, Charts
<1> QED
  BY <1>1, <1>2, <1>3

LEMMA WithDragIsChart ==
  ASSUME DashInv, NEW range \in Nat \X Nat
  PROVE  /\ WithDrag(range) \in Charts
         /\ WithDrag(range).dead = chart.dead
         /\ WithDrag(range).drawn = chart.drawn
         /\ WithDrag(range).kind = chart.kind
         /\ WithDrag(range).drag = range
BY SizeIsNat, WindowStartIsNat DEF DashInv, WithDrag, Charts, Drags

LEMMA DashInvInit == DashInit => DashInv
BY UnzoomedIsChart DEF DashInit, DashInv, Unzoomed, ChartKinds, Lines

LEMMA DashInvStep == DashInv /\ [DashNext]_dashVars => DashInv'
<1> SUFFICES ASSUME DashInv, [DashNext]_dashVars PROVE DashInv'
  OBVIOUS
<1> USE DEF DashInv
<1>1. overview.n \in Nat
  BY SizeIsNat
<1>2. CASE OpenDashboards
  <2>1. PICK kind \in ChartKinds, o \in Answers :
          overview' = o /\ chart' = Redrawn(Unzoomed(kind), o)
    BY <1>2 DEF OpenDashboards
  <2>2. Unzoomed(kind) \in Charts /\ ~ Unzoomed(kind).drawn
    BY UnzoomedIsChart DEF Charts, Unzoomed
  <2> QED
    BY <2>1, <2>2, RedrawnIsChart
<1>3. CASE LeaveDashboards
  <2>1. Unzoomed("daily") \in Charts /\ ~ Unzoomed("daily").drawn
    BY UnzoomedIsChart DEF Charts, Unzoomed, ChartKinds, Lines
  <2> QED
    BY <1>3, <2>1 DEF LeaveDashboards
<1>4. CASE fetchOverview
  <2>1. /\ overview' \in Answers
        /\ ~ chart.dead /\ chart' = Redrawn(chart, overview')
    BY <1>4 DEF fetchOverview, Answers
  <2> QED
    BY <2>1, RedrawnIsChart
<1>5. CASE OverviewFails
  <2>1. /\ overview' \in Answers
        /\ ~ chart.dead /\ chart' = Redrawn(chart, overview')
    BY <1>5 DEF OverviewFails, Answers, Closed
  <2> QED
    BY <2>1, RedrawnIsChart
<1>6. ASSUME NEW c \in Charts, c.dead = chart.dead, c.drawn = chart.drawn,
             c.kind = chart.kind, Draw(c), UNCHANGED overview
      PROVE  DashInv'
  BY <1>6, RedrawnIsChart DEF Draw
<1>7. CASE \E k \in Pointable : MouseDown(k) \/ MouseMove(k)
  <2>1. PICK k \in Pointable : MouseDown(k) \/ MouseMove(k)
    BY <1>7
  <2>2. k \in Nat
    BY DEF Pointable
  <2>3. \A range \in Nat \X Nat :
          /\ WithDrag(range) \in Charts
          /\ WithDrag(range).dead = chart.dead
          /\ WithDrag(range).drawn = chart.drawn
          /\ WithDrag(range).kind = chart.kind
    BY WithDragIsChart
  <2>4. CASE MouseDown(k)
    <3> DEFINE c == [WithDrag(<<k, k>>) EXCEPT !.hover = -1]
    <3>1. /\ c \in Charts /\ c.dead = chart.dead
          /\ c.drawn = chart.drawn /\ c.kind = chart.kind
      BY <2>2, <2>3 DEF Charts
    <3> HIDE DEF c
    <3> QED
      BY <1>6, <2>4, <3>1 DEF MouseDown, c
  <2>5. CASE MouseMove(k) /\ chart.drag # None
    <3>1. <<chart.drag[1], k>> \in Nat \X Nat
      BY <2>2, <2>5 DEF Charts, Drags
    <3> QED
      BY <1>6, <2>3, <2>5, <3>1 DEF MouseMove
  <2>6. CASE MouseMove(k) /\ chart.drag = None
    <3>1. [chart EXCEPT !.hover = k] \in Charts
      BY <2>2 DEF Charts
    <3> QED
      BY <1>6, <2>6, <3>1 DEF MouseMove, Charts
  <2> QED
    BY <2>1, <2>4, <2>5, <2>6
<1>8. CASE MouseLeave
  <2>1. [chart EXCEPT !.hover = -1] \in Charts
    BY DEF Charts
  <2> QED
    BY <1>6, <1>8, <2>1 DEF MouseLeave, Charts
<1>9. CASE MouseUp
  <2> DEFINE taken == [chart EXCEPT !.drag = None, !.base = 0]
             zoomed == [taken EXCEPT !.zoom = <<chart.base + Low(chart.drag),
                                               chart.base + High(chart.drag)>>]
  <2>1. /\ taken \in Charts /\ taken.dead = chart.dead
        /\ taken.drawn = chart.drawn /\ taken.kind = chart.kind
    BY DEF Charts, Drags
  <2>2. CASE Low(chart.drag) = High(chart.drag)
    BY <1>6, <1>9, <2>1, <2>2 DEF MouseUp
  <2>3. CASE Low(chart.drag) # High(chart.drag)
    <3>1. /\ Low(chart.drag) \in Nat /\ High(chart.drag) \in Nat
          /\ Low(chart.drag) < High(chart.drag)
      BY <1>9, <2>3 DEF MouseUp, Charts, Drags, Low, High, Smaller, Larger
    <3>2. <<chart.base + Low(chart.drag), chart.base + High(chart.drag)>> \in Zooms
      <4>1. chart.base \in Nat
        BY DEF Charts
      <4> QED
        BY <3>1, <4>1 DEF Zooms
    <3>3. /\ zoomed \in Charts /\ zoomed.dead = chart.dead
          /\ zoomed.drawn = chart.drawn /\ zoomed.kind = chart.kind
      BY <2>1, <3>2 DEF Charts
    <3>4. Draw(zoomed) /\ UNCHANGED overview
      BY <1>9, <2>3 DEF MouseUp
    <3> HIDE DEF zoomed
    <3> QED
      BY <1>6, <3>3, <3>4
  <2> QED
    BY <2>2, <2>3
<1>10. CASE ResetZoom
  <2>1. [chart EXCEPT !.zoom = None] \in Charts
    BY DEF Charts, Zooms
  <2> QED
    BY <1>6, <1>10, <2>1 DEF ResetZoom, Charts
<1>11. CASE UNCHANGED dashVars
  BY <1>11 DEF dashVars, Mounted, hasAnyGoldData
<1> QED
  BY <1>2, <1>3, <1>4, <1>5, <1>7, <1>8, <1>9, <1>10, <1>11
     DEF DashNext, DashStep
-----------------------------------------------------------------------------
(***************************************************************************)
(* What follows.                                                           *)
(***************************************************************************)
THEOREM DashInvariant == DashSpec => []DashInv
BY DashInvInit, DashInvStep, PTL DEF DashSpec

LEMMA DashInvWindow == DashInv => WindowHolds
<1> SUFFICES ASSUME DashInv, Drawable, chart.kind \in Lines
             PROVE  LET w == Window(chart, overview.n)
                        len == Displayed(chart, overview.n)
                    IN  /\ 0 <= w[1] /\ w[1] < w[2] /\ w[2] < overview.n
                        /\ LabelIndex(0, len) = 0
                        /\ LabelIndex(LabelCount(len) - 1, len) = len - 1
                        /\ \A i \in 1..(LabelCount(len) - 1) :
                             LabelIndex(i - 1, len) < LabelIndex(i, len)
  BY DEF WindowHolds
<1> DEFINE w == Window(chart, overview.n)
           len == Displayed(chart, overview.n)
<1>1. overview.n \in Nat /\ overview.n >= 2 /\ chart.zoom \in Zooms
  BY SizeIsNat DEF DashInv, Drawable, Charts
<1>2. /\ w[1] \in Int /\ w[2] \in Int
      /\ 0 <= w[1] /\ w[1] < w[2] /\ w[2] < overview.n
  BY <1>1, ClampKeepsTwo DEF Window
<1>3. len \in Nat /\ len >= 2
  BY <1>2 DEF Displayed, Span, Larger
<1> HIDE DEF w, len
<1>4. /\ LabelIndex(0, len) = 0
      /\ LabelIndex(LabelCount(len) - 1, len) = len - 1
      /\ \A i \in 1..(LabelCount(len) - 1) :
           LabelIndex(i - 1, len) < LabelIndex(i, len)
  BY <1>3, LabelsSpread
<1> QED
  BY <1>2, <1>4 DEF w, len

\* A plotted line has a window of at least two of its points, and an axis whose
\* labels are in order, however the series changes under the zoom
\* (useChartZoom.ts:17-21, TrendChart.tsx:117-122).
THEOREM LineKeepsItsWindow == DashSpec => []WindowHolds
BY DashInvariant, DashInvWindow, PTL
-----------------------------------------------------------------------------
(***************************************************************************)
(* The selection. A drag ends only where the button is released, for the   *)
(* other steps keep a drawn chart drawn or change the overview.            *)
(***************************************************************************)
Released ==
  /\ Plotted /\ chart.drag # None /\ chart'.drag = None /\ overview' = overview

LEMMA OnlyMouseUpReleases ==
  ASSUME DashInv, [DashNext]_dashVars, Released PROVE MouseUp
<1> USE DEF DashInv, Released
<1>1. /\ Mounted(overview, chart.kind) /\ chart.drawn /\ ~ chart.dead
  BY DEF Plotted, Drawable
<1>2. ASSUME NEW c \in Charts, c.dead = chart.dead, c.kind = chart.kind,
             chart' = Redrawn(c, overview)
      PROVE  c.drag = None
  BY <1>1, <1>2 DEF Redrawn, Charts
<1>3. ~ OpenDashboards /\ ~ LeaveDashboards
  BY <1>1 DEF OpenDashboards, LeaveDashboards, Mounted, Closed
<1>4. ~ fetchOverview
  BY <1>2 DEF fetchOverview
<1>5. ~ OverviewFails
  BY <1>2 DEF OverviewFails
<1>6. ASSUME NEW k \in Pointable, MouseDown(k) \/ MouseMove(k)
      PROVE  FALSE
  <2>1. MouseMove(k)
    BY <1>6 DEF MouseDown
  <2>2. <<chart.drag[1], k>> \in Nat \X Nat
    BY <2>1 DEF Charts, Drags, Pointable
  <2>3. chart' = Redrawn(WithDrag(<<chart.drag[1], k>>), overview)
    BY <2>1 DEF MouseMove, Draw
  <2>4. <<chart.drag[1], k>> = None
    BY <1>2, <2>2, <2>3, WithDragIsChart
  <2> QED
    BY <2>2, <2>4 DEF None
<1>7. ~ MouseLeave /\ ~ ResetZoom
  BY DEF MouseLeave, ResetZoom
<1>8. ~ UNCHANGED dashVars
  BY DEF dashVars
<1> QED
  BY <1>3, <1>4, <1>5, <1>6, <1>7, <1>8 DEF DashNext, DashStep

LEMMA SelectionStep ==
  ASSUME DashInv, MouseUp, Released, Low(chart.drag) # High(chart.drag),
         chart.base = Window(chart, overview.n)[1],
         High(chart.drag) < Displayed(chart, overview.n)
  PROVE  Window(chart', overview.n) = <<chart.base + Low(chart.drag),
                                        chart.base + High(chart.drag)>>
<1> USE DEF DashInv
<1> DEFINE lo == chart.base + Low(chart.drag)
           hi == chart.base + High(chart.drag)
<1>1. /\ Mounted(overview, chart.kind) /\ ~ chart.dead
      /\ chart.base \in Nat /\ overview.n \in Nat
  BY SizeIsNat DEF Released, Plotted, Drawable, Charts
<1>2. chart'.zoom = <<lo, hi>>
  BY <1>1 DEF MouseUp, Draw, Redrawn, Charts
<1>3. /\ Low(chart.drag) \in Nat /\ High(chart.drag) \in Nat
      /\ Low(chart.drag) < High(chart.drag)
  BY DEF Released, Charts, Drags, Low, High, Smaller, Larger
<1>4. hi <= overview.n - 1
  <2>1. /\ Window(chart, overview.n)[1] \in Nat
        /\ Window(chart, overview.n)[2] \in Int
        /\ Window(chart, overview.n)[2] <= overview.n - 1
    BY <1>1, WindowStartIsNat
       DEF Window, Clamp, Charts, Zooms, Smaller
  <2> QED
    BY <1>1, <1>3, <2>1 DEF Displayed, Span, Larger
<1>5. lo \in Nat /\ hi \in Nat /\ lo < hi
  BY <1>1, <1>3
<1>6. <<lo, hi>> # None
  BY DEF None
<1> HIDE DEF lo, hi
<1>7. Clamp(<<lo, hi>>, overview.n) = <<lo, hi>>
  BY <1>1, <1>4, <1>5, <1>6 DEF Clamp, Larger, Smaller
<1> QED
  BY <1>2, <1>7 DEF Window, lo, hi

\* Releasing the button shows exactly the points under the band
\* (useChartZoom.ts:35-51).
THEOREM ZoomShowsSelection == DashSpec => ZoomIsSelection
<1>1. DashInv /\ [DashNext]_dashVars =>
        [LET w == Window(chart, overview.n)
         IN  /\ Plotted /\ chart.drag # None /\ chart'.drag = None
             /\ overview' = overview
             /\ Low(chart.drag) # High(chart.drag)
             /\ chart.base = w[1] /\ High(chart.drag) < Displayed(chart, overview.n)
             => Window(chart', overview.n)
                  = <<w[1] + Low(chart.drag), w[1] + High(chart.drag)>>]_dashVars
  BY OnlyMouseUpReleases, SelectionStep DEF Released
<1> QED
  BY <1>1, DashInvariant, PTL DEF DashSpec, ZoomIsSelection

-----------------------------------------------------------------------------
(***************************************************************************)
(* For any services and any number of actions: a row of the screen never   *)
(* falls back behind the answer of its last action. Every look that may    *)
(* still reach the screen is at least as new as what the row has seen: an  *)
(* answer under way began after the last action was settled, because       *)
(* settling gives up the fetch of its time.                                *)
(***************************************************************************)
\* No look of s that is still to arrive is older than the last one accepted,
\* and none is newer than the container.
Ordered(s) ==
  /\ buttons[s].is = "asked" => docker[s].at < MaxActions
  /\ buttons[s].seen <= docker[s].at
  /\ InfraUp => buttons[s].seen <= health.shown[s].at
  /\ health.fetch.is = "asked" /\ s \notin health.fetch.left =>
       buttons[s].seen <= health.fetch.look[s].at
  /\ buttons[s].is = "read" =>
       /\ buttons[s].seen <= buttons[s].look.at
       /\ buttons[s].look.at <= docker[s].at

InfraInv ==
  /\ InfraTypeOK
  /\ ~ InfraUp => buttons = Rest
  /\ \A s \in Services : Ordered(s)

LEMMA NatBound == MaxActions \in Nat /\ 0 \in 0..MaxActions
BY InfrastructureAssumption DEF InfrastructureAssumption

LEMMA UnseenIsLook == Down \in Look /\ Unseen \in Looks
BY NatBound DEF Down, Look, Unseen, Looks, Conditions

LEMMA FetchIsTyped ==
  /\ NoAnswer \in Fetch /\ NoAnswer.is = "none"
  /\ Asked \in Fetch /\ Asked.left = Services
BY UnseenIsLook DEF NoAnswer, Asked, Fetch

LEMMA RestIsTyped ==
  /\ Rest \in [Services -> [is : {"idle", "asked", "done", "read"}, look : Look,
                            action : Actions, seen : 0..MaxActions]]
  /\ \A s \in Services : Rest[s].is = "idle" /\ Rest[s].seen = 0
BY NatBound, UnseenIsLook DEF Rest, Idle, Actions

LEMMA InfraInitInv == InfraInit => InfraInv
<1> SUFFICES ASSUME InfraInit PROVE InfraInv
  OBVIOUS
<1>1. InfraTypeOK
  BY UnseenIsLook, FetchIsTyped, RestIsTyped DEF InfraInit, InfraTypeOK, HealthClosed
<1>2. ASSUME NEW s \in Services PROVE Ordered(s)
  <2>1. docker[s].at = 0 /\ buttons[s].is = "idle" /\ buttons[s].seen = 0
    BY RestIsTyped DEF InfraInit, Unseen, Down
  <2>2. health.st = "closed" /\ health.fetch.is = "none"
    BY DEF InfraInit, HealthClosed, NoAnswer
  <2> QED
    BY <2>1, <2>2 DEF Ordered, InfraUp
<1> QED
  BY <1>1, <1>2 DEF InfraInv, InfraInit

-----------------------------------------------------------------------------
(***************************************************************************)
(* A visit begins and ends.                                                *)
(***************************************************************************)
LEMMA OpenKeepsInv == InfraInv /\ OpenInfrastructure => InfraInv'
<1> SUFFICES ASSUME InfraInv, OpenInfrastructure PROVE InfraInv'
  OBVIOUS
<1>1. docker' \in Looks /\ \A s \in Services : docker'[s].at = 0
  BY DEF OpenInfrastructure, States
<1>2. /\ health' \in [st : {"loading", "ok"}, shown : Looks,
                      fetch : {NoAnswer}]
      /\ buttons' = Rest
  BY UnseenIsLook DEF OpenInfrastructure, States, HealthClosed
<1>3. InfraTypeOK'
  BY <1>1, <1>2, RestIsTyped, FetchIsTyped DEF InfraTypeOK
<1>4. ASSUME NEW s \in Services PROVE Ordered(s)'
  <2>1. health'.shown[s].at \in Nat /\ health'.fetch.is = "none"
    BY <1>2, NatBound DEF Looks, Look, NoAnswer
  <2> QED
    BY <1>1, <1>2, <2>1, RestIsTyped DEF Ordered, InfraUp
<1> QED
  BY <1>2, <1>3, <1>4 DEF InfraInv

LEMMA LeaveKeepsInv == InfraInv /\ LeaveInfrastructure => InfraInv'
<1> SUFFICES ASSUME InfraInv, LeaveInfrastructure PROVE InfraInv'
  OBVIOUS
<1>1. docker' = Unseen /\ health' = HealthClosed /\ buttons' = Rest
  BY DEF LeaveInfrastructure
<1>2. InfraTypeOK'
  BY <1>1, UnseenIsLook, FetchIsTyped, RestIsTyped DEF InfraTypeOK, HealthClosed
<1>3. ASSUME NEW s \in Services PROVE Ordered(s)'
  <2>1. docker'[s].at = 0 /\ buttons'[s].is = "idle" /\ buttons'[s].seen = 0
    BY <1>1, RestIsTyped DEF Unseen, Down
  <2>2. health'.st = "closed" /\ health'.fetch.is = "none"
    BY <1>1 DEF HealthClosed, NoAnswer
  <2> QED
    BY <2>1, <2>2 DEF Ordered, InfraUp
<1> QED
  BY <1>1, <1>2, <1>3 DEF InfraInv

-----------------------------------------------------------------------------
(***************************************************************************)
(* The poll. It only moves looks, and a look it takes is of a container no *)
(* older than what its row has seen.                                       *)
(***************************************************************************)
LEMMA PollKeepsInv ==
  InfraInv /\ (fetchSummary \/ SummaryArrives \/ SummaryFails) => InfraInv'
<1> SUFFICES ASSUME InfraInv, fetchSummary \/ SummaryArrives \/ SummaryFails
             PROVE  InfraInv'
  OBVIOUS
<1>1. /\ docker' = docker /\ buttons' = buttons /\ InfraUp
      /\ InfraTypeOK /\ \A s \in Services : Ordered(s)
  BY DEF fetchSummary, SummaryArrives, SummaryFails, InfraInv
<1>2. CASE fetchSummary
  <2>1. health' \in [st : {health.st}, shown : {health.shown}, fetch : {Asked}]
    BY <1>1, <1>2 DEF fetchSummary, InfraTypeOK
  <2>2. InfraTypeOK' /\ InfraUp'
    BY <1>1, <2>1, FetchIsTyped DEF InfraTypeOK, InfraUp
  <2>3. ASSUME NEW s \in Services PROVE Ordered(s)'
    BY <1>1, <2>1, FetchIsTyped DEF Ordered
  <2> QED
    BY <2>2, <2>3 DEF InfraInv
<1>3. CASE SummaryArrives
  <2>1. /\ health.fetch.is = "asked" /\ health.fetch.left = {}
        /\ health' = [st |-> "ok", shown |-> health.fetch.look, fetch |-> NoAnswer]
    BY <1>3 DEF SummaryArrives
  <2>2. InfraTypeOK' /\ InfraUp'
    BY <1>1, <2>1, FetchIsTyped DEF InfraTypeOK, InfraUp, Fetch
  <2>3. ASSUME NEW s \in Services PROVE Ordered(s)'
    BY <1>1, <2>1, FetchIsTyped DEF Ordered
  <2> QED
    BY <2>2, <2>3 DEF InfraInv
<1>4. CASE SummaryFails
  <2>1. health' \in [st : {"loading", "error", "ok"}, shown : {health.shown},
                     fetch : {NoAnswer}]
    BY <1>1, <1>4 DEF SummaryFails, InfraTypeOK, InfraUp
  <2>2. InfraTypeOK' /\ InfraUp'
    BY <1>1, <2>1, FetchIsTyped DEF InfraTypeOK, InfraUp
  <2>3. ASSUME NEW s \in Services PROVE Ordered(s)'
    BY <1>1, <2>1, FetchIsTyped DEF Ordered
  <2> QED
    BY <2>2, <2>3 DEF InfraInv
<1> QED
  BY <1>2, <1>3, <1>4

\* A look the poll takes is as new as the container.
LEMMA CheckNextKeepsInv ==
  ASSUME InfraInv, NEW s \in Services, CheckNext(s) PROVE InfraInv'
<1>1. /\ docker' = docker /\ buttons' = buttons /\ InfraUp
      /\ InfraTypeOK /\ \A t \in Services : Ordered(t)
  BY DEF CheckNext, InfraInv
<1>2. PICK look \in Inspected(docker[s]) :
        health' = [health EXCEPT !.fetch.left = @ \ {s}, !.fetch.look[s] = look]
  BY DEF CheckNext
<1>3. /\ docker[s] \in Look /\ health.fetch \in Fetch
      /\ health.fetch.look \in [Services -> Look]
  BY <1>1 DEF InfraTypeOK, Looks, Fetch
<1>4. look \in Look /\ look.at = docker[s].at
  BY <1>3 DEF Inspected, Look, Conditions
<1>5. /\ health'.st = health.st /\ health'.shown = health.shown
      /\ health'.fetch.is = health.fetch.is
      /\ health'.fetch.left = health.fetch.left \ {s}
      /\ health'.fetch.look = [health.fetch.look EXCEPT ![s] = look]
      /\ health' \in [st : {health.st}, shown : {health.shown}, fetch : Fetch]
  BY <1>1, <1>2, <1>3, <1>4 DEF InfraTypeOK, Fetch, Looks
<1>6. InfraTypeOK' /\ InfraUp'
  BY <1>1, <1>5 DEF InfraTypeOK, InfraUp
<1>7. ASSUME NEW t \in Services PROVE Ordered(t)'
  <2>1. CASE t = s
    BY <1>1, <1>3, <1>4, <1>5, <2>1 DEF Ordered, InfraUp
  <2>2. CASE t # s
    BY <1>1, <1>3, <1>5, <2>2 DEF Ordered, InfraUp
  <2> QED
    BY <2>1, <2>2
<1> QED
  BY <1>6, <1>7 DEF InfraInv

-----------------------------------------------------------------------------
(***************************************************************************)
(* The buttons. The row of s changes, the others keep what they had.       *)
(***************************************************************************)
Button == [is : {"idle", "asked", "done", "read"}, look : Look,
           action : Actions, seen : 0..MaxActions]

LEMMA PressKeepsInv ==
  ASSUME InfraInv, NEW s \in Services, NEW action \in Actions, Press(s, action)
  PROVE  InfraInv'
<1>1. /\ docker' = docker /\ health' = health /\ InfraUp
      /\ docker[s].at < MaxActions /\ buttons[s].is = "idle"
      /\ InfraTypeOK /\ \A t \in Services : Ordered(t)
  BY DEF Press, InfraInv
<1>2. buttons' = [buttons EXCEPT ![s].is = "asked", ![s].action = action]
  BY DEF Press
<1>3. buttons \in [Services -> Button] /\ buttons[s] \in Button
  BY <1>1 DEF InfraTypeOK, Button
<1>4. /\ buttons' \in [Services -> Button]
      /\ \A t \in Services \ {s} : buttons'[t] = buttons[t]
      /\ buttons'[s].is = "asked" /\ buttons'[s].seen = buttons[s].seen
  BY <1>2, <1>3 DEF Button
<1>5. InfraTypeOK' /\ InfraUp'
  BY <1>1, <1>4 DEF InfraTypeOK, Button, InfraUp
<1>6. ASSUME NEW t \in Services PROVE Ordered(t)'
  <2>1. CASE t = s
    BY <1>1, <1>4, <2>1 DEF Ordered, InfraUp
  <2>2. CASE t # s
    BY <1>1, <1>4, <2>2 DEF Ordered, InfraUp
  <2> QED
    BY <2>1, <2>2
<1> QED
  BY <1>5, <1>6 DEF InfraInv

LEMMA PerformKeepsInv ==
  ASSUME InfraInv, NEW s \in Services, perform(s) PROVE InfraInv'
<1>1. /\ health' = health /\ buttons[s].is = "asked"
      /\ InfraTypeOK /\ \A t \in Services : Ordered(t)
  BY DEF perform, InfraInv
<1>2. InfraUp
  BY <1>1, RestIsTyped DEF InfraInv
<1>3. PICK is \in Conditions :
        docker' = [docker EXCEPT ![s] = [is |-> is, at |-> @.at + 1]]
  BY DEF perform
<1>4. buttons' = [buttons EXCEPT ![s].is = "done"]
  BY DEF perform
<1>5. /\ buttons \in [Services -> Button] /\ buttons[s] \in Button
      /\ docker \in [Services -> Look] /\ docker[s] \in Look
  BY <1>1 DEF InfraTypeOK, Button, Looks
<1>6. /\ docker[s].at \in Nat /\ docker[s].at < MaxActions /\ MaxActions \in Nat
      /\ buttons[s].seen \in Nat
  BY <1>1, <1>5, NatBound DEF Ordered, Look, Button
<1>7. /\ docker'[s] = [is |-> is, at |-> docker[s].at + 1]
      /\ docker'[s] \in Look
      /\ docker' \in [Services -> Look]
      /\ \A t \in Services \ {s} : docker'[t] = docker[t]
  <2>1. [is |-> is, at |-> docker[s].at + 1] \in Look
    BY <1>6 DEF Look
  <2> QED
    BY <1>3, <1>5, <2>1
<1>8. /\ buttons' \in [Services -> Button]
      /\ \A t \in Services \ {s} : buttons'[t] = buttons[t]
      /\ buttons'[s].is = "done" /\ buttons'[s].seen = buttons[s].seen
  BY <1>4, <1>5 DEF Button
<1>9. InfraTypeOK' /\ InfraUp'
  BY <1>1, <1>2, <1>7, <1>8 DEF InfraTypeOK, Button, Looks, InfraUp
<1>10. ASSUME NEW t \in Services PROVE Ordered(t)'
  <2>1. CASE t = s
    BY <1>1, <1>2, <1>6, <1>7, <1>8, <2>1 DEF Ordered, InfraUp
  <2>2. CASE t # s
    BY <1>1, <1>2, <1>7, <1>8, <2>2 DEF Ordered, InfraUp
  <2> QED
    BY <2>1, <2>2
<1> QED
  BY <1>9, <1>10 DEF InfraInv

\* A look taken now is as new as the container.
LEMMA CheckKeepsInv ==
  ASSUME InfraInv, NEW s \in Services, CheckOne(s) PROVE InfraInv'
<1>1. /\ health' = health /\ docker' = docker /\ buttons[s].is = "done"
      /\ InfraTypeOK /\ \A t \in Services : Ordered(t)
  BY DEF CheckOne, InfraInv
<1>2. InfraUp
  BY <1>1, RestIsTyped DEF InfraInv
<1>3. PICK look \in Inspected(docker[s]) :
        buttons' = [buttons EXCEPT ![s].is = "read", ![s].look = look]
  BY DEF CheckOne
<1>4. /\ buttons \in [Services -> Button] /\ buttons[s] \in Button
      /\ docker[s] \in Look
  BY <1>1 DEF InfraTypeOK, Button, Looks
<1>5. look \in Look /\ look.at = docker[s].at
  BY <1>4 DEF Inspected, Look, Conditions
<1>6. /\ buttons' \in [Services -> Button]
      /\ \A t \in Services \ {s} : buttons'[t] = buttons[t]
      /\ buttons'[s].is = "read" /\ buttons'[s].seen = buttons[s].seen
      /\ buttons'[s].look = look
  BY <1>3, <1>4, <1>5 DEF Button
<1>7. InfraTypeOK' /\ InfraUp'
  BY <1>1, <1>2, <1>6 DEF InfraTypeOK, Button, InfraUp
<1>8. ASSUME NEW t \in Services PROVE Ordered(t)'
  <2>1. CASE t = s
    <3>1. buttons[s].seen <= docker[s].at /\ docker[s].at \in Nat
      BY <1>1, <1>4 DEF Ordered, Look
    <3> QED
      BY <1>1, <1>2, <1>5, <1>6, <2>1, <3>1 DEF Ordered, InfraUp
  <2>2. CASE t # s
    BY <1>1, <1>2, <1>6, <2>2 DEF Ordered, InfraUp
  <2> QED
    BY <2>1, <2>2
<1> QED
  BY <1>7, <1>8 DEF InfraInv

\* Settling gives up the fetch of its time: no look older than the one that is
\* accepted is left on its way.
LEMMA AnsweredKeepsInv ==
  ASSUME InfraInv, NEW s \in Services, ActionAnswered(s) PROVE InfraInv'
<1> DEFINE look == buttons[s].look
<1>1. /\ docker' = docker /\ buttons[s].is = "read"
      /\ InfraTypeOK /\ \A t \in Services : Ordered(t)
  BY DEF ActionAnswered, InfraInv
<1>2. InfraUp
  BY <1>1, RestIsTyped DEF InfraInv
<1>3. /\ buttons \in [Services -> Button] /\ buttons[s] \in Button
      /\ look \in Look /\ look.at \in 0..MaxActions
      /\ health.shown \in [Services -> Look]
  BY <1>1 DEF InfraTypeOK, Button, Looks, Look
<1>4. /\ health'.st = health.st
      /\ health'.shown = [health.shown EXCEPT ![s] = look]
      /\ health'.fetch = Asked
      /\ health' \in [st : {health.st}, shown : Looks, fetch : {Asked}]
  BY <1>1, <1>3 DEF ActionAnswered, Invalidated, InfraTypeOK, Looks
<1>5. /\ buttons' \in [Services -> Button]
      /\ \A t \in Services \ {s} : buttons'[t] = buttons[t]
      /\ buttons'[s].is = "idle" /\ buttons'[s].seen = look.at
  <2>1. Idle(look.at) \in Button
    BY <1>3, UnseenIsLook DEF Idle, Button, Actions
  <2> QED
    BY <1>3, <2>1 DEF ActionAnswered, Idle
<1>6. InfraTypeOK' /\ InfraUp'
  BY <1>1, <1>2, <1>4, <1>5, FetchIsTyped DEF InfraTypeOK, Button, InfraUp
<1>7. ASSUME NEW t \in Services PROVE Ordered(t)'
  <2>1. CASE t = s
    <3>1. look.at <= docker[s].at /\ health'.shown[s] = look
      BY <1>1, <1>3, <1>4 DEF Ordered
    <3> QED
      BY <1>1, <1>3, <1>4, <1>5, <2>1, <3>1, FetchIsTyped DEF Ordered
  <2>2. CASE t # s
    <3>1. health'.shown[t] = health.shown[t]
      BY <1>3, <1>4, <2>2
    <3> QED
      BY <1>1, <1>2, <1>4, <1>5, <2>2, <3>1, FetchIsTyped DEF Ordered
  <2> QED
    BY <2>1, <2>2
<1> QED
  BY <1>6, <1>7 DEF InfraInv

LEMMA FailsKeepsInv ==
  ASSUME InfraInv, NEW s \in Services, ActionFails(s) PROVE InfraInv'
<1>1. /\ docker' = docker /\ buttons[s].is # "idle"
      /\ InfraTypeOK /\ \A t \in Services : Ordered(t)
  BY DEF ActionFails, InfraInv
<1>2. InfraUp
  BY <1>1, RestIsTyped DEF InfraInv
<1>3. buttons \in [Services -> Button] /\ buttons[s] \in Button
  BY <1>1 DEF InfraTypeOK, Button
<1>4. health' \in [st : {health.st}, shown : {health.shown}, fetch : {Asked}]
  BY <1>1 DEF ActionFails, Invalidated, InfraTypeOK
<1>5. /\ buttons' \in [Services -> Button]
      /\ \A t \in Services \ {s} : buttons'[t] = buttons[t]
      /\ buttons'[s].is = "idle" /\ buttons'[s].seen = buttons[s].seen
  <2>1. Idle(buttons[s].seen) \in Button
    BY <1>3, UnseenIsLook DEF Idle, Button, Actions
  <2> QED
    BY <1>3, <2>1 DEF ActionFails, Idle
<1>6. InfraTypeOK' /\ InfraUp'
  BY <1>1, <1>2, <1>4, <1>5, FetchIsTyped DEF InfraTypeOK, Button, InfraUp
<1>7. ASSUME NEW t \in Services PROVE Ordered(t)'
  <2>1. CASE t = s
    BY <1>1, <1>2, <1>4, <1>5, <2>1, FetchIsTyped DEF Ordered
  <2>2. CASE t # s
    BY <1>1, <1>2, <1>4, <1>5, <2>2, FetchIsTyped DEF Ordered
  <2> QED
    BY <2>1, <2>2
<1> QED
  BY <1>6, <1>7 DEF InfraInv

LEMMA ContainerKeepsInv ==
  ASSUME InfraInv, NEW s \in Services, ContainerChanges(s) PROVE InfraInv'
<1>1. /\ health' = health /\ buttons' = buttons /\ InfraUp
      /\ InfraTypeOK /\ \A t \in Services : Ordered(t)
  BY DEF ContainerChanges, InfraInv
<1>2. PICK is \in Conditions : docker' = [docker EXCEPT ![s].is = is]
  BY DEF ContainerChanges
<1>3. docker \in [Services -> Look] /\ docker[s] \in Look
  BY <1>1 DEF InfraTypeOK, Looks
<1>4. /\ docker' \in [Services -> Look]
      /\ \A t \in Services : docker'[t].at = docker[t].at
  BY <1>2, <1>3 DEF Look
<1>5. InfraTypeOK' /\ InfraUp'
  BY <1>1, <1>4 DEF InfraTypeOK, InfraUp, Looks
<1>6. ASSUME NEW t \in Services PROVE Ordered(t)'
  BY <1>1, <1>4 DEF Ordered, InfraUp
<1> QED
  BY <1>5, <1>6 DEF InfraInv

-----------------------------------------------------------------------------
LEMMA InfraInvStep == InfraInv /\ [InfraNext]_infraVars => InfraInv'
<1> SUFFICES ASSUME InfraInv, [InfraNext]_infraVars PROVE InfraInv'
  OBVIOUS
<1>1. CASE OpenInfrastructure
  BY <1>1, OpenKeepsInv
<1>2. CASE LeaveInfrastructure
  BY <1>2, LeaveKeepsInv
<1>3. CASE fetchSummary \/ SummaryArrives \/ SummaryFails
  BY <1>3, PollKeepsInv
<1>11. ASSUME NEW s \in Services, CheckNext(s) PROVE InfraInv'
  BY <1>11, CheckNextKeepsInv
<1>4. ASSUME NEW s \in Services, NEW action \in Actions, Press(s, action)
      PROVE  InfraInv'
  BY <1>4, PressKeepsInv
<1>5. ASSUME NEW s \in Services, perform(s) PROVE InfraInv'
  BY <1>5, PerformKeepsInv
<1>6. ASSUME NEW s \in Services, CheckOne(s) PROVE InfraInv'
  BY <1>6, CheckKeepsInv
<1>7. ASSUME NEW s \in Services, ActionAnswered(s) PROVE InfraInv'
  BY <1>7, AnsweredKeepsInv
<1>8. ASSUME NEW s \in Services, ActionFails(s) PROVE InfraInv'
  BY <1>8, FailsKeepsInv
<1>9. ASSUME NEW s \in Services, ContainerChanges(s) PROVE InfraInv'
  BY <1>9, ContainerKeepsInv
<1>10. CASE UNCHANGED infraVars
  BY <1>10 DEF InfraInv, InfraTypeOK, Ordered, InfraUp, infraVars
<1> QED
  BY <1>1, <1>2, <1>3, <1>11, <1>4, <1>5, <1>6, <1>7, <1>8, <1>9, <1>10
  DEF InfraNext, InfraStep

\* The screen is well typed, and what is still to arrive is no older than what
\* its rows have seen (useServiceControl.ts:20-34).
THEOREM InfraInvariant == InfraSpec => []InfraInv
BY InfraInitInv, InfraInvStep, PTL DEF InfraSpec

\* A row never falls back behind the answer of its last action
\* (useServiceControl.ts:20-34).
THEOREM RowStaysFresh == InfraSpec => []ShownFresh
<1>1. InfraInv => ShownFresh
  <2> SUFFICES ASSUME InfraInv, InfraUp, NEW s \in Services
               PROVE  health.shown[s].at >= buttons[s].seen
    BY DEF ShownFresh
  <2>1. buttons[s].seen <= health.shown[s].at
    BY DEF InfraInv, Ordered
  <2> QED
    BY <2>1
<1> QED
  BY <1>1, InfraInvariant, PTL

-----------------------------------------------------------------------------
(***************************************************************************)
(* The editor by itself: what it shows is what its newest entry records.   *)
(* A query that is under way shows nothing, and the text that was sent     *)
(* stays as it was sent.                                                   *)
(***************************************************************************)
SqlInv ==
  /\ SqlTypeOK
  /\ ShownIsRecorded
  /\ editor.pending => editor.ran \in Queries /\ editor.outcome = Lost

Editor == [open : BOOLEAN, sql : Texts, pending : BOOLEAN, ran : Texts,
           outcome : Outcomes \cup {Lost}, dead : BOOLEAN]

-----------------------------------------------------------------------------
(***************************************************************************)
(* The history.                                                            *)
(***************************************************************************)
LEMMA SqlLimits == MaxEntries \in Nat \ {0}
BY Zenon, SqlEditorAssumption DEF SqlEditorAssumption

LEMMA HistoryIsSeq ==
  ASSUME NEW h \in Histories
  PROVE  h \in Seq(Entry) /\ Len(h) \in 0..MaxEntries
<1>1. PICK n \in 0..MaxEntries : h \in [1..n -> Entry]
  BY DEF Histories
<1>2. n \in Nat
  BY SqlLimits
<1> QED
  BY <1>1, <1>2

LEMMA SeqIsHistory ==
  ASSUME NEW h \in Seq(Entry), Len(h) <= MaxEntries
  PROVE  h \in Histories
<1>1. h \in [1..Len(h) -> Entry] /\ Len(h) \in Nat
  BY LenProperties
<1>2. Len(h) \in 0..MaxEntries
  BY <1>1, SqlLimits
<1> QED
  BY <1>1, <1>2 DEF Histories

\* The history that gets an entry begins with it and is not too long.
LEMMA AddedIsHistory ==
  ASSUME entries \in Histories, NEW entry \in Entry
  PROVE  Added(entry) \in Histories /\ Added(entry) # <<>> /\ Added(entry)[1] = entry
<1> DEFINE all == <<entry>> \o entries
           keep == IF Len(entries) < MaxEntries THEN Len(entries) + 1 ELSE MaxEntries
<1>1. entries \in Seq(Entry) /\ Len(entries) \in 0..MaxEntries
  BY HistoryIsSeq
<1>2. all \in Seq(Entry) /\ Len(all) = Len(entries) + 1 /\ all[1] = entry
  BY <1>1
<1>3. MaxEntries \in Nat \ {0}
  BY SqlLimits
<1>4. keep \in 1..Len(all) /\ keep <= MaxEntries
  BY <1>1, <1>2, <1>3
<1>5. /\ SubSeq(all, 1, keep) \in Seq(Entry)
      /\ Len(SubSeq(all, 1, keep)) = keep
      /\ SubSeq(all, 1, keep)[1] = all[1]
  BY <1>2, <1>4, SubSeqProperties
<1>6. Added(entry) = SubSeq(all, 1, keep)
  BY DEF Added
<1>7. Added(entry) \in Histories
  BY <1>4, <1>5, <1>6, SeqIsHistory
<1>8. Added(entry) # <<>>
  BY <1>4, <1>5, <1>6
<1> QED
  BY <1>2, <1>5, <1>6, <1>7, <1>8

LEMMA EmptyIsHistory == <<>> \in Histories
<1>1. <<>> \in Seq(Entry) /\ Len(<<>>) = 0
  BY EmptySeq
<1>2. Len(<<>>) <= MaxEntries
  BY <1>1, SqlLimits
<1> QED
  BY <1>1, <1>2, SeqIsHistory, Zenon

-----------------------------------------------------------------------------
LEMMA ClosedIsEditor == EditorClosed \in Editor
BY DEF EditorClosed, Editor, Texts

LEMMA SqlInitInv == SqlInit => SqlInv
BY ClosedIsEditor, EmptyIsHistory
DEF SqlInit, SqlInv, SqlTypeOK, ShownIsRecorded, EditorClosed, Editor

LEMMA OpenEditorKeepsInv ==
  ASSUME SqlInv, NEW text \in Queries, OpenEditor(text) PROVE SqlInv'
<1>1. /\ editor' \in Editor /\ entries' \in Histories
      /\ editor'.outcome = Lost /\ ~ editor'.pending
  BY ClosedIsEditor DEF OpenEditor, Editor, EditorClosed, Texts
<1> QED
  BY <1>1 DEF SqlInv, SqlTypeOK, ShownIsRecorded, Editor

LEMMA LeaveEditorKeepsInv == SqlInv /\ LeaveEditor => SqlInv'
BY ClosedIsEditor, EmptyIsHistory
DEF LeaveEditor, SqlInv, SqlTypeOK, ShownIsRecorded, EditorClosed, Editor

\* What is typed, inserted or selected changes the text alone.
LEMMA TextKeepsInv ==
  ASSUME SqlInv, NEW text \in Texts, UNCHANGED entries,
         editor' = [editor EXCEPT !.sql = text]
  PROVE  SqlInv'
<1>1. editor \in Editor
  BY DEF SqlInv, SqlTypeOK, Editor
<1>2. /\ editor' \in Editor /\ editor'.outcome = editor.outcome
      /\ editor'.ran = editor.ran /\ editor'.pending = editor.pending
  BY <1>1 DEF Editor
<1> QED
  BY <1>2 DEF SqlInv, SqlTypeOK, ShownIsRecorded, Editor

LEMMA RunKeepsInv == SqlInv /\ handleRun => SqlInv'
<1> SUFFICES ASSUME SqlInv, handleRun PROVE SqlInv'
  OBVIOUS
<1>1. editor \in Editor /\ entries \in Histories
  BY DEF SqlInv, SqlTypeOK, Editor
<1>2. /\ editor' \in Editor /\ entries' = entries
      /\ editor'.outcome = Lost /\ editor'.ran \in Queries
  BY <1>1 DEF handleRun, Editor, Texts
<1> QED
  BY <1>1, <1>2 DEF SqlInv, SqlTypeOK, ShownIsRecorded, Editor

LEMMA AnswerKeepsInv == SqlInv /\ Answered => SqlInv'
<1> SUFFICES ASSUME SqlInv, Answered PROVE SqlInv'
  OBVIOUS
<1>1. /\ editor \in Editor /\ entries \in Histories /\ editor.pending
      /\ editor.ran \in Queries /\ editor.outcome = Lost
  BY DEF Answered, SqlInv, SqlTypeOK, Editor
<1>2. PICK o \in Outcomes :
        \/ /\ RowsField(o)
           /\ editor' = [editor EXCEPT !.pending = FALSE, !.outcome = o]
           /\ entries' = Added([sql |-> editor.ran, success |-> o.is = "rows"])
        \/ /\ ~ RowsField(o)
           /\ editor' = [editor EXCEPT !.pending = FALSE, !.dead = TRUE]
           /\ UNCHANGED entries
  BY DEF Answered
<1>3. CASE RowsField(o)
  <2> DEFINE entry == [sql |-> editor.ran, success |-> o.is = "rows"]
  <2>1. entry \in Entry
    BY <1>1 DEF Entry
  <2>2. /\ editor' = [editor EXCEPT !.pending = FALSE, !.outcome = o]
        /\ entries' = Added(entry)
    BY <1>2, <1>3
  <2>3. entries' \in Histories /\ entries'[1] = entry
    BY <1>1, <2>1, <2>2, AddedIsHistory
  <2>4. /\ editor' \in Editor /\ ~ editor'.pending
        /\ editor'.outcome = o /\ editor'.ran = editor.ran
    BY <1>1, <2>2 DEF Editor
  <2> QED
    BY <2>3, <2>4 DEF SqlInv, SqlTypeOK, ShownIsRecorded, Editor
<1>4. CASE ~ RowsField(o)
  <2>1. /\ editor' \in Editor /\ ~ editor'.pending /\ editor'.outcome = Lost
        /\ entries' = entries
    BY <1>1, <1>2, <1>4 DEF Editor
  <2> QED
    BY <1>1, <2>1 DEF SqlInv, SqlTypeOK, ShownIsRecorded, Editor
<1> QED
  BY <1>3, <1>4

LEMMA LostKeepsInv == SqlInv /\ TransportFails => SqlInv'
<1> SUFFICES ASSUME SqlInv, TransportFails PROVE SqlInv'
  OBVIOUS
<1>1. editor \in Editor /\ entries \in Histories /\ editor.outcome = Lost
  BY DEF TransportFails, SqlInv, SqlTypeOK, Editor
<1>2. /\ editor' \in Editor /\ ~ editor'.pending /\ editor'.outcome = Lost
      /\ entries' = entries
  BY <1>1 DEF TransportFails, Editor
<1> QED
  BY <1>1, <1>2 DEF SqlInv, SqlTypeOK, ShownIsRecorded, Editor

-----------------------------------------------------------------------------
LEMMA SqlStepInv == SqlInv /\ [SqlNext]_sqlVars => SqlInv'
<1> SUFFICES ASSUME SqlInv, [SqlNext]_sqlVars PROVE SqlInv'
  OBVIOUS
<1>1. ASSUME NEW text \in Queries, OpenEditor(text) PROVE SqlInv'
  BY <1>1, OpenEditorKeepsInv
<1>2. CASE LeaveEditor
  BY <1>2, LeaveEditorKeepsInv
<1>3. CASE TypeSql \/ InsertTable
  BY <1>3, TextKeepsInv DEF TypeSql, InsertTable, Texts
<1>4. ASSUME NEW i \in DOMAIN entries, SelectEntry(i) PROVE SqlInv'
  <2>1. entries[i].sql \in Texts
    <3>1. entries \in Seq(Entry)
      BY HistoryIsSeq DEF SqlInv, SqlTypeOK
    <3>2. entries[i] \in Entry
      BY <3>1
    <3> QED
      BY <3>2 DEF Entry, Texts
  <2> QED
    BY <1>4, <2>1, TextKeepsInv DEF SelectEntry
<1>5. CASE ClearHistory
  BY <1>5, EmptyIsHistory DEF ClearHistory, SqlInv, SqlTypeOK, ShownIsRecorded
<1>6. CASE handleRun
  BY <1>6, RunKeepsInv
<1>7. CASE Answered
  BY <1>7, AnswerKeepsInv
<1>8. CASE TransportFails
  BY <1>8, LostKeepsInv
<1>9. CASE UNCHANGED sqlVars
  BY <1>9 DEF sqlVars, SqlInv, SqlTypeOK, ShownIsRecorded
<1> QED
  BY <1>1, <1>2, <1>3, <1>4, <1>5, <1>6, <1>7, <1>8, <1>9 DEF SqlNext, SqlStep

\* The editor is well typed, and a query under way shows nothing and is the
\* text that was sent (SqlEditorScreen.tsx:41-54).
THEOREM SqlInvariant == SqlSpec => []SqlInv
BY SqlInitInv, SqlStepInv, PTL DEF SqlSpec

\* The result that is shown is that of the newest entry of the history
\* (SqlEditorScreen.tsx:41-54, useQueryHistory.ts:39-41).
THEOREM ShownWasRecorded == SqlSpec => []ShownIsRecorded
BY SqlInvariant, PTL DEF SqlInv

-----------------------------------------------------------------------------
(***************************************************************************)
(* The catalog by itself.                                                  *)
(***************************************************************************)
Preview == [expanded : BOOLEAN, is : {"none", "pending", "failed", "data"},
            count : Counts, sample : Samples]
Inventory == [st : Fetches \cup {"unreachable", "empty"},
              expanded : SUBSET Layers]

CatalogNext == OpenCatalog \/ LeaveCatalog \/ CatalogStep

\* Where every row is folded, and a lake no layer of which is open.
LEMMA FoldedIsTyped ==
  /\ Collapsed \in [Tables -> Preview]
  /\ \A st \in Fetches \cup {"unreachable", "empty"} :
       /\ LakeShows(st) \in Inventory /\ LakeShows(st).expanded = {}
<1>1. Untouched \in Preview
  BY DEF Untouched, Preview, Counts, Samples
<1> QED
  BY <1>1 DEF Collapsed, LakeShows, Inventory

\* A row that changes is a row, and the other rows are as they were.
LEMMA RowIsTyped ==
  ASSUME CatalogTypeOK, NEW t \in Tables, NEW row \in Preview, ShowRow(t, row)
  PROVE  previews' \in [Tables -> Preview] /\ lost' \in BOOLEAN
<1>1. previews' \in [Tables -> Preview]
  BY DEF CatalogTypeOK, Preview, ShowRow
<1>2. lost' \in BOOLEAN
  BY DEF ShowRow, SampleThrows, Preview
<1> QED
  BY <1>1, <1>2

\* Every step keeps the types: a layer is unfolded only in a lake that is
\* shown.
LEMMA CatalogStepTyped ==
  ASSUME CatalogTypeOK, [CatalogNext]_catalogVars PROVE CatalogTypeOK'
<1>0. /\ schema \in Fetches /\ lost \in BOOLEAN
      /\ previews \in [Tables -> Preview] /\ lake \in Inventory
      /\ lake.expanded # {} => lake.st = "ok"
  BY DEF CatalogTypeOK, Preview, Inventory
<1>1. SUFFICES /\ schema' \in Fetches /\ lost' \in BOOLEAN
               /\ previews' \in [Tables -> Preview] /\ lake' \in Inventory
               /\ lake'.expanded # {} => lake'.st = "ok"
  BY DEF CatalogTypeOK, Preview, Inventory
<1>2. CASE OpenCatalog \/ LeaveCatalog
  BY <1>2, FoldedIsTyped DEF OpenCatalog, LeaveCatalog, Fetches
<1>3. CASE SchemaAnswered
  BY <1>0, <1>3, FoldedIsTyped DEF SchemaAnswered, Fetches
<1>4. CASE LakeAnswered
  <2>1. [lake EXCEPT !.st = "ok"] \in Inventory
        /\ [lake EXCEPT !.st = "ok"].st = "ok"
    BY <1>0 DEF Inventory, Fetches
  <2> QED
    BY <1>0, <1>4, <2>1, FoldedIsTyped DEF LakeAnswered, Fetches
<1>5. ASSUME NEW l \in Layers, ToggleLayer(l)
      PROVE  lake' \in Inventory /\ lake'.st = "ok"
  BY <1>0, <1>5 DEF ToggleLayer, Inventory
<1>6. ASSUME NEW t \in Tables, handleToggle(t) \/ PreviewAnswered(t)
                                \/ PreviewFails(t)
      PROVE  /\ previews' \in [Tables -> Preview] /\ lost' \in BOOLEAN
             /\ UNCHANGED <<schema, lake>>
  <2>0. previews[t] \in Preview
    BY <1>0
  <2>1. CASE handleToggle(t)
    <3>1. PICK is \in {"none", "pending", "failed", "data"} :
            ShowRow(t, [previews[t] EXCEPT !.expanded = ~ @, !.is = is])
      BY <2>0, <2>1 DEF handleToggle, Preview
    <3>2. [previews[t] EXCEPT !.expanded = ~ @, !.is = is] \in Preview
      BY <2>0 DEF Preview
    <3> QED
      BY <2>1, <3>1, <3>2, RowIsTyped DEF handleToggle
  <2>2. CASE PreviewAnswered(t)
    <3>1. PICK count \in Counts, sample \in Samples :
            ShowRow(t, [previews[t] EXCEPT !.is = "data", !.count = count,
                                           !.sample = sample])
      BY <2>2 DEF PreviewAnswered
    <3>2. [previews[t] EXCEPT !.is = "data", !.count = count,
                              !.sample = sample] \in Preview
      BY <2>0 DEF Preview
    <3> QED
      BY <2>2, <3>1, <3>2, RowIsTyped DEF PreviewAnswered
  <2>3. CASE PreviewFails(t)
    <3>1. [previews[t] EXCEPT !.is = "failed"] \in Preview
      BY <2>0 DEF Preview
    <3> QED
      BY <2>3, <3>1, RowIsTyped DEF PreviewFails
  <2> QED
    BY <1>6, <2>1, <2>2, <2>3
<1>7. CASE UNCHANGED catalogVars
  BY <1>0, <1>7 DEF catalogVars
<1> QED
  BY <1>0, <1>2, <1>3, <1>4, <1>5, <1>6, <1>7
  DEF CatalogNext, CatalogStep, ToggleLayer

-----------------------------------------------------------------------------
(***************************************************************************)
(* The Dashboards screen within the console.                               *)
(***************************************************************************)
LEMMA NavigateDashboards ==
  ASSUME NEW path, NEW carried, navigate(path, carried)
  PROVE  [DashNext]_dashVars
BY DEF navigate, screenVars, ToDashboards, DashNext

LEMMA ConsoleStepDashboards ==
  ASSUME [Next]_vars PROVE [DashNext]_dashVars
<1>1. CASE \E path \in Routes : LoadPage(path) \/ FollowLink(path)
  BY <1>1, NavigateDashboards DEF LoadPage, FollowLink
<1>2. CASE \E i \in DOMAIN Listed(search) : OpenResult(i)
  BY <1>2, NavigateDashboards DEF OpenResult
<1>3. CASE LeavePage
  BY <1>3, NavigateDashboards DEF LeavePage
<1>4. CASE InDashboards
  BY <1>4 DEF InDashboards, DashNext
<1>5. CASE InSearch \/ InSqlEditor \/ InInfrastructure \/ InCatalog \/ UNCHANGED vars
  BY <1>5 DEF InSearch, InSqlEditor, InInfrastructure, InCatalog, screenVars, vars
<1> QED
  BY <1>1, <1>2, <1>3, <1>4, <1>5 DEF Next

\* The console shows the Dashboards screen as its module describes it
\* (router.tsx:18-34).
THEOREM ConsoleHasDashboards == Spec => DashSpec
<1>1. Init => DashInit
  BY DEF Init
<1> QED
  BY <1>1, ConsoleStepDashboards, PTL DEF Spec, DashSpec

\* In the console, too, a plotted line keeps a window of two points and its
\* labels (useChartZoom.ts:17-21) ...
THEOREM ConsoleKeepsWindow == Spec => []WindowHolds
BY ConsoleHasDashboards, LineKeepsItsWindow, PTL

\* ... and a selection shows what was selected (useChartZoom.ts:35-51).
THEOREM ConsoleShowsSelection == Spec => ZoomIsSelection
BY ConsoleHasDashboards, ZoomShowsSelection, PTL

-----------------------------------------------------------------------------
(***************************************************************************)
(* The Infrastructure screen within the console.                           *)
(***************************************************************************)
LEMMA NavigateInfrastructure ==
  ASSUME NEW path, NEW carried, navigate(path, carried)
  PROVE  [InfraNext]_infraVars
BY DEF navigate, screenVars, ToInfrastructure, InfraNext

LEMMA ConsoleStepInfrastructure ==
  ASSUME [Next]_vars PROVE [InfraNext]_infraVars
<1>1. CASE \E path \in Routes : LoadPage(path) \/ FollowLink(path)
  BY <1>1, NavigateInfrastructure DEF LoadPage, FollowLink
<1>2. CASE \E i \in DOMAIN Listed(search) : OpenResult(i)
  BY <1>2, NavigateInfrastructure DEF OpenResult
<1>3. CASE LeavePage
  BY <1>3, NavigateInfrastructure DEF LeavePage
<1>4. CASE InInfrastructure
  BY <1>4 DEF InInfrastructure, InfraNext
<1>5. CASE InSearch \/ InSqlEditor \/ InDashboards \/ InCatalog \/ UNCHANGED vars
  BY <1>5 DEF InSearch, InSqlEditor, InDashboards, InCatalog, screenVars, vars
<1> QED
  BY <1>1, <1>2, <1>3, <1>4, <1>5 DEF Next

\* The console shows the Infrastructure screen as its module describes it, and
\* no row falls back behind its last action (useServiceControl.ts:20-34).
THEOREM ConsoleRowsFresh == Spec => []ShownFresh
<1>1. Init => InfraInit
  BY DEF Init
<1>2. Spec => InfraSpec
  BY <1>1, ConsoleStepInfrastructure, PTL DEF Spec, InfraSpec
<1> QED
  BY <1>2, RowStaysFresh, PTL

-----------------------------------------------------------------------------
(***************************************************************************)
(* The search field: its rows are rows, whatever the lists become.         *)
(***************************************************************************)
Field == [query : Terms \cup {""}, focused : BOOLEAN, highlighted : Nat,
          tables : TableLists, runs : RunLists, aim : Aims]
SearchInv == search \in Field

LEMMA ListsAreRows == TableLists \subseteq Seq(Row) /\ RunLists \subseteq Seq(Row)
<1>1. MaxHits \in Nat /\ {"/pipelines", "/sql-editor"} \subseteq Routes
  BY Zenon, SearchAssumption DEF SearchAssumption
<1>2. /\ \A q \in TableSql : TableRow(q) \in Row
      /\ \A id \in RunIds : RunRow(id) \in Row
  BY <1>1 DEF RunRow, TableRow, Row, Carried, Handed
<1>3. ASSUME NEW ts \in TableLists PROVE ts \in Seq(Row)
  <2>1. PICK n \in 0..MaxHits : ts \in [1..n -> {TableRow(q) : q \in TableSql}]
    BY DEF TableLists
  <2>2. n \in Nat /\ ts \in [1..n -> Row]
    BY <1>1, <1>2, <2>1
  <2> QED
    BY <2>2
<1>4. ASSUME NEW rs \in RunLists PROVE rs \in Seq(Row)
  <2>1. PICK n \in 0..MaxHits : rs \in [1..n -> {RunRow(id) : id \in RunIds}]
    BY DEF RunLists
  <2>2. n \in Nat /\ rs \in [1..n -> Row]
    BY <1>1, <1>2, <2>1
  <2> QED
    BY <2>2
<1> QED
  BY <1>3, <1>4

LEMMA ListedAreRows == ASSUME NEW s \in Field PROVE Listed(s) \in Seq(Row)
<1>1. CASE s.focused /\ s.query # ""
  <2>1. s.query \in Terms /\ s.tables \in Seq(Row) /\ s.runs \in Seq(Row)
    BY <1>1, ListsAreRows DEF Field
  <2>2. Static \in [Terms -> Seq(Row)]
    BY Zenon, SearchAssumption DEF SearchAssumption
  <2>3. Static[s.query] \in Seq(Row)
    BY <2>1, <2>2
  <2>4. Static[s.query] \o s.tables \o s.runs \in Seq(Row)
    BY <2>1, <2>3, ConcatProperties
  <2> QED
    BY <1>1, <2>4 DEF Listed
<1>2. CASE ~ (s.focused /\ s.query # "")
  BY <1>2, EmptySeq DEF Listed
<1> QED
  BY <1>1, <1>2

\* Before anything is fetched both lists are empty.
LEMMA BlankIsField == Blank \in Field
<1>0. MaxHits \in Nat
  BY Zenon, SearchAssumption DEF SearchAssumption
<1>1. 0 \in 0..MaxHits
  BY <1>0
<1>2. <<>> \in [1..0 -> {TableRow(q) : q \in TableSql}]
      /\ <<>> \in [1..0 -> {RunRow(id) : id \in RunIds}]
  OBVIOUS
<1>3. <<>> \in TableLists /\ <<>> \in RunLists
  BY <1>1, <1>2 DEF TableLists, RunLists
<1>4. NoAim \in Aims
  BY DEF Aims
<1> QED
  BY <1>3, <1>4 DEF Blank, Field

\* The row under the highlight is a row of one of the lists.
LEMMA AimedIsField ==
  ASSUME NEW s \in Field
  PROVE  /\ Aimed(s) \in Field /\ Aimed(s).query = s.query
         /\ Aimed(s).highlighted = s.highlighted /\ Aimed(s).tables = s.tables
         /\ Aimed(s).runs = s.runs
<1> DEFINE i == s.highlighted + 1
<1>1. ASSUME i \in DOMAIN Listed(s) PROVE Listed(s)[i] \in Row
  BY <1>1, ListedAreRows
<1>2. ListOf(s, i) \in {"static", "tables", "runs"}
  BY DEF ListOf
<1>3. (IF i \in DOMAIN Listed(s)
       THEN [list |-> ListOf(s, i), row |-> Listed(s)[i]] ELSE NoAim) \in Aims
  BY <1>1, <1>2 DEF Aims
<1> QED
  BY <1>3 DEF Aimed, Field

LEMMA SearchStepTyped ==
  ASSUME search \in Field, SearchStep PROVE search' \in Field
<1>1. CASE Focus \/ Blur
  BY <1>1 DEF Focus, Blur, Field
<1>2. CASE Type
  <2>1. PICK term \in Terms \ {search.query}, ts \in TableLists, rs \in RunLists :
          search' = Aimed([search EXCEPT !.query = term, !.highlighted = 0,
                                         !.tables = ts, !.runs = rs])
    BY <1>2 DEF Type
  <2>2. [search EXCEPT !.query = term, !.highlighted = 0,
                       !.tables = ts, !.runs = rs] \in Field
    BY <2>1 DEF Field
  <2> QED
    BY <2>1, <2>2, AimedIsField
<1>3. CASE Clear \/ Escape
  <2>1. [Blank EXCEPT !.focused = TRUE] \in Field
    BY BlankIsField DEF Field
  <2> QED
    BY <1>3, <2>1, BlankIsField DEF Clear, Escape
<1>4. CASE TablesArrive \/ RunsArrive
  BY <1>4 DEF TablesArrive, RunsArrive, AimIf, Field, Aims
<1>5. ASSUME NEW by \in {-1, 1}, Arrow(by) PROVE search' \in Field
  <2> DEFINE n == Len(Listed(search))
  <2>1. n \in Nat /\ n > 0
    BY <1>5, ListedAreRows, LenProperties DEF Arrow
  <2>2. search.highlighted \in Nat
    BY DEF Field
  <2>3. (search.highlighted + by + n) % n \in Nat
    BY <2>1, <2>2
  <2>4. [search EXCEPT !.highlighted = (@ + by + n) % n] \in Field
    BY <2>3 DEF Field
  <2> QED
    BY <1>5, <2>4, AimedIsField DEF Arrow
<1>6. ASSUME NEW i \in DOMAIN Listed(search), Hover(i) PROVE search' \in Field
  <2>1. i \in Nat /\ i - 1 \in Nat
    BY ListedAreRows, LenProperties
  <2>2. [search EXCEPT !.highlighted = i - 1] \in Field
    BY <2>1 DEF Field
  <2> QED
    BY <1>6, <2>2, AimedIsField DEF Hover
<1> QED
  BY <1>1, <1>2, <1>3, <1>4, <1>5, <1>6 DEF SearchStep

\* The field is well typed: its lists hold rows (SearchBar.tsx:30-53).
LEMMA ConsoleSearchTyped == Spec => []SearchInv
<1>1. Init => SearchInv
  BY BlankIsField DEF Init, SearchInit, SearchInv
<1>2. SearchInv /\ [Next]_vars => SearchInv'
  <2> SUFFICES ASSUME search \in Field, [Next]_vars PROVE search' \in Field
    BY DEF SearchInv
  <2>1. CASE InSearch
    BY <2>1, SearchStepTyped DEF InSearch
  <2>2. CASE ~ InSearch
    BY <2>2, BlankIsField DEF Next, LoadPage, FollowLink, OpenResult, select,
       LeavePage, InDashboards, InSqlEditor, InInfrastructure, InCatalog, vars
  <2> QED
    BY <2>1, <2>2
<1> QED
  BY <1>1, <1>2, PTL DEF Spec

-----------------------------------------------------------------------------
(***************************************************************************)
(* The SQL editor within the console. It opens on its own text or on the   *)
(* one a row carries.                                                      *)
(***************************************************************************)
LEMMA CarriedIsQuery ==
  ASSUME NEW carried \in Handed("/sql-editor")
  PROVE  FirstText(carried) \in Queries
<1>1. TableSql \subseteq Queries
  BY Zenon, ConsoleAssumption DEF ConsoleAssumption
<1>2. DefaultSql \in Queries
  BY Zenon, SqlEditorAssumption DEF SqlEditorAssumption
<1> QED
  BY <1>1, <1>2 DEF Handed, FirstText

LEMMA NavigateSqlEditor ==
  ASSUME NEW path, NEW carried \in Handed(path), navigate(path, carried)
  PROVE  [SqlNext]_sqlVars
BY CarriedIsQuery DEF navigate, screenVars, ToSqlEditor, SqlNext

\* A row carries what its screen can be handed; every screen can be handed
\* nothing.
LEMMA RowsAreHanded ==
  /\ \A path : "" \in Handed(path)
  /\ SearchInv => \A i \in DOMAIN Listed(search) :
       /\ Listed(search)[i].to \in Routes
       /\ Listed(search)[i].carries \in Handed(Listed(search)[i].to)
<1>1. ASSUME SearchInv, NEW i \in DOMAIN Listed(search)
      PROVE  Listed(search)[i] \in Row
  BY <1>1, ListedAreRows DEF SearchInv
<1> QED
  BY <1>1 DEF Row, Handed

LEMMA ConsoleStepSqlEditor ==
  ASSUME SearchInv, [Next]_vars PROVE [SqlNext]_sqlVars
<1>1. CASE \E path \in Routes : LoadPage(path) \/ FollowLink(path)
  BY <1>1, NavigateSqlEditor DEF LoadPage, FollowLink
<1>2. ASSUME NEW i \in DOMAIN Listed(search), OpenResult(i)
      PROVE  [SqlNext]_sqlVars
  BY <1>2, RowsAreHanded, NavigateSqlEditor DEF OpenResult
<1>3. CASE LeavePage
  BY <1>3, RowsAreHanded, NavigateSqlEditor DEF LeavePage
<1>4. CASE InSqlEditor
  BY <1>4 DEF InSqlEditor, SqlNext
<1>5. CASE InSearch \/ InDashboards \/ InInfrastructure \/ InCatalog \/ UNCHANGED vars
  BY <1>5 DEF InSearch, InDashboards, InInfrastructure, InCatalog, screenVars, vars
<1> QED
  BY <1>1, <1>2, <1>3, <1>4, <1>5 DEF Next

\* In the console, too, the editor shows what its newest entry records
\* (SqlEditorScreen.tsx:41-54).
THEOREM ConsoleShownWasRecorded == Spec => []ShownIsRecorded
<1>1. Init => SqlInit
  BY DEF Init
<1>2. Spec => SqlSpec
  BY <1>1, ConsoleStepSqlEditor, ConsoleSearchTyped, PTL DEF Spec, SqlSpec
<1> QED
  BY <1>2, ShownWasRecorded, PTL

-----------------------------------------------------------------------------
(***************************************************************************)
(* The catalog within the console.                                         *)
(***************************************************************************)

\* A change of path opens the catalog, leaves it or does not touch it.
LEMMA NavigateCatalog ==
  ASSUME NEW path, NEW carried, navigate(path, carried)
  PROVE  [CatalogNext]_catalogVars
BY DEF navigate, screenVars, ToCatalog, CatalogNext

\* A step of the console is a step of the catalog or does not touch it.
LEMMA ConsoleStepCatalog ==
  ASSUME [Next]_vars PROVE [CatalogNext]_catalogVars
<1>1. CASE \E path \in Routes : LoadPage(path) \/ FollowLink(path)
  BY <1>1, NavigateCatalog DEF LoadPage, FollowLink
<1>2. CASE \E i \in DOMAIN Listed(search) : OpenResult(i)
  BY <1>2, NavigateCatalog DEF OpenResult
<1>3. CASE LeavePage
  BY <1>3, NavigateCatalog DEF LeavePage
<1>4. CASE InCatalog
  BY <1>4 DEF InCatalog, CatalogNext
<1>5. CASE InSearch \/ InDashboards \/ InSqlEditor \/ InInfrastructure
           \/ UNCHANGED vars
  BY <1>5 DEF InSearch, InDashboards, InSqlEditor, InInfrastructure,
              screenVars, vars
<1> QED
  BY <1>1, <1>2, <1>3, <1>4, <1>5 DEF Next

\* The catalog is well typed (useTablePreview.ts, useLakeCatalog.ts).
LEMMA ConsoleCatalogTyped == Spec => []CatalogTypeOK
<1>1. Init => CatalogTypeOK
  BY FoldedIsTyped
  DEF Init, CatalogInit, CatalogTypeOK, Fetches, Preview, Inventory
<1> QED
  BY <1>1, ConsoleStepCatalog, CatalogStepTyped, PTL DEF Spec

-----------------------------------------------------------------------------
(***************************************************************************)
(* One screen at a time. Each screen is open exactly while the path is its *)
(* own: a change of path closes the one and opens the other in one step,   *)
(* and what happens on a screen does not close it.                         *)
(***************************************************************************)
Paths == Routes \cup {Away}

Shows ==
  /\ screen \in Paths /\ given \in Handed(screen)
  /\ overview # Closed <=> screen = "/dashboards"
  /\ editor.open <=> screen = "/sql-editor"
  /\ health.st # "closed" <=> screen = "/infrastructure"
  /\ schema # "closed" <=> screen = "/data-catalog"

\* What a component is when it is mounted, and when it is not.
LEMMA OpenedIsOpen ==
  /\ EditorClosed.open = FALSE /\ HealthClosed.st = "closed"
  /\ \A text :
       [EditorClosed EXCEPT !.open = TRUE, !.sql = text].open = TRUE
  /\ [HealthClosed EXCEPT !.st = "loading"].st = "loading"
  /\ \A look :
       [HealthClosed EXCEPT !.st = "ok", !.shown = look].st = "ok"
<1>1. /\ EditorClosed.open = FALSE
      /\ \A text :
           [EditorClosed EXCEPT !.open = TRUE, !.sql = text].open = TRUE
  BY DEF EditorClosed
<1>2. /\ HealthClosed.st = "closed"
      /\ [HealthClosed EXCEPT !.st = "loading"].st = "loading"
  BY DEF HealthClosed
<1>3. \A look : [HealthClosed EXCEPT !.st = "ok", !.shown = look].st = "ok"
  BY DEF HealthClosed
<1> QED
  BY <1>1, <1>2, <1>3

\* A change of path, screen by screen.
LEMMA NavigateShows ==
  ASSUME Shows, NEW path \in Paths, NEW carried \in Handed(path),
         navigate(path, carried)
  PROVE  Shows'
<1>1. CASE path = screen /\ UNCHANGED screenVars
  BY <1>1 DEF Shows, screenVars, dashVars, sqlVars, infraVars, catalogVars
<1>2. CASE path # screen /\ screen' = path /\ given' = carried
  <2>0. /\ ToDashboards(path) /\ ToSqlEditor(path, carried)
        /\ ToInfrastructure(path) /\ ToCatalog(path)
    BY <1>2 DEF navigate, screenVars
  <2>1. overview' # Closed <=> path = "/dashboards"
    <3>1. Closed \notin Answers
      BY DEF Closed, Answers
    <3> QED
      BY <1>2, <2>0, <3>1
      DEF Shows, ToDashboards, OpenDashboards, LeaveDashboards, dashVars
  <2>2. editor'.open <=> path = "/sql-editor"
    <3>1. CASE path = "/sql-editor"
      <4>1. PICK text : OpenEditor(text)
        BY <1>2, <2>0, <3>1 DEF Shows, ToSqlEditor, OpenEditor
      <4> QED
        BY <3>1, <4>1, OpenedIsOpen DEF OpenEditor
    <3>2. CASE screen = "/sql-editor"
      <4>1. LeaveEditor
        BY <1>2, <2>0, <3>2 DEF ToSqlEditor
      <4> QED
        BY <1>2, <3>2, <4>1, OpenedIsOpen DEF LeaveEditor
    <3>3. CASE "/sql-editor" \notin {path, screen}
      <4>1. editor' = editor
        BY <2>0, <3>3 DEF ToSqlEditor, sqlVars
      <4>2. ~ editor.open
        BY <3>3 DEF Shows
      <4> QED
        BY <3>3, <4>1, <4>2
    <3> QED
      BY <3>1, <3>2, <3>3
  <2>3. health'.st # "closed" <=> path = "/infrastructure"
    <3>1. CASE path = "/infrastructure"
      <4>1. OpenInfrastructure
        BY <1>2, <2>0, <3>1 DEF Shows, ToInfrastructure
      <4> QED
        BY <3>1, <4>1, OpenedIsOpen DEF OpenInfrastructure
    <3>2. CASE screen = "/infrastructure"
      <4>1. LeaveInfrastructure
        BY <1>2, <2>0, <3>2 DEF ToInfrastructure
      <4> QED
        BY <1>2, <3>2, <4>1, OpenedIsOpen DEF LeaveInfrastructure
    <3>3. CASE "/infrastructure" \notin {path, screen}
      BY <2>0, <3>3 DEF Shows, ToInfrastructure, infraVars
    <3> QED
      BY <3>1, <3>2, <3>3
  <2>4. schema' # "closed" <=> path = "/data-catalog"
    BY <1>2, <2>0
    DEF Shows, ToCatalog, OpenCatalog, LeaveCatalog, catalogVars
  <2> QED
    BY <1>2, <2>1, <2>2, <2>3, <2>4 DEF Shows
<1> QED
  BY <1>1, <1>2 DEF navigate

\* What happens on a screen leaves it open, and leaves a closed one closed.
LEMMA DashStepStays ==
  ASSUME DashStep PROVE overview' # Closed <=> overview # Closed
<1>1. CASE fetchOverview \/ OverviewFails
  BY <1>1 DEF fetchOverview, OverviewFails, Closed
<1>2. CASE overview' = overview
  BY <1>2
<1> QED
  BY <1>1, <1>2
  DEF DashStep, MouseDown, MouseMove, MouseLeave, MouseUp, ResetZoom

LEMMA SqlStepStays ==
  ASSUME SqlTypeOK, SqlStep PROVE editor'.open <=> editor.open
<1>1. editor \in Editor
  BY DEF SqlTypeOK, Editor
<1>2. ASSUME NEW i \in DOMAIN entries, SelectEntry(i)
      PROVE  editor'.open <=> editor.open
  BY <1>1, <1>2 DEF SelectEntry, Editor
<1>3. CASE TypeSql \/ InsertTable \/ ClearHistory
  BY <1>1, <1>3 DEF TypeSql, InsertTable, ClearHistory, Editor
<1>4. CASE handleRun \/ TransportFails
  BY <1>1, <1>4 DEF handleRun, TransportFails, Editor
<1>5. CASE Answered
  BY <1>1, <1>5 DEF Answered, Editor
<1> QED
  BY <1>2, <1>3, <1>4, <1>5 DEF SqlStep

LEMMA InfraStepStays ==
  ASSUME InfraTypeOK, InfraStep
  PROVE  health'.st # "closed" <=> health.st # "closed"
<1>1. health \in [st : {"closed", "loading", "error", "ok"}, shown : Looks, fetch : Fetch]
  BY DEF InfraTypeOK
<1>2. ASSUME fetchSummary \/ \E s \in Services : CheckNext(s)
      PROVE  health'.st = health.st
  BY <1>1, <1>2 DEF fetchSummary, CheckNext
<1>3. CASE SummaryArrives \/ SummaryFails
  <2>1. CASE SummaryArrives
    BY <2>1 DEF SummaryArrives, InfraUp
  <2>2. CASE SummaryFails
    <3>1. PICK st \in {"loading", "error", "ok"} :
            health' = [health EXCEPT !.fetch = NoAnswer, !.st = st]
      BY <1>1, <2>2 DEF SummaryFails, InfraUp
    <3>2. health'.st = st
      BY <1>1, <3>1
    <3> QED
      BY <2>2, <3>2 DEF SummaryFails, InfraUp
  <2> QED
    BY <1>3, <2>1, <2>2
<1>4. ASSUME NEW s \in Services, ActionAnswered(s) \/ ActionFails(s)
      PROVE  health'.st = health.st
  BY <1>1, <1>4 DEF ActionAnswered, ActionFails, Invalidated
<1>5. ASSUME NEW s \in Services,
             \/ \E action \in Actions : Press(s, action)
             \/ perform(s) \/ CheckOne(s) \/ ContainerChanges(s)
      PROVE  health' = health
  BY <1>5 DEF Press, perform, CheckOne, ContainerChanges
<1> QED
  BY <1>2, <1>3, <1>4, <1>5 DEF InfraStep

LEMMA CatalogStepStays ==
  ASSUME CatalogStep PROVE schema' # "closed" <=> schema # "closed"
BY DEF CatalogStep, SchemaAnswered, LakeAnswered, ToggleLayer, handleToggle,
       PreviewAnswered, PreviewFails, CatalogUp

\* Every step keeps one screen open.
LEMMA ConsoleStepShows ==
  ASSUME Shows, SearchInv, SqlTypeOK, InfraTypeOK, [Next]_vars PROVE Shows'
<1>1. CASE \E path \in Routes : LoadPage(path) \/ FollowLink(path)
  BY <1>1, NavigateShows DEF LoadPage, FollowLink, Paths
<1>2. CASE \E i \in DOMAIN Listed(search) : OpenResult(i)
  BY <1>2, NavigateShows, RowsAreHanded DEF OpenResult, Paths
<1>3. CASE LeavePage
  BY <1>3, NavigateShows, RowsAreHanded DEF LeavePage, Paths
<1>4. CASE InDashboards
  BY <1>4, DashStepStays
  DEF InDashboards, Shows, sqlVars, infraVars, catalogVars
<1>5. CASE InSqlEditor
  BY <1>5, SqlStepStays
  DEF InSqlEditor, Shows, dashVars, infraVars, catalogVars
<1>6. CASE InInfrastructure
  BY <1>6, InfraStepStays
  DEF InInfrastructure, Shows, dashVars, sqlVars, catalogVars
<1>7. CASE InCatalog
  BY <1>7, CatalogStepStays
  DEF InCatalog, Shows, dashVars, sqlVars, infraVars
<1>8. CASE InSearch \/ UNCHANGED vars
  BY <1>8
  DEF InSearch, vars, Shows, screenVars, dashVars, sqlVars, infraVars,
      catalogVars
<1> QED
  BY <1>1, <1>2, <1>3, <1>4, <1>5, <1>6, <1>7, <1>8 DEF Next

\* The console as a whole: every screen is well typed, and only the one that
\* is shown has a state, so a visit never begins with what another visit left
\* in a component (router.tsx:18-34).
THEOREM ConsoleTyped == Spec => []TypeOK
<1>1. Spec => []DashInv
  BY ConsoleHasDashboards, DashInvariant, PTL
<1>2. Spec => []InfraInv
  <2>1. Init => InfraInit
    BY DEF Init
  <2> QED
    BY <2>1, ConsoleStepInfrastructure, InfraInvariant, PTL
    DEF Spec, InfraSpec
<1>3. Spec => []SqlInv
  <2>1. Init => SqlInit
    BY DEF Init
  <2> QED
    BY <2>1, ConsoleStepSqlEditor, ConsoleSearchTyped, SqlInvariant, PTL
    DEF Spec, SqlSpec
<1>4. SqlInv => SqlTypeOK
  BY DEF SqlInv
<1>5. InfraInv => InfraTypeOK
  BY DEF InfraInv
<1>6. Init => Shows
  <2> SUFFICES ASSUME Init PROVE Shows
    OBVIOUS
  <2>1. screen = Away /\ given = "" /\ overview = Closed /\ schema = "closed"
        /\ ~ editor.open /\ health.st = "closed"
    BY OpenedIsOpen DEF Init, DashInit, SqlInit, InfraInit, CatalogInit
  <2> QED
    BY <2>1, RowsAreHanded DEF Shows, Paths, Away
<1>7. Spec => []Shows
  BY <1>2, <1>3, <1>4, <1>5, <1>6, ConsoleStepShows, ConsoleSearchTyped, PTL
  DEF Spec
<1>8. SearchInv => SearchTypeOK
  BY DEF SearchInv, Field, SearchTypeOK
<1>9. DashInv => DashTypeOK
  <2>1. ASSUME NEW z \in Zooms PROVE z = None \/ z \in Nat \X Nat
    BY DEF Zooms
  <2>2. ASSUME NEW d \in Drags PROVE d = None \/ d \in Nat \X Nat
    BY DEF Drags
  <2> QED
    BY <2>1, <2>2 DEF DashInv, Charts, DashTypeOK
<1>10. Shows /\ SearchTypeOK /\ DashTypeOK /\ SqlTypeOK /\ InfraTypeOK
         /\ CatalogTypeOK => TypeOK
  BY DEF Shows, Paths, TypeOK
<1> QED
  BY <1>1, <1>2, <1>3, <1>4, <1>5, <1>7, <1>8, <1>9, <1>10,
     ConsoleSearchTyped, ConsoleCatalogTyped, PTL

-----------------------------------------------------------------------------
(***************************************************************************)
(* What Enter opens. The lists are one sequence for the highlight, and the *)
(* row the user aimed at keeps its place in it while no list at or above   *)
(* it is answered: an answer below it changes only what comes after.       *)
(***************************************************************************)
Full(s) == Static[s.query] \o s.tables \o s.runs

Holds(s) ==
  LET i == s.highlighted + 1
  IN  s.aim # NoAim => /\ s.query \in Terms
                       /\ i \in DOMAIN Full(s) /\ Full(s)[i] = s.aim.row
                       /\ ListOf(s, i) = s.aim.list

AimInv == Holds(search)

\* What is appended to a list leaves its rows where they are.
LEMMA FrontStays ==
  ASSUME NEW x \in Seq(Row), NEW y \in Seq(Row), NEW i \in 1..Len(x)
  PROVE  i \in DOMAIN (x \o y) /\ (x \o y)[i] = x[i]
BY ConcatProperties, LenProperties

LEMMA NoneInEmpty ==
  ASSUME NEW x \in Seq(Row), x = <<>> PROVE DOMAIN x = {}
BY LenProperties, EmptySeq

LEMMA ListedIsFull ==
  ASSUME NEW s \in Field, NEW i \in DOMAIN Listed(s)
  PROVE  s.query \in Terms /\ s.focused /\ Listed(s) = Full(s)
<1>1. s.focused /\ s.query # ""
  <2> SUFFICES ASSUME Listed(s) = <<>> PROVE FALSE
    BY DEF Listed
  <2>1. DOMAIN Listed(s) = {}
    BY ListedAreRows, NoneInEmpty
  <2> QED
    BY Zenon, <2>1
<1> QED
  BY <1>1 DEF Listed, Full, Field

\* Whoever aims, aims at the row under the highlight.
LEMMA AimedHolds == ASSUME NEW s \in Field PROVE Holds(Aimed(s))
<1> DEFINE i == s.highlighted + 1
<1>1. CASE i \in DOMAIN Listed(s)
  <2>1. Aimed(s).aim = [list |-> ListOf(s, i), row |-> Listed(s)[i]]
    BY <1>1 DEF Aimed, Field
  <2>2. ListOf(Aimed(s), i) = ListOf(s, i) /\ Full(Aimed(s)) = Full(s)
    BY AimedIsField DEF ListOf, Full
  <2> QED
    BY <1>1, <2>1, <2>2, AimedIsField, ListedIsFull DEF Holds
<1>2. CASE i \notin DOMAIN Listed(s)
  BY <1>2 DEF Aimed, Field, Holds
<1> QED
  BY <1>1, <1>2

LEMMA FrontIsShorter ==
  ASSUME NEW x \in Seq(Row), NEW y \in Seq(Row)
  PROVE  /\ x \o y \in Seq(Row)
         /\ Len(x) \in Nat /\ Len(x \o y) \in Nat /\ Len(x) <= Len(x \o y)
BY ConcatProperties, LenProperties

LEMMA ListsOf ==
  ASSUME NEW s \in Field, s.query \in Terms
  PROVE  /\ Static[s.query] \in Seq(Row)
         /\ s.tables \in Seq(Row) /\ s.runs \in Seq(Row)
         /\ Static[s.query] \o s.tables \in Seq(Row)
         /\ Len(Static[s.query] \o s.tables) = Len(Static[s.query]) + Len(s.tables)
         /\ Len(Static[s.query]) \in Nat /\ Len(s.tables) \in Nat
         /\ Len(Static[s.query] \o s.tables) \in Nat
         /\ Len(Static[s.query]) <= Len(Static[s.query] \o s.tables)
<1>1. Static \in [Terms -> Seq(Row)]
  BY Zenon, SearchAssumption DEF SearchAssumption
<1>2. Static[s.query] \in Seq(Row) /\ s.tables \in Seq(Row) /\ s.runs \in Seq(Row)
  BY <1>1, ListsAreRows DEF Field
<1>3. Len(Static[s.query] \o s.tables) = Len(Static[s.query]) + Len(s.tables)
  BY <1>2, ConcatProperties
<1>4. Len(s.tables) \in Nat
  BY <1>2, LenProperties
<1> QED
  BY <1>2, <1>3, <1>4, FrontIsShorter

\* The lists a row may be in, by its place.
LEMMA ListOfIs ==
  ASSUME NEW s \in Field, s.query \in Terms, NEW i \in Nat
  PROVE  /\ ListOf(s, i) = "static" <=> i <= Len(Static[s.query])
         /\ ListOf(s, i) \in {"static", "tables"}
              <=> i <= Len(Static[s.query] \o s.tables)
<1>1. /\ Len(Static[s.query] \o s.tables) = Len(Static[s.query]) + Len(s.tables)
      /\ Len(Static[s.query]) \in Nat /\ Len(s.tables) \in Nat
  BY ListsOf
<1>2. ASSUME NEW a \in Nat, NEW b \in Nat,
             Len(Static[s.query]) = a, Len(s.tables) = b
      PROVE  /\ ListOf(s, i) = "static" <=> i <= a
             /\ ListOf(s, i) \in {"static", "tables"} <=> i <= a + b
  BY <1>2 DEF ListOf
<1> QED
  BY <1>1, <1>2

LEMMA InRange ==
  ASSUME NEW n \in Nat, NEW k \in Nat, k >= 1, k <= n PROVE k \in 1..n
OBVIOUS

\* The highlight is a place of the lists.
LEMMA HighlightIsNat ==
  ASSUME NEW s \in Field
  PROVE  s.highlighted + 1 \in Nat /\ s.highlighted + 1 >= 1
<1>1. s.highlighted \in Nat
  BY DEF Field
<1> QED
  BY <1>1

LEMMA TablesKeepAim ==
  ASSUME search \in Field, AimInv, TablesArrive PROVE AimInv'
<1>1. PICK ts \in TableLists :
        search' = [search EXCEPT !.tables = ts, !.aim = AimIf({"static"})]
  BY DEF TablesArrive
<1>2. search' \in Field
  BY <1>1 DEF AimIf, Field, Aims
<1> SUFFICES ASSUME search'.aim # NoAim PROVE AimInv'
  BY DEF AimInv, Holds
<1> DEFINE i == search.highlighted + 1
<1>3. /\ search.aim # NoAim /\ search.aim.list = "static"
      /\ search'.aim = search.aim /\ search'.query = search.query
      /\ search'.highlighted = search.highlighted
  BY <1>1 DEF AimIf, Field
<1>4. search.query \in Terms /\ ListOf(search, i) = "static"
      /\ Full(search)[i] = search.aim.row
  BY <1>3 DEF AimInv, Holds
<1>5. i \in 1..Len(Static[search.query])
  <2>1. i \in Nat /\ i >= 1
    BY HighlightIsNat
  <2>2. i <= Len(Static[search.query]) /\ Len(Static[search.query]) \in Nat
    BY <1>4, <2>1, ListOfIs, ListsOf
  <2> QED
    BY <2>1, <2>2
<1>6. ASSUME NEW s \in Field, s.query = search.query
      PROVE  i \in DOMAIN Full(s) /\ Full(s)[i] = Static[search.query][i]
  <2> DEFINE above == Static[s.query] \o s.tables
  <2>0. /\ Static[s.query] \in Seq(Row) /\ s.tables \in Seq(Row)
        /\ s.runs \in Seq(Row) /\ above \in Seq(Row)
        /\ Len(above) = Len(Static[s.query]) + Len(s.tables)
        /\ Len(Static[s.query]) \in Nat /\ Len(above) \in Nat
        /\ Len(Static[s.query]) <= Len(above)
    BY <1>4, <1>6, ListsOf
  <2>1. i \in 1..Len(Static[s.query]) /\ i \in 1..Len(above)
    <3>1. i \in 1..Len(Static[s.query])
      BY <1>5, <1>6
    <3>2. i \in Nat /\ i >= 1 /\ i <= Len(Static[s.query])
      BY <2>0, <3>1
    <3>3. ASSUME NEW a \in Nat, NEW b \in Nat, i <= a, a <= b PROVE i <= b
      BY <3>2, <3>3
    <3> QED
      BY <2>0, <3>1, <3>2, <3>3, InRange
  <2>2. above[i] = Static[s.query][i]
    BY <2>0, <2>1, FrontStays
  <2>3. i \in DOMAIN (above \o s.runs) /\ (above \o s.runs)[i] = above[i]
    <3> HIDE DEF above
    <3> QED
      BY <2>0, <2>1, FrontStays
  <2> QED
    BY <1>6, <2>2, <2>3 DEF Full
<1>7. ListOf(search', i) = "static"
  <2>1. i <= Len(Static[search.query]) /\ i \in Nat
    BY <1>5, HighlightIsNat
  <2> QED
    BY <1>2, <1>3, <1>4, <2>1, ListOfIs
<1> QED
  BY <1>2, <1>3, <1>4, <1>6, <1>7 DEF AimInv, Holds

LEMMA RunsKeepAim ==
  ASSUME search \in Field, AimInv, RunsArrive PROVE AimInv'
<1>1. PICK rs \in RunLists :
        search' = [search EXCEPT !.runs = rs, !.aim = AimIf({"static", "tables"})]
  BY DEF RunsArrive
<1>2. search' \in Field
  BY <1>1 DEF AimIf, Field, Aims
<1> SUFFICES ASSUME search'.aim # NoAim PROVE AimInv'
  BY DEF AimInv, Holds
<1> DEFINE i == search.highlighted + 1
           above == Static[search.query] \o search.tables
<1>3. /\ search.aim # NoAim /\ search.aim.list \in {"static", "tables"}
      /\ search'.aim = search.aim /\ search'.query = search.query
      /\ search'.highlighted = search.highlighted
      /\ search'.tables = search.tables
  BY <1>1 DEF AimIf, Field
<1>4. search.query \in Terms /\ ListOf(search, i) \in {"static", "tables"}
      /\ Full(search)[i] = search.aim.row
      /\ ListOf(search, i) = search.aim.list
  BY <1>3 DEF AimInv, Holds
<1>5. i \in 1..Len(above)
  <2>1. i \in Nat /\ i >= 1
    BY HighlightIsNat
  <2>2. Len(above) \in Nat
    BY <1>4, ListsOf
  <2>3. i <= Len(above)
    BY <1>4, <2>1, ListOfIs
  <2> QED
    BY <2>1, <2>2, <2>3, InRange
<1>6. ASSUME NEW s \in Field, s.query = search.query, s.tables = search.tables
      PROVE  i \in DOMAIN Full(s) /\ Full(s)[i] = above[i]
  <2>1. above \in Seq(Row) /\ s.runs \in Seq(Row)
    BY <1>4, <1>6, ListsOf
  <2>2. i \in DOMAIN (above \o s.runs) /\ (above \o s.runs)[i] = above[i]
    <3> HIDE DEF i, above
    <3> QED
      BY <1>5, <2>1, FrontStays
  <2> QED
    BY <1>6, <2>2 DEF Full
<1>7. ListOf(search', i) = ListOf(search, i)
  BY <1>3 DEF ListOf
<1> QED
  BY <1>2, <1>3, <1>4, <1>6, <1>7 DEF AimInv, Holds

LEMMA SearchStepKeepsAim ==
  ASSUME search \in Field, AimInv, SearchStep PROVE AimInv'
<1>1. CASE Focus \/ Blur
  BY <1>1 DEF Focus, Blur, AimInv, Holds, Full, ListOf, Field
<1>2. CASE Type
  <2>1. PICK term \in Terms \ {search.query}, ts \in TableLists, rs \in RunLists :
          search' = Aimed([search EXCEPT !.query = term, !.highlighted = 0,
                                         !.tables = ts, !.runs = rs])
    BY <1>2 DEF Type
  <2>2. [search EXCEPT !.query = term, !.highlighted = 0,
                       !.tables = ts, !.runs = rs] \in Field
    BY <2>1 DEF Field
  <2> QED
    BY <2>1, <2>2, AimedHolds DEF AimInv
<1>3. CASE Clear \/ Escape
  <2>1. ASSUME NEW b \in Field PROVE [b EXCEPT !.focused = TRUE].aim = b.aim
    BY DEF Field
  <2>2. Blank.aim = NoAim
    BY DEF Blank
  <2>3. search'.aim = NoAim
    BY <1>3, <2>1, <2>2, BlankIsField DEF Clear, Escape
  <2> QED
    BY <2>3 DEF AimInv, Holds
<1>4. ASSUME NEW by \in {-1, 1}, Arrow(by) PROVE AimInv'
  <2> DEFINE n == Len(Listed(search))
  <2>1. n \in Nat /\ n > 0 /\ search.highlighted \in Nat
    BY <1>4, ListedAreRows, LenProperties DEF Arrow, Field
  <2>2. (search.highlighted + by + n) % n \in Nat
    BY <2>1
  <2>3. [search EXCEPT !.highlighted = (@ + by + n) % n] \in Field
    BY <2>2 DEF Field
  <2> QED
    BY <1>4, <2>3, AimedHolds DEF Arrow, AimInv
<1>5. ASSUME NEW i \in DOMAIN Listed(search), Hover(i) PROVE AimInv'
  <2>1. i \in Nat /\ i - 1 \in Nat
    BY ListedAreRows, LenProperties
  <2>2. [search EXCEPT !.highlighted = i - 1] \in Field
    BY <2>1 DEF Field
  <2> QED
    BY <1>5, <2>2, AimedHolds DEF Hover, AimInv
<1> QED
  BY <1>1, <1>2, <1>3, <1>4, <1>5, TablesKeepAim, RunsKeepAim DEF SearchStep

\* The row that was aimed at is under the highlight still (SearchBar.tsx:28-35).
LEMMA ConsoleKeepsAim == Spec => []AimInv
<1>1. Blank.aim = NoAim
  BY DEF Blank
<1>2. Init => AimInv
  BY <1>1 DEF Init, SearchInit, AimInv, Holds
<1>3. SearchInv /\ AimInv /\ [Next]_vars => AimInv'
  <2> SUFFICES ASSUME SearchInv, AimInv, [Next]_vars PROVE AimInv'
    OBVIOUS
  <2>1. CASE InSearch
    BY <2>1, SearchStepKeepsAim DEF InSearch, SearchInv
  <2>2. CASE search' = Blank
    BY <1>1, <2>2 DEF AimInv, Holds
  <2>3. CASE search' = search
    BY <2>3 DEF AimInv
  <2> QED
    BY <2>1, <2>2, <2>3 DEF Next, LoadPage, FollowLink, OpenResult, select,
       LeavePage, InDashboards, InSqlEditor, InInfrastructure, InCatalog, vars
<1> QED
  BY <1>2, <1>3, ConsoleSearchTyped, PTL DEF Spec

\* A row that is opened hands its screen what it carries.
LEMMA ResultLands ==
  ASSUME NEW i, OpenResult(i)
  PROVE  LET row == Listed(search)[i]
         IN  /\ screen' = row.to
             /\ screen' # screen =>
                  /\ given' = row.carries
                  /\ row.to = "/sql-editor" => editor'.sql = FirstText(row.carries)
<1> DEFINE row == Listed(search)[i]
<1>1. navigate(row.to, row.carries) /\ screen' = row.to
  BY DEF OpenResult, navigate, screenVars
<1>2. ASSUME screen' # screen
      PROVE  given' = row.carries /\ ToSqlEditor(row.to, row.carries)
  BY <1>1, <1>2 DEF navigate, screenVars
<1>3. ASSUME screen' # screen, row.to = "/sql-editor"
      PROVE  editor'.sql = FirstText(row.carries)
  <2>1. OpenEditor(FirstText(row.carries))
    BY <1>1, <1>2, <1>3 DEF ToSqlEditor
  <2> QED
    BY <2>1 DEF OpenEditor, EditorClosed
<1> QED
  BY <1>1, <1>2, <1>3

\* Enter opens the row that was highlighted when the user last aimed, whatever
\* was answered below it since, and hands over what that row carries
\* (SearchBar.tsx:28-35 and 48-71).
THEOREM HighlightOpens == Spec => HighlightedIsOpened
<1>1. ASSUME SearchInv, AimInv, Enter, search.aim # NoAim
      PROVE  Listed(search)[search.highlighted + 1] = search.aim.row
  <2>1. search.highlighted + 1 \in DOMAIN Listed(search)
    BY <1>1 DEF Enter, OpenResult, select
  <2> QED
    BY <1>1, <2>1, ListedIsFull DEF SearchInv, AimInv, Holds
<1>2. SearchInv /\ AimInv /\ [Next]_vars =>
        [search.aim # NoAim /\ Enter
         => LET row == search.aim.row
            IN  /\ screen' = row.to
                /\ screen' # screen =>
                     /\ given' = row.carries
                     /\ row.to = "/sql-editor" =>
                          editor'.sql = FirstText(row.carries)]_vars
  BY <1>1, ResultLands DEF Enter
<1> QED
  BY <1>2, ConsoleSearchTyped, ConsoleKeepsAim, PTL DEF Spec, HighlightedIsOpened
=============================================================================
