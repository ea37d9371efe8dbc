------------------------ MODULE PipelinesScreenProofs ------------------------
(***************************************************************************)
(* For any stages, pages, mounts, clicks and faults: the screen shows and  *)
(* the chains hold only runs there are, and a chain asks for a stage only  *)
(* when the stages before it ended with data.                              *)
(*                                                                         *)
(* That a stage has ended does not make ChainInOrder inductive: the worker *)
(* writes its result over whatever the row says, so a row could still      *)
(* leave the state the chain has seen. It does not, because a run that     *)
(* produced something is no longer in the worker's hands (RunsInv); and    *)
(* the answer a chain waits for is of the stage it is at (ChainInv).       *)
(***************************************************************************)
EXTENDS PipelinesScreen, FiniteSetTheorems, SequenceTheorems,
        WellFoundedInduction, TLAPS

Produced == {"succeeded", "partial"}

\* Runs are numbered in the order they are submitted, newest first.
RunAt(id) == runs[made + 1 - id]

RunsInv ==
  /\ runs \in Seq(Run) /\ made = Len(runs)
  /\ \A i \in DOMAIN runs :
       /\ runs[i].id = made + 1 - i
       /\ runs[i].taken => runs[i].state \in {"running", "cancelled"}

\* A page as ListRuns may have answered it when there were m runs.
PagesOf(m) ==
  {page \in Pages : /\ Len(page.rows) <= PageSize
                    /\ \A i \in DOMAIN page.rows : page.rows[i].id \in 1..m}

ScreenOf(m) == {u \in Screen : u.selected <= m}

\* A trigger names a job, and the numbers of triggers are used once.
PostsInv ==
  /\ posts \subseteq Request /\ sent \in Nat
  /\ \A p \in posts :
       p.n <= sent /\ (p.n # 0 => p.job \in JOB_CATALOG \cup {"reset"})

ChainInv(c) ==
  /\ c \in Chain /\ c.at <= sent /\ c.inst <= ui.inst
  /\ Len(c.ran) = IF c.at = 0 THEN c.step ELSE c.step - 1
  /\ Here(c.inst) => runAllActive
  /\ \A p \in posts :
       c.at # 0 /\ p.n = c.at => p.job = PIPELINE_ORDER[c.step]
  /\ \A i \in DOMAIN c.ran :
       c.ran[i] \in 1..made /\ RunAt(c.ran[i]).job = PIPELINE_ORDER[i]
  /\ \A i \in 1..(c.step - 1) : RunAt(c.ran[i]).state \in Produced

OneChain == \A c, d \in chains : c.inst = d.inst => c = d

ChainsInv == (\A c \in chains : ChainInv(c)) /\ OneChain

PipelinesInv ==
  /\ RunsInv
  /\ pages \in [PageNrs -> PagesOf(made)]
  /\ ui \in ScreenOf(made)
  /\ PostsInv
  /\ ChainsInv
  /\ faults \in 0..MaxFaults /\ presses \in 0..MaxPresses

-----------------------------------------------------------------------------
(***************************************************************************)
(* Constants, and numbers.                                                 *)
(***************************************************************************)
LEMMA PipelinesConstants ==
  /\ Len(PIPELINE_ORDER) \in Nat \ {0} /\ 1 \in Steps
  /\ Steps \subseteq Nat \ {0}
  /\ \A i \in Steps : PIPELINE_ORDER[i] \in JOB_CATALOG
  /\ PageSize \in Nat \ {0} /\ MaxFaults \in Nat /\ MaxPresses \in Nat
  /\ MaxMounts \in Nat /\ 0 \in PageNrs /\ PageNrs \subseteq Nat
<1>1. Len(PIPELINE_ORDER) \in Nat \ {0}
  BY PipelinesAssumption DEF PipelinesAssumption
<1>2. MaxRuns \div PageSize \in Nat
  BY PipelinesAssumption DEF PipelinesAssumption
<1> QED
  BY <1>1, <1>2, PipelinesAssumption
  DEF PipelinesAssumption, Steps, JOB_CATALOG, PageNrs

\* What the arithmetic of pages needs of the constants.
LEMMA PageIsNotEmpty == PageSize \in Nat /\ PageSize > 0
BY PipelinesConstants

\* A set of natural numbers that is not empty has a least element.
LEMMA LeastElement ==
  ASSUME NEW T \in SUBSET Nat, T # {}
  PROVE  \E x \in T : \A y \in T : x <= y
<1>1. PICK x \in T : \A y \in T : ~ (<<y, x>> \in OpToRel(<, Nat))
  BY Zenon, NatLessThanWellFounded, WFMin
<1>2. \A y \in T : ~ (y < x)
  BY <1>1 DEF OpToRel
<1> QED
  BY <1>2

-----------------------------------------------------------------------------
(***************************************************************************)
(* The history: what ListRuns answers.                                     *)
(***************************************************************************)
LEMMA KeptIsFinite ==
  ASSUME RunsInv
  PROVE  /\ made \in Nat /\ DOMAIN runs = 1..made /\ Kept \subseteq 1..made
         /\ \A S \in SUBSET Kept : IsFiniteSet(S) /\ Cardinality(S) \in Nat
<1>1. made \in Nat /\ DOMAIN runs = 1..made /\ Kept \subseteq 1..made
  BY DEF RunsInv, Kept
<1>2. IsFiniteSet(1..made)
  BY <1>1, FS_Interval
<1>3. ASSUME NEW S \in SUBSET Kept
      PROVE  IsFiniteSet(S) /\ Cardinality(S) \in Nat
  <2>1. IsFiniteSet(S)
    BY <1>1, <1>2, FS_Subset
  <2> QED
    BY <2>1, FS_CardinalityType
<1> QED
  BY <1>1, <1>3

\* The place of a run among those that are left is its own.
LEMMA NewerIsStrict ==
  ASSUME RunsInv, NEW i \in Kept, NEW j \in Kept, i < j
  PROVE  Newer(i) < Newer(j)
<1> DEFINE A == {k \in Kept : k < i}
           B == {k \in Kept : k < j}
<1>1. IsFiniteSet(A) /\ IsFiniteSet(B) /\ IsFiniteSet(A \cup {i})
      /\ Cardinality(A) \in Nat /\ Cardinality(B) \in Nat
  <2>1. A \cup {i} \in SUBSET Kept /\ A \in SUBSET Kept /\ B \in SUBSET Kept
    OBVIOUS
  <2> QED
    BY <2>1, KeptIsFinite
<1>2. A \cup {i} \subseteq B
  BY KeptIsFinite
<1>3. Cardinality(A \cup {i}) = Cardinality(A) + 1
  <2>1. i \notin A
    BY KeptIsFinite
  <2> QED
    BY <1>1, <2>1, FS_AddElement
<1>4. Cardinality(A \cup {i}) <= Cardinality(B)
  BY <1>1, <1>2, FS_Subset
<1> QED
  BY <1>1, <1>3, <1>4 DEF Newer

\* Every place up to their number is taken.
LEMMA PlaceIsTaken ==
  ASSUME RunsInv, NEW n \in Nat, n < Cardinality(Kept)
  PROVE  \E i \in Kept : Newer(i) = n
<1> DEFINE Upto(i) == {k \in Kept : k <= i}
           Below(i) == {k \in Kept : k < i}
           T == {i \in 0..made : n < Cardinality(Upto(i))}
<1>1. made \in Nat /\ \A k \in Kept : k \in Int /\ 1 <= k /\ k <= made
  BY KeptIsFinite
<1>2. Upto(made) = Kept /\ Upto(0) = {}
  BY <1>1
<1>3. ASSUME NEW i \in Nat, i # 0
      PROVE  /\ i - 1 \in Nat /\ Upto(i - 1) = Below(i)
             /\ IF i \in Kept
                THEN Upto(i) = Below(i) \cup {i} /\ i \notin Below(i)
                ELSE Upto(i) = Below(i)
  <2>1. \A k \in Kept : /\ k <= i - 1 <=> k < i
                        /\ k <= i <=> k < i \/ k = i
    BY <1>1
  <2>2. i - 1 \in Nat /\ ~ (i < i)
    BY <1>3
  <2>3. Upto(i - 1) = Below(i)
    BY <2>1
  <2>4. CASE i \in Kept
    BY <2>1, <2>2, <2>3, <2>4
  <2>5. CASE i \notin Kept
    BY <2>1, <2>2, <2>3, <2>5
  <2> QED
    BY <2>4, <2>5
<1>4. PICK i \in T : \A j \in T : i <= j
  <2>1. T \in SUBSET Nat /\ T # {}
    BY <1>1, <1>2
  <2> QED
    BY <2>1, LeastElement
<1>5. /\ i \in Nat /\ i <= made /\ n < Cardinality(Upto(i))
      /\ \A j \in 0..(i - 1) : ~ (n < Cardinality(Upto(j)))
  BY <1>1, <1>4
<1>6. IsFiniteSet(Below(i)) /\ Cardinality(Below(i)) \in Nat
  <2>1. Below(i) \in SUBSET Kept
    OBVIOUS
  <2> QED
    BY <2>1, KeptIsFinite
<1> HIDE DEF Upto, Below, T
<1>7. i # 0
  BY <1>2, <1>5, FS_EmptySet
<1>8. Cardinality(Below(i)) <= n
  BY <1>3, <1>5, <1>6, <1>7
<1>9. i \in Kept
  BY <1>3, <1>5, <1>6, <1>7, <1>8
<1>10. Cardinality(Upto(i)) = Cardinality(Below(i)) + 1
  BY <1>3, <1>5, <1>6, <1>7, <1>9, FS_AddElement
<1>11. Cardinality(Below(i)) = n
  BY <1>5, <1>6, <1>8, <1>10
<1> QED
  BY <1>9, <1>11 DEF Newer, Below

\* The k-th row of a page is the run with as many newer ones as the rows of
\* the pages and of the page before it.
LEMMA RowHasItsPlace ==
  ASSUME RunsInv, NEW p \in Nat, NEW k \in 1..Left(p)
  PROVE  \E i \in Kept : /\ Newer(i) = p * PageSize + k - 1
                         /\ PageRow(p, k) = RowOf(runs[i])
<1> DEFINE first == p * PageSize
<1>1. first \in Nat /\ Cardinality(Kept) \in Nat
  BY PipelinesConstants, KeptIsFinite
<1>2. /\ k \in Nat \ {0} /\ first + k - 1 \in Nat
      /\ first + k - 1 < Cardinality(Kept)
  <2> HIDE DEF first
  <2> QED
    BY <1>1 DEF Left, first
<1>3. \E i \in Kept : Newer(i) = first + k - 1
  BY <1>2, PlaceIsTaken
<1> QED
  BY <1>3 DEF PageRow

\* A page has so many rows left, maybe none.
LEMMA LeftIsNat ==
  ASSUME RunsInv, NEW p \in Nat PROVE Left(p) \in Nat
<1>1. p * PageSize \in Nat /\ Cardinality(Kept) \in Nat
  BY PipelinesConstants, KeptIsFinite
<1> QED
  BY <1>1 DEF Left

\* What ListRuns answers is a page, and its rows are runs there are.
LEMMA PageIsTyped ==
  ASSUME RunsInv, NEW p \in Nat
  PROVE  ListRuns(p) \in PagesOf(made)
<1> DEFINE n == IF Left(p) < PageSize THEN Left(p) ELSE PageSize
           rows == [k \in 1..n |-> PageRow(p, k)]
<1>1. n \in Nat /\ n <= PageSize /\ n <= Left(p) /\ Left(p) \in Nat
  BY LeftIsNat, PageIsNotEmpty
<1>2. ASSUME NEW k \in 1..n
      PROVE  PageRow(p, k) \in Row /\ PageRow(p, k).id \in 1..made
  <2>1. k \in 1..Left(p)
    BY <1>1
  <2>2. PICK i \in Kept : PageRow(p, k) = RowOf(runs[i])
    BY <2>1, RowHasItsPlace
  <2>3. i \in 1..made /\ runs[i] \in Run /\ runs[i].id = made + 1 - i
    BY KeptIsFinite DEF RunsInv
  <2>4. runs[i].id \in 1..made
    BY <2>3, KeptIsFinite
  <2> QED
    BY <2>2, <2>3, <2>4 DEF RowOf, Row, Run
<1>3. rows \in Seq(Row) /\ Len(rows) = n /\ DOMAIN rows = 1..n
  <2> HIDE DEF n
  <2> QED
    BY <1>1, <1>2, IsASeq
<1>4. ListRuns(p) = [st |-> "ok", rows |-> rows, more |-> Left(p) > PageSize]
  BY DEF ListRuns
<1> HIDE DEF rows, n
<1>5. ListRuns(p) \in Pages
  BY <1>3, <1>4 DEF Pages
<1>6. Len(ListRuns(p).rows) <= PageSize
  BY <1>1, <1>3, <1>4
<1>7. \A k \in DOMAIN ListRuns(p).rows : ListRuns(p).rows[k].id \in 1..made
  BY <1>2, <1>3, <1>4 DEF rows
<1> QED
  BY <1>5, <1>6, <1>7 DEF PagesOf
-----------------------------------------------------------------------------
(***************************************************************************)
(* Reading the history page by page.                                       *)
(***************************************************************************)
IdAt(p, k) == ListRuns(p).rows[k].id

\* A row of a page is the run at the place that the row's number says.
LEMMA RowsOfPage ==
  ASSUME RunsInv, NEW p \in Nat, NEW k \in DOMAIN ListRuns(p).rows
  PROVE  /\ k \in 1..PageSize
         /\ \E i \in Kept : /\ Newer(i) = p * PageSize + k - 1
                          /\ IdAt(p, k) = made + 1 - i
<1>0. Left(p) \in Nat /\ PageSize \in Nat
  BY LeftIsNat, PageIsNotEmpty
<1>1. /\ k \in 1..Left(p) /\ k \in 1..PageSize
      /\ ListRuns(p).rows[k] = PageRow(p, k)
  BY <1>0 DEF ListRuns
<1>2. PICK i \in Kept : /\ Newer(i) = p * PageSize + k - 1
                       /\ PageRow(p, k) = RowOf(runs[i])
  BY <1>1, RowHasItsPlace
<1>3. runs[i].id = made + 1 - i
  BY KeptIsFinite DEF RunsInv
<1> QED
  BY <1>1, <1>2, <1>3 DEF IdAt, RowOf

\* Pages read from one state of the table are in order, newest first, within
\* a page and from a page to the next, so no run is on two of them ...
LEMMA PagesInOrder ==
  ASSUME RunsInv,
         NEW p \in Nat, NEW k \in DOMAIN ListRuns(p).rows,
         NEW q \in Nat, NEW l \in DOMAIN ListRuns(q).rows,
         p < q \/ (p = q /\ k < l)
  PROVE  IdAt(q, l) < IdAt(p, k)
<1>1. PICK i \in Kept : /\ Newer(i) = p * PageSize + k - 1
                       /\ IdAt(p, k) = made + 1 - i
  BY RowsOfPage
<1>2. PICK j \in Kept : /\ Newer(j) = q * PageSize + l - 1
                       /\ IdAt(q, l) = made + 1 - j
  BY RowsOfPage
<1>3. /\ p \in Nat /\ q \in Nat /\ PageSize \in Nat
      /\ k \in 1..PageSize /\ l \in 1..PageSize
  BY PipelinesConstants, RowsOfPage
<1>4. p * PageSize + k - 1 < q * PageSize + l - 1
  <2>1. CASE p = q /\ k < l
    BY <1>3, <2>1
  <2>2. CASE p < q
    <3>1. PICK d \in Nat : q = p + 1 + d
      <4>1. q - p - 1 \in Nat
        BY <1>3, <2>2
      <4> QED
        BY <1>3, <4>1
    <3>2. q * PageSize = p * PageSize + PageSize + d * PageSize
      BY <1>3, <3>1
    <3>3. d * PageSize \in Nat /\ p * PageSize \in Nat
      BY <1>3, <3>1
    <3> DEFINE first == p * PageSize
               past == d * PageSize
               next == q * PageSize
    <3> HIDE DEF first, past, next
    <3>4. first + k - 1 < next + l - 1
      BY <1>3, <3>2, <3>3 DEF first, past, next
    <3> QED
      BY <3>4 DEF first, next
  <2> QED
    BY <2>1, <2>2
<1>5. i \in 1..made /\ j \in 1..made /\ made \in Nat
  BY KeptIsFinite
<1>6. i < j
  <2>1. SUFFICES ASSUME j <= i PROVE FALSE
    BY <1>5
  <2>2. Newer(j) <= Newer(i)
    <3>1. CASE j = i
      <4>1. Newer(i) \in Int
        BY <1>1, <1>3
      <4> QED
        BY <3>1, <4>1
    <3>2. CASE j < i
      <4>1. Newer(j) < Newer(i)
        BY <3>2, NewerIsStrict
      <4>2. Newer(j) \in Int /\ Newer(i) \in Int
        BY <1>1, <1>2, <1>3
      <4> QED
        BY <4>1, <4>2
    <3> QED
      BY <1>5, <2>1, <3>1, <3>2
  <2>3. p * PageSize + k - 1 \in Int /\ q * PageSize + l - 1 \in Int
    BY <1>3
  <2> QED
    BY <1>1, <1>2, <1>4, <2>2, <2>3
<1> QED
  BY <1>1, <1>2, <1>5, <1>6

\* ... every run that is left is on a page, and on the last page only is there
\* no more.
EveryRunListed ==
  \A i \in Kept :
    \E p \in Nat : \E k \in DOMAIN ListRuns(p).rows :
      ListRuns(p).rows[k] = RowOf(runs[i])

MoreIsNextPage ==
  \A p \in Nat : ListRuns(p).more <=> ListRuns(p + 1).rows # <<>>

OrderedPages ==
  \A p, q \in Nat :
    \A k \in DOMAIN ListRuns(p).rows, l \in DOMAIN ListRuns(q).rows :
      p < q \/ (p = q /\ k < l) => IdAt(q, l) < IdAt(p, k)

HistoryIsPaged == OrderedPages /\ EveryRunListed /\ MoreIsNextPage

\* A run that is left has a place below their number.
LEMMA NewerIsBelow ==
  ASSUME RunsInv, NEW i \in Kept
  PROVE  Newer(i) \in Nat /\ Newer(i) < Cardinality(Kept)
<1> DEFINE A == {k \in Kept : k < i}
<1>1. /\ A \in SUBSET Kept /\ i \in Kept \ A
      /\ IsFiniteSet(A) /\ IsFiniteSet(Kept)
      /\ Cardinality(A) \in Nat /\ Cardinality(Kept) \in Nat
  BY KeptIsFinite
<1>2. Cardinality(A) < Cardinality(Kept)
  <2>1. A # Kept
    BY <1>1
  <2>2. Cardinality(A) <= Cardinality(Kept)
        /\ (Cardinality(A) = Cardinality(Kept) => A = Kept)
    BY <1>1, FS_Subset
  <2> QED
    BY <1>1, <2>1, <2>2
<1> QED
  BY <1>1, <1>2 DEF Newer

\* How long a page is, in terms of what is left for it.
LEMMA PageLength ==
  ASSUME RunsInv, NEW p \in Nat
  PROVE  /\ Left(p) \in Nat
         /\ DOMAIN ListRuns(p).rows =
              1..(IF Left(p) < PageSize THEN Left(p) ELSE PageSize)
         /\ ListRuns(p).more <=> Left(p) > PageSize
         /\ \A k \in DOMAIN ListRuns(p).rows :
              ListRuns(p).rows[k] = PageRow(p, k)
         /\ (ListRuns(p).rows = <<>>) <=> (Left(p) = 0)
<1>1. Left(p) \in Nat
  BY LeftIsNat
<1>2. DOMAIN ListRuns(p).rows =
        1..(IF Left(p) < PageSize THEN Left(p) ELSE PageSize)
  BY DEF ListRuns
<1>3. /\ ListRuns(p).more <=> Left(p) > PageSize
      /\ \A k \in DOMAIN ListRuns(p).rows :
           ListRuns(p).rows[k] = PageRow(p, k)
  BY DEF ListRuns
<1>4. (ListRuns(p).rows = <<>>) <=> (Left(p) = 0)
  <2>1. ASSUME Left(p) = 0 PROVE ListRuns(p).rows = <<>>
    <3>1. ListRuns(p).rows = [k \in 1..0 |-> PageRow(p, k)]
      BY <2>1, PageIsNotEmpty DEF ListRuns
    <3> QED
      BY <3>1
  <2>2. ASSUME Left(p) # 0 PROVE ListRuns(p).rows # <<>>
    <3>1. 1 \in DOMAIN ListRuns(p).rows
      BY <1>1, <1>2, <2>2, PageIsNotEmpty
    <3> QED
      BY <3>1
  <2> QED
    BY <2>1, <2>2
<1> QED
  BY <1>1, <1>2, <1>3, <1>4

\* Every place is on a page.
LEMMA PlaceOnPage ==
  ASSUME NEW n \in Nat
  PROVE  \E p \in Nat, k \in 1..PageSize : n = p * PageSize + k - 1
<1>1. /\ n \div PageSize \in Nat /\ n % PageSize \in 0..(PageSize - 1)
      /\ n = (n \div PageSize) * PageSize + (n % PageSize)
  BY PageIsNotEmpty
<1> QED
  BY <1>1, PageIsNotEmpty

\* Every run that is left is on the page of its place.
LEMMA RunsAreListed == RunsInv => EveryRunListed
<1> SUFFICES ASSUME RunsInv, NEW i \in Kept
             PROVE  \E p \in Nat : \E k \in DOMAIN ListRuns(p).rows :
                      ListRuns(p).rows[k] = RowOf(runs[i])
  BY DEF EveryRunListed
<1>1. Newer(i) \in Nat /\ Newer(i) < Cardinality(Kept)
      /\ Cardinality(Kept) \in Nat
  BY NewerIsBelow, KeptIsFinite
<1>2. PICK p \in Nat, k \in 1..PageSize : Newer(i) = p * PageSize + k - 1
  BY <1>1, PlaceOnPage
<1>3. k \in 1..Left(p)
  <2>1. PICK first \in Nat : first = p * PageSize
    BY PageIsNotEmpty
  <2> QED
    BY <1>1, <1>2, <2>1 DEF Left
<1>4. k \in DOMAIN ListRuns(p).rows /\ ListRuns(p).rows[k] = PageRow(p, k)
  BY <1>3, PageLength, PageIsNotEmpty
<1>5. PICK j \in Kept : /\ Newer(j) = p * PageSize + k - 1
                       /\ PageRow(p, k) = RowOf(runs[j])
  BY <1>3, RowHasItsPlace
<1>6. j = i
  <2>1. i \in Nat /\ j \in Nat
    BY KeptIsFinite
  <2>2. Newer(i) = Newer(j)
    BY <1>2, <1>5
  <2>3. ~ (i < j) /\ ~ (j < i)
    BY <1>1, <2>2, NewerIsStrict
  <2> QED
    BY <2>1, <2>3
<1> QED
  BY <1>4, <1>5, <1>6

\* The extra row that is fetched tells whether there is a next page.
LEMMA MoreMeansNextPage == RunsInv => MoreIsNextPage
<1> SUFFICES ASSUME RunsInv, NEW p \in Nat
             PROVE  ListRuns(p).more <=> ListRuns(p + 1).rows # <<>>
  BY DEF MoreIsNextPage
<1>1. PICK first \in Nat : first = p * PageSize
  BY PageIsNotEmpty
<1>2. (p + 1) * PageSize = first + PageSize /\ p + 1 \in Nat
  BY <1>1, PageIsNotEmpty
<1>3. Left(p) > PageSize <=> Left(p + 1) # 0
  BY <1>1, <1>2, PageIsNotEmpty, KeptIsFinite DEF Left
<1> QED
  BY <1>2, <1>3, PageLength

-----------------------------------------------------------------------------
(***************************************************************************)
(* The server: its runs only go forward.                                   *)
(***************************************************************************)
RunsGrow ==
  /\ made \in Nat /\ made' \in Nat /\ made <= made'
  /\ \A id \in 1..made :
       /\ RunAt(id)'.job = RunAt(id).job
       /\ RunAt(id).state \in Produced => RunAt(id)'.state \in Produced

\* Nothing happens at the server.
LEMMA SameRunsGrow ==
  ASSUME RunsInv, UNCHANGED Server PROVE RunsInv' /\ RunsGrow
BY DEF RunsInv, Server, RunsGrow, RunAt

\* One row is rewritten, or all of them, by something that keeps what makes
\* the row a run: its number and its job, and what it has produced.
LEMMA RewrittenRunsGrow ==
  ASSUME RunsInv, UNCHANGED made, DOMAIN runs' = DOMAIN runs,
         runs' \in Seq(Run),
         \A i \in DOMAIN runs :
           /\ runs'[i].id = runs[i].id /\ runs'[i].job = runs[i].job
           /\ runs'[i].taken => runs'[i].state \in {"running", "cancelled"}
           /\ runs[i].state \in Produced => runs'[i].state \in Produced
  PROVE  RunsInv' /\ RunsGrow
<1>1. made \in Nat /\ DOMAIN runs = 1..made
  BY KeptIsFinite
<1>2. RunsInv'
  BY <1>1 DEF RunsInv
<1>3. \A id \in 1..made : made + 1 - id \in DOMAIN runs
  BY <1>1
<1> QED
  BY <1>1, <1>2, <1>3 DEF RunsGrow, RunAt

\* A run is added in front, and the others keep their numbers.
LEMMA SubmittedRunsGrow ==
  ASSUME RunsInv, made' = made + 1, NEW r \in Run, r.id = made + 1,
         ~ r.taken, runs' = <<r>> \o runs
  PROVE  RunsInv' /\ RunsGrow /\ \A id : id = made + 1 => RunAt(id)' = r
<1>1. made \in Nat /\ DOMAIN runs = 1..made /\ runs \in Seq(Run)
      /\ Len(runs) = made
  BY KeptIsFinite DEF RunsInv
<1>2. <<r>> \in Seq(Run) /\ Len(<<r>>) = 1 /\ <<r>>[1] = r
  OBVIOUS
<1>3. /\ runs' \in Seq(Run) /\ Len(runs') = made + 1
      /\ \A i \in 1..(made + 1) :
           runs'[i] = IF i = 1 THEN r ELSE runs[i - 1]
  <2> HIDE DEF RunsInv
  <2> QED
    BY <1>1, <1>2, ConcatProperties
<1>4. RunsInv'
  <2>1. \A i \in 2..(made + 1) : i - 1 \in DOMAIN runs
    BY <1>1
  <2>2. ASSUME NEW i \in 1..(made + 1)
        PROVE  /\ runs'[i].id = made + 2 - i
               /\ runs'[i].taken => runs'[i].state \in {"running", "cancelled"}
    <3>1. CASE i = 1
      BY <1>1, <1>3, <3>1
    <3>2. CASE i # 1
      BY <1>1, <1>3, <2>1, <3>2 DEF RunsInv
    <3> QED
      BY <3>1, <3>2
  <2> QED
    BY <1>1, <1>3, <2>2 DEF RunsInv
<1>5. ASSUME NEW id \in 1..made PROVE RunAt(id)' = RunAt(id)
  <2>1. /\ made + 2 - id \in 1..(made + 1) /\ made + 2 - id # 1
        /\ (made + 2 - id) - 1 = made + 1 - id
        /\ made' + 1 - id = made + 2 - id
    BY <1>1
  <2>2. runs'[made + 2 - id] = runs[made + 1 - id]
    BY <1>3, <2>1
  <2> QED
    BY <2>1, <2>2 DEF RunAt
<1>6. \A id : id = made + 1 => RunAt(id)' = r
  BY <1>1, <1>3 DEF RunAt
<1> QED
  BY <1>1, <1>4, <1>5, <1>6 DEF RunsGrow

\* The run with a number is where the number says.
LEMMA RunOfIsRunAt ==
  ASSUME RunsInv, NEW id \in 1..made PROVE RunOf(id) = RunAt(id)
<1>1. made \in Nat /\ DOMAIN runs = 1..made
  BY KeptIsFinite
<1>2. made + 1 - id \in DOMAIN runs /\ RunAt(id).id = id
  <2>1. made + 1 - id \in DOMAIN runs /\ made + 1 - (made + 1 - id) = id
    BY <1>1
  <2>2. runs[made + 1 - id].id = made + 1 - (made + 1 - id)
    BY <2>1 DEF RunsInv
  <2> QED
    BY <2>1, <2>2 DEF RunAt
<1>3. \A i \in DOMAIN runs : runs[i].id = id => i = made + 1 - id
  BY <1>1 DEF RunsInv
<1>4. \A r \in {runs[i] : i \in DOMAIN runs} : r.id = id => r = RunAt(id)
  BY <1>3 DEF RunAt
<1> QED
  BY <1>2, <1>4 DEF RunOf, RunAt

-----------------------------------------------------------------------------
(***************************************************************************)
(* The screen.                                                             *)
(***************************************************************************)
LEMMA MoreRunsMorePages ==
  ASSUME NEW m \in Nat, NEW n \in Nat, m <= n
  PROVE  PagesOf(m) \subseteq PagesOf(n) /\ ScreenOf(m) \subseteq ScreenOf(n)
<1>1. \A x \in 1..m : x \in 1..n
  OBVIOUS
<1>2. PagesOf(m) \subseteq PagesOf(n)
  BY <1>1 DEF PagesOf
<1>3. \A x \in Nat : x <= m => x <= n
  OBVIOUS
<1>4. \A u \in Screen : u.selected \in Nat
  BY DEF Screen
<1> QED
  BY <1>2, <1>3, <1>4 DEF ScreenOf

\* What a render selects is a run of the newest page; it changes nothing else
\* but the armed button.
LEMMA RenderIsTyped ==
  ASSUME NEW m \in Nat, NEW cache \in [PageNrs -> PagesOf(m)],
         NEW u \in ScreenOf(m)
  PROVE  /\ Rendered(u, cache) \in ScreenOf(m)
         /\ Rendered(u, cache).mounted = u.mounted
         /\ Rendered(u, cache).inst = u.inst
         /\ Rendered(u, cache).phase = u.phase
<1>1. u \in Screen /\ u.selected \in 0..m
  BY DEF ScreenOf, Screen
<1>2. Reselected(u, cache) \in 0..m
  <2> DEFINE rows == cache[0].rows
             hits == {i \in DOMAIN rows : rows[i].state \in InFlight}
  <2>1. cache[0] \in PagesOf(m)
    BY PipelinesConstants
  <2>2. rows \in Seq(Row) /\ \A i \in DOMAIN rows : rows[i].id \in 1..m
    BY <2>1 DEF PagesOf, Pages
  <2>3. CASE u.selected # 0 \/ hits = {}
    BY <1>1, <2>3 DEF Reselected
  <2>4. CASE u.selected = 0 /\ hits # {}
    <3>1. hits \in SUBSET Nat
      BY <2>2
    <3>2. \E i \in hits : \A k \in hits : i <= k
      <4> HIDE DEF hits
      <4> QED
        BY <2>4, <3>1, LeastElement
    <3> DEFINE first == CHOOSE i \in hits : \A k \in hits : i <= k
    <3>3. first \in hits
      BY <3>2
    <3>4. Reselected(u, cache) = rows[first].id
      BY <2>4 DEF Reselected
    <3> HIDE DEF first, rows
    <3> QED
      BY <2>2, <3>3, <3>4
  <2> QED
    BY <2>3, <2>4
<1>3. u.histArmed \in BOOLEAN
  BY <1>1 DEF Screen
<1>4. CASE u.mounted
  <2> DEFINE armed == u.histArmed /\ cache[u.page].st = "ok"
             id == Reselected(u, cache)
             v == [u EXCEPT !.selected = id]
  <2>1. Rendered(u, cache) = [v EXCEPT !.histArmed = armed]
    BY <1>1, <1>4 DEF Rendered, Screen
  <2>2. armed \in BOOLEAN /\ id \in Nat /\ id <= m
    BY <1>2
  <2> HIDE DEF armed, id
  <2>3. v \in Screen /\ [v EXCEPT !.histArmed = armed] \in Screen
    <3>1. v \in Screen
      BY <1>1, <2>2 DEF Screen
    <3> HIDE DEF v
    <3> QED
      BY <2>2, <3>1 DEF Screen
  <2>4. /\ Rendered(u, cache).selected = id
        /\ Rendered(u, cache).mounted = u.mounted
        /\ Rendered(u, cache).inst = u.inst
        /\ Rendered(u, cache).phase = u.phase
    BY <1>1, <2>1 DEF Screen
  <2> QED
    BY <2>1, <2>2, <2>3, <2>4 DEF ScreenOf
<1>5. CASE ~ u.mounted
  BY <1>5 DEF Rendered
<1> QED
  BY <1>4, <1>5

\* The first row of a kind on the newest page is a run there is.
LEMMA FirstHitIsKnown ==
  ASSUME PipelinesInv, NEW job PROVE runningRun(job) \in 0..made
<1> DEFINE hits == {i \in DOMAIN Recent : /\ Recent[i].job = job
                                        /\ Recent[i].state \in InFlight}
<1>1. pages[0] \in PagesOf(made) /\ made \in Nat
  BY PipelinesConstants, KeptIsFinite DEF PipelinesInv
<1>2. Recent \in Seq(Row) /\ \A i \in DOMAIN Recent : Recent[i].id \in 1..made
  BY <1>1 DEF PagesOf, Pages, Recent
<1>3. CASE hits = {}
  BY <1>1, <1>3 DEF runningRun
<1>4. CASE hits # {}
  <2>1. hits \in SUBSET Nat
    BY <1>2
  <2>2. \E i \in hits : \A k \in hits : i <= k
    <3> HIDE DEF hits
    <3> QED
      BY <1>4, <2>1, LeastElement
  <2>3. (CHOOSE i \in hits : \A k \in hits : i <= k) \in hits
    BY <2>2
  <2>4. runningRun(job)
          = Recent[CHOOSE i \in hits : \A k \in hits : i <= k].id
    BY <1>4 DEF runningRun
  <2> QED
    BY <1>1, <1>2, <2>3, <2>4
<1> QED
  BY <1>3, <1>4

-----------------------------------------------------------------------------
(***************************************************************************)
(* The chains, whatever else happens.                                      *)
(***************************************************************************)

\* A step that uses a new number only for a new request.
Numbered ==
  /\ sent' \in {sent, sent + 1}
  /\ \A p \in posts' \ posts : p.n = 0 \/ (p.n = sent' /\ sent' = sent + 1)

\* A mount is left for good, and shows its chain until that is over.
Followed(c) == ui.inst <= ui'.inst /\ (Here(c.inst)' => runAllActive')

\* A chain stays right when runs go forward and it is not answered.
LEMMA ChainStays ==
  ASSUME PipelinesInv, NEW c \in chains, RunsGrow, Numbered, Followed(c),
         ui' \in Screen
  PROVE  ChainInv(c)'
<1>1. ChainInv(c) /\ sent \in Nat /\ ui \in Screen
  BY DEF PipelinesInv, PostsInv, ScreenOf, ChainsInv
<1>2. /\ c \in Chain /\ c.at \in Nat /\ c.inst \in Nat /\ c.at <= sent
      /\ ui.inst \in Nat /\ ui'.inst \in Nat /\ c.inst <= ui.inst
  BY <1>1 DEF ChainInv, Chain, Screen
<1>3. c.at <= sent' /\ c.inst <= ui'.inst
  BY <1>1, <1>2 DEF Numbered, Followed
<1>4. \A p \in posts' :
        c.at # 0 /\ p.n = c.at => p.job = PIPELINE_ORDER[c.step]
  BY <1>1, <1>2 DEF Numbered, ChainInv
<1>5. \A i \in DOMAIN c.ran :
        c.ran[i] \in 1..made' /\ RunAt(c.ran[i])'.job = PIPELINE_ORDER[i]
  BY <1>1 DEF ChainInv, RunsGrow
<1>6. \A i \in 1..(c.step - 1) : RunAt(c.ran[i])'.state \in Produced
  <2>1. 1..(c.step - 1) \subseteq DOMAIN c.ran
    BY <1>1, <1>2, PipelinesConstants DEF ChainInv, Chain
  <2> QED
    BY <1>1, <2>1 DEF ChainInv, RunsGrow
<1>7. Len(c.ran) = IF c.at = 0 THEN c.step ELSE c.step - 1
  BY <1>1 DEF ChainInv
<1> QED
  BY <1>2, <1>3, <1>4, <1>5, <1>6, <1>7 DEF ChainInv, Followed

\* ... and so do all chains of which none is answered.
LEMMA ChainsStay ==
  ASSUME PipelinesInv, chains' \subseteq chains, RunsGrow, Numbered,
         \A c \in chains' : Followed(c), ui' \in Screen
  PROVE  ChainsInv'
<1>1. \A c \in chains' : ChainInv(c)'
  BY ChainStays
<1> QED
  BY <1>1 DEF PipelinesInv, OneChain, ChainsInv

-----------------------------------------------------------------------------
(***************************************************************************)
(* Steps of the screen and of its clicks.                                  *)
(***************************************************************************)
LEMMA TypedParts ==
  ASSUME PipelinesInv
  PROVE  /\ made \in Nat /\ sent \in Nat /\ ui \in Screen
         /\ ui.selected \in 0..made
         /\ faults \in Nat /\ presses \in Nat
<1>1. ui \in Screen /\ ui.selected \in Nat /\ ui.selected <= made
  BY DEF PipelinesInv, ScreenOf, Screen
<1> QED
  BY <1>1, KeptIsFinite, PipelinesConstants DEF PipelinesInv, PostsInv

\* A render of a screen is a screen of the same mount.
LEMMA ShowIsTyped ==
  ASSUME PipelinesInv, NEW m \in Nat, made <= m, NEW u \in ScreenOf(m),
         Show(u)
  PROVE  /\ ui' \in ScreenOf(m) /\ ui' \in Screen
         /\ ui'.mounted = u.mounted /\ ui'.inst = u.inst
         /\ ui'.phase = u.phase
<1>1. made \in Nat /\ pages \in [PageNrs -> PagesOf(made)]
  BY TypedParts DEF PipelinesInv
<1>2. pages \in [PageNrs -> PagesOf(m)]
  BY <1>1, MoreRunsMorePages
<1> QED
  BY <1>2, RenderIsTyped DEF Show, ScreenOf

\* What is shown in place of ui is of the same mount.
SameMount(u) ==
  u.mounted = ui.mounted /\ u.inst = ui.inst /\ u.phase = ui.phase

\* A screen of the same mount and phase shows what the chains need.
LEMMA SameMountFollows ==
  ASSUME PipelinesInv, SameMount(ui'), NEW c \in chains
  PROVE  Followed(c)
<1>1. ChainInv(c) /\ ui.inst \in Nat
  BY TypedParts DEF PipelinesInv, ChainsInv, Screen
<1> QED
  BY <1>1 DEF SameMount, Followed, ChainInv, Here, runAllActive

\* The screen changes, and perhaps requests leave; the chains do not move.
LEMMA ScreenStep ==
  ASSUME PipelinesInv, NEW u \in ScreenOf(made), Show(u),
         UNCHANGED <<Server, pages, chains>>,
         \/ SameMount(u)
         \/ ui.inst < u.inst
         \/ ~ u.mounted /\ u.inst = ui.inst
         \/ ~ runAllActive /\ u.mounted = ui.mounted /\ u.inst = ui.inst,
         Numbered, PostsInv',
         faults' \in 0..MaxFaults, presses' \in 0..MaxPresses
  PROVE  PipelinesInv'
<1>1. /\ ui' \in ScreenOf(made) /\ ui' \in Screen
      /\ ui'.mounted = u.mounted /\ ui'.inst = u.inst /\ ui'.phase = u.phase
  BY TypedParts, ShowIsTyped
<1>2. RunsInv' /\ RunsGrow /\ made' = made
  BY SameRunsGrow DEF PipelinesInv, Server
<1>3. ASSUME NEW c \in chains PROVE Followed(c)
  <2>0. ChainInv(c) /\ ui \in Screen
    BY TypedParts DEF PipelinesInv, ChainsInv
  <2>1. /\ ChainInv(c) /\ ui.inst \in Nat /\ ui'.inst \in Nat
        /\ c.inst \in Nat /\ c.inst <= ui.inst
    <3>1. ui.inst \in Nat /\ ui'.inst \in Nat
      BY <1>1, <2>0 DEF Screen
    <3>2. c.inst \in Nat /\ c.inst <= ui.inst
      BY <2>0 DEF ChainInv, Chain
    <3> QED
      BY <2>0, <3>1, <3>2
  <2>2. CASE SameMount(u)
    BY <1>1, <2>2, SameMountFollows DEF SameMount
  <2>3. CASE ui.inst < u.inst
    BY <1>1, <2>1, <2>3 DEF Followed, Here
  <2>4. CASE ~ u.mounted /\ u.inst = ui.inst
    BY <1>1, <2>1, <2>4 DEF Followed, Here
  <2>5. CASE ~ runAllActive /\ u.mounted = ui.mounted /\ u.inst = ui.inst
    BY <1>1, <2>1, <2>5 DEF Followed, Here, ChainInv
  <2> QED
    BY <2>2, <2>3, <2>4, <2>5
<1>4. ChainsInv'
  BY <1>1, <1>2, <1>3, ChainsStay
<1> QED
  BY <1>1, <1>2, <1>4 DEF PipelinesInv, PagesOf, ScreenOf

\* No request leaves.
LEMMA NothingSent ==
  ASSUME PipelinesInv, UNCHANGED <<posts, sent>> PROVE Numbered /\ PostsInv'
BY DEF PipelinesInv, PostsInv, Numbered

\* Only the screen changes.
LEMMA ScreenOnly ==
  ASSUME PipelinesInv, NEW u \in ScreenOf(made), Show(u),
         UNCHANGED <<Server, Rest>>,
         \/ SameMount(u)
         \/ ui.inst < u.inst
         \/ ~ u.mounted /\ u.inst = ui.inst
         \/ ~ runAllActive /\ u.mounted = ui.mounted /\ u.inst = ui.inst,
         presses' \in 0..MaxPresses
  PROVE  PipelinesInv'
<1>1. UNCHANGED <<posts, sent>> /\ UNCHANGED <<Server, pages, chains>>
      /\ faults' \in 0..MaxFaults
  BY DEF Rest, PipelinesInv
<1>2. Numbered /\ PostsInv'
  BY <1>1, NothingSent
<1> QED
  BY <1>1, <1>2, ScreenStep

\* A component that mounts is a screen.
LEMMA FreshIsScreen ==
  ASSUME PipelinesInv, NEW inst \in 0..MaxMounts,
         NEW open \in JOB_CATALOG \cup {"none"}, NEW id \in 0..made
  PROVE  /\ Fresh(inst, open, id) \in ScreenOf(made)
         /\ Fresh(inst, open, id).inst = inst
<1>1. made \in Nat /\ 0 \in PageNrs /\ 1 \in Steps
  BY TypedParts, PipelinesConstants
<1> QED
  BY <1>1 DEF Fresh, ScreenOf, Screen

\* The screen opens: a new mount, of which no chain is.
LEMMA MountKeepsInv == PipelinesInv /\ Mount => PipelinesInv'
<1> SUFFICES ASSUME PipelinesInv, Mount PROVE PipelinesInv'
  OBVIOUS
<1>1. ui.inst \in Nat /\ ui.inst + 1 \in 0..MaxMounts /\ ui.inst < ui.inst + 1
  BY TypedParts, PipelinesConstants DEF Mount, Screen
<1>2. PICK open \in JOB_CATALOG \cup {"none"}, id \in 0..made :
        Show(Fresh(ui.inst + 1, open, id))
  <2>1. made \in Nat /\ IdsOf(runs) \subseteq 0..made
    BY KeptIsFinite DEF PipelinesInv, RunsInv, IdsOf
  <2>2. 0 \in 0..made
    BY <2>1
  <2> QED
    BY <2>1, <2>2 DEF Mount
<1>3. presses' \in 0..MaxPresses /\ UNCHANGED <<Server, Rest>>
  BY DEF PipelinesInv, Mount
<1> QED
  BY <1>1, <1>2, <1>3, FreshIsScreen, ScreenOnly

\* The screen is left: no chain is of it any more.
LEMMA LeaveKeepsInv == PipelinesInv /\ Leave => PipelinesInv'
<1> SUFFICES ASSUME PipelinesInv, Leave PROVE PipelinesInv'
  OBVIOUS
<1> DEFINE u == Gone(ui.inst)
<1>1. ui.inst \in 0..MaxMounts /\ made \in Nat
  BY TypedParts DEF Screen
<1>2. u \in ScreenOf(made) /\ ~ u.mounted /\ u.inst = ui.inst
  <2>1. 0 \in 0..made
    BY <1>1
  <2>2. Fresh(ui.inst, "none", 0) \in ScreenOf(made)
    BY <1>1, <2>1, FreshIsScreen
  <2> QED
    BY <2>2 DEF Gone, ScreenOf, Screen, Fresh
<1>3. Show(u)
  BY <1>2 DEF Leave, Show, Rendered
<1>4. presses' \in 0..MaxPresses /\ UNCHANGED <<Server, Rest>>
  BY DEF PipelinesInv, Leave
<1> HIDE DEF u
<1> QED
  BY <1>2, <1>3, <1>4, ScreenOnly

\* An answer of the history, or its failure.
LEMMA PagesStep ==
  ASSUME PipelinesInv, pages' \in [PageNrs -> PagesOf(made)],
         ui' = Rendered(ui, pages'),
         UNCHANGED <<Server, posts, chains, sent, presses>>,
         faults' \in 0..MaxFaults
  PROVE  PipelinesInv'
<1>1. ui \in ScreenOf(made) /\ made \in Nat
  BY TypedParts DEF PipelinesInv
<1>2. ui' \in ScreenOf(made) /\ SameMount(ui')
  BY <1>1, RenderIsTyped DEF SameMount
<1>3. RunsInv' /\ RunsGrow /\ made' = made /\ Numbered /\ PostsInv'
  BY SameRunsGrow, NothingSent DEF PipelinesInv, Server
<1>4. ChainsInv'
  BY <1>2, <1>3, SameMountFollows, ChainsStay DEF ScreenOf
<1> QED
  BY <1>2, <1>3, <1>4 DEF PipelinesInv, PagesOf, ScreenOf

\* A page is fetched, or is not.
LEMMA FetchKeepsInv ==
  ASSUME PipelinesInv, NEW p \in PageNrs, fetchRuns(p) \/ FetchFails(p)
  PROVE  PipelinesInv'
<1>0. RunsInv /\ pages \in [PageNrs -> PagesOf(made)]
  BY DEF PipelinesInv
<1>1. CASE fetchRuns(p)
  <2>1. pages' \in [PageNrs -> PagesOf(made)]
    <3>1. p \in Nat
      BY PipelinesConstants
    <3> QED
      BY <1>0, <1>1, <3>1, PageIsTyped DEF fetchRuns
  <2> QED
    BY <1>1, <2>1, PagesStep DEF fetchRuns, PipelinesInv
<1>2. CASE FetchFails(p)
  <2>1. [pages[p] EXCEPT !.st = "error"] \in PagesOf(made)
    <3>1. pages[p] \in PagesOf(made) /\ pages[p] \in Pages
      BY <1>0 DEF PagesOf
    <3>2. /\ [pages[p] EXCEPT !.st = "error"] \in Pages
          /\ [pages[p] EXCEPT !.st = "error"].rows = pages[p].rows
      BY <3>1 DEF Pages
    <3> QED
      BY <3>1, <3>2 DEF PagesOf
  <2>2. pages' \in [PageNrs -> PagesOf(made)]
    BY <1>0, <1>2, <2>1 DEF FetchFails
  <2>3. faults' \in 0..MaxFaults
    BY <1>2, PipelinesConstants, TypedParts DEF FetchFails
  <2> QED
    BY <1>2, <2>2, <2>3, PagesStep DEF FetchFails
<1> QED
  BY <1>1, <1>2

-----------------------------------------------------------------------------
(***************************************************************************)
(* The clicks.                                                             *)
(***************************************************************************)
LEMMA PressCounts ==
  ASSUME PipelinesInv, Press PROVE presses' \in 0..MaxPresses /\ ui.mounted
BY TypedParts, PipelinesConstants DEF Press

\* A click that only changes the look of the screen.
LEMMA LookStep ==
  ASSUME PipelinesInv, NEW u, u \in ScreenOf(made), SameMount(u), Show(u),
         UNCHANGED <<Server, Rest>>, presses' \in 0..MaxPresses
  PROVE  PipelinesInv'
BY ScreenOnly

\* The fields a click sets, one by one.
LEMMA SetFields ==
  ASSUME PipelinesInv, NEW u \in ScreenOf(made), SameMount(u)
  PROVE  /\ \A b \in BOOLEAN :
              /\ [u EXCEPT !.allForm = b] \in ScreenOf(made)
              /\ SameMount([u EXCEPT !.allForm = b])
              /\ [u EXCEPT !.histArmed = b] \in ScreenOf(made)
              /\ SameMount([u EXCEPT !.histArmed = b])
              /\ [u EXCEPT !.dataArmed = b] \in ScreenOf(made)
              /\ SameMount([u EXCEPT !.dataArmed = b])
         /\ \A n \in Nat :
              /\ [u EXCEPT !.current = n] \in ScreenOf(made)
              /\ SameMount([u EXCEPT !.current = n])
              /\ [u EXCEPT !.resetting = n] \in ScreenOf(made)
              /\ SameMount([u EXCEPT !.resetting = n])
         /\ \A open \in JOB_CATALOG \cup {"none"} :
              /\ [u EXCEPT !.open = open] \in ScreenOf(made)
              /\ SameMount([u EXCEPT !.open = open])
         /\ \A page \in PageNrs :
              /\ [u EXCEPT !.page = page] \in ScreenOf(made)
              /\ SameMount([u EXCEPT !.page = page])
         /\ \A id \in 0..made :
              /\ [u EXCEPT !.selected = id] \in ScreenOf(made)
              /\ SameMount([u EXCEPT !.selected = id])
<1>1. made \in Nat
  BY TypedParts
<1> QED
  BY <1>1 DEF ScreenOf, Screen, SameMount

\* The screen itself, before the click.
LEMMA UiIsSame ==
  ASSUME PipelinesInv
  PROVE  /\ ui \in ScreenOf(made) /\ SameMount(ui)
         /\ ui.allForm \in BOOLEAN /\ ui.open \in JOB_CATALOG \cup {"none"}
BY TypedParts DEF PipelinesInv, SameMount, Screen

\* The clicks and timers that only change what is shown.
LEMMA LooksKeepInv ==
  ASSUME PipelinesInv,
         \/ PressRunAll \/ SelectRun \/ \E d \in {-1, 1} : TurnPage(d)
         \/ TimeOut \/ DoneFades
  PROVE  PipelinesInv'
<1>0. presses \in 0..MaxPresses /\ made \in Nat /\ 0 \in 0..made
  BY TypedParts DEF PipelinesInv
<1>1. CASE PressRunAll
  <2> DEFINE v == [ui EXCEPT !.open = "none"]
             u == [v EXCEPT !.allForm = ~ ui.allForm]
  <2>1. v \in ScreenOf(made) /\ SameMount(v)
    BY UiIsSame, SetFields
  <2>2. (~ ui.allForm) \in BOOLEAN
    OBVIOUS
  <2>3. u \in ScreenOf(made) /\ SameMount(u)
    <3> HIDE DEF v
    <3> QED
      BY <2>1, <2>2, SetFields
  <2>4. Show(u) /\ UNCHANGED <<Server, Rest>> /\ Press
    BY <1>1, TypedParts DEF PressRunAll, Screen
  <2> HIDE DEF u
  <2> QED
    BY <2>3, <2>4, PressCounts, LookStep
<1>2. CASE SelectRun
  <2>1. PICK id \in {runningRun(job) : job \in {j \in JOB_CATALOG :
                                                RowShows(j) = "running"}}
                 \cup (IF TableShown THEN IdsOf(pages[ui.page].rows) ELSE {}) :
          Show([ui EXCEPT !.selected = id])
    BY <1>2 DEF SelectRun
  <2>2. id \in 0..made
    <3>1. pages[ui.page] \in PagesOf(made)
      BY TypedParts DEF PipelinesInv, Screen
    <3>2. IdsOf(pages[ui.page].rows) \subseteq 0..made
      BY <1>0, <3>1 DEF PagesOf, IdsOf
    <3> QED
      BY <3>2, FirstHitIsKnown
  <2> QED
    BY <1>2, <2>1, <2>2, UiIsSame, SetFields, PressCounts, LookStep
    DEF SelectRun
<1>3. CASE \E d \in {-1, 1} : TurnPage(d)
  <2>1. PICK d \in {-1, 1} : TurnPage(d)
    BY <1>3
  <2> DEFINE page == ui.page + d
  <2>2. page \in PageNrs /\ Show([ui EXCEPT !.page = page])
    BY <2>1 DEF TurnPage
  <2> HIDE DEF page
  <2> QED
    BY <2>1, <2>2, UiIsSame, SetFields, PressCounts, LookStep
    DEF TurnPage
<1>4. CASE TimeOut
  <2>1. PICK u \in ScreenOf(made) : SameMount(u) /\ Show(u)
    BY <1>4, UiIsSame, SetFields DEF TimeOut
  <2>2. UNCHANGED <<Server, Rest, presses>>
    BY <1>4 DEF TimeOut
  <2> QED
    BY <1>0, <2>1, <2>2, LookStep
<1>5. CASE DoneFades
  <2> DEFINE u == [ui EXCEPT !.phase = "idle"]
  <2>1. u \in ScreenOf(made) /\ u.mounted = ui.mounted /\ u.inst = ui.inst
    BY UiIsSame DEF ScreenOf, Screen
  <2>2. Show(u) /\ UNCHANGED <<Server, Rest, presses>> /\ ~ runAllActive
    BY <1>5 DEF DoneFades, runAllActive
  <2> HIDE DEF u
  <2> QED
    BY <1>0, <2>1, <2>2, ScreenOnly
<1> QED
  BY <1>1, <1>2, <1>3, <1>4, <1>5

-----------------------------------------------------------------------------
(***************************************************************************)
(* The clicks that send a request.                                         *)
(***************************************************************************)
LEMMA PostSends ==
  ASSUME PipelinesInv, NEW job \in JOB_CATALOG \cup {"reset"},
         NEW origin \in {"chain", "row", "form", "reset", "cancel", "clear"},
         Post(origin, job)
  PROVE  Numbered /\ PostsInv' /\ sent + 1 \in Nat
<1> DEFINE p == [n |-> sent + 1, inst |-> ui.inst, origin |-> origin,
                 job |-> job]
<1>1. sent \in Nat /\ ui.inst \in 0..MaxMounts
  BY TypedParts DEF Screen
<1>2. p \in Request /\ p.n = sent + 1 /\ p.job = job
  BY <1>1 DEF Request
<1>3. posts' = posts \cup {p} /\ sent' = sent + 1
  BY DEF Post
<1>4. /\ posts \subseteq Request
      /\ \A q \in posts :
           /\ q.n \in Nat /\ q.n <= sent
           /\ q.n # 0 => q.job \in JOB_CATALOG \cup {"reset"}
  BY DEF PipelinesInv, PostsInv, Request
<1> HIDE DEF p
<1>5. Numbered
  BY <1>1, <1>2, <1>3 DEF Numbered
<1>6. PostsInv'
  BY <1>1, <1>2, <1>3, <1>4 DEF PostsInv
<1> QED
  BY <1>1, <1>5, <1>6

\* A request without a number leaves: no chain awaits it.
LEMMA PlainSends ==
  ASSUME PipelinesInv, NEW origin \in {"cancel", "clear"}, PostPlain(origin)
  PROVE  Numbered /\ PostsInv'
<1> DEFINE p == [n |-> 0, inst |-> ui.inst, origin |-> origin, job |-> "none"]
<1>1. sent \in Nat /\ ui.inst \in 0..MaxMounts
  BY TypedParts DEF Screen
<1>2. p \in Request /\ p.n = 0
  BY <1>1 DEF Request
<1>3. posts' = posts \cup {p} /\ sent' = sent
  BY DEF PostPlain
<1>4. /\ posts \subseteq Request
      /\ \A q \in posts :
           /\ q.n \in Nat /\ q.n <= sent
           /\ q.n # 0 => q.job \in JOB_CATALOG \cup {"reset"}
  BY DEF PipelinesInv, PostsInv, Request
<1> HIDE DEF p
<1>5. Numbered
  BY <1>1, <1>2, <1>3 DEF Numbered
<1>6. PostsInv'
  BY <1>1, <1>2, <1>3, <1>4 DEF PostsInv
<1> QED
  BY <1>5, <1>6

\* What a click that sends something leaves alone.
LEMMA SendStep ==
  ASSUME PipelinesInv, ui' \in ScreenOf(made), SameMount(ui'),
         UNCHANGED <<Server, pages, chains, faults>>,
         Numbered, PostsInv', presses' \in 0..MaxPresses
  PROVE  PipelinesInv'
<1>1. RunsInv' /\ RunsGrow /\ made' = made /\ ui' \in Screen
  BY SameRunsGrow DEF PipelinesInv, Server, ScreenOf
<1>2. ChainsInv'
  BY <1>1, SameMountFollows, ChainsStay
<1> QED
  BY <1>1, <1>2 DEF PipelinesInv, PagesOf, ScreenOf

\* A screen that is shown as it is.
LEMMA ShownSame ==
  ASSUME PipelinesInv, NEW u, u \in ScreenOf(made), SameMount(u), Show(u)
  PROVE  ui' \in ScreenOf(made) /\ SameMount(ui')
BY TypedParts, ShowIsTyped DEF SameMount

\* The clicks that send a request.
LEMMA SendsKeepInv ==
  ASSUME PipelinesInv,
         \/ \E job \in JOB_CATALOG : PressRun(job) \/ SubmitForm(job)
         \/ PressStopAll \/ PressClearHistory \/ PressClearData
  PROVE  PipelinesInv'
<1>0. Press => presses' \in 0..MaxPresses
  BY PressCounts
<1>1. ASSUME NEW job \in JOB_CATALOG, PressRun(job) PROVE PipelinesInv'
  <2>1. CASE job \in WithForm /\ UNCHANGED Rest
             /\ Show([ui EXCEPT !.allForm = FALSE,
                                !.open = IF @ = job THEN "none" ELSE job])
    <3> DEFINE v == [ui EXCEPT !.allForm = FALSE]
               open == IF ui.open = job THEN "none" ELSE job
               u == [v EXCEPT !.open = open]
    <3>1. v \in ScreenOf(made) /\ SameMount(v)
      BY UiIsSame, SetFields
    <3>2. u \in ScreenOf(made) /\ SameMount(u)
      <4> HIDE DEF v
      <4> QED
        BY <3>1, SetFields
    <3>3. Show(u)
      BY <2>1, TypedParts DEF Screen
    <3> HIDE DEF u
    <3> QED
      BY <1>0, <1>1, <2>1, <3>2, <3>3, LookStep DEF PressRun
  <2>2. CASE Post("row", job) /\ Show([ui EXCEPT !.current = sent + 1])
             /\ UNCHANGED <<pages, chains, faults>>
    <3>1. Numbered /\ PostsInv' /\ sent + 1 \in Nat
      BY <2>2, PostSends
    <3>2. ui' \in ScreenOf(made) /\ SameMount(ui')
      BY <2>2, <3>1, UiIsSame, SetFields, ShownSame
    <3> QED
      BY <1>0, <1>1, <2>2, <3>1, <3>2, SendStep DEF PressRun
  <2> QED
    BY <1>1, <2>1, <2>2 DEF PressRun
<1>2. ASSUME NEW job \in JOB_CATALOG, SubmitForm(job) PROVE PipelinesInv'
  <2>1. Numbered /\ PostsInv' /\ sent + 1 \in Nat
    BY <1>2, PostSends DEF SubmitForm
  <2>2. ui' \in ScreenOf(made) /\ SameMount(ui')
    BY <1>2, <2>1, UiIsSame, SetFields, ShownSame DEF SubmitForm
  <2> QED
    BY <1>0, <1>2, <2>1, <2>2, SendStep DEF SubmitForm
<1>3. CASE PressStopAll
  <2>1. Numbered /\ PostsInv'
    BY <1>3, PlainSends DEF PressStopAll
  <2>2. ui' \in ScreenOf(made) /\ SameMount(ui')
    BY <1>3, UiIsSame DEF PressStopAll, SameMount
  <2> QED
    BY <1>0, <1>3, <2>1, <2>2, SendStep DEF PressStopAll
<1>4. CASE PressClearHistory
  <2>1. CASE UNCHANGED Rest /\ Show([ui EXCEPT !.histArmed = TRUE])
    <3>1. [ui EXCEPT !.histArmed = TRUE] \in ScreenOf(made)
          /\ SameMount([ui EXCEPT !.histArmed = TRUE])
      BY UiIsSame, SetFields
    <3> QED
      BY <1>0, <1>4, <2>1, <3>1, LookStep DEF PressClearHistory
  <2>2. CASE PostPlain("clear") /\ Show([ui EXCEPT !.histArmed = FALSE])
             /\ UNCHANGED <<pages, chains, faults>>
    <3>1. Numbered /\ PostsInv'
      BY <2>2, PlainSends
    <3>2. ui' \in ScreenOf(made) /\ SameMount(ui')
      BY <2>2, UiIsSame, SetFields, ShownSame
    <3> QED
      BY <1>0, <1>4, <2>2, <3>1, <3>2, SendStep DEF PressClearHistory
  <2> QED
    BY <1>4, <2>1, <2>2 DEF PressClearHistory
<1>5. CASE PressClearData
  <2>1. CASE UNCHANGED Rest /\ Show([ui EXCEPT !.dataArmed = TRUE])
    <3>1. [ui EXCEPT !.dataArmed = TRUE] \in ScreenOf(made)
          /\ SameMount([ui EXCEPT !.dataArmed = TRUE])
      BY UiIsSame, SetFields
    <3> QED
      BY <1>0, <1>5, <2>1, <3>1, LookStep DEF PressClearData
  <2>2. CASE Post("reset", "reset") /\ UNCHANGED <<pages, chains, faults>>
             /\ Show([ui EXCEPT !.dataArmed = FALSE, !.resetting = sent + 1])
    <3> DEFINE v == [ui EXCEPT !.dataArmed = FALSE]
               u == [v EXCEPT !.resetting = sent + 1]
    <3>1. Numbered /\ PostsInv' /\ sent + 1 \in Nat
      BY <2>2, PostSends
    <3>2. v \in ScreenOf(made) /\ SameMount(v)
      BY UiIsSame, SetFields
    <3>3. u \in ScreenOf(made) /\ SameMount(u)
      <4> HIDE DEF v
      <4> QED
        BY <3>1, <3>2, SetFields
    <3>4. Show(u)
      BY <2>2, TypedParts DEF Screen
    <3>5. ui' \in ScreenOf(made) /\ SameMount(ui')
      <4> HIDE DEF u
      <4> QED
        BY <3>3, <3>4, ShownSame
    <3> QED
      BY <1>0, <1>5, <2>2, <3>1, <3>5, SendStep DEF PressClearData
  <2> QED
    BY <1>5, <2>1, <2>2 DEF PressClearData
<1> QED
  BY <1>1, <1>2, <1>3, <1>4, <1>5

\* The chain of a mount is started when none of it is under way.
LEMMA StartsChain == PipelinesInv /\ runAll => PipelinesInv'
<1> SUFFICES ASSUME PipelinesInv, runAll PROVE PipelinesInv'
  OBVIOUS
<1> DEFINE job == PIPELINE_ORDER[1]
<1>0. PICK c : c = [inst |-> ui.inst, step |-> 1, at |-> sent + 1,
                    ran |-> <<>>]
  OBVIOUS
<1>1. job \in JOB_CATALOG /\ 1 \in Steps /\ ui.inst \in 0..MaxMounts
  BY TypedParts, PipelinesConstants DEF Screen
<1>2. Numbered /\ PostsInv' /\ sent + 1 \in Nat /\ sent' = sent + 1
      /\ posts' = posts \cup {[n |-> sent + 1, inst |-> ui.inst,
                               origin |-> "chain", job |-> job]}
  BY <1>1, PostSends DEF runAll, Post
<1>3. /\ ui' \in ScreenOf(made) /\ ui' \in Screen
      /\ ui'.mounted = ui.mounted /\ ui'.inst = ui.inst
      /\ ui'.phase = "running"
  <2> DEFINE v == [ui EXCEPT !.allForm = FALSE]
             w == [v EXCEPT !.current = sent + 1]
             x == [w EXCEPT !.phase = "running"]
             u == [x EXCEPT !.step = 1]
  <2>1. v \in ScreenOf(made) /\ SameMount(v)
    BY UiIsSame, SetFields
  <2>2. w \in ScreenOf(made) /\ SameMount(w)
    <3> HIDE DEF v
    <3> QED
      BY <1>2, <2>1, SetFields
  <2>3. /\ u \in ScreenOf(made) /\ u.mounted = ui.mounted
        /\ u.inst = ui.inst /\ u.phase = "running"
    <3> HIDE DEF w
    <3> QED
      BY <1>1, <2>2 DEF ScreenOf, Screen, SameMount
  <2>4. Show(u)
    BY TypedParts DEF runAll, Screen
  <2> HIDE DEF u
  <2> QED
    BY <2>3, <2>4, TypedParts, ShowIsTyped
<1>4. RunsInv' /\ RunsGrow /\ made' = made
  BY SameRunsGrow DEF PipelinesInv, Server, runAll
<1>5. ui.mounted /\ ~ runAllActive /\ presses' \in 0..MaxPresses
  BY PressCounts DEF runAll
<1>6. \A d \in chains : ChainInv(d) /\ d.inst # ui.inst
  BY <1>5 DEF PipelinesInv, ChainsInv, ChainInv, Here
<1>7. ASSUME NEW d \in chains PROVE ChainInv(d)'
  <2>1. Followed(d)
    BY <1>1, <1>3, <1>6 DEF Followed, Here
  <2> QED
    BY <1>2, <1>3, <1>4, <2>1, ChainStays
<1>8. ChainInv(c)'
  <2>1. /\ c.inst = ui.inst /\ c.step = 1 /\ c.at = sent + 1
        /\ c.ran = <<>>
    BY <1>0
  <2>2. c \in Chain
    BY <1>0, <1>1, <1>2 DEF Chain
  <2>3. \A p \in posts' : p.n = sent + 1 => p.job = job
    BY <1>2, TypedParts DEF PipelinesInv, PostsInv, Request
  <2>4. c.at <= sent' /\ c.at # 0 /\ c.inst <= ui'.inst
    BY <1>1, <1>2, <1>3, <2>1, TypedParts
  <2>5. Len(c.ran) = 0 /\ DOMAIN c.ran = {} /\ 1..(c.step - 1) = {}
    BY <2>1
  <2> QED
    BY <1>3, <2>1, <2>2, <2>3, <2>4, <2>5 DEF ChainInv, runAllActive
<1>9. chains' = chains \cup {c}
  BY <1>0 DEF runAll
<1>10. ChainsInv'
  <2>1. c.inst = ui.inst
    BY <1>0
  <2> QED
    BY <1>6, <1>7, <1>8, <1>9, <2>1 DEF PipelinesInv, ChainsInv, OneChain
<1> QED
  BY <1>2, <1>3, <1>4, <1>5, <1>10 DEF PipelinesInv, runAll

-----------------------------------------------------------------------------
(***************************************************************************)
(* The answers.                                                            *)
(***************************************************************************)
LEMMA TakenPost ==
  ASSUME PipelinesInv, NEW p \in posts, posts' = posts \ {p}, UNCHANGED sent
  PROVE  Numbered /\ PostsInv'
BY DEF Numbered, PipelinesInv, PostsInv

\* What an answer tells the screen, with the run it is about.
LEMMA ToldIsScreen ==
  ASSUME PipelinesInv, NEW p \in posts, NEW id \in Nat, made <= id
  PROVE  /\ Told(p, id) \in ScreenOf(id)
         /\ SameMount(Told(p, id))
<1>1. ui \in Screen /\ ui.selected <= id
  BY TypedParts
<1>2. CASE Told(p, id) = ui
  BY <1>1, <1>2 DEF ScreenOf, SameMount
<1>3. CASE Told(p, id) = [ui EXCEPT !.selected = id]
  BY <1>1, <1>3 DEF ScreenOf, SameMount, Screen
<1>4. CASE Told(p, id) = [ui EXCEPT !.selected = id, !.open = "none"]
  <2> DEFINE u == [ui EXCEPT !.selected = id]
  <2>1. u \in Screen /\ u.selected = id /\ SameMount(u)
    BY <1>1 DEF Screen, SameMount
  <2>2. Told(p, id) = [u EXCEPT !.open = "none"]
    BY <1>1, <1>4 DEF Screen
  <2> HIDE DEF u
  <2> QED
    BY <2>1, <2>2 DEF ScreenOf, SameMount, Screen
<1> QED
  BY <1>2, <1>3, <1>4 DEF Told

\* A trigger is answered, and the chain that awaits it has its run.
LEMMA AnswerKeepsInv ==
  ASSUME PipelinesInv, NEW p \in posts, TriggerAnswered(p)
  PROVE  PipelinesInv'
<1>1. /\ made \in Nat /\ sent \in Nat /\ made' = made + 1 /\ p.n # 0
      /\ RunsInv /\ p.job \in JOB_CATALOG \cup {"reset"}
  BY TypedParts DEF PipelinesInv, PostsInv, TriggerAnswered
<1>2. PICK state \in {"queued", "failed"} :
        /\ faults' = faults + (IF state = "failed" THEN 1 ELSE 0)
        /\ faults' <= MaxFaults
        /\ runs' = <<[id |-> made + 1, job |-> p.job, state |-> state,
                      taken |-> FALSE, gone |-> FALSE]>> \o runs
  BY DEF TriggerAnswered
<1>3. faults' \in 0..MaxFaults /\ presses' \in 0..MaxPresses
  BY <1>2, TypedParts, PipelinesConstants DEF PipelinesInv, TriggerAnswered
<1>4. PICK r, id :
        /\ r = [id |-> made + 1, job |-> p.job, state |-> state,
                taken |-> FALSE, gone |-> FALSE]
        /\ id = made + 1
  OBVIOUS
<1>5. r \in Run /\ r.id = made + 1 /\ ~ r.taken /\ r.job = p.job
  BY <1>1, <1>4 DEF Run, Ids, InFlight, Ended
<1>6. RunsInv' /\ RunsGrow /\ RunAt(id)' = r
  BY <1>1, <1>2, <1>4, <1>5, SubmittedRunsGrow
<1>7. Numbered /\ PostsInv'
  BY TakenPost DEF TriggerAnswered
<1>8. ui' \in ScreenOf(made + 1) /\ SameMount(ui') /\ ui' \in Screen
  <2> DEFINE u == Told(p, made + 1)
  <2>1. u \in ScreenOf(made + 1) /\ SameMount(u)
    BY <1>1, ToldIsScreen
  <2>2. Show(u)
    BY DEF TriggerAnswered
  <2> HIDE DEF u
  <2> QED
    BY <1>1, <2>1, <2>2, ShowIsTyped DEF SameMount
<1>9. ASSUME NEW c \in chains
      PROVE  ChainInv(c)' /\ (c.at = p.n => ChainInv(Waits(c, id))')
  <2>1. ChainInv(c)'
    BY <1>6, <1>7, <1>8, SameMountFollows, ChainStays
  <2>2. ASSUME c.at = p.n PROVE ChainInv(Waits(c, id))'
    <3>1. PICK w : w = Waits(c, id)
      OBVIOUS
    <3>2. ChainInv(c)
      BY DEF PipelinesInv, ChainsInv
    <3>3. c \in Chain /\ Len(c.ran) = c.step - 1 /\ c.step \in Nat \ {0}
          /\ c.ran \in Seq(Nat)
      BY <1>1, <2>2, <3>2, PipelinesConstants DEF ChainInv, Chain
    <3>4. /\ w.inst = c.inst /\ w.step = c.step /\ w.at = 0
          /\ w.ran = Append(c.ran, id) /\ w \in Chain
      <4> DEFINE longer == Append(c.ran, id)
      <4>1. longer \in Seq(Nat)
        BY <1>1, <1>4, <3>3, AppendProperties
      <4> HIDE DEF longer
      <4>2. w = [inst |-> c.inst, step |-> c.step, at |-> 0, ran |-> longer]
        BY <3>1, <3>3 DEF Waits, Chain, longer
      <4>3. c.inst \in 0..MaxMounts /\ c.step \in Steps
        BY <3>3 DEF Chain
      <4> QED
        BY <4>1, <4>2, <4>3 DEF Chain, longer
    <3>5. /\ Len(w.ran) = c.step /\ DOMAIN w.ran = 1..c.step
          /\ w.ran[c.step] = id
          /\ \A i \in 1..(c.step - 1) : w.ran[i] = c.ran[i]
          /\ DOMAIN c.ran = 1..(c.step - 1)
      BY <1>1, <1>4, <3>3, <3>4, AppendProperties
    <3>6. p.job = PIPELINE_ORDER[c.step]
      BY <1>1, <2>2, <3>2 DEF ChainInv
    <3>7. RunAt(id)'.job = PIPELINE_ORDER[c.step] /\ id \in 1..made'
      BY <1>1, <1>4, <1>5, <1>6, <3>6
    <3>8. \A i \in 1..(c.step - 1) :
            /\ c.ran[i] \in 1..made'
            /\ RunAt(c.ran[i])'.job = PIPELINE_ORDER[i]
            /\ RunAt(c.ran[i])'.state \in Produced
      BY <2>1, <3>5 DEF ChainInv
    <3>9. \A i \in DOMAIN w.ran :
            /\ w.ran[i] \in 1..made'
            /\ RunAt(w.ran[i])'.job = PIPELINE_ORDER[i]
      <4>1. \A i \in 1..c.step : i = c.step \/ i \in 1..(c.step - 1)
        BY <3>3
      <4> QED
        BY <3>5, <3>7, <3>8, <4>1
    <3>10. \A i \in 1..(w.step - 1) : RunAt(w.ran[i])'.state \in Produced
      BY <3>4, <3>5, <3>8
    <3>11. /\ sent' \in Nat /\ w.inst <= ui'.inst
           /\ Here(w.inst)' => runAllActive'
      BY <1>1, <2>1, <3>4 DEF ChainInv, TriggerAnswered
    <3>12. ChainInv(w)'
      BY <3>4, <3>5, <3>9, <3>10, <3>11 DEF ChainInv
    <3> QED
      BY <3>1, <3>12
  <2> QED
    BY <2>1, <2>2
<1>10. ChainsInv'
  <2>1. chains' = {IF c.at = p.n THEN Waits(c, id) ELSE c : c \in chains}
    BY <1>4 DEF TriggerAnswered
  <2>2. \A d \in chains' : ChainInv(d)'
    BY <1>9, <2>1
  <2>3. \A c \in chains : Waits(c, id).inst = c.inst
    BY DEF Waits, PipelinesInv, ChainsInv, ChainInv, Chain
  <2>4. OneChain'
    BY <2>1, <2>3 DEF OneChain, PipelinesInv, ChainsInv
  <2> QED
    BY <2>2, <2>4 DEF ChainsInv
<1>11. pages' \in [PageNrs -> PagesOf(made + 1)]
  <2>1. PagesOf(made) \subseteq PagesOf(made + 1)
    BY <1>1, MoreRunsMorePages
  <2> QED
    BY <2>1 DEF PipelinesInv, TriggerAnswered
<1> QED
  BY <1>1, <1>3, <1>6, <1>7, <1>8, <1>10, <1>11
  DEF PipelinesInv, PagesOf, ScreenOf

\* Some requests and chains are over.
LEMMA FewerChains ==
  ASSUME PipelinesInv, chains' \subseteq chains,
         UNCHANGED <<Server, pages, ui, presses>>, Numbered, PostsInv',
         faults' \in 0..MaxFaults
  PROVE  PipelinesInv'
<1>1. RunsInv' /\ RunsGrow /\ made' = made
  BY SameRunsGrow DEF PipelinesInv, Server
<1>2. SameMount(ui') /\ ui' \in Screen
  BY TypedParts DEF SameMount
<1>3. ChainsInv'
  BY <1>1, <1>2, SameMountFollows, ChainsStay
<1> QED
  BY <1>1, <1>3 DEF PipelinesInv, PagesOf, ScreenOf

\* A fault is counted.
LEMMA FaultCounts ==
  ASSUME PipelinesInv, faults < MaxFaults, faults' = faults + 1
  PROVE  faults' \in 0..MaxFaults
BY TypedParts, PipelinesConstants

\* Requests that fail, and chains that are lost with them.
LEMMA RefusalsKeepInv ==
  ASSUME PipelinesInv,
         \/ \E p \in posts : TriggerFails(p) \/ PlainFails(p)
         \/ \E c \in chains : WaitFails(c)
  PROVE  PipelinesInv'
<1>1. ASSUME NEW p \in posts, TriggerFails(p) PROVE PipelinesInv'
  <2>1. Numbered /\ PostsInv'
    BY <1>1, TakenPost DEF TriggerFails
  <2> QED
    BY <1>1, <2>1, FaultCounts, FewerChains DEF TriggerFails
<1>2. ASSUME NEW p \in posts, PlainFails(p) PROVE PipelinesInv'
  <2>1. Numbered /\ PostsInv'
    BY <1>2, TakenPost DEF PlainFails
  <2> QED
    BY <1>2, <2>1, FaultCounts, FewerChains DEF PlainFails
<1>3. ASSUME NEW c \in chains, WaitFails(c) PROVE PipelinesInv'
  <2>1. Numbered /\ PostsInv'
    BY <1>3, NothingSent DEF WaitFails
  <2>2. faults' \in 0..MaxFaults
    BY <1>3, FaultCounts DEF WaitFails, PipelinesInv
  <2>3. chains' \subseteq chains /\ UNCHANGED <<Server, pages, ui, presses>>
    BY <1>3 DEF WaitFails
  <2> QED
    BY <2>1, <2>2, <2>3, FewerChains
<1> QED
  BY <1>1, <1>2, <1>3

\* Rows are rewritten by the server or the worker.
LEMMA RowsStep ==
  ASSUME PipelinesInv, RunsInv', RunsGrow, made' = made,
         UNCHANGED <<pages, chains, sent, faults, presses>>,
         Numbered, PostsInv', ui' \in ScreenOf(made), SameMount(ui')
  PROVE  PipelinesInv'
<1>1. ui' \in Screen
  BY DEF ScreenOf
<1>2. ChainsInv'
  BY <1>1, SameMountFollows, ChainsStay
<1> QED
  BY <1>2 DEF PipelinesInv, PagesOf, ScreenOf

\* The history is cleared: its runs stay runs.
LEMMA ClearKeepsInv ==
  ASSUME PipelinesInv, NEW p \in posts, Cleared(p) PROVE PipelinesInv'
<1>1. RunsInv /\ runs \in Seq(Run)
  BY DEF PipelinesInv, RunsInv
<1>2. RunsInv' /\ RunsGrow /\ made' = made
  <2>1. runs' = [i \in DOMAIN runs |->
          [runs[i] EXCEPT !.gone = @ \/ runs[i].state \notin InFlight]]
    BY DEF Cleared
  <2>2. ASSUME NEW i \in DOMAIN runs
        PROVE  /\ runs'[i] \in Run /\ runs'[i].id = runs[i].id
               /\ runs'[i].job = runs[i].job
               /\ runs'[i].state = runs[i].state
               /\ runs'[i].taken = runs[i].taken
    <3>1. runs[i] \in Run
      BY <1>1
    <3>2. PICK gone \in BOOLEAN : runs'[i] = [runs[i] EXCEPT !.gone = gone]
      BY <2>1, <3>1
    <3> QED
      BY <3>1, <3>2 DEF Run
  <2>3. runs' \in Seq(Run) /\ DOMAIN runs' = DOMAIN runs
    <3>1. DOMAIN runs = 1..Len(runs) /\ Len(runs) \in Nat
      BY <1>1
    <3>2. runs' \in [1..Len(runs) -> Run]
      BY <2>1, <2>2, <3>1
    <3> QED
      BY <3>1, <3>2
  <2>4. made' = made
    BY DEF Cleared
  <2> QED
    BY <1>1, <2>2, <2>3, <2>4, RewrittenRunsGrow DEF RunsInv
<1>3. Numbered /\ PostsInv'
  BY TakenPost DEF Cleared
<1>4. ui' \in ScreenOf(made) /\ SameMount(ui')
  <2> DEFINE u == IF Here(p.inst) THEN [ui EXCEPT !.page = 0] ELSE ui
  <2>1. u \in ScreenOf(made) /\ SameMount(u)
    BY UiIsSame, SetFields, PipelinesConstants
  <2>2. Show(u)
    BY DEF Cleared
  <2> HIDE DEF u
  <2> QED
    BY <2>1, <2>2, ShownSame
<1> QED
  BY <1>2, <1>3, <1>4, RowsStep DEF Cleared

\* What has produced something is not in flight and is not cancelled.
LEMMA CancelKeepsInv ==
  ASSUME PipelinesInv, NEW p \in posts, Cancelled(p) PROVE PipelinesInv'
<1>1. RunsInv /\ runs \in Seq(Run)
  BY DEF PipelinesInv, RunsInv
<1>2. RunsInv' /\ RunsGrow /\ made' = made
  <2>1. PICK killed \in BOOLEAN :
          runs' = [i \in DOMAIN runs |->
                    [runs[i] EXCEPT !.state =
                                      IF @ \in InFlight THEN "cancelled"
                                              ELSE @,
                                    !.taken = @ /\ ~ killed]]
    BY DEF Cancelled
  <2>2. ASSUME NEW i \in DOMAIN runs
        PROVE  /\ runs'[i] \in Run /\ runs'[i].id = runs[i].id
               /\ runs'[i].job = runs[i].job
               /\ runs'[i].state = IF runs[i].state \in InFlight
                                    THEN "cancelled" ELSE runs[i].state
               /\ runs'[i].taken => runs[i].taken
    <3>1. runs[i] \in Run
      BY <1>1
    <3> DEFINE state == IF runs[i].state \in InFlight THEN "cancelled"
                        ELSE runs[i].state
               taken == runs[i].taken /\ ~ killed
    <3>2. runs'[i] = [id |-> runs[i].id, job |-> runs[i].job,
                      state |-> state, taken |-> taken,
                      gone |-> runs[i].gone]
      BY <2>1, <3>1 DEF Run
    <3>3. state \in InFlight \cup Ended /\ taken \in BOOLEAN
      BY <3>1 DEF Run, Ended
    <3>4. /\ runs[i].id \in Ids /\ runs[i].gone \in BOOLEAN
          /\ runs[i].job \in JOB_CATALOG \cup {"reset"}
      BY <3>1 DEF Run
    <3>5. taken => runs[i].taken
      OBVIOUS
    <3> HIDE DEF taken
    <3>6. runs'[i] \in Run
      <4> HIDE DEF state
      <4> QED
        BY <3>2, <3>3, <3>4 DEF Run
    <3> QED
      BY <3>2, <3>5, <3>6
  <2>3. runs' \in Seq(Run) /\ DOMAIN runs' = DOMAIN runs
    <3>1. DOMAIN runs = 1..Len(runs) /\ Len(runs) \in Nat
      BY <1>1
    <3>2. runs' \in [1..Len(runs) -> Run]
      BY <2>1, <2>2, <3>1
    <3> QED
      BY <3>1, <3>2
  <2>4. \A i \in DOMAIN runs :
          /\ runs'[i].taken => runs'[i].state \in {"running", "cancelled"}
          /\ runs[i].state \in Produced => runs'[i].state \in Produced
    BY <1>1, <2>2 DEF RunsInv, Produced, InFlight
  <2>5. made' = made
    BY DEF Cancelled
  <2> QED
    BY <1>1, <2>2, <2>3, <2>4, <2>5, RewrittenRunsGrow
<1>3. Numbered /\ PostsInv'
  BY TakenPost DEF Cancelled
<1>4. ui' \in ScreenOf(made) /\ SameMount(ui')
  BY UiIsSame DEF Cancelled, SameMount
<1> QED
  BY <1>2, <1>3, <1>4, RowsStep DEF Cancelled

\* The worker writes only to a run that has not produced yet.
LEMMA WorkerKeepsInv == PipelinesInv /\ (StartRun \/ EndRun) => PipelinesInv'
<1> SUFFICES ASSUME PipelinesInv, StartRun \/ EndRun PROVE PipelinesInv'
  OBVIOUS
<1>1. RunsInv /\ runs \in Seq(Run) /\ made' = made
  BY DEF PipelinesInv, RunsInv, StartRun, EndRun
<1>2. PICK i \in DOMAIN runs, state \in InFlight \cup Ended,
           taken \in BOOLEAN :
        /\ runs' = [runs EXCEPT ![i].state = state, ![i].taken = taken]
        /\ runs[i].state \notin Produced
        /\ taken => state \in {"running", "cancelled"}
  <2>1. CASE StartRun
    <3>1. \E i \in Unread : \A k \in Unread : k <= i
      <4> DEFINE T == {made - i : i \in Unread}
      <4>1. made \in Nat /\ Unread \subseteq 1..made /\ Unread # {}
        BY <1>1, <2>1, KeptIsFinite DEF Unread, StartRun
      <4>2. T \in SUBSET Nat /\ T # {}
        <5>1. \A k \in Unread : made - k \in Nat
          BY <4>1
        <5> QED
          BY <4>1, <5>1
      <4>3. PICK x \in T : \A y \in T : x <= y
        BY <4>2, LeastElement
      <4>4. PICK i \in Unread : x = made - i
        BY <4>3
      <4>5. ASSUME NEW k \in Unread PROVE k <= i
        <5>1. x <= made - k
          BY <4>3
        <5> QED
          BY <4>1, <4>4, <5>1
      <4> QED
        BY <4>4, <4>5
    <3>2. PICK i \in Unread :
            runs' = [runs EXCEPT ![i].state = "running", ![i].taken = TRUE]
      BY <2>1, <3>1 DEF StartRun
    <3> QED
      BY <3>2 DEF Unread, InFlight, Produced
  <2>2. CASE EndRun
    <3>1. PICK i \in DOMAIN runs,
               state \in {"succeeded", "partial", "failed"} :
            /\ runs[i].taken
            /\ runs' = [runs EXCEPT ![i].state = state, ![i].taken = FALSE]
      BY <2>2 DEF EndRun
    <3>2. runs[i].state \notin Produced
      BY <1>1, <3>1 DEF RunsInv, Produced
    <3> QED
      BY <3>1, <3>2 DEF Ended
  <2> QED
    BY <2>1, <2>2
<1>3. ASSUME NEW k \in DOMAIN runs
      PROVE  /\ runs'[k] \in Run /\ runs'[k].id = runs[k].id
             /\ runs'[k].job = runs[k].job
             /\ runs'[k].taken => runs'[k].state \in {"running", "cancelled"}
             /\ runs[k].state \in Produced => runs'[k].state \in Produced
  <2>1. runs[k] \in Run /\ runs[i] \in Run
    BY <1>1, <1>2
  <2>2. CASE k = i
    <3>1. runs'[k] = [id |-> runs[k].id, job |-> runs[k].job,
                      state |-> state, taken |-> taken,
                      gone |-> runs[k].gone]
      BY <1>2, <2>1, <2>2 DEF Run
    <3> QED
      BY <1>2, <2>1, <2>2, <3>1 DEF Run
  <2>3. CASE k # i
    BY <1>1, <1>2, <2>1, <2>3 DEF RunsInv
  <2> QED
    BY <2>2, <2>3
<1>4. runs' \in Seq(Run) /\ DOMAIN runs' = DOMAIN runs
  <2>1. DOMAIN runs = 1..Len(runs) /\ Len(runs) \in Nat
    BY <1>1
  <2>2. runs' \in [1..Len(runs) -> Run]
    BY <1>2, <1>3, <2>1
  <2> QED
    BY <2>1, <2>2
<1>5. RunsInv' /\ RunsGrow
  BY <1>1, <1>3, <1>4, RewrittenRunsGrow
<1>6. Numbered /\ PostsInv'
  BY NothingSent DEF StartRun, EndRun
<1>7. ui' \in ScreenOf(made) /\ SameMount(ui')
  BY UiIsSame DEF StartRun, EndRun, SameMount
<1> QED
  BY <1>1, <1>5, <1>6, <1>7, RowsStep DEF StartRun, EndRun

-----------------------------------------------------------------------------
(***************************************************************************)
(* A chain hears of the end of its stage.                                  *)
(***************************************************************************)
LEMMA WaitStep ==
  ASSUME PipelinesInv, NEW c \in chains, c.at = 0
  PROVE  /\ ChainInv(c) /\ c \in Chain /\ c.step \in Steps
         /\ c.step \in Nat \ {0} /\ c.ran \in Seq(Nat)
         /\ Len(c.ran) = c.step /\ DOMAIN c.ran = 1..c.step
         /\ c.ran[c.step] \in 1..made
         /\ Last(c) = RunAt(c.ran[c.step])
         /\ Here(c.inst) => runAllActive
<1>1. ChainInv(c) /\ RunsInv
  BY DEF PipelinesInv, ChainsInv
<1>2. c \in Chain /\ c.step \in Steps /\ c.ran \in Seq(Nat)
      /\ Len(c.ran) = c.step /\ (Here(c.inst) => runAllActive)
  BY <1>1 DEF ChainInv, Chain
<1>3. c.step \in Nat \ {0} /\ DOMAIN c.ran = 1..c.step
      /\ c.step \in DOMAIN c.ran
  BY <1>2, PipelinesConstants
<1>4. c.ran[c.step] \in 1..made
  BY <1>1, <1>3 DEF ChainInv
<1>5. Last(c) = RunAt(c.ran[c.step])
  BY <1>1, <1>2, <1>4, RunOfIsRunAt DEF Last
<1> QED
  BY <1>1, <1>2, <1>3, <1>4, <1>5

\* What a chain reports is of the same mount.
LEMMA ReportIsTyped ==
  ASSUME PipelinesInv, NEW c \in chains, c.at = 0,
         NEW phase \in {"running", "stopped", "done"}, NEW u,
         u \in ScreenOf(made), u.mounted = ui.mounted, u.inst = ui.inst,
         u.phase = phase,
         IF Here(c.inst) THEN Show(u) ELSE Show(ui)
  PROVE  /\ ui' \in ScreenOf(made) /\ ui' \in Screen
         /\ ui'.mounted = ui.mounted /\ ui'.inst = ui.inst
         /\ IF Here(c.inst) THEN ui'.phase = phase ELSE SameMount(ui')
<1>1. made \in Nat /\ made <= made
  BY TypedParts
<1>2. CASE Here(c.inst)
  BY <1>1, <1>2, ShowIsTyped
<1>3. CASE ~ Here(c.inst)
  BY <1>1, <1>3, UiIsSame, ShowIsTyped DEF SameMount
<1> QED
  BY <1>2, <1>3

\* The other chains are of other mounts, whatever this one reports.
LEMMA OthersFollow ==
  ASSUME PipelinesInv, NEW c \in chains, NEW d \in chains, d # c,
         ui'.mounted = ui.mounted, ui'.inst = ui.inst,
         Here(c.inst) \/ SameMount(ui')
  PROVE  Followed(d)
<1>1. d.inst # c.inst /\ ui.inst \in Nat
  BY TypedParts DEF PipelinesInv, ChainsInv, OneChain, Screen
<1>2. CASE Here(c.inst)
  BY <1>1, <1>2 DEF Followed, Here
<1>3. CASE SameMount(ui')
  BY <1>3, SameMountFollows
<1> QED
  BY <1>2, <1>3

\* A chain is over and reports it.
LEMMA EndsChain ==
  ASSUME PipelinesInv, NEW c \in chains, c.at = 0,
         NEW phase \in {"stopped", "done"},
         IF Here(c.inst) THEN Show([ui EXCEPT !.phase = phase]) ELSE Show(ui),
         chains' = chains \ {c},
         UNCHANGED <<Server, pages, posts, sent, faults, presses>>
  PROVE  PipelinesInv'
<1> DEFINE u == [ui EXCEPT !.phase = phase]
<1>1. u \in ScreenOf(made) /\ u.mounted = ui.mounted /\ u.inst = ui.inst
      /\ u.phase = phase
  BY UiIsSame DEF ScreenOf, Screen
<1>2. /\ ui' \in ScreenOf(made) /\ ui' \in Screen
      /\ ui'.mounted = ui.mounted /\ ui'.inst = ui.inst
      /\ Here(c.inst) \/ SameMount(ui')
  <2>1. /\ IF Here(c.inst) THEN Show(u) ELSE Show(ui)
        /\ phase \in {"running", "stopped", "done"} /\ c.at = 0
    OBVIOUS
  <2> HIDE DEF u
  <2> QED
    BY <1>1, <2>1, ReportIsTyped
<1>3. RunsInv' /\ RunsGrow /\ made' = made /\ Numbered /\ PostsInv'
  BY SameRunsGrow, NothingSent DEF PipelinesInv, Server
<1>4. ChainsInv'
  BY <1>2, <1>3, OthersFollow, ChainsStay
<1> QED
  BY <1>2, <1>3, <1>4 DEF PipelinesInv, PagesOf, ScreenOf

\* The next stage is asked for: the one that ended has produced something.
LEMMA NextStage ==
  ASSUME PipelinesInv, NEW c \in chains, WaitEnds(c),
         Last(c).state \notin Stops, c.step < Len(PIPELINE_ORDER),
         posts' = posts \cup {[n |-> sent + 1, inst |-> c.inst,
                              origin |-> "chain",
                              job |-> PIPELINE_ORDER[c.step + 1]]},
         sent' = sent + 1,
         chains' = (chains \ {c}) \cup
                     {[c EXCEPT !.step = @ + 1, !.at = sent + 1]},
         IF Here(c.inst)
         THEN Show([ui EXCEPT !.phase = "running", !.step = c.step + 1,
                             !.current = sent + 1])
         ELSE Show(ui)
  PROVE  PipelinesInv'
<1> DEFINE job == PIPELINE_ORDER[c.step + 1]
<1>1. PICK d : d = [c EXCEPT !.step = @ + 1, !.at = sent + 1]
  OBVIOUS
<1>2. PICK p : p = [n |-> sent + 1, inst |-> c.inst, origin |-> "chain",
                    job |-> job]
  OBVIOUS
<1>3. c.at = 0 /\ Last(c).state \in Produced
  BY DEF WaitEnds, TERMINAL_STATES, Stops, Produced
<1>4. /\ ChainInv(c) /\ c \in Chain /\ c.step \in Nat \ {0}
      /\ c.ran \in Seq(Nat) /\ Len(c.ran) = c.step
      /\ DOMAIN c.ran = 1..c.step /\ RunAt(c.ran[c.step]).state \in Produced
      /\ Here(c.inst) => runAllActive
  BY <1>3, WaitStep
<1>5. c.step + 1 \in Steps /\ job \in JOB_CATALOG /\ sent \in Nat
      /\ c.step + 1 \in Nat \ {0}
  <2>1. c.step + 1 \in Steps
    BY <1>4, PipelinesConstants DEF Steps
  <2> QED
    BY <1>4, <2>1, PipelinesConstants, TypedParts
<1>6. Numbered /\ PostsInv' /\ posts' = posts \cup {p}
  <2>1. p \in Request /\ p.n = sent + 1 /\ p.job = job
    BY <1>2, <1>4, <1>5 DEF Request, Chain
  <2>2. posts' = posts \cup {p}
    BY <1>2
  <2>3. /\ posts \subseteq Request
        /\ \A q \in posts :
             /\ q.n \in Nat /\ q.n <= sent
             /\ q.n # 0 => q.job \in JOB_CATALOG \cup {"reset"}
    BY DEF PipelinesInv, PostsInv, Request
  <2>4. Numbered
    BY <1>5, <2>1, <2>2 DEF Numbered
  <2>5. PostsInv'
    BY <1>5, <2>1, <2>2, <2>3 DEF PostsInv
  <2> QED
    BY <2>2, <2>4, <2>5
<1>7. /\ ui' \in ScreenOf(made) /\ ui' \in Screen
      /\ ui'.mounted = ui.mounted /\ ui'.inst = ui.inst
      /\ IF Here(c.inst) THEN ui'.phase = "running" ELSE SameMount(ui')
  <2> DEFINE v == [ui EXCEPT !.phase = "running"]
             w == [v EXCEPT !.step = c.step + 1]
             u == [w EXCEPT !.current = sent + 1]
  <2>1. v \in ScreenOf(made) /\ v.mounted = ui.mounted /\ v.inst = ui.inst
        /\ v.phase = "running"
    BY UiIsSame DEF ScreenOf, Screen
  <2>2. w \in ScreenOf(made) /\ w.mounted = ui.mounted /\ w.inst = ui.inst
        /\ w.phase = "running"
    <3> HIDE DEF v
    <3> QED
      BY <1>5, <2>1 DEF ScreenOf, Screen
  <2>0. sent + 1 \in Nat
    BY <1>5
  <2>3. u \in ScreenOf(made) /\ u.mounted = ui.mounted /\ u.inst = ui.inst
        /\ u.phase = "running"
    <3> HIDE DEF w
    <3> QED
      BY <2>0, <2>2 DEF ScreenOf, Screen
  <2>4. u = [ui EXCEPT !.phase = "running", !.step = c.step + 1,
                       !.current = sent + 1]
    <3>1. ui \in Screen
      BY TypedParts
    <3> QED
      BY <3>1 DEF Screen
  <2> HIDE DEF u, v, w
  <2>5. IF Here(c.inst) THEN Show(u) ELSE Show(ui)
    BY <2>4
  <2> QED
    BY <1>3, <2>3, <2>5, ReportIsTyped
<1>8. RunsInv' /\ RunsGrow /\ made' = made
  BY SameRunsGrow DEF PipelinesInv, Server, WaitEnds
<1>9. ASSUME NEW e \in chains PROVE Followed(e)
  <2>1. CASE e = c
    BY <1>4, <1>7, <2>1, TypedParts, SameMountFollows
    DEF Followed, Here, runAllActive, Screen
  <2>2. CASE e # c
    BY <1>7, <2>2, OthersFollow
  <2> QED
    BY <2>1, <2>2
<1>10. \A e \in chains : ChainInv(e)'
  BY <1>6, <1>7, <1>8, <1>9, ChainStays
<1>11. ChainInv(d)'
  <2>1. /\ d \in Chain /\ d.inst = c.inst /\ d.step = c.step + 1
        /\ d.at = sent + 1 /\ d.ran = c.ran
    <3> DEFINE e == [c EXCEPT !.step = c.step + 1]
    <3>1. e \in Chain /\ e.inst = c.inst /\ e.step = c.step + 1
          /\ e.ran = c.ran
      BY <1>4, <1>5 DEF Chain
    <3>2. d = [e EXCEPT !.at = sent + 1]
      BY <1>1, <1>4 DEF Chain
    <3> HIDE DEF e
    <3> QED
      BY <1>5, <3>1, <3>2 DEF Chain
  <2>2. d.at <= sent' /\ d.at # 0 /\ d.inst <= ui'.inst
        /\ (Here(d.inst)' => runAllActive')
    BY <1>4, <1>5, <1>10, <2>1 DEF ChainInv
  <2>3. \A q \in posts' : q.n = sent + 1 => q.job = job
    BY <1>2, <1>5, <1>6 DEF PipelinesInv, PostsInv, Request
  <2>4. Len(d.ran) = d.step - 1
    BY <1>4, <2>1
  <2>5. \A i \in DOMAIN d.ran :
          d.ran[i] \in 1..made' /\ RunAt(d.ran[i])'.job = PIPELINE_ORDER[i]
    BY <1>10, <2>1 DEF ChainInv
  <2>6. \A i \in 1..(d.step - 1) : RunAt(d.ran[i])'.state \in Produced
    <3>1. \A i \in 1..(d.step - 1) :
            i \in DOMAIN c.ran /\ (i = c.step \/ i \in 1..(c.step - 1))
      BY <1>4, <2>1
    <3>2. \A i \in 1..(c.step - 1) : RunAt(c.ran[i]).state \in Produced
      BY <1>4 DEF ChainInv
    <3>3. \A i \in DOMAIN c.ran : c.ran[i] \in 1..made
      BY <1>4 DEF ChainInv
    <3> QED
      BY <1>4, <1>8, <2>1, <3>1, <3>2, <3>3 DEF RunsGrow
  <2> QED
    BY <2>1, <2>2, <2>3, <2>4, <2>5, <2>6 DEF ChainInv
<1>12. ChainsInv'
  <2>1. chains' = (chains \ {c}) \cup {d} /\ d.inst = c.inst
    BY <1>1, <1>4 DEF Chain
  <2>2. \A e \in chains : e # c => e.inst # c.inst
    BY DEF PipelinesInv, ChainsInv, OneChain
  <2>3. OneChain'
    BY <2>1, <2>2 DEF PipelinesInv, ChainsInv, OneChain
  <2> QED
    BY <1>10, <1>11, <2>1, <2>3 DEF ChainsInv
<1> QED
  BY <1>6, <1>7, <1>8, <1>12 DEF PipelinesInv, PagesOf, ScreenOf, WaitEnds

\* The socket of a chain reports the end of its run.
LEMMA WaitKeepsInv ==
  ASSUME PipelinesInv, NEW c \in chains, WaitEnds(c) PROVE PipelinesInv'
<1>1. c.at = 0 /\ UNCHANGED <<Server, pages, faults, presses>>
  BY DEF WaitEnds
<1>2. CASE Last(c).state \in Stops
  BY <1>1, <1>2, EndsChain DEF WaitEnds
<1>3. CASE Last(c).state \notin Stops /\ c.step = Len(PIPELINE_ORDER)
  <2>1. ~ (c.step < Len(PIPELINE_ORDER))
    BY <1>3, PipelinesConstants
  <2> QED
    BY <1>1, <1>3, <2>1, EndsChain DEF WaitEnds
<1>4. CASE Last(c).state \notin Stops /\ c.step < Len(PIPELINE_ORDER)
  <2>1. c.step # Len(PIPELINE_ORDER)
    BY <1>4, PipelinesConstants
  <2> QED
    BY <1>4, <2>1, NextStage DEF WaitEnds
<1> QED
  BY <1>2, <1>3, <1>4 DEF WaitEnds

-----------------------------------------------------------------------------
\* At first there is nothing.
LEMMA PipelinesInitInv == Init => PipelinesInv
<1> SUFFICES ASSUME Init PROVE PipelinesInv
  OBVIOUS
<1>1. runs = <<>> /\ made = 0 /\ RunsInv
  BY DEF Init, RunsInv
<1>2. pages \in [PageNrs -> PagesOf(made)]
  <2>1. Unknown \in PagesOf(made)
    <3>1. <<>> \in Seq(Row) /\ Len(<<>>) = 0
      OBVIOUS
    <3>2. Unknown \in Pages
      BY <3>1 DEF Unknown, Pages
    <3>3. Unknown.rows = <<>> /\ DOMAIN Unknown.rows = {}
      BY DEF Unknown
    <3> QED
      BY <3>1, <3>2, <3>3, PipelinesConstants DEF PagesOf
  <2> QED
    BY <2>1 DEF Init
<1>3. ui \in ScreenOf(made)
  <2>1. ui = [mounted |-> FALSE, inst |-> 0, page |-> 0, open |-> "none",
              allForm |-> FALSE, selected |-> 0, current |-> 0,
              resetting |-> 0, histArmed |-> FALSE, dataArmed |-> FALSE,
              phase |-> "idle", step |-> 1]
    BY DEF Init, Gone, Fresh
  <2>2. 0 \in PageNrs /\ 1 \in Steps /\ 0 \in 0..MaxMounts
    BY PipelinesConstants DEF Steps
  <2> QED
    BY <1>1, <2>1, <2>2 DEF ScreenOf, Screen
<1> QED
  BY <1>1, <1>2, <1>3, PipelinesConstants
  DEF PipelinesInv, PostsInv, ChainsInv, OneChain, Init

\* Every step keeps the invariant.
LEMMA PipelinesStepInv == PipelinesInv /\ [Next]_vars => PipelinesInv'
<1> SUFFICES ASSUME PipelinesInv, [Next]_vars PROVE PipelinesInv'
  OBVIOUS
<1>1. CASE Mount \/ Leave
  BY <1>1, MountKeepsInv, LeaveKeepsInv
<1>2. CASE \E p \in PageNrs : fetchRuns(p) \/ FetchFails(p)
  BY <1>2, FetchKeepsInv
<1>3. CASE \/ PressRunAll \/ SelectRun \/ \E d \in {-1, 1} : TurnPage(d)
           \/ TimeOut \/ DoneFades
  BY <1>3, LooksKeepInv
<1>4. CASE runAll
  BY <1>4, StartsChain
<1>5. CASE \/ \E job \in JOB_CATALOG : PressRun(job) \/ SubmitForm(job)
           \/ PressStopAll \/ PressClearHistory \/ PressClearData
  BY <1>5, SendsKeepInv
<1>6. CASE \E p \in posts : TriggerAnswered(p)
  BY <1>6, AnswerKeepsInv
<1>7. CASE \/ \E p \in posts : TriggerFails(p) \/ PlainFails(p)
           \/ \E c \in chains : WaitFails(c)
  BY <1>7, RefusalsKeepInv
<1>8. CASE \E p \in posts : Cleared(p) \/ Cancelled(p)
  BY <1>8, ClearKeepsInv, CancelKeepsInv
<1>9. CASE \E c \in chains : WaitEnds(c)
  BY <1>9, WaitKeepsInv
<1>10. CASE StartRun \/ EndRun
  BY <1>10, WorkerKeepsInv
<1>11. CASE UNCHANGED vars
  <2>1. UNCHANGED <<Server, pages, ui, presses>> /\ UNCHANGED <<posts, sent>>
        /\ chains' = chains /\ faults' \in 0..MaxFaults
    BY <1>11 DEF vars, Server, PipelinesInv
  <2> QED
    BY <2>1, NothingSent, FewerChains
<1> QED
  BY <1>1, <1>2, <1>3, <1>4, <1>5, <1>6, <1>7, <1>8, <1>9, <1>10, <1>11
  DEF Next

\* Whatever is pressed, cancelled, cleared or remounted meanwhile, the screen,
\* its requests and its chains speak of runs there are, and each chain awaits
\* the stage it is at (useRunAllJobs.ts:33-66).
THEOREM PipelinesInvariant == Spec => []PipelinesInv
BY PipelinesInitInv, PipelinesStepInv, PTL DEF Spec

\* Paging through the history loses and repeats nothing while the table stays
\* as it is: the pages are in order, newest first, every run that was not
\* cleared is on one of them, and there is more after a page exactly when the
\* next one has rows (db.go:74-104).
THEOREM HistoryPages == Spec => []HistoryIsPaged
<1>1. RunsInv => OrderedPages
  BY PagesInOrder DEF OrderedPages
<1>2. PipelinesInv => HistoryIsPaged
  BY <1>1, RunsAreListed, MoreMeansNextPage DEF PipelinesInv, HistoryIsPaged
<1> QED
  BY <1>2, PipelinesInvariant, PTL

\* Type correctness: what is selected or was run exists, and a page is not
\* longer than it was asked for (db.go:78-103).
THEOREM PipelinesTyped == Spec => []TypeOK
<1>1. PipelinesInv => TypeOK
  <2> SUFFICES ASSUME PipelinesInv PROVE TypeOK
    OBVIOUS
  <2>1. runs \in Seq(Run) /\ made = Len(runs)
    BY DEF PipelinesInv, RunsInv
  <2>2. /\ pages \in [PageNrs -> Pages]
        /\ \A p \in PageNrs : Len(pages[p].rows) <= PageSize
    BY DEF PipelinesInv, PagesOf
  <2>3. ui \in Screen /\ ui.selected <= made
    BY DEF PipelinesInv, ScreenOf
  <2>4. posts \subseteq Request /\ sent \in Nat
    BY DEF PipelinesInv, PostsInv
  <2>5. chains \subseteq Chain
        /\ \A c \in chains : \A i \in DOMAIN c.ran : c.ran[i] \in 1..made
    BY DEF PipelinesInv, ChainsInv, ChainInv
  <2> QED
    BY <2>1, <2>2, <2>3, <2>4, <2>5 DEF TypeOK, PipelinesInv
<1> QED
  BY <1>1, PipelinesInvariant, PTL

\* The chain keeps its order: every stage before the one it asks for is a run
\* of that stage which ended with data, and a mount has one chain
\* (useRunAllJobs.ts:21-25).
THEOREM ChainKeepsOrder == Spec => []ChainInOrder
<1>1. PipelinesInv => ChainInOrder
  <2> SUFFICES ASSUME PipelinesInv, NEW c \in chains
               PROVE  /\ \A i \in 1..(c.step - 1) :
                           /\ RunOf(c.ran[i]).job = PIPELINE_ORDER[i]
                           /\ RunOf(c.ran[i]).state \in Produced
                      /\ \A d \in chains : c.inst = d.inst => c = d
    BY DEF ChainInOrder, Produced
  <2>1. ChainInv(c) /\ OneChain /\ RunsInv
    BY DEF PipelinesInv, ChainsInv
  <2>2. c \in Chain /\ c.step \in Nat \ {0} /\ c.ran \in Seq(Nat)
        /\ Len(c.ran) \in {c.step, c.step - 1}
    BY <2>1, PipelinesConstants DEF ChainInv, Chain
  <2>3. 1..(c.step - 1) \subseteq DOMAIN c.ran
    BY <2>2
  <2>4. ASSUME NEW i \in 1..(c.step - 1)
        PROVE  /\ RunOf(c.ran[i]).job = PIPELINE_ORDER[i]
               /\ RunOf(c.ran[i]).state \in Produced
    <3>1. /\ c.ran[i] \in 1..made
          /\ RunAt(c.ran[i]).job = PIPELINE_ORDER[i]
          /\ RunAt(c.ran[i]).state \in Produced
      BY <2>1, <2>3 DEF ChainInv
    <3> QED
      BY <2>1, <3>1, RunOfIsRunAt
  <2> QED
    BY <2>1, <2>4 DEF OneChain
<1> QED
  BY <1>1, PipelinesInvariant, PTL
=============================================================================
