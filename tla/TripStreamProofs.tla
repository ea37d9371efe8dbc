-------------------------- MODULE TripStreamProofs --------------------------
(***************************************************************************)
(* For any connections, capacities, trips and faults: a mounted screen     *)
(* holds one connection or one timer, the feed is in the topic's order,    *)
(* and a window frame sums up exactly the trips that were shown since the  *)
(* last one.                                                               *)
(*                                                                         *)
(* The last two are statements about what is in a channel: between two     *)
(* windows of it lie the trips of the second, Summed, and its trips rise,  *)
(* Rising. Both are kept when a frame is put at the end of the channel and *)
(* when one is taken from its front, which is proved first, for sequences  *)
(* alone.                                                                  *)
(***************************************************************************)
EXTENDS TripStream, SequenceTheorems, TLAPS

IsTrip(f) == f.type = "trip"
IsWindow(f) == f.type = "window"

\* From a window of q (or from before q, where `from` is 0 and `base` is what
\* was received) to the next one, or to the end of q, where `win` is what has
\* been added up: the second holds the trips in between.
Between(q, i, j) == {k \in 1..Len(q) : i < k /\ k < j}
Span(q, i, j) == {q[k].trip : k \in Between(q, i, j)}
Content(q, j, win) == IF j = Len(q) + 1 THEN win ELSE q[j].window
Adjacent(q, i, j) ==
  /\ i < j
  /\ i = 0 \/ IsWindow(q[i])
  /\ j = Len(q) + 1 \/ IsWindow(q[j])
  /\ \A k \in Between(q, i, j) : IsTrip(q[k])
Summed(q, from, base, win) ==
  \A i \in from..Len(q), j \in 1..(Len(q) + 1) :
    Adjacent(q, i, j) =>
      Content(q, j, win) = (IF i = 0 THEN base \cup Span(q, i, j) ELSE Span(q, i, j))

\* The trips of q rise, from above low up to top.
Rising(q, low, top) ==
  \A i \in DOMAIN q : IsTrip(q[i]) =>
    /\ low < q[i].trip /\ q[i].trip <= top
    /\ \A j \in DOMAIN q : i < j /\ IsTrip(q[j]) => q[i].trip < q[j].trip

-----------------------------------------------------------------------------
LEMMA FrameKinds ==
  ASSUME NEW f \in Frames
  PROVE  \/ IsTrip(f) /\ ~ IsWindow(f) /\ f.trip \in Offsets
         \/ IsWindow(f) /\ ~ IsTrip(f) /\ f.window \in SUBSET Offsets
BY DEF Frames, Trip, Window, IsTrip, IsWindow

LEMMA FrameOfTrip ==
  ASSUME NEW n PROVE Trip(n).trip = n /\ IsTrip(Trip(n)) /\ ~ IsWindow(Trip(n))
BY DEF Trip, IsTrip, IsWindow

LEMMA FrameOfWindow ==
  ASSUME NEW w
  PROVE  Window(w).window = w /\ IsWindow(Window(w)) /\ ~ IsTrip(Window(w))
BY DEF Window, IsTrip, IsWindow

LEMMA Appended ==
  ASSUME NEW q \in Seq(Frames), NEW f \in Frames
  PROVE  /\ Append(q, f) \in Seq(Frames) /\ Len(q) \in Nat
         /\ Len(Append(q, f)) = Len(q) + 1
         /\ \A k \in 1..Len(q) : Append(q, f)[k] = q[k]
         /\ Append(q, f)[Len(q) + 1] = f
BY AppendProperties, LenProperties

LEMMA TailShifts ==
  ASSUME NEW q \in Seq(Frames), q # <<>>
  PROVE  /\ Head(q) = q[1] /\ q[1] \in Frames /\ Tail(q) \in Seq(Frames)
         /\ Len(q) \in Nat \ {0} /\ Len(Tail(q)) = Len(q) - 1
         /\ \A k \in 1..(Len(q) - 1) : Tail(q)[k] = q[k + 1]
BY HeadTailProperties, EmptySeq, ElementOfSeq

\* An empty channel of which nothing is known.
LEMMA SummedEmpty ==
  ASSUME NEW base, NEW win PROVE Summed(<<>>, 1, base, win)
BY EmptySeq DEF Summed

\* p is q with one more frame.
Extends(p, q, f) ==
  /\ p \in Seq(Frames) /\ Len(q) \in Nat /\ Len(p) = Len(q) + 1
  /\ \A k \in 1..Len(q) : p[k] = q[k]
  /\ p[Len(q) + 1] = f

\* A trip is put at the end, and added up.
LEMMA SummedTrip ==
  ASSUME NEW q \in Seq(Frames), NEW p, NEW n, NEW from \in {0, 1},
         NEW base, NEW win, Extends(p, q, Trip(n)), Summed(q, from, base, win)
  PROVE  Summed(p, from, base, win \cup {n})
<1> DEFINE len == Len(q)
<1>1. /\ len \in Nat /\ Len(p) = len + 1 /\ p[len + 1] = Trip(n)
      /\ \A k \in 1..len : p[k] = q[k]
  BY DEF Extends
<1>2. IsTrip(p[len + 1]) /\ ~ IsWindow(p[len + 1]) /\ p[len + 1].trip = n
  BY <1>1, FrameOfTrip
<1> SUFFICES ASSUME NEW i \in from..Len(p), NEW j \in 1..(Len(p) + 1),
                    Adjacent(p, i, j)
             PROVE  Content(p, j, win \cup {n})
                      = (IF i = 0 THEN base \cup Span(p, i, j) ELSE Span(p, i, j))
  BY DEF Summed
<1>3. i \in from..len /\ j \in 1..(len + 2)
  BY <1>1, <1>2 DEF Adjacent, Between
<1>4. CASE j = len + 2
  <2>1. Adjacent(q, i, len + 1)
    BY <1>1, <1>3, <1>4 DEF Adjacent, Between
  <2>2. len + 1 \in 1..(len + 1) /\ Content(q, len + 1, win) = win
    BY <1>1 DEF Content
  <2>3. IF i = 0 THEN win = base \cup Span(q, i, len + 1)
                 ELSE win = Span(q, i, len + 1)
    BY <1>3, <2>1, <2>2 DEF Summed
  <2>4. Span(p, i, j) = Span(q, i, len + 1) \cup {n}
    BY <1>1, <1>2, <1>3, <1>4 DEF Span, Between
  <2>5. Content(p, j, win \cup {n}) = win \cup {n}
    BY <1>1, <1>4 DEF Content
  <2>6. CASE i = 0
    BY <2>3, <2>4, <2>5, <2>6
  <2>7. CASE i # 0
    BY <2>3, <2>4, <2>5, <2>7
  <2> QED
    BY <2>6, <2>7
<1>5. CASE j # len + 2
  <2>1. j \in 1..len /\ Adjacent(q, i, j)
    BY <1>1, <1>2, <1>3, <1>5 DEF Adjacent, Between
  <2>2. Span(p, i, j) = Span(q, i, j)
    BY <1>1, <1>3, <2>1 DEF Span, Between
  <2>3. Content(p, j, win \cup {n}) = Content(q, j, win)
    BY <1>1, <2>1 DEF Content
  <2>4. j \in 1..(len + 1)
    BY <1>1, <2>1
  <2> QED
    BY <1>3, <2>1, <2>2, <2>3, <2>4 DEF Summed
<1> QED
  BY <1>4, <1>5

\* What was added up is put at the end as a window, and nothing is added up.
LEMMA SummedWindow ==
  ASSUME NEW q \in Seq(Frames), NEW p, NEW from \in {0, 1},
         NEW base, NEW win, Extends(p, q, Window(win)), Summed(q, from, base, win)
  PROVE  Summed(p, from, base, {})
<1> DEFINE len == Len(q)
<1>1. /\ len \in Nat /\ Len(p) = len + 1 /\ p[len + 1] = Window(win)
      /\ \A k \in 1..len : p[k] = q[k]
  BY DEF Extends
<1>2. IsWindow(p[len + 1]) /\ ~ IsTrip(p[len + 1]) /\ p[len + 1].window = win
  BY <1>1, FrameOfWindow
<1> SUFFICES ASSUME NEW i \in from..Len(p), NEW j \in 1..(Len(p) + 1),
                    Adjacent(p, i, j)
             PROVE  Content(p, j, {})
                      = (IF i = 0 THEN base \cup Span(p, i, j) ELSE Span(p, i, j))
  BY DEF Summed
<1>3. CASE j = len + 2
  <2>1. i = len + 1
    BY <1>1, <1>2, <1>3 DEF Adjacent, Between
  <2>2. Span(p, i, j) = {}
    BY <1>1, <1>3, <2>1 DEF Span, Between
  <2> QED
    BY <1>1, <1>3, <2>1, <2>2 DEF Content
<1>4. CASE j # len + 2
  <2>1. j \in 1..(len + 1) /\ i \in from..len /\ Adjacent(q, i, j)
    BY <1>1, <1>2, <1>4 DEF Adjacent, Between
  <2>2. Span(p, i, j) = Span(q, i, j)
    BY <1>1, <2>1 DEF Span, Between
  <2>3. Content(p, j, {}) = Content(q, j, win)
    BY <1>1, <1>2, <2>1 DEF Content
  <2> QED
    BY <1>1, <2>1, <2>2, <2>3 DEF Summed
<1> QED
  BY <1>3, <1>4

\* q without its first frame.
Shortens(p, q) ==
  /\ p \in Seq(Frames) /\ Len(q) \in Nat \ {0} /\ Len(p) = Len(q) - 1
  /\ \A k \in 1..(Len(q) - 1) : p[k] = q[k + 1]

\* What lies between two places of p lies between the next ones of q.
LEMMA ShiftSpan ==
  ASSUME NEW q, NEW p, Shortens(p, q),
         NEW i \in 0..(Len(q) - 1), NEW j \in 1..Len(q), Adjacent(p, i, j)
  PROVE  /\ Span(q, i + 1, j + 1) = Span(p, i, j)
         /\ \A k \in Between(q, i + 1, j + 1) : IsTrip(q[k])
<1> DEFINE len == Len(q)
           B   == Between(q, i + 1, j + 1)
<1>1. /\ len \in Nat /\ len > 0 /\ Len(p) = len - 1
      /\ \A k \in 1..(len - 1) : p[k] = q[k + 1]
  BY DEF Shortens
<1>2. ASSUME NEW k \in Between(p, i, j) PROVE k + 1 \in B /\ q[k + 1] = p[k]
  BY <1>1 DEF Between
<1>3. ASSUME NEW k \in B PROVE k - 1 \in Between(p, i, j) /\ q[k] = p[k - 1]
  <2>1. k - 1 \in 1..(len - 1) /\ (k - 1) + 1 = k /\ i < k - 1 /\ k - 1 < j
    BY <1>1 DEF Between
  <2> QED
    BY <1>1, <2>1 DEF Between
<1> HIDE DEF B
<1>4. ASSUME NEW x PROVE x \in Span(p, i, j) <=> x \in {q[k].trip : k \in B}
  <2>1. ASSUME NEW k \in Between(p, i, j), x = p[k].trip
        PROVE  \E m \in B : x = q[m].trip
    BY <1>2, <2>1
  <2>2. ASSUME NEW k \in B, x = q[k].trip
        PROVE  \E m \in Between(p, i, j) : x = p[m].trip
    BY <1>3, <2>2
  <2> QED
    BY <2>1, <2>2 DEF Span
<1>5. Span(q, i + 1, j + 1) = Span(p, i, j)
  BY <1>4 DEF Span, B
<1>6. \A k \in B : IsTrip(q[k])
  BY <1>3 DEF Adjacent
<1> QED
  BY <1>5, <1>6 DEF B

LEMMA Shift ==
  ASSUME NEW q, NEW p, Shortens(p, q),
         NEW i \in 0..(Len(q) - 1), NEW j \in 1..Len(q), Adjacent(p, i, j)
  PROVE  /\ \A win : Content(p, j, win) = Content(q, j + 1, win)
         /\ (i = 0 => IsWindow(q[1])) =>
              /\ Adjacent(q, i + 1, j + 1)
              /\ Span(q, i + 1, j + 1) = Span(p, i, j)
         /\ i = 0 /\ IsTrip(q[1]) =>
              /\ Adjacent(q, 0, j + 1)
              /\ Span(q, 0, j + 1) = Span(p, i, j) \cup {q[1].trip}
<1> DEFINE len == Len(q)
<1>1. /\ len \in Nat /\ len > 0 /\ Len(p) = len - 1
      /\ \A k \in 1..(len - 1) : p[k] = q[k + 1]
  BY DEF Shortens
<1>2. /\ j = len \/ (j \in 1..(len - 1) /\ p[j] = q[j + 1])
      /\ i = 0 \/ (i \in 1..(len - 1) /\ p[i] = q[i + 1])
  BY <1>1
<1>3. \A win : Content(p, j, win) = Content(q, j + 1, win)
  BY <1>1, <1>2 DEF Content
<1>4. /\ i + 1 < j + 1 /\ (j + 1 = len + 1 \/ IsWindow(q[j + 1]))
      /\ i = 0 \/ IsWindow(q[i + 1])
  BY <1>1, <1>2 DEF Adjacent
<1>5. /\ Span(q, i + 1, j + 1) = Span(p, i, j)
      /\ \A k \in Between(q, i + 1, j + 1) : IsTrip(q[k])
  BY ShiftSpan
<1>6. ASSUME i = 0 => IsWindow(q[1]) PROVE Adjacent(q, i + 1, j + 1)
  BY <1>1, <1>4, <1>5, <1>6 DEF Adjacent
<1>7. ASSUME i = 0, IsTrip(q[1])
      PROVE  /\ Adjacent(q, 0, j + 1)
             /\ Span(q, 0, j + 1) = Span(p, i, j) \cup {q[1].trip}
  <2>1. Between(q, 0, j + 1) = Between(q, i + 1, j + 1) \cup {1}
    BY <1>1, <1>7 DEF Between
  <2>2. Span(q, 0, j + 1) = Span(q, i + 1, j + 1) \cup {q[1].trip}
    BY <2>1 DEF Span
  <2>3. Adjacent(q, 0, j + 1)
    BY <1>1, <1>4, <1>5, <1>7, <2>1 DEF Adjacent
  <2> QED
    BY <1>5, <2>2, <2>3
<1> QED
  BY <1>3, <1>5, <1>6, <1>7

\* A trip is taken from the front: it is the next one received.
LEMMA SummedTakeTrip ==
  ASSUME NEW q \in Seq(Frames), NEW p, NEW from \in {0, 1}, NEW base, NEW win,
         Shortens(p, q), IsTrip(q[1]), Summed(q, from, base, win)
  PROVE  Summed(p, from, base \cup {q[1].trip}, win)
<1> DEFINE len == Len(q)
<1>1. /\ len \in Nat /\ len > 0 /\ Len(p) = len - 1
      /\ \A k \in 1..(len - 1) : p[k] = q[k + 1]
  BY DEF Shortens
<1> SUFFICES ASSUME NEW i \in from..(len - 1), NEW j \in 1..len, Adjacent(p, i, j)
             PROVE  Content(p, j, win)
                      = (IF i = 0 THEN (base \cup {q[1].trip}) \cup Span(p, i, j)
                                    ELSE Span(p, i, j))
  BY <1>1 DEF Summed
<1>2. i \in 0..(len - 1) /\ j + 1 \in 1..(len + 1)
  BY <1>1
<1>3. CASE i = 0
  <2>1. /\ Content(p, j, win) = Content(q, j + 1, win) /\ Adjacent(q, 0, j + 1)
        /\ Span(q, 0, j + 1) = Span(p, i, j) \cup {q[1].trip}
    BY <1>2, <1>3, Shift
  <2>2. 0 \in from..len
    BY <1>1, <1>3
  <2>3. Content(q, j + 1, win) = base \cup Span(q, 0, j + 1)
    BY <1>2, <2>1, <2>2 DEF Summed
  <2> QED
    BY <1>3, <2>1, <2>3
<1>4. CASE i # 0
  <2>1. i + 1 # 0 /\ i + 1 \in from..len
    BY <1>1, <1>2, <1>4
  <2>2. /\ Content(p, j, win) = Content(q, j + 1, win) /\ Adjacent(q, i + 1, j + 1)
        /\ Span(q, i + 1, j + 1) = Span(p, i, j)
    BY <1>2, <1>4, Shift
  <2>3. Content(q, j + 1, win) = Span(q, i + 1, j + 1)
    BY <1>1, <1>2, <2>1, <2>2 DEF Summed
  <2> QED
    BY <1>4, <2>2, <2>3
<1> QED
  BY <1>3, <1>4

\* A window is taken from the front: it is what was received before it, and
\* from here on all is known.
LEMMA SummedTakeWindow ==
  ASSUME NEW q \in Seq(Frames), NEW p, NEW from \in {0, 1}, NEW base, NEW win,
         Shortens(p, q), IsWindow(q[1]), Summed(q, from, base, win)
  PROVE  /\ from = 0 => q[1].window = base
         /\ Summed(p, 0, {}, win)
<1> DEFINE len == Len(q)
<1>1. /\ len \in Nat /\ len > 0 /\ Len(p) = len - 1
      /\ \A k \in 1..(len - 1) : p[k] = q[k + 1]
  BY DEF Shortens
<1>2. ASSUME from = 0 PROVE q[1].window = base
  <2>1. Adjacent(q, 0, 1) /\ Span(q, 0, 1) = {} /\ Content(q, 1, win) = q[1].window
    BY <1>1 DEF Adjacent, Span, Content, Between
  <2>2. 0 \in from..len /\ 1 \in 1..(len + 1)
    BY <1>1, <1>2
  <2> QED
    BY <2>1, <2>2 DEF Summed
<1>3. ASSUME NEW i \in 0..(len - 1), NEW j \in 1..len, Adjacent(p, i, j)
      PROVE  Content(p, j, win) = Span(p, i, j)
  <2>1. i + 1 # 0 /\ i + 1 \in from..len /\ j + 1 \in 1..(len + 1)
    BY <1>1
  <2>2. /\ Content(p, j, win) = Content(q, j + 1, win) /\ Adjacent(q, i + 1, j + 1)
        /\ Span(q, i + 1, j + 1) = Span(p, i, j)
    BY <1>3, <2>1, Shift
  <2>3. Content(q, j + 1, win) = Span(q, i + 1, j + 1)
    BY <1>1, <2>1, <2>2 DEF Summed
  <2> QED
    BY <2>2, <2>3
<1>4. Summed(p, 0, {}, win)
  BY <1>1, <1>3 DEF Summed
<1> QED
  BY <1>2, <1>4
-----------------------------------------------------------------------------
LEMMA RisingEmpty ==
  ASSUME NEW low, NEW top PROVE Rising(<<>>, low, top)
BY EmptySeq DEF Rising

\* A later trip is put at the end.
LEMMA RisingTrip ==
  ASSUME NEW q \in Seq(Frames), NEW p, NEW n \in Nat, NEW low \in Nat,
         NEW top \in Nat, Extends(p, q, Trip(n)), Rising(q, low, top),
         low <= top, top < n
  PROVE  Rising(p, low, n)
<1> DEFINE len == Len(q)
<1>1. /\ len \in Nat /\ DOMAIN p = 1..(len + 1) /\ DOMAIN q = 1..len
      /\ p[len + 1] = Trip(n) /\ \A k \in 1..len : p[k] = q[k] /\ q[k] \in Frames
  BY LenProperties, ElementOfSeq DEF Extends
<1>2. p[len + 1].trip = n
  BY <1>1, FrameOfTrip
<1>3. \A k \in 1..len : IsTrip(q[k]) => q[k].trip \in Nat
  BY <1>1, FrameKinds, TripStreamAssumption DEF Offsets, TripStreamAssumption
<1> QED
  BY <1>1, <1>2, <1>3 DEF Rising

\* A window changes nothing.
LEMMA RisingWindow ==
  ASSUME NEW q \in Seq(Frames), NEW p, NEW w, NEW low, NEW top,
         Extends(p, q, Window(w)), Rising(q, low, top)
  PROVE  Rising(p, low, top)
<1> DEFINE len == Len(q)
<1>1. /\ len \in Nat /\ DOMAIN p = 1..(len + 1) /\ DOMAIN q = 1..len
      /\ p[len + 1] = Window(w) /\ \A k \in 1..len : p[k] = q[k]
  BY LenProperties DEF Extends
<1>2. ~ IsTrip(p[len + 1])
  BY <1>1, FrameOfWindow
<1> QED
  BY <1>1, <1>2 DEF Rising

\* The bound above may be raised.
LEMMA RisingHigher ==
  ASSUME NEW q \in Seq(Frames), NEW low, NEW top \in Nat, NEW higher \in Nat,
         top <= higher, Rising(q, low, top)
  PROVE  Rising(q, low, higher)
<1>1. \A k \in DOMAIN q : IsTrip(q[k]) => q[k].trip \in Nat
  BY LenProperties, ElementOfSeq, FrameKinds, TripStreamAssumption
     DEF Offsets, TripStreamAssumption
<1> QED
  BY <1>1 DEF Rising

\* The frame taken from the front is the lowest.
LEMMA RisingTake ==
  ASSUME NEW q \in Seq(Frames), NEW p, NEW low, NEW top,
         Shortens(p, q), Rising(q, low, top)
  PROVE  IF IsTrip(q[1])
           THEN low < q[1].trip /\ q[1].trip <= top /\ Rising(p, q[1].trip, top)
           ELSE Rising(p, low, top)
<1> DEFINE len == Len(q)
<1>1. /\ len \in Nat \ {0} /\ DOMAIN p = 1..(len - 1) /\ DOMAIN q = 1..len
      /\ 1 \in 1..len
  BY LenProperties DEF Shortens
<1>2. \A k \in 1..(len - 1) : p[k] = q[k + 1] /\ k + 1 \in 1..len /\ 1 < k + 1
  BY <1>1 DEF Shortens
<1>3. ASSUME NEW k \in 1..(len - 1), IsTrip(p[k])
      PROVE  /\ low < p[k].trip /\ p[k].trip <= top
             /\ IsTrip(q[1]) => q[1].trip < p[k].trip
             /\ \A m \in 1..(len - 1) : k < m /\ IsTrip(p[m]) => p[k].trip < p[m].trip
  <2>1. IsTrip(q[k + 1]) /\ k + 1 \in 1..len /\ p[k] = q[k + 1]
    BY <1>2, <1>3
  <2>2. low < p[k].trip /\ p[k].trip <= top
    BY <1>1, <2>1 DEF Rising
  <2>3. IsTrip(q[1]) => q[1].trip < p[k].trip
    BY <1>1, <1>2, <2>1 DEF Rising
  <2>4. ASSUME NEW m \in 1..(len - 1), k < m, IsTrip(p[m])
        PROVE  p[k].trip < p[m].trip
    <3>1. m + 1 \in 1..len /\ k + 1 < m + 1 /\ p[m] = q[m + 1]
      BY <1>1, <1>2, <2>4
    <3> QED
      BY <1>1, <2>1, <2>4, <3>1 DEF Rising
  <2> QED
    BY <2>2, <2>3, <2>4
<1>4. CASE IsTrip(q[1])
  <2>1. low < q[1].trip /\ q[1].trip <= top
    BY <1>1, <1>4 DEF Rising
  <2>2. Rising(p, q[1].trip, top)
    BY <1>1, <1>3, <1>4 DEF Rising
  <2> QED
    BY <1>4, <2>1, <2>2
<1>5. CASE ~ IsTrip(q[1])
  BY <1>1, <1>3, <1>5 DEF Rising
<1> QED
  BY <1>4, <1>5

-----------------------------------------------------------------------------
(***************************************************************************)
(* The inductive invariant.                                                *)
(***************************************************************************)

\* The consumer: nothing is held while the process is down, and what is held
\* has been read.
Held ==
  /\ ~up => holding = "nothing" /\ window = {} /\ restarts
  /\ holding = "record" => offset # 0

\* The browser: only its current connection is not cut.
Linked == OneConnection /\ \A c \in Conns : link[c] # "cut" => c = socket

\* A handler writes a frame, or holds none; and what was received is counted
\* from the first window of a connection on.
Handler(c) ==
  /\ IF spc[c] = "writing" THEN frame[c] # NoFrame ELSE frame[c] = NoFrame
  /\ link[c] = "dialling" => spc[c] = "none"
  /\ link[c] # "cut" /\ ~ Subscribed(c) => pending = Unknown
Uncounted == socket = None => pending = Unknown

\* What was received since the last window, with the frame in the handler's
\* hand; and where the sums of the channel start.
Received(c) == IF IsWindow(frame[c]) THEN {}
               ELSE IF IsTrip(frame[c]) THEN pending \cup {frame[c].trip}
               ELSE pending
From(c) == IF IsWindow(frame[c]) \/ pending # Unknown THEN 0 ELSE 1
Sums(c) ==
  link[c] = "open" /\ Subscribed(c) /\ c \notin dropped =>
    /\ Summed(chan[c], From(c), Received(c), window)
    /\ IsWindow(frame[c]) /\ pending # Unknown => frame[c].window = pending

\* The last trip handed over, the newest one shown, and the newest one that has
\* left the channel.
Top       == IF holding = "record" THEN offset - 1 ELSE offset
Newest    == IF trips = <<>> THEN 0 ELSE trips[1]
Latest(c) == IF IsTrip(frame[c]) THEN frame[c].trip ELSE Newest
Descending == \A i \in 1..(Len(trips) - 1) : trips[i] > trips[i + 1]
Feeds(c) ==
  link[c] = "open" =>
    /\ IsTrip(frame[c]) => Newest < frame[c].trip /\ frame[c].trip <= Top
    /\ Rising(chan[c], Latest(c), Top)
Feed == Descending /\ Newest <= Top /\ \A c \in Conns : Feeds(c)

StreamInv ==
  /\ TypeOK /\ Held /\ Linked /\ Uncounted
  /\ \A c \in Conns : Handler(c) /\ Sums(c)
  /\ restarts \/ Feed

-----------------------------------------------------------------------------
(***************************************************************************)
(* What the invariant says of a connection, and what a broadcast does.     *)
(***************************************************************************)
LEMMA NoFrameKind == ~ IsTrip(NoFrame) /\ ~ IsWindow(NoFrame) /\ NoFrame \notin Frames
BY DEF NoFrame, IsTrip, IsWindow, Frames, Trip, Window

LEMMA TypedNumbers ==
  ASSUME TypeOK, Held
  PROVE  /\ MaxTrips \in Nat /\ BufCap \in Nat \ {0} /\ MaxShown \in Nat \ {0}
         /\ produced \in Nat /\ offset \in Nat /\ Top \in Nat
         /\ holding = "record" => offset \in Offsets /\ Top = offset - 1
         /\ holding # "record" => Top = offset
BY TripStreamAssumption DEF TripStreamAssumption, TypeOK, Held, Top, Offsets

\* Every channel takes the frame, or is full or of nobody and stays.
LEMMA BroadcastReaches ==
  ASSUME TypeOK, NEW f \in Frames, Broadcast(f)
  PROVE  /\ chan' \in [Conns -> Seq(Frames)] /\ dropped' \in SUBSET Conns
         /\ \A c \in Conns :
              /\ Len(chan'[c]) <= BufCap
              /\ ~ Subscribed(c) => chan'[c] = <<>>
              /\ c \in dropped => c \in dropped'
              /\ \/ Extends(chan'[c], chan[c], f)
                 \/ /\ chan'[c] = chan[c]
                    /\ link[c] = "open" /\ Subscribed(c) => c \in dropped'
<1>1. chan \in [Conns -> Seq(Frames)] /\ dropped \subseteq Conns
      /\ BufCap \in Nat \ {0}
      /\ \A c \in Conns : Len(chan[c]) \in Nat /\ Len(chan[c]) <= BufCap
                          /\ (~ Subscribed(c) => chan[c] = <<>>)
  BY TripStreamAssumption, LenProperties DEF TypeOK, TripStreamAssumption
<1>2. \A c \in Conns : /\ Append(chan[c], f) \in Seq(Frames)
                        /\ Len(Append(chan[c], f)) = Len(chan[c]) + 1
                        /\ Extends(Append(chan[c], f), chan[c], f)
  BY <1>1, Appended DEF Extends
<1> DEFINE full == {c \in Conns : Subscribed(c) /\ Len(chan[c]) = BufCap}
<1>3. /\ chan' = [c \in Conns |-> IF Subscribed(c) /\ c \notin full
                                    THEN Append(chan[c], f) ELSE chan[c]]
      /\ dropped' = dropped \cup {c \in full : link[c] = "open"}
  BY DEF Broadcast
<1> QED
  BY <1>1, <1>2, <1>3

\* The screen keeps the first MaxShown trips.
LEMMA FirstShownKeeps ==
  ASSUME NEW list \in Seq(Offsets), list # <<>>
  PROVE  /\ FirstShown(list) \in Seq(Offsets) /\ Len(FirstShown(list)) \in 1..MaxShown
         /\ Len(FirstShown(list)) <= Len(list)
         /\ \A i \in 1..Len(FirstShown(list)) : FirstShown(list)[i] = list[i]
<1> DEFINE m == IF Len(list) < MaxShown THEN Len(list) ELSE MaxShown
<1>1. /\ Len(list) \in Nat \ {0} /\ MaxShown \in Nat \ {0} /\ m \in 1..Len(list)
      /\ m <= MaxShown /\ FirstShown(list) = SubSeq(list, 1, m)
      /\ \A i \in 1..m : list[i] \in Offsets
  BY TripStreamAssumption, EmptySeq, LenProperties, ElementOfSeq
     DEF TripStreamAssumption, FirstShown
<1> HIDE DEF m
<1>2. /\ SubSeq(list, 1, m) \in Seq(Offsets) /\ Len(SubSeq(list, 1, m)) = m
      /\ \A i \in 1..m : SubSeq(list, 1, m)[i] = list[i]
  BY <1>1, SubSeqProperties
<1> QED
  BY <1>1, <1>2

\* A trip is put before the others.
LEMMA Shown ==
  ASSUME trips \in Seq(Offsets), NEW n \in Offsets
  PROVE  LET list == FirstShown(<<n>> \o trips)
         IN  /\ list \in Seq(Offsets) /\ list # <<>> /\ list[1] = n
             /\ Len(list) \in 1..MaxShown /\ Len(trips) \in Nat
             /\ \A i \in 1..(Len(list) - 1) : /\ i \in 1..Len(trips)
                                              /\ list[i + 1] = trips[i]
<1> DEFINE long == <<n>> \o trips
<1>1. <<n>> \in Seq(Offsets) /\ Len(<<n>>) = 1 /\ <<n>>[1] = n
  OBVIOUS
<1>2. /\ long \in Seq(Offsets) /\ Len(long) = Len(trips) + 1 /\ Len(trips) \in Nat
      /\ long[1] = n /\ \A i \in 1..Len(trips) : long[i + 1] = trips[i]
  BY <1>1, ConcatProperties, LenProperties
<1>3. long # <<>>
  BY <1>2, EmptySeq
<1> HIDE DEF long
<1>4. /\ FirstShown(long) \in Seq(Offsets) /\ Len(FirstShown(long)) \in 1..MaxShown
      /\ Len(FirstShown(long)) <= Len(trips) + 1
      /\ \A i \in 1..Len(FirstShown(long)) : FirstShown(long)[i] = long[i]
  BY <1>2, <1>3, FirstShownKeeps
<1>5. MaxShown \in Nat \ {0} /\ FirstShown(long) # <<>>
  BY <1>4, EmptySeq, TripStreamAssumption DEF TripStreamAssumption
<1>6. ASSUME NEW i \in 1..(Len(FirstShown(long)) - 1)
      PROVE  i \in 1..Len(trips) /\ FirstShown(long)[i + 1] = trips[i]
  BY <1>2, <1>4, <1>5
<1> QED
  BY <1>2, <1>4, <1>5, <1>6 DEF long

-----------------------------------------------------------------------------
\* TypeOK in three parts: the consumer, the connections, the screen.
TypeConsumer ==
  /\ produced \in 0..MaxTrips /\ offset \in 0..produced
  /\ holding \in {"nothing", "record", "error"}
  /\ errs \in BOOLEAN /\ tick \in BOOLEAN /\ up \in BOOLEAN
  /\ window \subseteq 1..offset
TypeConns ==
  /\ link \in [Conns -> {"dialling", "open", "cut"}]
  /\ spc \in [Conns -> {"none", "accepted", "looping", "writing"}]
  /\ chan \in [Conns -> Seq(Frames)]
  /\ frame \in [Conns -> Frames \cup {NoFrame}]
  /\ \A c \in Conns : Len(chan[c]) <= BufCap /\ (~ Subscribed(c) => chan[c] = <<>>)
  /\ dropped \subseteq Conns
TypeScreen ==
  /\ socket \in Conns \cup {None}
  /\ timer \in BOOLEAN /\ closed \in BOOLEAN
  /\ status \in {"connecting", "live", "disconnected"}
  /\ trips \in Seq(Offsets) /\ Len(trips) <= MaxShown
  /\ pending = Unknown \/ pending \subseteq Offsets

LEMMA TypeParts == TypeOK <=> TypeConsumer /\ TypeConns /\ TypeScreen
BY DEF TypeOK, TypeConsumer, TypeConns, TypeScreen

LEMMA NewConns ==
  /\ [c \in Conns |-> <<>>] \in [Conns -> Seq(Frames)]
  /\ [c \in Conns |-> NoFrame] \in [Conns -> Frames \cup {NoFrame}]
  /\ [c \in Conns |-> "none"] \in [Conns -> {"none", "accepted", "looping", "writing"}]
  /\ Len(<<>>) = 0 /\ <<>> \in Seq(Frames) /\ <<>> \in Seq(Offsets)
BY EmptySeq

LEMMA Initially ==
  ASSUME Init PROVE StreamInv
<1>1. TypeConsumer
  <2>1. errs \in BOOLEAN /\ tick \in BOOLEAN /\ up \in BOOLEAN
    BY DEF Init
  <2>2. /\ produced \in 0..MaxTrips /\ offset \in 0..produced
        /\ holding \in {"nothing", "record", "error"} /\ window \subseteq 1..offset
    BY TripStreamAssumption DEF Init, TripStreamAssumption
  <2> QED
    BY <2>1, <2>2 DEF TypeConsumer
<1>2. TypeConns
  BY TripStreamAssumption, NewConns DEF Init, TypeConns, TripStreamAssumption, Subscribed
<1>3. TypeScreen
  <2>1. timer \in BOOLEAN /\ closed \in BOOLEAN
    BY DEF Init
  <2>2. /\ socket \in Conns \cup {None} /\ pending = Unknown
        /\ status \in {"connecting", "live", "disconnected"}
    BY DEF Init
  <2>3. trips \in Seq(Offsets) /\ Len(trips) <= MaxShown
    BY TripStreamAssumption, NewConns DEF Init, TripStreamAssumption
  <2> QED
    BY <2>1, <2>2, <2>3 DEF TypeScreen
<1>4. Held /\ Uncounted
  BY DEF Init, Held, Uncounted
<1>5. Linked
  BY TripStreamAssumption DEF Init, Linked, OneConnection, TripStreamAssumption
<1>6. \A c \in Conns : Handler(c) /\ Sums(c)
  BY DEF Init, Handler, Sums, Subscribed
<1>7. Feed
  BY RisingEmpty, EmptySeq DEF Init, Feed, Descending, Newest, Top, Feeds
<1> QED
  BY <1>1, <1>2, <1>3, <1>4, <1>5, <1>6, <1>7, TypeParts DEF StreamInv

LEMMA TypeConsumerNext ==
  ASSUME TypeConsumer, Held, Next PROVE TypeConsumer'
<1> USE TripStreamAssumption DEF TypeConsumer, TripStreamAssumption,
        readVars, relayVars, OutsideRead, OutsideRun, OutsideWS, OutsideScreen,
        OutsideBrowser
<1>1. CASE Produce
  BY <1>1 DEF Produce
<1>2. CASE ReadMessage \/ ReadErrs
  <2>1. UNCHANGED <<errs, tick, up>>
    BY <1>2 DEF ReadMessage, ReadErrs
  <2>2. /\ produced' = produced /\ window' = window /\ offset' \in offset..produced
        /\ holding' \in {"nothing", "record", "error"}
    BY <1>2 DEF ReadMessage, ReadErrs
  <2>3. window' \subseteq 1..offset' /\ offset' \in 0..produced
    BY <2>2
  <2> QED
    BY <2>1, <2>2, <2>3
<1>3. CASE SendErr \/ TakeErr \/ SkipMalformed \/ Tick
  <2>1. errs' \in BOOLEAN /\ tick' \in BOOLEAN /\ up' \in BOOLEAN
    BY <1>3 DEF SendErr, TakeErr, SkipMalformed, Tick
  <2>2. /\ UNCHANGED <<produced, offset, window>>
        /\ holding' \in {"nothing", "record", "error"}
    BY <1>3 DEF SendErr, TakeErr, SkipMalformed, Tick
  <2> QED
    BY <2>1, <2>2
<1>4. CASE FlushWindow
  BY <1>4 DEF FlushWindow
<1>5. CASE TakeMessage
  BY <1>5 DEF TakeMessage, Held
<1>6. CASE UNCHANGED <<produced, readVars, relayVars, up>>
  BY <1>6
<1>7. ASSUME NEW c \in Conns, ServerStep(c) \/ Refuse(c) \/ Disconnect(c)
      PROVE  UNCHANGED <<produced, readVars, relayVars, up>>
  BY <1>7 DEF ServerStep, Accept, Subscribe, TakeFrame, WriteFrame, WriteVanishes,
              WriteFails, WriteTimesOut, Leave, Refuse, Disconnect
<1>8. CASE BrowserStep
  BY <1>8 DEF BrowserStep, Reconnect, OnOpen, OnClose, Unmount
<1>9. CASE Crash
  BY <1>9 DEF Crash
<1>10. CASE Boot
  BY <1>10 DEF Boot, Held
<1> QED
  BY <1>1, <1>2, <1>3, <1>4, <1>5, <1>6, <1>7, <1>8, <1>9, <1>10
     DEF Next, ReadStep, ConsumerStep

LEMMA FrameSent ==
  ASSUME TypeConsumer, Held, FlushWindow \/ TakeMessage
  PROVE  \E f \in Frames : Broadcast(f)
<1>1. CASE FlushWindow
  <2>1. Window(window) \in Frames
    BY TripStreamAssumption DEF TypeConsumer, Frames, Offsets, TripStreamAssumption
  <2> QED
    BY <1>1, <2>1 DEF FlushWindow
<1>2. CASE TakeMessage
  <2>1. Trip(offset) \in Frames
    BY <1>2, TripStreamAssumption
       DEF TakeMessage, Held, TypeConsumer, Frames, Offsets, TripStreamAssumption
  <2> QED
    BY <1>2, <2>1 DEF TakeMessage
<1> QED
  BY <1>1, <1>2

LEMMA TypeConnsNext ==
  ASSUME TypeOK, Held, Next PROVE TypeConns'
<1>0. TypeConns /\ TypeConsumer
  BY TypeParts
<1> USE <1>0 DEF TypeConns, Subscribed
<1>1. CASE UNCHANGED <<link, serverVars>>
  BY <1>1 DEF serverVars
<1>2. CASE \/ Produce \/ ReadStep \/ Tick \/ SkipMalformed \/ TakeErr
           \/ OnOpen \/ OnClose \/ Boot
  BY <1>1, <1>2 DEF Produce, ReadStep, ReadMessage, ReadErrs, SendErr, Tick, SkipMalformed,
        TakeErr, OnOpen, OnClose, Boot, OutsideRead, OutsideRun, OutsideScreen,
        OutsideBrowser, serverVars
<1>3. CASE FlushWindow \/ TakeMessage
  <2>1. PICK f \in Frames : Broadcast(f)
    BY <1>3, FrameSent
  <2>2. /\ chan' \in [Conns -> Seq(Frames)] /\ dropped' \subseteq Conns
        /\ \A c \in Conns : Len(chan'[c]) <= BufCap
                            /\ (~ Subscribed(c) => chan'[c] = <<>>)
    BY <2>1, BroadcastReaches
  <2> QED
    BY <1>3, <2>2 DEF FlushWindow, TakeMessage, OutsideRun
<1>4. ASSUME NEW c \in Conns, ServerStep(c) \/ Refuse(c) \/ Disconnect(c)
      PROVE  TypeConns'
  <2>1. CASE Accept(c)
    BY <2>1 DEF Accept
  <2>2. CASE Refuse(c) \/ Disconnect(c)
    BY <2>2 DEF Refuse, Disconnect, serverVars
  <2>3. CASE Subscribe(c)
    BY <2>3, NewConns, TripStreamAssumption DEF Subscribe, TripStreamAssumption
  <2>4. CASE TakeFrame(c)
    <3>1. chan[c] \in Seq(Frames) /\ chan[c] # <<>>
      BY <2>4 DEF TakeFrame
    <3>2. /\ Head(chan[c]) \in Frames /\ Tail(chan[c]) \in Seq(Frames)
          /\ Len(chan[c]) \in Nat /\ Len(Tail(chan[c])) = Len(chan[c]) - 1
      BY <3>1, TailShifts
    <3> QED
      BY <2>4, <3>2, TripStreamAssumption DEF TakeFrame, TripStreamAssumption
  <2>5. CASE WriteFrame(c) \/ WriteVanishes(c)
    <3>1. /\ spc[c] = "writing" /\ spc' = [spc EXCEPT ![c] = "looping"]
          /\ frame' = [frame EXCEPT ![c] = NoFrame]
          /\ UNCHANGED <<link, chan, dropped>>
      BY <2>5 DEF WriteFrame, WriteVanishes
    <3>2. /\ spc' \in [Conns -> {"none", "accepted", "looping", "writing"}]
          /\ frame' \in [Conns -> Frames \cup {NoFrame}]
      BY <3>1
    <3>3. \A d \in Conns : /\ Len(chan'[d]) <= BufCap
                           /\ spc'[d] \in {"looping", "writing"} \/ chan'[d] = <<>>
      BY <3>1
    <3>4. link' \in [Conns -> {"dialling", "open", "cut"}] /\ dropped' \subseteq Conns
          /\ chan' \in [Conns -> Seq(Frames)]
      BY <3>1
    <3> QED
      BY <3>2, <3>3, <3>4
  <2>6. CASE WriteFails(c) \/ WriteTimesOut(c)
    <3>1. /\ spc' = [spc EXCEPT ![c] = "none"] /\ frame' = [frame EXCEPT ![c] = NoFrame]
          /\ chan' = [chan EXCEPT ![c] = <<>>] /\ link' = [link EXCEPT ![c] = "cut"]
          /\ dropped' = dropped
      BY <2>6 DEF WriteFails, WriteTimesOut, Leave
    <3> QED
      BY <3>1, NewConns, TripStreamAssumption DEF TripStreamAssumption
  <2> QED
    BY <1>4, <2>1, <2>2, <2>3, <2>4, <2>5, <2>6 DEF ServerStep
<1>5. CASE Reconnect \/ Unmount
  BY <1>5 DEF Reconnect, Unmount, OutsideScreen, OutsideBrowser, serverVars
<1>6. CASE Crash
  BY <1>6, NewConns, TripStreamAssumption DEF Crash, TripStreamAssumption
<1> QED
  BY <1>2, <1>3, <1>4, <1>5, <1>6 DEF Next, ConsumerStep, BrowserStep

LEMMA TypeScreenNext ==
  ASSUME TypeOK, Next PROVE TypeScreen'
<1>0. TypeScreen /\ TypeConns
  BY TypeParts
<1>1. CASE UNCHANGED browserVars
  BY <1>0, <1>1 DEF TypeScreen, browserVars
<1>2. CASE Produce \/ ReadStep \/ ConsumerStep \/ Crash \/ Boot
  BY <1>1, <1>2 DEF Produce, ReadStep, ReadMessage, ReadErrs, SendErr, ConsumerStep,
        Tick, FlushWindow, TakeMessage, SkipMalformed, TakeErr, Crash, Boot,
        OutsideRead, OutsideRun
<1>3. ASSUME NEW c \in Conns, ServerStep(c) \/ Refuse(c) \/ Disconnect(c)
      PROVE  TypeScreen'
  <2>1. CASE WriteFrame(c)
    <3>1. CASE frame[c].type = "trip"
      <4>1. frame[c].trip \in Offsets
        BY <1>0, <3>1, FrameKinds DEF IsTrip, NoFrame, TypeConns
      <4>2. trips' \in Seq(Offsets) /\ Len(trips') <= MaxShown
        BY <1>0, <2>1, <3>1, <4>1, Shown, TripStreamAssumption
           DEF WriteFrame, OnMessage, TypeScreen, TripStreamAssumption
      <4> QED
        BY <1>0, <2>1, <3>1, <4>1, <4>2 DEF WriteFrame, OnMessage, OutsideWS, TypeScreen
    <3>2. CASE frame[c].type # "trip"
      BY <1>0, <2>1, <3>2 DEF WriteFrame, OnMessage, OutsideWS, TypeScreen
    <3> QED
      BY <3>1, <3>2
  <2>2. CASE ~ WriteFrame(c)
    BY <1>1, <1>3, <2>2 DEF ServerStep, Accept, Subscribe, TakeFrame, WriteVanishes,
       WriteFails, WriteTimesOut, Leave, Refuse, Disconnect, OutsideWS, Screen,
       browserVars
  <2> QED
    BY <2>1, <2>2
<1>4. CASE Reconnect \/ OnOpen \/ OnClose
  BY <1>0, <1>4 DEF Reconnect, OnOpen, OnClose, TypeScreen, OutsideBrowser
<1>5. CASE Unmount
  <2>1. timer' \in BOOLEAN /\ closed' \in BOOLEAN
    BY <1>5 DEF Unmount
  <2>2. /\ socket' \in Conns \cup {None} /\ pending' = Unknown
        /\ status' \in {"connecting", "live", "disconnected"}
    BY <1>5 DEF Unmount
  <2>3. trips' \in Seq(Offsets) /\ Len(trips') <= MaxShown
    BY <1>5, TripStreamAssumption, NewConns DEF Unmount, TripStreamAssumption
  <2> QED
    BY <2>1, <2>2, <2>3 DEF TypeScreen
<1> QED
  BY <1>2, <1>3, <1>4, <1>5 DEF Next, BrowserStep

\* What is held, and which connections there are.
LEMMA LinksNext ==
  ASSUME TypeOK, Held, Linked, Uncounted, Next
  PROVE  Held' /\ Linked' /\ Uncounted'
<1> USE TripStreamAssumption DEF TripStreamAssumption, readVars, relayVars, serverVars,
        browserVars, OutsideRead, OutsideRun, OutsideWS, OutsideScreen, OutsideBrowser,
        Screen
<1>1. Held'
  <2>1. TypeConsumer
    BY TypeParts
  <2>2. CASE Produce \/ ReadStep
    <3>1. UNCHANGED <<up, window, restarts>> /\ (~ up => holding' = holding)
      BY <2>2 DEF Produce, ReadStep, ReadMessage, ReadErrs, SendErr
    <3>2. holding' = "record" => \/ offset' = offset /\ holding = "record"
                                 \/ offset' = offset + 1
      BY <2>2 DEF Produce, ReadStep, ReadMessage, ReadErrs, SendErr
    <3> QED
      BY <2>1, <3>1, <3>2 DEF Held, TypeConsumer
  <2>6. CASE ConsumerStep
    <3>1. up /\ up' = up /\ offset' = offset /\ restarts' = restarts
      BY <2>6 DEF ConsumerStep, Tick, FlushWindow, TakeMessage, SkipMalformed, TakeErr
    <3>2. holding' = "record" => holding = "record"
      BY <2>6 DEF ConsumerStep, Tick, FlushWindow, TakeMessage, SkipMalformed, TakeErr
    <3> QED
      BY <3>1, <3>2 DEF Held
  <2>3. ASSUME NEW c \in Conns, ServerStep(c) \/ Refuse(c) \/ Disconnect(c)
        PROVE  Held'
    BY <2>3 DEF ServerStep, Accept, Subscribe, TakeFrame, WriteFrame, WriteVanishes,
       WriteFails, WriteTimesOut, Leave, Refuse, Disconnect, Held
  <2>4. CASE BrowserStep
    BY <2>4 DEF BrowserStep, Reconnect, OnOpen, OnClose, Unmount, Held
  <2>5. CASE Crash \/ Boot
    BY <2>5 DEF Crash, Boot, Held
  <2> QED
    BY <2>2, <2>3, <2>4, <2>5, <2>6 DEF Next
<1>2. Linked' /\ Uncounted'
  <2>0. TypeScreen /\ TypeConns
    BY TypeParts
  <2> USE <2>0 DEF Linked, OneConnection, Uncounted
  <2>1. CASE UNCHANGED <<link, socket, timer, closed, status, pending>>
    BY <2>1
  <2>2. CASE Produce \/ ReadStep \/ ConsumerStep \/ Boot
    BY <2>1, <2>2 DEF Produce, ReadStep, ReadMessage, ReadErrs, SendErr, ConsumerStep,
       Tick, FlushWindow, TakeMessage, SkipMalformed, TakeErr, Boot
  <2>3. ASSUME NEW c \in Conns, ServerStep(c) \/ Refuse(c) \/ Disconnect(c)
        PROVE  Linked' /\ Uncounted'
    <3>1. /\ UNCHANGED <<socket, timer, closed, status>>
          /\ \A d \in Conns : link'[d] # "cut" => link[d] # "cut"
      BY <2>3 DEF ServerStep, Accept, Subscribe, TakeFrame, WriteFrame, WriteVanishes,
         WriteFails, WriteTimesOut, Leave, Refuse, Disconnect, TypeConns
    <3>2. pending' = pending \/ link[c] # "cut"
      BY <2>3 DEF ServerStep, Accept, Subscribe, TakeFrame, WriteFrame, WriteVanishes,
         WriteFails, WriteTimesOut, Leave, Refuse, Disconnect
    <3> QED
      BY <3>1, <3>2
  <2>4. CASE Reconnect
    BY <2>4 DEF Reconnect, Free, TypeConns
  <2>5. CASE OnOpen \/ OnClose
    BY <2>5 DEF OnOpen, OnClose
  <2>6. CASE Unmount
    BY <2>6 DEF Unmount, TypeConns
  <2>7. CASE Crash
    BY <2>7 DEF Crash
  <2> QED
    BY <2>2, <2>3, <2>4, <2>5, <2>6, <2>7 DEF Next, BrowserStep
<1> QED
  BY <1>1, <1>2

LEMMA HandlersNext ==
  ASSUME TypeOK, Linked, Uncounted, \A c \in Conns : Handler(c), Next
  PROVE  \A c \in Conns : Handler(c)'
<1>0. TypeConns /\ TypeScreen
  BY TypeParts
<1> USE DEF readVars, relayVars, serverVars, browserVars, OutsideRead, OutsideRun,
        OutsideWS, OutsideScreen, OutsideBrowser, Screen
<1> TAKE c \in Conns
<1>1. CASE UNCHANGED <<link, spc, frame, pending>>
  BY <1>1 DEF Handler, Subscribed
<1>2. CASE Produce \/ ReadStep \/ ConsumerStep \/ OnOpen \/ Boot
  BY <1>1, <1>2 DEF Produce, ReadStep, ReadMessage, ReadErrs, SendErr, ConsumerStep,
     Tick, FlushWindow, TakeMessage, SkipMalformed, TakeErr, OnOpen, Boot
<1>3. ASSUME NEW d \in Conns, ServerStep(d) \/ Refuse(d) \/ Disconnect(d)
      PROVE  Handler(c)'
  <2>1. CASE Accept(d)
    BY <1>0, <2>1 DEF Accept, Handler, Subscribed, TypeConns
  <2>2. CASE Subscribe(d)
    BY <1>0, <2>2 DEF Subscribe, Handler, Subscribed, TypeConns
  <2>3. CASE TakeFrame(d)
    <3>1. Head(chan[d]) # NoFrame
      BY <1>0, <2>3, TailShifts, NoFrameKind DEF TakeFrame, TypeConns
    <3> QED
      BY <1>0, <2>3, <3>1 DEF TakeFrame, Handler, Subscribed, TypeConns
  <2>4. CASE WriteFrame(d)
    <3>1. spc[d] = "writing" /\ link[d] = "open" /\ d = socket
      BY <2>4 DEF WriteFrame, Linked
    <3>2. d # c => link[c] = "cut"
      BY <1>0, <3>1 DEF Linked, TypeConns
    <3> QED
      BY <1>0, <2>4, <3>1, <3>2 DEF WriteFrame, Handler, Subscribed, TypeConns
  <2>5. CASE WriteVanishes(d)
    BY <1>0, <2>5 DEF WriteVanishes, Handler, Subscribed, TypeConns
  <2>6. CASE WriteFails(d) \/ WriteTimesOut(d)
    BY <1>0, <2>6 DEF WriteFails, WriteTimesOut, Leave, Handler, Subscribed, TypeConns
  <2>7. CASE Refuse(d) \/ Disconnect(d)
    BY <1>0, <2>7 DEF Refuse, Disconnect, Handler, Subscribed, TypeConns
  <2> QED
    BY <1>3, <2>1, <2>2, <2>3, <2>4, <2>5, <2>6, <2>7 DEF ServerStep
<1>4. CASE Reconnect
  <2>1. pending = Unknown /\ \A d \in Conns : link[d] = "cut"
    BY <1>0, <1>4, TripStreamAssumption
       DEF Reconnect, Linked, OneConnection, Uncounted, TypeConns, TypeScreen, TripStreamAssumption
  <2> QED
    BY <1>0, <1>4, <2>1 DEF Reconnect, Free, Handler, Subscribed, TypeConns
<1>5. CASE OnClose \/ Unmount
  BY <1>0, <1>5 DEF OnClose, Unmount, Handler, Subscribed, TypeConns
<1>6. CASE Crash
  BY <1>0, <1>6 DEF Crash, Handler, Subscribed, TypeConns
<1> QED
  BY <1>2, <1>3, <1>4, <1>5, <1>6 DEF Next, BrowserStep

-----------------------------------------------------------------------------
(***************************************************************************)
(* The sums.                                                               *)
(***************************************************************************)

\* Before the first window of a connection what was received does not matter.
LEMMA SummedAnyBase ==
  ASSUME NEW q \in Seq(Frames), NEW base, NEW other, NEW win, Summed(q, 1, base, win)
  PROVE  Summed(q, 1, other, win)
<1>1. Len(q) \in Nat /\ \A i \in 1..Len(q) : i # 0
  BY LenProperties
<1> QED
  BY <1>1 DEF Summed

LEMMA SumsStay ==
  ASSUME NEW c \in Conns, Sums(c), link'[c] = "open" => link[c] = "open",
         spc'[c] = spc[c], chan'[c] = chan[c], frame'[c] = frame[c],
         window' = window, pending' = pending, c \in dropped => c \in dropped'
  PROVE  Sums(c)'
BY DEF Sums, Subscribed, From, Received

LEMMA SumsBroadcast ==
  ASSUME TypeOK, Held, NEW c \in Conns, Sums(c), FlushWindow \/ TakeMessage
  PROVE  Sums(c)'
<1>0. TypeConns /\ TypeConsumer
  BY TypeParts
<1>1. UNCHANGED <<link, spc, frame, pending>>
  BY DEF FlushWindow, TakeMessage, OutsideRun, browserVars
<1>2. From(c)' = From(c) /\ Received(c)' = Received(c) /\ From(c) \in {0, 1}
  BY <1>1 DEF From, Received
<1> SUFFICES ASSUME link[c] = "open", Subscribed(c), c \notin dropped'
             PROVE  /\ Summed(chan'[c], From(c), Received(c), window')
                    /\ IsWindow(frame[c]) /\ pending # Unknown => frame[c].window = pending
  BY <1>1, <1>2 DEF Sums, Subscribed
<1>3. chan[c] \in Seq(Frames)
  BY <1>0 DEF TypeConns
<1>4. CASE FlushWindow
  <2>1. Window(window) \in Frames /\ Broadcast(Window(window)) /\ window' = {}
    BY <1>0, <1>4, TripStreamAssumption
       DEF FlushWindow, TypeConsumer, Frames, Offsets, TripStreamAssumption
  <2>2. c \notin dropped /\ Extends(chan'[c], chan[c], Window(window))
    BY <2>1, BroadcastReaches
  <2>3. /\ Summed(chan[c], From(c), Received(c), window)
        /\ IsWindow(frame[c]) /\ pending # Unknown => frame[c].window = pending
    BY <2>2 DEF Sums
  <2> QED
    BY <1>2, <1>3, <2>1, <2>2, <2>3, SummedWindow
<1>5. CASE TakeMessage
  <2>1. Trip(offset) \in Frames /\ Broadcast(Trip(offset)) /\ window' = window \cup {offset}
    BY <1>0, <1>5, TypedNumbers DEF TakeMessage, Frames
  <2>2. c \notin dropped /\ Extends(chan'[c], chan[c], Trip(offset))
    BY <2>1, BroadcastReaches
  <2>3. /\ Summed(chan[c], From(c), Received(c), window)
        /\ IsWindow(frame[c]) /\ pending # Unknown => frame[c].window = pending
    BY <2>2 DEF Sums
  <2> QED
    BY <1>2, <1>3, <2>1, <2>2, <2>3, SummedTrip
<1> QED
  BY <1>4, <1>5

\* A frame passes from the channel to the handler's hand.
LEMMA SumsTake ==
  ASSUME TypeOK, NEW c \in Conns, Sums(c), Handler(c), TakeFrame(c)
  PROVE  Sums(c)'
<1>0. TypeConns
  BY TypeParts
<1> DEFINE q == chan[c]
           p == Tail(q)
<1>1. /\ q \in Seq(Frames) /\ q # <<>> /\ spc[c] = "looping" /\ frame[c] = NoFrame
      /\ UNCHANGED <<link, dropped, window, pending>>
      /\ chan'[c] = p /\ frame'[c] = Head(q) /\ spc'[c] = "writing"
  BY <1>0 DEF TakeFrame, Handler, TypeConns, OutsideWS, Screen, relayVars
<1>2. /\ Shortens(p, q) /\ Head(q) = q[1] /\ q[1] \in Frames
  BY <1>1, TailShifts DEF Shortens
<1>3. /\ From(c) = IF pending = Unknown THEN 1 ELSE 0
      /\ Received(c) = pending
  BY <1>1, NoFrameKind DEF From, Received
<1> SUFFICES ASSUME link[c] = "open", c \notin dropped
             PROVE  /\ Summed(p, From(c)', Received(c)', window)
                    /\ IsWindow(q[1]) /\ pending # Unknown => q[1].window = pending
  BY <1>1, <1>2 DEF Sums
<1>4. Summed(q, From(c), pending, window) /\ From(c) \in {0, 1}
  BY <1>1, <1>3 DEF Sums, Subscribed
<1> HIDE DEF q, p
<1>5. CASE IsTrip(q[1])
  <2>1. ~ IsWindow(q[1])
    BY <1>2, <1>5, FrameKinds
  <2>2. From(c)' = From(c) /\ Received(c)' = pending \cup {q[1].trip}
    BY <1>1, <1>2, <1>3, <1>5, <2>1 DEF From, Received
  <2> QED
    BY <1>1, <1>2, <1>4, <1>5, <2>1, <2>2, SummedTakeTrip
<1>6. CASE IsWindow(q[1])
  <2>1. From(c)' = 0 /\ Received(c)' = {}
    BY <1>1, <1>2, <1>6 DEF From, Received
  <2> QED
    BY <1>1, <1>2, <1>3, <1>4, <1>6, <2>1, SummedTakeWindow
<1> QED
  BY <1>2, <1>5, <1>6, FrameKinds

\* The frame in hand reaches the screen.
LEMMA SumsWrite ==
  ASSUME TypeOK, NEW c \in Conns, Sums(c), Handler(c), WriteFrame(c)
  PROVE  Sums(c)'
<1>0. TypeConns /\ TypeScreen
  BY TypeParts
<1>1. /\ chan[c] \in Seq(Frames) /\ frame[c] \in Frames /\ frame'[c] = NoFrame
      /\ spc[c] = "writing" /\ link[c] = "open" /\ UNCHANGED <<link, chan, dropped, window>>
  BY <1>0 DEF WriteFrame, Handler, TypeConns, OutsideWS, relayVars
<1> SUFFICES ASSUME c \notin dropped
             PROVE  Summed(chan[c], From(c)', Received(c)', window)
  BY <1>1, NoFrameKind DEF Sums
<1>2. Summed(chan[c], From(c), Received(c), window)
  BY <1>1 DEF Sums, Subscribed
<1>3. Received(c)' = pending' /\ From(c)' = IF pending' = Unknown THEN 1 ELSE 0
  BY <1>1, NoFrameKind DEF From, Received
<1>4. CASE IsWindow(frame[c])
  <2>1. pending' = {} /\ pending' # Unknown
    BY <1>4 DEF WriteFrame, OnMessage, IsWindow, Unknown
  <2>2. From(c) = 0 /\ Received(c) = {}
    BY <1>4 DEF From, Received
  <2> QED
    BY <1>2, <1>3, <2>1, <2>2
<1>5. CASE IsTrip(frame[c])
  <2>1. /\ frame[c].trip \in Offsets /\ ~ IsWindow(frame[c])
        /\ pending' = IF pending = Unknown THEN Unknown ELSE pending \cup {frame[c].trip}
    BY <1>1, <1>5, FrameKinds DEF WriteFrame, OnMessage, IsTrip
  <2>2. Received(c) = pending \cup {frame[c].trip} /\ From(c) = IF pending = Unknown THEN 1 ELSE 0
    BY <1>5, <2>1 DEF From, Received
  <2>3. CASE pending = Unknown
    BY <1>1, <1>2, <1>3, <2>1, <2>2, <2>3, SummedAnyBase
  <2>4. CASE pending # Unknown
    <3>1. frame[c].trip # 0
      BY <2>1, TripStreamAssumption DEF Offsets, TripStreamAssumption
    <3>2. pending' # Unknown
      BY <2>1, <2>4, <3>1 DEF Unknown
    <3> QED
      BY <1>2, <1>3, <2>1, <2>2, <2>4, <3>2
  <2> QED
    BY <2>3, <2>4
<1> QED
  BY <1>1, <1>4, <1>5, FrameKinds

LEMMA SumsNext ==
  ASSUME TypeOK, Held, Linked, \A c \in Conns : Handler(c) /\ Sums(c), Next
  PROVE  \A c \in Conns : Sums(c)'
<1>0. TypeConns
  BY TypeParts
<1> TAKE c \in Conns
<1> USE DEF readVars, relayVars, serverVars, browserVars, OutsideRead, OutsideRun,
        OutsideWS, OutsideScreen, OutsideBrowser, Screen
<1>1. CASE FlushWindow \/ TakeMessage
  BY <1>1, SumsBroadcast
<1>2. CASE \/ Produce \/ ReadStep \/ Tick \/ SkipMalformed \/ TakeErr \/ OnOpen \/ Boot
  <2>1. UNCHANGED <<link, spc, chan, frame, window, pending, dropped>>
    BY <1>2 DEF Produce, ReadStep, ReadMessage, ReadErrs, SendErr, Tick, SkipMalformed,
       TakeErr, OnOpen, Boot
  <2> QED
    BY <2>1, SumsStay
<1>3. ASSUME NEW d \in Conns, ServerStep(d) \/ Refuse(d) \/ Disconnect(d)
      PROVE  Sums(c)'
  <2>1. CASE c # d
    <3>1. CASE WriteFrame(d)
      <4>1. link'[c] # "open"
        BY <1>0, <2>1, <3>1 DEF WriteFrame, Linked, OneConnection
      <4> QED
        BY <4>1 DEF Sums
    <3>2. CASE ~ WriteFrame(d)
      <4>1. /\ link'[c] = link[c] /\ spc'[c] = spc[c] /\ chan'[c] = chan[c]
            /\ frame'[c] = frame[c]
        BY <1>0, <1>3, <2>1, <3>2 DEF ServerStep, Accept, Subscribe, TakeFrame,
           WriteVanishes, WriteFails, WriteTimesOut, Leave, Refuse, Disconnect, TypeConns
      <4>2. window' = window /\ pending' = pending /\ (c \in dropped => c \in dropped')
        BY <1>0, <1>3, <2>1, <3>2 DEF ServerStep, Accept, Subscribe, TakeFrame,
           WriteVanishes, WriteFails, WriteTimesOut, Leave, Refuse, Disconnect
      <4> QED
        BY <4>1, <4>2, SumsStay
    <3> QED
      BY <3>1, <3>2
  <2>2. CASE c = d
    <3>1. CASE Accept(c)
      <4>1. ~ Subscribed(c)'
        BY <1>0, <3>1 DEF Accept, Subscribed, TypeConns
      <4> QED
        BY <4>1 DEF Sums
    <3>2. CASE Subscribe(c)
      <4>1. /\ link'[c] = link[c] /\ chan'[c] = <<>> /\ frame'[c] = NoFrame
            /\ link[c] = "open" => pending' = Unknown
        BY <1>0, <3>2 DEF Subscribe, Handler, Subscribed, TypeConns
      <4>2. link[c] = "open" => From(c)' = 1
        BY <4>1, NoFrameKind DEF From
      <4> QED
        BY <4>1, <4>2, NoFrameKind, SummedEmpty DEF Sums
    <3>3. CASE TakeFrame(c)
      BY <3>3, SumsTake
    <3>4. CASE WriteFrame(c)
      BY <3>4, SumsWrite
    <3>5. CASE \/ WriteVanishes(c) \/ WriteFails(c) \/ WriteTimesOut(c)
               \/ Refuse(c) \/ Disconnect(c)
      <4>1. link'[c] # "open"
        BY <1>0, <3>5 DEF WriteVanishes, WriteFails, WriteTimesOut, Leave, Refuse,
           Disconnect, TypeConns
      <4> QED
        BY <4>1 DEF Sums
    <3> QED
      BY <1>3, <2>2, <3>1, <3>2, <3>3, <3>4, <3>5 DEF ServerStep
  <2> QED
    BY <2>1, <2>2
<1>4. CASE Reconnect
  <2>1. /\ UNCHANGED <<spc, chan, frame, window, pending, dropped>>
        /\ link'[c] = "open" => link[c] = "open"
    BY <1>0, <1>4 DEF Reconnect, TypeConns
  <2> QED
    BY <2>1, SumsStay
<1>5. CASE OnClose \/ Unmount
  <2>1. link'[c] # "open"
    BY <1>0, <1>5, TripStreamAssumption
       DEF OnClose, Unmount, Linked, OneConnection, TypeConns, TripStreamAssumption
  <2> QED
    BY <2>1 DEF Sums
<1>6. CASE Crash
  <2>1. ~ Subscribed(c)'
    BY <1>6 DEF Crash, Subscribed
  <2> QED
    BY <2>1 DEF Sums
<1> QED
  BY <1>1, <1>2, <1>3, <1>4, <1>5, <1>6 DEF Next, ConsumerStep, BrowserStep

-----------------------------------------------------------------------------
(***************************************************************************)
(* The order of the feed.                                                  *)
(***************************************************************************)
LEMMA FeedNumbers ==
  ASSUME TypeOK
  PROVE  /\ Newest \in Nat
         /\ \A c \in Conns : Latest(c) \in Nat /\ chan[c] \in Seq(Frames)
BY TripStreamAssumption, FrameKinds, NoFrameKind, EmptySeq, LenProperties, ElementOfSeq
   DEF TripStreamAssumption, TypeOK, Newest, Latest, Offsets

LEMMA FeedsStay ==
  ASSUME NEW c \in Conns, Feeds(c), link'[c] = "open" => link[c] = "open",
         chan'[c] = chan[c], frame'[c] = frame[c], trips' = trips, Top' = Top
  PROVE  Feeds(c)'
BY DEF Feeds, Latest, Newest

\* The consumer hands over a trip, a window, or nothing.
LEMMA FeedConsumer ==
  ASSUME TypeOK, Held, Feed, ConsumerStep
  PROVE  Feed'
<1>0. TypeConns /\ TypeConsumer
  BY TypeParts
<1>1. UNCHANGED <<offset, link, frame, trips>>
  BY DEF ConsumerStep, Tick, FlushWindow, TakeMessage, SkipMalformed, TakeErr, OutsideRun,
         browserVars
<1>2. Newest' = Newest /\ Newest \in Nat /\ Top \in Nat /\ Top' \in Nat /\ Top <= Top'
  <2>1. offset \in Nat /\ (holding' = "record" => holding = "record")
        /\ (holding = "record" => offset # 0)
    BY <1>0 DEF ConsumerStep, Tick, FlushWindow, TakeMessage, SkipMalformed, TakeErr,
       readVars, TypeConsumer, Held
  <2> QED
    BY <1>1, <2>1, FeedNumbers DEF Newest, Top
<1>3. Descending' /\ Newest' <= Top'
  BY <1>1, <1>2 DEF Feed, Descending
<1>4. ASSUME NEW c \in Conns, link[c] = "open" PROVE Rising(chan'[c], Latest(c), Top')
  <2>1. /\ chan[c] \in Seq(Frames) /\ Latest(c) \in Nat /\ Rising(chan[c], Latest(c), Top)
        /\ Latest(c) <= Top
    BY <1>2, <1>4, FeedNumbers DEF Feed, Feeds, Latest
  <2>2. CASE Tick \/ SkipMalformed \/ TakeErr
    <3>1. chan' = chan
      BY <2>2 DEF Tick, SkipMalformed, TakeErr
    <3> QED
      BY <1>2, <2>1, <3>1, RisingHigher
  <2>3. CASE FlushWindow
    <3>1. Window(window) \in Frames /\ Broadcast(Window(window))
      BY <1>0, <2>3, TripStreamAssumption
         DEF FlushWindow, TypeConsumer, Frames, Offsets, TripStreamAssumption
    <3>2. chan'[c] = chan[c] \/ Extends(chan'[c], chan[c], Window(window))
      BY <3>1, BroadcastReaches
    <3>3. Rising(chan'[c], Latest(c), Top)
      BY <2>1, <3>2, RisingWindow
    <3>4. Top' = Top
      BY <1>1, <2>3 DEF FlushWindow, readVars, Top
    <3> QED
      BY <3>3, <3>4
  <2>4. CASE TakeMessage
    <3>1. /\ Trip(offset) \in Frames /\ Broadcast(Trip(offset))
          /\ Top = offset - 1 /\ Top' = offset /\ offset \in Nat
      BY <1>1, <2>4, TypedNumbers DEF TakeMessage, Frames, Top
    <3>2. chan'[c] = chan[c] \/ Extends(chan'[c], chan[c], Trip(offset))
      BY <3>1, BroadcastReaches
    <3>3. CASE chan'[c] = chan[c]
      BY <1>2, <2>1, <3>3, RisingHigher
    <3>4. CASE Extends(chan'[c], chan[c], Trip(offset))
      BY <1>2, <2>1, <3>1, <3>4, RisingTrip
    <3> QED
      BY <3>2, <3>3, <3>4
  <2> QED
    BY <2>2, <2>3, <2>4 DEF ConsumerStep
<1>5. ASSUME NEW c \in Conns PROVE Feeds(c)'
  <2>1. /\ IsTrip(frame[c]) => frame[c].trip \in Nat
        /\ Latest(c)' = Latest(c)
    BY <1>0, <1>1, FeedNumbers DEF Latest, Newest
  <2>2. link[c] = "open" /\ IsTrip(frame[c]) => Newest < frame[c].trip /\ frame[c].trip <= Top
    BY DEF Feed, Feeds
  <2> QED
    BY <1>1, <1>2, <1>4, <2>1, <2>2 DEF Feeds
<1> QED
  BY <1>3, <1>5 DEF Feed

LEMMA FeedTake ==
  ASSUME TypeOK, NEW c \in Conns, Handler(c), Feeds(c), TakeFrame(c), Top' = Top
  PROVE  Feeds(c)'
<1>0. TypeConns
  BY TypeParts
<1> DEFINE q == chan[c]
           p == Tail(q)
<1>1. /\ q \in Seq(Frames) /\ q # <<>> /\ frame[c] = NoFrame
      /\ UNCHANGED <<link, trips>> /\ chan'[c] = p /\ frame'[c] = Head(q)
  BY <1>0 DEF TakeFrame, Handler, TypeConns, OutsideWS, Screen
<1>2. /\ Shortens(p, q) /\ Head(q) = q[1] /\ q[1] \in Frames
  BY <1>1, TailShifts DEF Shortens
<1>3. Newest' = Newest /\ Latest(c) = Newest
  BY <1>1, NoFrameKind DEF Newest, Latest
<1> SUFFICES ASSUME link[c] = "open"
             PROVE  /\ IsTrip(q[1]) => Newest < q[1].trip /\ q[1].trip <= Top
                    /\ Rising(p, Latest(c)', Top)
  BY <1>1, <1>2, <1>3 DEF Feeds
<1>4. Rising(q, Newest, Top)
  BY <1>3 DEF Feeds
<1>5. Latest(c)' = IF IsTrip(q[1]) THEN q[1].trip ELSE Newest
  BY <1>1, <1>2, <1>3 DEF Latest
<1>6. q \in Seq(Frames) /\ Shortens(p, q)
  BY <1>1, <1>2
<1> HIDE DEF q, p
<1>7. IF IsTrip(q[1])
        THEN Newest < q[1].trip /\ q[1].trip <= Top /\ Rising(p, q[1].trip, Top)
        ELSE Rising(p, Newest, Top)
  BY <1>4, <1>6, RisingTake
<1> QED
  BY <1>5, <1>7

\* The screen puts the trip before the others, which are older.
LEMMA FeedWrite ==
  ASSUME TypeOK, Held, Linked, NEW c \in Conns, Handler(c), Feed, WriteFrame(c), Top' = Top
  PROVE  Feed'
<1>0. TypeConns /\ TypeScreen /\ Top \in Nat
  BY TypeParts, TypedNumbers
<1>1. /\ frame[c] \in Frames /\ frame'[c] = NoFrame /\ link[c] = "open"
      /\ UNCHANGED <<link, chan>>
  BY <1>0 DEF WriteFrame, Handler, TypeConns
<1>2. \A d \in Conns : link[d] = "open" => d = c
  BY <1>1 DEF Linked
<1>3. Feeds(c)
  BY DEF Feed
<1>4. Newest' = Latest(c) /\ Descending' /\ Newest' <= Top
  <2>1. CASE IsTrip(frame[c])
    <3>1. frame[c].trip \in Offsets /\ Newest < frame[c].trip /\ frame[c].trip <= Top
      BY <1>1, <1>3, <2>1, FrameKinds DEF Feeds, IsTrip
    <3> DEFINE list == FirstShown(<<frame[c].trip>> \o trips)
    <3>2. trips' = list
      BY <2>1 DEF WriteFrame, OnMessage, IsTrip
    <3>3. /\ list \in Seq(Offsets) /\ list # <<>> /\ list[1] = frame[c].trip
          /\ Len(list) \in 1..MaxShown /\ Len(trips) \in Nat
          /\ \A i \in 1..(Len(list) - 1) : /\ i \in 1..Len(trips)
                                           /\ list[i + 1] = trips[i]
      BY <1>0, <3>1, Shown DEF TypeScreen
    <3> HIDE DEF list
    <3>4. Newest' = frame[c].trip
      BY <3>2, <3>3 DEF Newest
    <3>5. ASSUME NEW i \in 1..(Len(list) - 1) PROVE list[i] > list[i + 1]
      <4>1. /\ i \in 1..Len(trips) /\ list[i + 1] = trips[i] /\ MaxShown \in Nat
            /\ \A k \in 1..Len(trips) : trips[k] \in Nat
        BY <1>0, <3>3, TripStreamAssumption, ElementOfSeq, SMTT(30)
           DEF TypeScreen, Offsets, TripStreamAssumption
      <4>2. CASE i = 1
        <5>1. trips # <<>>
          BY <4>1, <4>2, EmptySeq
        <5> QED
          BY <3>1, <3>3, <4>1, <4>2, <5>1 DEF Newest, Offsets
      <4>3. CASE i # 1
        <5>1. i - 1 \in 1..(Len(list) - 1) /\ (i - 1) + 1 = i /\ Len(list) \in Nat
          BY <3>3, <4>1, <4>3
        <5>2. list[i] = trips[i - 1] /\ i - 1 \in 1..(Len(trips) - 1)
          BY <3>3, <4>1, <5>1
        <5>3. trips[i - 1] > trips[(i - 1) + 1]
          BY <5>2 DEF Feed, Descending
        <5> QED
          BY <4>1, <5>1, <5>2, <5>3
      <4> QED
        BY <4>2, <4>3
    <3> QED
      BY <2>1, <3>1, <3>2, <3>4, <3>5 DEF Latest, Descending
  <2>2. CASE ~ IsTrip(frame[c])
    <3>1. trips' = trips
      BY <2>2 DEF WriteFrame, OnMessage, IsTrip
    <3> QED
      BY <2>2, <3>1 DEF Feed, Latest, Newest, Descending
  <2> QED
    BY <2>1, <2>2
<1>5. \A d \in Conns : Feeds(d)'
  <2>1. Feeds(c)'
    BY <1>1, <1>3, <1>4, NoFrameKind DEF Feeds, Latest
  <2> QED
    BY <1>1, <1>2, <2>1 DEF Feeds
<1> QED
  BY <1>4, <1>5 DEF Feed

LEMMA FeedNext ==
  ASSUME TypeOK, Held, Linked, \A c \in Conns : Handler(c), restarts \/ Feed, Next
  PROVE  (restarts \/ Feed)'
<1>0. TypeConns /\ TypeConsumer
  BY TypeParts
<1> USE DEF readVars, relayVars, serverVars, browserVars, OutsideRead, OutsideRun,
        OutsideWS, OutsideScreen, OutsideBrowser, Screen
<1>1. CASE Crash \/ Boot \/ restarts
  <2>1. CASE Crash \/ Boot
    BY <2>1 DEF Crash, Boot, Held
  <2>2. CASE restarts
    <3>1. restarts' = restarts \/ restarts'
      BY <2>2 DEF Next, Produce, ReadStep, ReadMessage, ReadErrs, SendErr, ConsumerStep,
         Tick, FlushWindow, TakeMessage, SkipMalformed, TakeErr, ServerStep, Accept,
         Subscribe, TakeFrame, WriteFrame, WriteVanishes, WriteFails, WriteTimesOut,
         Leave, Refuse, Disconnect, BrowserStep, Reconnect, OnOpen, OnClose, Unmount,
         Crash, Boot
    <3> QED
      BY <2>2, <3>1
  <2> QED
    BY <1>1, <2>1, <2>2
<1> SUFFICES ASSUME Feed, ~ Crash, ~ Boot PROVE Feed'
  BY <1>1
<1>2. CASE ConsumerStep
  BY <1>2, FeedConsumer
<1>3. CASE UNCHANGED trips /\ Top' = Top /\ \A c \in Conns : Feeds(c)'
  BY <1>3 DEF Feed, Newest, Descending
<1>4. CASE Produce \/ ReadStep
  <2>1. UNCHANGED <<link, chan, frame, trips>>
    BY <1>4 DEF Produce, ReadStep, ReadMessage, ReadErrs, SendErr
  <2>2. Top' = Top
    <3>1. offset \in Nat
      BY <1>0 DEF TypeConsumer
    <3> QED
      BY <1>4, <3>1 DEF Produce, ReadStep, ReadMessage, ReadErrs, SendErr, Top
  <2>3. \A c \in Conns : Feeds(c)'
    BY <2>1, <2>2, FeedsStay DEF Feed
  <2> QED
    BY <1>3, <2>1, <2>2, <2>3
<1>5. ASSUME NEW d \in Conns, ServerStep(d) \/ Refuse(d) \/ Disconnect(d)
      PROVE  Feed'
  <2>1. Top' = Top
    BY <1>5 DEF ServerStep, Accept, Subscribe, TakeFrame, WriteFrame, WriteVanishes,
       WriteFails, WriteTimesOut, Leave, Refuse, Disconnect, Top
  <2>2. CASE WriteFrame(d)
    BY <2>1, <2>2, FeedWrite
  <2>3. CASE ~ WriteFrame(d)
    <3>1. trips' = trips
      BY <1>5, <2>3 DEF ServerStep, Accept, Subscribe, TakeFrame, WriteVanishes,
         WriteFails, WriteTimesOut, Leave, Refuse, Disconnect
    <3>2. ASSUME NEW c \in Conns PROVE Feeds(c)'
      <4>0. Feeds(c) /\ Handler(c)
        BY DEF Feed
      <4>1. CASE c # d
        <5>1. link'[c] = link[c] /\ chan'[c] = chan[c] /\ frame'[c] = frame[c]
          BY <1>0, <1>5, <2>3, <4>1 DEF ServerStep, Accept, Subscribe, TakeFrame,
             WriteVanishes, WriteFails, WriteTimesOut, Leave, Refuse, Disconnect, TypeConns
        <5> QED
          BY <2>1, <3>1, <4>0, <5>1, FeedsStay
      <4>2. CASE c = d /\ (Accept(c) \/ Subscribe(c))
        <5>1. chan'[c] = <<>> /\ frame'[c] = NoFrame
          BY <1>0, <4>0, <4>2 DEF Accept, Subscribe, Handler, Subscribed, TypeConns
        <5> QED
          BY <5>1, NoFrameKind, RisingEmpty DEF Feeds
      <4>3. CASE c = d /\ TakeFrame(c)
        BY <2>1, <4>0, <4>3, FeedTake
      <4>4. CASE c = d /\ \/ WriteVanishes(c) \/ WriteFails(c) \/ WriteTimesOut(c)
                          \/ Refuse(c) \/ Disconnect(c)
        <5>1. link'[c] # "open"
          BY <1>0, <4>4 DEF WriteVanishes, WriteFails, WriteTimesOut, Leave, Refuse,
             Disconnect, TypeConns
        <5> QED
          BY <5>1 DEF Feeds
      <4> QED
        BY <1>5, <2>3, <4>1, <4>2, <4>3, <4>4 DEF ServerStep
    <3> QED
      BY <1>3, <2>1, <3>1, <3>2
  <2> QED
    BY <2>2, <2>3
<1>6. CASE Reconnect \/ OnOpen \/ OnClose
  <2>1. UNCHANGED <<holding, offset, chan, frame, trips>>
    BY <1>6 DEF Reconnect, OnOpen, OnClose
  <2>2. \A c \in Conns : link'[c] = "open" => link[c] = "open"
    BY <1>0, <1>6 DEF Reconnect, OnOpen, OnClose, TypeConns
  <2>3. Top' = Top
    BY <2>1 DEF Top
  <2>4. \A c \in Conns : Feeds(c)'
    BY <2>1, <2>2, <2>3, FeedsStay DEF Feed
  <2> QED
    BY <1>3, <2>1, <2>3, <2>4
<1>7. CASE Unmount
  <2>1. \A c \in Conns : link'[c] # "open"
    BY <1>0, <1>7, TripStreamAssumption
       DEF Unmount, Linked, OneConnection, TypeConns, TripStreamAssumption
  <2>2. trips' = <<>> /\ UNCHANGED <<holding, offset>>
    BY <1>7 DEF Unmount
  <2>3. Descending' /\ Newest' = 0 /\ Top' = Top /\ Top \in Nat
    BY <2>2, EmptySeq, TypedNumbers DEF Descending, Newest, Top
  <2> QED
    BY <2>1, <2>3 DEF Feed, Feeds
<1> QED
  BY <1>2, <1>4, <1>5, <1>6, <1>7 DEF Next, BrowserStep

-----------------------------------------------------------------------------
(***************************************************************************)
(* The invariant, and what it says of the screen.                          *)
(***************************************************************************)

\* Every step of the consumer, of a handler, of the browser and of the network
\* keeps the invariant (consumer.go:30-84, streamhub.go:29-62,
\* streaming_handler.go:54-88, httpStreamingGateway.ts:60-143).
THEOREM StreamInvariant == Spec => []StreamInv
<1>1. Init => StreamInv
  BY Initially
<1>2. StreamInv /\ [Next]_vars => StreamInv'
  <2> SUFFICES ASSUME StreamInv, [Next]_vars PROVE StreamInv'
    OBVIOUS
  <2>1. CASE Next
    <3>1. TypeOK'
      BY <2>1, TypeParts, TypeConsumerNext, TypeConnsNext, TypeScreenNext
         DEF StreamInv, TypeOK, TypeConsumer, TypeConns, TypeScreen
    <3>2. Held' /\ Linked' /\ Uncounted'
      BY <2>1, LinksNext DEF StreamInv
    <3>3. \A c \in Conns : Handler(c)'
      BY <2>1, HandlersNext DEF StreamInv
    <3>4. \A c \in Conns : Sums(c)'
      BY <2>1, SumsNext DEF StreamInv
    <3>5. (restarts \/ Feed)'
      BY <2>1, FeedNext DEF StreamInv
    <3> QED
      BY <3>1, <3>2, <3>3, <3>4, <3>5 DEF StreamInv
  <2>2. CASE UNCHANGED vars
    <3> USE <2>2 DEF vars, readVars, relayVars, serverVars, browserVars, StreamInv
    <3>1. TypeOK'
      BY DEF TypeOK, Subscribed
    <3>2. Held' /\ Linked' /\ Uncounted'
      BY DEF Held, Linked, OneConnection, Uncounted
    <3>3. \A c \in Conns : Handler(c)'
      BY DEF Handler, Subscribed
    <3>4. \A c \in Conns : Sums(c)'
      BY DEF Sums, Subscribed, From, Received
    <3>5. (restarts \/ Feed)'
      BY DEF Feed, Feeds, Descending, Newest, Latest, Top
    <3> QED
      BY <3>1, <3>2, <3>3, <3>4, <3>5
  <2> QED
    BY <2>1, <2>2
<1> QED
  BY <1>1, <1>2, PTL DEF Spec

\* The variables of the consumer, its connections and the screen keep their
\* types: a channel never holds more than its capacity, and is empty when its
\* handler is gone (streamhub.go:29-62, useLiveTripStream.ts:25).
THEOREM StreamTyped == Spec => []TypeOK
<1>1. StreamInv => TypeOK
  BY DEF StreamInv
<1> QED
  BY <1>1, StreamInvariant, PTL

\* A mounted screen holds one connection or one timer, an unmounted one nothing
\* (httpStreamingGateway.ts:94-143).
THEOREM OneConnectionHeld == Spec => []OneConnection
<1>1. StreamInv => OneConnection
  BY DEF StreamInv, Linked
<1> QED
  BY <1>1, StreamInvariant, PTL

\* A window frame sums up the trips that were shown since the last one
\* (consumer.go:61-72, window.go:29-51).
THEOREM WindowSumsUp == Spec => []WindowMatchesTrips
<1>1. StreamInv => WindowMatchesTrips
  BY DEF StreamInv, Sums, Subscribed, IsWindow, WindowMatchesTrips
<1> QED
  BY <1>1, StreamInvariant, PTL

\* The feed keeps the topic's order across reconnects
\* (useLiveTripStream.ts:25, httpStreamingGateway.ts:91-93).
THEOREM FeedKeepsOrder == Spec => []FeedNewestFirst
<1>1. StreamInv => FeedNewestFirst
  BY DEF StreamInv, Feed, Descending, FeedNewestFirst
<1> QED
  BY <1>1, StreamInvariant, PTL
=============================================================================
