-------------------------- MODULE EventRelayProofs --------------------------
(***************************************************************************)
(* For any runs, sockets, capacities and faults: the Hub's registry is     *)
(* exact, a browser's promise resolves only for a run that is over, and a  *)
(* result is the last frame of its socket.                                 *)
(*                                                                         *)
(* What carries the second is that a terminal event, wherever it is on its *)
(* way, is of a run whose row is already over, and a row that is over      *)
(* stays so. The set of the events of which this is true, Settled, only    *)
(* grows, so it is enough that the channels hold members of it.            *)
(***************************************************************************)
EXTENDS EventRelay, SequenceTheorems, TLAPS

Over(j) == row[j] \in TerminalStates \cup {"gone"}

\* Only a run whose row is over is due to be announced as over.
DueIsOver ==
  \A j \in Jobs : stage[j] \in TerminalStates \/ j \in revoked => Over(j)

Settled == {e \in Events : e.what \in TerminalStates => Over(e.job)}
Own(s) == {e \in Settled : e.job = Watches[s]}

Flow ==
  /\ DueIsOver
  /\ relay \in Seq(Settled)
  /\ hubEvent \in Settled \cup {NoEvent}
  /\ \A s \in Sockets : chan[s] \in Seq(Own(s))

Registry ==
  /\ \A j \in Jobs :
       conns[j] = {s \in Sockets : Subscribed(s) /\ Watches[s] = j}
  /\ \A s \in hubSubs : hubEvent # NoEvent /\ Watches[s] = hubEvent.job

\* What a browser was shown or has concluded.
Shown(s) ==
  /\ client[s] = "resolved" => Over(Watches[s])
  /\ isTerminal(seen[s]) => spc[s] \in {"leaving", "closed"}

RelayInv == TypeOK /\ Flow /\ Registry /\ \A s \in Sockets : Shown(s)

-----------------------------------------------------------------------------
LEMMA RelayConstants ==
  /\ Watches \in [Sockets -> Jobs]
  /\ Outcomes \subseteq TerminalStates
  /\ BufCap \in Nat \ {0}
BY EventRelayAssumption DEF EventRelayAssumption, TerminalStates

LEMMA EventIsNotNoEvent == NoEvent \notin Events
BY DEF NoEvent, Events, Statuses, Active

LEMMA SettledAreEvents ==
  Settled \subseteq Events /\ \A s \in Sockets : Own(s) \subseteq Settled
BY DEF Settled, Own

\* Appending and taking off stay within a set of events.
LEMMA AppendStays ==
  ASSUME NEW S, NEW q \in Seq(S), NEW e \in S
  PROVE  Append(q, e) \in Seq(S) /\ Len(Append(q, e)) = Len(q) + 1
BY AppendProperties

LEMMA HeadTailStay ==
  ASSUME NEW S, NEW q \in Seq(S), q # <<>>
  PROVE  /\ Head(q) \in S /\ Tail(q) \in Seq(S)
         /\ Len(q) \in Nat \ {0} /\ Len(Tail(q)) = Len(q) - 1
BY HeadTailProperties, EmptySeq

LEMMA RelayInitInv == Init => RelayInv
<1> SUFFICES ASSUME Init PROVE RelayInv
  OBVIOUS
<1>1. TypeOK
  <2>1. <<>> \in Seq(Events) /\ Len(<<>>) = 0
    BY EmptySeq
  <2>2. chan \in [Sockets -> Seq(Events)] /\ \A s \in Sockets : Len(chan[s]) <= BufCap
    BY <2>1, RelayConstants DEF Init
  <2> QED
    BY <2>1, <2>2 DEF Init, TypeOK, Feed!Init, Feed!TypeOK, Feed!Statuses,
                      Statuses, Active
<1>2. Flow
  BY EmptySeq DEF Init, Feed!Init, Flow, DueIsOver, TerminalStates
<1>3. Registry
  BY DEF Init, Registry, Subscribed
<1>4. \A s \in Sockets : Shown(s)
  BY DEF Init, Shown, isTerminal
<1> QED
  BY <1>1, <1>2, <1>3, <1>4 DEF RelayInv

-----------------------------------------------------------------------------
(***************************************************************************)
(* The runs. All that matters of a step is that a run that is over stays   *)
(* so and that what it puts on its way is settled.                         *)
(***************************************************************************)
\* No step of RunEvents makes a run that is over active again, and what is due
\* to be announced as the end of a run is the end of it.
LEMMA FeedKeepsInv ==
  ASSUME Feed!TypeOK, DueIsOver, [Feed!Next]_(Feed!vars)
  PROVE  /\ Feed!TypeOK' /\ DueIsOver'
         /\ \A j \in Jobs : Over(j) => Over(j)'
<1> USE DEF Feed!TypeOK, DueIsOver, Over, TerminalStates, Feed!Statuses,
            Feed!Active,
            Feed!Terminal
<1>1. CASE UNCHANGED Feed!vars
  BY <1>1 DEF Feed!vars
<1>2. ASSUME NEW j \in Jobs, Feed!Insert(j)
      PROVE  Feed!TypeOK' /\ DueIsOver' /\ \A k \in Jobs : Over(k) => Over(k)'
  BY <1>2 DEF Feed!Insert
<1>3. ASSUME NEW j \in Jobs, Feed!Fail(j)
      PROVE  Feed!TypeOK' /\ DueIsOver' /\ \A k \in Jobs : Over(k) => Over(k)'
  BY <1>3 DEF Feed!Fail
<1>4. ASSUME NEW j \in Jobs, Feed!Start(j)
      PROVE  Feed!TypeOK' /\ DueIsOver' /\ \A k \in Jobs : Over(k) => Over(k)'
  BY <1>4 DEF Feed!Start
<1>5. ASSUME NEW j \in Jobs, Feed!AnnounceStart(j)
      PROVE  Feed!TypeOK' /\ DueIsOver' /\ \A k \in Jobs : Over(k) => Over(k)'
  BY <1>5 DEF Feed!AnnounceStart
<1>6. ASSUME NEW j \in Jobs, NEW s \in Feed!Terminal, Feed!Finish(j, s)
      PROVE  Feed!TypeOK' /\ DueIsOver' /\ \A k \in Jobs : Over(k) => Over(k)'
  BY <1>6 DEF Feed!Finish
<1>7. ASSUME NEW j \in Jobs, Feed!AnnounceResult(j)
      PROVE  Feed!TypeOK' /\ DueIsOver' /\ \A k \in Jobs : Over(k) => Over(k)'
  BY <1>7 DEF Feed!AnnounceResult
<1>8. ASSUME NEW j \in Jobs, Feed!Stop(j)
      PROVE  Feed!TypeOK' /\ DueIsOver' /\ \A k \in Jobs : Over(k) => Over(k)'
  BY <1>8 DEF Feed!Stop
<1>9. ASSUME NEW j \in Jobs, Feed!AnnounceCancelled(j)
      PROVE  Feed!TypeOK' /\ DueIsOver' /\ \A k \in Jobs : Over(k) => Over(k)'
  BY <1>9 DEF Feed!AnnounceCancelled
<1>10. ASSUME NEW S \in SUBSET Jobs, Feed!Forget(S)
       PROVE  Feed!TypeOK' /\ DueIsOver' /\ \A k \in Jobs : Over(k) => Over(k)'
  BY <1>10 DEF Feed!Forget
<1>11. CASE Feed!CancelAll
  BY <1>11 DEF Feed!CancelAll
<1>12. CASE Feed!Clear
  BY <1>12 DEF Feed!Clear
<1> QED
  BY <1>1, <1>2, <1>3, <1>4, <1>5, <1>6, <1>7, <1>8, <1>9, <1>10, <1>11, <1>12
  DEF Feed!Next, Feed!RunNext

\* An event keeps being settled whatever the runs do.
LEMMA SettledGrows ==
  ASSUME RelayInv, [Feed!Next]_(Feed!vars)
  PROVE  Settled \subseteq Settled'
BY FeedKeepsInv DEF RelayInv, TypeOK, Flow, Settled, Events

\* A step of the runs that touches nothing of the relay but what is on its way.
LEMMA EnvironmentKeepsInv ==
  ASSUME RelayInv, UNCHANGED <<hubVars, socketVars>>, [Feed!Next]_(Feed!vars),
         relay' \in Seq(Settled'), missed' \subseteq Sockets
  PROVE  RelayInv'
<1>1. Settled \subseteq Settled'
  BY SettledGrows
<1>2. /\ Feed!TypeOK' /\ DueIsOver'
      /\ \A j \in Jobs : Over(j) => Over(j)'
  BY FeedKeepsInv DEF RelayInv, TypeOK, Flow
<1>3. TypeOK'
  <2>1. relay' \in Seq(Events)
    BY SeqMonotonic DEF Settled
  <2> QED
    BY <1>2, <2>1 DEF RelayInv, TypeOK, hubVars, socketVars
<1>4. Flow'
  <2>1. ASSUME NEW s \in Sockets PROVE chan'[s] \in Seq(Own(s)')
    <3>1. Own(s) \subseteq Own(s)'
      BY <1>1 DEF Own
    <3>2. chan[s] \in Seq(Own(s)) /\ chan' = chan
      BY DEF RelayInv, Flow, socketVars
    <3> QED
      BY <3>1, <3>2, SeqMonotonic
  <2> QED
    BY <1>1, <1>2, <2>1 DEF RelayInv, Flow, hubVars
<1>5. Registry'
  BY DEF RelayInv, Registry, Subscribed, hubVars, socketVars
<1>6. ASSUME NEW s \in Sockets PROVE Shown(s)'
  <2>1. Watches[s] \in Jobs
    BY RelayConstants
  <2> QED
    BY <1>2, <2>1 DEF RelayInv, Shown, socketVars
<1> QED
  BY <1>2, <1>3, <1>4, <1>5, <1>6 DEF RelayInv

\* What changes a row or drops what was to be announced publishes nothing.
LEMMA QuietKeepsInv ==
  ASSUME RelayInv, Feed!Next, UNCHANGED <<relay, Rest>>,
         missed' \subseteq missed \cup Sockets
  PROVE  RelayInv'
<1>1. relay' \in Seq(Settled')
  BY SettledGrows, SeqMonotonic DEF RelayInv, Flow
<1> QED
  BY <1>1, EnvironmentKeepsInv DEF RelayInv, TypeOK, Rest

\* What is published as the end of a run is the end of it.
LEMMA PublishKeepsInv ==
  ASSUME RelayInv, NEW j \in Jobs, PublishStatus(j)
  PROVE  RelayInv'
<1>1. Feed!Next
  BY DEF PublishStatus, Feed!Next, Feed!RunNext
<1>2. UNCHANGED row /\ lastEvent'[j] \in Statuses
      /\ (lastEvent'[j] \in TerminalStates => Over(j))
  <2> USE DEF RelayInv, TypeOK, Flow, Feed!TypeOK, Feed!Terminal, Statuses,
              TerminalStates, DueIsOver, Active
  <2>1. CASE Feed!AnnounceStart(j)
    BY <2>1 DEF Feed!AnnounceStart
  <2>2. CASE Feed!AnnounceResult(j)
    BY <2>2 DEF Feed!AnnounceResult
  <2>3. CASE Feed!AnnounceCancelled(j)
    BY <2>3 DEF Feed!AnnounceCancelled
  <2> QED
    BY <2>1, <2>2, <2>3 DEF PublishStatus
<1>3. Event(j, lastEvent'[j]) \in Settled /\ Settled' = Settled
  BY <1>2 DEF Event, Settled, Events, Over
<1>4. relay' = Append(relay, Event(j, lastEvent'[j]))
  BY DEF PublishStatus
<1>5. relay' \in Seq(Settled')
  BY <1>3, <1>4, AppendStays DEF RelayInv, Flow
<1> QED
  BY <1>1, <1>5, EnvironmentKeepsInv DEF RelayInv, TypeOK, PublishStatus, Rest

\* A log line says nothing of the run's end.
LEMMA LogKeepsInv ==
  ASSUME RelayInv, NEW j \in Jobs, PublishLog(j)
  PROVE  RelayInv'
<1>1. UNCHANGED Feed!vars /\ UNCHANGED <<row, hubVars, socketVars, missed>>
      /\ relay' = Append(relay, Event(j, "log"))
  BY DEF PublishLog, Feed!vars, Rest
<1>2. Event(j, "log") \in Settled /\ Settled' = Settled
  BY <1>1 DEF Event, Settled, Events, Over, TerminalStates
<1>3. relay' \in Seq(Settled')
  BY <1>1, <1>2, AppendStays DEF RelayInv, Flow
<1> QED
  BY <1>1, <1>3, EnvironmentKeepsInv DEF RelayInv, TypeOK

LEMMA LoseKeepsInv == RelayInv /\ LoseEvent => RelayInv'
<1> SUFFICES ASSUME RelayInv, LoseEvent PROVE RelayInv'
  OBVIOUS
<1>1. /\ relay # <<>> /\ relay' = Tail(relay) /\ missed' \subseteq missed \cup Sockets
      /\ UNCHANGED <<row, Feed!vars, hubVars, socketVars>>
  BY DEF LoseEvent, envVars, Feed!vars, WatchersOf
<1>2. Settled' = Settled
  BY <1>1 DEF Settled, Over
<1>3. relay' \in Seq(Settled')
  BY <1>1, <1>2, HeadTailStay DEF RelayInv, Flow
<1> QED
  BY <1>1, <1>3, EnvironmentKeepsInv DEF RelayInv, TypeOK

\* A step of a run.
LEMMA RunStepKeepsInv ==
  ASSUME RelayInv, NEW j \in Jobs, RunStep(j) PROVE RelayInv'
<1>1. CASE InsertRun(j) \/ FailRun(j) \/ StartRun(j) \/ WorkerStops(j)
  <2>1. Feed!Next /\ UNCHANGED <<relay,
                                 Rest>> /\ missed' \subseteq missed \cup Sockets
    BY <1>1 DEF InsertRun, FailRun, StartRun, WorkerStops, Quiet, WatchersOf,
                Feed!Next, Feed!RunNext
  <2> QED
    BY <2>1, QuietKeepsInv
<1>2. CASE EndStep(j)
  <2>1. PICK st \in Outcomes : EndRun(j, st)
    BY <1>2 DEF EndStep
  <2>2. Feed!Next /\ UNCHANGED <<relay, Rest, missed>>
    BY <2>1 DEF EndRun, Feed!Finish, Quiet, Feed!Next, Feed!RunNext
  <2> QED
    BY <2>2, QuietKeepsInv
<1> QED
  BY <1>1, <1>2, PublishKeepsInv, LogKeepsInv DEF RunStep

\* A step of all runs at once.
LEMMA RunsStepKeepsInv ==
  ASSUME RelayInv,
         CancelRuns \/ ClearRuns \/ (\E S \in SUBSET revoked : CancelErrs(S))
  PROVE  RelayInv'
<1>1. CASE CancelRuns \/ ClearRuns
  <2>1. Feed!Next /\ UNCHANGED <<relay, Rest, missed>>
    BY <1>1 DEF CancelRuns, ClearRuns, Quiet, Feed!Next
  <2> QED
    BY <2>1, QuietKeepsInv
<1>2. ASSUME NEW S \in SUBSET revoked, CancelErrs(S) PROVE RelayInv'
  <2>1. S \in SUBSET Jobs
    BY DEF RelayInv, TypeOK, Feed!TypeOK
  <2>2. Feed!Next /\ UNCHANGED <<relay,
                                 Rest>> /\ missed' \subseteq missed \cup Sockets
    BY <1>2, <2>1 DEF CancelErrs, WatchersOf, Feed!Next
  <2> QED
    BY <2>2, QuietKeepsInv
<1> QED
  BY <1>1, <1>2

-----------------------------------------------------------------------------
(***************************************************************************)
(* The Hub and the end of its process.                                     *)
(***************************************************************************)
LEMMA TakeKeepsInv == RelayInv /\ TakeEvent => RelayInv'
<1> SUFFICES ASSUME RelayInv, TakeEvent PROVE RelayInv'
  OBVIOUS
<1>1. /\ hubEvent' = Head(relay) /\ hubSubs' = conns[Head(relay).job]
      /\ relay' = Tail(relay) /\ relay # <<>>
      /\ UNCHANGED <<row, stage, revoked, lastEvent, conns, socketVars, missed>>
  BY DEF TakeEvent, envVars
<1>2. /\ Head(relay) \in Settled /\ Tail(relay) \in Seq(Settled)
      /\ relay \in Seq(Settled)
  BY <1>1, HeadTailStay DEF RelayInv, Flow
<1>3. /\ Head(relay) \in Events /\ Head(relay).job \in Jobs
      /\ Head(relay) # NoEvent
  BY <1>2, EventIsNotNoEvent DEF Settled, Events, Over, DueIsOver
<1>4. TypeOK'
  <2>1. Tail(relay) \in Seq(Events)
    BY <1>2, SettledAreEvents, SeqMonotonic
  <2> QED
    BY <1>1, <1>3, <2>1 DEF RelayInv, TypeOK, socketVars, Feed!TypeOK
<1>5. Flow'
  BY <1>1, <1>2 DEF RelayInv, Flow, Settled, Own, socketVars, Over, DueIsOver
<1>6. Registry'
  BY <1>1, <1>3 DEF RelayInv, Registry, Subscribed, socketVars
<1>7. ASSUME NEW s \in Sockets PROVE Shown(s)'
  BY <1>1 DEF RelayInv, Shown, socketVars, Over
<1> QED
  BY <1>4, <1>5, <1>6, <1>7 DEF RelayInv

LEMMA SendKeepsInv ==
  ASSUME RelayInv, NEW s \in Sockets, SendEvent(s) PROVE RelayInv'
<1>1. /\ s \in hubSubs /\ hubSubs' = hubSubs \ {s} /\ missed' \subseteq missed \cup {s}
      /\ UNCHANGED <<row, stage, revoked, lastEvent, relay, conns, hubEvent, spc,
                     client, seen>>
  BY DEF SendEvent, envVars
<1>2. hubEvent \in Own(s)
  BY <1>1 DEF RelayInv, Flow, Registry, Own
<1>3. /\ chan'[s] \in Seq(Own(s)) /\ Len(chan'[s]) <= BufCap
      /\ chan' = [chan EXCEPT ![s] = chan'[s]]
  <2>1. chan \in [Sockets -> Seq(Events)] /\ chan[s] \in Seq(Own(s))
    BY DEF RelayInv, TypeOK, Flow, Feed!TypeOK
  <2>2. CASE Len(chan[s]) < BufCap
    <3>1. chan' = [chan EXCEPT ![s] = Append(chan[s], hubEvent)]
      BY <2>2 DEF SendEvent
    <3>2. /\ Append(chan[s], hubEvent) \in Seq(Own(s))
          /\ Len(Append(chan[s], hubEvent)) = Len(chan[s]) + 1
      BY <1>2, <2>1, AppendStays
    <3>3. Len(chan[s]) \in Nat
      BY <2>1, LenProperties
    <3> QED
      BY <2>1, <2>2, <3>1, <3>2, <3>3, RelayConstants
  <2>3. CASE ~ Len(chan[s]) < BufCap
    BY <2>1, <2>3 DEF SendEvent, RelayInv, TypeOK, Feed!TypeOK
  <2> QED
    BY <2>2, <2>3
<1>4. TypeOK'
  <2>1. chan'[s] \in Seq(Events)
    BY <1>3, SettledAreEvents, SeqMonotonic
  <2>2. chan' \in [Sockets -> Seq(Events)]
    BY <1>3, <2>1 DEF RelayInv, TypeOK, Feed!TypeOK
  <2>3. \A u \in Sockets : Len(chan'[u]) <= BufCap
    BY <1>3 DEF RelayInv, TypeOK, Feed!TypeOK
  <2> QED
    BY <1>1, <2>2, <2>3 DEF RelayInv, TypeOK, Feed!TypeOK
<1>5. Flow'
  <2>1. ASSUME NEW u \in Sockets PROVE chan'[u] \in Seq(Own(u)')
    <3>1. Own(u)' = Own(u)
      BY <1>1 DEF Own, Settled, Over, DueIsOver
    <3>2. CASE u = s
      BY <1>3, <3>1, <3>2
    <3>3. CASE u # s
      BY <1>3, <3>1, <3>3 DEF RelayInv, Flow, TypeOK, Feed!TypeOK
    <3> QED
      BY <3>2, <3>3
  <2> QED
    BY <1>1, <2>1 DEF RelayInv, Flow, Settled, Over, DueIsOver
<1>6. Registry'
  BY <1>1 DEF RelayInv, Registry, Subscribed
<1>7. ASSUME NEW u \in Sockets PROVE Shown(u)'
  BY <1>1 DEF RelayInv, Shown, Over
<1> QED
  BY <1>4, <1>5, <1>6, <1>7 DEF RelayInv

LEMMA DoneKeepsInv == RelayInv /\ DoneEvent => RelayInv'
<1> SUFFICES ASSUME RelayInv, DoneEvent PROVE RelayInv'
  OBVIOUS
<1>1. /\ hubEvent' = NoEvent /\ hubSubs = {}
      /\ UNCHANGED <<row, stage, revoked, lastEvent, relay, conns, hubSubs,
                     socketVars, missed>>
  BY DEF DoneEvent, envVars
<1>2. TypeOK'
  BY <1>1 DEF RelayInv, TypeOK, socketVars, Feed!TypeOK
<1>3. Flow'
  BY <1>1 DEF RelayInv, Flow, Settled, Own, socketVars, Over, DueIsOver
<1>4. Registry'
  BY <1>1 DEF RelayInv, Registry, Subscribed, socketVars
<1>5. ASSUME NEW s \in Sockets PROVE Shown(s)'
  BY <1>1 DEF RelayInv, Shown, socketVars, Over
<1> QED
  BY <1>2, <1>3, <1>4, <1>5 DEF RelayInv

\* What the process held is gone, and a handler with it.
LEMMA RestartKeepsInv == RelayInv /\ Restart => RelayInv'
<1> SUFFICES ASSUME RelayInv, Restart PROVE RelayInv'
  OBVIOUS
<1>1. /\ client' \in [Sockets -> {"none", "waiting", "resolved", "rejected", "left"}]
      /\ \A s \in Sockets : client'[s] = "resolved" => client[s] = "resolved"
  BY DEF Restart, RelayInv, TypeOK
<1>2. /\ relay' = <<>> /\ conns' = [j \in Jobs |-> {}] /\ hubEvent' = NoEvent
      /\ hubSubs' = {} /\ chan' = [s \in Sockets |-> <<>>]
      /\ spc' = [s \in Sockets |-> IF spc[s] = "none" THEN "none" ELSE "closed"]
      /\ missed' \subseteq missed \cup Sockets
      /\ UNCHANGED <<row, stage, lastEvent, seen>> /\ revoked' = {}
  BY DEF Restart, Feed!Forget
<1>3. TypeOK'
  <2>1. <<>> \in Seq(Events) /\ Len(<<>>) = 0
    BY EmptySeq
  <2>2. chan' \in [Sockets -> Seq(Events)] /\ \A s \in Sockets : Len(chan'[s]) <= BufCap
    BY <1>2, <2>1, RelayConstants
  <2> QED
    BY <1>1, <1>2, <2>1, <2>2 DEF RelayInv, TypeOK, Feed!TypeOK
<1>4. Flow'
  BY <1>2, EmptySeq DEF RelayInv, Flow, Settled, Own, Over, DueIsOver
<1>5. Registry'
  BY <1>2 DEF RelayInv, Registry, Subscribed
<1>6. ASSUME NEW s \in Sockets PROVE Shown(s)'
  BY <1>1, <1>2 DEF RelayInv, Shown, Over
<1> QED
  BY <1>3, <1>4, <1>5, <1>6 DEF RelayInv

-----------------------------------------------------------------------------
(***************************************************************************)
(* A handler and its browser. The row stays as it is, so Settled does.     *)
(***************************************************************************)
LEMMA AcceptLeaveKeepsInv ==
  ASSUME RelayInv, NEW s \in Sockets, Accept(s) \/ ClientLeaves(s)
  PROVE  RelayInv'
<1>1. /\ client' \in {[client EXCEPT ![s] = "waiting"], [client EXCEPT ![s] = "left"]}
      /\ spc' = spc \/ (spc[s] = "none" /\ spc' = [spc EXCEPT ![s] = "accepted"])
      /\ UNCHANGED <<row, stage, revoked, lastEvent, relay, conns, hubEvent,
                     hubSubs, chan,
                     seen, missed>>
  BY DEF Accept, ClientLeaves, envVars, hubVars
<1>2. TypeOK'
  <2>1. client' \in [Sockets -> {"none", "waiting", "resolved", "rejected", "left"}]
    BY <1>1 DEF RelayInv, TypeOK, Feed!TypeOK
  <2>2. spc' \in [Sockets -> {"none", "accepted", "backfilled", "watching",
                             "leaving", "closed"}]
    BY <1>1 DEF RelayInv, TypeOK, Feed!TypeOK
  <2> QED
    BY <1>1, <2>1, <2>2 DEF RelayInv, TypeOK, Feed!TypeOK
<1>3. Flow'
  BY <1>1, SMTT(30) DEF RelayInv, Flow, Settled, Own, Over, DueIsOver
<1>4. Registry'
  BY <1>1 DEF RelayInv, Registry, Subscribed, TypeOK, Feed!TypeOK
<1>5. ASSUME NEW u \in Sockets PROVE Shown(u)'
  BY <1>1 DEF RelayInv, Shown, TypeOK, Feed!TypeOK, Over
<1> QED
  BY <1>2, <1>3, <1>4, <1>5 DEF RelayInv

\* A status is shown to a socket whose run, if the status ends one, is over.
LEMMA ShowIsTruthful ==
  ASSUME RelayInv, NEW s \in Sockets, NEW st \in Statuses, Show(s, st),
         st \in TerminalStates => Over(Watches[s])
  PROVE  /\ client' \in [Sockets -> {"none", "waiting", "resolved", "rejected", "left"}]
         /\ seen' \in [Sockets -> Statuses \cup {"none"}] /\ seen'[s] = st
         /\ \A u \in Sockets : client'[u] = "resolved" => Over(Watches[u])
         /\ \A u \in Sockets \ {s} : seen'[u] = seen[u]
BY DEF Show, RelayInv, TypeOK, Shown

LEMMA BackfillKeepsInv ==
  ASSUME RelayInv, NEW s \in Sockets, Backfill(s) PROVE RelayInv'
<1> DEFINE st == row[Watches[s]]
<1>1. /\ spc[s] = "accepted"
      /\ UNCHANGED <<row, stage, revoked, lastEvent, relay, conns, hubEvent,
                     hubSubs, chan,
                     missed>>
  BY DEF Backfill, envVars, hubVars
<1>2. /\ client' \in [Sockets -> {"none", "waiting", "resolved", "rejected", "left"}]
      /\ seen' \in [Sockets -> Statuses \cup {"none"}]
      /\ spc' \in {[spc EXCEPT ![s] = "closed"], [spc EXCEPT ![s] = "backfilled"]}
      /\ \A u \in Sockets : client'[u] = "resolved" => Over(Watches[u])
      /\ \A u \in Sockets \ {s} : seen'[u] = seen[u]
      /\ isTerminal(seen'[s]) => spc' = [spc EXCEPT ![s] = "closed"]
  <2>1. CASE st \in Statuses /\ Connected(s)
    <3>1. Show(s, st) /\ spc' = [spc EXCEPT ![s] = IF isTerminal(st) THEN "closed"
                                                                 ELSE "backfilled"]
      BY <2>1 DEF Backfill
    <3>2. st \in TerminalStates => Over(Watches[s])
      BY DEF Over
    <3> QED
      BY <1>1, <2>1, <3>1, <3>2, ShowIsTruthful
  <2>2. CASE ~ (st \in Statuses /\ Connected(s))
    <3>1. ~ isTerminal(seen[s])
      BY <1>1 DEF RelayInv, Shown, Over
    <3> QED
      BY <1>1, <2>2, <3>1 DEF Backfill, RelayInv, TypeOK, Shown, Feed!TypeOK, Over
  <2> QED
    BY <2>1, <2>2
<1>3. TypeOK'
  BY <1>1, <1>2 DEF RelayInv, TypeOK, Feed!TypeOK
<1>4. Flow'
  BY <1>1 DEF RelayInv, Flow, Settled, Own, Over, DueIsOver
<1>5. Registry'
  BY <1>1, <1>2 DEF RelayInv, Registry, Subscribed, TypeOK, Feed!TypeOK
<1>6. ASSUME NEW u \in Sockets PROVE Shown(u)'
  <2>1. client'[u] = "resolved" => Over(Watches[u])'
    BY <1>1, <1>2 DEF Over
  <2>2. CASE u = s
    BY <1>2, <2>1, <2>2 DEF RelayInv, Shown, TypeOK, Feed!TypeOK, Over
  <2>3. CASE u # s
    BY <1>1, <1>2, <2>1, <2>3 DEF RelayInv, Shown, TypeOK, Feed!TypeOK, Over
  <2> QED
    BY <2>2, <2>3
<1> QED
  BY <1>3, <1>4, <1>5, <1>6 DEF RelayInv

LEMMA SubscribeKeepsInv ==
  ASSUME RelayInv, NEW s \in Sockets, Subscribe(s) PROVE RelayInv'
<1>1. /\ spc[s] = "backfilled" /\ spc' = [spc EXCEPT ![s] = "watching"]
      /\ conns' = [conns EXCEPT ![Watches[s]] = @ \cup {s}]
      /\ UNCHANGED <<row, stage, revoked, lastEvent, relay, hubEvent, hubSubs,
                     chan, client,
                     seen, missed>>
  BY DEF Subscribe, envVars
<1>2. TypeOK'
  BY <1>1, RelayConstants DEF RelayInv, TypeOK, Feed!TypeOK
<1>3. Flow'
  BY <1>1 DEF RelayInv, Flow, Settled, Own, Over, DueIsOver
<1>4. Registry'
  BY <1>1, RelayConstants DEF RelayInv, Registry, Subscribed, TypeOK, Feed!TypeOK
<1>5. ASSUME NEW u \in Sockets PROVE Shown(u)'
  BY <1>1 DEF RelayInv, Shown, TypeOK, Feed!TypeOK, Over
<1> QED
  BY <1>2, <1>3, <1>4, <1>5 DEF RelayInv

LEMMA RelayEventKeepsInv ==
  ASSUME RelayInv, NEW s \in Sockets, RelayEvent(s) PROVE RelayInv'
<1> DEFINE e == Head(chan[s])
<1>1. /\ spc[s] = "watching" /\ chan[s] # <<>>
      /\ chan' = [chan EXCEPT ![s] = Tail(chan[s])]
      /\ UNCHANGED <<row, stage, revoked, lastEvent, relay, conns, hubEvent,
                     hubSubs, missed>>
  BY DEF RelayEvent, envVars, hubVars
<1>2. /\ e \in Own(s) /\ Tail(chan[s]) \in Seq(Own(s))
      /\ Len(Tail(chan[s])) = Len(chan[s]) - 1 /\ Len(chan[s]) \in Nat
  BY <1>1, HeadTailStay DEF RelayInv, Flow
<1>3. /\ client' \in [Sockets -> {"none", "waiting", "resolved", "rejected", "left"}]
      /\ seen' \in [Sockets -> Statuses \cup {"none"}]
      /\ spc' \in {[spc EXCEPT ![s] = "watching"], [spc EXCEPT ![s] = "leaving"]}
      /\ \A u \in Sockets : client'[u] = "resolved" => Over(Watches[u])
      /\ \A u \in Sockets \ {s} : seen'[u] = seen[u]
      /\ isTerminal(seen'[s]) => spc' = [spc EXCEPT ![s] = "leaving"]
  <2>1. ~ isTerminal(seen[s])
    BY <1>1 DEF RelayInv, Shown, Over
  <2>2. CASE Connected(s) /\ e.what # "log"
    <3>1. Show(s, e.what) /\ spc' = [spc EXCEPT ![s] = IF isTerminal(e.what)
                                                 THEN "leaving" ELSE "watching"]
      BY <2>2 DEF RelayEvent
    <3>2. /\ e.what \in Statuses
          /\ e.what \in TerminalStates => Over(Watches[s])
      BY <1>2, <2>2 DEF Own, Settled, Events, Over, DueIsOver
    <3> QED
      BY <3>1, <3>2, ShowIsTruthful
  <2>3. CASE Connected(s) /\ e.what = "log"
    <3>1. UNCHANGED <<seen, client>> /\ spc' = [spc EXCEPT ![s] = "watching"]
      BY <2>3 DEF RelayEvent, isTerminal
    <3> QED
      BY <2>1, <3>1 DEF RelayInv, TypeOK, Shown, Feed!TypeOK, Over
  <2>4. CASE ~ Connected(s)
    <3>1. /\ UNCHANGED <<seen, client>>
          /\ spc' \in {[spc EXCEPT ![s] = "watching"], [spc EXCEPT ![s] = "leaving"]}
      BY <2>4 DEF RelayEvent
    <3> QED
      BY <2>1, <3>1 DEF RelayInv, TypeOK, Shown, Feed!TypeOK, Over
  <2> QED
    BY <2>2, <2>3, <2>4
<1>4. TypeOK'
  <2>1. Tail(chan[s]) \in Seq(Events)
    BY <1>2, SettledAreEvents, SeqMonotonic
  <2>2. chan' \in [Sockets -> Seq(Events)]
    BY <1>1, <2>1 DEF RelayInv, TypeOK, Feed!TypeOK
  <2>3. \A u \in Sockets : Len(chan'[u]) <= BufCap
    BY <1>1, <1>2, RelayConstants DEF RelayInv, TypeOK, Feed!TypeOK
  <2> QED
    BY <1>1, <1>3, <2>2, <2>3 DEF RelayInv, TypeOK, Feed!TypeOK
<1>5. Flow'
  <2>1. ASSUME NEW u \in Sockets PROVE chan'[u] \in Seq(Own(u)')
    BY <1>1, <1>2 DEF RelayInv, Flow, TypeOK, Own, Settled, Feed!TypeOK, Over,
                      DueIsOver
  <2> QED
    BY <1>1, <2>1 DEF RelayInv, Flow, Settled, Over, DueIsOver
<1>6. Registry'
  BY <1>1, <1>3 DEF RelayInv, Registry, Subscribed, TypeOK, Feed!TypeOK
<1>7. ASSUME NEW u \in Sockets PROVE Shown(u)'
  <2>1. client'[u] = "resolved" => Over(Watches[u])'
    BY <1>1, <1>3 DEF Over
  <2>2. CASE u = s
    <3>1. isTerminal(seen'[s]) => spc'[s] = "leaving"
      BY <1>3 DEF RelayInv, TypeOK, Feed!TypeOK
    <3> QED
      BY <2>1, <2>2, <3>1 DEF Shown, Over
  <2>3. CASE u # s
    <3>1. seen'[u] = seen[u] /\ spc'[u] = spc[u]
      BY <1>3, <2>3 DEF RelayInv, TypeOK, Feed!TypeOK
    <3>2. isTerminal(seen[u]) => spc[u] \in {"leaving", "closed"}
      BY DEF RelayInv, Shown, Over
    <3> QED
      BY <2>1, <3>1, <3>2 DEF Shown, isTerminal, Over
  <2> QED
    BY <2>2, <2>3
<1> QED
  BY <1>4, <1>5, <1>6, <1>7 DEF RelayInv

\* A handler that errs shows nothing and leaves its registration as it is.
LEMMA HandlerErrsKeepsInv ==
  ASSUME RelayInv, NEW s \in Sockets, HandlerErrs(s) PROVE RelayInv'
<1>1. /\ UNCHANGED <<row, stage, revoked, lastEvent, relay, conns, hubEvent,
                     hubSubs, seen>>
      /\ client' \in {client, [client EXCEPT ![s] = "rejected"]}
      /\ missed' = missed \cup {s}
  BY DEF HandlerErrs, envVars, hubVars
<1>2. \/ /\ spc[s] = "accepted" /\ spc' = [spc EXCEPT ![s] = "closed"]
         /\ chan' = chan
      \/ /\ spc[s] = "watching" /\ spc' = [spc EXCEPT ![s] = "leaving"]
         /\ chan[s] # <<>> /\ chan' = [chan EXCEPT ![s] = Tail(chan[s])]
  BY DEF HandlerErrs
<1>3. \A u \in Sockets : /\ chan'[u] \in Seq(Own(u))
                         /\ Len(chan'[u]) \in Nat /\ Len(chan'[u]) <= BufCap
  <2>1. \A u \in Sockets : /\ chan[u] \in Seq(Own(u))
                           /\ Len(chan[u]) \in Nat /\ Len(chan[u]) <= BufCap
    BY LenProperties DEF RelayInv, Flow, TypeOK
  <2>2. chan[s] # <<>> => /\ Tail(chan[s]) \in Seq(Own(s))
                          /\ Len(Tail(chan[s])) = Len(chan[s]) - 1
                          /\ Len(chan[s]) \in Nat \ {0}
    BY <2>1, HeadTailStay
  <2>3. BufCap \in Nat
    BY RelayConstants
  <2> QED
    <3> SUFFICES ASSUME NEW u \in Sockets
                 PROVE  /\ chan'[u] \in Seq(Own(u))
                        /\ Len(chan'[u]) \in Nat /\ Len(chan'[u]) <= BufCap
      OBVIOUS
    <3>1. CASE chan'[u] = chan[u]
      BY <2>1, <3>1
    <3>2. CASE u = s /\ chan[s] # <<>> /\ chan'[u] = Tail(chan[s])
      BY <2>1, <2>2, <2>3, <3>2
    <3> QED
      BY <1>2, <3>1, <3>2 DEF RelayInv, TypeOK
<1>4. TypeOK'
  <2>1. \A u \in Sockets : chan'[u] \in Seq(Events)
    BY <1>3, SettledAreEvents, SeqMonotonic
  <2>2. chan' \in [Sockets -> Seq(Events)]
    BY <1>2, <2>1 DEF RelayInv, TypeOK
  <2>3. client' \in [Sockets -> {"none", "waiting", "resolved", "rejected", "left"}]
    BY <1>1 DEF RelayInv, TypeOK
  <2>4. spc' \in [Sockets -> {"none", "accepted", "backfilled", "watching",
                             "leaving", "closed"}]
    BY <1>2 DEF RelayInv, TypeOK
  <2> QED
    BY <1>1, <1>3, <2>2, <2>3, <2>4 DEF RelayInv, TypeOK, Feed!TypeOK
<1>5. Flow'
  BY <1>1, <1>3 DEF RelayInv, Flow, Settled, Own, Over, DueIsOver
<1>6. Registry'
  BY <1>1, <1>2 DEF RelayInv, Registry, Subscribed, TypeOK
<1>7. ASSUME NEW u \in Sockets PROVE Shown(u)'
  <2>1. client'[u] = "resolved" => client[u] = "resolved"
    BY <1>1 DEF RelayInv, TypeOK
  <2>2. spc[u] \in {"leaving", "closed"} => spc'[u] \in {"leaving", "closed"}
    BY <1>2 DEF RelayInv, TypeOK
  <2> QED
    BY <1>1, <2>1, <2>2 DEF RelayInv, Shown, Over, isTerminal
<1> QED
  BY <1>4, <1>5, <1>6, <1>7 DEF RelayInv

LEMMA UnsubscribeKeepsInv ==
  ASSUME RelayInv, NEW s \in Sockets, Unsubscribe(s) PROVE RelayInv'
<1>1. /\ spc[s] = "leaving" /\ spc' = [spc EXCEPT ![s] = "closed"]
      /\ chan' = [chan EXCEPT ![s] = <<>>]
      /\ conns' = [conns EXCEPT ![Watches[s]] = @ \ {s}]
      /\ UNCHANGED <<row, stage, revoked, lastEvent, relay, hubEvent, hubSubs,
                     client, seen,
                     missed>>
  BY DEF Unsubscribe, envVars
<1>2. TypeOK'
  <2>1. <<>> \in Seq(Events) /\ Len(<<>>) = 0
    BY EmptySeq
  <2>2. chan' \in [Sockets -> Seq(Events)] /\ \A u \in Sockets : Len(chan'[u]) <= BufCap
    BY <1>1, <2>1, RelayConstants DEF RelayInv, TypeOK, Feed!TypeOK
  <2> QED
    BY <1>1, <2>2, RelayConstants DEF RelayInv, TypeOK, Feed!TypeOK
<1>3. Flow'
  <2>1. ASSUME NEW u \in Sockets PROVE chan'[u] \in Seq(Own(u)')
    BY <1>1, EmptySeq DEF RelayInv, Flow, TypeOK, Own, Settled, Feed!TypeOK,
                          Over, DueIsOver
  <2> QED
    BY <1>1, <2>1 DEF RelayInv, Flow, Settled, Over, DueIsOver
<1>4. Registry'
  BY <1>1, RelayConstants DEF RelayInv, Registry, Subscribed, TypeOK, Feed!TypeOK
<1>5. ASSUME NEW u \in Sockets PROVE Shown(u)'
  BY <1>1 DEF RelayInv, Shown, TypeOK, Feed!TypeOK, Over
<1> QED
  BY <1>2, <1>3, <1>4, <1>5 DEF RelayInv

-----------------------------------------------------------------------------
\* Every step of the relay is a step of the runs or one they do not see.
LEMMA FeedSteps == RelayInv /\ [Next]_vars => [Feed!Next]_(Feed!vars)
<1> SUFFICES ASSUME RelayInv, [Next]_vars PROVE [Feed!Next]_(Feed!vars)
  OBVIOUS
<1>1. ASSUME NEW j \in Jobs, RunStep(j) PROVE [Feed!Next]_(Feed!vars)
  <2>1. CASE EndStep(j)
    BY <2>1 DEF EndStep, EndRun, Feed!Finish, Feed!RunNext, Feed!Next
  <2>2. CASE PublishLog(j)
    BY <2>2 DEF PublishLog, Feed!vars
  <2> QED
    BY <1>1, <2>1, <2>2
    DEF RunStep, InsertRun, FailRun, StartRun, PublishStatus, WorkerStops,
        Feed!RunNext, Feed!Next
<1>2. CASE CancelRuns \/ ClearRuns
  BY <1>2 DEF CancelRuns, ClearRuns, Feed!Next
<1>3. ASSUME NEW S \in SUBSET revoked, CancelErrs(S) PROVE Feed!Next
  <2>1. S \in SUBSET Jobs
    BY DEF RelayInv, TypeOK, Feed!TypeOK
  <2> QED
    BY <1>3, <2>1 DEF CancelErrs, Feed!Next
<1>4. CASE Restart
  <2> PICK S \in SUBSET Jobs : S = revoked
    BY DEF RelayInv, TypeOK, Feed!TypeOK
  <2>1. Feed!Forget(S)
    BY <1>4 DEF Restart, Feed!Forget
  <2> QED
    BY <2>1 DEF Feed!Next
<1>5. CASE \/ LoseEvent \/ TakeEvent \/ DoneEvent
           \/ \E s \in Sockets : SendEvent(s) \/ Accept(s) \/ SocketStep(s)
                                   \/ HandlerErrs(s) \/ ClientLeaves(s)
           \/ UNCHANGED vars
  BY <1>5 DEF LoseEvent, TakeEvent, DoneEvent, SendEvent, Accept, SocketStep,
              HandlerErrs, Backfill, Subscribe, RelayEvent, Unsubscribe, ClientLeaves, vars,
              envVars, Feed!vars
<1> QED
  BY <1>1, <1>2, <1>3, <1>4, <1>5
  DEF Next, HubStep, SendPanics, ControlPlaneRestarts

LEMMA RelayInvStep == RelayInv /\ [Next]_vars => RelayInv'
<1> SUFFICES ASSUME RelayInv, [Next]_vars PROVE RelayInv'
  OBVIOUS
<1>1. CASE UNCHANGED vars
  BY <1>1 DEF vars, RelayInv, TypeOK, Flow, Registry, Shown, Settled, Own,
              Subscribed, Feed!TypeOK, Over, DueIsOver
<1>2. CASE Next
  <2>1. ASSUME NEW s \in Sockets, SendPanics(s) PROVE RelayInv'
    BY <2>1, RestartKeepsInv DEF SendPanics
  <2>2. CASE ControlPlaneRestarts
    BY <2>2, RestartKeepsInv DEF ControlPlaneRestarts
  <2>3. ASSUME NEW s \in Sockets, SocketStep(s) PROVE RelayInv'
    BY <2>3, BackfillKeepsInv, SubscribeKeepsInv, RelayEventKeepsInv,
       UnsubscribeKeepsInv DEF SocketStep
  <2>4. CASE HubStep
    BY <2>1, <2>4, TakeKeepsInv, SendKeepsInv, DoneKeepsInv DEF HubStep
  <2> QED
    BY <1>2, <2>2, <2>3, <2>4, RunStepKeepsInv, RunsStepKeepsInv, LoseKeepsInv,
       AcceptLeaveKeepsInv, HandlerErrsKeepsInv DEF Next
<1> QED
  BY <1>1, <1>2

\* Events on their way are settled, the registry is exact, and what was shown
\* is true and last (hub.go:42-103, handler.go:34-108).
THEOREM RelayInvariant == Spec => []RelayInv
BY RelayInitInv, RelayInvStep, PTL DEF Spec

\* Whatever the sockets and the Hub do, the runs are those of RunEvents, which
\* the queue implements (QueueKeepsPromise): what is proved of the relay relies
\* on nothing else of the queue (main.py:48-69, jobs_handler.go:166-196).
THEOREM RelayHasFeed == Spec => Feed!Spec
<1>1. Init => Feed!Init
  BY DEF Init
<1> QED
  BY <1>1, FeedSteps, RelayInvariant, PTL DEF Spec, Feed!Spec

\* What becomes of an announcement, and of the announcements given up.
Heard(j) == /\ relay' = Append(relay, Event(j, lastEvent'[j]))
            /\ UNCHANGED <<Rest, missed, logs, faults>>
Lost(S) == /\ missed' = missed \cup WatchersOf(S)
           /\ faults' = faults + 1
           /\ UNCHANGED <<relay, Rest, logs>>

\* The converse: while faults are left to happen and handlers may return any
\* status, the relay takes every step of RunEvents. What is announced is on its
\* way, what is given up is lost to the watchers, and the rest leaves it alone
\* (main.py:48-93, jobs_handler.go:166-196).
THEOREM RelayTakesAnyFeed ==
  ASSUME Outcomes = TerminalStates, faults < MaxFaults
  PROVE
  /\ Feed!CancelAll \/ Feed!Clear => (Quiet => Next)
  /\ \A j \in Jobs :
       /\ \/ Feed!Insert(j) \/ Feed!Fail(j) \/ Feed!Start(j)
          \/ \E st \in Feed!Terminal : Feed!Finish(j, st)
          => (Quiet => Next)
       /\ Feed!AnnounceStart(j) \/ Feed!AnnounceResult(j) \/ Feed!AnnounceCancelled(j)
          => (Heard(j) => Next)
       /\ Feed!Stop(j) => (Lost({j}) => Next)
  /\ \A S \in SUBSET Jobs : S # {} /\ Feed!Forget(S) => (Lost(S) => Next)
<1>1. ASSUME Feed!CancelAll \/ Feed!Clear, Quiet PROVE Next
  BY <1>1 DEF CancelRuns, ClearRuns, Next
<1>2. ASSUME NEW j \in Jobs, Feed!Insert(j) \/ Feed!Fail(j) \/ Feed!Start(j), Quiet
      PROVE  Next
  BY <1>2 DEF InsertRun, FailRun, StartRun, RunStep, Next
<1>3. ASSUME NEW j \in Jobs, NEW st \in Feed!Terminal, Feed!Finish(j, st), Quiet
      PROVE  Next
  <2>1. st \in Outcomes
    BY DEF Feed!Terminal, TerminalStates
  <2> QED
    BY <1>3, <2>1 DEF EndRun, EndStep, RunStep, Next
<1>4. ASSUME NEW j \in Jobs,
             Feed!AnnounceStart(j) \/ Feed!AnnounceResult(j)
               \/ Feed!AnnounceCancelled(j),
             Heard(j)
      PROVE  Next
  BY <1>4 DEF Heard, PublishStatus, RunStep, Next
<1>5. ASSUME NEW j \in Jobs, Feed!Stop(j), Lost({j}) PROVE Next
  BY <1>5 DEF Lost, WorkerStops, Fault, RunStep, Next
<1>6. ASSUME NEW S \in SUBSET Jobs, S # {}, Feed!Forget(S), Lost(S) PROVE Next
  <2>1. S \in SUBSET revoked
    BY <1>6 DEF Feed!Forget
  <2> QED
    BY <1>6, <2>1 DEF Lost, CancelErrs, Fault, Next
<1> QED
  BY <1>1, <1>2, <1>3, <1>4, <1>5, <1>6

\* Channels hold events and no more of them than they can
\* (hub.go:42-52).
THEOREM RelayTyped == Spec => []TypeOK
BY RelayInvariant, PTL DEF RelayInv

\* The registry is exactly the handlers between Subscribe and their deferred
\* unsubscribe, and every channel holds events of its own run
\* (hub.go:42-82).
THEOREM RegistryIsExact == Spec => []RegistryExact
<1>1. RelayInv => RegistryExact
  <2> SUFFICES ASSUME RelayInv, NEW s \in Sockets, NEW i \in DOMAIN chan[s]
               PROVE  chan[s][i].job = Watches[s]
    BY DEF RelayInv, Registry, RegistryExact
  <2>1. chan[s] \in Seq(Own(s))
    BY DEF RelayInv, Flow
  <2>2. chan[s][i] \in Own(s)
    BY <2>1
  <2> QED
    BY <2>2 DEF Own
<1> QED
  BY <1>1, RelayInvariant, PTL

\* The browser's promise resolves only for a run that is over
\* (waitForRunTerminal.ts:20-33).
THEOREM ResolvesTruthfully == Spec => []ResolvedTruthfully
<1>1. RelayInv => ResolvedTruthfully
  <2> SUFFICES ASSUME RelayInv, NEW s \in Sockets, client[s] = "resolved"
               PROVE  row[Watches[s]] \notin Active
    BY DEF ResolvedTruthfully
  <2>1. Over(Watches[s])
    BY DEF RelayInv, Shown
  <2> QED
    BY <2>1 DEF Over, TerminalStates, Active
<1> QED
  BY <1>1, RelayInvariant, PTL

\* A natural result is the last status of its socket
\* (handler.go:57-60, 94-101).
THEOREM ResultStays == Spec => ResultIsLastFrame
<1>1. RelayInv /\ [Next]_vars =>
        [\A s \in Sockets : seen[s] \in {"succeeded", "partial", "failed"}
                              => seen'[s] = seen[s]]_vars
  <2> SUFFICES ASSUME RelayInv, Next, NEW s \in Sockets, isTerminal(seen[s])
               PROVE  seen'[s] = seen[s]
    BY DEF isTerminal
  <2>1. spc[s] \in {"leaving", "closed"}
    BY DEF RelayInv, Shown, Over
  <2>2. seen \in [Sockets -> Statuses \cup {"none"}]
    BY DEF RelayInv, TypeOK, Feed!TypeOK
  <2>3. ASSUME NEW u \in Sockets, SocketStep(u) PROVE seen'[s] = seen[s]
    BY <2>1, <2>2, <2>3
    DEF SocketStep, Backfill, Subscribe, RelayEvent, Unsubscribe, Show
  <2>4. CASE HubStep \/ ControlPlaneRestarts \/ LoseEvent
    BY <2>4 DEF HubStep, TakeEvent, SendEvent, SendPanics, DoneEvent, LoseEvent,
                ControlPlaneRestarts, Restart, socketVars
  <2>5. ASSUME NEW j \in Jobs, RunStep(j) PROVE seen'[s] = seen[s]
    BY <2>5 DEF RunStep, InsertRun, FailRun, StartRun, EndStep, EndRun, WorkerStops,
                PublishLog, PublishStatus, Quiet, Rest, socketVars
  <2>6. CASE CancelRuns \/ ClearRuns \/ \E S \in SUBSET revoked : CancelErrs(S)
    BY <2>6 DEF CancelRuns, ClearRuns, CancelErrs, Quiet, Rest, socketVars
  <2> QED
    BY <2>3, <2>4, <2>5, <2>6 DEF Next, Accept, ClientLeaves, HandlerErrs
<1> QED
  BY <1>1, RelayInvariant, PTL DEF Spec, ResultIsLastFrame
=============================================================================
