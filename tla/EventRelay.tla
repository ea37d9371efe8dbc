----------------------------- MODULE EventRelay -----------------------------
(***************************************************************************)
(* The live relay of job events: Redis pub/sub, the control-plane's Hub,   *)
(* the handler of each WebSocket with its channel of the Hub, and at the   *)
(* other end the browser's waitForRunTerminal or useJobRunEvents.          *)
(*                                                                         *)
(* The runs themselves are an environment, RunEvents: rows are written     *)
(* first and announced after it, as JobQueue's processes do.               *)
(***************************************************************************)
EXTENDS Naturals, Sequences, FiniteSets

CONSTANTS
  Jobs,           \* the runs
  Sockets,        \* the WebSocket connections, each opened at most once
  Watches,        \* the run each socket is opened for
  Panels,         \* the sockets of useJobRunEvents, which stays connected; the
                  \* others are waitForRunTerminal's, which does not
  Outcomes,       \* the statuses handlers return in this instance
  BufCap,         \* capacity of a subscriber's channel (16 in the code)
  MaxLogs,        \* how many log lines are published (bounds the model)
  MaxFaults       \* how many faults happen (bounds the model)

ASSUME EventRelayAssumption ==
  /\ Watches \in [Sockets -> Jobs]
  /\ Panels \subseteq Sockets
  /\ Outcomes \subseteq {"succeeded", "partial", "failed", "cancelled"}
  /\ BufCap \in Nat \ {0}
  /\ MaxLogs \in Nat
  /\ MaxFaults \in Nat

VARIABLES
  row,            \* the status of each run in Postgres
  stage,          \* how far the worker has come with each run: RunEvents
  revoked,        \* the runs a cancel-all has still to announce
  lastEvent,      \* the last status published for each run
  relay,          \* events published and not yet taken by Hub.Run
  conns,          \* Hub.conns: the subscribed sockets of each run
  hubEvent,       \* the event Hub.Run is fanning out, or NoEvent
  hubSubs,        \* the subscribers of its snapshot it has still to serve
  spc,            \* HandleJobWS of each socket: the call it is about to make
  chan,           \* the buffered events of each socket's channel
  client,         \* the browser's end: connected and waiting, or no longer
  seen,           \* the last status the browser has been shown
  missed,         \* history: sockets an event was lost for
  panics,         \* how often the process died in Hub.Run
  logs, faults    \* counters

envVars    == <<row, stage, revoked, lastEvent, logs>>
hubVars    == <<conns, hubEvent, hubSubs>>
socketVars == <<spc, chan, client, seen>>
vars == <<row, stage, revoked, lastEvent, relay, conns, hubEvent, hubSubs, spc,
          chan, client, seen, missed, panics, logs, faults>>

\* The runs, as a listener may rely on them.
Feed == INSTANCE RunEvents WITH Runs <- Jobs

-----------------------------------------------------------------------------
Active    == {"queued", "running"}
Statuses  == Active \cup {"succeeded", "partial", "failed", "cancelled"}

\* Mutant: one more status is forgotten.
isTerminalForgets(st) == st \in {"partial", "failed"}

\* ws.isTerminal, which does not list "cancelled".
isTerminal(st) == st \in {"succeeded", "partial", "failed"}

\* TERMINAL_STATES of the browser.
TerminalStates == {"succeeded", "partial", "failed", "cancelled"}

\* A status event carries the status, a log event carries "log".
Events  == [job : Jobs, what : Statuses \cup {"log"}]
NoEvent == [job |-> "none", what |-> "none"]

\* The channel of a socket is open and registered in the Hub.
Subscribed(s) == spc[s] \in {"watching", "leaving"}

TypeOK ==
  /\ Feed!TypeOK
  /\ relay \in Seq(Events)
  /\ conns \in [Jobs -> SUBSET Sockets]
  /\ hubEvent \in Events \cup {NoEvent}
  /\ hubSubs \subseteq Sockets
  /\ spc \in [Sockets -> {"none", "accepted", "backfilled", "watching",
                          "leaving", "closed"}]
  /\ chan \in [Sockets -> Seq(Events)]
  /\ \A s \in Sockets : Len(chan[s]) <= BufCap
  /\ client \in [Sockets -> {"none", "waiting", "resolved", "rejected", "left"}]
  /\ seen \in [Sockets -> Statuses \cup {"none"}]
  /\ missed \subseteq Sockets

Init ==
  /\ Feed!Init
  /\ relay = <<>>
  /\ conns = [j \in Jobs |-> {}]
  /\ hubEvent = NoEvent
  /\ hubSubs = {}
  /\ spc = [s \in Sockets |-> "none"]
  /\ chan = [s \in Sockets |-> <<>>]
  /\ client = [s \in Sockets |-> "none"]
  /\ seen = [s \in Sockets |-> "none"]
  /\ missed = {}
  /\ panics = 0
  /\ logs = 0
  /\ faults = 0

-----------------------------------------------------------------------------
(***************************************************************************)
(* The runs: the steps of RunEvents, and what an event becomes that is     *)
(* published, or lost with the process that had to publish it.             *)
(***************************************************************************)
Event(j, what) == [job |-> j, what |-> what]
Rest == <<hubVars, socketVars, panics>>

WatchersOf(S) == {s \in Sockets : Watches[s] \in S}

Quiet == UNCHANGED <<relay, Rest, missed, logs, faults>>

Fault == /\ faults < MaxFaults
         /\ faults' = faults + 1

InsertRun(j) == Feed!Insert(j) /\ Quiet
FailRun(j)   == Feed!Fail(j) /\ Quiet
StartRun(j)  == Feed!Start(j) /\ Quiet

\* Mutant: the result is announced, and the row not yet written.
EndRunAnnouncesFirst(j, st) ==
  /\ stage[j] = "busy"
  /\ stage' = [stage EXCEPT ![j] = st]
  /\ UNCHANGED <<row, revoked, lastEvent>>
  /\ Quiet

EndRun(j, st) == Feed!Finish(j, st) /\ Quiet

\* PUBLISH: the event is on its way to the control-plane.
PublishStatus(j) ==
  /\ Feed!AnnounceStart(j) \/ Feed!AnnounceResult(j) \/ Feed!AnnounceCancelled(j)
  /\ relay' = Append(relay, Event(j, lastEvent'[j]))
  /\ UNCHANGED <<Rest, missed, logs, faults>>

PublishLog(j) ==
  /\ stage[j] = "busy"
  /\ logs < MaxLogs
  /\ logs' = logs + 1
  /\ relay' = Append(relay, Event(j, "log"))
  /\ UNCHANGED <<row, stage, revoked, lastEvent, Rest, missed, faults>>

\* The worker is restarted by a cancel-all, or ends of itself: what it had
\* still to publish of the run is lost.
WorkerStops(j) ==
  /\ Feed!Stop(j)
  /\ \/ row[j] \in {"cancelled", "gone"} /\ UNCHANGED faults
     \/ Fault
  /\ missed' = missed \cup WatchersOf({j})
  /\ UNCHANGED <<relay, Rest, logs>>

CancelRuns == Feed!CancelAll /\ Quiet

\* The 20 s of a cancel-all run out, or the control-plane ends.
CancelErrs(S) ==
  /\ S # {}
  /\ Feed!Forget(S)
  /\ Fault
  /\ missed' = missed \cup WatchersOf(S)
  /\ UNCHANGED <<relay, Rest, logs>>

ClearRuns == Feed!Clear /\ Quiet

\* Pub/sub keeps nothing for a subscriber that is reconnecting.
LoseEvent ==
  /\ relay # <<>>
  /\ Fault
  /\ relay' = Tail(relay)
  /\ missed' = missed \cup WatchersOf({Head(relay).job})
  /\ UNCHANGED <<envVars, hubVars, socketVars, panics>>

-----------------------------------------------------------------------------
(***************************************************************************)
(* Hub.Run.                                                                *)
(***************************************************************************)
\* The subscribers are copied under the lock ...
TakeEvent ==
  /\ hubEvent = NoEvent
  /\ relay # <<>>
  /\ hubEvent' = Head(relay)
  /\ hubSubs' = conns[Head(relay).job]
  /\ relay' = Tail(relay)
  /\ UNCHANGED <<envVars, conns, socketVars, missed, panics, faults>>

\* Mutant: the channel has no bound.
SendEventUnbounded(s) ==
  /\ s \in hubSubs
  /\ Subscribed(s)
  /\ hubSubs' = hubSubs \ {s}
  /\ chan' = [chan EXCEPT ![s] = Append(@, hubEvent)]
  /\ UNCHANGED <<envVars, relay, conns, hubEvent, spc, client, seen, missed,
                 panics, faults>>

\* ... and served without it: a full channel drops the event.
SendEvent(s) ==
  /\ s \in hubSubs
  /\ Subscribed(s)
  /\ hubSubs' = hubSubs \ {s}
  /\ IF Len(chan[s]) < BufCap
     THEN /\ chan' = [chan EXCEPT ![s] = Append(@, hubEvent)]
          /\ UNCHANGED missed
     ELSE /\ missed' = missed \cup {s}
          /\ UNCHANGED chan
  /\ UNCHANGED <<envVars, relay, conns, hubEvent, spc, client, seen, panics,
                 faults>>

DoneEvent ==
  /\ hubEvent # NoEvent
  /\ hubSubs = {}
  /\ hubEvent' = NoEvent
  /\ UNCHANGED <<envVars, relay, conns, hubSubs, socketVars, missed, panics,
                 faults>>

\* The process is gone and started again: what it held is lost, and what it had
\* still to announce of a cancel-all too.  The browser may or may not see the
\* broken connection as an error.
Restart ==
  /\ \E broken \in SUBSET {s \in Sockets : client[s] = "waiting"} :
       client' = [s \in Sockets |-> IF s \in broken THEN "rejected" ELSE client[s]]
  /\ relay' = <<>>
  /\ conns' = [j \in Jobs |-> {}]
  /\ hubEvent' = NoEvent
  /\ hubSubs' = {}
  /\ spc' = [s \in Sockets |-> IF spc[s] = "none" THEN "none" ELSE "closed"]
  /\ chan' = [s \in Sockets |-> <<>>]
  /\ missed' = missed \cup {s \in Sockets : spc[s] # "none"}
  /\ Feed!Forget(revoked)
  /\ UNCHANGED <<logs, seen>>

\* A channel of the snapshot has been closed since: the send panics.
SendPanics(s) ==
  /\ s \in hubSubs
  /\ ~Subscribed(s)
  /\ panics' = panics + 1
  /\ Restart
  /\ UNCHANGED faults

ControlPlaneRestarts ==
  /\ Fault
  /\ Restart
  /\ UNCHANGED panics

-----------------------------------------------------------------------------
(***************************************************************************)
(* HandleJobWS and the browser behind it.  A frame that is written is      *)
(* shown at once; one written to a browser that has left may still seem to *)
(* be written.                                                             *)
(***************************************************************************)
Connected(s) == client[s] = "waiting"

\* What a status does: it is shown, and waitForRunTerminal resolves on a
\* terminal one and closes the socket.
Show(s, st) ==
  /\ seen' = [seen EXCEPT ![s] = st]
  /\ IF st \in TerminalStates /\ s \notin Panels
     THEN client' = [client EXCEPT ![s] = "resolved"]
     ELSE UNCHANGED client

\* The upgrade succeeds; the browser waits for frames. It learned of the run
\* from an answer, so the row has been there.
Accept(s) ==
  /\ row[Watches[s]] # "absent"
  /\ spc[s] = "none"
  /\ client[s] = "none"
  /\ spc' = [spc EXCEPT ![s] = "accepted"]
  /\ client' = [client EXCEPT ![s] = "waiting"]
  /\ UNCHANGED <<envVars, relay, hubVars, chan, seen, missed, panics, faults>>

\* GetJobRun and the backfill frame.  A missing row, a terminal status or a
\* failed write ends the handler, which has nothing to unsubscribe yet.
Backfill(s) ==
  LET st == row[Watches[s]] IN
  /\ spc[s] = "accepted"
  /\ \/ /\ st \in Statuses
        /\ Connected(s)
        /\ Show(s, st)
        /\ spc' = [spc EXCEPT ![s] = IF isTerminal(st) THEN "closed"
                                                       ELSE "backfilled"]
     \/ /\ st \in Statuses
        /\ ~Connected(s)
        /\ \E next \in IF isTerminal(st) THEN {"closed"}
                                       ELSE {"closed", "backfilled"} :
             spc' = [spc EXCEPT ![s] = next]
        /\ UNCHANGED <<seen, client>>
     \/ /\ st \notin Statuses
        /\ spc' = [spc EXCEPT ![s] = "closed"]
        /\ UNCHANGED <<seen, client>>
  /\ UNCHANGED <<envVars, relay, hubVars, chan, missed, panics, faults>>

Subscribe(s) ==
  /\ spc[s] = "backfilled"
  /\ spc' = [spc EXCEPT ![s] = "watching"]
  /\ conns' = [conns EXCEPT ![Watches[s]] = @ \cup {s}]
  /\ UNCHANGED <<envVars, relay, hubEvent, hubSubs, chan, client, seen,
                 missed, panics, faults>>

\* Mutant: the handler goes on after a terminal status.
RelayEventGoesOn(s) ==
  /\ spc[s] = "watching"
  /\ chan[s] # <<>>
  /\ chan' = [chan EXCEPT ![s] = Tail(@)]
  /\ \/ /\ Connected(s)
        /\ IF Head(chan[s]).what = "log" THEN UNCHANGED <<seen, client>>
                                         ELSE Show(s, Head(chan[s]).what)
        /\ UNCHANGED spc
     \/ /\ ~Connected(s)
        /\ \E pc \in {"leaving", "watching"} : spc' = [spc EXCEPT ![s] = pc]
        /\ UNCHANGED <<seen, client>>
  /\ UNCHANGED <<envVars, relay, hubVars, missed, panics, faults>>

\* An event is taken from the channel and written.  After a terminal status,
\* or when the write fails, the handler returns.
RelayEvent(s) ==
  LET e    == Head(chan[s])
      next == IF isTerminal(e.what) THEN "leaving" ELSE "watching" IN
  /\ spc[s] = "watching"
  /\ chan[s] # <<>>
  /\ chan' = [chan EXCEPT ![s] = Tail(@)]
  /\ \/ /\ Connected(s)
        /\ IF e.what = "log" THEN UNCHANGED <<seen, client>> ELSE Show(s, e.what)
        /\ spc' = [spc EXCEPT ![s] = next]
     \/ /\ ~Connected(s)
        /\ \E pc \in {"leaving", next} : spc' = [spc EXCEPT ![s] = pc]
        /\ UNCHANGED <<seen, client>>
  /\ UNCHANGED <<envVars, relay, hubVars, missed, panics, faults>>

\* Mutant: the channel is closed and stays in conns.
UnsubscribeForgets(s) ==
  /\ spc[s] = "leaving"
  /\ spc' = [spc EXCEPT ![s] = "closed"]
  /\ chan' = [chan EXCEPT ![s] = <<>>]
  /\ UNCHANGED <<envVars, relay, hubVars, client, seen, missed, panics, faults>>

\* The deferred unsubscribe: under the lock the channel is taken out of conns
\* and closed.
Unsubscribe(s) ==
  /\ spc[s] = "leaving"
  /\ spc' = [spc EXCEPT ![s] = "closed"]
  /\ chan' = [chan EXCEPT ![s] = <<>>]
  /\ conns' = [conns EXCEPT ![Watches[s]] = @ \ {s}]
  /\ UNCHANGED <<envVars, relay, hubEvent, hubSubs, client, seen, missed,
                 panics, faults>>

\* The record cannot be read, or a frame cannot be written within its 5 s,
\* although the browser is there: the handler returns. The browser may or may
\* not see the closed connection as an error.
HandlerErrs(s) ==
  /\ Connected(s)
  /\ Fault
  /\ \/ /\ spc[s] = "accepted"
        /\ spc' = [spc EXCEPT ![s] = "closed"]
        /\ UNCHANGED chan
     \/ /\ spc[s] = "watching"
        /\ chan[s] # <<>>
        /\ spc' = [spc EXCEPT ![s] = "leaving"]
        /\ chan' = [chan EXCEPT ![s] = Tail(@)]
  /\ client' \in {client, [client EXCEPT ![s] = "rejected"]}
  /\ missed' = missed \cup {s}
  /\ UNCHANGED <<envVars, relay, hubVars, seen, panics>>

\* The tab is closed.  Nothing reads from the connection, and the context of a
\* hijacked request is not cancelled: only a later write can tell the handler.
ClientLeaves(s) ==
  /\ client[s] = "waiting"
  /\ client' = [client EXCEPT ![s] = "left"]
  /\ UNCHANGED <<envVars, relay, hubVars, spc, chan, seen, missed, panics,
                 faults>>

-----------------------------------------------------------------------------
\* What a worker does with a run it has in hand.
EndStep(j) == \E st \in Outcomes : EndRun(j, st)

RunStep(j) ==
  \/ InsertRun(j) \/ FailRun(j) \/ StartRun(j) \/ EndStep(j)
  \/ PublishStatus(j) \/ PublishLog(j) \/ WorkerStops(j)

HubStep ==
  \/ TakeEvent
  \/ \E s \in Sockets : SendEvent(s) \/ SendPanics(s)
  \/ DoneEvent

SocketStep(s) == Backfill(s) \/ Subscribe(s) \/ RelayEvent(s) \/ Unsubscribe(s)

Next ==
  \/ \E j \in Jobs : RunStep(j)
  \/ CancelRuns \/ ClearRuns
  \/ \E S \in SUBSET revoked : CancelErrs(S)
  \/ LoseEvent
  \/ HubStep
  \/ ControlPlaneRestarts
  \/ \E s \in Sockets : Accept(s) \/ SocketStep(s) \/ HandlerErrs(s) \/ ClientLeaves(s)

Spec == Init /\ [][Next]_vars

(***************************************************************************)
(* The Hub's goroutine and every handler go on; a job's handler returns,   *)
(* and what is written is published unless its process ends.  A run may    *)
(* stay queued, and nobody has to cancel, to clear or to leave.            *)
(***************************************************************************)
Fairness ==
  /\ \A j \in Jobs : WF_vars(EndStep(j)) /\ WF_vars(PublishStatus(j))
  /\ WF_vars(HubStep)
  /\ \A s \in Sockets : WF_vars(SocketStep(s))

FairSpec == Spec /\ Fairness

-----------------------------------------------------------------------------
(***************************************************************************)
(* Properties.                                                             *)
(***************************************************************************)
\* The Hub's registry is exactly the handlers between Subscribe and their
\* deferred unsubscribe, so neither a returned handler nor a restarted process
\* leaves a channel behind, and what Hub.Run has in hand is of one run only.
RegistryExact ==
  /\ \A j \in Jobs :
       conns[j] = {s \in Sockets : Subscribed(s) /\ Watches[s] = j}
  /\ \A s \in Sockets :
       /\ \A i \in DOMAIN chan[s] : chan[s][i].job = Watches[s]
       /\ s \in hubSubs => Watches[s] = hubEvent.job

\* The browser's promise resolves only for a run that is no longer active in
\* the record, however late its frame is.
ResolvedTruthfully == \A s \in Sockets :
  client[s] = "resolved" => row[Watches[s]] \notin Active

\* The frame with a natural result is the last one: a browser that was shown
\* it is never shown another status on that socket, although the canceller's
\* event may follow the worker's.
ResultIsLastFrame == [][\A s \in Sockets :
  seen[s] \in {"succeeded", "partial", "failed"} => seen'[s] = seen[s]]_vars

\* A handler that is subscribed while its run is running, and for which no
\* event was lost, returns once the run has a natural result.
WatcherReturns == \A s \in Sockets :
  (spc[s] = "watching" /\ row[Watches[s]] = "running") ~>
    (spc[s] = "closed" \/ s \in missed \/ row[Watches[s]] \in {"cancelled", "gone"})

(***************************************************************************)
(* Claims of the repository's comments and docs that the code does not     *)
(* meet: each is refuted by a run of its own.                              *)
(***************************************************************************)
\* hub.go:12-13: the Hub is "Safe for concurrent use".
SafeForConcurrentUse == panics = 0

\* The run has ended, its record says how, and so does the last event.
EndAnnounced(j) == row[j] \in TerminalStates /\ lastEvent[j] = row[j]

\* waitForRunTerminal.ts:7-8: it "resolves once it reaches a terminal state".
\* This asks it only of an end that was announced and is not replaced or cleared
\* in the record afterwards, and of a socket no event was lost for.
WaiterResolves == \A s \in Sockets : s \notin Panels =>
  (client[s] = "waiting" /\ EndAnnounced(Watches[s]))
     ~> (client[s] # "waiting" \/ ~ EndAnnounced(Watches[s]) \/ s \in missed)
=============================================================================
