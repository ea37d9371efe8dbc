------------------------------ MODULE JobQueue ------------------------------
(***************************************************************************)
(* The job queue: the request handlers of the control-plane that submit,   *)
(* cancel and clear runs, the row each run has in Postgres, the Redis      *)
(* stream with its consumer group, and the one worker that takes jobs from *)
(* it.  An action is one call the code makes to Postgres, Redis or Docker  *)
(* together with the computation around it: between two such calls the     *)
(* other processes run.                                                    *)
(*                                                                         *)
(* A "fault" is a call that errors or a process that dies where the code   *)
(* has a path for it (or has none).  At most MaxFaults happen.             *)
(***************************************************************************)
EXTENDS Integers, Sequences, FiniteSets

CONSTANTS
  Runs,           \* run ids; a run is submitted at most once (bounds the model)
  Unhandled,      \* the runs whose type is missing from the worker's JOB_TABLE
  Cancellers,     \* the requests to cancel-all (bounds the model)
  FreshDeploy,    \* TRUE if the consumer group does not exist initially
  MaxFaults       \* how many faults may happen (bounds the model)

ASSUME JobQueueAssumption ==
  /\ Unhandled \subseteq Runs
  /\ FreshDeploy \in BOOLEAN
  /\ MaxFaults \in Nat

VARIABLES
  row,            \* the status column of the run's row in job_runs
  stream,         \* openscale:jobs:requests: the run of each entry, in order
  group,          \* how many entries were there when the consumer group was
                  \* created behind them, or NoGroup
  cursor,         \* its last-delivered entry
  pel,            \* its entries delivered and not acknowledged
  hpc,            \* the Run handler of each run: the call it is about to make
  told,           \* the status in the response to the submitter
  cpc,            \* the CancelAll handler of each request
  cset,           \* the cancelled runs it has still to announce
  chad,           \* did it cancel a run that was running?
  wpc,            \* the worker: the call it is about to make
  wpos,           \* the entry of the stream it is handling
  wout,           \* the result its handler returned
  lastEvent,      \* the last status published for each run
  starts, ends,   \* history: how often a handler began, and returned a result
  faults          \* the faults so far

dbVars     == <<row, starts, ends>>
redisVars  == <<stream, group, cursor, pel>>
runVars    == <<hpc, told>>
cancelVars == <<cpc, cset, chad>>
workerVars == <<wpc, wpos, wout>>
vars == <<row, stream, group, cursor, pel, hpc, told, cpc, cset, chad,
          wpc, wpos, wout, lastEvent, starts, ends, faults>>

-----------------------------------------------------------------------------
Active   == {"queued", "running"}
Terminal == {"succeeded", "partial", "failed", "cancelled"}

NoGroup == -1

\* The row exists: an UPDATE ... WHERE id = r finds it.
Present(r) == row[r] \in Active \cup Terminal

\* UPDATE ... SET status = s WHERE id = r, without a guard on the status.
Overwrite(r, s) == IF Present(r) THEN [row EXCEPT ![r] = s] ELSE row

\* The run of the entry the worker is handling.
wrun == stream[wpos]

Fault == /\ faults < MaxFaults
         /\ faults' = faults + 1

TypeOK ==
  /\ row \in [Runs -> {"absent", "gone"} \cup Active \cup Terminal]
  /\ stream \in Seq(Runs)
  /\ group \in Nat \cup {NoGroup}
  /\ cursor \in 0..Len(stream)
  /\ pel \subseteq 1..cursor
  /\ hpc \in [Runs -> {"none", "inserted", "failing", "expired",
                       "answered", "aborted"}]
  /\ told \in [Runs -> {"none", "queued", "failed"}]
  /\ cpc \in [Cancellers -> {"none", "publishing", "done", "restarted"}]
  /\ cset \in [Cancellers -> SUBSET Runs]
  /\ chad \in [Cancellers -> BOOLEAN]
  /\ wpc \in {"down", "idle", "got", "started", "executing", "marked",
              "acking", "raised"}
  /\ wpos \in 0..cursor
  /\ wpc \notin {"down", "idle"} => wpos # 0
  /\ wout \in Terminal
  /\ lastEvent \in [Runs -> {"none", "running"} \cup Terminal]
  /\ starts \in [Runs -> Nat]
  /\ ends \in [Runs -> Nat]
  /\ faults \in 0..MaxFaults

Init ==
  /\ row = [r \in Runs |-> "absent"]
  /\ stream = <<>>
  /\ group = IF FreshDeploy THEN NoGroup ELSE 0
  /\ cursor = 0
  /\ pel = {}
  /\ hpc = [r \in Runs |-> "none"]
  /\ told = [r \in Runs |-> "none"]
  /\ cpc = [c \in Cancellers |-> "none"]
  /\ cset = [c \in Cancellers |-> {}]
  /\ chad = [c \in Cancellers |-> FALSE]
  /\ wpc = "down"
  /\ wpos = 0
  /\ wout = "failed"
  /\ lastEvent = [r \in Runs |-> "none"]
  /\ starts = [r \in Runs |-> 0]
  /\ ends = [r \in Runs |-> 0]
  /\ faults = 0

-----------------------------------------------------------------------------
(***************************************************************************)
(* POST /api/jobs/{type}/run.                                              *)
(***************************************************************************)
InsertJobRun(r) ==
  /\ hpc[r] = "none"
  /\ row' = [row EXCEPT ![r] = "queued"]
  /\ hpc' = [hpc EXCEPT ![r] = "inserted"]
  /\ UNCHANGED <<redisVars, told, cancelVars, workerVars, lastEvent,
                 starts, ends, faults>>

\* XADD appends and its reply arrives: the handler answers with the row.
EnqueueJob(r) ==
  /\ hpc[r] = "inserted"
  /\ stream' = Append(stream, r)
  /\ hpc' = [hpc EXCEPT ![r] = "answered"]
  /\ told' = [told EXCEPT ![r] = "queued"]
  /\ UNCHANGED <<dbVars, group, cursor, pel, cancelVars, workerVars,
                 lastEvent, faults>>

\* XADD appends, its reply is lost: go-redis tries again, or gives up.
EnqueueLosesReply(r) ==
  /\ hpc[r] = "inserted"
  /\ Fault
  /\ stream' = Append(stream, r)
  /\ UNCHANGED <<dbVars, group, cursor, pel, runVars, cancelVars, workerVars,
                 lastEvent>>

\* EnqueueJob returns an error while the request's context is still alive ...
EnqueueFails(r) ==
  /\ hpc[r] = "inserted"
  /\ Fault
  /\ hpc' = [hpc EXCEPT ![r] = "failing"]
  /\ UNCHANGED <<dbVars, redisVars, told, cancelVars, workerVars, lastEvent>>

\* ... or because the context ended: its 5 s ran out or the client left.
EnqueueExpires(r) ==
  /\ hpc[r] = "inserted"
  /\ Fault
  /\ hpc' = [hpc EXCEPT ![r] = "expired"]
  /\ UNCHANGED <<dbVars, redisVars, told, cancelVars, workerVars, lastEvent>>

MarkFailed(r) ==
  /\ hpc[r] = "failing"
  /\ row' = Overwrite(r, "failed")
  /\ hpc' = [hpc EXCEPT ![r] = "answered"]
  /\ told' = [told EXCEPT ![r] = "failed"]
  /\ UNCHANGED <<redisVars, cancelVars, workerVars, lastEvent, starts, ends,
                 faults>>

\* MarkFailed uses the same context: once that has ended it cannot succeed.
\* Its error is ignored and the response still says "failed".
MarkFailedErrors(r) ==
  /\ \/ hpc[r] = "expired" /\ UNCHANGED faults
     \/ hpc[r] = "failing" /\ Fault
  /\ hpc' = [hpc EXCEPT ![r] = "answered"]
  /\ told' = [told EXCEPT ![r] = "failed"]
  /\ UNCHANGED <<dbVars, redisVars, cancelVars, workerVars, lastEvent>>

\* The handler does not come to its end: the control-plane is restarted, or
\* the body of the request was the JSON text null and paramsMap is nil.
RunAborts(r) ==
  /\ hpc[r] \in {"inserted", "failing", "expired"}
  /\ Fault
  /\ hpc' = [hpc EXCEPT ![r] = "aborted"]
  /\ UNCHANGED <<dbVars, redisVars, told, cancelVars, workerVars, lastEvent>>

-----------------------------------------------------------------------------
(***************************************************************************)
(* POST /api/jobs/cancel-all and DELETE /api/jobs/runs.                    *)
(***************************************************************************)
\* One transaction: the rows are locked, read and updated by id.
CancelActiveRuns(c) ==
  LET active == {r \in Runs : row[r] \in Active} IN
  /\ cpc[c] = "none"
  /\ row' = [r \in Runs |-> IF r \in active THEN "cancelled" ELSE row[r]]
  /\ cset' = [cset EXCEPT ![c] = active]
  /\ chad' = [chad EXCEPT ![c] = \E r \in active : row[r] = "running"]
  /\ cpc' = [cpc EXCEPT ![c] = "publishing"]
  /\ UNCHANGED <<redisVars, runVars, workerVars, lastEvent, starts, ends,
                 faults>>

PublishCancelled(c) ==
  /\ cpc[c] = "publishing"
  /\ \E r \in cset[c] :
       /\ cset' = [cset EXCEPT ![c] = @ \ {r}]
       /\ lastEvent' = [lastEvent EXCEPT ![r] = "cancelled"]
  /\ UNCHANGED <<dbVars, redisVars, runVars, cpc, chad, workerVars, faults>>

\* The loop is over.  If a run was running the worker's container is
\* restarted: the worker, which ignores SIGTERM as process 1, goes on until it
\* is killed, up to 10 s after the request.
FinishCancelAll(c) ==
  /\ cpc[c] = "publishing"
  /\ cset[c] = {}
  /\ \/ /\ ~chad[c]
        /\ cpc' = [cpc EXCEPT ![c] = "done"]
        /\ UNCHANGED workerVars
     \/ /\ chad[c]
        /\ cpc' = [cpc EXCEPT ![c] = "restarted"]
        /\ wpc' = "down"
        /\ wpos' = 0
        /\ UNCHANGED wout
  /\ UNCHANGED <<dbVars, redisVars, runVars, cset, chad, lastEvent, faults>>

\* One announcement fails, which is ignored; or the 20 s run out, the restart
\* fails or the control-plane dies, and what was not done by then is not done.
CancelAllErrors(c) ==
  /\ cpc[c] = "publishing"
  /\ Fault
  /\ \/ /\ \E r \in cset[c] : cset' = [cset EXCEPT ![c] = @ \ {r}]
        /\ UNCHANGED cpc
     \/ /\ cset' = [cset EXCEPT ![c] = {}]
        /\ cpc' = [cpc EXCEPT ![c] = "done"]
  /\ UNCHANGED <<dbVars, redisVars, runVars, chad, workerVars, lastEvent>>

\* Mutant: only queued rows are kept.
ClearKeepsQueuedOnly ==
  /\ row' = [r \in Runs |-> IF Present(r) /\ row[r] # "queued" THEN "gone"
                                                               ELSE row[r]]
  /\ UNCHANGED <<redisVars, runVars, cancelVars, workerVars, lastEvent,
                 starts, ends, faults>>

ClearTerminalRuns ==
  /\ row' = [r \in Runs |-> IF Present(r) /\ row[r] \notin Active THEN "gone"
                                                                  ELSE row[r]]
  /\ UNCHANGED <<redisVars, runVars, cancelVars, workerVars, lastEvent,
                 starts, ends, faults>>

-----------------------------------------------------------------------------
(***************************************************************************)
(* The worker.                                                             *)
(***************************************************************************)
\* Mutants: the group is moved back to the start of the stream, or on to its
\* end, whenever the worker starts; or an existing group is an error.
WorkerStartsRewinds ==
  /\ wpc = "down"
  /\ wpc' = "idle"
  /\ group' = 0
  /\ cursor' = 0
  /\ UNCHANGED <<dbVars, stream, pel, runVars, cancelVars, wpos, wout,
                 lastEvent, faults>>

WorkerStartsAtEnd ==
  /\ wpc = "down"
  /\ wpc' = "idle"
  /\ group' = IF group = NoGroup THEN Len(stream) ELSE group
  /\ cursor' = Len(stream)
  /\ UNCHANGED <<dbVars, stream, pel, runVars, cancelVars, wpos, wout,
                 lastEvent, faults>>

WorkerStartsBusyGroup ==
  /\ wpc = "down"
  /\ wpc' = IF group = NoGroup THEN "idle" ELSE "down"
  /\ group' = IF group = NoGroup THEN Len(stream) ELSE group
  /\ cursor' = IF group = NoGroup THEN Len(stream) ELSE cursor
  /\ UNCHANGED <<dbVars, stream, pel, runVars, cancelVars, wpos, wout,
                 lastEvent, faults>>

\* Docker starts the container; the group is created at the end of the
\* stream ("$") unless it exists.
WorkerStarts ==
  /\ wpc = "down"
  /\ wpc' = "idle"
  /\ group' = IF group = NoGroup THEN Len(stream) ELSE group
  /\ cursor' = IF group = NoGroup THEN Len(stream) ELSE cursor
  /\ UNCHANGED <<dbVars, stream, pel, runVars, cancelVars, wpos, wout,
                 lastEvent, faults>>

\* XREADGROUP ... ">" delivers the next entry nobody has been given.
ReadMessage ==
  /\ wpc = "idle"
  /\ cursor < Len(stream)
  /\ cursor' = cursor + 1
  /\ pel' = pel \cup {cursor'}
  /\ wpos' = cursor'
  /\ wpc' = "got"
  /\ UNCHANGED <<dbVars, stream, group, runVars, cancelVars, wout, lastEvent,
                 faults>>

\* No handler for the job's type: the run fails, without an event.
RejectUnknown ==
  /\ wpc = "got"
  /\ wrun \in Unhandled
  /\ row' = Overwrite(wrun, "failed")
  /\ wpc' = "acking"
  /\ UNCHANGED <<redisVars, runVars, cancelVars, wpos, wout, lastEvent,
                 starts, ends, faults>>

\* Mutant: the UPDATE has no guard on the status.
MarkRunningUnguarded ==
  /\ wpc = "got"
  /\ wrun \notin Unhandled
  /\ row' = [row EXCEPT ![wrun] = "running"]
  /\ starts' = [starts EXCEPT ![wrun] = @ + 1]
  /\ wpc' = "started"
  /\ UNCHANGED <<redisVars, runVars, cancelVars, wpos, wout, lastEvent,
                 ends, faults>>

\* mark_running changes the row only if it still says "queued".
MarkRunning ==
  /\ wpc = "got"
  /\ wrun \notin Unhandled
  /\ row[wrun] = "queued"
  /\ row' = [row EXCEPT ![wrun] = "running"]
  /\ starts' = [starts EXCEPT ![wrun] = @ + 1]
  /\ wpc' = "started"
  /\ UNCHANGED <<redisVars, runVars, cancelVars, wpos, wout, lastEvent,
                 ends, faults>>

\* mark_running changes no row: the message is skipped.
SkipMessage ==
  /\ wpc = "got"
  /\ wrun \notin Unhandled
  /\ row[wrun] # "queued"
  /\ wpc' = "acking"
  /\ UNCHANGED <<dbVars, redisVars, runVars, cancelVars, wpos, wout,
                 lastEvent, faults>>

PublishRunning ==
  /\ wpc = "started"
  /\ lastEvent' = [lastEvent EXCEPT ![wrun] = "running"]
  /\ wpc' = "executing"
  /\ UNCHANGED <<dbVars, redisVars, runVars, cancelVars, wpos, wout, faults>>

\* Mutant: the UPDATE is guarded, the announcement is not.
MarkTerminalGuarded(s) ==
  /\ wpc = "executing"
  /\ row' = [row EXCEPT ![wrun] = IF @ = "running" THEN s ELSE @]
  /\ ends' = [ends EXCEPT ![wrun] = @ + 1]
  /\ wout' = s
  /\ wpc' = "marked"
  /\ UNCHANGED <<redisVars, runVars, cancelVars, wpos, lastEvent, starts,
                 faults>>

\* The handler returns one of the statuses a handler can return ("cancelled"
\* is replay's) and mark_terminal writes it, whatever the row says.
MarkTerminal(s) ==
  /\ wpc = "executing"
  /\ row' = Overwrite(wrun, s)
  /\ ends' = [ends EXCEPT ![wrun] = @ + 1]
  /\ wout' = s
  /\ wpc' = "marked"
  /\ UNCHANGED <<redisVars, runVars, cancelVars, wpos, lastEvent, starts,
                 faults>>

PublishTerminal ==
  /\ wpc = "marked"
  /\ lastEvent' = [lastEvent EXCEPT ![wrun] = wout]
  /\ wpc' = "acking"
  /\ UNCHANGED <<dbVars, redisVars, runVars, cancelVars, wpos, wout, faults>>

\* An exception leaves handle_message: a lost connection, or an error the
\* handler does not turn into a status.
WorkerRaises ==
  /\ wpc \in {"got", "started", "executing", "marked"}
  /\ Fault
  /\ wpc' = "raised"
  /\ UNCHANGED <<dbVars, redisVars, runVars, cancelVars, wpos, wout,
                 lastEvent>>

\* The message is acknowledged in every case; after an exception the process
\* then ends.
AckMessage ==
  /\ wpc \in {"acking", "raised"}
  /\ pel' = pel \ {wpos}
  /\ wpos' = 0
  /\ wpc' = IF wpc = "acking" THEN "idle" ELSE "down"
  /\ UNCHANGED <<dbVars, stream, group, cursor, runVars, cancelVars, wout,
                 lastEvent, faults>>

\* The process dies without acknowledging: out of memory, or an error in
\* XREADGROUP or XACK.
WorkerDies ==
  /\ wpc # "down"
  /\ Fault
  /\ wpc' = "down"
  /\ wpos' = 0
  /\ UNCHANGED <<dbVars, redisVars, runVars, cancelVars, wout, lastEvent>>

-----------------------------------------------------------------------------
RunStep(r) == EnqueueJob(r) \/ MarkFailed(r) \/ MarkFailedErrors(r)

CancelStep(c) == PublishCancelled(c) \/ FinishCancelAll(c)

WorkerStep ==
  \/ WorkerStarts \/ ReadMessage
  \/ RejectUnknown \/ MarkRunning \/ SkipMessage
  \/ PublishRunning \/ (\E s \in Terminal : MarkTerminal(s)) \/ PublishTerminal
  \/ AckMessage

Next ==
  \/ \E r \in Runs : \/ InsertJobRun(r) \/ RunStep(r)
                     \/ EnqueueLosesReply(r) \/ EnqueueFails(r)
                     \/ EnqueueExpires(r) \/ RunAborts(r)
  \/ \E c \in Cancellers : \/ CancelActiveRuns(c) \/ CancelStep(c)
                           \/ CancelAllErrors(c)
  \/ ClearTerminalRuns
  \/ WorkerStep \/ WorkerRaises \/ WorkerDies

Spec == Init /\ [][Next]_vars

(***************************************************************************)
(* A request handler that has been entered goes on (it is a goroutine, and *)
(* every call it makes ends with its context).  The worker goes on, is     *)
(* started again whenever it ends (restart: unless-stopped), and its       *)
(* handlers return.  Nobody is obliged to submit, cancel or clear, and no  *)
(* fault is obliged to happen.                                             *)
(***************************************************************************)
Fairness ==
  /\ \A r \in Runs : WF_vars(RunStep(r))
  /\ \A c \in Cancellers : WF_vars(CancelStep(c))
  /\ WF_vars(WorkerStep)

FairSpec == Spec /\ Fairness

-----------------------------------------------------------------------------
(***************************************************************************)
(* Properties.                                                             *)
(***************************************************************************)
\* The worker has r in hand and will still write its row.
InHand(r) == /\ wpc \in {"got", "started", "executing"}
             /\ wrun = r

\* An entry of r is still to be delivered.
Undelivered(r) == \E i \in (cursor + 1)..Len(stream) : stream[i] = r

\* The row says that r is active, but no process is left that would ever
\* write it.
Stranded(r) ==
  \/ /\ row[r] = "queued"
     /\ hpc[r] \in {"answered", "aborted"}
     /\ ~Undelivered(r)
     /\ ~InHand(r)
  \/ /\ row[r] = "running"
     /\ hpc[r] # "failing"
     /\ ~InHand(r)

\* A run's handler is executed at most once, although its entry may be in
\* the stream twice, its delivery may be interrupted, and its row may be
\* rewritten by three processes (the guard of mark_running).
AtMostOnce == \A r \in Runs : starts[r] <= 1

\* Why: a row exists once its request has inserted it; it never returns to
\* "queued" once its handler has begun; only the one result of the handler
\* makes it "succeeded" or "partial"; and the worker executes a handler only
\* for a run that began once, has not ended, and whose row a canceller, a
\* submitter or a clear may have changed meanwhile, but no other result.
LifeInv ==
  /\ \A r \in Runs :
       /\ hpc[r] = "none" <=> row[r] = "absent"
       /\ row[r] \in {"absent", "queued"} \/ r \in Unhandled => starts[r] = 0
       /\ starts[r] <= 1
       /\ ends[r] <= starts[r]
       /\ row[r] \in {"succeeded", "partial"} => ends[r] = 1
  /\ wpc \in {"started", "executing"} =>
       /\ starts[wrun] = 1
       /\ ends[wrun] = 0
       /\ row[wrun] \in {"running", "cancelled", "failed", "gone"}

\* The events follow the rows: nothing is published for a run whose row still
\* says "queued", and a client told of a natural result finds that result in
\* the row, unless a clear has deleted it or the submitter's "failed" has
\* replaced it since.
EventsFollowRow == \A r \in Runs :
  /\ lastEvent[r] # "none" => row[r] \notin {"absent", "queued"}
  /\ lastEvent[r] \in {"succeeded", "partial"} =>
       \/ row[r] \in {lastEvent[r], "gone"}
       \/ row[r] = "failed" /\ told[r] = "failed"

\* Kills of the worker by cancel-all.
Restarts == Cardinality({c \in Cancellers : cpc[c] = "restarted"})

\* One fault, or one restart of the worker by cancel-all, strands at most one
\* run in "queued" or "running" and leaves at most one entry pending that is in
\* nobody's hand: the queue never loses the rest of its backlog. What was
\* enqueued before the group was created is the exception.
Skipped(r) == \E i \in 1..group : stream[i] = r

BlastRadius ==
  /\ Cardinality({r \in Runs : Stranded(r) /\ ~Skipped(r)}) <= faults + Restarts
  /\ Cardinality(pel \ {wpos}) <= faults + Restarts

\* A run cancelled or failed before the worker took it up is never started,
\* and a natural result in a row is only ever replaced by the "failed" of a
\* submitter whose enqueueing errored.
SettledStays == [][\A r \in Runs :
  /\ (row[r] \in Terminal /\ starts[r] = 0) => starts'[r] = 0
  /\ (row[r] \in {"succeeded", "partial"} /\ row'[r] # row[r]) =>
       row'[r] = "gone" \/ hpc[r] = "failing"]_vars

\* Every active run ends, or is one of those a fault has stranded.
EveryRunSettles == \A r \in Runs :
  row[r] \in Active ~> (row[r] \notin Active \/ Stranded(r))

-----------------------------------------------------------------------------
\* JobRuns, with what it hides computed from the processes' states.
Promise == INSTANCE JobRuns WITH
  status <- row,
  ran    <- {r \in Runs : starts[r] > 0},
  ended  <- {r \in Runs : ends[r] > 0},
  unsure <- {r \in Runs : hpc[r] \in {"failing", "expired"}}

\* RunEvents: the worker's place in handle_message, and what the cancel-alls
\* have left to announce.
Stage == [r \in Runs |->
  IF wpc \in {"started", "executing", "marked"} /\ r = wrun
  THEN CASE wpc = "started"   -> "running"
         [] wpc = "executing" -> "busy"
         [] wpc = "marked"    -> wout
  ELSE "none"]

Feed == INSTANCE RunEvents WITH
  stage   <- Stage,
  revoked <- UNION {cset[c] : c \in Cancellers}

\* The queue keeps what it promises: the rows only go through the statuses that
\* JobRuns allows, and every event follows the write it announces as RunEvents,
\* which the watchers rely on, has it.
PromiseKept == Promise!Spec /\ Feed!Spec
=============================================================================
