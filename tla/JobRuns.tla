------------------------------ MODULE JobRuns ------------------------------
(***************************************************************************)
(* What the system of record promises about one run of a job, with the     *)
(* stream, the worker and the request handlers hidden: the statuses a row  *)
(* of control_plane.job_runs goes through, and which step may replace      *)
(* which status.  JobQueue is shown to implement this specification.       *)
(***************************************************************************)

CONSTANT Runs       \* the ids Postgres generates for job runs

VARIABLES
  status,           \* the status column of each run's row
  ran,              \* the runs whose handler the worker has begun
  ended,            \* those of them whose handler has returned a result
  unsure            \* the runs whose enqueueing was reported as an error

vars == <<status, ran, ended, unsure>>

\* jobs.Status
Active    == {"queued", "running"}
Natural   == {"succeeded", "partial", "failed"}
Terminal  == Natural \cup {"cancelled"}
\* "absent": no row yet; "gone": the row was deleted by "clear history".
Statuses  == {"absent", "gone"} \cup Active \cup Terminal

Present(r) == status[r] \in Active \cup Terminal

TypeOK ==
  /\ status \in [Runs -> Statuses]
  /\ ran \in SUBSET Runs
  /\ ended \in SUBSET ran
  /\ unsure \in SUBSET Runs

Init ==
  /\ status = [r \in Runs |-> "absent"]
  /\ ran = {}
  /\ ended = {}
  /\ unsure = {}

\* A new row, as InsertJobRun leaves it.
Submit(r) ==
  /\ status[r] = "absent"
  /\ status' = [status EXCEPT ![r] = "queued"]
  /\ UNCHANGED <<ran, ended, unsure>>

\* The submitter is told that the run could not be enqueued.
Doubt(r) ==
  /\ status[r] # "absent"
  /\ unsure' = unsure \cup {r}
  /\ UNCHANGED <<status, ran, ended>>

\* The outcome of that failure: the row is marked failed, whatever it said,
\* or it stays as it was.
Disown(r) ==
  /\ r \in unsure
  /\ unsure' = unsure \ {r}
  /\ \/ /\ Present(r)
        /\ status' = [status EXCEPT ![r] = "failed"]
     \/ UNCHANGED status
  /\ UNCHANGED <<ran, ended>>

\* The worker starts a run at most once, and only from "queued".
Start(r) ==
  /\ status[r] = "queued"
  /\ r \notin ran
  /\ status' = [status EXCEPT ![r] = "running"]
  /\ ran' = ran \cup {r}
  /\ UNCHANGED <<ended, unsure>>

\* A run that has started ends with the one result its handler returns.  It
\* also replaces a "cancelled" (the worker was not stopped in time) or a
\* "failed" (the submitter was wrong about the enqueueing), and is lost when
\* the row is gone.
Finish(r, s) ==
  /\ r \in ran \ ended
  /\ s \in Terminal
  /\ ended' = ended \cup {r}
  /\ \/ /\ status[r] \in {"running", "cancelled", "failed"}
        /\ status' = [status EXCEPT ![r] = s]
     \/ /\ status[r] = "gone"
        /\ UNCHANGED status
  /\ UNCHANGED <<ran, unsure>>

\* A worker without a handler for the job's type fails the run.
Reject(r) ==
  /\ Present(r)
  /\ r \notin ran
  /\ status' = [status EXCEPT ![r] = "failed"]
  /\ UNCHANGED <<ran, ended, unsure>>

\* Every active run is cancelled at once.
CancelAll ==
  /\ status' = [r \in Runs |-> IF status[r] \in Active THEN "cancelled"
                                                       ELSE status[r]]
  /\ UNCHANGED <<ran, ended, unsure>>

\* Only runs that have ended are ever deleted.
Clear ==
  /\ status' = [r \in Runs |-> IF status[r] \in Terminal THEN "gone"
                                                         ELSE status[r]]
  /\ UNCHANGED <<ran, ended, unsure>>

Next ==
  \/ \E r \in Runs : \/ Submit(r) \/ Doubt(r) \/ Disown(r)
                     \/ Start(r) \/ Reject(r)
                     \/ \E s \in Terminal : Finish(r, s)
  \/ CancelAll
  \/ Clear

Spec == Init /\ [][Next]_vars
=============================================================================
