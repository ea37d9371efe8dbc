----------------------------- MODULE RunEvents -----------------------------
(***************************************************************************)
(* What whoever watches a run may rely on: the record is written first,    *)
(* and the event that announces it is published after it, or never.  The   *)
(* stream, the requests and the number of workers are hidden.  JobQueue    *)
(* implements this specification, and EventRelay has it for its            *)
(* environment.                                                            *)
(***************************************************************************)

CONSTANT Runs       \* the ids Postgres generates for job runs

VARIABLES
  row,              \* the status column of each run's row
  stage,            \* how far a worker that has the run in hand has come:
                    \* a status it has written and not announced, "busy" while
                    \* the handler executes, or "none"
  revoked,          \* the runs a cancel-all has still to announce
  lastEvent         \* the last status published for each run

vars == <<row, stage, revoked, lastEvent>>

Active   == {"queued", "running"}
Terminal == {"succeeded", "partial", "failed", "cancelled"}
\* "absent": no row yet; "gone": the row was deleted by "clear history".
Statuses == {"absent", "gone"} \cup Active \cup Terminal

TypeOK ==
  /\ row \in [Runs -> Statuses]
  /\ stage \in [Runs -> {"none", "running", "busy"} \cup Terminal]
  /\ revoked \in SUBSET Runs
  /\ lastEvent \in [Runs -> {"none", "running"} \cup Terminal]

Init ==
  /\ row = [r \in Runs |-> "absent"]
  /\ stage = [r \in Runs |-> "none"]
  /\ revoked = {}
  /\ lastEvent = [r \in Runs |-> "none"]

Insert(r) ==
  /\ row[r] = "absent"
  /\ row' = [row EXCEPT ![r] = "queued"]
  /\ UNCHANGED <<stage, revoked, lastEvent>>

\* The submitter, or a worker that has no handler for the type: no event.
Fail(r) ==
  /\ row[r] \in Active \cup Terminal
  /\ row' = [row EXCEPT ![r] = "failed"]
  /\ UNCHANGED <<stage, revoked, lastEvent>>

Start(r) ==
  /\ row[r] = "queued"
  /\ row' = [row EXCEPT ![r] = "running"]
  /\ stage' = [stage EXCEPT ![r] = "running"]
  /\ UNCHANGED <<revoked, lastEvent>>

AnnounceStart(r) ==
  /\ stage[r] = "running"
  /\ stage' = [stage EXCEPT ![r] = "busy"]
  /\ lastEvent' = [lastEvent EXCEPT ![r] = "running"]
  /\ UNCHANGED <<row, revoked>>

\* The result is written over whatever the row says, if it is still there.
Finish(r, s) ==
  /\ stage[r] = "busy"
  /\ s \in Terminal
  /\ row' = [row EXCEPT ![r] = IF @ = "gone" THEN @ ELSE s]
  /\ stage' = [stage EXCEPT ![r] = s]
  /\ UNCHANGED <<revoked, lastEvent>>

AnnounceResult(r) ==
  /\ stage[r] \in Terminal
  /\ stage' = [stage EXCEPT ![r] = "none"]
  /\ lastEvent' = [lastEvent EXCEPT ![r] = stage[r]]
  /\ UNCHANGED <<row, revoked>>

\* The worker's process ends, or an exception leaves handle_message: what was
\* not announced never is.
Stop(r) ==
  /\ stage[r] # "none"
  /\ stage' = [stage EXCEPT ![r] = "none"]
  /\ UNCHANGED <<row, revoked, lastEvent>>

CancelAll ==
  LET active == {r \in Runs : row[r] \in Active} IN
  /\ row' = [r \in Runs |-> IF r \in active THEN "cancelled" ELSE row[r]]
  /\ revoked' = revoked \cup active
  /\ UNCHANGED <<stage, lastEvent>>

AnnounceCancelled(r) ==
  /\ r \in revoked
  /\ revoked' = revoked \ {r}
  /\ lastEvent' = [lastEvent EXCEPT ![r] = "cancelled"]
  /\ UNCHANGED <<row, stage>>

\* A cancel-all ends before it has announced every run.
Forget(S) ==
  /\ S \subseteq revoked
  /\ revoked' = revoked \ S
  /\ UNCHANGED <<row, stage, lastEvent>>

Clear ==
  /\ row' = [r \in Runs |-> IF row[r] \in Terminal THEN "gone" ELSE row[r]]
  /\ UNCHANGED <<stage, revoked, lastEvent>>

RunNext(r) ==
  \/ Insert(r) \/ Fail(r) \/ Start(r) \/ AnnounceStart(r)
  \/ (\E s \in Terminal : Finish(r, s)) \/ AnnounceResult(r) \/ Stop(r)
  \/ AnnounceCancelled(r)

Next ==
  \/ \E r \in Runs : RunNext(r)
  \/ \E S \in SUBSET Runs : Forget(S)
  \/ CancelAll
  \/ Clear

Spec == Init /\ [][Next]_vars
=============================================================================
