--------------------------- MODULE JobQueueProofs ---------------------------
(***************************************************************************)
(* Theorems about JobQueue, for every set of runs and of cancel requests,  *)
(* any number of faults, and either kind of deployment.                    *)
(***************************************************************************)
EXTENDS JobQueue, FiniteSetTheorems, TLAPS

USE DEF Active, Terminal

-----------------------------------------------------------------------------
(***************************************************************************)
(* Type correctness.                                                       *)
(***************************************************************************)
\* The initial state is well typed.
LEMMA TypeInit == Init => TypeOK
  BY JobQueueAssumption DEF Init, TypeOK

\* An unguarded UPDATE keeps the row's type.
LEMMA OverwriteType ==
  ASSUME TypeOK, NEW r \in Runs, NEW s \in Terminal
  PROVE  Overwrite(r, s) \in [Runs -> {"absent", "gone"} \cup Active \cup Terminal]
  BY DEF TypeOK, Overwrite, Present

\* While the worker handles an entry, that entry is one of the stream.
LEMMA WorkerRunType ==
  ASSUME TypeOK, wpc \notin {"down", "idle"}
  PROVE  wrun \in Runs
  BY DEF TypeOK, wrun

\* Every call of a handler and of the worker keeps the types.
LEMMA TypeNext == TypeOK /\ [Next]_vars => TypeOK'
<1> SUFFICES ASSUME TypeOK, [Next]_vars PROVE TypeOK'
  OBVIOUS
<1> USE JobQueueAssumption
<1>1. ASSUME NEW r \in Runs, InsertJobRun(r) PROVE TypeOK'
  BY <1>1 DEF TypeOK, InsertJobRun, redisVars, cancelVars, workerVars
<1>2. ASSUME NEW r \in Runs, EnqueueJob(r) PROVE TypeOK'
  BY <1>2, SMTT(30) DEF TypeOK, EnqueueJob, dbVars, cancelVars, workerVars
<1>3. ASSUME NEW r \in Runs, EnqueueLosesReply(r) PROVE TypeOK'
  BY <1>3, SMTT(30)
  DEF TypeOK, EnqueueLosesReply, Fault, dbVars, runVars, cancelVars, workerVars
<1>4. ASSUME NEW r \in Runs, EnqueueFails(r) \/ EnqueueExpires(r) \/ RunAborts(r)
      PROVE  TypeOK'
  <2> USE DEF TypeOK, Fault, dbVars, redisVars, cancelVars, workerVars
  <2>1. CASE EnqueueFails(r)
    BY <2>1 DEF EnqueueFails
  <2>2. CASE EnqueueExpires(r)
    BY <2>2 DEF EnqueueExpires
  <2>3. CASE RunAborts(r)
    BY <2>3 DEF RunAborts
  <2> QED
    BY <1>4, <2>1, <2>2, <2>3
<1>5. ASSUME NEW r \in Runs, MarkFailed(r) PROVE TypeOK'
  <2>1. row' \in [Runs -> {"absent", "gone"} \cup Active \cup Terminal]
    BY <1>5, OverwriteType DEF MarkFailed
  <2> QED
    BY <1>5, <2>1 DEF TypeOK, MarkFailed, redisVars, cancelVars, workerVars
<1>6. ASSUME NEW r \in Runs, MarkFailedErrors(r) PROVE TypeOK'
  BY <1>6 DEF TypeOK, MarkFailedErrors, Fault, dbVars, redisVars, cancelVars,
              workerVars
<1>7. ASSUME NEW c \in Cancellers, CancelActiveRuns(c) PROVE TypeOK'
  BY <1>7 DEF TypeOK, CancelActiveRuns, redisVars, runVars, workerVars
<1>8. ASSUME NEW c \in Cancellers, PublishCancelled(c) PROVE TypeOK'
  BY <1>8 DEF TypeOK, PublishCancelled, dbVars, redisVars, runVars, workerVars
<1>9. ASSUME NEW c \in Cancellers, FinishCancelAll(c) PROVE TypeOK'
  <2> USE DEF TypeOK, dbVars, redisVars, runVars, workerVars
  <2>1. CASE ~chad[c] /\ cpc' = [cpc EXCEPT ![c] = "done"] /\ UNCHANGED workerVars
    BY <1>9, <2>1 DEF FinishCancelAll
  <2>2. CASE cpc' = [cpc EXCEPT ![c] = "restarted"] /\ wpc' = "down" /\ wpos' = 0
             /\ UNCHANGED wout
    BY <1>9, <2>2 DEF FinishCancelAll
  <2> QED
    BY <1>9, <2>1, <2>2 DEF FinishCancelAll
<1>10. ASSUME NEW c \in Cancellers, CancelAllErrors(c) PROVE TypeOK'
  <2>1. /\ cset' \in [Cancellers -> SUBSET Runs]
        /\ cpc' \in [Cancellers -> {"none", "publishing", "done", "restarted"}]
    BY <1>10 DEF TypeOK, CancelAllErrors
  <2>2. faults' \in 0..MaxFaults
    BY <1>10 DEF TypeOK, CancelAllErrors, Fault
  <2> QED
    BY <1>10, <2>1, <2>2
    DEF TypeOK, CancelAllErrors, dbVars, redisVars, runVars, workerVars
<1>11. CASE ClearTerminalRuns
  BY <1>11 DEF TypeOK, ClearTerminalRuns, redisVars, runVars, cancelVars, workerVars
<1>12. CASE WorkerStarts
  BY <1>12 DEF TypeOK, WorkerStarts, dbVars, runVars, cancelVars
<1>13. CASE ReadMessage
  BY <1>13 DEF TypeOK, ReadMessage, dbVars, runVars, cancelVars
<1>14. CASE RejectUnknown
  <2>1. row' \in [Runs -> {"absent", "gone"} \cup Active \cup Terminal]
    BY <1>14, WorkerRunType, OverwriteType DEF RejectUnknown
  <2> QED
    BY <1>14, <2>1 DEF TypeOK, RejectUnknown, redisVars, runVars, cancelVars
<1>15. CASE MarkRunning
  <2>1. wrun \in Runs
    BY <1>15, WorkerRunType DEF MarkRunning
  <2> QED
    BY <1>15, <2>1, SMTT(30) DEF TypeOK, MarkRunning, redisVars, runVars, cancelVars
<1>16. CASE SkipMessage
  BY <1>16 DEF TypeOK, SkipMessage, dbVars, redisVars, runVars, cancelVars
<1>17. CASE PublishRunning
  <2>1. wrun \in Runs
    BY <1>17, WorkerRunType DEF PublishRunning
  <2> QED
    BY <1>17, <2>1 DEF TypeOK, PublishRunning, dbVars, redisVars, runVars,
                       cancelVars
<1>18. ASSUME NEW s \in Terminal, MarkTerminal(s) PROVE TypeOK'
  <2>1. wrun \in Runs
    BY <1>18, WorkerRunType DEF MarkTerminal
  <2>2. row' \in [Runs -> {"absent", "gone"} \cup Active \cup Terminal]
    BY <1>18, <2>1, OverwriteType DEF MarkTerminal
  <2>3. ends' \in [Runs -> Nat]
    BY <1>18, <2>1 DEF TypeOK, MarkTerminal
  <2>4. wout' \in Terminal
    BY <1>18 DEF MarkTerminal
  <2> QED
    BY <1>18, <2>2, <2>3, <2>4 DEF TypeOK, MarkTerminal, redisVars, runVars,
                                   cancelVars
<1>19. CASE PublishTerminal
  <2>1. wrun \in Runs
    BY <1>19, WorkerRunType DEF PublishTerminal
  <2> QED
    BY <1>19, <2>1 DEF TypeOK, PublishTerminal, dbVars, redisVars, runVars,
                       cancelVars
<1>20. CASE AckMessage
  BY <1>20 DEF TypeOK, AckMessage, dbVars, runVars, cancelVars
<1>21. CASE WorkerRaises
  BY <1>21 DEF TypeOK, WorkerRaises, Fault, dbVars, redisVars, runVars, cancelVars
<1>22. CASE WorkerDies
  BY <1>22 DEF TypeOK, WorkerDies, Fault, dbVars, redisVars, runVars, cancelVars
<1>23. CASE UNCHANGED vars
  BY <1>23 DEF TypeOK, vars
<1> QED
  BY <1>1, <1>2, <1>3, <1>4, <1>5, <1>6, <1>7, <1>8, <1>9, <1>10, <1>11,
     <1>12, <1>13, <1>14, <1>15, <1>16, <1>17, <1>18, <1>19, <1>20, <1>21,
     <1>22, <1>23
     DEF Next, RunStep, CancelStep, WorkerStep

\* Every reachable state of the queue is well typed; in particular the worker
\* never handles an entry it has not been delivered.
THEOREM TypeCorrect == Spec => []TypeOK
  BY TypeInit, TypeNext, PTL DEF Spec

-----------------------------------------------------------------------------
(***************************************************************************)
(* At most one execution per run.                                          *)
(***************************************************************************)
\* Initially no run has a row and none has begun.
LEMMA LifeInit == Init => LifeInv
  BY DEF Init, LifeInv

\* What an unguarded UPDATE does to each row.
LEMMA OverwriteValue ==
  ASSUME TypeOK, NEW r \in Runs, NEW s \in Terminal, NEW q \in Runs
  PROVE  /\ Overwrite(r, s)[q] = "absent" <=> row[q] = "absent"
         /\ Overwrite(r, s)[q] = "queued" => row[q] = "queued"
         /\ Overwrite(r, s)[q] \in {row[q], s}
         /\ q # r \/ row[q] = "gone" => Overwrite(r, s)[q] = row[q]
  BY DEF TypeOK, Overwrite, Present

\* Appending to the stream does not change the entry in hand.
LEMMA AppendKeepsHand ==
  ASSUME TypeOK, NEW r \in Runs, stream' = Append(stream, r), UNCHANGED wpos,
         wpc \notin {"down", "idle"}
  PROVE  wrun' = wrun
  BY DEF TypeOK, wrun

\* A step that leaves the rows and the counters alone, and does not put the
\* worker into an execution, keeps the invariant.
LEMMA LifeFrame ==
  ASSUME TypeOK, LifeInv, UNCHANGED <<row, starts, ends>>,
         \A r \in Runs : hpc'[r] = "none" <=> hpc[r] = "none",
         wpc' \in {"started", "executing"} =>
           wpc \in {"started", "executing"} /\ wrun' = wrun
  PROVE  LifeInv'
  BY DEF LifeInv

\* LifeInv is inductive: one step per call that writes a row or moves the worker.
LEMMA LifeNext == TypeOK /\ LifeInv /\ [Next]_vars => LifeInv'
<1> SUFFICES ASSUME TypeOK, LifeInv, [Next]_vars PROVE LifeInv'
  OBVIOUS
<1>1. ASSUME NEW r \in Runs, InsertJobRun(r) PROVE LifeInv'
  <2>1. row[r] = "absent" /\ starts[r] = 0
    BY <1>1 DEF LifeInv, InsertJobRun
  <2>2. wrun' = wrun /\ wpc' = wpc
    BY <1>1 DEF InsertJobRun, workerVars, redisVars, wrun
  <2>3. wpc \in {"started", "executing"} => wrun \in Runs /\ wrun # r
    BY <2>1, WorkerRunType DEF LifeInv
  <2> QED
    BY <1>1, <2>1, <2>2, <2>3 DEF TypeOK, LifeInv, InsertJobRun
<1>2. ASSUME NEW r \in Runs, EnqueueJob(r) \/ EnqueueLosesReply(r) PROVE LifeInv'
  <2>1. UNCHANGED <<row, starts, ends, wpc, wpos>> /\ stream' = Append(stream, r)
    BY <1>2 DEF EnqueueJob, EnqueueLosesReply, dbVars, workerVars
  <2>2. \A q \in Runs : hpc'[q] = "none" <=> hpc[q] = "none"
    <3>1. CASE EnqueueJob(r)
      BY <3>1 DEF TypeOK, EnqueueJob
    <3>2. CASE EnqueueLosesReply(r)
      BY <3>2 DEF EnqueueLosesReply, runVars
    <3> QED
      BY <1>2, <3>1, <3>2
  <2> QED
    BY <2>1, <2>2, AppendKeepsHand, LifeFrame
<1>3. ASSUME NEW r \in Runs,
             EnqueueFails(r) \/ EnqueueExpires(r) \/ RunAborts(r) \/ MarkFailedErrors(r)
      PROVE  LifeInv'
  <2>1. UNCHANGED <<row, starts, ends, wpc, wpos, stream>>
    BY <1>3 DEF EnqueueFails, EnqueueExpires, RunAborts, MarkFailedErrors,
                dbVars, redisVars, workerVars
  <2>2. \A q \in Runs : hpc'[q] = "none" <=> hpc[q] = "none"
    BY <1>3 DEF TypeOK, EnqueueFails, EnqueueExpires, RunAborts, MarkFailedErrors
  <2> QED
    BY <2>1, <2>2, LifeFrame DEF wrun
<1>4. ASSUME NEW r \in Runs, MarkFailed(r) PROVE LifeInv'
  <2>1. UNCHANGED <<starts, ends>> /\ wpc' = wpc /\ wrun' = wrun
    BY <1>4 DEF MarkFailed, workerVars, redisVars, wrun
  <2>2. \A q \in Runs : hpc'[q] = "none" <=> hpc[q] = "none"
    BY <1>4 DEF TypeOK, MarkFailed
  <2>3. \A q \in Runs : /\ row'[q] = "absent" <=> row[q] = "absent"
                        /\ row'[q] = "queued" => row[q] = "queued"
                        /\ row'[q] \in {row[q], "failed"}
    BY <1>4, OverwriteValue DEF MarkFailed
  <2>4. wpc \in {"started", "executing"} => wrun \in Runs
    BY WorkerRunType
  <2> QED
    BY <2>1, <2>2, <2>3, <2>4 DEF LifeInv
<1>5. ASSUME NEW c \in Cancellers, CancelActiveRuns(c) PROVE LifeInv'
  <2>1. UNCHANGED <<starts, ends, hpc>> /\ wpc' = wpc /\ wrun' = wrun
    BY <1>5 DEF CancelActiveRuns, runVars, workerVars, redisVars, wrun
  <2>2. \A q \in Runs : row'[q] = IF row[q] \in Active THEN "cancelled" ELSE row[q]
    BY <1>5 DEF CancelActiveRuns
  <2>3. wpc \in {"started", "executing"} => wrun \in Runs
    BY WorkerRunType
  <2> QED
    BY <2>1, <2>2, <2>3 DEF LifeInv
<1>6. CASE ClearTerminalRuns
  <2>1. UNCHANGED <<starts, ends, hpc>> /\ wpc' = wpc /\ wrun' = wrun
    BY <1>6 DEF ClearTerminalRuns, runVars, workerVars, redisVars, wrun
  <2>2. \A q \in Runs : row'[q] = IF row[q] \in Terminal THEN "gone" ELSE row[q]
    BY <1>6 DEF ClearTerminalRuns, Present
  <2>3. wpc \in {"started", "executing"} => wrun \in Runs
    BY WorkerRunType
  <2> QED
    BY <2>1, <2>2, <2>3 DEF LifeInv
<1>7. CASE MarkRunning
  <2>1. wrun \in Runs /\ wrun' = wrun
    BY <1>7, WorkerRunType DEF MarkRunning, redisVars, wrun
  <2>2. starts[wrun] = 0 /\ ends[wrun] = 0
    BY <1>7, <2>1 DEF TypeOK, LifeInv, MarkRunning
  <2> QED
    BY <1>7, <2>1, <2>2 DEF TypeOK, LifeInv, MarkRunning, runVars
<1>8. CASE PublishRunning
  <2>1. UNCHANGED <<row, starts, ends, hpc>> /\ wrun' = wrun
    BY <1>8 DEF PublishRunning, dbVars, runVars, redisVars, wrun
  <2> QED
    BY <1>8, <2>1, LifeFrame DEF PublishRunning
<1>9. ASSUME NEW s \in Terminal, MarkTerminal(s) PROVE LifeInv'
  <2>1. wrun \in Runs
    BY <1>9, WorkerRunType DEF MarkTerminal
  <2>2. \A q \in Runs : /\ row'[q] = "absent" <=> row[q] = "absent"
                        /\ row'[q] = "queued" => row[q] = "queued"
                        /\ q # wrun => row'[q] = row[q]
    BY <1>9, <2>1, OverwriteValue DEF MarkTerminal
  <2>3. starts[wrun] = 1 /\ ends[wrun] = 0
    BY <1>9 DEF LifeInv, MarkTerminal
  <2> QED
    BY <1>9, <2>1, <2>2, <2>3 DEF TypeOK, LifeInv, MarkTerminal, runVars
<1>10. CASE RejectUnknown
  <2>1. wrun \in Runs
    BY <1>10, WorkerRunType DEF RejectUnknown
  <2>2. \A q \in Runs : /\ row'[q] = "absent" <=> row[q] = "absent"
                        /\ row'[q] = "queued" => row[q] = "queued"
                        /\ row'[q] \in {row[q], "failed"}
    BY <1>10, <2>1, OverwriteValue DEF RejectUnknown
  <2> QED
    BY <1>10, <2>2 DEF LifeInv, RejectUnknown, runVars
<1>11. CASE \/ WorkerStarts \/ ReadMessage \/ SkipMessage \/ PublishTerminal
            \/ AckMessage \/ WorkerRaises \/ WorkerDies
  <2>1. UNCHANGED <<row, starts, ends, hpc>>
    BY <1>11 DEF WorkerStarts, ReadMessage, SkipMessage, PublishTerminal,
                 AckMessage, WorkerRaises, WorkerDies, dbVars, runVars
  <2>2. wpc' \notin {"started", "executing"}
    BY <1>11 DEF WorkerStarts, ReadMessage, SkipMessage, PublishTerminal,
                 AckMessage, WorkerRaises, WorkerDies
  <2> QED
    BY <2>1, <2>2, LifeFrame
<1>12. ASSUME NEW c \in Cancellers,
              PublishCancelled(c) \/ FinishCancelAll(c) \/ CancelAllErrors(c)
       PROVE  LifeInv'
  <2>1. UNCHANGED <<row, starts, ends, hpc, stream>>
    BY <1>12 DEF PublishCancelled, FinishCancelAll, CancelAllErrors, dbVars,
                 runVars, redisVars
  <2>2. wpc' = "down" \/ UNCHANGED <<wpc, wpos>>
    BY <1>12 DEF PublishCancelled, FinishCancelAll, CancelAllErrors, workerVars
  <2> QED
    BY <2>1, <2>2, LifeFrame DEF wrun
<1>13. CASE UNCHANGED vars
  BY <1>13, LifeFrame DEF vars, wrun
<1> QED
  BY <1>1, <1>2, <1>3, <1>4, <1>5, <1>6, <1>7, <1>8, <1>9, <1>10, <1>11,
     <1>12, <1>13
     DEF Next, RunStep, CancelStep, WorkerStep

\* The invariant behind the theorems below.
THEOREM LifeCorrect == Spec => []LifeInv
  BY TypeCorrect, LifeInit, LifeNext, PTL DEF Spec

\* A run's handler is executed at most once, whatever is duplicated, lost,
\* interrupted, cancelled or restarted.
THEOREM ExecutedAtMostOnce == Spec => []AtMostOnce
<1>1. LifeInv => AtMostOnce
  BY DEF LifeInv, AtMostOnce
<1> QED
  BY <1>1, LifeCorrect, PTL

\* The step behind SettledRunsStay.
LEMMA SettledStep ==
  TypeOK /\ LifeInv /\ [Next]_vars =>
    \A r \in Runs :
      /\ (row[r] \in Terminal /\ starts[r] = 0) => starts'[r] = 0
      /\ (row[r] \in {"succeeded", "partial"} /\ row'[r] # row[r]) =>
           row'[r] = "gone" \/ hpc[r] = "failing"
<1> SUFFICES ASSUME TypeOK, LifeInv, [Next]_vars, NEW r \in Runs
             PROVE  /\ (row[r] \in Terminal /\ starts[r] = 0) => starts'[r] = 0
                    /\ (row[r] \in {"succeeded", "partial"} /\ row'[r] # row[r]) =>
                         row'[r] = "gone" \/ hpc[r] = "failing"
  OBVIOUS
<1>1. CASE UNCHANGED <<row, starts>>
  BY <1>1
<1>2. ASSUME NEW q \in Runs, InsertJobRun(q) \/ MarkFailed(q) PROVE
        /\ starts' = starts
        /\ row'[r] # row[r] => row[r] = "absent" \/ hpc[r] = "failing"
  <2>1. CASE InsertJobRun(q)
    BY <2>1 DEF TypeOK, LifeInv, InsertJobRun
  <2>2. CASE MarkFailed(q)
    BY <2>2, OverwriteValue DEF MarkFailed
  <2> QED
    BY <1>2, <2>1, <2>2
<1>3. ASSUME NEW c \in Cancellers, CancelActiveRuns(c) PROVE
        starts' = starts /\ (row'[r] # row[r] => row[r] \in Active)
  BY <1>3 DEF CancelActiveRuns
<1>4. CASE ClearTerminalRuns
  BY <1>4 DEF ClearTerminalRuns
<1>5. CASE MarkRunning
  BY <1>5 DEF TypeOK, MarkRunning
<1>6. ASSUME NEW s \in Terminal, MarkTerminal(s) \/ RejectUnknown PROVE
        starts' = starts /\ (row'[r] # row[r] => r = wrun /\ ends[r] = 0)
  <2>0. wrun \in Runs
    BY <1>6, WorkerRunType DEF MarkTerminal, RejectUnknown
  <2>1. ends[wrun] = 0
    <3>1. CASE MarkTerminal(s)
      BY <3>1 DEF MarkTerminal, LifeInv
    <3>2. CASE RejectUnknown
      BY <2>0, <3>2 DEF RejectUnknown, LifeInv, TypeOK
    <3> QED
      BY <1>6, <3>1, <3>2
  <2>2. starts' = starts /\ (row' = Overwrite(wrun, s) \/ row' = Overwrite(wrun, "failed"))
    BY <1>6 DEF MarkTerminal, RejectUnknown
  <2> QED
    BY <2>0, <2>1, <2>2, OverwriteValue
<1>7. ASSUME NEW q \in Runs,
             EnqueueJob(q) \/ EnqueueLosesReply(q) \/ EnqueueFails(q)
               \/ EnqueueExpires(q) \/ RunAborts(q) \/ MarkFailedErrors(q)
      PROVE  UNCHANGED <<row, starts>>
  BY <1>7 DEF EnqueueJob, EnqueueLosesReply, EnqueueFails, EnqueueExpires,
              RunAborts, MarkFailedErrors, dbVars
<1>8. ASSUME NEW c \in Cancellers,
             PublishCancelled(c) \/ FinishCancelAll(c) \/ CancelAllErrors(c)
      PROVE  UNCHANGED <<row, starts>>
  BY <1>8 DEF PublishCancelled, FinishCancelAll, CancelAllErrors, dbVars
<1>9. CASE \/ WorkerStarts \/ ReadMessage \/ SkipMessage \/ PublishRunning
           \/ PublishTerminal \/ AckMessage \/ WorkerRaises \/ WorkerDies
  BY <1>1, <1>9 DEF WorkerStarts, ReadMessage, SkipMessage, PublishRunning,
                    PublishTerminal, AckMessage, WorkerRaises, WorkerDies, dbVars
<1>10. CASE \E q \in Runs : \/ InsertJobRun(q) \/ RunStep(q)
                             \/ EnqueueLosesReply(q) \/ EnqueueFails(q)
                             \/ EnqueueExpires(q) \/ RunAborts(q)
  BY <1>1, <1>2, <1>7, <1>10 DEF RunStep
<1>11. CASE \E c \in Cancellers : \/ CancelActiveRuns(c) \/ CancelStep(c)
                                   \/ CancelAllErrors(c)
  BY <1>1, <1>3, <1>8, <1>11 DEF CancelStep
<1>12. CASE (\E s \in Terminal : MarkTerminal(s)) \/ RejectUnknown
  <2>1. starts' = starts /\ (row'[r] # row[r] => ends[r] = 0)
    BY <1>6, <1>12
  <2>2. row[r] \in {"succeeded", "partial"} => ends[r] = 1
    BY DEF LifeInv
  <2> QED
    BY <2>1, <2>2
<1>13. CASE UNCHANGED vars
  BY <1>1, <1>13 DEF vars
<1> QED
  BY <1>4, <1>5, <1>9, <1>10, <1>11, <1>12, <1>13 DEF Next, WorkerStep

\* A run that has ended in the record before it was taken up is never started,
\* and a natural result is only replaced by a submitter whose enqueueing failed.
THEOREM SettledRunsStay == Spec => SettledStays
  BY SettledStep, TypeCorrect, LifeCorrect, PTL DEF Spec, SettledStays

-----------------------------------------------------------------------------
(***************************************************************************)
(* The events follow the rows.                                             *)
(***************************************************************************)
\* The row of r shows the natural result s, or what may have come after it.
Shows(r, s) == \/ row[r] \in {s, "gone"}
               \/ row[r] = "failed" /\ told[r] = "failed"

\* Why the events follow: whoever is about to publish has seen the row leave
\* "queued", where it never returns; a result that was published, or is about to
\* be, was the one result of the handler; a submitter answers once.
EventInv ==
  /\ \A r \in Runs :
       /\ lastEvent[r] # "none" => row[r] \notin {"absent", "queued"}
       /\ lastEvent[r] \in {"succeeded", "partial"} =>
            Shows(r, lastEvent[r]) /\ ends[r] = 1
       /\ told[r] = "failed" => hpc[r] = "answered"
  /\ \A c \in Cancellers : \A r \in cset[c] : row[r] \notin {"absent", "queued"}
  /\ wpc = "marked" => Shows(wrun, wout) /\ ends[wrun] = 1

\* Initially nothing has been published.
LEMMA EventInit == Init => EventInv
  BY DEF Init, EventInv

\* A step that leaves the rows, the answers and the counters alone and
\* publishes nothing keeps the invariant, unless it brings the worker to
\* "marked" or a canceller new runs to announce.
LEMMA EventFrame ==
  ASSUME TypeOK, EventInv, UNCHANGED <<row, told, ends, lastEvent>>,
         \A r \in Runs : hpc[r] = "answered" => hpc'[r] = "answered",
         \A c \in Cancellers : cset'[c] \subseteq cset[c],
         wpc' = "marked" => wpc = "marked" /\ wrun' = wrun /\ wout' = wout
  PROVE  EventInv'
  BY DEF EventInv, Shows

\* A step that only moves rows away from "queued", and leaves a natural result
\* alone or makes it "gone", keeps the invariant.
LEMMA EventRows ==
  ASSUME TypeOK, EventInv, UNCHANGED <<told, ends, lastEvent, hpc>>,
         \A r \in Runs : /\ row'[r] \in {"absent", "queued"} => row'[r] = row[r]
                         /\ row[r] \in Terminal \cup {"gone"} =>
                              row'[r] \in {row[r], "gone"},
         \A c \in Cancellers : \A r \in cset'[c] :
           r \in Runs /\ (r \in cset[c] \/ row'[r] \notin {"absent", "queued"}),
         wpc' = "marked" => wpc = "marked" /\ wrun' = wrun /\ wout' = wout
  PROVE  EventInv'
<1>1. \A r \in Runs, s \in Terminal : Shows(r, s) => Shows(r, s)'
  BY DEF Shows
<1>2. \A r \in Runs : row[r] \notin {"absent", "queued"} =>
                        row'[r] \notin {"absent", "queued"}
  OBVIOUS
<1>3. wpc = "marked" => wrun \in Runs /\ wout \in Terminal
  BY WorkerRunType DEF TypeOK
<1>4. \A r \in Runs :
        /\ lastEvent'[r] # "none" => row'[r] \notin {"absent", "queued"}
        /\ lastEvent'[r] \in {"succeeded", "partial"} =>
             Shows(r, lastEvent[r])' /\ ends'[r] = 1
        /\ told'[r] = "failed" => hpc'[r] = "answered"
  BY <1>1, <1>2 DEF EventInv
<1>5. \A c \in Cancellers : \A r \in cset'[c] : row'[r] \notin {"absent", "queued"}
  BY <1>2 DEF EventInv
<1>6. wpc' = "marked" => Shows(wrun, wout)' /\ ends'[wrun'] = 1
  <2> SUFFICES ASSUME wpc' = "marked" PROVE Shows(wrun, wout)' /\ ends'[wrun'] = 1
    OBVIOUS
  <2>1. Shows(wrun, wout) /\ ends[wrun] = 1 /\ wrun' = wrun /\ wout' = wout
    BY DEF EventInv
  <2> QED
    BY <1>3, <2>1 DEF Shows
<1> QED
  BY <1>4, <1>5, <1>6 DEF EventInv

\* EventInv is inductive relative to the types and to LifeInv.
LEMMA EventNext == TypeOK /\ LifeInv /\ EventInv /\ [Next]_vars => EventInv'
<1> SUFFICES ASSUME TypeOK, LifeInv, EventInv, [Next]_vars PROVE EventInv'
  OBVIOUS
<1>1. ASSUME NEW r \in Runs, InsertJobRun(r) PROVE EventInv'
  <2>1. row[r] = "absent" /\ hpc[r] = "none"
    BY <1>1 DEF LifeInv, InsertJobRun
  <2>2. lastEvent[r] = "none" /\ told[r] # "failed"
    BY <2>1 DEF EventInv, TypeOK
  <2>3. \A c \in Cancellers : r \notin cset[c]
    BY <2>1 DEF EventInv
  <2>4. wpc = "marked" => wrun \in Runs /\ wrun # r
    BY <2>1, WorkerRunType DEF EventInv, Shows, TypeOK
  <2>5. \A q \in Runs \ {r} : row'[q] = row[q] /\ hpc'[q] = hpc[q]
    BY <1>1 DEF InsertJobRun, TypeOK
  <2>6. UNCHANGED <<told, ends, lastEvent, cset, wpc, wrun, wout>>
    BY <1>1 DEF InsertJobRun, redisVars, cancelVars, workerVars, wrun
  <2>7. \A c \in Cancellers : cset[c] \subseteq Runs
    BY DEF TypeOK
  <2> QED
    BY <2>2, <2>3, <2>4, <2>5, <2>6, <2>7 DEF EventInv, Shows
<1>2. ASSUME NEW r \in Runs, EnqueueJob(r) PROVE EventInv'
  <2>1. told[r] # "failed"
    BY <1>2 DEF EnqueueJob, EventInv
  <2>2. /\ UNCHANGED <<row, ends, lastEvent, cset, wpc, wout>>
        /\ \A q \in Runs : told[q] = "failed" <=> told'[q] = "failed"
        /\ \A q \in Runs : hpc[q] = "answered" => hpc'[q] = "answered"
    BY <1>2, <2>1 DEF EnqueueJob, TypeOK, dbVars, cancelVars, workerVars
  <2>3. wpc = "marked" => wrun \in Runs /\ wrun' = wrun
    BY <1>2, WorkerRunType, AppendKeepsHand DEF EnqueueJob, workerVars
  <2>4. \A q \in Runs : \A s : Shows(q, s) => Shows(q, s)'
    BY <2>2 DEF Shows
  <2> QED
    BY <2>2, <2>3, <2>4 DEF EventInv, Shows
<1>3. ASSUME NEW r \in Runs, EnqueueLosesReply(r) PROVE EventInv'
  <2>1. UNCHANGED <<row, told, ends, lastEvent, hpc, cset, wpc, wpos, wout>>
    BY <1>3 DEF EnqueueLosesReply, dbVars, runVars, cancelVars, workerVars
  <2>2. wpc = "marked" => wrun' = wrun
    BY <1>3, <2>1, AppendKeepsHand DEF EnqueueLosesReply
  <2> QED
    BY <2>1, <2>2, EventFrame
<1>4. ASSUME NEW r \in Runs, EnqueueFails(r) \/ EnqueueExpires(r) \/ RunAborts(r)
      PROVE  EventInv'
  <2>1. UNCHANGED <<row, told, ends, lastEvent, cset, wpc, wout, wrun>>
    BY <1>4 DEF EnqueueFails, EnqueueExpires, RunAborts, dbVars, redisVars,
                cancelVars, workerVars, wrun
  <2>2. \A q \in Runs : hpc[q] = "answered" => hpc'[q] = "answered"
    BY <1>4 DEF EnqueueFails, EnqueueExpires, RunAborts, TypeOK
  <2> QED
    BY <2>1, <2>2, EventFrame
<1>5. ASSUME NEW r \in Runs, MarkFailed(r) \/ MarkFailedErrors(r) PROVE EventInv'
  <2>1. /\ UNCHANGED <<ends, lastEvent, cset, wpc, wout, wrun>>
        /\ told' = [told EXCEPT ![r] = "failed"]
        /\ hpc' = [hpc EXCEPT ![r] = "answered"]
    BY <1>5 DEF MarkFailed, MarkFailedErrors, dbVars, redisVars, cancelVars,
                workerVars, wrun
  <2>2. \A q \in Runs : /\ row'[q] \in {"absent", "queued"} => row'[q] = row[q]
                        /\ row'[q] \in {row[q], "failed"}
                        /\ q # r => row'[q] = row[q]
    BY <1>5, OverwriteValue DEF MarkFailed, MarkFailedErrors, dbVars
  <2>3. /\ \A q \in Runs : told[q] = "failed" => told'[q] = "failed"
        /\ told'[r] = "failed"
        /\ \A q \in Runs : told'[q] = "failed" => hpc'[q] = "answered"
    BY <2>1 DEF TypeOK, EventInv
  <2>4. \A q \in Runs, s \in Terminal : Shows(q, s) => Shows(q, s)'
    BY <2>2, <2>3 DEF Shows
  <2>5. wpc = "marked" => wrun \in Runs /\ wout \in Terminal
    BY WorkerRunType DEF TypeOK
  <2>6. wpc = "marked" => Shows(wrun, wout)'
    BY <2>1, <2>2, <2>3, <2>5 DEF EventInv, Shows
  <2>7. \A c \in Cancellers : cset[c] \subseteq Runs
    BY DEF TypeOK
  <2>8. \A q \in Runs :
          /\ lastEvent'[q] # "none" => row'[q] \notin {"absent", "queued"}
          /\ lastEvent'[q] \in {"succeeded", "partial"} =>
               Shows(q, lastEvent[q])' /\ ends'[q] = 1
    BY <2>1, <2>2, <2>4 DEF EventInv
  <2>9. \A c \in Cancellers : \A q \in cset'[c] : row'[q] \notin {"absent", "queued"}
    BY <2>1, <2>2, <2>7 DEF EventInv
  <2> QED
    BY <2>1, <2>3, <2>6, <2>8, <2>9 DEF EventInv
<1>6. ASSUME NEW c \in Cancellers, CancelActiveRuns(c) PROVE EventInv'
  <2>1. UNCHANGED <<told, ends, lastEvent, hpc, wpc, wout, wrun>>
    BY <1>6 DEF CancelActiveRuns, runVars, workerVars, redisVars, wrun
  <2>2. \A r \in Runs : row'[r] = IF row[r] \in Active THEN "cancelled" ELSE row[r]
    BY <1>6 DEF CancelActiveRuns
  <2>3. \A d \in Cancellers : \A r \in cset'[d] :
          r \in Runs /\ (r \in cset[d] \/ row'[r] \notin {"absent", "queued"})
    BY <1>6, <2>2 DEF CancelActiveRuns, TypeOK
  <2> QED
    BY <2>1, <2>2, <2>3, EventRows
<1>7. CASE ClearTerminalRuns
  <2>1. UNCHANGED <<told, ends, lastEvent, hpc, cset, wpc, wout, wrun>>
    BY <1>7 DEF ClearTerminalRuns, runVars, cancelVars, workerVars, redisVars, wrun
  <2>2. \A r \in Runs : row'[r] = IF row[r] \in Terminal THEN "gone" ELSE row[r]
    BY <1>7 DEF ClearTerminalRuns, Present
  <2>3. \A d \in Cancellers : cset[d] \subseteq Runs
    BY DEF TypeOK
  <2> QED
    BY <2>1, <2>2, <2>3, EventRows
<1>8. CASE MarkRunning
  <2>1. wrun \in Runs /\ row[wrun] = "queued" /\ wpc' # "marked"
    BY <1>8, WorkerRunType DEF MarkRunning
  <2>2. UNCHANGED <<told, ends, lastEvent, hpc, cset>>
    BY <1>8 DEF MarkRunning, runVars, cancelVars
  <2>3. \A r \in Runs : row'[r] = IF r = wrun THEN "running" ELSE row[r]
    BY <1>8, <2>1 DEF MarkRunning, TypeOK
  <2>4. \A d \in Cancellers : cset[d] \subseteq Runs
    BY DEF TypeOK
  <2> QED
    BY <2>1, <2>2, <2>3, <2>4, EventRows
<1>9. CASE RejectUnknown
  <2>1. wrun \in Runs /\ ends[wrun] # 1 /\ wpc' # "marked"
    BY <1>9, WorkerRunType DEF RejectUnknown, LifeInv, TypeOK
  <2>2. UNCHANGED <<told, ends, lastEvent, hpc, cset>>
    BY <1>9 DEF RejectUnknown, runVars, cancelVars
  <2>3. \A r \in Runs : /\ row'[r] \in {"absent", "queued"} => row'[r] = row[r]
                        /\ r # wrun => row'[r] = row[r]
    BY <1>9, <2>1, OverwriteValue DEF RejectUnknown
  <2>4. \A d \in Cancellers : cset[d] \subseteq Runs
    BY DEF TypeOK
  <2> QED
    BY <2>1, <2>2, <2>3, <2>4 DEF EventInv, Shows
<1>10. ASSUME NEW s \in Terminal, MarkTerminal(s) PROVE EventInv'
  <2>1. /\ wrun \in Runs /\ wrun' = wrun /\ ends[wrun] = 0
        /\ row[wrun] \in {"running", "cancelled", "failed", "gone"}
    BY <1>10, WorkerRunType DEF MarkTerminal, LifeInv, redisVars, wrun
  <2>2. UNCHANGED <<told, lastEvent, hpc, cset>> /\ wout' = s
    BY <1>10 DEF MarkTerminal, runVars, cancelVars
  <2>3. \A r \in Runs \ {wrun} : row'[r] = row[r] /\ ends'[r] = ends[r]
    BY <1>10, <2>1 DEF MarkTerminal, TypeOK, Overwrite
  <2>4. row'[wrun] \in {s, "gone"} /\ ends'[wrun] = 1
    BY <1>10, <2>1 DEF MarkTerminal, TypeOK, Overwrite, Present
  <2>5. lastEvent[wrun] \notin {"succeeded", "partial"}
    BY <2>1 DEF EventInv
  <2>6. \A d \in Cancellers : cset[d] \subseteq Runs
    BY DEF TypeOK
  <2>7. row'[wrun] \notin {"absent", "queued"}
    BY <2>4
  <2> QED
    BY <2>1, <2>2, <2>3, <2>4, <2>5, <2>6, <2>7 DEF EventInv, Shows
<1>11. CASE PublishRunning \/ PublishTerminal
  <2>1. wrun \in Runs /\ wpc' # "marked"
    BY <1>11, WorkerRunType DEF PublishRunning, PublishTerminal
  <2>2. UNCHANGED <<row, told, ends, hpc, cset>>
    BY <1>11 DEF PublishRunning, PublishTerminal, dbVars, runVars, cancelVars
  <2>3. \A r \in Runs \ {wrun} : lastEvent'[r] = lastEvent[r]
    BY <1>11 DEF PublishRunning, PublishTerminal, TypeOK
  <2>4. row[wrun] \notin {"absent", "queued"}
    BY <1>11 DEF PublishRunning, PublishTerminal, LifeInv, EventInv, Shows, TypeOK
  <2>5. \/ lastEvent'[wrun] = "running"
        \/ lastEvent'[wrun] = wout /\ Shows(wrun, wout) /\ ends[wrun] = 1
    BY <1>11, <2>1 DEF PublishRunning, PublishTerminal, TypeOK, EventInv
  <2> QED
    BY <2>1, <2>2, <2>3, <2>4, <2>5 DEF EventInv, Shows
<1>12. ASSUME NEW c \in Cancellers, PublishCancelled(c) PROVE EventInv'
  <2>1. PICK r \in cset[c] : /\ cset' = [cset EXCEPT ![c] = @ \ {r}]
                             /\ lastEvent' = [lastEvent EXCEPT ![r] = "cancelled"]
    BY <1>12 DEF PublishCancelled
  <2>2. UNCHANGED <<row, told, ends, hpc, wpc, wout, wrun>>
    BY <1>12 DEF PublishCancelled, dbVars, runVars, redisVars, workerVars, wrun
  <2>3. r \in Runs /\ row[r] \notin {"absent", "queued"}
    BY DEF TypeOK, EventInv
  <2>4. /\ \A q \in Runs \ {r} : lastEvent'[q] = lastEvent[q]
        /\ lastEvent'[r] = "cancelled"
        /\ \A d \in Cancellers : cset'[d] \subseteq cset[d]
    BY <2>1, <2>3 DEF TypeOK
  <2> QED
    BY <2>2, <2>3, <2>4 DEF EventInv, Shows
<1>13. ASSUME NEW c \in Cancellers, FinishCancelAll(c) \/ CancelAllErrors(c)
       PROVE  EventInv'
  <2>1. UNCHANGED <<row, told, ends, lastEvent, hpc, stream>>
    BY <1>13 DEF FinishCancelAll, CancelAllErrors, dbVars, runVars, redisVars
  <2>2. \A d \in Cancellers : cset'[d] \subseteq cset[d]
    BY <1>13 DEF FinishCancelAll, CancelAllErrors, TypeOK
  <2>3. wpc' = "down" \/ UNCHANGED <<wpc, wpos, wout>>
    BY <1>13 DEF FinishCancelAll, CancelAllErrors, workerVars
  <2> QED
    BY <2>1, <2>2, <2>3, EventFrame DEF wrun
<1>14. CASE \/ WorkerStarts \/ ReadMessage \/ SkipMessage \/ AckMessage
            \/ WorkerRaises \/ WorkerDies
  <2>1. UNCHANGED <<row, told, ends, lastEvent, hpc, cset>> /\ wpc' # "marked"
    BY <1>14 DEF WorkerStarts, ReadMessage, SkipMessage, AckMessage,
                 WorkerRaises, WorkerDies, dbVars, runVars, cancelVars
  <2> QED
    BY <2>1, EventFrame
<1>15. CASE UNCHANGED vars
  BY <1>15, EventFrame DEF vars, wrun
<1> QED
  BY <1>1, <1>2, <1>3, <1>4, <1>5, <1>6, <1>7, <1>8, <1>9, <1>10, <1>11,
     <1>12, <1>13, <1>14, <1>15
     DEF Next, RunStep, CancelStep, WorkerStep

\* Nothing is published for a run whose row still says "queued", and a published
\* result is the row's, unless a clear or the submitter's "failed" came after.
THEOREM EventsFollowRows == Spec => []EventsFollowRow
<1>1. Spec => []EventInv
  BY EventInit, EventNext, TypeCorrect, LifeCorrect, PTL DEF Spec
<1>2. EventInv => EventsFollowRow
  BY DEF EventInv, Shows, EventsFollowRow
<1> QED
  BY <1>1, <1>2, PTL

-----------------------------------------------------------------------------
(***************************************************************************)
(* How far a fault reaches.                                                *)
(***************************************************************************)
\* The worker is between mark_running and mark_terminal of r.
Busy(r) == wpc \in {"started", "executing"} /\ wrun = r

\* The runs charged to a fault: those that are stranded, and with them those
\* that will be without another fault. Somebody's context has ended and its
\* MarkFailed is bound to error; or a row says "running" and the worker, if it
\* has the run in hand at all, has been given a second entry of it to skip.
Charged(r) ==
  \/ hpc[r] = "expired"
  \/ /\ row[r] = "queued" /\ hpc[r] \in {"answered", "aborted"}
     /\ ~Undelivered(r) /\ ~InHand(r) /\ ~Skipped(r)
  \/ row[r] = "running" /\ hpc[r] # "failing" /\ ~Busy(r)

ChargedRuns == {r \in Runs : Charged(r)}
Killers     == {c \in Cancellers : cpc[c] = "restarted"}

\* What BlastRadius rests on: each run charged has a fault or a restart of its
\* own, and so has each entry that is pending and in nobody's hand.
BlastInv ==
  /\ group <= Len(stream)
  /\ wpc \in {"down", "idle"} => wpos = 0
  /\ IsFiniteSet(Killers)
  /\ IsFiniteSet(ChargedRuns)
  /\ Cardinality(ChargedRuns) <= faults + Restarts
  /\ Cardinality(pel \ {wpos}) <= faults + Restarts

\* The three counts of BlastInv.
Counts == /\ IsFiniteSet(Killers) /\ IsFiniteSet(ChargedRuns)
          /\ Cardinality(ChargedRuns) <= faults + Restarts
          /\ Cardinality(pel \ {wpos}) <= faults + Restarts

\* Initially nothing is charged.
LEMMA BlastInit == Init => BlastInv
<1> SUFFICES ASSUME Init PROVE BlastInv
  OBVIOUS
<1>1. Killers = {} /\ ChargedRuns = {} /\ pel \ {wpos} = {}
  BY DEF Init, Killers, ChargedRuns, Charged
<1>2. group <= Len(stream) /\ wpos = 0 /\ faults = 0
  BY DEF Init, NoGroup
<1> QED
  BY <1>1, <1>2, FS_EmptySet DEF BlastInv, Restarts, Killers

\* A subset of a finite set with one more member counts at most one more.
LEMMA OneMore ==
  ASSUME NEW S, IsFiniteSet(S), NEW T, NEW x, T \subseteq S \cup {x}
  PROVE  IsFiniteSet(T) /\ Cardinality(T) <= Cardinality(S) + 1
<1>1. /\ IsFiniteSet(S \cup {x})
      /\ Cardinality(S \cup {x}) = IF x \in S THEN Cardinality(S) ELSE Cardinality(S) + 1
  BY FS_AddElement
<1>2. IsFiniteSet(T) /\ Cardinality(T) <= Cardinality(S \cup {x})
  BY <1>1, FS_Subset
<1>3. Cardinality(S) \in Nat /\ Cardinality(T) \in Nat /\ Cardinality(S \cup {x}) \in Nat
  BY <1>1, <1>2, FS_CardinalityType
<1> QED
  BY <1>1, <1>2, <1>3

\* The counts are numbers.
LEMMA CountsAreNumbers ==
  ASSUME TypeOK, BlastInv
  PROVE  /\ Restarts \in Nat /\ faults \in Nat
         /\ Cardinality(ChargedRuns) \in Nat
         /\ IsFiniteSet(pel \ {wpos}) /\ Cardinality(pel \ {wpos}) \in Nat
<1>1. IsFiniteSet(pel \ {wpos})
  <2>1. cursor \in Nat /\ pel \ {wpos} \subseteq 1..cursor
    BY DEF TypeOK
  <2>2. IsFiniteSet(1..cursor)
    BY <2>1, FS_Interval
  <2> QED
    BY <2>1, <2>2, FS_Subset
<1> QED
  BY <1>1, FS_CardinalityType DEF BlastInv, Restarts, Killers, TypeOK

\* A step without a fault or a restart, which charges no other run and leaves
\* no other entry pending, or a call that errs but harms nobody.
LEMMA QuietStep ==
  ASSUME TypeOK, BlastInv, cpc' = cpc \/ Killers' = Killers,
         faults' = faults \/ faults' = faults + 1,
         \A r \in Runs : Charged(r)' => Charged(r),
         pel' \ {wpos'} \subseteq pel \ {wpos}
  PROVE  Counts'
<1>1. Killers' = Killers
  BY DEF Killers
<1>2. Restarts' = Restarts
  BY <1>1 DEF Restarts, Killers
<1>3. ChargedRuns' \subseteq ChargedRuns
  BY DEF ChargedRuns
<1>4. IsFiniteSet(ChargedRuns') /\ Cardinality(ChargedRuns') <= Cardinality(ChargedRuns)
  BY <1>3, FS_Subset DEF BlastInv
<1>5. Cardinality(pel' \ {wpos'}) <= Cardinality(pel \ {wpos})
  BY CountsAreNumbers, FS_Subset
<1>6. IsFiniteSet(pel' \ {wpos'})
  BY CountsAreNumbers, FS_Subset
<1>7. Cardinality(ChargedRuns') \in Nat /\ Cardinality(pel' \ {wpos'}) \in Nat
  BY <1>4, <1>6, FS_CardinalityType
<1> QED
  BY <1>1, <1>2, <1>4, <1>5, <1>7, CountsAreNumbers DEF Counts, BlastInv

\* A fault or a restart charges at most one run and leaves at most one entry.
LEMMA CostlyStep ==
  ASSUME TypeOK, BlastInv, IsFiniteSet(Killers)',
         faults' + Restarts' = faults + Restarts + 1,
         NEW x, \A r \in Runs : Charged(r)' => Charged(r) \/ r = x,
         NEW y, pel' \ {wpos'} \subseteq (pel \ {wpos}) \cup {y}
  PROVE  Counts'
<1>1. ChargedRuns' \subseteq ChargedRuns \cup {x}
  BY DEF ChargedRuns
<1>2. IsFiniteSet(ChargedRuns') /\ Cardinality(ChargedRuns') <= Cardinality(ChargedRuns) + 1
  BY <1>1, OneMore DEF BlastInv
<1>3. /\ IsFiniteSet(pel' \ {wpos'})
      /\ Cardinality(pel' \ {wpos'}) <= Cardinality(pel \ {wpos}) + 1
  BY CountsAreNumbers, OneMore
<1>4. Cardinality(ChargedRuns') \in Nat /\ Cardinality(pel' \ {wpos'}) \in Nat
  BY <1>2, <1>3, FS_CardinalityType
<1> QED
  BY <1>2, <1>3, <1>4, CountsAreNumbers DEF Counts, BlastInv

\* A fault: one more of them, and the same kills.
LEMMA FaultStep ==
  ASSUME TypeOK, BlastInv, cpc' = cpc, Fault,
         NEW x, \A r \in Runs : Charged(r)' => Charged(r) \/ r = x,
         NEW y, pel' \ {wpos'} \subseteq (pel \ {wpos}) \cup {y}
  PROVE  Counts'
<1>1. Killers' = Killers /\ Restarts' = Restarts
  BY DEF Killers, Restarts
<1>2. faults' + Restarts' = faults + Restarts + 1
  BY <1>1, CountsAreNumbers DEF Fault
<1> QED
  BY <1>1, <1>2, CostlyStep DEF BlastInv

\* Appending an entry for r delivers nothing and skips nothing.
LEMMA AppendSpreads ==
  ASSUME TypeOK, BlastInv, NEW r \in Runs, stream' = Append(stream, r),
         UNCHANGED <<group, cursor, wpc, wpos>>
  PROVE  /\ Undelivered(r)'
         /\ \A q \in Runs : /\ Undelivered(q) => Undelivered(q)'
                            /\ Skipped(q) => Skipped(q)'
                            /\ InHand(q)' => InHand(q)
                            /\ InHand(q) => InHand(q)'
                            /\ Busy(q) => Busy(q)'
<1>1. /\ Len(stream') = Len(stream) + 1 /\ stream'[Len(stream) + 1] = r
      /\ \A i \in 1..Len(stream) : stream'[i] = stream[i]
      /\ Len(stream) \in Nat /\ cursor \in 0..Len(stream)
  BY DEF TypeOK
<1>2. Undelivered(r)'
  BY <1>1 DEF Undelivered
<1>3. ASSUME NEW q \in Runs PROVE Undelivered(q) => Undelivered(q)'
  BY <1>1 DEF Undelivered
<1>4. ASSUME NEW q \in Runs PROVE Skipped(q) => Skipped(q)'
  <2>1. \A i \in 1..group : i \in 1..Len(stream)
    BY <1>1 DEF BlastInv, TypeOK, NoGroup
  <2> QED
    BY <1>1, <2>1 DEF Skipped
<1>5. wpc \notin {"down", "idle"} => wrun' = wrun
  BY AppendKeepsHand
<1> QED
  BY <1>2, <1>3, <1>4, <1>5 DEF InHand, Busy

\* A step that keeps the rows, the queue and the worker only changes the
\* charges of the runs whose submitter moves.
LEMMA ChargedFrame ==
  ASSUME UNCHANGED <<row, stream, group, cursor, wpc, wpos>>,
         NEW q \in Runs, hpc'[q] = hpc[q]
  PROVE  Charged(q)' => Charged(q)
BY DEF Charged, Undelivered, Skipped, InHand, Busy, wrun

\* The worker gives the run in its hand up, or never had one: that run only may
\* be charged.
LEMMA HandOpens ==
  ASSUME UNCHANGED <<row, hpc, stream, group, cursor>>,
         wpc' \notin {"got", "started", "executing"}, NEW q \in Runs
  PROVE  Charged(q)' => Charged(q) \/ q = wrun
BY DEF Charged, Undelivered, Skipped, InHand, Busy

\* The shape of the queue: the group begins inside the stream, and a worker
\* without an entry has none.
LEMMA ShapeNext ==
  TypeOK /\ BlastInv /\ [Next]_vars =>
    group' <= Len(stream') /\ (wpc' \in {"down", "idle"} => wpos' = 0)
<1> SUFFICES ASSUME TypeOK, BlastInv, [Next]_vars
             PROVE  group' <= Len(stream') /\ (wpc' \in {"down", "idle"} => wpos' = 0)
  OBVIOUS
<1>1. /\ group <= Len(stream) /\ (wpc \in {"down", "idle"} => wpos = 0)
      /\ Len(stream) \in Nat /\ group \in Int
  BY DEF BlastInv, TypeOK, NoGroup
<1>2. ASSUME NEW r \in Runs, EnqueueJob(r) \/ EnqueueLosesReply(r)
      PROVE  group' <= Len(stream') /\ UNCHANGED <<wpc, wpos>>
  <2>1. stream' = Append(stream, r) /\ UNCHANGED <<group, wpc, wpos>>
    BY <1>2 DEF EnqueueJob, EnqueueLosesReply, workerVars
  <2>2. Len(stream') = Len(stream) + 1
    BY <2>1 DEF TypeOK
  <2> QED
    BY <1>1, <2>1, <2>2
<1>3. ASSUME NEW r \in Runs,
             InsertJobRun(r) \/ EnqueueFails(r) \/ EnqueueExpires(r) \/ RunAborts(r)
               \/ MarkFailed(r) \/ MarkFailedErrors(r)
      PROVE  UNCHANGED <<stream, group, wpc, wpos>>
  BY <1>3 DEF InsertJobRun, EnqueueFails, EnqueueExpires, RunAborts, MarkFailed,
              MarkFailedErrors, redisVars, workerVars
<1>4. ASSUME NEW c \in Cancellers,
             CancelActiveRuns(c) \/ CancelStep(c) \/ CancelAllErrors(c)
      PROVE  /\ UNCHANGED <<stream, group>>
             /\ UNCHANGED <<wpc, wpos>> \/ wpos' = 0
  BY <1>4 DEF CancelActiveRuns, CancelStep, PublishCancelled, FinishCancelAll,
              CancelAllErrors, redisVars, workerVars
<1>5. CASE ClearTerminalRuns
  BY <1>1, <1>5 DEF ClearTerminalRuns, redisVars, workerVars
<1>6. CASE WorkerStarts
  BY <1>1, <1>6 DEF WorkerStarts
<1>7. CASE \/ ReadMessage \/ RejectUnknown \/ MarkRunning \/ SkipMessage
           \/ PublishRunning \/ (\E s \in Terminal : MarkTerminal(s))
           \/ PublishTerminal \/ AckMessage \/ WorkerRaises \/ WorkerDies
  <2>1. UNCHANGED <<stream, group>>
    BY <1>7 DEF ReadMessage, RejectUnknown, MarkRunning, SkipMessage,
                PublishRunning, MarkTerminal, PublishTerminal, AckMessage,
                WorkerRaises, WorkerDies, redisVars
  <2>2. wpc' \in {"down", "idle"} => wpos' = 0
    BY <1>7 DEF ReadMessage, RejectUnknown, MarkRunning, SkipMessage,
                PublishRunning, MarkTerminal, PublishTerminal, AckMessage,
                WorkerRaises, WorkerDies
  <2> QED
    BY <1>1, <2>1, <2>2
<1>8. CASE UNCHANGED vars
  BY <1>1, <1>8 DEF vars
<1> QED
  BY <1>1, <1>2, <1>3, <1>4, <1>5, <1>6, <1>7, <1>8 DEF Next, RunStep, WorkerStep

\* Every step of a request handler keeps the counts.
LEMMA RunStepCounts ==
  ASSUME TypeOK, LifeInv, BlastInv, NEW r \in Runs,
         \/ InsertJobRun(r) \/ RunStep(r) \/ EnqueueLosesReply(r)
         \/ EnqueueFails(r) \/ EnqueueExpires(r) \/ RunAborts(r)
  PROVE  Counts'
<1>0. pel' \ {wpos'} \subseteq pel \ {wpos} /\ cpc' = cpc
  BY DEF RunStep, InsertJobRun, EnqueueJob, EnqueueLosesReply, EnqueueFails,
         EnqueueExpires, RunAborts, MarkFailed, MarkFailedErrors, redisVars,
         workerVars, cancelVars
<1>1. CASE InsertJobRun(r)
  <2>1. /\ UNCHANGED <<stream, group, cursor, wpc, wpos, faults>>
        /\ hpc'[r] = "inserted" /\ row'[r] = "queued"
        /\ \A q \in Runs \ {r} : hpc'[q] = hpc[q] /\ row'[q] = row[q]
    BY <1>1 DEF InsertJobRun, redisVars, workerVars, TypeOK
  <2>2. \A q \in Runs : Charged(q)' => Charged(q)
    BY <2>1 DEF Charged, Undelivered, Skipped, InHand, Busy, wrun
  <2> QED
    BY <1>0, <2>1, <2>2, QuietStep
<1>2. CASE EnqueueJob(r)
  <2>1. /\ UNCHANGED <<row, group, cursor, wpc, wpos, faults>>
        /\ stream' = Append(stream, r)
        /\ hpc[r] = "inserted" /\ hpc'[r] = "answered"
        /\ \A q \in Runs \ {r} : hpc'[q] = hpc[q]
    BY <1>2 DEF EnqueueJob, workerVars, dbVars, TypeOK
  <2>2. \A q \in Runs : Charged(q)' => Charged(q)
    BY <2>1, AppendSpreads DEF Charged
  <2> QED
    BY <1>0, <2>1, <2>2, QuietStep
<1>3. CASE EnqueueLosesReply(r)
  <2>1. /\ UNCHANGED <<row, hpc, group, cursor, wpc, wpos>>
        /\ stream' = Append(stream, r) /\ faults' = faults + 1
    BY <1>3 DEF EnqueueLosesReply, workerVars, dbVars, runVars, Fault
  <2>2. \A q \in Runs : Charged(q)' => Charged(q)
    BY <2>1, AppendSpreads DEF Charged
  <2> QED
    BY <1>0, <2>1, <2>2, QuietStep
<1>4. CASE \/ EnqueueFails(r) \/ EnqueueExpires(r) \/ RunAborts(r)
           \/ MarkFailedErrors(r) /\ Fault
  <2>1. /\ UNCHANGED <<row, stream, group, cursor, wpc, wpos>> /\ Fault
        /\ \A q \in Runs \ {r} : hpc'[q] = hpc[q]
    BY <1>4 DEF EnqueueFails, EnqueueExpires, RunAborts, MarkFailedErrors,
                redisVars, workerVars, dbVars, TypeOK
  <2>2. \A q \in Runs : Charged(q)' => Charged(q) \/ q = r
    BY <2>1, ChargedFrame
  <2> QED
    BY <1>0, <2>1, <2>2, FaultStep
<1>5. CASE MarkFailedErrors(r) /\ hpc[r] = "expired" /\ UNCHANGED faults
  <2>1. /\ UNCHANGED <<row, stream, group, cursor, wpc, wpos>>
        /\ \A q \in Runs \ {r} : hpc'[q] = hpc[q]
    BY <1>5 DEF MarkFailedErrors, redisVars, workerVars, dbVars, TypeOK
  <2>2. \A q \in Runs : Charged(q)' => Charged(q)
    BY <1>5, <2>1, ChargedFrame DEF Charged
  <2> QED
    BY <1>0, <1>5, <2>2, QuietStep
<1>6. CASE MarkFailed(r)
  <2>1. /\ UNCHANGED <<stream, group, cursor, wpc, wpos, faults>>
        /\ hpc'[r] = "answered" /\ row'[r] \notin Active
        /\ \A q \in Runs \ {r} : hpc'[q] = hpc[q] /\ row'[q] = row[q]
    BY <1>6 DEF MarkFailed, Overwrite, Present, redisVars, workerVars, TypeOK
  <2>2. \A q \in Runs : Charged(q)' => Charged(q)
    BY <2>1 DEF Charged, Undelivered, Skipped, InHand, Busy, wrun
  <2> QED
    BY <1>0, <2>1, <2>2, QuietStep
<1> QED
  BY <1>1, <1>2, <1>3, <1>4, <1>5, <1>6 DEF RunStep, MarkFailedErrors

\* Every step of a cancel-all keeps the counts.
LEMMA CancelCounts ==
  ASSUME TypeOK, BlastInv, NEW c \in Cancellers,
         CancelActiveRuns(c) \/ CancelStep(c) \/ CancelAllErrors(c)
  PROVE  Counts'
<1>1. CASE CancelActiveRuns(c)
  <2>1. UNCHANGED <<hpc, stream, group, cursor, pel, wpc, wpos, faults>>
    BY <1>1 DEF CancelActiveRuns, runVars, redisVars, workerVars
  <2>2. \A q \in Runs : row'[q] \in Active => row'[q] = row[q]
    BY <1>1 DEF CancelActiveRuns
  <2>3. \A q \in Runs : Charged(q)' => Charged(q)
    BY <2>1, <2>2 DEF Charged, Undelivered, Skipped, InHand, Busy, wrun
  <2>4. Killers' = Killers
    BY <1>1 DEF CancelActiveRuns, Killers, TypeOK
  <2> QED
    BY <2>1, <2>3, <2>4, QuietStep
<1>2. CASE \/ PublishCancelled(c)
           \/ CancelAllErrors(c)
           \/ FinishCancelAll(c) /\ ~chad[c]
  <2>1. UNCHANGED <<row, hpc, stream, group, cursor, pel, wpc, wpos>>
    BY <1>2 DEF PublishCancelled, CancelAllErrors, FinishCancelAll, dbVars,
                runVars, redisVars, workerVars
  <2>2. \A q \in Runs : Charged(q)' => Charged(q)
    BY <2>1, ChargedFrame
  <2>3. Killers' = Killers
    BY <1>2 DEF PublishCancelled, CancelAllErrors, FinishCancelAll, Killers, TypeOK
  <2>4. faults' = faults \/ faults' = faults + 1
    BY <1>2 DEF PublishCancelled, CancelAllErrors, FinishCancelAll, Fault
  <2> QED
    BY <2>1, <2>2, <2>3, <2>4, QuietStep
<1>3. CASE FinishCancelAll(c) /\ chad[c]
  <2>1. /\ UNCHANGED <<row, hpc, stream, group, cursor, pel, faults>>
        /\ wpc' = "down" /\ wpos' = 0 /\ cpc[c] = "publishing"
        /\ cpc' = [cpc EXCEPT ![c] = "restarted"]
    BY <1>3 DEF FinishCancelAll, dbVars, runVars, redisVars
  <2>2. \A q \in Runs : Charged(q)' => Charged(q) \/ q = wrun
    BY <2>1, HandOpens
  <2>3. Killers' = Killers \cup {c} /\ c \notin Killers
    BY <2>1 DEF Killers, TypeOK
  <2>4. IsFiniteSet(Killers') /\ Restarts' = Restarts + 1
    BY <2>3, FS_AddElement DEF BlastInv, Restarts, Killers
  <2>5. faults' + Restarts' = faults + Restarts + 1
    BY <2>1, <2>4, CountsAreNumbers
  <2>6. pel' \ {wpos'} \subseteq (pel \ {wpos}) \cup {wpos}
    BY <2>1
  <2> QED
    BY <2>2, <2>4, <2>5, <2>6, CostlyStep
<1>4. chad[c] = TRUE \/ chad[c] = FALSE
  BY DEF TypeOK
<1> QED
  BY <1>1, <1>2, <1>3, <1>4 DEF CancelStep

\* Every step of the worker keeps the counts.
LEMMA WorkerCounts ==
  ASSUME TypeOK, LifeInv, BlastInv, WorkerStep \/ WorkerRaises \/ WorkerDies
  PROVE  Counts'
<1>0. hpc' = hpc /\ cpc' = cpc
  BY DEF WorkerStep, WorkerStarts, ReadMessage, RejectUnknown, MarkRunning,
         SkipMessage, PublishRunning, MarkTerminal, PublishTerminal, AckMessage,
         WorkerRaises, WorkerDies, runVars, cancelVars
<1>1. CASE WorkerStarts
  <2>1. /\ UNCHANGED <<row, stream, pel, wpos, faults>>
        /\ wpc = "down" /\ wpc' = "idle"
    BY <1>1 DEF WorkerStarts, dbVars
  <2>2. CASE group = NoGroup
    <3>1. group' = Len(stream) /\ Len(stream) \in Nat /\ cursor \in Nat
      BY <1>1, <2>2 DEF WorkerStarts, TypeOK
    <3>2. \A q \in Runs : ~Skipped(q)' => ~Undelivered(q) /\ ~Skipped(q)
      BY <2>1, <2>2, <3>1 DEF Skipped, Undelivered, NoGroup
    <3>3. \A q \in Runs : Charged(q)' => Charged(q)
      BY <1>0, <2>1, <3>2 DEF Charged, InHand, Busy
    <3> QED
      BY <1>0, <2>1, <3>3, QuietStep
  <2>3. CASE group # NoGroup
    <3>1. UNCHANGED <<group, cursor>>
      BY <1>1, <2>3 DEF WorkerStarts
    <3>2. \A q \in Runs : Charged(q)' => Charged(q)
      BY <1>0, <2>1, <3>1 DEF Charged, Undelivered, Skipped, InHand, Busy
    <3> QED
      BY <1>0, <2>1, <3>2, QuietStep
  <2> QED
    BY <2>2, <2>3
<1>2. CASE ReadMessage
  <2>1. /\ UNCHANGED <<row, stream, group, faults>> /\ wpc = "idle" /\ wpc' = "got"
        /\ cursor' = cursor + 1 /\ wpos' = cursor + 1 /\ wrun' = stream[cursor + 1]
        /\ pel' = pel \cup {cursor + 1}
    BY <1>2 DEF ReadMessage, dbVars, wrun
  <2>2. \A q \in Runs : ~Undelivered(q)' /\ ~InHand(q)' => ~Undelivered(q)
    BY <2>1 DEF Undelivered, InHand, TypeOK
  <2>3. \A q \in Runs : Charged(q)' => Charged(q)
    BY <1>0, <2>1, <2>2 DEF Charged, Skipped, InHand, Busy
  <2>4. pel' \ {wpos'} \subseteq pel \ {wpos}
    <3>1. wpos = 0 /\ 0 \notin pel
      BY <2>1 DEF BlastInv, TypeOK
    <3> QED
      BY <2>1, <3>1
  <2> QED
    BY <1>0, <2>1, <2>3, <2>4, QuietStep
<1>3. CASE RejectUnknown \/ MarkRunning \/ SkipMessage
            \/ (\E s \in Terminal : MarkTerminal(s))
  <2>1. UNCHANGED <<stream, group, cursor, pel, wpos, faults>> /\ wrun' = wrun
    BY <1>3 DEF RejectUnknown, MarkRunning, SkipMessage, MarkTerminal, redisVars,
                wrun
  <2>2. wrun \in Runs
    BY <1>3, WorkerRunType DEF RejectUnknown, MarkRunning, SkipMessage, MarkTerminal
  <2>3. \A q \in Runs \ {wrun} : row'[q] = row[q]
    <3>1. CASE RejectUnknown \/ (\E s \in Terminal : MarkTerminal(s))
      BY <2>2, <3>1, OverwriteValue DEF RejectUnknown, MarkTerminal
    <3>2. CASE MarkRunning \/ SkipMessage
      BY <2>2, <3>2 DEF MarkRunning, SkipMessage, dbVars, TypeOK
    <3> QED
      BY <1>3, <3>1, <3>2
  <2>4. \A q \in Runs \ {wrun} : Charged(q)' => Charged(q)
    BY <1>0, <2>1, <2>3 DEF Charged, Undelivered, Skipped, InHand, Busy
  <2>5. \/ row'[wrun] \notin Active
        \/ row'[wrun] = "running" /\ wpc' = "started"
        \/ row'[wrun] = row[wrun] /\ row[wrun] # "queued" /\ wpc = "got"
    BY <1>3, <2>2 DEF RejectUnknown, MarkRunning, SkipMessage, MarkTerminal, dbVars,
                      Overwrite, Present, TypeOK
  <2>6. Charged(wrun)' => Charged(wrun)
    BY <1>0, <2>1, <2>5 DEF Charged, Busy
  <2>7. \A q \in Runs : Charged(q)' => Charged(q)
    BY <2>1, <2>4, <2>6
  <2> QED
    BY <1>0, <2>1, <2>7, QuietStep
<1>4. CASE PublishRunning \/ PublishTerminal \/ AckMessage
  <2>1. /\ UNCHANGED <<row, stream, group, cursor, faults>>
        /\ pel' \ {wpos'} \subseteq pel \ {wpos}
    BY <1>4 DEF PublishRunning, PublishTerminal, AckMessage, dbVars, redisVars
  <2>2. \/ wpc = "started" /\ wpc' = "executing" /\ wrun' = wrun
        \/ /\ wpc \notin {"got", "started", "executing"}
           /\ wpc' \notin {"got", "started", "executing"}
    BY <1>4 DEF PublishRunning, PublishTerminal, AckMessage, redisVars, wrun
  <2>3. \A q \in Runs : Charged(q)' => Charged(q)
    BY <1>0, <2>1, <2>2 DEF Charged, Undelivered, Skipped, InHand, Busy
  <2> QED
    BY <1>0, <2>1, <2>3, QuietStep
<1>5. CASE WorkerRaises \/ WorkerDies
  <2>1. /\ UNCHANGED <<row, stream, group, cursor, pel>> /\ Fault
        /\ wpc' \notin {"got", "started", "executing"}
    BY <1>5 DEF WorkerRaises, WorkerDies, dbVars, redisVars
  <2>2. \A q \in Runs : Charged(q)' => Charged(q) \/ q = wrun
    BY <1>0, <2>1, HandOpens
  <2>3. pel' \ {wpos'} \subseteq (pel \ {wpos}) \cup {wpos}
    BY <2>1
  <2> QED
    BY <1>0, <2>1, <2>2, <2>3, FaultStep
<1> QED
  BY <1>1, <1>2, <1>3, <1>4, <1>5 DEF WorkerStep

\* BlastInv is inductive relative to the types and to LifeInv.
LEMMA BlastNext == TypeOK /\ LifeInv /\ BlastInv /\ [Next]_vars => BlastInv'
<1> SUFFICES ASSUME TypeOK, LifeInv, BlastInv, [Next]_vars PROVE BlastInv'
  OBVIOUS
<1>1. ASSUME ClearTerminalRuns PROVE Counts'
  <2>1. UNCHANGED <<hpc, stream, group, cursor, pel, wpc, wpos, cpc, faults>>
    BY <1>1 DEF ClearTerminalRuns, runVars, redisVars, workerVars, cancelVars
  <2>2. \A q \in Runs : row'[q] \in Active => row'[q] = row[q]
    BY <1>1 DEF ClearTerminalRuns
  <2>3. \A q \in Runs : Charged(q)' => Charged(q)
    BY <2>1, <2>2 DEF Charged, Undelivered, Skipped, InHand, Busy, wrun
  <2> QED
    BY <2>1, <2>3, QuietStep
<1>2. ASSUME UNCHANGED vars PROVE Counts'
  <2>1. \A q \in Runs : Charged(q)' => Charged(q)
    BY <1>2, ChargedFrame DEF vars
  <2> QED
    BY <1>2, <2>1, QuietStep DEF vars
<1>3. Counts'
  BY <1>1, <1>2, RunStepCounts, CancelCounts, WorkerCounts DEF Next
<1> QED
  BY <1>3, ShapeNext DEF BlastInv, Counts

\* Whatever number of runs, cancellations and faults: one fault, or one kill of
\* the worker by a cancel-all, strands at most one run and leaves at most one
\* entry pending that nobody handles.
THEOREM FaultsReachOneRun == Spec => []BlastRadius
<1>1. Spec => []BlastInv
  BY BlastInit, BlastNext, TypeCorrect, LifeCorrect, PTL DEF Spec
<1>2. TypeOK /\ BlastInv => BlastRadius
  <2> SUFFICES ASSUME TypeOK, BlastInv PROVE BlastRadius
    OBVIOUS
  <2> DEFINE S == {r \in Runs : Stranded(r) /\ ~Skipped(r)}
  <2>1. S \subseteq ChargedRuns
    BY DEF ChargedRuns, Charged, Stranded, InHand, Busy
  <2>2. IsFiniteSet(S) /\ Cardinality(S) <= Cardinality(ChargedRuns)
    BY <2>1, FS_Subset DEF BlastInv
  <2>3. Cardinality(S) \in Nat
    BY <2>2, FS_CardinalityType
  <2> QED
    BY <2>2, <2>3, CountsAreNumbers DEF BlastInv, BlastRadius
<1> QED
  BY <1>1, <1>2, TypeCorrect, PTL

-----------------------------------------------------------------------------
(***************************************************************************)
(* The queue implements JobRuns.                                           *)
(***************************************************************************)
\* The hidden parts of JobRuns, as Promise computes them.
Ran    == {r \in Runs : starts[r] > 0}
Ended  == {r \in Runs : ends[r] > 0}
Unsure == {r \in Runs : hpc[r] \in {"failing", "expired"}}

USE DEF Promise!Active, Promise!Natural, Promise!Terminal

\* The initial states of the queue are those of JobRuns.
LEMMA PromiseInit == Init => Promise!Init
  BY DEF Init, Promise!Init

\* A step that changes neither the rows nor the counters, nor which
\* submitters are unsure, is one JobRuns does not see.
LEMMA PromiseStutter ==
  ASSUME UNCHANGED <<row, starts, ends>>, Unsure' = Unsure
  PROVE  UNCHANGED Promise!vars
  BY DEF Promise!vars, Unsure

\* Every step of the queue is a step of JobRuns or one it does not see.
LEMMA PromiseNext == TypeOK /\ LifeInv /\ [Next]_vars => [Promise!Next]_(Promise!vars)
<1> SUFFICES ASSUME TypeOK, LifeInv, [Next]_vars
             PROVE  [Promise!Next]_(Promise!vars)
  OBVIOUS
<1>1. ASSUME NEW r \in Runs, InsertJobRun(r) PROVE Promise!Submit(r)
  <2>1. row[r] = "absent"
    BY <1>1 DEF LifeInv, InsertJobRun
  <2>2. Unsure' = Unsure
    BY <1>1 DEF TypeOK, InsertJobRun, Unsure
  <2> QED
    BY <1>1, <2>1, <2>2 DEF InsertJobRun, Promise!Submit, Unsure
<1>2. ASSUME NEW r \in Runs, EnqueueFails(r) \/ EnqueueExpires(r) PROVE Promise!Doubt(r)
  <2>1. row[r] # "absent" /\ UNCHANGED <<row, starts, ends>>
    BY <1>2 DEF LifeInv, EnqueueFails, EnqueueExpires, dbVars
  <2>2. Unsure' = Unsure \cup {r}
    BY <1>2 DEF TypeOK, EnqueueFails, EnqueueExpires, Unsure
  <2> QED
    BY <2>1, <2>2 DEF Promise!Doubt, Unsure
<1>3. ASSUME NEW r \in Runs, MarkFailed(r) PROVE Promise!Disown(r)
  <2>1. r \in Unsure /\ Unsure' = Unsure \ {r} /\ UNCHANGED <<starts, ends>>
    BY <1>3 DEF TypeOK, MarkFailed, Unsure
  <2>2. \/ Promise!Present(r) /\ row' = [row EXCEPT ![r] = "failed"]
        \/ UNCHANGED row
    BY <1>3 DEF MarkFailed, Overwrite, Present, Promise!Present
  <2> QED
    BY <2>1, <2>2 DEF Promise!Disown, Unsure
<1>4. ASSUME NEW r \in Runs, MarkFailedErrors(r) PROVE Promise!Disown(r)
  <2>1. r \in Unsure /\ Unsure' = Unsure \ {r}
    BY <1>4 DEF TypeOK, MarkFailedErrors, Unsure
  <2> QED
    BY <1>4, <2>1 DEF MarkFailedErrors, dbVars, Promise!Disown, Unsure
<1>5. ASSUME NEW r \in Runs, RunAborts(r)
      PROVE  Promise!Disown(r) \/ UNCHANGED Promise!vars
  <2>1. UNCHANGED <<row, starts, ends>>
    BY <1>5 DEF RunAborts, dbVars
  <2>2. CASE r \in Unsure
    <3>1. Unsure' = Unsure \ {r}
      BY <1>5 DEF TypeOK, RunAborts, Unsure
    <3> QED
      BY <2>1, <2>2, <3>1 DEF Promise!Disown, Unsure
  <2>3. CASE r \notin Unsure
    <3>1. Unsure' = Unsure
      BY <1>5, <2>3 DEF TypeOK, RunAborts, Unsure
    <3> QED
      BY <2>1, <3>1, PromiseStutter
  <2> QED
    BY <2>2, <2>3
<1>6. ASSUME NEW r \in Runs, EnqueueJob(r) \/ EnqueueLosesReply(r)
      PROVE  UNCHANGED Promise!vars
  <2>1. UNCHANGED <<row, starts, ends>>
    BY <1>6 DEF EnqueueJob, EnqueueLosesReply, dbVars
  <2>2. Unsure' = Unsure
    BY <1>6 DEF TypeOK, EnqueueJob, EnqueueLosesReply, runVars, Unsure
  <2> QED
    BY <2>1, <2>2, PromiseStutter
<1>7. ASSUME NEW c \in Cancellers, CancelActiveRuns(c) PROVE Promise!CancelAll
  <2>1. row' = [r \in Runs |-> IF row[r] \in Active THEN "cancelled" ELSE row[r]]
    BY <1>7 DEF CancelActiveRuns
  <2>2. UNCHANGED <<starts, ends, hpc>>
    BY <1>7 DEF CancelActiveRuns, runVars
  <2> QED
    BY <2>1, <2>2 DEF Promise!CancelAll
<1>8. CASE ClearTerminalRuns
  <2>1. row' = [r \in Runs |-> IF row[r] \in Terminal THEN "gone" ELSE row[r]]
    BY <1>8 DEF ClearTerminalRuns, Present
  <2>2. UNCHANGED <<starts, ends, hpc>>
    BY <1>8 DEF ClearTerminalRuns, runVars
  <2> QED
    BY <2>1, <2>2 DEF Promise!Clear, Promise!Next
<1>9. ASSUME NEW r \in Runs, r = wrun, MarkRunning PROVE Promise!Start(r)
  <2>1. starts[r] = 0
    BY <1>9 DEF MarkRunning, LifeInv
  <2>2. Ran' = Ran \cup {r} /\ r \notin Ran
    BY <1>9, <2>1 DEF TypeOK, MarkRunning, Ran
  <2>3. UNCHANGED <<ends, hpc>> /\ row[r] = "queued"
        /\ row' = [row EXCEPT ![r] = "running"]
    BY <1>9 DEF MarkRunning, runVars
  <2> QED
    BY <2>2, <2>3 DEF Promise!Start, Ran
<1>10. ASSUME NEW r \in Runs, r = wrun, NEW s \in Terminal, MarkTerminal(s)
       PROVE  Promise!Finish(r, s)
  <2>1. /\ starts[r] = 1 /\ ends[r] = 0
        /\ row[r] \in {"running", "cancelled", "failed", "gone"}
    BY <1>10 DEF MarkTerminal, LifeInv
  <2>2. Ended' = Ended \cup {r} /\ r \in Ran \ Ended
    BY <1>10, <2>1 DEF TypeOK, MarkTerminal, Ran, Ended
  <2>3. UNCHANGED <<starts, hpc>> /\ row' = Overwrite(r, s)
    BY <1>10 DEF MarkTerminal, runVars
  <2>4. \/ row[r] \in {"running", "cancelled", "failed"}
           /\ row' = [row EXCEPT ![r] = s]
        \/ row[r] = "gone" /\ UNCHANGED row
    BY <2>1, <2>3 DEF Overwrite, Present
  <2> QED
    BY <2>2, <2>3, <2>4 DEF Promise!Finish, Ran, Ended
<1>11. ASSUME NEW r \in Runs, r = wrun, RejectUnknown
       PROVE  Promise!Reject(r) \/ UNCHANGED Promise!vars
  <2>1. starts[r] = 0
    BY <1>11 DEF RejectUnknown, LifeInv
  <2>2. UNCHANGED <<starts, ends, hpc>> /\ row' = Overwrite(r, "failed")
    BY <1>11 DEF RejectUnknown, runVars
  <2>3. CASE Present(r)
    <3>1. Promise!Present(r) /\ row' = [row EXCEPT ![r] = "failed"]
      BY <2>2, <2>3 DEF Present, Promise!Present, Overwrite
    <3> QED
      BY <2>1, <2>2, <3>1 DEF Promise!Reject
  <2>4. CASE ~Present(r)
    BY <2>2, <2>4, PromiseStutter DEF Overwrite, Unsure
  <2> QED
    BY <2>3, <2>4
<1>12. CASE \/ WorkerStarts \/ ReadMessage \/ SkipMessage \/ PublishRunning
            \/ PublishTerminal \/ AckMessage \/ WorkerRaises \/ WorkerDies
  <2>1. UNCHANGED <<row, starts, ends, hpc>>
    BY <1>12 DEF WorkerStarts, ReadMessage, SkipMessage, PublishRunning,
                 PublishTerminal, AckMessage, WorkerRaises, WorkerDies,
                 dbVars, runVars
  <2> QED
    BY <2>1, PromiseStutter DEF Unsure
<1>13. ASSUME NEW c \in Cancellers,
              PublishCancelled(c) \/ FinishCancelAll(c) \/ CancelAllErrors(c)
       PROVE  UNCHANGED Promise!vars
  <2>1. UNCHANGED <<row, starts, ends, hpc>>
    BY <1>13 DEF PublishCancelled, FinishCancelAll, CancelAllErrors, dbVars, runVars
  <2> QED
    BY <2>1, PromiseStutter DEF Unsure
<1>14. CASE UNCHANGED vars
  BY <1>14, PromiseStutter DEF vars, Unsure
<1>15. ASSUME NEW r \in Runs,
              InsertJobRun(r) \/ RunStep(r) \/ EnqueueLosesReply(r)
                \/ EnqueueFails(r) \/ EnqueueExpires(r) \/ RunAborts(r)
       PROVE  Promise!Next \/ UNCHANGED Promise!vars
  BY <1>1, <1>2, <1>3, <1>4, <1>5, <1>6, <1>15 DEF RunStep, Promise!Next
<1>16. ASSUME NEW c \in Cancellers,
              CancelActiveRuns(c) \/ CancelStep(c) \/ CancelAllErrors(c)
       PROVE  Promise!Next \/ UNCHANGED Promise!vars
  BY <1>7, <1>13, <1>16 DEF CancelStep, Promise!Next
<1>17. CASE WorkerStep \/ WorkerRaises \/ WorkerDies
  <2>1. CASE MarkRunning \/ (\E s \in Terminal : MarkTerminal(s)) \/ RejectUnknown
    <3>1. PICK r \in Runs : r = wrun
      BY <2>1, WorkerRunType DEF MarkRunning, MarkTerminal, RejectUnknown
    <3> QED
      BY <1>9, <1>10, <1>11, <2>1, <3>1 DEF Promise!Next
  <2> QED
    BY <1>12, <1>17, <2>1 DEF WorkerStep
<1> QED
  BY <1>8, <1>14, <1>15, <1>16, <1>17 DEF Next

-----------------------------------------------------------------------------
(***************************************************************************)
(* The queue implements RunEvents.                                         *)
(***************************************************************************)
\* The hidden part of RunEvents that Feed computes from the cancel-alls.
Revoked == UNION {cset[c] : c \in Cancellers}

USE DEF Feed!Active, Feed!Terminal

\* What a cancel-all has to announce is over, is announced by nobody else, and
\* is there only while its handler runs.
CancelInv ==
  \A c \in Cancellers :
    /\ \A r \in cset[c] : row[r] \in Terminal \cup {"gone"}
    /\ \A d \in Cancellers \ {c} : cset[c] \cap cset[d] = {}
    /\ cset[c] # {} => cpc[c] = "publishing"

\* Initially no cancel-all has anything to announce.
LEMMA CancelInit == Init => CancelInv
  BY DEF Init, CancelInv

\* A step that starts no cancel-all and takes no run that is over back keeps
\* the invariant.
LEMMA CancelFrame ==
  ASSUME TypeOK, CancelInv, UNCHANGED <<cset, cpc>>,
         \A r \in Runs : row[r] \in Terminal \cup {"gone"} =>
                           row'[r] \in Terminal \cup {"gone"}
  PROVE  CancelInv'
  BY DEF CancelInv, TypeOK

\* CancelInv is inductive relative to the types and to LifeInv.
LEMMA CancelNext == TypeOK /\ LifeInv /\ CancelInv /\ [Next]_vars => CancelInv'
<1> SUFFICES ASSUME TypeOK, LifeInv, CancelInv, [Next]_vars PROVE CancelInv'
  OBVIOUS
<1>1. ASSUME NEW c \in Cancellers, CancelActiveRuns(c) PROVE CancelInv'
  <2>1. /\ cset' = [cset EXCEPT ![c] = {r \in Runs : row[r] \in Active}]
        /\ cpc' = [cpc EXCEPT ![c] = "publishing"]
        /\ row' = [r \in Runs |-> IF row[r] \in Active THEN "cancelled" ELSE row[r]]
    BY <1>1 DEF CancelActiveRuns
  <2>2. \A d \in Cancellers \ {c} : cset'[d] = cset[d] /\ cpc'[d] = cpc[d]
    BY <2>1 DEF TypeOK
  <2>3. cset'[c] = {r \in Runs : row[r] \in Active} /\ cpc'[c] = "publishing"
    BY <2>1 DEF TypeOK
  <2>4. \A d \in Cancellers : \A r \in cset[d] : r \in Runs /\ row[r] \notin Active
    BY DEF CancelInv, TypeOK
  <2>5. \A d \in Cancellers : \A r \in cset'[d] : row'[r] \in Terminal \cup {"gone"}
    BY <2>1, <2>2, <2>3, <2>4 DEF CancelInv
  <2>6. \A d \in Cancellers : \A e \in Cancellers \ {d} : cset'[d] \cap cset'[e] = {}
    BY <2>2, <2>3, <2>4 DEF CancelInv
  <2> QED
    BY <2>2, <2>3, <2>5, <2>6 DEF CancelInv
<1>2. ASSUME NEW c \in Cancellers, PublishCancelled(c) PROVE CancelInv'
  <2>1. PICK r \in cset[c] : cset' = [cset EXCEPT ![c] = cset[c] \ {r}]
    BY <1>2 DEF PublishCancelled
  <2>2. UNCHANGED <<row, cpc>>
    BY <1>2 DEF PublishCancelled, dbVars
  <2> QED
    BY <2>1, <2>2 DEF CancelInv, TypeOK
<1>3. ASSUME NEW c \in Cancellers, FinishCancelAll(c) PROVE CancelInv'
  <2>1. cset[c] = {} /\ UNCHANGED <<row, cset>>
    BY <1>3 DEF FinishCancelAll, dbVars
  <2>2. \A d \in Cancellers \ {c} : cpc'[d] = cpc[d]
    BY <1>3 DEF FinishCancelAll, TypeOK
  <2> QED
    BY <2>1, <2>2 DEF CancelInv
<1>4. ASSUME NEW c \in Cancellers, CancelAllErrors(c) PROVE CancelInv'
  <2>1. /\ cset' \in [Cancellers -> SUBSET Runs]
        /\ cset'[c] \subseteq cset[c]
        /\ cset'[c] # {} => cpc'[c] = "publishing"
        /\ \A d \in Cancellers \ {c} : cset'[d] = cset[d] /\ cpc'[d] = cpc[d]
    BY <1>4 DEF CancelAllErrors, TypeOK
  <2>2. UNCHANGED row
    BY <1>4 DEF CancelAllErrors, dbVars
  <2>3. \A d \in Cancellers : cset'[d] \subseteq cset[d]
    BY <2>1
  <2> QED
    BY <2>1, <2>2, <2>3 DEF CancelInv
<1>5. ASSUME NEW r \in Runs,
             InsertJobRun(r) \/ RunStep(r) \/ EnqueueLosesReply(r)
               \/ EnqueueFails(r) \/ EnqueueExpires(r) \/ RunAborts(r)
      PROVE  CancelInv'
  <2>1. CASE InsertJobRun(r)
    <3>1. row[r] = "absent" /\ row' = [row EXCEPT ![r] = "queued"]
          /\ UNCHANGED <<cset, cpc>>
      BY <2>1 DEF LifeInv, InsertJobRun, cancelVars
    <3> QED
      BY <3>1, CancelFrame DEF TypeOK
  <2>2. CASE MarkFailed(r)
    <3>1. row' = Overwrite(r, "failed") /\ UNCHANGED <<cset, cpc>>
      BY <2>2 DEF MarkFailed, cancelVars
    <3> QED
      BY <3>1, CancelFrame DEF TypeOK, Overwrite, Present
  <2>3. CASE \/ EnqueueJob(r) \/ MarkFailedErrors(r) \/ EnqueueLosesReply(r)
             \/ EnqueueFails(r) \/ EnqueueExpires(r) \/ RunAborts(r)
    BY <2>3, CancelFrame
    DEF EnqueueJob, MarkFailedErrors, EnqueueLosesReply, EnqueueFails,
        EnqueueExpires, RunAborts, dbVars, cancelVars
  <2> QED
    BY <1>5, <2>1, <2>2, <2>3 DEF RunStep
<1>6. CASE ClearTerminalRuns
  <2>1. /\ row' = [r \in Runs |-> IF Present(r) /\ row[r] \notin Active THEN "gone"
                                                                    ELSE row[r]]
        /\ UNCHANGED <<cset, cpc>>
    BY <1>6 DEF ClearTerminalRuns, cancelVars
  <2> QED
    BY <2>1, CancelFrame
<1>7. CASE WorkerStep \/ WorkerRaises \/ WorkerDies
  <2>1. CASE MarkRunning
    <3>1. /\ row[wrun] = "queued" /\ row' = [row EXCEPT ![wrun] = "running"]
          /\ UNCHANGED <<cset, cpc>>
      BY <2>1 DEF MarkRunning, cancelVars
    <3> QED
      BY <3>1, CancelFrame DEF TypeOK
  <2>2. ASSUME NEW s \in Terminal, RejectUnknown \/ MarkTerminal(s) PROVE CancelInv'
    <3>1. /\ wrun \in Runs /\ UNCHANGED <<cset, cpc>>
          /\ row' = Overwrite(wrun, "failed") \/ row' = Overwrite(wrun, s)
      BY <2>2, WorkerRunType DEF RejectUnknown, MarkTerminal, cancelVars
    <3> QED
      BY <3>1, CancelFrame DEF TypeOK, Overwrite, Present
  <2>3. CASE \/ WorkerStarts \/ ReadMessage \/ SkipMessage \/ PublishRunning
             \/ PublishTerminal \/ AckMessage \/ WorkerRaises \/ WorkerDies
    BY <2>3, CancelFrame
    DEF WorkerStarts, ReadMessage, SkipMessage, PublishRunning, PublishTerminal,
        AckMessage, WorkerRaises, WorkerDies, dbVars, cancelVars
  <2> QED
    BY <1>7, <2>1, <2>2, <2>3 DEF WorkerStep
<1>8. CASE UNCHANGED vars
  BY <1>8, CancelFrame DEF vars
<1> QED
  BY <1>1, <1>2, <1>3, <1>4, <1>5, <1>6, <1>7, <1>8 DEF Next, CancelStep

\* Initially nobody has a run in hand and nothing is to be announced.
LEMMA FeedInit == Init => Feed!Init
  BY DEF Init, Feed!Init, Stage

\* A step that leaves the worker where it is, or moves it between places where
\* it has no run in hand, keeps every stage.
LEMMA StageStays ==
  ASSUME \/ UNCHANGED <<wpc, wout>> /\ (wpc \notin {"down", "idle"} => wrun' = wrun)
         \/ /\ wpc \notin {"started", "executing", "marked"}
            /\ wpc' \notin {"started", "executing", "marked"}
  PROVE  Stage' = Stage
  BY DEF Stage

\* A step of the worker that keeps the run it has in hand changes the stage of
\* this run only.
LEMMA StageMoves ==
  ASSUME wrun \in Runs, wrun' = wrun
  PROVE  /\ wpc = "started" => Stage[wrun] = "running"
         /\ wpc = "executing" => Stage[wrun] = "busy"
         /\ wpc = "marked" => Stage[wrun] = wout
         /\ wpc' = "started" => Stage' = [Stage EXCEPT ![wrun] = "running"]
         /\ wpc' = "executing" => Stage' = [Stage EXCEPT ![wrun] = "busy"]
         /\ wpc' = "marked" => Stage' = [Stage EXCEPT ![wrun] = wout']
         /\ wpc' \notin {"started", "executing", "marked"} =>
              Stage' = [Stage EXCEPT ![wrun] = "none"]
  BY DEF Stage

\* A worker that ends has no run in hand any more.
LEMMA StageEnds ==
  ASSUME TypeOK, wpc' \notin {"started", "executing", "marked"},
         UNCHANGED <<row, cset, lastEvent>>
  PROVE  [Feed!Next]_(Feed!vars)
<1>1. Revoked' = Revoked
  BY DEF Revoked
<1>2. CASE wpc \in {"started", "executing", "marked"}
  <2>1. wrun \in Runs /\ wout \in Terminal
    BY <1>2, WorkerRunType DEF TypeOK
  <2>2. Stage[wrun] # "none"
    BY <1>2, <2>1 DEF Stage
  <2>3. Stage' = [Stage EXCEPT ![wrun] = "none"]
    BY <1>2, <2>1 DEF Stage
  <2>4. Feed!Stop(wrun)
    BY <1>1, <2>2, <2>3 DEF Feed!Stop, Revoked
  <2> QED
    BY <2>1, <2>4 DEF Feed!Next, Feed!RunNext
<1>3. CASE wpc \notin {"started", "executing", "marked"}
  BY <1>1, <1>3, StageStays DEF Feed!vars, Revoked
<1> QED
  BY <1>2, <1>3

\* Every step of a submitter is a step of RunEvents or one it does not see.
LEMMA FeedSubmits ==
  ASSUME TypeOK, LifeInv, NEW r \in Runs,
         InsertJobRun(r) \/ RunStep(r) \/ EnqueueLosesReply(r)
           \/ EnqueueFails(r) \/ EnqueueExpires(r) \/ RunAborts(r)
  PROVE  [Feed!Next]_(Feed!vars)
<1>1. UNCHANGED <<cset, lastEvent, wpc, wout, wpos>>
  BY DEF InsertJobRun, RunStep, EnqueueJob, MarkFailed, MarkFailedErrors,
         EnqueueLosesReply, EnqueueFails, EnqueueExpires, RunAborts,
         cancelVars, workerVars
<1>2. stream' = stream \/ stream' = Append(stream, r)
  BY DEF InsertJobRun, RunStep, EnqueueJob, MarkFailed, MarkFailedErrors,
         EnqueueLosesReply, EnqueueFails, EnqueueExpires, RunAborts, redisVars
<1>3. wpc \notin {"down", "idle"} => wrun' = wrun
  BY <1>1, <1>2, AppendKeepsHand DEF wrun
<1>4. Stage' = Stage /\ Revoked' = Revoked
  BY <1>1, <1>3, StageStays DEF Revoked
<1>5. CASE InsertJobRun(r)
  <2>1. row[r] = "absent" /\ row' = [row EXCEPT ![r] = "queued"]
    BY <1>5 DEF LifeInv, InsertJobRun
  <2> QED
    BY <1>1, <1>4, <2>1 DEF Feed!Insert, Feed!RunNext, Feed!Next, Revoked
<1>6. CASE MarkFailed(r)
  <2>1. row' = Overwrite(r, "failed")
    BY <1>6 DEF MarkFailed
  <2> QED
    BY <1>1, <1>4, <2>1
    DEF Overwrite, Present, Feed!Fail, Feed!RunNext, Feed!Next, Feed!vars, Revoked
<1>7. CASE ~InsertJobRun(r) /\ ~MarkFailed(r)
  <2>1. UNCHANGED row
    BY <1>7 DEF RunStep, EnqueueJob, MarkFailedErrors, EnqueueLosesReply,
                EnqueueFails, EnqueueExpires, RunAborts, dbVars
  <2> QED
    BY <1>1, <1>4, <2>1 DEF Feed!vars, Revoked
<1> QED
  BY <1>5, <1>6, <1>7

\* Every step of a cancel-all is a step of RunEvents or one it does not see.
LEMMA FeedCancels ==
  ASSUME TypeOK, LifeInv, CancelInv, NEW c \in Cancellers,
         CancelActiveRuns(c) \/ CancelStep(c) \/ CancelAllErrors(c)
  PROVE  [Feed!Next]_(Feed!vars)
<1>1. \A d \in Cancellers \ {c} : cset[c] \cap cset[d] = {}
  BY DEF CancelInv
<1>2. CASE CancelActiveRuns(c)
  <2>1. /\ row' = [r \in Runs |-> IF r \in {q \in Runs : row[q] \in Active}
                                    THEN "cancelled" ELSE row[r]]
        /\ cset' = [cset EXCEPT ![c] = {q \in Runs : row[q] \in Active}]
        /\ cpc[c] = "none"
        /\ UNCHANGED <<wpc, wout, wpos, stream, lastEvent>>
    BY <1>2 DEF CancelActiveRuns, workerVars, redisVars
  <2>2. cset[c] = {}
    BY <2>1 DEF CancelInv
  <2>3. Revoked' = Revoked \cup {q \in Runs : row[q] \in Active}
    BY <2>1, <2>2 DEF Revoked, TypeOK
  <2>4. Stage' = Stage
    BY <2>1, StageStays DEF wrun
  <2>5. Feed!CancelAll
    BY <2>1, <2>3, <2>4 DEF Feed!CancelAll, Revoked
  <2> QED
    BY <2>5 DEF Feed!Next
<1>3. CASE PublishCancelled(c)
  <2>1. PICK r \in cset[c] : /\ cset' = [cset EXCEPT ![c] = cset[c] \ {r}]
                             /\ lastEvent' = [lastEvent EXCEPT ![r] = "cancelled"]
    BY <1>3 DEF PublishCancelled
  <2>2. UNCHANGED <<row, wpc, wout, wpos, stream>>
    BY <1>3 DEF PublishCancelled, dbVars, workerVars, redisVars
  <2>3. Revoked' = Revoked \ {r} /\ r \in Revoked /\ r \in Runs
    BY <1>1, <2>1 DEF Revoked, TypeOK
  <2>4. Stage' = Stage
    BY <2>2, StageStays DEF wrun
  <2>5. Feed!AnnounceCancelled(r)
    BY <2>1, <2>2, <2>3, <2>4 DEF Feed!AnnounceCancelled, Revoked
  <2> QED
    BY <2>3, <2>5 DEF Feed!Next, Feed!RunNext
<1>4. CASE CancelAllErrors(c)
  <2>0. \E S \in SUBSET cset[c] : cset' = [cset EXCEPT ![c] = cset[c] \ S]
    <3>1. CASE cset' = [cset EXCEPT ![c] = {}]
      BY <3>1
    <3>2. CASE \E r \in cset[c] : cset' = [cset EXCEPT ![c] = cset[c] \ {r}]
      BY <3>2
    <3> QED
      BY <1>4, <3>1, <3>2 DEF CancelAllErrors
  <2> PICK S \in SUBSET cset[c] : cset' = [cset EXCEPT ![c] = cset[c] \ S]
    BY <2>0
  <2>1. /\ UNCHANGED <<row, wpc, wout, wpos, stream, lastEvent>>
        /\ S \in SUBSET Runs
    BY <1>4 DEF CancelAllErrors, dbVars, workerVars, redisVars, TypeOK
  <2>2. Revoked' = Revoked \ S /\ S \subseteq Revoked
    <3>1. /\ cset'[c] = cset[c] \ S
          /\ \A d \in Cancellers \ {c} : cset'[d] = cset[d] /\ cset[d] \cap S = {}
      BY <1>1 DEF TypeOK
    <3> QED
      BY <3>1 DEF Revoked
  <2>3. Stage' = Stage
    BY <2>1, StageStays DEF wrun
  <2>4. Feed!Forget(S)
    BY <2>1, <2>2, <2>3 DEF Feed!Forget, Revoked
  <2> QED
    BY <2>1, <2>4 DEF Feed!Next
<1>5. CASE FinishCancelAll(c)
  <2>1. UNCHANGED <<row, cset, lastEvent, wout, stream>>
    BY <1>5 DEF FinishCancelAll, dbVars, redisVars, workerVars
  <2>2. CASE wpc' = "down"
    BY <2>1, <2>2, StageEnds
  <2>3. CASE UNCHANGED <<wpc, wpos>>
    BY <2>1, <2>3, StageStays DEF wrun, Feed!vars
  <2> QED
    BY <1>5, <2>2, <2>3 DEF FinishCancelAll, workerVars
<1> QED
  BY <1>2, <1>3, <1>4, <1>5 DEF CancelStep

\* Every step of the worker is a step of RunEvents or one it does not see.
LEMMA FeedWorks ==
  ASSUME TypeOK, LifeInv, WorkerStep \/ WorkerRaises \/ WorkerDies
  PROVE  [Feed!Next]_(Feed!vars)
<1>1. Revoked' = Revoked
  BY DEF WorkerStep, WorkerStarts, ReadMessage, RejectUnknown, MarkRunning,
         SkipMessage, PublishRunning, MarkTerminal, PublishTerminal,
         AckMessage, WorkerRaises, WorkerDies, cancelVars, Revoked
<1>2. CASE RejectUnknown
  <2>1. /\ wpc = "got" /\ wpc' = "acking" /\ row' = Overwrite(wrun, "failed")
        /\ UNCHANGED lastEvent
    BY <1>2 DEF RejectUnknown
  <2>2. wrun \in Runs /\ Stage' = Stage
    BY <2>1, WorkerRunType, StageStays
  <2> QED
    BY <1>1, <2>1, <2>2
    DEF Overwrite, Present, Feed!Fail, Feed!RunNext, Feed!Next, Feed!vars, Revoked
<1>3. CASE MarkRunning
  <2>1. /\ wpc = "got" /\ wpc' = "started" /\ row[wrun] = "queued"
        /\ row' = [row EXCEPT ![wrun] = "running"]
        /\ UNCHANGED <<lastEvent, wpos, stream>>
    BY <1>3 DEF MarkRunning, redisVars
  <2>2. wrun \in Runs /\ wrun' = wrun
    BY <2>1, WorkerRunType DEF wrun
  <2>3. Stage' = [Stage EXCEPT ![wrun] = "running"]
    BY <2>1, <2>2, StageMoves
  <2> QED
    BY <1>1, <2>1, <2>2, <2>3 DEF Feed!Start, Feed!RunNext, Feed!Next, Revoked
<1>4. CASE PublishRunning
  <2>1. /\ wpc = "started" /\ wpc' = "executing"
        /\ lastEvent' = [lastEvent EXCEPT ![wrun] = "running"]
        /\ UNCHANGED <<row, wpos, stream>>
    BY <1>4 DEF PublishRunning, redisVars, dbVars
  <2>2. wrun \in Runs /\ wrun' = wrun
    BY <2>1, WorkerRunType DEF wrun
  <2>3. Stage[wrun] = "running" /\ Stage' = [Stage EXCEPT ![wrun] = "busy"]
    BY <2>1, <2>2, StageMoves
  <2> QED
    BY <1>1, <2>1, <2>2, <2>3
    DEF Feed!AnnounceStart, Feed!RunNext, Feed!Next, Revoked
<1>5. ASSUME NEW s \in Terminal, MarkTerminal(s) PROVE [Feed!Next]_(Feed!vars)
  <2>1. /\ wpc = "executing" /\ wpc' = "marked" /\ wout' = s
        /\ row' = Overwrite(wrun, s) /\ UNCHANGED <<lastEvent, wpos, stream>>
    BY <1>5 DEF MarkTerminal, redisVars
  <2>2. wrun \in Runs /\ wrun' = wrun
    BY <2>1, WorkerRunType DEF wrun
  <2>3. Stage[wrun] = "busy" /\ Stage' = [Stage EXCEPT ![wrun] = s]
    BY <2>1, <2>2, StageMoves
  <2>4. row[wrun] \in {"running", "cancelled", "failed", "gone"}
    BY <2>1 DEF LifeInv
  <2>5. row' = [row EXCEPT ![wrun] = IF row[wrun] = "gone" THEN row[wrun] ELSE s]
    BY <2>1, <2>2, <2>4 DEF Overwrite, Present, TypeOK
  <2>6. Feed!Finish(wrun, s)
    BY <1>1, <2>1, <2>3, <2>5 DEF Feed!Finish, Revoked
  <2> QED
    BY <2>2, <2>6 DEF Feed!RunNext, Feed!Next
<1>6. CASE PublishTerminal
  <2>1. /\ wpc = "marked" /\ wpc' = "acking"
        /\ lastEvent' = [lastEvent EXCEPT ![wrun] = wout]
        /\ UNCHANGED <<row, wpos, stream>>
    BY <1>6 DEF PublishTerminal, redisVars, dbVars
  <2>2. wrun \in Runs /\ wrun' = wrun /\ wout \in Terminal
    BY <2>1, WorkerRunType DEF wrun, TypeOK
  <2>3. Stage[wrun] = wout /\ Stage' = [Stage EXCEPT ![wrun] = "none"]
    BY <2>1, <2>2, StageMoves
  <2>4. Feed!AnnounceResult(wrun)
    BY <1>1, <2>1, <2>2, <2>3 DEF Feed!AnnounceResult, Revoked
  <2> QED
    BY <2>2, <2>4 DEF Feed!RunNext, Feed!Next
<1>7. CASE WorkerStarts \/ ReadMessage \/ SkipMessage \/ AckMessage \/ WorkerRaises
           \/ WorkerDies
  <2>1. /\ wpc' \notin {"started", "executing", "marked"}
        /\ UNCHANGED <<row, cset, lastEvent>>
    BY <1>7 DEF WorkerStarts, ReadMessage, SkipMessage, AckMessage, WorkerRaises,
                WorkerDies, dbVars, cancelVars
  <2> QED
    BY <2>1, StageEnds
<1> QED
  BY <1>2, <1>3, <1>4, <1>5, <1>6, <1>7 DEF WorkerStep

\* Every step of the queue is a step of RunEvents or one it does not see.
LEMMA FeedNext ==
  TypeOK /\ LifeInv /\ CancelInv /\ [Next]_vars => [Feed!Next]_(Feed!vars)
<1> SUFFICES ASSUME TypeOK, LifeInv, CancelInv, [Next]_vars
             PROVE  [Feed!Next]_(Feed!vars)
  OBVIOUS
<1>1. CASE ClearTerminalRuns
  <2>1. /\ row' = [r \in Runs |-> IF row[r] \in Terminal THEN "gone" ELSE row[r]]
        /\ UNCHANGED <<cset, lastEvent, wpc, wout, wpos, stream>>
    BY <1>1 DEF ClearTerminalRuns, Present, cancelVars, workerVars, redisVars
  <2>2. Stage' = Stage /\ Revoked' = Revoked
    BY <2>1, StageStays DEF wrun, Revoked
  <2> QED
    BY <2>1, <2>2 DEF Feed!Clear, Feed!Next, Revoked
<1>2. CASE UNCHANGED vars
  BY <1>2, StageStays DEF vars, wrun, Feed!vars
<1> QED
  BY <1>1, <1>2, FeedSubmits, FeedCancels, FeedWorks DEF Next

\* Every behaviour of the queue takes the rows only through steps JobRuns
\* allows: in particular a run that was cancelled or failed before it was
\* taken up is never started, and a result is written at most once.
\* And every event follows the write it announces, of a run that is over for good
\* if the event says so: RunEvents, the environment of the relay
\* (jobs_handler.go:176-189, main.py:48-69).
THEOREM QueueKeepsPromise == Spec => PromiseKept
<1>1. Spec => []CancelInv
  BY CancelInit, CancelNext, TypeCorrect, LifeCorrect, PTL DEF Spec
<1>2. Spec => Feed!Spec
  BY <1>1, FeedInit, FeedNext, TypeCorrect, LifeCorrect, PTL DEF Spec, Feed!Spec
<1> QED
  BY <1>2, PromiseInit, PromiseNext, TypeCorrect, LifeCorrect, PTL
  DEF Spec, PromiseKept, Promise!Spec
=============================================================================
