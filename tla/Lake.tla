-------------------------------- MODULE Lake --------------------------------
(***************************************************************************)
(* The batch stages of the worker and what they leave behind: the raw      *)
(* files, Bronze, Silver and Gold in MinIO, the Gold and feature tables in *)
(* Postgres, the online features in Redis (worker/jobs, ingestion, spark,  *)
(* feature_store, ml). The worker runs one stage at a time; any call of it *)
(* may raise, and cancel-all may kill it between any two writes. A killed  *)
(* stage is not resumed.                                                   *)
(*                                                                         *)
(* The content of a dataset is the set of months it was computed from. A   *)
(* write of one object, one transaction and one key are each atomic.       *)
(***************************************************************************)
EXTENDS Naturals, FiniteSets, FiniteSetsExt

CONSTANTS
  LastMonth,      \* months are 1..LastMonth
  Malformed,      \* the ones whose file does not have the expected columns
  LastTable,      \* Gold tables are 1..LastTable, in the order of JOBS
  Zones,          \* zone and hour pairs, the keys of the features, numbered
  ZonesOf,        \* the pairs a month has trips of
  MaxFaults       \* bound on calls that raise and on kills

Months == 1..LastMonth
Tables == 1..LastTable

ASSUME LakeAssumption ==
  /\ LastMonth \in Nat /\ LastTable \in Nat /\ MaxFaults \in Nat
  /\ Malformed \subseteq Months /\ Zones \subseteq Nat
  /\ ZonesOf \in [Months -> SUBSET Zones]

VARIABLES
  raw,            \* months downloaded to data/raw
  bronze,         \* months uploaded to bronze/yellow_taxi
  silver,         \* silver[m]: the files written of month m
  reports,        \* months with a quality report
  pg,             \* pg[t]: the rows of Gold table t, or Missing
  parquet,        \* parquet[t]: the same table under gold/, or Missing
  offline,        \* the feature table, or Missing
  online,         \* online[z]: the value of a feature key, or Missing
  job,            \* the stage that runs, or "idle"
  at,             \* where it is
  todo,           \* the months, tables, prefixes or keys still to be done
  file,           \* the file of a month that silver writes next
  read,           \* the Silver months of the data frame in hand
  asked,          \* history: the months this ingest was asked for
  landed,         \* what this ingest uploaded
  refused,        \* what it could not get or did not accept
  outcome,        \* history: how the last gold, features and reset run ended,
                  \* the first two forgotten when a reset starts; of the others,
                  \* until the next stage starts
  faults          \* faults so far

lakeVars == <<bronze, silver, parquet>>
tableVars == <<pg, offline, online>>
otherVars == <<raw, reports>>
tallyVars == <<asked, landed, refused>>
vars == <<lakeVars, tableVars, otherVars, job, at, todo, file, read,
          tallyVars, outcome, faults>>

Stages == {"ingest", "silver", "gold", "features", "train", "reset"}
Outcomes == {"none", "running", "succeeded", "partial", "failed"}
Missing == {0}

-----------------------------------------------------------------------------
(***************************************************************************)
(* The rules of the Silver layer. A comparison with a missing value is     *)
(* false, so only the times have a rule about nulls.                       *)
(***************************************************************************)
Rows == [times      : {"ok", "null", "reversed"},
         distance   : {"ok", "null", "negative", "outlier"},
         passengers : {"ok", "null", "none"},
         fare       : {"ok", "negative"},
         total      : {"ok", "negative"}]

catTimestamps(r) == r.times # "ok"

catDistance(r) == r.distance \in {"negative", "outlier"} /\ ~ catTimestamps(r)

\* Mutant: the distance rule does not take a row away from this one.
catPassengerTwice(r) == r.passengers = "none" /\ ~ catTimestamps(r)

catPassenger(r) ==
  r.passengers = "none" /\ ~ catTimestamps(r) /\ ~ catDistance(r)

catFare(r) ==
  /\ r.fare = "negative"
  /\ ~ catTimestamps(r) /\ ~ catDistance(r) /\ ~ catPassenger(r)

catTotal(r) ==
  /\ r.total = "negative"
  /\ ~ catTimestamps(r) /\ ~ catDistance(r) /\ ~ catPassenger(r) /\ ~ catFare(r)

excludedMask(r) ==
  catTimestamps(r) \/ catDistance(r) \/ catPassenger(r) \/ catFare(r) \/ catTotal(r)

rejectMask(r) == catTimestamps(r) \/ (catDistance(r) /\ r.distance = "negative")
quarantineMask(r) == excludedMask(r) /\ ~ rejectMask(r)

\* The files of a month in the order they are written; the report is last.
Files == 1..6
InFile(r, f) == CASE f = 1 -> ~ excludedMask(r)
                  [] f = 2 -> catTimestamps(r)
                  [] f = 3 -> catDistance(r)
                  [] f = 4 -> catPassenger(r)
                  [] f = 5 -> catFare(r)
                  [] f = 6 -> catTotal(r)

\* What load_silver_trips finds under silver/trips.
Trips == {m \in Months : 1 \in silver[m]}
FeaturesOf(ms) == UNION {ZonesOf[m] : m \in ms}

TypeOK ==
  /\ raw \subseteq Months /\ bronze \subseteq Months /\ reports \subseteq Months
  /\ silver \in [Months -> SUBSET Files]
  /\ pg \in [Tables -> (SUBSET Months) \cup {Missing}]
  /\ parquet \in [Tables -> (SUBSET Months) \cup {Missing}]
  /\ offline \in (SUBSET Months) \cup {Missing}
  /\ online \in [Zones -> (SUBSET Months) \cup {Missing}]
  /\ job \in Stages \cup {"idle"}
  /\ at \in {"idle", "fetch", "load", "write", "read", "commit", "clear", "overwrite",
             "set", "log", "truncate", "delete", "keys"}
  /\ todo \subseteq Months \cup Tables \cup Zones \cup 1..3
  /\ file \in 1..7
  /\ read \subseteq Months
  /\ asked \subseteq Months /\ landed \subseteq Months /\ refused \subseteq Months
  /\ outcome \in [Stages -> Outcomes]
  /\ faults \in 0..MaxFaults

Init ==
  /\ raw = {} /\ bronze = {} /\ reports = {}
  /\ silver = [m \in Months |-> {}]
  /\ pg = [t \in Tables |-> Missing] /\ parquet = [t \in Tables |-> Missing]
  /\ offline = Missing /\ online = [z \in Zones |-> Missing]
  /\ job = "idle" /\ at = "idle" /\ todo = {} /\ file = 1 /\ read = {}
  /\ asked = {} /\ landed = {} /\ refused = {}
  /\ outcome = [s \in Stages |-> "none"]
  /\ faults = 0

-----------------------------------------------------------------------------
(***************************************************************************)
(* A stage begins, ends, raises or is killed.                              *)
(***************************************************************************)
Begin(s, phase, units) ==
  /\ job = "idle"
  /\ job' = s /\ at' = phase /\ todo' = units
  /\ file' = 1 /\ read' = {}
  /\ asked' = IF s = "ingest" THEN units ELSE {}
  /\ landed' = {} /\ refused' = {}
  /\ outcome' = [o \in Stages |-> IF o = s THEN "running"
                                 ELSE IF s = "reset" \/ o \in {"ingest", "silver", "train"}
                                 THEN "none" ELSE outcome[o]]
  /\ UNCHANGED <<lakeVars, tableVars, otherVars, faults>>

End(status) ==
  /\ job' = "idle" /\ at' = "idle" /\ todo' = {}
  /\ file' = 1 /\ read' = {}
  /\ asked' = {} /\ landed' = {} /\ refused' = {}
  /\ outcome' = [outcome EXCEPT ![job] = status]

\* A call to TLC, MinIO, Postgres, Redis or Spark raises and run() answers
\* "failed"; or cancel-all restarts the container and it never answers. What was
\* written stays.
JobBreaks ==
  /\ job # "idle" /\ faults < MaxFaults
  /\ End("failed")
  /\ faults' = faults + 1
  /\ UNCHANGED <<lakeVars, tableVars, otherVars>>

(***************************************************************************)
(* ingest: each month is located, read, checked and uploaded.              *)
(***************************************************************************)
month_range(start, end) == start..end

StartIngest ==
  \/ Begin("ingest", "fetch", raw)
  \/ \E start, end \in Months : Begin("ingest", "fetch", month_range(start, end))

\* The raw file is there, or is downloaded to .part and renamed.
Download ==
  /\ at = "fetch" /\ todo # {}
  /\ raw' = raw \cup {Min(todo)}
  /\ at' = "load"
  /\ UNCHANGED <<lakeVars, tableVars, reports, job, file, todo, read,
                 tallyVars, outcome, faults>>

\* TLC has not published the month: the next one is tried.
Unavailable ==
  /\ at = "fetch" /\ todo # {} /\ Min(todo) \notin raw
  /\ refused' = refused \cup {Min(todo)}
  /\ todo' = todo \ {Min(todo)}
  /\ UNCHANGED <<lakeVars, tableVars, otherVars, job, at, file, read, asked,
                 landed, outcome, faults>>

UploadMonth ==
  /\ at = "load"
  /\ at' = "fetch" /\ todo' = todo \ {Min(todo)}
  /\ IF Min(todo) \in Malformed
     THEN refused' = refused \cup {Min(todo)} /\ UNCHANGED <<bronze, landed>>
     ELSE /\ bronze' = bronze \cup {Min(todo)}
          /\ landed' = landed \cup {Min(todo)}
          /\ UNCHANGED refused
  /\ UNCHANGED <<silver, parquet, tableVars, otherVars, job, file, read, asked,
                 outcome, faults>>

ingestStatus == IF refused = {} THEN "succeeded"
                ELSE IF landed = {} THEN "failed" ELSE "partial"

FinishIngest ==
  /\ at = "fetch" /\ todo = {}
  /\ End(ingestStatus)
  /\ UNCHANGED <<lakeVars, tableVars, otherVars, faults>>

(***************************************************************************)
(* silver: of each Bronze month the trips, five quarantine files and the   *)
(* report, in that order.                                                  *)
(***************************************************************************)
\* Mutant: months that have trips are skipped.
StartSilverOfNew == Begin("silver", "write", bronze \ Trips)

StartSilver == Begin("silver", "write", bronze)

WriteSilverFile ==
  /\ job = "silver" /\ todo # {} /\ file \in Files
  /\ silver' = [silver EXCEPT ![Min(todo)] = @ \cup {file}]
  /\ file' = file + 1
  /\ UNCHANGED <<bronze, parquet, tableVars, otherVars, job, at, todo, read, tallyVars,
                 outcome, faults>>

WriteReport ==
  /\ job = "silver" /\ file \notin Files
  /\ reports' = reports \cup {Min(todo)}
  /\ todo' = todo \ {Min(todo)} /\ file' = 1
  /\ UNCHANGED <<lakeVars, tableVars, raw, job, at, read, tallyVars, outcome,
                 faults>>

FinishSilver ==
  /\ job = "silver" /\ todo = {}
  /\ End("succeeded")
  /\ UNCHANGED <<lakeVars, tableVars, otherVars, faults>>

(***************************************************************************)
(* The stages that read Silver. Spark raises when there is no trip file.   *)
(***************************************************************************)
StartGold == Begin("gold", "read", Tables)
StartFeatures == Begin("features", "read", {})
StartTrain == Begin("train", "read", {})

LoadSilverTrips ==
  /\ at = "read" /\ (job = "gold" => todo # {}) /\ Trips # {}
  /\ read' = Trips
  /\ at' = IF job = "train" THEN "log" ELSE "commit"
  /\ UNCHANGED <<lakeVars, tableVars, otherVars, job, file, todo, tallyVars, outcome,
                 faults>>

NoSilverTrips ==
  /\ at = "read" /\ (job = "gold" => todo # {}) /\ Trips = {}
  /\ End("failed")
  /\ UNCHANGED <<lakeVars, tableVars, otherVars, faults>>

\* The table is emptied and filled again in one transaction.
CommitTable ==
  /\ job = "gold" /\ at = "commit"
  /\ pg' = [pg EXCEPT ![Min(todo)] = read]
  /\ at' = "clear"
  /\ UNCHANGED <<lakeVars, offline, online, otherVars, job, file, todo, read, tallyVars,
                 outcome, faults>>

\* Mode "overwrite": Spark deletes what is at the path, then writes. The data
\* frame was not kept, so it is computed from Silver once more.
ClearParquet ==
  /\ at = "clear"
  /\ parquet' = [parquet EXCEPT ![Min(todo)] = Missing]
  /\ at' = "overwrite"
  /\ UNCHANGED <<bronze, silver, tableVars, otherVars, job, file, todo, read, tallyVars,
                 outcome, faults>>

WriteParquet ==
  /\ at = "overwrite"
  /\ parquet' = [parquet EXCEPT ![Min(todo)] = Trips]
  /\ at' = "read" /\ todo' = todo \ {Min(todo)}
  /\ UNCHANGED <<bronze, silver, tableVars, otherVars, job, file, read, tallyVars,
                 outcome, faults>>

FinishGold ==
  /\ job = "gold" /\ at = "read" /\ todo = {}
  /\ End("succeeded")
  /\ UNCHANGED <<lakeVars, tableVars, otherVars, faults>>

CommitFeatures ==
  /\ job = "features" /\ at = "commit"
  /\ offline' = read
  /\ at' = "set" /\ todo' = FeaturesOf(read)
  /\ UNCHANGED <<lakeVars, pg, online, otherVars, job, file, read, tallyVars, outcome,
                 faults>>

\* Mutant: a key that is there is left alone (SET with NX).
SetKeyNX ==
  /\ at = "set"
  /\ \E z \in todo :
       /\ online' = [online EXCEPT ![z] = IF @ = Missing THEN read ELSE @]
       /\ todo' = todo \ {z}
  /\ UNCHANGED <<lakeVars, pg, offline, otherVars, job, file, at, read, tallyVars,
                 outcome, faults>>

SetKey ==
  /\ at = "set"
  /\ \E z \in todo : online' = [online EXCEPT ![z] = read] /\ todo' = todo \ {z}
  /\ UNCHANGED <<lakeVars, pg, offline, otherVars, job, file, at, read, tallyVars,
                 outcome, faults>>

FinishFeatures ==
  /\ at = "set" /\ todo = {}
  /\ End("succeeded")
  /\ UNCHANGED <<lakeVars, tableVars, otherVars, faults>>

\* The model goes to MLflow, which keeps every run and is no part of the lake.
LogModel ==
  /\ at = "log"
  /\ End("succeeded")
  /\ UNCHANGED <<lakeVars, tableVars, otherVars, faults>>

(***************************************************************************)
(* reset: the tables that exist, three prefixes, then the online keys.     *)
(***************************************************************************)
StartReset == Begin("reset", "truncate", {})

emptied(content) == IF content = Missing THEN Missing ELSE {}

TruncateTables ==
  /\ at = "truncate"
  /\ pg' = [t \in Tables |-> emptied(pg[t])]
  /\ offline' = emptied(offline)
  /\ at' = "delete" /\ todo' = 1..3
  /\ UNCHANGED <<lakeVars, online, otherVars, job, file, read, tallyVars, outcome, faults>>

\* Mutant: Silver is not among the prefixes.
DeletePrefixButSilver ==
  /\ at = "delete" /\ todo # {}
  /\ \/ Min(todo) = 1 /\ bronze' = {} /\ UNCHANGED parquet
     \/ Min(todo) = 2 /\ UNCHANGED <<bronze, parquet>>
     \/ Min(todo) = 3 /\ parquet' = [t \in Tables |-> Missing] /\ UNCHANGED bronze
  /\ todo' = todo \ {Min(todo)}
  /\ UNCHANGED <<silver, tableVars, otherVars, job, file, at, read, tallyVars, outcome,
                 faults>>

\* A prefix is deleted in batches of objects, in the order of their keys: some
\* are gone, the rest is not. In Silver the trips come after the files of all
\* rules, and nothing tells the rules of a month apart.
DeleteSome ==
  /\ at = "delete" /\ todo # {}
  /\ \/ /\ Min(todo) = 1
        /\ \E n \in Months : bronze' = {m \in bronze : m > n}
        /\ UNCHANGED <<silver, parquet>>
     \/ /\ Min(todo) = 2
        /\ \E n \in Months :
             \/ silver' = [m \in Months |-> IF m > n THEN silver[m] ELSE silver[m] \cap {1}]
             \/ silver' = [m \in Months |-> IF m > n THEN silver[m] \cap {1} ELSE {}]
        /\ UNCHANGED <<bronze, parquet>>
     \/ /\ Min(todo) = 3
        /\ \E n \in Tables :
             parquet' = [t \in Tables |-> IF t > n THEN parquet[t] ELSE Missing]
        /\ UNCHANGED <<bronze, silver>>
  /\ UNCHANGED <<tableVars, otherVars, job, at, todo, file, read, tallyVars, outcome,
                 faults>>

\* The rest goes too.
DeletePrefix ==
  /\ at = "delete" /\ todo # {}
  /\ \/ Min(todo) = 1 /\ bronze' = {} /\ UNCHANGED <<silver, parquet>>
     \/ /\ Min(todo) = 2
        /\ silver' = [m \in Months |-> {}]
        /\ UNCHANGED <<bronze, parquet>>
     \/ /\ Min(todo) = 3
        /\ parquet' = [t \in Tables |-> Missing]
        /\ UNCHANGED <<bronze, silver>>
  /\ todo' = todo \ {Min(todo)}
  /\ UNCHANGED <<tableVars, otherVars, job, file, at, read, tallyVars, outcome, faults>>

ScanKeys ==
  /\ at = "delete" /\ todo = {}
  /\ at' = "keys" /\ todo' = {z \in Zones : online[z] # Missing}
  /\ UNCHANGED <<lakeVars, tableVars, otherVars, job, file, read, tallyVars, outcome,
                 faults>>

DeleteKeys ==
  /\ at = "keys"
  /\ \E batch \in (SUBSET todo) \ {{}} :
       /\ online' = [z \in Zones |-> IF z \in batch THEN Missing ELSE online[z]]
       /\ todo' = todo \ batch
  /\ UNCHANGED <<lakeVars, pg, offline, otherVars, job, file, at, read, tallyVars,
                 outcome, faults>>

FinishReset ==
  /\ at = "keys" /\ todo = {}
  /\ End("succeeded")
  /\ UNCHANGED <<lakeVars, tableVars, otherVars, faults>>

IngestStep == StartIngest \/ Download \/ Unavailable \/ UploadMonth \/ FinishIngest
SilverStep == StartSilver \/ WriteSilverFile \/ WriteReport \/ FinishSilver
GoldStep == StartGold \/ CommitTable \/ ClearParquet \/ WriteParquet \/ FinishGold
FeaturesStep == StartFeatures \/ CommitFeatures \/ SetKey \/ FinishFeatures
ReaderStep == LoadSilverTrips \/ NoSilverTrips \/ StartTrain \/ LogModel
ResetStep ==
  \/ StartReset \/ TruncateTables \/ DeleteSome \/ DeletePrefix
  \/ ScanKeys \/ DeleteKeys \/ FinishReset

Next == \/ IngestStep \/ SilverStep \/ GoldStep \/ FeaturesStep \/ ReaderStep
        \/ ResetStep \/ JobBreaks
Spec == Init /\ [][Next]_vars

-----------------------------------------------------------------------------
(***************************************************************************)
(* Properties.                                                             *)
(***************************************************************************)

\* Every row is in exactly one file: the trips are the rows that break no rule
\* but a flag, and a row counts as rejected exactly for SLV-001 to 004, whatever
\* else it breaks (validator.py:11-23).
OneFilePerRow ==
  \A r \in Rows :
    /\ Cardinality({f \in Files : InFile(r, f)}) = 1
    /\ InFile(r, 1) <=> ~ rejectMask(r) /\ ~ quarantineMask(r)
    /\ rejectMask(r) <=> r.times # "ok" \/ r.distance = "negative"
    /\ quarantineMask(r) => \/ r.passengers = "none" \/ r.distance = "outlier"
                            \/ r.fare = "negative" \/ r.total = "negative"

\* When a month's report is written the files of all rules are there, and every
\* row of the month is in exactly one of them (validator.py:80-120).
EachRowInOneFile ==
  file \notin Files => silver[Min(todo)] = Files /\ OneFilePerRow

\* No layer holds a month its source does not, whichever stages were killed,
\* unless a reset has not run to its end (reset.py:73-82).
LayersNest ==
  outcome["reset"] \in {"none", "succeeded"} =>
    /\ bronze \subseteq raw /\ Trips \subseteq bronze
    /\ \A t \in Tables : (pg[t] \cup parquet[t]) \ Missing \subseteq Trips
    /\ offline \ Missing \subseteq Trips
    /\ \A z \in Zones : online[z] \ Missing \subseteq Trips

\* As long as the last gold run is one that succeeded, the four tables and
\* their Parquet copies show one and the same Silver
\* (run_gold.py:17-28, daily_revenue.py:88-98).
GoldIsOneSnapshot ==
  outcome["gold"] = "succeeded" =>
    \A t, u \in Tables : pg[t] = parquet[u] /\ pg[t] \notin {Missing, {}}

\* As long as the last features run is one that succeeded, a key is read online
\* as it is offline; when no reset was cut short, no other key is there
\* (compute_features.py:99-132, reset.py:49-60).
OnlineIsOffline ==
  outcome["features"] = "succeeded" =>
    \A z \in Zones :
      /\ z \in FeaturesOf(offline \ Missing) => online[z] = offline
      /\ outcome["reset"] \in {"none", "succeeded"} /\ online[z] # Missing =>
           z \in FeaturesOf(offline \ Missing)

\* What was stored twice can be read in either place.
StoresAgree == GoldIsOneSnapshot /\ OnlineIsOffline

Ended(s, status) == job = s /\ outcome'[s] = status

\* What a stage that succeeds leaves behind is up to date: Silver has every
\* file and report of every Bronze month, Gold and the features show the Silver
\* of now, a reset leaves nothing. Raised or killed runs before it leave no
\* mark (ingest.py:19-29, validator.py:146-152, reset.py:73-88).
LeavesCurrent ==
  /\ Ended("silver", "succeeded") =>
       \A m \in bronze' : silver'[m] = Files /\ m \in reports'
  /\ Ended("gold", "succeeded") => \A t \in Tables : pg'[t] = Trips'
  /\ Ended("features", "succeeded") => offline' = Trips'
  /\ Ended("train", "succeeded") => read = Trips'
  /\ Ended("reset", "succeeded") =>
       /\ bronze' = {} /\ Trips' = {} /\ offline' \in {Missing, {}}
       /\ \A t \in Tables : pg'[t] \in {Missing, {}} /\ parquet'[t] = Missing
       /\ \A z \in Zones : online'[z] = Missing

\* The answer of ingest says what landed: after "succeeded" every month it was
\* asked for is in Bronze, after "partial" some are and some are not, and after
\* a "failed" that nothing raised none is (ingest.py:19-29).
AnswersTruly ==
  /\ Ended("ingest", "succeeded") => asked \subseteq bronze'
  /\ Ended("ingest", "partial") => asked \cap bronze' # {} /\ asked \ bronze' # {}
  /\ Ended("ingest", "failed") /\ faults' = faults =>
       asked # {} /\ asked \cap bronze' = {}

\* What a stage says of itself when it ends is true (worker/jobs, run()).
StatusIsTrue == [][LeavesCurrent /\ AnswersTruly]_vars

=============================================================================
