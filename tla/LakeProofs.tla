----------------------------- MODULE LakeProofs -----------------------------
(***************************************************************************)
(* For any months, tables, keys and number of faults: the lake's layers    *)
(* nest, the last gold and features run that succeeded left whole stores,  *)
(* and what a stage says of itself is true. What a stage has done so far,  *)
(* part by part, is the invariant; a stage that breaks off leaves only     *)
(* what holds of the stores whichever stage runs, Stored.                  *)
(***************************************************************************)
EXTENDS Lake, FiniteSetTheorems, WellFoundedInduction, TLAPS

\* Where a stage may be, and with which outcome before it.
Place ==
  /\ job = "idle" <=> at = "idle"
  /\ job = "ingest" <=> at \in {"fetch", "load"}
  /\ job = "silver" <=> at = "write"
  /\ job = "gold" => at \in {"read", "commit", "clear", "overwrite"}
  /\ job = "features" => at \in {"read", "commit", "set"}
  /\ job = "train" => at \in {"read", "log"}
  /\ job = "reset" <=> at \in {"truncate", "delete", "keys"}
  /\ at \in {"clear", "overwrite"} => job = "gold"
  /\ at = "set" => job = "features"
  /\ at = "log" => job = "train"
  /\ job # "idle" => outcome[job] = "running"
  /\ job = "reset" => outcome["gold"] = "none" /\ outcome["features"] = "none"
  /\ file # 1 => job = "silver"

Ingested ==
  /\ todo \subseteq Months
  /\ at = "load" => todo # {} /\ Min(todo) \in raw
  /\ asked = landed \cup refused \cup todo
  /\ landed \subseteq bronze
  /\ refused \subseteq Malformed \cup (Months \ raw) /\ refused \cap todo = {}

Validated ==
  /\ todo \subseteq bronze
  /\ \A m \in bronze \ todo : silver[m] = Files /\ m \in reports
  /\ file # 1 => todo # {} /\ 1..(file - 1) \subseteq silver[Min(todo)]

Aggregated ==
  /\ todo \subseteq Tables
  /\ \A t \in Tables \ todo : pg[t] = Trips /\ parquet[t] = Trips
  /\ todo # Tables \/ at # "read" => Trips # {}
  /\ at # "read" => todo # {} /\ read = Trips
  /\ at \in {"clear", "overwrite"} => pg[Min(todo)] = Trips

Computed ==
  /\ at # "read" => read = Trips
  /\ at = "set" => /\ offline = read /\ todo \subseteq FeaturesOf(read)
                   /\ \A z \in FeaturesOf(read) \ todo : online[z] = read

Cleared ==
  /\ at # "truncate" => /\ \A t \in Tables : pg[t] \in {Missing, {}}
                        /\ offline \in {Missing, {}}
  /\ at = "delete" => /\ todo \subseteq 1..3
                      /\ 1 \notin todo => bronze = {}
                      /\ 2 \notin todo => Trips = {}
                      /\ 3 \notin todo => \A t \in Tables : parquet[t] = Missing
  /\ at = "keys" => /\ bronze = {} /\ Trips = {}
                    /\ \A t \in Tables : parquet[t] = Missing
                    /\ todo \subseteq Zones
                    /\ \A z \in Zones \ todo : online[z] = Missing

\* A stage has done what it should have done by now.
Underway ==
  /\ job = "ingest" => Ingested
  /\ job = "silver" => Validated
  /\ job = "gold" => Aggregated
  /\ job = "features" => Computed
  /\ job = "train" /\ at = "log" => read = Trips
  /\ job = "reset" => Cleared

Stored ==
  /\ bronze \subseteq raw \ Malformed
  /\ \A z \in Zones : online[z] # Missing => z \in FeaturesOf(online[z])
  /\ LayersNest /\ GoldIsOneSnapshot /\ OnlineIsOffline

LakeInv == TypeOK /\ Place /\ Underway /\ Stored

-----------------------------------------------------------------------------
(***************************************************************************)
(* The units of a stage and the contents of a dataset.                     *)
(***************************************************************************)
LEMMA MinInSet ==
  ASSUME NEW S \in SUBSET Nat, S # {}
  PROVE  Min(S) \in S
<1>1. PICK x \in S : \A y \in S : ~ (<<y, x>> \in OpToRel(<, Nat))
  BY NatLessThanWellFounded, WFMin
<1>2. ASSUME NEW y \in S PROVE x <= y
  <2>1. ~ (y < x)
    BY <1>1 DEF OpToRel
  <2> QED
    BY <2>1
<1> QED
  BY <1>2 DEF Min

\* Units are numbers, so that there is a first as long as there is one.
LEMMA UnitsAreNumbers ==
  TypeOK => todo \subseteq Nat
BY LakeAssumption DEF LakeAssumption, TypeOK, Months, Tables

LEMMA FirstUnit ==
  ASSUME TypeOK, todo # {}
  PROVE  Min(todo) \in todo
BY UnitsAreNumbers, MinInSet

LEMMA MonthsAreNotMissing ==
  /\ 0 \notin Months
  /\ Missing \notin SUBSET Months
  /\ \A ms \in SUBSET Months : ms \ Missing = ms /\ ms # Missing
  /\ Missing \ Missing = {}
BY LakeAssumption DEF LakeAssumption, Months, Missing

LEMMA TripsAreMonths == Trips \subseteq Months
BY DEF Trips

LEMMA FeaturesAreZones ==
  ASSUME NEW ms \in SUBSET Months
  PROVE  FeaturesOf(ms) \subseteq Zones
BY LakeAssumption DEF LakeAssumption, FeaturesOf

LEMMA FeaturesGrow ==
  ASSUME NEW ms, NEW ns, ms \subseteq ns
  PROVE  FeaturesOf(ms) \subseteq FeaturesOf(ns)
BY DEF FeaturesOf

LEMMA TripsStay == silver' = silver => Trips' = Trips
BY DEF Trips

-----------------------------------------------------------------------------
(***************************************************************************)
(* A stage begins, ends or is cut short.                                   *)
(***************************************************************************)
\* What is stored does not depend on the stage that runs.
LEMMA StoredStays ==
  ASSUME Stored, UNCHANGED <<lakeVars, tableVars, raw, outcome>>
  PROVE  Stored'
BY DEF Stored, lakeVars, tableVars, LayersNest, GoldIsOneSnapshot, OnlineIsOffline,
       Trips, FeaturesOf

LEMMA BeginKeeps ==
  ASSUME LakeInv, NEW s \in Stages, NEW phase, NEW units, Begin(s, phase, units),
         units \subseteq Months \cup Tables \cup Zones \cup 1..3,
         s = "ingest" => units \subseteq Months,
         phase \in {"fetch", "write", "read", "truncate"}
  PROVE  /\ TypeOK' /\ Stored' /\ outcome'[s] = "running"
         /\ s = "reset" => outcome'["gold"] = "none" /\ outcome'["features"] = "none"
<1>1. outcome \in [Stages -> Outcomes]
  BY DEF LakeInv, TypeOK
<1>2. /\ outcome' \in [Stages -> Outcomes] /\ outcome'[s] = "running"
      /\ \A o \in Stages : o # s => outcome'[o] \in {"none", outcome[o]}
      /\ s = "reset" => outcome'["gold"] = "none" /\ outcome'["features"] = "none"
      /\ s # "reset" => outcome'["reset"] \in {outcome["reset"]}
  BY <1>1 DEF Begin, Outcomes, Stages
<1>3. TypeOK'
  BY <1>2 DEF Begin, LakeInv, TypeOK, lakeVars, tableVars, otherVars
<1>4. Stored'
  <2>1. UNCHANGED <<lakeVars, tableVars, raw>>
    BY DEF Begin, otherVars
  <2>2. outcome'["gold"] = "succeeded" => outcome["gold"] = "succeeded"
    BY <1>2 DEF Stages
  <2>3. outcome'["features"] = "succeeded" => outcome["features"] = "succeeded"
    BY <1>2 DEF Stages
  <2>4. outcome'["reset"] \in {"none", "succeeded"} =>
          outcome["reset"] \in {"none", "succeeded"}
    BY <1>2 DEF Stages
  <2> QED
    BY <2>1, <2>2, <2>3, <2>4 DEF LakeInv, Stored, lakeVars, tableVars, LayersNest,
       GoldIsOneSnapshot, OnlineIsOffline, Trips, FeaturesOf
<1> QED
  BY <1>2, <1>3, <1>4

\* When no stage runs there is nothing else to know than what is stored.
LEMMA EndKeeps ==
  ASSUME LakeInv, job # "idle", NEW status \in {"succeeded", "partial", "failed"},
         End(status), UNCHANGED <<lakeVars, tableVars, otherVars>>,
         faults' \in 0..MaxFaults,
         job = "gold" /\ status = "succeeded" => GoldIsOneSnapshot',
         job = "features" /\ status = "succeeded" => OnlineIsOffline',
         job = "reset" /\ status = "succeeded" => LayersNest'
  PROVE  LakeInv'
<1>1. outcome \in [Stages -> Outcomes] /\ job \in Stages
  BY DEF LakeInv, TypeOK
<1>2. /\ outcome' \in [Stages -> Outcomes] /\ outcome'[job] = status
      /\ \A o \in Stages : o # job => outcome'[o] = outcome[o]
  BY <1>1 DEF End, Outcomes
<1>3. TypeOK'
  BY <1>2 DEF End, LakeInv, TypeOK, lakeVars, tableVars, otherVars
<1>4. Place' /\ Underway'
  BY DEF End, Place, Underway
<1>5. /\ (bronze \subseteq raw \ Malformed)'
      /\ (\A z \in Zones : online[z] # Missing => z \in FeaturesOf(online[z]))'
  BY DEF LakeInv, Stored, lakeVars, tableVars, otherVars, FeaturesOf
<1>6. LayersNest'
  <2>1. CASE job = "reset" /\ status = "succeeded"
    BY <2>1
  <2>2. CASE job = "reset" /\ status # "succeeded"
    BY <1>2, <2>2 DEF LayersNest
  <2>3. CASE job # "reset"
    <3>1. outcome'["reset"] = outcome["reset"]
      BY <1>2, <2>3 DEF Stages
    <3> QED
      BY <3>1 DEF LakeInv, Stored, LayersNest, Trips, lakeVars, tableVars, otherVars
  <2> QED
    BY <2>1, <2>2, <2>3
<1>7. GoldIsOneSnapshot'
  <2>1. CASE job = "gold"
    BY <1>2, <2>1 DEF GoldIsOneSnapshot
  <2>2. CASE job # "gold"
    <3>1. outcome'["gold"] = outcome["gold"]
      BY <1>2, <2>2 DEF Stages
    <3> QED
      BY <3>1 DEF LakeInv, Stored, GoldIsOneSnapshot, lakeVars, tableVars
  <2> QED
    BY <2>1, <2>2
<1>8. OnlineIsOffline'
  <2>1. CASE job = "features"
    BY <1>2, <2>1 DEF OnlineIsOffline
  <2>2. CASE job = "reset"
    <3>1. outcome'["features"] = "none"
      BY <1>2, <2>2 DEF LakeInv, Place, Stages
    <3> QED
      BY <3>1 DEF OnlineIsOffline
  <2>3. CASE job \notin {"features", "reset"}
    <3>1. outcome'["features"] = outcome["features"] /\ outcome'["reset"] = outcome["reset"]
      BY <1>2, <2>3 DEF Stages
    <3> QED
      BY <3>1 DEF LakeInv, Stored, OnlineIsOffline, tableVars, FeaturesOf
  <2> QED
    BY <2>1, <2>2, <2>3
<1> QED
  BY <1>3, <1>4, <1>5, <1>6, <1>7, <1>8 DEF LakeInv, Stored

LEMMA BreaksKeeps == LakeInv /\ JobBreaks => LakeInv'
<1> SUFFICES ASSUME LakeInv, JobBreaks PROVE LakeInv'
  OBVIOUS
<1>1. faults' \in 0..MaxFaults
  BY LakeAssumption DEF JobBreaks, LakeInv, TypeOK, LakeAssumption
<1> QED
  BY <1>1, EndKeeps DEF JobBreaks

LEMMA InitKeeps == Init => LakeInv
<1> SUFFICES ASSUME Init PROVE LakeInv
  OBVIOUS
<1>1. TypeOK
  BY LakeAssumption DEF Init, TypeOK, LakeAssumption, Outcomes, Stages
<1>2. Place /\ Underway
  BY DEF Init, Place, Underway
<1>3. \A o \in Stages : outcome[o] = "none"
  BY DEF Init
<1>4. Trips = {} /\ Missing \ Missing = {}
  BY DEF Init, Trips
<1>5. Stored
  BY <1>3, <1>4 DEF Init, Stored, LayersNest, GoldIsOneSnapshot, OnlineIsOffline, Stages
<1> QED
  BY <1>1, <1>2, <1>5 DEF LakeInv
-----------------------------------------------------------------------------
(***************************************************************************)
(* ingest.                                                                 *)
(***************************************************************************)
LEMMA StartIngestKeeps == LakeInv /\ StartIngest => LakeInv'
<1> SUFFICES ASSUME LakeInv, StartIngest PROVE LakeInv'
  OBVIOUS
<1>1. PICK units \in SUBSET Months : Begin("ingest", "fetch", units)
  <2>1. raw \subseteq Months
    BY DEF LakeInv, TypeOK
  <2>2. ASSUME NEW start \in Months, NEW end \in Months
        PROVE  month_range(start, end) \subseteq Months
    BY LakeAssumption DEF month_range, Months, LakeAssumption
  <2> QED
    BY <2>1, <2>2 DEF StartIngest
<1>2. TypeOK' /\ Stored' /\ outcome'["ingest"] = "running"
  BY <1>1, BeginKeeps DEF Stages
<1>3. Place'
  BY <1>1, <1>2 DEF Begin, Place
<1>4. Underway'
  BY <1>1 DEF Begin, Underway, Ingested
<1> QED
  BY <1>2, <1>3, <1>4 DEF LakeInv

LEMMA DownloadKeeps == LakeInv /\ Download => LakeInv'
<1> SUFFICES ASSUME LakeInv, Download PROVE LakeInv'
  OBVIOUS
<1>1. job = "ingest" /\ Ingested /\ Min(todo) \in todo /\ Min(todo) \in Months
  BY FirstUnit DEF LakeInv, Place, Underway, Download, Ingested
<1>2. TypeOK'
  BY <1>1 DEF Download, LakeInv, TypeOK, lakeVars, tableVars, tallyVars
<1>3. Place'
  BY <1>1 DEF Download, LakeInv, Place
<1>4. Underway'
  BY <1>1 DEF Download, Underway, Ingested, tallyVars, lakeVars
<1>5. Stored'
  BY DEF Download, LakeInv, Stored, lakeVars, tableVars, LayersNest, GoldIsOneSnapshot,
     OnlineIsOffline, Trips, FeaturesOf
<1> QED
  BY <1>2, <1>3, <1>4, <1>5 DEF LakeInv

LEMMA UnavailableKeeps == LakeInv /\ Unavailable => LakeInv'
<1> SUFFICES ASSUME LakeInv, Unavailable PROVE LakeInv'
  OBVIOUS
<1>1. job = "ingest" /\ Ingested /\ Min(todo) \in todo /\ Min(todo) \in Months
  BY FirstUnit DEF LakeInv, Place, Underway, Unavailable, Ingested
<1>2. TypeOK'
  BY <1>1 DEF Unavailable, LakeInv, TypeOK, lakeVars, tableVars, otherVars
<1>3. Place'
  BY <1>1 DEF Unavailable, LakeInv, Place
<1>4. Underway'
  BY <1>1 DEF Unavailable, Underway, Ingested, lakeVars, otherVars
<1>5. Stored'
  BY StoredStays DEF LakeInv, Unavailable, otherVars
<1> QED
  BY <1>2, <1>3, <1>4, <1>5 DEF LakeInv

LEMMA UploadMonthKeeps == LakeInv /\ UploadMonth => LakeInv'
<1> SUFFICES ASSUME LakeInv, UploadMonth PROVE LakeInv'
  OBVIOUS
<1>1. /\ job = "ingest" /\ Ingested /\ Min(todo) \in todo
      /\ Min(todo) \in Months /\ Min(todo) \in raw
  BY FirstUnit DEF LakeInv, Place, Underway, UploadMonth, Ingested
<1>2. TypeOK'
  BY <1>1 DEF UploadMonth, LakeInv, TypeOK, tableVars, otherVars
<1>3. Place'
  BY <1>1 DEF UploadMonth, LakeInv, Place
<1>4. Underway'
  BY <1>1 DEF UploadMonth, Underway, Ingested, otherVars
<1>5. Stored'
  <2>1. bronze \subseteq bronze' /\ bronze' \subseteq raw \ Malformed /\ raw' = raw
    BY <1>1 DEF UploadMonth, otherVars, LakeInv, Stored
  <2>2. UNCHANGED <<silver, parquet, tableVars, outcome>>
    BY DEF UploadMonth
  <2> QED
    BY <2>1, <2>2 DEF LakeInv, Stored, tableVars, LayersNest, GoldIsOneSnapshot,
       OnlineIsOffline, Trips, FeaturesOf
<1> QED
  BY <1>2, <1>3, <1>4, <1>5 DEF LakeInv

LEMMA FinishIngestKeeps == LakeInv /\ FinishIngest => LakeInv'
<1> SUFFICES ASSUME LakeInv, FinishIngest PROVE LakeInv'
  OBVIOUS
<1>1. job = "ingest" /\ faults' \in 0..MaxFaults
  BY DEF LakeInv, TypeOK, Place, FinishIngest
<1>2. ingestStatus \in {"succeeded", "partial", "failed"}
  BY DEF ingestStatus
<1> QED
  BY <1>1, <1>2, EndKeeps DEF FinishIngest

-----------------------------------------------------------------------------
(***************************************************************************)
(* silver.                                                                 *)
(***************************************************************************)
LEMMA StartSilverKeeps == LakeInv /\ StartSilver => LakeInv'
<1> SUFFICES ASSUME LakeInv, StartSilver PROVE LakeInv'
  OBVIOUS
<1>1. bronze \subseteq Months /\ Begin("silver", "write", bronze)
  BY DEF StartSilver, LakeInv, TypeOK
<1>2. TypeOK' /\ Stored' /\ outcome'["silver"] = "running"
  BY <1>1, BeginKeeps DEF Stages
<1>3. Place'
  BY <1>1, <1>2 DEF Begin, Place
<1>4. Underway'
  BY <1>1 DEF Begin, Underway, Validated, lakeVars
<1> QED
  BY <1>2, <1>3, <1>4 DEF LakeInv

LEMMA WriteSilverFileKeeps == LakeInv /\ WriteSilverFile => LakeInv'
<1> SUFFICES ASSUME LakeInv, WriteSilverFile PROVE LakeInv'
  OBVIOUS
<1>1. /\ job = "silver" /\ Validated /\ Min(todo) \in todo
      /\ Min(todo) \in Months /\ Min(todo) \in bronze /\ file \in 1..6
      /\ silver \in [Months -> SUBSET Files] /\ bronze \subseteq Months
  BY FirstUnit DEF LakeInv, TypeOK, Underway, WriteSilverFile, Validated, Files
<1>2. /\ silver' \in [Months -> SUBSET Files] /\ file' \in 2..7
      /\ silver'[Min(todo)] = silver[Min(todo)] \cup {file}
      /\ \A m \in Months : m # Min(todo) => silver'[m] = silver[m]
  BY <1>1 DEF WriteSilverFile, Files
<1>3. TypeOK'
  BY <1>2 DEF WriteSilverFile, LakeInv, TypeOK, tableVars, otherVars, tallyVars
<1>4. Place'
  BY <1>1, <1>2 DEF WriteSilverFile, LakeInv, Place
<1>5. Underway'
  <2>1. todo' = todo /\ bronze' = bronze /\ reports' = reports /\ file' = file + 1
    BY DEF WriteSilverFile, otherVars
  <2>2. \A m \in bronze' \ todo' : silver'[m] = Files /\ m \in reports'
    BY <1>1, <1>2, <2>1 DEF Validated
  <2>3. 1..file \subseteq silver'[Min(todo)]
    <3>1. 1..(file - 1) \subseteq silver[Min(todo)]
      BY <1>1 DEF Validated
    <3>2. 1..file = 1..(file - 1) \cup {file}
      BY <1>1
    <3> QED
      BY <1>2, <3>1, <3>2
  <2>4. 1..(file' - 1) \subseteq silver'[Min(todo')] /\ todo' # {}
    BY <1>1, <2>1, <2>3
  <2>5. Validated'
    BY <1>1, <2>1, <2>2, <2>4 DEF Validated
  <2> QED
    BY <1>1, <2>5 DEF WriteSilverFile, Underway
<1>6. Stored'
  <2>1. Trips \subseteq Trips' /\ Trips' \subseteq Trips \cup {Min(todo)}
    BY <1>1, <1>2 DEF Trips
  <2>2. UNCHANGED <<raw, bronze, parquet, tableVars, outcome>>
    BY DEF WriteSilverFile, otherVars
  <2>3. LayersNest'
    BY <1>1, <2>1, <2>2 DEF LakeInv, Stored, LayersNest, tableVars
  <2> QED
    BY <2>2, <2>3 DEF LakeInv, Stored, tableVars, GoldIsOneSnapshot, OnlineIsOffline,
       FeaturesOf
<1> QED
  BY <1>3, <1>4, <1>5, <1>6 DEF LakeInv

\* Every file of a month is there when its report is written.
LEMMA ReportedIsWhole ==
  ASSUME LakeInv, file \notin Files
  PROVE  /\ job = "silver" /\ Min(todo) \in todo /\ Min(todo) \in bronze
         /\ silver[Min(todo)] = Files
<1>1. file = 7
  BY DEF LakeInv, TypeOK, Files
<1>2. job = "silver" /\ Validated
  BY <1>1 DEF LakeInv, Place, Underway
<1>3. Min(todo) \in todo /\ Min(todo) \in bronze
  BY <1>1, <1>2, FirstUnit DEF LakeInv, Validated
<1>4. silver[Min(todo)] \subseteq Files
  BY <1>3 DEF LakeInv, TypeOK
<1>5. Files \subseteq silver[Min(todo)]
  BY <1>1, <1>2 DEF Validated, Files
<1> QED
  BY <1>2, <1>3, <1>4, <1>5

LEMMA WriteReportKeeps == LakeInv /\ WriteReport => LakeInv'
<1> SUFFICES ASSUME LakeInv, WriteReport PROVE LakeInv'
  OBVIOUS
<1>1. /\ job = "silver" /\ Min(todo) \in todo /\ Min(todo) \in bronze
      /\ silver[Min(todo)] = Files
  BY ReportedIsWhole DEF WriteReport
<1>2. Validated /\ Min(todo) \in Months
  BY <1>1 DEF LakeInv, Underway, TypeOK
<1>3. TypeOK'
  BY <1>2 DEF WriteReport, LakeInv, TypeOK, lakeVars, tableVars, tallyVars
<1>4. Place'
  BY DEF WriteReport, LakeInv, Place
<1>5. Validated'
  BY <1>1, <1>2 DEF WriteReport, Validated, lakeVars
<1>6. Underway'
  BY <1>1, <1>5 DEF WriteReport, Underway
<1>7. Stored'
  BY StoredStays DEF LakeInv, WriteReport
<1> QED
  BY <1>3, <1>4, <1>6, <1>7 DEF LakeInv

LEMMA FinishSilverKeeps == LakeInv /\ FinishSilver => LakeInv'
<1> SUFFICES ASSUME LakeInv, FinishSilver PROVE LakeInv'
  OBVIOUS
<1>1. job = "silver" /\ faults' \in 0..MaxFaults
  BY DEF LakeInv, TypeOK, FinishSilver
<1> QED
  BY <1>1, EndKeeps DEF FinishSilver
-----------------------------------------------------------------------------
(***************************************************************************)
(* The stages that read Silver.                                            *)
(***************************************************************************)
LEMMA StartGoldKeeps == LakeInv /\ StartGold => LakeInv'
<1> SUFFICES ASSUME LakeInv, StartGold PROVE LakeInv'
  OBVIOUS
<1>1. Begin("gold", "read", Tables)
  BY DEF StartGold
<1>2. TypeOK' /\ Stored' /\ outcome'["gold"] = "running"
  BY <1>1, BeginKeeps DEF Stages
<1>3. Place'
  BY <1>1, <1>2 DEF Begin, Place
<1>4. Underway'
  BY <1>1 DEF Begin, Underway, Aggregated
<1> QED
  BY <1>2, <1>3, <1>4 DEF LakeInv

LEMMA StartFeaturesKeeps == LakeInv /\ StartFeatures => LakeInv'
<1> SUFFICES ASSUME LakeInv, StartFeatures PROVE LakeInv'
  OBVIOUS
<1>1. Begin("features", "read", {})
  BY DEF StartFeatures
<1>2. TypeOK' /\ Stored' /\ outcome'["features"] = "running"
  BY <1>1, BeginKeeps DEF Stages
<1>3. Place'
  BY <1>1, <1>2 DEF Begin, Place
<1>4. Underway'
  BY <1>1 DEF Begin, Underway, Computed
<1> QED
  BY <1>2, <1>3, <1>4 DEF LakeInv

LEMMA StartTrainKeeps == LakeInv /\ StartTrain => LakeInv'
<1> SUFFICES ASSUME LakeInv, StartTrain PROVE LakeInv'
  OBVIOUS
<1>1. Begin("train", "read", {})
  BY DEF StartTrain
<1>2. TypeOK' /\ Stored' /\ outcome'["train"] = "running"
  BY <1>1, BeginKeeps DEF Stages
<1>3. Place'
  BY <1>1, <1>2 DEF Begin, Place
<1>4. Underway'
  BY <1>1 DEF Begin, Underway
<1> QED
  BY <1>2, <1>3, <1>4 DEF LakeInv

LEMMA ReaderJobs ==
  ASSUME LakeInv, at = "read" PROVE job \in {"gold", "features", "train"}
BY DEF LakeInv, TypeOK, Place, Stages

LEMMA LoadKeeps == LakeInv /\ LoadSilverTrips => LakeInv'
<1> SUFFICES ASSUME LakeInv, LoadSilverTrips PROVE LakeInv'
  OBVIOUS
<1>1. job \in {"gold", "features", "train"} /\ at = "read" /\ job' = job
  BY ReaderJobs DEF LoadSilverTrips
<1>2. Trips' = Trips /\ read' = Trips /\ Trips # {}
  BY TripsStay DEF LoadSilverTrips, lakeVars
<1>3. TypeOK'
  BY <1>2, TripsAreMonths
  DEF LoadSilverTrips, LakeInv, TypeOK, lakeVars, tableVars, otherVars, tallyVars
<1>4. Place'
  BY <1>1 DEF LoadSilverTrips, LakeInv, Place
<1>5. Underway'
  <2>1. CASE job = "gold"
    <3>1. Aggregated'
      BY <1>2, <2>1
      DEF LakeInv, Underway, LoadSilverTrips, Aggregated, lakeVars, tableVars
    <3> QED
      BY <1>1, <2>1, <3>1 DEF Underway
  <2>2. CASE job = "features"
    <3>1. Computed'
      BY <1>2, <2>2 DEF LoadSilverTrips, Computed
    <3> QED
      BY <1>1, <2>2, <3>1 DEF Underway
  <2>3. CASE job = "train"
    BY <1>1, <1>2, <2>3 DEF Underway
  <2> QED
    BY <1>1, <2>1, <2>2, <2>3
<1>6. Stored'
  BY StoredStays DEF LakeInv, LoadSilverTrips, otherVars
<1> QED
  BY <1>3, <1>4, <1>5, <1>6 DEF LakeInv

LEMMA NoTripsKeeps == LakeInv /\ NoSilverTrips => LakeInv'
<1> SUFFICES ASSUME LakeInv, NoSilverTrips PROVE LakeInv'
  OBVIOUS
<1>1. job # "idle" /\ faults' \in 0..MaxFaults
  BY ReaderJobs DEF LakeInv, TypeOK, NoSilverTrips
<1> QED
  BY <1>1, EndKeeps DEF NoSilverTrips

LEMMA LogModelKeeps == LakeInv /\ LogModel => LakeInv'
<1> SUFFICES ASSUME LakeInv, LogModel PROVE LakeInv'
  OBVIOUS
<1>1. job = "train" /\ faults' \in 0..MaxFaults
  BY DEF LakeInv, TypeOK, Place, LogModel
<1> QED
  BY <1>1, EndKeeps DEF LogModel

\* A stage that is under way says nothing yet of what it will leave behind.
LEMMA GoldIsOpen ==
  ASSUME LakeInv, job = "gold", outcome' = outcome PROVE GoldIsOneSnapshot'
BY DEF LakeInv, Place, GoldIsOneSnapshot

LEMMA FeaturesAreOpen ==
  ASSUME LakeInv, job = "features", outcome' = outcome PROVE OnlineIsOffline'
BY DEF LakeInv, Place, OnlineIsOffline

LEMMA ResetIsOpen ==
  ASSUME LakeInv, job = "reset", outcome' = outcome
  PROVE  LayersNest' /\ GoldIsOneSnapshot' /\ OnlineIsOffline'
BY DEF LakeInv, Place, LayersNest, GoldIsOneSnapshot, OnlineIsOffline

-----------------------------------------------------------------------------
(***************************************************************************)
(* gold.                                                                   *)
(***************************************************************************)
\* A table is being written: it is the first of those still to be done.
LEMMA TableInHand ==
  ASSUME LakeInv, job = "gold", at # "read"
  PROVE  /\ Min(todo) \in todo /\ Min(todo) \in Tables
         /\ read = Trips /\ Trips # {} /\ Trips \in SUBSET Months /\ Aggregated
BY FirstUnit, TripsAreMonths DEF LakeInv, Underway, Aggregated

LEMMA CommitTableKeeps == LakeInv /\ CommitTable => LakeInv'
<1> SUFFICES ASSUME LakeInv, CommitTable PROVE LakeInv'
  OBVIOUS
<1>1. /\ Min(todo) \in todo /\ Min(todo) \in Tables
      /\ read = Trips /\ Trips # {} /\ Trips \in SUBSET Months /\ Aggregated
  BY TableInHand DEF CommitTable
<1>2. Trips' = Trips
  BY TripsStay DEF CommitTable, lakeVars
<1>3. /\ pg \in [Tables -> (SUBSET Months) \cup {Missing}]
      /\ pg' = [pg EXCEPT ![Min(todo)] = Trips]
  BY <1>1 DEF CommitTable, LakeInv, TypeOK
<1>4. TypeOK'
  BY <1>1, <1>3 DEF CommitTable, LakeInv, TypeOK, lakeVars, otherVars, tallyVars
<1>5. Place'
  BY DEF CommitTable, LakeInv, Place
<1>6. Underway'
  <2>1. Aggregated'
    BY <1>1, <1>2, <1>3 DEF CommitTable, Aggregated, lakeVars
  <2> QED
    BY <2>1 DEF CommitTable, Underway
<1>7. LayersNest'
  BY <1>1, <1>2, <1>3
  DEF CommitTable, LakeInv, Stored, LayersNest, lakeVars, otherVars
<1>8. Stored'
  BY <1>7, GoldIsOpen
  DEF CommitTable, LakeInv, Stored, OnlineIsOffline, FeaturesOf, lakeVars, otherVars
<1> QED
  BY <1>4, <1>5, <1>6, <1>8 DEF LakeInv

LEMMA ClearParquetKeeps == LakeInv /\ ClearParquet => LakeInv'
<1> SUFFICES ASSUME LakeInv, ClearParquet PROVE LakeInv'
  OBVIOUS
<1>1. /\ job = "gold" /\ Min(todo) \in todo /\ Min(todo) \in Tables
      /\ read = Trips /\ Trips # {} /\ Trips \in SUBSET Months /\ Aggregated
  BY TableInHand DEF ClearParquet, LakeInv, Place
<1>2. Trips' = Trips
  BY TripsStay DEF ClearParquet
<1>3. /\ parquet \in [Tables -> (SUBSET Months) \cup {Missing}]
      /\ parquet' = [parquet EXCEPT ![Min(todo)] = Missing]
  BY DEF ClearParquet, LakeInv, TypeOK
<1>4. TypeOK'
  BY <1>1, <1>3 DEF ClearParquet, LakeInv, TypeOK, tableVars, otherVars, tallyVars
<1>5. Place'
  BY DEF ClearParquet, LakeInv, Place
<1>6. Underway'
  <2>1. Aggregated'
    BY <1>1, <1>2, <1>3 DEF ClearParquet, Aggregated, tableVars
  <2> QED
    BY <1>1, <2>1 DEF ClearParquet, Underway
<1>7. LayersNest'
  BY <1>1, <1>2, <1>3, MonthsAreNotMissing
  DEF ClearParquet, LakeInv, Stored, LayersNest, tableVars, otherVars
<1>8. Stored'
  BY <1>1, <1>7, GoldIsOpen
  DEF ClearParquet, LakeInv, Stored, OnlineIsOffline, FeaturesOf, tableVars, otherVars
<1> QED
  BY <1>4, <1>5, <1>6, <1>8 DEF LakeInv

LEMMA WriteParquetKeeps == LakeInv /\ WriteParquet => LakeInv'
<1> SUFFICES ASSUME LakeInv, WriteParquet PROVE LakeInv'
  OBVIOUS
<1>1. /\ job = "gold" /\ Min(todo) \in todo /\ Min(todo) \in Tables
      /\ read = Trips /\ Trips # {} /\ Trips \in SUBSET Months /\ Aggregated
  BY TableInHand DEF WriteParquet, LakeInv, Place
<1>2. Trips' = Trips
  BY TripsStay DEF WriteParquet
<1>3. /\ parquet \in [Tables -> (SUBSET Months) \cup {Missing}]
      /\ parquet' = [parquet EXCEPT ![Min(todo)] = Trips]
  BY DEF WriteParquet, LakeInv, TypeOK
<1>4. TypeOK'
  BY <1>1, <1>3 DEF WriteParquet, LakeInv, TypeOK, tableVars, otherVars, tallyVars
<1>5. Place'
  BY <1>1 DEF WriteParquet, LakeInv, Place
<1>6. Underway'
  <2>1. Aggregated'
    BY <1>1, <1>2, <1>3 DEF WriteParquet, Aggregated, tableVars
  <2> QED
    BY <1>1, <2>1 DEF WriteParquet, Underway
<1>7. LayersNest'
  BY <1>1, <1>2, <1>3
  DEF WriteParquet, LakeInv, Stored, LayersNest, tableVars, otherVars
<1>8. Stored'
  BY <1>1, <1>7, GoldIsOpen
  DEF WriteParquet, LakeInv, Stored, OnlineIsOffline, FeaturesOf, tableVars, otherVars
<1> QED
  BY <1>4, <1>5, <1>6, <1>8 DEF LakeInv

LEMMA GoldIsDone ==
  ASSUME LakeInv, FinishGold
  PROVE  \A t \in Tables : pg[t] = Trips /\ parquet[t] = Trips /\ Trips # {}
BY DEF LakeInv, FinishGold, Underway, Aggregated

LEMMA FinishGoldKeeps == LakeInv /\ FinishGold => LakeInv'
<1> SUFFICES ASSUME LakeInv, FinishGold PROVE LakeInv'
  OBVIOUS
<1>1. job = "gold" /\ faults' \in 0..MaxFaults
  BY DEF LakeInv, TypeOK, FinishGold
<1>2. GoldIsOneSnapshot'
  <2>1. \A t \in Tables : pg[t] = Trips /\ parquet[t] = Trips /\ Trips # {}
    BY GoldIsDone
  <2>2. Trips # Missing
    BY TripsAreMonths, MonthsAreNotMissing
  <2>3. UNCHANGED <<pg, parquet>>
    BY DEF FinishGold, lakeVars, tableVars
  <2> QED
    BY <2>1, <2>2, <2>3 DEF GoldIsOneSnapshot
<1> QED
  BY <1>1, <1>2, EndKeeps DEF FinishGold
-----------------------------------------------------------------------------
(***************************************************************************)
(* features.                                                               *)
(***************************************************************************)
LEMMA CommitFeaturesKeeps == LakeInv /\ CommitFeatures => LakeInv'
<1> SUFFICES ASSUME LakeInv, CommitFeatures PROVE LakeInv'
  OBVIOUS
<1>1. job = "features" /\ read = Trips /\ read \in SUBSET Months /\ Trips' = Trips
  BY TripsAreMonths, TripsStay
  DEF LakeInv, Underway, Computed, CommitFeatures, lakeVars
<1>2. FeaturesOf(read) \subseteq Zones
  BY <1>1, FeaturesAreZones
<1>3. TypeOK'
  BY <1>1, <1>2 DEF CommitFeatures, LakeInv, TypeOK, lakeVars, otherVars, tallyVars
<1>4. Place'
  BY <1>1 DEF CommitFeatures, LakeInv, Place
<1>5. Underway'
  <2>1. Computed'
    BY <1>1 DEF CommitFeatures, Computed, FeaturesOf
  <2> QED
    BY <1>1, <2>1 DEF CommitFeatures, Underway
<1>6. LayersNest'
  BY <1>1 DEF CommitFeatures, LakeInv, Stored, LayersNest, lakeVars, otherVars
<1>7. Stored'
  BY <1>1, <1>6, FeaturesAreOpen
  DEF CommitFeatures, LakeInv, Stored, GoldIsOneSnapshot, FeaturesOf, lakeVars, otherVars
<1> QED
  BY <1>3, <1>4, <1>5, <1>7 DEF LakeInv

LEMMA SetKeyKeeps == LakeInv /\ SetKey => LakeInv'
<1> SUFFICES ASSUME LakeInv, SetKey PROVE LakeInv'
  OBVIOUS
<1>1. /\ job = "features" /\ read = Trips /\ read \in SUBSET Months
      /\ Trips' = Trips /\ Computed /\ at = "set"
  BY TripsAreMonths, TripsStay
  DEF LakeInv, Place, Underway, Computed, SetKey, lakeVars
<1>2. PICK z \in todo : online' = [online EXCEPT ![z] = read] /\ todo' = todo \ {z}
  BY DEF SetKey
<1>3. z \in FeaturesOf(read) /\ z \in Zones
  BY <1>1, FeaturesAreZones DEF Computed
<1>4. online \in [Zones -> (SUBSET Months) \cup {Missing}]
  BY DEF LakeInv, TypeOK
<1>5. /\ online'[z] = read
      /\ \A y \in Zones : y # z => online'[y] = online[y]
  BY <1>2, <1>3, <1>4
<1>6. TypeOK'
  BY <1>1, <1>2, <1>3, <1>4
  DEF SetKey, LakeInv, TypeOK, lakeVars, otherVars, tallyVars
<1>7. Place'
  BY <1>1 DEF SetKey, LakeInv, Place
<1>8. Underway'
  <2>1. FeaturesOf(read)' = FeaturesOf(read) /\ read' = read /\ offline' = offline
    BY DEF SetKey, FeaturesOf
  <2>2. \A y \in FeaturesOf(read) \ todo' : online'[y] = read
    BY <1>1, <1>2, <1>5, FeaturesAreZones DEF Computed
  <2>3. Computed'
    BY <1>1, <1>2, <2>1, <2>2 DEF SetKey, Computed
  <2> QED
    BY <1>1, <2>3 DEF SetKey, Underway
<1>9. LayersNest'
  BY <1>1, <1>5 DEF SetKey, LakeInv, Stored, LayersNest, lakeVars, otherVars
<1>10. Stored'
  <2>1. \A y \in Zones : online'[y] # Missing => y \in FeaturesOf(online'[y])
    BY <1>3, <1>5 DEF LakeInv, Stored
  <2> QED
    BY <1>1, <1>9, <2>1, FeaturesAreOpen
    DEF SetKey, LakeInv, Stored, GoldIsOneSnapshot, FeaturesOf, lakeVars, otherVars
<1> QED
  BY <1>6, <1>7, <1>8, <1>10 DEF LakeInv

LEMMA FinishFeaturesKeeps == LakeInv /\ FinishFeatures => LakeInv'
<1> SUFFICES ASSUME LakeInv, FinishFeatures PROVE LakeInv'
  OBVIOUS
<1>1. job = "features" /\ faults' \in 0..MaxFaults
  BY DEF LakeInv, TypeOK, Place, FinishFeatures
<1>2. /\ offline = Trips /\ Trips \in SUBSET Months /\ offline \ Missing = Trips
      /\ \A z \in FeaturesOf(Trips) : online[z] = Trips
  BY <1>1, TripsAreMonths, MonthsAreNotMissing
  DEF LakeInv, Underway, Computed, FinishFeatures
<1>3. UNCHANGED <<offline, online>> /\ outcome'["reset"] = outcome["reset"]
  BY <1>1 DEF FinishFeatures, tableVars, End, LakeInv, TypeOK, Stages
<1>4. ASSUME NEW z \in Zones, outcome["reset"] \in {"none", "succeeded"},
             online[z] # Missing
      PROVE  z \in FeaturesOf(Trips)
  <2>1. z \in FeaturesOf(online[z]) /\ online[z] \ Missing \subseteq Trips
    BY <1>4 DEF LakeInv, Stored, LayersNest
  <2>2. online[z] \in SUBSET Months
    BY <1>4 DEF LakeInv, TypeOK
  <2>3. online[z] \subseteq Trips
    BY <2>1, <2>2, MonthsAreNotMissing
  <2> QED
    BY <2>1, <2>3, FeaturesGrow
<1>5. OnlineIsOffline'
  BY <1>2, <1>3, <1>4 DEF OnlineIsOffline, FeaturesOf
<1> QED
  BY <1>1, <1>5, EndKeeps DEF FinishFeatures

-----------------------------------------------------------------------------
(***************************************************************************)
(* reset.                                                                  *)
(***************************************************************************)
LEMMA StartResetKeeps == LakeInv /\ StartReset => LakeInv'
<1> SUFFICES ASSUME LakeInv, StartReset PROVE LakeInv'
  OBVIOUS
<1>1. Begin("reset", "truncate", {})
  BY DEF StartReset
<1>2. /\ TypeOK' /\ Stored' /\ outcome'["reset"] = "running"
      /\ outcome'["gold"] = "none" /\ outcome'["features"] = "none"
  BY <1>1, BeginKeeps DEF Stages
<1>3. Place'
  BY <1>1, <1>2 DEF Begin, Place
<1>4. Underway'
  BY <1>1 DEF Begin, Underway, Cleared
<1> QED
  BY <1>2, <1>3, <1>4 DEF LakeInv

LEMMA TruncateKeeps == LakeInv /\ TruncateTables => LakeInv'
<1> SUFFICES ASSUME LakeInv, TruncateTables PROVE LakeInv'
  OBVIOUS
<1>1. job = "reset" /\ outcome' = outcome
  BY DEF TruncateTables, LakeInv, Place
<1>2. /\ \A t \in Tables : pg'[t] \in {Missing, {}}
      /\ pg' \in [Tables -> (SUBSET Months) \cup {Missing}]
      /\ offline' \in {Missing, {}}
  BY DEF TruncateTables, emptied
<1>3. TypeOK'
  BY <1>2 DEF TruncateTables, LakeInv, TypeOK, lakeVars, otherVars, tallyVars
<1>4. Place'
  BY <1>1 DEF TruncateTables, LakeInv, Place
<1>5. Underway'
  BY <1>1, <1>2 DEF TruncateTables, Underway, Cleared
<1>6. Stored'
  BY <1>1, ResetIsOpen
  DEF TruncateTables, LakeInv, Stored, FeaturesOf, lakeVars, otherVars
<1> QED
  BY <1>3, <1>4, <1>5, <1>6 DEF LakeInv

\* What is deleted was whole nowhere else: the reset is open, and what it had
\* cleared before stays clear.
LEMMA DeleteSomeKeeps == LakeInv /\ DeleteSome => LakeInv'
<1> SUFFICES ASSUME LakeInv, DeleteSome PROVE LakeInv'
  OBVIOUS
<1>1. /\ job = "reset" /\ outcome' = outcome /\ Cleared /\ at = "delete"
      /\ at' = at /\ todo' = todo /\ job' = job
  BY DEF DeleteSome, LakeInv, Place, Underway
<1>2. /\ bronze' \subseteq bronze
      /\ \A m \in Months : silver'[m] \subseteq silver[m]
      /\ \A t \in Tables : parquet'[t] \in {parquet[t], Missing}
  BY DEF DeleteSome
<1>3. TypeOK'
  <2>1. silver' \in [Months -> SUBSET Files]
    BY <1>2 DEF DeleteSome, LakeInv, TypeOK
  <2>2. parquet' \in [Tables -> (SUBSET Months) \cup {Missing}]
    BY <1>2 DEF DeleteSome, LakeInv, TypeOK
  <2> QED
    BY <1>2, <2>1, <2>2 DEF DeleteSome, LakeInv, TypeOK, tableVars, otherVars, tallyVars
<1>4. Place'
  BY <1>1 DEF DeleteSome, LakeInv, Place
<1>5. Underway'
  <2>1. Trips' \subseteq Trips
    BY <1>2 DEF Trips
  <2>2. pg' = pg /\ offline' = offline
    BY DEF DeleteSome, tableVars
  <2>3. Cleared'
    BY <1>1, <1>2, <2>1, <2>2 DEF Cleared
  <2> QED
    BY <1>1, <2>3 DEF DeleteSome, Underway
<1>6. Stored'
  BY <1>1, <1>2, ResetIsOpen
  DEF DeleteSome, LakeInv, Stored, FeaturesOf, tableVars, otherVars
<1> QED
  BY <1>3, <1>4, <1>5, <1>6 DEF LakeInv

LEMMA DeletePrefixKeeps == LakeInv /\ DeletePrefix => LakeInv'
<1> SUFFICES ASSUME LakeInv, DeletePrefix PROVE LakeInv'
  OBVIOUS
<1>1. /\ job = "reset" /\ outcome' = outcome /\ Cleared /\ at = "delete"
      /\ Min(todo) \in todo /\ at' = at /\ todo' = todo \ {Min(todo)}
  BY FirstUnit DEF DeletePrefix, LakeInv, Place, Underway
<1>2. /\ bronze' \in {bronze, {}}
      /\ silver' \in {silver, [m \in Months |-> {}]}
      /\ parquet' \in {parquet, [t \in Tables |-> Missing]}
  BY DEF DeletePrefix
<1>3. TypeOK'
  BY <1>2 DEF DeletePrefix, LakeInv, TypeOK, tableVars, otherVars, tallyVars
<1>4. Place'
  BY <1>1 DEF DeletePrefix, LakeInv, Place
<1>5. Underway'
  <2>1. Min(todo) = 1 => bronze' = {}
    BY DEF DeletePrefix
  <2>2. Min(todo) = 2 => Trips' = {}
    BY DEF DeletePrefix, Trips
  <2>3. Min(todo) = 3 => \A t \in Tables : parquet'[t] = Missing
    BY DEF DeletePrefix
  <2>4. /\ bronze = {} => bronze' = {}
        /\ Trips = {} => Trips' = {}
        /\ (\A t \in Tables : parquet[t] = Missing) =>
             \A t \in Tables : parquet'[t] = Missing
    BY <1>2 DEF Trips
  <2>5. pg' = pg /\ offline' = offline
    BY DEF DeletePrefix, tableVars
  <2>6. Cleared'
    BY <1>1, <2>1, <2>2, <2>3, <2>4, <2>5 DEF Cleared
  <2> QED
    BY <1>1, <2>6 DEF DeletePrefix, Underway
<1>6. Stored'
  BY <1>1, <1>2, ResetIsOpen
  DEF DeletePrefix, LakeInv, Stored, FeaturesOf, tableVars, otherVars
<1> QED
  BY <1>3, <1>4, <1>5, <1>6 DEF LakeInv

LEMMA ScanKeysKeeps == LakeInv /\ ScanKeys => LakeInv'
<1> SUFFICES ASSUME LakeInv, ScanKeys PROVE LakeInv'
  OBVIOUS
<1>1. job = "reset" /\ Cleared
  BY DEF ScanKeys, LakeInv, Place, Underway
<1>2. TypeOK'
  BY DEF ScanKeys, LakeInv, TypeOK, lakeVars, tableVars, otherVars, tallyVars
<1>3. Place'
  BY DEF ScanKeys, LakeInv, Place
<1>4. Underway'
  <2>1. Cleared'
    BY <1>1, TripsStay DEF ScanKeys, Cleared, lakeVars, tableVars
  <2> QED
    BY <1>1, <2>1 DEF ScanKeys, Underway
<1>5. Stored'
  BY StoredStays DEF LakeInv, ScanKeys, otherVars
<1> QED
  BY <1>2, <1>3, <1>4, <1>5 DEF LakeInv

LEMMA DeleteKeysKeeps == LakeInv /\ DeleteKeys => LakeInv'
<1> SUFFICES ASSUME LakeInv, DeleteKeys PROVE LakeInv'
  OBVIOUS
<1>1. job = "reset" /\ Cleared /\ outcome' = outcome
  BY DEF DeleteKeys, LakeInv, Place, Underway
<1>2. PICK batch \in (SUBSET todo) \ {{}} :
        /\ online' = [z \in Zones |-> IF z \in batch THEN Missing ELSE online[z]]
        /\ todo' = todo \ batch
  BY DEF DeleteKeys
<1>3. TypeOK'
  BY <1>2 DEF DeleteKeys, LakeInv, TypeOK, lakeVars, otherVars, tallyVars
<1>4. Place'
  BY DEF DeleteKeys, LakeInv, Place
<1>5. Underway'
  <2>1. Cleared'
    BY <1>1, <1>2, TripsStay DEF DeleteKeys, Cleared, lakeVars
  <2> QED
    BY <1>1, <2>1 DEF DeleteKeys, Underway
<1>6. Stored'
  BY <1>1, <1>2, ResetIsOpen
  DEF DeleteKeys, LakeInv, Stored, FeaturesOf, lakeVars, otherVars
<1> QED
  BY <1>3, <1>4, <1>5, <1>6 DEF LakeInv

LEMMA ResetIsDone ==
  ASSUME LakeInv, FinishReset
  PROVE  /\ bronze = {} /\ Trips = {} /\ offline \in {Missing, {}}
         /\ \A t \in Tables : pg[t] \in {Missing, {}} /\ parquet[t] = Missing
         /\ \A z \in Zones : online[z] = Missing
BY DEF LakeInv, FinishReset, Place, Underway, Cleared

LEMMA FinishResetKeeps == LakeInv /\ FinishReset => LakeInv'
<1> SUFFICES ASSUME LakeInv, FinishReset PROVE LakeInv'
  OBVIOUS
<1>1. job = "reset" /\ faults' \in 0..MaxFaults
  BY DEF LakeInv, TypeOK, Place, FinishReset
<1>2. LayersNest'
  <2>1. UNCHANGED <<bronze, pg, parquet, offline, online>> /\ Trips' = Trips
    BY TripsStay DEF FinishReset, lakeVars, tableVars
  <2> QED
    BY <2>1, ResetIsDone, MonthsAreNotMissing DEF LayersNest
<1> QED
  BY <1>1, <1>2, EndKeeps DEF FinishReset
-----------------------------------------------------------------------------
(***************************************************************************)
(* Every step.                                                             *)
(***************************************************************************)
LEMMA StutterKeeps == LakeInv /\ UNCHANGED vars => LakeInv'
<1> SUFFICES ASSUME LakeInv, UNCHANGED vars PROVE LakeInv'
  OBVIOUS
<1>1. TypeOK' /\ Place'
  BY DEF vars, lakeVars, tableVars, otherVars, tallyVars, LakeInv, TypeOK, Place
<1>2. Underway'
  BY TripsStay
  DEF vars, lakeVars, tableVars, otherVars, tallyVars, LakeInv, Underway, Ingested,
      Validated, Aggregated, Computed, Cleared, FeaturesOf
<1>3. Stored'
  BY StoredStays DEF vars, otherVars, LakeInv
<1> QED
  BY <1>1, <1>2, <1>3 DEF LakeInv

LEMMA StepKeeps == LakeInv /\ [Next]_vars => LakeInv'
<1> SUFFICES ASSUME LakeInv, [Next]_vars PROVE LakeInv'
  OBVIOUS
<1>1. CASE IngestStep
  BY <1>1, StartIngestKeeps, DownloadKeeps, UnavailableKeeps, UploadMonthKeeps,
     FinishIngestKeeps DEF IngestStep
<1>2. CASE SilverStep
  BY <1>2, StartSilverKeeps, WriteSilverFileKeeps, WriteReportKeeps, FinishSilverKeeps
  DEF SilverStep
<1>3. CASE GoldStep
  BY <1>3, StartGoldKeeps, CommitTableKeeps, ClearParquetKeeps, WriteParquetKeeps,
     FinishGoldKeeps DEF GoldStep
<1>4. CASE FeaturesStep
  BY <1>4, StartFeaturesKeeps, CommitFeaturesKeeps, SetKeyKeeps, FinishFeaturesKeeps
  DEF FeaturesStep
<1>5. CASE ReaderStep
  BY <1>5, LoadKeeps, NoTripsKeeps, StartTrainKeeps, LogModelKeeps DEF ReaderStep
<1>6. CASE ResetStep
  BY <1>6, StartResetKeeps, TruncateKeeps, DeleteSomeKeeps, DeletePrefixKeeps,
     ScanKeysKeeps, DeleteKeysKeeps, FinishResetKeeps DEF ResetStep
<1>7. CASE JobBreaks
  BY <1>7, BreaksKeeps
<1>8. CASE UNCHANGED vars
  BY <1>8, StutterKeeps
<1> QED
  BY <1>1, <1>2, <1>3, <1>4, <1>5, <1>6, <1>7, <1>8 DEF Next

\* At any moment a stage has done what it should have done by then, and what a
\* stage cut short leaves is nested and, where the last run of gold or features
\* succeeded, whole (worker/main.py:48-69).
THEOREM LakeInvariant == Spec => []LakeInv
BY InitKeeps, StepKeeps, PTL DEF Spec

\* The stores and the stage in hand are well typed (worker/main.py:17-25).
THEOREM LakeTyped == Spec => []TypeOK
BY LakeInvariant, PTL DEF LakeInv

\* No layer holds a month its source does not, unless a reset has not run to
\* its end (reset.py:73-82).
THEOREM LayersStayNested == Spec => []LayersNest
<1>1. LakeInv => LayersNest
  BY DEF LakeInv, Stored
<1> QED
  BY <1>1, LakeInvariant, PTL

\* As long as the last gold or features run is one that succeeded, its tables
\* agree with the Parquet copies and with the keys in Redis
\* (run_gold.py:17-28, compute_features.py:99-132).
THEOREM StoresStayAgreed == Spec => []StoresAgree
<1>1. LakeInv => StoresAgree
  BY DEF LakeInv, Stored, StoresAgree
<1> QED
  BY <1>1, LakeInvariant, PTL

-----------------------------------------------------------------------------
(***************************************************************************)
(* The files of a month.                                                   *)
(***************************************************************************)
\* The first rule a row breaks, in the order of the masks, names its file.
LEMMA RowHasOneFile ==
  ASSUME NEW r \in Rows
  PROVE  /\ Cardinality({f \in Files : InFile(r, f)}) = 1
         /\ InFile(r, 1) <=> ~ rejectMask(r) /\ ~ quarantineMask(r)
         /\ rejectMask(r) <=> r.times # "ok" \/ r.distance = "negative"
         /\ quarantineMask(r) => \/ r.passengers = "none" \/ r.distance = "outlier"
                                 \/ r.fare = "negative" \/ r.total = "negative"
<1>1. Files = {1, 2, 3, 4, 5, 6}
  BY DEF Files
<1>2. /\ InFile(r, 1) <=> ~ excludedMask(r)
      /\ InFile(r, 2) <=> catTimestamps(r)
      /\ InFile(r, 3) <=> catDistance(r)
      /\ InFile(r, 4) <=> catPassenger(r)
      /\ InFile(r, 5) <=> catFare(r)
      /\ InFile(r, 6) <=> catTotal(r)
  BY DEF InFile
<1>3. PICK f \in Files : \A g \in Files : InFile(r, g) <=> g = f
  <2>1. CASE catTimestamps(r)
    BY <1>1, <1>2, <2>1
    DEF excludedMask, catDistance, catPassenger, catFare, catTotal
  <2>2. CASE catDistance(r)
    BY <1>1, <1>2, <2>2 DEF excludedMask, catDistance, catPassenger, catFare, catTotal
  <2>3. CASE catPassenger(r)
    BY <1>1, <1>2, <2>3 DEF excludedMask, catPassenger, catFare, catTotal
  <2>4. CASE catFare(r)
    BY <1>1, <1>2, <2>4 DEF excludedMask, catFare, catTotal
  <2>5. CASE catTotal(r)
    BY <1>1, <1>2, <2>5 DEF excludedMask, catTotal
  <2>6. CASE ~ excludedMask(r)
    BY <1>1, <1>2, <2>6 DEF excludedMask
  <2> QED
    BY <2>1, <2>2, <2>3, <2>4, <2>5, <2>6 DEF excludedMask
<1>4. {g \in Files : InFile(r, g)} = {f}
  BY <1>3
<1>5. Cardinality({g \in Files : InFile(r, g)}) = 1
  BY <1>4, FS_Singleton
<1>6. InFile(r, 1) <=> ~ rejectMask(r) /\ ~ quarantineMask(r)
  BY <1>2 DEF rejectMask, quarantineMask, excludedMask
<1>7. rejectMask(r) <=> r.times # "ok" \/ r.distance = "negative"
  BY DEF rejectMask, catDistance, catTimestamps
<1>8. quarantineMask(r) => \/ r.passengers = "none" \/ r.distance = "outlier"
                           \/ r.fare = "negative" \/ r.total = "negative"
  BY DEF quarantineMask, rejectMask, excludedMask, catDistance, catPassenger, catFare,
         catTotal
<1> QED
  BY <1>5, <1>6, <1>7, <1>8

\* When a report is written the month's files are there and every row is in
\* exactly one of them (validator.py:66-120).
THEOREM RowsAreSorted == Spec => []EachRowInOneFile
<1>1. LakeInv => EachRowInOneFile
  BY ReportedIsWhole, RowHasOneFile DEF EachRowInOneFile, OneFilePerRow
<1> QED
  BY <1>1, LakeInvariant, PTL

-----------------------------------------------------------------------------
(***************************************************************************)
(* What a stage says when it ends.                                         *)
(***************************************************************************)
\* A stage that was running ends in one of these steps.
LEMMA EndsBy ==
  ASSUME LakeInv, [Next]_vars, NEW s, NEW status, Ended(s, status), s # "idle",
         status \in {"succeeded", "partial", "failed"}
  PROVE  \/ JobBreaks \/ NoSilverTrips
         \/ (s = "ingest" /\ FinishIngest) \/ (s = "silver" /\ FinishSilver)
         \/ (s = "gold" /\ FinishGold) \/ (s = "features" /\ FinishFeatures)
         \/ (s = "train" /\ LogModel) \/ (s = "reset" /\ FinishReset)
<1>1. job = s /\ job # "idle" /\ outcome[s] = "running" /\ outcome' # outcome
  BY DEF Ended, LakeInv, Place
<1>2. CASE IngestStep
  BY <1>1, <1>2
  DEF IngestStep, StartIngest, Begin, Download, Unavailable, UploadMonth, FinishIngest,
      LakeInv, Place
<1>3. CASE SilverStep
  BY <1>1, <1>3 DEF SilverStep, StartSilver, Begin, WriteSilverFile, WriteReport,
                    FinishSilver
<1>4. CASE GoldStep
  BY <1>1, <1>4 DEF GoldStep, StartGold, Begin, CommitTable, ClearParquet, WriteParquet,
                    FinishGold
<1>5. CASE FeaturesStep
  BY <1>1, <1>5 DEF FeaturesStep, StartFeatures, Begin, CommitFeatures, SetKey,
                    FinishFeatures, LakeInv, Place
<1>6. CASE ReaderStep
  BY <1>1, <1>6 DEF ReaderStep, LoadSilverTrips, StartTrain, Begin, LogModel, LakeInv, Place
<1>7. CASE ResetStep
  BY <1>1, <1>7 DEF ResetStep, StartReset, Begin, TruncateTables, DeleteSome,
                    DeletePrefix, ScanKeys, DeleteKeys, FinishReset, LakeInv, Place
<1>8. CASE UNCHANGED vars
  BY <1>1, <1>8 DEF vars
<1> QED
  BY <1>2, <1>3, <1>4, <1>5, <1>6, <1>7, <1>8 DEF Next

\* The status a stage ends with is the one it gives.
LEMMA EndsWith ==
  ASSUME LakeInv, NEW s \in Stages, NEW status, Ended(s, status), NEW given, End(given)
  PROVE  given = status
BY DEF Ended, End, LakeInv, TypeOK

\* A stage that is cut short or finds no trips does not succeed.
LEMMA SucceedsBy ==
  ASSUME LakeInv, [Next]_vars, NEW s \in Stages, Ended(s, "succeeded")
  PROVE  \/ (s = "ingest" /\ FinishIngest) \/ (s = "silver" /\ FinishSilver)
         \/ (s = "gold" /\ FinishGold) \/ (s = "features" /\ FinishFeatures)
         \/ (s = "train" /\ LogModel) \/ (s = "reset" /\ FinishReset)
<1>1. s # "idle"
  BY DEF Stages
<1>2. ~ JobBreaks
  BY EndsWith DEF JobBreaks
<1>3. ~ NoSilverTrips
  BY EndsWith DEF NoSilverTrips
<1> QED
  BY <1>1, <1>2, <1>3, EndsBy

LEMMA StepLeavesCurrent == LakeInv /\ [Next]_vars => LeavesCurrent
<1> SUFFICES ASSUME LakeInv, [Next]_vars PROVE LeavesCurrent
  OBVIOUS
<1>1. ASSUME Ended("silver", "succeeded")
      PROVE  \A m \in bronze' : silver'[m] = Files /\ m \in reports'
  <2>1. FinishSilver
    BY <1>1, SucceedsBy DEF Stages
  <2> QED
    BY <2>1 DEF FinishSilver, LakeInv, Underway, Validated, lakeVars, otherVars
<1>2. ASSUME Ended("gold", "succeeded") PROVE \A t \in Tables : pg'[t] = Trips'
  <2>1. FinishGold
    BY <1>2, SucceedsBy DEF Stages
  <2> QED
    BY <2>1, GoldIsDone, TripsStay DEF FinishGold, lakeVars, tableVars
<1>3. ASSUME Ended("features", "succeeded") PROVE offline' = Trips'
  <2>1. FinishFeatures
    BY <1>3, SucceedsBy DEF Stages
  <2> QED
    BY <2>1, TripsStay
    DEF FinishFeatures, LakeInv, Place, Underway, Computed, lakeVars, tableVars
<1>4. ASSUME Ended("train", "succeeded") PROVE read = Trips'
  <2>1. LogModel
    BY <1>4, SucceedsBy DEF Stages
  <2> QED
    BY <2>1, TripsStay DEF LogModel, LakeInv, Place, Underway, lakeVars
<1>5. ASSUME Ended("reset", "succeeded")
      PROVE  /\ bronze' = {} /\ Trips' = {} /\ offline' \in {Missing, {}}
             /\ \A t \in Tables : pg'[t] \in {Missing, {}} /\ parquet'[t] = Missing
             /\ \A z \in Zones : online'[z] = Missing
  <2>1. FinishReset
    BY <1>5, SucceedsBy DEF Stages
  <2> QED
    BY <2>1, ResetIsDone, TripsStay DEF FinishReset, lakeVars, tableVars
<1> QED
  BY <1>1, <1>2, <1>3, <1>4, <1>5 DEF LeavesCurrent

LEMMA StepAnswersTruly == LakeInv /\ [Next]_vars => AnswersTruly
<1> SUFFICES ASSUME LakeInv, [Next]_vars PROVE AnswersTruly
  OBVIOUS
<1>1. ASSUME NEW status \in {"succeeded", "partial", "failed"},
             Ended("ingest", status), status = "failed" => faults' = faults
      PROVE  /\ ingestStatus = status /\ bronze' = bronze
             /\ asked = landed \cup refused /\ landed \subseteq bronze
             /\ refused \cap bronze = {}
  <2>1. ~ JobBreaks
    <3>1. JobBreaks => status = "failed"
      BY <1>1, EndsWith DEF JobBreaks, Stages
    <3>2. JobBreaks => faults' # faults
      BY DEF JobBreaks, LakeInv, TypeOK
    <3> QED
      BY <1>1, <3>1, <3>2
  <2>2. ~ NoSilverTrips
    BY <1>1 DEF Ended, NoSilverTrips, LakeInv, Place
  <2>3. FinishIngest
    BY <1>1, <2>1, <2>2, EndsBy
  <2>4. ingestStatus = status
    BY <1>1, <2>3, EndsWith DEF FinishIngest, Stages
  <2>5. Ingested /\ bronze \subseteq raw \ Malformed
    BY <1>1 DEF Ended, LakeInv, Underway, Stored
  <2> QED
    BY <2>3, <2>4, <2>5 DEF FinishIngest, Ingested, lakeVars
<1>2. ASSUME Ended("ingest", "succeeded") PROVE asked \subseteq bronze'
  BY <1>1, <1>2 DEF ingestStatus
<1>3. ASSUME Ended("ingest", "partial")
      PROVE  asked \cap bronze' # {} /\ asked \ bronze' # {}
  BY <1>1, <1>3 DEF ingestStatus
<1>4. ASSUME Ended("ingest", "failed"), faults' = faults
      PROVE  asked # {} /\ asked \cap bronze' = {}
  BY <1>1, <1>4 DEF ingestStatus
<1> QED
  BY <1>2, <1>3, <1>4 DEF AnswersTruly

\* What a stage says of itself is true: success is up to date whatever runs were
\* cut short before it, and ingest's answer is about what is in Bronze
\* (worker/jobs, run()).
THEOREM StatusStaysTrue == Spec => StatusIsTrue
BY StepLeavesCurrent, StepAnswersTruly, LakeInvariant, PTL DEF Spec, StatusIsTrue
=============================================================================
