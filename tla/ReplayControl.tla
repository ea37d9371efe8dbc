---------------------------- MODULE ReplayControl ----------------------------
(***************************************************************************)
(* The replay job and its live controls: the worker sends one day's trips  *)
(* to Kafka row by row and reads a Redis hash before each row; the         *)
(* Streaming screen's buttons reach that hash through the control-plane,   *)
(* each click a request of its own. One replay is followed, from the       *)
(* moment it is queued.                                                    *)
(***************************************************************************)
EXTENDS Naturals, Sequences

CONSTANTS
  Limit,          \* the most trips this replay sends (DEFAULT_LIMIT is 500)
  Days,           \* how many trips the chosen day may have
  Speeds,         \* the speeds clicked in this instance
  MaxClicks,      \* how many controls are clicked (bounds the model)
  MaxFaults       \* how many faults happen (bounds the model)

ASSUME ReplayControlAssumption ==
  /\ Limit \in Nat \ {0}
  /\ Days \subseteq Nat
  /\ Speeds \subseteq {"1", "2", "3", "5", "10"}
  /\ MaxClicks \in Nat
  /\ MaxFaults \in Nat

VARIABLES
  hash,           \* the control hash: the value of each field, or "none"
  ttl,            \* the hash's key has an expiry
  calls,          \* control requests under way, each on its own connection
  pauseIntent,    \* what the Pause button believes
  active,         \* the screen shows the controls
  rpc,            \* the worker: the next call of the replay job
  filled,         \* how many fields of the hash the job has seen to
  total,          \* trips the loop goes over
  pace,           \* the speed read by the last poll
  sent,           \* trips given to the producer
  delivered,      \* trips Kafka has acknowledged
  lost,           \* trips the producer has given up
  result,         \* the status the job returns, "raised", or "none"
  clicks,         \* counter: the controls clicked
  asked,          \* history: the fields a command was given for
  said,           \* history: the last command written to each field of the key
  overrun,        \* history: trips sent in disregard of the field's command
  faults          \* counter

uiVars     == <<pauseIntent, active, clicks, asked>>
keyVars    == <<hash, ttl, said>>
kafkaVars  == <<sent, delivered, lost>>
workerVars == <<rpc, filled, total, pace, result>>
vars == <<keyVars, calls, uiVars, workerVars, kafkaVars, overrun, faults>>

-----------------------------------------------------------------------------
Fields   == {"paused", "speed", "cancelled"}
Default  == [paused |-> "false", speed |-> "1", cancelled |-> "false"]
Values   == [paused |-> {"true", "false"}, speed |-> Speeds \cup {"1"},
             cancelled |-> {"true", "false"}]
NoKey    == [f \in Fields |-> "none"]
KeyThere == hash # NoKey
Zero     == [f \in Fields |-> 0]
Buffered == sent - (delivered + lost)
Ended    == rpc = "ended"

\* Inside the try of run(): an exception here is the result "failed".
Trying == {"loading", "polling", "paused", "sending", "clearing"}

TypeOK ==
  /\ \A f \in Fields : /\ hash[f] \in Values[f] \cup {"none"}
                       /\ said[f] \in Values[f] \cup {"none"}
  /\ ttl \in BOOLEAN /\ (ttl => KeyThere)
  /\ \A c \in calls : /\ c.id \in 1..MaxClicks
                      /\ c.field \in Fields /\ c.value \in Values[c.field]
                      /\ c.step \in {"sent", "set"}
  /\ pauseIntent \in BOOLEAN /\ active \in BOOLEAN
  /\ rpc \in Trying \cup {"filling", "expiring", "closing", "ended"}
  /\ filled \in 0..3
  /\ total \in 0..Limit /\ sent \in 0..total
  /\ delivered + lost \in 0..sent
  /\ pace \in Values.speed
  /\ result \in {"none", "succeeded", "cancelled", "failed", "raised"}
  /\ Ended <=> result # "none"

Init ==
  /\ hash = NoKey /\ ttl = FALSE /\ said = NoKey
  /\ calls = {}
  /\ pauseIntent = FALSE /\ active = TRUE
  /\ clicks = 0 /\ asked = {}
  /\ rpc = "filling" /\ filled = 0
  /\ total = 0 /\ pace = "1" /\ result = "none"
  /\ sent = 0 /\ delivered = 0 /\ lost = 0
  /\ overrun = Zero
  /\ faults = 0

-----------------------------------------------------------------------------
(***************************************************************************)
(* The Streaming screen. A click is a request that nothing waits for, so   *)
(* several are under way at once; the label changes at the click.          *)
(***************************************************************************)
Mutate(f, v) ==
  /\ active
  /\ clicks < MaxClicks
  /\ clicks' = clicks + 1
  /\ asked' = asked \cup {f}
  /\ calls' = calls \cup {[id |-> clicks', field |-> f, value |-> v,
                           step |-> "sent"]}
  /\ UNCHANGED <<keyVars, active, workerVars, kafkaVars, overrun, faults>>

TogglePause ==
  /\ Mutate("paused", IF pauseIntent THEN "false" ELSE "true")
  /\ pauseIntent' = ~pauseIntent

ClickCancel ==
  /\ Mutate("cancelled", "true")
  /\ UNCHANGED pauseIntent

ChangeSpeed(v) ==
  /\ Mutate("speed", v)
  /\ UNCHANGED pauseIntent

\* The run's terminal event arrives and the start form replaces the controls.
HideControls ==
  /\ active /\ Ended
  /\ active' = FALSE
  /\ UNCHANGED <<keyVars, calls, pauseIntent, clicks, asked, workerVars,
                 kafkaVars, overrun, faults>>

-----------------------------------------------------------------------------
(***************************************************************************)
(* SetJobControlField: HSET, then EXPIRE, for each request.                *)
(***************************************************************************)
Rest == <<uiVars, workerVars, kafkaVars>>

HSet(c) ==
  /\ c \in calls /\ c.step = "sent"
  /\ hash' = [hash EXCEPT ![c.field] = c.value]
  /\ said' = [said EXCEPT ![c.field] = c.value]
  /\ calls' = (calls \ {c}) \cup {[c EXCEPT !.step = "set"]}
  /\ overrun' = [overrun EXCEPT ![c.field] = 0]
  /\ UNCHANGED <<ttl, Rest, faults>>

Expire(c) ==
  /\ c \in calls /\ c.step = "set"
  /\ ttl' = KeyThere
  /\ calls' = calls \ {c}
  /\ UNCHANGED <<hash, said, Rest, overrun, faults>>

\* Either call fails or the request's 5 s are over: an HTTP 500.
CallErrs(c) ==
  /\ c \in calls
  /\ faults < MaxFaults
  /\ faults' = faults + 1
  /\ calls' = calls \ {c}
  /\ UNCHANGED <<keyVars, Rest, overrun>>

CallStep(c) == HSet(c) \/ Expire(c)

\* The key is gone: deleted by the job or expired by Redis.
DropKey ==
  /\ hash' = NoKey /\ said' = NoKey /\ ttl' = FALSE
  /\ overrun' = Zero

\* Redis: an hour has passed since the key's last EXPIRE.
KeyExpires ==
  /\ ttl
  /\ DropKey
  /\ UNCHANGED <<calls, Rest, faults>>

-----------------------------------------------------------------------------
(***************************************************************************)
(* The replay job.                                                         *)
(***************************************************************************)
Goto(l) == rpc' = l /\ UNCHANGED result
Return(st) == rpc' = "ended" /\ result' = st
Outside == <<calls, uiVars, faults>>

FillOrder == <<"paused", "speed", "cancelled">>

\* Mutant: HSET instead of HSETNX.
FillFieldOver ==
  /\ rpc = "filling" /\ filled < 3
  /\ hash' = [hash EXCEPT ![FillOrder[filled + 1]] = Default[FillOrder[filled + 1]]]
  /\ filled' = filled + 1
  /\ UNCHANGED <<ttl, said, rpc, result, total, pace, kafkaVars, overrun, Outside>>

\* HSETNX of one field.
FillField ==
  /\ rpc = "filling" /\ filled < 3
  /\ LET f == FillOrder[filled + 1]
     IN  hash' = [hash EXCEPT ![f] = IF @ = "none" THEN Default[f] ELSE @]
  /\ filled' = filled + 1
  /\ UNCHANGED <<ttl, said, rpc, result, total, pace, kafkaVars, overrun, Outside>>

ExpireKey ==
  /\ rpc = "filling" /\ filled = 3
  /\ ttl' = KeyThere
  /\ Goto("loading")
  /\ UNCHANGED <<hash, said, filled, total, pace, kafkaVars, overrun, Outside>>

\* Mutant: the day is sent whole.
LoadDayWhole(n) ==
  /\ rpc = "loading" /\ n \in Days
  /\ total' = n
  /\ IF n = 0 THEN Return("succeeded") ELSE Goto("polling")
  /\ UNCHANGED <<keyVars, filled, pace, kafkaVars, overrun, Outside>>

\* _load_day and head(limit): a day without trips is a success that leaves
\* the key to its expiry.
LoadDay(n) ==
  /\ rpc = "loading" /\ n \in Days
  /\ total' = IF n > Limit THEN Limit ELSE n
  /\ IF n = 0 THEN Return("succeeded") ELSE Goto("polling")
  /\ UNCHANGED <<keyVars, filled, pace, kafkaVars, overrun, Outside>>

Speed == IF hash.speed = "none" THEN "1" ELSE hash.speed

\* What a poll of the hash leads to when it does not find "paused".
Proceed ==
  /\ IF hash.cancelled = "true"
       THEN Goto("clearing") /\ UNCHANGED pace
       ELSE Goto("sending") /\ pace' = Speed

\* The first HGETALL of _poll_control, before each row.
Poll ==
  /\ rpc = "polling" /\ sent < total
  /\ IF hash.cancelled # "true" /\ hash.paused = "true"
       THEN Goto("paused") /\ UNCHANGED pace
       ELSE Proceed
  /\ UNCHANGED <<keyVars, filled, total, kafkaVars, overrun, Outside>>

\* Mutant: the pause ends only with an explicit "false".
PollPausedNeedsFalse ==
  /\ rpc = "paused"
  /\ hash.cancelled = "true" \/ hash.paused = "false"
  /\ Proceed
  /\ UNCHANGED <<keyVars, filled, total, kafkaVars, overrun, Outside>>

\* A later HGETALL of _poll_control that ends the pause; one that does not
\* changes nothing.
PollPaused ==
  /\ rpc = "paused"
  /\ hash.cancelled = "true" \/ hash.paused # "true"
  /\ Proceed
  /\ UNCHANGED <<keyVars, filled, total, kafkaVars, overrun, Outside>>

\* Whether a trip sent now goes against what a field of the hash says.
Against(f) ==
  CASE f = "speed" -> Speed # pace
    [] f = "paused" -> hash.paused = "true"
    [] f = "cancelled" -> hash.cancelled = "true"

SendsRow ==
  /\ sent' = sent + 1
  /\ overrun' = [f \in Fields |->
                   IF Against(f) THEN overrun[f] + 1 ELSE overrun[f]]
  /\ UNCHANGED <<keyVars, filled, total, pace, delivered, lost, Outside>>

\* Mutant: the hash is read before the first row and every second one after.
SendPollsSeldom ==
  /\ rpc = "sending"
  /\ IF sent % 2 = 0 /\ sent + 1 < total THEN Goto("sending")
                                         ELSE Goto("polling")
  /\ SendsRow

\* producer.send and the sleep of delay / speed.
Send ==
  /\ rpc = "sending"
  /\ Goto("polling")
  /\ SendsRow

\* Mutant: the producer is not flushed.
FlushNot ==
  /\ rpc = "polling" /\ sent = total
  /\ Goto("closing")
  /\ UNCHANGED <<keyVars, filled, total, pace, kafkaVars, overrun, Outside>>

\* producer.flush returns when every trip has been acknowledged or given up.
Flush ==
  /\ rpc = "polling" /\ sent = total
  /\ Buffered = 0
  /\ Goto("closing")
  /\ UNCHANGED <<keyVars, filled, total, pace, kafkaVars, overrun, Outside>>

\* The cancelled job deletes the key and returns without a flush.
ClearKey ==
  /\ rpc = "clearing"
  /\ DropKey
  /\ Return("cancelled")
  /\ UNCHANGED <<filled, total, pace, kafkaVars, Outside>>

\* The finished job deletes the key, outside the try.
CloseKey ==
  /\ rpc = "closing"
  /\ DropKey
  /\ Return("succeeded")
  /\ UNCHANGED <<filled, total, pace, kafkaVars, Outside>>

ReplayErrs ==
  /\ faults < MaxFaults
  /\ faults' = faults + 1
  /\ UNCHANGED <<keyVars, filled, total, pace, kafkaVars, overrun, calls, uiVars>>

\* An exception inside the try: no trips in Silver, no broker, a Redis error.
ReplayFails ==
  /\ rpc \in Trying
  /\ Return("failed")
  /\ ReplayErrs

\* An exception outside it leaves run() and, through main(), the process.
ReplayRaises ==
  /\ rpc \in {"filling", "closing"}
  /\ Return("raised")
  /\ ReplayErrs

-----------------------------------------------------------------------------
(***************************************************************************)
(* kafka-python's sender thread.                                           *)
(***************************************************************************)
Acknowledge ==
  /\ Buffered > 0
  /\ delivered' = delivered + 1
  /\ UNCHANGED <<keyVars, calls, uiVars, workerVars, sent, lost, overrun, faults>>

\* The producer gives a trip up: retries are exhausted, or the process went on
\* without a flush and the producer was collected.
GiveUp ==
  /\ Buffered > 0
  /\ \/ result \in {"cancelled", "failed", "raised"} /\ UNCHANGED faults
     \/ faults < MaxFaults /\ faults' = faults + 1
  /\ lost' = lost + 1
  /\ UNCHANGED <<keyVars, calls, uiVars, workerVars, sent, delivered, overrun>>

-----------------------------------------------------------------------------
ScreenStep == TogglePause \/ ClickCancel \/ (\E v \in Speeds : ChangeSpeed(v))
              \/ HideControls

ReplayStep == FillField \/ ExpireKey \/ (\E n \in Days : LoadDay(n)) \/ Poll
              \/ PollPaused \/ Send \/ Flush \/ ClearKey \/ CloseKey

Next ==
  \/ ScreenStep
  \/ \E c \in calls : HSet(c) \/ Expire(c) \/ CallErrs(c)
  \/ KeyExpires
  \/ ReplayStep \/ ReplayFails \/ ReplayRaises
  \/ Acknowledge \/ GiveUp

(***************************************************************************)
(* The worker's loop, the control-plane's handlers and the producer's      *)
(* thread are never kept from running, and Redis expires its keys. Nobody  *)
(* has to click.                                                           *)
(***************************************************************************)
Fairness ==
  /\ WF_vars(ReplayStep)
  /\ WF_vars(KeyExpires)
  /\ WF_vars(Acknowledge)
  /\ \A i \in 1..MaxClicks :
       WF_vars(\E c \in {d \in calls : d.id = i} : CallStep(c))

Spec == Init /\ [][Next]_vars /\ Fairness

-----------------------------------------------------------------------------
(***************************************************************************)
(* Properties.                                                             *)
(***************************************************************************)

\* A command is never overwritten by the job's own defaults, whenever it
\* arrives: as long as the key lives, a field that was commanded holds the last
\* command written to it (replay.py:157-165).
CommandsKept == \A f \in Fields : said[f] # "none" => hash[f] = said[f]

\* At most one trip is sent against a command that is in the hash: the row the
\* job was past polling for (replay.py:18-21 and 203-205).
CommandsTakeHold == \A f \in Fields : overrun[f] <= 1

\* The returned status says what happened: a success has sent every trip of the
\* day up to the limit and waited for each to be settled, a cancellation was
\* asked for and left trips unsent (replay.py:189-220).
ResultIsEarned ==
  /\ result = "succeeded" => sent = total /\ Buffered = 0
  /\ result = "cancelled" => "cancelled" \in asked /\ sent < total

\* Every replay ends, a paused one at the latest when its key expires. The one
\* exception is a pause whose EXPIRE failed on a key that had none: it holds the
\* worker, and with it every other job, until somebody resumes it.
EveryReplayEnds ==
  <>Ended \/ <>[](rpc = "paused" /\ hash.paused = "true" /\ ~ttl /\ faults > 0)
=============================================================================
