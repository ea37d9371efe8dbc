------------------------- MODULE ReplayControlProofs -------------------------
(***************************************************************************)
(* Proofs about ReplayControl: for every limit, day, choice of speeds and  *)
(* number of clicks and faults, a command survives the job's own defaults, *)
(* takes hold after at most one trip, and the returned status is earned.   *)
(***************************************************************************)
EXTENDS ReplayControl, TLAPS

Texts == {"none", "true", "false"} \cup Speeds \cup {"1"}

Requests == [id : 1..MaxClicks, field : Fields, value : Texts,
             step : {"sent", "set"}]

\* What TypeOK leaves to the reader: the shapes of the functions and records,
\* and the counters' ranges.
Shapes ==
  /\ hash \in [Fields -> Texts] /\ said \in [Fields -> Texts]
  /\ calls \subseteq Requests
  /\ clicks \in 0..MaxClicks /\ faults \in Nat
  /\ asked \subseteq Fields
  /\ sent \in Nat /\ delivered \in Nat /\ lost \in Nat /\ total \in Nat
  /\ overrun \in [Fields -> {0, 1}]

\* Where the job stands in the day: between the poll and the send there is a
\* trip left, and the job closes only a day that is settled.
Progress ==
  /\ rpc \in {"filling", "loading"} => sent = 0
  /\ rpc \in {"paused", "sending", "clearing"} => sent < total
  /\ rpc = "closing" => sent = total /\ Buffered = 0

\* A cancellation can always be traced to a click.
CancelTraced ==
  /\ \A c \in calls : c.field \in asked
  /\ hash.cancelled = "true" => "cancelled" \in asked
  /\ rpc = "clearing" => "cancelled" \in asked

\* A trip counted against a command is counted while the command stands, and
\* the job that is about to send has read every field since the last count.
CountsStand ==
  /\ rpc \in {"filling", "loading"} => \A f \in Fields : overrun[f] = 0
  /\ overrun["paused"] = 1 => hash.paused = "true"
  /\ overrun["cancelled"] = 1 => hash.cancelled = "true"
  /\ rpc = "sending" => /\ overrun["paused"] = 0 /\ overrun["cancelled"] = 0
                        /\ overrun["speed"] = 1 => Speed = pace

ReplayInv == TypeOK /\ Shapes /\ Progress /\ CancelTraced /\ CountsStand
             /\ ResultIsEarned /\ CommandsKept

-----------------------------------------------------------------------------
(***************************************************************************)
(* Facts about the steps that touch the hash or count a trip.              *)
(***************************************************************************)

\* The values a click may carry are texts, and none of them is "none".
LEMMA ValuesAreTexts ==
  ASSUME NEW f \in Fields, NEW v \in Values[f]
  PROVE  v \in Texts /\ v # "none"
<1>1. CASE f = "paused" BY <1>1 DEF Values, Texts
<1>2. CASE f = "cancelled" BY <1>2 DEF Values, Texts
<1>3. CASE f = "speed" BY <1>3, ReplayControlAssumption DEF Values, Texts
<1> QED BY <1>1, <1>2, <1>3 DEF Fields

\* A dropped key has no field, no expiry and nothing counted against it.
LEMMA DroppedIsEmpty ==
  ASSUME DropKey
  PROVE  /\ hash' \in [Fields -> Texts] /\ said' \in [Fields -> Texts]
         /\ \A f \in Fields : hash'[f] = "none" /\ said'[f] = "none"
         /\ overrun' \in [Fields -> {0, 1}]
         /\ \A f \in Fields : overrun'[f] = 0
         /\ ttl' = FALSE
BY DEF DropKey, NoKey, Zero, Texts

\* HSETNX gives one field its default, if it has no value.
LEMMA FillsOneField ==
  ASSUME TypeOK, Shapes, FillField
  PROVE  \E f \in Fields :
           /\ Default[f] \in Values[f] /\ Default[f] \in Texts
           /\ Default[f] # "none" /\ Default["cancelled"] = "false"
           /\ hash' = [hash EXCEPT ![f] = IF hash[f] = "none" THEN Default[f]
                                                             ELSE hash[f]]
<1>1. /\ "paused" \in Fields /\ "speed" \in Fields /\ "cancelled" \in Fields
  BY DEF Fields
<1>2. \A f \in Fields : Default[f] \in Values[f] /\ Default[f] # "none"
  BY DEF Fields, Default, Values
<1>3. \A f \in Fields : Default[f] \in Texts
  BY <1>2, ValuesAreTexts
<1>4. Default["cancelled"] = "false"
  BY DEF Default
<1>5. filled \in {0, 1, 2}
  BY DEF TypeOK, FillField
<1>6. FillOrder[filled + 1] \in Fields
  BY <1>1, <1>5 DEF FillOrder
<1>7. hash' = [hash EXCEPT ![FillOrder[filled + 1]] =
                 IF hash[FillOrder[filled + 1]] = "none"
                   THEN Default[FillOrder[filled + 1]]
                   ELSE hash[FillOrder[filled + 1]]]
  BY <1>6 DEF FillField
<1> QED BY <1>2, <1>3, <1>4, <1>6, <1>7

\* A trip sent now is counted against no field that was counted before.
LEMMA SendCountsOnce ==
  ASSUME ReplayInv, Send
  PROVE  /\ overrun' \in [Fields -> {0, 1}]
         /\ overrun'["paused"] = 1 => hash.paused = "true"
         /\ overrun'["cancelled"] = 1 => hash.cancelled = "true"
<1> USE DEF Fields
<1>1. /\ overrun \in [Fields -> {0, 1}]
      /\ overrun["paused"] = 0 /\ overrun["cancelled"] = 0
      /\ overrun["speed"] = 1 => Speed = pace
  BY DEF ReplayInv, Shapes, CountsStand, Send
<1>2. /\ Against("speed") <=> Speed # pace
      /\ Against("paused") <=> hash.paused = "true"
      /\ Against("cancelled") <=> hash.cancelled = "true"
  BY DEF Against
<1>3. overrun' = [f \in Fields |->
                    IF Against(f) THEN overrun[f] + 1 ELSE overrun[f]]
  BY DEF Send, SendsRow
<1>4. \A f \in Fields : overrun'[f] = IF Against(f) THEN overrun[f] + 1
                                                  ELSE overrun[f]
  BY <1>3
<1>5. \A f \in Fields : overrun'[f] \in {0, 1}
  BY <1>1, <1>2, <1>4
<1>6. overrun'["paused"] = 1 => hash.paused = "true"
  BY <1>1, <1>2, <1>4
<1>7. overrun'["cancelled"] = 1 => hash.cancelled = "true"
  BY <1>1, <1>2, <1>4
<1> QED BY <1>3, <1>5, <1>6, <1>7

-----------------------------------------------------------------------------
(***************************************************************************)
(* Every action keeps the invariant.                                       *)
(***************************************************************************)
\* A click adds a request and names its field.
LEMMA ClickKeeps ==
  ASSUME ReplayInv, NEW f \in Fields, NEW v \in Values[f], Mutate(f, v),
         pauseIntent' \in BOOLEAN
  PROVE  ReplayInv'
<1> USE ReplayControlAssumption DEF ReplayInv, Fields
<1>0. v \in Texts /\ v # "none"
  BY ValuesAreTexts
<1>a. \A c \in calls' : /\ c.id \in 1..MaxClicks
                       /\ c.field \in Fields /\ c.value \in Values[c.field]
                       /\ c.step \in {"sent", "set"}
  BY DEF Mutate, TypeOK, Shapes, Requests
<1>b. calls' \subseteq Requests
  BY <1>0 DEF Mutate, Shapes, Requests
<1>c. clicks' \in 0..MaxClicks
  BY DEF Mutate, Shapes
<1>d. asked' \subseteq Fields
  <2> HIDE DEF Fields
  <2> QED BY DEF Mutate, Shapes
<1>1. TypeOK'
  BY <1>a DEF Mutate, TypeOK, Shapes, KeyThere, Ended, keyVars, kafkaVars,
         workerVars
<1>2. Shapes'
  BY <1>b, <1>c, <1>d DEF Mutate, Shapes, keyVars, kafkaVars, workerVars
<1>3. Progress'
  BY <1>0 DEF Mutate, TypeOK, Shapes, Progress, Buffered, keyVars, kafkaVars,
         workerVars
<1>4. CancelTraced'
  BY <1>0 DEF Mutate, Shapes, CancelTraced, keyVars, kafkaVars, workerVars
<1>5. CountsStand'
  BY <1>0 DEF Mutate, Shapes, CountsStand, Speed, keyVars, kafkaVars,
         workerVars
<1>6. ResultIsEarned'
  BY <1>0 DEF Mutate, TypeOK, Shapes, Progress, CancelTraced, ResultIsEarned,
         Buffered, Ended, keyVars, kafkaVars, workerVars
<1>7. CommandsKept'
  BY <1>0 DEF Mutate, Shapes, CommandsKept, keyVars, kafkaVars, workerVars
<1> QED BY <1>1, <1>2, <1>3, <1>4, <1>5, <1>6, <1>7

\* The controls leave the screen.
LEMMA HideKeeps ==
  ASSUME ReplayInv, HideControls
  PROVE  ReplayInv'
<1> USE ReplayControlAssumption DEF ReplayInv, Fields
<1>1. TypeOK'
  BY DEF HideControls, TypeOK, Shapes, KeyThere, Ended, Trying, keyVars,
         kafkaVars, workerVars
<1>2. Shapes'
  BY DEF HideControls, Shapes, Requests, keyVars, kafkaVars, workerVars
<1>3. Progress'
  BY DEF HideControls, TypeOK, Shapes, Progress, Buffered, keyVars, kafkaVars,
         workerVars
<1>4. CancelTraced'
  BY DEF HideControls, Shapes, CancelTraced, keyVars, kafkaVars, workerVars
<1>5. CountsStand'
  BY DEF HideControls, Shapes, CountsStand, Speed, keyVars, kafkaVars,
         workerVars
<1>6. ResultIsEarned'
  BY DEF HideControls, TypeOK, Shapes, Progress, CancelTraced, ResultIsEarned,
         Buffered, Ended, keyVars, kafkaVars, workerVars
<1>7. CommandsKept'
  BY DEF HideControls, Shapes, CommandsKept, keyVars, kafkaVars, workerVars
<1> QED BY <1>1, <1>2, <1>3, <1>4, <1>5, <1>6, <1>7

\* A request's HSET: the field now holds the command.
LEMMA HSetKeeps ==
  ASSUME ReplayInv, NEW c \in calls, HSet(c)
  PROVE  ReplayInv'
<1> USE ReplayControlAssumption DEF ReplayInv, Fields
<1>0. /\ c.field \in Fields /\ c.value \in Values[c.field]
      /\ c.value \in Texts /\ c.value # "none" /\ c.field \in asked
      /\ [c EXCEPT !.step = "set"] \in Requests
      /\ [c EXCEPT !.step = "set"].field = c.field
      /\ [c EXCEPT !.step = "set"].value = c.value
      /\ [c EXCEPT !.step = "set"].id = c.id
      /\ [c EXCEPT !.step = "set"].step = "set"
  BY ValuesAreTexts DEF ReplayInv, TypeOK, Shapes, Requests, CancelTraced
<1>a. \A d \in calls' : /\ d.id \in 1..MaxClicks
                       /\ d.field \in Fields /\ d.value \in Values[d.field]
                       /\ d.step \in {"sent", "set"}
  BY <1>0 DEF HSet, TypeOK, Shapes, Requests
<1>b. /\ \A f \in Fields : /\ hash'[f] \in Values[f] \cup {"none"}
                          /\ said'[f] \in Values[f] \cup {"none"}
      /\ hash'[c.field] # "none"
  BY <1>0 DEF HSet, TypeOK, Shapes
<1>c. KeyThere'
  BY <1>0, <1>b DEF KeyThere, NoKey
<1>1. TypeOK'
  BY <1>a, <1>b, <1>c DEF HSet, TypeOK, Shapes, KeyThere, NoKey, Ended, uiVars,
         kafkaVars, workerVars, Rest
<1>2. Shapes'
  BY <1>0 DEF HSet, Shapes, Requests, uiVars, kafkaVars, workerVars, Rest
<1>3. Progress'
  BY <1>0 DEF HSet, TypeOK, Shapes, Progress, Buffered, uiVars, kafkaVars,
         workerVars, Rest
<1>4. CancelTraced'
  BY <1>0 DEF HSet, Shapes, CancelTraced, uiVars, kafkaVars, workerVars, Rest
<1>5. CountsStand'
  BY <1>0 DEF HSet, Shapes, CountsStand, Speed, uiVars, kafkaVars, workerVars,
         Rest
<1>6. ResultIsEarned'
  BY <1>0 DEF HSet, TypeOK, Shapes, Progress, CancelTraced, ResultIsEarned,
         Buffered, Ended, uiVars, kafkaVars, workerVars, Rest
<1>7. CommandsKept'
  BY <1>0 DEF HSet, Shapes, CommandsKept, uiVars, kafkaVars, workerVars, Rest
<1> QED BY <1>1, <1>2, <1>3, <1>4, <1>5, <1>6, <1>7

\* A request's EXPIRE.
LEMMA ExpireKeeps ==
  ASSUME ReplayInv, NEW c \in calls, Expire(c)
  PROVE  ReplayInv'
<1> USE ReplayControlAssumption DEF ReplayInv, Fields
<1>1. TypeOK'
  BY DEF Expire, TypeOK, Shapes, KeyThere, Ended, uiVars, kafkaVars,
         workerVars, Rest
<1>2. Shapes'
  BY DEF Expire, Shapes, Requests, uiVars, kafkaVars, workerVars, Rest
<1>3. Progress'
  BY DEF Expire, TypeOK, Shapes, Progress, Buffered, uiVars, kafkaVars,
         workerVars, Rest
<1>4. CancelTraced'
  BY DEF Expire, Shapes, CancelTraced, uiVars, kafkaVars, workerVars, Rest
<1>5. CountsStand'
  BY DEF Expire, Shapes, CountsStand, Speed, uiVars, kafkaVars, workerVars,
         Rest
<1>6. ResultIsEarned'
  BY DEF Expire, TypeOK, Shapes, Progress, CancelTraced, ResultIsEarned,
         Buffered, Ended, uiVars, kafkaVars, workerVars, Rest
<1>7. CommandsKept'
  BY DEF Expire, Shapes, CommandsKept, uiVars, kafkaVars, workerVars, Rest
<1> QED BY <1>1, <1>2, <1>3, <1>4, <1>5, <1>6, <1>7

\* A request fails.
LEMMA CallErrsKeeps ==
  ASSUME ReplayInv, NEW c \in calls, CallErrs(c)
  PROVE  ReplayInv'
<1> USE ReplayControlAssumption DEF ReplayInv, Fields
<1>1. TypeOK'
  BY DEF CallErrs, TypeOK, Shapes, KeyThere, Ended, keyVars, uiVars, kafkaVars,
         workerVars, Rest
<1>2. Shapes'
  BY DEF CallErrs, Shapes, Requests, keyVars, uiVars, kafkaVars, workerVars,
         Rest
<1>3. Progress'
  BY DEF CallErrs, TypeOK, Shapes, Progress, Buffered, keyVars, uiVars,
         kafkaVars, workerVars, Rest
<1>4. CancelTraced'
  BY DEF CallErrs, Shapes, CancelTraced, keyVars, uiVars, kafkaVars,
         workerVars, Rest
<1>5. CountsStand'
  BY DEF CallErrs, Shapes, CountsStand, Speed, keyVars, uiVars, kafkaVars,
         workerVars, Rest
<1>6. ResultIsEarned'
  BY DEF CallErrs, TypeOK, Shapes, Progress, CancelTraced, ResultIsEarned,
         Buffered, Ended, keyVars, uiVars, kafkaVars, workerVars, Rest
<1>7. CommandsKept'
  BY DEF CallErrs, Shapes, CommandsKept, keyVars, uiVars, kafkaVars,
         workerVars, Rest
<1> QED BY <1>1, <1>2, <1>3, <1>4, <1>5, <1>6, <1>7

\* Redis drops the key.
LEMMA KeyExpiresKeeps ==
  ASSUME ReplayInv, KeyExpires
  PROVE  ReplayInv'
<1> USE ReplayControlAssumption DEF ReplayInv, Fields
<1>0. DropKey BY DEF KeyExpires
<1>1. TypeOK'
  BY <1>0, DroppedIsEmpty DEF KeyExpires, TypeOK, Shapes, KeyThere, Ended,
         uiVars, kafkaVars, workerVars, Rest
<1>2. Shapes'
  BY <1>0, DroppedIsEmpty DEF KeyExpires, Shapes, Requests, uiVars, kafkaVars,
         workerVars, Rest
<1>3. Progress'
  BY <1>0, DroppedIsEmpty DEF KeyExpires, TypeOK, Shapes, Progress, Buffered,
         uiVars, kafkaVars, workerVars, Rest
<1>4. CancelTraced'
  BY <1>0, DroppedIsEmpty DEF KeyExpires, Shapes, CancelTraced, uiVars,
         kafkaVars, workerVars, Rest
<1>5. CountsStand'
  BY <1>0, DroppedIsEmpty DEF KeyExpires, Shapes, CountsStand, Speed, uiVars,
         kafkaVars, workerVars, Rest
<1>6. ResultIsEarned'
  BY <1>0, DroppedIsEmpty DEF KeyExpires, TypeOK, Shapes, Progress,
         CancelTraced, ResultIsEarned, Buffered, Ended, uiVars, kafkaVars,
         workerVars, Rest
<1>7. CommandsKept'
  BY <1>0, DroppedIsEmpty DEF KeyExpires, Shapes, CommandsKept, uiVars,
         kafkaVars, workerVars, Rest
<1> QED BY <1>1, <1>2, <1>3, <1>4, <1>5, <1>6, <1>7

\* The job's HSETNX.
LEMMA FillFieldKeeps ==
  ASSUME ReplayInv, FillField
  PROVE  ReplayInv'
<1> USE ReplayControlAssumption DEF ReplayInv, Fields
<1>0. PICK f \in Fields :
        /\ Default[f] \in Values[f] /\ Default[f] \in Texts
        /\ Default[f] # "none" /\ Default["cancelled"] = "false"
        /\ hash' = [hash EXCEPT ![f] = IF hash[f] = "none" THEN Default[f]
                                                          ELSE hash[f]]
  BY FillsOneField
<1>1. TypeOK'
  BY <1>0 DEF FillField, TypeOK, Shapes, KeyThere, NoKey, Ended, uiVars,
         kafkaVars, Outside
<1>a. hash' \in [Fields -> Texts]
  BY <1>0 DEF Shapes
<1>2. Shapes'
  BY <1>a DEF FillField, Shapes, Requests, uiVars, kafkaVars, Outside
<1>3. Progress'
  BY <1>0 DEF FillField, TypeOK, Shapes, Progress, Buffered, uiVars, kafkaVars,
         Outside
<1>4. CancelTraced'
  BY <1>0 DEF FillField, Shapes, CancelTraced, uiVars, kafkaVars, Outside
<1>5. CountsStand'
  BY <1>0 DEF FillField, Shapes, CountsStand, Speed, uiVars, kafkaVars, Outside
<1>6. ResultIsEarned'
  BY <1>0 DEF FillField, TypeOK, Shapes, Progress, CancelTraced,
         ResultIsEarned, Buffered, Ended, uiVars, kafkaVars, Outside
<1>7. CommandsKept'
  BY <1>0 DEF FillField, Shapes, CommandsKept, uiVars, kafkaVars, Outside
<1> QED BY <1>1, <1>2, <1>3, <1>4, <1>5, <1>6, <1>7

\* The job's EXPIRE.
LEMMA ExpireKeyKeeps ==
  ASSUME ReplayInv, ExpireKey
  PROVE  ReplayInv'
<1> USE ReplayControlAssumption DEF ReplayInv, Fields
<1>1. TypeOK'
  BY DEF ExpireKey, Goto, TypeOK, Shapes, KeyThere, Ended, Trying, uiVars,
         kafkaVars, Outside
<1>2. Shapes'
  BY DEF ExpireKey, Goto, Shapes, Requests, uiVars, kafkaVars, Outside
<1>3. Progress'
  BY DEF ExpireKey, Goto, TypeOK, Shapes, Progress, Buffered, uiVars,
         kafkaVars, Outside
<1>4. CancelTraced'
  BY DEF ExpireKey, Goto, Shapes, CancelTraced, uiVars, kafkaVars, Outside
<1>5. CountsStand'
  BY DEF ExpireKey, Goto, Shapes, CountsStand, Speed, uiVars, kafkaVars,
         Outside
<1>6. ResultIsEarned'
  BY DEF ExpireKey, Goto, TypeOK, Shapes, Progress, CancelTraced,
         ResultIsEarned, Buffered, Ended, uiVars, kafkaVars, Outside
<1>7. CommandsKept'
  BY DEF ExpireKey, Goto, Shapes, CommandsKept, uiVars, kafkaVars, Outside
<1> QED BY <1>1, <1>2, <1>3, <1>4, <1>5, <1>6, <1>7

\* The day is loaded.
LEMMA LoadDayKeeps ==
  ASSUME ReplayInv, NEW n \in Days, LoadDay(n)
  PROVE  ReplayInv'
<1> USE ReplayControlAssumption DEF ReplayInv, Fields
<1>1. TypeOK'
  BY DEF LoadDay, Goto, Return, TypeOK, Shapes, Progress, KeyThere, Ended,
         Trying, keyVars, uiVars, kafkaVars, Outside
<1>2. Shapes'
  BY DEF LoadDay, Goto, Return, Shapes, Requests, keyVars, uiVars, kafkaVars,
         Outside
<1>3. Progress'
  BY DEF LoadDay, Goto, Return, TypeOK, Shapes, Progress, Buffered, keyVars,
         uiVars, kafkaVars, Outside
<1>4. CancelTraced'
  BY DEF LoadDay, Goto, Return, Shapes, CancelTraced, keyVars, uiVars,
         kafkaVars, Outside
<1>5. CountsStand'
  BY DEF LoadDay, Goto, Return, Shapes, CountsStand, Speed, keyVars, uiVars,
         kafkaVars, Outside
<1>6. ResultIsEarned'
  BY DEF LoadDay, Goto, Return, TypeOK, Shapes, Progress, CancelTraced,
         ResultIsEarned, Buffered, Ended, keyVars, uiVars, kafkaVars, Outside
<1>7. CommandsKept'
  BY DEF LoadDay, Goto, Return, Shapes, CommandsKept, keyVars, uiVars,
         kafkaVars, Outside
<1> QED BY <1>1, <1>2, <1>3, <1>4, <1>5, <1>6, <1>7

\* A poll before a row.
LEMMA PollKeeps ==
  ASSUME ReplayInv, Poll
  PROVE  ReplayInv'
<1> USE ReplayControlAssumption DEF ReplayInv, Fields
<1>0. Speed \in Values["speed"]
  BY DEF TypeOK, Speed, Values
<1>1. TypeOK'
  BY <1>0 DEF Poll, Proceed, Goto, TypeOK, Shapes, KeyThere, Ended, Trying,
         keyVars, uiVars, kafkaVars, Outside
<1>2. Shapes'
  BY <1>0 DEF Poll, Proceed, Goto, Shapes, Requests, keyVars, uiVars,
         kafkaVars, Outside
<1>3. Progress'
  BY <1>0 DEF Poll, Proceed, Goto, TypeOK, Shapes, Progress, Buffered, keyVars,
         uiVars, kafkaVars, Outside
<1>4. CancelTraced'
  BY <1>0 DEF Poll, Proceed, Goto, Shapes, CancelTraced, keyVars, uiVars,
         kafkaVars, Outside
<1>5. CountsStand'
  BY <1>0 DEF Poll, Proceed, Goto, Shapes, CountsStand, Speed, keyVars, uiVars,
         kafkaVars, Outside
<1>6. ResultIsEarned'
  BY <1>0 DEF Poll, Proceed, Goto, TypeOK, Shapes, Progress, CancelTraced,
         ResultIsEarned, Buffered, Ended, keyVars, uiVars, kafkaVars, Outside
<1>7. CommandsKept'
  BY <1>0 DEF Poll, Proceed, Goto, Shapes, CommandsKept, keyVars, uiVars,
         kafkaVars, Outside
<1> QED BY <1>1, <1>2, <1>3, <1>4, <1>5, <1>6, <1>7

\* The poll that ends a pause.
LEMMA PollPausedKeeps ==
  ASSUME ReplayInv, PollPaused
  PROVE  ReplayInv'
<1> USE ReplayControlAssumption DEF ReplayInv, Fields
<1>0. Speed \in Values["speed"]
  BY DEF TypeOK, Speed, Values
<1>1. TypeOK'
  BY <1>0 DEF PollPaused, Proceed, Goto, TypeOK, Shapes, KeyThere, Ended,
         Trying, keyVars, uiVars, kafkaVars, Outside
<1>2. Shapes'
  BY <1>0 DEF PollPaused, Proceed, Goto, Shapes, Requests, keyVars, uiVars,
         kafkaVars, Outside
<1>3. Progress'
  BY <1>0 DEF PollPaused, Proceed, Goto, TypeOK, Shapes, Progress, Buffered,
         keyVars, uiVars, kafkaVars, Outside
<1>4. CancelTraced'
  BY <1>0 DEF PollPaused, Proceed, Goto, Shapes, CancelTraced, keyVars, uiVars,
         kafkaVars, Outside
<1>5. CountsStand'
  BY <1>0 DEF PollPaused, Proceed, Goto, Shapes, CountsStand, Speed, keyVars,
         uiVars, kafkaVars, Outside
<1>6. ResultIsEarned'
  BY <1>0 DEF PollPaused, Proceed, Goto, TypeOK, Shapes, Progress,
         CancelTraced, ResultIsEarned, Buffered, Ended, keyVars, uiVars,
         kafkaVars, Outside
<1>7. CommandsKept'
  BY <1>0 DEF PollPaused, Proceed, Goto, Shapes, CommandsKept, keyVars, uiVars,
         kafkaVars, Outside
<1> QED BY <1>1, <1>2, <1>3, <1>4, <1>5, <1>6, <1>7

\* A row is sent.
LEMMA SendKeeps ==
  ASSUME ReplayInv, Send
  PROVE  ReplayInv'
<1> USE ReplayControlAssumption DEF ReplayInv, Fields
<1>0. /\ overrun' \in [Fields -> {0, 1}]
      /\ overrun'["paused"] = 1 => hash.paused = "true"
      /\ overrun'["cancelled"] = 1 => hash.cancelled = "true"
  BY SendCountsOnce
<1>1. TypeOK'
  BY <1>0 DEF Send, SendsRow, Goto, TypeOK, Shapes, Progress, KeyThere, Ended,
         Trying, keyVars, uiVars, Outside
<1>2. Shapes'
  BY <1>0 DEF Send, SendsRow, Goto, Shapes, Requests, keyVars, uiVars, Outside
<1>3. Progress'
  BY <1>0 DEF Send, SendsRow, Goto, TypeOK, Shapes, Progress, Buffered,
         keyVars, uiVars, Outside
<1>4. CancelTraced'
  BY <1>0 DEF Send, SendsRow, Goto, Shapes, CancelTraced, keyVars, uiVars,
         Outside
<1>5. CountsStand'
  BY <1>0 DEF Send, SendsRow, Goto, Shapes, CountsStand, Speed, keyVars,
         uiVars, Outside
<1>6. ResultIsEarned'
  BY <1>0 DEF Send, SendsRow, Goto, TypeOK, Shapes, Progress, CancelTraced,
         ResultIsEarned, Buffered, Ended, keyVars, uiVars, Outside
<1>7. CommandsKept'
  BY <1>0 DEF Send, SendsRow, Goto, Shapes, CommandsKept, keyVars, uiVars,
         Outside
<1> QED BY <1>1, <1>2, <1>3, <1>4, <1>5, <1>6, <1>7

\* The producer is flushed.
LEMMA FlushKeeps ==
  ASSUME ReplayInv, Flush
  PROVE  ReplayInv'
<1> USE ReplayControlAssumption DEF ReplayInv, Fields
<1>1. TypeOK'
  BY DEF Flush, Goto, TypeOK, Shapes, KeyThere, Ended, Trying, keyVars, uiVars,
         kafkaVars, Outside
<1>2. Shapes'
  BY DEF Flush, Goto, Shapes, Requests, keyVars, uiVars, kafkaVars, Outside
<1>3. Progress'
  BY DEF Flush, Goto, TypeOK, Shapes, Progress, Buffered, keyVars, uiVars,
         kafkaVars, Outside
<1>4. CancelTraced'
  BY DEF Flush, Goto, Shapes, CancelTraced, keyVars, uiVars, kafkaVars, Outside
<1>5. CountsStand'
  BY DEF Flush, Goto, Shapes, CountsStand, Speed, keyVars, uiVars, kafkaVars,
         Outside
<1>6. ResultIsEarned'
  BY DEF Flush, Goto, TypeOK, Shapes, Progress, CancelTraced, ResultIsEarned,
         Buffered, Ended, keyVars, uiVars, kafkaVars, Outside
<1>7. CommandsKept'
  BY DEF Flush, Goto, Shapes, CommandsKept, keyVars, uiVars, kafkaVars, Outside
<1> QED BY <1>1, <1>2, <1>3, <1>4, <1>5, <1>6, <1>7

\* The cancelled job deletes the key.
LEMMA ClearKeyKeeps ==
  ASSUME ReplayInv, ClearKey
  PROVE  ReplayInv'
<1> USE ReplayControlAssumption DEF ReplayInv, Fields
<1>0. DropKey BY DEF ClearKey
<1>1. TypeOK'
  BY <1>0, DroppedIsEmpty DEF ClearKey, Return, TypeOK, Shapes, KeyThere,
         Ended, uiVars, kafkaVars, Outside
<1>2. Shapes'
  BY <1>0, DroppedIsEmpty DEF ClearKey, Return, Shapes, Requests, uiVars,
         kafkaVars, Outside
<1>3. Progress'
  BY <1>0, DroppedIsEmpty DEF ClearKey, Return, TypeOK, Shapes, Progress,
         Buffered, uiVars, kafkaVars, Outside
<1>4. CancelTraced'
  BY <1>0, DroppedIsEmpty DEF ClearKey, Return, Shapes, CancelTraced, uiVars,
         kafkaVars, Outside
<1>5. CountsStand'
  BY <1>0, DroppedIsEmpty DEF ClearKey, Return, Shapes, CountsStand, Speed,
         uiVars, kafkaVars, Outside
<1>6. ResultIsEarned'
  BY <1>0, DroppedIsEmpty DEF ClearKey, Return, TypeOK, Shapes, Progress,
         CancelTraced, ResultIsEarned, Buffered, Ended, uiVars, kafkaVars,
         Outside
<1>7. CommandsKept'
  BY <1>0, DroppedIsEmpty DEF ClearKey, Return, Shapes, CommandsKept, uiVars,
         kafkaVars, Outside
<1> QED BY <1>1, <1>2, <1>3, <1>4, <1>5, <1>6, <1>7

\* The finished job deletes the key.
LEMMA CloseKeyKeeps ==
  ASSUME ReplayInv, CloseKey
  PROVE  ReplayInv'
<1> USE ReplayControlAssumption DEF ReplayInv, Fields
<1>0. DropKey BY DEF CloseKey
<1>1. TypeOK'
  BY <1>0, DroppedIsEmpty DEF CloseKey, Return, TypeOK, Shapes, KeyThere,
         Ended, uiVars, kafkaVars, Outside
<1>2. Shapes'
  BY <1>0, DroppedIsEmpty DEF CloseKey, Return, Shapes, Requests, uiVars,
         kafkaVars, Outside
<1>3. Progress'
  BY <1>0, DroppedIsEmpty DEF CloseKey, Return, TypeOK, Shapes, Progress,
         Buffered, uiVars, kafkaVars, Outside
<1>4. CancelTraced'
  BY <1>0, DroppedIsEmpty DEF CloseKey, Return, Shapes, CancelTraced, uiVars,
         kafkaVars, Outside
<1>5. CountsStand'
  BY <1>0, DroppedIsEmpty DEF CloseKey, Return, Shapes, CountsStand, Speed,
         uiVars, kafkaVars, Outside
<1>6. ResultIsEarned'
  BY <1>0, DroppedIsEmpty DEF CloseKey, Return, TypeOK, Shapes, Progress,
         CancelTraced, ResultIsEarned, Buffered, Ended, uiVars, kafkaVars,
         Outside
<1>7. CommandsKept'
  BY <1>0, DroppedIsEmpty DEF CloseKey, Return, Shapes, CommandsKept, uiVars,
         kafkaVars, Outside
<1> QED BY <1>1, <1>2, <1>3, <1>4, <1>5, <1>6, <1>7

\* The job fails.
LEMMA FailsKeeps ==
  ASSUME ReplayInv, ReplayFails
  PROVE  ReplayInv'
<1> USE ReplayControlAssumption DEF ReplayInv, Fields
<1>1. TypeOK'
  BY DEF ReplayFails, ReplayErrs, Return, Trying, TypeOK, Shapes, KeyThere,
         Ended, keyVars, uiVars, kafkaVars
<1>2. Shapes'
  BY DEF ReplayFails, ReplayErrs, Return, Trying, Shapes, Requests, keyVars,
         uiVars, kafkaVars
<1>3. Progress'
  BY DEF ReplayFails, ReplayErrs, Return, Trying, TypeOK, Shapes, Progress,
         Buffered, keyVars, uiVars, kafkaVars
<1>4. CancelTraced'
  BY DEF ReplayFails, ReplayErrs, Return, Trying, Shapes, CancelTraced,
         keyVars, uiVars, kafkaVars
<1>5. CountsStand'
  BY DEF ReplayFails, ReplayErrs, Return, Trying, Shapes, CountsStand, Speed,
         keyVars, uiVars, kafkaVars
<1>6. ResultIsEarned'
  BY DEF ReplayFails, ReplayErrs, Return, Trying, TypeOK, Shapes, Progress,
         CancelTraced, ResultIsEarned, Buffered, Ended, keyVars, uiVars,
         kafkaVars
<1>7. CommandsKept'
  BY DEF ReplayFails, ReplayErrs, Return, Trying, Shapes, CommandsKept,
         keyVars, uiVars, kafkaVars
<1> QED BY <1>1, <1>2, <1>3, <1>4, <1>5, <1>6, <1>7

\* The job raises.
LEMMA RaisesKeeps ==
  ASSUME ReplayInv, ReplayRaises
  PROVE  ReplayInv'
<1> USE ReplayControlAssumption DEF ReplayInv, Fields
<1>1. TypeOK'
  BY DEF ReplayRaises, ReplayErrs, Return, TypeOK, Shapes, KeyThere, Ended,
         keyVars, uiVars, kafkaVars
<1>2. Shapes'
  BY DEF ReplayRaises, ReplayErrs, Return, Shapes, Requests, keyVars, uiVars,
         kafkaVars
<1>3. Progress'
  BY DEF ReplayRaises, ReplayErrs, Return, TypeOK, Shapes, Progress, Buffered,
         keyVars, uiVars, kafkaVars
<1>4. CancelTraced'
  BY DEF ReplayRaises, ReplayErrs, Return, Shapes, CancelTraced, keyVars,
         uiVars, kafkaVars
<1>5. CountsStand'
  BY DEF ReplayRaises, ReplayErrs, Return, Shapes, CountsStand, Speed, keyVars,
         uiVars, kafkaVars
<1>6. ResultIsEarned'
  BY DEF ReplayRaises, ReplayErrs, Return, TypeOK, Shapes, Progress,
         CancelTraced, ResultIsEarned, Buffered, Ended, keyVars, uiVars,
         kafkaVars
<1>7. CommandsKept'
  BY DEF ReplayRaises, ReplayErrs, Return, Shapes, CommandsKept, keyVars,
         uiVars, kafkaVars
<1> QED BY <1>1, <1>2, <1>3, <1>4, <1>5, <1>6, <1>7

\* A trip is acknowledged.
LEMMA AcknowledgeKeeps ==
  ASSUME ReplayInv, Acknowledge
  PROVE  ReplayInv'
<1> USE ReplayControlAssumption DEF ReplayInv, Fields
<1>1. TypeOK'
  BY DEF Acknowledge, TypeOK, Shapes, KeyThere, Ended, Buffered, keyVars,
         uiVars, workerVars
<1>2. Shapes'
  BY DEF Acknowledge, Shapes, Requests, keyVars, uiVars, workerVars
<1>3. Progress'
  BY DEF Acknowledge, TypeOK, Shapes, Progress, Buffered, keyVars, uiVars,
         workerVars
<1>4. CancelTraced'
  BY DEF Acknowledge, Shapes, CancelTraced, keyVars, uiVars, workerVars
<1>5. CountsStand'
  BY DEF Acknowledge, Shapes, CountsStand, Speed, keyVars, uiVars, workerVars
<1>6. ResultIsEarned'
  BY DEF Acknowledge, TypeOK, Shapes, Progress, CancelTraced, ResultIsEarned,
         Buffered, Ended, keyVars, uiVars, workerVars
<1>7. CommandsKept'
  BY DEF Acknowledge, Shapes, CommandsKept, keyVars, uiVars, workerVars
<1> QED BY <1>1, <1>2, <1>3, <1>4, <1>5, <1>6, <1>7

\* A trip is given up.
LEMMA GiveUpKeeps ==
  ASSUME ReplayInv, GiveUp
  PROVE  ReplayInv'
<1> USE ReplayControlAssumption DEF ReplayInv, Fields
<1>1. TypeOK'
  BY DEF GiveUp, TypeOK, Shapes, KeyThere, Ended, Buffered, keyVars, uiVars,
         workerVars
<1>2. Shapes'
  BY DEF GiveUp, Shapes, Requests, keyVars, uiVars, workerVars
<1>3. Progress'
  BY DEF GiveUp, TypeOK, Shapes, Progress, Buffered, keyVars, uiVars,
         workerVars
<1>4. CancelTraced'
  BY DEF GiveUp, Shapes, CancelTraced, keyVars, uiVars, workerVars
<1>5. CountsStand'
  BY DEF GiveUp, Shapes, CountsStand, Speed, keyVars, uiVars, workerVars
<1>6. ResultIsEarned'
  BY DEF GiveUp, TypeOK, Shapes, Progress, CancelTraced, ResultIsEarned,
         Buffered, Ended, keyVars, uiVars, workerVars
<1>7. CommandsKept'
  BY DEF GiveUp, Shapes, CommandsKept, keyVars, uiVars, workerVars
<1> QED BY <1>1, <1>2, <1>3, <1>4, <1>5, <1>6, <1>7

-----------------------------------------------------------------------------
(***************************************************************************)
(* The theorems.                                                           *)
(***************************************************************************)
\* The replay begins with an empty hash and nothing counted.
LEMMA InitEstablishes == Init => ReplayInv
<1> SUFFICES ASSUME Init PROVE ReplayInv
  OBVIOUS
<1>1. /\ \A f \in Fields : hash[f] = "none" /\ said[f] = "none"
      /\ hash \in [Fields -> {"none"}] /\ said \in [Fields -> {"none"}]
      /\ \A f \in Fields : overrun[f] = 0
      /\ overrun \in [Fields -> {0}]
  BY DEF Init, NoKey, Zero
<1>2. /\ ttl = FALSE /\ calls = {} /\ pauseIntent = FALSE /\ active = TRUE
      /\ clicks = 0 /\ asked = {} /\ faults = 0
  BY DEF Init
<1>3. /\ rpc = "filling" /\ result = "none" /\ filled = 0 /\ pace = "1"
      /\ total = 0 /\ sent = 0 /\ delivered = 0 /\ lost = 0
  BY DEF Init
<1>4. \A f \in Fields : f \in {"paused", "speed", "cancelled"}
  BY DEF Fields
  <1>5. /\ total \in 0..Limit /\ sent \in 0..total /\ delivered + lost \in
         0..sent
      /\ filled \in 0..3
  BY <1>3, ReplayControlAssumption
<1>6. pace \in Values.speed
  BY <1>3 DEF Values
<1>7. TypeOK
  BY <1>1, <1>2, <1>3, <1>5, <1>6 DEF TypeOK, Ended
<1>8. Shapes
  BY <1>1, <1>2, <1>3, ReplayControlAssumption DEF Shapes, Texts
<1>9. Progress /\ CancelTraced
  BY <1>1, <1>2, <1>3, <1>4 DEF Progress, CancelTraced, Fields
<1>10. CountsStand
  BY <1>1, <1>3 DEF CountsStand, Fields
<1>11. ResultIsEarned /\ CommandsKept
  BY <1>1, <1>3 DEF ResultIsEarned, CommandsKept
<1> QED BY <1>7, <1>8, <1>9, <1>10, <1>11 DEF ReplayInv

\* So does a step that changes nothing.
LEMMA StutterKeeps ==
  ASSUME ReplayInv, UNCHANGED vars
  PROVE  ReplayInv'
<1> USE DEF vars, keyVars, uiVars, kafkaVars, workerVars, ReplayInv
<1>1. TypeOK' /\ Shapes'
  BY DEF TypeOK, Shapes, KeyThere, Ended
<1>2. Progress' /\ CancelTraced' /\ CountsStand'
  BY DEF Progress, CancelTraced, CountsStand, Buffered, Speed
<1>3. ResultIsEarned' /\ CommandsKept'
  BY DEF ResultIsEarned, CommandsKept, Buffered
<1> QED BY <1>1, <1>2, <1>3

\* A step of the screen is a click, or hides the controls.
LEMMA ScreenStepKeeps ==
  ASSUME ReplayInv, ScreenStep
  PROVE  ReplayInv'
<1>1. CASE TogglePause
  <2>1. /\ "paused" \in Fields
        /\ (IF pauseIntent THEN "false" ELSE "true") \in Values["paused"]
    BY DEF Fields, Values
  <2>2. pauseIntent' \in BOOLEAN
    BY <1>1 DEF TogglePause
  <2> QED BY <1>1, <2>1, <2>2, ClickKeeps DEF TogglePause
<1>2. CASE ClickCancel
  <2>1. "cancelled" \in Fields /\ "true" \in Values["cancelled"]
    BY DEF Fields, Values
  <2>2. pauseIntent' \in BOOLEAN
    BY <1>2 DEF ClickCancel, ReplayInv, TypeOK
  <2> QED BY <1>2, <2>1, <2>2, ClickKeeps DEF ClickCancel
<1>3. ASSUME NEW v \in Speeds, ChangeSpeed(v) PROVE ReplayInv'
  <2>1. "speed" \in Fields /\ v \in Values["speed"]
    BY DEF Fields, Values
  <2>2. pauseIntent' \in BOOLEAN
    BY <1>3 DEF ChangeSpeed, ReplayInv, TypeOK
  <2> QED BY <1>3, <2>1, <2>2, ClickKeeps DEF ChangeSpeed
<1> QED BY <1>1, <1>2, <1>3, HideKeeps DEF ScreenStep

\* A step of the job is one of its calls.
LEMMA ReplayStepKeeps ==
  ASSUME ReplayInv, ReplayStep
  PROVE  ReplayInv'
BY FillFieldKeeps, ExpireKeyKeeps, LoadDayKeeps, PollKeeps, PollPausedKeeps,
   SendKeeps, FlushKeeps, ClearKeyKeeps, CloseKeyKeeps DEF ReplayStep

\* Every step keeps the invariant.
LEMMA NextKeeps == ReplayInv /\ [Next]_vars => ReplayInv'
<1> SUFFICES ASSUME ReplayInv, [Next]_vars PROVE ReplayInv'
  OBVIOUS
<1> QED BY ScreenStepKeeps, HSetKeeps, ExpireKeeps, CallErrsKeeps,
           KeyExpiresKeeps, ReplayStepKeeps, FailsKeeps, RaisesKeeps,
           AcknowledgeKeeps, GiveUpKeeps, StutterKeeps DEF Next

\* The strengthened invariant holds of every behaviour, fair or not: of the
\* specification only its initial states and its steps are used.
THEOREM ReplayInvariant == Spec => []ReplayInv
BY InitEstablishes, NextKeeps, PTL DEF Spec

\* Every variable of the replay, its hash and its requests keeps its type.
THEOREM ReplayTyped == Spec => []TypeOK
<1>1. ReplayInv => TypeOK BY DEF ReplayInv
<1> QED BY <1>1, ReplayInvariant, PTL

\* The job's defaults never overwrite a command, in whatever order the clicks'
\* requests and the job's three HSETNX reach Redis (replay.py:157-165).
THEOREM CommandsStayKept == Spec => []CommandsKept
<1>1. ReplayInv => CommandsKept BY DEF ReplayInv
<1> QED BY <1>1, ReplayInvariant, PTL

\* However many commands are clicked, at most one trip is sent against the one
\* that stands in the hash (replay.py:189-205).
THEOREM CommandsObeyed == Spec => []CommandsTakeHold
<1>1. ReplayInv => CommandsTakeHold
  BY DEF ReplayInv, Shapes, CommandsTakeHold
<1> QED BY <1>1, ReplayInvariant, PTL

\* A success has sent the whole day and seen every trip settled; a cancellation
\* was asked for and left trips unsent (replay.py:189-220).
THEOREM ResultsEarned == Spec => []ResultIsEarned
<1>1. ReplayInv => ResultIsEarned BY DEF ReplayInv
<1> QED BY <1>1, ReplayInvariant, PTL
=============================================================================
