----------------------------- MODULE TripStream -----------------------------
(***************************************************************************)
(* The live trip feed: the control-plane's Consumer tails a Kafka topic,   *)
(* the StreamHub hands every trip and every window aggregate to each       *)
(* WebSocket handler, and one mounted Streaming screen keeps itself        *)
(* connected with a reconnecting client.                                   *)
(*                                                                         *)
(* A trip is its offset. A window aggregate is the set of trips it sums    *)
(* up: its count, revenue and averages are functions of that set.          *)
(***************************************************************************)
EXTENDS Naturals, Sequences, FiniteSets

CONSTANTS
  Conns,          \* WebSocket connections; one is used again when both ends
                  \* are done with it
  None,           \* no connection
  BufCap,         \* capacity of a subscriber's channel (32 in the code)
  MaxShown,       \* trips the screen keeps (20 in the code)
  MaxTrips,       \* records on the topic (bounds the model)
  MaxFaults       \* how many faults happen (bounds the model)

ASSUME TripStreamAssumption ==
  /\ None \notin Conns
  /\ BufCap \in Nat \ {0}
  /\ MaxShown \in Nat \ {0}
  /\ MaxTrips \in Nat
  /\ MaxFaults \in Nat

VARIABLES
  produced,       \* records on the topic
  offset,         \* records readLoop has read, the one in its hand included
  holding,        \* what readLoop waits to hand over: "record", "error", or
                  \* "nothing" while it reads
  errs,           \* the errs channel holds an error
  tick,           \* the ticker's channel holds a tick
  window,         \* the window accumulator
  up,             \* the control-plane runs
  link,           \* each connection: being dialled, open, or cut
  spc,            \* the WS handler of each connection
  chan,           \* the frames in its channel of the StreamHub
  frame,          \* the frame it is writing
  socket,         \* the browser's current connection, or None
  timer,          \* a reconnect is scheduled
  status,         \* the connection status on the screen
  closed,         \* the screen is unmounted
  trips,          \* the trips on the screen, the most recent first
  pending,        \* history: trips received since the last window frame of this
                  \* connection, or Unknown
  dropped,        \* history: open connections a frame was dropped for
  restarts,       \* history: the control-plane has restarted
  faults          \* counter

readVars    == <<offset, holding, errs>>
relayVars   == <<tick, window>>
serverVars  == <<spc, chan, frame, dropped>>
browserVars == <<socket, timer, status, closed, trips, pending>>
vars == <<produced, readVars, relayVars, up, link, serverVars, browserVars,
          restarts, faults>>

-----------------------------------------------------------------------------
Offsets   == 1..MaxTrips
Unknown   == {0}
Trip(n)   == [type |-> "trip", trip |-> n, window |-> {}]
Window(w) == [type |-> "window", trip |-> 0, window |-> w]
NoFrame   == [type |-> "none", trip |-> 0, window |-> {}]
Frames    == {Trip(n) : n \in Offsets} \cup {Window(w) : w \in SUBSET Offsets}

Subscribed(c) == spc[c] \in {"looping", "writing"}
Free(c)       == socket # c /\ spc[c] = "none"

TypeOK ==
  /\ produced \in 0..MaxTrips /\ offset \in 0..produced
  /\ holding \in {"nothing", "record", "error"}
  /\ errs \in BOOLEAN /\ tick \in BOOLEAN /\ up \in BOOLEAN
  /\ window \subseteq 1..offset
  /\ link \in [Conns -> {"dialling", "open", "cut"}]
  /\ spc \in [Conns -> {"none", "accepted", "looping", "writing"}]
  /\ chan \in [Conns -> Seq(Frames)]
  /\ frame \in [Conns -> Frames \cup {NoFrame}]
  /\ \A c \in Conns : /\ Len(chan[c]) <= BufCap
                      /\ ~Subscribed(c) => chan[c] = <<>>
  /\ socket \in Conns \cup {None}
  /\ timer \in BOOLEAN /\ closed \in BOOLEAN
  /\ status \in {"connecting", "live", "disconnected"}
  /\ trips \in Seq(Offsets) /\ Len(trips) <= MaxShown
  /\ pending = Unknown \/ pending \subseteq Offsets
  /\ dropped \subseteq Conns

\* The screen has just been mounted and has opened its first connection.
Init ==
  /\ produced = 0 /\ offset = 0 /\ holding = "nothing" /\ errs = FALSE
  /\ tick = FALSE /\ window = {} /\ up = TRUE
  /\ \E c \in Conns :
       /\ socket = c
       /\ link = [d \in Conns |-> IF d = c THEN "dialling" ELSE "cut"]
  /\ spc = [c \in Conns |-> "none"]
  /\ chan = [c \in Conns |-> <<>>]
  /\ frame = [c \in Conns |-> NoFrame]
  /\ dropped = {}
  /\ timer = FALSE /\ status = "connecting" /\ closed = FALSE
  /\ trips = <<>> /\ pending = Unknown
  /\ restarts = FALSE /\ faults = 0

-----------------------------------------------------------------------------
(***************************************************************************)
(* The topic and readLoop.                                                 *)
(***************************************************************************)
OutsideRead == <<relayVars, up, link, serverVars, browserVars, restarts, faults>>

Produce ==
  /\ produced < MaxTrips
  /\ produced' = produced + 1
  /\ UNCHANGED <<readVars, OutsideRead>>

ReadMessage ==
  /\ up /\ holding = "nothing" /\ offset < produced
  /\ offset' = offset + 1
  /\ holding' = "record"
  /\ UNCHANGED <<produced, errs, OutsideRead>>

ReadErrs ==
  /\ up /\ holding = "nothing"
  /\ faults < MaxFaults /\ faults' = faults + 1
  /\ holding' = "error"
  /\ UNCHANGED <<produced, offset, errs, relayVars, up, link, serverVars,
                 browserVars, restarts>>

\* Mutant: the loop ends with its first error.
SendErrEnds ==
  /\ up /\ holding = "error" /\ ~errs
  /\ errs' = TRUE
  /\ UNCHANGED <<produced, offset, holding, OutsideRead>>

\* errs has room for one error; readLoop then sleeps and reads on.
SendErr ==
  /\ up /\ holding = "error" /\ ~errs
  /\ errs' = TRUE
  /\ holding' = "nothing"
  /\ UNCHANGED <<produced, offset, OutsideRead>>

-----------------------------------------------------------------------------
(***************************************************************************)
(* Consumer.Run and StreamHub.Broadcast.                                   *)
(***************************************************************************)
OutsideRun == <<produced, offset, up, link, spc, frame, browserVars, restarts,
                faults>>

\* Mutant: a full channel takes the frame all the same.
BroadcastUnbounded(f) ==
  /\ chan' = [c \in Conns |-> IF Subscribed(c) THEN Append(chan[c], f) ELSE chan[c]]
  /\ UNCHANGED dropped

\* The mutex makes a broadcast one step for Subscribe and unsubscribe; a full
\* channel misses the frame.
Broadcast(f) ==
  LET full == {c \in Conns : Subscribed(c) /\ Len(chan[c]) = BufCap}
  IN  /\ chan' = [c \in Conns |-> IF Subscribed(c) /\ c \notin full
                                    THEN Append(chan[c], f) ELSE chan[c]]
      /\ dropped' = dropped \cup {c \in full : link[c] = "open"}

\* The ticker drops a tick nobody has taken.
Tick ==
  /\ up /\ ~tick
  /\ tick' = TRUE
  /\ UNCHANGED <<readVars, window, chan, dropped, OutsideRun>>

\* Mutant: the accumulator is not reset.
FlushWindowKeeps ==
  /\ up /\ tick
  /\ tick' = FALSE
  /\ Broadcast(Window(window))
  /\ UNCHANGED <<window, readVars, OutsideRun>>

\* Mutant: an empty window is not announced.
FlushWindowNotEmpty ==
  /\ up /\ tick
  /\ tick' = FALSE
  /\ window' = {}
  /\ IF window = {} THEN UNCHANGED <<chan, dropped>> ELSE Broadcast(Window(window))
  /\ UNCHANGED <<readVars, OutsideRun>>

FlushWindow ==
  /\ up /\ tick
  /\ tick' = FALSE
  /\ window' = {}
  /\ Broadcast(Window(window))
  /\ UNCHANGED <<readVars, OutsideRun>>

TakeMessage ==
  /\ up /\ holding = "record"
  /\ holding' = "nothing"
  /\ window' = window \cup {offset}
  /\ Broadcast(Trip(offset))
  /\ UNCHANGED <<errs, tick, OutsideRun>>

\* A record that is not a trip: any may be one.
SkipMalformed ==
  /\ up /\ holding = "record"
  /\ holding' = "nothing"
  /\ UNCHANGED <<errs, relayVars, chan, dropped, OutsideRun>>

TakeErr ==
  /\ up /\ errs
  /\ errs' = FALSE
  /\ UNCHANGED <<holding, relayVars, chan, dropped, OutsideRun>>

-----------------------------------------------------------------------------
(***************************************************************************)
(* StreamingHandler.WS of each connection.                                 *)
(***************************************************************************)
OutsideWS == <<produced, readVars, relayVars, up, socket, timer, closed, restarts>>
Screen    == <<status, trips, pending>>

Accept(c) ==
  /\ up /\ link[c] = "dialling" /\ spc[c] = "none"
  /\ link' = [link EXCEPT ![c] = "open"]
  /\ spc' = [spc EXCEPT ![c] = "accepted"]
  /\ UNCHANGED <<chan, frame, dropped, Screen, faults, OutsideWS>>

Subscribe(c) ==
  /\ spc[c] = "accepted"
  /\ spc' = [spc EXCEPT ![c] = "looping"]
  /\ chan' = [chan EXCEPT ![c] = <<>>]
  /\ dropped' = dropped \ {c}
  /\ UNCHANGED <<link, frame, Screen, faults, OutsideWS>>

TakeFrame(c) ==
  /\ spc[c] = "looping" /\ chan[c] # <<>>
  /\ frame' = [frame EXCEPT ![c] = Head(chan[c])]
  /\ chan' = [chan EXCEPT ![c] = Tail(@)]
  /\ spc' = [spc EXCEPT ![c] = "writing"]
  /\ UNCHANGED <<link, dropped, Screen, faults, OutsideWS>>

\* The browser's onmessage, through useLiveTripStream.
FirstShown(list) == SubSeq(list, 1, IF Len(list) < MaxShown THEN Len(list)
                                                            ELSE MaxShown)

\* Mutant: the newest trip goes to the end.
OnMessageAppends(f) ==
  IF f.type = "trip"
    THEN /\ trips' = FirstShown(trips \o <<f.trip>>)
         /\ pending' = IF pending = Unknown THEN Unknown ELSE pending \cup {f.trip}
    ELSE pending' = {} /\ UNCHANGED trips

OnMessage(f) ==
  IF f.type = "trip"
    THEN /\ trips' = FirstShown(<<f.trip>> \o trips)
         /\ pending' = IF pending = Unknown THEN Unknown ELSE pending \cup {f.trip}
    ELSE pending' = {} /\ UNCHANGED trips

\* A frame written to an open connection reaches onmessage once onopen has run.
WriteFrame(c) ==
  /\ spc[c] = "writing" /\ link[c] = "open" /\ status = "live"
  /\ OnMessage(frame[c])
  /\ spc' = [spc EXCEPT ![c] = "looping"]
  /\ frame' = [frame EXCEPT ![c] = NoFrame]
  /\ UNCHANGED <<link, chan, dropped, status, faults, OutsideWS>>

\* What is written to a connection the browser has left may still be accepted
\* by the operating system.
WriteVanishes(c) ==
  /\ spc[c] = "writing" /\ link[c] = "cut"
  /\ spc' = [spc EXCEPT ![c] = "looping"]
  /\ frame' = [frame EXCEPT ![c] = NoFrame]
  /\ UNCHANGED <<link, chan, dropped, Screen, faults, OutsideWS>>

\* The deferred unsubscribe and CloseNow.
Leave(c) ==
  /\ spc' = [spc EXCEPT ![c] = "none"]
  /\ frame' = [frame EXCEPT ![c] = NoFrame]
  /\ chan' = [chan EXCEPT ![c] = <<>>]
  /\ link' = [link EXCEPT ![c] = "cut"]
  /\ UNCHANGED <<dropped, Screen, OutsideWS>>

WriteFails(c) ==
  /\ spc[c] = "writing" /\ link[c] = "cut"
  /\ Leave(c)
  /\ UNCHANGED faults

\* A browser that does not take the frame within 5 s is disconnected.
WriteTimesOut(c) ==
  /\ spc[c] = "writing" /\ link[c] = "open"
  /\ faults < MaxFaults /\ faults' = faults + 1
  /\ Leave(c)

-----------------------------------------------------------------------------
(***************************************************************************)
(* connect() of httpStreamingGateway, and the mounted screen.              *)
(***************************************************************************)
OutsideScreen  == <<produced, readVars, relayVars, up, serverVars, restarts,
                    faults>>
OutsideBrowser == <<trips, OutsideScreen>>

\* open(), from a timer that has fired.
Reconnect ==
  /\ timer /\ ~closed
  /\ timer' = FALSE
  /\ \E c \in Conns :
       /\ Free(c)
       /\ socket' = c
       /\ link' = [link EXCEPT ![c] = "dialling"]
  /\ status' = "connecting"
  /\ UNCHANGED <<closed, pending, OutsideBrowser>>

OnOpen ==
  /\ status = "connecting" /\ socket # None /\ link[socket] = "open"
  /\ status' = "live"
  /\ UNCHANGED <<link, socket, timer, closed, pending, OutsideBrowser>>

\* Mutant: only a connection that was live is replaced.
OnCloseOnlyLive ==
  /\ socket # None /\ link[socket] = "cut"
  /\ socket' = None
  /\ status' = "disconnected"
  /\ timer' = (status = "live")
  /\ pending' = Unknown
  /\ UNCHANGED <<link, closed, OutsideBrowser>>

\* onclose, also after an onerror: a reconnect is scheduled, with a delay that
\* doubles up to 15 s.
OnClose ==
  /\ socket # None /\ link[socket] = "cut"
  /\ socket' = None
  /\ status' = "disconnected"
  /\ timer' = TRUE
  /\ pending' = Unknown
  /\ UNCHANGED <<link, closed, OutsideBrowser>>

\* Mutant: the timer is not cleared.
UnmountKeepsTimer ==
  /\ ~closed
  /\ closed' = TRUE
  /\ socket' = None
  /\ link' = IF socket = None THEN link ELSE [link EXCEPT ![socket] = "cut"]
  /\ status' = "disconnected" /\ trips' = <<>> /\ pending' = Unknown
  /\ UNCHANGED <<timer, OutsideScreen>>

\* The cleanup that connect() returns; the screen's state goes with it.
Unmount ==
  /\ ~closed
  /\ closed' = TRUE
  /\ timer' = FALSE
  /\ socket' = None
  /\ link' = IF socket = None THEN link ELSE [link EXCEPT ![socket] = "cut"]
  /\ status' = "disconnected" /\ trips' = <<>> /\ pending' = Unknown
  /\ UNCHANGED OutsideScreen

-----------------------------------------------------------------------------
(***************************************************************************)
(* The network and the control-plane's process.                            *)
(***************************************************************************)

\* Nobody listens while the control-plane is down.
Refuse(c) ==
  /\ ~up /\ link[c] = "dialling"
  /\ link' = [link EXCEPT ![c] = "cut"]
  /\ UNCHANGED <<produced, readVars, relayVars, up, serverVars, browserVars,
                 restarts, faults>>

Disconnect(c) ==
  /\ link[c] # "cut"
  /\ faults < MaxFaults /\ faults' = faults + 1
  /\ link' = [link EXCEPT ![c] = "cut"]
  /\ UNCHANGED <<produced, readVars, relayVars, up, serverVars, browserVars,
                 restarts>>

\* The process ends, with its handlers, its channels and its window.
Crash ==
  /\ up
  /\ faults < MaxFaults /\ faults' = faults + 1
  /\ up' = FALSE /\ restarts' = TRUE
  /\ holding' = "nothing" /\ errs' = FALSE /\ tick' = FALSE /\ window' = {}
  /\ spc' = [c \in Conns |-> "none"]
  /\ chan' = [c \in Conns |-> <<>>]
  /\ frame' = [c \in Conns |-> NoFrame]
  /\ dropped' = {}
  /\ link' = [c \in Conns |-> IF link[c] = "open" THEN "cut" ELSE link[c]]
  /\ UNCHANGED <<produced, offset, browserVars>>

\* The new reader starts at either end of the topic: its configuration says the
\* last offset, which kafka-go applies to consumer groups only.
Boot ==
  /\ ~up
  /\ up' = TRUE
  /\ offset' \in {0, produced}
  /\ UNCHANGED <<produced, holding, errs, relayVars, link, serverVars,
                 browserVars, restarts, faults>>

-----------------------------------------------------------------------------
ConsumerStep == Tick \/ FlushWindow \/ TakeMessage \/ SkipMalformed \/ TakeErr
ReadStep     == ReadMessage \/ ReadErrs \/ SendErr
ServerStep(c) == \/ Accept(c) \/ Subscribe(c) \/ TakeFrame(c) \/ WriteFrame(c)
                 \/ WriteVanishes(c) \/ WriteFails(c) \/ WriteTimesOut(c)
BrowserStep  == Reconnect \/ OnOpen \/ OnClose \/ Unmount

Next ==
  \/ Produce \/ ReadStep \/ ConsumerStep
  \/ \E c \in Conns : ServerStep(c) \/ Refuse(c) \/ Disconnect(c)
  \/ BrowserStep
  \/ Crash \/ Boot

(***************************************************************************)
(* Go's select picks at random among the cases that are ready, and each    *)
(* stays ready until it is taken; a broker asked for ever answers now and  *)
(* then; a connection whose other end is gone does not accept writes for   *)
(* ever. Everything else is a goroutine or a browser callback that is not  *)
(* kept from running.                                                      *)
(***************************************************************************)
HandlerGoesOn(c) == Accept(c) \/ Refuse(c) \/ Subscribe(c) \/ TakeFrame(c)
                    \/ WriteFrame(c)

Fairness ==
  /\ WF_vars(Tick \/ Boot)
  /\ WF_vars(FlushWindow) /\ WF_vars(TakeMessage \/ SkipMalformed)
  /\ WF_vars(TakeErr)
  /\ SF_vars(ReadMessage) /\ WF_vars(SendErr)
  /\ \A c \in Conns : WF_vars(HandlerGoesOn(c)) /\ SF_vars(WriteFails(c))
  /\ WF_vars(Reconnect \/ OnOpen \/ OnClose)

Spec == Init /\ [][Next]_vars /\ Fairness

-----------------------------------------------------------------------------
(***************************************************************************)
(* Properties.                                                             *)
(***************************************************************************)

\* What the window says is what the screen has seen: between two window frames
\* of a connection that missed none, the trips received are those summed up
\* (consumer.go:61-72, window.go:29-51).
WindowMatchesTrips ==
  \A c \in Conns :
    (/\ spc[c] = "writing" /\ link[c] = "open" /\ frame[c].type = "window"
     /\ pending # Unknown /\ c \notin dropped)
    => pending = frame[c].window

\* The feed is in the topic's order, the newest first and none twice, across
\* reconnects of the browser; only a restart of the control-plane may read the
\* topic again (useLiveTripStream.ts:25).
FeedNewestFirst ==
  restarts \/ \A i \in 1..(Len(trips) - 1) : trips[i] > trips[i + 1]

\* A mounted screen holds either one connection or one timer, never both and
\* never a second connection; an unmounted one holds nothing; and the status
\* agrees (httpStreamingGateway.ts:94-143).
OneConnection ==
  /\ closed => socket = None /\ ~timer
  /\ ~closed => (timer <=> socket = None) /\ (timer <=> status = "disconnected")
  /\ \A c \in Conns : link[c] = "open" => c = socket

\* The handler of a connection whose browser is gone returns and unsubscribes:
\* empty windows are sent too, so there is always a next write to fail
\* (streaming_handler.go:73-85, window.go:5-9).
HandlersReturn ==
  \A c \in Conns : (spc[c] # "none" /\ link[c] = "cut") ~> spc[c] = "none"

\* Whatever errors the reader meets, every record on the topic is read and
\* handed over in the end (consumer.go:34-37 and 81-84).
TopicIsRead == <>[](produced = offset /\ holding # "record")

\* The feed comes back after every disconnection, unless the user leaves
\* (httpStreamingGateway.ts:91-93).
FeedComesBack == <>[](status = "live" \/ closed)
=============================================================================
