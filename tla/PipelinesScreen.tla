-------------------------- MODULE PipelinesScreen ---------------------------
(***************************************************************************)
(* The Pipelines screen of the console (pipelines/ui/PipelinesScreen.tsx   *)
(* and the hooks it uses): the job catalogue, the Run-all chain, the two   *)
(* buttons that must be pressed twice, and the paged run history, over a   *)
(* server that is only seen through polls, answers and sockets.            *)
(*                                                                         *)
(* The chain is an async function of the mount that started it: it goes on *)
(* after the screen is left, and what it then reports is dropped. A job    *)
(* form is either filled or not (MonthRangeForm has its contents).         *)
(***************************************************************************)
EXTENDS Integers, Sequences, FiniteSetsExt

CONSTANTS
  PIPELINE_ORDER, \* the stages of the chain, in order; the first takes a range
  PageSize,       \* runs on a page of the history
  MaxRuns,        \* runs that are ever submitted (bounds the model)
  MaxMounts,      \* how often the screen is opened (bounds the model)
  MaxPresses,     \* how often anything is clicked (bounds the model)
  MaxFaults       \* requests and sockets that fail (bounds the model)

ASSUME PipelinesAssumption ==
  /\ PIPELINE_ORDER \in Seq(STRING) /\ Len(PIPELINE_ORDER) > 0
  /\ PageSize \in Nat \ {0}
  /\ MaxRuns \in Nat /\ MaxMounts \in Nat
  /\ MaxPresses \in Nat /\ MaxFaults \in Nat

VARIABLES
  runs,           \* the server's runs, newest first
  made,           \* how many runs were submitted
  pages,          \* the query cache: what is known of each history page
  ui,             \* the state of the mounted screen
  posts,          \* the mutations that wait for their answer
  chains,         \* the Run-all functions that are executing
  sent, faults, presses

vars == <<runs, made, pages, ui, posts, chains, sent, faults, presses>>

Steps == 1..Len(PIPELINE_ORDER)
JOB_CATALOG == {PIPELINE_ORDER[i] : i \in Steps}
\* Only the first stage has paramFields; the others run on one click.
WithForm == {PIPELINE_ORDER[1]}

InFlight == {"queued", "running"}
Ended == {"succeeded", "partial", "failed", "cancelled"}
\* Mutant: a state the chain's socket does not recognise as an end.
TERMINAL_STATES_Short == {"succeeded", "failed", "cancelled"}
TERMINAL_STATES == {"succeeded", "partial", "failed", "cancelled"}

\* A run of the server: gone once the history was cleared of it, taken while
\* the worker's handler executes it, which a cancellation does not end.
Ids == Nat \ {0}
Run == [id : Ids, job : JOB_CATALOG \cup {"reset"}, state : InFlight \cup Ended,
        taken : BOOLEAN, gone : BOOLEAN]
Row == [id : Ids, job : JOB_CATALOG \cup {"reset"}, state : InFlight \cup Ended]
PageNrs == 0..(MaxRuns \div PageSize)

IdsOf(rs) == {rs[i].id : i \in DOMAIN rs}
RunOf(id) == CHOOSE r \in {runs[i] : i \in DOMAIN runs} : r.id = id

\* What ListJobRuns reads: the rows that are left, and how many of them are
\* newer than one.
Kept == {i \in DOMAIN runs : ~ runs[i].gone}
Newer(i) == Cardinality({k \in Kept : k < i})
RowOf(r) == [id |-> r.id, job |-> r.job, state |-> r.state]

\* Rows of page p that are left, and more: LIMIT cuts them off.
Left(p) ==
  IF p * PageSize < Cardinality(Kept) THEN Cardinality(Kept) - p * PageSize
  ELSE 0

PageRow(p, k) ==
  RowOf(runs[CHOOSE i \in Kept : Newer(i) = p * PageSize + k - 1])

\* Mutant: the extra row that tells whether there is more is not trimmed.
ListRunsUntrimmed(p) ==
  LET limit == PageSize + 1
  IN  [st |-> "ok",
       rows |-> [k \in 1..(IF Left(p) < limit THEN Left(p) ELSE limit)
                   |-> PageRow(p, k)],
       more |-> Left(p) >= limit]

\* ListJobRuns with limit PageSize: the page, and whether there is more.
ListRuns(p) ==
  [st |-> "ok",
   rows |-> [k \in 1..(IF Left(p) < PageSize THEN Left(p) ELSE PageSize)
               |-> PageRow(p, k)],
   more |-> Left(p) > PageSize]

Unknown == [st |-> "none", rows |-> <<>>, more |-> FALSE]

\* Mutant: a cancelled stage does not stop the chain.
StopsFailed == {"failed"}

\* The states that stop the chain.
Stops == {"failed", "cancelled"}

\* The component's state when it mounts with a router state.
Fresh(inst, open, selected) ==
  [mounted |-> TRUE, inst |-> inst, page |-> 0, open |-> open,
   allForm |-> FALSE, selected |-> selected, current |-> 0, resetting |-> 0,
   histArmed |-> FALSE, dataArmed |-> FALSE, phase |-> "idle", step |-> 1]

Gone(inst) == [Fresh(inst, "none", 0) EXCEPT !.mounted = FALSE]

Init ==
  /\ runs = <<>> /\ made = 0
  /\ pages = [p \in PageNrs |-> Unknown]
  /\ ui = Gone(0)
  /\ posts = {} /\ chains = {}
  /\ sent = 0 /\ faults = 0 /\ presses = 0

(***************************************************************************)
(* What the screen shows.                                                  *)
(***************************************************************************)

Recent == pages[0].rows
hasActiveRuns == \E i \in DOMAIN Recent : Recent[i].state \in InFlight
runAllActive == ui.phase = "running"
isPending == \E p \in posts : p.n = ui.current
Waiting(origin) == \E p \in posts : p.inst = ui.inst /\ p.origin = origin
Disabled == runAllActive \/ isPending

\* The first run of the job on the newest page that has not ended, or 0.
runningRun(job) ==
  LET hits == {i \in DOMAIN Recent : /\ Recent[i].job = job
                                     /\ Recent[i].state \in InFlight}
  IN  IF hits = {} THEN 0
      ELSE Recent[CHOOSE i \in hits : \A k \in hits : i <= k].id

\* The right end of a job's row. While the chain runs, the rows of the other
\* stages show where the chain is and not what the record says.
RowShows(job) ==
  LET nr == CHOOSE i \in Steps : PIPELINE_ORDER[i] = job
  IN  CASE runAllActive /\ nr < ui.step -> "completed"
        [] runAllActive /\ nr > ui.step -> "queued"
        [] OTHER -> IF runningRun(job) # 0 THEN "running" ELSE "button"

FormShown(job) ==
  job \in WithForm /\ runningRun(job) = 0 /\ ui.open = job

\* An error of the last fetch hides the table, also when older data is there.
TableShown == pages[ui.page].st = "ok"

(***************************************************************************)
(* A render: the effect that selects a run in flight when none is, and the *)
(* table, which forgets its armed button when it is not shown.             *)
(***************************************************************************)
Reselected(u, cache) ==
  LET rows == cache[0].rows
      hits == {i \in DOMAIN rows : rows[i].state \in InFlight}
  IN  IF u.selected # 0 \/ hits = {} THEN u.selected
      ELSE rows[CHOOSE i \in hits : \A k \in hits : i <= k].id

Rendered(u, cache) ==
  IF ~ u.mounted THEN u
  ELSE [u EXCEPT !.selected = Reselected(u, cache),
                 !.histArmed = @ /\ cache[u.page].st = "ok"]

Show(u) == ui' = Rendered(u, pages)

(***************************************************************************)
(* Opening and leaving the screen.                                         *)
(***************************************************************************)
Server == <<runs, made>>
Rest == <<pages, posts, chains, sent, faults>>

\* The screen is opened, from a link or with the state of a search result.
Mount ==
  /\ ~ ui.mounted /\ ui.inst < MaxMounts
  /\ \/ Show(Fresh(ui.inst + 1, "none", 0))
     \/ \E job \in JOB_CATALOG : Show(Fresh(ui.inst + 1, job, 0))
     \/ \E id \in IdsOf(runs) : Show(Fresh(ui.inst + 1, "none", id))
  /\ UNCHANGED <<Server, Rest, presses>>

Leave ==
  /\ ui.mounted
  /\ ui' = Gone(ui.inst)
  /\ UNCHANGED <<Server, Rest, presses>>

(***************************************************************************)
(* The queries: polled while the screen is open.                           *)
(***************************************************************************)
fetchRuns(p) ==
  /\ ui.mounted /\ p \in {0, ui.page}
  /\ pages' = [pages EXCEPT ![p] = ListRuns(p)]
  /\ ui' = Rendered(ui, pages')
  /\ UNCHANGED <<Server, posts, chains, sent, faults, presses>>

FetchFails(p) ==
  /\ ui.mounted /\ p \in {0, ui.page}
  /\ faults < MaxFaults /\ faults' = faults + 1
  /\ pages' = [pages EXCEPT ![p].st = "error"]
  /\ ui' = Rendered(ui, pages')
  /\ UNCHANGED <<Server, posts, chains, sent, presses>>

(***************************************************************************)
(* The buttons.                                                            *)
(***************************************************************************)

\* A click on the mounted screen.
Press ==
  /\ ui.mounted
  /\ presses < MaxPresses /\ presses' = presses + 1

\* A trigger leaves, a request of its own. Each hook keeps track of its latest
\* one only. A request of Stop all or Clear history has no number.
Post(origin, job) ==
  /\ sent' = sent + 1
  /\ posts' = posts \cup {[n |-> sent + 1, inst |-> ui.inst,
                           origin |-> origin, job |-> job]}

PostPlain(origin) ==
  /\ posts' = posts \cup {[n |-> 0, inst |-> ui.inst, origin |-> origin,
                           job |-> "none"]}
  /\ UNCHANGED sent

\* Bound: the runs that exist, are asked for, or that a chain will ask for.
Room(k) ==
  made + Cardinality({p \in posts : p.n # 0}) + k
    + FoldSet(LAMBDA c, sum : sum + Len(PIPELINE_ORDER) - c.step, 0, chains)
    <= MaxRuns

PressRunAll ==
  /\ Press /\ ~ Disabled
  /\ Show([ui EXCEPT !.open = "none", !.allForm = ~ @])
  /\ UNCHANGED <<Server, Rest>>

\* The chain's first iteration up to its first await. The form only looks at
\* the chain, so a run submitted from a row may still be pending.
runAll ==
  /\ Press /\ ui.allForm /\ ~ runAllActive
  /\ Room(Len(PIPELINE_ORDER))
  /\ Post("chain", PIPELINE_ORDER[1])
  /\ chains' = chains \cup {[inst |-> ui.inst, step |-> 1, at |-> sent + 1,
                             ran |-> <<>>]}
  /\ Show([ui EXCEPT !.allForm = FALSE, !.current = sent + 1,
                     !.phase = "running", !.step = 1])
  /\ UNCHANGED <<Server, pages, faults>>

\* Run on a row: the stage with a form opens or closes it, the others start.
PressRun(job) ==
  /\ Press /\ RowShows(job) = "button" /\ ~ Disabled
  /\ \/ /\ job \in WithForm
        /\ Show([ui EXCEPT !.allForm = FALSE,
                           !.open = IF @ = job THEN "none" ELSE job])
        /\ UNCHANGED Rest
     \/ /\ job \notin WithForm
        /\ Room(1) /\ Post("row", job)
        /\ Show([ui EXCEPT !.current = sent + 1])
        /\ UNCHANGED <<pages, chains, faults>>
  /\ UNCHANGED Server

SubmitForm(job) ==
  /\ Press /\ FormShown(job) /\ ~ isPending
  /\ Room(1) /\ Post("form", job)
  /\ Show([ui EXCEPT !.current = sent + 1])
  /\ UNCHANGED <<Server, pages, chains, faults>>

\* A click on a running stage, or on a row of the table.
SelectRun ==
  /\ Press
  /\ \E id \in {runningRun(job) : job \in {j \in JOB_CATALOG :
                                             RowShows(j) = "running"}}
                 \cup (IF TableShown THEN IdsOf(pages[ui.page].rows) ELSE {}) :
       Show([ui EXCEPT !.selected = id])
  /\ UNCHANGED <<Server, Rest>>

TurnPage(d) ==
  /\ Press /\ TableShown
  /\ IF d = 1 THEN pages[ui.page].more ELSE ui.page # 0
  /\ ui.page + d \in PageNrs
  /\ Show([ui EXCEPT !.page = @ + d])
  /\ UNCHANGED <<Server, Rest>>

PressStopAll ==
  /\ Press /\ hasActiveRuns /\ ~ Waiting("cancel")
  /\ PostPlain("cancel")
  /\ UNCHANGED <<Server, pages, ui, chains, faults>>

\* Clear history and Clear data: the first press arms the button for four
\* seconds, a press while it is armed acts.
PressClearHistory ==
  /\ Press /\ TableShown /\ ~ Waiting("clear")
  /\ \/ /\ ~ ui.histArmed
        /\ Show([ui EXCEPT !.histArmed = TRUE])
        /\ UNCHANGED Rest
     \/ /\ ui.histArmed
        /\ PostPlain("clear")
        /\ Show([ui EXCEPT !.histArmed = FALSE])
        /\ UNCHANGED <<pages, chains, faults>>
  /\ UNCHANGED Server

PressClearData ==
  /\ Press /\ ~ Waiting("reset")
  /\ \/ /\ ~ ui.dataArmed
        /\ Show([ui EXCEPT !.dataArmed = TRUE])
        /\ UNCHANGED Rest
     \/ /\ ui.dataArmed
        /\ Room(1) /\ Post("reset", "reset")
        /\ Show([ui EXCEPT !.dataArmed = FALSE, !.resetting = sent + 1])
        /\ UNCHANGED <<pages, chains, faults>>
  /\ UNCHANGED Server

\* A timer of four seconds, or the chain's two and a half.
TimeOut ==
  /\ \/ ui.histArmed /\ Show([ui EXCEPT !.histArmed = FALSE])
     \/ ui.dataArmed /\ Show([ui EXCEPT !.dataArmed = FALSE])
  /\ UNCHANGED <<Server, Rest, presses>>

DoneFades ==
  /\ ui.phase = "done"
  /\ Show([ui EXCEPT !.phase = "idle"])
  /\ UNCHANGED <<Server, Rest, presses>>

(***************************************************************************)
(* Answers. What the component passed to mutate runs only while it is      *)
(* mounted and the mutation is its latest; the chain's await goes on       *)
(* whatever became of the screen. The cache entry that onSuccess prepends  *)
(* the run to has a key no screen reads; the invalidation that follows is  *)
(* a fetchRuns.                                                            *)
(***************************************************************************)
Here(inst) == ui.mounted /\ ui.inst = inst

Told(p, id) ==
  IF ~ Here(p.inst) THEN ui
  ELSE CASE p.origin = "chain" -> [ui EXCEPT !.selected = id]
         [] p.origin = "row" /\ p.n = ui.current -> [ui EXCEPT !.selected = id]
         [] p.origin = "form" /\ p.n = ui.current ->
              [ui EXCEPT !.selected = id, !.open = "none"]
         [] p.origin = "reset" /\ p.n = ui.resetting ->
              [ui EXCEPT !.selected = id]
         [] OTHER -> ui

\* The chain takes the id and opens the socket it waits on.
Waits(c, id) == [c EXCEPT !.at = 0, !.ran = Append(@, id)]

\* A trigger is answered 202: the run is queued or, when the stream could not
\* be written, already failed.
TriggerAnswered(p) ==
  /\ p \in posts /\ p.n # 0
  /\ posts' = posts \ {p}
  /\ made' = made + 1
  /\ \E state \in {"queued", "failed"} :
       /\ faults' = faults + (IF state = "failed" THEN 1 ELSE 0)
       /\ faults' <= MaxFaults
       /\ runs' = <<[id |-> made + 1, job |-> p.job, state |-> state,
                     taken |-> FALSE, gone |-> FALSE]>> \o runs
  /\ chains' = {IF c.at = p.n THEN Waits(c, made + 1) ELSE c : c \in chains}
  /\ Show(Told(p, made + 1))
  /\ UNCHANGED <<pages, sent, presses>>

\* A trigger fails: a chain that awaits it has no handler and is over, and
\* the screen goes on showing its step.
TriggerFails(p) ==
  /\ p \in posts /\ p.n # 0
  /\ faults < MaxFaults /\ faults' = faults + 1
  /\ posts' = posts \ {p}
  /\ chains' = {c \in chains : c.at # p.n}
  /\ UNCHANGED <<Server, pages, ui, sent, presses>>

\* ClearTerminalRuns, and the page the screen goes back to.
Cleared(p) ==
  /\ p \in posts /\ p.origin = "clear"
  /\ posts' = posts \ {p}
  /\ runs' = [i \in DOMAIN runs |->
               [runs[i] EXCEPT !.gone = @ \/ runs[i].state \notin InFlight]]
  /\ Show(IF Here(p.inst) THEN [ui EXCEPT !.page = 0] ELSE ui)
  /\ UNCHANGED <<made, pages, chains, sent, faults, presses>>

\* CancelActiveRuns; the restart of the worker may come too late for a run.
Cancelled(p) ==
  /\ p \in posts /\ p.origin = "cancel"
  /\ posts' = posts \ {p}
  /\ \E killed \in BOOLEAN :
       runs' = [i \in DOMAIN runs |->
                  [runs[i] EXCEPT !.state = IF @ \in InFlight THEN "cancelled"
                                            ELSE @,
                                  !.taken = @ /\ ~ killed]]
  /\ UNCHANGED <<made, pages, ui, chains, sent, faults, presses>>

PlainFails(p) ==
  /\ p \in posts /\ p.n = 0
  /\ faults < MaxFaults /\ faults' = faults + 1
  /\ posts' = posts \ {p}
  /\ UNCHANGED <<Server, pages, ui, chains, sent, presses>>

(***************************************************************************)
(* The chain goes on when its socket reports a terminal state.             *)
(***************************************************************************)
Last(c) == RunOf(c.ran[Len(c.ran)])

WaitEnds(c) ==
  /\ c \in chains /\ c.at = 0
  /\ Last(c).state \in TERMINAL_STATES
  /\ LET report(u) == IF Here(c.inst) THEN Show(u) ELSE Show(ui)
     IN \/ /\ Last(c).state \in Stops
           /\ chains' = chains \ {c}
           /\ report([ui EXCEPT !.phase = "stopped"])
           /\ UNCHANGED <<posts, sent>>
        \/ /\ Last(c).state \notin Stops /\ c.step = Len(PIPELINE_ORDER)
           /\ chains' = chains \ {c}
           /\ report([ui EXCEPT !.phase = "done"])
           /\ UNCHANGED <<posts, sent>>
        \/ /\ Last(c).state \notin Stops /\ c.step < Len(PIPELINE_ORDER)
           /\ posts' = posts \cup {[n |-> sent + 1, inst |-> c.inst,
                                    origin |-> "chain",
                                    job |-> PIPELINE_ORDER[c.step + 1]]}
           /\ sent' = sent + 1
           /\ chains' = (chains \ {c}) \cup
                          {[c EXCEPT !.step = @ + 1, !.at = sent + 1]}
           /\ report([ui EXCEPT !.phase = "running", !.step = c.step + 1,
                                !.current = sent + 1])
  /\ UNCHANGED <<Server, pages, faults, presses>>

\* The socket fails and the promise is rejected, or it is opened too late to
\* hear of the end, or the record it asks for was cleared away and it is
\* closed without a word: nothing of the chain is left but what is shown.
WaitFails(c) ==
  /\ c \in chains /\ c.at = 0
  /\ \/ Last(c).gone /\ UNCHANGED faults
     \/ faults < MaxFaults /\ faults' = faults + 1
  /\ chains' = chains \ {c}
  /\ UNCHANGED <<Server, pages, ui, posts, sent, presses>>

(***************************************************************************)
(* The worker: one run at a time, the oldest first.                        *)
(***************************************************************************)
Unread == {i \in DOMAIN runs : runs[i].state = "queued"}

StartRun ==
  /\ Unread # {} /\ \A i \in DOMAIN runs : ~ runs[i].taken
  /\ LET i == CHOOSE i \in Unread : \A k \in Unread : k <= i
     IN  runs' = [runs EXCEPT ![i].state = "running", ![i].taken = TRUE]
  /\ UNCHANGED <<made, pages, ui, posts, chains, sent, faults, presses>>

\* The result is written whatever the row says.
EndRun ==
  /\ \E i \in DOMAIN runs :
       /\ runs[i].taken
       /\ \E state \in {"succeeded", "partial", "failed"} :
            runs' = [runs EXCEPT ![i].state = state, ![i].taken = FALSE]
  /\ UNCHANGED <<made, pages, ui, posts, chains, sent, faults, presses>>

Next ==
  \/ Mount \/ Leave
  \/ \E p \in PageNrs : fetchRuns(p) \/ FetchFails(p)
  \/ PressRunAll \/ runAll
  \/ \E job \in JOB_CATALOG : PressRun(job) \/ SubmitForm(job)
  \/ SelectRun
  \/ \E d \in {-1, 1} : TurnPage(d)
  \/ PressStopAll \/ PressClearHistory \/ PressClearData
  \/ TimeOut \/ DoneFades
  \/ \E p \in posts : \/ TriggerAnswered(p) \/ TriggerFails(p)
                      \/ Cleared(p) \/ Cancelled(p) \/ PlainFails(p)
  \/ \E c \in chains : WaitEnds(c) \/ WaitFails(c)
  \/ StartRun \/ EndRun

Spec == Init /\ [][Next]_vars

\* What is owed by machines and not by a user: the server answers, the worker
\* works, and a socket that has something to say says it.
FairSpec ==
  /\ Spec
  /\ WF_vars(\E p \in posts : TriggerAnswered(p))
  /\ WF_vars(\E c \in chains : WaitEnds(c))
  /\ WF_vars(StartRun) /\ WF_vars(EndRun)

(***************************************************************************)
(* Properties.                                                             *)
(***************************************************************************)
Pages == [st : {"none", "ok", "error"}, rows : Seq(Row), more : BOOLEAN]
Screen == [mounted : BOOLEAN, inst : 0..MaxMounts, page : PageNrs,
           open : JOB_CATALOG \cup {"none"}, allForm : BOOLEAN,
           selected : Nat, current : Nat, resetting : Nat,
           histArmed : BOOLEAN, dataArmed : BOOLEAN,
           phase : {"idle", "running", "stopped", "done"}, step : Steps]
Request == [n : Nat, inst : 0..MaxMounts,
            origin : {"chain", "row", "form", "reset", "cancel", "clear"},
            job : JOB_CATALOG \cup {"reset", "none"}]
Chain == [inst : 0..MaxMounts, step : Steps, at : Nat, ran : Seq(Nat)]

\* What is selected and what a chain ran are runs there are, and a page is not
\* longer than it was asked for (db.go:78-103).
TypeOK ==
  /\ runs \in Seq(Run) /\ made = Len(runs)
  /\ pages \in [PageNrs -> Pages]
  /\ \A p \in PageNrs : Len(pages[p].rows) <= PageSize
  /\ ui \in Screen /\ ui.selected <= made
  /\ posts \subseteq Request /\ chains \subseteq Chain
  /\ \A c \in chains : \A i \in DOMAIN c.ran : c.ran[i] \in 1..made
  /\ sent \in Nat /\ faults \in 0..MaxFaults /\ presses \in 0..MaxPresses

\* A chain asks for a stage only when every stage before it ended with data
\* for it, whatever was cancelled, cleared or remounted meanwhile, and one mount
\* of the screen never drives two chains (useRunAllJobs.ts:21-25).
ChainInOrder ==
  \A c \in chains :
    /\ \A i \in 1..(c.step - 1) :
         LET r == RunOf(c.ran[i])
         IN  r.job = PIPELINE_ORDER[i] /\ r.state \in {"succeeded", "partial"}
    /\ \A d \in chains : c.inst = d.inst => c = d

\* The chain the screen shows as running gets somewhere, unless the user
\* leaves: it stops, completes, or was lost to a failed request or socket or
\* to a run that was cleared from under it.
RunAllReturns ==
  \A i \in 1..MaxMounts :
    (Here(i) /\ runAllActive) ~>
      (~ (Here(i) /\ runAllActive) \/ faults > 0
         \/ \E k \in DOMAIN runs : runs[k].gone)
=============================================================================
