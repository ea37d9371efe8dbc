# TLA+ models of OpenScale

OpenScale is a local data platform: a Go control-plane with a React frontend
submits pipeline jobs through Redis to a Python worker, which fills a lake
(MinIO, Postgres, Redis) and can replay trips through Kafka to a live screen.
These modules model the parts of it where several processes meet and the
screens whose state is more than a rendering; TLC checks them on small
instances, and TLAPS proves what matters most for instances of every size.
Paths below are relative to the repository's root.

## Inventory

| Component | Source | State | Operations | What is hard about it |
| --- | --- | --- | --- | --- |
| Job submission, cancel-all, clear history | `control-plane/internal/api/jobs_handler.go`, `db/db.go`, `jobs/jobs.go` | rows of `job_runs` | Run, CancelAll, ClearRuns | three writers of one row without a common lock; a call that fails after it took effect |
| Dispatch stream | `redis/redis.go`, `worker/redis_client.py` | stream, consumer group, pending entries | XADD, XGROUP CREATE, XREADGROUP, XACK | duplicates, entries nobody reads |
| Worker loop | `worker/main.py`, `worker/db.py` | message in hand, row | handle_message | exceptions, deaths, restarts by Docker and by cancel-all |
| Live relay of job events | `control-plane/internal/ws`, `redis/redis.go`, `waitForRunTerminal.ts`, `useJobRunEvents.ts` | Hub.conns, channels, sockets | Subscribe, Run, HandleJobWS, resolve | a send on a closed channel, an event between read and subscribe, slow and gone clients |
| Replay job and its controls | `worker/jobs/replay.py`, `JobsHandler.Control`, `SetJobControlField`, `ReplayControls.tsx` | control hash with expiry, send loop | pause, resume, cancel, speed, send | clicks that overtake each other, the worker's own initialisation, a key that expires |
| Live trip stream | `control-plane/internal/streaming`, `streaming_handler.go`, `httpStreamingGateway.ts`, `useLiveTripStream.ts` | window, subscribers, the browser's connection | read, broadcast, flush, reconnect | abandoned handlers, dropped frames, timers |
| Pipelines screen and Run-all chain | `frontend/src/domains/pipelines` | history pages, buttons, the chain's step | trigger, poll, wait, run all, stop, clear | a chain that outlives its mount, a step that never returns, polls that answer late |
| Appearance settings | `useAppearanceSync.ts`, `theme-store.ts`, `AppShellContainer.tsx`, `appearance_settings.go` | store, two flags, a debounce, one row, tokens on `<html>` | hydrate, change, save | a save swallowed or lost, tokens left behind |
| Dashboards | `frontend/src/domains/dashboards`, `useChartZoom.ts` | an overview that is refetched, a zoom, a drag | open, drag, zoom, hover | indices chosen on one series and used on the next |
| SQL editor | `frontend/src/domains/sql-editor`, `query_handler.go`, `db/query.go` | text, pending query, history | type, run, record | the answer meets another text, an empty result |
| Infrastructure screen | `frontend/src/domains/system-health`, `health.go`, `docker/watcher.go`, `container_actions_handler.go` | the containers, a query cache | poll, start, stop, restart | a poll that looked before an action and answers after it |
| Data Catalog | `frontend/src/domains/data-catalog`, `lake_handler.go` | panels, previews | expand, preview | two queries that may disagree |
| Search and navigation | `shared/layout/SearchBar.tsx`, `shared/search`, `app/router.tsx` | text, rows, highlight | type, move, select | rows that change under the highlight |
| Lake pipeline | `worker/jobs`, `worker/spark`, `worker/ingestion`, `worker/feature_store` | raw files, Bronze, Silver, Gold in Parquet and Postgres, features, online keys | ingest, silver, gold, features, train, reset | a stage that stops half way, two stores that disagree |
| Migrations | `db/migrate.go` | `schema_migrations` | Migrate | two starts at once |
| Home screen, topic listing, statistics, metrics, configuration | the rest of `control-plane/internal`, `domains/home` | none of their own | reads | – |
| `etl-exposure`, notebooks, observability, docs | | | | the prototype of the worker's code, prose |

The parts interact as follows. `JobsHandler.Run` inserts a row, appends to the
stream and answers; the worker takes the entry, moves the row to `running`,
publishes, executes the handler, writes the result over the row, publishes and
acknowledges. `CancelAll` rewrites every active row, publishes for each and
restarts the worker's container if one was running. Every event goes through
Redis pub/sub to the Hub and from there to the sockets that watch that run. The
`replay` handler is one of the worker's handlers: it polls a Redis hash that
the control-plane writes, and feeds the topic the control-plane's Consumer
tails; the other handlers are the batch stages, each of which reads what an
earlier one left in MinIO and Postgres. In the browser one screen is mounted at a time below a bar that stays;
screens share nothing but the query cache, `localStorage` and what a search
result carries: a text to the editor, a job or a run to the Pipelines screen.

## Modules

| Module | Models | Proofs in |
| --- | --- | --- |
| `JobRuns` | what the queue promises: the life of a run's row, and that its handler begins at most once | |
| `JobQueue` | the Run, CancelAll and ClearRuns handlers, the stream and group, and the worker's loop; one action per call to Postgres, Redis or Docker, each with its error. `PromiseKept` is the refinement of `JobRuns` and of `RunEvents` | `JobQueueProofs` |
| `RunEvents` | what a watcher of runs may rely on: a row is written first and announced after that, or never. `JobQueue` implements it, `EventRelay` has it for its environment | |
| `EventRelay` | pub/sub, `Hub.Run`, `HandleJobWS` of each socket, and the two browser ends. The runs are an environment, `RunEvents`, whose announcements become the events | `EventRelayProofs` |
| `ReplayControl` | one replay: the send loop of `replay.py`, the control hash, each click's request, kafka-python's buffer | `ReplayControlProofs` |
| `TripStream` | `readLoop`, `Consumer.Run`, the window, `StreamHub`, the WS handlers, and `connect()` of the browser | `TripStreamProofs` |
| `PipelinesScreen` | the job catalogue, the forms, the Run-all chain, the buttons pressed twice and the paged history, over a server with a worker | `PipelinesScreenProofs` |
| `ThemeStore`, `Appearance` | the store, each control's setters and what is written onto `<html>`; then the tabs, the row and the saves | `AppearanceProofs` |
| `Dashboards` | the overview under refetches, and a chart's drag, zoom and hover | `ConsoleProofs` |
| `SqlEditor` | the editor, its history, the row limit and the answer's fields | `ConsoleProofs` |
| `Infrastructure` | the containers, the health check that visits them one by one, the cache and the buttons | `ConsoleProofs` |
| `Catalog`, `Search` | the previews and the lake's layers; the search box and its rows | `ConsoleProofs` |
| `Console` | the five above composed: one tab, one screen at a time | `ConsoleProofs` |
| `Lake` | the batch stages: every write of ingest, silver, gold, features and reset to disk, MinIO, Postgres and Redis, and the row rules of Silver | `LakeProofs` |
| `MC...` | the instances TLC checks | |

State and actions follow the code by name where they can: `hpc`, `cpc` and
`wpc` are the next call of the Run handler, of CancelAll and of the worker;
`conns`, `chan`, `hubSubs` are the Hub's map, a subscriber's channel, and what
is left of the copy `Hub.Run` made under the mutex; `rpc` is the next call of
the replay job; `window`, `chan`, `socket`, `timer` are those of the stream;
`phase`, `skip`, `timer` of `Appearance` are the hydration, `skipNextSave` and
the debounce; `chart` has the zoom, the drag and the base offset of
`useChartZoom`; a `chain` of `PipelinesScreen` is one call of `runAll`, and the
mount it belongs to; `job`, `at` and `todo` of `Lake` are the handler that runs,
its next write and the units (months, tables, prefixes, keys) it has still to do,
`asked` and `outcome` are history that no action reads; so is `aim` of `Search`,
the row the user highlighted last; `given` of `Console` is the navigation state a
screen was mounted with. `map` in `PROJECT.json` gives the lines of every
definition. Definitions introduced by a comment that begins with "Mutant" are
not part of the model: each is a plausible mistake in the definition it
resembles, kept so that one can see which property notices it.

### What is abstracted

* A run is a name; job types are "known to the worker" or not; parameters, log
  text, exit codes and row counts are left out. Any status a handler can return
  may be returned.
* Time: timeouts, Docker restarts and the expiry of a key may happen at any
  moment they can happen at all. Sleeps, back-off and reconnect delays are left
  out, as nothing checked depends on their length.
* go-redis retries a command whose reply is lost: an enqueue may append twice.
  A cancel-all goes on when one of its announcements fails, and ends when its
  transaction, its inspection or its restart of the container does.
* A call to Postgres that errors has had no effect, except where the model says
  otherwise. Both rows and the stream survive restarts.
* In `TripStream` a window aggregate is the set of trips it sums up: count,
  revenue and averages are functions of that set. A frame that is written to an
  open connection and the `onmessage` it causes are one step. Errors of the
  reader count as faults.
* A hijacked request's context is not cancelled when the browser goes away and
  nobody reads from the socket, so in both WS handlers only a failing write ends
  the loop (or, in the relay, a terminal status). In the relay a handler also
  ends, as a fault, when the record cannot be read or a write fails or takes over 5 s
  although the browser is there (`HandlerErrs`); such a socket counts as one that
  missed an event.
* `consumer.go` asks for `StartOffset: LastOffset` without a group. kafka-go
  documents that setting for consumer groups only; the model lets a restarted
  reader begin at either end of the topic, so that nothing checked rests on it.
* A screen of `Console` begins with whatever an earlier visit can have left in
  the query cache or in `localStorage`. A request of the Infrastructure screen
  that outlives its visit is left out; `SqlEditor` drops what is answered after
  the screen was left, as the code does.
* A series is its length, a query a member of a small set, a row of the search
  box where it leads and what it carries; what the Pipelines screen does with what
  it is handed is in `PipelinesScreen`, as a choice of its own. The browser's Back
  and a reload hand a screen whatever its address can carry. The phone's drawer and the menus only
  decide which links can be reached, so any link may be followed at any time.
* In `Lake` the content of a dataset is the set of months it was computed from. A
  PUT of one object, one transaction and one SET are atomic; Spark's overwrite is
  a deletion and then a write; a prefix is deleted in batches of objects in the order
  of their keys, so a reset may break off with part of one gone. A call that raises and a kill by cancel-all leave
  the same behind and are one action, which may come between any two writes; a
  killed stage is not resumed (its entry stays pending, see `JobQueue`). A month's
  published file does not change, whether it has the expected columns is a
  constant. Stages run one at a time, as the worker does; what is submitted may be
  any stage in any order. The model train writes goes to MLflow and is left out.
* `validateReadOnlySQL` is left out: a statement it refuses and one the
  database's read-only transaction refuses are both an error to the screen.

## Runs

| Run | Instance | Shows |
| --- | --- | --- |
| `queue` | a run of a known and one of an unknown type, 2 cancel-alls, fresh deployment, 1 fault | `AtMostOnce`, events follow rows, each fault or restart strands at most one run and leaves at most one entry pending, refinement of `JobRuns` and `RunEvents`, every active run ends or is stranded |
| `relay_safe` | 1 run, a waiter and a panel, any cancel-alls and clears, 1 fault, channels of 2 | the registry is exact, resolutions and last frames agree with the record |
| `relay_live` | 1 run, a panel with a channel of 1, 2 log lines, 2 faults | a watcher that missed no event returns once its run has ended |
| `replay_control` | days of 0, 1 and 3 trips, limit 2, 3 clicks, 1 fault | commands are neither clobbered nor ignored for more than one row, the status is earned, the replay ends |
| `stream` | 2 trips, 2 connections, channels of 1, 2 trips shown, 1 fault | windows agree with trips, order, one connection; handlers return, the topic is read, the feed comes back |
| `pipelines` | 2 stages, a page of 1 run, 2 runs, 2 mounts, 4 clicks, 1 fault | the chain keeps its order whatever is cancelled, cleared or remounted; one chain per mount; what is shown as running ends |
| `appearance` | 2 tabs, 3 loads, 3 changes, 2 failing requests | `<html>` is never left with tokens of an earlier setting, at most the first change is not sent, opening a tab writes nothing |
| `console` | series of 0, 2 and 7 points, 1 term, 2 texts, a history of 1, 1 service, 1 action, 1 table, 1 layer | a zoom fits the points, gives what was selected, the outcome shown is the newest entry's, a card is not left behind its action, Enter opens the row that was highlighted |
| `lake` | 3 months, the last malformed, 2 Gold tables, 2 keys, 2 faults, any number of stages in any order | every row of a month in one file, layers nest, tables and copies are one snapshot, online keys agree with the table, success means up to date, ingest's status is true |
| `relay_panic`, `relay_waiter`, `editor_empty` | smallest that show it | a sentence of the repository the code does not meet, see below |

Why the bounds are enough: a run interacts with another only through the
worker's single hand and through the canceller's set, so two runs contain a run
in hand and a run behind it; two cancel-alls overlap. Two sockets are a slow one
and another; a channel of one or two events is full after one or two. Three
clicks are a pause, a resume that overtakes it and a third command; three trips
with a limit of two are cut off, and leave a row between the first poll and the
last. Two connections are the abandoned one and its replacement. Two mounts are
the one a chain was started in and the one that sees its runs; four clicks start
a chain, stop it and interfere once more. Two tabs are one that saves and one
that overtakes it; a third change tells the first from a later one. Seven points
are the least with more points than axis labels, so that rounding matters, and a
zoom into a zoom fits them; one action and one poll already overlap.

Three months are two that make a stage write twice and one that is refused; with
two tables one is written while the other is old; of two keys one can be gone from
the Silver of now. Two faults cut one stage short and also the one that would
repair it.

Log lines matter to a channel's capacity and to nothing `relay_safe` checks (they
are not shown), so only `relay_live` has them.

Two more refinements are proved only: `ConsoleHasDashboards`, the console's
behaviours are behaviours of `Dashboards`, and `RelayHasFeed`, the relay's are
behaviours of `RunEvents`. `queue` checks both parts of `PromiseKept`.

Deadlock is not checked where the bounded clients are done in the end and the
processes then wait for input; `console` and `lake` have no such end and are
checked.
`appearance` uses the symmetry of the tabs (no liveness is checked there).

### Fairness

Weak fairness of each process: goroutines, the worker (which Docker restarts,
`restart: unless-stopped`), browser callbacks and Redis' expiry are not kept from
running for ever. Faults, clicks, cancels, clears and departures never have to
happen. `TripStream` uses strong fairness twice: a broker that is asked again and
again answers once in a while, and a connection whose other end is gone does not
accept every write for ever. Cases of Go's `select` get weak fairness each: a
case that is ready stays ready until it is taken, and the choice is random.
In `EventRelay` a job's handler returns and what is written is published, unless
the process ends first; the sockets that wait for what such a process owed count
as having missed an event, and `WatcherReturns` does not speak of them.
`PipelinesScreen` asks for the answers of triggers, the waits' sockets and the
worker. The other screens and the lake have no liveness: nothing in them must happen.

### Disagreements found

* `relay_panic`: `ws/hub.go:12-13` says the Hub is safe for concurrent use;
  `Run` sends outside the lock on a channel unsubscribe may have closed.
* `relay_waiter`: `waitForRunTerminal.ts:7-8` says it resolves once the run ends.
  `WaiterResolves` asks for that only while the row is there, says how the run ended
  and was announced so, and of a socket that no fault and no full channel has cost an
  event. In the trace the backfill reads the row as unfinished, the run ends and is
  published while no socket is registered for it, and the handler subscribes: it
  waits for an event that has been.
* `editor_empty`: `ResultsTable.tsx:51` says "Query succeeded with no rows
  returned."; the answer omits an empty list of rows, and the table reads its
  length and throws. The Data Catalog's preview does the same.

The models also show, without a run of their own: an enqueue that fails because
the context ended records its failure with that same context, so the row stays
queued (`jobs_handler.go:38-40` says it is marked failed right away);
`mark_terminal` writes over a `cancelled` row (`jobs.go:26-28` says such a run was
stopped before a natural end); the group begins at `$`, so what was enqueued
before the worker's first start is never delivered (`redis_client.py:2-3`);
`isTerminal` of `ws/handler.go` does not list `cancelled`, so such a socket stays
open (the control-plane's README says sockets close after a terminal status);
clear history can delete the row of a cancelled run that still executes; a
pending entry is never read again; a paused replay resumes by itself when its key
expires after an hour; a pause on a key whose EXPIRE failed holds the worker
until somebody resumes it (the exception in `EveryReplayEnds`); a replay counts
trips it gave to the producer, also those that were given up in
`producer.flush()`; a Run-all chain whose trigger or wait fails stays at its step
until the screen is left (the exceptions in `RunAllReturns`); the comparison at
`useAppearanceSync.ts:59` asks for a chart style the stored row does not have,
always finds a difference and arms the flag that skips the next save, so the first
change on a page is not sent (lines 17-20 say that every later change is; the
exception in `OnlyFirstChangeSwallowed`); a reset that broke off before it reached
the online keys, followed by a complete rebuild over other months, leaves keys of
zones that Silver no longer has (`compute_features.py:4-5` calls Redis the latest
snapshot; the exception in `OnlineIsOffline`); a table's row that is opened while
the editor is on the screen changes nothing there, as the text is read when the
editor is mounted (`SearchBar.tsx:15-18` says the screen lands on what matched;
`HighlightedIsOpened` speaks of rows opened from another screen); an answer to the
list of the highlighted row, or to one above it, moves another row under the
highlight, or none, and Enter then opens that one or does nothing.

## Theorems

All hold for every value of the constants under the named assumption of each
module (`JobQueueAssumption`, `EventRelayAssumption` and so on: capacities are
positive, bounds are natural numbers, special values are not members of the
sets). TLC evaluates these assumptions on every run. Each `...Proofs` module
proves an inductive invariant and draws the properties from it.

* `JobQueueProofs`. `TypeCorrect`: `TypeOK` is inductive by itself. `LifeCorrect`:
  `LifeInv`, inductive relative to `TypeOK`. `AtMostOnce` alone is not: a second
  start is impossible because a row whose handler has begun is never `queued`
  again, and that needs the counters tied to the row, and the worker's position
  tied to both. `ExecutedAtMostOnce`, `SettledRunsStay` follow. `EventsFollowRows`
  adds what a publisher has seen of the row before it publishes (`EventInv`).
  `FaultsReachOneRun` counts: `Charged` holds of the stranded runs and of those
  that will be stranded without another fault, a set that no step without a fault
  enlarges and no fault enlarges by more than one; the proof needs no bound on
  runs, cancellers or faults. `QueueKeepsPromise` is both refinements: initial states
  map to initial states of `JobRuns` and of `RunEvents`, and every step to one of
  their steps or to a stutter. In `RunEvents` the worker's place in
  `handle_message` and the sets the cancel-alls have still to announce are one
  `stage` per run and one set `revoked`. That needs `CancelInv`: what a cancel-all
  has to announce is over and is announced by no other, as its transaction took
  the row out of the active ones.
* `EventRelayProofs`. The relay's runs do steps of `RunEvents` and no others
  (`RelayHasFeed`), and while faults are left it takes every step of `RunEvents`
  (`RelayTakesAnyFeed`); `JobQueue` implements `RunEvents` (`QueueKeepsPromise`). So
  the relay is proved against no less than the queue can do. Of the runs the proofs
  use only two facts: a row that is over stays over, and what is due to be
  announced as over is (`FeedKeepsInv`). Then `RelayInv`: whatever is on its way is
  *settled*: a terminal event is of a run whose row is over. The set of settled
  events only grows, so channels that hold members of it need no second look when
  a row changes. `RegistryIsExact`, `ResolvesTruthfully`, `ResultStays` and
  `RelayTyped` follow.
* `TripStreamProofs`. `WindowMatchesTrips` speaks of one frame in a handler's
  hand; what is inductive is a statement about the whole channel. `Summed`:
  between two neighbouring windows of a channel lie exactly the trips the second
  sums up, from what was received before its front to what the accumulator holds
  behind its end. `Rising`: its trips rise, from the newest that left it to the
  last handed over. Lemmas on sequences show that both survive an append of a
  trip or of a window and the removal of a first frame; then one step per action.
  `WindowSumsUp`, `FeedKeepsOrder`, `OneConnectionHeld` and `StreamTyped` follow.
* `AppearanceProofs`. `Flags` ties the skip flag, the timer and the count of
  changes together: the flag is up only on a page without a change, the timer
  runs only on one with a change. `AppearanceTyped`, `HtmlInStep`,
  `SwallowsFirstAtMost`, `OpeningIsReadOnly` follow.
* `ReplayControlProofs`. `CommandsKept` is inductive by itself; the other two are
  not. `CountsStand`: a trip counted against a pause or a cancellation is counted
  while that command stands, so the poll before the next trip finds it, and a job
  about to send has nothing counted but what came since. `Progress` and
  `CancelTraced` say that a trip is left between the poll and the send and that a
  cancellation goes back to a click. `ReplayTyped`, `CommandsStayKept`,
  `CommandsObeyed` and `ResultsEarned` follow.
* `PipelinesScreenProofs`. `ChainInOrder` is not inductive. It rests on what the
  server does with a run: runs are numbered in the order of their triggers, and a
  run that has produced something is out of the worker's hands (a worker would
  write its row again). And it rests on what a chain knows: the request it awaits
  is of the stage it is at, the run it waits for is one it triggered, and there
  are chains only of mounts there were. `PipelinesInvariant` is that conjunction
  with the types; `PipelinesTyped` and `ChainKeepsOrder` follow. `HistoryPages`
  says more than its run can (any number of runs, any size of a page): the list
  the server pages through names every run it keeps once, newest first, so a page
  starts where the one before it ended and `more` is true exactly when the next
  page has a row. It rests on lemmas that count the runs newer than a given one.
* `ConsoleProofs`. First each screen by itself. Dashboards: the ends of the stack
  of zooms and the indices of a drag are kept in order (`DashInvariant`);
  `LineKeepsItsWindow` and `ZoomShowsSelection` are arithmetic on top of it.
  Infrastructure: no look that may still reach a row is older than what the row
  has seen (`InfraInvariant`), hence `RowStaysFresh`. The editor: a query under
  way shows nothing and keeps the text it was sent with; `ShownWasRecorded` is
  inductive with that. Then the composition: every step of the console is a step
  of each screen or leaves it alone (`ConsoleHasDashboards` states it for the
  dashboards), so the screens' theorems hold of it: `ConsoleKeepsWindow`,
  `ConsoleShowsSelection`, `ConsoleRowsFresh`, `ConsoleShownWasRecorded`.
  `HighlightOpens` is about two of its parts, the box and the screen it opens. It
  needs `AimInv`: the row the user highlighted last is the one at the highlighted
  place of the four lists, as long as none of its own and the earlier ones was
  answered anew; an answer further down only changes what comes after it.
  `ConsoleTyped` is the type invariant of the whole tab, with the one conjunct
  that relates its parts: a screen is open exactly while the path is its own.
  Every way to navigate (the links, the search box, leaving) closes one screen
  and opens another in the same step, which is shown for each of them.
* `LakeProofs`. `Underway` says what each stage has done up to now, part by part:
  the months silver is through with have all their files, the tables gold is
  through with show Silver, the prefixes reset is through with are empty.
  `Stored` says what holds of the stores whichever stage runs. A stage that is cut
  short gives up the first and keeps the second (`EndKeeps`), so the two together
  are inductive for any number of faults. Type correctness and the four properties of the
  run follow;
  `RowHasOneFile` is about the row rules alone, for every row.

Only model-checked: the liveness properties, as TLAPS has no support for `ENABLED`,
which weak and strong fairness are defined by. Every invariant and every action
property that a passing run checks is also proved.

## Not modelled

* Of the train stage the model and MLflow's store; of the others the aggregates
  themselves, names of objects and the quality numbers of a report.
* Database migrations: one transaction per file at start-up, in sequence, by the
  one control-plane the compose file starts.
* Topic listing, metrics, configuration, routing, start-up, container statistics:
  reads that keep nothing between two calls.
* The Home screen: meters over polled samples, drawing only. Of the charts, the
  hit-testing and the drawing are left out, the indices they work on are modelled.
* The Streaming screen's own choice between the start form and the controls; its
  controls' requests are in `ReplayControl`, its feed in `TripStream`.
* `etl-exposure`, notebooks, dashboards of the observability stack, scripts.

## Plan

1. An abstract specification of a control (a command is obeyed from the next row
   on), implemented by `ReplayControl`.
2. The Streaming screen as a part of `Console`.
