----------------------------- MODULE Appearance -----------------------------
(***************************************************************************)
(* The synchronisation of the appearance settings between the tabs of the  *)
(* console and the one row the control-plane keeps                         *)
(* (connections/application/useAppearanceSync.ts,                          *)
(* internal/db/appearance_settings.go).                                    *)
(*                                                                         *)
(* A page that is loaded asks for the row, with one retry; when the answer *)
(* is there it replaces the store's settings by it, and from then on every *)
(* change arms a 500 ms timer that sends the whole store. The row has no   *)
(* column for the chart style. Saves are requests of their own: the server *)
(* may serve them in any order, and one that fails is not repeated.        *)
(***************************************************************************)
EXTENDS ThemeStore

CONSTANTS
  Tabs,           \* the browser tabs
  MaxEdits,       \* how many changes the users make (bounds the model)
  MaxLoads,       \* how often a page is loaded (bounds the model)
  MaxFaults       \* how many requests fail (bounds the model)

ASSUME AppearanceAssumption ==
  /\ MaxEdits \in Nat /\ MaxLoads \in Nat /\ MaxFaults \in Nat

VARIABLES
  row,            \* the stored row: the settings but for the chart style
  phase,          \* per tab: where its page is in asking for the row
  answer,         \* per tab: the answer that is on its way, else the defaults
  store,          \* per tab: the theme store
  html,           \* per tab: what is written on <html>
  skip,           \* per tab: skipNextSaveRef
  timer,          \* per tab: is a save waiting for its 500 ms
  puts,           \* the saves that are on their way
  told,           \* per tab: the settings last agreed with the server, by
                  \*   hydration or by a save that was sent (history)
  late,           \* per tab: changes made since the page was hydrated (history)
  edits, loads, faults

tabVars == <<phase, answer, store, html, skip, timer>>
vars == <<row, tabVars, puts, told, late, edits, loads, faults>>

\* The columns of the row, as the GET delivers them and the PUT stores them.
RowOf(s) == [theme |-> s.theme, mode |-> s.mode, accent |-> s.accent,
             depth |-> s.depth, font |-> s.font]

\* The store after hydrate(stored): a field the row lacks keeps its value.
Hydrated(s, r) == [s EXCEPT !.theme = r.theme, !.mode = r.mode,
                            !.accent = r.accent, !.depth = r.depth,
                            !.font = r.font]

Phases == {"closed", "asking", "retrying", "answered", "ready"}
Loaded(t) == phase[t] # "closed"

Saves == [tab : Tabs, nr : 1..MaxEdits, settings : Settings]

Init ==
  /\ row = RowOf(Defaults)
  /\ phase = [t \in Tabs |-> "closed"]
  /\ answer = [t \in Tabs |-> RowOf(Defaults)]
  /\ store = [t \in Tabs |-> Defaults]
  /\ html = [t \in Tabs |-> FirstEffects(Defaults)]
  /\ skip = [t \in Tabs |-> FALSE]
  /\ timer = [t \in Tabs |-> FALSE]
  /\ puts = {}
  /\ told = [t \in Tabs |-> Defaults]
  /\ late = [t \in Tabs |-> 0]
  /\ edits = 0 /\ loads = 0 /\ faults = 0

(***************************************************************************)
(* Loading a page.                                                         *)
(***************************************************************************)

\* A tab opens the console, or reloads it: sessionStorage gives a reloaded
\* page the settings it had, and a new tab has the defaults. The refs and the
\* timer belong to the page; a request that has left does not come back.
LoadPage(t) ==
  /\ loads < MaxLoads /\ loads' = loads + 1
  /\ html' = [html EXCEPT ![t] = FirstEffects(store[t])]
  /\ told' = [told EXCEPT ![t] = store[t]]
  /\ phase' = [phase EXCEPT ![t] = "asking"]
  /\ answer' = [answer EXCEPT ![t] = RowOf(Defaults)]
  /\ skip' = [skip EXCEPT ![t] = FALSE]
  /\ timer' = [timer EXCEPT ![t] = FALSE]
  /\ late' = [late EXCEPT ![t] = 0]
  /\ UNCHANGED <<row, store, puts, edits, faults>>

\* The tab is gone with its sessionStorage, its timer unfired.
CloseTab(t) ==
  /\ Loaded(t)
  /\ phase' = [phase EXCEPT ![t] = "closed"]
  /\ store' = [store EXCEPT ![t] = Defaults]
  /\ html' = [html EXCEPT ![t] = FirstEffects(Defaults)]
  /\ skip' = [skip EXCEPT ![t] = FALSE]
  /\ timer' = [timer EXCEPT ![t] = FALSE]
  /\ told' = [told EXCEPT ![t] = Defaults]
  /\ late' = [late EXCEPT ![t] = 0]
  /\ answer' = [answer EXCEPT ![t] = RowOf(Defaults)]
  /\ UNCHANGED <<row, puts, edits, loads, faults>>

\* The server reads the row; the page gets the answer in a later step.
GetAppearanceSettings(t) ==
  /\ phase[t] \in {"asking", "retrying"}
  /\ answer' = [answer EXCEPT ![t] = row]
  /\ phase' = [phase EXCEPT ![t] = "answered"]
  /\ UNCHANGED <<row, store, html, skip, timer, puts, told, late, edits,
                 loads, faults>>

\* The query is repeated once. After the second failure the query counts as
\* fetched, with no data: the page is ready with what it has.
FetchFails(t) ==
  /\ phase[t] \in {"asking", "retrying"}
  /\ faults < MaxFaults /\ faults' = faults + 1
  /\ \/ /\ phase[t] = "asking"
        /\ phase' = [phase EXCEPT ![t] = "retrying"]
        /\ UNCHANGED told
     \/ /\ phase[t] = "retrying"
        /\ phase' = [phase EXCEPT ![t] = "ready"]
        /\ told' = [told EXCEPT ![t] = store[t]]
  /\ UNCHANGED <<row, answer, store, html, skip, timer, puts, late, edits,
                 loads>>

\* The comparison that decides whether hydrating will change something. The
\* answer has no chartStyle, so that field is compared with undefined.
WillChange(s, r) == RowOf(s) # r \/ s.chart # "undefined"

\* Mutant: without the flag, the save effect takes the hydration for a change.
HydrateUnflagged(t) ==
  LET s == Hydrated(store[t], answer[t])
  IN  /\ phase[t] = "answered"
      /\ phase' = [phase EXCEPT ![t] = "ready"]
      /\ store' = [store EXCEPT ![t] = s]
      /\ html' = [html EXCEPT ![t] = Effects(html[t], s)]
      /\ skip' = [skip EXCEPT ![t] = FALSE]
      /\ timer' = [timer EXCEPT ![t] = s # store[t]]
      /\ told' = [told EXCEPT ![t] = s]
      /\ answer' = [answer EXCEPT ![t] = RowOf(Defaults)]
      /\ UNCHANGED <<row, puts, late, edits, loads, faults>>

\* The hydration effect: the flag is set if the comparison says so, and the
\* save effect consumes it in the same pass if a setting it watches really
\* changed.
Hydrate(t) ==
  LET s == Hydrated(store[t], answer[t])
  IN  /\ phase[t] = "answered"
      /\ phase' = [phase EXCEPT ![t] = "ready"]
      /\ store' = [store EXCEPT ![t] = s]
      /\ html' = [html EXCEPT ![t] = Effects(html[t], s)]
      /\ skip' = [skip EXCEPT ![t] = WillChange(store[t], answer[t]) /\ s = store[t]]
      /\ told' = [told EXCEPT ![t] = s]
      /\ answer' = [answer EXCEPT ![t] = RowOf(Defaults)]
      /\ UNCHANGED <<row, timer, puts, late, edits, loads, faults>>

(***************************************************************************)
(* Changing a setting and saving it.                                       *)
(***************************************************************************)

\* Mutant: the flag is not cleared when it is consumed.
ChangeSettingKeepsFlag(t) ==
  /\ Loaded(t) /\ edits < MaxEdits /\ edits' = edits + 1
  /\ \E s \in Choices(store[t]) :
       /\ store' = [store EXCEPT ![t] = s]
       /\ html' = [html EXCEPT ![t] = Effects(html[t], s)]
  /\ \/ /\ phase[t] # "ready"
        /\ UNCHANGED <<timer, late>>
     \/ /\ phase[t] = "ready"
        /\ timer' = [timer EXCEPT ![t] = ~ skip[t]]
        /\ late' = [late EXCEPT ![t] = @ + 1]
  /\ UNCHANGED <<row, phase, answer, skip, puts, told, loads, faults>>

\* A control of the Connections screen. The save effect runs after the
\* render: before hydration it does nothing; with the flag set it only clears
\* the flag; otherwise the running timer is replaced by a new one.
ChangeSetting(t) ==
  /\ Loaded(t) /\ edits < MaxEdits /\ edits' = edits + 1
  /\ \E s \in Choices(store[t]) :
       /\ store' = [store EXCEPT ![t] = s]
       /\ html' = [html EXCEPT ![t] = Effects(html[t], s)]
  /\ \/ /\ phase[t] # "ready"
        /\ UNCHANGED <<skip, timer, late>>
     \/ /\ phase[t] = "ready"
        /\ skip' = [skip EXCEPT ![t] = FALSE]
        /\ timer' = [timer EXCEPT ![t] = ~ skip[t]]
        /\ late' = [late EXCEPT ![t] = @ + 1]
  /\ UNCHANGED <<row, phase, answer, puts, told, loads, faults>>

\* The 500 ms are over: the whole store is sent.
Save(t) ==
  /\ timer[t]
  /\ timer' = [timer EXCEPT ![t] = FALSE]
  /\ puts' = puts \cup {[tab |-> t, nr |-> edits, settings |-> store[t]]}
  /\ told' = [told EXCEPT ![t] = store[t]]
  /\ UNCHANGED <<row, phase, answer, store, html, skip, late, edits, loads,
                 faults>>

\* The server replaces the whole row by what one save carries.
UpsertAppearanceSettings(p) ==
  /\ p \in puts
  /\ row' = RowOf(p.settings)
  /\ puts' = puts \ {p}
  /\ UNCHANGED <<tabVars, told, late, edits, loads, faults>>

\* A save fails: nothing is reported and nothing repeated.
SaveFails(p) ==
  /\ p \in puts
  /\ faults < MaxFaults /\ faults' = faults + 1
  /\ puts' = puts \ {p}
  /\ UNCHANGED <<row, tabVars, told, late, edits, loads>>

Next ==
  \/ \E t \in Tabs : \/ LoadPage(t) \/ CloseTab(t)
                     \/ GetAppearanceSettings(t) \/ FetchFails(t)
                     \/ Hydrate(t) \/ ChangeSetting(t) \/ Save(t)
  \/ \E p \in puts : UpsertAppearanceSettings(p) \/ SaveFails(p)

Spec == Init /\ [][Next]_vars

(***************************************************************************)
(* Properties.                                                             *)
(***************************************************************************)
Rows == [theme : {"light", "dark"}, mode : VisualModes, accent : AccentIds,
         depth : SliderRange, font : StepperRange]

\* Every variable has its type; the stores and the row stay within what the
\* controls can produce, whatever is hydrated from whichever tab.
TypeOK ==
  /\ row \in Rows
  /\ phase \in [Tabs -> Phases]
  /\ answer \in [Tabs -> Rows]
  /\ store \in [Tabs -> Settings]
  /\ skip \in [Tabs -> BOOLEAN] /\ timer \in [Tabs -> BOOLEAN]
  /\ puts \subseteq Saves
  /\ told \in [Tabs -> Settings]
  /\ late \in [Tabs -> 0..MaxEdits]
  /\ edits \in 0..MaxEdits /\ loads \in 0..MaxLoads /\ faults \in 0..MaxFaults

\* Whatever accents, modes and scales a page went through, <html> carries what
\* a page loaded with its present settings would carry: no token of an earlier
\* accent is left behind (AppShellContainer.tsx:50-56).
HtmlShowsStore ==
  \A t \in Tabs : Loaded(t) => html[t] = FirstEffects(store[t])

\* Of all the changes made on a hydrated page at most one is not sent: the
\* first. Once a second one is made, what the page shows is sent or about to be
\* (useAppearanceSync.ts:73-85).
OnlyFirstChangeSwallowed ==
  \A t \in Tabs :
    phase[t] = "ready" /\ ~ timer[t] => store[t] = told[t] \/ late[t] = 1

\* A page that has changed nothing since it was hydrated never writes the row:
\* opening a tab does not overwrite what another one saved
\* (useAppearanceSync.ts:75-78).
OpeningWritesNothing ==
  [][\A p \in puts' \ puts : late[p.tab] > 0]_vars

=============================================================================
