-------------------------- MODULE AppearanceProofs --------------------------
(***************************************************************************)
(* For any tabs, any number of changes, loads and failures: <html> shows   *)
(* the store, at most the first change of a page is swallowed, and opening *)
(* a page writes nothing. The last two follow from what the flag and the   *)
(* timer of a tab say of each other, Flags: the flag is up only on a page  *)
(* without a change, and the timer runs only on one with a change.         *)
(***************************************************************************)
EXTENDS Appearance, TLAPS

Flags(t) ==
  /\ phase[t] # "ready" => ~ skip[t] /\ ~ timer[t] /\ late[t] = 0
  /\ skip[t] => ~ timer[t] /\ late[t] = 0 /\ store[t] = told[t]
  /\ timer[t] => late[t] > 0
  /\ phase[t] = "ready" /\ ~ timer[t] => store[t] = told[t] \/ late[t] = 1
  /\ late[t] <= edits

AppearanceInv ==
  /\ TypeOK
  /\ html = [t \in Tabs |-> FirstEffects(store[t])]
  /\ \A t \in Tabs : Flags(t)

-----------------------------------------------------------------------------
(***************************************************************************)
(* The store and the row.                                                  *)
(***************************************************************************)
LEMMA Bounds ==
  /\ MaxEdits \in Nat /\ MaxLoads \in Nat /\ MaxFaults \in Nat
  /\ Modes \subseteq VisualModes /\ Accents \subseteq AccentIds
  /\ Styles \subseteq ChartStyles /\ Depths \subseteq SliderRange
BY ThemeStoreAssumption, AppearanceAssumption
DEF ThemeStoreAssumption, AppearanceAssumption

LEMMA DefaultsAreSettings == Defaults \in Settings
BY DEF Defaults, Settings, VisualModes, AccentIds, ChartStyles, SliderRange,
       StepperRange

LEMMA RowIsRow == ASSUME NEW s \in Settings PROVE RowOf(s) \in Rows
BY DEF RowOf, Rows, Settings

LEMMA HydratedIsSettings ==
  ASSUME NEW s \in Settings, NEW r \in Rows PROVE Hydrated(s, r) \in Settings
BY DEF Hydrated, Rows, Settings

\* The stepper stays within its range.
LEMMA FontStepsInRange ==
  ASSUME NEW font \in StepperRange PROVE FontSteps(font) \subseteq StepperRange
BY DEF FontSteps, StepperRange

\* No control leaves the settings.
LEMMA ChoicesAreSettings ==
  ASSUME NEW s \in Settings PROVE Choices(s) \subseteq Settings
<1>1. ChooseTheme(s) \subseteq Settings
  BY DEF ChooseTheme, Settings
<1>2. ChooseMode(s) \subseteq Settings
  BY Bounds DEF ChooseMode, Settings
<1>3. ChooseAccent(s) \subseteq Settings
  BY Bounds DEF ChooseAccent, Settings
<1>4. ChooseStyle(s) \subseteq Settings
  BY Bounds DEF ChooseStyle, Settings
<1>5. MoveDepth(s) \subseteq Settings
  BY Bounds DEF MoveDepth, Settings
<1>6. StepFont(s) \subseteq Settings
  <2>1. FontSteps(s.font) \subseteq StepperRange
    BY FontStepsInRange DEF Settings
  <2> QED
    BY <2>1 DEF StepFont, Settings
<1> QED
  BY <1>1, <1>2, <1>3, <1>4, <1>5, <1>6 DEF Choices

-----------------------------------------------------------------------------
(***************************************************************************)
(* <html>. The list of keys to clear has every key a preset may set, so    *)
(* nothing of an earlier accent decides what is there afterwards.          *)
(***************************************************************************)
LEMMA AccentForgets ==
  ASSUME NEW tokens, NEW id
  PROVE  WithAccent(tokens, id) = WithAccent(NoTokens, id)
<1>1. HueKeys \subseteq PreviousKeys
  BY DEF HueKeys, PreviousKeys
<1> QED
  BY <1>1 DEF WithAccent

LEMMA EffectsShow ==
  ASSUME NEW old \in Settings, NEW s \in Settings
  PROVE  Effects(FirstEffects(old), s) = FirstEffects(s)
<1>1. CASE old.accent = s.accent
  BY <1>1 DEF Effects, FirstEffects
<1>2. CASE old.accent # s.accent
  BY <1>2, AccentForgets DEF Effects, FirstEffects
<1> QED
  BY <1>1, <1>2

\* A store that changes with its effects keeps <html> in step.
LEMMA HtmlFollows ==
  ASSUME store \in [Tabs -> Settings], NEW t \in Tabs, NEW s \in Settings,
         html = [u \in Tabs |-> FirstEffects(store[u])],
         store' = [store EXCEPT ![t] = s],
         html' = [html EXCEPT ![t] = FirstEffects(s)]
  PROVE  html' = [u \in Tabs |-> FirstEffects(store'[u])]
OBVIOUS

-----------------------------------------------------------------------------
LEMMA AppearanceInitInv == Init => AppearanceInv
<1> SUFFICES ASSUME Init PROVE AppearanceInv
  OBVIOUS
<1>1. TypeOK
  BY Bounds, DefaultsAreSettings, RowIsRow DEF Init, TypeOK, Phases
<1>2. html = [t \in Tabs |-> FirstEffects(store[t])]
  BY DEF Init
<1>3. \A t \in Tabs : Flags(t)
  BY DEF Init, Flags
<1> QED
  BY <1>1, <1>2, <1>3 DEF AppearanceInv

(***************************************************************************)
(* A page is loaded, closed, or asks for the row.                          *)
(***************************************************************************)
LEMMA LoadKeepsInv ==
  ASSUME AppearanceInv, NEW t \in Tabs, LoadPage(t) PROVE AppearanceInv'
<1>1. TypeOK
  BY DEF AppearanceInv
<1>2. TypeOK'
  BY <1>1, Bounds, DefaultsAreSettings, RowIsRow DEF LoadPage, TypeOK, Phases
<1>3. html' = [u \in Tabs |-> FirstEffects(store'[u])]
  BY DEF AppearanceInv, LoadPage
<1>4. ASSUME NEW u \in Tabs PROVE Flags(u)'
  BY <1>1 DEF AppearanceInv, LoadPage, TypeOK, Flags
<1> QED
  BY <1>2, <1>3, <1>4 DEF AppearanceInv

LEMMA CloseKeepsInv ==
  ASSUME AppearanceInv, NEW t \in Tabs, CloseTab(t) PROVE AppearanceInv'
<1>1. TypeOK
  BY DEF AppearanceInv
<1>2. TypeOK'
  BY <1>1, Bounds, DefaultsAreSettings, RowIsRow DEF CloseTab, TypeOK, Phases
<1>3. html' = [u \in Tabs |-> FirstEffects(store'[u])]
  BY <1>1, DefaultsAreSettings, HtmlFollows DEF AppearanceInv, CloseTab, TypeOK
<1>4. ASSUME NEW u \in Tabs PROVE Flags(u)'
  BY <1>1 DEF AppearanceInv, CloseTab, TypeOK, Flags
<1> QED
  BY <1>2, <1>3, <1>4 DEF AppearanceInv

LEMMA GetKeepsInv ==
  ASSUME AppearanceInv, NEW t \in Tabs, GetAppearanceSettings(t)
  PROVE  AppearanceInv'
<1>1. TypeOK
  BY DEF AppearanceInv
<1>2. TypeOK'
  BY <1>1 DEF GetAppearanceSettings, TypeOK, Phases
<1>3. html' = [u \in Tabs |-> FirstEffects(store'[u])]
  BY DEF AppearanceInv, GetAppearanceSettings
<1>4. ASSUME NEW u \in Tabs PROVE Flags(u)'
  BY <1>1 DEF AppearanceInv, GetAppearanceSettings, TypeOK, Flags
<1> QED
  BY <1>2, <1>3, <1>4 DEF AppearanceInv

LEMMA FetchFailsKeepsInv ==
  ASSUME AppearanceInv, NEW t \in Tabs, FetchFails(t) PROVE AppearanceInv'
<1>1. TypeOK
  BY DEF AppearanceInv
<1>2. TypeOK'
  BY <1>1, Bounds DEF FetchFails, TypeOK, Phases
<1>3. html' = [u \in Tabs |-> FirstEffects(store'[u])]
  BY DEF AppearanceInv, FetchFails
<1>4. ASSUME NEW u \in Tabs PROVE Flags(u)'
  BY <1>1 DEF AppearanceInv, FetchFails, TypeOK, Flags
<1> QED
  BY <1>2, <1>3, <1>4 DEF AppearanceInv

\* A page that is hydrated agrees with the server, whatever the flag becomes.
LEMMA HydrateKeepsInv ==
  ASSUME AppearanceInv, NEW t \in Tabs, Hydrate(t) PROVE AppearanceInv'
<1> DEFINE s == Hydrated(store[t], answer[t])
<1>1. TypeOK
  BY DEF AppearanceInv
<1>2. s \in Settings
  BY <1>1, HydratedIsSettings DEF TypeOK
<1>3. TypeOK'
  BY <1>1, <1>2, DefaultsAreSettings, RowIsRow DEF Hydrate, TypeOK, Phases
<1>4. html' = [u \in Tabs |-> FirstEffects(store'[u])]
  <2>1. Effects(html[t], s) = FirstEffects(s)
    BY <1>1, <1>2, EffectsShow DEF AppearanceInv, TypeOK
  <2> QED
    BY <1>1, <1>2, <2>1, HtmlFollows DEF AppearanceInv, Hydrate, TypeOK
<1>5. ASSUME NEW u \in Tabs PROVE Flags(u)'
  BY <1>1 DEF AppearanceInv, Hydrate, TypeOK, Flags
<1> QED
  BY <1>3, <1>4, <1>5 DEF AppearanceInv

-----------------------------------------------------------------------------
(***************************************************************************)
(* A setting is changed and saved.                                         *)
(***************************************************************************)
LEMMA ChangeKeepsInv ==
  ASSUME AppearanceInv, NEW t \in Tabs, ChangeSetting(t) PROVE AppearanceInv'
<1>1. TypeOK /\ Flags(t)
  BY DEF AppearanceInv
<1>2. PICK s \in Choices(store[t]) :
        /\ store' = [store EXCEPT ![t] = s]
        /\ html' = [html EXCEPT ![t] = Effects(html[t], s)]
  BY DEF ChangeSetting
<1>3. s \in Settings
  BY <1>1, <1>2, ChoicesAreSettings DEF TypeOK
<1>4. late[t] + 1 \in 0..MaxEdits /\ edits + 1 \in 0..MaxEdits
  BY <1>1, Bounds DEF TypeOK, Flags, ChangeSetting
<1> DEFINE armed == ~ skip[t]
<1>5. TypeOK'
  <2>1. armed \in BOOLEAN
    OBVIOUS
  <2> HIDE DEF armed
  <2>2. CASE phase[t] # "ready"
    BY <1>1, <1>2, <1>3, <1>4, <2>2 DEF ChangeSetting, TypeOK
  <2>3. CASE phase[t] = "ready"
    <3>1. timer' = [timer EXCEPT ![t] = armed]
      BY <2>3 DEF ChangeSetting, armed
    <3>2. timer' \in [Tabs -> BOOLEAN]
      BY <1>1, <2>1, <3>1 DEF TypeOK
    <3>3. /\ skip' = [skip EXCEPT ![t] = FALSE]
          /\ late' = [late EXCEPT ![t] = late[t] + 1]
          /\ edits' = edits + 1
          /\ UNCHANGED <<row, phase, answer, puts, told, loads, faults>>
      BY <2>3, Zenon DEF ChangeSetting
    <3> QED
      BY <1>1, <1>2, <1>3, <1>4, <3>2, <3>3 DEF TypeOK
  <2> QED
    BY <2>2, <2>3
<1>6. html' = [u \in Tabs |-> FirstEffects(store'[u])]
  <2>1. Effects(html[t], s) = FirstEffects(s)
    BY <1>1, <1>3, EffectsShow DEF AppearanceInv, TypeOK
  <2> QED
    BY <1>1, <1>2, <1>3, <2>1, HtmlFollows DEF AppearanceInv, TypeOK
<1>7. ASSUME NEW u \in Tabs PROVE Flags(u)'
  <2>1. CASE u = t /\ phase[t] = "ready"
    <3>1. /\ ~ skip'[t] /\ late'[t] = late[t] + 1 /\ phase' = phase
          /\ edits' = edits + 1 /\ late[t] \in Nat /\ edits \in Nat
          /\ late[t] <= edits
      BY <1>1, <2>1 DEF ChangeSetting, TypeOK, Flags
    <3>2. CASE skip[t]
      <4>1. late[t] = 0
        BY <1>1, <3>2 DEF Flags
      <4>2. ~ timer'[t]
        BY <1>1, <2>1, <3>2, Zenon DEF ChangeSetting, TypeOK
      <4> QED
        BY <2>1, <3>1, <4>1, <4>2 DEF Flags
    <3>3. CASE ~ skip[t]
      <4>1. timer'[t]
        BY <1>1, <2>1, <3>3, Zenon DEF ChangeSetting, TypeOK
      <4> QED
        BY <2>1, <3>1, <4>1 DEF Flags
    <3> QED
      BY <3>2, <3>3
  <2>2. CASE u = t /\ phase[t] # "ready"
    BY <1>1, <1>2, <2>2 DEF ChangeSetting, TypeOK, Flags
  <2>3. CASE u # t
    BY <1>1, <1>2, <2>3 DEF AppearanceInv, ChangeSetting, TypeOK, Flags
  <2> QED
    BY <2>1, <2>2, <2>3
<1> QED
  BY <1>5, <1>6, <1>7 DEF AppearanceInv

\* A running timer means a change, and so a number for the save.
LEMMA SaveKeepsInv ==
  ASSUME AppearanceInv, NEW t \in Tabs, Save(t) PROVE AppearanceInv'
<1>1. TypeOK /\ Flags(t)
  BY DEF AppearanceInv
<1>2. edits \in 1..MaxEdits
  BY <1>1 DEF TypeOK, Flags, Save
<1>3. [tab |-> t, nr |-> edits, settings |-> store[t]] \in Saves
  BY <1>1, <1>2 DEF Saves, TypeOK
<1>4. TypeOK'
  BY <1>1, <1>3 DEF Save, TypeOK
<1>5. html' = [u \in Tabs |-> FirstEffects(store'[u])]
  BY DEF AppearanceInv, Save
<1>6. ASSUME NEW u \in Tabs PROVE Flags(u)'
  BY <1>1 DEF AppearanceInv, Save, TypeOK, Flags
<1> QED
  BY <1>4, <1>5, <1>6 DEF AppearanceInv

LEMMA ServeKeepsInv ==
  ASSUME AppearanceInv, NEW p \in puts,
         UpsertAppearanceSettings(p) \/ SaveFails(p)
  PROVE  AppearanceInv'
<1>1. TypeOK
  BY DEF AppearanceInv
<1>2. RowOf(p.settings) \in Rows
  BY <1>1, RowIsRow DEF TypeOK, Saves
<1>3. TypeOK'
  BY <1>1, <1>2, Bounds
  DEF UpsertAppearanceSettings, SaveFails, TypeOK, tabVars
<1>4. html' = [u \in Tabs |-> FirstEffects(store'[u])]
  BY DEF AppearanceInv, UpsertAppearanceSettings, SaveFails, tabVars
<1>5. ASSUME NEW u \in Tabs PROVE Flags(u)'
  BY DEF AppearanceInv, UpsertAppearanceSettings, SaveFails, tabVars, Flags
<1> QED
  BY <1>3, <1>4, <1>5 DEF AppearanceInv

-----------------------------------------------------------------------------
LEMMA AppearanceInvStep == AppearanceInv /\ [Next]_vars => AppearanceInv'
<1> SUFFICES ASSUME AppearanceInv, [Next]_vars PROVE AppearanceInv'
  OBVIOUS
<1>1. CASE UNCHANGED vars
  BY <1>1 DEF AppearanceInv, TypeOK, Flags, vars, tabVars
<1>2. CASE Next
  BY <1>2, LoadKeepsInv, CloseKeepsInv, GetKeepsInv, FetchFailsKeepsInv,
     HydrateKeepsInv, ChangeKeepsInv, SaveKeepsInv, ServeKeepsInv DEF Next
<1> QED
  BY <1>1, <1>2

\* The settings stay within what the controls can produce, <html> shows them,
\* and the flag and the timer of a tab exclude each other
\* (useAppearanceSync.ts:42-85).
THEOREM AppearanceInvariant == Spec => []AppearanceInv
BY AppearanceInitInv, AppearanceInvStep, PTL DEF Spec

\* The stores and the row stay within what the controls can produce
\* (theme-store.ts:39-60).
THEOREM AppearanceTyped == Spec => []TypeOK
BY AppearanceInvariant, PTL DEF AppearanceInv

\* No token of an earlier accent is left on <html>
\* (AppShellContainer.tsx:50-56).
THEOREM HtmlInStep == Spec => []HtmlShowsStore
<1>1. AppearanceInv => HtmlShowsStore
  BY DEF AppearanceInv, HtmlShowsStore
<1> QED
  BY <1>1, AppearanceInvariant, PTL

\* At most the first change of a page is not sent
\* (useAppearanceSync.ts:73-85).
THEOREM SwallowsFirstAtMost == Spec => []OnlyFirstChangeSwallowed
<1>1. AppearanceInv => OnlyFirstChangeSwallowed
  BY DEF AppearanceInv, Flags, OnlyFirstChangeSwallowed
<1> QED
  BY <1>1, AppearanceInvariant, PTL

\* A page nobody changed anything on never writes the row
\* (useAppearanceSync.ts:75-78).
THEOREM OpeningIsReadOnly == Spec => OpeningWritesNothing
<1>1. AppearanceInv /\ [Next]_vars => [\A p \in puts' \ puts : late[p.tab] > 0]_vars
  <2> SUFFICES ASSUME AppearanceInv, Next, NEW p \in puts' \ puts
               PROVE  late[p.tab] > 0
    OBVIOUS
  <2>1. PICK t \in Tabs : Save(t)
    BY DEF Next, LoadPage, CloseTab, GetAppearanceSettings, FetchFails, Hydrate,
           ChangeSetting, UpsertAppearanceSettings, SaveFails
  <2>2. p = [tab |-> t, nr |-> edits, settings |-> store[t]]
    BY <2>1 DEF Save
  <2>3. timer[t] => late[t] > 0
    BY DEF AppearanceInv, Flags
  <2> QED
    BY <2>1, <2>2, <2>3 DEF Save
<1> QED
  BY <1>1, AppearanceInvariant, PTL DEF Spec, OpeningWritesNothing
=============================================================================
