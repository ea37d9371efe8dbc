----------------------------- MODULE ThemeStore -----------------------------
(***************************************************************************)
(* The appearance settings of one browser tab: the store                   *)
(* (app/theme-store.ts), what the controls of the Connections screen can   *)
(* make of it in one operation, and what AppShellContainer writes of it    *)
(* onto <html>. Scales are counted in tenths. A preset's colours are       *)
(* abstracted to the preset they come from, so a token of :root is either  *)
(* "css" (the stylesheet's) or the id of the preset that set it.           *)
(***************************************************************************)
EXTENDS Integers, FiniteSets

CONSTANTS
  Modes,          \* the interface styles that are tried, among VisualModes
  Accents,        \* the accents that are tried, among AccentIds
  Styles,         \* the chart styles that are tried, among ChartStyles
  Depths          \* the positions of the depth slider that are tried

VisualModes ==
  {"flat", "neumorphic", "elevated", "glass", "outlined", "brutalist", "clay",
   "terminal", "aurora", "paper", "skeuomorphic", "high-contrast"}

ChartStyles ==
  {"hatch", "grid", "paired", "lollipop", "area", "block", "split", "ticks",
   "capsule", "ledger", "ghost"}

Hues == {"red-500", "red-700", "green-500", "green-700", "blue-500",
         "blue-700", "teal-500", "violet-500"}
AccentIds == Hues \cup {"ember-400", "ember-500", "ember-600", "ember-700"}

\* The slider runs from 0.4 to 1.6, the stepper from 0.8 to 1.4.
SliderRange == 4..16
StepperRange == 8..14

ASSUME ThemeStoreAssumption ==
  /\ Modes \subseteq VisualModes
  /\ Accents \subseteq AccentIds
  /\ Styles \subseteq ChartStyles
  /\ Depths \subseteq SliderRange

Settings ==
  [theme : {"light", "dark"}, mode : VisualModes, accent : AccentIds,
   chart : ChartStyles, depth : SliderRange, font : StepperRange]

Defaults ==
  [theme |-> "light", mode |-> "flat", accent |-> "ember-500",
   chart |-> "hatch", depth |-> 10, font |-> 10]

(***************************************************************************)
(* The controls of the Connections screen.                                 *)
(***************************************************************************)

\* The styles that have a shadow, blur or glow to scale; the others have no
\* depth row at all.
DepthControl == VisualModes \ {"flat", "outlined", "high-contrast"}

\* Mutant: nothing stops the stepper at the ends of its range.
FontStepsUnbounded(font) == {font - 1, font + 1}

\* One press of + or -: the button is disabled at its end of the range, and
\* the rounded result is clamped.
FontSteps(font) ==
  LET clamp(x) == IF x < 8 THEN 8 ELSE IF x > 14 THEN 14 ELSE x
  IN  {clamp(font + d) : d \in {e \in {-1, 1} : ~ (e = -1 /\ font <= 8)
                                                /\ ~ (e = 1 /\ font >= 14)}}

ChooseTheme(s) == {[s EXCEPT !.theme = v] : v \in {"light", "dark"}}
ChooseMode(s) == {[s EXCEPT !.mode = v] : v \in Modes}
ChooseAccent(s) == {[s EXCEPT !.accent = v] : v \in Accents}
ChooseStyle(s) == {[s EXCEPT !.chart = v] : v \in Styles}
MoveDepth(s) == {[s EXCEPT !.depth = v] : v \in Depths}
StepFont(s) == {[s EXCEPT !.font = v] : v \in FontSteps(s.font)}

\* What one operation on the screen can turn the settings into. A control set
\* to the value it already shows changes nothing the store's readers see.
Choices(s) ==
  (ChooseTheme(s) \cup ChooseMode(s) \cup ChooseAccent(s) \cup ChooseStyle(s)
     \cup (IF s.mode \in DepthControl THEN MoveDepth(s) ELSE {})
     \cup StepFont(s)) \ {s}

(***************************************************************************)
(* What AppShellContainer's effects write onto <html>.                     *)
(***************************************************************************)
HueKeys == {"brand", "brand-hover", "brand-press", "brand-tint",
            "chart-primary", "ember-400", "ember-500", "ember-600",
            "ember-700", "text-link", "text-link-hover"}

\* The tokens a preset sets.
PresetKeys(id) ==
  CASE id \in Hues -> HueKeys
    [] id = "ember-400" -> {"brand", "brand-hover", "brand-press",
                            "chart-primary", "ember-500", "ember-400",
                            "text-link"}
    [] id \in {"ember-600", "ember-700"} ->
         {"brand", "brand-hover", "chart-primary", "ember-500", "ember-400",
          "text-link"}
    [] OTHER -> {}

\* Mutant: the list forgets a key only the hues set.
PreviousKeysShort == HueKeys \ {"ember-700"}

\* The keys the effect clears when the new preset does not set them.
PreviousKeys == {"brand", "brand-hover", "brand-press", "brand-tint",
                 "chart-primary", "ember-400", "ember-500", "ember-600",
                 "ember-700", "text-link", "text-link-hover"}

NoTokens == [k \in HueKeys |-> "css"]

\* The accent's effect: the preset's tokens are set over what is there, then
\* the listed keys it does not set are removed.
WithAccent(tokens, id) ==
  [k \in HueKeys |->
     IF k \in PresetKeys(id) THEN id
     ELSE IF k \in PreviousKeys THEN "css"
     ELSE tokens[k]]

\* All effects after a render in which the store went from the settings html
\* shows to s; an effect whose dependency kept its value leaves the same value.
Effects(html, s) ==
  [theme |-> s.theme, mode |-> s.mode, depth |-> s.depth, font |-> s.font,
   accent |-> s.accent,
   tokens |-> IF html.accent = s.accent THEN html.tokens
              ELSE WithAccent(html.tokens, s.accent)]

\* A page that has just been loaded runs every effect on a bare <html>.
FirstEffects(s) ==
  [theme |-> s.theme, mode |-> s.mode, depth |-> s.depth, font |-> s.font,
   accent |-> s.accent, tokens |-> WithAccent(NoTokens, s.accent)]
=============================================================================
