---------------------------- MODULE MCAppearance ----------------------------
(***************************************************************************)
(* Small instances of Appearance for TLC: a few of the settings, among     *)
(* them an accent that sets every token, one that sets some and the        *)
(* default that sets none, and a mode without a depth control.             *)
(***************************************************************************)
EXTENDS Appearance, TLC

Symmetry == Permutations(Tabs)
=============================================================================
