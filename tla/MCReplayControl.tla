--------------------------- MODULE MCReplayControl ---------------------------
(***************************************************************************)
(* A small instance of ReplayControl for TLC: days with no trip, with      *)
(* fewer and with more than the limit.                                     *)
(***************************************************************************)
EXTENDS ReplayControl

SomeDays == {0, 1, 3}
=============================================================================
