----------------------------- MODULE MCJobQueue -----------------------------
(***************************************************************************)
(* Small instances of JobQueue for TLC: two runs, one of a type the worker *)
(* does not know, and two overlapping cancel-alls.                         *)
(***************************************************************************)
EXTENDS JobQueue
=============================================================================
