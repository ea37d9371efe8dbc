----------------------------- MODULE MCConsole -----------------------------
(***************************************************************************)
(* A small instance of Console for TLC: one term that lists a job, and up  *)
(* to a table and a run, two texts, and a series of up to seven points.    *)
(***************************************************************************)
EXTENDS Console

MCStatic == [t \in Terms |-> <<[to |-> "/pipelines", carries |-> "job"]>>]
=============================================================================
