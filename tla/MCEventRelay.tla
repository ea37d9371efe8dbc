---------------------------- MODULE MCEventRelay ----------------------------
(***************************************************************************)
(* Small instances of EventRelay for TLC: every socket watches one run.    *)
(***************************************************************************)
EXTENDS EventRelay

CONSTANT j1

OneRun == [s \in Sockets |-> j1]
=============================================================================
