------------------------------- MODULE MCLake -------------------------------
(***************************************************************************)
(* A small instance of Lake for TLC: two months, of which the second has a *)
(* zone of its own, a third one that is malformed, and two Gold tables.    *)
(***************************************************************************)
EXTENDS Lake

MCZonesOf == <<{1}, {1, 2}, {}>>
=============================================================================
