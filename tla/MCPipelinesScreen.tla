------------------------- MODULE MCPipelinesScreen --------------------------
(***************************************************************************)
(* Small instances of PipelinesScreen for TLC: two stages stand for the    *)
(* five, the first with a form and the second without.                     *)
(***************************************************************************)
EXTENDS PipelinesScreen

TwoStages == <<"ingest", "silver">>
=============================================================================
