---------------------------- MODULE MCTripStream ----------------------------
(***************************************************************************)
(* A small instance of TripStream for TLC: two connections, channels of    *)
(* one frame, two trips and one fault.                                     *)
(***************************************************************************)
EXTENDS TripStream
=============================================================================
