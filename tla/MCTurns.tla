------------------------------- MODULE MCTurns -------------------------------
(* Small instances of Turns for TLC.                                       *)
EXTENDS Turns
=============================================================================
