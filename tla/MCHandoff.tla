------------------------------ MODULE MCHandoff ------------------------------
(* Small instances of Handoff for TLC.                                     *)
EXTENDS Handoff, TLC

CloserSymmetry == Permutations(Closers)
=============================================================================
