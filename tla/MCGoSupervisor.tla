--------------------------- MODULE MCGoSupervisor ---------------------------
(* Small instances of GoSupervisor for TLC.                                *)
EXTENDS GoSupervisor, TLC

PairSymmetry == Permutations(Launches) \cup Permutations(Sessions)
=============================================================================
