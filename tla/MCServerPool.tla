---------------------------- MODULE MCServerPool ----------------------------
(* Small instances of ServerPool for TLC.                                  *)
EXTENDS ServerPool, TLC

BoundSymmetry == Permutations(Clients) \cup Permutations(Objects) \cup Permutations(Calls)
=============================================================================
