------------------------ MODULE MCSwarmOrchestrator ------------------------
(* A small mission for TLC: one task that needs an approval, one coding    *)
(* task of a lower priority.                                               *)
EXTENDS SwarmOrchestrator

CONSTANTS t1, t2

Ranks == [t \in Tasks |-> IF t = t1 THEN 2 ELSE 1]
=============================================================================
