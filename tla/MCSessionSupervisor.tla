------------------------ MODULE MCSessionSupervisor ------------------------
(* A small instance of SessionSupervisor for TLC: one session may have two *)
(* children at a time, the other one.                                      *)
EXTENDS SessionSupervisor

CONSTANTS s1, s2, p1

TwoAndOne == [s \in Sessions |-> IF s = s1 THEN Procs ELSE {p1}]

FewRestarts == [s \in Sessions |-> IF s = s1 THEN {1, 2} ELSE {0}]
=============================================================================
