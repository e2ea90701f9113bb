---------------------------- MODULE MCGoWorkflow ----------------------------
(* Small instances of GoWorkflow, its sort included, for TLC.              *)
EXTENDS GoTopologicalSort, SequencesExt

CONSTANT NoStep   \* an id that is not the id of a step

(* Lists without repetition of at most n ids.                              *)
Lists(ids, n) ==
  {l \in UNION {[1..k -> ids] : k \in 0..n} :
     \A i, j \in DOMAIN l : l[i] = l[j] => i = j}

AllGraphs == [Steps -> Lists(Steps \cup {NoStep}, 2)]

AnyOrder == SetToSeq(Steps)
=============================================================================
