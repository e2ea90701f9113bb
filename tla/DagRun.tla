------------------------------- MODULE DagRun -------------------------------
(***************************************************************************)
(* What one run of a workflow promises (go/internal/workflow/engine.go,    *)
(* Workflow.Run): a step starts only when each of its dependencies is over *)
(* and none has failed, a step is skipped only for a reason, and the run   *)
(* returns, with the right verdict, only when all of its steps are over.   *)
(***************************************************************************)
CONSTANTS
  Steps,      \* step ids
  MayCancel   \* whether the context of the run may be cancelled

VARIABLES
  needs,    \* the ids each step depends on; never changes
  step,     \* "todo", "running", "completed", "failed" or "skipped"
  verdict   \* "none" until the run returns, then "completed" or "failed"

(* The steps can be put in an order in which dependencies come first: they *)
(* all exist, and no set of steps keeps itself waiting.                    *)
Orderable ==
  /\ \A s \in Steps : needs[s] \subseteq Steps
  /\ \A S \in (SUBSET Steps) \ {{}} : \E s \in S : needs[s] \cap S = {}

Over(s) == step[s] \in {"completed", "failed", "skipped"}

Init ==
  /\ step = [s \in Steps |-> "todo"]
  /\ verdict = "none"

Start(s) ==
  /\ verdict = "none" /\ step[s] = "todo" /\ Orderable
  /\ \A d \in needs[s] : Over(d) /\ step[d] # "failed"
  /\ step' = [step EXCEPT ![s] = "running"]
  /\ UNCHANGED <<needs, verdict>>

Skip(s) ==
  /\ verdict = "none" /\ step[s] = "todo" /\ Orderable
  /\ MayCancel \/ \E d \in needs[s] : step[d] = "failed"
  /\ step' = [step EXCEPT ![s] = "skipped"]
  /\ UNCHANGED <<needs, verdict>>

Finish(s) ==
  /\ step[s] = "running"
  /\ \E how \in {"completed", "failed"} : step' = [step EXCEPT ![s] = how]
  /\ UNCHANGED <<needs, verdict>>

Return ==
  /\ verdict = "none"
  /\ IF Orderable
     THEN /\ \A s \in Steps : Over(s)
          /\ verdict' = IF \E s \in Steps : step[s] = "failed" THEN "failed" ELSE "completed"
     ELSE verdict' = "failed"
  /\ UNCHANGED <<needs, step>>

Next == Return \/ \E s \in Steps : Start(s) \/ Skip(s) \/ Finish(s)

Spec == Init /\ [][Next]_<<needs, step, verdict>>
=============================================================================
