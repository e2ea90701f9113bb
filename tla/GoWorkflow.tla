----------------------------- MODULE GoWorkflow -----------------------------
(***************************************************************************)
(* The workflow engine of the Go sidecar (go/internal/workflow/engine.go). *)
(*                                                                         *)
(* A workflow is a graph of steps.  Run starts one goroutine per step; it  *)
(* waits for the step's dependencies one after the other, each announced   *)
(* by closing a channel of THIS run, then executes the step.  The status   *)
(* of a step, however, is a field of the workflow, shared by every run of  *)
(* it, and nothing prevents two runs at once (the HTTP handler starts one  *)
(* per request).                                                           *)
(*                                                                         *)
(* Left out: what a step does and returns beyond success or failure, and   *)
(* timestamps.  Step ids are distinct.                                     *)
(***************************************************************************)
EXTENDS Naturals, Sequences

CONSTANTS
  Steps,      \* step ids
  Runs,       \* calls of Run, each made once
  Graphs,     \* the DependsOn lists a workflow may have: [Steps -> Seq(ids)]
  MayCancel,  \* whether the context of a run may be cancelled
  MayOverlap  \* whether a run may begin while another one is under way

ASSUME GraphsAreLists ==
  \A g \in Graphs :
    DOMAIN g = Steps /\ \A s \in Steps : Len(g[s]) \in Nat /\ DOMAIN g[s] = 1..Len(g[s])
ASSUME RunFlagsAreBoolean == {MayCancel, MayOverlap} \subseteq BOOLEAN

VARIABLES
  deps,       \* Step.DependsOn
  status,     \* Step.Status, shared by all runs
  overall,    \* Workflow.Status
  phase,      \* of each run: "idle", "sorting", "running" or "returned"
  cancelled,  \* of each run: ctx.Done() is closed
  at,         \* where the goroutine of each run and step is
  pending,    \* the index of the dependency it waits for
  outcome     \* "completed": its output is stored; "failed": its error is sent

vars == <<deps, status, overall, phase, cancelled, at, pending, outcome>>

Statuses == {"pending", "running", "completed", "failed", "skipped"}
Places   == {"none", "waiting", "skipping", "executing", "closing", "closed"}

Ids(s) == {deps[s][i] : i \in DOMAIN deps[s]}

(* topologicalSort succeeds.                                               *)
Sortable ==
  /\ \A s \in Steps : Ids(s) \subseteq Steps
  /\ \A S \in (SUBSET Steps) \ {{}} : \E s \in S : Ids(s) \cap S = {}

UnderWay(r) == phase[r] \in {"sorting", "running"}

-----------------------------------------------------------------------------
(* Run, up to the call of topologicalSort.                                 *)
Begin_KeepsOverall(r) ==
  /\ phase[r] = "idle"
  /\ MayOverlap \/ \A q \in Runs : ~UnderWay(q)
  /\ phase' = [phase EXCEPT ![r] = "sorting"]
  /\ UNCHANGED <<deps, status, overall, cancelled, at, pending, outcome>>

Begin(r) ==
  /\ phase[r] = "idle"
  /\ MayOverlap \/ \A q \in Runs : ~UnderWay(q)
  /\ phase' = [phase EXCEPT ![r] = "sorting"]
  /\ overall' = "running"
  /\ UNCHANGED <<deps, status, cancelled, at, pending, outcome>>

(* The sort fails, or a goroutine per step is started.                     *)
Sort(r) ==
  /\ phase[r] = "sorting"
  /\ IF Sortable
     THEN /\ phase' = [phase EXCEPT ![r] = "running"]
          /\ at' = [at EXCEPT ![r] = [s \in Steps |-> "waiting"]]
          /\ UNCHANGED overall
     ELSE /\ phase' = [phase EXCEPT ![r] = "returned"]
          /\ overall' = "failed"
          /\ UNCHANGED at
  /\ UNCHANGED <<deps, status, cancelled, pending, outcome>>

Move(r, s, place) == at' = [at EXCEPT ![r][s] = place]

(* The channel of a dependency is closed: go on to the next dependency, or *)
(* skip the step when the dependency's status is failed.                   *)
WaitOver(r, s) == at[r][deps[s][pending[r][s]]] = "closed"

DependencyFailed(s, d) == status[d] = "failed"

Await(r, s) ==
  /\ at[r][s] = "waiting" /\ pending[r][s] <= Len(deps[s])
  /\ WaitOver(r, s)
  /\ IF DependencyFailed(s, deps[s][pending[r][s]])
     THEN Move(r, s, "skipping") /\ UNCHANGED pending
     ELSE /\ pending' = [pending EXCEPT ![r][s] = @ + 1]
          /\ UNCHANGED at
  /\ UNCHANGED <<deps, status, overall, phase, cancelled, outcome>>

(* The read lock is released and the lock taken to mark the step skipped.  *)
Skip(r, s) ==
  /\ at[r][s] = "skipping"
  /\ status' = [status EXCEPT ![s] = "skipped"]
  /\ Move(r, s, "closing")
  /\ UNCHANGED <<deps, overall, phase, cancelled, pending, outcome>>

(* While waiting for a dependency, the context turns out to be cancelled.  *)
GiveUp(r, s) ==
  /\ at[r][s] = "waiting" /\ pending[r][s] <= Len(deps[s])
  /\ cancelled[r]
  /\ status' = [status EXCEPT ![s] = "skipped"]
  /\ Move(r, s, "closing")
  /\ UNCHANGED <<deps, overall, phase, cancelled, pending, outcome>>

Execute(r, s) ==
  /\ at[r][s] = "waiting" /\ pending[r][s] > Len(deps[s])
  /\ status' = [status EXCEPT ![s] = "running"]
  /\ Move(r, s, "executing")
  /\ UNCHANGED <<deps, overall, phase, cancelled, pending, outcome>>

(* Execute returned; its output is stored or its error sent.               *)
Finish_StatusLost(r, s, how) ==
  /\ at[r][s] = "executing"
  /\ outcome' = [outcome EXCEPT ![r][s] = how]
  /\ Move(r, s, "closing")
  /\ UNCHANGED <<deps, status, overall, phase, cancelled, pending>>

Finish(r, s, how) ==
  /\ at[r][s] = "executing"
  /\ status' = [status EXCEPT ![s] = how]
  /\ outcome' = [outcome EXCEPT ![r][s] = how]
  /\ Move(r, s, "closing")
  /\ UNCHANGED <<deps, overall, phase, cancelled, pending>>

(* The deferred close of the step's channel, and wg.Done.                  *)
Close_AfterSuccess(r, s) ==
  /\ at[r][s] = "closing" /\ outcome[r][s] # "failed"
  /\ Move(r, s, "closed")
  /\ UNCHANGED <<deps, status, overall, phase, cancelled, pending, outcome>>

Close(r, s) ==
  /\ at[r][s] = "closing"
  /\ Move(r, s, "closed")
  /\ UNCHANGED <<deps, status, overall, phase, cancelled, pending, outcome>>

(* wg.Wait returned; the errors that were sent decide.                     *)
AllClosed_AnyClosed(r) == \E s \in Steps : at[r][s] = "closed"

AllClosed(r) == \A s \in Steps : at[r][s] = "closed"

Return(r) ==
  /\ phase[r] = "running" /\ AllClosed(r)
  /\ phase' = [phase EXCEPT ![r] = "returned"]
  /\ overall' = IF \E s \in Steps : outcome[r][s] = "failed" THEN "failed" ELSE "completed"
  /\ UNCHANGED <<deps, status, cancelled, at, pending, outcome>>

(* The caller's context is cancelled.                                      *)
Cancel(r) ==
  /\ MayCancel /\ UnderWay(r) /\ ~cancelled[r]
  /\ cancelled' = [cancelled EXCEPT ![r] = TRUE]
  /\ UNCHANGED <<deps, status, overall, phase, at, pending, outcome>>

-----------------------------------------------------------------------------
(* NewWorkflow.                                                            *)
Init ==
  /\ deps \in Graphs
  /\ status = [s \in Steps |-> "pending"]
  /\ overall = "pending"
  /\ phase = [r \in Runs |-> "idle"]
  /\ cancelled = [r \in Runs |-> FALSE]
  /\ at = [r \in Runs |-> [s \in Steps |-> "none"]]
  /\ pending = [r \in Runs |-> [s \in Steps |-> 1]]
  /\ outcome = [r \in Runs |-> [s \in Steps |-> "none"]]

StepOf(r, s) ==
  \/ Await(r, s) \/ Skip(r, s) \/ GiveUp(r, s) \/ Execute(r, s) \/ Close(r, s)
  \/ \E how \in {"completed", "failed"} : Finish(r, s, how)

RunOf(r) == Sort(r) \/ Return(r) \/ \E s \in Steps : StepOf(r, s)

Next == \E r \in Runs : Begin(r) \/ Cancel(r) \/ RunOf(r)

Spec == Init /\ [][Next]_vars

(* The goroutines of a run are scheduled, and a step that executes ends.   *)
Fairness ==
  \A r \in Runs : WF_vars(Sort(r)) /\ WF_vars(Return(r))
                  /\ \A s \in Steps : WF_vars(StepOf(r, s))

FairSpec == Spec /\ Fairness

-----------------------------------------------------------------------------
(* Properties.                                                             *)

TypeOK ==
  /\ deps \in Graphs
  /\ status \in [Steps -> Statuses]
  /\ overall \in Statuses \ {"skipped"}
  /\ phase \in [Runs -> {"idle", "sorting", "running", "returned"}]
  /\ cancelled \in [Runs -> BOOLEAN]
  /\ at \in [Runs -> [Steps -> Places]]
  /\ pending \in [Runs -> [Steps -> Nat \ {0}]]
  /\ outcome \in [Runs -> [Steps -> {"none", "completed", "failed"}]]

Began(r, s) == at[r][s] = "executing" \/ outcome[r][s] # "none"

(* A step never executes before every one of its dependencies is over in   *)
(* the same run, nor in a graph that has no order, however the runs        *)
(* interleave.                                                             *)
DependenciesFirst ==
  \A r \in Runs, s \in Steps :
    Began(r, s) => Sortable /\ \A d \in Ids(s) : at[r][d] = "closed"

(* "Check if dependency failed" (engine.go:158): a step does not execute   *)
(* in a run in which one of its dependencies failed.                       *)
NeverAfterFailure ==
  \A r \in Runs, s \in Steps : Began(r, s) => \A d \in Ids(s) : outcome[r][d] # "failed"

(* A workflow that shows an end has ended: no step of it is running, and   *)
(* it shows failed exactly when a step does, or when it cannot be ordered. *)
OverallIsHonest ==
  overall \in {"completed", "failed"} =>
    /\ \A s \in Steps : status[s] # "running"
    /\ overall = "failed" <=> ~Sortable \/ \E s \in Steps : status[s] = "failed"

(* Every run returns, whatever the graph and whichever steps fail.         *)
RunsReturn == \A r \in Runs : UnderWay(r) ~> phase[r] = "returned"

(* As long as runs do not overlap, each does what DagRun promises.  Which   *)
(* run is looked at does not matter.                                       *)
TheRun == CHOOSE r \in Runs : TRUE

StateOf(s) ==
  IF at[TheRun][s] = "executing" THEN "running"
  ELSE IF at[TheRun][s] \notin {"closing", "closed"} THEN "todo"
  ELSE IF outcome[TheRun][s] = "none" THEN "skipped" ELSE outcome[TheRun][s]

Verdict ==
  IF phase[TheRun] # "returned" THEN "none"
  ELSE IF ~Sortable \/ \E s \in Steps : outcome[TheRun][s] = "failed" THEN "failed"
  ELSE "completed"

Promise == INSTANCE DagRun WITH needs <- [s \in Steps |-> Ids(s)],
  step <- [s \in Steps |-> StateOf(s)], verdict <- Verdict

KeepsPromise == Promise!Spec
=============================================================================
