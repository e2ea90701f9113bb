--------------------------- MODULE WorkflowEngine ---------------------------
(***************************************************************************)
(* One execution of a workflow by the TypeScript engine                    *)
(* (packages/core/src/orchestrator/WorkflowEngine.ts).                     *)
(*                                                                         *)
(* start, approve and resume each begin an activation, which executes      *)
(* nodes from where it is told until it finds the execution no longer      *)
(* running.  It awaits twice per node, the node's function and the edges'  *)
(* conditions, and reads and writes the execution as it finds it then:     *)
(* pause does not interrupt it, and a resume meanwhile begins a second     *)
(* activation on the same execution.                                       *)
(*                                                                         *)
(* What a node adds to the state is abstracted to the node itself.  Left   *)
(* out: the history kept for display, the events, rollback (nothing calls  *)
(* it) and so the stored states, a node that is not in the graph, and a    *)
(* condition that throws.                                                  *)
(***************************************************************************)
EXTENDS Naturals, FiniteSets

CONSTANTS
  Nodes,        \* the workflow's nodes
  EntryPoint,   \* its entryPoint
  Edges,        \* its edges, as pairs of nodes
  Checkpoints,  \* nodes that require an approval
  Activations,  \* activations under way at a time (a bound)
  None          \* no node

ASSUME GraphIsTyped == EntryPoint \in Nodes /\ Edges \subseteq Nodes \X Nodes /\ Checkpoints \subseteq Nodes
ASSUME NoneIsFresh == None \notin Nodes

VARIABLES
  execution,  \* status, currentNode and state of the execution
  act,        \* what each activation awaits, of which node, and the state the node was given
  asked,      \* the checkpoint announced by execution:awaiting_approval
  approvals,  \* history: how often each announcement has been answered by an approval
  runs,       \* history: how often each node's function has been called
  done,       \* history: nodes executed with success
  overlapped  \* history: two activations have been under way at once

vars == <<execution, act, asked, approvals, runs, done, overlapped>>

Idle == [at |-> "free", node |-> None, input |-> {}]

Busy == {a \in Activations : act[a].at # "free"}

Successors(n) == {m \in Nodes : <<n, m>> \in Edges}

Ended == {"completed", "failed"}

-----------------------------------------------------------------------------
Call(a, n, state) ==
  /\ act' = [act EXCEPT ![a] = [at |-> "executing", node |-> n, input |-> state]]
  /\ runs' = [runs EXCEPT ![n] = @ + 1]

Leave(a) == act' = [act EXCEPT ![a] = Idle] /\ UNCHANGED runs

(* The head of the loop of run, on the execution e.                        *)
Loop_WhilePaused(a, e) ==
  /\ IF e.status \notin {"running", "paused"} THEN Leave(a) /\ execution' = e /\ UNCHANGED asked
     ELSE IF e.node \in Checkpoints
     THEN Leave(a) /\ execution' = [e EXCEPT !.status = "awaiting_approval"] /\ asked' = e.node
     ELSE Call(a, e.node, e.state) /\ execution' = e /\ UNCHANGED asked
  /\ UNCHANGED approvals

Loop_StaysRunning(a, e) ==
  /\ IF e.status # "running" THEN Leave(a) /\ execution' = e /\ UNCHANGED asked
     ELSE IF e.node \in Checkpoints THEN Leave(a) /\ execution' = e /\ asked' = e.node
     ELSE Call(a, e.node, e.state) /\ execution' = e /\ UNCHANGED asked
  /\ UNCHANGED approvals

Loop_GoesOn(a, e) ==
  /\ IF e.status # "running" THEN Leave(a) /\ UNCHANGED asked ELSE Call(a, e.node, e.state) /\ asked' = e.node
  /\ execution' = e /\ UNCHANGED approvals

Loop(a, e) ==
  /\ IF e.status # "running" THEN Leave(a) /\ execution' = e /\ UNCHANGED asked
     ELSE IF e.node \in Checkpoints
     THEN Leave(a) /\ execution' = [e EXCEPT !.status = "awaiting_approval"] /\ asked' = e.node
     ELSE Call(a, e.node, e.state) /\ execution' = e /\ UNCHANGED asked
  /\ UNCHANGED approvals

Begins(a) == act[a].at = "free" /\ overlapped' = (overlapped \/ Busy # {})

Start(a) ==
  /\ execution.status = "none"
  /\ Begins(a)
  /\ Loop(a, [status |-> "running", node |-> EntryPoint, state |-> {}])
  /\ UNCHANGED done

(* The node's function returns or throws, or its time is over.             *)
NodeReturns(a) ==
  /\ act[a].at = "executing"
  /\ execution' = [execution EXCEPT !.state = act[a].input \cup {act[a].node}]
  /\ act' = [act EXCEPT ![a] = [Idle EXCEPT !.at = "routing", !.node = execution.node]]
  /\ done' = done \cup {act[a].node}
  /\ UNCHANGED <<asked, approvals, runs, overlapped>>

NodeFails(a) ==
  /\ act[a].at = "executing"
  /\ execution' = [execution EXCEPT !.status = "failed"]
  /\ Leave(a)
  /\ UNCHANGED <<asked, approvals, done, overlapped>>

(* getNextNode: the first edge, from where the execution was when it was   *)
(* called, whose condition holds and whose target exists, or none.         *)
Advance_UnlessPaused(e, n) == IF e.status = "paused" THEN e ELSE [e EXCEPT !.node = n]

Advance(e, n) == [e EXCEPT !.node = n]

Routed(a) ==
  /\ act[a].at = "routing"
  /\ \/ \E n \in Successors(act[a].node) : Loop(a, Advance(execution, n))
     \/ execution' = [execution EXCEPT !.status = "completed"] /\ Leave(a)
        /\ UNCHANGED <<asked, approvals>>
  /\ UNCHANGED <<done, overlapped>>

-----------------------------------------------------------------------------
(* The router's requests.  Who approves has been shown what was announced. *)
Approvable == {"awaiting_approval"}

Approve(a) ==
  /\ execution.status \in Approvable
  /\ Begins(a)
  /\ execution' = [execution EXCEPT !.status = "running"]
  /\ Call(a, execution.node, execution.state)
  /\ approvals' = [approvals EXCEPT ![asked] = @ + 1]
  /\ UNCHANGED <<asked, done>>

Reject ==
  /\ execution.status = "awaiting_approval"
  /\ execution' = [execution EXCEPT !.status = "failed"]
  /\ UNCHANGED <<act, asked, approvals, runs, done, overlapped>>

Pause ==
  /\ execution.status = "running"
  /\ execution' = [execution EXCEPT !.status = "paused"]
  /\ UNCHANGED <<act, asked, approvals, runs, done, overlapped>>

Resumable_Failed == {"paused", "failed"}

Resumable == {"paused"}

Resume(a) ==
  /\ execution.status \in Resumable
  /\ Begins(a)
  /\ Loop(a, [execution EXCEPT !.status = "running"])
  /\ UNCHANGED done

-----------------------------------------------------------------------------
Init ==
  /\ execution = [status |-> "none", node |-> EntryPoint, state |-> {}]
  /\ act = [a \in Activations |-> Idle]
  /\ asked = None /\ approvals = [n \in Nodes |-> 0]
  /\ runs = [n \in Nodes |-> 0] /\ done = {} /\ overlapped = FALSE

Step(a) == NodeReturns(a) \/ NodeFails(a) \/ Routed(a)

Next ==
  \/ \E a \in Activations : Step(a) \/ Start(a) \/ Approve(a) \/ Resume(a)
  \/ Reject \/ Pause

Spec == Init /\ [][Next]_vars

(* Node functions are raced against a time-out; conditions return.         *)
FairSpec == Spec /\ \A a \in Activations : WF_vars(Step(a))

-----------------------------------------------------------------------------
(* Properties.                                                             *)

TypeOK ==
  /\ execution \in [status : {"none", "running", "paused", "awaiting_approval", "completed", "failed"},
                    node : Nodes, state : SUBSET Nodes]
  /\ act \in [Activations -> [at : {"free", "executing", "routing"}, node : Nodes \cup {None},
                              input : SUBSET Nodes]]
  /\ asked \in Nodes \cup {None} /\ approvals \in [Nodes -> Nat] /\ runs \in [Nodes -> Nat]
  /\ done \subseteq Nodes /\ overlapped \in BOOLEAN
  /\ execution.state \subseteq done

(* An execution shown as running is worked on, whatever requests overlap.  *)
RunningHasActivation == execution.status = "running" => Busy # {}

(* Until two activations overlap, each execution of a checkpoint has an    *)
(* approval of its own, given when this checkpoint was the one announced:  *)
(* none goes on from an announcement, a pause or an earlier approval.      *)
ApprovesWhatWasAsked ==
  ~overlapped => \A n \in Checkpoints : runs[n] <= approvals[n]

(* Until two activations overlap, however often the execution is paused    *)
(* and resumed, no node of an acyclic workflow is executed twice, none is  *)
(* entered but from a predecessor that has succeeded, and nothing that a   *)
(* node has put into the state is lost.                                    *)
EachOnceInOrder ==
  ~overlapped =>
    /\ \A n \in Nodes : runs[n] <= 1
    /\ \A a \in Busy : act[a].at = "executing" =>
         act[a].node = EntryPoint \/ \E m \in done : <<m, act[a].node>> \in Edges
    /\ execution.state = done

(* Between a pause and a resume no node is begun, also by an activation    *)
(* that was under way when the execution was paused.                       *)
PauseHolds ==
  [][execution.status = "paused" /\ execution'.status = "paused" => runs' = runs]_vars

(* A rejection, a failure or a completion is final, until activations      *)
(* overlap ("Reject a HITL checkpoint and stop execution", 707).           *)
EndIsFinal ==
  [][execution.status \in Ended => UNCHANGED execution \/ overlapped]_vars

(* An execution of an acyclic workflow does not run for ever.              *)
RunEnds == execution.status = "running" ~> execution.status # "running"
=============================================================================
