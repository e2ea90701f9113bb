------------------------ MODULE WorkflowEngineProofs ------------------------
(***************************************************************************)
(* Theorems about an execution of the TypeScript workflow engine, for any  *)
(* graph, checkpoints and number of activations.                           *)
(***************************************************************************)
EXTENDS WorkflowEngine, TLAPS

Executions ==
  [status : {"none", "running", "paused", "awaiting_approval", "completed", "failed"},
   node : Nodes, state : SUBSET Nodes]

Typed ==
  /\ TypeOK
  /\ \A a \in Activations : act[a].input \subseteq done /\ (a \in Busy => act[a].node \in Nodes)

(* As long as activations have not overlapped there is one at most, none   *)
(* while an approval is awaited or after the end, the checkpoint to be     *)
(* approved is the one announced, and none has run more often than that.   *)
Single ==
  /\ \A a, b \in Busy : a = b
  /\ execution.status \in Ended \cup {"none", "awaiting_approval"} => Busy = {}
  /\ execution.status = "awaiting_approval" => execution.node = asked
  /\ \A n \in Checkpoints : runs[n] <= approvals[n]

Inv == Typed /\ RunningHasActivation /\ (~overlapped => Single)

LEMMA Types ==
  ASSUME Typed
  PROVE  /\ execution \in Executions /\ execution.node \in Nodes /\ execution.state \subseteq done
         /\ act \in [Activations -> [at : {"free", "executing", "routing"}, node : Nodes \cup {None},
                                     input : SUBSET Nodes]]
         /\ runs \in [Nodes -> Nat] /\ approvals \in [Nodes -> Nat] /\ done \subseteq Nodes
         /\ Idle \in [at : {"free", "executing", "routing"}, node : Nodes \cup {None}, input : SUBSET Nodes]
         /\ Idle.at = "free" /\ Idle.input = {}
  BY DEF Typed, TypeOK, Executions, Idle

-----------------------------------------------------------------------------
(* Where an activation goes that is told to continue with the execution e. *)
Goes(a, e) ==
  /\ UNCHANGED approvals
  /\ \/ /\ e.status # "running" /\ execution' = e /\ UNCHANGED <<asked, runs>>
        /\ act' = [act EXCEPT ![a] = Idle]
     \/ /\ e.status = "running" /\ e.node \in Checkpoints /\ execution' \in Executions
        /\ execution'.status = "awaiting_approval" /\ execution'.node = e.node /\ execution'.state = e.state
        /\ asked' = e.node /\ UNCHANGED runs /\ act' = [act EXCEPT ![a] = Idle]
     \/ /\ e.status = "running" /\ e.node \notin Checkpoints /\ execution' = e /\ UNCHANGED asked
        /\ Call(a, e.node, e.state)

LEMMA LoopGoes ==
  ASSUME NEW a \in Activations, NEW e \in Executions, Loop(a, e)
  PROVE  Goes(a, e)
<1>1. CASE e.status # "running"
  BY <1>1 DEF Loop, Leave, Goes
<1>2. CASE e.status = "running" /\ e.node \in Checkpoints
  <2>1. /\ [e EXCEPT !.status = "awaiting_approval"] \in Executions
        /\ [e EXCEPT !.status = "awaiting_approval"].status = "awaiting_approval"
        /\ [e EXCEPT !.status = "awaiting_approval"].node = e.node
        /\ [e EXCEPT !.status = "awaiting_approval"].state = e.state
    BY DEF Executions
  <2> QED
    BY <1>2, <2>1 DEF Loop, Leave, Goes
<1>3. CASE e.status = "running" /\ e.node \notin Checkpoints
  BY <1>3 DEF Loop, Goes
<1> QED
  BY <1>1, <1>2, <1>3

LEMMA CallFacts ==
  ASSUME Typed, NEW a \in Activations, NEW n \in Nodes, NEW state \in SUBSET done, Call(a, n, state)
  PROVE  /\ act' \in [Activations -> [at : {"free", "executing", "routing"}, node : Nodes \cup {None},
                                      input : SUBSET Nodes]]
         /\ act'[a].at = "executing" /\ act'[a].node = n /\ act'[a].input = state
         /\ \A b \in Activations \ {a} : act'[b] = act[b]
         /\ runs' \in [Nodes -> Nat] /\ runs'[n] = runs[n] + 1
         /\ \A m \in Nodes \ {n} : runs'[m] = runs[m]
  BY Types DEF Call

LEMMA LeaveFacts ==
  ASSUME Typed, NEW a \in Activations, act' = [act EXCEPT ![a] = Idle]
  PROVE  /\ act' \in [Activations -> [at : {"free", "executing", "routing"}, node : Nodes \cup {None},
                                      input : SUBSET Nodes]]
         /\ act'[a].at = "free" /\ act'[a].input = {}
         /\ \A b \in Activations \ {a} : act'[b] = act[b]
  BY Types

(* What that does to the types, and to what is running.                    *)
LEMMA GoesTyped ==
  ASSUME Typed, NEW a \in Activations, NEW e \in Executions, e.state \subseteq done, Goes(a, e),
         UNCHANGED done, overlapped' \in BOOLEAN
  PROVE  Typed' /\ RunningHasActivation'
<1>1. e.node \in Nodes /\ e.status \in {"none", "running", "paused", "awaiting_approval", "completed", "failed"}
  BY DEF Executions
<1>2. CASE act' = [act EXCEPT ![a] = Idle]
  BY <1>1, <1>2, Types, LeaveFacts DEF Goes, Typed, TypeOK, Busy, RunningHasActivation, Executions, Call
<1>3. CASE Call(a, e.node, e.state)
  BY <1>1, <1>3, Types, CallFacts DEF Goes, Typed, TypeOK, Busy, RunningHasActivation, Executions
<1> QED
  BY <1>2, <1>3 DEF Goes

(* And to the one activation there is.                                     *)
LEMMA GoesSingle ==
  ASSUME Typed, NEW a \in Activations, NEW e \in Executions, e.state \subseteq done, Goes(a, e),
         Busy \subseteq {a}, e.status \in {"running", "paused"} \cup Ended,
         \A n \in Checkpoints : runs[n] <= approvals[n]
  PROVE  Single'
<1>1. e.node \in Nodes
  BY DEF Executions
<1>2. CASE act' = [act EXCEPT ![a] = Idle] /\ ~Call(a, e.node, e.state)
  <2>1. Busy' = {}
    BY <1>2, LeaveFacts DEF Busy
  <2> QED
    BY <1>2, <2>1 DEF Goes, Single, Ended
<1>3. CASE Call(a, e.node, e.state) /\ e.status = "running" /\ e.node \notin Checkpoints /\ execution' = e
  <2>1. Busy' = {a} /\ act'[a].node = e.node
    BY <1>1, <1>3, CallFacts DEF Busy
  <2>2. \A n \in Checkpoints : runs'[n] = runs[n] /\ approvals'[n] = approvals[n]
    BY <1>1, <1>3, CallFacts, GraphIsTyped DEF Goes
  <2> QED
    BY <1>3, <2>1, <2>2 DEF Single, Ended
<1> QED
  BY <1>1, <1>2, <1>3, CallFacts, LeaveFacts DEF Goes

-----------------------------------------------------------------------------
(* The steps of an activation.                                             *)

LEMMA OneBusy ==
  ASSUME Typed, Single, NEW a \in Busy
  PROVE  Busy = {a} /\ execution.status \in {"running", "paused"}
  BY Types DEF Single, Ended, Executions

LEMMA LeavesNone ==
  ASSUME Typed, Single, NEW a \in Busy, act' = [act EXCEPT ![a] = Idle]
  PROVE  Busy' = {}
<1>1. Busy = {a} /\ a \in Activations
  BY OneBusy DEF Busy
<1>2. act'[a].at = "free" /\ \A b \in Activations \ {a} : act'[b] = act[b]
  BY <1>1, LeaveFacts
<1> QED
  BY <1>1, <1>2 DEF Busy

LEMMA NodeReturnsInv ==
  ASSUME Inv, NEW a \in Activations, NodeReturns(a)
  PROVE  Inv'
<1>1. /\ Typed /\ act[a].at = "executing" /\ a \in Busy
      /\ execution' = [execution EXCEPT !.state = act[a].input \cup {act[a].node}]
      /\ act' = [act EXCEPT ![a] = [Idle EXCEPT !.at = "routing", !.node = execution.node]]
      /\ done' = done \cup {act[a].node}
      /\ UNCHANGED <<asked, approvals, runs, overlapped>>
  BY DEF Inv, NodeReturns, Busy
<1>2. /\ execution' \in Executions /\ execution'.status = execution.status
      /\ execution'.node = execution.node /\ execution'.state = act[a].input \cup {act[a].node}
      /\ act[a].node \in Nodes /\ act[a].input \subseteq done
  BY <1>1, Types DEF Typed, Executions
<1>3. /\ act' \in [Activations -> [at : {"free", "executing", "routing"}, node : Nodes \cup {None},
                                    input : SUBSET Nodes]]
      /\ act'[a].at = "routing" /\ act'[a].node = execution.node /\ act'[a].input = {}
      /\ \A b \in Activations \ {a} : act'[b] = act[b]
  <2> DEFINE here == [Idle EXCEPT !.at = "routing", !.node = execution.node]
  <2>1. /\ here \in [at : {"free", "executing", "routing"}, node : Nodes \cup {None}, input : SUBSET Nodes]
        /\ here.at = "routing" /\ here.node = execution.node /\ here.input = {}
    BY <1>1, Types DEF Idle
  <2> HIDE DEF here
  <2>2. act' = [act EXCEPT ![a] = here]
    BY <1>1 DEF here
  <2> QED
    BY <1>1, <2>1, <2>2, Types
<1>4. Busy' = Busy
  BY <1>1, <1>3 DEF Busy
<1>5. Typed' /\ RunningHasActivation'
  BY <1>1, <1>2, <1>3, <1>4, Types DEF Typed, TypeOK, RunningHasActivation, Executions
<1>6. ASSUME Single PROVE Single'
  BY <1>1, <1>2, <1>3, <1>4, <1>6 DEF Single
<1> QED
  BY <1>1, <1>5, <1>6 DEF Inv

LEMMA NodeFailsInv ==
  ASSUME Inv, NEW a \in Activations, NodeFails(a)
  PROVE  Inv'
<1>1. /\ Typed /\ a \in Busy /\ execution' = [execution EXCEPT !.status = "failed"]
      /\ act' = [act EXCEPT ![a] = Idle] /\ UNCHANGED <<asked, approvals, runs, done, overlapped>>
  BY DEF Inv, NodeFails, Leave, Busy
<1>2. /\ execution' \in Executions /\ execution'.status = "failed"
      /\ execution'.node = execution.node /\ execution'.state = execution.state
  BY <1>1, Types DEF Executions
<1>3. Typed' /\ RunningHasActivation'
  BY <1>1, <1>2, Types, LeaveFacts DEF Typed, TypeOK, Busy, RunningHasActivation, Executions
<1>4. ASSUME Single PROVE Single'
  <2>1. Busy' = {}
    BY <1>1, <1>4, LeavesNone
  <2> QED
    BY <1>1, <1>2, <1>4, <2>1 DEF Single
<1> QED
  BY <1>1, <1>3, <1>4 DEF Inv

LEMMA RoutedFacts ==
  ASSUME Typed, NEW a \in Activations, Routed(a)
  PROVE  /\ act[a].at = "routing" /\ a \in Busy /\ UNCHANGED <<done, overlapped>>
         /\ \/ \E n \in Successors(act[a].node), e \in Executions :
                 /\ e.status = execution.status /\ e.node = n /\ e.state = execution.state
                 /\ Goes(a, e)
            \/ /\ execution' \in Executions /\ execution'.status = "completed"
               /\ execution'.state = execution.state /\ execution'.node = execution.node
               /\ act' = [act EXCEPT ![a] = Idle] /\ UNCHANGED <<runs, asked, approvals>>
<1>1. act[a].at = "routing" /\ a \in Busy /\ UNCHANGED <<done, overlapped>>
  BY DEF Routed, Busy
<1>2. ASSUME NEW n \in Successors(act[a].node), Loop(a, Advance(execution, n))
      PROVE  \E e \in Executions :
               /\ e.status = execution.status /\ e.node = n /\ e.state = execution.state
               /\ Goes(a, e)
  <2>1. n \in Nodes
    BY DEF Successors
  <2>2. /\ Advance(execution, n) \in Executions /\ Advance(execution, n).node = n
        /\ Advance(execution, n).status = execution.status /\ Advance(execution, n).state = execution.state
    BY <2>1, Types DEF Advance, Executions
  <2> QED
    BY <1>2, <2>2, LoopGoes
<1>3. ASSUME execution' = [execution EXCEPT !.status = "completed"]
      PROVE  /\ execution' \in Executions /\ execution'.status = "completed"
             /\ execution'.state = execution.state /\ execution'.node = execution.node
  BY <1>3, Types DEF Executions
<1> QED
  BY <1>1, <1>2, <1>3 DEF Routed, Leave

LEMMA RoutedInv ==
  ASSUME Inv, NEW a \in Activations, Routed(a)
  PROVE  Inv'
<1>1. Typed /\ a \in Busy /\ UNCHANGED <<done, overlapped>>
  BY RoutedFacts DEF Inv
<1>2. ASSUME NEW e \in Executions, e.status = execution.status, e.state = execution.state, Goes(a, e)
      PROVE  Inv'
  <2>1. Typed' /\ RunningHasActivation'
    BY <1>1, <1>2, Types, GoesTyped DEF Typed, TypeOK
  <2>2. ASSUME Single PROVE Single'
    <3>1. Busy = {a} /\ e.status \in {"running", "paused"} /\ e.state \subseteq done
      BY <1>1, <1>2, <2>2, Types, OneBusy
    <3> QED
      BY <1>1, <1>2, <2>2, <3>1, GoesSingle DEF Single
  <2> QED
    BY <1>1, <2>1, <2>2 DEF Inv
<1>3. ASSUME execution' \in Executions, execution'.status = "completed",
             execution'.state = execution.state,
             act' = [act EXCEPT ![a] = Idle], UNCHANGED <<runs, asked, approvals>>
      PROVE  Inv'
  <2>1. Typed' /\ RunningHasActivation'
    BY <1>1, <1>3, Types, LeaveFacts DEF Typed, TypeOK, Busy, RunningHasActivation, Executions
  <2>2. ASSUME Single PROVE Single'
    <3>1. Busy' = {}
      BY <1>1, <1>3, <2>2, LeavesNone
    <3> QED
      BY <1>3, <2>2, <3>1 DEF Single
  <2> QED
    BY <1>1, <2>1, <2>2 DEF Inv
<1> QED
  BY <1>1, <1>2, <1>3, RoutedFacts

-----------------------------------------------------------------------------
(* Requests.  Only while nobody is busy do they keep activations apart.    *)

LEMMA BeginsFacts ==
  ASSUME Typed, NEW a \in Activations, Begins(a)
  PROVE  /\ a \notin Busy /\ overlapped' \in BOOLEAN
         /\ ~overlapped' => ~overlapped /\ Busy = {}
  BY DEF Typed, TypeOK, Begins, Busy

(* A start or a resumption continues with an execution that is running.    *)
LEMMA EntersFacts ==
  ASSUME Typed, NEW a \in Activations, Start(a) \/ Resume(a)
  PROVE  /\ Begins(a) /\ UNCHANGED done
         /\ execution.status \in {"none", "paused"}
         /\ \E e \in Executions :
              /\ e.status = "running" /\ Goes(a, e)
              /\ \/ execution.status = "none" /\ e.node = EntryPoint /\ e.state = {}
                 \/ execution.status = "paused" /\ e.node = execution.node /\ e.state = execution.state
<1>1. CASE Start(a)
  <2> DEFINE e == [status |-> "running", node |-> EntryPoint, state |-> {}]
  <2>1. e \in Executions /\ Loop(a, e)
    BY <1>1, GraphIsTyped DEF Start, Executions
  <2> QED
    BY <1>1, <2>1, LoopGoes DEF Start
<1>2. CASE Resume(a)
  <2> DEFINE e == [execution EXCEPT !.status = "running"]
  <2>1. e \in Executions /\ e.status = "running" /\ e.node = execution.node /\ e.state = execution.state
    BY Types DEF Executions
  <2>2. Loop(a, e) /\ execution.status = "paused"
    BY <1>2 DEF Resume, Resumable
  <2> QED
    BY <1>2, <2>1, <2>2, LoopGoes DEF Resume
<1> QED
  BY <1>1, <1>2

LEMMA EntersInv ==
  ASSUME Inv, NEW a \in Activations, Start(a) \/ Resume(a)
  PROVE  Inv'
<1>1. /\ Typed /\ UNCHANGED done /\ overlapped' \in BOOLEAN
      /\ ~overlapped' => ~overlapped /\ Busy = {}
  BY EntersFacts, BeginsFacts DEF Inv
<1>2. PICK e \in Executions :
        /\ e.status = "running" /\ Goes(a, e) /\ e.state \subseteq done
  BY <1>1, Types, EntersFacts
<1>3. Typed' /\ RunningHasActivation'
  BY <1>1, <1>2, GoesTyped
<1>4. ASSUME ~overlapped' PROVE Single'
  BY <1>1, <1>2, <1>4, GoesSingle DEF Inv, Single
<1> QED
  BY <1>3, <1>4 DEF Inv

LEMMA ApproveFacts ==
  ASSUME Typed, NEW a \in Activations, Approve(a)
  PROVE  /\ execution.status = "awaiting_approval" /\ Begins(a)
         /\ execution' \in Executions /\ execution'.status = "running"
         /\ execution'.node = execution.node /\ execution'.state = execution.state
         /\ Call(a, execution.node, execution.state) /\ UNCHANGED <<asked, done>>
         /\ approvals' = [approvals EXCEPT ![asked] = @ + 1] /\ approvals' \in [Nodes -> Nat]
<1>1. [approvals EXCEPT ![asked] = @ + 1] \in [Nodes -> Nat]
  <2>1. CASE asked \in Nodes
    BY <2>1, Types
  <2>2. CASE asked \notin Nodes
    <3>1. approvals = [n \in Nodes |-> approvals[n]] /\ \A n \in Nodes : approvals[n] \in Nat
      BY Types
    <3>2. [approvals EXCEPT ![asked] = @ + 1] = approvals
      BY <2>2, <3>1
    <3> QED
      BY <3>2, Types
  <2> QED
    BY <2>1, <2>2
<1>2. /\ [execution EXCEPT !.status = "running"] \in Executions
      /\ [execution EXCEPT !.status = "running"].status = "running"
      /\ [execution EXCEPT !.status = "running"].node = execution.node
      /\ [execution EXCEPT !.status = "running"].state = execution.state
  BY Types DEF Executions
<1> QED
  BY <1>1, <1>2 DEF Approve, Approvable

LEMMA ApproveInv ==
  ASSUME Inv, NEW a \in Activations, Approve(a)
  PROVE  Inv'
<1>1. /\ Typed /\ UNCHANGED done /\ overlapped' \in BOOLEAN
      /\ ~overlapped' => ~overlapped /\ Busy = {}
  BY ApproveFacts, BeginsFacts DEF Inv
<1>2. /\ act' \in [Activations -> [at : {"free", "executing", "routing"}, node : Nodes \cup {None},
                                    input : SUBSET Nodes]]
      /\ act'[a].at = "executing" /\ act'[a].node = execution.node /\ act'[a].input = execution.state
      /\ \A b \in Activations \ {a} : act'[b] = act[b]
      /\ runs' \in [Nodes -> Nat]
  BY <1>1, Types, ApproveFacts, CallFacts
<1>3. Typed' /\ RunningHasActivation'
  BY <1>1, <1>2, Types, ApproveFacts DEF Typed, TypeOK, Busy, RunningHasActivation, Executions
<1>4. ASSUME ~overlapped' PROVE Single'
  <2>1. Busy' = {a} /\ execution.node = asked /\ \A n \in Checkpoints : runs[n] <= approvals[n]
    BY <1>1, <1>2, <1>4, ApproveFacts DEF Inv, Busy, Single
  <2>2. ASSUME NEW n \in Checkpoints PROVE runs'[n] <= approvals'[n]
    <3>1. n \in Nodes /\ runs[n] \in Nat /\ approvals[n] \in Nat /\ runs[n] <= approvals[n]
      BY <1>1, <2>1, Types, GraphIsTyped
    <3>2. CASE n = execution.node
      BY <1>1, <2>1, <3>1, <3>2, Types, ApproveFacts, CallFacts
    <3>3. CASE n # execution.node
      BY <1>1, <2>1, <3>1, <3>3, Types, ApproveFacts, CallFacts
    <3> QED
      BY <3>2, <3>3
  <2> QED
    BY <1>1, <2>1, <2>2, ApproveFacts DEF Single, Ended
<1> QED
  BY <1>3, <1>4 DEF Inv

LEMMA StatusInv ==
  ASSUME Inv, Reject \/ Pause
  PROVE  Inv'
<1>1. /\ Typed /\ UNCHANGED <<act, asked, approvals, runs, done, overlapped>>
      /\ execution' \in Executions /\ execution'.node = execution.node /\ execution'.state = execution.state
      /\ execution'.status \in {"failed", "paused"}
      /\ execution'.status = "failed" => execution.status = "awaiting_approval"
  BY Types DEF Inv, Reject, Pause, Executions
<1>2. Typed' /\ RunningHasActivation'
  BY <1>1, Types DEF Typed, TypeOK, Busy, RunningHasActivation, Executions
<1>3. ASSUME Single PROVE Single'
  BY <1>1, <1>3 DEF Single, Busy, Ended
<1> QED
  BY <1>1, <1>2, <1>3 DEF Inv

-----------------------------------------------------------------------------
LEMMA InvInit == Init => Inv
<1> SUFFICES ASSUME Init PROVE Inv
  OBVIOUS
<1>1. Typed
  BY GraphIsTyped DEF Init, Typed, TypeOK, Idle, Busy
<1>2. Busy = {}
  BY DEF Init, Busy, Idle
<1> QED
  BY <1>1, <1>2, GraphIsTyped DEF Init, Inv, Single, RunningHasActivation

LEMMA InvStep == Inv /\ [Next]_vars => Inv'
<1> SUFFICES ASSUME Inv, [Next]_vars PROVE Inv'
  OBVIOUS
<1>1. CASE UNCHANGED vars
  BY <1>1 DEF vars, Inv, Typed, TypeOK, RunningHasActivation, Single, Busy
<1> QED
  BY <1>1, NodeReturnsInv, NodeFailsInv, RoutedInv, EntersInv, ApproveInv, StatusInv DEF Next, Step

(* Every variable keeps its type, and the state of an execution holds      *)
(* nothing but what nodes that succeeded have put there, for any graph and *)
(* any activations that overlap.                                           *)
THEOREM WorkflowTypeCorrect == Spec => []TypeOK
<1>1. Inv => TypeOK
  BY DEF Inv, Typed
<1> QED
  BY <1>1, InvInit, InvStep, PTL DEF Spec

(* An execution shown as running is worked on by an activation, whatever   *)
(* is paused, resumed, approved or rejected meanwhile.                     *)
THEOREM RunningAlwaysWorked == Spec => []RunningHasActivation
<1>1. Inv => RunningHasActivation
  BY DEF Inv
<1> QED
  BY <1>1, InvInit, InvStep, PTL DEF Spec

(* Until activations overlap, each execution of a checkpoint has an        *)
(* approval of its own, given to the announcement of this checkpoint.      *)
THEOREM ApprovalsAlwaysRight == Spec => []ApprovesWhatWasAsked
<1>1. Inv => ApprovesWhatWasAsked
  BY DEF Inv, Single, ApprovesWhatWasAsked
<1> QED
  BY <1>1, InvInit, InvStep, PTL DEF Spec

LEMMA PauseStep ==
  ASSUME Inv, [Next]_vars, execution.status = "paused", execution'.status = "paused"
  PROVE  runs' = runs
<1>1. ASSUME NEW a \in Activations, Step(a) PROVE runs' = runs
  <2>1. CASE NodeReturns(a) \/ NodeFails(a)
    BY <2>1 DEF NodeReturns, NodeFails, Leave
  <2>2. CASE Routed(a)
    BY <2>2, RoutedFacts DEF Inv, Goes
  <2> QED
    BY <1>1, <2>1, <2>2 DEF Step
<1>2. ASSUME NEW a \in Activations, Start(a) \/ Resume(a) PROVE runs' = runs
  BY <1>2, EntersFacts DEF Inv, Goes
<1>3. ASSUME NEW a \in Activations, Approve(a) PROVE runs' = runs
  BY <1>3 DEF Approve, Approvable
<1>4. CASE Reject \/ Pause \/ UNCHANGED vars
  BY <1>4 DEF Reject, Pause, vars
<1> QED
  BY <1>1, <1>2, <1>3, <1>4 DEF Next

(* Between a pause and a resumption no node's function is called, also by  *)
(* activations that were under way when the execution was paused.          *)
THEOREM PauseAlwaysHolds == Spec => PauseHolds
<1>1. Inv /\ [Next]_vars =>
        [execution.status = "paused" /\ execution'.status = "paused" => runs' = runs]_vars
  BY PauseStep
<1> QED
  BY <1>1, InvInit, InvStep, PTL DEF Spec, PauseHolds

LEMMA EndStep ==
  ASSUME Inv, [Next]_vars, execution.status \in Ended, ~overlapped
  PROVE  UNCHANGED execution
<1>1. Busy = {}
  BY DEF Inv, Single
<1>2. ASSUME NEW a \in Activations PROVE ~Step(a) /\ ~Start(a) /\ ~Approve(a) /\ ~Resume(a)
  BY <1>1 DEF Step, NodeReturns, NodeFails, Routed, Busy, Start, Approve, Approvable, Resume, Resumable, Ended
<1> QED
  BY <1>2 DEF Next, Reject, Pause, vars, Ended

(* A completion, a failure or a rejection is final until activations       *)
(* overlap.                                                                *)
THEOREM EndIsAlwaysFinal == Spec => EndIsFinal
<1>1. Inv /\ [Next]_vars => [execution.status \in Ended => UNCHANGED execution \/ overlapped]_vars
  BY EndStep
<1> QED
  BY <1>1, InvInit, InvStep, PTL DEF Spec, EndIsFinal

-----------------------------------------------------------------------------
(* Order.  In an acyclic graph every node has a rank; the nodes that have  *)
(* been called are ranked below the one the execution is at.               *)
Acyclic(rank) == rank \in [Nodes -> Nat] /\ \A m, n \in Nodes : <<m, n>> \in Edges => rank[m] < rank[n]

Entered(n) == n = EntryPoint \/ \E m \in done : <<m, n>> \in Edges

Ordered(rank) ==
  /\ execution.state = done
  /\ \A n \in Nodes : runs[n] <= 1
  /\ \A n \in Nodes : runs[n] = 1 => n = execution.node \/ rank[n] < rank[execution.node]
  /\ execution.status = "none" => done = {} /\ \A n \in Nodes : runs[n] = 0
  /\ Busy = {} /\ execution.status \in {"awaiting_approval", "paused"} =>
       runs[execution.node] = 0 /\ Entered(execution.node)
  /\ \A a \in Busy :
       /\ act[a].node = execution.node
       /\ act[a].at = "executing" => act[a].input = done /\ Entered(act[a].node)
       /\ act[a].at = "routing" => act[a].node \in done

OrderInv(rank) == Inv /\ (~overlapped => Ordered(rank))

(* What happens to the order when the one activation, a, goes on with e.   *)
LEMMA GoesOrdered ==
  ASSUME Typed, NEW rank, Acyclic(rank), NEW a \in Activations, NEW e \in Executions, Goes(a, e),
         Busy \subseteq {a}, UNCHANGED done, e.state = done, e.status \in {"running", "paused", "failed", "completed"},
         \A n \in Nodes : runs[n] <= 1,
         \A n \in Nodes : runs[n] = 1 => rank[n] < rank[e.node],
         runs[e.node] = 0, Entered(e.node)
  PROVE  Ordered(rank)'
<1>1. e.node \in Nodes /\ Entered(e.node)'
  BY DEF Executions, Entered
<1>2. CASE act' = [act EXCEPT ![a] = Idle] /\ UNCHANGED runs /\ execution'.node = e.node
           /\ execution'.state = e.state /\ execution'.status # "none"
  <2>1. Busy' = {}
    BY <1>2, LeaveFacts DEF Busy
  <2> QED
    BY <1>1, <1>2, <2>1 DEF Ordered
<1>3. CASE Call(a, e.node, e.state) /\ execution' = e
  <2>1. /\ Busy' = {a} /\ act'[a].node = e.node /\ act'[a].at = "executing" /\ act'[a].input = done
        /\ runs'[e.node] = runs[e.node] + 1 /\ \A m \in Nodes \ {e.node} : runs'[m] = runs[m]
    BY <1>1, <1>3, CallFacts DEF Busy
  <2> QED
    BY <1>1, <1>3, <2>1 DEF Ordered
<1> QED
  BY <1>2, <1>3 DEF Goes

LEMMA OrderStep ==
  ASSUME Typed, RunningHasActivation, Single, NEW rank, Acyclic(rank), Ordered(rank), ~overlapped', [Next]_vars
  PROVE  Ordered(rank)'
<1>1. /\ execution \in Executions /\ execution.node \in Nodes /\ runs \in [Nodes -> Nat]
      /\ \A n \in Nodes : rank[n] \in Nat
  BY Types DEF Acyclic
<1>2. ASSUME NEW a \in Activations, NodeReturns(a) PROVE Ordered(rank)'
  <2>1. /\ act[a].at = "executing" /\ Busy = {a} /\ UNCHANGED runs
        /\ execution' = [execution EXCEPT !.state = act[a].input \cup {act[a].node}]
        /\ act' = [act EXCEPT ![a] = [Idle EXCEPT !.at = "routing", !.node = execution.node]]
        /\ done' = done \cup {act[a].node}
    BY <1>2, OneBusy DEF NodeReturns, Busy
  <2>2. act[a].node = execution.node /\ act[a].input = done
    BY <2>1 DEF Ordered
  <2>3. /\ execution'.status = execution.status /\ execution'.node = execution.node
        /\ execution'.state = done'
    BY <1>1, <2>1, <2>2 DEF Executions
  <2>4. act'[a].at = "routing" /\ act'[a].node = execution.node /\ \A b \in Activations \ {a} : act'[b] = act[b]
    BY <2>1, Types DEF Idle
  <2>5. Busy' = {a}
    BY <2>1, <2>4 DEF Busy
  <2>6. execution.status # "none"
    BY <2>1, OneBusy
  <2> QED
    BY <2>1, <2>2, <2>3, <2>4, <2>5, <2>6 DEF Ordered
<1>3. ASSUME NEW a \in Activations, NodeFails(a) PROVE Ordered(rank)'
  <2>1. /\ a \in Busy /\ act' = [act EXCEPT ![a] = Idle] /\ UNCHANGED <<runs, done>>
        /\ execution' = [execution EXCEPT !.status = "failed"]
    BY <1>3 DEF NodeFails, Leave, Busy
  <2>2. execution'.status = "failed" /\ execution'.node = execution.node /\ execution'.state = execution.state
    BY <1>1, <2>1 DEF Executions
  <2>3. Busy' = {}
    BY <2>1, LeavesNone
  <2> QED
    BY <2>1, <2>2, <2>3 DEF Ordered
<1>4. ASSUME NEW a \in Activations, Routed(a) PROVE Ordered(rank)'
  <2>1. /\ act[a].at = "routing" /\ a \in Busy /\ UNCHANGED done
    BY <1>4, RoutedFacts
  <2>2. Busy = {a} /\ execution.status \in {"running", "paused"}
    BY <2>1, OneBusy
  <2>3. act[a].node = execution.node /\ act[a].node \in done
    BY <2>1 DEF Ordered
  <2>4. ASSUME NEW n \in Successors(act[a].node), NEW e \in Executions,
               e.status = execution.status, e.node = n, e.state = execution.state, Goes(a, e)
        PROVE  Ordered(rank)'
    <3>1. n \in Nodes /\ <<execution.node, n>> \in Edges /\ rank[execution.node] < rank[n] /\ Entered(n)
      BY <1>1, <2>3 DEF Successors, Acyclic, Entered
    <3>2. \A m \in Nodes : runs[m] = 1 => rank[m] < rank[n]
      BY <1>1, <3>1 DEF Ordered
    <3>3. \A m \in Nodes : runs[m] <= 1
      BY DEF Ordered
    <3>4. runs[n] = 0 /\ e.state = done
      BY <1>1, <2>4, <3>1, <3>2, <3>3 DEF Ordered
    <3> QED
      BY <2>1, <2>2, <2>4, <3>1, <3>2, <3>3, <3>4, GoesOrdered
  <2>5. ASSUME execution'.status = "completed", execution'.state = execution.state,
               execution'.node = execution.node,
               act' = [act EXCEPT ![a] = Idle], UNCHANGED runs
        PROVE  Ordered(rank)'
    <3>1. Busy' = {}
      BY <2>1, <2>5, LeavesNone
    <3> QED
      BY <2>1, <2>5, <3>1 DEF Ordered
  <2> QED
    BY <1>4, <2>4, <2>5, RoutedFacts
<1>5. ASSUME NEW a \in Activations, Start(a) \/ Resume(a) PROVE Ordered(rank)'
  <2>1. Begins(a) /\ UNCHANGED done /\ Busy = {}
    BY <1>5, EntersFacts, BeginsFacts
  <2>2. PICK e \in Executions :
          /\ e.status = "running" /\ Goes(a, e)
          /\ \/ execution.status = "none" /\ e.node = EntryPoint /\ e.state = {}
             \/ execution.status = "paused" /\ e.node = execution.node /\ e.state = execution.state
    BY <1>5, EntersFacts
  <2>3. /\ runs[e.node] = 0 /\ Entered(e.node) /\ e.state = done
        /\ \A n \in Nodes : runs[n] = 1 => rank[n] < rank[e.node]
    BY <1>1, <2>1, <2>2, GraphIsTyped DEF Ordered, Entered
  <2>4. \A n \in Nodes : runs[n] <= 1
    BY DEF Ordered
  <2> QED
    BY <2>1, <2>2, <2>3, <2>4, GoesOrdered
<1>6. ASSUME NEW a \in Activations, Approve(a) PROVE Ordered(rank)'
  <2>1. /\ execution.status = "awaiting_approval" /\ Begins(a) /\ Busy = {}
        /\ execution' \in Executions /\ execution'.status = "running"
        /\ execution'.node = execution.node /\ execution'.state = execution.state
        /\ Call(a, execution.node, execution.state) /\ UNCHANGED <<asked, done>>
    BY <1>6, ApproveFacts, BeginsFacts
  <2>2. runs[execution.node] = 0 /\ Entered(execution.node)' /\ execution.state = done
    BY <2>1 DEF Ordered, Entered
  <2>3. /\ act'[a].at = "executing" /\ act'[a].node = execution.node /\ act'[a].input = done
        /\ \A b \in Activations \ {a} : act'[b] = act[b]
        /\ runs'[execution.node] = 1 /\ \A m \in Nodes \ {execution.node} : runs'[m] = runs[m]
    BY <1>1, <2>1, <2>2, Types, CallFacts
  <2>4. Busy' = {a}
    BY <2>1, <2>3 DEF Busy
  <2> QED
    BY <1>1, <2>1, <2>2, <2>3, <2>4 DEF Ordered
<1>7. CASE Reject \/ Pause
  <2>1. /\ act' = act /\ runs' = runs /\ done' = done
        /\ execution'.node = execution.node /\ execution'.state = execution.state
        /\ \/ execution'.status = "failed"
           \/ execution'.status = "paused" /\ execution.status = "running"
    <3>1. PICK status \in {"failed", "paused"} :
            /\ execution' = [execution EXCEPT !.status = status]
            /\ status = "paused" => execution.status = "running"
      BY <1>7 DEF Reject, Pause
    <3>2. UNCHANGED <<act, runs, done>>
      BY <1>7 DEF Reject, Pause
    <3>3. /\ execution'.node = execution.node /\ execution'.state = execution.state
          /\ execution'.status = status
      BY <1>1, <3>1 DEF Executions
    <3> QED
      BY <3>1, <3>2, <3>3
  <2>2. Busy' = Busy /\ \A n : Entered(n)' <=> Entered(n)
    BY <2>1 DEF Busy, Entered
  <2>3. execution'.status = "paused" => Busy # {}
    BY <2>1 DEF RunningHasActivation
  <2> QED
    BY <2>1, <2>2, <2>3 DEF Ordered
<1>8. CASE UNCHANGED vars
  BY <1>8 DEF vars, Ordered, Busy, Entered
<1> QED
  BY <1>2, <1>3, <1>4, <1>5, <1>6, <1>7, <1>8 DEF Next, Step

LEMMA OverlapStays ==
  ASSUME Inv, [Next]_vars, ~overlapped'
  PROVE  ~overlapped
  BY EntersFacts, ApproveFacts, BeginsFacts
     DEF Inv, Next, Step, NodeReturns, NodeFails, Routed, Reject, Pause, vars

(* In every acyclic workflow, and until activations overlap, a node is     *)
(* executed once at most and only after a predecessor, and nothing that a  *)
(* node put into the state is lost.                                        *)
THEOREM AlwaysInOrder ==
  ASSUME NEW CONSTANT rank, Acyclic(rank)
  PROVE  Spec => []EachOnceInOrder
<1>1. Init => OrderInv(rank)
  <2> SUFFICES ASSUME Init PROVE OrderInv(rank)
    OBVIOUS
  <2>1. Busy = {}
    BY DEF Init, Busy, Idle
  <2> QED
    BY <2>1, InvInit DEF Init, OrderInv, Ordered
<1>2. OrderInv(rank) /\ [Next]_vars => OrderInv(rank)'
  <2> SUFFICES ASSUME OrderInv(rank), [Next]_vars PROVE OrderInv(rank)'
    OBVIOUS
  <2>1. Inv /\ Inv'
    BY InvStep DEF OrderInv
  <2>2. ASSUME ~overlapped' PROVE Ordered(rank)'
    BY <2>1, <2>2, OverlapStays, OrderStep DEF OrderInv, Inv
  <2> QED
    BY <2>1, <2>2 DEF OrderInv
<1>3. OrderInv(rank) => EachOnceInOrder
  BY DEF OrderInv, Ordered, Entered, EachOnceInOrder
<1> QED
  BY <1>1, <1>2, <1>3, PTL DEF Spec
=============================================================================
