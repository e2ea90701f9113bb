-------------------------- MODULE GoWorkflowProofs --------------------------
(***************************************************************************)
(* Proofs about GoWorkflow for every set of steps and runs and every set   *)
(* of graphs, first with its sort in one step, then with the search.       *)
(***************************************************************************)
EXTENDS GoTopologicalSort, TLAPS

(* Where the goroutines of a run can be in each phase of it.               *)
PhaseOK(r) ==
  /\ phase[r] \in {"idle", "sorting"} => \A s \in Steps : at[r][s] = "none"
  /\ phase[r] \in {"running", "returned"} =>
       IF Sortable THEN \A s \in Steps : at[r][s] # "none" ELSE \A s \in Steps : at[r][s] = "none"
  /\ phase[r] = "running" => Sortable
  /\ phase[r] = "returned" /\ Sortable => \A s \in Steps : at[r][s] = "closed"
  /\ cancelled[r] => MayCancel

(* A goroutine has passed the dependencies before its pending one, each of *)
(* them closed, and all of them when its step began.                       *)
StepOK(r, s) ==
  /\ at[r][s] \notin {"closing", "closed"} => outcome[r][s] = "none"
  /\ Began(r, s) => pending[r][s] > Len(deps[s])
  /\ \A i \in DOMAIN deps[s] :
       i < pending[r][s] => deps[s][i] \in Steps /\ at[r][deps[s][i]] = "closed"

IInv == TypeOK /\ \A r \in Runs : PhaseOK(r) /\ \A s \in Steps : StepOK(r, s)

-----------------------------------------------------------------------------
(* A goroutine moves alone.                                                *)
LEMMA MoveFacts ==
  ASSUME TypeOK, NEW r \in Runs, NEW s \in Steps, NEW place \in Places, Move(r, s, place)
  PROVE  /\ at' \in [Runs -> [Steps -> Places]]
         /\ \A q \in Runs, t \in Steps :
              at'[q][t] = IF q = r /\ t = s THEN place ELSE at[q][t]
  BY DEF TypeOK, Move

(* Updating one entry of a table of runs and steps.                        *)
LEMMA RowUpdate ==
  ASSUME NEW V, NEW f \in [Runs -> [Steps -> V]], NEW r \in Runs, NEW s \in Steps, NEW v \in V
  PROVE  /\ [f EXCEPT ![r][s] = v] \in [Runs -> [Steps -> V]]
         /\ \A q \in Runs, t \in Steps :
              [f EXCEPT ![r][s] = v][q][t] = IF q = r /\ t = s THEN v ELSE f[q][t]
  OBVIOUS

(* The dependency lists are lists, and their entries are ids.              *)
LEMMA ListFacts ==
  ASSUME TypeOK, NEW s \in Steps
  PROVE  /\ Len(deps[s]) \in Nat /\ DOMAIN deps[s] = 1..Len(deps[s])
         /\ \A i \in DOMAIN deps[s] : deps[s][i] \in Ids(s)
         /\ \A d \in Ids(s) : \E i \in DOMAIN deps[s] : deps[s][i] = d
  BY GraphsAreLists DEF TypeOK, Ids

LEMMA SortableFacts ==
  ASSUME Sortable, NEW s \in Steps
  PROVE  Ids(s) \subseteq Steps
  BY DEF Sortable

(* An action of one goroutine that leaves the graph, the phases and the    *)
(* cancellations alone needs to be checked at that goroutine only, as long *)
(* as no closed goroutine moves.                                           *)
LEMMA OneGoroutine ==
  ASSUME IInv, NEW r \in Runs, NEW s \in Steps, TypeOK',
         UNCHANGED <<deps, phase, cancelled>>,
         at[r][s] \notin {"none", "closed"}, at'[r][s] # "none",
         \A q \in Runs, t \in Steps : q # r \/ t # s =>
           at'[q][t] = at[q][t] /\ outcome'[q][t] = outcome[q][t]
           /\ pending'[q][t] = pending[q][t],
         StepOK(r, s)'
  PROVE  IInv'
<1>1. Sortable' <=> Sortable
  BY DEF Sortable, Ids
<1>2. ASSUME NEW q \in Runs PROVE PhaseOK(q)'
  BY <1>1 DEF IInv, PhaseOK
<1>3. ASSUME NEW q \in Runs, NEW t \in Steps, q # r \/ t # s PROVE StepOK(q, t)'
  <2>1. StepOK(q, t)
    BY DEF IInv
  <2>2. at'[q][t] = at[q][t] /\ outcome'[q][t] = outcome[q][t]
        /\ pending'[q][t] = pending[q][t] /\ deps' = deps
    BY <1>3
  <2>3. \A d \in Steps : at[q][d] = "closed" => at'[q][d] = "closed"
    BY <1>3
  <2> QED
    BY <2>1, <2>2, <2>3 DEF StepOK, Began
<1> QED
  BY <1>2, <1>3 DEF IInv

LEMMA BeginKeepsIInv ==
  ASSUME IInv, NEW r \in Runs, Begin(r)
  PROVE  IInv'
<1>1. /\ phase[r] = "idle" /\ phase' = [phase EXCEPT ![r] = "sorting"] /\ overall' = "running"
      /\ UNCHANGED <<deps, status, cancelled, at, pending, outcome>>
  BY DEF Begin
<1>2. TypeOK'
  BY <1>1 DEF IInv, TypeOK, Statuses
<1>3. Sortable' <=> Sortable
  BY <1>1 DEF Sortable, Ids
<1>4. ASSUME NEW q \in Runs PROVE PhaseOK(q)'
  BY <1>1, <1>3 DEF IInv, PhaseOK, TypeOK
<1>5. ASSUME NEW q \in Runs, NEW t \in Steps PROVE StepOK(q, t)'
  BY <1>1 DEF IInv, StepOK, Began
<1> QED
  BY <1>2, <1>4, <1>5 DEF IInv

LEMMA SortKeepsIInv ==
  ASSUME IInv, NEW r \in Runs, Sort(r)
  PROVE  IInv'
<1>1. /\ phase[r] = "sorting"
      /\ UNCHANGED <<deps, status, cancelled, pending, outcome>>
      /\ phase' \in [Runs -> {"idle", "sorting", "running", "returned"}]
      /\ at' \in [Runs -> [Steps -> Places]] /\ overall' \in Statuses \ {"skipped"}
      /\ phase'[r] = IF Sortable THEN "running" ELSE "returned"
      /\ \A s \in Steps : at'[r][s] = IF Sortable THEN "waiting" ELSE at[r][s]
      /\ \A q \in Runs \ {r} : phase'[q] = phase[q] /\ at'[q] = at[q]
  <2>1. CASE Sortable
    <3>1. /\ phase' = [phase EXCEPT ![r] = "running"] /\ phase[r] = "sorting"
          /\ at' = [at EXCEPT ![r] = [s \in Steps |-> "waiting"]]
          /\ UNCHANGED <<deps, status, cancelled, pending, outcome, overall>>
      BY <2>1 DEF Sort
    <3> QED
      BY <2>1, <3>1 DEF IInv, TypeOK, Places
  <2>2. CASE ~Sortable
    <3>1. /\ phase' = [phase EXCEPT ![r] = "returned"] /\ phase[r] = "sorting"
          /\ overall' = "failed" /\ UNCHANGED <<deps, status, cancelled, pending, outcome, at>>
      BY <2>2 DEF Sort
    <3> QED
      BY <2>2, <3>1 DEF IInv, TypeOK, Statuses
  <2> QED
    BY <2>1, <2>2
<1>2. TypeOK'
  BY <1>1 DEF IInv, TypeOK
<1>3. Sortable' <=> Sortable
  BY <1>1 DEF Sortable, Ids
<1>4. \A s \in Steps : at[r][s] = "none"
  BY <1>1 DEF IInv, PhaseOK
<1>5. ASSUME NEW q \in Runs PROVE PhaseOK(q)'
  <2>1. CASE q = r
    BY <1>1, <1>3, <1>4, <2>1 DEF IInv, PhaseOK
  <2>2. CASE q # r
    BY <1>1, <1>3, <2>2 DEF IInv, PhaseOK
  <2> QED
    BY <2>1, <2>2
<1>6. ASSUME NEW q \in Runs, NEW t \in Steps PROVE StepOK(q, t)'
  <2>1. CASE q = r
    BY <1>1, <1>4, <2>1 DEF IInv, StepOK, Began
  <2>2. CASE q # r
    BY <1>1, <2>2 DEF IInv, StepOK, Began
  <2> QED
    BY <2>1, <2>2
<1> QED
  BY <1>2, <1>5, <1>6 DEF IInv

LEMMA AwaitKeepsIInv ==
  ASSUME IInv, NEW r \in Runs, NEW s \in Steps, Await(r, s)
  PROVE  IInv'
<1> DEFINE p == pending[r][s]
           d == deps[s][p]
<1>1. /\ at[r][s] = "waiting" /\ p <= Len(deps[s]) /\ at[r][d] = "closed"
      /\ UNCHANGED <<deps, status, overall, phase, cancelled, outcome>>
  BY DEF Await, WaitOver
<1>2. p \in Nat \ {0} /\ p \in DOMAIN deps[s] /\ d \in Steps
  <2>1. p \in Nat \ {0}
    BY DEF IInv, TypeOK
  <2>2. p \in DOMAIN deps[s]
    BY <1>1, <2>1, ListFacts DEF IInv
  <2>3. Sortable
    BY <1>1 DEF IInv, PhaseOK, TypeOK
  <2> QED
    BY <2>1, <2>2, <2>3, ListFacts, SortableFacts DEF IInv
<1>3. CASE DependencyFailed(s, d)
  <2>1. Move(r, s, "skipping") /\ UNCHANGED pending
    BY <1>3 DEF Await
  <2>2. /\ at' \in [Runs -> [Steps -> Places]]
        /\ \A q \in Runs, t \in Steps :
             at'[q][t] = IF q = r /\ t = s THEN "skipping" ELSE at[q][t]
    BY <2>1, MoveFacts DEF IInv, Places
  <2>3. TypeOK'
    BY <1>1, <2>1, <2>2 DEF IInv, TypeOK
  <2>4. StepOK(r, s)'
    BY <1>1, <2>1, <2>2 DEF IInv, StepOK, Began
  <2> QED
    BY <1>1, <2>1, <2>2, <2>3, <2>4, OneGoroutine
<1>4. CASE ~DependencyFailed(s, d)
  <2> DEFINE n == p + 1
  <2>1. pending' = [pending EXCEPT ![r][s] = n] /\ UNCHANGED at
    BY <1>4 DEF Await
  <2>2. /\ pending' \in [Runs -> [Steps -> Nat \ {0}]]
        /\ pending'[r][s] = p + 1
        /\ \A q \in Runs, t \in Steps : q # r \/ t # s => pending'[q][t] = pending[q][t]
    <3>1. pending \in [Runs -> [Steps -> Nat \ {0}]]
      BY DEF IInv, TypeOK
    <3>2. n \in Nat \ {0} /\ n = p + 1
      BY <1>2
    <3> HIDE DEF n, p
    <3> QED
      BY <2>1, <3>1, <3>2, RowUpdate
  <2>3. TypeOK'
    BY <1>1, <2>1, <2>2 DEF IInv, TypeOK
  <2>4. StepOK(r, s)'
    <3>1. StepOK(r, s)
      BY DEF IInv
    <3>2. \A i \in DOMAIN deps[s] : i < p + 1 => i < p \/ i = p
      BY <1>2, ListFacts DEF IInv
    <3> HIDE DEF p
    <3>3. \A i \in DOMAIN deps[s] : i < p + 1 => deps[s][i] \in Steps /\ at[r][deps[s][i]] = "closed"
      BY <1>1, <1>2, <3>1, <3>2 DEF StepOK, p
    <3> QED
      BY <1>1, <2>1, <2>2, <3>1, <3>3 DEF StepOK, Began
  <2> QED
    BY <1>1, <2>1, <2>2, <2>3, <2>4, OneGoroutine
<1> QED
  BY <1>3, <1>4

(* A goroutine that marks its step skipped, starts it or closes its        *)
(* channel: neither its outcome nor its pending dependency changes.        *)
LEMMA MovingOnKeepsIInv ==
  ASSUME IInv, NEW r \in Runs, NEW s \in Steps, NEW place \in {"executing", "closing", "closed"},
         at[r][s] \notin {"none", "closed"}, Move(r, s, place), status' \in [Steps -> Statuses],
         UNCHANGED <<deps, overall, phase, cancelled, pending, outcome>>,
         place = "executing" => at[r][s] = "waiting" /\ pending[r][s] > Len(deps[s])
  PROVE  IInv'
<1>1. /\ at' \in [Runs -> [Steps -> Places]]
      /\ \A q \in Runs, t \in Steps : at'[q][t] = IF q = r /\ t = s THEN place ELSE at[q][t]
  BY MoveFacts DEF IInv, Places
<1>2. TypeOK'
  BY <1>1 DEF IInv, TypeOK
<1>3. StepOK(r, s)'
  <2>1. StepOK(r, s)
    BY DEF IInv
  <2>2. \A t \in Steps : at[r][t] = "closed" => at'[r][t] = "closed"
    BY <1>1
  <2> QED
    BY <1>1, <2>1, <2>2 DEF StepOK, Began
<1> QED
  BY <1>1, <1>2, <1>3, OneGoroutine

LEMMA FinishKeepsIInv ==
  ASSUME IInv, NEW r \in Runs, NEW s \in Steps, NEW how \in {"completed", "failed"},
         Finish(r, s, how)
  PROVE  IInv'
<1>1. /\ at[r][s] = "executing" /\ Move(r, s, "closing")
      /\ status' = [status EXCEPT ![s] = how]
      /\ outcome' = [outcome EXCEPT ![r][s] = how]
      /\ UNCHANGED <<deps, overall, phase, cancelled, pending>>
  BY DEF Finish
<1>2. /\ at' \in [Runs -> [Steps -> Places]]
      /\ \A q \in Runs, t \in Steps : at'[q][t] = IF q = r /\ t = s THEN "closing" ELSE at[q][t]
  BY <1>1, MoveFacts DEF IInv, Places
<1>3. /\ outcome' \in [Runs -> [Steps -> {"none", "completed", "failed"}]]
      /\ \A q \in Runs, t \in Steps :
           outcome'[q][t] = IF q = r /\ t = s THEN how ELSE outcome[q][t]
  BY <1>1 DEF IInv, TypeOK
<1>4. TypeOK'
  BY <1>1, <1>2, <1>3 DEF IInv, TypeOK, Statuses
<1>5. StepOK(r, s)'
  <2>1. StepOK(r, s)
    BY DEF IInv
  <2>2. \A t \in Steps : at[r][t] = "closed" => at'[r][t] = "closed"
    BY <1>1, <1>2
  <2> QED
    BY <1>1, <1>2, <1>3, <2>1, <2>2 DEF StepOK, Began
<1> QED
  BY <1>1, <1>2, <1>3, <1>4, <1>5, OneGoroutine

LEMMA StepOfKeepsIInv ==
  ASSUME IInv, NEW r \in Runs, NEW s \in Steps, StepOf(r, s)
  PROVE  IInv'
<1>1. status \in [Steps -> Statuses]
  BY DEF IInv, TypeOK
<1>2. CASE Skip(r, s) \/ GiveUp(r, s) \/ Execute(r, s) \/ Close(r, s)
  <2>1. status' \in [Steps -> Statuses]
    BY <1>1, <1>2 DEF Skip, GiveUp, Execute, Close, Statuses
  <2> QED
    BY <1>2, <2>1, MovingOnKeepsIInv DEF Skip, GiveUp, Execute, Close
<1> QED
  BY <1>2, AwaitKeepsIInv, FinishKeepsIInv DEF StepOf

LEMMA ReturnKeepsIInv ==
  ASSUME IInv, NEW r \in Runs, Return(r)
  PROVE  IInv'
<1>1. /\ phase[r] = "running" /\ \A s \in Steps : at[r][s] = "closed"
      /\ phase' = [phase EXCEPT ![r] = "returned"] /\ overall' \in {"completed", "failed"}
      /\ UNCHANGED <<deps, status, cancelled, at, pending, outcome>>
  BY DEF Return, AllClosed
<1>2. TypeOK'
  BY <1>1 DEF IInv, TypeOK, Statuses
<1>3. Sortable' <=> Sortable
  BY <1>1 DEF Sortable, Ids
<1>4. ASSUME NEW q \in Runs PROVE PhaseOK(q)'
  BY <1>1, <1>3 DEF IInv, PhaseOK, TypeOK
<1>5. ASSUME NEW q \in Runs, NEW t \in Steps PROVE StepOK(q, t)'
  BY <1>1 DEF IInv, StepOK, Began
<1> QED
  BY <1>2, <1>4, <1>5 DEF IInv

LEMMA CancelKeepsIInv ==
  ASSUME IInv, NEW r \in Runs, Cancel(r)
  PROVE  IInv'
<1>1. /\ MayCancel /\ cancelled' = [cancelled EXCEPT ![r] = TRUE]
      /\ UNCHANGED <<deps, status, overall, phase, at, pending, outcome>>
  BY DEF Cancel
<1>2. TypeOK'
  BY <1>1 DEF IInv, TypeOK
<1>3. Sortable' <=> Sortable
  BY <1>1 DEF Sortable, Ids
<1>4. ASSUME NEW q \in Runs PROVE PhaseOK(q)'
  BY <1>1, <1>3 DEF IInv, PhaseOK
<1>5. ASSUME NEW q \in Runs, NEW t \in Steps PROVE StepOK(q, t)'
  BY <1>1 DEF IInv, StepOK, Began
<1> QED
  BY <1>2, <1>4, <1>5 DEF IInv

LEMMA InitGivesIInv == Init => IInv
<1> SUFFICES ASSUME Init PROVE IInv
  OBVIOUS
<1>1. TypeOK
  BY DEF Init, TypeOK, Statuses, Places
<1>2. ASSUME NEW q \in Runs PROVE PhaseOK(q)
  BY DEF Init, PhaseOK
<1>3. ASSUME NEW q \in Runs, NEW t \in Steps PROVE StepOK(q, t)
  BY <1>1, ListFacts DEF Init, StepOK, Began
<1> QED
  BY <1>1, <1>2, <1>3 DEF IInv

LEMMA NextKeepsIInv == IInv /\ [Next]_vars => IInv'
<1> SUFFICES ASSUME IInv, [Next]_vars PROVE IInv'
  OBVIOUS
<1>1. ASSUME NEW r \in Runs, Begin(r) \/ Cancel(r) \/ RunOf(r) PROVE IInv'
  BY <1>1, BeginKeepsIInv, CancelKeepsIInv, SortKeepsIInv, ReturnKeepsIInv, StepOfKeepsIInv
  DEF RunOf
<1>2. CASE UNCHANGED vars
  <2>1. Sortable' <=> Sortable
    BY <1>2 DEF vars, Sortable, Ids
  <2> QED
    BY <1>2, <2>1 DEF vars, IInv, TypeOK, PhaseOK, StepOK, Began
<1> QED
  BY <1>1, <1>2 DEF Next

LEMMA Invariance == Spec => []IInv
  BY InitGivesIInv, NextKeepsIInv, PTL DEF Spec

(* Every variable keeps its type, for any workflow and any number of runs. *)
THEOREM WorkflowTypeCorrect == Spec => []TypeOK
<1>1. IInv => TypeOK
  BY DEF IInv
<1> QED
  BY <1>1, Invariance, PTL

(* For every graph and any number of overlapping runs, a step executes     *)
(* only when all its dependencies are over in the same run.                *)
THEOREM DependenciesAlwaysFirst == Spec => []DependenciesFirst
<1>1. IInv => DependenciesFirst
  <2> SUFFICES ASSUME IInv, NEW r \in Runs, NEW s \in Steps, Began(r, s)
               PROVE  Sortable /\ \A d \in Ids(s) : at[r][d] = "closed"
    BY DEF DependenciesFirst
  <2>1. at[r][s] # "none" /\ pending[r][s] > Len(deps[s])
    BY DEF IInv, StepOK, Began
  <2>2. Sortable
    BY <2>1 DEF IInv, PhaseOK, TypeOK
  <2>3. \A i \in DOMAIN deps[s] : i < pending[r][s]
    BY <2>1, ListFacts DEF IInv, TypeOK
  <2> QED
    BY <2>2, <2>3, ListFacts DEF IInv, StepOK
<1> QED
  BY <1>1, Invariance, PTL

-----------------------------------------------------------------------------
(***************************************************************************)
(* What GoWorkflow guarantees when the runs of a workflow do not overlap:  *)
(* the status of a step can be trusted, and a run keeps the promise of     *)
(* DagRun.                                                                 *)
(***************************************************************************)

Alone == \A q, r \in Runs : UnderWay(q) /\ UnderWay(r) => q = r

(* In the run under way, the status of a step that is over is its outcome. *)
StatusIsOutcome(r, s) ==
  phase[r] = "running" /\ at[r][s] \in {"closing", "closed"} =>
    /\ status[s] \in {"completed", "failed", "skipped"}
    /\ status[s] = "failed" <=> outcome[r][s] = "failed"

(* A step is skipped because of a failure, and passes none.                *)
FailuresSeen(r, s) ==
  /\ at[r][s] = "skipping" => \E d \in Ids(s) : d \in Steps /\ outcome[r][d] = "failed"
  /\ \A i \in DOMAIN deps[s] : i < pending[r][s] => outcome[r][deps[s][i]] # "failed"

SerialInv ==
  /\ IInv
  /\ Alone
  /\ \A r \in Runs, s \in Steps : StatusIsOutcome(r, s) /\ FailuresSeen(r, s)
  /\ overall \in {"completed", "failed"} => \A r \in Runs : ~UnderWay(r)
  /\ ~Sortable => \A s \in Steps : status[s] = "pending"
  /\ OverallIsHonest

-----------------------------------------------------------------------------
(* A goroutine that moves belongs to the run under way.                    *)
LEMMA GoroutineRuns ==
  ASSUME IInv, NEW r \in Runs, NEW s \in Steps, at[r][s] \notin {"none", "closed"}
  PROVE  phase[r] = "running" /\ UnderWay(r) /\ Sortable
  BY DEF IInv, PhaseOK, TypeOK, UnderWay

(* A step of one goroutine keeps the invariant if it does so for that      *)
(* goroutine: the status of another step, and the outcome of a step that   *)
(* another goroutine has passed, do not change.                            *)
LEMMA SerialOneGoroutine ==
  ASSUME SerialInv, IInv', NEW r \in Runs, NEW s \in Steps,
         UNCHANGED <<deps, overall, phase, cancelled>>,
         at[r][s] \notin {"none", "closed"},
         \A q \in Runs, t \in Steps : q # r \/ t # s =>
           at'[q][t] = at[q][t] /\ outcome'[q][t] = outcome[q][t]
           /\ pending'[q][t] = pending[q][t],
         at[r][s] \in {"closing"} \/ outcome[r][s] = "none",
         at[r][s] = "closing" => outcome'[r][s] = outcome[r][s],
         \A t \in Steps \ {s} : status'[t] = status[t],
         StatusIsOutcome(r, s)', FailuresSeen(r, s)'
  PROVE  SerialInv'
<1>1. phase[r] = "running" /\ UnderWay(r) /\ Sortable
  BY GoroutineRuns DEF SerialInv
<1>2. (Sortable' <=> Sortable) /\ \A t \in Steps : Ids(t)' = Ids(t)
  BY DEF Sortable, Ids
<1>3. Alone' /\ (overall' \in {"completed", "failed"} => \A q \in Runs : ~UnderWay(q)')
  BY DEF SerialInv, Alone, UnderWay
<1>4. OverallIsHonest'
  BY <1>1 DEF SerialInv, OverallIsHonest
<1>5. ASSUME NEW q \in Runs, NEW t \in Steps, q # r \/ t # s
      PROVE  StatusIsOutcome(q, t)'
  <2>1. phase[q] = "running" => q = r
    BY <1>1 DEF SerialInv, Alone, UnderWay
  <2>2. StatusIsOutcome(q, t)
    BY DEF SerialInv
  <2> QED
    BY <1>5, <2>1, <2>2 DEF StatusIsOutcome
<1>6. ASSUME NEW q \in Runs, NEW t \in Steps, q # r \/ t # s
      PROVE  FailuresSeen(q, t)'
  <2>1. FailuresSeen(q, t) /\ StepOK(q, t)
    BY DEF SerialInv, IInv
  <2>2. \A d \in Steps : outcome[q][d] = "failed" => outcome'[q][d] = "failed"
    OBVIOUS
  <2>3. ASSUME NEW i \in DOMAIN deps[t], i < pending[q][t]
        PROVE  outcome'[q][deps[t][i]] # "failed"
    <3>1. deps[t][i] \in Steps /\ at[q][deps[t][i]] = "closed" /\ outcome[q][deps[t][i]] # "failed"
      BY <2>1, <2>3 DEF StepOK, FailuresSeen
    <3> QED
      BY <3>1
  <2>4. at'[q][t] = at[q][t] /\ pending'[q][t] = pending[q][t] /\ deps' = deps
    BY <1>6
  <2> QED
    BY <1>2, <2>1, <2>2, <2>3, <2>4 DEF FailuresSeen
<1> QED
  BY <1>1, <1>2, <1>3, <1>4, <1>5, <1>6 DEF SerialInv

LEMMA SerialBegin ==
  ASSUME SerialInv, IInv', ~MayOverlap, NEW r \in Runs, Begin(r)
  PROVE  SerialInv'
<1>1. /\ phase[r] = "idle" /\ phase' = [phase EXCEPT ![r] = "sorting"] /\ overall' = "running"
      /\ \A q \in Runs : ~UnderWay(q)
      /\ UNCHANGED <<deps, status, cancelled, at, pending, outcome>>
  BY DEF Begin
<1>2. (Sortable' <=> Sortable) /\ \A t \in Steps : Ids(t)' = Ids(t)
  BY <1>1 DEF Sortable, Ids
<1>3. \A q \in Runs : phase'[q] = IF q = r THEN "sorting" ELSE phase[q]
  BY <1>1 DEF SerialInv, IInv, TypeOK
<1>4. Alone'
  BY <1>1, <1>3 DEF Alone, UnderWay
<1>5. ASSUME NEW q \in Runs, NEW t \in Steps PROVE StatusIsOutcome(q, t)' /\ FailuresSeen(q, t)'
  BY <1>1, <1>2, <1>3 DEF SerialInv, StatusIsOutcome, FailuresSeen, UnderWay
<1> QED
  BY <1>1, <1>2, <1>4, <1>5 DEF SerialInv, OverallIsHonest

LEMMA SerialSort ==
  ASSUME SerialInv, IInv', NEW r \in Runs, Sort(r)
  PROVE  SerialInv'
<1>1. /\ phase[r] = "sorting" /\ UNCHANGED <<deps, status, cancelled, pending, outcome>>
      /\ phase' = [phase EXCEPT ![r] = IF Sortable THEN "running" ELSE "returned"]
      /\ IF Sortable THEN UNCHANGED overall ELSE overall' = "failed"
      /\ IF Sortable THEN at' = [at EXCEPT ![r] = [s \in Steps |-> "waiting"]] ELSE at' = at
  BY DEF Sort
<1>2. (Sortable' <=> Sortable) /\ \A t \in Steps : Ids(t)' = Ids(t)
  BY <1>1 DEF Sortable, Ids
<1>3. \A q \in Runs : phase'[q] = IF q # r THEN phase[q]
                                  ELSE IF Sortable THEN "running" ELSE "returned"
  BY <1>1 DEF SerialInv, IInv, TypeOK
<1>4. Alone' /\ \A q \in Runs : UnderWay(q)' => UnderWay(q)
  BY <1>1, <1>3 DEF SerialInv, Alone, UnderWay
<1>5. \A q \in Runs, t \in Steps : at'[q][t] = IF q = r /\ Sortable THEN "waiting" ELSE at[q][t]
  BY <1>1 DEF SerialInv, IInv, TypeOK
<1>6. ASSUME NEW q \in Runs, NEW t \in Steps PROVE StatusIsOutcome(q, t)' /\ FailuresSeen(q, t)'
  BY <1>1, <1>2, <1>3, <1>5 DEF SerialInv, StatusIsOutcome, FailuresSeen
<1>7. overall' \in {"completed", "failed"} => \A q \in Runs : ~UnderWay(q)'
  BY <1>1, <1>3, <1>4 DEF SerialInv, Alone, UnderWay
<1>8. OverallIsHonest'
  BY <1>1, <1>2 DEF SerialInv, OverallIsHonest
<1> QED
  BY <1>1, <1>2, <1>4, <1>6, <1>7, <1>8 DEF SerialInv

LEMMA SerialReturn ==
  ASSUME SerialInv, IInv', NEW r \in Runs, Return(r)
  PROVE  SerialInv'
<1>1. /\ phase[r] = "running" /\ \A s \in Steps : at[r][s] = "closed"
      /\ phase' = [phase EXCEPT ![r] = "returned"]
      /\ overall' = IF \E s \in Steps : outcome[r][s] = "failed" THEN "failed" ELSE "completed"
      /\ UNCHANGED <<deps, status, cancelled, at, pending, outcome>>
  BY DEF Return, AllClosed
<1>2. (Sortable' <=> Sortable) /\ \A t \in Steps : Ids(t)' = Ids(t)
  BY <1>1 DEF Sortable, Ids
<1>3. Sortable /\ UnderWay(r)
  BY <1>1 DEF SerialInv, IInv, PhaseOK, UnderWay
<1>4. \A q \in Runs : phase'[q] = IF q = r THEN "returned" ELSE phase[q]
  BY <1>1 DEF SerialInv, IInv, TypeOK
<1>5. Alone' /\ \A q \in Runs : ~UnderWay(q)'
  BY <1>3, <1>4 DEF SerialInv, Alone, UnderWay
<1>6. ASSUME NEW q \in Runs, NEW t \in Steps PROVE StatusIsOutcome(q, t)' /\ FailuresSeen(q, t)'
  BY <1>1, <1>2, <1>4 DEF SerialInv, StatusIsOutcome, FailuresSeen
<1>7. OverallIsHonest'
  <2>1. \A s \in Steps : /\ status[s] \in {"completed", "failed", "skipped"}
                         /\ status[s] = "failed" <=> outcome[r][s] = "failed"
    BY <1>1 DEF SerialInv, StatusIsOutcome
  <2>2. status' = status /\ Sortable'
    BY <1>1, <1>2, <1>3
  <2>3. overall' = IF \E s \in Steps : status[s] = "failed" THEN "failed" ELSE "completed"
    BY <1>1, <2>1
  <2> QED
    BY <2>1, <2>2, <2>3 DEF OverallIsHonest
<1> QED
  BY <1>1, <1>2, <1>3, <1>5, <1>6, <1>7 DEF SerialInv

LEMMA SerialAwait ==
  ASSUME SerialInv, IInv', NEW r \in Runs, NEW s \in Steps, Await(r, s)
  PROVE  SerialInv'
<1> DEFINE p == pending[r][s]
           d == deps[s][p]
<1>1. /\ at[r][s] = "waiting" /\ p <= Len(deps[s]) /\ at[r][d] = "closed"
      /\ UNCHANGED <<deps, status, overall, phase, cancelled, outcome>>
  BY DEF Await, WaitOver
<1>2. phase[r] = "running" /\ Sortable
  BY <1>1, GoroutineRuns DEF SerialInv
<1>3. p \in Nat \ {0} /\ p \in DOMAIN deps[s] /\ d \in Ids(s) /\ d \in Steps
  <2>1. p \in Nat \ {0}
    BY DEF SerialInv, IInv, TypeOK
  <2>2. p \in DOMAIN deps[s]
    BY <1>1, <2>1, ListFacts DEF SerialInv, IInv
  <2> QED
    BY <1>2, <2>1, <2>2, ListFacts, SortableFacts DEF SerialInv, IInv
<1>4. status[d] = "failed" <=> outcome[r][d] = "failed"
  BY <1>1, <1>2, <1>3 DEF SerialInv, StatusIsOutcome
<1>5. outcome[r][s] = "none" /\ FailuresSeen(r, s) /\ \A t \in Steps : Ids(t)' = Ids(t)
  BY <1>1 DEF SerialInv, IInv, StepOK, Ids
<1>6. CASE status[d] = "failed"
  <2>1. Move(r, s, "skipping") /\ UNCHANGED pending
    BY <1>6 DEF Await, DependencyFailed
  <2>2. \A q \in Runs, t \in Steps :
          at'[q][t] = IF q = r /\ t = s THEN "skipping" ELSE at[q][t]
    BY <2>1, MoveFacts DEF SerialInv, IInv, Places
  <2> HIDE DEF p, d
  <2>3. FailuresSeen(r, s)'
    BY <1>1, <1>3, <1>4, <1>5, <1>6, <2>1, <2>2 DEF FailuresSeen
  <2>4. StatusIsOutcome(r, s)'
    BY <2>2 DEF StatusIsOutcome
  <2> QED
    BY <1>1, <1>5, <2>1, <2>2, <2>3, <2>4, SerialOneGoroutine
<1>7. CASE status[d] # "failed"
  <2> DEFINE n == p + 1
  <2>1. pending' = [pending EXCEPT ![r][s] = n] /\ UNCHANGED at
    BY <1>7 DEF Await, DependencyFailed
  <2>2. n \in Nat \ {0} /\ pending \in [Runs -> [Steps -> Nat \ {0}]]
    BY <1>3 DEF SerialInv, IInv, TypeOK
  <2> HIDE DEF n
  <2>3. \A q \in Runs, t \in Steps :
          pending'[q][t] = IF q = r /\ t = s THEN n ELSE pending[q][t]
    BY <2>1, <2>2, RowUpdate
  <2>4. \A i \in DOMAIN deps[s] : i < n => i < p \/ i = p
    BY <1>3, ListFacts DEF n, SerialInv, IInv
  <2> HIDE DEF p
  <2>5. \A i \in DOMAIN deps[s] : i < n => outcome[r][deps[s][i]] # "failed"
    BY <1>4, <1>5, <1>7, <2>4 DEF FailuresSeen, p
  <2>6. FailuresSeen(r, s)'
    BY <1>1, <1>5, <2>1, <2>3, <2>5 DEF FailuresSeen
  <2>7. StatusIsOutcome(r, s)'
    BY <1>1, <2>1 DEF StatusIsOutcome
  <2> QED
    BY <1>1, <1>5, <2>1, <2>3, <2>6, <2>7, SerialOneGoroutine
<1> QED
  BY <1>6, <1>7

LEMMA SerialMovingOn ==
  ASSUME SerialInv, IInv', NEW r \in Runs, NEW s \in Steps,
         Skip(r, s) \/ GiveUp(r, s) \/ Execute(r, s) \/ Close(r, s)
  PROVE  SerialInv'
<1>1. PICK place \in {"executing", "closing", "closed"} :
        /\ Move(r, s, place) /\ at[r][s] \notin {"none", "closed"}
        /\ UNCHANGED <<deps, overall, phase, cancelled, pending, outcome>>
        /\ place = "closing" => status' = [status EXCEPT ![s] = "skipped"] /\ at[r][s] # "closing"
        /\ place = "executing" => status' = [status EXCEPT ![s] = "running"] /\ at[r][s] # "closing"
        /\ place = "closed" => status' = status /\ at[r][s] = "closing"
  BY DEF Skip, GiveUp, Execute, Close
<1>2. \A q \in Runs, t \in Steps : at'[q][t] = IF q = r /\ t = s THEN place ELSE at[q][t]
  BY <1>1, MoveFacts DEF SerialInv, IInv, Places
<1>3. at[r][s] # "closing" => outcome[r][s] = "none"
  BY <1>1 DEF SerialInv, IInv, StepOK
<1>4. status \in [Steps -> Statuses] /\ \A t \in Steps : Ids(t)' = Ids(t)
  BY <1>1 DEF SerialInv, IInv, TypeOK, Ids
<1>5. StatusIsOutcome(r, s)'
  BY <1>1, <1>2, <1>3, <1>4 DEF SerialInv, StatusIsOutcome
<1>6. FailuresSeen(r, s)'
  BY <1>1, <1>2, <1>4 DEF SerialInv, FailuresSeen
<1>7. \A t \in Steps \ {s} : status'[t] = status[t]
  BY <1>1, <1>4
<1> QED
  BY <1>1, <1>2, <1>3, <1>5, <1>6, <1>7, SerialOneGoroutine

LEMMA SerialFinish ==
  ASSUME SerialInv, IInv', NEW r \in Runs, NEW s \in Steps, NEW how \in {"completed", "failed"},
         Finish(r, s, how)
  PROVE  SerialInv'
<1>1. /\ at[r][s] = "executing" /\ Move(r, s, "closing")
      /\ status' = [status EXCEPT ![s] = how] /\ outcome' = [outcome EXCEPT ![r][s] = how]
      /\ UNCHANGED <<deps, overall, phase, cancelled, pending>>
  BY DEF Finish
<1>2. /\ status \in [Steps -> Statuses] /\ \A t \in Steps : Ids(t)' = Ids(t)
      /\ outcome \in [Runs -> [Steps -> {"none", "completed", "failed"}]]
  BY <1>1 DEF SerialInv, IInv, TypeOK, Ids
<1>3. \A q \in Runs, t \in Steps : at'[q][t] = IF q = r /\ t = s THEN "closing" ELSE at[q][t]
  BY <1>1, MoveFacts DEF SerialInv, IInv, Places
<1>4. \A q \in Runs, t \in Steps : outcome'[q][t] = IF q = r /\ t = s THEN how ELSE outcome[q][t]
  BY <1>1, <1>2, RowUpdate
<1>5. outcome[r][s] = "none" /\ StepOK(r, s) /\ FailuresSeen(r, s)
  BY <1>1 DEF SerialInv, IInv, StepOK
<1>6. StatusIsOutcome(r, s)'
  BY <1>1, <1>2, <1>3, <1>4 DEF StatusIsOutcome
<1>7. FailuresSeen(r, s)'
  <2>1. ASSUME NEW i \in DOMAIN deps[s], i < pending[r][s]
        PROVE  outcome'[r][deps[s][i]] # "failed"
    <3>1. deps[s][i] \in Steps /\ at[r][deps[s][i]] = "closed" /\ outcome[r][deps[s][i]] # "failed"
      BY <1>5, <2>1 DEF StepOK, FailuresSeen
    <3> QED
      BY <1>1, <1>4, <3>1
  <2> QED
    BY <1>1, <1>3, <2>1 DEF FailuresSeen
<1>8. \A t \in Steps \ {s} : status'[t] = status[t]
  BY <1>1, <1>2
<1> QED
  BY <1>1, <1>3, <1>4, <1>5, <1>6, <1>7, <1>8, SerialOneGoroutine

LEMMA SerialRest ==
  ASSUME SerialInv, IInv', UNCHANGED <<deps, status, overall, phase, at, pending, outcome>>
  PROVE  SerialInv'
<1>1. (Sortable' <=> Sortable) /\ \A t \in Steps : Ids(t)' = Ids(t)
  BY DEF Sortable, Ids
<1> QED
  BY <1>1 DEF SerialInv, Alone, UnderWay, StatusIsOutcome, FailuresSeen, OverallIsHonest

LEMMA SerialInit == Init => SerialInv
<1> SUFFICES ASSUME Init PROVE SerialInv
  OBVIOUS
<1>1. IInv
  BY InitGivesIInv
<1>2. Alone /\ OverallIsHonest /\ (overall \in {"completed", "failed"} => \A r \in Runs : ~UnderWay(r))
  BY DEF Init, Alone, UnderWay, OverallIsHonest
<1>3. ASSUME NEW r \in Runs, NEW s \in Steps PROVE StatusIsOutcome(r, s) /\ FailuresSeen(r, s)
  BY <1>1, ListFacts DEF Init, IInv, StatusIsOutcome, FailuresSeen
<1> QED
  BY <1>1, <1>2, <1>3 DEF SerialInv, Init

LEMMA SerialNext == ~MayOverlap /\ SerialInv /\ [Next]_vars => SerialInv'
<1> SUFFICES ASSUME ~MayOverlap, SerialInv, [Next]_vars PROVE SerialInv'
  OBVIOUS
<1>1. IInv'
  BY NextKeepsIInv DEF SerialInv
<1>2. ASSUME NEW r \in Runs, Begin(r) \/ Sort(r) \/ Return(r) PROVE SerialInv'
  BY <1>1, <1>2, SerialBegin, SerialSort, SerialReturn
<1>3. ASSUME NEW r \in Runs, Cancel(r) PROVE SerialInv'
  BY <1>1, <1>3, SerialRest DEF Cancel
<1>4. ASSUME NEW r \in Runs, NEW s \in Steps, StepOf(r, s) PROVE SerialInv'
  BY <1>1, <1>4, SerialAwait, SerialMovingOn, SerialFinish DEF StepOf
<1>5. CASE UNCHANGED vars
  BY <1>1, <1>5, SerialRest DEF vars
<1> QED
  BY <1>2, <1>3, <1>4, <1>5 DEF Next, RunOf

LEMMA SerialInvariance ==
  ASSUME ~MayOverlap
  PROVE  Spec => []SerialInv
<1>1. SerialInv /\ [Next]_vars => SerialInv'
  BY SerialNext
<1> QED
  BY <1>1, SerialInit, PTL DEF Spec

(* When the runs of a workflow do not overlap, no step executes in a run   *)
(* in which one of its dependencies failed, whatever the graph.            *)
THEOREM SerialNeverAfterFailure ==
  ASSUME ~MayOverlap
  PROVE  Spec => []NeverAfterFailure
<1>1. SerialInv => NeverAfterFailure
  <2> SUFFICES ASSUME SerialInv, NEW r \in Runs, NEW s \in Steps, Began(r, s), NEW d \in Ids(s)
               PROVE  outcome[r][d] # "failed"
    BY DEF NeverAfterFailure
  <2>1. PICK i \in DOMAIN deps[s] : deps[s][i] = d
    BY ListFacts DEF SerialInv, IInv
  <2>2. i < pending[r][s]
    <3>1. pending[r][s] > Len(deps[s]) /\ pending[r][s] \in Nat
      BY DEF SerialInv, IInv, StepOK, TypeOK
    <3> QED
      BY <3>1, ListFacts DEF SerialInv, IInv
  <2> QED
    BY <2>1, <2>2 DEF SerialInv, FailuresSeen
<1>2. Spec => []SerialInv
  BY SerialInvariance
<1> QED
  BY <1>1, <1>2, PTL

(* When the runs of a workflow do not overlap, a workflow that shows an    *)
(* end has ended and shows the right one, whatever the graph.              *)
THEOREM SerialOverallIsHonest ==
  ASSUME ~MayOverlap
  PROVE  Spec => []OverallIsHonest
<1>1. SerialInv => OverallIsHonest
  BY DEF SerialInv
<1>2. Spec => []SerialInv
  BY SerialInvariance
<1> QED
  BY <1>1, <1>2, PTL

-----------------------------------------------------------------------------
(* The refinement of DagRun.                                               *)

MappedStep == [s \in Steps |-> StateOf(s)]

MappedNeeds == [s \in Steps |-> Ids(s)]

Stutter == UNCHANGED <<MappedNeeds, MappedStep, Verdict>>

LEMMA SameGraph ==
  ASSUME UNCHANGED deps
  PROVE  /\ MappedNeeds' = MappedNeeds
         /\ Sortable' <=> Sortable
         /\ Promise!Orderable <=> Sortable
<1>1. MappedNeeds' = MappedNeeds /\ (Sortable' <=> Sortable)
  BY DEF MappedNeeds, Ids, Sortable
<1>2. \A s \in Steps : MappedNeeds[s] = Ids(s)
  BY DEF MappedNeeds
<1>3. Promise!Orderable <=> Sortable
  BY <1>2 DEF MappedNeeds, Sortable, Promise!Orderable
<1> QED
  BY <1>1, <1>3

(* Another run, or a step of the run that the mapping does not show.       *)
LEMMA Unseen ==
  ASSUME UNCHANGED deps, \A s \in Steps : StateOf(s)' = StateOf(s), Verdict' = Verdict
  PROVE  Stutter
  BY SameGraph DEF Stutter, MappedStep

(* A goroutine of the run moves: one step of the mapped state changes.     *)
LEMMA OneStepSeen ==
  ASSUME SerialInv, Runs # {}, NEW s \in Steps, UNCHANGED <<deps, phase>>,
         at[TheRun][s] \notin {"none", "closed"},
         \A t \in Steps \ {s} :
           at'[TheRun][t] = at[TheRun][t] /\ outcome'[TheRun][t] = outcome[TheRun][t]
  PROVE  /\ Verdict = "none" /\ Verdict' = "none"
         /\ Promise!Orderable
         /\ MappedStep' = [MappedStep EXCEPT ![s] = StateOf(s)']
         /\ MappedStep[s] = StateOf(s)
         /\ MappedNeeds' = MappedNeeds
<1>1. TheRun \in Runs
  BY DEF TheRun
<1>2. phase[TheRun] = "running" /\ Sortable
  BY <1>1, GoroutineRuns DEF SerialInv
<1>3. ASSUME NEW t \in Steps \ {s} PROVE StateOf(t)' = StateOf(t)
  BY DEF StateOf
<1>4. MappedStep' = [MappedStep EXCEPT ![s] = StateOf(s)']
  BY <1>3 DEF MappedStep
<1> QED
  BY <1>2, <1>4, SameGraph DEF Verdict, MappedStep

LEMMA ReturnSeen ==
  ASSUME UNCHANGED <<deps, outcome>>, \A s \in Steps : StateOf(s)' = StateOf(s),
         Verdict = "none", Sortable => \A s \in Steps : at[TheRun][s] = "closed",
         Verdict' = IF ~Sortable \/ \E s \in Steps : outcome[TheRun][s] = "failed"
                    THEN "failed" ELSE "completed",
         \A s \in Steps : outcome[TheRun][s] \in {"none", "completed", "failed"}
  PROVE  Promise!Return
<1>1. MappedStep' = MappedStep /\ MappedNeeds' = MappedNeeds
  BY SameGraph DEF MappedStep
<1>2. CASE Sortable
  <2>1. \A s \in Steps : /\ MappedStep[s] \in {"completed", "failed", "skipped"}
                         /\ MappedStep[s] = "failed" <=> outcome[TheRun][s] = "failed"
    BY <1>2 DEF StateOf, MappedStep
  <2>2. \A s \in Steps : Promise!Over(s)
    BY <2>1 DEF Promise!Over, MappedStep
  <2>3. Verdict' = IF \E s \in Steps : MappedStep[s] = "failed" THEN "failed" ELSE "completed"
    BY <1>2, <2>1
  <2> QED
    BY <1>1, <1>2, <2>2, <2>3, SameGraph DEF Promise!Return, MappedStep, MappedNeeds
<1>3. CASE ~Sortable
  BY <1>1, <1>3, SameGraph DEF Promise!Return, MappedStep, MappedNeeds
<1> QED
  BY <1>2, <1>3

(* What the run of the mapping shows of a step of it, or of another run.   *)
LEMMA MoveUnseen ==
  ASSUME SerialInv, Runs # {}, NEW r \in Runs, NEW s \in Steps, UNCHANGED <<deps, phase>>,
         \A q \in Runs, t \in Steps : q # r \/ t # s =>
           at'[q][t] = at[q][t] /\ outcome'[q][t] = outcome[q][t],
         r # TheRun \/ (StateOf(s)' = StateOf(s) /\ outcome' = outcome)
  PROVE  Stutter
<1>1. TheRun \in Runs
  BY DEF TheRun
<1>2. \A t \in Steps : StateOf(t)' = StateOf(t)
  BY <1>1 DEF StateOf
<1>3. \A t \in Steps : outcome'[TheRun][t] = outcome[TheRun][t]
  BY <1>1
<1>4. Verdict' = Verdict
  BY <1>3, SameGraph DEF Verdict
<1> QED
  BY <1>2, <1>4, Unseen

(* The goroutines of the run: at place, one after the other, they are seen *)
(* as nothing, or as a step of DagRun.                                     *)
LEMMA PlacesFacts ==
  ASSUME SerialInv, NEW r \in Runs, NEW s \in Steps, NEW place \in Places, Move(r, s, place)
  PROVE  \A q \in Runs, t \in Steps : at'[q][t] = IF q = r /\ t = s THEN place ELSE at[q][t]
  BY MoveFacts DEF SerialInv, IInv

LEMMA AwaitSeen ==
  ASSUME SerialInv, Runs # {}, NEW r \in Runs, NEW s \in Steps, Await(r, s) \/ Close(r, s)
  PROVE  Stutter
<1>1. /\ UNCHANGED <<deps, phase, outcome>>
      /\ \/ at' = at
         \/ at[r][s] = "waiting" /\ Move(r, s, "skipping")
         \/ at[r][s] = "closing" /\ Move(r, s, "closed")
  BY DEF Await, Close
<1>2. \A q \in Runs, t \in Steps : q # r \/ t # s => at'[q][t] = at[q][t]
  BY <1>1, PlacesFacts DEF Places
<1>3. r # TheRun \/ StateOf(s)' = StateOf(s)
  BY <1>1, PlacesFacts DEF StateOf, Places
<1> QED
  BY <1>1, <1>2, <1>3, MoveUnseen

LEMMA SkipSeen ==
  ASSUME SerialInv, Runs # {}, NEW s \in Steps, Skip(TheRun, s) \/ GiveUp(TheRun, s)
  PROVE  Promise!Skip(s)
<1>1. TheRun \in Runs
  BY DEF TheRun
<1>2. /\ at[TheRun][s] \in {"waiting", "skipping"} /\ Move(TheRun, s, "closing")
      /\ UNCHANGED <<deps, phase, outcome>>
  BY DEF Skip, GiveUp
<1>3. \A q \in Runs, t \in Steps :
        at'[q][t] = IF q = TheRun /\ t = s THEN "closing" ELSE at[q][t]
  BY <1>1, <1>2, PlacesFacts DEF Places
<1>4. outcome[TheRun][s] = "none"
  BY <1>1, <1>2 DEF SerialInv, IInv, StepOK
<1>5. StateOf(s) = "todo" /\ StateOf(s)' = "skipped"
  BY <1>1, <1>2, <1>3, <1>4 DEF StateOf
<1>6. MayCancel \/ \E d \in Ids(s) : MappedStep[d] = "failed"
  <2>1. CASE GiveUp(TheRun, s)
    BY <1>1, <2>1 DEF GiveUp, SerialInv, IInv, PhaseOK
  <2>2. CASE Skip(TheRun, s)
    <3>1. PICK d \in Ids(s) : d \in Steps /\ outcome[TheRun][d] = "failed"
      BY <1>1, <2>2 DEF Skip, SerialInv, FailuresSeen
    <3>2. at[TheRun][d] \in {"closing", "closed"}
      BY <1>1, <3>1 DEF SerialInv, IInv, StepOK
    <3> QED
      BY <3>1, <3>2 DEF StateOf, MappedStep
  <2> QED
    BY <2>1, <2>2
<1>7. /\ Verdict = "none" /\ Verdict' = "none" /\ Promise!Orderable
      /\ MappedStep' = [MappedStep EXCEPT ![s] = "skipped"] /\ MappedStep[s] = "todo"
      /\ MappedNeeds' = MappedNeeds /\ MappedNeeds[s] = Ids(s)
  BY <1>1, <1>2, <1>3, <1>5, OneStepSeen DEF MappedNeeds
<1> QED
  BY <1>6, <1>7 DEF Promise!Skip, MappedStep, MappedNeeds

LEMMA ExecuteSeen ==
  ASSUME SerialInv, Runs # {}, NEW s \in Steps, Execute(TheRun, s)
  PROVE  Promise!Start(s)
<1>1. TheRun \in Runs
  BY DEF TheRun
<1>2. /\ at[TheRun][s] = "waiting" /\ pending[TheRun][s] > Len(deps[s])
      /\ Move(TheRun, s, "executing") /\ UNCHANGED <<deps, phase, outcome>>
  BY DEF Execute
<1>3. \A q \in Runs, t \in Steps :
        at'[q][t] = IF q = TheRun /\ t = s THEN "executing" ELSE at[q][t]
  BY <1>1, <1>2, PlacesFacts DEF Places
<1>4. StateOf(s) = "todo" /\ StateOf(s)' = "running"
  BY <1>1, <1>2, <1>3 DEF StateOf
<1>5. ASSUME NEW d \in Ids(s)
      PROVE  MappedStep[d] \in {"completed", "skipped"}
  <2>1. PICK i \in DOMAIN deps[s] : deps[s][i] = d
    BY ListFacts DEF SerialInv, IInv
  <2>2. i < pending[TheRun][s]
    BY <1>1, <1>2, ListFacts DEF SerialInv, IInv, TypeOK
  <2>3. d \in Steps /\ at[TheRun][d] = "closed" /\ outcome[TheRun][d] # "failed"
    BY <1>1, <2>1, <2>2 DEF SerialInv, IInv, StepOK, FailuresSeen
  <2>4. outcome[TheRun][d] \in {"none", "completed", "failed"}
    BY <1>1, <2>3 DEF SerialInv, IInv, TypeOK
  <2> QED
    BY <2>3, <2>4 DEF StateOf, MappedStep
<1>6. /\ Verdict = "none" /\ Verdict' = "none" /\ Promise!Orderable
      /\ MappedStep' = [MappedStep EXCEPT ![s] = "running"] /\ MappedStep[s] = "todo"
      /\ MappedNeeds' = MappedNeeds /\ MappedNeeds[s] = Ids(s)
  BY <1>1, <1>2, <1>3, <1>4, OneStepSeen DEF MappedNeeds
<1>7. \A d \in MappedNeeds[s] : Promise!Over(d) /\ MappedStep[d] # "failed"
  BY <1>5, <1>6 DEF Promise!Over, MappedStep
<1> QED
  BY <1>6, <1>7 DEF Promise!Start, MappedStep, MappedNeeds

LEMMA FinishSeen ==
  ASSUME SerialInv, Runs # {}, NEW s \in Steps, NEW how \in {"completed", "failed"},
         Finish(TheRun, s, how)
  PROVE  Promise!Finish(s)
<1>1. TheRun \in Runs
  BY DEF TheRun
<1>2. /\ at[TheRun][s] = "executing" /\ Move(TheRun, s, "closing")
      /\ outcome' = [outcome EXCEPT ![TheRun][s] = how] /\ UNCHANGED <<deps, phase>>
  BY DEF Finish
<1>3. \A q \in Runs, t \in Steps :
        at'[q][t] = IF q = TheRun /\ t = s THEN "closing" ELSE at[q][t]
  BY <1>1, <1>2, PlacesFacts DEF Places
<1>4. outcome'[TheRun][s] = how
      /\ \A t \in Steps \ {s} : outcome'[TheRun][t] = outcome[TheRun][t]
  BY <1>1, <1>2 DEF SerialInv, IInv, TypeOK
<1>5. StateOf(s) = "running" /\ StateOf(s)' = how
  BY <1>1, <1>2, <1>3, <1>4 DEF StateOf
<1>6. /\ Verdict = "none" /\ Verdict' = "none"
      /\ MappedStep' = [MappedStep EXCEPT ![s] = how] /\ MappedStep[s] = "running"
      /\ MappedNeeds' = MappedNeeds
  BY <1>1, <1>2, <1>3, <1>4, <1>5, OneStepSeen
<1> QED
  BY <1>6 DEF Promise!Finish, MappedStep, MappedNeeds

LEMMA GoroutineSeen ==
  ASSUME SerialInv, Runs # {}, NEW r \in Runs, NEW s \in Steps, StepOf(r, s)
  PROVE  Promise!Next \/ Stutter
<1>1. CASE r = TheRun
  BY <1>1, AwaitSeen, SkipSeen, ExecuteSeen, FinishSeen DEF StepOf, Promise!Next
<1>2. CASE r # TheRun /\ ~(Await(r, s) \/ Close(r, s))
  <2>1. PICK place \in Places : Move(r, s, place) /\ UNCHANGED <<deps, phase>>
    <3>1. "closing" \in Places /\ "executing" \in Places
      BY DEF Places
    <3>2. /\ UNCHANGED <<deps, phase>>
          /\ Move(r, s, "closing") \/ Move(r, s, "executing")
      BY <1>2 DEF StepOf, Skip, GiveUp, Execute, Finish
    <3> QED
      BY <3>1, <3>2
  <2>2. \A q \in Runs, t \in Steps : q # r \/ t # s => at'[q][t] = at[q][t]
    BY <2>1, PlacesFacts
  <2>3. \A q \in Runs, t \in Steps : q # r \/ t # s => outcome'[q][t] = outcome[q][t]
    <3>1. outcome \in [Runs -> [Steps -> {"none", "completed", "failed"}]]
      BY DEF SerialInv, IInv, TypeOK
    <3>2. outcome' = outcome \/ \E how \in {"completed", "failed"} :
                                  outcome' = [outcome EXCEPT ![r][s] = how]
      BY <1>2 DEF StepOf, Skip, GiveUp, Execute, Finish
    <3> QED
      BY <3>1, <3>2
  <2>4. UNCHANGED <<deps, phase>>
    BY <2>1
  <2>5. \A q \in Runs, t \in Steps : q # r \/ t # s =>
          at'[q][t] = at[q][t] /\ outcome'[q][t] = outcome[q][t]
    BY <2>2, <2>3
  <2>6. r # TheRun \/ (StateOf(s)' = StateOf(s) /\ outcome' = outcome)
    BY <1>2
  <2>7. Stutter
    BY <2>4, <2>5, <2>6, MoveUnseen
  <2> QED
    BY <2>7
<1>3. CASE Await(r, s) \/ Close(r, s)
  BY <1>3, AwaitSeen
<1> QED
  BY <1>1, <1>2, <1>3

LEMMA PhaseSeen ==
  ASSUME SerialInv, Runs # {}, NEW r \in Runs, Begin(r) \/ Sort(r) \/ Return(r) \/ Cancel(r)
  PROVE  Promise!Next \/ Stutter
<1>1. TheRun \in Runs
  BY DEF TheRun
<1>2. /\ phase \in [Runs -> {"idle", "sorting", "running", "returned"}]
      /\ at \in [Runs -> [Steps -> Places]]
      /\ \A s \in Steps : outcome[TheRun][s] \in {"none", "completed", "failed"}
  BY <1>1 DEF SerialInv, IInv, TypeOK
<1>3. UNCHANGED <<deps, outcome>> /\ PhaseOK(TheRun)
  BY <1>1 DEF Begin, Sort, Return, Cancel, SerialInv, IInv
<1>4. \A s \in Steps : StateOf(s)' = StateOf(s)
  <2>1. CASE at' = at
    BY <1>3, <2>1 DEF StateOf
  <2>2. CASE phase[r] = "sorting" /\ at' = [at EXCEPT ![r] = [s \in Steps |-> "waiting"]]
    BY <1>1, <1>2, <1>3, <2>2 DEF StateOf, PhaseOK
  <2> QED
    BY <2>1, <2>2 DEF Begin, Sort, Return, Cancel
<1>5. CASE Verdict' = Verdict
  BY <1>3, <1>4, <1>5, Unseen
<1>6. CASE r = TheRun /\ (Return(r) \/ (Sort(r) /\ ~Sortable))
  <2>1. phase[TheRun] # "returned" /\ phase'[TheRun] = "returned"
    BY <1>1, <1>2, <1>6 DEF Return, Sort
  <2>2. Sortable => \A s \in Steps : at[TheRun][s] = "closed"
    BY <1>6 DEF Return, AllClosed
  <2>3. Verdict = "none"
        /\ Verdict' = IF ~Sortable \/ \E s \in Steps : outcome[TheRun][s] = "failed"
                      THEN "failed" ELSE "completed"
    BY <1>3, <2>1, SameGraph DEF Verdict
  <2>4. Promise!Return
    BY <1>2, <1>3, <1>4, <2>2, <2>3, ReturnSeen
  <2> QED
    BY <2>4 DEF Promise!Next
<1>7. CASE ~(r = TheRun /\ (Return(r) \/ (Sort(r) /\ ~Sortable)))
  <2>1. phase'[TheRun] = "returned" <=> phase[TheRun] = "returned"
    BY <1>1, <1>2, <1>7 DEF Begin, Sort, Return, Cancel
  <2>2. Verdict' = Verdict
    BY <1>3, <2>1, SameGraph DEF Verdict
  <2> QED
    BY <1>5, <2>2
<1> QED
  BY <1>6, <1>7

(* When the runs of a workflow do not overlap, each of them is a run of    *)
(* DagRun, whatever the graph: steps start after their dependencies and    *)
(* after no failed one, are skipped only for a failure or a cancellation,  *)
(* and the run returns, with the right verdict, once all steps are over.   *)
THEOREM RunsKeepPromise ==
  ASSUME ~MayOverlap, Runs # {}
  PROVE  Spec => KeepsPromise
<1>1. Init => Promise!Init
  <2> SUFFICES ASSUME Init PROVE Promise!Init
    OBVIOUS
  <2>1. TheRun \in Runs
    BY DEF TheRun
  <2>2. \A s \in Steps : StateOf(s) = "todo"
    BY <2>1 DEF Init, StateOf
  <2>3. Verdict = "none"
    BY <2>1 DEF Init, Verdict
  <2> QED
    BY <2>2, <2>3 DEF Promise!Init
<1>2. SerialInv /\ [Next]_vars =>
        [Promise!Next]_<<[s \in Steps |-> Ids(s)], [s \in Steps |-> StateOf(s)], Verdict>>
  <2> SUFFICES ASSUME SerialInv, [Next]_vars PROVE Promise!Next \/ Stutter
    BY DEF Stutter, MappedNeeds, MappedStep
  <2>1. CASE Next
    BY <2>1, PhaseSeen, GoroutineSeen DEF Next, RunOf
  <2>2. CASE UNCHANGED vars
    <3>1. UNCHANGED deps /\ Verdict' = Verdict
      BY <2>2, SameGraph DEF vars, Verdict
    <3>2. \A s \in Steps : StateOf(s)' = StateOf(s)
      BY <2>2 DEF vars, StateOf
    <3> QED
      BY <3>1, <3>2, Unseen
  <2> QED
    BY <2>1, <2>2
<1>3. Spec => []SerialInv
  BY SerialInvariance
<1> QED
  BY <1>1, <1>2, <1>3, PTL DEF Spec, KeepsPromise, Promise!Spec

-----------------------------------------------------------------------------
(* The search, for the loops l under way, the steps being visited, those   *)
(* visited and the list of them.                                           *)
Current(l, i) == l[i].ids[l[i].next]

(* Each loop but the outermost is that of the step the one around it is at.*)
Nested(l, going) ==
  /\ Len(l) > 0 /\ l[1].ids = StepList
  /\ \A i \in 1..(Len(l) - 1) :
       /\ l[i].next <= Len(l[i].ids)
       /\ Current(l, i) \in Steps /\ l[i + 1].ids = deps[Current(l, i)]
  /\ going = {Current(l, i) : i \in 1..(Len(l) - 1)}
  /\ \A i, j \in 1..(Len(l) - 1) : Current(l, i) = Current(l, j) => i = j

Passed(l, done) ==
  \A i \in 1..Len(l) : \A k \in 1..(l[i].next - 1) : k <= Len(l[i].ids) => l[i].ids[k] \in done

Listed(going, done, out) ==
  /\ done = {out[i] : i \in DOMAIN out} /\ going \cap done = {}
  /\ \A i, j \in DOMAIN out : out[i] = out[j] => i = j
  /\ \A i \in DOMAIN out : Ids(out[i]) \subseteq {out[j] : j \in 1..(i - 1)}

(* No set of visited steps keeps itself waiting.                           *)
Unknotted(done) == \A S \in (SUBSET done) \ {{}} : \E s \in S : Ids(s) \cap S = {}

Loops == [ids: {StepList} \cup {deps[s] : s \in Steps}, next: Nat \ {0}]

Typed(l, going, done, out) ==
  /\ l \in Seq(Loops) /\ going \subseteq Steps /\ done \subseteq Steps /\ out \in Seq(Steps)

Good(l, going, done, out) ==
  /\ Typed(l, going, done, out) /\ Nested(l, going) /\ Passed(l, done)
  /\ Listed(going, done, out) /\ Unknotted(done)

SearchInv ==
  /\ deps \in Graphs /\ SearchTypeOK
  /\ \A r \in Runs : Good(loops[r], visiting[r], visited[r], sorted[r])

LEMMA LoopLists ==
  ASSUME deps \in Graphs, NEW l \in Loops
  PROVE  /\ Len(l.ids) \in Nat /\ DOMAIN l.ids = 1..Len(l.ids)
         /\ l.next \in Nat \ {0} /\ l = [ids |-> l.ids, next |-> l.next]
  BY GraphsAreLists, StepListIsSteps DEF Loops

LEMMA IdsAreListed ==
  ASSUME deps \in Graphs, NEW s \in Steps
  PROVE  /\ Ids(s) = {deps[s][k] : k \in 1..Len(deps[s])}
         /\ Len(deps[s]) \in Nat
  BY GraphsAreLists DEF Ids

LEMMA SeenIsGood ==
  ASSUME deps \in Graphs, NEW l, NEW going, NEW done, NEW out, Good(l, going, done, out),
         Current(l, Len(l)) \in done
  PROVE  Good([l EXCEPT ![Len(l)].next = @ + 1], going, done, out)
<1> DEFINE n == Len(l)
           m == [l EXCEPT ![n].next = @ + 1]
<1>1. l \in Seq(Loops) /\ n \in Nat \ {0} /\ l[n] \in Loops
  BY DEF Good, Typed, Nested
<1>2. [l[n] EXCEPT !.next = @ + 1] \in Loops
  BY <1>1, LoopLists DEF Loops
<1>3. /\ m \in Seq(Loops) /\ Len(m) = n
      /\ \A i \in 1..(n - 1) : m[i] = l[i]
      /\ m[n] = [l[n] EXCEPT !.next = @ + 1]
  BY <1>1, <1>2
<1>4. m[n].ids = l[n].ids /\ m[n].next = l[n].next + 1 /\ l[n].next \in Nat
  BY <1>1, <1>3, LoopLists
<1>5. \A i \in 1..n : m[i].ids = l[i].ids
  BY <1>3, <1>4
<1>6. \A i \in 1..(n - 1) : Current(m, i) = Current(l, i)
  BY <1>3 DEF Current
<1> HIDE DEF m
<1>7. Nested(m, going)
  <2>1. Len(m) > 0 /\ m[1].ids = StepList
    BY <1>1, <1>3, <1>5 DEF Good, Nested
  <2>2. ASSUME NEW i \in 1..(n - 1)
        PROVE  /\ m[i].next <= Len(m[i].ids) /\ Current(m, i) \in Steps
               /\ m[i + 1].ids = deps[Current(m, i)]
    BY <1>1, <1>3, <1>5, <1>6 DEF Good, Nested
  <2>3. /\ going = {Current(m, i) : i \in 1..(n - 1)}
        /\ \A i, j \in 1..(n - 1) : Current(m, i) = Current(m, j) => i = j
    BY <1>6 DEF Good, Nested
  <2> QED
    BY <1>3, <2>1, <2>2, <2>3 DEF Nested
<1>8. Passed(m, done)
  <2> SUFFICES ASSUME NEW i \in 1..n, NEW k \in 1..(m[i].next - 1), k <= Len(m[i].ids)
               PROVE  m[i].ids[k] \in done
    BY <1>3 DEF Passed
  <2>1. CASE i < n
    BY <1>1, <1>3, <2>1 DEF Good, Passed
  <2>2. CASE i = n /\ k < l[n].next
    BY <1>1, <1>4, <2>2 DEF Good, Passed
  <2>3. CASE i = n /\ k = l[n].next
    BY <1>4, <2>3 DEF Current
  <2> QED
    BY <1>1, <1>4, <2>1, <2>2, <2>3
<1> QED
  BY <1>3, <1>7, <1>8 DEF Good, Typed, m

LEMMA EnterIsGood ==
  ASSUME deps \in Graphs, NEW l, NEW going, NEW done, NEW out, Good(l, going, done, out),
         NEW id \in Steps, id = Current(l, Len(l)), l[Len(l)].next <= Len(l[Len(l)].ids),
         id \notin done, id \notin going
  PROVE  Good(Append(l, Loop(deps[id])), going \cup {id}, done, out)
<1> DEFINE n == Len(l)
           m == Append(l, Loop(deps[id]))
<1>1. l \in Seq(Loops) /\ n \in Nat \ {0} /\ \A i \in 1..n : l[i] \in Loops
  BY DEF Good, Typed, Nested
<1>2. Loop(deps[id]) \in Loops
  BY DEF Loops, Loop
<1>3. /\ m \in Seq(Loops) /\ Len(m) = n + 1
      /\ \A i \in 1..n : m[i] = l[i]
      /\ m[n + 1].ids = deps[id] /\ m[n + 1].next = 1
  BY <1>1, <1>2 DEF Loop
<1>4. \A i \in 1..n : Current(m, i) = Current(l, i)
  BY <1>3 DEF Current
<1> HIDE DEF m
<1>5. Nested(m, going \cup {id})
  <2>1. Len(m) > 0 /\ m[1].ids = StepList
    BY <1>1, <1>3 DEF Good, Nested
  <2>2. ASSUME NEW i \in 1..n
        PROVE  /\ m[i].next <= Len(m[i].ids) /\ Current(m, i) \in Steps
               /\ m[i + 1].ids = deps[Current(m, i)]
    <3>1. CASE i = n
      BY <1>1, <1>3, <1>4, <3>1
    <3>2. CASE i \in 1..(n - 1)
      <4>1. m[i] = l[i] /\ m[i + 1] = l[i + 1] /\ Current(m, i) = Current(l, i)
        BY <1>1, <1>3, <1>4, <3>2
      <4> QED
        BY <3>2, <4>1 DEF Good, Nested
    <3> QED
      BY <1>1, <3>1, <3>2
  <2>3. going \cup {id} = {Current(m, i) : i \in 1..n}
    <3>1. going = {Current(m, i) : i \in 1..(n - 1)}
      BY <1>1, <1>4 DEF Good, Nested
    <3>2. Current(m, n) = id /\ 1..n = 1..(n - 1) \cup {n}
      BY <1>1, <1>4
    <3> QED
      BY <3>1, <3>2
  <2>4. \A i, j \in 1..n : Current(m, i) = Current(m, j) => i = j
    <3>1. \A i, j \in 1..(n - 1) : Current(m, i) = Current(m, j) => i = j
      BY <1>1, <1>4 DEF Good, Nested
    <3>2. \A i \in 1..(n - 1) : Current(m, i) \in going
      BY <1>1, <1>4 DEF Good, Nested
    <3>3. Current(m, n) = id
      BY <1>1, <1>4
    <3> QED
      BY <1>1, <3>1, <3>2, <3>3
  <2> QED
    BY <1>1, <1>3, <2>1, <2>2, <2>3, <2>4 DEF Nested
<1>6. Passed(m, done)
  <2> SUFFICES ASSUME NEW i \in 1..(n + 1), NEW k \in 1..(m[i].next - 1), k <= Len(m[i].ids)
               PROVE  m[i].ids[k] \in done
    BY <1>3 DEF Passed
  <2>1. CASE i \in 1..n
    BY <1>3, <2>1 DEF Good, Passed
  <2>2. CASE i = n + 1
    BY <1>3, <2>2
  <2> QED
    BY <1>1, <2>1, <2>2
<1>7. Typed(m, going \cup {id}, done, out) /\ Listed(going \cup {id}, done, out)
  BY <1>3 DEF Good, Typed, Listed
<1> QED
  BY <1>5, <1>6, <1>7 DEF Good, m

(* A step whose dependencies have been visited ties no knot.               *)
LEMMA LeaveTiesNoKnot ==
  ASSUME NEW done, Unknotted(done), NEW id, id \notin done, Ids(id) \subseteq done,
         \A s \in done : Ids(s) \subseteq done
  PROVE  Unknotted(done \cup {id})
<1> SUFFICES ASSUME NEW S \in (SUBSET (done \cup {id})) \ {{}}
             PROVE  \E s \in S : Ids(s) \cap S = {}
  BY DEF Unknotted
<1>1. CASE S \ {id} = {}
  BY <1>1
<1>2. CASE S \ {id} # {}
  <2>1. PICK s \in S \ {id} : Ids(s) \cap (S \ {id}) = {}
    BY <1>2 DEF Unknotted
  <2>2. id \notin Ids(s)
    BY <2>1
  <2> QED
    BY <2>1, <2>2
<1> QED
  BY <1>1, <1>2

LEMMA LeaveIsGood ==
  ASSUME deps \in Graphs, NEW l, NEW going, NEW done, NEW out, Good(l, going, done, out),
         NEW n \in Nat \ {0}, Len(l) = n + 1, ~(l[n + 1].next <= Len(l[n + 1].ids)),
         NEW id, id = Current(l, n)
  PROVE  Good([SubSeq(l, 1, n) EXCEPT ![n].next = @ + 1],
              going \ {id}, done \cup {id}, Append(out, id))
<1> DEFINE m == [SubSeq(l, 1, n) EXCEPT ![n].next = @ + 1]
           more == Append(out, id)
<1>1. /\ l \in Seq(Loops)
      /\ l[n] \in Loops /\ l[n + 1] \in Loops
  BY DEF Good, Typed, Nested
<1>2. /\ id \in Steps /\ l[n + 1].ids = deps[id] /\ id \in going /\ id \notin done
      /\ l[n].next <= Len(l[n].ids)
  BY <1>1 DEF Good, Nested, Listed
<1>3. Ids(id) \subseteq done
  <2>1. \A k \in 1..Len(deps[id]) : k \in 1..(l[n + 1].next - 1)
    BY <1>1, <1>2, LoopLists, IdsAreListed
  <2> QED
    BY <1>1, <1>2, <2>1, IdsAreListed DEF Good, Passed
<1>4. [l[n] EXCEPT !.next = @ + 1] \in Loops
  BY <1>1, LoopLists DEF Loops
<1>5. /\ m \in Seq(Loops) /\ Len(m) = n
      /\ \A i \in 1..(n - 1) : m[i] = l[i]
      /\ m[n] = [l[n] EXCEPT !.next = @ + 1]
  <2>1. SubSeq(l, 1, n) \in Seq(Loops) /\ Len(SubSeq(l, 1, n)) = n
        /\ \A i \in 1..n : SubSeq(l, 1, n)[i] = l[i]
    BY <1>1
  <2> DEFINE o == SubSeq(l, 1, n)
  <2>2. o \in Seq(Loops) /\ Len(o) = n /\ o[n] = l[n]
    BY <2>1
  <2> DEFINE p == [o EXCEPT ![n] = [l[n] EXCEPT !.next = @ + 1]]
  <2>3. m = p
    BY <2>2
  <2> HIDE DEF o
  <2>4. /\ p \in Seq(Loops) /\ Len(p) = n /\ p[n] = [l[n] EXCEPT !.next = @ + 1]
        /\ \A i \in 1..(n - 1) : p[i] = o[i]
    BY <1>4, <2>2
  <2>5. \A i \in 1..(n - 1) : o[i] = l[i]
    BY <2>1 DEF o
  <2> HIDE DEF m, p
  <2> QED
    BY <2>3, <2>4, <2>5
<1>6. m[n].ids = l[n].ids /\ m[n].next = l[n].next + 1 /\ l[n].next \in Nat
  BY <1>1, <1>5, LoopLists
<1>7. \A i \in 1..n : m[i].ids = l[i].ids
  BY <1>5, <1>6
<1>8. \A i \in 1..(n - 1) : Current(m, i) = Current(l, i)
  BY <1>5 DEF Current
<1> HIDE DEF m
<1>9. Nested(m, going \ {id})
  <2>1. Len(m) > 0 /\ m[1].ids = StepList
    BY <1>1, <1>5, <1>7 DEF Good, Nested
  <2>2. ASSUME NEW i \in 1..(n - 1)
        PROVE  /\ m[i].next <= Len(m[i].ids) /\ Current(m, i) \in Steps
               /\ m[i + 1].ids = deps[Current(m, i)]
    <3>1. m[i] = l[i] /\ m[i + 1].ids = l[i + 1].ids /\ Current(m, i) = Current(l, i)
      BY <1>5, <1>7, <1>8
    <3>2. i \in 1..(Len(l) - 1)
      OBVIOUS
    <3> QED
      BY <3>1, <3>2 DEF Good, Nested
  <2>3. \A i, j \in 1..n : Current(l, i) = Current(l, j) => i = j
    BY <1>1 DEF Good, Nested
  <2>4. going \ {id} = {Current(m, i) : i \in 1..(n - 1)}
    <3>1. going = {Current(l, i) : i \in 1..n}
      BY <1>1 DEF Good, Nested
    <3>2. 1..n = 1..(n - 1) \cup {n}
      BY <1>1
    <3>3. \A i \in 1..(n - 1) : Current(l, i) # id
      BY <1>1, <2>3
    <3> QED
      BY <1>8, <3>1, <3>2, <3>3
  <2>5. \A i, j \in 1..(n - 1) : Current(m, i) = Current(m, j) => i = j
    BY <1>1, <1>8, <2>3
  <2> QED
    BY <1>5, <2>1, <2>2, <2>4, <2>5 DEF Nested
<1>10. Passed(m, done \cup {id})
  <2> SUFFICES ASSUME NEW i \in 1..n, NEW k \in 1..(m[i].next - 1), k <= Len(m[i].ids)
               PROVE  m[i].ids[k] \in done \cup {id}
    BY <1>5 DEF Passed
  <2>1. CASE i < n
    BY <1>1, <1>5, <2>1 DEF Good, Passed
  <2>2. CASE i = n /\ k < l[n].next
    BY <1>1, <1>6, <2>2 DEF Good, Passed
  <2>3. CASE i = n /\ k = l[n].next
    BY <1>6, <2>3 DEF Current
  <2> QED
    BY <1>1, <1>6, <2>1, <2>2, <2>3
<1>11. /\ more \in Seq(Steps) /\ Len(more) = Len(out) + 1 /\ DOMAIN more = 1..(Len(out) + 1)
       /\ DOMAIN out = 1..Len(out) /\ Len(out) \in Nat
       /\ \A i \in DOMAIN out : more[i] = out[i]
       /\ more[Len(out) + 1] = id
  BY <1>2 DEF Good, Typed
<1> HIDE DEF more
<1>12. Listed(going \ {id}, done \cup {id}, more)
  <2>1. done = {out[i] : i \in DOMAIN out}
    BY DEF Good, Listed
  <2>2. done \cup {id} = {more[i] : i \in DOMAIN more}
    <3>1. DOMAIN more = DOMAIN out \cup {Len(out) + 1}
      BY <1>11
    <3> QED
      BY <1>11, <2>1, <3>1
  <2>3. (going \ {id}) \cap (done \cup {id}) = {}
    BY DEF Good, Listed
  <2>4. \A i, j \in DOMAIN more : more[i] = more[j] => i = j
    BY <1>2, <1>11, <2>1 DEF Good, Listed
  <2>5. ASSUME NEW i \in DOMAIN more PROVE Ids(more[i]) \subseteq {more[j] : j \in 1..(i - 1)}
    <3>1. CASE i \in DOMAIN out
      <4>1. Ids(out[i]) \subseteq {out[j] : j \in 1..(i - 1)}
        BY <3>1 DEF Good, Listed
      <4>2. \A j \in 1..(i - 1) : more[j] = out[j]
        BY <1>11, <3>1
      <4> QED
        BY <1>11, <3>1, <4>1, <4>2
    <3>2. CASE i = Len(out) + 1
      <4>1. 1..(i - 1) = DOMAIN out
        BY <1>11, <3>2
      <4>2. \A d \in done : \E j \in 1..(i - 1) : more[j] = d
        BY <1>11, <2>1, <4>1
      <4> QED
        BY <1>3, <1>11, <3>2, <4>2
    <3> QED
      BY <1>11, <3>1, <3>2
  <2> QED
    BY <2>2, <2>3, <2>4, <2>5 DEF Listed
<1>13. Unknotted(done \cup {id})
  <2>1. \A s \in done : Ids(s) \subseteq done
    <3> SUFFICES ASSUME NEW s \in done PROVE Ids(s) \subseteq done
      OBVIOUS
    <3>1. PICK i \in DOMAIN out : out[i] = s
      BY DEF Good, Listed
    <3>2. \A j \in 1..(i - 1) : j \in DOMAIN out
      BY <1>11, <3>1
    <3> QED
      BY <3>1, <3>2 DEF Good, Listed
  <2> QED
    BY <1>2, <1>3, <2>1, LeaveTiesNoKnot DEF Good
<1>14. Typed(m, going \ {id}, done \cup {id}, more)
  BY <1>2, <1>5, <1>11 DEF Good, Typed
<1> QED
  BY <1>9, <1>10, <1>12, <1>13, <1>14 DEF Good, m, more

-----------------------------------------------------------------------------
LEMMA GoodAtFirst ==
  ASSUME deps \in Graphs
  PROVE  Good(<<Loop(StepList)>>, {}, {}, << >>)
<1> DEFINE l == <<Loop(StepList)>>
<1>1. Len(l) = 1 /\ l[1].ids = StepList /\ l[1].next = 1 /\ l \in Seq(Loops)
  BY DEF Loops, Loop
<1> HIDE DEF l
<1>2. Typed(l, {}, {}, << >>)
  BY <1>1 DEF Typed
<1>3. Nested(l, {})
  BY <1>1 DEF Nested
<1>4. Passed(l, {})
  BY <1>1 DEF Passed
<1>5. Listed({}, {}, << >>) /\ Unknotted({})
  BY DEF Listed, Unknotted
<1> QED
  BY <1>2, <1>3, <1>4, <1>5 DEF Good, l

(* A step of one run's search.                                             *)
LEMMA OneSearch ==
  ASSUME SearchInv, deps' = deps, NEW r \in Runs, NEW l, NEW going, NEW done, NEW out,
         Good(l, going, done, out),
         loops' = [loops EXCEPT ![r] = l], visiting' = [visiting EXCEPT ![r] = going],
         visited' = [visited EXCEPT ![r] = done], sorted' = [sorted EXCEPT ![r] = out]
  PROVE  SearchInv'
<1>1. /\ l \in Seq(Loops) /\ going \in SUBSET Steps /\ done \in SUBSET Steps /\ out \in Seq(Steps)
      /\ loops \in [Runs -> Seq(Loops)] /\ visiting \in [Runs -> SUBSET Steps]
      /\ visited \in [Runs -> SUBSET Steps] /\ sorted \in [Runs -> Seq(Steps)]
  BY DEF SearchInv, SearchTypeOK, Good, Typed, Loops
<1>2. /\ loops' \in [Runs -> Seq(Loops)] /\ visiting' \in [Runs -> SUBSET Steps]
      /\ visited' \in [Runs -> SUBSET Steps] /\ sorted' \in [Runs -> Seq(Steps)]
  BY <1>1
<1>3. ASSUME NEW q \in Runs PROVE Good(loops'[q], visiting'[q], visited'[q], sorted'[q])
  BY <1>1 DEF SearchInv
<1>5. ASSUME NEW q \in Runs PROVE Good(loops[q], visiting[q], visited[q], sorted[q])'
  <2>0. \A s : Ids(s)' = Ids(s)
    BY DEF Ids
  <2>1. Typed(loops[q], visiting[q], visited[q], sorted[q])'
    BY <1>3 DEF Good, Typed, Loops
  <2>2. Nested(loops[q], visiting[q])'
    <3>1. Nested(loops'[q], visiting'[q])
      BY <1>3 DEF Good
    <3>2. /\ Len(loops'[q]) > 0 /\ loops'[q][1].ids = StepList
          /\ visiting'[q] = {Current(loops'[q], i) : i \in 1..(Len(loops'[q]) - 1)}
          /\ \A i, j \in 1..(Len(loops'[q]) - 1) :
               Current(loops'[q], i) = Current(loops'[q], j) => i = j
      BY <3>1 DEF Nested
    <3>3. \A i \in 1..(Len(loops'[q]) - 1) :
            /\ loops'[q][i].next <= Len(loops'[q][i].ids)
            /\ Current(loops'[q], i) \in Steps
            /\ loops'[q][i + 1].ids = deps'[Current(loops'[q], i)]
      BY <3>1 DEF Nested
    <3> QED
      BY <3>2, <3>3 DEF Nested, Current
  <2>3. Passed(loops[q], visited[q])'
    BY <1>3 DEF Good, Passed
  <2>4. Listed(visiting[q], visited[q], sorted[q])'
    BY <1>3, <2>0 DEF Good, Listed
  <2>5. Unknotted(visited[q])'
    BY <1>3, <2>0 DEF Good, Unknotted
  <2> QED
    BY <2>1, <2>2, <2>3, <2>4, <2>5 DEF Good
<1>6. SearchTypeOK'
  BY <1>2 DEF SearchTypeOK, Loops
<1> QED
  BY <1>5, <1>6 DEF SearchInv

LEMMA SearchStarts == SearchInit => SearchInv
<1> SUFFICES ASSUME SearchInit PROVE SearchInv
  OBVIOUS
<1>1. deps \in Graphs
  BY DEF SearchInit, Init
<1>2. Good(<<Loop(StepList)>>, {}, {}, << >>)
  BY <1>1, GoodAtFirst
<1>3. <<Loop(StepList)>> \in Seq(Loops)
  BY <1>2 DEF Good, Typed
<1>4. SearchTypeOK
  BY <1>3 DEF SearchInit, SearchTypeOK, Loops
<1> QED
  BY <1>1, <1>2, <1>4 DEF SearchInit, SearchInv

LEMMA SeenKeeps ==
  ASSUME SearchInv, NEW r \in Runs, Seen(r), UNCHANGED vars
  PROVE  SearchInv'
<1>1. Current(loops[r], Len(loops[r])) \in visited[r]
  BY DEF Seen, Wanted, At, Depth, Current
<1>2. Good([loops[r] EXCEPT ![Len(loops[r])].next = @ + 1], visiting[r], visited[r], sorted[r])
  BY <1>1, SeenIsGood DEF SearchInv
<1>3. /\ loops' = [loops EXCEPT ![r] = [loops[r] EXCEPT ![Len(loops[r])].next = @ + 1]]
      /\ visiting' = [visiting EXCEPT ![r] = visiting[r]]
      /\ visited' = [visited EXCEPT ![r] = visited[r]]
      /\ sorted' = [sorted EXCEPT ![r] = sorted[r]]
  BY DEF Seen, Depth, SearchInv, SearchTypeOK
<1> QED
  BY <1>2, <1>3, OneSearch DEF vars

LEMMA EnterKeeps ==
  ASSUME SearchInv, NEW r \in Runs, Enter(r), UNCHANGED vars
  PROVE  SearchInv'
<1> DEFINE l == loops[r]
           id == Wanted(r)
<1>1. /\ id \in Steps /\ id = Current(l, Len(l)) /\ l[Len(l)].next <= Len(l[Len(l)].ids)
      /\ id \notin visited[r] /\ id \notin visiting[r]
  BY DEF Enter, More, Wanted, At, Depth, Current
<1>2. Good(Append(l, Loop(deps[id])), visiting[r] \cup {id}, visited[r], sorted[r])
  BY <1>1, EnterIsGood DEF SearchInv
<1>3. /\ loops' = [loops EXCEPT ![r] = Append(l, Loop(deps[id]))]
      /\ visiting' = [visiting EXCEPT ![r] = visiting[r] \cup {id}]
      /\ visited' = [visited EXCEPT ![r] = visited[r]]
      /\ sorted' = [sorted EXCEPT ![r] = sorted[r]]
  BY DEF Enter, SearchInv, SearchTypeOK
<1> QED
  BY <1>2, <1>3, OneSearch DEF vars

LEMMA LeaveKeeps ==
  ASSUME SearchInv, NEW r \in Runs, Leave(r), UNCHANGED vars
  PROVE  SearchInv'
<1> DEFINE l == loops[r]
           id == At(r, Depth(r) - 1)
<1>1. Good(l, visiting[r], visited[r], sorted[r]) /\ l \in Seq(Loops)
  BY DEF SearchInv, Good, Typed
<1>2. PICK n \in Nat \ {0} : Len(l) = n + 1 /\ n = Len(l) - 1
  BY <1>1 DEF Leave, Depth
<1>3. ~(l[n + 1].next <= Len(l[n + 1].ids)) /\ id = Current(l, n)
  BY <1>2 DEF Leave, More, Depth, At, Current
<1>4. Good([SubSeq(l, 1, n) EXCEPT ![n].next = @ + 1],
           visiting[r] \ {id}, visited[r] \cup {id}, Append(sorted[r], id))
  BY <1>1, <1>2, <1>3, LeaveIsGood DEF SearchInv
<1>5. /\ loops' = [loops EXCEPT ![r] = [SubSeq(l, 1, n) EXCEPT ![n].next = @ + 1]]
      /\ visiting' = [visiting EXCEPT ![r] = visiting[r] \ {id}]
      /\ visited' = [visited EXCEPT ![r] = visited[r] \cup {id}]
      /\ sorted' = [sorted EXCEPT ![r] = Append(sorted[r], id)]
  BY <1>2 DEF Leave, Outer, Depth
<1> QED
  BY <1>4, <1>5, OneSearch DEF vars

LEMMA ElsewhereKeeps ==
  ASSUME SearchInv, UNCHANGED searchVars, deps' = deps
  PROVE  SearchInv'
<1>1. SearchTypeOK'
  BY DEF SearchInv, SearchTypeOK, searchVars
<1>2. ASSUME NEW r \in Runs PROVE Good(loops[r], visiting[r], visited[r], sorted[r])'
  <2> USE DEF searchVars
  <2>1. Good(loops[r], visiting[r], visited[r], sorted[r]) /\ \A s : Ids(s)' = Ids(s)
    BY DEF SearchInv, Ids
  <2>2. Typed(loops[r], visiting[r], visited[r], sorted[r])'
    BY <2>1 DEF Good, Typed, Loops
  <2>3. Nested(loops[r], visiting[r])'
    BY <2>1 DEF Good, Nested, Current
  <2>4. Passed(loops[r], visited[r])'
    BY <2>1 DEF Good, Passed
  <2>5. Listed(visiting[r], visited[r], sorted[r])'
    BY <2>1 DEF Good, Listed
  <2>6. Unknotted(visited[r])'
    BY <2>1 DEF Good, Unknotted
  <2> QED
    BY <2>2, <2>3, <2>4, <2>5, <2>6 DEF Good
<1> QED
  BY <1>1, <1>2 DEF SearchInv

LEMMA SearchGoesOn == SearchInv /\ [SearchNext]_allVars => SearchInv'
<1> SUFFICES ASSUME SearchInv, [SearchNext]_allVars PROVE SearchInv'
  OBVIOUS
<1>1. CASE UNCHANGED allVars
  BY <1>1, ElsewhereKeeps DEF allVars, vars
<1>2. ASSUME NEW r \in Runs, Search(r) PROVE SearchInv'
  BY <1>2, SeenKeeps, EnterKeeps, LeaveKeeps DEF Search
<1>3. ASSUME NEW r \in Runs, SortFails(r) \/ SortSucceeds(r) PROVE SearchInv'
  BY <1>3, ElsewhereKeeps DEF SortFails, SortSucceeds, searchVars
<1>4. ASSUME NEW r \in Runs, Elsewhere(r), UNCHANGED searchVars PROVE SearchInv'
  <2>1. deps' = deps
    BY <1>4 DEF Elsewhere, Begin, Cancel, Return, StepOf, Await, Skip, GiveUp, Execute, Finish, Close
  <2> QED
    BY <1>4, <2>1, ElsewhereKeeps
<1> QED
  BY <1>1, <1>2, <1>3, <1>4 DEF SearchNext, Sorting

LEMMA SearchInvariance == SearchSpec => []SearchInv
  BY SearchStarts, SearchGoesOn, PTL DEF SearchSpec

(* What a search that is refused or finished has found out.                *)
LEMMA RefusedUnsortable ==
  ASSUME SearchInv, NEW r \in Runs, Refused(r)
  PROVE  ~Sortable
<1> DEFINE l == loops[r]
           id == Wanted(r)
<1>0. PICK n \in Nat \ {0} : n = Len(l)
  BY DEF SearchInv, Good, Typed, Nested
<1>1. /\ l \in Seq(Loops) /\ l[n] \in Loops
      /\ id = Current(l, n) /\ l[n].next <= Len(l[n].ids)
  BY <1>0 DEF SearchInv, Good, Typed, Nested, Depth, Refused, More, Wanted, At, Current
<1>2. /\ l[1].ids = StepList
      /\ \A i \in 1..(n - 1) : Current(l, i) \in Steps /\ l[i + 1].ids = deps[Current(l, i)]
      /\ visiting[r] = {Current(l, i) : i \in 1..(n - 1)}
      /\ \A i \in 1..(n - 1) : l[i].next <= Len(l[i].ids)
  BY <1>0 DEF SearchInv, Good, Nested
<1>3. ASSUME NEW i \in 1..(n - 1) PROVE Current(l, i + 1) \in Ids(Current(l, i))
  <2>1. i + 1 \in 1..n /\ l[i + 1] \in Loops /\ l[i + 1].next <= Len(l[i + 1].ids)
    <3>1. i + 1 \in 1..n /\ l[i + 1] \in Loops
      BY <1>0, <1>1
    <3>2. i + 1 = n \/ i + 1 \in 1..(n - 1)
      OBVIOUS
    <3> QED
      BY <1>1, <1>2, <3>1, <3>2
  <2>2. l[i + 1].next \in 1..Len(l[i + 1].ids)
    BY <2>1, LoopLists DEF SearchInv
  <2> QED
    BY <1>2, <2>2, IdsAreListed DEF SearchInv, Current
<1> SUFFICES ASSUME Sortable PROVE FALSE
  OBVIOUS
<1>4. CASE id \notin Steps
  <2>1. CASE n = 1
    <3>1. l[n].next \in DOMAIN StepList
      BY <1>1, <1>2, <2>1, LoopLists DEF SearchInv
    <3> QED
      BY <1>1, <1>2, <1>4, <2>1, <3>1, StepListIsSteps DEF Current
  <2>2. CASE n > 1
    <3>1. n - 1 \in 1..(n - 1) /\ n - 1 + 1 = n
      BY <1>1, <2>2
    <3>2. id \in Ids(Current(l, n - 1)) /\ Current(l, n - 1) \in Steps
      BY <1>1, <1>2, <1>3, <3>1
    <3> QED
      BY <1>4, <3>2 DEF Sortable
  <2> QED
    BY <2>1, <2>2
<1>5. CASE id \in visiting[r]
  <2>1. PICK k \in 1..(n - 1) : id = Current(l, k)
    BY <1>2, <1>5
  <2> DEFINE S == {Current(l, i) : i \in k..(n - 1)}
  <2>2. S \in (SUBSET Steps) \ {{}}
    <3>1. \A i \in k..(n - 1) : i \in 1..(n - 1)
      BY <1>1, <2>1
    <3>2. k \in k..(n - 1)
      BY <1>1, <2>1
    <3> QED
      BY <1>2, <3>1, <3>2
  <2>3. ASSUME NEW s \in S PROVE Ids(s) \cap S # {}
    <3>1. PICK i \in k..(n - 1) : s = Current(l, i)
      OBVIOUS
    <3>2. i \in 1..(n - 1)
      BY <1>1, <2>1, <3>1
    <3>3. Current(l, i + 1) \in Ids(s)
      BY <1>3, <3>1, <3>2
    <3>4. Current(l, i + 1) \in S
      <4>1. CASE i + 1 \in k..(n - 1)
        BY <4>1
      <4>2. CASE i + 1 = n
        <5>1. k \in k..(n - 1)
          BY <1>1, <2>1
        <5>2. Current(l, i + 1) = Current(l, k)
          BY <1>1, <2>1, <4>2
        <5> QED
          BY <5>1, <5>2
      <4> QED
        BY <1>1, <2>1, <3>1, <4>1, <4>2
    <3> QED
      BY <3>3, <3>4
  <2> HIDE DEF S
  <2> QED
    BY <2>2, <2>3 DEF Sortable
<1> QED
  BY <1>4, <1>5 DEF Refused

LEMMA FinishedSortable ==
  ASSUME SearchInv, NEW r \in Runs, Finished(r)
  PROVE  Sortable /\ InOrder(sorted[r])
<1> DEFINE l == loops[r]
           done == visited[r]
           out == sorted[r]
<1>1. /\ l \in Seq(Loops) /\ Len(l) = 1 /\ l[1] \in Loops /\ l[1].ids = StepList
      /\ ~(l[1].next <= Len(l[1].ids))
  BY DEF SearchInv, Good, Typed, Nested, Finished, Depth, More
<1>2. \A k \in 1..(l[1].next - 1) : k <= Len(l[1].ids) => l[1].ids[k] \in done
  BY <1>1 DEF SearchInv, Good, Passed
<1>3. \A k \in DOMAIN StepList : StepList[k] \in done
  BY <1>1, <1>2, LoopLists DEF SearchInv
<1>4. Steps = done
  BY <1>3, StepListIsSteps DEF SearchInv, SearchTypeOK
<1>5. Listed(visiting[r], Steps, out) /\ Unknotted(Steps) /\ out \in Seq(Steps)
  BY <1>4 DEF SearchInv, Good, Typed
<1>6. InOrder(out)
  BY <1>5 DEF Listed, InOrder
<1>7. ASSUME NEW s \in Steps PROVE Ids(s) \subseteq Steps
  <2>1. PICK i \in DOMAIN out : out[i] = s
    BY <1>6 DEF InOrder
  <2>2. \A j \in 1..(i - 1) : out[j] \in Steps
    BY <1>5, <2>1
  <2> QED
    BY <1>6, <2>1, <2>2 DEF InOrder
<1> QED
  BY <1>5, <1>6, <1>7 DEF Sortable, Unknotted

(* For every workflow, and whatever else is going on, the depth-first      *)
(* search of a run fails exactly when its graph has no order, and what it  *)
(* returns lists every step once, after its dependencies.                  *)
THEOREM SortIsAlwaysRight == SearchSpec => []SortIsRight
<1>1. SearchInv => SortIsRight
  BY RefusedUnsortable, FinishedSortable DEF SortIsRight
<1> QED
  BY <1>1, SearchInvariance, PTL

(* The search keeps its types.                                             *)
THEOREM SearchTypeCorrect == SearchSpec => []SearchTypeOK
<1>1. SearchInv => SearchTypeOK
  BY DEF SearchInv
<1> QED
  BY <1>1, SearchInvariance, PTL

(* The engine with its search is the engine of GoWorkflow, which sorts in  *)
(* one step: all that is proved of the one holds of the other.             *)
THEOREM SearchIsTheSort == SearchSpec => Spec
<1>1. SearchInit => Init
  BY DEF SearchInit
<1>2. SearchInv /\ [SearchNext]_allVars => [Next]_vars
  <2> SUFFICES ASSUME SearchInv, [SearchNext]_allVars PROVE [Next]_vars
    OBVIOUS
  <2>1. CASE UNCHANGED allVars
    BY <2>1 DEF allVars
  <2>2. ASSUME NEW r \in Runs, Elsewhere(r) PROVE Next
    BY <2>2 DEF Elsewhere, Next, RunOf
  <2>3. ASSUME NEW r \in Runs, SortFails(r) PROVE Sort(r)
    BY <2>3, RefusedUnsortable DEF SortFails, Sort
  <2>4. ASSUME NEW r \in Runs, SortSucceeds(r) PROVE Sort(r)
    <3>1. Sortable /\ InOrder(sorted[r])
      BY <2>4, FinishedSortable DEF SortSucceeds
    <3>2. \A s \in Steps : \E i \in DOMAIN sorted[r] : sorted[r][i] = s
      BY <3>1 DEF InOrder
    <3>3. at' = [at EXCEPT ![r] = [s \in Steps |-> "waiting"]]
      BY <2>4, <3>2 DEF SortSucceeds
    <3> QED
      BY <2>4, <3>1, <3>3 DEF SortSucceeds, Sort
  <2> QED
    BY <2>1, <2>2, <2>3, <2>4 DEF SearchNext, Sorting, Search, Next, RunOf
<1> QED
  BY <1>1, <1>2, SearchInvariance, PTL DEF SearchSpec, Spec

(* The engine, its search included, implements DagRun when runs do not     *)
(* overlap.                                                                *)
THEOREM EngineKeepsPromise ==
  ASSUME ~MayOverlap, Runs # {}
  PROVE  SearchSpec => KeepsPromise
  BY SearchIsTheSort, RunsKeepPromise

(* It shows an end only when it has come, and the right one.               *)
THEOREM EngineIsHonest ==
  ASSUME ~MayOverlap
  PROVE  SearchSpec => []OverallIsHonest
  BY SearchIsTheSort, SerialOverallIsHonest

(* And a step of it never executes before its dependencies are over,       *)
(* however many runs overlap.                                              *)
THEOREM EngineWaitsForDependencies == SearchSpec => []DependenciesFirst
  BY SearchIsTheSort, DependenciesAlwaysFirst
=============================================================================
