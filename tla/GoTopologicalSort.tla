------------------------- MODULE GoTopologicalSort -------------------------
(***************************************************************************)
(* GoWorkflow with its sort opened up: topologicalSort of                  *)
(* go/internal/workflow/engine.go, the depth-first search that decides     *)
(* whether a run starts its goroutines or fails.  The search reads the     *)
(* graph without a lock while other runs go on.                            *)
(*                                                                         *)
(* The nested calls of visit are the for loops under way, the outermost    *)
(* over Workflow.Steps and each other one over the dependencies of the     *)
(* step that the loop around it is at.                                     *)
(***************************************************************************)
EXTENDS GoWorkflow

CONSTANT StepList  \* Workflow.Steps, in its order

ASSUME StepListIsSteps ==
  StepList \in Seq(Steps) /\ Steps = {StepList[i] : i \in DOMAIN StepList}

VARIABLES
  loops,     \* of each run: the loops under way, [ids, next], outermost first
  visiting,  \* visiting
  visited,   \* visited
  sorted     \* sorted

searchVars == <<loops, visiting, visited, sorted>>
allVars == <<vars, searchVars>>

Loop(ids) == [ids |-> ids, next |-> 1]

Depth(r) == Len(loops[r])

More(r) == loops[r][Depth(r)].next <= Len(loops[r][Depth(r)].ids)

(* The step that the i-th loop is at.                                      *)
At(r, i) == loops[r][i].ids[loops[r][i].next]

Wanted(r) == At(r, Depth(r))

(* visit(id) returns an error: of a cycle or of a missing step.            *)
Refused(r) ==
  /\ More(r) /\ Wanted(r) \notin visited[r]
  /\ Wanted(r) \in visiting[r] \/ Wanted(r) \notin Steps

Finished(r) == Depth(r) = 1 /\ ~More(r)

-----------------------------------------------------------------------------
(* visit(id) returns at once.                                              *)
Seen(r) ==
  /\ More(r) /\ Wanted(r) \in visited[r]
  /\ loops' = [loops EXCEPT ![r][Depth(r)].next = @ + 1]
  /\ UNCHANGED <<visiting, visited, sorted>>

(* visit(id) begins the loop over the dependencies of id.                  *)
Enter(r) ==
  /\ More(r) /\ Wanted(r) \notin visited[r] \cup visiting[r] /\ Wanted(r) \in Steps
  /\ visiting' = [visiting EXCEPT ![r] = @ \cup {Wanted(r)}]
  /\ loops' = [loops EXCEPT ![r] = Append(@, Loop(deps[Wanted(r)]))]
  /\ UNCHANGED <<visited, sorted>>

(* Its loop over, visit(id) returns to the loop around it.                 *)
Outer(r) == SubSeq(loops[r], 1, Depth(r) - 1)

Leave_InFront(r) ==
  /\ ~More(r) /\ Depth(r) > 1
  /\ LET id == At(r, Depth(r) - 1)
     IN  /\ visiting' = [visiting EXCEPT ![r] = @ \ {id}]
         /\ visited' = [visited EXCEPT ![r] = @ \cup {id}]
         /\ sorted' = [sorted EXCEPT ![r] = <<id>> \o @]
  /\ loops' = [loops EXCEPT ![r] = [Outer(r) EXCEPT ![Depth(r) - 1].next = @ + 1]]

Leave(r) ==
  /\ ~More(r) /\ Depth(r) > 1
  /\ LET id == At(r, Depth(r) - 1)
     IN  /\ visiting' = [visiting EXCEPT ![r] = @ \ {id}]
         /\ visited' = [visited EXCEPT ![r] = @ \cup {id}]
         /\ sorted' = [sorted EXCEPT ![r] = Append(@, id)]
  /\ loops' = [loops EXCEPT ![r] = [Outer(r) EXCEPT ![Depth(r) - 1].next = @ + 1]]

Search(r) ==
  /\ phase[r] = "sorting"
  /\ Seen(r) \/ Enter(r) \/ Leave(r)
  /\ UNCHANGED vars

(* Run goes on: it fails, or starts a goroutine for each sorted step.      *)
SortFails(r) ==
  /\ phase[r] = "sorting" /\ Refused(r)
  /\ phase' = [phase EXCEPT ![r] = "returned"]
  /\ overall' = "failed"
  /\ UNCHANGED <<deps, status, cancelled, at, pending, outcome, searchVars>>

SortSucceeds(r) ==
  /\ phase[r] = "sorting" /\ Finished(r)
  /\ phase' = [phase EXCEPT ![r] = "running"]
  /\ at' = [at EXCEPT ![r] =
       [s \in Steps |-> IF \E i \in DOMAIN sorted[r] : sorted[r][i] = s THEN "waiting" ELSE @[s]]]
  /\ UNCHANGED <<deps, status, overall, cancelled, pending, outcome, searchVars>>

-----------------------------------------------------------------------------
SearchInit ==
  /\ Init
  /\ loops = [r \in Runs |-> <<Loop(StepList)>>]
  /\ visiting = [r \in Runs |-> {}]
  /\ visited = [r \in Runs |-> {}]
  /\ sorted = [r \in Runs |-> << >>]

Sorting(r) == Search(r) \/ SortFails(r) \/ SortSucceeds(r)

Elsewhere(r) == Begin(r) \/ Cancel(r) \/ Return(r) \/ \E s \in Steps : StepOf(r, s)

SearchNext == \E r \in Runs : Sorting(r) \/ (Elsewhere(r) /\ UNCHANGED searchVars)

SearchSpec == SearchInit /\ [][SearchNext]_allVars

(* As in GoWorkflow; the search goes on until it ends.                     *)
SearchFairness ==
  \A r \in Runs :
    /\ WF_allVars(Sorting(r))
    /\ WF_allVars(Return(r) /\ UNCHANGED searchVars)
    /\ \A s \in Steps : WF_allVars(StepOf(r, s) /\ UNCHANGED searchVars)

FairSearchSpec == SearchSpec /\ SearchFairness

-----------------------------------------------------------------------------
(* Each step once, after its dependencies.                                 *)
InOrder(seq) ==
  /\ Steps = {seq[i] : i \in DOMAIN seq}
  /\ \A i, j \in DOMAIN seq : seq[i] = seq[j] => i = j
  /\ \A i \in DOMAIN seq : Ids(seq[i]) \subseteq {seq[j] : j \in 1..(i - 1)}

(* The search fails exactly on the graphs that cannot be ordered: because  *)
(* of a cycle or a missing step, and never because two steps share a       *)
(* dependency.  What it returns lists every step once, after its           *)
(* dependencies.                                                           *)
SortIsRight ==
  \A r \in Runs : /\ Refused(r) => ~Sortable
                  /\ Finished(r) => Sortable /\ InOrder(sorted[r])

(* Type invariant of the search.                                           *)
SearchTypeOK ==
  /\ loops \in [Runs -> Seq([ids: {StepList} \cup {deps[s] : s \in Steps}, next: Nat \ {0}])]
  /\ visiting \in [Runs -> SUBSET Steps]
  /\ visited \in [Runs -> SUBSET Steps]
  /\ sorted \in [Runs -> Seq(Steps)]
=============================================================================
