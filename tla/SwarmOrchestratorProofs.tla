---------------------- MODULE SwarmOrchestratorProofs ----------------------
(***************************************************************************)
(* Proofs about SwarmOrchestrator for every set of tasks and all limits.   *)
(***************************************************************************)
EXTENDS SwarmOrchestrator, FiniteSetTheorems, TLAPS

Jobs == [Tasks -> [at : Places, status : Statuses, retry : 0 .. MaxRetries, tree : BOOLEAN]]

Records == [Tasks -> [status : Statuses, retry : 0 .. MaxRetries]]

Verdicts == {"active", "paused", "completed", "failed"}

Resting == {"idle", "settled"}

BeforeOffer == {"entering", "approval", "approved", "throttled", "worktree", "retrying"}

(* The status of a task follows from where its execution is.               *)
StatusOf(place) ==
  CASE place = "entering" -> {"pending", "running", "verifying", "healing"}
    [] place \in {"approval", "approved"} -> {"pending_approval"}
    [] place = "throttled" -> {"throttled"}
    [] place \in {"worktree", "bidding", "assigned"} -> {"running"}
    [] place = "verifying" -> {"verifying"}
    [] place = "retrying" -> {"running", "verifying"}
    [] place = "healing" -> {"healing"}
    [] place = "cleaning" -> {"failed"}
    [] OTHER -> Statuses

(* The record of a task is what the orchestrator has, but for a failure    *)
(* that is recorded once the worktree has been cleaned up.                 *)
Synced(t) ==
  swarm = "running" =>
    /\ record[t].retry = job[t].retry
    /\ record[t].status = IF job[t].at = "cleaning" THEN "healing" ELSE job[t].status

Queued(t) == t \in queue => job[t].at = "idle" /\ record[t].status = "pending"

(* Offers are paid for by attempts, heals and resets, the last of them     *)
(* perhaps still ahead.                                                    *)
Counted(t) ==
  /\ record[t].status = "pending" => offers[t] <= record[t].retry + heals[t] + resets
  /\ job[t].at \in BeforeOffer => offers[t] <= record[t].retry + heals[t] + resets
  /\ offers[t] <= 1 + record[t].retry + heals[t] + resets

Proven(t) == job[t].at = "verifying" \/ record[t].status = "completed" => t \in worked

Allowed(t) == t \in Sensitive /\ job[t].at \in {"approved", "throttled", "worktree"} => t \in granted

TaskOK(t) ==
  /\ job[t].status \in StatusOf(job[t].at)
  /\ Synced(t) /\ Queued(t) /\ Counted(t) /\ Proven(t) /\ Allowed(t)
  /\ swarm # "running" => job[t].at \in Resting

Inv == TypeOK /\ \A t \in Tasks : TaskOK(t)

-----------------------------------------------------------------------------
(* What the operators that several actions share do.                       *)

LEMMA VerdictTyped ==
  ASSUME verdict \in Verdicts, NEW rec, NEW status
  PROVE  Verdict(rec, status) \in Verdicts
  BY DEF Verdict, Verdicts

(* A step for the task t that leaves the other tasks alone.                *)
Only(t) ==
  /\ job' \in Jobs /\ record' \in Records /\ verdict' \in Verdicts
  /\ \A u \in Tasks \ {t} : job'[u] = job[u] /\ record'[u] = record[u]

LEMMA BecomesFacts ==
  ASSUME TypeOK, NEW t \in Tasks, NEW status \in Statuses, NEW place \in Places,
         Becomes(t, status, place)
  PROVE  /\ Only(t)
         /\ job'[t].at = place /\ job'[t].status = status /\ job'[t].retry = job[t].retry
         /\ record'[t].status = status /\ record'[t].retry = record[t].retry
         /\ verdict' = Verdict(record', status)
<1>1. job \in Jobs /\ record \in Records /\ verdict \in Verdicts
  BY DEF TypeOK, Jobs, Records, Verdicts
<1>2. /\ job' = [job EXCEPT ![t].status = status, ![t].at = place]
      /\ record' = [record EXCEPT ![t] = [record[t] EXCEPT !.status = status]]
      /\ verdict' = Verdict(record', status)
  BY DEF Becomes, Update
<1>3. /\ job' \in Jobs
      /\ job'[t].at = place /\ job'[t].status = status /\ job'[t].retry = job[t].retry
      /\ \A u \in Tasks \ {t} : job'[u] = job[u]
  BY <1>1, <1>2 DEF Jobs
<1>4. /\ record' \in Records
      /\ record'[t].status = status /\ record'[t].retry = record[t].retry
      /\ \A u \in Tasks \ {t} : record'[u] = record[u]
  BY <1>1, <1>2 DEF Records
<1> QED
  BY <1>1, <1>2, <1>3, <1>4, VerdictTyped DEF Only

LEMMA GoesFacts ==
  ASSUME TypeOK, NEW t \in Tasks, NEW place \in Places, Goes(t, place)
  PROVE  /\ Only(t)
         /\ job'[t].at = place /\ job'[t].status = job[t].status /\ job'[t].retry = job[t].retry
         /\ record' = record /\ verdict' = verdict
  BY DEF TypeOK, Goes, Only, Jobs, Records, Verdicts

LEMMA FailsFacts ==
  ASSUME TypeOK, NEW t \in Tasks, Fails(t)
  PROVE  /\ Only(t)
         /\ \/ /\ job'[t].at = "retrying" /\ job'[t].status = job[t].status
               /\ job'[t].retry = job[t].retry + 1
               /\ record'[t].status = record[t].status /\ record'[t].retry = job[t].retry + 1
               /\ verdict' = Verdict(record', "none")
            \/ /\ job'[t].at = "healing" /\ job'[t].status = "healing" /\ job'[t].retry = job[t].retry
               /\ record'[t].status = "healing" /\ record'[t].retry = record[t].retry
               /\ verdict' = Verdict(record', "healing")
<1>1. job \in Jobs /\ record \in Records /\ verdict \in Verdicts
  BY DEF TypeOK, Jobs, Records, Verdicts
<1>2. CASE job[t].retry < MaxRetries
  <2>1. /\ job' = [job EXCEPT ![t].retry = @ + 1, ![t].at = "retrying"]
        /\ record' = [record EXCEPT ![t] = [record[t] EXCEPT !.retry = job[t].retry + 1]]
        /\ verdict' = Verdict(record', "none")
    BY <1>2 DEF Fails, Update
  <2>2. job[t].retry + 1 \in 0 .. MaxRetries
    BY <1>1, <1>2, LimitsAreNat DEF Jobs
  <2>3. /\ job' \in Jobs
        /\ job'[t].at = "retrying" /\ job'[t].status = job[t].status
        /\ job'[t].retry = job[t].retry + 1
        /\ \A u \in Tasks \ {t} : job'[u] = job[u]
    BY <1>1, <2>1, <2>2 DEF Jobs, Places
  <2>4. /\ record' \in Records
        /\ record'[t].status = record[t].status /\ record'[t].retry = job[t].retry + 1
        /\ \A u \in Tasks \ {t} : record'[u] = record[u]
    BY <1>1, <2>1, <2>2 DEF Records
  <2> QED
    BY <1>1, <2>1, <2>3, <2>4, VerdictTyped DEF Only, Jobs, Records
<1>3. CASE ~(job[t].retry < MaxRetries)
  <2>1. Becomes(t, "healing", "healing")
    BY <1>3 DEF Fails
  <2> QED
    BY <1>1, <2>1, BecomesFacts DEF Statuses, Places, Jobs, Records
<1> QED
  BY <1>2, <1>3

LEMMA HistoryFacts ==
  ASSUME TypeOK, History
  PROVE  /\ offers' \in [Tasks -> Nat] /\ granted' \subseteq Tasks
         /\ \A t \in Tasks : offers'[t] = IF Offered(t) THEN offers[t] + 1 ELSE offers[t]
         /\ \A t \in Tasks :
              t \in granted' <=> \/ t \in granted /\ ~Offered(t) /\ job'[t].at # "approval"
                                 \/ job'[t].at = "approved"
  BY DEF TypeOK, History

LEMMA RestTyped ==
  ASSUME TypeOK, History, job' \in Jobs, record' \in Records, verdict' \in Verdicts,
         swarm' \in {"running", "done", "none"}, queue' \subseteq Tasks, tokens' \in Nat,
         trees' \subseteq Tasks, working' \subseteq Tasks, crashes' \in 0 .. MaxCrashes,
         resets' \in 0 .. MaxResets,
         heals' \in [Tasks -> 0 .. MaxHeals], worked' \subseteq Tasks
  PROVE  TypeOK'
  BY HistoryFacts DEF TypeOK, Jobs, Records, Verdicts

-----------------------------------------------------------------------------
(* A task that is left alone keeps what is known of it.                    *)
Untouched(u) ==
  /\ job'[u] = job[u] /\ record'[u] = record[u] /\ heals'[u] = heals[u]
  /\ worked \subseteq worked' /\ swarm' = swarm /\ queue' \subseteq queue /\ resets' = resets

LEMMA UntouchedOK ==
  ASSUME Inv, History, NEW u \in Tasks, Untouched(u)
  PROVE  TaskOK(u)'
<1>1. offers'[u] = offers[u] /\ (Allowed(u) => Allowed(u)')
  BY HistoryFacts DEF Inv, Untouched, Offered, Allowed
<1>2. TaskOK(u)
  BY DEF Inv
<1>3. Counted(u)' /\ Proven(u)' /\ Queued(u)' /\ Synced(u)'
  BY <1>1, <1>2 DEF TaskOK, Untouched, Counted, Proven, Queued, Synced
<1> QED
  BY <1>1, <1>2, <1>3 DEF TaskOK, Untouched

(* An execution that goes on.                                              *)
Progress(t) ==
  /\ Only(t) /\ job[t].at \notin Resting
  /\ \A u \in Tasks \ {t} : heals'[u] = heals[u]
  /\ heals' \in [Tasks -> 0 .. MaxHeals]
  /\ worked \subseteq worked' /\ worked' \subseteq Tasks
  /\ UNCHANGED <<swarm, queue, crashes, resets>>
  /\ tokens' \in Nat /\ trees' \subseteq Tasks /\ working' \subseteq Tasks
  /\ job'[t].status \in StatusOf(job'[t].at)
  /\ record'[t].retry = job'[t].retry
  /\ record'[t].status = IF job'[t].at = "cleaning" THEN "healing" ELSE job'[t].status
  /\ record'[t].status # "pending"

LEMMA ProgressOK ==
  ASSUME Inv, History, NEW t \in Tasks, Progress(t), Counted(t)', Proven(t)', Allowed(t)'
  PROVE  Inv'
<1>1. TypeOK'
  BY RestTyped DEF Inv, Progress, Only, TypeOK
<1>2. \A u \in Tasks \ {t} : TaskOK(u)'
  BY UntouchedOK DEF Progress, Untouched, Only
<1>3. t \notin queue' /\ swarm' = "running"
  BY DEF Inv, TaskOK, Queued, Progress, Resting
<1>4. TaskOK(t)'
  BY <1>3 DEF TaskOK, Progress, Queued, Synced
<1> QED
  BY <1>1, <1>2, <1>4 DEF Inv

(* What the attempts, heals and resets of a task pay for: the offer of the *)
(* attempt under way is still ahead or has been made.                      *)
Budget(t) == job[t].retry + heals[t] + resets + (IF job[t].at \in BeforeOffer THEN 0 ELSE 1)

LEMMA CountedStep ==
  ASSUME Inv, History, NEW t \in Tasks, Progress(t), Budget(t)' >= Budget(t),
         job'[t].at = "bidding" => job[t].at \in BeforeOffer /\ Budget(t)' > Budget(t)
  PROVE  Counted(t)'
<1>1. /\ offers[t] \in Nat /\ offers'[t] \in Nat /\ heals[t] \in Nat /\ heals'[t] \in Nat
      /\ job[t].retry \in Nat /\ job'[t].retry \in Nat /\ job'[t].retry <= MaxRetries
      /\ MaxRetries \in Nat /\ MaxHeals \in Nat /\ resets \in Nat /\ resets' = resets
  BY HistoryFacts, LimitsAreNat DEF Inv, TypeOK, Progress, Only, Jobs
<1>2. offers[t] <= Budget(t)
  <2>1. record[t].retry = job[t].retry /\ Counted(t)
    BY DEF Inv, TaskOK, Synced, Progress
  <2> QED
    BY <1>1, <2>1 DEF Counted, Progress, Budget
<1>3. offers'[t] <= Budget(t)'
  <2>1. CASE job'[t].at = "bidding"
    <3>1. offers'[t] <= offers[t] + 1
      BY <1>1, HistoryFacts DEF Inv
    <3>2. Budget(t) \in Nat /\ Budget(t)' \in Nat
      BY <1>1 DEF Budget
    <3> QED
      BY <1>1, <1>2, <2>1, <3>1, <3>2
  <2>2. CASE job'[t].at # "bidding"
    <3>1. offers'[t] = offers[t]
      BY <2>2, HistoryFacts DEF Inv, Offered
    <3>2. Budget(t) \in Nat /\ Budget(t)' \in Nat
      BY <1>1 DEF Budget
    <3> QED
      BY <1>1, <1>2, <3>1, <3>2
  <2> QED
    BY <2>1, <2>2
<1> QED
  BY <1>1, <1>3 DEF Counted, Progress, Budget

-----------------------------------------------------------------------------
(* What a step may do to the record, and to whom it offers a task.         *)
Recorded(t, status) ==
  /\ Only(t) /\ verdict' = Verdict(record', status)
  /\ record[t].status \notin {"completed", "failed"}
  /\ \/ status = record'[t].status
     \/ status = "none" /\ record'[t].status = record[t].status
  /\ record[t].status \in {"pending_approval", "throttled"} =>
       record'[t].status \in {"pending_approval", "throttled", "running", "failed"}

Safe ==
  /\ \/ UNCHANGED <<record, verdict, resets>>
     \/ \E t \in Tasks, status \in Statuses \cup {"none"} : Recorded(t, status) /\ resets' = resets
     \/ ResetMission
  /\ \A u \in Sensitive : Offered(u) => u \in granted

-----------------------------------------------------------------------------
(* The actions, one by one.  An execution that keeps its attempt, or fails *)
(* one, and what it owes to the history variables.                         *)
LEMMA SameAttempt ==
  ASSUME Inv, History, NEW t \in Tasks, Progress(t), heals' = heals,
         job'[t].retry = job[t].retry,
         job[t].at \notin BeforeOffer => job'[t].at \notin BeforeOffer,
         job'[t].at = "bidding" => job[t].at \in BeforeOffer,
         job'[t].at = "verifying" \/ record'[t].status = "completed" => t \in worked',
         t \in Sensitive /\ job'[t].at \in {"throttled", "worktree"} => t \in granted,
         job'[t].at = "approved" \/ t \notin Sensitive \/ job'[t].at \in {"throttled", "worktree"}
           \/ job'[t].at \notin BeforeOffer \/ job'[t].at = "approval"
  PROVE  Inv'
<1>1. /\ job[t].retry \in Nat /\ heals[t] \in Nat /\ resets \in Nat
      /\ heals'[t] = heals[t] /\ resets' = resets
  BY DEF Inv, TypeOK, Progress
<1>2. Counted(t)'
  BY <1>1, CountedStep DEF Budget, BeforeOffer
<1>3. Allowed(t)'
  BY HistoryFacts DEF Inv, Allowed, Offered
<1> QED
  BY <1>2, <1>3, ProgressOK DEF Proven

LEMMA FailsInv ==
  ASSUME Inv, History, NEW t \in Tasks, Fails(t), job[t].at \in {"bidding", "assigned", "verifying"},
         UNCHANGED <<swarm, queue, crashes, tokens, trees, heals, resets>>,
         working' \subseteq Tasks, worked \subseteq worked', worked' \subseteq Tasks
  PROVE  Inv' /\ Safe
<1>1. /\ TypeOK /\ job[t].status \in {"running", "verifying"} /\ swarm = "running"
      /\ record[t].retry = job[t].retry /\ record[t].status = job[t].status
      /\ job[t].retry \in Nat /\ heals[t] \in Nat /\ resets \in Nat
  BY DEF Inv, TaskOK, TypeOK, StatusOf, Synced, Resting
<1>2. Progress(t)
  BY <1>1, FailsFacts DEF Progress, TypeOK, StatusOf, Resting
<1>3. Counted(t)'
  BY <1>1, <1>2, FailsFacts, CountedStep DEF Budget, BeforeOffer
<1>4. Proven(t)' /\ Allowed(t)'
  BY <1>1, FailsFacts DEF Proven, Allowed
<1>5. Recorded(t, "none") \/ Recorded(t, "healing")
  BY <1>1, FailsFacts DEF Recorded
<1>6. \A u \in Sensitive : ~Offered(u)
  BY <1>1, FailsFacts, SensitiveAreTasks DEF Offered, Only
<1> QED
  BY <1>2, <1>3, <1>4, <1>5, <1>6, ProgressOK DEF Safe, Statuses

LEMMA ProceedInv ==
  ASSUME Inv, History, NEW t \in Tasks, Proceed(t), job[t].at \in {"entering", "approved", "throttled"},
         t \in Sensitive => job[t].at # "entering",
         UNCHANGED <<env, ghosts>>
  PROVE  Inv' /\ Safe
<1>1. /\ TypeOK /\ swarm = "running" /\ record[t].retry = job[t].retry
      /\ record[t].status \notin {"completed", "failed"}
  BY DEF Inv, TaskOK, Synced, Resting, StatusOf
<1>2. PICK status \in {"running", "throttled"}, place \in {"worktree", "bidding", "throttled"} :
        Becomes(t, status, place) /\ status \in StatusOf(place)
  BY DEF Proceed, Acquire, StatusOf
<1>3. /\ Only(t) /\ job'[t].at = place /\ job'[t].status = status /\ job'[t].retry = job[t].retry
      /\ record'[t].status = status /\ record'[t].retry = record[t].retry
      /\ verdict' = Verdict(record', status)
  BY <1>1, <1>2, BecomesFacts DEF Statuses, Places
<1>4. Progress(t)
  BY <1>1, <1>2, <1>3 DEF Progress, TypeOK, env, ghosts, Resting
<1>5. t \in Sensitive => t \in granted
  BY DEF Inv, TaskOK, Allowed
<1>6. Inv'
  BY <1>3, <1>4, <1>5, SameAttempt DEF BeforeOffer, ghosts
<1>7. \A u \in Sensitive : Offered(u) => u \in granted
  BY <1>3, <1>5, SensitiveAreTasks DEF Offered, Only
<1>8. Recorded(t, status)
  BY <1>1, <1>2, <1>3 DEF Recorded
<1> QED
  BY <1>2, <1>6, <1>7, <1>8 DEF Safe, Statuses, ghosts

(* An execution that takes a status and a place after the offers, or waits *)
(* for an approval, with its attempt as it was.                            *)
LEMMA BecomesInv ==
  ASSUME Inv, History, NEW t \in Tasks, NEW status \in Statuses, NEW place \in Places,
         Becomes(t, status, place), job[t].at \notin Resting, status \in StatusOf(place),
         place \notin {"cleaning", "bidding"}, status # "pending",
         place \notin BeforeOffer \/ (place = "approval" /\ job[t].at \in BeforeOffer),
         place = "verifying" \/ status = "completed" => t \in worked',
         record[t].status \in {"pending_approval", "throttled"} => status = "failed",
         UNCHANGED <<swarm, queue, crashes, heals, resets>>,
         tokens' \in Nat, trees' \subseteq Tasks, working' \subseteq Tasks,
         worked \subseteq worked', worked' \subseteq Tasks
  PROVE  Inv' /\ Safe
<1>1. /\ TypeOK /\ swarm = "running" /\ record[t].retry = job[t].retry
      /\ record[t].status \notin {"completed", "failed"}
  BY DEF Inv, TaskOK, Synced, Resting, StatusOf, TypeOK, Places
<1>2. /\ Only(t) /\ job'[t].at = place /\ job'[t].status = status /\ job'[t].retry = job[t].retry
      /\ record'[t].status = status /\ record'[t].retry = record[t].retry
      /\ verdict' = Verdict(record', status)
  BY <1>1, BecomesFacts
<1>3. Progress(t)
  BY <1>1, <1>2 DEF Progress, TypeOK
<1>4. Inv'
  BY <1>2, <1>3, SameAttempt DEF BeforeOffer
<1>5. \A u \in Sensitive : ~Offered(u)
  BY <1>2, SensitiveAreTasks DEF Offered, Only
<1>6. Recorded(t, status)
  BY <1>1, <1>2 DEF Recorded
<1> QED
  BY <1>4, <1>5, <1>6 DEF Safe

(* An execution that only moves on.                                        *)
LEMMA GoesInv ==
  ASSUME Inv, History, NEW t \in Tasks, NEW place \in Places,
         Goes(t, place), job[t].at \notin Resting \cup {"cleaning"}, place # "cleaning",
         job[t].status \in StatusOf(place), job[t].at # "entering", Progress(t) => Counted(t)',
         place \in {"approved", "bidding"} \/ place \notin {"throttled", "worktree", "verifying"},
         place = "bidding" => job[t].at = "worktree",
         UNCHANGED <<swarm, queue, crashes, tokens, worked, resets>>,
         heals' \in [Tasks -> 0 .. MaxHeals], \A u \in Tasks \ {t} : heals'[u] = heals[u],
         trees' \subseteq Tasks, working' \subseteq Tasks
  PROVE  Inv' /\ Safe
<1>1. /\ TypeOK /\ swarm = "running" /\ record[t].retry = job[t].retry
      /\ record[t].status = job[t].status /\ job[t].status \notin {"completed", "pending"}
  BY DEF Inv, TaskOK, Synced, Resting, StatusOf, TypeOK, Places
<1>2. /\ Only(t) /\ job'[t].at = place /\ job'[t].status = job[t].status
      /\ job'[t].retry = job[t].retry /\ record' = record /\ verdict' = verdict
  BY <1>1, GoesFacts
<1>3. Progress(t)
  BY <1>1, <1>2 DEF Progress, TypeOK
<1>4. Proven(t)' /\ Allowed(t)'
  BY <1>1, <1>2, HistoryFacts DEF Proven, Allowed
<1>5. Inv'
  BY <1>3, <1>4, ProgressOK
<1>6. \A u \in Sensitive : Offered(u) => u \in granted
  BY <1>2, SensitiveAreTasks DEF Offered, Only, Inv, TaskOK, Allowed
<1> QED
  BY <1>2, <1>5, <1>6 DEF Safe

-----------------------------------------------------------------------------
LEMMA EnterInv ==
  ASSUME Inv, History, NEW t \in Tasks, Enter(t) \/ Approved(t) \/ Unthrottled(t)
  PROVE  Inv' /\ Safe
<1>1. CASE Enter(t) /\ NeedsApproval(t)
  <2>1. /\ Becomes(t, "pending_approval", "approval") /\ job[t].at = "entering"
        /\ UNCHANGED <<env, ghosts>>
    BY <1>1 DEF Enter
  <2>2. record[t].status \in {"pending", "running", "verifying", "healing"}
    BY <2>1 DEF Inv, TaskOK, Synced, StatusOf, Resting
  <2> QED
    BY <2>1, <2>2, BecomesInv DEF Statuses, Places, StatusOf, Resting, BeforeOffer, env, ghosts, Inv, TypeOK
<1>2. CASE Enter(t) /\ ~NeedsApproval(t)
  BY <1>2, ProceedInv DEF Enter, NeedsApproval
<1>3. CASE Approved(t)
  BY <1>3, ProceedInv DEF Approved
<1>4. CASE Unthrottled(t)
  BY <1>4, ProceedInv DEF Unthrottled, Proceed
<1> QED
  BY <1>1, <1>2, <1>3, <1>4

LEMMA ApproveTaskInv ==
  ASSUME Inv, History, NEW t \in Tasks, NEW ok \in BOOLEAN, ApproveTask(t, ok)
  PROVE  Inv' /\ Safe
<1>1. job[t].at = "approval" /\ UNCHANGED <<env, ghosts>> /\ TypeOK /\ job[t].status = "pending_approval"
  BY DEF ApproveTask, Inv, TaskOK, StatusOf
<1>2. CASE ok
  <2>1. Goes(t, "approved")
    BY <1>2 DEF ApproveTask
  <2>2. Progress(t) => Counted(t)'
    BY <1>1, <2>1, GoesFacts, CountedStep DEF Places, Budget, BeforeOffer, ghosts, TypeOK
  <2> QED
    BY <1>1, <2>1, <2>2, GoesInv DEF Places, StatusOf, Resting, env, ghosts, TypeOK
<1>3. CASE ~ok
  <2>1. Becomes(t, "failed", "settled")
    BY <1>3 DEF ApproveTask
  <2> QED
    BY <1>1, <2>1, BecomesInv DEF Statuses, Places, StatusOf, Resting, BeforeOffer, env, ghosts, TypeOK
<1> QED
  BY <1>2, <1>3

LEMMA WorktreeReadyInv ==
  ASSUME Inv, History, NEW t \in Tasks, WorktreeReady(t)
  PROVE  Inv' /\ Safe
<1>1. /\ job[t].at = "worktree" /\ TypeOK /\ job[t].status = "running"
      /\ swarm = "running" /\ record[t].retry = job[t].retry /\ record[t].status = "running"
      /\ t \in Sensitive => t \in granted
  BY DEF WorktreeReady, Inv, TaskOK, StatusOf, Synced, Resting, Allowed
<1>2. /\ job' \in Jobs /\ job'[t].at = "bidding" /\ job'[t].status = "running"
      /\ job'[t].retry = job[t].retry /\ \A u \in Tasks \ {t} : job'[u] = job[u]
      /\ UNCHANGED <<record, verdict, swarm, queue, tokens, working, crashes, ghosts>>
      /\ trees' \subseteq Tasks
  <2>1. job \in Jobs /\ trees \subseteq Tasks
    BY <1>1 DEF TypeOK, Jobs
  <2>2. CASE job' = [job EXCEPT ![t].tree = TRUE, ![t].at = "bidding"] /\ trees' = trees \cup {t}
    BY <1>1, <2>1, <2>2 DEF WorktreeReady, Jobs, Places
  <2>3. CASE job' = [job EXCEPT ![t].at = "bidding"] /\ trees' = trees
    BY <1>1, <2>1, <2>3 DEF WorktreeReady, Jobs, Places
  <2> QED
    BY <2>2, <2>3 DEF WorktreeReady
<1>3. Progress(t)
  BY <1>1, <1>2 DEF Progress, Only, Jobs, Records, Verdicts, TypeOK, Resting, StatusOf, ghosts
<1>4. Inv'
  BY <1>1, <1>2, <1>3, SameAttempt DEF BeforeOffer, ghosts
<1> QED
  BY <1>1, <1>2, <1>4, SensitiveAreTasks DEF Safe, Offered, ghosts

LEMMA BidsInv ==
  ASSUME Inv, History, NEW t \in Tasks,
         BidsCollected(t) \/ ResultTimesOut(t) \/ Reject(t)
  PROVE  Inv' /\ Safe
<1>1. TypeOK
  BY DEF Inv
<1>2. CASE BidsCollected(t) /\ Goes(t, "assigned")
  <2>1. /\ job[t].at = "bidding" /\ job[t].status = "running"
        /\ UNCHANGED <<swarm, queue, tokens, trees, crashes, ghosts>> /\ working' \subseteq Tasks
    BY <1>1, <1>2 DEF BidsCollected, Inv, TaskOK, StatusOf, TypeOK
  <2>2. Progress(t) => Counted(t)'
    <3>1. /\ job'[t].at = "assigned" /\ job'[t].retry = job[t].retry
          /\ job[t].retry \in Nat /\ heals'[t] = heals[t] /\ heals[t] \in Nat
          /\ resets' = resets /\ resets \in Nat
      BY <1>1, <1>2, <2>1, GoesFacts DEF Places, ghosts, TypeOK
    <3>2. Budget(t)' >= Budget(t)
      <4>1. Budget(t)' = Budget(t) /\ Budget(t) \in Nat
        BY <2>1, <3>1 DEF Budget, BeforeOffer
      <4> QED
        BY <4>1
    <3> QED
      BY <3>1, <3>2, CountedStep
  <2> QED
    BY <1>1, <1>2, <2>1, <2>2, GoesInv DEF Places, StatusOf, Resting, ghosts, TypeOK
<1>3. CASE BidsCollected(t) /\ Fails(t)
  BY <1>1, <1>3, FailsInv DEF BidsCollected, ghosts, TypeOK
<1>4. CASE ResultTimesOut(t) \/ Reject(t)
  BY <1>1, <1>4, FailsInv DEF ResultTimesOut, Reject, env, ghosts, TypeOK
<1> QED
  BY <1>2, <1>3, <1>4 DEF BidsCollected

(* A step that moves no execution.                                         *)
LEMMA StillInv ==
  ASSUME Inv, History, UNCHANGED <<job, record, verdict, swarm, queue, heals, crashes, resets>>,
         tokens' \in Nat, trees' \subseteq Tasks, working' \subseteq Tasks,
         worked \subseteq worked', worked' \subseteq Tasks
  PROVE  Inv' /\ Safe
<1>1. \A u \in Tasks : TaskOK(u)'
  BY UntouchedOK DEF Untouched
<1>2. TypeOK'
  BY RestTyped DEF Inv, TypeOK, Jobs, Records, Verdicts
<1> QED
  BY <1>1, <1>2 DEF Inv, Safe, Offered

LEMMA ResultInv ==
  ASSUME Inv, History, NEW t \in Tasks, NEW ok \in BOOLEAN, Result(t, ok)
  PROVE  Inv' /\ Safe
<1> DEFINE waiting == {u \in Tasks : job[u].at = "assigned" /\ Matches(u, t)}
<1>1. /\ TypeOK /\ UNCHANGED <<env, heals, resets>> /\ worked' = IF ok THEN worked \cup {t} ELSE worked
      /\ worked' \subseteq Tasks
  BY DEF Result, Inv, TypeOK
<1>2. CASE waiting = {}
  <2>1. UNCHANGED <<job, record, verdict>>
    BY <1>2 DEF Result
  <2> QED
    BY <1>1, <2>1, StillInv DEF env, TypeOK
<1>3. CASE waiting # {}
  <2>1. /\ job[t].at = "assigned"
        /\ IF ok THEN Becomes(t, "verifying", "verifying") ELSE Fails(t)
    BY <1>3 DEF Result, Matches
  <2>2. record[t].status = "running"
    BY <2>1 DEF Inv, TaskOK, Synced, StatusOf, Resting
  <2>3. CASE ok
    BY <1>1, <2>1, <2>2, <2>3, BecomesInv DEF Statuses, Places, StatusOf, Resting, BeforeOffer, env, TypeOK
  <2>4. CASE ~ok
    BY <1>1, <2>1, <2>4, FailsInv DEF env, TypeOK
  <2> QED
    BY <2>3, <2>4
<1> QED
  BY <1>2, <1>3

LEMMA AcceptInv ==
  ASSUME Inv, History, NEW t \in Tasks, Accept(t)
  PROVE  Inv' /\ Safe
<1>1. /\ TypeOK /\ job[t].at = "verifying" /\ t \in worked /\ tokens' \in Nat
      /\ UNCHANGED <<swarm, queue, trees, working, crashes, ghosts>>
  BY DEF Accept, Inv, TaskOK, Proven, TypeOK
<1>2. PICK status \in {"failed", "completed"} : Becomes(t, status, "settled")
  BY DEF Accept
<1>3. record[t].status = "verifying"
  BY <1>1 DEF Inv, TaskOK, Synced, StatusOf, Resting
<1> QED
  BY <1>1, <1>2, <1>3, BecomesInv DEF Statuses, Places, StatusOf, Resting, BeforeOffer, ghosts, TypeOK

LEMMA HealsInv ==
  ASSUME Inv, History, NEW t \in Tasks, HealThrows(t) \/ Heals(t)
  PROVE  Inv' /\ Safe
<1>1. /\ TypeOK /\ job[t].at = "healing" /\ job[t].status = "healing"
      /\ UNCHANGED <<env, worked, resets>> /\ heals[t] \in Nat /\ job[t].retry \in Nat
      /\ resets \in Nat
      /\ heals' \in [Tasks -> 0 .. MaxHeals] /\ \A u \in Tasks \ {t} : heals'[u] = heals[u]
  <2>1. CASE HealThrows(t)
    BY <2>1 DEF HealThrows, Inv, TypeOK, TaskOK, StatusOf, ghosts
  <2>2. CASE Heals(t)
    BY <2>2, LimitsAreNat DEF Heals, Inv, TypeOK, TaskOK, StatusOf
  <2> QED
    BY <2>1, <2>2
<1>2. CASE HealThrows(t)
  <2>1. Goes(t, "settled") /\ heals' = heals
    BY <1>2 DEF HealThrows, ghosts
  <2>2. Progress(t) => Counted(t)'
    BY <1>1, <2>1, GoesFacts, CountedStep DEF Places, Budget, BeforeOffer
  <2> QED
    BY <1>1, <2>1, <2>2, GoesInv DEF Places, StatusOf, Statuses, Resting, env, TypeOK
<1>3. CASE Heals(t)
  <2>1. Goes(t, "entering") /\ heals'[t] = heals[t] + 1
    BY <1>1, <1>3 DEF Heals, TypeOK
  <2>2. Progress(t) => Counted(t)'
    BY <1>1, <2>1, GoesFacts, CountedStep DEF Places, Budget, BeforeOffer
  <2> QED
    BY <1>1, <2>1, <2>2, GoesInv DEF Places, StatusOf, Resting, env, TypeOK
<1> QED
  BY <1>2, <1>3

LEMMA RetryTimerInv ==
  ASSUME Inv, History, NEW t \in Tasks, RetryTimer(t)
  PROVE  Inv' /\ Safe
<1>1. /\ TypeOK /\ job[t].at = "retrying" /\ job[t].status \in {"running", "verifying"}
      /\ Goes(t, "entering") /\ UNCHANGED <<env, ghosts>>
  BY DEF RetryTimer, Inv, TaskOK, StatusOf
<1>2. Progress(t) => Counted(t)'
  BY <1>1, GoesFacts, CountedStep DEF Places, Budget, BeforeOffer, ghosts, TypeOK
<1> QED
  BY <1>1, <1>2, GoesInv DEF Places, StatusOf, Resting, env, ghosts, TypeOK

(* The worktree of a failed task goes first, and the failure is recorded   *)
(* afterwards.                                                             *)
LEMMA HealFailsInv ==
  ASSUME Inv, History, NEW t \in Tasks, HealFails(t) \/ CleanedUp(t)
  PROVE  Inv' /\ Safe
<1>1. /\ TypeOK /\ job[t].at \in {"healing", "cleaning"}
      /\ swarm = "running" /\ record[t].retry = job[t].retry /\ record[t].status = "healing"
      /\ t \notin queue
  BY DEF HealFails, CleanedUp, Inv, TaskOK, Synced, StatusOf, Resting, Queued
<1>2. CASE HealFails(t) /\ ~job[t].tree
  BY <1>1, <1>2, BecomesInv
  DEF HealFails, Statuses, Places, StatusOf, Resting, BeforeOffer, env, ghosts, TypeOK
<1>3. CASE CleanedUp(t)
  <2>1. job[t].status = "failed" /\ job[t].at = "cleaning"
    BY <1>3 DEF CleanedUp, Inv, TaskOK, StatusOf
  <2>2. /\ Becomes(t, "failed", "settled") /\ trees' \subseteq Tasks
        /\ UNCHANGED <<swarm, queue, tokens, working, crashes, ghosts>>
    BY <1>1, <1>3, <2>1 DEF CleanedUp, TypeOK
  <2> QED
    BY <1>1, <2>1, <2>2, BecomesInv DEF Statuses, Places, StatusOf, Resting, BeforeOffer, ghosts, TypeOK
<1>4. CASE HealFails(t) /\ job[t].tree
  <2>1. /\ job' = [job EXCEPT ![t].status = "failed", ![t].at = "cleaning"]
        /\ UNCHANGED <<record, verdict, env, ghosts>> /\ job \in Jobs
    BY <1>1, <1>4 DEF HealFails, TypeOK, Jobs
  <2>2. /\ job' \in Jobs /\ job'[t].at = "cleaning" /\ job'[t].status = "failed"
        /\ job'[t].retry = job[t].retry /\ \A u \in Tasks \ {t} : job'[u] = job[u]
    BY <2>1 DEF Jobs, Places, Statuses
  <2>3. Progress(t)
    BY <1>1, <2>1, <2>2 DEF Progress, Only, Records, Verdicts, TypeOK, Resting, StatusOf, env, ghosts
  <2>4. Inv'
    BY <1>1, <2>1, <2>2, <2>3, <1>4, SameAttempt DEF HealFails, BeforeOffer, ghosts
  <2> QED
    BY <2>1, <2>2, <2>4, SensitiveAreTasks DEF Safe, Offered, ghosts
<1> QED
  BY <1>2, <1>3, <1>4 DEF HealFails

(* A step that begins or ends executions as a whole.                       *)
LEMMA NextBatchInv ==
  ASSUME Inv, History, NextBatch \/ SwarmCompleted
  PROVE  Inv' /\ Safe
<1>1. CASE SwarmCompleted
  <2>1. UNCHANGED <<queue, job, record, verdict, tokens, trees, working, crashes, ghosts>>
    BY <1>1 DEF SwarmCompleted
  <2>2. swarm' = "done" /\ swarm = "running" /\ \A u \in Tasks : job[u].at \in Resting
    BY <1>1 DEF SwarmCompleted, BatchOver, Resting
  <2>3. \A u \in Tasks : offers'[u] = offers[u] /\ (Allowed(u) => Allowed(u)')
    BY <2>1, HistoryFacts DEF Inv, Offered, Allowed
  <2>4. TypeOK'
    BY <2>1, <2>2, RestTyped DEF Inv, TypeOK, Jobs, Records, Verdicts, ghosts
  <2>5. ASSUME NEW u \in Tasks PROVE TaskOK(u)'
    <3>1. TaskOK(u)
      BY DEF Inv
    <3>2. Counted(u)' /\ Proven(u)' /\ Queued(u)' /\ Synced(u)' /\ Allowed(u)'
      BY <2>1, <2>2, <2>3, <3>1 DEF TaskOK, Counted, Proven, Queued, Synced, ghosts
    <3> QED
      BY <2>1, <2>2, <3>1, <3>2 DEF TaskOK
  <2> QED
    BY <2>1, <2>4, <2>5 DEF Inv, Safe, Offered, ghosts
<1>2. CASE NextBatch
  <2>1. PICK batch \in SUBSET queue :
          /\ queue' = queue \ batch
          /\ job' = [t \in Tasks |-> IF t \in batch THEN [job[t] EXCEPT !.at = "entering"] ELSE job[t]]
    BY <1>2 DEF NextBatch
  <2>2. /\ UNCHANGED <<swarm, record, verdict, tokens, trees, working, crashes, ghosts>>
        /\ swarm = "running" /\ TypeOK
    BY <1>2 DEF NextBatch, Inv
  <2>3. job' \in Jobs
    BY <2>1, <2>2 DEF TypeOK, Jobs, Places
  <2>4. TypeOK'
    BY <2>1, <2>2, <2>3, RestTyped DEF TypeOK, Records, Verdicts, ghosts
  <2>5. ASSUME NEW u \in Tasks PROVE TaskOK(u)' /\ ~Offered(u)
    <3>1. CASE u \notin batch
      <4>1. job'[u] = job[u] /\ Untouched(u)
        BY <2>1, <2>2, <3>1 DEF Untouched, ghosts
      <4> QED
        BY <4>1, UntouchedOK DEF Offered
    <3>2. CASE u \in batch
      <4>1. /\ record[u].status = "pending" /\ job[u].status = "pending" /\ job[u].retry = record[u].retry
            /\ offers[u] <= record[u].retry + heals[u] + resets
            /\ heals[u] \in Nat /\ job[u].retry \in Nat /\ resets \in Nat /\ offers[u] \in Nat
        BY <2>2, <3>2 DEF Inv, TaskOK, Queued, Synced, Counted, TypeOK
      <4>2. job'[u].at = "entering" /\ job'[u].status = "pending" /\ job'[u].retry = job[u].retry
        BY <2>1, <2>2, <3>2, <4>1 DEF TypeOK
      <4>3. ~Offered(u) /\ offers'[u] = offers[u]
        BY <2>2, <4>1, <4>2, HistoryFacts DEF Offered
      <4>4. Counted(u)'
        <5>1. record[u].retry \in Nat /\ heals'[u] = heals[u] /\ resets' = resets
          BY <2>2, <4>1 DEF ghosts
        <5> QED
          BY <2>2, <4>1, <4>2, <4>3, <5>1 DEF Counted, BeforeOffer
      <4>5. Synced(u)' /\ Queued(u)' /\ Proven(u)' /\ Allowed(u)'
        BY <2>1, <2>2, <3>2, <4>1, <4>2 DEF Synced, Queued, Proven, Allowed
      <4> QED
        BY <2>2, <4>2, <4>3, <4>4, <4>5 DEF TaskOK, StatusOf
    <3> QED
      BY <3>1, <3>2
  <2> QED
    BY <2>2, <2>4, <2>5, SensitiveAreTasks DEF Inv, Safe, ghosts
<1> QED
  BY <1>1, <1>2

(* A crash, and what is resumed from the record.                           *)
LEMMA CrashInv ==
  ASSUME Inv, History, Crash \/ ResumeMission
  PROVE  Inv' /\ Safe
<1>1. /\ \A t \in Tasks : job'[t].at = "idle"
      /\ job' \in Jobs /\ queue' \subseteq Tasks /\ working' = {} /\ crashes' \in 0 .. MaxCrashes
      /\ swarm' \in {"none", "running"}
      /\ UNCHANGED <<record, verdict, tokens, trees, ghosts>>
  <2>1. CASE Crash
    BY <2>1, LimitsAreNat DEF Crash, Inv, TypeOK, Jobs, Places, Statuses
  <2>2. CASE ResumeMission
    BY <2>2 DEF ResumeMission, Resumable, Is, Inv, TypeOK, Jobs, Places
  <2> QED
    BY <2>1, <2>2
<1>2. TypeOK'
  BY <1>1, RestTyped DEF Inv, TypeOK, Records, Verdicts, ghosts
<1>3. \A t \in Tasks : ~Offered(t) /\ offers'[t] = offers[t]
  BY <1>1, HistoryFacts DEF Inv, Offered
<1>4. ASSUME NEW t \in Tasks PROVE TaskOK(t)'
  <2>1. job'[t].status \in StatusOf(job'[t].at)
    BY <1>1 DEF Jobs, StatusOf
  <2>2. Queued(t)' /\ Synced(t)'
    <3>1. CASE Crash
      BY <3>1 DEF Crash, Queued, Synced
    <3>2. CASE ResumeMission
      BY <1>1, <3>2 DEF ResumeMission, Resumable, Is, Queued, Synced
    <3> QED
      BY <3>1, <3>2
  <2>3. Counted(t)' /\ Proven(t)' /\ Allowed(t)'
    BY <1>1, <1>3 DEF Inv, TaskOK, Counted, Proven, Allowed, BeforeOffer, Resting, ghosts
  <2> QED
    BY <1>1, <2>1, <2>2, <2>3 DEF TaskOK, Resting
<1> QED
  BY <1>1, <1>2, <1>3, <1>4, SensitiveAreTasks DEF Inv, Safe, ghosts

(* The tasks that are not completed are pending again.                     *)
LEMMA ResetInv ==
  ASSUME Inv, History, ResetMission
  PROVE  Inv' /\ Safe
<1>1. /\ UNCHANGED <<swarm, queue, job, tokens, trees, working, crashes, heals, worked>>
      /\ swarm # "running" /\ verdict' \in Verdicts
      /\ resets \in Nat /\ resets' = resets + 1 /\ resets' \in 0 .. MaxResets
  BY LimitsAreNat DEF ResetMission, env, Inv, TypeOK, Verdicts
<1>2. /\ record' \in Records
      /\ \A t \in Tasks : /\ record'[t].retry = record[t].retry
                         /\ record'[t].status = IF record[t].status = "completed" THEN "completed" ELSE "pending"
  BY DEF ResetMission, Reset, Records, Inv, TypeOK, Statuses
<1>3. TypeOK'
  BY <1>1, <1>2, RestTyped DEF Inv, TypeOK, Jobs
<1>4. \A t \in Tasks : ~Offered(t) /\ offers'[t] = offers[t] /\ offers[t] \in Nat
  BY <1>1, HistoryFacts DEF Inv, TypeOK, Offered
<1>5. ASSUME NEW t \in Tasks PROVE TaskOK(t)'
  <2>1. TaskOK(t) /\ job[t].at \in Resting
    BY <1>1 DEF Inv, TaskOK
  <2>2. Counted(t)'
    <3>1. record[t].retry \in Nat /\ heals[t] \in Nat /\ job[t].at \notin BeforeOffer
      BY <2>1 DEF Inv, TypeOK, BeforeOffer, Resting
    <3> QED
      BY <1>1, <1>2, <1>4, <2>1, <3>1 DEF TaskOK, Counted
  <2>3. Synced(t)' /\ Queued(t)' /\ Proven(t)' /\ Allowed(t)'
    BY <1>1, <1>2, <2>1 DEF TaskOK, Synced, Queued, Proven, Allowed, Resting
  <2> QED
    BY <1>1, <2>1, <2>2, <2>3 DEF TaskOK
<1> QED
  BY <1>3, <1>4, <1>5, SensitiveAreTasks DEF Inv, Safe

LEMMA InvInit == Init => Inv
  BY LimitsAreNat DEF Init, Inv, TypeOK, Places, Statuses, TaskOK, StatusOf, Synced, Queued, Counted,
     Proven, Allowed, BeforeOffer, Resting

LEMMA InvStep == Inv /\ [Next]_vars => Inv' /\ (UNCHANGED vars \/ Safe)
<1> SUFFICES ASSUME Inv, [Next]_vars PROVE Inv' /\ (UNCHANGED vars \/ Safe)
  OBVIOUS
<1>1. CASE UNCHANGED vars
  BY <1>1 DEF vars, Inv, TypeOK, TaskOK, Synced, Queued, Counted, Proven, Allowed
<1>2. CASE Next
  <2>1. History
    BY <1>2 DEF Next
  <2>2. CASE Executor \/ Crash \/ ResumeMission \/ ResetMission
    BY <2>1, <2>2, NextBatchInv, CrashInv, ResetInv DEF Executor
  <2>3. ASSUME NEW t \in Tasks, Continue(t) PROVE Inv' /\ Safe
    BY <2>1, <2>3, EnterInv, WorktreeReadyInv, RetryTimerInv, BidsInv, AcceptInv, HealsInv, HealFailsInv
    DEF Continue, HealEnds
  <2>4. ASSUME NEW t \in Tasks, Others(t) PROVE Inv' /\ Safe
    BY <2>1, <2>4, ApproveTaskInv, ResultInv, BidsInv DEF Others
  <2> QED
    BY <1>2, <2>2, <2>3, <2>4 DEF Next
<1> QED
  BY <1>1, <1>2

-----------------------------------------------------------------------------
(* Every variable keeps its type and no task is retried beyond the limit,  *)
(* for any number of tasks, crashes and resumptions.                       *)
THEOREM SwarmTypeCorrect == Spec => []TypeOK
<1>1. Inv => TypeOK
  BY DEF Inv
<1>2. Inv /\ [Next]_vars => Inv'
  BY InvStep
<1> QED
  BY <1>1, <1>2, InvInit, PTL DEF Spec

(* Retries, time-outs, rejections, heals, crashes, resumptions and resets  *)
(* offer a task no more often than they are allowed to.                    *)
THEOREM AttemptsAlwaysBounded == Spec => []AttemptsBounded
<1>1. Inv => AttemptsBounded
  <2> SUFFICES ASSUME Inv, NEW t \in Tasks PROVE offers[t] <= 1 + MaxRetries + heals[t] + resets
    BY DEF AttemptsBounded
  <2>1. /\ record[t].retry \in 0 .. MaxRetries /\ heals[t] \in Nat /\ resets \in Nat /\ offers[t] \in Nat
        /\ offers[t] <= 1 + record[t].retry + heals[t] + resets
    BY DEF Inv, TypeOK, TaskOK, Counted
  <2> QED
    BY <2>1, LimitsAreNat
<1>2. Inv /\ [Next]_vars => Inv'
  BY InvStep
<1> QED
  BY <1>1, <1>2, InvInit, PTL DEF Spec

(* What is recorded as completed was worked on by an agent, whatever       *)
(* results of this and other tasks come late or twice.                     *)
THEOREM CompletedAlwaysWorked == Spec => []CompletedWasWorked
<1>1. Inv => CompletedWasWorked
  BY DEF Inv, TaskOK, Proven, CompletedWasWorked, Is
<1>2. Inv /\ [Next]_vars => Inv'
  BY InvStep
<1> QED
  BY <1>1, <1>2, InvInit, PTL DEF Spec

(* Each offer of a sensitive task has an approval of its own.              *)
THEOREM AttemptsAlwaysApproved == Spec => EveryAttemptApproved
<1>1. Inv /\ [Next]_vars => [\A t \in Sensitive : Offered(t) => t \in granted]_vars
  BY InvStep DEF Safe
<1>2. Inv /\ [Next]_vars => Inv'
  BY InvStep
<1> QED
  BY <1>1, <1>2, InvInit, PTL DEF Spec, EveryAttemptApproved

(* A completed task stays completed, whatever is resumed after a crash or  *)
(* reset.                                                                  *)
THEOREM CompletedAlwaysSticks == Spec => CompletedSticks
<1>1. ASSUME Inv, Safe
      PROVE  \A t \in Tasks : record[t].status = "completed" => record'[t].status = "completed"
  BY <1>1 DEF Safe, Recorded, Only, ResetMission, Reset
<1>2. Inv /\ [Next]_vars =>
        [\A t \in Tasks : record[t].status = "completed" => record'[t].status = "completed"]_vars
  BY <1>1, InvStep
<1>3. Inv /\ [Next]_vars => Inv'
  BY InvStep
<1> QED
  BY <1>2, <1>3, InvInit, PTL DEF Spec, CompletedSticks

-----------------------------------------------------------------------------
(* The verdict, in terms of the tasks.                                     *)
Some(rec, status) == \E t \in Tasks : rec[t].status = status

All(rec) == \A t \in Tasks : rec[t].status = "completed"

Honest ==
  /\ verdict \in Verdicts
  /\ verdict = "failed" <=> Some(record, "failed")
  /\ verdict = "completed" => All(record)
  /\ All(record) => verdict = "completed" \/ (resets > 0 /\ verdict = "active")
  /\ Some(record, "pending_approval") => verdict \in {"paused", "failed"}
  /\ verdict = "paused" => Some(record, "pending_approval") \/ Some(record, "throttled")

LEMMA VerdictFacts ==
  ASSUME NEW rec, NEW status
  PROVE  Verdict(rec, status) =
           IF Some(rec, "failed") THEN "failed"
           ELSE IF All(rec) THEN "completed"
           ELSE IF Some(rec, "pending_approval") THEN "paused"
           ELSE IF status = "running" THEN "active" ELSE verdict
<1>1. \A s : Is(rec, s) # {} <=> Some(rec, s)
  BY DEF Is, Some
<1>2. Is(rec, "completed") = Tasks <=> All(rec)
  BY DEF Is, All
<1> QED
  BY <1>1, <1>2 DEF Verdict

LEMMA HonestStep ==
  ASSUME Tasks # {}, Inv, Honest, Safe
  PROVE  Honest'
<1>1. CASE UNCHANGED <<record, verdict, resets>>
  BY <1>1 DEF Honest, Some, All
<1>2. ASSUME NEW t \in Tasks, NEW status \in Statuses \cup {"none"}, Recorded(t, status)
      PROVE  Honest'
  <2>1. /\ \A u \in Tasks \ {t} : record'[u] = record[u]
        /\ verdict' = Verdict(record', status) /\ verdict' \in Verdicts
        /\ ~All(record)
    BY <1>2 DEF Recorded, Only, All
  <2>2. Some(record, "failed") => Some(record', "failed")
    BY <1>2, <2>1 DEF Recorded, Some
  <2>3. verdict' = IF Some(record', "failed") THEN "failed"
                   ELSE IF All(record') THEN "completed"
                   ELSE IF Some(record', "pending_approval") THEN "paused"
                   ELSE IF status = "running" THEN "active" ELSE verdict
    BY <2>1, VerdictFacts
  <2>4. ~(Some(record', "failed") /\ All(record')) /\ ~(Some(record', "pending_approval") /\ All(record'))
    BY DEF Some, All
  <2>5. verdict = "paused" /\ ~Some(record', "pending_approval") /\ ~Some(record', "throttled")
          => status = "running" \/ Some(record', "failed")
    BY <1>2, <2>1 DEF Honest, Recorded, Some
  <2> QED
    BY <2>1, <2>2, <2>3, <2>4, <2>5 DEF Honest, Verdicts
<1>3. CASE ResetMission
  <2>1. /\ resets' > 0 /\ verdict' = "active"
        /\ \A u \in Tasks : record'[u].status \in {"completed", "pending"}
    BY <1>3 DEF ResetMission, Reset, Inv, TypeOK
  <2> QED
    BY <2>1 DEF Honest, Some, Verdicts
<1> QED
  BY <1>1, <1>2, <1>3 DEF Safe

(* The mission tells the truth about its tasks, if it has any: through     *)
(* failures, crashes and resumptions the record is what the orchestrator   *)
(* has, and the verdict follows from the record.                           *)
THEOREM MissionAlwaysHonest ==
  ASSUME Tasks # {}
  PROVE  Spec => []MissionHonest
<1>1. Init => Honest
  BY DEF Init, Honest, Some, All, Verdicts
<1>2. Honest /\ Inv /\ [Next]_vars => Honest'
  <2>1. ASSUME Honest, UNCHANGED vars PROVE Honest'
    BY <2>1 DEF vars, Honest, Some, All
  <2> QED
    BY <2>1, HonestStep, InvStep
<1>3. Inv /\ Honest => MissionHonest
  <2> SUFFICES ASSUME Inv, Honest PROVE MissionHonest
    OBVIOUS
  <2>1. ASSUME NEW t \in Tasks, swarm = "running", job[t].at # "cleaning"
        PROVE  record[t] = [status |-> job[t].status, retry |-> job[t].retry]
    BY <2>1 DEF Inv, TaskOK, Synced, TypeOK
  <2>2. \A s : Is(record, s) # {} <=> Some(record, s)
    BY DEF Is, Some
  <2>3. Is(record, "completed") = Tasks <=> All(record)
    BY DEF Is, All
  <2> QED
    BY <2>1, <2>2, <2>3 DEF MissionHonest, Honest
<1>4. Inv /\ [Next]_vars => Inv'
  BY InvStep
<1> QED
  BY <1>1, <1>2, <1>3, <1>4, InvInit, PTL DEF Spec

-----------------------------------------------------------------------------
(* The record implements Mission.                                          *)
Ended == {"completed", "failed"}

(* Why a task may fail: its retries are used up before it goes to the      *)
(* healer, and only a sensitive one waits for an approval.                 *)
Reasons(t) ==
  /\ job[t].at \in {"healing", "cleaning"} => job[t].retry = MaxRetries
  /\ job[t].at = "approval" => t \in Sensitive

(* The verdict, for a mission without tasks too.                           *)
Settled ==
  /\ verdict = "failed" <=> Some(record, "failed")
  /\ verdict = "completed" => All(record)

LedgerInv == Inv /\ Settled /\ \A t \in Tasks : Reasons(t)

LEMMA ReasonsStep ==
  ASSUME LedgerInv, Next, NEW u \in Tasks
  PROVE  Reasons(u)'
<1>1. TypeOK /\ Reasons(u) /\ job \in Jobs
  BY DEF LedgerInv, Inv, TypeOK, Jobs
<1>2. ASSUME NEW t \in Tasks, NEW status \in Statuses, NEW place \in Places \ {"healing", "cleaning"},
             Becomes(t, status, place), place = "approval" => t \in Sensitive
      PROVE  Reasons(u)'
  BY <1>1, <1>2, BecomesFacts DEF Reasons, Only
<1>3. ASSUME NEW t \in Tasks, NEW place \in Places \ {"healing", "cleaning", "approval"}, Goes(t, place)
      PROVE  Reasons(u)'
  BY <1>1, <1>3, GoesFacts DEF Reasons, Only
<1>4. ASSUME NEW t \in Tasks, Fails(t)
      PROVE  Reasons(u)'
  <2>1. job'[t].at = "healing" => ~(job[t].retry < MaxRetries) /\ job'[t].retry = job[t].retry
    BY <1>1, <1>4, FailsFacts DEF Fails, Jobs
  <2>2. job'[t].at = "healing" => job'[t].retry = MaxRetries
    BY <1>1, <2>1, LimitsAreNat DEF Jobs
  <2> QED
    BY <1>1, <1>4, <2>2, FailsFacts DEF Reasons, Only
<1>5. ASSUME NEW t \in Tasks, Continue(t)
      PROVE  Reasons(u)'
  <2>1. Enter(t) \/ Approved(t) \/ Unthrottled(t) => Reasons(u)'
    BY <1>2 DEF Enter, NeedsApproval, Approved, Unthrottled, Proceed, Acquire, Places, Statuses
  <2>2. ASSUME WorktreeReady(t) PROVE Reasons(u)'
    BY <1>1, <2>2 DEF WorktreeReady, Reasons, Jobs
  <2>3. RetryTimer(t) \/ HealThrows(t) \/ Heals(t) => Reasons(u)'
    BY <1>3 DEF RetryTimer, HealThrows, Heals, Places
  <2>4. BidsCollected(t) \/ ResultTimesOut(t) => Reasons(u)'
    BY <1>3, <1>4 DEF BidsCollected, ResultTimesOut, Places
  <2>5. Accept(t) => Reasons(u)'
    BY <1>2 DEF Accept, Places, Statuses
  <2>6. ASSUME HealFails(t) PROVE Reasons(u)'
    <3>1. CASE job[t].tree
      BY <1>1, <2>6, <3>1 DEF HealFails, Reasons, Jobs
    <3>2. CASE ~job[t].tree
      BY <1>2, <2>6, <3>2 DEF HealFails, Places, Statuses
    <3> QED
      BY <3>1, <3>2
  <2>7. CleanedUp(t) => Reasons(u)'
    BY <1>1, <1>2 DEF CleanedUp, Places, Jobs
  <2> QED
    BY <1>5, <2>1, <2>2, <2>3, <2>4, <2>5, <2>6, <2>7 DEF Continue, HealEnds
<1>6. ASSUME NEW t \in Tasks, Others(t)
      PROVE  Reasons(u)'
  <2>1. ASSUME NEW b \in BOOLEAN, ApproveTask(t, b) PROVE Reasons(u)'
    BY <1>2, <1>3, <2>1 DEF ApproveTask, Places, Statuses
  <2>2. ASSUME NEW b \in BOOLEAN, Result(t, b) PROVE Reasons(u)'
    <3>1. CASE UNCHANGED job
      BY <1>1, <3>1 DEF Reasons
    <3>2. CASE \E v \in Tasks : IF b THEN Becomes(v, "verifying", "verifying") ELSE Fails(v)
      BY <1>2, <1>4, <3>2 DEF Places, Statuses
    <3> QED
      BY <2>2, <3>1, <3>2 DEF Result
  <2>3. Reject(t) => Reasons(u)'
    BY <1>4 DEF Reject
  <2> QED
    BY <1>6, <2>1, <2>2, <2>3 DEF Others
<1>7. Executor \/ Crash \/ ResumeMission \/ ResetMission => Reasons(u)'
  BY <1>1 DEF Executor, NextBatch, SwarmCompleted, Crash, ResumeMission, ResetMission, Reasons, Jobs
<1> QED
  BY <1>5, <1>6, <1>7 DEF Next

(* A step about the record of one task that is still open.                 *)
LEMMA RecordStep ==
  ASSUME Settled, TypeOK, NEW t \in Tasks, NEW status, Only(t), record[t].status \notin Ended,
         verdict' = Verdict(record', status)
  PROVE  /\ Settled'
         /\ record'[t].status \notin Ended => Outcome' = Outcome /\ Shown' = Shown
         /\ record'[t].status \in Ended =>
              /\ Outcome' = [Outcome EXCEPT ![t] = record'[t].status]
              /\ Shown' = Promised!Judge(Outcome')
<1>1. verdict' = IF Some(record', "failed") THEN "failed"
                 ELSE IF All(record') THEN "completed"
                 ELSE IF Some(record', "pending_approval") THEN "paused"
                 ELSE IF status = "running" THEN "active" ELSE verdict
  BY VerdictFacts
<1>2. /\ verdict \in Verdicts /\ verdict' \in Verdicts
      /\ \A u \in Tasks \ {t} : record'[u] = record[u]
  BY DEF Only, TypeOK, Verdicts
<1>3. ~All(record) /\ verdict # "completed"
  BY DEF All, Ended, Settled
<1>4. Some(record, "failed") => Some(record', "failed")
  BY <1>2 DEF Some, Ended
<1>5. verdict' = "failed" <=> Some(record', "failed")
  BY <1>1, <1>3, <1>4 DEF Settled
<1>6. verdict' = "completed" <=> ~Some(record', "failed") /\ All(record')
  BY <1>1, <1>3
<1>7. Settled'
  BY <1>5, <1>6 DEF Settled
<1>8. ASSUME record'[t].status \notin Ended
      PROVE  Outcome' = Outcome /\ Shown' = Shown
  <2>1. Outcome' = Outcome
    BY <1>2, <1>8 DEF Outcome, Ended
  <2>2. Some(record', "failed") <=> Some(record, "failed")
    BY <1>2, <1>8 DEF Some, Ended
  <2>3. ~All(record')
    BY <1>8 DEF All, Ended
  <2> QED
    BY <1>3, <1>5, <1>6, <2>1, <2>2, <2>3 DEF Shown, Settled
<1>9. ASSUME record'[t].status \in Ended
      PROVE  /\ Outcome' = [Outcome EXCEPT ![t] = record'[t].status]
             /\ Shown' = Promised!Judge(Outcome')
  <2>1. \A u \in Tasks : Outcome'[u] = IF record'[u].status \in Ended THEN record'[u].status ELSE "open"
    BY DEF Outcome, Ended
  <2>2. Outcome' = [Outcome EXCEPT ![t] = record'[t].status]
    BY <1>2, <1>9 DEF Outcome, Ended
  <2>3. (\E u \in Tasks : Outcome'[u] = "failed") <=> Some(record', "failed")
    BY <2>1 DEF Some, Ended
  <2>4. (\A u \in Tasks : Outcome'[u] = "completed") <=> All(record')
    BY <2>1 DEF All, Ended
  <2>5. Shown' = Promised!Judge(Outcome')
    BY <1>5, <1>6, <2>3, <2>4 DEF Shown, Promised!Judge
  <2> QED
    BY <2>2, <2>5
<1> QED
  BY <1>7, <1>8, <1>9

LEMMA SpentKept ==
  ASSUME TypeOK, NEW t \in Tasks, Only(t), record'[t].retry = record[t].retry
  PROVE  Spent' = Spent
  BY DEF Only, Spent

(* A step that the reader of the record does not see.                      *)
Unseen == UNCHANGED <<Outcome, Spent, worked, tokens, Shown, resets>>

Mapped == Unseen \/ Promised!Next

LEMMA UnseenStep ==
  ASSUME Settled, UNCHANGED <<record, verdict, worked, tokens, resets>>
  PROVE  Settled' /\ Unseen
<1>1. Outcome' = Outcome /\ Spent' = Spent /\ Shown' = Shown
  BY DEF Outcome, Spent, Shown
<1> QED
  BY <1>1 DEF Settled, Some, All, Unseen

LEMMA GoesUnseen ==
  ASSUME TypeOK, Settled, NEW t \in Tasks, NEW place \in Places, Goes(t, place),
         UNCHANGED <<worked, tokens, resets>>
  PROVE  Settled' /\ Unseen
  BY GoesFacts, UnseenStep

LEMMA BecomesUnseen ==
  ASSUME TypeOK, Settled, NEW t \in Tasks, NEW status \in Statuses \ Ended, NEW place \in Places,
         Becomes(t, status, place), record[t].status \notin Ended
  PROVE  Settled' /\ UNCHANGED <<Outcome, Spent, Shown>>
  BY BecomesFacts, RecordStep, SpentKept

LEMMA BecomesEnded ==
  ASSUME TypeOK, Settled, NEW t \in Tasks, NEW status \in Ended, NEW place \in Places,
         Becomes(t, status, place), record[t].status \notin Ended, UNCHANGED <<worked, resets>>
  PROVE  Settled' /\ Promised!Ends(t, status)
<1>1. /\ Only(t) /\ record'[t].status = status /\ record'[t].retry = record[t].retry
      /\ verdict' = Verdict(record', status)
  BY BecomesFacts DEF Ended, Statuses
<1>2. Settled' /\ Outcome' = [Outcome EXCEPT ![t] = status] /\ Shown' = Promised!Judge(Outcome')
  BY <1>1, RecordStep
<1>3. Spent' = Spent /\ Outcome[t] = "open"
  BY <1>1, SpentKept DEF Outcome, Ended
<1> QED
  BY <1>2, <1>3 DEF Promised!Ends

(* An execution at work is of an open task of a running swarm.             *)
LEMMA AtWork ==
  ASSUME LedgerInv, NEW t \in Tasks, job[t].at \notin Resting
  PROVE  /\ TypeOK /\ Settled /\ record[t].status \notin Ended /\ record[t].retry = job[t].retry
         /\ Outcome[t] = "open" /\ Spent[t] = job[t].retry
<1>1. /\ TypeOK /\ Settled /\ record[t].status \notin Ended /\ record[t].retry = job[t].retry
  BY DEF LedgerInv, Inv, TaskOK, Synced, StatusOf, Resting, Ended, TypeOK, Places
<1> QED
  BY <1>1 DEF Outcome, Spent, Ended

LEMMA FailsMapped ==
  ASSUME LedgerInv, NEW t \in Tasks, Fails(t), job[t].at \notin Resting, UNCHANGED <<worked, tokens, resets>>
  PROVE  Settled' /\ Mapped
<1>1. /\ TypeOK /\ Settled /\ record[t].status \notin Ended /\ record[t].retry = job[t].retry
      /\ Outcome[t] = "open" /\ Spent[t] = job[t].retry
  BY AtWork
<1>2. CASE job[t].retry < MaxRetries
  <2>1. job'[t].at = "retrying"
    BY <1>1, <1>2 DEF Fails, TypeOK
  <2>2. /\ Only(t) /\ record'[t].status = record[t].status
        /\ record'[t].retry = record[t].retry + 1
        /\ verdict' = Verdict(record', "none")
    BY <1>1, <2>1, FailsFacts
  <2>3. Settled' /\ Outcome' = Outcome /\ Shown' = Shown
    BY <1>1, <2>2, RecordStep
  <2>4. Spent' = [Spent EXCEPT ![t] = @ + 1]
    BY <2>2 DEF Only, Spent
  <2>5. Promised!Retry(t)
    BY <1>1, <1>2, <2>3, <2>4 DEF Promised!Retry
  <2> QED
    BY <2>3, <2>5 DEF Mapped, Promised!Next
<1>3. CASE ~(job[t].retry < MaxRetries)
  BY <1>1, <1>3, BecomesUnseen DEF Fails, Statuses, Ended, Places, Mapped, Unseen
<1> QED
  BY <1>2, <1>3

LEMMA ResultMapped ==
  ASSUME LedgerInv, NEW t \in Tasks, NEW ok \in BOOLEAN, Result(t, ok)
  PROVE  Settled' /\ Mapped
<1>1. /\ TypeOK /\ Settled /\ tokens' = tokens /\ resets' = resets
      /\ worked' = IF ok THEN worked \cup {t} ELSE worked
  BY DEF LedgerInv, Inv, Result, env
<1>2. CASE UNCHANGED <<job, record, verdict>>
  <2>1. Settled' /\ UNCHANGED <<Outcome, Spent, Shown>>
    BY <1>1, <1>2 DEF Settled, Some, All, Outcome, Spent, Shown
  <2> QED
    BY <1>1, <2>1 DEF Mapped, Unseen, Promised!Next, Promised!Deliver
<1>3. ASSUME NEW u \in Tasks, job[u].at = "assigned",
             IF ok THEN Becomes(u, "verifying", "verifying") ELSE Fails(u)
      PROVE  Settled' /\ Mapped
  <2>1. job[u].at \notin Resting /\ record[u].status \notin Ended
    BY <1>3, AtWork DEF Resting
  <2>2. CASE ok
    <3>1. Settled' /\ UNCHANGED <<Outcome, Spent, Shown>>
      BY <1>1, <1>3, <2>1, <2>2, BecomesUnseen DEF Statuses, Ended, Places
    <3>2. Promised!Deliver(t)
      BY <1>1, <2>2, <3>1 DEF Promised!Deliver
    <3> QED
      BY <3>1, <3>2 DEF Mapped, Promised!Next
  <2>3. CASE ~ok
    BY <1>1, <1>3, <2>1, <2>3, FailsMapped
  <2> QED
    BY <2>2, <2>3
<1> QED
  BY <1>2, <1>3 DEF Result

LEMMA AcceptMapped ==
  ASSUME LedgerInv, NEW t \in Tasks, Accept(t)
  PROVE  Settled' /\ Mapped
<1>1. /\ job[t].at = "verifying" /\ t \in worked /\ tokens' = tokens + 1 /\ tokens \in Nat
      /\ TokenLimit \in Nat /\ UNCHANGED <<worked, resets>>
  BY LimitsAreNat DEF Accept, LedgerInv, Inv, TaskOK, Proven, TypeOK, ghosts
<1>2. TypeOK /\ Settled /\ record[t].status \notin Ended
  BY <1>1, AtWork DEF Resting
<1>3. CASE TokenLimit # 0 /\ tokens' > TokenLimit
  <2>1. Settled' /\ Promised!Ends(t, "failed")
    BY <1>1, <1>2, <1>3, BecomesEnded DEF Accept, Ended, Places
  <2> QED
    BY <1>1, <1>3, <2>1 DEF Mapped, Promised!Next, Promised!Overspend, Promised!Affordable
<1>4. CASE ~(TokenLimit # 0 /\ tokens' > TokenLimit)
  <2>1. Settled' /\ Promised!Ends(t, "completed")
    BY <1>1, <1>2, <1>4, BecomesEnded DEF Accept, Ended, Places
  <2> QED
    BY <1>1, <1>4, <2>1 DEF Mapped, Promised!Next, Promised!Complete, Promised!Affordable
<1> QED
  BY <1>3, <1>4

LEMMA ProceedMapped ==
  ASSUME LedgerInv, NEW t \in Tasks, Enter(t) \/ Approved(t) \/ Unthrottled(t)
  PROVE  Settled' /\ Mapped
<1>1. job[t].at \notin Resting /\ UNCHANGED <<worked, tokens, resets>>
  BY DEF Enter, Approved, Unthrottled, Resting, env, ghosts
<1>2. PICK status \in {"running", "throttled", "pending_approval"}, place \in Places :
        Becomes(t, status, place)
  BY DEF Enter, Approved, Unthrottled, Proceed, Acquire, Places
<1>3. Settled' /\ UNCHANGED <<Outcome, Spent, Shown>>
  BY <1>1, <1>2, AtWork, BecomesUnseen DEF Statuses, Ended
<1> QED
  BY <1>1, <1>3 DEF Mapped, Unseen

LEMMA ApproveTaskMapped ==
  ASSUME LedgerInv, NEW t \in Tasks, NEW approved \in BOOLEAN, ApproveTask(t, approved)
  PROVE  Settled' /\ Mapped
<1>1. job[t].at = "approval" /\ UNCHANGED <<worked, tokens, resets>>
  BY DEF ApproveTask, env, ghosts
<1>2. TypeOK /\ Settled /\ record[t].status \notin Ended
  BY <1>1, AtWork DEF Resting
<1>3. CASE approved
  BY <1>1, <1>2, <1>3, GoesUnseen DEF ApproveTask, Places, Mapped
<1>4. CASE ~approved
  <2>1. Settled' /\ Promised!Ends(t, "failed")
    BY <1>1, <1>2, <1>4, BecomesEnded DEF ApproveTask, Ended, Places
  <2>2. t \in Sensitive
    BY <1>1 DEF LedgerInv, Reasons
  <2> QED
    BY <1>1, <2>1, <2>2 DEF Mapped, Promised!Next, Promised!Refuse
<1> QED
  BY <1>3, <1>4

LEMMA HealFailsMapped ==
  ASSUME LedgerInv, NEW t \in Tasks, HealFails(t) \/ CleanedUp(t)
  PROVE  Settled' /\ Mapped
<1>1. job[t].at \in {"healing", "cleaning"} /\ UNCHANGED <<worked, tokens, resets>>
  BY DEF HealFails, CleanedUp, env, ghosts
<1>2. /\ TypeOK /\ Settled /\ record[t].status \notin Ended
      /\ Outcome[t] = "open" /\ Spent[t] = job[t].retry
  BY <1>1, AtWork DEF Resting
<1>3. Spent[t] = MaxRetries
  BY <1>1, <1>2 DEF LedgerInv, Reasons
<1>4. CASE HealFails(t) /\ job[t].tree
  BY <1>1, <1>2, <1>4, UnseenStep DEF HealFails, Mapped
<1>5. CASE Becomes(t, "failed", "settled")
  <2>1. Settled' /\ Promised!Ends(t, "failed")
    BY <1>1, <1>2, <1>5, BecomesEnded DEF Ended, Places
  <2> QED
    BY <1>1, <1>3, <2>1 DEF Mapped, Promised!Next, Promised!GiveUp
<1>6. CleanedUp(t) => job[t].status = "failed"
  BY DEF CleanedUp, LedgerInv, Inv, TaskOK, StatusOf
<1> QED
  BY <1>4, <1>5, <1>6 DEF HealFails, CleanedUp

(* A reset of the mission reopens it.                                      *)
LEMMA ResetMapped ==
  ASSUME TypeOK, ResetMission
  PROVE  Settled' /\ Mapped
<1>1. /\ resets' = resets + 1 /\ verdict' = "active" /\ UNCHANGED <<worked, tokens>>
      /\ \A t \in Tasks :
           /\ record'[t].retry = record[t].retry
           /\ record'[t].status = IF record[t].status = "completed" THEN "completed" ELSE "pending"
  BY DEF ResetMission, Reset, TypeOK, env
<1>2. Settled'
  BY <1>1 DEF Settled, Some
<1>3. Outcome' = [t \in Tasks |-> IF Outcome[t] = "completed" THEN "completed" ELSE "open"]
  BY <1>1 DEF Outcome
<1>4. Spent' = Spent /\ Shown' = "open"
  BY <1>1 DEF Spent, Shown
<1>5. Promised!Reopen
  BY <1>1, <1>3, <1>4 DEF Promised!Reopen
<1> QED
  BY <1>2, <1>5 DEF Mapped, Promised!Next

LEMMA MissionStep ==
  ASSUME LedgerInv, [Next]_vars
  PROVE  Settled' /\ Mapped
<1>1. TypeOK /\ Settled
  BY DEF LedgerInv, Inv
<1>2. CASE UNCHANGED vars
  BY <1>1, <1>2, UnseenStep DEF vars, Mapped
<1>3. ASSUME NEW t \in Tasks, Continue(t)
      PROVE  Settled' /\ Mapped
  <2>1. WorktreeReady(t) => Settled' /\ Mapped
    BY <1>1, UnseenStep DEF WorktreeReady, Mapped, ghosts
  <2>2. RetryTimer(t) \/ HealThrows(t) \/ Heals(t) => Settled' /\ Mapped
    BY <1>1, GoesUnseen DEF RetryTimer, HealThrows, Heals, Places, Mapped, env, ghosts
  <2>3. BidsCollected(t) \/ ResultTimesOut(t) => Settled' /\ Mapped
    BY <1>1, GoesUnseen, FailsMapped
    DEF BidsCollected, ResultTimesOut, Places, Resting, Mapped, env, ghosts
  <2> QED
    BY <1>3, <2>1, <2>2, <2>3, ProceedMapped, AcceptMapped, HealFailsMapped DEF Continue, HealEnds
<1>4. ASSUME NEW t \in Tasks, Others(t)
      PROVE  Settled' /\ Mapped
  <2>1. Reject(t) => Settled' /\ Mapped
    BY FailsMapped DEF Reject, Resting, env, ghosts
  <2> QED
    BY <1>4, <2>1, ApproveTaskMapped, ResultMapped DEF Others
<1>5. Executor \/ Crash \/ ResumeMission => Settled' /\ Mapped
  BY <1>1, UnseenStep DEF Executor, NextBatch, SwarmCompleted, Crash, ResumeMission, Mapped, ghosts
<1> QED
  BY <1>1, <1>2, <1>3, <1>4, <1>5, ResetMapped DEF Next

(* The record of a mission keeps the promise of Mission: whatever happens  *)
(* to agents, results, approvals, heals and the process, a task is         *)
(* completed for good, with an agent's work and within the budget, or      *)
(* given up for a reason, and then taken up again only when a client       *)
(* resets the mission; and the verdict is that of the tasks.               *)
THEOREM RecordIsKept == Spec => KeepsRecord
<1>1. Init => LedgerInv /\ Promised!Init
  <2> SUFFICES ASSUME Init PROVE LedgerInv /\ Promised!Init
    OBVIOUS
  <2>1. Settled /\ \A t \in Tasks : Reasons(t)
    BY DEF Init, Settled, Some, All, Reasons
  <2>2. Promised!Init
    BY DEF Init, Promised!Init, Outcome, Spent, Shown
  <2> QED
    BY <2>1, <2>2, InvInit DEF LedgerInv
<1>2. LedgerInv /\ [Next]_vars => LedgerInv' /\ Mapped
  <2>1. ASSUME LedgerInv, UNCHANGED vars PROVE \A t \in Tasks : Reasons(t)'
    BY <2>1 DEF vars, LedgerInv, Reasons
  <2> QED
    BY <2>1, InvStep, ReasonsStep, MissionStep DEF LedgerInv
<1>3. Mapped => [Promised!Next]_<<Outcome, Spent, worked, tokens, Shown, resets>>
  BY DEF Mapped, Unseen
<1> QED
  BY <1>1, <1>2, <1>3, PTL DEF Spec, KeepsRecord, Promised!Spec

-----------------------------------------------------------------------------
(* Concurrency.                                                            *)
Busy == {t \in Tasks : job[t].at \notin Resting}

(* No more tasks than config.maxConcurrency are executed at a time, from   *)
(* the approval they wait for to the clean-up of their worktree, and none  *)
(* of them before a task of a higher priority.                             *)
WithinConcurrency ==
  /\ Cardinality(Busy) <= MaxConcurrency
  /\ \A t \in Busy, u \in queue : Priority[t] >= Priority[u]

(* Executions go on and end; only a batch begins any.                      *)
LEMMA BusyShrinks ==
  ASSUME TypeOK, NEW t \in Tasks, Continue(t) \/ Others(t)
  PROVE  Busy' \subseteq Busy /\ queue' = queue
<1>1. job \in Jobs
  BY DEF TypeOK, Jobs
<1>2. ASSUME NEW u \in Tasks, job[u].at \notin Resting, \A v \in Tasks \ {u} : job'[v] = job[v]
      PROVE  Busy' \subseteq Busy
  BY <1>2 DEF Busy
<1>3. ASSUME NEW u \in Tasks, job[u].at \notin Resting,
             \/ \E status \in Statuses, place \in Places : Becomes(u, status, place)
             \/ \E place \in Places : Goes(u, place)
             \/ Fails(u)
      PROVE  Busy' \subseteq Busy
  BY <1>2, <1>3, BecomesFacts, GoesFacts, FailsFacts DEF Only
<1>4. UNCHANGED queue
  BY DEF Continue, Others, HealEnds, Enter, Approved, Unthrottled, WorktreeReady, RetryTimer,
         BidsCollected, ResultTimesOut, Accept, HealThrows, Heals, HealFails, CleanedUp,
         ApproveTask, Result, Reject, env
<1>5. Enter(t) \/ Approved(t) \/ Unthrottled(t) => Busy' \subseteq Busy
  BY <1>3 DEF Enter, Approved, Unthrottled, Proceed, Acquire, Places, Statuses, Resting
<1>6. ASSUME WorktreeReady(t) PROVE Busy' \subseteq Busy
  BY <1>1, <1>2, <1>6 DEF WorktreeReady, Jobs, Resting
<1>7. RetryTimer(t) \/ HealThrows(t) \/ Heals(t) \/ BidsCollected(t) \/ ResultTimesOut(t) \/ Reject(t)
        => Busy' \subseteq Busy
  BY <1>3 DEF RetryTimer, HealThrows, Heals, BidsCollected, ResultTimesOut, Reject, Places, Resting
<1>8. Accept(t) => Busy' \subseteq Busy
  BY <1>3 DEF Accept, Places, Statuses, Resting
<1>9. ASSUME HealFails(t) PROVE Busy' \subseteq Busy
  <2>1. CASE job[t].tree
    BY <1>1, <1>2, <1>9, <2>1 DEF HealFails, Jobs, Resting
  <2>2. CASE ~job[t].tree
    BY <1>3, <1>9, <2>2 DEF HealFails, Places, Statuses, Resting
  <2> QED
    BY <2>1, <2>2
<1>10. CleanedUp(t) => Busy' \subseteq Busy
  BY <1>1, <1>3 DEF CleanedUp, Places, Jobs, Resting
<1>11. ASSUME NEW b \in BOOLEAN, ApproveTask(t, b) PROVE Busy' \subseteq Busy
  BY <1>3, <1>11 DEF ApproveTask, Places, Statuses, Resting
<1>12. ASSUME NEW b \in BOOLEAN, Result(t, b) PROVE Busy' \subseteq Busy
  <2>1. CASE UNCHANGED job
    BY <2>1 DEF Busy
  <2>2. CASE \E v \in Tasks : job[v].at = "assigned"
                 /\ IF b THEN Becomes(v, "verifying", "verifying") ELSE Fails(v)
    BY <1>3, <2>2 DEF Places, Statuses, Resting
  <2> QED
    BY <1>12, <2>1, <2>2 DEF Result
<1> QED
  BY <1>4, <1>5, <1>6, <1>7, <1>8, <1>9, <1>10, <1>11, <1>12 DEF Continue, Others, HealEnds

LEMMA BatchFits ==
  ASSUME IsFiniteSet(Tasks), TypeOK, NextBatch
  PROVE  WithinConcurrency'
<1>1. PICK n \in {MaxConcurrency, Throttled}, batch \in SUBSET queue :
        /\ Cardinality(batch) = n \/ Cardinality(batch) < n
        /\ \A t \in batch, u \in queue \ batch : Priority[t] >= Priority[u]
        /\ queue' = queue \ batch
        /\ job' = [t \in Tasks |-> IF t \in batch THEN [job[t] EXCEPT !.at = "entering"] ELSE job[t]]
  BY DEF NextBatch
<1>2. n \in Nat /\ n <= MaxConcurrency /\ MaxConcurrency \in Nat
  BY LimitsAreNat, SomeConcurrency DEF Throttled
<1>3. Busy' = batch
  BY <1>1 DEF NextBatch, BatchOver, Busy, Resting, TypeOK
<1>4. Cardinality(batch) \in Nat
  BY <1>1, FS_Subset, FS_CardinalityType DEF TypeOK
<1>5. Cardinality(batch) <= MaxConcurrency
  BY <1>1, <1>2, <1>4
<1> QED
  BY <1>1, <1>3, <1>5 DEF WithinConcurrency

LEMMA NobodyBusy ==
  ASSUME Busy' = {}
  PROVE  WithinConcurrency'
  BY FS_EmptySet, LimitsAreNat DEF WithinConcurrency

(* No more tasks than allowed are under way at a time, the most urgent     *)
(* first, in any finite mission: retries, heals, crashes and resumptions   *)
(* start none beyond the batch.                                            *)
THEOREM ConcurrencyIsBounded ==
  ASSUME IsFiniteSet(Tasks)
  PROVE  Spec => []WithinConcurrency
<1>1. Init => WithinConcurrency
  <2> SUFFICES ASSUME Init PROVE WithinConcurrency
    OBVIOUS
  <2>1. Busy = {}
    BY DEF Init, Busy, Resting
  <2> QED
    BY <2>1, FS_EmptySet, LimitsAreNat DEF WithinConcurrency
<1>2. Inv /\ WithinConcurrency /\ [Next]_vars => WithinConcurrency'
  <2> SUFFICES ASSUME Inv, WithinConcurrency, [Next]_vars PROVE WithinConcurrency'
    OBVIOUS
  <2>1. TypeOK
    BY DEF Inv
  <2>2. ASSUME Busy' \subseteq Busy, queue' = queue
        PROVE  WithinConcurrency'
    <3>1. IsFiniteSet(Busy)
      BY FS_Subset DEF Busy
    <3>2. Cardinality(Busy') <= Cardinality(Busy) /\ Cardinality(Busy) \in Nat /\ Cardinality(Busy') \in Nat
      BY <2>2, <3>1, FS_Subset, FS_CardinalityType
    <3>3. Cardinality(Busy') <= MaxConcurrency
      BY <3>2, LimitsAreNat DEF WithinConcurrency
    <3> QED
      BY <2>2, <3>3 DEF WithinConcurrency
  <2>3. CASE UNCHANGED vars
    BY <2>2, <2>3 DEF vars, Busy
  <2>4. CASE \E t \in Tasks : Continue(t) \/ Others(t)
    BY <2>1, <2>2, <2>4, BusyShrinks
  <2>5. CASE NextBatch
    BY <2>1, <2>5, BatchFits
  <2>6. CASE SwarmCompleted \/ ResetMission
    BY <2>2, <2>6 DEF SwarmCompleted, ResetMission, env, Busy
  <2>7. CASE Crash \/ ResumeMission
    <3>1. Busy' = {}
      BY <2>7 DEF Crash, ResumeMission, Busy, Resting
    <3> QED
      BY <3>1, NobodyBusy
  <2> QED
    BY <2>3, <2>4, <2>5, <2>6, <2>7 DEF Next, Executor
<1>3. Inv /\ [Next]_vars => Inv'
  BY InvStep
<1> QED
  BY <1>1, <1>2, <1>3, InvInit, PTL DEF Spec
=============================================================================
