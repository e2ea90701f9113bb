------------------------- MODULE SwarmOrchestrator -------------------------
(***************************************************************************)
(* A mission of the swarm: the orchestrator that executes its tasks        *)
(* (packages/core/src/agents/swarm/SwarmOrchestrator.ts) and the record    *)
(* the mission service keeps and persists                                  *)
(* (packages/core/src/services/MissionService.ts).                         *)
(*                                                                         *)
(* An action is what executeTask does between two awaits.  Agents on other *)
(* nodes of the mesh are the environment: they bid or do not, and what     *)
(* they return may be late, reordered or lost.  The agents of this         *)
(* repository bid with the id of the message instead of the task's         *)
(* (mesh/SpecializedAgent.ts:107), so their bids count for none.           *)
(*                                                                         *)
(* Left out: descriptions, models, tools and their policy, the context,    *)
(* the events, the contents of results; what happens when an orchestrator  *)
(* is resumed, or the mission's tasks are reset                            *)
(* (MissionService.resumeMission, which nothing in the repository calls),  *)
(* while another one is at work; and decomposeTask, after which the        *)
(* orchestrator writes to the mission it has created, no longer to this.   *)
(***************************************************************************)
EXTENDS Naturals, FiniteSets

CONSTANTS
  Tasks,          \* the tasks of the mission
  Sensitive,      \* tasks whose description asks for an approval
  Coders,         \* tasks executed in a git worktree
  Priority,       \* priority
  MaxConcurrency, \* config.maxConcurrency
  MaxRetries,     \* config.maxRetries
  TokenLimit,     \* config.maxTokensPerMission, in accepted results; 0 for none
  MaxHeals,       \* bound: successful heals of a task
  MaxCrashes,     \* bound: crashes of the process
  MaxResets       \* bound: calls of MissionService.resumeMission

ASSUME LimitsAreNat ==
  {MaxConcurrency, MaxRetries, TokenLimit, MaxHeals, MaxCrashes, MaxResets} \subseteq Nat
ASSUME SensitiveAreTasks == Sensitive \subseteq Tasks
ASSUME SomeConcurrency == MaxConcurrency > 0
ASSUME PrioritiesAreNat == Priority \in [Tasks -> Nat]

VARIABLES
  swarm,      \* "running", "done", or "none" after a crash
  queue,      \* executeSwarm: the pending tasks not begun yet
  job,        \* the orchestrator's tasks: where executeTask is, status, retryCount, worktreePath
  record,     \* the mission's tasks, as persisted: status and retryCount
  verdict,    \* the mission's status
  tokens,     \* the mission's usage
  trees,      \* tasks that have a git worktree on disk
  working,    \* tasks assigned to agents, whose results may come, once or more often
  crashes,
  resets,     \* how often the mission's tasks have been reset
  offers, granted, heals, worked   \* history

env == <<swarm, queue, tokens, trees, working, crashes>>
ghosts == <<heals, worked, resets>>
vars == <<swarm, queue, job, record, verdict, tokens, trees, working, crashes, resets,
          offers, granted, heals, worked>>

Statuses == {"pending", "running", "completed", "failed", "pending_approval",
             "healing", "throttled", "verifying"}

Places == {"idle", "entering", "approval", "approved", "throttled", "worktree", "bidding",
           "assigned", "verifying", "retrying", "healing", "cleaning", "settled"}

-----------------------------------------------------------------------------
(* MissionService.updateMissionTask.                                       *)
Is(rec, s) == {t \in Tasks : rec[t].status = s}

Verdict_ApprovalLast(rec, status) ==
  IF Is(rec, "pending_approval") # {} THEN "paused"
  ELSE IF Is(rec, "failed") # {} THEN "failed"
  ELSE IF Is(rec, "completed") = Tasks THEN "completed"
  ELSE IF status = "running" THEN "active" ELSE verdict

Verdict(rec, status) ==
  IF Is(rec, "failed") # {} THEN "failed"
  ELSE IF Is(rec, "completed") = Tasks THEN "completed"
  ELSE IF Is(rec, "pending_approval") # {} THEN "paused"
  ELSE IF status = "running" THEN "active" ELSE verdict

Update(t, fields, status) ==
  record' = [record EXCEPT ![t] = fields] /\ verdict' = Verdict(record', status)

(* The task takes a status, in the orchestrator and in the mission.        *)
Becomes(t, status, place) ==
  /\ job' = [job EXCEPT ![t].status = status, ![t].at = place]
  /\ Update(t, [record[t] EXCEPT !.status = status], status)

Goes(t, place) == job' = [job EXCEPT ![t].at = place] /\ UNCHANGED <<record, verdict>>

-----------------------------------------------------------------------------
(* executeTask, from its start or after an approval: the rate limiter may  *)
(* have no capacity.                                                       *)
Acquire(t) == Becomes(t, "running", IF t \in Coders THEN "worktree" ELSE "bidding")

Proceed(t) == Acquire(t) \/ Becomes(t, "throttled", "throttled")

NeedsApproval_FirstTimeOnly(t) == t \in Sensitive /\ job[t].retry = 0

NeedsApproval(t) == t \in Sensitive

Enter(t) ==
  /\ job[t].at = "entering"
  /\ IF NeedsApproval(t) THEN Becomes(t, "pending_approval", "approval") ELSE Proceed(t)
  /\ UNCHANGED <<env, ghosts>>

(* approveTask, and what waits for it.                                     *)
ApproveTask(t, approved) ==
  /\ job[t].at = "approval"
  /\ IF approved THEN Goes(t, "approved") ELSE Becomes(t, "failed", "settled")
  /\ UNCHANGED <<env, ghosts>>

Approved(t) ==
  /\ job[t].at = "approved"
  /\ Proceed(t)
  /\ UNCHANGED <<env, ghosts>>

Unthrottled_NoRefill(t) ==
  /\ job[t].at = "throttled"
  /\ Becomes(t, "throttled", "throttled")
  /\ UNCHANGED <<env, ghosts>>

Unthrottled(t) ==
  /\ job[t].at = "throttled"
  /\ Acquire(t)
  /\ UNCHANGED <<env, ghosts>>

(* createTaskEnvironment fails when the worktree is there; the task is     *)
(* executed all the same.                                                  *)
WorktreeReady(t) ==
  /\ job[t].at = "worktree"
  /\ \/ /\ t \notin trees
        /\ trees' = trees \cup {t}
        /\ job' = [job EXCEPT ![t].tree = TRUE, ![t].at = "bidding"]
     \/ UNCHANGED trees /\ job' = [job EXCEPT ![t].at = "bidding"]
  /\ UNCHANGED <<record, verdict, swarm, queue, tokens, working, crashes, ghosts>>

(* What follows an error: another attempt, or the healer.                  *)
Fails_Uncounted(t) == Goes(t, "retrying")

Fails(t) ==
  IF job[t].retry < MaxRetries
  THEN /\ job' = [job EXCEPT ![t].retry = @ + 1, ![t].at = "retrying"]
       /\ Update(t, [record[t] EXCEPT !.retry = job[t].retry + 1], "none")
  ELSE Becomes(t, "healing", "healing")

RetryTimer(t) ==
  /\ job[t].at = "retrying"
  /\ Goes(t, "entering")
  /\ UNCHANGED <<env, ghosts>>

(* The bidding window closes.                                              *)
BidsCollected(t) ==
  /\ job[t].at = "bidding"
  /\ \/ Goes(t, "assigned") /\ working' = working \cup {t}
     \/ Fails(t) /\ UNCHANGED working
  /\ UNCHANGED <<swarm, queue, tokens, trees, crashes, ghosts>>

(* A TASK_RESULT: of this assignment or of an earlier one of the task.     *)
Matches_AnyTask(u, t) == TRUE

Matches(u, t) == u = t

Result(t, ok) ==
  LET waiting == {u \in Tasks : job[u].at = "assigned" /\ Matches(u, t)}
  IN  /\ t \in working
      /\ worked' = IF ok THEN worked \cup {t} ELSE worked
      /\ IF waiting = {} THEN UNCHANGED <<job, record, verdict>>
         ELSE \E u \in waiting : IF ok THEN Becomes(u, "verifying", "verifying") ELSE Fails(u)
      /\ UNCHANGED <<env, heals, resets>>

ResultTimesOut(t) ==
  /\ job[t].at = "assigned"
  /\ Fails(t)
  /\ UNCHANGED <<env, ghosts>>

(* A VERIFY_RESULT, or nobody verifies: the result is accepted.            *)
Accept(t) ==
  /\ job[t].at = "verifying"
  /\ tokens' = tokens + 1
  /\ Becomes(t, IF TokenLimit # 0 /\ tokens' > TokenLimit THEN "failed" ELSE "completed", "settled")
  /\ UNCHANGED <<swarm, queue, trees, working, crashes, ghosts>>

Reject(t) ==
  /\ job[t].at = "verifying"
  /\ Fails(t)
  /\ UNCHANGED <<env, ghosts>>

(* The healer: the class the server passes (services/HealerService.ts) has *)
(* no method heal, so in the repository the call throws.                   *)
HealThrows(t) ==
  /\ job[t].at = "healing"
  /\ Goes(t, "settled")
  /\ UNCHANGED <<env, ghosts>>

Heals(t) ==
  /\ job[t].at = "healing" /\ heals[t] < MaxHeals
  /\ Goes(t, "entering")
  /\ heals' = [heals EXCEPT ![t] = @ + 1]
  /\ UNCHANGED <<env, worked, resets>>

HealFails(t) ==
  /\ job[t].at = "healing"
  /\ IF job[t].tree
     THEN /\ job' = [job EXCEPT ![t].status = "failed", ![t].at = "cleaning"]
          /\ UNCHANGED <<record, verdict>>
     ELSE Becomes(t, "failed", "settled")
  /\ UNCHANGED <<env, ghosts>>

CleanedUp(t) ==
  /\ job[t].at = "cleaning"
  /\ trees' \in {trees, trees \ {t}}
  /\ Becomes(t, job[t].status, "settled")
  /\ UNCHANGED <<swarm, queue, tokens, working, crashes, ghosts>>

-----------------------------------------------------------------------------
(* executeSwarm: batches by priority; a batch may be throttled to a fifth  *)
(* by the tasks of other missions.                                         *)
BatchOver == \A t \in Tasks : job[t].at \in {"idle", "settled"}

Throttled == IF MaxConcurrency < 10 THEN 1 ELSE MaxConcurrency \div 5

NextBatch ==
  /\ swarm = "running" /\ BatchOver /\ queue # {}
  /\ \E n \in {MaxConcurrency, Throttled}, batch \in SUBSET queue :
       /\ Cardinality(batch) = n \/ (Cardinality(batch) < n /\ batch = queue)
       /\ \A t \in batch, u \in queue \ batch : Priority[t] >= Priority[u]
       /\ queue' = queue \ batch
       /\ job' = [t \in Tasks |-> IF t \in batch THEN [job[t] EXCEPT !.at = "entering"] ELSE job[t]]
  /\ UNCHANGED <<swarm, record, verdict, tokens, trees, working, crashes, ghosts>>

SwarmCompleted ==
  /\ swarm = "running" /\ BatchOver /\ queue = {}
  /\ swarm' = "done"
  /\ UNCHANGED <<queue, job, record, verdict, tokens, trees, working, crashes, ghosts>>

(* The process dies; a client resumes the mission from what was persisted, *)
(* or one that is over.                                                    *)
Crash ==
  /\ swarm # "none" /\ crashes < MaxCrashes
  /\ crashes' = crashes + 1
  /\ swarm' = "none" /\ queue' = {}
  /\ job' = [t \in Tasks |-> [at |-> "idle", status |-> "pending", retry |-> 0, tree |-> FALSE]]
  /\ working' = {}
  /\ UNCHANGED <<record, verdict, tokens, trees, ghosts>>

Resumable_FailedToo == Is(record, "pending") \cup Is(record, "failed")

Resumable == Is(record, "pending")

ResumeMission ==
  /\ swarm # "running"
  /\ swarm' = "running"
  /\ job' = [t \in Tasks |-> [at |-> "idle", status |-> record[t].status, retry |-> record[t].retry, tree |-> FALSE]]
  /\ queue' = Resumable
  /\ working' = {}
  /\ UNCHANGED <<record, verdict, tokens, trees, crashes, ghosts>>

(* MissionService.resumeMission, called by a client of the service: every  *)
(* task that is not completed is pending again, with the retries it had.   *)
Reset(rec) ==
  [t \in Tasks |-> IF rec[t].status = "completed" THEN rec[t] ELSE [rec[t] EXCEPT !.status = "pending"]]

ResetMission ==
  /\ swarm # "running" /\ resets < MaxResets
  /\ resets' = resets + 1
  /\ record' = Reset(record) /\ verdict' = "active"
  /\ UNCHANGED <<env, job, heals, worked>>

-----------------------------------------------------------------------------
Init ==
  /\ swarm = "running" /\ queue = Tasks
  /\ job = [t \in Tasks |-> [at |-> "idle", status |-> "pending", retry |-> 0, tree |-> FALSE]]
  /\ record = [t \in Tasks |-> [status |-> "pending", retry |-> 0]]
  /\ verdict = "active" /\ tokens = 0
  /\ trees = {} /\ working = {} /\ crashes = 0 /\ resets = 0
  /\ offers = [t \in Tasks |-> 0] /\ heals = offers
  /\ granted = {} /\ worked = {}

HealEnds(t) == HealThrows(t) \/ Heals(t) \/ HealFails(t)

(* What the code does next without anybody else.                           *)
Continue(t) ==
  \/ Enter(t) \/ Approved(t) \/ Unthrottled(t) \/ WorktreeReady(t) \/ RetryTimer(t)
  \/ BidsCollected(t) \/ ResultTimesOut(t) \/ Accept(t) \/ HealEnds(t) \/ CleanedUp(t)

Executor == NextBatch \/ SwarmCompleted

Others(t) ==
  \/ \E b \in BOOLEAN : ApproveTask(t, b) \/ Result(t, b)
  \/ Reject(t)

(* History: how often a task has been offered to the mesh, and the         *)
(* approvals not used up by an offer.                                      *)
Offered(t) == job[t].at # "bidding" /\ job'[t].at = "bidding"

History ==
  /\ offers' = [t \in Tasks |-> IF Offered(t) THEN offers[t] + 1 ELSE offers[t]]
  /\ granted' = {t \in granted : ~Offered(t) /\ job'[t].at # "approval"}
                  \cup {t \in Tasks : job'[t].at = "approved"}

Next ==
  /\ \/ Executor \/ Crash \/ ResumeMission \/ ResetMission
     \/ \E t \in Tasks : Continue(t) \/ Others(t)
  /\ History

Spec == Init /\ [][Next]_vars

(* Timers fire, the rate limiter regains capacity, worktree commands and   *)
(* the healer return.  Nothing is assumed of agents, verifiers and people. *)
Fairness ==
  /\ \A t \in Tasks : WF_vars(Continue(t) /\ History)
  /\ WF_vars(Executor /\ History)

FairSpec == Spec /\ Fairness

-----------------------------------------------------------------------------
(* Properties.                                                             *)

TypeOK ==
  /\ swarm \in {"running", "done", "none"}
  /\ queue \subseteq Tasks
  /\ job \in [Tasks -> [at : Places, status : Statuses, retry : 0 .. MaxRetries, tree : BOOLEAN]]
  /\ record \in [Tasks -> [status : Statuses, retry : 0 .. MaxRetries]]
  /\ verdict \in {"active", "paused", "completed", "failed"}
  /\ tokens \in Nat
  /\ trees \subseteq Tasks /\ working \subseteq Tasks /\ crashes \in 0 .. MaxCrashes
  /\ resets \in 0 .. MaxResets
  /\ offers \in [Tasks -> Nat] /\ granted \subseteq Tasks /\ heals \in [Tasks -> 0 .. MaxHeals]
  /\ worked \subseteq Tasks

(* Every time a sensitive task is offered to the mesh, it has been         *)
(* approved for this attempt: retries and attempts after a heal ask again  *)
(* ("wait for approval", SwarmOrchestrator.ts:432).                        *)
EveryAttemptApproved == [][\A t \in Sensitive : Offered(t) => t \in granted]_vars

(* Across errors, time-outs, rejections, crashes and resumptions a task is *)
(* offered at most once, plus maxRetries times, plus once per heal and per *)
(* reset of the mission.                                                   *)
AttemptsBounded == \A t \in Tasks : offers[t] <= 1 + MaxRetries + heals[t] + resets

(* No task is recorded as completed unless an agent returned a result of   *)
(* this very task, however late and in whatever order results come.        *)
CompletedWasWorked == Is(record, "completed") \subseteq worked

(* The mission tells the truth about its tasks, through failures, crashes  *)
(* and resumptions ("Automatically updates mission status if all tasks are *)
(* complete/failed", MissionService.ts:105).  A mission that is reset is    *)
(* active, even when all of it was completed before.                       *)
MissionHonest ==
  /\ \A t \in Tasks : swarm = "running" /\ job[t].at # "cleaning" =>
       record[t] = [status |-> job[t].status, retry |-> job[t].retry]
  /\ verdict = "failed" <=> Is(record, "failed") # {}
  /\ verdict = "completed" => Is(record, "completed") = Tasks
  /\ Is(record, "completed") = Tasks => verdict = "completed" \/ (resets > 0 /\ verdict = "active")
  /\ Is(record, "pending_approval") # {} => verdict \in {"paused", "failed"}
  /\ verdict = "paused" => Is(record, "pending_approval") \cup Is(record, "throttled") # {}

(* What has been completed is never taken up again, whoever resumes or     *)
(* resets the mission after whatever crash.                                *)
CompletedSticks ==
  [][\A t \in Tasks : record[t].status = "completed" => record'[t].status = "completed"]_vars

(* The record of a mission, as Mission sees it.                            *)
Outcome == [t \in Tasks |->
  IF record[t].status \in {"completed", "failed"} THEN record[t].status ELSE "open"]

Spent == [t \in Tasks |-> record[t].retry]

Shown == IF verdict \in {"completed", "failed"} THEN verdict ELSE "open"

Promised == INSTANCE Mission WITH
  outcome <- Outcome, spent <- Spent, delivered <- worked, verdict <- Shown, reopened <- resets

(* The record of a mission, read at any moment, keeps the promise of       *)
(* Mission: a completed task stays so, and one that has failed stays so    *)
(* until a client resets the mission, whoever resumes it after whatever    *)
(* crash; a task was completed with an agent's work and within the budget, *)
(* or was given up for a reason; and the verdict is that of the tasks.     *)
KeepsRecord == Promised!Spec

(* A swarm ends, unless somebody is waited for to approve a task ("If no   *)
(* one verifies, accept it to avoid deadlock", 659).                       *)
SwarmEnds == swarm = "running" ~> swarm # "running" \/ \E t \in Tasks : job[t].at = "approval"
=============================================================================
