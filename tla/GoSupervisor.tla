---------------------------- MODULE GoSupervisor ----------------------------
(***************************************************************************)
(* The session supervisor of the Go sidecar                                *)
(* (go/internal/supervisor/supervisor.go).                                 *)
(*                                                                         *)
(* A Manager keeps a table of sessions.  Each session owns at most one     *)
(* exec.Cmd handle, a restart timer and two flags (manualStop and          *)
(* restartAfterStop).  Everything that touches the table runs under m.mu,  *)
(* so an action below is one critical section.  What happens BETWEEN two   *)
(* critical sections of one goroutine is where the difficulty lies: a      *)
(* StartSession that has released the lock but not yet recorded its        *)
(* process, an AfterFunc that has fired but not yet called StartSession, a *)
(* waitForExit whose process is dead but whose handler is still waiting.   *)
(*                                                                         *)
(* A LAUNCH is one attempt to bring a session up.  It goes through         *)
(*    timer -> calling -> launching -> spawned -> watched -> (free)        *)
(* and carries the identity of the process it spawns.  "orphan" is a       *)
(* process nobody waits for.                                               *)
(*                                                                         *)
(* Left out: logs, health and the other fields that are only reported, the *)
(* context of a start (its cancellation is a process exit or a failed      *)
(* start, which may happen at any time anyway), and failing writes of the  *)
(* persistence file other than one torn by a crash.                        *)
(***************************************************************************)
EXTENDS Naturals, Sequences, FiniteSets

CONSTANTS
  Sessions,       \* session ids
  Launches,       \* identities of launches; recycled once free (a bound)
  Dirs,           \* working directories a client may ask for
  RestartLimits,  \* values of MaxRestarts a client may ask for; 0 stands for
                  \* AutoRestart = false too
  MaxPersisted,   \* sessions kept in the persistence file
  MaxCrashes,     \* bound: crashes of the sidecar in one behaviour
  AutoResume,     \* ManagerOptions.AutoResumeOnStart
  LiveRestore,    \* whether clients call RestoreSessions on a live manager
  None            \* no launch, no session, no directory

ASSUME NoneIsFresh == None \notin Sessions \cup Launches \cup Dirs
ASSUME IdsDiffer == Sessions \cap Launches = {}
ASSUME LimitsAreNat == RestartLimits \subseteq Nat
ASSUME BoundsAreNat == MaxPersisted \in Nat \ {0} /\ MaxCrashes \in Nat
ASSUME FlagsAreBoolean == {AutoResume, LiveRestore} \subseteq BOOLEAN

VARIABLES
  sess,       \* m.sessions: the record of every session ("absent": not in the map)
  order,      \* the ids in m.sessions by CreatedAt
  launch,     \* what every launch is doing
  disk,       \* the sessions of the persistence file, in its order
  restoring,  \* a RestoreSessions that has read the file and waits for the lock
  closing,    \* Shutdown has been called
  crashes     \* how often the sidecar has crashed

vars == <<sess, order, launch, disk, restoring, closing, crashes>>

Transient == {"starting", "stopping", "restarting"}
Settled   == {"created", "running", "stopped", "error"}
States    == {"absent"} \cup Transient \cup Settled

SessionRec ==
  [state: States, cmd: Launches \cup {None}, manual: BOOLEAN, again: BOOLEAN,
   timer: Launches \cup {None}, restarts: Nat, max: Nat,
   dir: Dirs \cup Sessions \cup {None}]

Phases == {"free", "timer", "calling", "launching", "spawned", "watched", "orphan"}

LaunchRec ==
  [phase: Phases, owner: Sessions \cup {None},
   dead: {"no", "clean", "error"}, signalled: BOOLEAN]

Snapshots ==
  [id: Sessions, state: States, restarts: Nat, max: Nat,
   dir: Dirs \cup Sessions \cup {None}]

NoSession ==
  [state |-> "absent", cmd |-> None, manual |-> FALSE, again |-> FALSE,
   timer |-> None, restarts |-> 0, max |-> 0, dir |-> None]

Free == [phase |-> "free", owner |-> None, dead |-> "no", signalled |-> FALSE]

At(phase, s) == [Free EXCEPT !.phase = phase, !.owner = s]

Present(s) == sess[s].state # "absent"
IsFree(l) == launch[l].phase = "free"

-----------------------------------------------------------------------------
(* Persistence: persistLocked writes the newest MaxPersisted sessions.     *)

Newest_KeepsOldest(seq) ==
  SubSeq(seq, 1, IF Len(seq) > MaxPersisted THEN MaxPersisted ELSE Len(seq))

Newest(seq) ==
  SubSeq(seq, IF Len(seq) > MaxPersisted THEN Len(seq) - MaxPersisted + 1 ELSE 1, Len(seq))

Snapshot(ss, s) ==
  [id |-> s, state |-> ss[s].state, restarts |-> ss[s].restarts,
   max |-> ss[s].max, dir |-> ss[s].dir]

File(ss, ord) == LET kept == Newest(ord)
                 IN  [i \in 1..Len(kept) |-> Snapshot(ss, kept[i])]

Persist == disk' = File(sess', order')

(* normalizeRestoredSession: a session that was up, or on its way, is      *)
(* resumed or declared stopped; any other state is kept.                   *)
Interrupted(state) == state \in Transient \cup {"running"}

Normalize(state) ==
  IF ~Interrupted(state) THEN state
  ELSE IF AutoResume THEN "restarting" ELSE "stopped"

Restored(snap) ==
  [NoSession EXCEPT !.state = Normalize(snap.state), !.restarts = snap.restarts,
                    !.max = snap.max, !.dir = snap.dir]

Ids(file) == {file[i].id : i \in DOMAIN file}

(* restoreSessions on a manager whose launches are L: the table is         *)
(* replaced by the file and one goroutine per resumed session is started.  *)
(* A launch must be free for each (a bound).                               *)
RestoreFrom(file, L) ==
  LET resumed == {file[i].id : i \in {j \in DOMAIN file :
                                        AutoResume /\ Interrupted(file[j].state)}}
      slots   == {l \in Launches : L[l].phase = "free"}
  IN  /\ sess' = [s \in Sessions |->
                    IF s \in Ids(file)
                    THEN Restored(file[CHOOSE i \in DOMAIN file : file[i].id = s])
                    ELSE NoSession]
      /\ order' = [i \in DOMAIN file |-> file[i].id]
      /\ \E slot \in [resumed -> slots] :
           /\ \A s, t \in resumed : slot[s] = slot[t] => s = t
           /\ launch' = [l \in Launches |->
                           IF \E s \in resumed : slot[s] = l
                           THEN At("calling", CHOOSE s \in resumed : slot[s] = l)
                           ELSE L[l]]

-----------------------------------------------------------------------------
(* Creating a session.                                                     *)

UsesWorkspace(s) == sess[s].state \in {"created", "starting", "running", "restarting"}

Occupied(d) == \E s \in Sessions : UsesWorkspace(s) /\ sess[s].dir = d

(* CreateSessionWithOptions.  gitOk: a worktree manager is configured and  *)
(* "git worktree add" succeeds.  A worktree is named after its session.    *)
Create(s, d, isolate, gitOk, max) ==
  /\ ~Present(s)
  /\ sess' = [sess EXCEPT ![s] =
                [NoSession EXCEPT !.state = "created", !.max = max,
                   !.dir = IF isolate /\ gitOk /\ Occupied(d) THEN s ELSE d]]
  /\ order' = Append(order, s)
  /\ Persist
  /\ UNCHANGED <<launch, restoring, closing, crashes>>

-----------------------------------------------------------------------------
(* Starting a session.                                                     *)

(* time.Timer.Stop: an armed timer will not fire.  A fired one is no       *)
(* longer referenced (TimerFires), so Stop does nothing to it.             *)
TimerStopped_Forgotten(L, s) == L

TimerStopped(L, s) ==
  IF sess[s].timer = None THEN L ELSE [L EXCEPT ![sess[s].timer] = Free]

(* The critical section of StartSession, after its early returns.          *)
StartLocked(s, l) ==
  /\ sess' = [sess EXCEPT ![s] = [@ EXCEPT !.state = "starting", !.manual = FALSE,
                                           !.again = FALSE, !.timer = None]]
  /\ launch' = [TimerStopped(launch, s) EXCEPT ![l] = At("launching", s)]
  /\ UNCHANGED order
  /\ Persist

StartRefused(s) == sess[s].state \in {"absent", "starting", "running"}

(* StartSession called by a client.                                        *)
StartSession(s) ==
  /\ ~StartRefused(s)
  /\ \E l \in Launches : IsFree(l) /\ StartLocked(s, l)
  /\ UNCHANGED <<restoring, closing, crashes>>

(* StartSession called by a goroutine of the manager: a timer callback, a  *)
(* resumed session, or RestartSession after it released the lock.          *)
CallStart(l) ==
  LET s == launch[l].owner
  IN  /\ launch[l].phase = "calling"
      /\ IF StartRefused(s)
         THEN launch' = [launch EXCEPT ![l] = Free] /\ UNCHANGED <<sess, order, disk>>
         ELSE StartLocked(s, l)
      /\ UNCHANGED <<restoring, closing, crashes>>

(* runSession: cmd.Start succeeds, outside the lock.                       *)
Spawn(l) ==
  /\ launch[l].phase = "launching"
  /\ launch' = [launch EXCEPT ![l] = [@ EXCEPT !.phase = "spawned"]]
  /\ UNCHANGED <<sess, order, disk, restoring, closing, crashes>>

(* runSession: cmd.Start fails; markStartFailure.                          *)
LaunchFails(l) ==
  LET s == launch[l].owner
  IN  /\ launch[l].phase = "launching"
      /\ launch' = [launch EXCEPT ![l] = Free]
      /\ IF Present(s)
         THEN /\ sess' = [sess EXCEPT ![s] = [@ EXCEPT !.cmd = None, !.state = "error"]]
              /\ UNCHANGED order
              /\ Persist
         ELSE UNCHANGED <<sess, order, disk>>
      /\ UNCHANGED <<restoring, closing, crashes>>

(* runSession: the process is recorded, whatever the session has become in *)
(* the meantime, and waitForExit starts.                                   *)
Register(l) ==
  LET s == launch[l].owner
  IN  /\ launch[l].phase = "spawned"
      /\ IF Present(s)
         THEN /\ sess' = [sess EXCEPT ![s] = [@ EXCEPT !.cmd = l, !.state = "running"]]
              /\ launch' = [launch EXCEPT ![l] = [@ EXCEPT !.phase = "watched"]]
              /\ UNCHANGED order
              /\ Persist
         ELSE /\ launch' = [launch EXCEPT ![l] =
                              IF launch[l].dead = "no" THEN At("orphan", s) ELSE Free]
              /\ UNCHANGED <<sess, order, disk>>
      /\ UNCHANGED <<restoring, closing, crashes>>

-----------------------------------------------------------------------------
(* The end of a process.                                                   *)

(* A process exits, on its own or because of a signal.                     *)
ProcessExits(l) ==
  /\ launch[l].phase \in {"spawned", "watched", "orphan"}
  /\ launch[l].dead = "no"
  /\ \E how \in {"clean", "error"} :
       launch' = [launch EXCEPT ![l] = IF @.phase = "orphan" THEN Free
                                       ELSE [@ EXCEPT !.dead = how]]
  /\ UNCHANGED <<sess, order, disk, restoring, closing, crashes>>

(* scheduleRestartLocked: the launch that ended becomes the armed timer,   *)
(* and an earlier timer is stopped.                                        *)
ScheduleRestart(s, l, after) ==
  /\ sess' = [sess EXCEPT ![s] = [after EXCEPT !.state = "restarting", !.timer = l]]
  /\ launch' = [TimerStopped(launch, s) EXCEPT ![l] = At("timer", s)]

EndWith_KeepsHandle(s, l, after) ==
  /\ sess' = [sess EXCEPT ![s] = [after EXCEPT !.cmd = sess[s].cmd]]
  /\ launch' = [launch EXCEPT ![l] = Free]

EndWith(s, l, after) ==
  /\ sess' = [sess EXCEPT ![s] = after]
  /\ launch' = [launch EXCEPT ![l] = Free]

BudgetLeft_OffByOne(s) == sess[s].restarts <= sess[s].max

BudgetLeft(s) == sess[s].restarts < sess[s].max

Counted_Not(rec) == rec

Counted(rec) == [rec EXCEPT !.restarts = @ + 1]

(* waitForExit, once cmd.Wait has returned.  It never asks whether the     *)
(* process that ended is the one the session now holds.                    *)
HandleExit(l) ==
  LET s     == launch[l].owner
      ended == [sess[s] EXCEPT !.cmd = None]
      calm  == [ended EXCEPT !.again = FALSE, !.manual = FALSE]
      crash == launch[l].dead = "error"
      retry == crash /\ BudgetLeft(s)
  IN  /\ launch[l].phase = "watched" /\ launch[l].dead # "no"
      /\ IF ~Present(s)
         THEN launch' = [launch EXCEPT ![l] = Free] /\ UNCHANGED <<sess, order, disk>>
         ELSE /\ \/ sess[s].again /\ ScheduleRestart(s, l, calm)
                 \/ /\ ~sess[s].again /\ sess[s].manual
                    /\ EndWith(s, l, [calm EXCEPT !.state = "stopped"])
                 \/ /\ ~sess[s].again /\ ~sess[s].manual /\ retry
                    /\ ScheduleRestart(s, l, Counted(ended))
                 \/ /\ ~sess[s].again /\ ~sess[s].manual /\ ~retry
                    /\ EndWith(s, l, [ended EXCEPT !.state = IF crash THEN "error"
                                                             ELSE "stopped"])
              /\ UNCHANGED order
              /\ Persist
      /\ UNCHANGED <<restoring, closing, crashes>>

(* The AfterFunc of an armed timer starts its goroutine.                   *)
TimerFires(l) ==
  LET s == launch[l].owner
  IN  /\ launch[l].phase = "timer"
      /\ launch' = [launch EXCEPT ![l] = [@ EXCEPT !.phase = "calling"]]
      /\ sess' = IF sess[s].timer = l THEN [sess EXCEPT ![s] = [@ EXCEPT !.timer = None]] ELSE sess
      /\ UNCHANGED <<order, disk, restoring, closing, crashes>>

-----------------------------------------------------------------------------
(* Stopping and restarting a session.  The signal is sent after the lock   *)
(* is released; it reaches the process captured under the lock.            *)

Signal_NotSent(L, l) == L

Signal(L, l) == [L EXCEPT ![l] = [@ EXCEPT !.signalled = TRUE]]

(* StopSessionWithOptions.                                                 *)
StopSession(s) ==
  /\ Present(s)
  /\ LET off == [sess[s] EXCEPT !.manual = TRUE, !.again = FALSE, !.timer = None]
         L   == TimerStopped(launch, s)
     IN  IF sess[s].cmd = None
         THEN /\ sess' = [sess EXCEPT ![s] = [off EXCEPT !.state = "stopped"]]
              /\ launch' = L
         ELSE /\ sess' = [sess EXCEPT ![s] = [off EXCEPT !.state = "stopping"]]
              /\ launch' = Signal(L, sess[s].cmd)
  /\ UNCHANGED <<order, restoring, closing, crashes>>
  /\ Persist

(* RestartSession.  Without a process it releases the lock and goes on to  *)
(* call StartSession.                                                      *)
RestartSession(s) ==
  /\ Present(s)
  /\ IF sess[s].cmd = None
     THEN /\ sess' = [sess EXCEPT ![s] = [@ EXCEPT !.state = "restarting"]]
          /\ \E l \in Launches : IsFree(l) /\ launch' = [launch EXCEPT ![l] = At("calling", s)]
     ELSE /\ sess' = [sess EXCEPT ![s] = [@ EXCEPT !.state = "restarting", !.manual = TRUE,
                                                   !.again = TRUE]]
          /\ launch' = Signal(launch, sess[s].cmd)
  /\ UNCHANGED <<order, restoring, closing, crashes>>
  /\ Persist

(* Shutdown: every timer is stopped and every process is signalled; no     *)
(* session changes its state.                                              *)
Shutdown ==
  LET timers == {sess[s].timer : s \in Sessions} \ {None}
      cmds   == {sess[s].cmd : s \in Sessions} \ {None}
  IN  /\ ~closing /\ closing' = TRUE
      /\ sess' = [s \in Sessions |->
                    [sess[s] EXCEPT !.timer = None, !.manual = @ \/ sess[s].cmd # None]]
      /\ launch' = [l \in Launches |->
                      IF l \in timers THEN Free
                      ELSE IF l \in cmds THEN [launch[l] EXCEPT !.signalled = TRUE]
                      ELSE launch[l]]
      /\ UNCHANGED <<order, restoring, crashes>>
      /\ Persist

-----------------------------------------------------------------------------
(* Restoring and crashing.                                                 *)

NotRestoring == [on |-> FALSE, file |-> << >>]

(* restoreSessions reads the file before it takes the lock; a read that    *)
(* meets a half-written file fails and counts as an empty one.             *)
RestoreReads ==
  /\ LiveRestore /\ ~restoring.on
  /\ \E file \in {disk, << >>} : restoring' = [on |-> TRUE, file |-> file]
  /\ UNCHANGED <<sess, order, launch, disk, closing, crashes>>

RestoreApplies ==
  /\ restoring.on
  /\ RestoreFrom(restoring.file, launch)
  /\ restoring' = NotRestoring
  /\ UNCHANGED <<disk, closing, crashes>>

(* The sidecar dies and a new one restores.  Processes survive it.  A      *)
(* crash in the middle of a write leaves a file that reads as empty.       *)
Survivor(r) == IF r.phase \in {"spawned", "watched", "orphan"} /\ r.dead = "no"
               THEN At("orphan", r.owner) ELSE Free

Crash ==
  /\ crashes < MaxCrashes /\ crashes' = crashes + 1
  /\ \E file \in {disk, << >>} :
       /\ RestoreFrom(file, [l \in Launches |-> Survivor(launch[l])])
       /\ disk' = file
  /\ restoring' = NotRestoring
  /\ closing' = FALSE

-----------------------------------------------------------------------------
Init ==
  /\ sess = [s \in Sessions |-> NoSession]
  /\ order = << >>
  /\ launch = [l \in Launches |-> Free]
  /\ disk = << >>
  /\ restoring = NotRestoring
  /\ closing = FALSE
  /\ crashes = 0

ClientStep(s) ==
  \/ \E d \in Dirs, isolate, gitOk \in BOOLEAN, max \in RestartLimits :
       Create(s, d, isolate, gitOk, max)
  \/ StartSession(s)
  \/ StopSession(s)
  \/ RestartSession(s)

LaunchStep(l) ==
  \/ CallStart(l) \/ Spawn(l) \/ LaunchFails(l) \/ Register(l)
  \/ ProcessExits(l) \/ HandleExit(l) \/ TimerFires(l)

Next ==
  \/ \E s \in Sessions : ClientStep(s)
  \/ \E l \in Launches : LaunchStep(l)
  \/ Shutdown \/ RestoreReads \/ RestoreApplies \/ Crash

Spec == Init /\ [][Next]_vars

(* Goroutines of the manager are scheduled, timers fire, cmd.Start returns,*)
(* and a process that was signalled ends.                                  *)
Fairness ==
  \A l \in Launches :
    /\ WF_vars(CallStart(l)) /\ WF_vars(Spawn(l) \/ LaunchFails(l))
    /\ WF_vars(Register(l)) /\ WF_vars(HandleExit(l)) /\ WF_vars(TimerFires(l))
    /\ WF_vars(launch[l].signalled /\ ProcessExits(l))

FairSpec == Spec /\ Fairness

-----------------------------------------------------------------------------
(* Properties.                                                             *)

TypeOK ==
  /\ sess \in [Sessions -> SessionRec]
  /\ order \in Seq(Sessions)
  /\ launch \in [Launches -> LaunchRec]
  /\ disk \in Seq(Snapshots)
  /\ restoring \in [on: BOOLEAN, file: Seq(Snapshots)]
  /\ closing \in BOOLEAN
  /\ crashes \in Nat

(* The handle a session holds is always that of one of its own processes   *)
(* whose exit waitForExit has yet to process, and a session shown as       *)
(* running or stopping holds one: an attachable session is backed by a     *)
(* process, and a stop always has something to signal, however many older  *)
(* processes of the same session end meanwhile.                            *)
HandleIsWatched ==
  \A s \in Sessions :
    /\ sess[s].cmd # None => launch[sess[s].cmd].phase = "watched"
                             /\ launch[sess[s].cmd].owner = s
    /\ sess[s].state \in {"running", "stopping"} => sess[s].cmd # None

Has(s, phases) == \E l \in Launches : launch[l].owner = s /\ launch[l].phase \in phases

(* A session in a transient state has something left that will move it on: *)
(* a launch in flight, a timer, a pending call or a process to wait for.   *)
(* Only Shutdown, which stops the timers, may break this.                  *)
TransientHasDriver ==
  \A s \in Sessions :
    /\ sess[s].state = "starting" => Has(s, {"launching", "spawned"})
    /\ sess[s].state = "stopping" => Has(s, {"watched"})
    /\ sess[s].state = "restarting" /\ ~closing => Has(s, {"timer", "calling", "watched"})

(* The launches of s that could still change it, other than armed timers   *)
(* and processes nobody waits for.                                         *)
Acting(s) ==
  {l \in Launches : launch[l].owner = s
                      /\ launch[l].phase \in {"calling", "launching", "spawned", "watched"}}

(* A session the manager believes stopped, with nothing of it left, or     *)
(* stopping with nothing left but its one process.                         *)
QuietlyStopped(s) ==
  /\ ~Has(s, {"timer"})
  /\ \/ sess[s].state = "stopped" /\ Acting(s) = {}
     \/ /\ sess[s].state = "stopping" /\ sess[s].manual /\ ~sess[s].again
        /\ Acting(s) = {sess[s].cmd}

Timers(s) == {l \in Launches : launch[l].owner = s /\ launch[l].phase = "timer"}

(* StopSession means stop, unless it races.  When nothing of the session   *)
(* is in flight but the process and the timer it holds, stopping it leaves *)
(* it quietly stopped, and from then on no automatic restart, timer or     *)
(* late exit undoes that: only a start, a restart, a restore or a new      *)
(* sidecar does.                                                           *)
StopSticks ==
  [][\A s \in Sessions :
       /\ StopSession(s) /\ Acting(s) \subseteq {sess[s].cmd} /\ Timers(s) \subseteq {sess[s].timer}
            => QuietlyStopped(s)'
       /\ QuietlyStopped(s) /\ ~QuietlyStopped(s)'
            => StartSession(s) \/ RestartSession(s) \/ RestoreApplies \/ Crash]_vars

(* The restart budget of a session is never exceeded and never refunded,   *)
(* by a restart, a stop, a new start or a crash of the sidecar, as long as *)
(* the session exists.                                                     *)
WithinBudget == \A s \in Sessions : sess[s].restarts <= sess[s].max

BudgetNeverRefunded ==
  [][\A s \in Sessions : Present(s) /\ Present(s)' => sess'[s].restarts >= sess[s].restarts]_vars

(* What the table shows of a session.                                      *)
Entry(s) ==
  IF Present(s)
  THEN [phase |-> IF Interrupted(sess[s].state) THEN "active" ELSE sess[s].state,
        restarts |-> sess[s].restarts, limit |-> sess[s].max]
  ELSE [phase |-> "unknown", restarts |-> 0, limit |-> 0]

(* The starts of s that have been granted: its armed timers, its launches  *)
(* until their process is watched, and a restart that has been asked for   *)
(* and waits for the end of the process (shown by the session itself).     *)
Pending(s) ==
  {l \in Launches : launch[l].owner = s /\ launch[l].phase \in {"timer", "calling", "launching", "spawned"}}
    \cup (IF sess[s].again THEN {s} ELSE {})

Watched(s) == {l \in Launches : launch[l].owner = s /\ launch[l].phase = "watched"}

Contract(s) == INSTANCE Supervision
                 WITH Limits <- RestartLimits, session <- Entry(s),
                      pending <- Pending(s), up <- Watched(s)

(* Each session implements Supervision, and what Supervision leaves to     *)
(* clients or to a recovery happens only when a client asks for it of this *)
(* session, or when the sidecar crashes: no late exit, timer or launch     *)
(* restarts a session without using up an attempt, restarts one that has   *)
(* none left, starts two processes where one was asked for, or makes an    *)
(* error of a session that could be restarted.                             *)
Supervises ==
  /\ \A s \in Sessions : Contract(s)!Init
  /\ [][\A s \in Sessions :
           [\/ Contract(s)!Own
            \/ Contract(s)!Client /\ ClientStep(s)
            \/ Contract(s)!Recovery /\ Crash]_(Contract(s)!vars)]_vars

(* At every moment the file holds what a restart needs: the newest         *)
(* MaxPersisted sessions, their restart budget, and a state that restores  *)
(* to what the table would.                                                *)
FileIsCurrent ==
  /\ \A i \in DOMAIN order : order[i] \in Ids(disk) <=> Len(order) - i < MaxPersisted
  /\ \A i \in DOMAIN disk :
       LET s == disk[i].id
       IN  /\ disk[i].restarts = sess[s].restarts
           /\ Normalize(disk[i].state) = Normalize(sess[s].state)

(* No session is left starting, stopping or restarting for ever.           *)
TransientSettles ==
  \A s \in Sessions :
    sess[s].state \in Transient ~> (sess[s].state \notin Transient \/ closing)
=============================================================================
