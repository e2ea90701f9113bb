------------------------- MODULE GoSupervisorProofs -------------------------
(***************************************************************************)
(* Proofs about GoSupervisor for every set of sessions, launches and       *)
(* directories and every value of the flags and bounds.                    *)
(***************************************************************************)
EXTENDS GoSupervisor, TLAPS

IsAt(l, s, phase) == launch[l].owner = s /\ launch[l].phase = phase

(* What a session's record promises about its launches.  Besides what      *)
(* HandleIsWatched and TransientHasDriver say: the timer it refers to is   *)
(* armed and its own, and without an entry in the table there is no handle.*)
SessionOK(s) ==
  /\ sess[s].timer # None => IsAt(sess[s].timer, s, "timer")
  /\ sess[s].cmd # None => IsAt(sess[s].cmd, s, "watched")
  /\ sess[s].state = "absent" => sess[s].cmd = None
  /\ sess[s].state \in {"running", "stopping"} => sess[s].cmd # None
  /\ sess[s].state = "starting" => Has(s, {"launching", "spawned"})
  /\ sess[s].state = "restarting" /\ ~closing => Has(s, {"timer", "calling", "watched"})

LaunchesOwned == \A l \in Launches : launch[l].phase # "free" => launch[l].owner \in Sessions

IInv ==
  /\ TypeOK
  /\ LaunchesOwned
  /\ \A s \in Sessions : SessionOK(s)

-----------------------------------------------------------------------------
(* Helpers of the model.                                                   *)

(* What persistLocked writes is a list of sessions.                        *)
LEMMA FileType ==
  ASSUME NEW ss \in [Sessions -> SessionRec], NEW ord \in Seq(Sessions)
  PROVE  File(ss, ord) \in Seq(Snapshots)
<1> DEFINE kept == Newest(ord)
<1>1. kept \in Seq(Sessions)
  BY BoundsAreNat DEF Newest
<1>2. \A i \in 1..Len(kept) : Snapshot(ss, kept[i]) \in Snapshots
  BY <1>1 DEF Snapshot, Snapshots, SessionRec
<1> QED
  BY <1>1, <1>2 DEF File

(* A free launch and a launch at work are launch records.                  *)
LEMMA FreeType == Free \in LaunchRec
  BY DEF Free, LaunchRec, Phases

LEMMA AtType ==
  ASSUME NEW phase \in Phases, NEW s \in Sessions
  PROVE  /\ At(phase, s) \in LaunchRec
         /\ At(phase, s).phase = phase /\ At(phase, s).owner = s
  BY FreeType DEF At, Free, LaunchRec

LEMMA NoSessionType == NoSession \in SessionRec
  BY DEF NoSession, SessionRec, States

(* A file that cannot be read counts as one without sessions.              *)
LEMMA EmptyFile ==
  /\ << >> \in Seq(Snapshots) /\ << >> \in Seq(Sessions)
  /\ \A f \in Seq(Snapshots) : [on |-> TRUE, file |-> f] \in [on: BOOLEAN, file: Seq(Snapshots)]
  /\ NotRestoring \in [on: BOOLEAN, file: Seq(Snapshots)]
<1>1. << >> \in Seq(Snapshots)
  OBVIOUS
<1>2. << >> \in Seq(Sessions)
  OBVIOUS
<1>3. NotRestoring \in [on: BOOLEAN, file: Seq(Snapshots)]
  BY <1>1 DEF NotRestoring
<1> QED
  BY <1>1, <1>2, <1>3

(* A restored record is a session record without handle or timer, and it   *)
(* is transient only when the manager resumes it.                          *)
LEMMA RestoredType ==
  ASSUME NEW snap \in Snapshots
  PROVE  /\ Restored(snap) \in SessionRec
         /\ Restored(snap).cmd = None /\ Restored(snap).timer = None
         /\ Restored(snap).state \notin {"running", "starting", "stopping"}
         /\ Restored(snap).state = "restarting" => AutoResume /\ Interrupted(snap.state)
  BY DEF Restored, NoSession, Normalize, Interrupted, Snapshots, SessionRec,
         States, Transient, Settled

-----------------------------------------------------------------------------
(* The steps of Next.                                                      *)

USE DEF Present, IsFree, Has, IsAt

(* A step that changes one session s and launches of s only: the invariant *)
(* needs to be shown for s alone.                                          *)
OnlyTouches(s) ==
  /\ sess' \in [Sessions -> SessionRec]
  /\ \A t \in Sessions \ {s} : sess'[t] = sess[t]
  /\ launch' \in [Launches -> LaunchRec]
  /\ \A m \in Launches :
       \/ launch'[m] = launch[m]
       \/ /\ launch[m].phase = "free" \/ launch[m].owner = s
          /\ launch'[m].phase = "free" \/ launch'[m].owner = s
  /\ order' \in Seq(Sessions) /\ disk' \in Seq(Snapshots)
  /\ UNCHANGED <<restoring, closing, crashes>>

LEMMA Here ==
  ASSUME IInv, NEW s \in Sessions
  PROVE  /\ SessionOK(s) /\ sess[s] \in SessionRec
         /\ sess[s].cmd \in Launches \cup {None} /\ sess[s].timer \in Launches \cup {None}
         /\ sess \in [Sessions -> SessionRec] /\ launch \in [Launches -> LaunchRec]
  BY DEF IInv, TypeOK, SessionRec

LEMMA OneSession ==
  ASSUME IInv, NEW s \in Sessions, OnlyTouches(s), SessionOK(s)'
  PROVE  IInv'
<1> USE DEF OnlyTouches
<1>1. TypeOK'
  BY DEF IInv, TypeOK
<1>2. LaunchesOwned'
  BY DEF IInv, LaunchesOwned
<1>3. ASSUME NEW t \in Sessions \ {s}
      PROVE  SessionOK(t)'
  <2>1. \A m \in Launches : launch[m].phase # "free" /\ launch[m].owner = t
                             => launch'[m] = launch[m]
    OBVIOUS
  <2>2. sess[t].cmd \in Launches \cup {None} /\ sess[t].timer \in Launches \cup {None}
    BY DEF IInv, TypeOK, SessionRec
  <2>3. sess'[t] = sess[t] /\ closing' = closing
    OBVIOUS
  <2> QED
    BY <2>1, <2>2, <2>3 DEF IInv, SessionOK
<1> QED
  BY <1>1, <1>2, <1>3 DEF IInv

(* Stopping the timer of a session frees that launch and no other.         *)
LEMMA TimerStoppedFacts ==
  ASSUME IInv, NEW s \in Sessions
  PROVE  /\ TimerStopped(launch, s) \in [Launches -> LaunchRec]
         /\ \A m \in Launches :
              TimerStopped(launch, s)[m] = IF m = sess[s].timer THEN Free ELSE launch[m]
<1>1. launch \in [Launches -> LaunchRec] /\ sess[s].timer \in Launches \cup {None}
  BY DEF IInv, TypeOK, SessionRec
<1>2. CASE sess[s].timer = None
  BY <1>1, <1>2, NoneIsFresh DEF TimerStopped
<1>3. CASE sess[s].timer # None
  BY <1>1, <1>3, FreeType DEF TimerStopped
<1> QED
  BY <1>2, <1>3

LEMMA StartLockedKeepsIInv ==
  ASSUME IInv, NEW s \in Sessions, NEW l \in Launches, sess[s].state # "absent",
         launch[l].phase = "free" \/ (launch[l].phase = "calling" /\ launch[l].owner = s),
         StartLocked(s, l), UNCHANGED <<restoring, closing, crashes>>
  PROVE  IInv'
<1> DEFINE r == [sess[s] EXCEPT !.state = "starting", !.manual = FALSE,
                                !.again = FALSE, !.timer = None]
           new == At("launching", s)
<1>1. r \in SessionRec /\ r.state = "starting" /\ r.cmd = sess[s].cmd /\ r.timer = None
  <2>1. sess[s] \in SessionRec
    BY DEF IInv, TypeOK
  <2> QED
    BY <2>1 DEF SessionRec, States, Transient
<1>2. new \in LaunchRec /\ new.phase = "launching" /\ new.owner = s
  BY AtType DEF Phases
<1>3. /\ launch' \in [Launches -> LaunchRec]
      /\ \A m \in Launches : launch'[m] = IF m = l THEN new
                                          ELSE IF m = sess[s].timer THEN Free ELSE launch[m]
  <2> DEFINE L == TimerStopped(launch, s)
  <2>1. launch' = [L EXCEPT ![l] = new]
    BY DEF StartLocked
  <2>2. L \in [Launches -> LaunchRec]
        /\ \A m \in Launches : L[m] = IF m = sess[s].timer THEN Free ELSE launch[m]
    BY TimerStoppedFacts
  <2> HIDE DEF L, new
  <2> QED
    BY <1>2, <2>1, <2>2
<1>4. /\ sess' \in [Sessions -> SessionRec] /\ sess'[s] = r
      /\ \A t \in Sessions \ {s} : sess'[t] = sess[t]
  BY <1>1 DEF IInv, TypeOK, StartLocked
<1>5. order' \in Seq(Sessions) /\ disk' \in Seq(Snapshots)
  BY <1>4, FileType DEF IInv, TypeOK, StartLocked, Persist
<1> HIDE DEF r, new
<1>6. Free.phase = "free" /\ SessionOK(s)
  BY DEF Free, IInv
<1>7. OnlyTouches(s)
  BY <1>2, <1>3, <1>4, <1>5, <1>6, NoneIsFresh DEF OnlyTouches, SessionOK
<1>8. SessionOK(s)'
  BY <1>1, <1>2, <1>3, <1>4, <1>6 DEF SessionOK, SessionRec
<1> QED
  BY <1>7, <1>8, OneSession

LEMMA CallStartKeepsIInv ==
  ASSUME IInv, NEW l \in Launches, CallStart(l)
  PROVE  IInv'
<1>1. PICK s \in Sessions : launch[l].owner = s /\ launch[l].phase = "calling"
  BY DEF IInv, LaunchesOwned, CallStart
<1>2. CASE StartRefused(s)
  <2>1. /\ launch' \in [Launches -> LaunchRec] /\ launch'[l] = Free
        /\ \A m \in Launches \ {l} : launch'[m] = launch[m]
        /\ UNCHANGED <<sess, order, disk, restoring, closing, crashes>>
    BY <1>1, <1>2, FreeType DEF CallStart, IInv, TypeOK
  <2>2. OnlyTouches(s)
    BY <1>1, <2>1 DEF OnlyTouches, IInv, TypeOK, Free
  <2>3. SessionOK(s)'
    BY <1>1, <1>2, <2>1, Here DEF SessionOK, StartRefused
  <2> QED
    BY <1>1, <2>2, <2>3, OneSession
<1>3. CASE ~StartRefused(s)
  BY <1>1, <1>3, StartLockedKeepsIInv DEF CallStart, StartRefused
<1> QED
  BY <1>2, <1>3

LEMMA SpawnKeepsIInv ==
  ASSUME IInv, NEW l \in Launches, Spawn(l)
  PROVE  IInv'
<1>1. PICK s \in Sessions : launch[l].owner = s /\ launch[l].phase = "launching"
  BY DEF IInv, LaunchesOwned, Spawn
<1>2. /\ launch' \in [Launches -> LaunchRec]
      /\ launch'[l].phase = "spawned" /\ launch'[l].owner = s
      /\ \A m \in Launches \ {l} : launch'[m] = launch[m]
      /\ UNCHANGED <<sess, order, disk, restoring, closing, crashes>>
  BY <1>1 DEF Spawn, IInv, TypeOK, LaunchRec, Phases
<1>3. OnlyTouches(s)
  BY <1>1, <1>2 DEF OnlyTouches, IInv, TypeOK
<1>4. SessionOK(s)'
  BY <1>1, <1>2, Here DEF SessionOK
<1> QED
  BY <1>1, <1>3, <1>4, OneSession

LEMMA LaunchFailsKeepsIInv ==
  ASSUME IInv, NEW l \in Launches, LaunchFails(l)
  PROVE  IInv'
<1>1. PICK s \in Sessions : launch[l].owner = s /\ launch[l].phase = "launching"
  BY DEF IInv, LaunchesOwned, LaunchFails
<1>2. /\ launch' \in [Launches -> LaunchRec] /\ launch'[l] = Free
      /\ \A m \in Launches \ {l} : launch'[m] = launch[m]
      /\ UNCHANGED <<restoring, closing, crashes>>
  BY FreeType DEF LaunchFails, IInv, TypeOK
<1>3. CASE Present(s)
  <2> DEFINE r == [sess[s] EXCEPT !.cmd = None, !.state = "error"]
  <2>1. r \in SessionRec /\ r.cmd = None /\ r.state = "error" /\ r.timer = sess[s].timer
    BY <1>1, Here DEF SessionRec, States, Settled
  <2>2. /\ sess' \in [Sessions -> SessionRec] /\ sess'[s] = r
        /\ \A t \in Sessions \ {s} : sess'[t] = sess[t]
    BY <1>1, <1>3, <2>1 DEF LaunchFails, IInv, TypeOK
  <2>3. order' \in Seq(Sessions) /\ disk' \in Seq(Snapshots)
    BY <1>3, <2>2, FileType DEF LaunchFails, IInv, TypeOK, Persist
  <2> HIDE DEF r
  <2>4. OnlyTouches(s)
    BY <1>1, <1>2, <2>2, <2>3 DEF OnlyTouches, Free
  <2>5. SessionOK(s)'
    BY <1>1, <1>2, <2>1, <2>2, Here DEF SessionOK
  <2> QED
    BY <1>1, <2>4, <2>5, OneSession
<1>4. CASE ~Present(s)
  <2>1. UNCHANGED <<sess, order, disk>>
    BY <1>1, <1>4 DEF LaunchFails
  <2>2. OnlyTouches(s)
    BY <1>1, <1>2, <2>1 DEF OnlyTouches, IInv, TypeOK, Free
  <2>3. SessionOK(s)'
    BY <1>1, <1>2, <1>4, <2>1, Here DEF SessionOK
  <2> QED
    BY <1>1, <2>2, <2>3, OneSession
<1> QED
  BY <1>3, <1>4

LEMMA RegisterKeepsIInv ==
  ASSUME IInv, NEW l \in Launches, Register(l)
  PROVE  IInv'
<1>1. PICK s \in Sessions : launch[l].owner = s /\ launch[l].phase = "spawned"
  BY DEF IInv, LaunchesOwned, Register
<1>2. CASE Present(s)
  <2> DEFINE r == [sess[s] EXCEPT !.cmd = l, !.state = "running"]
  <2>1. r \in SessionRec /\ r.cmd = l /\ r.state = "running" /\ r.timer = sess[s].timer
    BY <1>1, Here DEF SessionRec, States, Settled
  <2>2. /\ sess' \in [Sessions -> SessionRec] /\ sess'[s] = r
        /\ \A t \in Sessions \ {s} : sess'[t] = sess[t]
        /\ UNCHANGED <<restoring, closing, crashes>>
    BY <1>1, <1>2, <2>1 DEF Register, IInv, TypeOK
  <2>3. order' \in Seq(Sessions) /\ disk' \in Seq(Snapshots)
    BY <1>2, <2>2, FileType DEF Register, IInv, TypeOK, Persist
  <2>4. /\ launch' \in [Launches -> LaunchRec]
        /\ launch'[l].phase = "watched" /\ launch'[l].owner = s
        /\ \A m \in Launches \ {l} : launch'[m] = launch[m]
    <3>1. launch' = [launch EXCEPT ![l] = [@ EXCEPT !.phase = "watched"]]
      BY <1>1, <1>2 DEF Register
    <3> QED
      BY <1>1, <3>1 DEF IInv, TypeOK, LaunchRec, Phases
  <2> HIDE DEF r
  <2>5. OnlyTouches(s)
    BY <1>1, <2>2, <2>3, <2>4 DEF OnlyTouches
  <2>6. SessionOK(s)'
    BY <1>1, <2>1, <2>2, <2>4, NoneIsFresh, Here DEF SessionOK
  <2> QED
    BY <1>1, <2>5, <2>6, OneSession
<1>3. CASE ~Present(s)
  <2>1. At("orphan", s) \in LaunchRec /\ At("orphan", s).owner = s /\ Free.phase = "free"
    BY <1>1, AtType DEF Phases, Free
  <2>2. /\ launch' \in [Launches -> LaunchRec]
        /\ launch'[l].phase = "free" \/ launch'[l].owner = s
        /\ \A m \in Launches \ {l} : launch'[m] = launch[m]
        /\ UNCHANGED <<sess, order, disk, restoring, closing, crashes>>
    BY <1>1, <1>3, <2>1, FreeType DEF Register, IInv, TypeOK
  <2>3. OnlyTouches(s)
    BY <1>1, <2>2 DEF OnlyTouches, IInv, TypeOK
  <2>4. SessionOK(s)'
    BY <1>1, <1>3, <2>2, Here DEF SessionOK
  <2> QED
    BY <1>1, <2>3, <2>4, OneSession
<1> QED
  BY <1>2, <1>3

LEMMA ProcessExitsKeepsIInv ==
  ASSUME IInv, NEW l \in Launches, ProcessExits(l)
  PROVE  IInv'
<1>1. PICK s \in Sessions : launch[l].owner = s /\ launch[l].phase \in {"spawned", "watched", "orphan"}
  BY DEF IInv, LaunchesOwned, ProcessExits
<1>2. PICK how \in {"clean", "error"} :
        launch' = [launch EXCEPT ![l] = IF @.phase = "orphan" THEN Free
                                        ELSE [@ EXCEPT !.dead = how]]
  BY DEF ProcessExits
<1>3. /\ launch' \in [Launches -> LaunchRec]
      /\ \A m \in Launches \ {l} : launch'[m] = launch[m]
      /\ launch[l].phase = "orphan" => launch'[l].phase = "free"
      /\ launch[l].phase # "orphan" => /\ launch'[l].phase = launch[l].phase
                                       /\ launch'[l].owner = s
      /\ UNCHANGED <<sess, order, disk, restoring, closing, crashes>>
  BY <1>1, <1>2, FreeType DEF ProcessExits, IInv, TypeOK, LaunchRec, Free
<1>4. OnlyTouches(s)
  BY <1>1, <1>3 DEF OnlyTouches, IInv, TypeOK
<1>5. SessionOK(s)'
  BY <1>1, <1>3, Here DEF SessionOK
<1> QED
  BY <1>1, <1>4, <1>5, OneSession

LEMMA EndWithKeepsIInv ==
  ASSUME IInv, NEW s \in Sessions, NEW l \in Launches, NEW after \in SessionRec,
         launch[l].owner = s, launch[l].phase = "watched", EndWith(s, l, after),
         after.cmd = None, after.timer = sess[s].timer, after.state \in {"stopped", "error"},
         UNCHANGED <<order, restoring, closing, crashes>>, Persist
  PROVE  IInv'
<1>1. /\ launch' \in [Launches -> LaunchRec] /\ launch'[l].phase = "free"
      /\ \A m \in Launches \ {l} : launch'[m] = launch[m]
  BY FreeType DEF EndWith, IInv, TypeOK, Free
<1>2. /\ sess' \in [Sessions -> SessionRec] /\ sess'[s] = after
      /\ \A t \in Sessions \ {s} : sess'[t] = sess[t]
  BY DEF EndWith, IInv, TypeOK
<1>3. order' \in Seq(Sessions) /\ disk' \in Seq(Snapshots)
  BY <1>2, FileType DEF IInv, TypeOK, Persist
<1>4. OnlyTouches(s)
  BY <1>1, <1>2, <1>3 DEF OnlyTouches
<1>5. SessionOK(s)'
  BY <1>1, <1>2, Here DEF SessionOK
<1> QED
  BY <1>4, <1>5, OneSession

LEMMA ScheduleRestartKeepsIInv ==
  ASSUME IInv, NEW s \in Sessions, NEW l \in Launches, NEW after \in SessionRec,
         launch[l].owner = s, launch[l].phase = "watched", ScheduleRestart(s, l, after),
         after.cmd = None, UNCHANGED <<order, restoring, closing, crashes>>, Persist
  PROVE  IInv'
<1> DEFINE r == [after EXCEPT !.state = "restarting", !.timer = l]
           L == TimerStopped(launch, s)
           new == At("timer", s)
<1>1. r \in SessionRec /\ r.state = "restarting" /\ r.timer = l /\ r.cmd = None
  BY DEF SessionRec, States, Transient
<1>2. new \in LaunchRec /\ new.phase = "timer" /\ new.owner = s
  BY AtType DEF Phases
<1>3. /\ L \in [Launches -> LaunchRec]
      /\ \A m \in Launches : L[m] = IF m = sess[s].timer THEN Free ELSE launch[m]
      /\ launch' = [L EXCEPT ![l] = new] /\ Free.phase = "free"
  BY TimerStoppedFacts DEF ScheduleRestart, Free
<1>4. /\ sess' \in [Sessions -> SessionRec] /\ sess'[s] = r
      /\ \A t \in Sessions \ {s} : sess'[t] = sess[t]
  BY <1>1 DEF ScheduleRestart, IInv, TypeOK
<1>5. order' \in Seq(Sessions) /\ disk' \in Seq(Snapshots)
  BY <1>4, FileType DEF IInv, TypeOK, Persist
<1> HIDE DEF r, L, new
<1>6. /\ launch' \in [Launches -> LaunchRec] /\ launch'[l] = new
      /\ \A m \in Launches \ {l} : launch'[m] = L[m]
  BY <1>2, <1>3
<1>7. OnlyTouches(s)
  BY <1>2, <1>3, <1>4, <1>5, <1>6, Here, NoneIsFresh DEF OnlyTouches, SessionOK
<1>8. SessionOK(s)'
  BY <1>1, <1>2, <1>4, <1>6 DEF SessionOK
<1> QED
  BY <1>7, <1>8, OneSession

LEMMA HandleExitKeepsIInv ==
  ASSUME IInv, NEW l \in Launches, HandleExit(l)
  PROVE  IInv'
<1>1. PICK s \in Sessions : launch[l].owner = s /\ launch[l].phase = "watched"
  BY DEF IInv, LaunchesOwned, HandleExit
<1>2. CASE ~Present(s)
  <2>1. /\ launch' \in [Launches -> LaunchRec] /\ launch'[l].phase = "free"
        /\ \A m \in Launches \ {l} : launch'[m] = launch[m]
        /\ UNCHANGED <<sess, order, disk, restoring, closing, crashes>>
    <3>1. /\ launch' = [launch EXCEPT ![l] = Free]
          /\ UNCHANGED <<sess, order, disk, restoring, closing, crashes>>
      BY <1>1, <1>2 DEF HandleExit
    <3> QED
      BY <3>1, FreeType DEF IInv, TypeOK, Free
  <2>2. OnlyTouches(s)
    BY <1>1, <2>1 DEF OnlyTouches, IInv, TypeOK
  <2>3. SessionOK(s)'
    BY <1>1, <1>2, <2>1, Here DEF SessionOK
  <2> QED
    BY <2>2, <2>3, OneSession
<1>3. CASE Present(s)
  <2> DEFINE ended == [sess[s] EXCEPT !.cmd = None]
             calm == [ended EXCEPT !.again = FALSE, !.manual = FALSE]
             off(state) == [calm EXCEPT !.state = state]
             over(state) == [ended EXCEPT !.state = state]
             retried == [ended EXCEPT !.restarts = @ + 1]
             crash == launch[l].dead = "error"
             retry == crash /\ BudgetLeft(s)
             how == IF crash THEN "error" ELSE "stopped"
  <2>1. /\ ended \in SessionRec /\ ended.cmd = None /\ ended.timer = sess[s].timer
        /\ ended.restarts \in Nat
    BY Here DEF SessionRec
  <2> HIDE DEF ended
  <2>2. calm \in SessionRec /\ calm.cmd = None /\ calm.timer = sess[s].timer
    BY <2>1 DEF SessionRec
  <2> HIDE DEF calm
  <2>3. /\ off("stopped") \in SessionRec /\ off("stopped").cmd = None
        /\ off("stopped").timer = sess[s].timer /\ off("stopped").state = "stopped"
    BY <2>2 DEF SessionRec, States, Settled
  <2>4. /\ over(how) \in SessionRec /\ over(how).cmd = None
        /\ over(how).timer = sess[s].timer /\ over(how).state \in {"stopped", "error"}
    BY <2>1 DEF SessionRec, States, Settled
  <2>5. retried \in SessionRec /\ retried.cmd = None
    BY <2>1 DEF SessionRec
  <2> HIDE DEF retry
  <2>6. /\ \/ ScheduleRestart(s, l, calm)
           \/ EndWith(s, l, off("stopped"))
           \/ ScheduleRestart(s, l, retried)
           \/ EndWith(s, l, over(how))
        /\ UNCHANGED <<order, restoring, closing, crashes>> /\ Persist
    BY <1>1, <1>3 DEF HandleExit, Counted, ended, calm
  <2> HIDE DEF off, over, retried, how
  <2>7. CASE ScheduleRestart(s, l, calm)
    BY <1>1, <2>2, <2>6, <2>7, ScheduleRestartKeepsIInv
  <2>8. CASE EndWith(s, l, off("stopped"))
    BY <1>1, <2>3, <2>6, <2>8, EndWithKeepsIInv
  <2>9. CASE ScheduleRestart(s, l, retried)
    BY <1>1, <2>5, <2>6, <2>9, ScheduleRestartKeepsIInv
  <2>10. CASE EndWith(s, l, over(how))
    BY <1>1, <2>4, <2>6, <2>10, EndWithKeepsIInv
  <2> QED
    BY <2>6, <2>7, <2>8, <2>9, <2>10
<1> QED
  BY <1>2, <1>3

LEMMA TimerFiresKeepsIInv ==
  ASSUME IInv, NEW l \in Launches, TimerFires(l)
  PROVE  IInv'
<1>1. PICK s \in Sessions : launch[l].owner = s /\ launch[l].phase = "timer"
  BY DEF IInv, LaunchesOwned, TimerFires
<1>2. /\ launch' \in [Launches -> LaunchRec]
      /\ launch'[l].phase = "calling" /\ launch'[l].owner = s
      /\ \A m \in Launches \ {l} : launch'[m] = launch[m]
      /\ UNCHANGED <<order, disk, restoring, closing, crashes>>
  BY <1>1 DEF TimerFires, IInv, TypeOK, LaunchRec, Phases
<1> DEFINE r == [sess[s] EXCEPT !.timer = None]
<1>3. /\ r \in SessionRec /\ r.timer = None /\ r.state = sess[s].state /\ r.cmd = sess[s].cmd
  BY Here DEF SessionRec
<1>4. /\ sess' \in [Sessions -> SessionRec]
      /\ IF sess[s].timer = l THEN sess'[s] = r ELSE sess'[s] = sess[s]
      /\ \A t \in Sessions \ {s} : sess'[t] = sess[t]
  BY <1>1, <1>3 DEF TimerFires, IInv, TypeOK
<1> HIDE DEF r
<1>5. OnlyTouches(s)
  BY <1>1, <1>2, <1>4 DEF OnlyTouches, IInv, TypeOK
<1>6. SessionOK(s)'
  BY <1>1, <1>2, <1>3, <1>4, Here DEF SessionOK
<1> QED
  BY <1>5, <1>6, OneSession

LEMMA CreateKeepsIInv ==
  ASSUME IInv, NEW s \in Sessions, NEW d \in Dirs, NEW isolate \in BOOLEAN,
         NEW gitOk \in BOOLEAN, NEW max \in RestartLimits, Create(s, d, isolate, gitOk, max)
  PROVE  IInv'
<1> DEFINE dir == IF isolate /\ gitOk /\ Occupied(d) THEN s ELSE d
           r == [NoSession EXCEPT !.state = "created", !.max = max, !.dir = dir]
<1>1. r \in SessionRec /\ r.state = "created" /\ r.cmd = None /\ r.timer = None
  BY LimitsAreNat DEF NoSession, SessionRec, States, Settled
<1>2. sess' = [sess EXCEPT ![s] = r] /\ UNCHANGED <<launch, restoring, closing, crashes>>
  BY DEF Create
<1> HIDE DEF r, dir
<1>3. /\ sess' \in [Sessions -> SessionRec] /\ sess'[s] = r
      /\ \A t \in Sessions \ {s} : sess'[t] = sess[t]
  BY <1>1, <1>2 DEF IInv, TypeOK
<1>4. order' \in Seq(Sessions) /\ disk' \in Seq(Snapshots)
  <2>1. order' \in Seq(Sessions)
    BY DEF Create, IInv, TypeOK
  <2> QED
    BY <1>3, <2>1, FileType DEF Create, Persist
<1>5. OnlyTouches(s)
  BY <1>2, <1>3, <1>4 DEF OnlyTouches, IInv, TypeOK
<1>6. SessionOK(s)'
  BY <1>1, <1>2, <1>3 DEF SessionOK
<1> QED
  BY <1>5, <1>6, OneSession

LEMMA StartSessionKeepsIInv ==
  ASSUME IInv, NEW s \in Sessions, StartSession(s)
  PROVE  IInv'
<1>1. PICK l \in Launches : launch[l].phase = "free" /\ StartLocked(s, l)
  BY DEF StartSession
<1> QED
  BY <1>1, StartLockedKeepsIInv DEF StartSession, StartRefused

(* Signalling changes neither phase nor owner of a launch.                 *)
LEMMA SignalFacts ==
  ASSUME NEW L \in [Launches -> LaunchRec], NEW l \in Launches
  PROVE  /\ Signal(L, l) \in [Launches -> LaunchRec]
         /\ Signal(L, l)[l].phase = L[l].phase /\ Signal(L, l)[l].owner = L[l].owner
         /\ \A m \in Launches \ {l} : Signal(L, l)[m] = L[m]
  BY DEF Signal, LaunchRec

LEMMA StopSessionKeepsIInv ==
  ASSUME IInv, NEW s \in Sessions, StopSession(s)
  PROVE  IInv'
<1> DEFINE off == [sess[s] EXCEPT !.manual = TRUE, !.again = FALSE, !.timer = None]
           L == TimerStopped(launch, s)
           r(state) == [off EXCEPT !.state = state]
<1>1. off \in SessionRec /\ off.cmd = sess[s].cmd /\ off.timer = None
  BY Here DEF SessionRec
<1>2. /\ L \in [Launches -> LaunchRec] /\ Free.phase = "free"
      /\ \A m \in Launches : L[m] = IF m = sess[s].timer THEN Free ELSE launch[m]
  BY TimerStoppedFacts DEF Free
<1>3. /\ UNCHANGED <<order, restoring, closing, crashes>> /\ Persist
      /\ IF sess[s].cmd = None
         THEN sess' = [sess EXCEPT ![s] = r("stopped")] /\ launch' = L
         ELSE sess' = [sess EXCEPT ![s] = r("stopping")] /\ launch' = Signal(L, sess[s].cmd)
  BY DEF StopSession
<1> HIDE DEF off, L
<1>4. \A state \in {"stopped", "stopping"} :
        r(state) \in SessionRec /\ r(state).cmd = sess[s].cmd /\ r(state).timer = None
        /\ r(state).state = state
  BY <1>1 DEF SessionRec, States, Settled, Transient
<1> HIDE DEF r
<1>5. PICK state \in {"stopped", "stopping"} :
        /\ sess' = [sess EXCEPT ![s] = r(state)]
        /\ state = "stopped" => sess[s].cmd = None /\ launch' = L
        /\ state = "stopping" => sess[s].cmd # None /\ launch' = Signal(L, sess[s].cmd)
  BY <1>3
<1>6. /\ sess' \in [Sessions -> SessionRec] /\ sess'[s] = r(state)
      /\ \A t \in Sessions \ {s} : sess'[t] = sess[t]
  BY <1>4, <1>5 DEF IInv, TypeOK
<1>7. order' \in Seq(Sessions) /\ disk' \in Seq(Snapshots)
  BY <1>3, <1>6, FileType DEF IInv, TypeOK, Persist
<1>8. CASE state = "stopped"
  <2>1. OnlyTouches(s)
    BY <1>2, <1>3, <1>5, <1>6, <1>7, <1>8, Here, NoneIsFresh DEF OnlyTouches, SessionOK
  <2>2. SessionOK(s)'
    BY <1>4, <1>5, <1>6, <1>8 DEF SessionOK
  <2> QED
    BY <2>1, <2>2, OneSession
<1>9. CASE state = "stopping"
  <2> DEFINE c == sess[s].cmd
  <2>1. /\ c \in Launches /\ c # sess[s].timer
        /\ launch[c].owner = s /\ launch[c].phase = "watched"
    BY <1>5, <1>9, Here DEF SessionOK
  <2>2. /\ launch' \in [Launches -> LaunchRec]
        /\ launch'[c].phase = "watched" /\ launch'[c].owner = s
        /\ \A m \in Launches \ {c} : launch'[m] = L[m]
    BY <1>2, <1>5, <1>9, <2>1, SignalFacts
  <2> HIDE DEF c
  <2>3. OnlyTouches(s)
    BY <1>2, <1>3, <1>6, <1>7, <2>1, <2>2, Here, NoneIsFresh DEF OnlyTouches, SessionOK
  <2>4. SessionOK(s)'
    BY <1>4, <1>5, <1>6, <1>9, <2>1, <2>2 DEF SessionOK, c
  <2> QED
    BY <2>3, <2>4, OneSession
<1> QED
  BY <1>8, <1>9

LEMMA RestartSessionKeepsIInv ==
  ASSUME IInv, NEW s \in Sessions, RestartSession(s)
  PROVE  IInv'
<1> DEFINE idle == [sess[s] EXCEPT !.state = "restarting"]
           busy == [sess[s] EXCEPT !.state = "restarting", !.manual = TRUE, !.again = TRUE]
<1>1. /\ idle \in SessionRec /\ idle.cmd = sess[s].cmd /\ idle.timer = sess[s].timer
      /\ busy \in SessionRec /\ busy.cmd = sess[s].cmd /\ busy.timer = sess[s].timer
      /\ idle.state = "restarting" /\ busy.state = "restarting"
  BY Here DEF SessionRec, States, Transient
<1>2. UNCHANGED <<order, restoring, closing, crashes>> /\ Persist
  BY DEF RestartSession
<1>3. CASE sess[s].cmd = None
  <2>1. PICK l \in Launches : launch[l].phase = "free" /\ launch' = [launch EXCEPT ![l] = At("calling", s)]
    BY <1>3 DEF RestartSession
  <2>2. At("calling", s) \in LaunchRec /\ At("calling", s).phase = "calling"
        /\ At("calling", s).owner = s
    BY AtType DEF Phases
  <2>3. /\ launch' \in [Launches -> LaunchRec]
        /\ launch'[l].phase = "calling" /\ launch'[l].owner = s
        /\ \A m \in Launches \ {l} : launch'[m] = launch[m]
    BY <2>1, <2>2 DEF IInv, TypeOK
  <2>4. /\ sess' \in [Sessions -> SessionRec] /\ sess'[s] = idle
        /\ \A t \in Sessions \ {s} : sess'[t] = sess[t]
    BY <1>1, <1>3 DEF RestartSession, IInv, TypeOK
  <2>5. order' \in Seq(Sessions) /\ disk' \in Seq(Snapshots)
    BY <1>2, <2>4, FileType DEF IInv, TypeOK, Persist
  <2> HIDE DEF idle, busy
  <2>6. OnlyTouches(s)
    BY <1>2, <2>1, <2>3, <2>4, <2>5 DEF OnlyTouches
  <2>7. SessionOK(s)'
    BY <1>1, <1>3, <2>1, <2>3, <2>4, Here DEF SessionOK
  <2> QED
    BY <2>6, <2>7, OneSession
<1>4. CASE sess[s].cmd # None
  <2> DEFINE c == sess[s].cmd
  <2>1. c \in Launches /\ launch[c].owner = s /\ launch[c].phase = "watched"
    BY <1>4, Here DEF SessionOK
  <2>2. launch' = Signal(launch, c) /\ sess' = [sess EXCEPT ![s] = busy]
    BY <1>4 DEF RestartSession
  <2> HIDE DEF c, idle, busy
  <2>3. /\ launch' \in [Launches -> LaunchRec]
        /\ launch'[c].phase = "watched" /\ launch'[c].owner = s
        /\ \A m \in Launches \ {c} : launch'[m] = launch[m]
    BY <2>1, <2>2, Here, SignalFacts
  <2>4. /\ sess' \in [Sessions -> SessionRec] /\ sess'[s] = busy
        /\ \A t \in Sessions \ {s} : sess'[t] = sess[t]
    BY <1>1, <2>2 DEF IInv, TypeOK
  <2>5. order' \in Seq(Sessions) /\ disk' \in Seq(Snapshots)
    BY <1>2, <2>4, FileType DEF IInv, TypeOK, Persist
  <2>6. OnlyTouches(s)
    BY <1>2, <2>1, <2>3, <2>4, <2>5 DEF OnlyTouches
  <2>7. SessionOK(s)'
    BY <1>1, <1>4, <2>1, <2>3, <2>4, Here DEF SessionOK, c
  <2> QED
    BY <2>6, <2>7, OneSession
<1> QED
  BY <1>3, <1>4

(* Shutdown touches every session at once, but only armed timers lose their*)
(* phase, and a restarting session owes nothing once the manager is closed.*)
LEMMA ShutdownKeepsIInv ==
  ASSUME IInv, Shutdown
  PROVE  IInv'
<1> DEFINE timers == {sess[s].timer : s \in Sessions} \ {None}
           cmds   == {sess[s].cmd : s \in Sessions} \ {None}
<1>1. /\ closing' = TRUE /\ UNCHANGED <<order, restoring, crashes>> /\ Persist
      /\ sess' = [s \in Sessions |->
                    [sess[s] EXCEPT !.timer = None, !.manual = @ \/ sess[s].cmd # None]]
      /\ launch' = [l \in Launches |->
                      IF l \in timers THEN Free
                      ELSE IF l \in cmds THEN [launch[l] EXCEPT !.signalled = TRUE]
                      ELSE launch[l]]
  BY DEF Shutdown
<1>2. \A l \in timers : launch[l].phase = "timer"
  BY Here DEF SessionOK
<1> HIDE DEF timers, cmds
<1>3. /\ launch' \in [Launches -> LaunchRec]
      /\ \A l \in Launches : launch[l].phase # "timer" =>
            launch'[l].phase = launch[l].phase /\ launch'[l].owner = launch[l].owner
      /\ \A l \in Launches : launch'[l].phase # "free" => launch'[l].owner = launch[l].owner
                                                          /\ launch[l].phase # "free"
  <2>1. ASSUME NEW l \in Launches
        PROVE  /\ launch'[l] \in LaunchRec
               /\ l \notin timers => launch'[l].phase = launch[l].phase
                                     /\ launch'[l].owner = launch[l].owner
               /\ l \in timers => launch'[l].phase = "free"
    <3>1. launch[l] \in LaunchRec
      BY DEF IInv, TypeOK
    <3>2. CASE l \in timers
      BY <1>1, <3>2, FreeType DEF Free
    <3>3. CASE l \notin timers /\ l \in cmds
      BY <1>1, <3>1, <3>3 DEF LaunchRec
    <3>4. CASE l \notin timers /\ l \notin cmds
      BY <1>1, <3>1, <3>4
    <3> QED
      BY <3>2, <3>3, <3>4
  <2> QED
    BY <1>1, <1>2, <2>1
<1>4. /\ sess' \in [Sessions -> SessionRec]
      /\ \A s \in Sessions : /\ sess'[s].timer = None
                             /\ sess'[s].cmd = sess[s].cmd
                             /\ sess'[s].state = sess[s].state
  <2>1. ASSUME NEW s \in Sessions
        PROVE  /\ sess'[s] \in SessionRec /\ sess'[s].timer = None
               /\ sess'[s].cmd = sess[s].cmd /\ sess'[s].state = sess[s].state
    <3>1. sess[s] \in SessionRec
      BY DEF IInv, TypeOK
    <3> QED
      BY <1>1, <3>1 DEF SessionRec
  <2> QED
    BY <1>1, <2>1
<1>5. order' \in Seq(Sessions) /\ disk' \in Seq(Snapshots)
  BY <1>1, <1>4, FileType DEF IInv, TypeOK, Persist
<1>6. TypeOK'
  BY <1>1, <1>3, <1>4, <1>5 DEF IInv, TypeOK
<1>7. LaunchesOwned'
  BY <1>3 DEF IInv, LaunchesOwned
<1>8. ASSUME NEW s \in Sessions PROVE SessionOK(s)'
  <2>1. closing' = TRUE /\ sess'[s].timer = None
        /\ sess'[s].cmd = sess[s].cmd /\ sess'[s].state = sess[s].state
    BY <1>1, <1>4
  <2> QED
    BY <1>3, <2>1, Here DEF SessionOK
<1> QED
  BY <1>6, <1>7, <1>8 DEF IInv

(* Whatever the launches L that are left over, a restore gives a table     *)
(* without handles and timers in which every resumed session has a         *)
(* goroutine of its own about to start it.                                 *)
LEMMA RestoreFromFacts ==
  ASSUME NEW file \in Seq(Snapshots), NEW L \in [Launches -> LaunchRec],
         \A l \in Launches : L[l].phase # "free" => L[l].owner \in Sessions,
         RestoreFrom(file, L)
  PROVE  /\ sess' \in [Sessions -> SessionRec]
         /\ order' \in Seq(Sessions)
         /\ launch' \in [Launches -> LaunchRec]
         /\ LaunchesOwned'
         /\ \A s \in Sessions : SessionOK(s)'
<1> DEFINE resumed == {file[i].id : i \in {j \in DOMAIN file :
                                             AutoResume /\ Interrupted(file[j].state)}}
           slots == {l \in Launches : L[l].phase = "free"}
           at(s) == CHOOSE i \in DOMAIN file : file[i].id = s
<1>1. /\ sess' = [s \in Sessions |-> IF s \in Ids(file) THEN Restored(file[at(s)]) ELSE NoSession]
      /\ order' = [i \in DOMAIN file |-> file[i].id]
  BY DEF RestoreFrom
<1>2. PICK slot \in [resumed -> slots] :
        /\ \A s, t \in resumed : slot[s] = slot[t] => s = t
        /\ launch' = [l \in Launches |->
                        IF \E s \in resumed : slot[s] = l
                        THEN At("calling", CHOOSE s \in resumed : slot[s] = l)
                        ELSE L[l]]
  BY DEF RestoreFrom
<1>3. \A i \in DOMAIN file : file[i] \in Snapshots /\ file[i].id \in Sessions
  <2>1. \A i \in DOMAIN file : file[i] \in Snapshots
    OBVIOUS
  <2>2. \A snap \in Snapshots : snap.id \in Sessions
    BY DEF Snapshots
  <2> QED
    BY <2>1, <2>2
<1>4. order' \in Seq(Sessions)
  BY <1>1, <1>3
<1>5. \A s \in Ids(file) : at(s) \in DOMAIN file /\ file[at(s)].id = s
  BY DEF Ids
<1>6. resumed \subseteq Sessions
  BY <1>3
<1>7. \A s \in Sessions \cap Ids(file) : Interrupted(file[at(s)].state) /\ AutoResume => s \in resumed
  BY <1>5
<1> HIDE DEF resumed, slots, at
<1>8. ASSUME NEW s \in Sessions
      PROVE  /\ sess'[s] \in SessionRec
             /\ sess'[s].cmd = None /\ sess'[s].timer = None
             /\ sess'[s].state \notin {"running", "starting", "stopping"}
             /\ sess'[s].state = "restarting" => s \in resumed
  <2>1. CASE s \in Ids(file)
    <3>1. sess'[s] = Restored(file[at(s)]) /\ file[at(s)] \in Snapshots
      BY <1>1, <1>3, <1>5, <2>1
    <3> QED
      BY <1>7, <2>1, <3>1, RestoredType
  <2>2. CASE s \notin Ids(file)
    BY <1>1, <2>2, NoSessionType DEF NoSession
  <2> QED
    BY <2>1, <2>2
<1>9. ASSUME NEW s \in resumed
      PROVE  slot[s] \in Launches /\ launch'[slot[s]].phase = "calling"
             /\ launch'[slot[s]].owner = s
  <2>1. slot[s] \in Launches
    BY DEF slots
  <2>2. (CHOOSE t \in resumed : slot[t] = slot[s]) = s
    BY <1>2
  <2>3. launch'[slot[s]] = At("calling", s)
    BY <1>2, <2>1, <2>2
  <2> QED
    BY <1>6, <2>1, <2>3, AtType DEF Phases
<1>10. /\ launch' \in [Launches -> LaunchRec]
       /\ \A l \in Launches : launch'[l].phase # "free" => launch'[l].owner \in Sessions
  <2>1. ASSUME NEW l \in Launches
        PROVE  /\ launch'[l] \in LaunchRec
               /\ launch'[l].phase # "free" => launch'[l].owner \in Sessions
    <3>1. CASE \E s \in resumed : slot[s] = l
      <4>1. PICK s \in Sessions : launch'[l] = At("calling", s)
        BY <1>2, <1>6, <3>1
      <4> QED
        BY <4>1, AtType DEF Phases
    <3>2. CASE ~\E s \in resumed : slot[s] = l
      BY <1>2, <3>2
    <3> QED
      BY <3>1, <3>2
  <2> QED
    BY <1>2, <2>1
<1>11. \A s \in Sessions : SessionOK(s)'
  BY <1>8, <1>9 DEF SessionOK
<1>12. sess' \in [Sessions -> SessionRec]
  BY <1>1, <1>8
<1> QED
  BY <1>4, <1>10, <1>11, <1>12 DEF LaunchesOwned

LEMMA RestoreReadsKeepsIInv ==
  ASSUME IInv, RestoreReads
  PROVE  IInv'
<1>1. PICK file \in {disk, << >>} : restoring' = [on |-> TRUE, file |-> file]
  BY DEF RestoreReads
<1>2. UNCHANGED <<sess, order, launch, disk, closing, crashes>>
  BY DEF RestoreReads
<1>3. TypeOK'
  <2>1. file \in Seq(Snapshots)
    BY EmptyFile DEF IInv, TypeOK
  <2>2. restoring' \in [on: BOOLEAN, file: Seq(Snapshots)]
    BY <1>1, <2>1, EmptyFile
  <2> QED
    BY <1>2, <2>2 DEF IInv, TypeOK
<1>4. LaunchesOwned' /\ \A s \in Sessions : SessionOK(s)'
  BY <1>2 DEF IInv, LaunchesOwned, SessionOK
<1> QED
  BY <1>3, <1>4 DEF IInv

LEMMA RestoreAppliesKeepsIInv ==
  ASSUME IInv, RestoreApplies
  PROVE  IInv'
<1>1. /\ restoring.file \in Seq(Snapshots) /\ launch \in [Launches -> LaunchRec]
      /\ \A l \in Launches : launch[l].phase # "free" => launch[l].owner \in Sessions
      /\ disk \in Seq(Snapshots) /\ closing \in BOOLEAN /\ crashes \in Nat
  BY DEF IInv, TypeOK, LaunchesOwned
<1>2. /\ RestoreFrom(restoring.file, launch) /\ restoring' = NotRestoring
      /\ UNCHANGED <<disk, closing, crashes>>
  BY DEF RestoreApplies
<1>3. restoring' \in [on: BOOLEAN, file: Seq(Snapshots)]
  BY <1>2, EmptyFile
<1> QED
  BY <1>1, <1>2, <1>3, RestoreFromFacts DEF IInv, TypeOK

LEMMA CrashKeepsIInv ==
  ASSUME IInv, Crash
  PROVE  IInv'
<1> DEFINE L == [l \in Launches |-> Survivor(launch[l])]
<1>1. PICK file \in {disk, << >>} : RestoreFrom(file, L) /\ disk' = file
  BY DEF Crash
<1>2. /\ L \in [Launches -> LaunchRec]
      /\ \A l \in Launches : L[l].phase # "free" => L[l].owner \in Sessions
  <2>1. ASSUME NEW l \in Launches
        PROVE  Survivor(launch[l]) \in LaunchRec
               /\ (Survivor(launch[l]).phase # "free" => Survivor(launch[l]).owner \in Sessions)
    <3>1. launch[l].phase # "free" => launch[l].owner \in Sessions
      BY DEF IInv, LaunchesOwned
    <3>2. CASE launch[l].phase \in {"spawned", "watched", "orphan"} /\ launch[l].dead = "no"
      BY <3>1, <3>2, AtType DEF Survivor, Phases
    <3>3. CASE ~(launch[l].phase \in {"spawned", "watched", "orphan"} /\ launch[l].dead = "no")
      BY <3>3, FreeType DEF Survivor, Free
    <3> QED
      BY <3>2, <3>3
  <2> QED
    BY <2>1
<1>3. file \in Seq(Snapshots)
  BY EmptyFile DEF IInv, TypeOK
<1> HIDE DEF L
<1>4. /\ restoring' \in [on: BOOLEAN, file: Seq(Snapshots)]
      /\ closing' \in BOOLEAN /\ crashes' \in Nat
  <2>1. restoring' = NotRestoring /\ closing' = FALSE /\ crashes' = crashes + 1
    BY DEF Crash
  <2>2. crashes \in Nat
    BY DEF IInv, TypeOK
  <2>3. restoring' \in [on: BOOLEAN, file: Seq(Snapshots)]
    BY <2>1, EmptyFile
  <2>4. closing' \in BOOLEAN
    BY <2>1
  <2>5. crashes' \in Nat
    BY <2>1, <2>2
  <2> QED
    BY <2>3, <2>4, <2>5
<1> QED
  BY <1>1, <1>2, <1>3, <1>4, RestoreFromFacts DEF IInv, TypeOK

-----------------------------------------------------------------------------
(* The inductive invariant and what follows from it.                       *)

LEMMA InitGivesIInv == Init => IInv
<1> SUFFICES ASSUME Init PROVE IInv
  OBVIOUS
<1>1. TypeOK
  BY NoSessionType, FreeType, EmptyFile DEF Init, TypeOK
<1>2. LaunchesOwned
  BY DEF Init, LaunchesOwned, Free
<1>3. ASSUME NEW s \in Sessions PROVE SessionOK(s)
  BY <1>3 DEF Init, SessionOK, NoSession
<1> QED
  BY <1>1, <1>2, <1>3 DEF IInv

LEMMA NextKeepsIInv == IInv /\ [Next]_vars => IInv'
<1> SUFFICES ASSUME IInv, [Next]_vars PROVE IInv'
  OBVIOUS
<1>1. ASSUME NEW s \in Sessions, ClientStep(s) PROVE IInv'
  BY <1>1, CreateKeepsIInv, StartSessionKeepsIInv, StopSessionKeepsIInv,
     RestartSessionKeepsIInv DEF ClientStep
<1>2. ASSUME NEW l \in Launches, LaunchStep(l) PROVE IInv'
  BY <1>2, CallStartKeepsIInv, SpawnKeepsIInv, LaunchFailsKeepsIInv, RegisterKeepsIInv,
     ProcessExitsKeepsIInv, HandleExitKeepsIInv, TimerFiresKeepsIInv DEF LaunchStep
<1>3. CASE Shutdown \/ RestoreReads \/ RestoreApplies \/ Crash
  BY <1>3, ShutdownKeepsIInv, RestoreReadsKeepsIInv, RestoreAppliesKeepsIInv, CrashKeepsIInv
<1>4. CASE UNCHANGED vars
  BY <1>4 DEF vars, IInv, TypeOK, LaunchesOwned, SessionOK
<1> QED
  BY <1>1, <1>2, <1>3, <1>4 DEF Next

LEMMA Invariance == Spec => []IInv
  BY InitGivesIInv, NextKeepsIInv, PTL DEF Spec

(* Every variable keeps its type in every behaviour of the manager, with   *)
(* any clients, crashes and live restores.                                 *)
THEOREM TypeCorrect == Spec => []TypeOK
<1>1. IInv => TypeOK
  BY DEF IInv
<1> QED
  BY <1>1, Invariance, PTL

(* For any number of sessions and launches: a handle in the table is that  *)
(* of a process of the same session whose exit is still to be processed,   *)
(* and a session shown running or stopping has one.                        *)
THEOREM HandlesWatched == Spec => []HandleIsWatched
<1>1. IInv => HandleIsWatched
  BY DEF IInv, SessionOK, HandleIsWatched
<1> QED
  BY <1>1, Invariance, PTL

(* For any number of sessions and launches: until Shutdown, no session is  *)
(* starting, stopping or restarting with nothing left to move it on.       *)
THEOREM DriversPresent == Spec => []TransientHasDriver
<1>1. IInv => TransientHasDriver
  <2> SUFFICES ASSUME IInv, NEW s \in Sessions
               PROVE  /\ sess[s].state = "starting" => Has(s, {"launching", "spawned"})
                      /\ sess[s].state = "stopping" => Has(s, {"watched"})
                      /\ sess[s].state = "restarting" /\ ~closing
                           => Has(s, {"timer", "calling", "watched"})
    BY DEF TransientHasDriver
  <2> QED
    BY Here DEF SessionOK
<1> QED
  BY <1>1, Invariance, PTL

-----------------------------------------------------------------------------
(* The restart budget and the persistence file.                            *)

(* What a step other than a restore does to the budget of s: nothing, one  *)
(* restart that was left, or a new budget for a new session.               *)
Spends(s) ==
  \/ sess'[s].restarts = sess[s].restarts /\ sess'[s].max = sess[s].max
  \/ /\ sess[s].restarts < sess[s].max
     /\ sess'[s].restarts = sess[s].restarts + 1 /\ sess'[s].max = sess[s].max
  \/ ~Present(s) /\ sess'[s].restarts = 0 /\ sess'[s].max \in Nat

(* A step other than a restore: no session disappears, a new one is the    *)
(* newest, and whatever the file is about is written to it.                *)
Orderly ==
  /\ \A s \in Sessions : Spends(s) /\ (Present(s) => Present(s)')
  /\ \/ order' = order
     \/ \E s \in Sessions : ~Present(s) /\ Present(s)' /\ order' = Append(order, s)
  /\ \/ Persist
     \/ /\ disk' = disk /\ order' = order
        /\ \A s \in Sessions : /\ sess'[s].state = sess[s].state
                               /\ sess'[s].restarts = sess[s].restarts
                               /\ sess'[s].max = sess[s].max

(* A step that replaces the record of one session that exists by one that  *)
(* exists too, and writes the file.                                        *)
LEMMA Rewrites ==
  ASSUME IInv, NEW s \in Sessions, NEW r \in SessionRec, sess' = [sess EXCEPT ![s] = r],
         Present(s), r.state # "absent", r.max = sess[s].max,
         \/ r.restarts = sess[s].restarts
         \/ sess[s].restarts < sess[s].max /\ r.restarts = sess[s].restarts + 1,
         UNCHANGED order, Persist
  PROVE  Orderly
<1>1. \A t \in Sessions : sess'[t] = IF t = s THEN r ELSE sess[t]
  BY DEF IInv, TypeOK
<1> QED
  BY <1>1 DEF Orderly, Spends

(* A step that leaves the table and the file alone.                        *)
LEMMA Idles ==
  ASSUME UNCHANGED <<sess, order, disk>>
  PROVE  Orderly
BY DEF Orderly, Spends

LEMMA StartLockedIsOrderly ==
  ASSUME IInv, NEW s \in Sessions, NEW l \in Launches, sess[s].state # "absent", StartLocked(s, l)
  PROVE  Orderly
<1> DEFINE r == [sess[s] EXCEPT !.state = "starting", !.manual = FALSE,
                                !.again = FALSE, !.timer = None]
<1>1. /\ r \in SessionRec /\ r.state = "starting" /\ r.max = sess[s].max
      /\ r.restarts = sess[s].restarts
  BY Here DEF SessionRec, States, Transient
<1>2. sess' = [sess EXCEPT ![s] = r] /\ UNCHANGED order /\ Persist
  BY Here DEF StartLocked
<1> HIDE DEF r
<1> QED
  BY <1>1, <1>2, Rewrites

LEMMA ClientIsOrderly ==
  ASSUME IInv, NEW s \in Sessions, ClientStep(s)
  PROVE  Orderly
<1>1. ASSUME NEW d \in Dirs, NEW isolate \in BOOLEAN, NEW gitOk \in BOOLEAN,
             NEW max \in RestartLimits, Create(s, d, isolate, gitOk, max)
      PROVE  Orderly
  <2>1. /\ ~Present(s) /\ order' = Append(order, s) /\ Persist
        /\ sess'[s].state = "created" /\ sess'[s].restarts = 0 /\ sess'[s].max = max
        /\ \A t \in Sessions \ {s} : sess'[t] = sess[t]
    BY <1>1, Here DEF Create, NoSession
  <2>2. max \in Nat
    BY LimitsAreNat
  <2> QED
    BY <2>1, <2>2 DEF Orderly, Spends
<1>2. CASE StartSession(s)
  BY <1>2, StartLockedIsOrderly DEF StartSession, StartRefused
<1>3. CASE StopSession(s)
  <2> DEFINE off == [sess[s] EXCEPT !.manual = TRUE, !.again = FALSE, !.timer = None]
             r(state) == [off EXCEPT !.state = state]
  <2>1. \A state \in {"stopped", "stopping"} :
          /\ r(state) \in SessionRec /\ r(state).state = state
          /\ r(state).max = sess[s].max /\ r(state).restarts = sess[s].restarts
    BY Here DEF SessionRec, States, Settled, Transient
  <2>2. PICK state \in {"stopped", "stopping"} : sess' = [sess EXCEPT ![s] = r(state)]
    BY <1>3 DEF StopSession
  <2>3. Present(s) /\ UNCHANGED order /\ Persist
    BY <1>3 DEF StopSession
  <2> HIDE DEF r
  <2> QED
    BY <2>1, <2>2, <2>3, Rewrites
<1>4. CASE RestartSession(s)
  <2> DEFINE quick == [sess[s] EXCEPT !.state = "restarting"]
             slow == [sess[s] EXCEPT !.state = "restarting", !.manual = TRUE, !.again = TRUE]
  <2>1. \A r \in {quick, slow} :
          /\ r \in SessionRec /\ r.state = "restarting"
          /\ r.max = sess[s].max /\ r.restarts = sess[s].restarts
    BY Here DEF SessionRec, States, Transient
  <2>2. PICK r \in {quick, slow} : sess' = [sess EXCEPT ![s] = r]
    BY <1>4 DEF RestartSession
  <2>3. Present(s) /\ UNCHANGED order /\ Persist
    BY <1>4 DEF RestartSession
  <2> HIDE DEF quick, slow
  <2> QED
    BY <2>1, <2>2, <2>3, Rewrites
<1> QED
  BY <1>1, <1>2, <1>3, <1>4 DEF ClientStep

(* waitForExit: what becomes of the record.  A restart is counted only     *)
(* when one is left, and an error is declared only when none is.           *)
LEMMA ExitFacts ==
  ASSUME IInv, NEW l \in Launches, NEW s \in Sessions, launch[l].owner = s, HandleExit(l), Present(s)
  PROVE  /\ UNCHANGED order /\ Persist
         /\ \E r \in SessionRec :
              /\ sess' = [sess EXCEPT ![s] = r]
              /\ r.max = sess[s].max /\ r.state \in {"restarting", "stopped", "error"}
              /\ \/ r.restarts = sess[s].restarts /\ (r.state = "error" => ~BudgetLeft(s))
                 \/ /\ BudgetLeft(s) /\ r.restarts = sess[s].restarts + 1
                    /\ r.state = "restarting"
<1> DEFINE ended == [sess[s] EXCEPT !.cmd = None]
           calm == [ended EXCEPT !.again = FALSE, !.manual = FALSE]
           again == [calm EXCEPT !.state = "restarting", !.timer = l]
           counted == [ended EXCEPT !.restarts = @ + 1]
           retried == [counted EXCEPT !.state = "restarting", !.timer = l]
           stopped == [calm EXCEPT !.state = "stopped"]
           over(state) == [ended EXCEPT !.state = state]
<1>1. UNCHANGED order /\ Persist
  BY DEF HandleExit
<1>2. \/ sess' = [sess EXCEPT ![s] = again] \/ sess' = [sess EXCEPT ![s] = stopped]
      \/ sess' = [sess EXCEPT ![s] = over("stopped")]
      \/ ~BudgetLeft(s) /\ sess' = [sess EXCEPT ![s] = over("error")]
      \/ BudgetLeft(s) /\ sess' = [sess EXCEPT ![s] = retried]
  BY DEF HandleExit, ScheduleRestart, EndWith, Counted
<1>3. ended \in SessionRec /\ ended.max = sess[s].max /\ ended.restarts = sess[s].restarts
  BY Here DEF SessionRec
<1> HIDE DEF ended
<1>4. calm \in SessionRec /\ calm.max = sess[s].max /\ calm.restarts = sess[s].restarts
  BY <1>3 DEF SessionRec
<1> HIDE DEF calm
<1>5. counted \in SessionRec /\ counted.max = sess[s].max /\ counted.restarts = sess[s].restarts + 1
  BY <1>3 DEF SessionRec
<1> HIDE DEF counted
<1>6. /\ retried \in SessionRec /\ retried.state = "restarting"
      /\ retried.max = sess[s].max /\ retried.restarts = sess[s].restarts + 1
  BY <1>5 DEF SessionRec, States, Transient
<1>7. /\ again \in SessionRec /\ again.state = "restarting"
      /\ again.max = sess[s].max /\ again.restarts = sess[s].restarts
  BY <1>4 DEF SessionRec, States, Transient
<1>8. /\ stopped \in SessionRec /\ stopped.state = "stopped"
      /\ stopped.max = sess[s].max /\ stopped.restarts = sess[s].restarts
  BY <1>4 DEF SessionRec, States, Settled
<1>9. \A state \in {"error", "stopped"} :
        /\ over(state) \in SessionRec /\ over(state).state = state
        /\ over(state).max = sess[s].max /\ over(state).restarts = sess[s].restarts
  BY <1>3 DEF SessionRec, States, Settled
<1> HIDE DEF again, retried, stopped, over
<1> QED
  BY <1>1, <1>2, <1>6, <1>7, <1>8, <1>9

LEMMA HandleExitIsOrderly ==
  ASSUME IInv, NEW l \in Launches, NEW s \in Sessions, launch[l].owner = s, HandleExit(l)
  PROVE  Orderly
<1>1. CASE ~Present(s)
  <2>1. UNCHANGED <<sess, order, disk>>
    BY <1>1 DEF HandleExit
  <2> QED
    BY <2>1, Idles
<1>2. CASE Present(s)
  BY <1>2, ExitFacts, Rewrites DEF BudgetLeft
<1> QED
  BY <1>1, <1>2

LEMMA LaunchIsOrderly ==
  ASSUME IInv, NEW l \in Launches, LaunchStep(l)
  PROVE  Orderly
<1>1. PICK s \in Sessions : launch[l].owner = s
  <2>1. launch[l].phase # "free"
    BY DEF LaunchStep, CallStart, Spawn, LaunchFails, Register, ProcessExits, HandleExit,
           TimerFires
  <2> QED
    BY <2>1 DEF IInv, LaunchesOwned
<1>2. CASE CallStart(l)
  <2>1. CASE StartRefused(s)
    BY <1>1, <1>2, <2>1, Idles DEF CallStart
  <2>2. CASE ~StartRefused(s)
    BY <1>1, <1>2, <2>2, StartLockedIsOrderly DEF CallStart, StartRefused
  <2> QED
    BY <2>1, <2>2
<1>3. CASE Spawn(l) \/ ProcessExits(l)
  BY <1>3, Idles DEF Spawn, ProcessExits
<1>4. CASE LaunchFails(l) \/ Register(l)
  <2>1. CASE ~Present(s)
    BY <1>1, <1>4, <2>1, Idles DEF LaunchFails, Register
  <2>2. CASE Present(s)
    <3> DEFINE failed == [sess[s] EXCEPT !.cmd = None, !.state = "error"]
               up == [sess[s] EXCEPT !.cmd = l, !.state = "running"]
    <3>4. sess[s] \in SessionRec
      BY Here
    <3>5. /\ failed \in SessionRec /\ failed.state # "absent"
          /\ failed.max = sess[s].max /\ failed.restarts = sess[s].restarts
      BY <3>4 DEF SessionRec, States, Settled
    <3>6. /\ up \in SessionRec /\ up.state # "absent"
          /\ up.max = sess[s].max /\ up.restarts = sess[s].restarts
      BY <3>4 DEF SessionRec, States, Settled
    <3>1. \A r \in {failed, up} : /\ r \in SessionRec /\ r.state # "absent"
                                  /\ r.max = sess[s].max /\ r.restarts = sess[s].restarts
      BY <3>5, <3>6
    <3>2. UNCHANGED order /\ Persist
      BY <1>1, <1>4, <2>2 DEF LaunchFails, Register
    <3>3. PICK r \in {failed, up} : sess' = [sess EXCEPT ![s] = r]
      BY <1>1, <1>4, <2>2 DEF LaunchFails, Register
    <3> HIDE DEF failed, up
    <3> QED
      BY <2>2, <3>1, <3>2, <3>3, Rewrites
  <2> QED
    BY <2>1, <2>2
<1>5. CASE HandleExit(l)
  BY <1>1, <1>5, HandleExitIsOrderly
<1>6. CASE TimerFires(l)
  <2>1. /\ UNCHANGED <<order, disk>>
        /\ \A t \in Sessions : /\ sess'[t].state = sess[t].state
                               /\ sess'[t].restarts = sess[t].restarts
                               /\ sess'[t].max = sess[t].max
    BY <1>1, <1>6, Here DEF TimerFires, SessionRec
  <2> QED
    BY <2>1 DEF Orderly, Spends
<1> QED
  BY <1>2, <1>3, <1>4, <1>5, <1>6 DEF LaunchStep

LEMMA OthersAreOrderly ==
  ASSUME IInv, Shutdown \/ RestoreReads \/ UNCHANGED vars
  PROVE  Orderly
<1>1. CASE Shutdown
  <2>1. /\ UNCHANGED order /\ Persist
        /\ \A s \in Sessions : /\ sess'[s].state = sess[s].state
                               /\ sess'[s].restarts = sess[s].restarts
                               /\ sess'[s].max = sess[s].max
    BY <1>1, Here DEF Shutdown, SessionRec
  <2> QED
    BY <2>1 DEF Orderly, Spends
<1>2. CASE RestoreReads \/ UNCHANGED vars
  BY <1>2, Idles DEF RestoreReads, vars
<1> QED
  BY <1>1, <1>2

(* The file that is written holds what the table holds of its sessions,    *)
(* and those are the newest.                                               *)
LEMMA FileFacts ==
  ASSUME NEW ss, NEW ord \in Seq(Sessions)
  PROVE  /\ DOMAIN File(ss, ord) = DOMAIN Newest(ord)
         /\ \A i \in DOMAIN File(ss, ord) :
              LET s == Newest(ord)[i]
              IN  /\ s \in Sessions
                  /\ File(ss, ord)[i].id = s
                  /\ File(ss, ord)[i].state = ss[s].state
                  /\ File(ss, ord)[i].restarts = ss[s].restarts
                  /\ File(ss, ord)[i].max = ss[s].max
<1>1. Newest(ord) \in Seq(Sessions)
  BY BoundsAreNat DEF Newest
<1> QED
  BY <1>1 DEF File, Snapshot

(* A restore gives a session the budget its snapshot has, and none to the  *)
(* others.                                                                 *)
LEMMA RestoreBudget ==
  ASSUME NEW file \in Seq(Snapshots), NEW L, RestoreFrom(file, L), NEW s \in Sessions
  PROVE  \/ \E i \in DOMAIN file : /\ file[i].id = s
                                   /\ sess'[s].state = Normalize(file[i].state)
                                   /\ sess'[s].restarts = file[i].restarts
                                   /\ sess'[s].max = file[i].max
         \/ /\ s \notin Ids(file)
            /\ sess'[s].state = "absent" /\ sess'[s].restarts = 0 /\ sess'[s].max = 0
<1> DEFINE at == CHOOSE i \in DOMAIN file : file[i].id = s
<1>1. sess'[s] = IF s \in Ids(file) THEN Restored(file[at]) ELSE NoSession
  BY DEF RestoreFrom
<1>2. CASE s \in Ids(file)
  <2>1. at \in DOMAIN file /\ file[at].id = s
    BY <1>2 DEF Ids
  <2> HIDE DEF at
  <2>2. sess'[s] = Restored(file[at])
    BY <1>1, <1>2
  <2> QED
    BY <2>1, <2>2 DEF Restored, NoSession
<1>3. CASE s \notin Ids(file)
  BY <1>1, <1>3 DEF NoSession
<1> QED
  BY <1>2, <1>3

Thrifty(file) == \A i \in DOMAIN file : file[i].restarts <= file[i].max

(* The budget holds in the table, in the file, and in the file a restore   *)
(* has read, which it is about to put in place of the table.               *)
BudgetInv == WithinBudget /\ Thrifty(disk) /\ Thrifty(restoring.file)

LEMMA EmptyIsThrifty == Thrifty(<< >>)
  BY DEF Thrifty

LEMMA OrderlyKeepsBudget ==
  ASSUME IInv, IInv', BudgetInv, Orderly
  PROVE  WithinBudget' /\ Thrifty(disk)'
<1>1. ASSUME NEW s \in Sessions PROVE sess'[s].restarts <= sess'[s].max
  <2>1. /\ sess[s].restarts \in Nat /\ sess[s].max \in Nat
        /\ sess[s].restarts <= sess[s].max
    BY DEF IInv, TypeOK, SessionRec, BudgetInv, WithinBudget
  <2> QED
    BY <2>1 DEF Orderly, Spends
<1>2. Thrifty(disk)'
  <2>1. CASE Persist
    <3>1. order' \in Seq(Sessions) /\ disk' = File(sess', order')
      BY <2>1 DEF IInv, TypeOK, Persist
    <3> QED
      BY <1>1, <3>1, FileFacts DEF Thrifty
  <2>2. CASE disk' = disk
    BY <2>2 DEF BudgetInv, Thrifty
  <2> QED
    BY <2>1, <2>2 DEF Orderly
<1> QED
  BY <1>1, <1>2 DEF WithinBudget

LEMMA RestoreKeepsBudget ==
  ASSUME NEW file \in Seq(Snapshots), Thrifty(file), NEW L, RestoreFrom(file, L)
  PROVE  WithinBudget'
<1>1. ASSUME NEW s \in Sessions PROVE sess'[s].restarts <= sess'[s].max
  BY RestoreBudget DEF Thrifty
<1> QED
  BY <1>1 DEF WithinBudget

LEMMA NextKeepsBudget == IInv /\ IInv' /\ BudgetInv /\ [Next]_vars => BudgetInv'
<1> SUFFICES ASSUME IInv, IInv', BudgetInv, [Next]_vars PROVE BudgetInv'
  OBVIOUS
<1>1. disk \in Seq(Snapshots) /\ restoring.file \in Seq(Snapshots)
  BY DEF IInv, TypeOK
<1>2. ASSUME NEW s \in Sessions, ClientStep(s) PROVE BudgetInv'
  <2>1. restoring' = restoring
    BY <1>2 DEF ClientStep, Create, StartSession, StopSession, RestartSession
  <2> QED
    BY <1>2, <2>1, ClientIsOrderly, OrderlyKeepsBudget DEF BudgetInv, Thrifty
<1>3. ASSUME NEW l \in Launches, LaunchStep(l) PROVE BudgetInv'
  <2>1. restoring' = restoring
    BY <1>3 DEF LaunchStep, CallStart, Spawn, LaunchFails, Register, ProcessExits, HandleExit,
                TimerFires
  <2> QED
    BY <1>3, <2>1, LaunchIsOrderly, OrderlyKeepsBudget DEF BudgetInv, Thrifty
<1>4. CASE Shutdown \/ UNCHANGED vars
  <2>1. restoring' = restoring
    BY <1>4 DEF Shutdown, vars
  <2> QED
    BY <1>4, <2>1, OthersAreOrderly, OrderlyKeepsBudget DEF BudgetInv, Thrifty
<1>5. CASE RestoreReads
  <2>1. \E file \in {disk, << >>} : restoring'.file = file
    BY <1>5 DEF RestoreReads
  <2>2. Thrifty(restoring'.file)
    BY <2>1, EmptyIsThrifty DEF BudgetInv
  <2> QED
    BY <1>5, <2>2, OthersAreOrderly, OrderlyKeepsBudget DEF BudgetInv, Thrifty
<1>6. CASE RestoreApplies
  <2>1. WithinBudget'
    BY <1>1, <1>6, RestoreKeepsBudget DEF BudgetInv, RestoreApplies
  <2>2. disk' = disk /\ restoring'.file = << >>
    BY <1>6 DEF RestoreApplies, NotRestoring
  <2> QED
    BY <2>1, <2>2 DEF BudgetInv, Thrifty
<1>7. CASE Crash
  <2>1. PICK file \in {disk, << >>} :
          /\ RestoreFrom(file, [l \in Launches |-> Survivor(launch[l])]) /\ disk' = file
    BY <1>7 DEF Crash
  <2>2. file \in Seq(Snapshots) /\ Thrifty(file)
    BY <1>1, EmptyFile, EmptyIsThrifty DEF BudgetInv
  <2>3. restoring'.file = << >>
    BY <1>7 DEF Crash, NotRestoring
  <2> QED
    BY <2>1, <2>2, <2>3, RestoreKeepsBudget DEF BudgetInv, Thrifty
<1> QED
  BY <1>2, <1>3, <1>4, <1>5, <1>6, <1>7 DEF Next

(* However many processes of a session end late, and whatever the sidecar  *)
(* restores, no session is restarted more often than its limit allows.     *)
THEOREM BudgetNeverExceeded == Spec => []WithinBudget
<1>1. Init => BudgetInv
  BY DEF Init, BudgetInv, WithinBudget, Thrifty, NoSession, NotRestoring
<1>2. BudgetInv => WithinBudget
  BY DEF BudgetInv
<1> QED
  BY <1>1, <1>2, Invariance, NextKeepsBudget, PTL DEF Spec

-----------------------------------------------------------------------------
(* The file when nobody restores a live manager.                           *)

(* The table and the file tell the same: the ids of the table are listed   *)
(* once, the file lists the newest of them, with their budgets and states  *)
(* that restore alike.                                                     *)
Listed ==
  /\ \A i, j \in DOMAIN order : order[i] = order[j] => i = j
  /\ \A i \in DOMAIN order : Present(order[i])

Mirrored ==
  /\ DOMAIN disk = DOMAIN Newest(order)
  /\ \A i \in DOMAIN disk :
       LET s == Newest(order)[i]
       IN  /\ s \in Sessions /\ disk[i].id = s
           /\ disk[i].restarts = sess[s].restarts /\ disk[i].max = sess[s].max
           /\ Normalize(disk[i].state) = Normalize(sess[s].state)

FileInv == ~restoring.on /\ Listed /\ Mirrored

(* The newest sessions, by their place in the order.                       *)
LEMMA NewestFacts ==
  ASSUME NEW seq \in Seq(Sessions)
  PROVE  LET n == Len(seq)
             k == IF n > MaxPersisted THEN n - MaxPersisted ELSE 0
         IN  /\ k \in 0..n /\ n - k <= MaxPersisted
             /\ Newest(seq) \in Seq(Sessions) /\ DOMAIN Newest(seq) = 1..(n - k)
             /\ \A i \in 1..(n - k) : Newest(seq)[i] = seq[i + k]
<1>1. MaxPersisted \in Nat \ {0}
  BY BoundsAreNat
<1>2. Len(seq) \in Nat /\ \A i \in 1..Len(seq) : seq[i] \in Sessions
  OBVIOUS
<1>3. CASE Len(seq) > MaxPersisted
  <2> DEFINE n == Len(seq)
             k == n - MaxPersisted
  <2>1. Newest(seq) = SubSeq(seq, k + 1, n)
    BY <1>3 DEF Newest
  <2>2. /\ n \in Nat /\ k \in Nat /\ k + 1 \in Nat /\ k + 1 <= n
        /\ n - k = MaxPersisted /\ n - (k + 1) + 1 = n - k
    BY <1>1, <1>2, <1>3
  <2> HIDE DEF k
  <2>3. SubSeq(seq, k + 1, n) \in Seq(Sessions)
    BY <2>2
  <2>4. Len(SubSeq(seq, k + 1, n)) = n - k
    BY <2>2
  <2>5. \A i \in 1..(n - k) : SubSeq(seq, k + 1, n)[i] = seq[i + k]
    BY <2>2
  <2> QED
    BY <1>3, <2>1, <2>2, <2>3, <2>4, <2>5 DEF k
<1>4. CASE ~(Len(seq) > MaxPersisted)
  <2>1. Newest(seq) = SubSeq(seq, 1, Len(seq))
    BY <1>4 DEF Newest
  <2> QED
    BY <1>1, <1>2, <1>4, <2>1
<1> QED
  BY <1>3, <1>4

(* A short order is kept whole.                                            *)
LEMMA ShortFacts ==
  ASSUME NEW seq \in Seq(Sessions), Len(seq) <= MaxPersisted
  PROVE  DOMAIN Newest(seq) = DOMAIN seq /\ \A i \in DOMAIN seq : Newest(seq)[i] = seq[i]
<1>1. Len(seq) \in Nat /\ MaxPersisted \in Nat
  BY BoundsAreNat
<1>2. ~(Len(seq) > MaxPersisted)
  BY <1>1
<1>3. Newest(seq) = SubSeq(seq, 1, Len(seq))
  BY <1>2 DEF Newest
<1> QED
  BY <1>1, <1>3

LEMMA OrderlyKeepsListed ==
  ASSUME IInv, Listed, Orderly
  PROVE  Listed'
<1>1. order \in Seq(Sessions) /\ \A s \in Sessions : Present(s) => Present(s)'
  BY DEF IInv, TypeOK, Orderly
<1>2. \A i \in DOMAIN order : order[i] \in Sessions /\ sess'[order[i]].state # "absent"
  BY <1>1 DEF Listed
<1>3. CASE order' = order
  BY <1>2, <1>3 DEF Listed
<1>4. CASE order' # order
  <2>1. PICK s \in Sessions : ~Present(s) /\ Present(s)' /\ order' = Append(order, s)
    BY <1>4 DEF Orderly
  <2>2. /\ DOMAIN order' = 1..(Len(order) + 1) /\ Len(order) \in Nat
        /\ \A i \in DOMAIN order : order'[i] = order[i]
        /\ order'[Len(order) + 1] = s
    BY <1>1, <2>1
  <2>3. \A i \in DOMAIN order : order[i] # s
    BY <2>1 DEF Listed
  <2>4. DOMAIN order = 1..Len(order)
    BY <1>1
  <2>5. \A i \in DOMAIN order' : i \in DOMAIN order \/ i = Len(order) + 1
    BY <2>2, <2>4
  <2>6. \A i, j \in DOMAIN order' : order'[i] = order'[j] => i = j
    BY <2>2, <2>3, <2>5 DEF Listed
  <2>7. \A i \in DOMAIN order' : sess'[order'[i]].state # "absent"
    BY <1>2, <2>1, <2>2, <2>5
  <2> QED
    BY <2>6, <2>7 DEF Listed
<1> QED
  BY <1>3, <1>4

LEMMA OrderlyKeepsMirrored ==
  ASSUME IInv, IInv', Mirrored, Orderly
  PROVE  Mirrored'
<1>1. CASE Persist
  <2>1. order' \in Seq(Sessions) /\ disk' = File(sess', order')
    BY <1>1 DEF IInv, TypeOK, Persist
  <2> QED
    BY <2>1, FileFacts DEF Mirrored
<1>2. CASE ~Persist
  <2>1. /\ disk' = disk /\ order' = order
        /\ \A s \in Sessions : /\ sess'[s].state = sess[s].state
                               /\ sess'[s].restarts = sess[s].restarts
                               /\ sess'[s].max = sess[s].max
    BY <1>2 DEF Orderly
  <2> QED
    BY <2>1 DEF Mirrored
<1> QED
  BY <1>1, <1>2

(* Normalizing is final, and makes nothing of nothing.                     *)
LEMMA NormalizeFacts ==
  ASSUME NEW a \in States, NEW b \in States
  PROVE  /\ Normalize(Normalize(a)) = Normalize(a)
         /\ Normalize(a) = "absent" <=> a = "absent"
  BY DEF Normalize, Interrupted, States, Transient, Settled

(* A sidecar that starts on the file a crashed one left has a table that   *)
(* agrees with it.                                                         *)
LEMMA CrashKeepsFileInv ==
  ASSUME IInv, IInv', FileInv, Crash
  PROVE  FileInv'
<1>1. PICK file \in {disk, << >>} :
        RestoreFrom(file, [l \in Launches |-> Survivor(launch[l])]) /\ disk' = file
  BY DEF Crash
<1>2. order' = [i \in DOMAIN file |-> file[i].id] /\ order' \in Seq(Sessions)
  BY <1>1 DEF RestoreFrom, IInv, TypeOK
<1>3. ~restoring'.on
  BY DEF Crash, NotRestoring
<1>4. /\ order \in Seq(Sessions) /\ file \in Seq(Snapshots)
      /\ \A i \in DOMAIN file : file[i].state \in States
  <2>1. file \in Seq(Snapshots)
    BY EmptyFile DEF IInv, TypeOK
  <2>2. \A i \in DOMAIN file : file[i] \in Snapshots
    BY <2>1
  <2>3. \A i \in DOMAIN file : file[i].state \in States
    BY <2>2 DEF Snapshots
  <2> QED
    BY <2>1, <2>3 DEF IInv, TypeOK
<1>5. /\ Len(file) <= MaxPersisted
      /\ \A i, j \in DOMAIN file : file[i].id = file[j].id => i = j
      /\ \A i \in DOMAIN file : file[i].id \in Sessions /\ file[i].state # "absent"
  <2>1. CASE file = << >>
    BY <2>1, BoundsAreNat
  <2>2. CASE file = disk
    <3> DEFINE n == Len(order)
               k == IF n > MaxPersisted THEN n - MaxPersisted ELSE 0
    <3>1. /\ k \in 0..n /\ n - k <= MaxPersisted /\ n \in Nat
          /\ DOMAIN disk = 1..(n - k)
          /\ \A i \in 1..(n - k) : Newest(order)[i] = order[i + k] /\ i + k \in DOMAIN order
      BY <1>4, NewestFacts DEF FileInv, Mirrored
    <3> HIDE DEF n, k
    <3>2. \A i \in DOMAIN disk : i + k \in DOMAIN order /\ disk[i].id = order[i + k]
      BY <3>1 DEF FileInv, Mirrored
    <3>3. \A i, j \in DOMAIN disk : disk[i].id = disk[j].id => i = j
      <4> SUFFICES ASSUME NEW i \in DOMAIN disk, NEW j \in DOMAIN disk, disk[i].id = disk[j].id
                   PROVE  i = j
        OBVIOUS
      <4>1. i + k = j + k
        BY <3>2 DEF FileInv, Listed
      <4> QED
        BY <3>1, <4>1
    <3>4. ASSUME NEW i \in DOMAIN disk
          PROVE  disk[i].id \in Sessions /\ disk[i].state # "absent"
      <4>1. /\ disk[i].id \in Sessions /\ disk[i].id = Newest(order)[i]
            /\ Normalize(disk[i].state) = Normalize(sess[disk[i].id].state)
        BY DEF FileInv, Mirrored
      <4>2. sess[disk[i].id].state # "absent"
        BY <3>2 DEF FileInv, Listed
      <4>3. disk[i].state \in States /\ sess[disk[i].id].state \in States
        BY <1>4, <2>2, <4>1, Here DEF SessionRec
      <4> QED
        BY <4>1, <4>2, <4>3, NormalizeFacts
    <3>5. Len(disk) <= MaxPersisted
      <4>1. Len(disk) \in Nat /\ DOMAIN disk = 1..Len(disk)
        BY DEF IInv, TypeOK
      <4>2. Len(disk) = n - k
        BY <3>1, <4>1
      <4> QED
        BY <3>1, <4>2
    <3> QED
      BY <2>2, <3>3, <3>4, <3>5
  <2> QED
    BY <2>1, <2>2
<1>6. DOMAIN order' = DOMAIN file /\ Len(order') = Len(file)
      /\ \A i \in DOMAIN file : order'[i] = file[i].id
  BY <1>2, <1>4
<1>7. ASSUME NEW i \in DOMAIN file
      PROVE  /\ sess'[file[i].id].state = Normalize(file[i].state)
             /\ sess'[file[i].id].restarts = file[i].restarts
             /\ sess'[file[i].id].max = file[i].max
  <2>1. \/ \E j \in DOMAIN file : /\ file[j].id = file[i].id
                                  /\ sess'[file[i].id].state = Normalize(file[j].state)
                                  /\ sess'[file[i].id].restarts = file[j].restarts
                                  /\ sess'[file[i].id].max = file[j].max
        \/ file[i].id \notin Ids(file)
    BY <1>1, <1>4, <1>5, RestoreBudget
  <2>2. file[i].id \in Ids(file)
    BY DEF Ids
  <2> QED
    BY <1>5, <2>1, <2>2
<1>8. Listed'
  <2>1. \A i \in DOMAIN file : sess'[file[i].id].state # "absent"
    BY <1>4, <1>5, <1>7, NormalizeFacts
  <2> QED
    BY <1>5, <1>6, <2>1 DEF Listed
<1>9. Mirrored'
  <2>1. DOMAIN Newest(order') = DOMAIN file /\ \A i \in DOMAIN file : Newest(order')[i] = order'[i]
    BY <1>2, <1>5, <1>6, ShortFacts
  <2> QED
    BY <1>1, <1>4, <1>5, <1>6, <1>7, <2>1, NormalizeFacts DEF Mirrored
<1> QED
  BY <1>3, <1>8, <1>9 DEF FileInv

LEMMA NextKeepsFileInv ==
  ASSUME ~LiveRestore
  PROVE  IInv /\ IInv' /\ FileInv /\ [Next]_vars => FileInv'
<1> SUFFICES ASSUME IInv, IInv', FileInv, [Next]_vars PROVE FileInv'
  OBVIOUS
<1>1. ASSUME Orderly, restoring' = restoring PROVE FileInv'
  BY <1>1, OrderlyKeepsListed, OrderlyKeepsMirrored DEF FileInv
<1>2. ASSUME NEW s \in Sessions, ClientStep(s) PROVE FileInv'
  <2>1. restoring' = restoring
    BY <1>2 DEF ClientStep, Create, StartSession, StopSession, RestartSession
  <2> QED
    BY <1>1, <1>2, <2>1, ClientIsOrderly
<1>3. ASSUME NEW l \in Launches, LaunchStep(l) PROVE FileInv'
  <2>1. restoring' = restoring
    BY <1>3 DEF LaunchStep, CallStart, Spawn, LaunchFails, Register, ProcessExits, HandleExit,
                TimerFires
  <2> QED
    BY <1>1, <1>3, <2>1, LaunchIsOrderly
<1>4. CASE Shutdown \/ UNCHANGED vars
  <2>1. restoring' = restoring
    BY <1>4 DEF Shutdown, vars
  <2> QED
    BY <1>1, <1>4, <2>1, OthersAreOrderly
<1>5. CASE RestoreReads \/ RestoreApplies
  BY <1>5 DEF RestoreReads, RestoreApplies, FileInv
<1>6. CASE Crash
  BY <1>6, CrashKeepsFileInv
<1> QED
  BY <1>2, <1>3, <1>4, <1>5, <1>6 DEF Next

LEMMA FileInvariance ==
  ASSUME ~LiveRestore
  PROVE  Spec => []FileInv
<1>1. Init => FileInv
  <2> SUFFICES ASSUME Init PROVE FileInv
    OBVIOUS
  <2>1. order = << >> /\ disk = << >> /\ ~restoring.on
    BY DEF Init, NotRestoring
  <2>2. order \in Seq(Sessions) /\ Len(order) = 0 /\ DOMAIN disk = {} /\ DOMAIN order = {}
    BY <2>1
  <2>3. DOMAIN Newest(order) = {}
    <3>1. Len(order) <= MaxPersisted
      BY <2>2, BoundsAreNat
    <3> QED
      BY <2>2, <3>1, ShortFacts
  <2> QED
    BY <2>1, <2>2, <2>3 DEF FileInv, Listed, Mirrored
<1>2. IInv /\ IInv' /\ FileInv /\ [Next]_vars => FileInv'
  BY NextKeepsFileInv
<1> QED
  BY <1>1, <1>2, Invariance, PTL DEF Spec

(* While nobody restores a live manager, the file holds at every moment    *)
(* what a restart needs: exactly the newest sessions, with their budgets   *)
(* and states that restore to what the table would, after any crashes and  *)
(* torn files.                                                             *)
THEOREM FileAlwaysCurrent ==
  ASSUME ~LiveRestore
  PROVE  Spec => []FileIsCurrent
<1>1. IInv /\ FileInv => FileIsCurrent
  <2> SUFFICES ASSUME IInv, FileInv PROVE FileIsCurrent
    OBVIOUS
  <2> DEFINE n == Len(order)
             k == IF n > MaxPersisted THEN n - MaxPersisted ELSE 0
  <2>1. order \in Seq(Sessions) /\ MaxPersisted \in Nat \ {0}
    BY BoundsAreNat DEF IInv, TypeOK
  <2>2. /\ n \in Nat /\ k \in 0..n /\ DOMAIN order = 1..n /\ DOMAIN disk = 1..(n - k)
        /\ \A i \in 1..(n - k) : Newest(order)[i] = order[i + k]
    BY <2>1, NewestFacts DEF FileInv, Mirrored
  <2>3. \A i \in 1..n : i > k <=> n - i < MaxPersisted
    BY <2>1, <2>2
  <2> HIDE DEF n, k
  <2>4. \A i \in 1..(n - k) : disk[i].id = order[i + k] /\ i + k \in 1..n
    BY <2>2 DEF FileInv, Mirrored
  <2>5. ASSUME NEW i \in DOMAIN order
        PROVE  order[i] \in Ids(disk) <=> n - i < MaxPersisted
    <3>1. CASE i > k
      <4>1. i - k \in 1..(n - k) /\ (i - k) + k = i
        BY <2>2, <3>1
      <4>2. disk[i - k].id = order[i]
        BY <2>4, <4>1
      <4> QED
        BY <2>2, <2>3, <3>1, <4>1, <4>2 DEF Ids
    <3>2. CASE ~(i > k)
      <4>1. ASSUME NEW j \in DOMAIN disk, disk[j].id = order[i] PROVE FALSE
        <5>1. order[j + k] = order[i] /\ j + k \in DOMAIN order
          BY <2>2, <2>4, <4>1
        <5>2. j + k = i
          BY <5>1 DEF FileInv, Listed
        <5> QED
          BY <2>2, <3>2, <5>2
      <4> QED
        BY <2>2, <2>3, <3>2, <4>1 DEF Ids
    <3> QED
      BY <3>1, <3>2
  <2>6. \A i \in DOMAIN disk :
          /\ disk[i].restarts = sess[disk[i].id].restarts
          /\ Normalize(disk[i].state) = Normalize(sess[disk[i].id].state)
    BY DEF FileInv, Mirrored
  <2> QED
    BY <2>5, <2>6 DEF FileIsCurrent, n
<1> QED
  BY <1>1, Invariance, FileInvariance, PTL

(* While nobody restores a live manager, the restarts counted against a    *)
(* session never shrink as long as it exists: not by a stop, a new start,  *)
(* or a crash of the sidecar, which restores the count from the file.      *)
THEOREM RefundsNever ==
  ASSUME ~LiveRestore
  PROVE  Spec => BudgetNeverRefunded
<1> DEFINE Kept == \A s \in Sessions :
                     Present(s) /\ Present(s)' => sess'[s].restarts >= sess[s].restarts
<1>1. ASSUME IInv, FileInv, [Next]_vars PROVE Kept
  <2>1. \A s \in Sessions : sess[s].restarts \in Nat
    BY <1>1, Here DEF SessionRec
  <2>2. ASSUME Orderly PROVE Kept
    BY <2>1, <2>2 DEF Orderly, Spends
  <2>3. CASE Crash
    <3>1. PICK file \in {disk, << >>} :
            RestoreFrom(file, [l \in Launches |-> Survivor(launch[l])])
      BY <2>3 DEF Crash
    <3>2. file \in Seq(Snapshots)
      BY <1>1, EmptyFile DEF IInv, TypeOK
    <3>3. ASSUME NEW s \in Sessions, Present(s)'
          PROVE  sess'[s].restarts = sess[s].restarts
      <4>1. PICK i \in DOMAIN file : file[i].id = s /\ sess'[s].restarts = file[i].restarts
        BY <3>1, <3>2, <3>3, RestoreBudget
      <4>2. file = disk
        BY <4>1
      <4> QED
        BY <1>1, <4>1, <4>2 DEF FileInv, Mirrored
    <3> QED
      BY <2>1, <3>3
  <2>4. CASE RestoreApplies
    BY <1>1, <2>4 DEF RestoreApplies, FileInv
  <2>5. CASE Shutdown \/ RestoreReads \/ UNCHANGED vars
    BY <1>1, <2>2, <2>5, OthersAreOrderly
  <2>6. CASE (\E s \in Sessions : ClientStep(s)) \/ (\E l \in Launches : LaunchStep(l))
    BY <1>1, <2>2, <2>6, ClientIsOrderly, LaunchIsOrderly
  <2> QED
    BY <1>1, <2>3, <2>4, <2>5, <2>6 DEF Next
<1>2. IInv /\ FileInv /\ [Next]_vars => [Kept]_vars
  BY <1>1
<1> QED
  BY <1>2, Invariance, FileInvariance, PTL DEF Spec, BudgetNeverRefunded

-----------------------------------------------------------------------------
(* Stopping.                                                               *)

Acts == {"calling", "launching", "spawned", "watched"}

(* A step after which the record of s says the same of a stop and of its   *)
(* restarts, nothing else acts for s, and no timer was armed for it.       *)
Steady(s) ==
  /\ sess'[s].state = sess[s].state /\ sess'[s].cmd = sess[s].cmd
  /\ sess'[s].again = sess[s].again /\ (sess[s].manual => sess'[s].manual)
  /\ sess'[s].restarts = sess[s].restarts /\ sess'[s].max = sess[s].max
  /\ \A m \in Launches :
       /\ \A phase \in Acts : IsAt(m, s, phase)' <=> IsAt(m, s, phase)
       /\ IsAt(m, s, "timer")' => IsAt(m, s, "timer")

LEMMA SteadyKeepsQuiet ==
  ASSUME NEW s \in Sessions, Steady(s), QuietlyStopped(s)
  PROVE  QuietlyStopped(s)'
<1>1. Acting(s)' = Acting(s)
  BY DEF Steady, Acting, Acts
<1>2. ~Has(s, {"timer"})'
  BY DEF Steady, QuietlyStopped
<1> QED
  BY <1>1, <1>2 DEF Steady, QuietlyStopped

(* A step that touches launches of another session only.                   *)
LEMMA ElsewhereIsSteady ==
  ASSUME NEW s \in Sessions, NEW t \in Sessions \ {s}, sess'[s] = sess[s],
         \A m \in Launches : \/ launch'[m] = launch[m]
                             \/ /\ launch[m].phase = "free" \/ launch[m].owner = t
                                /\ launch'[m].phase = "free" \/ launch'[m].owner = t
  PROVE  Steady(s)
BY DEF Steady, Acts

(* Stopping the timer of t touches nothing of another session.             *)
LEMMA TimerStoppedTouches ==
  ASSUME IInv, NEW t \in Sessions, NEW L, L = TimerStopped(launch, t)
  PROVE  /\ L \in [Launches -> LaunchRec]
         /\ \A m \in Launches : \/ L[m] = launch[m]
                                \/ launch[m].owner = t /\ launch[m].phase = "timer" /\ L[m] = Free
BY TimerStoppedFacts, Here, NoneIsFresh DEF SessionOK

LEMMA StartLockedElsewhere ==
  ASSUME IInv, NEW s \in Sessions, NEW t \in Sessions \ {s}, NEW l \in Launches,
         launch[l].phase = "free" \/ launch[l].owner = t, StartLocked(t, l)
  PROVE  Steady(s)
<1> DEFINE L == TimerStopped(launch, t)
<1>1. sess'[s] = sess[s]
  BY Here DEF StartLocked
<1>2. launch' = [L EXCEPT ![l] = At("launching", t)]
  BY DEF StartLocked
<1>3. /\ L \in [Launches -> LaunchRec]
      /\ \A m \in Launches : L[m] = launch[m] \/ (launch[m].owner = t /\ L[m] = Free)
  BY TimerStoppedTouches
<1>4. At("launching", t).owner = t /\ Free.phase = "free"
  BY AtType DEF Phases, Free
<1> HIDE DEF L
<1> QED
  BY <1>1, <1>2, <1>3, <1>4, ElsewhereIsSteady

LEMMA ClientElsewhere ==
  ASSUME IInv, NEW s \in Sessions, NEW t \in Sessions \ {s}, ClientStep(t)
  PROVE  Steady(s)
<1>1. CASE \E d \in Dirs, isolate, gitOk \in BOOLEAN, max \in RestartLimits :
             Create(t, d, isolate, gitOk, max)
  <2>1. launch' = launch /\ sess'[s] = sess[s]
    BY <1>1, Here DEF Create
  <2> QED
    BY <2>1, ElsewhereIsSteady
<1>2. CASE StartSession(t)
  BY <1>2, StartLockedElsewhere DEF StartSession
<1>3. CASE StopSession(t)
  <2> DEFINE L == TimerStopped(launch, t)
  <2>1. sess'[s] = sess[s]
    BY <1>3, Here DEF StopSession
  <2>2. /\ L \in [Launches -> LaunchRec] /\ Free.phase = "free"
        /\ \A m \in Launches : L[m] = launch[m] \/ (launch[m].owner = t /\ L[m] = Free)
    <3>1. Free.phase = "free"
      BY DEF Free
    <3> QED
      BY <3>1, TimerStoppedTouches
  <2>3. launch' = L \/ (sess[t].cmd # None /\ launch' = Signal(L, sess[t].cmd))
    BY <1>3 DEF StopSession
  <2> HIDE DEF L
  <2>4. CASE launch' = L
    BY <2>1, <2>2, <2>4, ElsewhereIsSteady
  <2>5. CASE sess[t].cmd # None /\ launch' = Signal(L, sess[t].cmd)
    <3>1. sess[t].cmd \in Launches /\ IsAt(sess[t].cmd, t, "watched")
      BY <2>5, Here DEF SessionOK
    <3>2. \A m \in Launches : m # sess[t].cmd => launch'[m] = L[m]
      BY <2>2, <2>5 DEF Signal
    <3>3. launch'[sess[t].cmd].owner = L[sess[t].cmd].owner
          /\ launch'[sess[t].cmd].phase = L[sess[t].cmd].phase
      BY <2>2, <2>5, <3>1 DEF Signal, LaunchRec
    <3> QED
      BY <2>1, <2>2, <3>1, <3>2, <3>3, ElsewhereIsSteady
  <2> QED
    BY <2>3, <2>4, <2>5
<1>4. CASE RestartSession(t)
  <2>1. sess'[s] = sess[s]
    BY <1>4, Here DEF RestartSession
  <2>2. CASE sess[t].cmd = None
    <3>1. PICK l \in Launches : IsFree(l) /\ launch' = [launch EXCEPT ![l] = At("calling", t)]
      BY <1>4, <2>2 DEF RestartSession
    <3>2. At("calling", t).owner = t
      BY AtType DEF Phases
    <3> QED
      BY <2>1, <3>1, <3>2, Here, ElsewhereIsSteady
  <2>3. CASE sess[t].cmd # None
    <3>1. sess[t].cmd \in Launches /\ IsAt(sess[t].cmd, t, "watched")
      BY <2>3, Here DEF SessionOK
    <3>2. launch' = Signal(launch, sess[t].cmd)
      BY <1>4, <2>3 DEF RestartSession
    <3>3. \A m \in Launches : m # sess[t].cmd => launch'[m] = launch[m]
      BY <3>1, <3>2, Here DEF Signal
    <3>4. launch'[sess[t].cmd].owner = t
      BY <3>1, <3>2, Here DEF Signal, LaunchRec
    <3> QED
      BY <2>1, <3>1, <3>3, <3>4, ElsewhereIsSteady
  <2> QED
    BY <2>2, <2>3
<1> QED
  BY <1>1, <1>2, <1>3, <1>4 DEF ClientStep

LEMMA LaunchElsewhere ==
  ASSUME IInv, NEW s \in Sessions, NEW t \in Sessions \ {s}, NEW l \in Launches,
         launch[l].owner = t, LaunchStep(l)
  PROVE  Steady(s)
<1>1. /\ At("orphan", t).owner = t /\ At("timer", t).owner = t /\ Free.phase = "free"
      /\ sess \in [Sessions -> SessionRec] /\ launch \in [Launches -> LaunchRec]
  BY AtType, Here DEF Phases, Free
<1>2. CASE CallStart(l)
  <2>1. CASE StartRefused(t)
    <3>1. sess' = sess /\ launch' = [launch EXCEPT ![l] = Free]
      BY <1>2, <2>1 DEF CallStart
    <3> QED
      BY <1>1, <3>1, ElsewhereIsSteady
  <2>2. CASE ~StartRefused(t)
    BY <1>2, <2>2, StartLockedElsewhere DEF CallStart
  <2> QED
    BY <2>1, <2>2
<1>3. CASE Spawn(l) \/ ProcessExits(l) \/ LaunchFails(l) \/ Register(l) \/ TimerFires(l)
  <2>1. sess'[s] = sess[s] /\ \A m \in Launches \ {l} : launch'[m] = launch[m]
    BY <1>1, <1>3 DEF Spawn, ProcessExits, LaunchFails, Register, TimerFires
  <2>2. launch'[l].phase = "free" \/ launch'[l].owner = t
    BY <1>1, <1>3 DEF Spawn, ProcessExits, LaunchFails, Register, TimerFires, LaunchRec
  <2> QED
    BY <2>1, <2>2, ElsewhereIsSteady
<1>4. CASE HandleExit(l)
  <2> DEFINE L == TimerStopped(launch, t)
  <2>1. sess'[s] = sess[s]
    BY <1>1, <1>4 DEF HandleExit, ScheduleRestart, EndWith
  <2>2. launch' = [launch EXCEPT ![l] = Free] \/ launch' = [L EXCEPT ![l] = At("timer", t)]
    BY <1>4 DEF HandleExit, ScheduleRestart, EndWith
  <2>3. /\ L \in [Launches -> LaunchRec]
        /\ \A m \in Launches : L[m] = launch[m] \/ (launch[m].owner = t /\ L[m] = Free)
    BY TimerStoppedTouches
  <2> HIDE DEF L
  <2> QED
    BY <1>1, <2>1, <2>2, <2>3, ElsewhereIsSteady
<1> QED
  BY <1>2, <1>3, <1>4 DEF LaunchStep

(* A step of a launch of a quietly stopped session: its process ends, or   *)
(* that end is processed.                                                  *)
LEMMA LaunchKeepsQuiet ==
  ASSUME IInv, NEW s \in Sessions, NEW l \in Launches, launch[l].owner = s, LaunchStep(l),
         QuietlyStopped(s)
  PROVE  QuietlyStopped(s)'
<1>1. /\ sess \in [Sessions -> SessionRec] /\ launch \in [Launches -> LaunchRec]
      /\ sess[s].cmd # None => sess[s].cmd \in Launches /\ IsAt(sess[s].cmd, s, "watched")
  BY Here DEF SessionOK
<1>2. launch[l].phase \notin {"timer", "calling", "launching", "spawned"}
  BY <1>1, NoneIsFresh DEF QuietlyStopped, Acting
<1>3. CASE ProcessExits(l)
  <2>1. sess' = sess /\ \A m \in Launches \ {l} : launch'[m] = launch[m]
    BY <1>1, <1>3 DEF ProcessExits
  <2>2. \/ launch[l].phase = "orphan" /\ launch'[l].phase = "free"
        \/ launch'[l].phase = launch[l].phase /\ launch'[l].owner = s
    BY <1>1, <1>3 DEF ProcessExits, LaunchRec, Free
  <2>3. Steady(s)
    BY <2>1, <2>2 DEF Steady, Acts
  <2> QED
    BY <2>3, SteadyKeepsQuiet
<1>4. CASE HandleExit(l)
  <2>1. launch[l].phase = "watched"
    BY <1>4 DEF HandleExit
  <2>2. l \in Acting(s)
    BY <2>1 DEF Acting
  <2>3. /\ sess[s].state = "stopping" /\ sess[s].manual /\ ~sess[s].again
        /\ Acting(s) = {l}
    BY <2>2 DEF QuietlyStopped
  <2> DEFINE calm == [[sess[s] EXCEPT !.cmd = None] EXCEPT !.again = FALSE, !.manual = FALSE]
             r == [calm EXCEPT !.state = "stopped"]
  <2>4. EndWith(s, l, r)
    BY <1>4, <2>3 DEF HandleExit
  <2>5. r.state = "stopped"
    <3> DEFINE ended == [sess[s] EXCEPT !.cmd = None]
    <3>1. ended \in SessionRec
      BY <1>1 DEF SessionRec
    <3>2. calm = [ended EXCEPT !.again = FALSE, !.manual = FALSE]
      OBVIOUS
    <3> HIDE DEF ended, calm
    <3>3. calm \in SessionRec
      BY <3>1, <3>2 DEF SessionRec
    <3> QED
      BY <3>3 DEF SessionRec
  <2> HIDE DEF r
  <2>6. sess'[s].state = "stopped"
    BY <1>1, <2>4, <2>5 DEF EndWith
  <2>7. /\ \A m \in Launches \ {l} : launch'[m] = launch[m]
        /\ launch'[l].phase = "free"
    BY <1>1, <2>4 DEF EndWith, Free
  <2>8. Acting(s)' = {} /\ ~Has(s, {"timer"})'
    BY <2>3, <2>7 DEF Acting, QuietlyStopped
  <2> QED
    BY <2>6, <2>8 DEF QuietlyStopped
<1> QED
  BY <1>2, <1>3, <1>4 DEF LaunchStep, CallStart, Spawn, LaunchFails, Register, TimerFires

(* StopSession, with nothing in flight but what the session refers to.     *)
LEMMA StopGivesQuiet ==
  ASSUME IInv, NEW s \in Sessions, StopSession(s), Acting(s) \subseteq {sess[s].cmd},
         Timers(s) \subseteq {sess[s].timer}
  PROVE  QuietlyStopped(s)'
<1> DEFINE L == TimerStopped(launch, s)
           off == [sess[s] EXCEPT !.manual = TRUE, !.again = FALSE, !.timer = None]
<1>1. /\ sess \in [Sessions -> SessionRec] /\ launch \in [Launches -> LaunchRec]
      /\ sess[s].cmd \in Launches \cup {None}
      /\ sess[s].cmd # None => IsAt(sess[s].cmd, s, "watched")
      /\ sess[s].timer # None => IsAt(sess[s].timer, s, "timer")
  BY Here DEF SessionOK
<1>2. /\ L \in [Launches -> LaunchRec] /\ Free.phase = "free"
      /\ \A m \in Launches : L[m] = IF m = sess[s].timer THEN Free ELSE launch[m]
  BY TimerStoppedFacts DEF Free
<1>3. /\ off \in SessionRec /\ off.cmd = sess[s].cmd /\ off.manual = TRUE /\ off.again = FALSE
  BY <1>1 DEF SessionRec
<1>4. \A m \in Launches : ~(L[m].owner = s /\ L[m].phase = "timer")
  BY <1>2 DEF Timers
<1>5. {m \in Launches : L[m].owner = s /\ L[m].phase \in Acts} = Acting(s)
  BY <1>1, <1>2, NoneIsFresh DEF Acting, Acts
<1>6. CASE sess[s].cmd = None
  <2>1. sess' = [sess EXCEPT ![s] = [off EXCEPT !.state = "stopped"]] /\ launch' = L
    BY <1>6 DEF StopSession
  <2> HIDE DEF L, off
  <2>2. sess'[s].state = "stopped"
    BY <1>1, <1>3, <2>1 DEF SessionRec
  <2>3. Acting(s) = {}
    BY <1>6, NoneIsFresh DEF Acting
  <2>4. Acting(s)' = {} /\ ~Has(s, {"timer"})'
    BY <1>4, <1>5, <2>1, <2>3 DEF Acting, Acts
  <2> QED
    BY <2>2, <2>4 DEF QuietlyStopped
<1>7. CASE sess[s].cmd # None
  <2>1. /\ sess' = [sess EXCEPT ![s] = [off EXCEPT !.state = "stopping"]]
        /\ launch' = Signal(L, sess[s].cmd)
    BY <1>7 DEF StopSession
  <2> HIDE DEF L, off
  <2>2. /\ sess'[s].state = "stopping" /\ sess'[s].cmd = sess[s].cmd
        /\ sess'[s].manual = TRUE /\ sess'[s].again = FALSE
    BY <1>1, <1>3, <2>1 DEF SessionRec
  <2>3. \A m \in Launches : launch'[m].owner = L[m].owner /\ launch'[m].phase = L[m].phase
    BY <1>1, <1>2, <1>7, <2>1 DEF Signal, LaunchRec
  <2>4. sess[s].cmd \in Acting(s)
    BY <1>1, <1>7 DEF Acting
  <2>5. Acting(s)' = {sess[s].cmd} /\ ~Has(s, {"timer"})'
    <3>1. Acting(s)' = {m \in Launches : L[m].owner = s /\ L[m].phase \in Acts}
      BY <2>3 DEF Acting, Acts
    <3>2. ~Has(s, {"timer"})'
      BY <1>4, <2>3
    <3> QED
      BY <1>5, <2>4, <3>1, <3>2
  <2> QED
    BY <2>2, <2>5 DEF QuietlyStopped
<1> QED
  BY <1>6, <1>7

LEMMA ShutdownIsSteady ==
  ASSUME IInv, NEW s \in Sessions, Shutdown
  PROVE  Steady(s)
<1> DEFINE timers == {sess[t].timer : t \in Sessions} \ {None}
           cmds == {sess[t].cmd : t \in Sessions} \ {None}
<1>1. /\ launch' = [l \in Launches |->
                      IF l \in timers THEN Free
                      ELSE IF l \in cmds THEN [launch[l] EXCEPT !.signalled = TRUE]
                      ELSE launch[l]]
      /\ sess' = [t \in Sessions |->
                    [sess[t] EXCEPT !.timer = None, !.manual = @ \/ sess[t].cmd # None]]
  BY DEF Shutdown
<1>2. \A l \in timers : launch[l].phase = "timer"
  BY Here DEF SessionOK
<1>3. launch \in [Launches -> LaunchRec] /\ sess \in [Sessions -> SessionRec]
  BY Here
<1> HIDE DEF timers, cmds
<1>4. ASSUME NEW m \in Launches
      PROVE  /\ \A phase \in Acts : IsAt(m, s, phase)' <=> IsAt(m, s, phase)
             /\ IsAt(m, s, "timer")' => IsAt(m, s, "timer")
  <2>1. CASE m \in timers
    BY <1>1, <1>2, <2>1 DEF Acts, Free
  <2>2. CASE m \notin timers
    <3>1. launch'[m].owner = launch[m].owner /\ launch'[m].phase = launch[m].phase
      BY <1>1, <1>3, <2>2 DEF LaunchRec
    <3> QED
      BY <3>1
  <2> QED
    BY <2>1, <2>2
<1>5. sess[s] \in SessionRec
      /\ sess'[s] = [sess[s] EXCEPT !.timer = None, !.manual = @ \/ sess[s].cmd # None]
  BY <1>1, <1>3
<1>6. /\ sess'[s].state = sess[s].state /\ sess'[s].cmd = sess[s].cmd
      /\ sess'[s].again = sess[s].again
      /\ sess'[s].restarts = sess[s].restarts /\ sess'[s].max = sess[s].max
  BY <1>5 DEF SessionRec
<1>7. sess[s].manual => sess'[s].manual
  BY <1>5, Zenon DEF SessionRec
<1> QED
  BY <1>4, <1>6, <1>7 DEF Steady

(* A stop that meets nothing of the session in flight but what the session *)
(* refers to leaves it quietly stopped, and no automatic restart, timer or *)
(* late exit undoes that: only a start, a restart, a restore or a new      *)
(* sidecar does.                                                           *)
THEOREM StopAlwaysSticks == Spec => StopSticks
<1> DEFINE Sticks(s) ==
             /\ StopSession(s) /\ Acting(s) \subseteq {sess[s].cmd} /\ Timers(s) \subseteq {sess[s].timer}
                  => QuietlyStopped(s)'
             /\ QuietlyStopped(s) /\ ~QuietlyStopped(s)'
                  => StartSession(s) \/ RestartSession(s) \/ RestoreApplies \/ Crash
<1>1. ASSUME IInv, [Next]_vars, NEW s \in Sessions PROVE Sticks(s)
  <2>1. StopSession(s) /\ Acting(s) \subseteq {sess[s].cmd} /\ Timers(s) \subseteq {sess[s].timer}
          => QuietlyStopped(s)'
    BY <1>1, StopGivesQuiet
  <2> SUFFICES ASSUME QuietlyStopped(s), ~StartSession(s), ~RestartSession(s),
                      ~RestoreApplies, ~Crash
               PROVE  QuietlyStopped(s)'
    BY <2>1
  <2>2. ASSUME NEW t \in Sessions, ClientStep(t) PROVE QuietlyStopped(s)'
    <3>1. CASE t # s
      BY <1>1, <2>2, <3>1, ClientElsewhere, SteadyKeepsQuiet
    <3>2. CASE t = s
      <4>1. Present(s)
        BY DEF QuietlyStopped
      <4>2. StopSession(s)
        BY <2>2, <3>2, <4>1 DEF ClientStep, Create
      <4>3. Acting(s) \subseteq {sess[s].cmd} /\ Timers(s) \subseteq {sess[s].timer}
        BY DEF QuietlyStopped, Timers
      <4> QED
        BY <2>1, <4>2, <4>3
    <3> QED
      BY <3>1, <3>2
  <2>3. ASSUME NEW l \in Launches, LaunchStep(l) PROVE QuietlyStopped(s)'
    <3>1. PICK t \in Sessions : launch[l].owner = t
      <4>1. launch[l].phase # "free"
        BY <2>3 DEF LaunchStep, CallStart, Spawn, LaunchFails, Register, ProcessExits,
                    HandleExit, TimerFires
      <4> QED
        BY <1>1, <4>1 DEF IInv, LaunchesOwned
    <3> QED
      BY <1>1, <2>3, <3>1, LaunchElsewhere, LaunchKeepsQuiet, SteadyKeepsQuiet
  <2>4. CASE Shutdown
    BY <1>1, <2>4, ShutdownIsSteady, SteadyKeepsQuiet
  <2>5. CASE RestoreReads \/ UNCHANGED vars
    <3>1. sess' = sess /\ launch' = launch
      BY <2>5 DEF RestoreReads, vars
    <3>2. Steady(s)
      BY <3>1 DEF Steady
    <3> QED
      BY <3>2, SteadyKeepsQuiet
  <2> QED
    BY <1>1, <2>2, <2>3, <2>4, <2>5 DEF Next
<1>2. IInv /\ [Next]_vars => [\A s \in Sessions : Sticks(s)]_vars
  BY <1>1
<1> QED
  BY <1>2, Invariance, PTL DEF Spec, StopSticks

-----------------------------------------------------------------------------
(* What Supervision allows a step to do to a session.                      *)
SameBudget(s) == sess'[s].restarts = sess[s].restarts /\ sess'[s].max = sess[s].max

(* No start is granted and no process comes up; or one, l, at most; a      *)
(* start is used up; a process has ended.                                  *)
Quiet(s) == Pending(s)' \subseteq Pending(s) /\ Watched(s)' \subseteq Watched(s)

One(s) == \E x : Pending(s)' \subseteq Pending(s) \cup {x} /\ Watched(s)' \subseteq Watched(s) \cup {x}

Uses(s) == \E x \in Pending(s) : x \notin Pending(s)'

Ends(s) == \E x \in Watched(s) : x \notin Watched(s)'

Turns(s, states) == Present(s) /\ SameBudget(s) /\ sess'[s].state \in states

Up == Transient \cup {"running"}

OwnFits(s) ==
  \/ sess'[s].state = sess[s].state /\ SameBudget(s) /\ Quiet(s)
  \/ Turns(s, Up) /\ Pending(s) # {} /\ One(s) /\ (Quiet(s) \/ Uses(s))
  \/ /\ Present(s) /\ Ends(s) /\ One(s) /\ BudgetLeft(s) /\ sess'[s].state = "restarting"
     /\ sess'[s].restarts = sess[s].restarts + 1 /\ sess'[s].max = sess[s].max
  \/ /\ Ends(s) /\ Quiet(s)
     /\ Turns(s, {"stopped"}) \/ (Turns(s, {"error"}) /\ ~BudgetLeft(s))
  \/ Uses(s) /\ Quiet(s) /\ Turns(s, {"error"})

ClientFits(s) ==
  \/ /\ ~Present(s) /\ Quiet(s) /\ sess'[s].state = "created"
     /\ sess'[s].restarts = 0 /\ sess'[s].max \in RestartLimits
  \/ Turns(s, Up) /\ One(s)
  \/ Turns(s, {"stopped", "stopping"}) /\ Quiet(s)

CrashFits(s) ==
  \/ /\ SameBudget(s) /\ sess'[s].state = Normalize(sess[s].state) /\ One(s)
     /\ Quiet(s) \/ sess'[s].state = "restarting"
  \/ ~Present(s)' /\ Quiet(s)

USE DEF Pending, Watched

(* A step that leaves the record and the launches of s alone, but for      *)
(* timers that it stops and launches that go on.                           *)
LEMMA SteadyFits ==
  ASSUME NEW s \in Sessions, Steady(s)
  PROVE  OwnFits(s)
<1>1. Quiet(s)
  BY DEF Steady, Quiet, Acts
<1> QED
  BY <1>1 DEF Steady, OwnFits, SameBudget

(* One launch at most, l, goes elsewhere than away.                        *)
Shift(s, l) ==
  \A m \in Launches \ {l} : \/ launch'[m] = launch[m]
                            \/ launch'[m].phase = "free"
                            \/ /\ launch'[m].phase = launch[m].phase
                               /\ launch'[m].owner = launch[m].owner

LEMMA StartLockedShifts ==
  ASSUME IInv, NEW s \in Sessions, NEW l \in Launches, Present(s), StartLocked(s, l)
  PROVE  /\ Shift(s, l) /\ launch'[l].phase = "launching" /\ launch'[l].owner = s
         /\ sess'[s].again = FALSE /\ Turns(s, Up)
<1> DEFINE r == [sess[s] EXCEPT !.state = "starting", !.manual = FALSE,
                                !.again = FALSE, !.timer = None]
           L == TimerStopped(launch, s)
<1>1. /\ r.state = "starting" /\ r.max = sess[s].max /\ r.restarts = sess[s].restarts
      /\ r.again = FALSE
  BY Here DEF SessionRec
<1>2. sess'[s] = r /\ launch' = [L EXCEPT ![l] = At("launching", s)]
  BY Here DEF StartLocked
<1>3. /\ L \in [Launches -> LaunchRec] /\ Free.phase = "free"
      /\ \A m \in Launches : L[m] = launch[m] \/ L[m] = Free
  BY TimerStoppedFacts DEF Free
<1>4. At("launching", s).phase = "launching" /\ At("launching", s).owner = s
  BY AtType DEF Phases
<1> HIDE DEF r, L
<1> QED
  BY <1>1, <1>2, <1>3, <1>4 DEF Shift, Turns, SameBudget, Up, Transient

LEMMA ClientStepFits ==
  ASSUME IInv, NEW s \in Sessions, ClientStep(s)
  PROVE  ClientFits(s)
<1>1. ASSUME NEW d \in Dirs, NEW isolate \in BOOLEAN, NEW gitOk \in BOOLEAN,
             NEW max \in RestartLimits, Create(s, d, isolate, gitOk, max)
      PROVE  ClientFits(s)
  <2>1. /\ ~Present(s) /\ launch' = launch /\ sess'[s].again = FALSE
        /\ sess'[s].state = "created" /\ sess'[s].restarts = 0 /\ sess'[s].max = max
    BY <1>1, Here DEF Create, NoSession
  <2> QED
    BY <2>1 DEF ClientFits, Quiet
<1>2. CASE StartSession(s)
  <2>1. PICK l \in Launches : IsFree(l) /\ StartLocked(s, l) /\ Present(s)
    BY <1>2 DEF StartSession, StartRefused
  <2>2. /\ Shift(s, l) /\ launch'[l].phase = "launching" /\ launch'[l].owner = s
        /\ sess'[s].again = FALSE /\ Turns(s, Up)
    BY <2>1, StartLockedShifts
  <2>3. Pending(s)' \subseteq Pending(s) \cup {l} /\ Watched(s)' \subseteq Watched(s) \cup {l}
    BY <2>2 DEF Shift
  <2> QED
    BY <2>2, <2>3 DEF ClientFits, One
<1>3. CASE StopSession(s)
  <2> DEFINE off == [sess[s] EXCEPT !.manual = TRUE, !.again = FALSE, !.timer = None]
             r(state) == [off EXCEPT !.state = state]
             L == TimerStopped(launch, s)
  <2>1. \A state \in {"stopped", "stopping"} :
          /\ r(state).state = state /\ r(state).again = FALSE
          /\ r(state).max = sess[s].max /\ r(state).restarts = sess[s].restarts
    BY Here DEF SessionRec
  <2>2. PICK state \in {"stopped", "stopping"} : sess'[s] = r(state)
    BY <1>3, Here DEF StopSession
  <2>3. Present(s) /\ (launch' = L \/ (sess[s].cmd # None /\ launch' = Signal(L, sess[s].cmd)))
    BY <1>3 DEF StopSession
  <2> HIDE DEF r, L
  <2>4. L \in [Launches -> LaunchRec] /\ \A m \in Launches : L[m] = launch[m] \/ L[m].phase = "free"
    BY TimerStoppedFacts DEF L, Free
  <2>5. sess[s].cmd \in Launches \cup {None}
    BY Here
  <2>6. \A m \in Launches : \/ launch'[m] = L[m]
                            \/ launch'[m].phase = L[m].phase /\ launch'[m].owner = L[m].owner
    BY <2>3, <2>4, <2>5, SignalFacts
  <2>7. \A m \in Launches : \/ launch'[m].phase = "free"
                            \/ launch'[m].phase = launch[m].phase /\ launch'[m].owner = launch[m].owner
    BY <2>4, <2>6
  <2>8. Quiet(s)
    BY <2>1, <2>2, <2>7 DEF Quiet
  <2>9. /\ sess'[s].state = state /\ sess'[s].max = sess[s].max
        /\ sess'[s].restarts = sess[s].restarts
    BY <2>1, <2>2
  <2>10. Turns(s, {"stopped", "stopping"})
    BY <2>3, <2>9 DEF Turns, SameBudget
  <2> QED
    BY <2>8, <2>10 DEF ClientFits
<1>4. CASE RestartSession(s)
  <2> DEFINE quick == [sess[s] EXCEPT !.state = "restarting"]
             slow == [sess[s] EXCEPT !.state = "restarting", !.manual = TRUE, !.again = TRUE]
  <2>4. \A r \in {quick, slow} :
          r.state = "restarting" /\ r.max = sess[s].max /\ r.restarts = sess[s].restarts
    BY Here DEF SessionRec
  <2>5. Present(s) /\ sess'[s] \in {quick, slow}
    BY <1>4, Here DEF RestartSession
  <2> HIDE DEF quick, slow
  <2>1. Turns(s, Up)
    BY <2>4, <2>5 DEF Turns, SameBudget, Up, Transient
  <2>2. CASE sess[s].cmd = None
    <3>1. PICK l \in Launches : launch' = [launch EXCEPT ![l] = At("calling", s)]
      BY <1>4, <2>2 DEF RestartSession
    <3>2. sess'[s].again = sess[s].again
      BY <1>4, <2>2, Here DEF RestartSession, SessionRec
    <3>3. At("calling", s).phase = "calling" /\ At("calling", s).owner = s
      BY AtType DEF Phases
    <3>5. /\ launch'[l].phase = "calling"
          /\ \A m \in Launches \ {l} : launch'[m] = launch[m]
      BY <3>1, <3>3, Here
    <3>4. Pending(s)' \subseteq Pending(s) \cup {l} /\ Watched(s)' \subseteq Watched(s) \cup {l}
      BY <3>2, <3>5
    <3> QED
      BY <2>1, <3>4 DEF ClientFits, One
  <2>3. CASE sess[s].cmd # None
    <3>1. /\ launch' = Signal(launch, sess[s].cmd) /\ sess[s].cmd \in Launches
          /\ launch \in [Launches -> LaunchRec]
      BY <1>4, <2>3, Here DEF RestartSession
    <3>2. \A m \in Launches : launch'[m].phase = launch[m].phase /\ launch'[m].owner = launch[m].owner
      BY <3>1, SignalFacts
    <3>3. Pending(s)' \subseteq Pending(s) \cup {s} /\ Watched(s)' \subseteq Watched(s) \cup {s}
      BY <3>2
    <3> QED
      BY <2>1, <3>3 DEF ClientFits, One
  <2> QED
    BY <2>2, <2>3
<1> QED
  BY <1>1, <1>2, <1>3, <1>4 DEF ClientStep

(* waitForExit: the start of a restart that was asked for moves to the     *)
(* timer, that of an automatic one is new and counted.                     *)
LEMMA HandleExitFits ==
  ASSUME IInv, NEW l \in Launches, NEW s \in Sessions, launch[l].owner = s, HandleExit(l)
  PROVE  OwnFits(s)
<1> DEFINE L == TimerStopped(launch, s)
           ended == [sess[s] EXCEPT !.cmd = None]
           calm == [ended EXCEPT !.again = FALSE, !.manual = FALSE]
           timed(r) == [r EXCEPT !.state = "restarting", !.timer = l]
           over(r, state) == [r EXCEPT !.state = state]
<1>1. launch[l].phase = "watched" /\ launch \in [Launches -> LaunchRec] /\ sess[s] \in SessionRec
      /\ sess \in [Sessions -> SessionRec]
  BY Here DEF HandleExit
<1>2. L \in [Launches -> LaunchRec] /\ \A m \in Launches : L[m] = launch[m] \/ L[m].phase = "free"
  BY TimerStoppedFacts DEF Free
<1>3. At("timer", s).phase = "timer" /\ At("timer", s).owner = s /\ Free.phase = "free"
  BY AtType DEF Phases, Free
<1>4. CASE ~Present(s)
  <2>1. sess' = sess /\ launch' = [launch EXCEPT ![l] = Free]
    BY <1>4 DEF HandleExit
  <2>2. Quiet(s)
    BY <1>1, <1>3, <2>1 DEF Quiet
  <2> QED
    BY <2>1, <2>2 DEF OwnFits, SameBudget
<1>5. CASE Present(s)
  <2>1. \/ /\ sess[s].again /\ sess' = [sess EXCEPT ![s] = timed(calm)]
           /\ launch' = [L EXCEPT ![l] = At("timer", s)]
        \/ /\ ~sess[s].again /\ launch' = [launch EXCEPT ![l] = Free]
           /\ \/ sess' = [sess EXCEPT ![s] = over(calm, "stopped")]
              \/ sess' = [sess EXCEPT ![s] = over(ended, "stopped")]
              \/ sess' = [sess EXCEPT ![s] = over(ended, "error")] /\ ~BudgetLeft(s)
        \/ /\ ~sess[s].again /\ BudgetLeft(s) /\ sess' = [sess EXCEPT ![s] = timed(Counted(ended))]
           /\ launch' = [L EXCEPT ![l] = At("timer", s)]
    BY <1>5 DEF HandleExit, ScheduleRestart, EndWith
  <2>2. /\ timed(calm).state = "restarting" /\ timed(calm).again = FALSE
        /\ timed(calm).restarts = sess[s].restarts /\ timed(calm).max = sess[s].max
    BY <1>1 DEF SessionRec
  <2>3. /\ timed(Counted(ended)).state = "restarting" /\ timed(Counted(ended)).again = sess[s].again
        /\ timed(Counted(ended)).restarts = sess[s].restarts + 1
        /\ timed(Counted(ended)).max = sess[s].max
    BY <1>1 DEF SessionRec, Counted
  <2>4. \A state \in {"stopped", "error"} :
          /\ over(calm, state).state = state /\ over(calm, state).again = FALSE
          /\ over(calm, state).restarts = sess[s].restarts /\ over(calm, state).max = sess[s].max
          /\ over(ended, state).state = state /\ over(ended, state).again = sess[s].again
          /\ over(ended, state).restarts = sess[s].restarts /\ over(ended, state).max = sess[s].max
    BY <1>1 DEF SessionRec
  <2>5. s \notin Launches
    BY IdsDiffer
  <2> HIDE DEF L, ended, calm, timed, over
  <2>6. CASE launch' = [L EXCEPT ![l] = At("timer", s)]
    <3>1. /\ launch'[l].phase = "timer" /\ launch'[l].owner = s
          /\ \A m \in Launches \ {l} : launch'[m] = launch[m] \/ launch'[m].phase = "free"
      BY <1>2, <1>3, <2>6
    <3>2. l \in Watched(s) /\ l \notin Watched(s)'
      BY <1>1, <3>1
    <3>3. CASE sess[s].again /\ sess'[s] = timed(calm)
      <4>1. Pending(s)' \subseteq Pending(s) \cup {l} /\ Watched(s)' \subseteq Watched(s) \cup {l}
        BY <2>2, <3>1, <3>3
      <4>2. s \in Pending(s) /\ s \notin Pending(s)'
        BY <2>2, <2>5, <3>3
      <4>3. One(s) /\ Uses(s)
        BY <4>1, <4>2 DEF One, Uses
      <4> QED
        BY <1>5, <2>2, <3>3, <4>2, <4>3 DEF OwnFits, Turns, SameBudget, Up, Transient
    <3>4. CASE ~sess[s].again /\ BudgetLeft(s) /\ sess'[s] = timed(Counted(ended))
      <4>1. Pending(s)' \subseteq Pending(s) \cup {l} /\ Watched(s)' \subseteq Watched(s) \cup {l}
        BY <2>3, <3>1, <3>4
      <4>2. One(s) /\ Ends(s)
        BY <3>2, <4>1 DEF One, Ends
      <4> QED
        BY <1>5, <2>3, <3>4, <4>2 DEF OwnFits
    <3>5. launch'[l] # Free
      BY <1>3, <3>1
    <3>6. launch' # [launch EXCEPT ![l] = Free]
      BY <1>1, <3>5
    <3> QED
      BY <1>1, <2>1, <3>3, <3>4, <3>6
  <2>7. CASE launch' = [launch EXCEPT ![l] = Free] /\ launch' # [L EXCEPT ![l] = At("timer", s)]
    <3>1. /\ launch'[l].phase = "free" /\ \A m \in Launches \ {l} : launch'[m] = launch[m]
      BY <1>1, <1>3, <2>7
    <3>2. PICK state \in {"stopped", "error"} :
            /\ sess'[s].again = FALSE \/ sess'[s].again = sess[s].again
            /\ sess'[s].state = state /\ SameBudget(s) /\ (state = "error" => ~BudgetLeft(s))
      <4>1. \/ sess'[s] = over(calm, "stopped") \/ sess'[s] = over(ended, "stopped")
            \/ sess'[s] = over(ended, "error") /\ ~BudgetLeft(s)
        BY <1>1, <2>1, <2>7
      <4> QED
        BY <2>4, <4>1 DEF SameBudget
    <3>3. Quiet(s)
      BY <3>1, <3>2 DEF Quiet
    <3>4. l \in Watched(s) /\ l \notin Watched(s)'
      BY <1>1, <3>1
    <3>5. Ends(s)
      BY <3>4 DEF Ends
    <3> QED
      BY <1>5, <3>2, <3>3, <3>5 DEF OwnFits, Turns
  <2> QED
    BY <2>1, <2>6, <2>7
<1> QED
  BY <1>4, <1>5

(* A launch that only goes away or goes on keeps what is granted.          *)
LEMMA QuietLaunch ==
  ASSUME NEW l \in Launches, NEW s \in Sessions, sess'[s].again = sess[s].again,
         \A m \in Launches \ {l} : launch'[m] = launch[m],
         \/ launch'[l].phase \in {"free", "orphan"}
         \/ launch'[l].phase = launch[l].phase /\ launch'[l].owner = launch[l].owner
         \/ l \in Pending(s) /\ launch'[l].phase # "watched"
  PROVE  Quiet(s)
BY DEF Quiet

LEMMA LaunchStepFits ==
  ASSUME IInv, NEW l \in Launches, NEW s \in Sessions, launch[l].owner = s, LaunchStep(l)
  PROVE  OwnFits(s)
<1>1. launch \in [Launches -> LaunchRec] /\ sess \in [Sessions -> SessionRec] /\ sess[s] \in SessionRec
  BY Here
<1>2. Free.phase = "free" /\ At("orphan", s).phase = "orphan"
  BY AtType DEF Phases, Free
<1>3. CASE CallStart(l)
  <2>1. CASE StartRefused(s)
    <3>1. sess' = sess /\ launch' = [launch EXCEPT ![l] = Free]
      BY <1>3, <2>1 DEF CallStart
    <3>2. Quiet(s)
      BY <1>1, <1>2, <3>1, QuietLaunch
    <3> QED
      BY <3>1, <3>2 DEF OwnFits, SameBudget
  <2>2. CASE ~StartRefused(s)
    <3>1. /\ Shift(s, l) /\ launch'[l].phase = "launching" /\ launch'[l].owner = s
          /\ sess'[s].again = FALSE /\ Turns(s, Up)
      BY <1>3, <2>2, StartLockedShifts DEF CallStart, StartRefused
    <3>2. l \in Pending(s)
      BY <1>3 DEF CallStart
    <3>3. Quiet(s)
      BY <3>1, <3>2 DEF Quiet, Shift
    <3>4. One(s)
      BY <3>3 DEF One, Quiet
    <3> QED
      BY <3>1, <3>2, <3>3, <3>4 DEF OwnFits
  <2> QED
    BY <2>1, <2>2
<1>4. CASE Spawn(l) \/ ProcessExits(l)
  <2>1. sess' = sess /\ \A m \in Launches \ {l} : launch'[m] = launch[m]
    BY <1>1, <1>4 DEF Spawn, ProcessExits
  <2>2. \/ launch'[l].phase = "spawned" /\ l \in Pending(s)
        \/ launch'[l].phase = "free"
        \/ launch'[l].phase = launch[l].phase /\ launch'[l].owner = launch[l].owner
    BY <1>1, <1>2, <1>4 DEF Spawn, ProcessExits, LaunchRec
  <2>3. Quiet(s)
    BY <2>1, <2>2, QuietLaunch
  <2> QED
    BY <2>1, <2>3 DEF OwnFits, SameBudget
<1>5. CASE LaunchFails(l)
  <2>1. launch' = [launch EXCEPT ![l] = Free] /\ launch[l].phase = "launching"
    BY <1>5 DEF LaunchFails
  <2> DEFINE failed == [sess[s] EXCEPT !.cmd = None, !.state = "error"]
  <2>2. /\ failed.state = "error" /\ failed.max = sess[s].max /\ failed.again = sess[s].again
        /\ failed.restarts = sess[s].restarts
    BY <1>1 DEF SessionRec
  <2>3. sess'[s] = sess[s] \/ (Present(s) /\ sess'[s] = failed)
    BY <1>1, <1>5 DEF LaunchFails
  <2> HIDE DEF failed
  <2>4. Quiet(s)
    BY <1>1, <1>2, <2>1, <2>2, <2>3, QuietLaunch
  <2>5. l \in Pending(s) /\ l \notin Pending(s)'
    BY <1>1, <1>2, <2>1, IdsDiffer
  <2>6. Uses(s)
    BY <2>5 DEF Uses
  <2> QED
    BY <2>2, <2>3, <2>4, <2>6 DEF OwnFits, Turns, SameBudget
<1>6. CASE Register(l)
  <2>1. CASE Present(s)
    <3> DEFINE up == [sess[s] EXCEPT !.cmd = l, !.state = "running"]
               on == [launch[l] EXCEPT !.phase = "watched"]
    <3>1. /\ up.state = "running" /\ up.max = sess[s].max /\ up.restarts = sess[s].restarts
          /\ up.again = sess[s].again
      BY <1>1 DEF SessionRec
    <3>2. sess'[s] = up /\ launch'[l] = on /\ \A m \in Launches \ {l} : launch'[m] = launch[m]
      BY <1>1, <1>6, <2>1 DEF Register
    <3>3. on.phase = "watched" /\ on.owner = s
      BY <1>1 DEF LaunchRec
    <3> HIDE DEF up, on
    <3>4. Pending(s)' \subseteq Pending(s) \cup {l} /\ Watched(s)' \subseteq Watched(s) \cup {l}
      BY <3>1, <3>2
    <3>5. l \in Pending(s) /\ l \notin Pending(s)'
      BY <1>6, <3>2, <3>3, IdsDiffer DEF Register
    <3>6. One(s) /\ Uses(s)
      BY <3>4, <3>5 DEF One, Uses
    <3> QED
      BY <2>1, <3>1, <3>2, <3>5, <3>6 DEF OwnFits, Turns, SameBudget, Up
  <2>2. CASE ~Present(s)
    <3>1. sess' = sess /\ launch'[l].phase \in {"orphan", "free"}
          /\ \A m \in Launches \ {l} : launch'[m] = launch[m]
      BY <1>1, <1>2, <1>6, <2>2 DEF Register
    <3>2. Quiet(s)
      BY <3>1, QuietLaunch
    <3> QED
      BY <3>1, <3>2 DEF OwnFits, SameBudget
  <2> QED
    BY <2>1, <2>2
<1>7. CASE HandleExit(l)
  BY <1>7, HandleExitFits
<1>8. CASE TimerFires(l)
  <2>1. /\ sess'[s].state = sess[s].state /\ sess'[s].again = sess[s].again
        /\ sess'[s].max = sess[s].max /\ sess'[s].restarts = sess[s].restarts
    BY <1>1, <1>8 DEF TimerFires, SessionRec
  <2>2. launch'[l].phase = "calling" /\ \A m \in Launches \ {l} : launch'[m] = launch[m]
    BY <1>1, <1>8 DEF TimerFires, LaunchRec
  <2>3. l \in Pending(s)
    BY <1>8 DEF TimerFires
  <2>4. Quiet(s)
    BY <2>1, <2>2, <2>3, QuietLaunch
  <2> QED
    BY <2>1, <2>4 DEF OwnFits, SameBudget
<1> QED
  BY <1>3, <1>4, <1>5, <1>6, <1>7, <1>8 DEF LaunchStep

(* A new sidecar watches nothing, restores what the file held and has one  *)
(* start at most under way for each session.                               *)
LEMMA CrashStepFits ==
  ASSUME IInv, FileInv, Crash, NEW s \in Sessions
  PROVE  CrashFits(s)
<1> DEFINE L == [l \in Launches |-> Survivor(launch[l])]
<1>1. PICK file \in {disk, << >>} : RestoreFrom(file, L)
  BY DEF Crash
<1> HIDE DEF L
<1>2. /\ file \in Seq(Snapshots) /\ sess[s].state \in States
      /\ \A i \in DOMAIN file : file[i].state \in States
  <2>1. file \in Seq(Snapshots)
    BY EmptyFile DEF IInv, TypeOK
  <2>2. \A i \in DOMAIN file : file[i] \in Snapshots
    BY <2>1
  <2> QED
    BY <2>1, <2>2, Here DEF Snapshots, SessionRec
<1> DEFINE resumed == {file[i].id : i \in {j \in DOMAIN file :
                                             AutoResume /\ Interrupted(file[j].state)}}
           slots == {l \in Launches : L[l].phase = "free"}
<1>3. PICK slot \in [resumed -> slots] :
        /\ \A t, u \in resumed : slot[t] = slot[u] => t = u
        /\ launch' = [m \in Launches |->
                        IF \E t \in resumed : slot[t] = m
                        THEN At("calling", CHOOSE t \in resumed : slot[t] = m)
                        ELSE L[m]]
  BY <1>1 DEF RestoreFrom
<1> HIDE DEF slots
<1>4. sess'[s].again = FALSE
  <2>1. sess'[s] = NoSession \/ \E snap : sess'[s] = Restored(snap)
    BY <1>1 DEF RestoreFrom
  <2>2. NoSession.again = FALSE /\ \A snap : Restored(snap).again = FALSE
    BY DEF Restored, NoSession
  <2> QED
    BY <2>1, <2>2
<1>5. ASSUME NEW l \in Launches
      PROVE  /\ l \notin Watched(s)'
             /\ l \in Pending(s)' => s \in resumed /\ slot[s] = l
  <2>1. \A phase, t : At(phase, t).phase = phase /\ At(phase, t).owner = t
    BY DEF At, Free
  <2>2. L[l].phase \in {"orphan", "free"}
    BY <2>1 DEF L, Survivor, Free
  <2> HIDE DEF resumed
  <2>3. CASE \E t \in resumed : slot[t] = l
    <3> DEFINE u == CHOOSE t \in resumed : slot[t] = l
    <3>1. u \in resumed /\ slot[u] = l
      BY <2>3
    <3>2. launch'[l] = At("calling", u)
      BY <1>3, <2>3
    <3> HIDE DEF u
    <3>3. launch'[l].phase = "calling" /\ launch'[l].owner = u
      BY <2>1, <3>2
    <3> QED
      BY <1>4, <3>1, <3>3, IdsDiffer
  <2>4. CASE ~ \E t \in resumed : slot[t] = l
    <3>1. launch'[l].phase \in {"orphan", "free"}
      BY <1>3, <2>2, <2>4
    <3> QED
      BY <1>4, <3>1, IdsDiffer
  <2> QED
    BY <2>3, <2>4
<1>6. /\ Watched(s)' = {} /\ Pending(s)' \subseteq {slot[s]}
      /\ s \notin resumed => Pending(s)' = {}
  <2>1. \A x \in Watched(s)' \cup Pending(s)' : x \in Launches
    BY <1>4
  <2> QED
    BY <1>5, <2>1
<1>7. One(s) /\ (s \notin resumed => Quiet(s))
  <2>1. One(s)
    BY <1>6 DEF One
  <2> QED
    BY <1>6, <2>1 DEF Quiet
<1>8. CASE s \in Ids(file)
  <2>1. PICK i \in DOMAIN file : /\ file[i].id = s
                                 /\ sess'[s].state = Normalize(file[i].state)
                                 /\ sess'[s].restarts = file[i].restarts
                                 /\ sess'[s].max = file[i].max
    BY <1>1, <1>2, <1>8, RestoreBudget
  <2>2. file = disk
    BY <2>1
  <2>3. SameBudget(s) /\ sess'[s].state = Normalize(sess[s].state)
    BY <2>1, <2>2 DEF FileInv, Mirrored, SameBudget
  <2>4. s \in resumed => sess'[s].state = "restarting"
    <3>1. ASSUME s \in resumed PROVE sess'[s].state = "restarting"
      <4>1. PICK j \in DOMAIN disk : disk[j].id = s /\ AutoResume /\ Interrupted(disk[j].state)
        BY <2>2, <3>1
      <4>2. Normalize(disk[j].state) = Normalize(sess[s].state)
        BY <4>1 DEF FileInv, Mirrored
      <4> QED
        BY <2>3, <4>1, <4>2 DEF Normalize
    <3> QED
      BY <3>1
  <2> QED
    BY <1>7, <2>3, <2>4 DEF CrashFits
<1>9. CASE s \notin Ids(file)
  <2>1. sess'[s].state = "absent"
    BY <1>1, <1>2, <1>9, RestoreBudget DEF Ids
  <2>2. s \notin resumed
    BY <1>9 DEF Ids
  <2> QED
    BY <1>7, <2>1, <2>2 DEF CrashFits
<1> QED
  BY <1>8, <1>9

LEMMA StepFits ==
  ASSUME IInv, FileInv, [Next]_vars, ~LiveRestore, NEW s \in Sessions
  PROVE  OwnFits(s) \/ (ClientFits(s) /\ ClientStep(s)) \/ (CrashFits(s) /\ Crash)
<1>1. ASSUME NEW t \in Sessions, ClientStep(t) PROVE OwnFits(s) \/ (ClientFits(s) /\ ClientStep(s))
  BY <1>1, ClientStepFits, ClientElsewhere, SteadyFits
<1>2. ASSUME NEW l \in Launches, LaunchStep(l) PROVE OwnFits(s)
  <2>1. launch[l].owner \in Sessions
    <3>1. launch[l].phase # "free"
      BY <1>2 DEF LaunchStep, CallStart, Spawn, LaunchFails, Register, ProcessExits, HandleExit,
                  TimerFires
    <3> QED
      BY <3>1 DEF IInv, LaunchesOwned
  <2> QED
    BY <1>2, <2>1, LaunchStepFits, LaunchElsewhere, SteadyFits
<1>3. CASE Shutdown
  BY <1>3, ShutdownIsSteady, SteadyFits
<1>4. CASE RestoreReads \/ UNCHANGED vars
  <2>1. sess' = sess /\ launch' = launch
    BY <1>4 DEF RestoreReads, vars
  <2> QED
    BY <2>1 DEF OwnFits, SameBudget, Quiet
<1>5. CASE RestoreApplies
  BY <1>5 DEF RestoreApplies, FileInv
<1>6. CASE Crash
  BY <1>6, CrashStepFits
<1> QED
  BY <1>1, <1>2, <1>3, <1>4, <1>5, <1>6 DEF Next

-----------------------------------------------------------------------------
(* What the table shows of a session moves as Supervision allows.          *)
HIDE DEF Pending, Watched

LEMMA StartFacts ==
  ASSUME NEW s \in Sessions
  PROVE  /\ Quiet(s) => Contract(s)!NothingNew
         /\ One(s) => Contract(s)!OneNew
         /\ Uses(s) => Contract(s)!UsesStart /\ Pending(s) # {}
         /\ Ends(s) => Contract(s)!Ended
<1>1. Quiet(s) => Contract(s)!NothingNew
  BY DEF Quiet, Contract!NothingNew, Contract!New
<1>2. One(s) => Contract(s)!OneNew
  BY DEF One, Contract!OneNew, Contract!New
<1>3. Uses(s) => Contract(s)!UsesStart /\ Pending(s) # {}
  BY DEF Uses, Contract!UsesStart
<1>4. Ends(s) => Contract(s)!Ended
  BY DEF Ends, Contract!Ended
<1> QED
  BY <1>1, <1>2, <1>3, <1>4

Shown(s) ==
  /\ Present(s) => /\ Entry(s) = [phase |-> Entry(s).phase, restarts |-> sess[s].restarts,
                                  limit |-> sess[s].max]
                   /\ Entry(s).phase # "unknown"
                   /\ Entry(s).phase = IF Interrupted(sess[s].state) THEN "active"
                                       ELSE sess[s].state
  /\ ~Present(s) => Entry(s) = [phase |-> "unknown", restarts |-> 0, limit |-> 0]

LEMMA EntryFacts == TypeOK => \A s \in Sessions : Shown(s)
<1> SUFFICES ASSUME TypeOK, NEW s \in Sessions PROVE Shown(s)
  OBVIOUS
<1>1. sess[s].state \in States
  BY DEF TypeOK, SessionRec
<1>2. CASE Present(s)
  <2>1. Entry(s) = [phase |-> IF Interrupted(sess[s].state) THEN "active" ELSE sess[s].state,
                    restarts |-> sess[s].restarts, limit |-> sess[s].max]
    BY <1>2 DEF Entry
  <2> QED
    BY <1>1, <1>2, <2>1 DEF States, Transient, Settled, Shown
<1>3. CASE ~Present(s)
  BY <1>3 DEF Entry, Shown
<1> QED
  BY <1>2, <1>3

LEMMA NextEntryFacts == (TypeOK => \A s \in Sessions : Shown(s))'
BY EntryFacts, PTL

(* A step that keeps the budget changes nothing but the phase.             *)
LEMMA TurnsFacts ==
  ASSUME TypeOK, TypeOK', NEW s \in Sessions
  PROVE  /\ Present(s) <=> Contract(s)!Known
         /\ Present(s) => Entry(s).restarts = sess[s].restarts /\ Entry(s).limit = sess[s].max
         /\ sess'[s].state = sess[s].state /\ SameBudget(s) => Entry(s)' = Entry(s)
         /\ Turns(s, Up) => Contract(s)!Becomes("active")
         /\ \A state \in {"created", "stopped", "error"} :
              Turns(s, {state}) => Contract(s)!Becomes(state)
         /\ Present(s) /\ Interrupted(sess[s].state) => Entry(s).phase = "active"
         /\ Present(s)' /\ Interrupted(sess'[s].state) => Entry(s)'.phase = "active"
<1>1. /\ Present(s) => /\ Entry(s) = [phase |-> Entry(s).phase, restarts |-> sess[s].restarts,
                                      limit |-> sess[s].max]
                       /\ Entry(s).phase # "unknown"
                       /\ Entry(s).phase = IF Interrupted(sess[s].state) THEN "active"
                                           ELSE sess[s].state
      /\ ~Present(s) => Entry(s) = [phase |-> "unknown", restarts |-> 0, limit |-> 0]
  BY EntryFacts DEF Shown
<1>2. /\ Present(s)' => /\ Entry(s)' = [phase |-> Entry(s)'.phase, restarts |-> sess'[s].restarts,
                                        limit |-> sess'[s].max]
                        /\ Entry(s)'.phase # "unknown"
                        /\ Entry(s)'.phase = IF Interrupted(sess'[s].state) THEN "active"
                                             ELSE sess'[s].state
  BY NextEntryFacts DEF Shown
<1>3. Present(s) <=> Contract(s)!Known
  BY <1>1 DEF Contract!Known, Contract!Unknown
<1>4. Present(s) => Entry(s).restarts = sess[s].restarts /\ Entry(s).limit = sess[s].max
  BY <1>1
<1>5. sess'[s].state = sess[s].state /\ SameBudget(s) => Entry(s)' = Entry(s)
  BY DEF Entry, SameBudget
<1>6. Turns(s, Up) => Contract(s)!Becomes("active")
  <2> SUFFICES ASSUME Turns(s, Up) PROVE Contract(s)!Becomes("active")
    OBVIOUS
  <2>1. Present(s) /\ Present(s)' /\ Interrupted(sess'[s].state)
    BY DEF Turns, Up, Interrupted, Transient
  <2>2. Entry(s)' = [Entry(s) EXCEPT !.phase = "active"]
    BY <1>1, <1>2, <2>1 DEF Turns, SameBudget
  <2> QED
    BY <1>3, <2>1, <2>2 DEF Contract!Becomes
<1>7. ASSUME NEW state \in {"created", "stopped", "error"}, Turns(s, {state})
      PROVE  Contract(s)!Becomes(state)
  <2>1. Present(s) /\ Present(s)' /\ ~Interrupted(sess'[s].state) /\ sess'[s].state = state
    BY <1>7 DEF Turns, Interrupted, Transient
  <2>2. Entry(s)' = [Entry(s) EXCEPT !.phase = state]
    BY <1>1, <1>2, <1>7, <2>1 DEF Turns, SameBudget
  <2> QED
    BY <1>3, <2>1, <2>2 DEF Contract!Becomes
<1> QED
  BY <1>1, <1>2, <1>3, <1>4, <1>5, <1>6, <1>7

LEMMA OwnFitsContract ==
  ASSUME TypeOK, TypeOK', WithinBudget, NEW s \in Sessions, OwnFits(s)
  PROVE  Contract(s)!Own
<1>1. CASE sess'[s].state = sess[s].state /\ SameBudget(s) /\ Quiet(s)
  BY <1>1, StartFacts, TurnsFacts DEF Contract!Own, Contract!Stay
<1>2. CASE Turns(s, Up) /\ Pending(s) # {} /\ One(s) /\ (Quiet(s) \/ Uses(s))
  BY <1>2, StartFacts, TurnsFacts DEF Contract!Own, Contract!Begin
<1>3. CASE /\ Present(s) /\ Ends(s) /\ One(s) /\ BudgetLeft(s) /\ sess'[s].state = "restarting"
           /\ sess'[s].restarts = sess[s].restarts + 1 /\ sess'[s].max = sess[s].max
  <2>1. Entry(s)' = [phase |-> "active", restarts |-> sess[s].restarts + 1, limit |-> sess[s].max]
    BY <1>3, NextEntryFacts DEF Shown, Interrupted, Transient
  <2> DEFINE e == Entry(s)
  <2>2. e = [phase |-> e.phase, restarts |-> sess[s].restarts, limit |-> sess[s].max]
    BY <1>3, EntryFacts DEF Shown
  <2> HIDE DEF e
  <2> DEFINE f == [e EXCEPT !.phase = "active"]
  <2>3. /\ f = [phase |-> "active", restarts |-> sess[s].restarts, limit |-> sess[s].max]
        /\ e.restarts = sess[s].restarts /\ e.limit = sess[s].max
    BY <2>2
  <2> HIDE DEF f
  <2>4. [f EXCEPT !.restarts = sess[s].restarts + 1] =
          [phase |-> "active", restarts |-> sess[s].restarts + 1, limit |-> sess[s].max]
    BY <2>3
  <2>5. /\ Entry(s)' = [Entry(s) EXCEPT !.phase = "active", !.restarts = @ + 1]
        /\ Entry(s).restarts < Entry(s).limit
    BY <1>3, <2>1, <2>3, <2>4 DEF e, f, BudgetLeft
  <2> QED
    BY <1>3, <2>5, StartFacts DEF Contract!Own, Contract!Restart
<1>4. CASE /\ Ends(s) /\ Quiet(s)
           /\ Turns(s, {"stopped"}) \/ (Turns(s, {"error"}) /\ ~BudgetLeft(s))
  <2>1. sess[s].restarts \in Nat /\ sess[s].max \in Nat /\ sess[s].restarts <= sess[s].max
    BY DEF TypeOK, SessionRec, WithinBudget
  <2>2. ~BudgetLeft(s) => sess[s].restarts = sess[s].max
    BY <2>1 DEF BudgetLeft
  <2>3. Turns(s, {"error"}) => Present(s)
    BY DEF Turns
  <2> QED
    BY <1>4, <2>2, <2>3, StartFacts, TurnsFacts DEF Contract!Own, Contract!End
<1>5. CASE Uses(s) /\ Quiet(s) /\ Turns(s, {"error"})
  BY <1>5, StartFacts, TurnsFacts DEF Contract!Own, Contract!StartFails
<1> QED
  BY <1>1, <1>2, <1>3, <1>4, <1>5 DEF OwnFits

LEMMA ClientFitsContract ==
  ASSUME TypeOK, TypeOK', NEW s \in Sessions, ClientFits(s)
  PROVE  Contract(s)!Client
<1>1. CASE /\ ~Present(s) /\ Quiet(s) /\ sess'[s].state = "created"
           /\ sess'[s].restarts = 0 /\ sess'[s].max \in RestartLimits
  <2>1. \E n \in RestartLimits : Entry(s)' = [phase |-> "created", restarts |-> 0, limit |-> n]
    BY <1>1, NextEntryFacts DEF Shown, Interrupted, Transient
  <2> QED
    BY <1>1, <2>1, StartFacts, TurnsFacts DEF Contract!Client, Contract!Create
<1>2. CASE Turns(s, Up) /\ One(s)
  BY <1>2, StartFacts, TurnsFacts DEF Contract!Client, Contract!Ask
<1>3. CASE Turns(s, {"stopped", "stopping"}) /\ Quiet(s)
  <2>1. Turns(s, {"stopped"}) \/ Turns(s, Up)
    BY <1>3 DEF Turns, Up, Transient
  <2> QED
    BY <1>3, <2>1, StartFacts, TurnsFacts DEF Contract!Client, Contract!Stop
<1> QED
  BY <1>1, <1>2, <1>3 DEF ClientFits

LEMMA CrashFitsContract ==
  ASSUME TypeOK, TypeOK', NEW s \in Sessions, CrashFits(s)
  PROVE  Contract(s)!Recovery
<1>1. CASE /\ SameBudget(s) /\ sess'[s].state = Normalize(sess[s].state) /\ One(s)
           /\ Quiet(s) \/ sess'[s].state = "restarting"
  <2>1. sess'[s].state = "restarting" => Entry(s)'.phase = "active"
    BY TurnsFacts DEF Interrupted, Transient
  <2>2. CASE sess'[s].state = sess[s].state
    <3>1. Entry(s)' = Entry(s)
      BY <1>1, <2>2, TurnsFacts
    <3> QED
      BY <1>1, <2>1, <3>1, StartFacts DEF Contract!Recovery, Contract!Recover
  <2>3. CASE sess'[s].state # sess[s].state
    <3>1. /\ Present(s) /\ Interrupted(sess[s].state) /\ Turns(s, {sess'[s].state})
          /\ sess'[s].state \in {"restarting", "stopped"}
      BY <1>1, <2>3 DEF Normalize, Interrupted, Transient, Turns
    <3>2. Entry(s).phase = "active"
      BY <3>1, TurnsFacts
    <3>3. CASE sess'[s].state = "stopped"
      <4>1. Contract(s)!Becomes("stopped")
        BY <3>1, <3>3, TurnsFacts
      <4> QED
        BY <1>1, <3>2, <3>3, <4>1, StartFacts DEF Contract!Recovery, Contract!Recover
    <3>4. CASE sess'[s].state = "restarting"
      <4>1. /\ Entry(s) = [phase |-> "active", restarts |-> sess[s].restarts, limit |-> sess[s].max]
            /\ Entry(s)' = [phase |-> "active", restarts |-> sess'[s].restarts,
                            limit |-> sess'[s].max]
        BY <3>1, <3>4, EntryFacts, NextEntryFacts DEF Shown, Interrupted, Transient
      <4>2. Entry(s)' = Entry(s)
        BY <1>1, <4>1 DEF SameBudget
      <4> QED
        BY <1>1, <2>1, <3>4, <4>2, StartFacts DEF Contract!Recovery, Contract!Recover
    <3> QED
      BY <3>1, <3>3, <3>4
  <2> QED
    BY <2>2, <2>3
<1>2. CASE ~Present(s)' /\ Quiet(s)
  <2>1. Entry(s)' = [phase |-> "unknown", restarts |-> 0, limit |-> 0]
    BY <1>2, NextEntryFacts DEF Shown
  <2> QED
    BY <1>2, <2>1, StartFacts DEF Contract!Recovery, Contract!Forget, Contract!Unknown
<1> QED
  BY <1>1, <1>2 DEF CrashFits

(* While nobody restores a live manager, each session implements           *)
(* Supervision, through late exits, races of its launches, crashes and     *)
(* torn files.  A process comes up only on a start that was granted, one   *)
(* for each: by a client of this session, by an automatic restart, which   *)
(* follows the end of a process and uses up an attempt that was left, or   *)
(* by a new sidecar for a session that was under way.                      *)
THEOREM ContractIsKept ==
  ASSUME ~LiveRestore
  PROVE  Spec => Supervises
<1> DEFINE Keeps(s) ==
             [\/ Contract(s)!Own
              \/ Contract(s)!Client /\ ClientStep(s)
              \/ Contract(s)!Recovery /\ Crash]_(Contract(s)!vars)
<1>1. Init => \A s \in Sessions : Contract(s)!Init
  <2> SUFFICES ASSUME Init, NEW s \in Sessions PROVE Contract(s)!Init
    OBVIOUS
  <2>1. /\ sess[s].state = "absent" /\ sess[s].again = FALSE
        /\ \A l \in Launches : launch[l].phase = "free"
    BY DEF Init, NoSession, Free
  <2>2. Pending(s) = {} /\ Watched(s) = {}
    BY <2>1 DEF Pending, Watched
  <2> QED
    BY <2>1, <2>2 DEF Contract!Init, Contract!Known, Contract!Unknown, Entry
<1>2. IInv /\ IInv' /\ WithinBudget /\ FileInv /\ [Next]_vars
        => [\A s \in Sessions : Keeps(s)]_vars
  <2> SUFFICES ASSUME IInv, IInv', WithinBudget, FileInv, [Next]_vars, NEW s \in Sessions
               PROVE  Keeps(s)
    OBVIOUS
  <2>1. TypeOK /\ TypeOK'
    BY DEF IInv
  <2> QED
    BY <2>1, StepFits, OwnFitsContract, ClientFitsContract, CrashFitsContract
<1> QED
  BY <1>1, <1>2, Invariance, FileInvariance, BudgetNeverExceeded, PTL DEF Spec, Supervises
=============================================================================
