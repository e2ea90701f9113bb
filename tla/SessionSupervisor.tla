------------------------- MODULE SessionSupervisor -------------------------
(***************************************************************************)
(* The session supervisor of the TypeScript server                         *)
(* (packages/core/src/supervisor/SessionSupervisor.ts).                    *)
(*                                                                         *)
(* Every method but createSession runs to its end without an await that    *)
(* lets another one in, so an action is a whole method, a timer's callback *)
(* or the exit handler of a child.  What it does is persisted before it    *)
(* returns, unless the child of a start cannot be spawned: startSession    *)
(* throws, the session stays 'starting' without a new child, and the file  *)
(* shows what it was until the next write.  A crash may tear a write.      *)
(* autoResumeOnStart keeps its default, as in the server.                  *)
(*                                                                         *)
(* A child is known to the supervisor through runtime.process only; its    *)
(* exit handler does not say which child has exited.  A timer that is      *)
(* overwritten, or whose runtime has been replaced, still fires.  A start  *)
(* that throws in a timer, an exit handler or a restoration is an unhandled*)
(* rejection, which the server survives (MCPServer.ts:4353).               *)
(*                                                                         *)
(* Left out: logs, health, metadata, the command and its policy, the limit *)
(* on persisted sessions, shutdown (nothing calls it), and the pseudo-     *)
(* terminal supervisor that shares the file (MCPServer.ts:540).            *)
(***************************************************************************)
EXTENDS Naturals, FiniteSets

CONSTANTS
  Sessions,       \* session ids; clients name one working directory
  Isolated,       \* those created with isolateWorktree
  Procs,          \* identities of children
  Children,       \* of each session, those its children may have (a bound)
  RestartLimits,  \* of each session, the values of maxRestartAttempts a client may ask
                  \* for; 0 stands for autoRestart = false too
  MaxCrashes,     \* bound: crashes of the server
  None            \* no child

ASSUME NoneIsFresh == None \notin Procs
ASSUME ChildrenAreProcs == Children \in [Sessions -> SUBSET Procs]
ASSUME LimitsAreNat == RestartLimits \in [Sessions -> SUBSET Nat] /\ MaxCrashes \in Nat
ASSUME IsolatedAreSessions == Isolated \subseteq Sessions

VARIABLES
  sess,      \* this.sessions and this.runtimes
  file,      \* the status a restoration would read of each session; its restarts,
             \* their limit and its directory are those of the table
  creating,  \* createSession between its first and its last await
  live,      \* a session's children that have not exited
  signalled, \* those sent a signal
  loose,     \* live timers of a session that its runtime no longer names
  stale,     \* live timers of a runtime that a restoration has replaced
  crashes,
  halted,    \* history: the last request for the session was to stop it, and no
             \* restoration or crash has undone that
  astray     \* history: two children at once, or a timer or a child outlived a
             \* restoration

vars == <<sess, file, creating, live, signalled, loose, stale, crashes, halted, astray>>

Statuses == {"absent", "created", "starting", "running", "stopping", "stopped",
             "restarting", "error"}

Record == [status : Statuses, restarts : Nat, limit : Nat, shared : BOOLEAN,
           handle : Procs \cup {None}, timer : BOOLEAN, manual : BOOLEAN, again : BOOLEAN]

Absent == [status |-> "absent", restarts |-> 0, limit |-> 0, shared |-> FALSE,
           handle |-> None, timer |-> FALSE, manual |-> FALSE, again |-> FALSE]

Known(s) == sess[s].status # "absent"

(* What was under way is restarted when it is read from the file.          *)
Normalize_RunningKept(status) ==
  IF status \in {"starting", "stopping"} THEN "restarting" ELSE status

Normalize(status) ==
  IF status \in {"running", "starting", "stopping"} THEN "restarting" ELSE status

Persist == file' = [s \in Sessions |-> Normalize(sess'[s].status)]

Active(s) == sess[s].status \in {"created", "starting", "running", "restarting"}

-----------------------------------------------------------------------------
(* createSession: whether the directory is in use is seen before the       *)
(* worktree is made and the execution environment detected.                *)
CreateSession(s) ==
  /\ ~Known(s) /\ creating[s] = "no"
  /\ creating' = [creating EXCEPT ![s] =
       IF s \in Isolated /\ \E t \in Sessions : Active(t) /\ sess[t].shared
       THEN "worktree" ELSE "shared"]
  /\ UNCHANGED <<sess, file, live, signalled, loose, stale, crashes, halted, astray>>

SessionCreated(s) ==
  /\ creating[s] # "no"
  /\ \E n \in RestartLimits[s] :
       sess' = [sess EXCEPT ![s] = [Absent EXCEPT !.status = "created", !.limit = n,
                                                  !.shared = creating[s] = "shared"]]
  /\ creating' = [creating EXCEPT ![s] = "no"]
  /\ Persist
  /\ UNCHANGED <<live, signalled, loose, stale, crashes, halted, astray>>

WorktreeFails(s) ==
  /\ creating[s] = "worktree"
  /\ creating' = [creating EXCEPT ![s] = "no"]
  /\ UNCHANGED <<sess, file, live, signalled, loose, stale, crashes, halted, astray>>

-----------------------------------------------------------------------------
(* startSession, called with the record rec and the children kids.         *)
Refused(rec) == rec.handle # None /\ rec.status \in {"running", "starting"}

Starting(rec) ==
  [rec EXCEPT !.status = "starting", !.timer = FALSE, !.manual = FALSE, !.again = FALSE]

Up(rec, p) == [Starting(rec) EXCEPT !.status = "running", !.handle = p]

Start(s, rec, kids) ==
  \/ /\ Refused(rec)
     /\ sess' = [sess EXCEPT ![s] = rec] /\ live' = [live EXCEPT ![s] = kids]
     /\ UNCHANGED astray
  \/ /\ ~Refused(rec)    \* spawnProcess throws
     /\ sess' = [sess EXCEPT ![s] = Starting(rec)] /\ live' = [live EXCEPT ![s] = kids]
     /\ UNCHANGED astray
  \/ /\ ~Refused(rec)
     /\ \E p \in Children[s] \ kids :
          /\ sess' = [sess EXCEPT ![s] = Up(rec, p)]
          /\ live' = [live EXCEPT ![s] = kids \cup {p}]
          /\ astray' = IF kids = {} THEN astray ELSE astray \cup {s}

(* A start that is refused, or whose child cannot be spawned, does not     *)
(* persist.                                                                *)
PersistIfSpawned == IF live' = live THEN UNCHANGED file ELSE Persist

StartSession(s) ==
  /\ Known(s)
  /\ Start(s, sess[s], live[s]) /\ PersistIfSpawned
  /\ halted' = halted \ {s}
  /\ UNCHANGED <<creating, signalled, loose, stale, crashes>>

Signal(s) == signalled' = [signalled EXCEPT ![s] = (@ \cup {sess[s].handle}) \cap live[s]]

Stopped_KeepsAgain(rec) ==
  [rec EXCEPT !.timer = FALSE, !.manual = TRUE,
              !.status = IF rec.handle = None THEN "stopped" ELSE "stopping"]

Stopped_KeepsStatus(rec) ==
  [rec EXCEPT !.timer = FALSE, !.manual = TRUE, !.again = FALSE,
              !.status = IF rec.handle = None THEN @ ELSE "stopping"]

Stopped(rec) ==
  [rec EXCEPT !.timer = FALSE, !.manual = TRUE, !.again = FALSE,
              !.status = IF rec.handle = None THEN "stopped" ELSE "stopping"]

StopSession(s) ==
  /\ Known(s)
  /\ sess' = [sess EXCEPT ![s] = Stopped(@)]
  /\ Signal(s) /\ Persist
  /\ halted' = halted \cup {s}
  /\ UNCHANGED <<creating, live, loose, stale, crashes, astray>>

RestartSession(s) ==
  /\ Known(s)
  /\ halted' = halted \ {s}
  /\ \/ /\ sess[s].handle = None
        /\ Start(s, [sess[s] EXCEPT !.status = "restarting"], live[s])
        /\ UNCHANGED signalled
     \/ /\ sess[s].handle # None
        /\ sess' = [sess EXCEPT ![s].manual = TRUE, ![s].again = TRUE, ![s].status = "restarting"]
        /\ Signal(s)
        /\ UNCHANGED <<live, astray>>
  /\ Persist
  /\ UNCHANGED <<creating, loose, stale, crashes>>

(* updateSessionMetadata, and recordOutput of whatever child has written.  *)
Save ==
  /\ \E s \in Sessions : Known(s)
  /\ UNCHANGED <<sess, creating, live, signalled, loose, stale, crashes, halted, astray>>
  /\ Persist

-----------------------------------------------------------------------------
(* handleExit: of whichever child of the session.                          *)
BudgetLeft_OffByOne(rec) == rec.restarts <= rec.limit

BudgetLeft(rec) == rec.restarts < rec.limit

Counted_Not(rec) == rec

Counted(rec) == [rec EXCEPT !.restarts = @ + 1]

Ends(s, status) ==
  sess' = [sess EXCEPT ![s].status = status, ![s].handle = None, ![s].manual = FALSE]

HandleExit(s, p) ==
  LET rec  == [sess[s] EXCEPT !.handle = None]
      kids == live[s] \ {p}
  IN  /\ p \in live[s]
      /\ signalled' = [signalled EXCEPT ![s] = @ \ {p}]
      /\ \/ /\ rec.again
            /\ Start(s, [rec EXCEPT !.again = FALSE, !.manual = FALSE, !.status = "restarting"], kids)
            /\ UNCHANGED loose
         \/ /\ ~rec.again /\ (rec.manual \/ rec.status = "stopping")
            /\ Ends(s, "stopped") /\ live' = [live EXCEPT ![s] = kids]
            /\ UNCHANGED <<loose, astray>>
         \/ /\ ~rec.again /\ ~rec.manual /\ rec.status # "stopping" /\ BudgetLeft(rec)
            /\ sess' = [sess EXCEPT ![s] = [Counted(rec) EXCEPT !.status = "restarting",
                                                                !.timer = TRUE]]
            /\ loose' = [loose EXCEPT ![s] = IF rec.timer THEN @ + 1 ELSE @]
            /\ live' = [live EXCEPT ![s] = kids]
            /\ UNCHANGED astray
         \/ /\ ~rec.again /\ ~rec.manual /\ rec.status # "stopping" /\ ~BudgetLeft(rec)
            /\ Ends(s, "error") /\ live' = [live EXCEPT ![s] = kids]
            /\ UNCHANGED <<loose, astray>>
      /\ Persist
      /\ UNCHANGED <<creating, stale, crashes, halted>>

(* The callback forgets the timer its runtime names, whichever has fired.  *)
TimerFires(s) ==
  /\ sess[s].timer
  /\ Start(s, [sess[s] EXCEPT !.timer = FALSE], live[s]) /\ PersistIfSpawned
  /\ UNCHANGED <<creating, signalled, loose, stale, crashes, halted>>

LooseTimerFires(s) ==
  /\ loose[s] > 0
  /\ Start(s, [sess[s] EXCEPT !.timer = FALSE], live[s]) /\ PersistIfSpawned
  /\ loose' = [loose EXCEPT ![s] = IF sess[s].timer THEN @ ELSE @ - 1]
  /\ UNCHANGED <<creating, signalled, stale, crashes, halted>>

StaleTimerFires(s) ==
  /\ stale[s] > 0
  /\ Start(s, sess[s], live[s]) /\ PersistIfSpawned
  /\ stale' = [stale EXCEPT ![s] = @ - 1]
  /\ UNCHANGED <<creating, signalled, loose, crashes, halted>>

-----------------------------------------------------------------------------
(* restoreSessions, with the children kids that still report their exit:   *)
(* what was under way, a stop included, is restarted at once.              *)
Restored(s) ==
  [Absent EXCEPT !.status = file[s], !.restarts = sess[s].restarts, !.limit = sess[s].limit,
                 !.shared = sess[s].shared]

Resume(table, kids) ==
  LET resumed == {s \in Sessions : table[s].status = "restarting"}
  IN  \E child \in [resumed -> Procs \cup {None}] :    \* None: spawnProcess throws
        /\ \A s \in resumed : child[s] \in (Children[s] \ kids[s]) \cup {None}
        /\ sess' = [s \in Sessions |-> IF s \notin resumed THEN table[s]
                                       ELSE IF child[s] = None THEN Starting(table[s])
                                       ELSE Up(table[s], child[s])]
        /\ live' = [s \in Sessions |-> IF s \in resumed THEN kids[s] \cup ({child[s]} \ {None})
                                       ELSE kids[s]]
        /\ Persist

(* A stop that has not come to its end is undone.                          *)
StillHalted == halted' = {s \in halted : sess'[s].status = "stopped"}

RestoreSessions ==
  /\ Resume([s \in Sessions |-> Restored(s)], live)
  /\ stale' = [s \in Sessions |-> stale[s] + loose[s] + (IF sess[s].timer THEN 1 ELSE 0)]
  /\ loose' = [s \in Sessions |-> 0]
  /\ StillHalted
  /\ astray' = astray \cup {s \in Sessions : stale'[s] > 0 \/ ~(live'[s] \subseteq {sess'[s].handle})}
  /\ UNCHANGED <<creating, signalled, crashes>>

(* The server dies, perhaps while writing the file, and is started again.  *)
(* Nobody watches the children it leaves.  An error event of a child that  *)
(* could not be spawned, which nobody handles, is one way to die.          *)
Crash ==
  /\ crashes < MaxCrashes /\ crashes' = crashes + 1
  /\ \E torn \in BOOLEAN :
       Resume([s \in Sessions |-> IF torn THEN Absent ELSE Restored(s)],
              [s \in Sessions |-> {}])
  /\ creating' = [s \in Sessions |-> "no"]
  /\ signalled' = [s \in Sessions |-> {}]
  /\ loose' = [s \in Sessions |-> 0] /\ stale' = loose'
  /\ StillHalted
  /\ astray' = {}

-----------------------------------------------------------------------------
Init ==
  /\ sess = [s \in Sessions |-> Absent] /\ file = [s \in Sessions |-> "absent"]
  /\ creating = [s \in Sessions |-> "no"]
  /\ live = [s \in Sessions |-> {}] /\ signalled = live
  /\ loose = [s \in Sessions |-> 0] /\ stale = loose
  /\ crashes = 0 /\ halted = {} /\ astray = {}

Requests(s) ==
  \/ CreateSession(s) \/ SessionCreated(s) \/ WorktreeFails(s)
  \/ StartSession(s) \/ StopSession(s) \/ RestartSession(s)

Timers(s) == TimerFires(s) \/ LooseTimerFires(s) \/ StaleTimerFires(s)

Next ==
  \/ \E s \in Sessions : Requests(s) \/ Timers(s) \/ \E p \in Procs : HandleExit(s, p)
  \/ Save \/ RestoreSessions \/ Crash

Spec == Init /\ [][Next]_vars

(* Timers fire, and of the children that have been sent a signal one exits.*)
Fairness ==
  \A s \in Sessions :
    WF_vars(TimerFires(s)) /\ WF_vars(\E p \in signalled[s] : HandleExit(s, p))

FairSpec == Spec /\ Fairness

-----------------------------------------------------------------------------
(* Properties.                                                             *)

TypeOK ==
  /\ sess \in [Sessions -> Record] /\ file \in [Sessions -> Statuses]
  /\ \A s \in Sessions : sess[s].restarts <= sess[s].limit
  /\ creating \in [Sessions -> {"no", "worktree", "shared"}]
  /\ live \in [Sessions -> SUBSET Procs] /\ signalled \in [Sessions -> SUBSET Procs]
  /\ loose \in [Sessions -> Nat] /\ stale \in [Sessions -> Nat]
  /\ crashes \in 0 .. MaxCrashes /\ halted \subseteq Sessions /\ astray \subseteq Sessions

(* A session shown as running has a child that runs, and the child the     *)
(* supervisor would stop is one that has not exited, although the exit of  *)
(* any other child of the session takes the handle away.                   *)
RunningIsAlive ==
  \A s \in Sessions :
    /\ sess[s].status = "running" => sess[s].handle # None
    /\ sess[s].handle # None => sess[s].handle \in live[s]

(* A stop or a restart that is under way has somebody who will move it on: *)
(* a timer for its restart, or a signalled child whose exit stops or       *)
(* restarts it.  ('starting' is what a start that failed leaves behind: it *)
(* may have neither, and waits for a client.)                              *)
TransientHasDriver ==
  \A s \in Sessions :
    sess[s].status \in {"stopping", "restarting"} =>
      sess[s].timer \/ sess[s].handle \in signalled[s]

(* What has been stopped stays stopped: until a client starts or restarts  *)
(* it, a halted session is given no child, by a timer, an exit, a          *)
(* restoration or a crash.  Two things break this in the code, and are     *)
(* named here: a restoration or a crash before the stop has come to its    *)
(* end, which restarts what it reads as 'stopping' (605-608, 386-389), and *)
(* what happens to a session that has had two children at a time, or of    *)
(* which a timer or a child has outlived a restoration.                    *)
StopSticks ==
  [][\A s \in halted :
       \/ live'[s] \subseteq live[s]
       \/ StartSession(s) \/ RestartSession(s)
       \/ sess[s].status = "stopping" /\ (RestoreSessions \/ Crash)
       \/ s \in astray \cup astray']_vars

(* Restarts that were used up stay used up, whatever is stopped, started,  *)
(* restored or crashes, unless the record of the session is lost.          *)
BudgetNeverRefunded ==
  [][\A s \in Sessions : Known(s)' => sess'[s].restarts >= sess[s].restarts]_vars

(* What the table shows of a session.                                      *)
Entry(s) ==
  IF Known(s)
  THEN [phase |-> IF sess[s].status \in {"starting", "running", "stopping", "restarting"}
                  THEN "active" ELSE sess[s].status,
        restarts |-> sess[s].restarts, limit |-> sess[s].limit]
  ELSE [phase |-> "unknown", restarts |-> 0, limit |-> 0]

(* The starts of s that have been granted, by their number: its timers,    *)
(* and a restart that has been asked for and waits for an exit.            *)
Pending(s) ==
  1 .. ((IF sess[s].timer THEN 1 ELSE 0) + loose[s] + stale[s] + (IF sess[s].again THEN 1 ELSE 0))

Contract(s) == INSTANCE Supervision
                 WITH Limits <- RestartLimits[s], session <- Entry(s),
                      pending <- Pending(s), up <- live[s]

(* Each session implements Supervision, and what Supervision leaves to     *)
(* clients or to a recovery happens only when a client asks for it of this *)
(* session, or at a restoration or a crash: whichever child exits and      *)
(* whichever timer fires, a session is not restarted without using up an   *)
(* attempt, has no child spawned that nobody asked for and no attempt paid *)
(* for, is in error only when no attempt is left, and gets none back       *)
(* unless its record is lost.                                              *)
Supervises ==
  /\ \A s \in Sessions : Contract(s)!Init
  /\ [][\A s \in Sessions :
           [\/ Contract(s)!Own
            \/ Contract(s)!Client /\ Requests(s)
            \/ Contract(s)!Recovery /\ (RestoreSessions \/ Crash)]_(Contract(s)!vars)]_vars

(* A stop or a restart comes to its end.                                   *)
TransientSettles ==
  \A s \in Sessions : sess[s].status \in {"stopping", "restarting"}
                        ~> sess[s].status \notin {"stopping", "restarting"}

(* "Only allocate a worktree when another active session already occupies  *)
(* the same working directory [...] subsequent parallel sessions get       *)
(* isolated worktrees" (SessionSupervisor.ts:452).                         *)
LaterSessionsIsolated ==
  [][\A s \in Isolated :
       ~Known(s) /\ Known(s)' /\ sess'[s].shared =>
         ~ \E t \in Sessions \ {s} : Active(t) /\ sess[t].shared]_vars
=============================================================================
