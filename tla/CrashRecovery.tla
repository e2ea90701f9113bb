---------------------------- MODULE CrashRecovery ----------------------------
(***************************************************************************)
(* From the crash of a downstream server to its recovery: the crash        *)
(* handler of the pool, the error tracker with the error status in the     *)
(* database, and the attempts of the reconnection service with the health  *)
(* check they end in (packages/core/src/services: mcp-server-pool, server- *)
(* error-tracker, auto-reconnect, server-health and mcp-client).           *)
(*                                                                         *)
(* A step is what runs between two awaits.  The reconnection service is    *)
(* the module AutoReconnect, whose attempts are opened up here: where that *)
(* module lets an attempt end, this one lets it look the server up, clear  *)
(* its error, check its health and connect.                                *)
(*                                                                         *)
(* Left out: the pool's sessions (module ServerPool), the health states    *)
(* (a failed check schedules a reconnection, which is skipped because the  *)
(* only caller of the check is an attempt under way), reads of the error   *)
(* status that fail, and limits that change meanwhile.                     *)
(***************************************************************************)
EXTENDS AutoReconnect

CONSTANTS
  Calls,       \* crash handlers and resets that may be in flight at once (a bound)
  CrashLimit,  \* getServerMaxAttempts
  MaxCrashes   \* bound: crashes of servers

ASSUME CrashLimitsAreNat == CrashLimit \in Nat /\ MaxCrashes \in Nat

VARIABLES
  crashed,  \* crashAttempts
  marked,   \* the servers whose error_status in the database is ERROR
  call,     \* the crash handlers and resets in flight
  stage,    \* how far an attempt of the reconnection service has come
  crashes,  \* number of crashes
  late      \* history: servers whose crash handler trusted an attempt that no longer looked

own == <<crashed, marked, call, crashes, late>>
recoveryVars == <<vars, stage, own>>

Stages == {"none", "looking", "clearing", "cleared", "connecting", "connected"}

Free == [at |-> "free", srv |-> None, count |-> 0]

(* An attempt that the reconnection service has begun in this step.        *)
Begun ==
  stage' = [a \in Attempts |-> IF flight[a] = Over /\ flight'[a] # Over THEN "looking" ELSE stage[a]]

-----------------------------------------------------------------------------
(* handleServerCrash, with recordServerCrash: the count is read and        *)
(* written before the limit is awaited, the mark is written afterwards.    *)
ServerCrashes(k, s) ==
  /\ call[k] = Free /\ crashes < MaxCrashes
  /\ crashes' = crashes + 1
  /\ crashed' = [crashed EXCEPT ![s] = @ + 1]
  /\ call' = [call EXCEPT ![k] = [at |-> "counted", srv |-> s, count |-> crashed'[s]]]
  /\ UNCHANGED <<vars, stage, marked, late>>

RecordServerCrash(k) ==
  /\ call[k].at = "counted"
  /\ \/ call[k].count >= CrashLimit /\ marked' = marked \cup {call[k].srv}
     \/ UNCHANGED marked
  /\ call' = [call EXCEPT ![k].at = "cleaning"]
  /\ UNCHANGED <<vars, stage, crashed, crashes, late>>

(* The sessions have been cleaned up: the reconnection is scheduled, or    *)
(* left to the one in progress.                                            *)
Trusts(s) == \E a \in Attempts : flight[a].srv = s /\ stage[a] = "connected"

Schedule_Unguarded(s) == Replace(s, state) /\ UNCHANGED <<timers, enabled, touched, late>>

Schedule(s) ==
  \/ ScheduleReconnection(s) /\ UNCHANGED <<touched, late>>
  \/ /\ InProgress(s)
     /\ late' = IF Trusts(s) THEN late \cup {s} ELSE late
     /\ UNCHANGED vars

HandlerSchedules(k) ==
  /\ call[k].at = "cleaning"
  /\ Schedule(call[k].srv)
  /\ Begun
  /\ call' = [call EXCEPT ![k] = Free]
  /\ UNCHANGED <<crashed, marked, crashes>>

(* resetServerErrorState, called by an administrator.                      *)
ResetCalled(k, s) ==
  /\ call[k] = Free
  /\ crashed' = [crashed EXCEPT ![s] = 0]
  /\ call' = [call EXCEPT ![k] = [at |-> "resetting", srv |-> s, count |-> 0]]
  /\ UNCHANGED <<vars, stage, marked, crashes, late>>

Cleared(s) == marked' = marked \ {s} /\ late' = late \ {s}

ResetWritten(k) ==
  /\ call[k].at = "resetting"
  /\ Cleared(call[k].srv) \/ UNCHANGED <<marked, late>>
  /\ call' = [call EXCEPT ![k] = Free]
  /\ UNCHANGED <<vars, stage, crashed, crashes>>

-----------------------------------------------------------------------------
(* attemptReconnection, between its awaits.                                *)
Reaches(a, place) == stage' = [stage EXCEPT ![a] = place] /\ UNCHANGED vars

ServerFound(a) ==
  /\ stage[a] = "looking"
  /\ crashed' = [crashed EXCEPT ![flight[a].srv] = 0]
  /\ Reaches(a, "clearing")
  /\ UNCHANGED <<marked, call, crashes, late>>

(* A write that fails is logged; the attempt goes on.                      *)
ErrorCleared(a) ==
  /\ stage[a] = "clearing"
  /\ Cleared(flight[a].srv) \/ UNCHANGED <<marked, late>>
  /\ Reaches(a, "cleared")
  /\ UNCHANGED <<crashed, call, crashes>>

(* checkServerHealth and connecthypernexusClient both look at the mark.    *)
Refused(a) == flight[a].srv \in marked

HealthChecked(a) ==
  /\ stage[a] = "cleared" /\ ~Refused(a)
  /\ Reaches(a, "connecting")
  /\ UNCHANGED own

Connects(a) ==
  /\ stage[a] = "connecting" /\ ~Refused(a)
  /\ Reaches(a, "connected")
  /\ UNCHANGED own

ToolsListed(a) ==
  /\ stage[a] = "connected"
  /\ AttemptSucceeds(a) /\ UNCHANGED touched
  /\ stage' = [stage EXCEPT ![a] = "none"]
  /\ UNCHANGED own

(* The server is unknown, the pool or the server fails, the mark is there, *)
(* or the time of the health check is over.                                *)
AttemptThrows_UnlessRefused(a) ==
  /\ stage[a] \notin {"none", "clearing"} /\ ~Refused(a)
  /\ AttemptFails(a) /\ UNCHANGED touched
  /\ stage' = [stage EXCEPT ![a] = "none"]
  /\ UNCHANGED own

AttemptThrows(a) ==
  /\ stage[a] \notin {"none", "clearing"}
  /\ AttemptFails(a) /\ UNCHANGED touched
  /\ stage' = [stage EXCEPT ![a] = "none"]
  /\ UNCHANGED own

RetryTimer(s) ==
  /\ TimerFires(s) /\ UNCHANGED touched
  /\ Begun
  /\ UNCHANGED own

-----------------------------------------------------------------------------
RecoveryInit ==
  /\ Init
  /\ crashed = [s \in Servers |-> 0] /\ marked = {}
  /\ call = [k \in Calls |-> Free]
  /\ stage = [a \in Attempts |-> "none"]
  /\ crashes = 0 /\ late = {}

AttemptSteps(a) ==
  \/ ServerFound(a) \/ ErrorCleared(a) \/ HealthChecked(a) \/ Connects(a)
  \/ ToolsListed(a) \/ AttemptThrows(a)

HandlerSteps(k) == RecordServerCrash(k) \/ HandlerSchedules(k) \/ ResetWritten(k)

RecoveryNext ==
  \/ \E k \in Calls : HandlerSteps(k) \/ \E s \in Servers : ServerCrashes(k, s) \/ ResetCalled(k, s)
  \/ \E a \in Attempts : AttemptSteps(a)
  \/ \E s \in Servers : RetryTimer(s)

RecoverySpec == RecoveryInit /\ [][RecoveryNext]_recoveryVars

(* The database, the pool and the health check return, timers fire.        *)
RecoveryFairness ==
  /\ \A k \in Calls : WF_recoveryVars(HandlerSteps(k))
  /\ \A a \in Attempts : WF_recoveryVars(AttemptSteps(a))
  /\ \A s \in Servers : WF_recoveryVars(RetryTimer(s))

FairRecoverySpec == RecoverySpec /\ RecoveryFairness

-----------------------------------------------------------------------------
(* Properties.                                                             *)

RecoveryTypeOK ==
  /\ TypeOK
  /\ crashed \in [Servers -> 0 .. MaxCrashes] /\ marked \subseteq Servers /\ late \subseteq Servers
  /\ call \in [Calls -> [at : {"counted", "cleaning", "resetting"}, srv : Servers, count : Nat] \cup {Free}]
  /\ stage \in [Attempts -> Stages] /\ crashes \in 0 .. MaxCrashes
  /\ \A a \in Attempts : stage[a] = "none" <=> flight[a] = Over

(* A server marked ERROR, which nobody connects to any more, has somebody  *)
(* who will clear it: the handler of its crash, which is about to schedule *)
(* a reconnection, or a reconnection under way; unless reconnecting has    *)
(* been given up, or the handler left it to an attempt that had already    *)
(* seen the server without the mark and then succeeds.                     *)
ErrorIsAnswered ==
  \A s \in marked :
    \/ \E k \in Calls : call[k].at = "cleaning" /\ call[k].srv = s
    \/ current[s] # None /\ state[current[s]].status \in {"PENDING", "RECONNECTING", "MAX_RETRIES_EXCEEDED"}
    \/ s \in late

(* A mark does not last: it is cleared, unless reconnecting is given up or *)
(* the handler came too late.                                              *)
ErrorClears ==
  \A s \in Servers :
    s \in marked ~> \/ s \notin marked \/ s \in late
                    \/ current[s] # None /\ state[current[s]].status = "MAX_RETRIES_EXCEEDED"

(* With attempts opened up and called by crashes only, the reconnection    *)
(* service is still the one of AutoReconnect, fairness included: that its  *)
(* attempts end follows from the database, pool and health check returning.*)
ImplementsAutoReconnect == FairSpec
=============================================================================
