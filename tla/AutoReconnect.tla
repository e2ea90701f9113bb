---------------------------- MODULE AutoReconnect ----------------------------
(***************************************************************************)
(* The reconnection of downstream servers after a crash or failed health   *)
(* checks (packages/core/src/services/auto-reconnect.service.ts).          *)
(*                                                                         *)
(* A server's reconnection is an OBJECT, replaced when a new one is        *)
(* scheduled.  An attempt keeps the object it started with across its      *)
(* awaits (the database, the pool, the health check), while the map may    *)
(* come to hold another; a timer looks the object up when it fires.  The   *)
(* last timer started for a server is the only one that can be pending:    *)
(* the earlier one is cleared first.                                       *)
(*                                                                         *)
(* Left out: the statistics, the listeners, the length of the delays, the  *)
(* switches by reason (both on), and a change of maxAttempts while a       *)
(* reconnection is under way.  In the repository only scheduleReconnection *)
(* has callers; touched remembers whether the rest of the service's        *)
(* interface has been used.                                                *)
(***************************************************************************)
EXTENDS Naturals

CONSTANTS
  Servers,      \* server uuids
  States,       \* reconnection objects; recycled once forgotten (a bound)
  Attempts,     \* attempts that may be in flight at once (a bound)
  MaxAttempts,  \* config.maxAttempts
  None

ASSUME MaxAttemptsIsNat == MaxAttempts \in Nat
ASSUME NoneIsNoState == None \notin States \cup Servers

VARIABLES
  current,  \* reconnectionStates: the object of each server, None if it has none
  state,    \* the contents of the objects
  timers,   \* the servers whose timer is pending
  flight,   \* the attempts in flight: for which server, with which object
  enabled,  \* isEnabled
  touched   \* history: whether a cancel, trigger, reset, clear or setEnabled has been called

vars == <<current, state, timers, flight, enabled, touched>>

Statuses == {"PENDING", "RECONNECTING", "SUCCEEDED", "CANCELLED", "MAX_RETRIES_EXCEEDED"}

Over == [srv |-> None, obj |-> None]

InProgress(s) == current[s] # None /\ state[current[s]].status \in {"PENDING", "RECONNECTING"}

Unused(o) == (\A s \in Servers : current[s] # o) /\ (\A a \in Attempts : flight[a].obj # o)

(* attemptReconnection, up to its first await.                             *)
Attempt_Uncounted(s, o, st) ==
  \E a \in Attempts :
    /\ flight[a] = Over
    /\ flight' = [flight EXCEPT ![a] = [srv |-> s, obj |-> o]]
    /\ state' = [st EXCEPT ![o].status = "RECONNECTING"]

Attempt_Unchecked(s, o, st) ==
  \E a \in Attempts :
    /\ flight[a] = Over
    /\ flight' = [flight EXCEPT ![a] = [srv |-> s, obj |-> o]]
    /\ state' = [st EXCEPT ![o] = [status |-> "RECONNECTING", attempt |-> @.attempt + 1]]

Attempt(s, o, st) ==
  IF st[o].attempt >= MaxAttempts
  THEN state' = [st EXCEPT ![o].status = "MAX_RETRIES_EXCEEDED"] /\ UNCHANGED flight
  ELSE \E a \in Attempts :
         /\ flight[a] = Over
         /\ flight' = [flight EXCEPT ![a] = [srv |-> s, obj |-> o]]
         /\ state' = [st EXCEPT ![o] = [status |-> "RECONNECTING", attempt |-> @.attempt + 1]]

(* A new object takes the server's place in the map.                       *)
Replace_Reuses(s, st) ==
  \E o \in States :
    /\ IF current[s] = None THEN Unused(o) ELSE o = current[s]
    /\ current' = [current EXCEPT ![s] = o]
    /\ Attempt(s, o, [st EXCEPT ![o] = [status |-> "PENDING", attempt |-> 0]])

Replace(s, st) ==
  \E o \in States :
    /\ Unused(o)
    /\ current' = [current EXCEPT ![s] = o]
    /\ Attempt(s, o, [st EXCEPT ![o] = [status |-> "PENDING", attempt |-> 0]])

(* scheduleReconnection, when it does not skip.                            *)
ScheduleReconnection(s) ==
  /\ enabled /\ ~InProgress(s)
  /\ Replace(s, state)
  /\ UNCHANGED <<timers, enabled>>

(* What follows the awaits of an attempt.                                  *)
AttemptSucceeds(a) ==
  /\ flight[a] # Over
  /\ state' = [state EXCEPT ![flight[a].obj] = [status |-> "SUCCEEDED", attempt |-> 0]]
  /\ flight' = [flight EXCEPT ![a] = Over]
  /\ UNCHANGED <<current, timers, enabled>>

RetryLater(a) ==
  /\ state' = [state EXCEPT ![flight[a].obj].status = "PENDING"]
  /\ timers' = timers \cup {flight[a].srv}

AttemptFails(a) ==
  /\ flight[a] # Over
  /\ IF state[flight[a].obj].attempt < MaxAttempts
     THEN RetryLater(a)
     ELSE /\ state' = [state EXCEPT ![flight[a].obj].status = "MAX_RETRIES_EXCEEDED"]
          /\ UNCHANGED timers
  /\ flight' = [flight EXCEPT ![a] = Over]
  /\ UNCHANGED <<current, enabled>>

TimerFires_Again(s) ==
  /\ s \in timers
  /\ current[s] # None
  /\ Attempt(s, current[s], state)
  /\ UNCHANGED <<timers, current, enabled>>

TimerFires(s) ==
  /\ s \in timers
  /\ timers' = timers \ {s}
  /\ IF current[s] = None THEN UNCHANGED <<state, flight>> ELSE Attempt(s, current[s], state)
  /\ UNCHANGED <<current, enabled>>

(* cancelReconnection: whatever the status, an attempt in flight included. *)
Cancelled(s) ==
  IF current[s] = None THEN state ELSE [state EXCEPT ![current[s]].status = "CANCELLED"]

CancelReconnection(s) ==
  /\ state' = Cancelled(s)
  /\ timers' = timers \ {s}
  /\ UNCHANGED <<current, flight, enabled>>

TriggerReconnection(s) ==
  /\ enabled
  /\ timers' = timers \ {s}
  /\ Replace(s, Cancelled(s))
  /\ UNCHANGED enabled

ResetReconnectionState(s) ==
  /\ state' = Cancelled(s)
  /\ timers' = timers \ {s}
  /\ current' = [current EXCEPT ![s] = None]
  /\ UNCHANGED <<flight, enabled>>

(* cancelAllReconnections                                                  *)
CancelAll_KeepsStatus == timers' = {} /\ UNCHANGED state

CancelAll ==
  /\ timers' = {}
  /\ state' = [o \in States |->
       IF \E s \in Servers : current[s] = o /\ InProgress(s)
       THEN [state[o] EXCEPT !.status = "CANCELLED"] ELSE state[o]]

SetEnabled(on) ==
  /\ enabled' = on
  /\ IF on THEN UNCHANGED <<state, timers>> ELSE CancelAll
  /\ UNCHANGED <<current, flight>>

ClearAllStates ==
  /\ CancelAll
  /\ current' = [s \in Servers |-> None]
  /\ UNCHANGED <<flight, enabled>>

Init ==
  /\ current = [s \in Servers |-> None]
  /\ state = [o \in States |-> [status |-> "CANCELLED", attempt |-> 0]]
  /\ timers = {}
  /\ flight = [a \in Attempts |-> Over]
  /\ enabled = TRUE
  /\ touched = FALSE

AttemptEnds(a) == AttemptSucceeds(a) \/ AttemptFails(a)

ManualStep ==
  /\ touched' = TRUE
  /\ \/ \E s \in Servers : CancelReconnection(s) \/ TriggerReconnection(s) \/ ResetReconnectionState(s)
     \/ \E on \in BOOLEAN : SetEnabled(on)
     \/ ClearAllStates

AutomaticStep ==
  /\ UNCHANGED touched
  /\ \/ \E s \in Servers : ScheduleReconnection(s) \/ TimerFires(s)
     \/ \E a \in Attempts : AttemptEnds(a)

Next == AutomaticStep \/ ManualStep

Spec == Init /\ [][Next]_vars

(* The awaits of an attempt settle (a health check has a time-out), and a  *)
(* timer that is due fires.                                                *)
Fairness ==
  /\ \A a \in Attempts : WF_vars(AttemptEnds(a) /\ UNCHANGED touched)
  /\ \A s \in Servers : WF_vars(TimerFires(s) /\ UNCHANGED touched)

FairSpec == Spec /\ Fairness

-----------------------------------------------------------------------------
(* Properties.                                                             *)

ServiceTyped ==
  /\ current \in [Servers -> States \cup {None}]
  /\ state \in [States -> [status : Statuses, attempt : 0 .. MaxAttempts]]
  /\ timers \subseteq Servers
  /\ flight \in [Attempts -> [srv : Servers, obj : States] \cup {Over}]
  /\ enabled \in BOOLEAN

TypeOK == ServiceTyped /\ touched \in BOOLEAN

(* A reconnection shown as under way is: a pending one has a timer and a   *)
(* reconnecting one an attempt in flight, or scheduleReconnection would    *)
(* skip the server for ever.                                               *)
DriverPresent ==
  \A s \in Servers : InProgress(s) =>
    IF state[current[s]].status = "PENDING" THEN s \in timers
    ELSE \E a \in Attempts : flight[a] = [srv |-> s, obj |-> current[s]]

(* Crashes and health checks alone never make a server be reconnected      *)
(* twice at a time: one attempt in flight or one timer, and only while the *)
(* reconnection is under way ("Reconnection already in progress", 156).    *)
OneAttempt ==
  ~touched => \A s \in Servers :
    /\ \A a, b \in Attempts : flight[a].srv = s /\ flight[b].srv = s => a = b
    /\ \A a \in Attempts : flight[a].srv = s =>
         s \notin timers /\ current[s] = flight[a].obj /\ state[current[s]].status = "RECONNECTING"
    /\ s \in timers => current[s] # None /\ state[current[s]].status = "PENDING"

(* Once a server has been reconnected, nothing but a new schedule shows it *)
(* otherwise or connects it again: no attempt or timer of before is left.  *)
SuccessSticks ==
  [][\A s \in Servers :
       (~touched' /\ current[s] # None /\ current'[s] = current[s] /\ state[current[s]].status = "SUCCEEDED")
         => state'[current[s]].status = "SUCCEEDED"]_vars

(* Every reconnection ends, in success or in giving up, unless somebody    *)
(* interferes.                                                             *)
ReconnectionEnds == \A s \in Servers : InProgress(s) ~> ~InProgress(s) \/ touched
=============================================================================
