------------------------- MODULE CrashRecoveryProofs -------------------------
(***************************************************************************)
(* Theorems about the recovery of crashed servers, for any servers, calls, *)
(* attempts and limits: that it is an AutoReconnect, and that a mark is    *)
(* never left without somebody to clear it.                                *)
(***************************************************************************)
EXTENDS CrashRecovery, AutoReconnectProofs

(* The service that the recovery is made of, nobody using it by hand.      *)
ServiceInv == Inv /\ AllSingle /\ touched = FALSE

CallTyped ==
  call \in [Calls -> [at : {"counted", "cleaning", "resetting"}, srv : Servers, count : Nat] \cup {Free}]

RecoveryTyped ==
  /\ crashed \in [Servers -> Nat] /\ \A s \in Servers : crashed[s] <= crashes
  /\ marked \subseteq Servers /\ late \subseteq Servers
  /\ CallTyped /\ stage \in [Attempts -> Stages] /\ crashes \in 0 .. MaxCrashes

StageOfFlight == \A a \in Attempts : stage[a] = "none" <=> flight[a] = Over

(* Who will clear the mark of s; an attempt that still looks at the mark   *)
(* cannot succeed with it.                                                 *)
HandlerOf(s) == \E k \in Calls : call[k].at = "cleaning" /\ call[k].srv = s

Retrying(s) == current[s] # None /\ state[current[s]].status \in {"PENDING", "MAX_RETRIES_EXCEEDED"}

LookingAttempt(s) == \E a \in Attempts : flight[a].srv = s /\ stage[a] # "connected"

Answered(s) == HandlerOf(s) \/ Retrying(s) \/ s \in late \/ LookingAttempt(s)

RecoveryInv == ServiceInv /\ RecoveryTyped /\ StageOfFlight /\ \A s \in marked : Answered(s)

-----------------------------------------------------------------------------
(* The recovery is the reconnection service.                               *)

LEMMA CallFacts ==
  ASSUME CallTyped, NEW k \in Calls
  PROVE  /\ call[k] = Free \/ (call[k].srv \in Servers /\ call[k].count \in Nat)
         /\ call[k].at # "free" => call[k].srv \in Servers
         /\ Free.at = "free" /\ Free.srv = None
  BY DEF CallTyped, Free

LEMMA StepIsService ==
  ASSUME RecoveryTyped, [RecoveryNext]_recoveryVars
  PROVE  /\ [Next]_vars /\ UNCHANGED touched
         /\ \/ UNCHANGED vars
            \/ \E s \in Servers : ScheduleReconnection(s) \/ TimerFires(s)
            \/ \E a \in Attempts : AttemptEnds(a)
<1>1. CASE UNCHANGED recoveryVars
  BY <1>1 DEF recoveryVars, vars
<1>2. ASSUME NEW k \in Calls, HandlerSchedules(k)
      PROVE  \/ UNCHANGED vars
             \/ (\E s \in Servers : ScheduleReconnection(s)) /\ UNCHANGED touched
  <2>1. call[k].srv \in Servers
    BY <1>2, CallFacts DEF HandlerSchedules, RecoveryTyped
  <2> QED
    BY <1>2, <2>1 DEF HandlerSchedules, Schedule, vars
<1>3. ASSUME NEW k \in Calls, NEW s \in Servers,
             RecordServerCrash(k) \/ ResetWritten(k) \/ ServerCrashes(k, s) \/ ResetCalled(k, s)
      PROVE  UNCHANGED vars
  BY <1>3 DEF RecordServerCrash, ResetWritten, ServerCrashes, ResetCalled
<1>4. ASSUME NEW a \in Attempts, ServerFound(a) \/ ErrorCleared(a) \/ HealthChecked(a) \/ Connects(a)
      PROVE  UNCHANGED vars
  BY <1>4 DEF ServerFound, ErrorCleared, HealthChecked, Connects, Reaches
<1>5. ASSUME NEW a \in Attempts, ToolsListed(a) \/ AttemptThrows(a)
      PROVE  AttemptEnds(a) /\ UNCHANGED touched
  BY <1>5 DEF ToolsListed, AttemptThrows, AttemptEnds
<1>6. ASSUME NEW s \in Servers, RetryTimer(s)
      PROVE  TimerFires(s) /\ UNCHANGED touched
  BY <1>6 DEF RetryTimer
<1>7. ASSUME NEW k \in Calls, RecordServerCrash(k) \/ ResetWritten(k)
      PROVE  UNCHANGED vars
  BY <1>7 DEF RecordServerCrash, ResetWritten
<1>8. /\ \/ UNCHANGED vars
         \/ \E s \in Servers : ScheduleReconnection(s) \/ TimerFires(s)
         \/ \E a \in Attempts : AttemptEnds(a)
      /\ UNCHANGED touched
  <2>1. CASE UNCHANGED vars
    BY <2>1 DEF vars
  <2>2. CASE ~UNCHANGED vars
    BY <2>2, <1>1, <1>2, <1>3, <1>4, <1>5, <1>6, <1>7 DEF RecoveryNext, HandlerSteps, AttemptSteps
  <2> QED
    BY <2>1, <2>2
<1> QED
  BY <1>8 DEF Next, AutomaticStep

LEMMA ServiceStep ==
  ASSUME ServiceInv, RecoveryTyped, [RecoveryNext]_recoveryVars
  PROVE  ServiceInv'
<1>1. [Next]_vars /\ touched' = FALSE
  BY StepIsService DEF ServiceInv
<1> QED
  BY <1>1, InvStep, SingleStep DEF ServiceInv

-----------------------------------------------------------------------------
(* Types, and what a beginning attempt does to the stages.                 *)

LEMMA BegunFacts ==
  ASSUME stage \in [Attempts -> Stages], StageOfFlight, Begun,
         \A a \in Attempts : flight[a] # Over => flight'[a] = flight[a]
  PROVE  /\ stage' \in [Attempts -> Stages] /\ StageOfFlight'
         /\ \A a \in Attempts : flight[a] # Over => stage'[a] = stage[a]
         /\ \A a \in Attempts : flight[a] = Over /\ flight'[a] # Over => stage'[a] = "looking"
  BY DEF Begun, StageOfFlight, Stages

LEMMA ScheduleFacts ==
  ASSUME ServiceInv, NEW s \in Servers, ScheduleReconnection(s)
  PROVE  \E o \in States : Replaced(s, o, state)
<1>1. ServiceTyped /\ state \in [States -> [status : Statuses, attempt : 0 .. MaxAttempts]] /\ Replace(s, state)
  BY DEF ServiceInv, Inv, ServiceTyped, ScheduleReconnection
<1> QED
  BY <1>1, ReplaceFacts

LEMMA TimerFacts ==
  ASSUME ServiceInv, NEW s \in Servers, TimerFires(s)
  PROVE  \E o \in States :
           /\ current[s] = o /\ UNCHANGED current
           /\ \A p \in States : p # o => state'[p] = state[p]
           /\ \/ state'[o].status = "MAX_RETRIES_EXCEEDED" /\ UNCHANGED flight
              \/ /\ state'[o].status = "RECONNECTING"
                 /\ \E a \in Attempts : /\ flight[a] = Over /\ flight'[a] = [srv |-> s, obj |-> o]
                                        /\ \A b \in Attempts : b # a => flight'[b] = flight[b]
<1>1. s \in timers /\ ServiceTyped
  BY DEF TimerFires, ServiceInv, Inv
<1>2. current[s] # None
  BY <1>1 DEF ServiceInv, AllSingle, Single
<1>3. PICK o \in States : o = current[s]
  BY <1>1, <1>2, Facts
<1>4. /\ Attempt(s, o, state) /\ UNCHANGED current
      /\ state \in [States -> [status : Statuses, attempt : 0 .. MaxAttempts]]
  BY <1>1, <1>2, <1>3 DEF TimerFires, ServiceTyped
<1>5. /\ \A p \in States : p # o => state'[p] = state[p]
      /\ \/ state'[o].status = "MAX_RETRIES_EXCEEDED" /\ UNCHANGED flight
         \/ /\ state'[o].status = "RECONNECTING"
            /\ \E a \in Attempts : /\ flight[a] = Over /\ flight'[a] = [srv |-> s, obj |-> o]
                                   /\ \A b \in Attempts : b # a => flight'[b] = flight[b]
  BY <1>1, <1>4, AttemptFacts
<1> QED
  BY <1>3, <1>4, <1>5

-----------------------------------------------------------------------------
(* Steps of handlers and resets.                                           *)

LEMMA CrashesInv ==
  ASSUME RecoveryInv, NEW k \in Calls, NEW s \in Servers, ServerCrashes(k, s)
  PROVE  RecoveryTyped' /\ StageOfFlight' /\ \A t \in marked' : Answered(t)'
<1>1. /\ RecoveryTyped /\ StageOfFlight /\ crashes \in 0 .. MaxCrashes /\ crashes < MaxCrashes
      /\ crashes' = crashes + 1 /\ crashed' = [crashed EXCEPT ![s] = @ + 1]
      /\ call[k] = Free
      /\ call' = [call EXCEPT ![k] = [at |-> "counted", srv |-> s, count |-> crashed'[s]]]
      /\ UNCHANGED <<vars, stage, marked, late>>
  BY DEF RecoveryInv, RecoveryTyped, ServerCrashes
<1>2. crashes' \in 0 .. MaxCrashes
  BY <1>1, CrashLimitsAreNat
<1>3. crashed' \in [Servers -> Nat] /\ \A t \in Servers : crashed'[t] <= crashes'
  BY <1>1 DEF RecoveryTyped
<1>4. CallTyped'
  BY <1>1, <1>3 DEF RecoveryTyped, CallTyped
<1>5. RecoveryTyped' /\ StageOfFlight'
  BY <1>1, <1>2, <1>3, <1>4 DEF RecoveryTyped, StageOfFlight, vars
<1>6. ASSUME NEW t \in marked PROVE Answered(t)'
  <2>1. HandlerOf(t) => HandlerOf(t)'
    BY <1>1 DEF HandlerOf, RecoveryTyped, CallTyped, Free
  <2> QED
    BY <1>1, <2>1 DEF RecoveryInv, Answered, Retrying, LookingAttempt, vars
<1> QED
  BY <1>1, <1>5, <1>6

LEMMA RecordInv ==
  ASSUME RecoveryInv, NEW k \in Calls, RecordServerCrash(k)
  PROVE  RecoveryTyped' /\ StageOfFlight' /\ \A t \in marked' : Answered(t)'
<1>1. /\ RecoveryTyped /\ StageOfFlight /\ call[k].at = "counted" /\ call[k].srv \in Servers
      /\ marked' \in {marked, marked \cup {call[k].srv}}
      /\ call' = [call EXCEPT ![k].at = "cleaning"]
      /\ UNCHANGED <<vars, stage, crashed, crashes, late>>
  BY CallFacts DEF RecoveryInv, RecoveryTyped, RecordServerCrash
<1>2. CallTyped'
  BY <1>1 DEF RecoveryTyped, CallTyped, Free
<1>3. /\ call'[k].at = "cleaning" /\ call'[k].srv = call[k].srv
      /\ \A j \in Calls : j # k => call'[j] = call[j]
  BY <1>1 DEF RecoveryTyped, CallTyped
<1>4. RecoveryTyped' /\ StageOfFlight'
  BY <1>1, <1>2 DEF RecoveryTyped, StageOfFlight, vars
<1>5. HandlerOf(call[k].srv)'
  BY <1>1, <1>3 DEF HandlerOf
<1>6. ASSUME NEW t \in marked PROVE Answered(t)'
  <2>1. HandlerOf(t) => HandlerOf(t)'
    BY <1>1, <1>3 DEF HandlerOf
  <2> QED
    BY <1>1, <2>1 DEF RecoveryInv, Answered, Retrying, LookingAttempt, vars
<1>7. Answered(call[k].srv)'
  BY <1>5 DEF Answered
<1>8. ASSUME NEW t \in marked' PROVE Answered(t)'
  BY <1>1, <1>6, <1>7
<1> QED
  BY <1>4, <1>8

LEMMA ResetInv ==
  ASSUME RecoveryInv, NEW k \in Calls,
         ResetWritten(k) \/ \E s \in Servers : ResetCalled(k, s)
  PROVE  RecoveryTyped' /\ StageOfFlight' /\ \A t \in marked' : Answered(t)'
<1>1. RecoveryTyped /\ StageOfFlight /\ call[k].at # "cleaning" /\ UNCHANGED <<vars, stage, crashes>>
  BY DEF RecoveryInv, ResetWritten, ResetCalled, Free
<1>2. call' \in [Calls -> [at : {"counted", "cleaning", "resetting"}, srv : Servers, count : Nat] \cup {Free}]
  BY <1>1 DEF RecoveryTyped, CallTyped, ResetWritten, ResetCalled
<1>3. /\ marked' \subseteq marked /\ late' \subseteq late
      /\ \A t \in marked' : t \in late => t \in late'
  BY DEF ResetWritten, ResetCalled, Cleared
<1>4. crashed' \in [Servers -> Nat] /\ \A t \in Servers : crashed'[t] <= crashes
  <2>1. CASE ResetWritten(k)
    BY <1>1, <2>1 DEF RecoveryTyped, ResetWritten
  <2>2. ASSUME NEW s \in Servers, ResetCalled(k, s)
        PROVE  crashed' \in [Servers -> Nat] /\ \A t \in Servers : crashed'[t] <= crashes
    BY <1>1, <2>2 DEF RecoveryTyped, ResetCalled
  <2> QED
    BY <2>1, <2>2
<1>5. RecoveryTyped' /\ StageOfFlight'
  BY <1>1, <1>2, <1>3, <1>4 DEF RecoveryTyped, CallTyped, StageOfFlight, vars
<1>6. \A j \in Calls : j # k => call'[j] = call[j]
  BY DEF ResetWritten, ResetCalled, RecoveryInv, RecoveryTyped, CallTyped
<1>7. ASSUME NEW t \in marked' PROVE Answered(t)'
  <2>1. HandlerOf(t) => HandlerOf(t)'
    BY <1>1, <1>6 DEF HandlerOf
  <2> QED
    BY <1>1, <1>3, <2>1 DEF RecoveryInv, Answered, Retrying, LookingAttempt, vars
<1> QED
  BY <1>5, <1>7

(* The handler schedules a reconnection or leaves it to the one under way. *)
LEMMA SchedulesInv ==
  ASSUME RecoveryInv, NEW k \in Calls, HandlerSchedules(k)
  PROVE  RecoveryTyped' /\ StageOfFlight' /\ \A t \in marked' : Answered(t)'
<1>1. PICK s \in Servers :
        /\ RecoveryTyped /\ StageOfFlight /\ ServiceInv /\ ServiceTyped
        /\ s = call[k].srv /\ Schedule(s) /\ Begun
        /\ call' = [call EXCEPT ![k] = Free] /\ UNCHANGED <<crashed, marked, crashes>>
  BY CallFacts DEF RecoveryInv, RecoveryTyped, HandlerSchedules, ServiceInv, Inv
<1>2. late \subseteq late' /\ late' \subseteq Servers
  BY <1>1 DEF Schedule, RecoveryTyped
<1>3. CallTyped' /\ \A j \in Calls : j # k => call'[j] = call[j]
  BY <1>1 DEF RecoveryTyped, CallTyped
<1>4. \A t \in Servers : t # s /\ HandlerOf(t) => HandlerOf(t)'
  BY <1>1, <1>3 DEF HandlerOf
<1>5. CASE ScheduleReconnection(s)
  <2>1. PICK o \in States : Replaced(s, o, state)
    BY <1>1, <1>5, ScheduleFacts
  <2>2. \A a \in Attempts : flight[a] # Over => flight'[a] = flight[a]
    BY <2>1 DEF Replaced
  <2>3. /\ stage' \in [Attempts -> Stages] /\ StageOfFlight'
        /\ \A a \in Attempts : flight[a] # Over => stage'[a] = stage[a]
        /\ \A a \in Attempts : flight[a] = Over /\ flight'[a] # Over => stage'[a] = "looking"
    BY <1>1, <2>2, BegunFacts DEF RecoveryTyped
  <2>4. Answered(s)'
    <3>1. current'[s] = o /\ current'[s] # None
      BY <1>1, <2>1, NoneIsNoState DEF Replaced
    <3>2. CASE state'[o].status = "MAX_RETRIES_EXCEEDED"
      BY <3>1, <3>2 DEF Answered, Retrying
    <3>3. ASSUME NEW a \in Attempts, flight[a] = Over, flight'[a] = [srv |-> s, obj |-> o]
          PROVE  Answered(s)'
      <4>1. flight'[a].srv = s /\ flight'[a] # Over
        BY <1>1, <3>3, NoneIsNoState DEF Over
      <4>2. stage'[a] = "looking"
        BY <2>3, <3>3, <4>1
      <4> QED
        BY <4>1, <4>2 DEF Answered, LookingAttempt
    <3> QED
      BY <2>1, <3>2, <3>3 DEF Replaced
  <2>5. ASSUME NEW t \in marked, t # s PROVE Answered(t)'
    <3>1. Retrying(t) => Retrying(t)'
      BY <1>1, <2>1, <2>5 DEF Retrying, Replaced, Unused, RecoveryTyped, ServiceTyped
    <3>2. LookingAttempt(t) => LookingAttempt(t)'
      BY <1>1, <2>2, <2>3, <2>5, Facts DEF LookingAttempt, RecoveryTyped
    <3> QED
      BY <1>1, <1>2, <1>4, <2>5, <3>1, <3>2 DEF Answered, RecoveryInv, RecoveryTyped
  <2> QED
    BY <1>1, <1>2, <1>3, <2>3, <2>4, <2>5 DEF RecoveryTyped
<1>6. CASE InProgress(s) /\ late' = (IF Trusts(s) THEN late \cup {s} ELSE late) /\ UNCHANGED vars
  <2>1. stage' = stage
    BY <1>1, <1>6 DEF Begun, vars, RecoveryTyped
  <2>2. RecoveryTyped' /\ StageOfFlight'
    BY <1>1, <1>2, <1>3, <1>6, <2>1 DEF RecoveryTyped, StageOfFlight, vars
  <2>3. Answered(s)'
    <3>1. CASE state[current[s]].status = "PENDING"
      BY <1>6, <3>1 DEF Answered, Retrying, InProgress, vars
    <3>2. CASE state[current[s]].status # "PENDING"
      <4>1. PICK a \in Attempts : flight[a] = [srv |-> s, obj |-> current[s]]
        BY <1>1, <1>6, <3>2 DEF ServiceInv, Inv, DriverPresent
      <4>2. CASE stage[a] = "connected"
        BY <1>6, <4>1, <4>2 DEF Trusts, Answered
      <4>3. CASE stage[a] # "connected"
        BY <1>6, <2>1, <4>1, <4>3 DEF Answered, LookingAttempt, vars
      <4> QED
        BY <4>2, <4>3
    <3> QED
      BY <3>1, <3>2
  <2>4. ASSUME NEW t \in marked, t # s PROVE Answered(t)'
    BY <1>1, <1>2, <1>4, <1>6, <2>1, <2>4 DEF Answered, Retrying, LookingAttempt, RecoveryInv, RecoveryTyped, vars
  <2> QED
    BY <1>1, <2>2, <2>3, <2>4
<1> QED
  BY <1>1, <1>5, <1>6 DEF Schedule

-----------------------------------------------------------------------------
(* Steps of attempts.                                                      *)

(* An attempt goes on to a stage in which it will look at the mark again,  *)
(* or has seen that the server has none.                                   *)
LEMMA StagesInv ==
  ASSUME RecoveryInv, NEW a \in Attempts,
         ServerFound(a) \/ ErrorCleared(a) \/ HealthChecked(a) \/ Connects(a)
  PROVE  RecoveryTyped' /\ StageOfFlight' /\ \A t \in marked' : Answered(t)'
<1>1. /\ RecoveryTyped /\ StageOfFlight /\ stage[a] # "none" /\ UNCHANGED <<vars, call, crashes>>
      /\ ServiceTyped
  BY DEF RecoveryInv, ServiceInv, Inv, ServerFound, ErrorCleared, HealthChecked, Connects, Reaches, own
<1>2. PICK s \in Servers : s = flight[a].srv /\ flight[a] # Over
  BY <1>1, Facts DEF StageOfFlight
<1>3. PICK place \in Stages \ {"none"} :
        /\ stage' = [stage EXCEPT ![a] = place]
        /\ place = "connected" => s \notin marked
  BY <1>2 DEF ServerFound, ErrorCleared, HealthChecked, Connects, Reaches, Refused, Stages
<1>4. stage' \in [Attempts -> Stages] /\ StageOfFlight'
  BY <1>1, <1>2, <1>3 DEF RecoveryTyped, StageOfFlight, vars
<1>5. /\ marked' \subseteq marked /\ late' \subseteq late
      /\ \A t \in marked' : t \in late => t \in late'
  BY DEF ServerFound, ErrorCleared, HealthChecked, Connects, Cleared, own
<1>6. crashed' \in [Servers -> Nat] /\ \A t \in Servers : crashed'[t] <= crashes
  <2>1. crashed' = crashed \/ crashed' = [crashed EXCEPT ![s] = 0]
    BY <1>2 DEF ServerFound, ErrorCleared, HealthChecked, Connects, own
  <2> QED
    BY <1>1, <1>2, <2>1 DEF RecoveryTyped
<1>7. RecoveryTyped'
  BY <1>1, <1>4, <1>5, <1>6 DEF RecoveryTyped, CallTyped
<1>8. ASSUME NEW t \in marked' PROVE Answered(t)'
  <2>1. LookingAttempt(t) => LookingAttempt(t)'
    <3>1. ASSUME NEW b \in Attempts, flight[b].srv = t, stage[b] # "connected"
          PROVE  flight'[b].srv = t /\ stage'[b] # "connected"
      BY <1>1, <1>2, <1>3, <1>5, <1>8, <3>1 DEF vars, RecoveryTyped
    <3> QED
      BY <3>1 DEF LookingAttempt
  <2> QED
    BY <1>1, <1>5, <2>1 DEF Answered, Retrying, HandlerOf, RecoveryInv, vars
<1> QED
  BY <1>4, <1>7, <1>8

(* An attempt ends: a success leaves the mark to a handler, or was too     *)
(* late; an error leads to another attempt or to giving up.                *)
LEMMA EndsInv ==
  ASSUME RecoveryInv, NEW a \in Attempts, ToolsListed(a) \/ AttemptThrows(a)
  PROVE  RecoveryTyped' /\ StageOfFlight' /\ \A t \in marked' : Answered(t)'
<1>1. /\ RecoveryTyped /\ StageOfFlight /\ ServiceInv /\ ServiceTyped /\ AttemptEnds(a)
      /\ stage' = [stage EXCEPT ![a] = "none"] /\ UNCHANGED own
  BY DEF RecoveryInv, ServiceInv, Inv, ToolsListed, AttemptThrows, AttemptEnds
<1>2. PICK s \in Servers, o \in States :
        /\ s = flight[a].srv /\ o = flight[a].obj
        /\ \A p \in States : p # o => state'[p] = state[p]
        /\ state'[o].status \in {"SUCCEEDED", "PENDING", "MAX_RETRIES_EXCEEDED"}
        /\ flight'[a] = Over /\ \A b \in Attempts : b # a => flight'[b] = flight[b]
        /\ UNCHANGED current
  BY <1>1, EndFacts
<1>3. current[s] = o /\ o # None /\ state[o].status = "RECONNECTING"
  BY <1>1, <1>2, NoneIsNoState DEF ServiceInv, AllSingle, Single
<1>4. /\ stage'[a] = "none" /\ \A b \in Attempts : b # a => stage'[b] = stage[b]
      /\ stage' \in [Attempts -> Stages]
  BY <1>1 DEF RecoveryTyped, Stages
<1>5. RecoveryTyped' /\ StageOfFlight'
  BY <1>1, <1>2, <1>4 DEF RecoveryTyped, CallTyped, StageOfFlight, own
<1>6. ASSUME s \in marked PROVE Answered(s)'
  <2>1. CASE ToolsListed(a)
    <3>1. stage[a] = "connected" /\ \A b \in Attempts : flight[b].srv = s => b = a
      BY <1>1, <1>2, <2>1 DEF ToolsListed, ServiceInv, AllSingle, Single
    <3>2. HandlerOf(s) \/ s \in late
      BY <1>3, <1>6, <3>1 DEF RecoveryInv, Answered, Retrying, LookingAttempt
    <3> QED
      BY <1>1, <3>2 DEF Answered, HandlerOf, own
  <2>2. CASE AttemptThrows(a)
    <3>1. state'[o].status \in {"PENDING", "MAX_RETRIES_EXCEEDED"}
      BY <1>1, <1>2, <2>2 DEF AttemptThrows, AttemptFails, RetryLater, ServiceTyped
    <3> QED
      BY <1>2, <1>3, <3>1 DEF Answered, Retrying
  <2> QED
    BY <2>1, <2>2
<1>7. ASSUME NEW t \in marked, t # s PROVE Answered(t)'
  <2>1. t \in Servers
    BY <1>1 DEF RecoveryTyped
  <2>2. Retrying(t) => Retrying(t)'
    <3>1. current[t] # None => current[t] \in States /\ current[t] # o
      BY <1>1, <1>2, <1>3, <1>7, <2>1, Facts DEF ServiceInv, Inv, OwnObject
    <3> QED
      BY <1>2, <3>1 DEF Retrying
  <2>3. LookingAttempt(t) => LookingAttempt(t)'
    BY <1>2, <1>4, <1>7 DEF LookingAttempt
  <2> QED
    BY <1>1, <2>2, <2>3 DEF RecoveryInv, Answered, HandlerOf, own
<1> QED
  BY <1>1, <1>5, <1>6, <1>7 DEF own

LEMMA RetryInv ==
  ASSUME RecoveryInv, NEW s \in Servers, RetryTimer(s)
  PROVE  RecoveryTyped' /\ StageOfFlight' /\ \A t \in marked' : Answered(t)'
<1>1. RecoveryTyped /\ StageOfFlight /\ ServiceInv /\ ServiceTyped /\ TimerFires(s) /\ Begun /\ UNCHANGED own
  BY DEF RecoveryInv, ServiceInv, Inv, RetryTimer
<1>2. PICK o \in States :
        /\ current[s] = o /\ UNCHANGED current
        /\ \A p \in States : p # o => state'[p] = state[p]
        /\ \/ state'[o].status = "MAX_RETRIES_EXCEEDED" /\ UNCHANGED flight
           \/ /\ state'[o].status = "RECONNECTING"
              /\ \E a \in Attempts : /\ flight[a] = Over /\ flight'[a] = [srv |-> s, obj |-> o]
                                     /\ \A b \in Attempts : b # a => flight'[b] = flight[b]
  BY <1>1, TimerFacts
<1>3. \A a \in Attempts : flight[a] # Over => flight'[a] = flight[a]
  BY <1>2
<1>4. /\ stage' \in [Attempts -> Stages] /\ StageOfFlight'
      /\ \A a \in Attempts : flight[a] # Over => stage'[a] = stage[a]
      /\ \A a \in Attempts : flight[a] = Over /\ flight'[a] # Over => stage'[a] = "looking"
  BY <1>1, <1>3, BegunFacts DEF RecoveryTyped
<1>5. RecoveryTyped'
  BY <1>1, <1>4 DEF RecoveryTyped, CallTyped, own
<1>6. Answered(s)'
  <2>1. CASE state'[o].status = "MAX_RETRIES_EXCEEDED"
    BY <1>2, <2>1, NoneIsNoState DEF Answered, Retrying
  <2>2. ASSUME NEW a \in Attempts, flight[a] = Over, flight'[a] = [srv |-> s, obj |-> o]
        PROVE  Answered(s)'
    <3>1. flight'[a].srv = s /\ flight'[a] # Over
      BY <2>2, NoneIsNoState DEF Over
    <3> QED
      BY <1>4, <2>2, <3>1 DEF Answered, LookingAttempt
  <2> QED
    BY <1>2, <2>1, <2>2
<1>7. ASSUME NEW t \in marked, t # s PROVE Answered(t)'
  <2>1. t \in Servers
    BY <1>1 DEF RecoveryTyped
  <2>2. Retrying(t) => Retrying(t)'
    <3>1. current[t] # None => current[t] \in States /\ current[t] # o
      BY <1>1, <1>2, <1>7, <2>1, Facts, NoneIsNoState DEF ServiceInv, Inv, OwnObject
    <3> QED
      BY <1>2, <3>1 DEF Retrying
  <2>3. LookingAttempt(t) => LookingAttempt(t)'
    BY <1>1, <1>3, <1>4, <2>1, Facts DEF LookingAttempt
  <2> QED
    BY <1>1, <2>2, <2>3 DEF RecoveryInv, Answered, HandlerOf, own
<1> QED
  BY <1>1, <1>4, <1>5, <1>6, <1>7 DEF own

-----------------------------------------------------------------------------
LEMMA RecoveryInvInit == RecoveryInit => RecoveryInv
<1> SUFFICES ASSUME RecoveryInit PROVE RecoveryInv
  OBVIOUS
<1>1. Inv /\ touched = FALSE
  BY InvInit DEF RecoveryInit, Init
<1>2. AllSingle
  BY NoneIsNoState DEF RecoveryInit, Init, AllSingle, Single, Over
<1>3. RecoveryTyped /\ StageOfFlight /\ marked = {}
  BY CrashLimitsAreNat DEF RecoveryInit, Init, RecoveryTyped, CallTyped, StageOfFlight, Stages
<1> QED
  BY <1>1, <1>2, <1>3 DEF RecoveryInv, ServiceInv

LEMMA RecoveryInvStep ==
  ASSUME RecoveryInv, [RecoveryNext]_recoveryVars
  PROVE  RecoveryInv'
<1>1. ServiceInv'
  BY ServiceStep DEF RecoveryInv
<1>2. CASE UNCHANGED recoveryVars
  BY <1>1, <1>2 DEF RecoveryInv, RecoveryTyped, CallTyped, StageOfFlight, Answered, HandlerOf, Retrying,
                    LookingAttempt, recoveryVars, vars, own
<1>3. CASE RecoveryNext
  <2>1. RecoveryTyped' /\ StageOfFlight' /\ \A t \in marked' : Answered(t)'
    BY <1>3, CrashesInv, RecordInv, ResetInv, SchedulesInv, StagesInv, EndsInv, RetryInv
       DEF RecoveryNext, HandlerSteps, AttemptSteps
  <2> QED
    BY <1>1, <2>1 DEF RecoveryInv
<1> QED
  BY <1>2, <1>3

LEMMA AnsweredIsAnswered ==
  ASSUME RecoveryInv
  PROVE  RecoveryTypeOK /\ ErrorIsAnswered
<1>1. RecoveryTyped /\ StageOfFlight /\ ServiceInv /\ ServiceTyped
  BY DEF RecoveryInv, ServiceInv, Inv
<1>2. crashed \in [Servers -> 0 .. MaxCrashes]
  BY <1>1, CrashLimitsAreNat DEF RecoveryTyped
<1>3. RecoveryTypeOK
  BY <1>1, <1>2 DEF RecoveryTypeOK, RecoveryTyped, CallTyped, StageOfFlight, TypeOK, ServiceInv
<1>4. ASSUME NEW s \in marked, LookingAttempt(s)
      PROVE  current[s] # None /\ state[current[s]].status = "RECONNECTING"
  <2>1. PICK a \in Attempts : flight[a].srv = s
    BY <1>4 DEF LookingAttempt
  <2>2. s \in Servers /\ flight[a].obj \in States
    BY <1>1, <2>1, Facts DEF RecoveryTyped
  <2> QED
    BY <1>1, <2>1, <2>2, NoneIsNoState DEF ServiceInv, AllSingle, Single
<1>5. ErrorIsAnswered
  BY <1>4 DEF ErrorIsAnswered, RecoveryInv, Answered, HandlerOf, Retrying
<1> QED
  BY <1>3, <1>5

(* Every variable keeps its type, and just the attempts in flight have a   *)
(* stage, for any number of servers, handlers and attempts.                *)
THEOREM RecoveryTypeCorrect == RecoverySpec => []RecoveryTypeOK
<1> QED
  BY RecoveryInvInit, RecoveryInvStep, AnsweredIsAnswered, PTL DEF RecoverySpec

(* A marked server has somebody who will clear the mark, unless the one    *)
(* known race has lost it.                                                 *)
THEOREM ErrorAlwaysAnswered == RecoverySpec => []ErrorIsAnswered
<1> QED
  BY RecoveryInvInit, RecoveryInvStep, AnsweredIsAnswered, PTL DEF RecoverySpec

(* Every behaviour of the recovery is one of the reconnection service, so  *)
(* that what is proved of AutoReconnect is true of it.                     *)
THEOREM RecoveryIsAutoReconnect == RecoverySpec => Spec
<1>1. RecoveryInit => Init
  BY DEF RecoveryInit
<1>2. RecoveryInv /\ [RecoveryNext]_recoveryVars => [Next]_vars
  BY StepIsService DEF RecoveryInv
<1> QED
  BY <1>1, <1>2, RecoveryInvInit, RecoveryInvStep, PTL DEF RecoverySpec, Spec

(* Crashes, however they and their handlers overlap, never make a server   *)
(* be reconnected twice at a time.                                         *)
THEOREM RecoveryOneAttempt == RecoverySpec => []OneAttempt
  BY RecoveryIsAutoReconnect, AutomaticOneAttempt, PTL
=============================================================================
