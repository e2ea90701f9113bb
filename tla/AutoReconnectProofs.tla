------------------------- MODULE AutoReconnectProofs -------------------------
(***************************************************************************)
(* Theorems about the reconnection service, for any servers, objects and   *)
(* attempts and any limit of attempts.                                     *)
(***************************************************************************)
EXTENDS AutoReconnect, TLAPS

(* Two servers never have the same object, and an attempt with a server's  *)
(* object is an attempt for that server.                                   *)
OwnObject == \A s, t \in Servers : current[s] # None /\ current[s] = current[t] => s = t

OwnAttempt ==
  \A a \in Attempts, s \in Servers :
    flight[a].obj = current[s] /\ current[s] # None => flight[a].srv = s

Inv == ServiceTyped /\ OwnObject /\ OwnAttempt /\ DriverPresent

(* The server a step is about; nothing is said of the others' objects.     *)
LEMMA Facts ==
  ASSUME ServiceTyped
  PROVE  /\ \A s \in Servers : current[s] \in States \cup {None}
         /\ \A a \in Attempts : /\ flight[a] = Over \/ (flight[a].srv \in Servers /\ flight[a].obj \in States)
                                /\ flight[a] = [srv |-> flight[a].srv, obj |-> flight[a].obj]
         /\ None \notin States /\ None \notin Servers
         /\ Over.srv = None /\ Over.obj = None
  BY NoneIsNoState DEF ServiceTyped, Over

LEMMA CancelledTyped ==
  ASSUME ServiceTyped, NEW s \in Servers
  PROVE  /\ Cancelled(s) \in [States -> [status : Statuses, attempt : 0 .. MaxAttempts]]
         /\ \A o \in States : o # current[s] => Cancelled(s)[o] = state[o]
         /\ current[s] # None => Cancelled(s)[current[s]].status = "CANCELLED"
<1>1. CASE current[s] = None
  BY <1>1 DEF Cancelled, ServiceTyped
<1>2. CASE current[s] # None
  <2>1. current[s] \in States
    BY <1>2 DEF ServiceTyped
  <2>2. Cancelled(s) = [state EXCEPT ![current[s]].status = "CANCELLED"]
    BY <1>2 DEF Cancelled
  <2> QED
    BY <1>2, <2>1, <2>2 DEF ServiceTyped, Statuses
<1> QED
  BY <1>1, <1>2

(* attemptReconnection with an object: it is given up or an attempt is in  *)
(* flight with it, and nothing else changes.                               *)
LEMMA AttemptFacts ==
  ASSUME ServiceTyped, NEW s \in Servers, NEW o \in States,
         NEW st \in [States -> [status : Statuses, attempt : 0 .. MaxAttempts]], Attempt(s, o, st)
  PROVE  /\ state' \in [States -> [status : Statuses, attempt : 0 .. MaxAttempts]]
         /\ flight' \in [Attempts -> [srv : Servers, obj : States] \cup {Over}]
         /\ \A p \in States : p # o => state'[p] = st[p]
         /\ \/ state'[o].status = "MAX_RETRIES_EXCEEDED" /\ UNCHANGED flight
            \/ /\ state'[o].status = "RECONNECTING"
               /\ \E a \in Attempts : /\ flight[a] = Over /\ flight'[a] = [srv |-> s, obj |-> o]
                                      /\ \A b \in Attempts : b # a => flight'[b] = flight[b]
<1>1. CASE st[o].attempt >= MaxAttempts
  <2>1. state' = [st EXCEPT ![o].status = "MAX_RETRIES_EXCEEDED"] /\ UNCHANGED flight
    BY <1>1 DEF Attempt
  <2> QED
    BY <2>1 DEF ServiceTyped, Statuses
<1>2. CASE ~(st[o].attempt >= MaxAttempts)
  <2>1. PICK a \in Attempts :
          /\ flight[a] = Over
          /\ flight' = [flight EXCEPT ![a] = [srv |-> s, obj |-> o]]
          /\ state' = [st EXCEPT ![o] = [status |-> "RECONNECTING", attempt |-> @.attempt + 1]]
    BY <1>2 DEF Attempt
  <2>2. st[o].attempt + 1 \in 0 .. MaxAttempts
    BY <1>2, MaxAttemptsIsNat
  <2>3. [status |-> "RECONNECTING", attempt |-> st[o].attempt + 1]
          \in [status : Statuses, attempt : 0 .. MaxAttempts]
    BY <2>2 DEF Statuses
  <2>4. /\ state' \in [States -> [status : Statuses, attempt : 0 .. MaxAttempts]]
        /\ \A p \in States : p # o => state'[p] = st[p]
        /\ state'[o].status = "RECONNECTING"
    BY <2>1, <2>3
  <2>5. /\ flight' \in [Attempts -> [srv : Servers, obj : States] \cup {Over}]
        /\ flight'[a] = [srv |-> s, obj |-> o]
        /\ \A b \in Attempts : b # a => flight'[b] = flight[b]
    BY <2>1 DEF ServiceTyped
  <2> QED
    BY <2>1, <2>4, <2>5
<1> QED
  BY <1>1, <1>2

(* A new object for a server: nobody had it.                               *)
Replaced(s, o, st) ==
  /\ Unused(o)
  /\ current' \in [Servers -> States \cup {None}]
  /\ \A t \in Servers : current'[t] = IF t = s THEN o ELSE current[t]
  /\ state' \in [States -> [status : Statuses, attempt : 0 .. MaxAttempts]]
  /\ flight' \in [Attempts -> [srv : Servers, obj : States] \cup {Over}]
  /\ \A p \in States : p # o => state'[p] = st[p]
  /\ \/ state'[o].status = "MAX_RETRIES_EXCEEDED" /\ UNCHANGED flight
     \/ /\ state'[o].status = "RECONNECTING"
        /\ \E a \in Attempts : /\ flight[a] = Over /\ flight'[a] = [srv |-> s, obj |-> o]
                               /\ \A b \in Attempts : b # a => flight'[b] = flight[b]

LEMMA ReplaceFacts ==
  ASSUME ServiceTyped, NEW s \in Servers,
         NEW st \in [States -> [status : Statuses, attempt : 0 .. MaxAttempts]], Replace(s, st)
  PROVE  \E o \in States : Replaced(s, o, st)
<1>1. PICK o \in States :
        /\ Unused(o)
        /\ current' = [current EXCEPT ![s] = o]
        /\ Attempt(s, o, [st EXCEPT ![o] = [status |-> "PENDING", attempt |-> 0]])
  BY DEF Replace
<1> DEFINE new == [st EXCEPT ![o] = [status |-> "PENDING", attempt |-> 0]]
<1>2. [status |-> "PENDING", attempt |-> 0] \in [status : Statuses, attempt : 0 .. MaxAttempts]
  BY MaxAttemptsIsNat DEF Statuses
<1>3. new \in [States -> [status : Statuses, attempt : 0 .. MaxAttempts]]
      /\ \A p \in States : p # o => new[p] = st[p]
  BY <1>2
<1>4. /\ current' \in [Servers -> States \cup {None}]
      /\ \A t \in Servers : current'[t] = IF t = s THEN o ELSE current[t]
  BY <1>1 DEF ServiceTyped
<1>5. Attempt(s, o, new)
  BY <1>1
<1> HIDE DEF new
<1>6. /\ state' \in [States -> [status : Statuses, attempt : 0 .. MaxAttempts]]
      /\ flight' \in [Attempts -> [srv : Servers, obj : States] \cup {Over}]
      /\ \A p \in States : p # o => state'[p] = new[p]
      /\ \/ state'[o].status = "MAX_RETRIES_EXCEEDED" /\ UNCHANGED flight
         \/ /\ state'[o].status = "RECONNECTING"
            /\ \E a \in Attempts : /\ flight[a] = Over /\ flight'[a] = [srv |-> s, obj |-> o]
                                   /\ \A b \in Attempts : b # a => flight'[b] = flight[b]
  BY <1>3, <1>5, AttemptFacts
<1>7. \A p \in States : p # o => state'[p] = st[p]
  BY <1>3, <1>6
<1> QED
  BY <1>1, <1>4, <1>6, <1>7 DEF Replaced

-----------------------------------------------------------------------------
(* A reconnection under way has what moves it on.                          *)

Driven(s) ==
  InProgress(s) =>
    IF state[current[s]].status = "PENDING" THEN s \in timers
    ELSE \E a \in Attempts : flight[a] = [srv |-> s, obj |-> current[s]]

LEMMA DrivenIsDriver == DriverPresent <=> \A s \in Servers : Driven(s)
  BY DEF DriverPresent, Driven

(* A server whose object, timer and attempts a step leaves alone.          *)
LEMMA DrivenKept ==
  ASSUME ServiceTyped, NEW s \in Servers, Driven(s), current'[s] = current[s],
         current[s] # None => state'[current[s]] = state[current[s]],
         s \in timers => s \in timers',
         \A a \in Attempts : flight[a].srv = s => flight'[a] = flight[a]
  PROVE  Driven(s)'
  BY Facts DEF Driven, InProgress

LEMMA ReplaceInv ==
  ASSUME Inv, NEW s \in Servers,
         NEW st \in [States -> [status : Statuses, attempt : 0 .. MaxAttempts]], Replace(s, st),
         \A p \in States : p # current[s] => st[p] = state[p],
         timers' = timers \/ timers' = timers \ {s}, UNCHANGED enabled
  PROVE  Inv'
<1>0. ServiceTyped
  BY DEF Inv
<1>a. \E o \in States : Replaced(s, o, st)
  BY <1>0, ReplaceFacts
<1>b. PICK o \in States : Replaced(s, o, st)
  BY <1>a
<1>1. /\ Unused(o)
      /\ current' \in [Servers -> States \cup {None}]
      /\ \A t \in Servers : current'[t] = IF t = s THEN o ELSE current[t]
      /\ state' \in [States -> [status : Statuses, attempt : 0 .. MaxAttempts]]
      /\ flight' \in [Attempts -> [srv : Servers, obj : States] \cup {Over}]
      /\ \A p \in States : p # o => state'[p] = st[p]
      /\ \/ state'[o].status = "MAX_RETRIES_EXCEEDED" /\ UNCHANGED flight
         \/ /\ state'[o].status = "RECONNECTING"
            /\ \E a \in Attempts : /\ flight[a] = Over /\ flight'[a] = [srv |-> s, obj |-> o]
                                   /\ \A b \in Attempts : b # a => flight'[b] = flight[b]
  BY <1>b DEF Replaced
<1>2. ServiceTyped'
  BY <1>1 DEF Inv, ServiceTyped
<1>3. \A t \in Servers : current[t] # o
  BY <1>1 DEF Unused
<1>4. \A a \in Attempts : flight[a].obj # o
  BY <1>1 DEF Unused
<1>5. OwnObject'
  BY <1>1, <1>3 DEF Inv, OwnObject
<1>6. \A a \in Attempts : flight'[a] = flight[a] \/ (flight[a] = Over /\ flight'[a] = [srv |-> s, obj |-> o])
  BY <1>1
<1>7. OwnAttempt'
  <2>1. ASSUME NEW a \in Attempts, NEW t \in Servers, flight'[a].obj = current'[t], current'[t] # None
        PROVE  flight'[a].srv = t
    <3>1. CASE flight'[a] = flight[a]
      BY <1>1, <1>4, <2>1, <3>1 DEF Inv, OwnAttempt
    <3>2. CASE flight'[a] = [srv |-> s, obj |-> o]
      BY <1>1, <1>3, <2>1, <3>2
    <3> QED
      BY <1>6, <3>1, <3>2
  <2> QED
    BY <2>1 DEF OwnAttempt
<1>8. Driven(s)'
  BY <1>1 DEF Driven, InProgress
<1>9. ASSUME NEW t \in Servers, t # s
      PROVE  Driven(t)'
  <2>1. Driven(t) /\ current'[t] = current[t]
    BY <1>1, <1>9, DrivenIsDriver DEF Inv
  <2>2. current[t] # None => current[t] # current[s]
    BY <1>9 DEF Inv, OwnObject
  <2>3. current[t] # None => state'[current[t]] = state[current[t]]
    BY <1>1, <1>3, <2>2, Facts DEF Inv
  <2>4. \A a \in Attempts : flight[a].srv = t => flight'[a] = flight[a]
    BY <1>6, Facts DEF Inv
  <2>5. t \in timers => t \in timers'
    BY <1>9
  <2> QED
    BY <2>1, <2>3, <2>4, <2>5, DrivenKept DEF Inv
<1>10. DriverPresent'
  <2>1. \A t \in Servers : Driven(t)'
    BY <1>8, <1>9
  <2> QED
    BY <2>1 DEF DriverPresent, Driven
<1> QED
  BY <1>2, <1>5, <1>7, <1>10 DEF Inv

LEMMA TimerInv ==
  ASSUME Inv, NEW s \in Servers, TimerFires(s)
  PROVE  Inv'
<1>1. CASE current[s] = None
  <2>1. UNCHANGED <<current, state, flight, enabled>> /\ timers' = timers \ {s}
    BY <1>1 DEF TimerFires
  <2>2. ServiceTyped' /\ OwnObject' /\ OwnAttempt'
    BY <2>1 DEF Inv, ServiceTyped, OwnObject, OwnAttempt
  <2>3. DriverPresent'
    BY <1>1, <2>1 DEF Inv, DriverPresent, InProgress
  <2> QED
    BY <2>2, <2>3 DEF Inv
<1>2. CASE current[s] # None
  <2>1. PICK o \in States : o = current[s]
    BY <1>2 DEF Inv, ServiceTyped
  <2>2. Attempt(s, o, state) /\ UNCHANGED <<current, enabled>> /\ timers' = timers \ {s}
    BY <1>2, <2>1 DEF TimerFires
  <2>3. /\ state' \in [States -> [status : Statuses, attempt : 0 .. MaxAttempts]]
        /\ flight' \in [Attempts -> [srv : Servers, obj : States] \cup {Over}]
        /\ \A p \in States : p # o => state'[p] = state[p]
        /\ \/ state'[o].status = "MAX_RETRIES_EXCEEDED" /\ UNCHANGED flight
           \/ /\ state'[o].status = "RECONNECTING"
              /\ \E a \in Attempts : /\ flight[a] = Over /\ flight'[a] = [srv |-> s, obj |-> o]
                                     /\ \A b \in Attempts : b # a => flight'[b] = flight[b]
    BY <2>2, AttemptFacts DEF Inv, ServiceTyped
  <2>4. \A a \in Attempts : flight'[a] = flight[a] \/ (flight[a] = Over /\ flight'[a] = [srv |-> s, obj |-> o])
    BY <2>3
  <2>5. ServiceTyped' /\ OwnObject'
    BY <2>2, <2>3 DEF Inv, ServiceTyped, OwnObject
  <2>6. OwnAttempt'
    <3>1. ASSUME NEW a \in Attempts, NEW t \in Servers, flight'[a].obj = current'[t], current'[t] # None
          PROVE  flight'[a].srv = t
      <4>1. CASE flight'[a] = flight[a]
        BY <2>2, <3>1, <4>1 DEF Inv, OwnAttempt
      <4>2. CASE flight'[a] = [srv |-> s, obj |-> o]
        BY <2>1, <2>2, <3>1, <4>2 DEF Inv, OwnObject
      <4> QED
        BY <2>4, <4>1, <4>2
    <3> QED
      BY <3>1 DEF OwnAttempt
  <2>7. Driven(s)'
    BY <2>1, <2>2, <2>3 DEF Driven, InProgress
  <2>8. ASSUME NEW t \in Servers, t # s
        PROVE  Driven(t)'
    <3>1. Driven(t) /\ current'[t] = current[t] /\ (t \in timers => t \in timers')
      BY <2>2, <2>8, DrivenIsDriver DEF Inv
    <3>2. current[t] # None => state'[current[t]] = state[current[t]]
      BY <2>1, <2>3, <2>8, Facts DEF Inv, OwnObject
    <3>3. \A a \in Attempts : flight[a].srv = t => flight'[a] = flight[a]
      BY <2>4, Facts DEF Inv
    <3> QED
      BY <3>1, <3>2, <3>3, DrivenKept DEF Inv
  <2>9. DriverPresent'
    <3>1. \A t \in Servers : Driven(t)'
      BY <2>7, <2>8
    <3> QED
      BY <3>1 DEF DriverPresent, Driven
  <2> QED
    BY <2>5, <2>6, <2>9 DEF Inv
<1> QED
  BY <1>1, <1>2

(* What the end of an attempt does, to its object and its server's timer.  *)
LEMMA EndFacts ==
  ASSUME ServiceTyped, NEW a \in Attempts, AttemptEnds(a)
  PROVE  /\ flight[a].srv \in Servers /\ flight[a].obj \in States
         /\ state' \in [States -> [status : Statuses, attempt : 0 .. MaxAttempts]]
         /\ \A p \in States : p # flight[a].obj => state'[p] = state[p]
         /\ timers' \in {timers, timers \cup {flight[a].srv}}
         /\ state'[flight[a].obj].status \in {"SUCCEEDED", "PENDING", "MAX_RETRIES_EXCEEDED"}
         /\ state'[flight[a].obj].status = "PENDING" => flight[a].srv \in timers'
         /\ state'[flight[a].obj].status # "PENDING" => timers' = timers
         /\ flight' \in [Attempts -> [srv : Servers, obj : States] \cup {Over}]
         /\ flight'[a] = Over /\ \A b \in Attempts : b # a => flight'[b] = flight[b]
         /\ UNCHANGED <<current, enabled>>
<1>1. flight[a].srv \in Servers /\ flight[a].obj \in States
  BY Facts DEF AttemptEnds, AttemptSucceeds, AttemptFails
<1>2. /\ flight' = [flight EXCEPT ![a] = Over]
      /\ UNCHANGED <<current, enabled>>
  BY DEF AttemptEnds, AttemptSucceeds, AttemptFails
<1>3. /\ flight' \in [Attempts -> [srv : Servers, obj : States] \cup {Over}]
      /\ flight'[a] = Over /\ \A b \in Attempts : b # a => flight'[b] = flight[b]
  BY <1>2 DEF ServiceTyped
<1> DEFINE o == flight[a].obj
<1>4. CASE AttemptSucceeds(a)
  <2>1. state' = [state EXCEPT ![o] = [status |-> "SUCCEEDED", attempt |-> 0]] /\ timers' = timers
    BY <1>4 DEF AttemptSucceeds
  <2>2. [status |-> "SUCCEEDED", attempt |-> 0] \in [status : Statuses, attempt : 0 .. MaxAttempts]
    BY MaxAttemptsIsNat DEF Statuses
  <2> QED
    BY <1>1, <1>2, <1>3, <2>1, <2>2 DEF ServiceTyped
<1>5. CASE AttemptFails(a)
  <2>1. \/ /\ state' = [state EXCEPT ![o].status = "PENDING"]
           /\ timers' = timers \cup {flight[a].srv}
        \/ /\ state' = [state EXCEPT ![o].status = "MAX_RETRIES_EXCEEDED"]
           /\ timers' = timers
    BY <1>5 DEF AttemptFails, RetryLater
  <2> QED
    BY <1>1, <1>2, <1>3, <2>1 DEF ServiceTyped, Statuses
<1> QED
  BY <1>4, <1>5 DEF AttemptEnds

LEMMA EndInv ==
  ASSUME Inv, NEW a \in Attempts, AttemptEnds(a)
  PROVE  Inv'
<1>1. PICK s \in Servers, o \in States :
        /\ s = flight[a].srv /\ o = flight[a].obj
        /\ state' \in [States -> [status : Statuses, attempt : 0 .. MaxAttempts]]
        /\ \A p \in States : p # o => state'[p] = state[p]
        /\ timers' \in {timers, timers \cup {s}}
        /\ state'[o].status \in {"SUCCEEDED", "PENDING", "MAX_RETRIES_EXCEEDED"}
        /\ state'[o].status = "PENDING" => s \in timers'
        /\ flight' \in [Attempts -> [srv : Servers, obj : States] \cup {Over}]
        /\ flight'[a] = Over /\ \A b \in Attempts : b # a => flight'[b] = flight[b]
        /\ UNCHANGED <<current, enabled>>
  BY EndFacts DEF Inv
<1>2. ServiceTyped' /\ OwnObject'
  BY <1>1 DEF Inv, ServiceTyped, OwnObject
<1>3. OwnAttempt'
  <2>1. ASSUME NEW b \in Attempts, NEW t \in Servers, flight'[b].obj = current'[t], current'[t] # None
        PROVE  flight'[b].srv = t
    <3>1. b # a
      BY <1>1, <2>1, Facts DEF Inv
    <3> QED
      BY <1>1, <2>1, <3>1 DEF Inv, OwnAttempt
  <2> QED
    BY <2>1 DEF OwnAttempt
<1>4. ASSUME NEW t \in Servers
      PROVE  Driven(t)'
  <2>1. Driven(t) /\ current'[t] = current[t]
    BY <1>1, DrivenIsDriver DEF Inv
  <2>2. CASE current[t] = o
    <3>1. t = s
      BY <1>1, <2>2, Facts DEF Inv, OwnAttempt
    <3> QED
      BY <1>1, <2>1, <2>2, <3>1 DEF Driven, InProgress
  <2>3. CASE current[t] # o
    <3>1. InProgress(t)' => InProgress(t) /\ state'[current[t]] = state[current[t]]
      BY <1>1, <2>1, <2>3, Facts DEF Inv, InProgress
    <3>2. \A b \in Attempts : flight[b] = [srv |-> t, obj |-> current[t]] => flight'[b] = flight[b]
      BY <1>1, <2>3
    <3> QED
      BY <1>1, <2>1, <3>1, <3>2 DEF Driven
  <2> QED
    BY <2>2, <2>3
<1>5. DriverPresent'
  BY <1>4 DEF DriverPresent, Driven
<1> QED
  BY <1>1, <1>2, <1>3, <1>5 DEF Inv

(* Cancelling one server, and forgetting it.                               *)
LEMMA CancelInv ==
  ASSUME Inv, NEW s \in Servers, CancelReconnection(s) \/ ResetReconnectionState(s)
  PROVE  Inv'
<1>1. /\ state' = Cancelled(s) /\ timers' = timers \ {s} /\ UNCHANGED <<flight, enabled>>
      /\ current' \in [Servers -> States \cup {None}]
      /\ \A t \in Servers \ {s} : current'[t] = current[t]
      /\ current'[s] \in {current[s], None}
  BY DEF CancelReconnection, ResetReconnectionState, Inv, ServiceTyped
<1>2. /\ state' \in [States -> [status : Statuses, attempt : 0 .. MaxAttempts]]
      /\ \A o \in States : o # current[s] => state'[o] = state[o]
      /\ current[s] # None => state'[current[s]].status = "CANCELLED"
  BY <1>1, CancelledTyped DEF Inv
<1>3. ServiceTyped' /\ OwnObject' /\ OwnAttempt'
  BY <1>1, <1>2 DEF Inv, ServiceTyped, OwnObject, OwnAttempt
<1>4. Driven(s)'
  BY <1>1, <1>2 DEF Driven, InProgress
<1>5. ASSUME NEW t \in Servers, t # s
      PROVE  Driven(t)'
  <2>1. Driven(t) /\ current'[t] = current[t] /\ (t \in timers => t \in timers')
    BY <1>1, <1>5, DrivenIsDriver DEF Inv
  <2>2. current[t] # None => state'[current[t]] = state[current[t]]
    BY <1>2, <1>5, Facts DEF Inv, OwnObject
  <2> QED
    BY <1>1, <2>1, <2>2, DrivenKept DEF Inv
<1>6. DriverPresent'
  <2>1. \A t \in Servers : Driven(t)'
    BY <1>4, <1>5
  <2> QED
    BY <2>1 DEF DriverPresent, Driven
<1> QED
  BY <1>3, <1>6 DEF Inv

(* Cancelling them all.                                                    *)
LEMMA CancelAllInv ==
  ASSUME Inv, CancelAll, UNCHANGED flight, enabled' \in BOOLEAN,
         current' = current \/ current' = [s \in Servers |-> None]
  PROVE  Inv'
<1>1. /\ timers' = {}
      /\ \A o \in States : state'[o] = IF \E s \in Servers : current[s] = o /\ InProgress(s)
                                       THEN [state[o] EXCEPT !.status = "CANCELLED"] ELSE state[o]
  BY DEF CancelAll
<1>2. \A o \in States : [state[o] EXCEPT !.status = "CANCELLED"]
                          \in [status : Statuses, attempt : 0 .. MaxAttempts]
  BY DEF Inv, ServiceTyped, Statuses
<1>3. state' \in [States -> [status : Statuses, attempt : 0 .. MaxAttempts]]
  BY <1>2 DEF CancelAll, Inv, ServiceTyped
<1>4. ServiceTyped' /\ OwnObject' /\ OwnAttempt'
  BY <1>1, <1>3 DEF Inv, ServiceTyped, OwnObject, OwnAttempt
<1>5. \A s \in Servers : ~InProgress(s)'
  <2>1. ASSUME NEW s \in Servers, current'[s] # None
        PROVE  state'[current'[s]].status \notin {"PENDING", "RECONNECTING"}
    <3>1. current'[s] = current[s] /\ current[s] \in States
      BY <2>1, Facts DEF Inv
    <3>2. CASE InProgress(s)
      <4>1. state'[current[s]] = [state[current[s]] EXCEPT !.status = "CANCELLED"]
        BY <1>1, <3>1, <3>2
      <4>2. state'[current[s]].status = "CANCELLED"
        BY <3>1, <4>1 DEF Inv, ServiceTyped
      <4> QED
        BY <3>1, <4>2
    <3>3. CASE ~InProgress(s)
      <4>1. \A t \in Servers : current[t] = current[s] => t = s
        BY <2>1, <3>1 DEF Inv, OwnObject
      <4>2. state'[current[s]] = state[current[s]]
        BY <1>1, <3>1, <3>3, <4>1
      <4> QED
        BY <2>1, <3>1, <3>3, <4>2 DEF InProgress
    <3> QED
      BY <3>2, <3>3
  <2> QED
    BY <2>1 DEF InProgress
<1>6. DriverPresent'
  BY <1>5 DEF DriverPresent
<1> QED
  BY <1>4, <1>6 DEF Inv

LEMMA InvInit == Init => Inv
<1> SUFFICES ASSUME Init PROVE Inv
  OBVIOUS
<1>1. ServiceTyped
  BY MaxAttemptsIsNat DEF Init, ServiceTyped, Statuses
<1>2. \A s \in Servers : current[s] = None
  BY DEF Init
<1> QED
  BY <1>1, <1>2 DEF Inv, OwnObject, OwnAttempt, DriverPresent, InProgress

LEMMA InvStep ==
  ASSUME Inv, [Next]_vars
  PROVE  Inv'
<1>1. CASE UNCHANGED vars
  BY <1>1 DEF vars, Inv, ServiceTyped, OwnObject, OwnAttempt, DriverPresent, InProgress
<1>2. ASSUME NEW s \in Servers, ScheduleReconnection(s)
      PROVE  Inv'
  BY <1>2, ReplaceInv DEF ScheduleReconnection, Inv, ServiceTyped
<1>3. CASE ManualStep
  <2>1. ASSUME NEW s \in Servers, TriggerReconnection(s)
        PROVE  Inv'
    BY <2>1, CancelledTyped, ReplaceInv DEF TriggerReconnection, Inv
  <2>2. ASSUME NEW on \in BOOLEAN, SetEnabled(on)
        PROVE  Inv'
    <3>1. CASE on
      BY <2>2, <3>1 DEF SetEnabled, Inv, ServiceTyped, OwnObject, OwnAttempt, DriverPresent, InProgress
    <3>2. CASE ~on
      BY <2>2, <3>2, CancelAllInv DEF SetEnabled
    <3> QED
      BY <3>1, <3>2
  <2>3. CASE ClearAllStates
    BY <2>3, CancelAllInv DEF ClearAllStates, Inv, ServiceTyped
  <2> QED
    BY <1>3, <2>1, <2>2, <2>3, CancelInv DEF ManualStep
<1> QED
  BY <1>1, <1>2, <1>3, TimerInv, EndInv DEF Next, AutomaticStep

(* Every variable keeps its type; no attempt is counted beyond the limit,  *)
(* even when attempts overlap cancellations and a timer of one reconnection*)
(* starts an attempt of another.                                           *)
THEOREM ReconnectTypeCorrect == Spec => []TypeOK
<1>1. Init => Inv /\ touched \in BOOLEAN
  BY InvInit DEF Init
<1>2. Inv /\ touched \in BOOLEAN /\ [Next]_vars => (Inv /\ touched \in BOOLEAN)'
  BY InvStep DEF Next, AutomaticStep, ManualStep, vars
<1>3. Inv /\ touched \in BOOLEAN => TypeOK
  BY DEF Inv, TypeOK
<1> QED
  BY <1>1, <1>2, <1>3, PTL DEF Spec

(* A reconnection shown as pending has a timer and one shown as            *)
(* reconnecting an attempt in flight, whatever is cancelled, triggered,    *)
(* reset or disabled meanwhile.                                            *)
THEOREM ReconnectDriverPresent == Spec => []DriverPresent
<1>1. Inv /\ [Next]_vars => Inv'
  BY InvStep
<1>2. Inv => DriverPresent
  BY DEF Inv
<1> QED
  BY <1>1, <1>2, InvInit, PTL DEF Spec

-----------------------------------------------------------------------------
(* Without the manual interface, one attempt at a time.                    *)

Single(s) ==
  /\ \A a, b \in Attempts : flight[a].srv = s /\ flight[b].srv = s => a = b
  /\ \A a \in Attempts : flight[a].srv = s =>
       s \notin timers /\ current[s] = flight[a].obj /\ state[current[s]].status = "RECONNECTING"
  /\ s \in timers => current[s] # None /\ state[current[s]].status = "PENDING"

AllSingle == \A s \in Servers : Single(s)

LEMMA SingleIsOne == OneAttempt <=> (~touched => AllSingle)
  BY DEF OneAttempt, AllSingle, Single

(* A server that a step does not touch.                                    *)
LEMMA SingleKept ==
  ASSUME NEW s \in Servers, Single(s), current'[s] = current[s],
         current[s] # None => state'[current[s]] = state[current[s]],
         s \in timers <=> s \in timers',
         \A a \in Attempts : flight[a].srv = s \/ flight'[a].srv = s => flight'[a] = flight[a],
         ServiceTyped
  PROVE  Single(s)'
<1>1. \A a \in Attempts : flight'[a].srv = s => flight[a].srv = s /\ flight'[a] = flight[a]
  OBVIOUS
<1>2. \A a, b \in Attempts : flight'[a].srv = s /\ flight'[b].srv = s => a = b
  BY <1>1 DEF Single
<1>3. \A a \in Attempts : flight'[a].srv = s =>
        s \notin timers' /\ current'[s] = flight'[a].obj /\ state'[current'[s]].status = "RECONNECTING"
  <2>1. ASSUME NEW a \in Attempts, flight'[a].srv = s
        PROVE  s \notin timers' /\ current'[s] = flight'[a].obj /\ state'[current'[s]].status = "RECONNECTING"
    <3>1. flight[a].srv = s /\ flight'[a] = flight[a]
      BY <1>1, <2>1
    <3>2. current[s] = flight[a].obj /\ state[current[s]].status = "RECONNECTING" /\ s \notin timers
      BY <3>1 DEF Single
    <3>3. current[s] # None
      BY <3>1, <3>2, Facts
    <3> QED
      BY <3>1, <3>2, <3>3
  <2> QED
    BY <2>1
<1>4. s \in timers' => current'[s] # None /\ state'[current'[s]].status = "PENDING"
  BY DEF Single
<1> QED
  BY <1>2, <1>3, <1>4 DEF Single

LEMMA ScheduleSingle ==
  ASSUME Inv, AllSingle, NEW s \in Servers, ScheduleReconnection(s)
  PROVE  AllSingle'
<1>1. /\ ServiceTyped /\ state \in [States -> [status : Statuses, attempt : 0 .. MaxAttempts]]
      /\ Replace(s, state) /\ ~InProgress(s) /\ timers' = timers
  BY DEF ScheduleReconnection, Inv, ServiceTyped
<1>2. \E o \in States : Replaced(s, o, state)
  BY <1>1, ReplaceFacts
<1>3. PICK o \in States : Replaced(s, o, state)
  BY <1>2
<1>4. /\ Unused(o)
      /\ \A t \in Servers : current'[t] = IF t = s THEN o ELSE current[t]
      /\ \A p \in States : p # o => state'[p] = state[p]
      /\ \/ state'[o].status = "MAX_RETRIES_EXCEEDED" /\ UNCHANGED flight
         \/ /\ state'[o].status = "RECONNECTING"
            /\ \E a \in Attempts : /\ flight[a] = Over /\ flight'[a] = [srv |-> s, obj |-> o]
                                   /\ \A b \in Attempts : b # a => flight'[b] = flight[b]
  BY <1>3 DEF Replaced
<1>5. (\A a \in Attempts : flight[a].srv # s) /\ s \notin timers
  <2>1. ~(current[s] # None /\ state[current[s]].status \in {"PENDING", "RECONNECTING"})
    BY <1>1 DEF InProgress
  <2>2. s \notin timers
    BY <2>1 DEF AllSingle, Single
  <2>3. ASSUME NEW a \in Attempts, flight[a].srv = s
        PROVE  FALSE
    <3>1. current[s] = flight[a].obj /\ state[current[s]].status = "RECONNECTING"
      BY <2>3 DEF AllSingle, Single
    <3>2. current[s] # None
      BY <1>1, <2>3, <3>1, Facts
    <3> QED
      BY <2>1, <3>1, <3>2
  <2> QED
    BY <2>2, <2>3
<1>6. Single(s)'
  BY <1>1, <1>4, <1>5 DEF Single
<1>7. \A a \in Attempts : flight'[a] = flight[a] \/ (flight[a] = Over /\ flight'[a] = [srv |-> s, obj |-> o])
  BY <1>4
<1>8. ASSUME NEW t \in Servers, t # s
      PROVE  Single(t)'
  <2>1. Single(t) /\ current'[t] = current[t] /\ (t \in timers <=> t \in timers')
    BY <1>1, <1>4, <1>8 DEF AllSingle, Single
  <2>2. current[t] # None => state'[current[t]] = state[current[t]]
    BY <1>1, <1>4, Facts DEF Unused
  <2>3. \A a \in Attempts : flight[a].srv = t \/ flight'[a].srv = t => flight'[a] = flight[a]
    BY <1>1, <1>7, <1>8, Facts
  <2> QED
    BY <1>1, <2>1, <2>2, <2>3, SingleKept
<1>9. \A t \in Servers : Single(t)'
  BY <1>6, <1>8
<1> QED
  BY <1>9 DEF AllSingle, Single

LEMMA TimerSingle ==
  ASSUME Inv, AllSingle, NEW s \in Servers, TimerFires(s)
  PROVE  AllSingle'
<1>1. s \in timers /\ ServiceTyped
  BY DEF TimerFires, Inv
<1>2. current[s] # None /\ \A a \in Attempts : flight[a].srv # s
  BY <1>1 DEF AllSingle, Single
<1>3. PICK o \in States : o = current[s]
  BY <1>1, <1>2, Facts
<1>4. /\ Attempt(s, o, state) /\ UNCHANGED current /\ timers' = timers \ {s}
      /\ state \in [States -> [status : Statuses, attempt : 0 .. MaxAttempts]]
  BY <1>1, <1>2, <1>3 DEF TimerFires, ServiceTyped
<1>5. /\ \A p \in States : p # o => state'[p] = state[p]
      /\ \/ state'[o].status = "MAX_RETRIES_EXCEEDED" /\ UNCHANGED flight
         \/ /\ state'[o].status = "RECONNECTING"
            /\ \E a \in Attempts : /\ flight[a] = Over /\ flight'[a] = [srv |-> s, obj |-> o]
                                   /\ \A b \in Attempts : b # a => flight'[b] = flight[b]
  BY <1>1, <1>4, AttemptFacts
<1>6. Single(s)'
  BY <1>2, <1>3, <1>4, <1>5 DEF Single
<1>7. \A a \in Attempts : flight'[a] = flight[a] \/ (flight[a] = Over /\ flight'[a] = [srv |-> s, obj |-> o])
  BY <1>5
<1>8. ASSUME NEW t \in Servers, t # s
      PROVE  Single(t)'
  <2>1. Single(t) /\ current'[t] = current[t] /\ (t \in timers <=> t \in timers')
    BY <1>4, <1>8 DEF AllSingle, Single
  <2>2. current[t] # None => state'[current[t]] = state[current[t]]
    BY <1>1, <1>3, <1>5, <1>8, Facts DEF Inv, OwnObject
  <2>3. \A a \in Attempts : flight[a].srv = t \/ flight'[a].srv = t => flight'[a] = flight[a]
    BY <1>1, <1>7, <1>8, Facts
  <2> QED
    BY <1>1, <2>1, <2>2, <2>3, SingleKept
<1>9. \A t \in Servers : Single(t)'
  BY <1>6, <1>8
<1> QED
  BY <1>9 DEF AllSingle, Single

LEMMA EndSingle ==
  ASSUME Inv, AllSingle, NEW a \in Attempts, AttemptEnds(a)
  PROVE  AllSingle'
<1>1. PICK s \in Servers, o \in States :
        /\ s = flight[a].srv /\ o = flight[a].obj
        /\ \A p \in States : p # o => state'[p] = state[p]
        /\ timers' \in {timers, timers \cup {s}}
        /\ state'[o].status # "PENDING" => timers' = timers
        /\ flight'[a] = Over /\ \A b \in Attempts : b # a => flight'[b] = flight[b]
        /\ UNCHANGED current
  BY EndFacts DEF Inv
<1>2. /\ current[s] = o /\ s \notin timers
      /\ \A b \in Attempts : flight[b].srv = s => b = a
  BY <1>1 DEF AllSingle, Single
<1>3. ServiceTyped
  BY DEF Inv
<1>4. \A b \in Attempts : flight'[b].srv # s
  BY <1>1, <1>2, <1>3, Facts
<1>5. s \in timers' => current'[s] # None /\ state'[current'[s]].status = "PENDING"
  BY <1>1, <1>2, <1>3, Facts
<1>6. Single(s)'
  BY <1>4, <1>5 DEF Single
<1>7. ASSUME NEW t \in Servers, t # s
      PROVE  Single(t)'
  <2>1. Single(t) /\ current'[t] = current[t] /\ (t \in timers <=> t \in timers')
    BY <1>1, <1>7 DEF AllSingle, Single
  <2>2. current[t] # None => state'[current[t]] = state[current[t]]
    BY <1>1, <1>2, <1>3, <1>7, Facts DEF Inv, OwnObject
  <2>3. \A b \in Attempts : flight[b].srv = t \/ flight'[b].srv = t => flight'[b] = flight[b]
    BY <1>1, <1>3, <1>7, Facts
  <2> QED
    BY <1>3, <2>1, <2>2, <2>3, SingleKept
<1>8. \A t \in Servers : Single(t)'
  BY <1>6, <1>7
<1> QED
  BY <1>8 DEF AllSingle, Single

LEMMA SingleStep ==
  ASSUME ~touched', Inv, AllSingle, [Next]_vars
  PROVE  AllSingle'
<1>1. CASE UNCHANGED vars
  BY <1>1 DEF vars, AllSingle, Single
<1>2. CASE Next
  BY <1>2, ScheduleSingle, TimerSingle, EndSingle DEF Next, AutomaticStep, ManualStep
<1> QED
  BY <1>1, <1>2

LEMMA AttemptOthers ==
  ASSUME ServiceTyped, NEW s \in Servers, NEW o \in States, Attempt(s, o, state)
  PROVE  \A p \in States : p # o => state'[p] = state[p]
<1>1. CASE state[o].attempt >= MaxAttempts
  BY <1>1 DEF Attempt, ServiceTyped
<1>2. CASE ~(state[o].attempt >= MaxAttempts)
  <2>1. PICK a \in Attempts :
          state' = [state EXCEPT ![o] = [status |-> "RECONNECTING", attempt |-> @.attempt + 1]]
    BY <1>2 DEF Attempt
  <2> QED
    BY <2>1 DEF ServiceTyped
<1> QED
  BY <1>1, <1>2

(* A step that would change a reconnection that has succeeded is another   *)
(* attempt's or a timer's, and there is none.                              *)
LEMMA SuccessStep ==
  ASSUME ~touched', Inv, AllSingle, [Next]_vars, NEW s \in Servers,
         current[s] # None, current'[s] = current[s], state[current[s]].status = "SUCCEEDED"
  PROVE  state'[current[s]].status = "SUCCEEDED"
<1>1. /\ ServiceTyped /\ current[s] \in States
      /\ state \in [States -> [status : Statuses, attempt : 0 .. MaxAttempts]]
  BY Facts DEF Inv, ServiceTyped
<1>2. CASE UNCHANGED vars
  BY <1>2 DEF vars
<1>3. ASSUME NEW t \in Servers, ScheduleReconnection(t)
      PROVE  state'[current[s]].status = "SUCCEEDED"
  <2>1. Replace(t, state)
    BY <1>3 DEF ScheduleReconnection
  <2>2. \E o \in States : Replaced(t, o, state)
    BY <1>1, <2>1, ReplaceFacts
  <2>3. PICK o \in States : Replaced(t, o, state)
    BY <2>2
  <2>4. Unused(o) /\ \A p \in States : p # o => state'[p] = state[p]
    BY <2>3 DEF Replaced
  <2>5. current[s] # o
    BY <2>4 DEF Unused
  <2> QED
    BY <1>1, <2>4, <2>5
<1>4. ASSUME NEW t \in Servers, TimerFires(t)
      PROVE  state'[current[s]].status = "SUCCEEDED"
  <2>1. current[t] # None /\ state[current[t]].status = "PENDING"
    BY <1>4 DEF TimerFires, AllSingle, Single
  <2>2. PICK o \in States : o = current[t]
    BY <1>1, <2>1, Facts
  <2>3. Attempt(t, o, state)
    BY <1>4, <2>1, <2>2 DEF TimerFires
  <2>4. \A p \in States : p # o => state'[p] = state[p]
    BY <1>1, <2>3, AttemptOthers
  <2>5. current[s] # o
    BY <2>1, <2>2
  <2> QED
    BY <1>1, <2>4, <2>5
<1>5. ASSUME NEW a \in Attempts, AttemptEnds(a)
      PROVE  state'[current[s]].status = "SUCCEEDED"
  <2>1. /\ flight[a].srv \in Servers
        /\ \A p \in States : p # flight[a].obj => state'[p] = state[p]
    BY <1>1, <1>5, EndFacts
  <2>2. current[flight[a].srv] = flight[a].obj /\ state[flight[a].obj].status = "RECONNECTING"
    BY <2>1 DEF AllSingle, Single
  <2>3. current[s] # flight[a].obj
    BY <2>2
  <2> QED
    BY <1>1, <2>1, <2>3
<1> QED
  BY <1>2, <1>3, <1>4, <1>5 DEF Next, AutomaticStep, ManualStep

(* Until somebody uses the manual interface, crashes and health checks     *)
(* never make a server be reconnected twice at a time, whatever the limit  *)
(* of attempts.                                                            *)
LEMMA OneAttemptStep ==
  ASSUME Inv, OneAttempt, [Next]_vars
  PROVE  OneAttempt'
<1>1. CASE touched'
  BY <1>1 DEF OneAttempt
<1>2. CASE ~touched'
  <2>1. ~touched
    BY <1>2 DEF Next, AutomaticStep, ManualStep, vars
  <2>2. AllSingle
    BY <2>1, SingleIsOne
  <2>3. AllSingle'
    BY <1>2, <2>2, SingleStep
  <2> QED
    BY <2>3 DEF OneAttempt, AllSingle, Single
<1> QED
  BY <1>1, <1>2

(* Crashes and health checks alone never make a server be reconnected      *)
(* twice at a time.                                                        *)
THEOREM AutomaticOneAttempt == Spec => []OneAttempt
<1>1. Init => Inv /\ OneAttempt
  BY InvInit, NoneIsNoState DEF Init, OneAttempt, Over
<1>2. Inv /\ OneAttempt /\ [Next]_vars => (Inv /\ OneAttempt)'
  BY InvStep, OneAttemptStep
<1> QED
  BY <1>1, <1>2, PTL DEF Spec

(* Nor does anything left of before undo a reconnection that succeeded.    *)
THEOREM AutomaticSuccessSticks == Spec => SuccessSticks
<1>1. Init => Inv /\ OneAttempt
  BY InvInit, NoneIsNoState DEF Init, OneAttempt, Over
<1>2. Inv /\ OneAttempt /\ [Next]_vars => (Inv /\ OneAttempt)'
  BY InvStep, OneAttemptStep
<1>3. ASSUME Inv, OneAttempt, [Next]_vars, NEW s \in Servers, ~touched',
             current[s] # None, current'[s] = current[s], state[current[s]].status = "SUCCEEDED"
      PROVE  state'[current[s]].status = "SUCCEEDED"
  <2>1. ~touched
    BY <1>3 DEF Next, AutomaticStep, ManualStep, vars
  <2>2. AllSingle
    BY <1>3, <2>1, SingleIsOne
  <2> QED
    BY <1>3, <2>2, SuccessStep
<1>4. Inv /\ OneAttempt /\ [Next]_vars =>
        [\A s \in Servers :
           (~touched' /\ current[s] # None /\ current'[s] = current[s] /\ state[current[s]].status = "SUCCEEDED")
             => state'[current[s]].status = "SUCCEEDED"]_vars
  BY <1>3
<1> QED
  BY <1>1, <1>2, <1>4, PTL DEF Spec, SuccessSticks
=============================================================================
