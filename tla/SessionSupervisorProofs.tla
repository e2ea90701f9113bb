----------------------- MODULE SessionSupervisorProofs -----------------------
(***************************************************************************)
(* Theorems about the TypeScript session supervisor, for any sessions,     *)
(* children, restart limits and number of crashes.                         *)
(***************************************************************************)
EXTENDS SessionSupervisor, TLAPS

Transient == {"starting", "stopping", "restarting"}

Busy == Transient \cup {"running"}

(* What the supervisor says of a session agrees with its children; a stop  *)
(* or a restart has somebody who moves it on; the file shows what a        *)
(* restoration should read, unless a start has failed; a session that the  *)
(* supervisor does not know has no child; one that never went astray has no*)
(* child and no timer but those its record names; and a halted one has     *)
(* nothing left that could start it again.                                 *)
Alive(s) ==
  /\ sess[s].status = "running" => sess[s].handle # None
  /\ sess[s].handle # None => sess[s].handle \in live[s] /\ sess[s].status \in Busy

Driven(s) ==
  sess[s].status \in {"stopping", "restarting"} => sess[s].timer \/ sess[s].handle \in signalled[s]

Filed(s) ==
  /\ file[s] \in {"absent", "created", "stopped", "restarting", "error"}
  /\ file[s] = "absent" <=> ~Known(s)
  /\ file[s] = Normalize(sess[s].status) \/ sess[s].status = "starting"

Alone(s) == live[s] \subseteq {sess[s].handle} /\ loose[s] = 0 /\ stale[s] = 0

Rests(s) ==
  /\ ~sess[s].timer /\ ~sess[s].again /\ sess[s].status \in {"stopping", "stopped"}
  /\ sess[s].handle # None => sess[s].status = "stopping"

Absence(s) ==
  /\ creating[s] # "no" => ~Known(s)
  /\ ~Known(s) => /\ live[s] = {} /\ ~sess[s].timer /\ loose[s] = 0 /\ stale[s] = 0
                  /\ sess[s].restarts = 0

Good(s) ==
  /\ Alive(s) /\ Driven(s) /\ Filed(s) /\ Absence(s)
  /\ sess[s].timer => sess[s].handle = None
  /\ s \notin astray => Alone(s)
  /\ s \notin astray /\ s \in halted => Rests(s)

Inv == TypeOK /\ \A s \in Sessions : Good(s)

LEMMA RecordFacts ==
  ASSUME TypeOK, NEW s \in Sessions
  PROVE  /\ sess[s] \in Record /\ sess[s].restarts <= sess[s].limit
         /\ sess[s].restarts \in Nat /\ sess[s].limit \in Nat
         /\ sess[s].timer \in BOOLEAN /\ sess[s].again \in BOOLEAN
         /\ sess[s].status \in Statuses
         /\ live[s] \subseteq Procs /\ signalled[s] \subseteq Procs
         /\ loose[s] \in Nat /\ stale[s] \in Nat
         /\ Absent \in Record
BY LimitsAreNat DEF TypeOK, Record, Absent, Statuses

(* What has been persisted is what a restoration should read.              *)
LEMMA PersistFacts ==
  ASSUME sess' \in [Sessions -> Record], Persist
  PROVE  file' \in [Sessions -> Statuses] /\ \A s \in Sessions : Filed(s)'
<1>1. ASSUME NEW s \in Sessions PROVE file'[s] \in Statuses /\ Filed(s)'
  <2>1. sess'[s].status \in Statuses /\ file'[s] = Normalize(sess'[s].status)
    BY DEF Persist, Record
  <2> QED
    BY <2>1 DEF Normalize, Statuses, Filed, Known
<1>2. file' = [s \in Sessions |-> file'[s]]
  BY DEF Persist
<1> QED
  BY <1>1, <1>2

-----------------------------------------------------------------------------
(* What Supervision allows a step to do to a session.                      *)
SameBudget(s) == sess'[s].restarts = sess[s].restarts /\ sess'[s].limit = sess[s].limit

(* The number of its starts that have been granted.                        *)
Due(s) ==
  (IF sess[s].timer THEN 1 ELSE 0) + loose[s] + stale[s] + (IF sess[s].again THEN 1 ELSE 0)

(* No start is granted and no child comes up; or one start or one child at *)
(* most; a start is used up; a child has exited.                           *)
Quiet(s) == Due(s)' <= Due(s) /\ live'[s] \subseteq live[s]

One(s) == \/ Due(s)' <= Due(s) + 1 /\ live'[s] \subseteq live[s]
          \/ Due(s)' <= Due(s) /\ \E p : live'[s] \subseteq live[s] \cup {p}

Uses(s) == Due(s)' < Due(s)

Exits(s) == \E p \in live[s] : p \notin live'[s]

Turns(s, statuses) == Known(s) /\ SameBudget(s) /\ sess'[s].status \in statuses

OwnFits(s) ==
  \/ sess'[s].status = sess[s].status /\ SameBudget(s) /\ Quiet(s)
  \/ Turns(s, Busy) /\ Uses(s) /\ One(s)
  \/ /\ Known(s) /\ Exits(s) /\ One(s) /\ sess[s].restarts < sess[s].limit
     /\ sess'[s].status = "restarting"
     /\ sess'[s].restarts = sess[s].restarts + 1 /\ sess'[s].limit = sess[s].limit
  \/ /\ Exits(s) /\ Quiet(s)
     /\ Turns(s, {"stopped"}) \/ (Turns(s, {"error"}) /\ sess[s].restarts = sess[s].limit)

ClientFits(s) ==
  \/ /\ ~Known(s) /\ Quiet(s) /\ sess'[s].status = "created"
     /\ sess'[s].restarts = 0 /\ sess'[s].limit \in RestartLimits[s]
  \/ Turns(s, Busy) /\ One(s)
  \/ Turns(s, {"stopped", "stopping"}) /\ Quiet(s)

RecoveryFits(s) ==
  \/ /\ SameBudget(s) /\ One(s) /\ (Quiet(s) \/ sess'[s].status \in Busy)
     /\ \/ sess'[s].status = sess[s].status
        \/ sess[s].status \in Busy /\ sess'[s].status \in Busy
        \/ sess[s].status \in Busy /\ Turns(s, {"created", "stopped", "error"})
  \/ ~Known(s)' /\ Quiet(s)

(* A halted session is given no child, but as StopSticks says.             *)
Sticks(s) ==
  s \in halted =>
    \/ live'[s] \subseteq live[s]
    \/ StartSession(s) \/ RestartSession(s)
    \/ sess[s].status = "stopping" /\ (RestoreSessions \/ Crash)
    \/ s \in astray \cup astray'

Moves(s) ==
  /\ \/ OwnFits(s)
     \/ ClientFits(s) /\ Requests(s)
     \/ RecoveryFits(s) /\ (RestoreSessions \/ Crash)
  /\ Sticks(s)

(* The starts granted are a natural number.                                *)
LEMMA DueFacts == TypeOK => \A s \in Sessions : Due(s) \in Nat
BY RecordFacts DEF Due

LEMMA NextDueFacts == (TypeOK => \A s \in Sessions : Due(s) \in Nat)'
BY DueFacts, PTL

(* A step that leaves every session but s as it is.                        *)
Apart(s) ==
  /\ Persist \/ UNCHANGED file
  /\ \A t \in Sessions \ {s} :
       /\ sess'[t] = sess[t] /\ creating'[t] = creating[t]
       /\ live'[t] = live[t] /\ signalled'[t] = signalled[t]
       /\ loose'[t] = loose[t] /\ stale'[t] = stale[t]
       /\ (t \in halted' <=> t \in halted) /\ (t \in astray' <=> t \in astray)

LEMMA ApartKeeps ==
  ASSUME Inv, TypeOK', NEW s \in Sessions, Apart(s), Good(s)', Moves(s)
  PROVE  Inv' /\ \A t \in Sessions : Moves(t)
<1>1. ASSUME NEW t \in Sessions, t # s PROVE Good(t)'
  <2>1. Filed(t)'
    <3>1. CASE Persist
      BY <3>1, PersistFacts DEF TypeOK
    <3>2. CASE UNCHANGED file
      BY <1>1, <3>2 DEF Inv, Good, Filed, Known, Apart
    <3> QED
      BY <3>1, <3>2 DEF Apart
  <2> QED
    BY <1>1, <2>1 DEF Inv, Good, Alive, Driven, Absence, Known, Alone, Rests, Apart
<1>2. ASSUME NEW t \in Sessions, t # s PROVE Moves(t)
  <2>1. Due(t) \in Nat /\ Due(t)' = Due(t)
    BY <1>2, DueFacts DEF Inv, Apart, Due
  <2> QED
    BY <1>2, <2>1 DEF Moves, OwnFits, SameBudget, Quiet, Sticks, Apart
<1> QED
  BY <1>1, <1>2 DEF Inv

-----------------------------------------------------------------------------
(* startSession does nothing, fails to spawn a child, or leaves the session*)
(* running on a new one.                                                   *)
LEMMA StartFacts ==
  ASSUME TypeOK, NEW s \in Sessions, NEW rec \in Record, NEW kids \in SUBSET Procs,
         rec.restarts <= rec.limit, Start(s, rec, kids)
  PROVE  /\ sess' \in [Sessions -> Record] /\ live' \in [Sessions -> SUBSET Procs]
         /\ sess'[s].restarts = rec.restarts /\ sess'[s].limit = rec.limit
         /\ astray' \in SUBSET Sessions /\ astray \subseteq astray'
         /\ astray' \subseteq astray \cup {s}
         /\ \A t \in Sessions \ {s} : sess'[t] = sess[t] /\ live'[t] = live[t]
         /\ \/ Refused(rec) /\ sess'[s] = rec /\ live'[s] = kids /\ astray' = astray
            \/ /\ ~Refused(rec) /\ sess'[s].timer = FALSE /\ sess'[s].again = FALSE
               /\ \/ /\ sess'[s].status = "starting" /\ sess'[s].handle = rec.handle
                     /\ live'[s] = kids /\ astray' = astray
                  \/ /\ sess'[s].status = "running" /\ sess'[s].handle \in Procs \ kids
                     /\ live'[s] = kids \cup {sess'[s].handle}
                     /\ kids # {} => s \in astray'
<1>1. sess \in [Sessions -> Record] /\ live \in [Sessions -> SUBSET Procs] /\ astray \subseteq Sessions
  BY DEF TypeOK
<1>2. CASE Refused(rec)
  BY <1>1, <1>2 DEF Start, Record
<1>3. CASE ~Refused(rec) /\ sess' = [sess EXCEPT ![s] = Starting(rec)]
           /\ live' = [live EXCEPT ![s] = kids] /\ UNCHANGED astray
  <2>1. /\ Starting(rec) \in Record /\ Starting(rec).restarts = rec.restarts
        /\ Starting(rec).limit = rec.limit /\ Starting(rec).status = "starting"
        /\ Starting(rec).timer = FALSE /\ Starting(rec).again = FALSE
        /\ Starting(rec).handle = rec.handle
    BY DEF Starting, Record, Statuses
  <2> QED
    BY <1>1, <1>3, <2>1
<1>4. CASE ~Refused(rec) /\ \E p \in Children[s] \ kids :
             /\ sess' = [sess EXCEPT ![s] = Up(rec, p)]
             /\ live' = [live EXCEPT ![s] = kids \cup {p}]
             /\ astray' = IF kids = {} THEN astray ELSE astray \cup {s}
  <2>1. PICK p \in Procs \ kids :
          /\ sess' = [sess EXCEPT ![s] = Up(rec, p)]
          /\ live' = [live EXCEPT ![s] = kids \cup {p}]
          /\ astray' = IF kids = {} THEN astray ELSE astray \cup {s}
    BY <1>4, ChildrenAreProcs
  <2>2. /\ Up(rec, p) \in Record /\ Up(rec, p).restarts = rec.restarts /\ Up(rec, p).limit = rec.limit
        /\ Up(rec, p).status = "running" /\ Up(rec, p).timer = FALSE /\ Up(rec, p).again = FALSE
        /\ Up(rec, p).handle = p
    BY DEF Up, Starting, Record, Statuses
  <2> QED
    BY <1>1, <1>4, <2>1, <2>2
<1> QED
  BY <1>2, <1>3, <1>4 DEF Start

(* What a start does to the other sessions, and to the types.              *)
Started(s) ==
  \A t \in Sessions \ {s} :
    sess'[t] = sess[t] /\ live'[t] = live[t] /\ (t \in astray' <=> t \in astray)

StartedTypes(s) ==
  /\ sess' \in [Sessions -> Record] /\ live' \in [Sessions -> SUBSET Procs]
  /\ astray' \subseteq Sessions /\ \A t \in Sessions : sess'[t].restarts <= sess'[t].limit

LEMMA StartTypes ==
  ASSUME TypeOK, NEW s \in Sessions, NEW rec \in Record, NEW kids \in SUBSET Procs,
         rec.restarts <= rec.limit, Start(s, rec, kids)
  PROVE  StartedTypes(s) /\ Started(s)
<1>1. /\ sess' \in [Sessions -> Record] /\ live' \in [Sessions -> SUBSET Procs]
      /\ sess'[s].restarts = rec.restarts /\ sess'[s].limit = rec.limit
      /\ astray' \in SUBSET Sessions /\ astray \subseteq astray' /\ astray' \subseteq astray \cup {s}
      /\ \A t \in Sessions \ {s} : sess'[t] = sess[t] /\ live'[t] = live[t]
  BY StartFacts
<1>2. \A t \in Sessions : sess[t].restarts <= sess[t].limit
  BY DEF TypeOK
<1>3. StartedTypes(s)
  BY <1>1, <1>2 DEF StartedTypes
<1> QED
  BY <1>1, <1>3 DEF Started

(* A start keeps the session good when it is called with a child gone or   *)
(* with the session as it is, and nobody has halted the session; what it   *)
(* uses up of the starts granted, it leaves to its caller to say.          *)
LEMMA StartKeeps ==
  ASSUME Inv, NEW s \in Sessions, NEW rec \in Record, NEW kids \in SUBSET live[s],
         rec.restarts = sess[s].restarts /\ rec.limit = sess[s].limit,
         Start(s, rec, kids), Known(s), UNCHANGED creating,
         Persist \/ (kids = live[s] /\ PersistIfSpawned),
         rec.handle = None \/ (rec.handle = sess[s].handle /\ kids = live[s]),
         \/ ~Refused(rec)
         \/ /\ rec.status = sess[s].status /\ rec.handle = sess[s].handle
            /\ rec.timer => sess[s].timer
            /\ kids = live[s] /\ signalled'[s] = signalled[s],
         s \notin astray => loose'[s] = 0 /\ stale'[s] = 0 /\ s \notin halted',
         s \notin astray /\ ~Refused(rec) => kids \subseteq {rec.handle}
  PROVE  /\ Good(s)' /\ SameBudget(s)
         /\ file' \in [Sessions -> Statuses]
         /\ Persist \/ UNCHANGED file
         /\ \/ Refused(rec) /\ sess'[s] = rec /\ live'[s] = live[s]
            \/ /\ ~Refused(rec) /\ Turns(s, Busy)
               /\ sess'[s].timer = FALSE /\ sess'[s].again = FALSE
               /\ \E p : live'[s] \subseteq live[s] \cup {p}
<1>1. TypeOK /\ Good(s) /\ kids \in SUBSET Procs /\ rec.restarts <= rec.limit /\ rec.restarts \in Nat
  BY RecordFacts DEF Inv
<1>2. /\ sess' \in [Sessions -> Record]
      /\ astray \subseteq astray' /\ sess'[s].restarts = rec.restarts /\ sess'[s].limit = rec.limit
      /\ \/ Refused(rec) /\ sess'[s] = rec /\ live'[s] = kids /\ astray' = astray
         \/ /\ ~Refused(rec) /\ sess'[s].timer = FALSE /\ sess'[s].again = FALSE
            /\ \/ /\ sess'[s].status = "starting" /\ sess'[s].handle = rec.handle
                  /\ live'[s] = kids /\ astray' = astray
               \/ /\ sess'[s].status = "running" /\ sess'[s].handle \in Procs \ kids
                  /\ live'[s] = kids \cup {sess'[s].handle}
                  /\ kids # {} => s \in astray'
  BY <1>1, StartFacts
<1>3. Filed(s)' /\ file' \in [Sessions -> Statuses] /\ (Persist \/ UNCHANGED file)
  <2>1. CASE Persist
    BY <1>2, <2>1, PersistFacts
  <2>2. CASE ~Persist
    <3>1. UNCHANGED file /\ live'[s] = live[s] /\ kids = live[s]
      BY <2>2 DEF PersistIfSpawned
    <3>2. sess'[s].status \in {sess[s].status, "starting"}
      BY <1>2, <3>1
    <3>3. Filed(s)'
      BY <1>1, <3>1, <3>2 DEF Good, Filed, Known
    <3> QED
      BY <1>1, <3>1, <3>3 DEF TypeOK
  <2> QED
    BY <2>1, <2>2
<1>4. ASSUME ~Refused(rec) PROVE Good(s)'
  <2>1. Alive(s)' /\ Driven(s)' /\ ~sess'[s].timer
    BY <1>1, <1>2, <1>4, NoneIsFresh DEF Good, Alive, Driven, Transient, Busy
  <2>2. Absence(s)'
    BY <1>1, <1>2, <1>4 DEF Good, Absence, Known
  <2>3. s \notin astray' => Alone(s)'
    BY <1>2, <1>4 DEF Alone
  <2> QED
    BY <1>2, <1>3, <2>1, <2>2, <2>3 DEF Good
<1>5. ASSUME Refused(rec) PROVE Good(s)'
  <2>1. /\ sess'[s].status = sess[s].status /\ sess'[s].handle = sess[s].handle
        /\ live'[s] = live[s] /\ signalled'[s] = signalled[s] /\ astray' = astray
        /\ sess'[s].timer => sess[s].timer
    BY <1>2, <1>5
  <2>2. Alive(s)' /\ (sess'[s].timer => sess'[s].handle = None)
    BY <1>1, <2>1 DEF Good, Alive
  <2>3. Driven(s)'
    BY <1>2, <1>5, <2>1 DEF Driven, Refused
  <2>4. s \notin astray' => Alone(s)'
    BY <1>1, <2>1 DEF Good, Alone
  <2>5. Absence(s)'
    BY <1>1, <1>2, <2>1 DEF Good, Absence, Known
  <2> QED
    BY <1>3, <2>1, <2>2, <2>3, <2>4, <2>5 DEF Good
<1>6. \/ Refused(rec) /\ sess'[s] = rec /\ live'[s] = live[s]
      \/ /\ ~Refused(rec) /\ Turns(s, Busy)
         /\ sess'[s].timer = FALSE /\ sess'[s].again = FALSE
         /\ \E p : live'[s] \subseteq live[s] \cup {p}
  <2>1. CASE Refused(rec)
    BY <1>2, <2>1
  <2>2. CASE ~Refused(rec)
    <3>1. live'[s] \subseteq live[s] \cup {sess'[s].handle}
      BY <1>2, <2>2
    <3>2. Turns(s, Busy)
      BY <1>2, <2>2 DEF Turns, SameBudget, Busy, Transient
    <3> QED
      BY <1>2, <2>2, <3>1, <3>2
  <2> QED
    BY <2>1, <2>2
<1> QED
  BY <1>2, <1>3, <1>4, <1>5, <1>6 DEF SameBudget

LEMMA StartSessionInv ==
  ASSUME Inv, NEW s \in Sessions, StartSession(s)
  PROVE  Inv' /\ \A t \in Sessions : Moves(t)
<1>1. /\ TypeOK /\ Good(s) /\ Known(s) /\ halted' = halted \ {s} /\ Start(s, sess[s], live[s])
      /\ PersistIfSpawned /\ UNCHANGED <<creating, signalled, loose, stale, crashes>>
  BY DEF Inv, StartSession
<1>2. s \notin astray => /\ loose'[s] = 0 /\ stale'[s] = 0 /\ s \notin halted'
                         /\ live[s] \subseteq {sess[s].handle}
  BY <1>1 DEF Good, Alone
<1>3. /\ Good(s)' /\ SameBudget(s) /\ file' \in [Sessions -> Statuses]
      /\ Persist \/ UNCHANGED file
      /\ \/ sess'[s] = sess[s] /\ live'[s] = live[s]
         \/ /\ Turns(s, Busy) /\ sess'[s].timer = FALSE /\ sess'[s].again = FALSE
            /\ \E p : live'[s] \subseteq live[s] \cup {p}
  BY <1>1, <1>2, RecordFacts, StartKeeps
<1>4. StartedTypes(s) /\ Started(s)
  BY <1>1, RecordFacts, StartTypes
<1>5. TypeOK'
  BY <1>1, <1>3, <1>4 DEF TypeOK, StartedTypes
<1>6. Apart(s)
  BY <1>1, <1>3, <1>4 DEF Apart, Started
<1>7. Moves(s)
  <2>1. Due(s) \in Nat /\ Due(s)' <= Due(s)
    BY <1>1, <1>3, DueFacts, RecordFacts DEF Due
  <2> QED
    BY <1>3, <2>1 DEF Moves, OwnFits, ClientFits, Quiet, One, Requests, Sticks
<1> QED
  BY <1>3, <1>5, <1>6, <1>7, ApartKeeps

LEMMA TimersInv ==
  ASSUME Inv, NEW s \in Sessions, Timers(s)
  PROVE  Inv' /\ \A t \in Sessions : Moves(t)
<1>1. TypeOK /\ Good(s) /\ UNCHANGED <<creating, signalled, crashes, halted>> /\ PersistIfSpawned
  BY DEF Inv, Timers, TimerFires, LooseTimerFires, StaleTimerFires
<1>2. PICK rec \in Record :
        /\ Start(s, rec, live[s])
        /\ rec.status = sess[s].status /\ rec.handle = sess[s].handle
        /\ rec.restarts = sess[s].restarts /\ rec.limit = sess[s].limit
        /\ rec.again = sess[s].again
        /\ rec.timer = sess[s].timer \/ rec.timer = FALSE
        /\ stale' = stale => rec.timer = FALSE
  <2>1. /\ [sess[s] EXCEPT !.timer = FALSE] \in Record
        /\ [sess[s] EXCEPT !.timer = FALSE].status = sess[s].status
        /\ [sess[s] EXCEPT !.timer = FALSE].handle = sess[s].handle
        /\ [sess[s] EXCEPT !.timer = FALSE].restarts = sess[s].restarts
        /\ [sess[s] EXCEPT !.timer = FALSE].limit = sess[s].limit
        /\ [sess[s] EXCEPT !.timer = FALSE].again = sess[s].again
        /\ [sess[s] EXCEPT !.timer = FALSE].timer = FALSE
    BY <1>1, RecordFacts DEF Record
  <2>2. CASE TimerFires(s) \/ LooseTimerFires(s)
    BY <2>1, <2>2 DEF TimerFires, LooseTimerFires
  <2>3. CASE StaleTimerFires(s)
    <3>1. stale' # stale
      BY <1>1, <2>3 DEF StaleTimerFires, TypeOK
    <3> QED
      BY <1>1, <2>3, <3>1, RecordFacts DEF StaleTimerFires
  <2> QED
    BY <2>2, <2>3 DEF Timers
<1>3. /\ loose' \in [Sessions -> Nat] /\ stale' \in [Sessions -> Nat]
      /\ loose'[s] <= loose[s] /\ stale'[s] <= stale[s]
      /\ \A t \in Sessions \ {s} : loose'[t] = loose[t] /\ stale'[t] = stale[t]
      /\ \/ loose'[s] + stale'[s] < loose[s] + stale[s]
         \/ sess[s].timer /\ stale' = stale
  BY <1>1 DEF TypeOK, Timers, TimerFires, LooseTimerFires, StaleTimerFires
<1>4. sess[s].timer \/ loose[s] > 0 \/ stale[s] > 0
  BY DEF Timers, TimerFires, LooseTimerFires, StaleTimerFires
<1>5. /\ Known(s)
      /\ s \notin astray => /\ loose'[s] = 0 /\ stale'[s] = 0 /\ s \notin halted'
                            /\ live[s] \subseteq {sess[s].handle}
  BY <1>1, <1>3, <1>4 DEF Good, Alone, Rests, Absence
<1>6. /\ Good(s)' /\ SameBudget(s) /\ file' \in [Sessions -> Statuses]
      /\ Persist \/ UNCHANGED file
      /\ \/ sess'[s] = rec /\ live'[s] = live[s]
         \/ /\ Turns(s, Busy) /\ sess'[s].timer = FALSE /\ sess'[s].again = FALSE
            /\ \E p : live'[s] \subseteq live[s] \cup {p}
  BY <1>1, <1>2, <1>5, RecordFacts, StartKeeps
<1>7. StartedTypes(s) /\ Started(s)
  BY <1>1, <1>2, RecordFacts, StartTypes
<1>8. TypeOK'
  BY <1>1, <1>3, <1>6, <1>7 DEF TypeOK, StartedTypes
<1>9. Apart(s)
  BY <1>1, <1>3, <1>6, <1>7 DEF Apart, Started
<1>10. Moves(s)
  <2>1. Due(s) \in Nat /\ Due(s)' \in Nat /\ Due(s)' < Due(s)
    <3>1. /\ loose[s] \in Nat /\ stale[s] \in Nat /\ loose'[s] \in Nat /\ stale'[s] \in Nat
          /\ sess[s].timer \in BOOLEAN /\ sess[s].again \in BOOLEAN
          /\ sess'[s].timer = sess[s].timer \/ sess'[s].timer = FALSE
          /\ sess'[s].again = sess[s].again \/ sess'[s].again = FALSE
          /\ stale' = stale => sess'[s].timer = FALSE
      BY <1>1, <1>2, <1>3, <1>6, RecordFacts
    <3>2. Due(s) \in Nat /\ Due(s)' \in Nat
      BY <1>1, <1>8, DueFacts, NextDueFacts
    <3> QED
      BY <1>3, <3>1, <3>2 DEF Due
  <2>2. OwnFits(s)
    BY <1>2, <1>6, <2>1 DEF OwnFits, Quiet, One, Uses
  <2>3. Sticks(s)
    BY <1>1, <1>5 DEF Sticks
  <2> QED
    BY <2>2, <2>3 DEF Moves
<1> QED
  BY <1>6, <1>8, <1>9, <1>10, ApartKeeps

-----------------------------------------------------------------------------
(* The other requests.                                                     *)

LEMMA CreateInv ==
  ASSUME Inv, NEW s \in Sessions, CreateSession(s) \/ SessionCreated(s) \/ WorktreeFails(s)
  PROVE  Inv' /\ \A t \in Sessions : Moves(t)
<1>1. /\ TypeOK /\ Good(s) /\ UNCHANGED <<live, signalled, loose, stale, crashes, halted, astray>>
      /\ creating' \in [Sessions -> {"no", "worktree", "shared"}]
      /\ \A t \in Sessions \ {s} : creating'[t] = creating[t]
      /\ ~Known(s) /\ sess[s].handle = None /\ sess[s].restarts = 0
      /\ SessionCreated(s) \/ UNCHANGED <<sess, file>>
  BY DEF Inv, TypeOK, Good, Absence, Alive, Known, Transient, Busy,
         CreateSession, SessionCreated, WorktreeFails
<1>2. CASE UNCHANGED <<sess, file>>
  <2>1. Good(s)'
    BY <1>1, <1>2 DEF Good, Alive, Driven, Filed, Absence, Known, Alone, Rests
  <2>2. TypeOK' /\ Apart(s)
    BY <1>1, <1>2 DEF TypeOK, Apart
  <2>3. Moves(s)
    <3>1. Due(s) \in Nat /\ Due(s)' = Due(s)
      BY <1>1, <1>2, DueFacts DEF Due
    <3> QED
      BY <1>1, <1>2, <3>1 DEF Moves, OwnFits, SameBudget, Quiet, Sticks
  <2> QED
    BY <2>1, <2>2, <2>3, ApartKeeps
<1>3. CASE SessionCreated(s)
  <2>1. PICK rec \in Record :
          /\ sess' = [sess EXCEPT ![s] = rec]
          /\ rec.status = "created" /\ rec.restarts = 0 /\ rec.handle = None
          /\ rec.limit \in RestartLimits[s] /\ rec.limit \in Nat
          /\ rec.timer = FALSE /\ rec.again = FALSE
    <3>1. PICK n \in RestartLimits[s] :
            sess' = [sess EXCEPT ![s] = [Absent EXCEPT !.status = "created", !.limit = n,
                                                       !.shared = creating[s] = "shared"]]
      BY <1>3 DEF SessionCreated
    <3>2. n \in Nat
      BY LimitsAreNat
    <3> DEFINE rec == [Absent EXCEPT !.status = "created", !.limit = n,
                                     !.shared = creating[s] = "shared"]
    <3>3. /\ rec \in Record /\ rec.status = "created" /\ rec.restarts = 0 /\ rec.handle = None
          /\ rec.limit = n /\ rec.timer = FALSE /\ rec.again = FALSE
      BY <3>2 DEF Record, Absent, Statuses
    <3> HIDE DEF rec
    <3> QED
      BY <3>1, <3>2, <3>3 DEF rec
  <2>2. sess'[s] = rec /\ sess' \in [Sessions -> Record] /\ \A t \in Sessions \ {s} : sess'[t] = sess[t]
    BY <1>1, <2>1 DEF TypeOK
  <2>3. live[s] = {} /\ loose[s] = 0 /\ stale[s] = 0 /\ creating'[s] = "no" /\ Persist
    BY <1>1, <1>3, <2>1 DEF Good, Absence, SessionCreated, TypeOK
  <2>4. file' \in [Sessions -> Statuses] /\ Filed(s)'
    BY <2>2, <2>3, PersistFacts
  <2>5. Good(s)'
    <3>1. s \notin astray => s \notin halted
      BY <1>1 DEF Good, Rests, Known
    <3> QED
      BY <1>1, <2>1, <2>2, <2>3, <2>4, <3>1 DEF Good, Alive, Driven, Absence, Known, Alone, Rests
  <2>6. TypeOK'
    BY <1>1, <2>1, <2>2, <2>4, LimitsAreNat DEF TypeOK
  <2>7. Apart(s)
    BY <1>1, <2>2, <2>3 DEF Apart
  <2>8. Moves(s)
    <3>1. Due(s) \in Nat /\ Due(s)' <= Due(s)
      BY <1>1, <2>1, <2>2, <2>3, DueFacts, RecordFacts DEF Due
    <3> QED
      BY <1>1, <1>3, <2>1, <2>2, <3>1 DEF Moves, ClientFits, Quiet, Requests, Sticks
  <2> QED
    BY <2>5, <2>6, <2>7, <2>8, ApartKeeps
<1> QED
  BY <1>1, <1>2, <1>3

LEMMA StopSessionInv ==
  ASSUME Inv, NEW s \in Sessions, StopSession(s)
  PROVE  Inv' /\ \A t \in Sessions : Moves(t)
<1>1. /\ TypeOK /\ Good(s) /\ Known(s) /\ sess' = [sess EXCEPT ![s] = Stopped(@)] /\ Persist
      /\ signalled' = [signalled EXCEPT ![s] = (@ \cup {sess[s].handle}) \cap live[s]]
      /\ halted' = halted \cup {s}
      /\ UNCHANGED <<creating, live, loose, stale, crashes, astray>>
  BY DEF Inv, StopSession, Signal
<1>2. /\ Stopped(sess[s]) \in Record /\ Stopped(sess[s]).restarts = sess[s].restarts
      /\ Stopped(sess[s]).limit = sess[s].limit
      /\ Stopped(sess[s]).handle = sess[s].handle /\ Stopped(sess[s]).timer = FALSE
      /\ Stopped(sess[s]).again = FALSE
      /\ Stopped(sess[s]).status = IF sess[s].handle = None THEN "stopped" ELSE "stopping"
  BY <1>1, RecordFacts DEF Stopped, Record, Statuses
<1>3. /\ sess'[s] = Stopped(sess[s]) /\ live'[s] = live[s] /\ sess' \in [Sessions -> Record]
      /\ signalled'[s] = (signalled[s] \cup {sess[s].handle}) \cap live[s]
      /\ signalled' \in [Sessions -> SUBSET Procs]
  BY <1>1, <1>2, RecordFacts DEF TypeOK
<1>4. file' \in [Sessions -> Statuses] /\ Filed(s)'
  BY <1>1, <1>3, PersistFacts
<1>5. Good(s)'
  <2>1. Alive(s)' /\ Driven(s)' /\ ~sess'[s].timer
    BY <1>1, <1>2, <1>3 DEF Good, Alive, Driven, Transient, Busy
  <2> QED
    BY <1>1, <1>2, <1>3, <1>4, <2>1 DEF Good, Absence, Known, Alone, Rests
<1>6. TypeOK'
  BY <1>1, <1>2, <1>3, <1>4 DEF TypeOK
<1>7. Apart(s)
  BY <1>1, <1>3 DEF Apart, TypeOK
<1>8. Moves(s)
  <2>1. Due(s) \in Nat /\ Due(s)' <= Due(s)
    BY <1>1, <1>2, <1>3, DueFacts, RecordFacts DEF Due
  <2> QED
    BY <1>1, <1>2, <1>3, <2>1 DEF Moves, ClientFits, Turns, SameBudget, Quiet, Requests, Sticks
<1> QED
  BY <1>5, <1>6, <1>7, <1>8, ApartKeeps

LEMMA RestartSessionInv ==
  ASSUME Inv, NEW s \in Sessions, RestartSession(s)
  PROVE  Inv' /\ \A t \in Sessions : Moves(t)
<1>1. /\ TypeOK /\ Good(s) /\ Known(s) /\ halted' = halted \ {s} /\ Persist
      /\ UNCHANGED <<creating, loose, stale, crashes>>
  BY DEF Inv, RestartSession
<1>2. sess[s] \in Record /\ sess[s].restarts <= sess[s].limit
  BY <1>1, RecordFacts
<1>3. CASE sess[s].handle = None
  <2>1. PICK rec \in Record :
          /\ Start(s, rec, live[s]) /\ UNCHANGED signalled
          /\ rec.handle = None /\ rec.restarts = sess[s].restarts /\ rec.limit = sess[s].limit
    <3>1. /\ [sess[s] EXCEPT !.status = "restarting"] \in Record
          /\ [sess[s] EXCEPT !.status = "restarting"].handle = None
          /\ [sess[s] EXCEPT !.status = "restarting"].restarts = sess[s].restarts
          /\ [sess[s] EXCEPT !.status = "restarting"].limit = sess[s].limit
      BY <1>2, <1>3 DEF Record, Statuses
    <3> QED
      BY <1>3, <3>1 DEF RestartSession
  <2>2. s \notin astray => /\ loose'[s] = 0 /\ stale'[s] = 0 /\ s \notin halted'
                           /\ live[s] \subseteq {rec.handle}
    BY <1>1, <1>3, <2>1 DEF Good, Alone
  <2>3. ~Refused(rec)
    BY <2>1 DEF Refused
  <2>4. /\ Good(s)' /\ SameBudget(s) /\ file' \in [Sessions -> Statuses]
        /\ Turns(s, Busy) /\ sess'[s].timer = FALSE /\ sess'[s].again = FALSE
        /\ \E p : live'[s] \subseteq live[s] \cup {p}
    BY <1>1, <1>2, <2>1, <2>2, <2>3, StartKeeps
  <2>5. StartedTypes(s) /\ Started(s)
    BY <1>1, <1>2, <2>1, RecordFacts, StartTypes
  <2>6. TypeOK'
    BY <1>1, <2>1, <2>4, <2>5 DEF TypeOK, StartedTypes
  <2>7. Apart(s)
    BY <1>1, <2>1, <2>5 DEF Apart, Started
  <2>8. Moves(s)
    <3>1. Due(s) \in Nat /\ Due(s)' <= Due(s)
      BY <1>1, <2>4, DueFacts, RecordFacts DEF Due
    <3> QED
      BY <2>4, <3>1 DEF Moves, ClientFits, One, Requests, Sticks
  <2> QED
    BY <2>4, <2>6, <2>7, <2>8, ApartKeeps
<1>4. CASE sess[s].handle # None
  <2>1. /\ sess' = [sess EXCEPT ![s].manual = TRUE, ![s].again = TRUE, ![s].status = "restarting"]
        /\ signalled' = [signalled EXCEPT ![s] = (@ \cup {sess[s].handle}) \cap live[s]]
        /\ UNCHANGED <<live, astray>>
    BY <1>4 DEF RestartSession, Signal
  <2>2. /\ sess' \in [Sessions -> Record] /\ \A t \in Sessions \ {s} : sess'[t] = sess[t]
        /\ sess'[s].status = "restarting" /\ sess'[s].handle = sess[s].handle
        /\ sess'[s].timer = sess[s].timer /\ sess'[s].restarts = sess[s].restarts
        /\ sess'[s].limit = sess[s].limit
    <3> DEFINE rec == [sess[s] EXCEPT !.manual = TRUE, !.again = TRUE, !.status = "restarting"]
    <3>1. /\ rec \in Record /\ rec.status = "restarting" /\ rec.handle = sess[s].handle
          /\ rec.timer = sess[s].timer /\ rec.restarts = sess[s].restarts /\ rec.limit = sess[s].limit
      BY <1>2 DEF Record, Statuses
    <3>2. sess' = [sess EXCEPT ![s] = rec]
      BY <1>1, <1>2, <2>1 DEF TypeOK
    <3> HIDE DEF rec
    <3> QED
      BY <1>1, <3>1, <3>2 DEF TypeOK
  <2>3. /\ signalled'[s] = (signalled[s] \cup {sess[s].handle}) \cap live[s]
        /\ signalled' \in [Sessions -> SUBSET Procs]
    BY <1>1, <2>1 DEF TypeOK
  <2>4. file' \in [Sessions -> Statuses] /\ Filed(s)'
    BY <1>1, <2>2, PersistFacts
  <2>5. Good(s)'
    <3>1. Alive(s)' /\ Driven(s)' /\ Absence(s)' /\ ~sess'[s].timer
      BY <1>1, <1>4, <2>1, <2>2, <2>3 DEF Good, Alive, Driven, Absence, Known, Transient, Busy
    <3> QED
      BY <1>1, <2>1, <2>2, <2>4, <3>1 DEF Good, Alone
  <2>6. TypeOK'
    BY <1>1, <2>1, <2>2, <2>3, <2>4 DEF TypeOK
  <2>7. Apart(s)
    BY <1>1, <2>1, <2>2 DEF Apart, TypeOK
  <2>8. Moves(s)
    <3>1. Due(s) \in Nat /\ Due(s)' <= Due(s) + 1
      BY <1>1, <2>2, DueFacts, RecordFacts DEF Due
    <3>2. Turns(s, Busy) /\ live'[s] = live[s]
      BY <1>1, <2>1, <2>2 DEF Turns, SameBudget, Busy, Transient
    <3> QED
      BY <3>1, <3>2 DEF Moves, ClientFits, One, Requests, Sticks
  <2> QED
    BY <2>5, <2>6, <2>7, <2>8, ApartKeeps
<1> QED
  BY <1>3, <1>4

LEMMA SaveInv ==
  ASSUME Inv, Save
  PROVE  Inv' /\ \A t \in Sessions : Moves(t)
<1>1. /\ UNCHANGED <<sess, creating, live, signalled, loose, stale, crashes, halted, astray>>
      /\ Persist /\ TypeOK
  BY DEF Save, Inv
<1>2. file' \in [Sessions -> Statuses] /\ \A s \in Sessions : Filed(s)'
  BY <1>1, PersistFacts DEF TypeOK
<1>3. TypeOK'
  BY <1>1, <1>2 DEF TypeOK
<1>4. ASSUME NEW s \in Sessions PROVE Good(s)' /\ Moves(s)
  <2>1. Good(s)'
    BY <1>1, <1>2 DEF Inv, Good, Alive, Driven, Absence, Known, Alone, Rests
  <2>2. Due(s) \in Nat /\ Due(s)' = Due(s)
    BY <1>1, DueFacts DEF Due
  <2> QED
    BY <1>1, <2>1, <2>2 DEF Moves, OwnFits, SameBudget, Quiet, Sticks
<1> QED
  BY <1>3, <1>4 DEF Inv

-----------------------------------------------------------------------------
(* A child exits: while the session never went astray, it is the one the   *)
(* record names, so that nothing is left of it.                            *)

LEMMA ExitFacts ==
  ASSUME Inv, NEW s \in Sessions, NEW p \in live[s], s \notin astray
  PROVE  /\ sess[s].handle = p /\ live[s] \ {p} = {} /\ ~sess[s].timer
         /\ s \in halted => ~sess[s].again /\ sess[s].status = "stopping"
<1>1. Good(s) /\ p \in Procs
  BY RecordFacts DEF Inv
<1>2. sess[s].handle = p /\ p # None /\ live[s] \ {p} = {}
  BY <1>1, NoneIsFresh DEF Good, Alone
<1> QED
  BY <1>1, <1>2 DEF Good, Rests

LEMMA ExitStartsInv ==
  ASSUME Inv, NEW s \in Sessions, NEW p \in Procs, HandleExit(s, p), sess[s].again
  PROVE  Inv' /\ \A t \in Sessions : Moves(t)
<1>1. /\ TypeOK /\ Good(s) /\ p \in live[s] /\ Known(s) /\ Persist
      /\ signalled' = [signalled EXCEPT ![s] = @ \ {p}]
      /\ UNCHANGED <<creating, stale, crashes, halted>>
  BY DEF Inv, HandleExit, Good, Absence
<1>2. sess[s] \in Record /\ sess[s].restarts <= sess[s].limit /\ live[s] \ {p} \in SUBSET live[s]
  BY <1>1, RecordFacts
<1>3. PICK rec \in Record :
        /\ Start(s, rec, live[s] \ {p}) /\ UNCHANGED loose
        /\ rec.handle = None /\ rec.restarts = sess[s].restarts /\ rec.limit = sess[s].limit
  <2> DEFINE gone == [sess[s] EXCEPT !.handle = None]
             rec == [gone EXCEPT !.again = FALSE, !.manual = FALSE, !.status = "restarting"]
  <2>1. gone.again = sess[s].again
    BY <1>2 DEF Record
  <2>2. rec \in Record /\ rec.handle = None /\ rec.restarts = sess[s].restarts /\ rec.limit = sess[s].limit
    BY <1>2 DEF Record, Statuses
  <2> QED
    BY <2>1, <2>2 DEF HandleExit
<1>4. s \notin astray => /\ loose'[s] = 0 /\ stale'[s] = 0 /\ s \notin halted'
                         /\ live[s] \ {p} \subseteq {rec.handle}
  BY <1>1, <1>3, ExitFacts DEF Good, Alone
<1>5. ~Refused(rec)
  BY <1>3 DEF Refused
<1>6. /\ Good(s)' /\ SameBudget(s) /\ file' \in [Sessions -> Statuses]
      /\ Turns(s, Busy) /\ sess'[s].timer = FALSE /\ sess'[s].again = FALSE
      /\ \E q : live'[s] \subseteq live[s] \cup {q}
  BY <1>1, <1>2, <1>3, <1>4, <1>5, StartKeeps
<1>7. StartedTypes(s) /\ Started(s)
  BY <1>1, <1>2, <1>3, RecordFacts, StartTypes
<1>8. TypeOK'
  BY <1>1, <1>3, <1>6, <1>7 DEF TypeOK, StartedTypes
<1>9. Apart(s)
  BY <1>1, <1>3, <1>7 DEF Apart, Started, TypeOK
<1>10. Moves(s)
  <2>1. Due(s) \in Nat /\ Due(s)' \in Nat /\ Due(s)' < Due(s)
    BY <1>1, <1>3, <1>6, <1>8, DueFacts, NextDueFacts, RecordFacts DEF Due
  <2>2. OwnFits(s)
    BY <1>6, <2>1 DEF OwnFits, One, Uses
  <2>3. Sticks(s)
    BY <1>1, ExitFacts DEF Sticks
  <2> QED
    BY <2>2, <2>3 DEF Moves
<1> QED
  BY <1>6, <1>8, <1>9, <1>10, ApartKeeps

(* The session comes to rest, or waits for the timer of its next restart.  *)
LEMMA ExitEndsInv ==
  ASSUME Inv, NEW s \in Sessions, NEW p \in Procs, HandleExit(s, p), ~sess[s].again
  PROVE  Inv' /\ \A t \in Sessions : Moves(t)
<1>1. /\ TypeOK /\ Good(s) /\ p \in live[s] /\ Known(s) /\ Persist
      /\ signalled' = [signalled EXCEPT ![s] = @ \ {p}]
      /\ UNCHANGED <<creating, stale, crashes, halted>>
  BY DEF Inv, HandleExit, Good, Absence
<1>2. /\ sess[s] \in Record /\ sess[s].restarts <= sess[s].limit
      /\ sess[s].restarts \in Nat /\ sess[s].limit \in Nat
  BY <1>1, RecordFacts
<1> DEFINE gone == [sess[s] EXCEPT !.handle = None]
<1>3. /\ gone \in Record /\ gone.handle = None /\ gone.again = sess[s].again
      /\ gone.manual = sess[s].manual
      /\ gone.timer = sess[s].timer /\ gone.status = sess[s].status
      /\ gone.restarts = sess[s].restarts /\ gone.limit = sess[s].limit
  BY <1>2 DEF Record
<1>4. /\ live' = [live EXCEPT ![s] = live[s] \ {p}] /\ UNCHANGED astray
      /\ \/ UNCHANGED loose /\ Ends(s, "stopped")
         \/ UNCHANGED loose /\ Ends(s, "error") /\ ~BudgetLeft(gone) /\ sess[s].status # "stopping"
         \/ /\ sess[s].status # "stopping" /\ BudgetLeft(gone)
            /\ sess' = [sess EXCEPT ![s] = [Counted(gone) EXCEPT !.status = "restarting",
                                                                 !.timer = TRUE]]
            /\ loose' = [loose EXCEPT ![s] = IF gone.timer THEN @ + 1 ELSE @]
  BY <1>3 DEF HandleExit
<1>5. PICK rec \in Record :
        /\ sess' = [sess EXCEPT ![s] = rec]
        /\ rec.handle = None /\ rec.again = sess[s].again /\ rec.limit = sess[s].limit
        /\ rec.restarts <= rec.limit
        /\ \/ /\ \/ rec.status = "stopped"
                 \/ rec.status = "error" /\ rec.restarts = rec.limit /\ sess[s].status # "stopping"
              /\ rec.restarts = sess[s].restarts
              /\ rec.timer = sess[s].timer /\ UNCHANGED loose
           \/ /\ rec.status = "restarting" /\ rec.timer = TRUE /\ sess[s].status # "stopping"
              /\ sess[s].restarts < sess[s].limit /\ rec.restarts = sess[s].restarts + 1
              /\ loose' = [loose EXCEPT ![s] = IF sess[s].timer THEN @ + 1 ELSE @]
  <2>1. ASSUME NEW status \in {"stopped", "error"}, Ends(s, status)
        PROVE  \E rec \in Record :
                 /\ sess' = [sess EXCEPT ![s] = rec]
                 /\ rec.handle = None /\ rec.again = sess[s].again /\ rec.limit = sess[s].limit
                 /\ rec.restarts = sess[s].restarts /\ rec.status = status
                 /\ rec.timer = sess[s].timer
    <3> DEFINE rec == [sess[s] EXCEPT !.status = status, !.handle = None, !.manual = FALSE]
    <3>1. /\ rec \in Record /\ rec.handle = None /\ rec.again = sess[s].again
          /\ rec.restarts = sess[s].restarts /\ rec.limit = sess[s].limit
          /\ rec.status = status /\ rec.timer = sess[s].timer
      BY <1>2 DEF Record, Statuses
    <3>2. sess' = [sess EXCEPT ![s] = rec]
      BY <1>1, <1>2, <2>1 DEF TypeOK, Ends
    <3> HIDE DEF rec
    <3> QED
      BY <3>1, <3>2
  <2>2. CASE UNCHANGED loose /\ Ends(s, "stopped")
    <3>1. PICK rec \in Record :
            /\ sess' = [sess EXCEPT ![s] = rec]
            /\ rec.handle = None /\ rec.again = sess[s].again /\ rec.limit = sess[s].limit
            /\ rec.restarts = sess[s].restarts /\ rec.status = "stopped"
            /\ rec.timer = sess[s].timer
      BY <2>1, <2>2
    <3> QED
      BY <1>2, <2>2, <3>1
  <2>3. CASE UNCHANGED loose /\ Ends(s, "error") /\ ~BudgetLeft(gone) /\ sess[s].status # "stopping"
    <3>1. sess[s].restarts = sess[s].limit
      BY <1>2, <1>3, <2>3 DEF BudgetLeft
    <3>2. PICK rec \in Record :
            /\ sess' = [sess EXCEPT ![s] = rec]
            /\ rec.handle = None /\ rec.again = sess[s].again /\ rec.limit = sess[s].limit
            /\ rec.restarts = sess[s].restarts /\ rec.status = "error"
            /\ rec.timer = sess[s].timer
      BY <2>1, <2>3
    <3> QED
      BY <1>2, <2>3, <3>1, <3>2
  <2>4. CASE /\ sess[s].status # "stopping" /\ BudgetLeft(gone)
             /\ sess' = [sess EXCEPT ![s] = [Counted(gone) EXCEPT !.status = "restarting",
                                                                  !.timer = TRUE]]
             /\ loose' = [loose EXCEPT ![s] = IF gone.timer THEN @ + 1 ELSE @]
    <3> HIDE DEF gone
    <3> DEFINE rec == [Counted(gone) EXCEPT !.status = "restarting", !.timer = TRUE]
    <3>1. gone.restarts < gone.limit
      BY <2>4 DEF BudgetLeft
    <3>2. gone.restarts + 1 \in Nat /\ gone.restarts + 1 <= gone.limit
      BY <1>2, <1>3, <3>1
    <3>3. /\ rec \in Record /\ rec.handle = None /\ rec.again = gone.again /\ rec.limit = gone.limit
          /\ rec.restarts = gone.restarts + 1 /\ rec.status = "restarting" /\ rec.timer = TRUE
      BY <1>3, <3>2 DEF Counted, Record, Statuses
    <3> HIDE DEF rec
    <3> QED
      BY <1>3, <2>4, <3>1, <3>2, <3>3 DEF rec
  <2> QED
    BY <1>4, <2>2, <2>3, <2>4
<1> HIDE DEF gone
<1>6. /\ sess' \in [Sessions -> Record] /\ sess'[s] = rec
      /\ \A t \in Sessions \ {s} : sess'[t] = sess[t]
      /\ live' \in [Sessions -> SUBSET Procs] /\ live'[s] = live[s] \ {p}
      /\ loose' \in [Sessions -> Nat] /\ \A t \in Sessions \ {s} : loose'[t] = loose[t]
      /\ ~sess[s].timer => loose'[s] = loose[s]
  BY <1>1, <1>4, <1>5 DEF TypeOK
<1>7. file' \in [Sessions -> Statuses] /\ Filed(s)'
  BY <1>1, <1>6, PersistFacts
<1>8. Alive(s)' /\ Driven(s)' /\ Absence(s)'
  BY <1>1, <1>5, <1>6 DEF Good, Alive, Driven, Absence, Known
<1>9. s \notin astray => Alone(s)' /\ (s \in halted => Rests(s)')
  BY <1>1, <1>5, <1>6, ExitFacts DEF Good, Alone, Rests
<1>10. Good(s)'
  BY <1>1, <1>4, <1>5, <1>6, <1>7, <1>8, <1>9 DEF Good
<1>11. TypeOK'
  BY <1>1, <1>2, <1>4, <1>5, <1>6, <1>7 DEF TypeOK
<1>12. Apart(s)
  BY <1>1, <1>4, <1>6 DEF Apart, TypeOK
<1>13. Moves(s)
  <2>1. Exits(s) /\ live'[s] \subseteq live[s] /\ Sticks(s)
    BY <1>1, <1>6 DEF Exits, Sticks
  <2>2. Due(s) \in Nat
    BY <1>1, DueFacts
  <2>3. CASE /\ \/ rec.status = "stopped"
                \/ rec.status = "error" /\ rec.restarts = rec.limit /\ sess[s].status # "stopping"
             /\ rec.restarts = sess[s].restarts
             /\ rec.timer = sess[s].timer /\ UNCHANGED loose
    <3>1. Due(s)' = Due(s)
      BY <1>1, <1>5, <1>6, <2>3 DEF Due
    <3> QED
      BY <1>1, <1>5, <1>6, <2>1, <2>2, <2>3, <3>1 DEF Moves, OwnFits, Turns, SameBudget, Quiet
  <2>4. CASE /\ rec.status = "restarting" /\ rec.timer = TRUE /\ sess[s].status # "stopping"
             /\ sess[s].restarts < sess[s].limit /\ rec.restarts = sess[s].restarts + 1
             /\ loose' = [loose EXCEPT ![s] = IF sess[s].timer THEN @ + 1 ELSE @]
    <3>1. Due(s)' = Due(s) + 1
      <4>1. /\ loose[s] \in Nat /\ stale[s] \in Nat
            /\ loose'[s] = IF sess[s].timer THEN loose[s] + 1 ELSE loose[s]
            /\ stale'[s] = stale[s] /\ sess'[s].again = sess[s].again /\ sess'[s].timer = TRUE
        BY <1>1, <1>5, <1>6, <2>4, RecordFacts DEF TypeOK
      <4> QED
        BY <4>1 DEF Due
    <3> QED
      BY <1>1, <1>5, <1>6, <2>1, <2>2, <2>4, <3>1 DEF Moves, OwnFits, One
  <2> QED
    BY <1>5, <2>3, <2>4
<1> QED
  BY <1>10, <1>11, <1>12, <1>13, ApartKeeps

-----------------------------------------------------------------------------
(* Restorations and crashes: what is read of a session, with the children  *)
(* kids that still report their exit, and whether it is resumed.           *)
Recovered(s, kids) ==
  /\ sess'[s].timer = FALSE /\ sess'[s].again = FALSE /\ sess'[s].restarts <= sess'[s].limit
  /\ \/ /\ ~Known(s)' /\ sess'[s].restarts = 0 /\ sess'[s].handle = None /\ live'[s] = kids
     \/ /\ Known(s) /\ Known(s)' /\ SameBudget(s)
        /\ \/ /\ file[s] # "restarting" /\ sess'[s].status = file[s]
              /\ sess'[s].handle = None /\ live'[s] = kids
           \/ /\ file[s] = "restarting" /\ sess'[s].status = "starting"
              /\ sess'[s].handle = None /\ live'[s] = kids
           \/ /\ file[s] = "restarting" /\ sess'[s].status = "running"
              /\ sess'[s].handle \in Procs /\ live'[s] = kids \cup {sess'[s].handle}

LEMMA RestoredFacts ==
  ASSUME Inv, NEW s \in Sessions
  PROVE  /\ Restored(s) \in Record /\ Restored(s).restarts = sess[s].restarts
         /\ Restored(s).limit = sess[s].limit /\ Restored(s).status = file[s]
         /\ Restored(s).handle = None /\ Restored(s).timer = FALSE /\ Restored(s).again = FALSE
<1>1. sess[s] \in Record /\ file[s] \in Statuses
  BY RecordFacts DEF Inv, TypeOK
<1> QED
  BY <1>1 DEF Restored, Absent, Record, Statuses

LEMMA ResumeFacts ==
  ASSUME NEW table \in [Sessions -> Record], NEW kids \in [Sessions -> SUBSET Procs],
         Resume(table, kids)
  PROVE  /\ sess' \in [Sessions -> Record] /\ live' \in [Sessions -> SUBSET Procs] /\ Persist
         /\ \A s \in Sessions :
              \/ table[s].status # "restarting" /\ sess'[s] = table[s] /\ live'[s] = kids[s]
              \/ /\ table[s].status = "restarting"
                 /\ sess'[s].timer = FALSE /\ sess'[s].again = FALSE
                 /\ sess'[s].restarts = table[s].restarts /\ sess'[s].limit = table[s].limit
                 /\ \/ /\ sess'[s].status = "starting" /\ sess'[s].handle = table[s].handle
                       /\ live'[s] = kids[s]
                    \/ /\ sess'[s].status = "running" /\ sess'[s].handle \in Procs
                       /\ live'[s] = kids[s] \cup {sess'[s].handle}
<1> DEFINE resumed == {s \in Sessions : table[s].status = "restarting"}
<1>1. PICK child \in [resumed -> Procs \cup {None}] :
        /\ sess' = [s \in Sessions |-> IF s \notin resumed THEN table[s]
                                       ELSE IF child[s] = None THEN Starting(table[s])
                                       ELSE Up(table[s], child[s])]
        /\ live' = [s \in Sessions |-> IF s \in resumed THEN kids[s] \cup ({child[s]} \ {None})
                                       ELSE kids[s]]
        /\ Persist
  BY DEF Resume
<1>2. ASSUME NEW rec \in Record
      PROVE  /\ Starting(rec) \in Record /\ Starting(rec).restarts = rec.restarts
             /\ Starting(rec).limit = rec.limit /\ Starting(rec).handle = rec.handle
             /\ Starting(rec).status = "starting" /\ Starting(rec).timer = FALSE
             /\ Starting(rec).again = FALSE
  BY DEF Starting, Record, Statuses
<1>3. ASSUME NEW rec \in Record, NEW p \in Procs
      PROVE  /\ Up(rec, p) \in Record /\ Up(rec, p).restarts = rec.restarts
             /\ Up(rec, p).limit = rec.limit /\ Up(rec, p).handle = p
             /\ Up(rec, p).status = "running" /\ Up(rec, p).timer = FALSE /\ Up(rec, p).again = FALSE
  BY DEF Up, Starting, Record, Statuses
<1>4. ASSUME NEW s \in Sessions
      PROVE  /\ sess'[s] \in Record /\ live'[s] \in SUBSET Procs
             /\ \/ table[s].status # "restarting" /\ sess'[s] = table[s] /\ live'[s] = kids[s]
                \/ /\ table[s].status = "restarting"
                   /\ sess'[s].timer = FALSE /\ sess'[s].again = FALSE
                   /\ sess'[s].restarts = table[s].restarts /\ sess'[s].limit = table[s].limit
                   /\ \/ /\ sess'[s].status = "starting" /\ sess'[s].handle = table[s].handle
                         /\ live'[s] = kids[s]
                      \/ /\ sess'[s].status = "running" /\ sess'[s].handle \in Procs
                         /\ live'[s] = kids[s] \cup {sess'[s].handle}
  <2>1. table[s] \in Record /\ kids[s] \in SUBSET Procs /\ (s \in resumed => child[s] \in Procs \cup {None})
    OBVIOUS
  <2>2. CASE s \notin resumed
    <3>1. sess'[s] = table[s] /\ live'[s] = kids[s] /\ table[s].status # "restarting"
      BY <1>1, <2>2
    <3> QED
      BY <2>1, <3>1
  <2>3. CASE s \in resumed /\ child[s] = None
    <3>1. sess'[s] = Starting(table[s]) /\ live'[s] = kids[s] /\ table[s].status = "restarting"
      BY <1>1, <2>3
    <3>2. /\ Starting(table[s]) \in Record /\ Starting(table[s]).restarts = table[s].restarts
          /\ Starting(table[s]).limit = table[s].limit /\ Starting(table[s]).handle = table[s].handle
          /\ Starting(table[s]).status = "starting" /\ Starting(table[s]).timer = FALSE
          /\ Starting(table[s]).again = FALSE
      BY <1>2, <2>1, Zenon
    <3> QED
      BY <2>1, <3>1, <3>2
  <2>4. CASE s \in resumed /\ child[s] # None
    <3> DEFINE p == child[s]
    <3>1. /\ sess'[s] = Up(table[s], p) /\ live'[s] = kids[s] \cup {p}
          /\ table[s].status = "restarting" /\ p \in Procs
      BY <1>1, <2>1, <2>4
    <3> HIDE DEF p
    <3>2. /\ Up(table[s], p) \in Record /\ Up(table[s], p).restarts = table[s].restarts
          /\ Up(table[s], p).limit = table[s].limit /\ Up(table[s], p).handle = p
          /\ Up(table[s], p).status = "running" /\ Up(table[s], p).timer = FALSE
          /\ Up(table[s], p).again = FALSE
      BY <1>3, <2>1, <3>1, Zenon
    <3> QED
      BY <2>1, <3>1, <3>2
  <2> QED
    BY <2>2, <2>3, <2>4
<1>5. sess' = [s \in Sessions |-> sess'[s]] /\ live' = [s \in Sessions |-> live'[s]]
  BY <1>1
<1> QED
  BY <1>1, <1>4, <1>5

LEMMA RecoveryFacts ==
  ASSUME Inv, NEW torn \in BOOLEAN, NEW kids \in [Sessions -> SUBSET Procs],
         Resume([s \in Sessions |-> IF torn THEN Absent ELSE Restored(s)], kids)
  PROVE  /\ sess' \in [Sessions -> Record] /\ live' \in [Sessions -> SUBSET Procs]
         /\ file' \in [Sessions -> Statuses]
         /\ \A s \in Sessions :
              Filed(s)' /\ Recovered(s, kids[s]) /\ (~torn /\ Known(s) => Known(s)')
<1> DEFINE table == [s \in Sessions |-> IF torn THEN Absent ELSE Restored(s)]
<1>1. /\ Absent \in Record /\ Absent.status = "absent" /\ Absent.restarts = 0 /\ Absent.limit = 0
      /\ Absent.handle = None /\ Absent.timer = FALSE /\ Absent.again = FALSE
  BY LimitsAreNat DEF Absent, Record, Statuses
<1>2. ASSUME NEW s \in Sessions
      PROVE  /\ table[s] \in Record /\ table[s].restarts <= table[s].limit
             /\ table[s].handle = None /\ table[s].timer = FALSE /\ table[s].again = FALSE
             /\ \/ table[s].status = "absent" /\ table[s].restarts = 0 /\ (torn \/ ~Known(s))
                \/ /\ ~torn /\ Known(s) /\ file[s] # "absent" /\ table[s].status = file[s]
                   /\ table[s].restarts = sess[s].restarts /\ table[s].limit = sess[s].limit
  <2>1. /\ sess[s].restarts <= sess[s].limit
        /\ file[s] = "absent" <=> ~Known(s)
        /\ ~Known(s) => sess[s].restarts = 0
    BY RecordFacts DEF Inv, Good, Filed, Absence
  <2>2. CASE torn
    BY <1>1, <2>2
  <2>3. CASE ~torn
    BY <2>1, <2>3, RestoredFacts
  <2> QED
    BY <2>2, <2>3
<1>3. table \in [Sessions -> Record] /\ Resume(table, kids)
  BY <1>2
<1> HIDE DEF table
<1>4. /\ sess' \in [Sessions -> Record] /\ live' \in [Sessions -> SUBSET Procs] /\ Persist
      /\ \A s \in Sessions :
           \/ table[s].status # "restarting" /\ sess'[s] = table[s] /\ live'[s] = kids[s]
           \/ /\ table[s].status = "restarting"
              /\ sess'[s].timer = FALSE /\ sess'[s].again = FALSE
              /\ sess'[s].restarts = table[s].restarts /\ sess'[s].limit = table[s].limit
              /\ \/ /\ sess'[s].status = "starting" /\ sess'[s].handle = table[s].handle
                    /\ live'[s] = kids[s]
                 \/ /\ sess'[s].status = "running" /\ sess'[s].handle \in Procs
                    /\ live'[s] = kids[s] \cup {sess'[s].handle}
  BY <1>3, ResumeFacts
<1>5. ASSUME NEW s \in Sessions PROVE Recovered(s, kids[s]) /\ (~torn /\ Known(s) => Known(s)')
  <2>1. CASE table[s].status # "restarting" /\ sess'[s] = table[s] /\ live'[s] = kids[s]
    <3>1. CASE table[s].status = "absent" /\ table[s].restarts = 0 /\ (torn \/ ~Known(s))
      BY <1>2, <2>1, <3>1 DEF Recovered, Known
    <3>2. CASE /\ ~torn /\ Known(s) /\ file[s] # "absent" /\ table[s].status = file[s]
               /\ table[s].restarts = sess[s].restarts /\ table[s].limit = sess[s].limit
      BY <1>2, <2>1, <3>2 DEF Recovered, SameBudget, Known
    <3> QED
      BY <1>2, <3>1, <3>2
  <2>2. CASE /\ table[s].status = "restarting"
             /\ sess'[s].timer = FALSE /\ sess'[s].again = FALSE
             /\ sess'[s].restarts = table[s].restarts /\ sess'[s].limit = table[s].limit
             /\ \/ /\ sess'[s].status = "starting" /\ sess'[s].handle = table[s].handle
                   /\ live'[s] = kids[s]
                \/ /\ sess'[s].status = "running" /\ sess'[s].handle \in Procs
                   /\ live'[s] = kids[s] \cup {sess'[s].handle}
    BY <1>2, <2>2 DEF Recovered, SameBudget, Known
  <2> QED
    BY <1>4, <2>1, <2>2
<1> QED
  BY <1>4, <1>5, PersistFacts

(* What a recovery does to a session is what Supervision allows.           *)
LEMMA RecoveredFits ==
  ASSUME Inv, NEW s \in Sessions, NEW kids \in SUBSET live[s], Recovered(s, kids),
         Due(s)' <= Due(s)
  PROVE  RecoveryFits(s)
<1>1. Good(s)
  BY DEF Inv
<1>2. CASE ~Known(s)' /\ live'[s] = kids
  BY <1>2 DEF RecoveryFits, Quiet
<1>3. CASE Known(s) /\ Known(s)' /\ SameBudget(s)
  <2>1. One(s)
    BY DEF One, Recovered
  <2>2. CASE file[s] # "restarting" /\ sess'[s].status = file[s] /\ live'[s] = kids
    <3>1. \/ sess'[s].status = sess[s].status
          \/ sess[s].status = "starting" /\ sess'[s].status \in {"created", "stopped", "error"}
      BY <1>1, <1>3, <2>2 DEF Good, Filed, Known, Normalize
    <3> QED
      BY <1>3, <2>1, <2>2, <3>1 DEF RecoveryFits, Quiet, Turns, Busy, Transient
  <2>3. CASE file[s] = "restarting" /\ sess'[s].status \in {"starting", "running"}
    <3>1. sess[s].status \in Busy
      BY <1>1, <2>3 DEF Good, Filed, Normalize, Busy, Transient
    <3> QED
      BY <1>3, <2>1, <2>3, <3>1 DEF RecoveryFits, Busy, Transient
  <2> QED
    BY <1>3, <2>2, <2>3 DEF Recovered
<1> QED
  BY <1>2, <1>3 DEF Recovered

(* A session that rests, and is no longer stopping, is not resumed.        *)
LEMMA RecoveredSticks ==
  ASSUME Inv, NEW s \in Sessions, NEW kids \in SUBSET live[s], Recovered(s, kids),
         RestoreSessions \/ Crash
  PROVE  Sticks(s)
<1>1. SUFFICES ASSUME s \in halted, s \notin astray, sess[s].status # "stopping"
               PROVE  live'[s] \subseteq live[s]
  BY DEF Sticks
<1>2. sess[s].status = "stopped" /\ file[s] = "stopped"
  BY <1>1 DEF Inv, Good, Rests, Filed, Normalize
<1> QED
  BY <1>2 DEF Recovered

LEMMA RestoreInv ==
  ASSUME Inv, RestoreSessions
  PROVE  Inv' /\ \A t \in Sessions : Moves(t)
<1>1. /\ TypeOK /\ Resume([s \in Sessions |-> Restored(s)], live) /\ live \in [Sessions -> SUBSET Procs]
      /\ stale' = [s \in Sessions |-> stale[s] + loose[s] + (IF sess[s].timer THEN 1 ELSE 0)]
      /\ loose' = [s \in Sessions |-> 0]
      /\ halted' = {s \in halted : sess'[s].status = "stopped"}
      /\ astray' = astray \cup {s \in Sessions :
                                  stale'[s] > 0 \/ ~(live'[s] \subseteq {sess'[s].handle})}
      /\ UNCHANGED <<creating, signalled, crashes>>
  BY DEF Inv, RestoreSessions, StillHalted, TypeOK
<1>2. Resume([s \in Sessions |-> IF FALSE THEN Absent ELSE Restored(s)], live)
  BY <1>1
<1>3. /\ sess' \in [Sessions -> Record] /\ live' \in [Sessions -> SUBSET Procs]
      /\ file' \in [Sessions -> Statuses]
      /\ \A s \in Sessions : Filed(s)' /\ Recovered(s, live[s]) /\ (Known(s) => Known(s)')
  BY <1>1, <1>2, RecoveryFacts
<1>4. TypeOK'
  <2>1. \A s \in Sessions : loose[s] \in Nat /\ stale[s] \in Nat
    BY <1>1 DEF TypeOK
  <2>2. loose' \in [Sessions -> Nat] /\ stale' \in [Sessions -> Nat]
    BY <1>1, <2>1
  <2>3. \A s \in Sessions : sess'[s].restarts <= sess'[s].limit
    BY <1>3 DEF Recovered
  <2> QED
    BY <1>1, <1>3, <2>2, <2>3 DEF TypeOK
<1>5. ASSUME NEW s \in Sessions PROVE Good(s)' /\ Moves(s)
  <2>1. /\ Good(s) /\ Filed(s)' /\ Recovered(s, live[s]) /\ (Known(s) => Known(s)')
        /\ loose[s] \in Nat /\ stale[s] \in Nat
        /\ sess[s].timer \in BOOLEAN /\ sess[s].again \in BOOLEAN
    BY <1>1, <1>3, RecordFacts DEF Inv
  <2>2. loose'[s] = 0 /\ stale'[s] = stale[s] + loose[s] + (IF sess[s].timer THEN 1 ELSE 0)
    BY <1>1
  <2>3. s \notin astray' => s \notin astray /\ stale'[s] = 0 /\ live'[s] \subseteq {sess'[s].handle}
    <3>1. stale'[s] \in Nat
      BY <2>1, <2>2
    <3> QED
      BY <1>1, <3>1
  <2>4. Alive(s)' /\ Driven(s)' /\ ~sess'[s].timer
    <3>1. file[s] \in {"absent", "created", "stopped", "restarting", "error"}
      BY <2>1 DEF Good, Filed
    <3>2. CASE ~Known(s)' /\ sess'[s].handle = None
      BY <2>1, <3>2 DEF Recovered, Alive, Driven, Known
    <3>3. CASE /\ file[s] # "restarting" /\ sess'[s].status = file[s] /\ sess'[s].handle = None
      BY <2>1, <3>1, <3>3 DEF Recovered, Alive, Driven
    <3>4. CASE sess'[s].status = "starting" /\ sess'[s].handle = None
      BY <2>1, <3>4 DEF Recovered, Alive, Driven
    <3>5. CASE /\ sess'[s].status = "running" /\ sess'[s].handle \in Procs
               /\ live'[s] = live[s] \cup {sess'[s].handle}
      BY <2>1, <3>5, NoneIsFresh DEF Recovered, Alive, Driven, Busy
    <3> QED
      BY <2>1, <3>2, <3>3, <3>4, <3>5 DEF Recovered
  <2>5. Absence(s)'
    BY <1>1, <2>1, <2>2 DEF Good, Absence, Recovered, Known
  <2>6. s \notin astray' => Alone(s)'
    BY <2>2, <2>3 DEF Alone
  <2>7. s \in halted' => Rests(s)'
    <3> SUFFICES ASSUME s \in halted' PROVE Rests(s)'
      OBVIOUS
    <3>1. sess'[s].status = "stopped"
      BY <1>1
    <3> QED
      BY <2>1, <3>1 DEF Rests, Recovered, Known
  <2>8. Due(s)' <= Due(s)
    BY <2>1, <2>2 DEF Due, Recovered
  <2>9. Moves(s)
    BY <2>1, <2>8, RecoveredFits, RecoveredSticks DEF Moves
  <2> QED
    BY <2>1, <2>4, <2>5, <2>6, <2>7, <2>9 DEF Good
<1> QED
  BY <1>4, <1>5 DEF Inv

LEMMA CrashInv ==
  ASSUME Inv, Crash
  PROVE  Inv' /\ \A t \in Sessions : Moves(t)
<1> DEFINE kids == [s \in Sessions |-> {}]
<1>1. /\ TypeOK /\ crashes' = crashes + 1 /\ crashes < MaxCrashes
      /\ creating' = [s \in Sessions |-> "no"] /\ signalled' = [s \in Sessions |-> {}]
      /\ loose' = [s \in Sessions |-> 0] /\ stale' = [s \in Sessions |-> 0]
      /\ halted' = {s \in halted : sess'[s].status = "stopped"} /\ astray' = {}
  BY DEF Inv, Crash, StillHalted
<1>2. PICK torn \in BOOLEAN :
        Resume([s \in Sessions |-> IF torn THEN Absent ELSE Restored(s)], kids)
  BY DEF Crash
<1>3. kids \in [Sessions -> SUBSET Procs] /\ \A s \in Sessions : kids[s] = {}
  OBVIOUS
<1> HIDE DEF kids
<1>4. /\ sess' \in [Sessions -> Record] /\ live' \in [Sessions -> SUBSET Procs]
      /\ file' \in [Sessions -> Statuses]
      /\ \A s \in Sessions : Filed(s)' /\ Recovered(s, kids[s])
  BY <1>2, <1>3, RecoveryFacts
<1>5. TypeOK'
  <2>1. crashes' \in 0 .. MaxCrashes
    BY <1>1, LimitsAreNat DEF TypeOK
  <2>2. \A s \in Sessions : sess'[s].restarts <= sess'[s].limit
    BY <1>4 DEF Recovered
  <2> QED
    BY <1>1, <1>4, <2>1, <2>2 DEF TypeOK
<1>6. ASSUME NEW s \in Sessions PROVE Good(s)' /\ Moves(s)
  <2>1. Good(s) /\ Filed(s)' /\ Recovered(s, {}) /\ Due(s) \in Nat
    BY <1>1, <1>3, <1>4, DueFacts DEF Inv
  <2>2. creating'[s] = "no" /\ loose'[s] = 0 /\ stale'[s] = 0 /\ astray' = {}
    BY <1>1
  <2>3. /\ Alive(s)' /\ Driven(s)' /\ ~sess'[s].timer
        /\ live'[s] \subseteq {sess'[s].handle}
    <3>1. file[s] \in {"absent", "created", "stopped", "restarting", "error"}
      BY <2>1 DEF Good, Filed
    <3>2. CASE ~Known(s)' /\ sess'[s].handle = None /\ live'[s] = {}
      BY <2>1, <3>2 DEF Recovered, Alive, Driven, Known
    <3>3. CASE /\ file[s] # "restarting" /\ sess'[s].status = file[s] /\ sess'[s].handle = None
               /\ live'[s] = {}
      BY <2>1, <3>1, <3>3 DEF Recovered, Alive, Driven
    <3>4. CASE sess'[s].status = "starting" /\ sess'[s].handle = None /\ live'[s] = {}
      BY <2>1, <3>4 DEF Recovered, Alive, Driven
    <3>5. CASE /\ sess'[s].status = "running" /\ sess'[s].handle \in Procs
               /\ live'[s] = {} \cup {sess'[s].handle}
      BY <2>1, <3>5, NoneIsFresh DEF Recovered, Alive, Driven, Busy
    <3> QED
      BY <2>1, <3>2, <3>3, <3>4, <3>5 DEF Recovered
  <2>4. Absence(s)' /\ Alone(s)'
    BY <2>1, <2>2, <2>3 DEF Absence, Alone, Recovered, Known
  <2>5. s \in halted' => Rests(s)'
    <3> SUFFICES ASSUME s \in halted' PROVE Rests(s)'
      OBVIOUS
    <3>1. sess'[s].status = "stopped"
      BY <1>1
    <3> QED
      BY <2>1, <3>1 DEF Rests, Recovered, Known
  <2>6. Due(s)' <= Due(s)
    <3>1. Due(s)' = 0
      BY <2>1, <2>2 DEF Due, Recovered
    <3> QED
      BY <2>1, <3>1
  <2>7. Moves(s)
    <3>1. {} \in SUBSET live[s]
      OBVIOUS
    <3> QED
      BY <2>1, <2>6, <3>1, RecoveredFits, RecoveredSticks DEF Moves
  <2> QED
    BY <2>1, <2>3, <2>4, <2>5, <2>7 DEF Good
<1> QED
  BY <1>5, <1>6 DEF Inv

-----------------------------------------------------------------------------
(* The invariant, and what follows from it.                                *)

LEMMA InvInit == Init => Inv
<1> SUFFICES ASSUME Init PROVE Inv
  OBVIOUS
<1>1. TypeOK
  BY LimitsAreNat DEF Init, TypeOK, Record, Absent, Statuses
<1>2. ASSUME NEW s \in Sessions PROVE Good(s)
  <2>1. /\ sess[s] = Absent /\ file[s] = "absent" /\ creating[s] = "no"
        /\ live[s] = {} /\ loose[s] = 0 /\ stale[s] = 0 /\ halted = {}
    BY DEF Init
  <2> QED
    BY <2>1 DEF Absent, Good, Alive, Driven, Filed, Known, Normalize, Absence, Alone
<1> QED
  BY <1>1, <1>2 DEF Inv

LEMMA InvStep ==
  ASSUME Inv, [Next]_vars
  PROVE  Inv' /\ \A s \in Sessions : Moves(s)
<1>1. ASSUME NEW s \in Sessions, Requests(s) PROVE Inv' /\ \A t \in Sessions : Moves(t)
  BY <1>1, CreateInv, StartSessionInv, StopSessionInv, RestartSessionInv DEF Requests
<1>2. CASE UNCHANGED vars
  <2>1. TypeOK'
    BY <1>2 DEF vars, Inv, TypeOK
  <2>2. ASSUME NEW s \in Sessions PROVE Good(s)' /\ Moves(s)
    <3>1. Good(s)'
      BY <1>2 DEF vars, Inv, Good, Alive, Driven, Filed, Absence, Known, Alone, Rests
    <3>2. Due(s) \in Nat /\ Due(s)' = Due(s)
      BY <1>2, DueFacts DEF vars, Inv, Due
    <3> QED
      BY <1>2, <3>1, <3>2 DEF vars, Moves, OwnFits, SameBudget, Quiet, Sticks
  <2> QED
    BY <2>1, <2>2 DEF Inv
<1> QED
  BY <1>1, <1>2, TimersInv, ExitStartsInv, ExitEndsInv, SaveInv, RestoreInv, CrashInv DEF Next

(* Every variable keeps its type and no session is restarted more often    *)
(* than its limit, whatever children exit and whatever timers fire.        *)
THEOREM SessionTypeCorrect == Spec => []TypeOK
<1>1. Inv => TypeOK
  BY DEF Inv
<1> QED
  BY <1>1, InvInit, InvStep, PTL DEF Spec

(* A running session has a child that has not exited, and the child the    *)
(* supervisor would stop is one of those.                                  *)
THEOREM RunningAlwaysAlive == Spec => []RunningIsAlive
<1>1. Inv => RunningIsAlive
  BY DEF Inv, Good, Alive, RunningIsAlive
<1> QED
  BY <1>1, InvInit, InvStep, PTL DEF Spec

(* No session is shown as stopping or restarting without a timer or a      *)
(* signalled child that will move it on, also after starts that failed to  *)
(* spawn a child, restorations and crashes.  Nothing is said of one shown  *)
(* as starting, which such a failed start leaves without either.           *)
THEOREM TransientAlwaysDriven == Spec => []TransientHasDriver
<1>1. Inv => TransientHasDriver
  BY DEF Inv, Good, Driven, TransientHasDriver
<1> QED
  BY <1>1, InvInit, InvStep, PTL DEF Spec

(* A session that was stopped is given no child until a client starts or   *)
(* restarts it, unless a restoration or a crash came before the stop had   *)
(* come to its end, or the session has had two children at once, or a timer*)
(* or a child that outlived a restoration.                                 *)
THEOREM StopAlwaysSticks == Spec => StopSticks
<1>1. Inv /\ [Next]_vars =>
        [\A s \in halted :
           \/ live'[s] \subseteq live[s]
           \/ StartSession(s) \/ RestartSession(s)
           \/ sess[s].status = "stopping" /\ (RestoreSessions \/ Crash)
           \/ s \in astray \cup astray']_vars
  BY InvStep DEF Moves, Sticks, Inv, TypeOK
<1> QED
  BY <1>1, InvInit, InvStep, PTL DEF Spec, StopSticks

(* Neither a stop nor a start, a restoration or a crash gives restarts     *)
(* back to a session whose record is kept.                                 *)
THEOREM BudgetIsNeverRefunded == Spec => BudgetNeverRefunded
<1>1. Inv /\ [Next]_vars =>
        [\A s \in Sessions : Known(s)' => sess'[s].restarts >= sess[s].restarts]_vars
  <2> SUFFICES ASSUME Inv, [Next]_vars, NEW s \in Sessions, Known(s)'
               PROVE  sess'[s].restarts >= sess[s].restarts
    OBVIOUS
  <2>1. sess[s].restarts \in Nat /\ (~Known(s) => sess[s].restarts = 0)
    BY RecordFacts DEF Inv, Good, Absence
  <2>2. OwnFits(s) \/ ClientFits(s) \/ RecoveryFits(s)
    BY InvStep DEF Moves
  <2> QED
    BY <2>1, <2>2 DEF OwnFits, ClientFits, RecoveryFits, Turns, SameBudget
<1> QED
  BY <1>1, InvInit, InvStep, PTL DEF Spec, BudgetNeverRefunded

-----------------------------------------------------------------------------
(* What the table shows of a session moves as Supervision allows.          *)

LEMMA PendingFacts ==
  ASSUME NEW s \in Sessions, Due(s) \in Nat, Due(s)' \in Nat
  PROVE  /\ Pending(s) = 1 .. Due(s) /\ Pending(s)' = 1 .. Due(s)'
         /\ Due(s)' <= Due(s) => Pending(s)' \subseteq Pending(s)
         /\ Due(s)' <= Due(s) + 1 => Pending(s)' \subseteq Pending(s) \cup {Due(s) + 1}
         /\ Due(s)' < Due(s) => Due(s) \in Pending(s) /\ Due(s) \notin Pending(s)'
<1>1. Pending(s) = 1 .. Due(s) /\ Pending(s)' = 1 .. Due(s)'
  BY DEF Pending, Due
<1> QED
  BY <1>1

LEMMA StartsFacts ==
  ASSUME TypeOK, TypeOK', NEW s \in Sessions
  PROVE  /\ Quiet(s) => Contract(s)!NothingNew
         /\ One(s) => Contract(s)!OneNew
         /\ Uses(s) => Contract(s)!UsesStart /\ Pending(s) # {}
         /\ Exits(s) => Contract(s)!Ended
<1>1. Due(s) \in Nat /\ Due(s)' \in Nat
  BY DueFacts, NextDueFacts
<1>2. Quiet(s) => Contract(s)!NothingNew
  <2> SUFFICES ASSUME Quiet(s) PROVE Contract(s)!NothingNew
    OBVIOUS
  <2>1. Pending(s)' \subseteq Pending(s) /\ live'[s] \subseteq live[s]
    BY <1>1, PendingFacts DEF Quiet
  <2> QED
    BY <2>1 DEF Contract!NothingNew, Contract!New
<1>3. One(s) => Contract(s)!OneNew
  <2>1. ASSUME Due(s)' <= Due(s) + 1 /\ live'[s] \subseteq live[s] PROVE Contract(s)!OneNew
    <3>1. Pending(s)' \subseteq Pending(s) \cup {Due(s) + 1}
      BY <1>1, <2>1, PendingFacts
    <3> QED
      BY <2>1, <3>1 DEF Contract!OneNew, Contract!New
  <2>2. ASSUME Due(s)' <= Due(s), NEW p, live'[s] \subseteq live[s] \cup {p} PROVE Contract(s)!OneNew
    <3>1. Pending(s)' \subseteq Pending(s)
      BY <1>1, <2>2, PendingFacts
    <3> QED
      BY <2>2, <3>1 DEF Contract!OneNew, Contract!New
  <2> QED
    BY <2>1, <2>2 DEF One
<1>4. Uses(s) => Contract(s)!UsesStart /\ Pending(s) # {}
  <2> SUFFICES ASSUME Uses(s) PROVE Contract(s)!UsesStart /\ Pending(s) # {}
    OBVIOUS
  <2>1. Due(s) \in Pending(s) /\ Due(s) \notin Pending(s)'
    BY <1>1, PendingFacts DEF Uses
  <2> QED
    BY <2>1 DEF Contract!UsesStart
<1>5. Exits(s) => Contract(s)!Ended
  BY DEF Exits, Contract!Ended
<1> QED
  BY <1>2, <1>3, <1>4, <1>5

Shown(s) ==
  /\ Known(s) => /\ Entry(s) = [phase |-> Entry(s).phase, restarts |-> sess[s].restarts,
                                limit |-> sess[s].limit]
                 /\ Entry(s).phase # "unknown"
                 /\ Entry(s).phase = IF sess[s].status \in Busy THEN "active" ELSE sess[s].status
  /\ ~Known(s) => Entry(s) = [phase |-> "unknown", restarts |-> 0, limit |-> 0]

LEMMA EntryFacts == TypeOK => \A s \in Sessions : Shown(s)
<1> SUFFICES ASSUME TypeOK, NEW s \in Sessions PROVE Shown(s)
  OBVIOUS
<1>1. sess[s].status \in Statuses
  BY DEF TypeOK, Record
<1>2. CASE Known(s)
  <2>1. Entry(s) = [phase |-> IF sess[s].status \in Busy THEN "active" ELSE sess[s].status,
                    restarts |-> sess[s].restarts, limit |-> sess[s].limit]
    BY <1>2 DEF Entry, Transient, Busy
  <2> QED
    BY <1>1, <1>2, <2>1 DEF Statuses, Shown
<1>3. CASE ~Known(s)
  BY <1>3 DEF Entry, Shown
<1> QED
  BY <1>2, <1>3

LEMMA NextEntryFacts == (TypeOK => \A s \in Sessions : Shown(s))'
BY EntryFacts, PTL

(* A step that keeps the budget changes nothing but the phase.             *)
LEMMA TurnsFacts ==
  ASSUME TypeOK, TypeOK', NEW s \in Sessions
  PROVE  /\ Known(s) <=> Contract(s)!Known
         /\ Known(s) => Entry(s).restarts = sess[s].restarts /\ Entry(s).limit = sess[s].limit
         /\ sess'[s].status = sess[s].status /\ SameBudget(s) => Entry(s)' = Entry(s)
         /\ sess[s].status \in Busy /\ sess'[s].status \in Busy /\ SameBudget(s)
              => Entry(s)' = Entry(s)
         /\ Turns(s, Busy) => Contract(s)!Becomes("active")
         /\ \A status \in {"created", "stopped", "error"} :
              Turns(s, {status}) => Contract(s)!Becomes(status)
         /\ sess[s].status \in Busy => Entry(s).phase = "active"
         /\ sess'[s].status \in Busy => Entry(s)'.phase = "active"
<1>1. /\ Known(s) => /\ Entry(s) = [phase |-> Entry(s).phase, restarts |-> sess[s].restarts,
                                    limit |-> sess[s].limit]
                     /\ Entry(s).phase # "unknown"
                     /\ Entry(s).phase = IF sess[s].status \in Busy THEN "active"
                                         ELSE sess[s].status
      /\ ~Known(s) => Entry(s) = [phase |-> "unknown", restarts |-> 0, limit |-> 0]
  BY EntryFacts DEF Shown
<1>2. /\ Known(s)' => /\ Entry(s)' = [phase |-> Entry(s)'.phase, restarts |-> sess'[s].restarts,
                                      limit |-> sess'[s].limit]
                      /\ Entry(s)'.phase # "unknown"
                      /\ Entry(s)'.phase = IF sess'[s].status \in Busy THEN "active"
                                           ELSE sess'[s].status
  BY NextEntryFacts DEF Shown
<1>3. Known(s) <=> Contract(s)!Known
  BY <1>1 DEF Contract!Known, Contract!Unknown
<1>4. Known(s) => Entry(s).restarts = sess[s].restarts /\ Entry(s).limit = sess[s].limit
  BY <1>1
<1>5. sess'[s].status = sess[s].status /\ SameBudget(s) => Entry(s)' = Entry(s)
  BY DEF Entry, Known, SameBudget
<1>6. /\ sess[s].status \in Busy => Known(s) /\ Entry(s).phase = "active"
      /\ sess'[s].status \in Busy => Known(s)' /\ Entry(s)'.phase = "active"
  BY <1>1, <1>2 DEF Known, Busy, Transient
<1>7. sess[s].status \in Busy /\ sess'[s].status \in Busy /\ SameBudget(s) => Entry(s)' = Entry(s)
  BY <1>1, <1>2, <1>6 DEF SameBudget
<1>8. Turns(s, Busy) => Contract(s)!Becomes("active")
  <2> SUFFICES ASSUME Turns(s, Busy) PROVE Contract(s)!Becomes("active")
    OBVIOUS
  <2>1. Known(s) /\ Known(s)' /\ sess'[s].status \in Busy
    BY <1>6 DEF Turns
  <2>2. Entry(s)' = [Entry(s) EXCEPT !.phase = "active"]
    BY <1>1, <1>2, <2>1 DEF Turns, SameBudget
  <2> QED
    BY <1>3, <2>1, <2>2 DEF Contract!Becomes
<1>9. ASSUME NEW status \in {"created", "stopped", "error"}, Turns(s, {status})
      PROVE  Contract(s)!Becomes(status)
  <2>1. Known(s) /\ Known(s)' /\ sess'[s].status \notin Busy /\ sess'[s].status = status
    BY <1>9 DEF Turns, Known, Busy, Transient
  <2>2. Entry(s)' = [Entry(s) EXCEPT !.phase = status]
    BY <1>1, <1>2, <1>9, <2>1 DEF Turns, SameBudget
  <2> QED
    BY <1>3, <2>1, <2>2 DEF Contract!Becomes
<1> QED
  BY <1>3, <1>4, <1>5, <1>6, <1>7, <1>8, <1>9

LEMMA OwnFitsContract ==
  ASSUME TypeOK, TypeOK', NEW s \in Sessions, OwnFits(s)
  PROVE  Contract(s)!Own
<1>1. CASE sess'[s].status = sess[s].status /\ SameBudget(s) /\ Quiet(s)
  BY <1>1, StartsFacts, TurnsFacts DEF Contract!Own, Contract!Stay
<1>2. CASE Turns(s, Busy) /\ Uses(s) /\ One(s)
  BY <1>2, StartsFacts, TurnsFacts DEF Contract!Own, Contract!Begin
<1>3. CASE /\ Known(s) /\ Exits(s) /\ One(s) /\ sess[s].restarts < sess[s].limit
           /\ sess'[s].status = "restarting"
           /\ sess'[s].restarts = sess[s].restarts + 1 /\ sess'[s].limit = sess[s].limit
  <2>1. Entry(s)' = [phase |-> "active", restarts |-> sess[s].restarts + 1, limit |-> sess[s].limit]
    BY <1>3, NextEntryFacts DEF Shown, Known, Busy, Transient
  <2> DEFINE e == Entry(s)
  <2>2. e = [phase |-> e.phase, restarts |-> sess[s].restarts, limit |-> sess[s].limit]
    BY <1>3, EntryFacts DEF Shown
  <2> HIDE DEF e
  <2> DEFINE f == [e EXCEPT !.phase = "active"]
  <2>3. /\ f = [phase |-> "active", restarts |-> sess[s].restarts, limit |-> sess[s].limit]
        /\ e.restarts = sess[s].restarts /\ e.limit = sess[s].limit
    BY <2>2
  <2> HIDE DEF f
  <2>4. [f EXCEPT !.restarts = sess[s].restarts + 1] =
          [phase |-> "active", restarts |-> sess[s].restarts + 1, limit |-> sess[s].limit]
    BY <2>3
  <2>5. /\ Entry(s)' = [Entry(s) EXCEPT !.phase = "active", !.restarts = @ + 1]
        /\ Entry(s).restarts < Entry(s).limit
    BY <1>3, <2>1, <2>3, <2>4 DEF e, f
  <2> QED
    BY <1>3, <2>5, StartsFacts DEF Contract!Own, Contract!Restart
<1>4. CASE /\ Exits(s) /\ Quiet(s)
           /\ Turns(s, {"stopped"}) \/ (Turns(s, {"error"}) /\ sess[s].restarts = sess[s].limit)
  <2>1. Turns(s, {"error"}) => Known(s)
    BY DEF Turns
  <2> QED
    BY <1>4, <2>1, StartsFacts, TurnsFacts DEF Contract!Own, Contract!End
<1> QED
  BY <1>1, <1>2, <1>3, <1>4 DEF OwnFits

LEMMA ClientFitsContract ==
  ASSUME TypeOK, TypeOK', NEW s \in Sessions, ClientFits(s)
  PROVE  Contract(s)!Client
<1>1. CASE /\ ~Known(s) /\ Quiet(s) /\ sess'[s].status = "created"
           /\ sess'[s].restarts = 0 /\ sess'[s].limit \in RestartLimits[s]
  <2>1. \E n \in RestartLimits[s] : Entry(s)' = [phase |-> "created", restarts |-> 0, limit |-> n]
    BY <1>1, NextEntryFacts DEF Shown, Known, Busy, Transient
  <2> QED
    BY <1>1, <2>1, StartsFacts, TurnsFacts DEF Contract!Client, Contract!Create
<1>2. CASE Turns(s, Busy) /\ One(s)
  BY <1>2, StartsFacts, TurnsFacts DEF Contract!Client, Contract!Ask
<1>3. CASE Turns(s, {"stopped", "stopping"}) /\ Quiet(s)
  <2>1. Turns(s, {"stopped"}) \/ Turns(s, Busy)
    BY <1>3 DEF Turns, Busy, Transient
  <2> QED
    BY <1>3, <2>1, StartsFacts, TurnsFacts DEF Contract!Client, Contract!Stop
<1> QED
  BY <1>1, <1>2, <1>3 DEF ClientFits

LEMMA RecoveryFitsContract ==
  ASSUME TypeOK, TypeOK', NEW s \in Sessions, RecoveryFits(s)
  PROVE  Contract(s)!Recovery
<1>1. CASE /\ SameBudget(s) /\ One(s) /\ (Quiet(s) \/ sess'[s].status \in Busy)
           /\ \/ sess'[s].status = sess[s].status
              \/ sess[s].status \in Busy /\ sess'[s].status \in Busy
              \/ sess[s].status \in Busy /\ Turns(s, {"created", "stopped", "error"})
  <2>1. /\ Contract(s)!OneNew
        /\ Contract(s)!NothingNew \/ Entry(s)'.phase = "active"
    BY <1>1, StartsFacts, TurnsFacts
  <2>2. CASE \/ sess'[s].status = sess[s].status
             \/ sess[s].status \in Busy /\ sess'[s].status \in Busy
    <3>1. Entry(s)' = Entry(s)
      BY <1>1, <2>2, TurnsFacts
    <3> QED
      BY <2>1, <3>1 DEF Contract!Recovery, Contract!Recover
  <2>3. CASE sess[s].status \in Busy /\ Turns(s, {"created", "stopped", "error"})
    <3>1. \E status \in {"created", "stopped", "error"} : Turns(s, {status})
      BY <2>3 DEF Turns
    <3>2. Entry(s).phase = "active" /\ \E phase \in {"created", "stopped", "error"} : Contract(s)!Becomes(phase)
      BY <2>3, <3>1, TurnsFacts
    <3> QED
      BY <2>1, <3>2 DEF Contract!Recovery, Contract!Recover
  <2> QED
    BY <1>1, <2>2, <2>3
<1>2. CASE ~Known(s)' /\ Quiet(s)
  <2>1. Entry(s)' = [phase |-> "unknown", restarts |-> 0, limit |-> 0]
    BY <1>2, NextEntryFacts DEF Shown
  <2> QED
    BY <1>2, <2>1, StartsFacts DEF Contract!Recovery, Contract!Forget, Contract!Unknown
<1> QED
  BY <1>1, <1>2 DEF RecoveryFits

(* Each session implements Supervision, whichever child exits and whichever*)
(* timer fires, whatever spawn fails, and through restorations by a live   *)
(* supervisor and crashes.  A child comes up only on a start that was      *)
(* granted, one for each: by a client of this session, by an automatic     *)
(* restart, which follows the exit of a child and uses up an attempt that  *)
(* was left, or by a restoration of a session that was under way.          *)
THEOREM ContractIsKept == Spec => Supervises
<1> DEFINE Keeps(s) ==
             [\/ Contract(s)!Own
              \/ Contract(s)!Client /\ Requests(s)
              \/ Contract(s)!Recovery /\ (RestoreSessions \/ Crash)]_(Contract(s)!vars)
<1>1. Init => \A s \in Sessions : Contract(s)!Init
  <2> SUFFICES ASSUME Init, NEW s \in Sessions PROVE Contract(s)!Init
    OBVIOUS
  <2>1. sess[s] = Absent /\ live[s] = {} /\ loose[s] = 0 /\ stale[s] = 0
    BY DEF Init
  <2>2. Pending(s) = {}
    <3>1. Due(s) = 0 /\ Pending(s) = 1 .. Due(s)
      BY <2>1 DEF Due, Pending, Absent
    <3> QED
      BY <3>1
  <2> QED
    BY <2>1, <2>2 DEF Contract!Init, Contract!Known, Contract!Unknown, Entry, Known, Absent
<1>2. Inv /\ [Next]_vars => [\A s \in Sessions : Keeps(s)]_vars
  <2> SUFFICES ASSUME Inv, [Next]_vars, NEW s \in Sessions PROVE Keeps(s)
    OBVIOUS
  <2>1. TypeOK /\ TypeOK' /\ Moves(s)
    BY InvStep DEF Inv
  <2> QED
    BY <2>1, OwnFitsContract, ClientFitsContract, RecoveryFitsContract DEF Moves
<1> QED
  BY <1>1, <1>2, InvInit, InvStep, PTL DEF Spec, Supervises
=============================================================================
