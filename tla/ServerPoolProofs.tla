-------------------------- MODULE ServerPoolProofs --------------------------
(***************************************************************************)
(* Theorems about the server pool, for any sessions, servers, connections  *)
(* and calls, in every mode, and however calls overlap.                    *)
(***************************************************************************)
EXTENDS ServerPool, TLAPS

-----------------------------------------------------------------------------
(* Types.                                                                  *)

LEMMA AtTyped ==
  ASSUME NEW pc \in Pcs, NEW s \in Sessions \cup {None}, NEW x \in Servers \cup {None},
         NEW E \in SUBSET Entry, NEW Y \in SUBSET Servers
  PROVE  /\ At(pc, s, x, E, Y) \in CallRec
         /\ At(pc, s, x, E, Y).pc = pc /\ At(pc, s, x, E, Y).sid = s /\ At(pc, s, x, E, Y).srv = x
         /\ At(pc, s, x, E, Y).obj = None
         /\ At(pc, s, x, E, Y).entries = E /\ At(pc, s, x, E, Y).idles = Y
  BY DEF At, CallRec

LEMMA FreeTyped == Free \in CallRec /\ Free.pc = "free" /\ Free.entries = {} /\ Free.obj = None
  BY AtTyped DEF Free, Pcs

LEMMA EntriesTyped == Entries \subseteq Entry
  BY DEF Entries

(* What killing clients leaves is typed.                                   *)
LEMMA KilledTyped ==
  ASSUME PoolTypes, NEW C
  PROVE  Killed(C) \in [Clients -> Servers \cup {None}]
  BY DEF Killed, PoolTypes

(* A call about a session and a server holds a session and a server.       *)
CallOK(k) ==
  /\ call[k].pc \in {"connecting", "ready", "pruning", "pruningIdle"} =>
       call[k].sid \in Sessions /\ call[k].srv \in Servers
  /\ call[k].pc = "closing" => call[k].sid \in Sessions
  /\ call[k].pc \in {"recording", "crashIdle", "droppingIdle", "reconnecting"} =>
       call[k].srv \in Servers
  /\ call[k].pc = "crashEntry" =>
       call[k].sid \in Sessions /\ call[k].srv \in Servers /\ call[k].obj \in Objects

Typed == PoolTypes /\ \A k \in Calls : CallOK(k)

LEMMA TypedInit == Init => Typed
<1> SUFFICES ASSUME Init PROVE Typed
  OBVIOUS
<1>1. PoolTypes
  BY FreeTyped DEF Init, PoolTypes
<1>2. \A k \in Calls : CallOK(k)
  BY FreeTyped DEF Init, CallOK
<1> QED
  BY <1>1, <1>2 DEF Typed

(* A step that changes the record of one call only.                        *)
LEMMA OneCall ==
  ASSUME Typed, NEW k \in Calls, NEW rec \in CallRec, call' = [call EXCEPT ![k] = rec],
         rec.pc \in {"connecting", "ready", "pruning", "pruningIdle"} =>
           rec.sid \in Sessions /\ rec.srv \in Servers,
         rec.pc = "closing" => rec.sid \in Sessions,
         rec.pc \in {"recording", "crashIdle", "droppingIdle", "reconnecting"} => rec.srv \in Servers,
         rec.pc = "crashEntry" =>
           rec.sid \in Sessions /\ rec.srv \in Servers /\ rec.obj \in Objects
  PROVE  /\ call' \in [Calls -> CallRec]
         /\ \A q \in Calls : CallOK(q)'
<1>1. call' \in [Calls -> CallRec]
  BY DEF Typed, PoolTypes
<1>2. ASSUME NEW q \in Calls PROVE CallOK(q)'
  <2>1. CASE q = k
    <3>1. call'[q] = rec
      BY <2>1 DEF Typed, PoolTypes
    <3> QED
      BY <3>1 DEF CallOK
  <2>2. CASE q # k
    <3>1. call'[q] = call[q]
      BY <2>2 DEF Typed, PoolTypes
    <3> QED
      BY <3>1 DEF CallOK, Typed
  <2> QED
    BY <2>1, <2>2
<1> QED
  BY <1>1, <1>2

LEMMA CallFreed ==
  ASSUME Typed, NEW k \in Calls, call' = [call EXCEPT ![k] = Free]
  PROVE  call' \in [Calls -> CallRec] /\ \A q \in Calls : CallOK(q)'
  BY OneCall, FreeTyped

LEMMA CallsKept ==
  ASSUME Typed, UNCHANGED call
  PROVE  call' \in [Calls -> CallRec] /\ \A q \in Calls : CallOK(q)'
<1>1. \A q \in Calls : CallOK(q)'
  BY DEF Typed, CallOK
<1> QED
  BY <1>1 DEF Typed, PoolTypes

(* createIdleSessionAsync                                                  *)
LEMMA WarmUpTyped ==
  ASSUME PoolTypes, NEW servers \in SUBSET Servers, WarmUp(servers)
  PROVE  creating' \subseteq Servers /\ warm' \in [Servers -> Nat]
<1> DEFINE begun == {x \in servers : ~Lazy /\ idle'[x] = None /\ x \notin creating}
<1>1. creating' = creating \cup begun
      /\ warm' = [x \in Servers |-> IF x \in begun THEN warm[x] + 1 ELSE warm[x]]
  BY DEF WarmUp
<1>2. begun \subseteq Servers
  OBVIOUS
<1> HIDE DEF begun
<1> QED
  BY <1>1, <1>2 DEF PoolTypes

LEMMA RefocusTyped ==
  ASSUME PoolTypes, Refocus
  PROVE  focus' \in Servers \cup {None}
  BY DEF PoolTypes, Refocus, ActiveNext

(* Obtain: a new or known table, then the idle client or a connection.     *)
LEMMA ObtainTyped ==
  ASSUME Typed, NEW k \in Calls, NEW s \in Sessions, NEW x \in Servers,
         Obtain(k, s, x), UNCHANGED proc
  PROVE  Typed'
<1> DEFINE known(o) == IF Open(s) THEN slot ELSE [slot EXCEPT ![o] = [y \in Servers |-> None]]
           usedNow  == IF Open(s) THEN used[s] ELSE {}
<1>1. PICK o \in Objects :
        /\ table' = [table EXCEPT ![s] = o]
        /\ \/ /\ idle[x] # None /\ Promote(x)
              /\ slot' = [known(o) EXCEPT ![o][x] = idle[x]]
              /\ used' = [used EXCEPT ![s] = usedNow \cup {x}]
              /\ focus' = x /\ WarmUp({x}) /\ call' = [call EXCEPT ![k] = Free]
           \/ /\ slot' = known(o)
              /\ used' = [used EXCEPT ![s] = usedNow]
              /\ call' = [call EXCEPT ![k] = At("connecting", s, x, {}, {})]
              /\ UNCHANGED <<idle, creating, warm, focus>>
  BY DEF Obtain
<1>2. known(o) \in [Objects -> [Servers -> Clients \cup {None}]]
  BY DEF Typed, PoolTypes
<1>3. usedNow \in SUBSET Servers
  BY DEF Typed, PoolTypes
<1> HIDE DEF known, usedNow
<1>4. /\ table' \in [Sessions -> Objects \cup {None}]
      /\ used' \in [Sessions -> SUBSET Servers]
  BY <1>1, <1>3 DEF Typed, PoolTypes
<1>5. CASE UNCHANGED <<idle, creating, warm, focus>> /\ slot' = known(o)
           /\ call' = [call EXCEPT ![k] = At("connecting", s, x, {}, {})]
  <2>1. At("connecting", s, x, {}, {}) \in CallRec /\ At("connecting", s, x, {}, {}).pc = "connecting"
        /\ At("connecting", s, x, {}, {}).sid = s /\ At("connecting", s, x, {}, {}).srv = x
    BY AtTyped DEF Pcs
  <2>2. call' \in [Calls -> CallRec] /\ \A q \in Calls : CallOK(q)'
    BY <1>5, <2>1, OneCall
  <2> QED
    BY <1>2, <1>4, <1>5, <2>2 DEF Typed, PoolTypes
<1>6. CASE /\ Promote(x) /\ slot' = [known(o) EXCEPT ![o][x] = idle[x]]
           /\ focus' = x /\ WarmUp({x}) /\ call' = [call EXCEPT ![k] = Free]
  <2>1. call' \in [Calls -> CallRec] /\ \A q \in Calls : CallOK(q)'
    BY <1>6, CallFreed
  <2>2. creating' \subseteq Servers /\ warm' \in [Servers -> Nat]
    BY <1>6, WarmUpTyped DEF Typed
  <2>3. slot' \in [Objects -> [Servers -> Clients \cup {None}]]
    BY <1>2, <1>6 DEF Typed, PoolTypes
  <2>4. idle' \in [Servers -> Clients \cup {None}]
    BY <1>6 DEF Promote, Typed, PoolTypes
  <2> QED
    BY <1>4, <1>6, <2>1, <2>2, <2>3, <2>4 DEF Typed, PoolTypes
<1> QED
  BY <1>1, <1>5, <1>6

LEMMA GetSessionTyped ==
  ASSUME Typed, NEW k \in Calls, NEW s \in Sessions, NEW x \in Servers, GetSession(k, s, x)
  PROVE  Typed'
<1>1. CASE ~SingleActive
  BY <1>1, ObtainTyped DEF GetSession
<1>2. CASE SingleActive
  <2>1. /\ UNCHANGED <<table, slot, used, idle, creating, warm, focus>>
        /\ \E C : proc' = Killed(C)
        /\ \E pc \in {"pruning", "ready", "pruningIdle"}, E \in SUBSET Entry, Y \in SUBSET Servers :
             call' = [call EXCEPT ![k] = At(pc, s, x, E, Y)]
    <3>1. Others(s, x) \subseteq Entry /\ IdleOthers(x) \subseteq Servers
      BY EntriesTyped DEF Others, IdleOthers
    <3> QED
      BY <1>2, <3>1 DEF GetSession
  <2>2. PICK pc \in {"pruning", "ready", "pruningIdle"}, E \in SUBSET Entry, Y \in SUBSET Servers :
          call' = [call EXCEPT ![k] = At(pc, s, x, E, Y)]
    BY <2>1
  <2>3. At(pc, s, x, E, Y) \in CallRec /\ At(pc, s, x, E, Y).pc = pc
        /\ At(pc, s, x, E, Y).sid = s /\ At(pc, s, x, E, Y).srv = x
    BY AtTyped DEF Pcs
  <2>4. call' \in [Calls -> CallRec] /\ \A q \in Calls : CallOK(q)'
    BY <2>2, <2>3, OneCall
  <2>5. proc' \in [Clients -> Servers \cup {None}]
    BY <2>1, KilledTyped DEF Typed
  <2> QED
    BY <2>1, <2>4, <2>5 DEF Typed, PoolTypes
<1> QED
  BY <1>1, <1>2

LEMMA PruneEntryTyped ==
  ASSUME Typed, NEW k \in Calls, NEW e \in call[k].entries, PruneEntry(k, e)
  PROVE  Typed'
<1>1. call[k] \in CallRec /\ e \in Entry
  BY DEF Typed, PoolTypes, CallRec
<1>2. e.obj \in Objects /\ e.sid \in Sessions /\ e.srv \in Servers
  BY <1>1 DEF Entry
<1>3. PICK rec \in CallRec : call' = [call EXCEPT ![k] = rec] /\ rec.sid = call[k].sid
                             /\ rec.srv = call[k].srv /\ rec.pc = "pruning"
  <2>1. [call[k] EXCEPT !.entries = @ \ {e}] \in CallRec
    BY <1>1 DEF CallRec
  <2>2. call' = [call EXCEPT ![k] = [call[k] EXCEPT !.entries = @ \ {e}]]
    BY DEF PruneEntry, Typed, PoolTypes
  <2> QED
    BY <1>1, <2>1, <2>2 DEF CallRec, PruneEntry
<1>4. call[k].sid \in Sessions /\ call[k].srv \in Servers
  BY DEF PruneEntry, Typed, CallOK
<1>5. call' \in [Calls -> CallRec] /\ \A q \in Calls : CallOK(q)'
  BY <1>3, <1>4, OneCall
<1>6. slot' \in [Objects -> [Servers -> Clients \cup {None}]] /\ used' \in [Sessions -> SUBSET Servers]
  BY <1>2 DEF PruneEntry, Typed, PoolTypes
<1> QED
  BY <1>5, <1>6 DEF PruneEntry, Typed, PoolTypes

LEMMA PruneIdleTyped ==
  ASSUME Typed, NEW k \in Calls, NEW y \in call[k].idles, PruneIdle(k, y)
  PROVE  Typed'
<1>1. call[k] \in CallRec /\ y \in Servers
  BY DEF Typed, PoolTypes, CallRec
<1>2. PICK rec \in CallRec : call' = [call EXCEPT ![k] = rec] /\ rec.sid = call[k].sid
                             /\ rec.srv = call[k].srv /\ rec.pc = "pruningIdle"
  <2>1. [call[k] EXCEPT !.idles = @ \ {y}] \in CallRec
    BY <1>1 DEF CallRec
  <2>2. call' = [call EXCEPT ![k] = [call[k] EXCEPT !.idles = @ \ {y}]]
    BY DEF PruneIdle, Typed, PoolTypes
  <2> QED
    BY <1>1, <2>1, <2>2 DEF CallRec, PruneIdle
<1>3. call[k].sid \in Sessions /\ call[k].srv \in Servers
  BY DEF PruneIdle, Typed, CallOK
<1>4. call' \in [Calls -> CallRec] /\ \A q \in Calls : CallOK(q)'
  BY <1>2, <1>3, OneCall
<1>5. idle' \in [Servers -> Clients \cup {None}]
  BY <1>1 DEF PruneIdle, Typed, PoolTypes
<1> QED
  BY <1>4, <1>5 DEF PruneIdle, Typed, PoolTypes

LEMMA PrunedTyped ==
  ASSUME Typed, NEW k \in Calls, ActivePruned(k) \/ IdlePruned(k)
  PROVE  Typed'
<1>1. call[k].sid \in Sessions /\ call[k].srv \in Servers
  BY DEF ActivePruned, IdlePruned, Typed, CallOK
<1>2. PICK pc \in {"pruningIdle", "ready"}, Y \in SUBSET Servers :
        call' = [call EXCEPT ![k] = At(pc, call[k].sid, call[k].srv, {}, Y)]
  BY DEF ActivePruned, IdlePruned, IdleOthers
<1> DEFINE rec == At(pc, call[k].sid, call[k].srv, {}, Y)
<1>3. rec \in CallRec /\ rec.pc = pc /\ rec.sid \in Sessions /\ rec.srv \in Servers
  BY <1>1, AtTyped DEF Pcs
<1> HIDE DEF rec
<1>4. call' \in [Calls -> CallRec] /\ \A q \in Calls : CallOK(q)'
  BY <1>2, <1>3, OneCall DEF rec
<1>5. proc' \in [Clients -> Servers \cup {None}] /\ focus' \in Servers \cup {None}
  BY KilledTyped, RefocusTyped DEF ActivePruned, IdlePruned, Typed, PoolTypes
<1> QED
  BY <1>4, <1>5 DEF ActivePruned, IdlePruned, Typed, PoolTypes

LEMMA ConnectedTyped ==
  ASSUME Typed, NEW k \in Calls, Connected(k)
  PROVE  Typed'
<1> DEFINE s == call[k].sid
           x == call[k].srv
<1>1. s \in Sessions /\ x \in Servers
  BY DEF Connected, Typed, CallOK
<1>2. call' \in [Calls -> CallRec] /\ \A q \in Calls : CallOK(q)'
  BY CallFreed DEF Connected
<1>3. PICK c \in Clients :
        /\ proc' = [proc EXCEPT ![c] = x]
        /\ \/ /\ Open(s)
              /\ slot' = [slot EXCEPT ![table[s]][x] = c]
              /\ used' = [used EXCEPT ![s] = @ \cup {x}]
              /\ focus' = x
              /\ UNCHANGED idle
              /\ WarmUp({x})
           \/ UNCHANGED <<slot, used, idle, creating, warm, focus>>
  BY DEF Connected
<1> HIDE DEF s, x
<1>4. table' = table /\ proc' \in [Clients -> Servers \cup {None}]
  BY <1>1, <1>3 DEF Connected, Typed, PoolTypes
<1>5. CASE UNCHANGED <<slot, used, idle, creating, warm, focus>>
  BY <1>2, <1>4, <1>5 DEF Typed, PoolTypes
<1>6. CASE /\ Open(s) /\ slot' = [slot EXCEPT ![table[s]][x] = c]
           /\ used' = [used EXCEPT ![s] = @ \cup {x}]
           /\ focus' = x /\ UNCHANGED idle /\ WarmUp({x})
  <2>1. creating' \subseteq Servers /\ warm' \in [Servers -> Nat]
    BY <1>1, <1>6, WarmUpTyped DEF Typed
  <2>2. table[s] \in Objects
    BY <1>1, <1>6 DEF Open, Typed, PoolTypes
  <2>3. slot' \in [Objects -> [Servers -> Clients \cup {None}]] /\ used' \in [Sessions -> SUBSET Servers]
    BY <1>1, <1>6, <2>2 DEF Typed, PoolTypes
  <2> QED
    BY <1>1, <1>2, <1>4, <1>6, <2>1, <2>3 DEF Typed, PoolTypes
<1> QED
  BY <1>3, <1>5, <1>6

LEMMA WarmedTyped ==
  ASSUME Typed, NEW x \in Servers, Warmed(x)
  PROVE  Typed'
<1>1. call' \in [Calls -> CallRec] /\ \A q \in Calls : CallOK(q)'
  BY CallsKept DEF Warmed
<1>2. warm' \in [Servers -> Nat] /\ creating' \subseteq Servers
  BY DEF Warmed, WarmOver, Typed, PoolTypes
<1>3. idle' \in [Servers -> Clients \cup {None}] /\ proc' \in [Clients -> Servers \cup {None}]
  BY DEF Warmed, Typed, PoolTypes
<1> QED
  BY <1>1, <1>2, <1>3 DEF Warmed, Typed, PoolTypes

LEMMA CleanupSessionTyped ==
  ASSUME Typed, NEW k \in Calls, NEW s \in Sessions, CleanupSession(k, s)
  PROVE  Typed'
<1>1. At("closing", s, None, {}, {}) \in CallRec /\ At("closing", s, None, {}, {}).pc = "closing"
      /\ At("closing", s, None, {}, {}).sid = s
  BY AtTyped DEF Pcs
<1>2. call' \in [Calls -> CallRec] /\ \A q \in Calls : CallOK(q)'
  BY <1>1, OneCall DEF CleanupSession
<1>3. proc' \in [Clients -> Servers \cup {None}]
  BY KilledTyped DEF CleanupSession, Typed
<1> QED
  BY <1>2, <1>3 DEF CleanupSession, Typed, PoolTypes

LEMMA SessionCleanedTyped ==
  ASSUME Typed, NEW k \in Calls, SessionCleaned(k)
  PROVE  Typed'
<1>1. call[k].sid \in Sessions
  BY DEF SessionCleaned, Typed, CallOK
<1>2. call' \in [Calls -> CallRec] /\ \A q \in Calls : CallOK(q)'
  BY CallFreed DEF SessionCleaned
<1>3. used[call[k].sid] \in SUBSET Servers
  BY <1>1 DEF Typed, PoolTypes
<1>4. creating' \subseteq Servers /\ warm' \in [Servers -> Nat]
  BY <1>3, WarmUpTyped DEF SessionCleaned, Typed
<1>5. focus' \in Servers \cup {None}
  BY RefocusTyped DEF SessionCleaned, Typed
<1>6. table' \in [Sessions -> Objects \cup {None}] /\ used' \in [Sessions -> SUBSET Servers]
  BY <1>1 DEF SessionCleaned, Typed, PoolTypes
<1> QED
  BY <1>2, <1>4, <1>5, <1>6 DEF SessionCleaned, Typed, PoolTypes

LEMMA CrashesTyped ==
  ASSUME Typed, NEW k \in Calls, NEW x \in Servers, Crashes(k, x)
  PROVE  Typed'
<1>1. At("recording", None, x, {}, {}) \in CallRec /\ At("recording", None, x, {}, {}).pc = "recording"
      /\ At("recording", None, x, {}, {}).srv = x
  BY AtTyped DEF Pcs
<1>2. call' \in [Calls -> CallRec] /\ \A q \in Calls : CallOK(q)'
  BY <1>1, OneCall DEF Crashes
<1>3. proc' \in [Clients -> Servers \cup {None}]
  BY DEF Crashes, Typed, PoolTypes
<1> QED
  BY <1>2, <1>3 DEF Crashes, Typed, PoolTypes

(* The scan of a crashed server's sessions.                                *)
LEMMA ScanTyped ==
  ASSUME Typed, NEW k \in Calls, NEW left \in SUBSET Entry, call[k].srv \in Servers, Scan(k, left)
  PROVE  /\ creating' \subseteq Servers /\ focus' \in Servers \cup {None}
         /\ proc' \in [Clients -> Servers \cup {None}]
         /\ call' \in [Calls -> CallRec] /\ \A q \in Calls : CallOK(q)'
<1>1. CASE /\ creating' = creating \ {call[k].srv} /\ call' = [call EXCEPT ![k] = Free]
           /\ UNCHANGED proc /\ Refocus
  BY <1>1, CallFreed, RefocusTyped DEF Typed, PoolTypes
<1>2. CASE \E C : \E e \in left, passed \in SUBSET left :
             /\ proc' = Killed(C)
             /\ call' = [call EXCEPT ![k] =
                  [At("crashEntry", e.sid, call[k].srv, left \ (passed \cup {e}), {}) EXCEPT !.obj = e.obj]]
             /\ UNCHANGED <<creating, focus>>
  <2>0. PICK C : \E e \in left, passed \in SUBSET left :
             /\ proc' = Killed(C)
             /\ call' = [call EXCEPT ![k] =
                  [At("crashEntry", e.sid, call[k].srv, left \ (passed \cup {e}), {}) EXCEPT !.obj = e.obj]]
             /\ UNCHANGED <<creating, focus>>
    BY <1>2
  <2>1. PICK e \in left, passed \in SUBSET left :
             /\ proc' = Killed(C)
             /\ call' = [call EXCEPT ![k] =
                  [At("crashEntry", e.sid, call[k].srv, left \ (passed \cup {e}), {}) EXCEPT !.obj = e.obj]]
             /\ UNCHANGED <<creating, focus>>
    BY <2>0
  <2> DEFINE at == At("crashEntry", e.sid, call[k].srv, left \ (passed \cup {e}), {})
             rec == [at EXCEPT !.obj = e.obj]
  <2>2. e.sid \in Sessions /\ e.obj \in Objects
    BY DEF Entry
  <2>3. at \in CallRec /\ at.pc = "crashEntry" /\ at.sid = e.sid /\ at.srv = call[k].srv
    BY <2>2, AtTyped DEF Pcs
  <2> HIDE DEF at
  <2>4. rec \in CallRec /\ rec.pc = "crashEntry" /\ rec.sid = e.sid /\ rec.srv = call[k].srv
        /\ rec.obj = e.obj
    BY <2>2, <2>3 DEF CallRec
  <2>5. call' = [call EXCEPT ![k] = rec]
    BY <2>1 DEF at
  <2> HIDE DEF rec
  <2>6. call' \in [Calls -> CallRec] /\ \A q \in Calls : CallOK(q)'
    BY <2>2, <2>4, <2>5, OneCall
  <2> QED
    BY <2>1, <2>6, KilledTyped DEF Typed, PoolTypes
<1> QED
  BY <1>1, <1>2 DEF Scan

LEMMA CrashRecordedTyped ==
  ASSUME Typed, NEW k \in Calls, CrashRecorded(k)
  PROVE  Typed'
<1>1. call[k].srv \in Servers
  BY DEF CrashRecorded, Typed, CallOK
<1>2. CASE idle[call[k].srv] # None
  <2> DEFINE rec == At("crashIdle", None, call[k].srv, {}, {})
  <2>1. rec \in CallRec /\ rec.pc = "crashIdle" /\ rec.srv = call[k].srv
    BY <1>1, AtTyped DEF Pcs
  <2>2. call' = [call EXCEPT ![k] = rec] /\ UNCHANGED <<creating, focus>>
    BY <1>2 DEF CrashRecorded
  <2> HIDE DEF rec
  <2>3. call' \in [Calls -> CallRec] /\ \A q \in Calls : CallOK(q)'
    BY <1>1, <2>1, <2>2, OneCall
  <2>4. proc' \in [Clients -> Servers \cup {None}]
    BY <1>2, KilledTyped DEF CrashRecorded, Typed
  <2> QED
    BY <2>2, <2>3, <2>4 DEF CrashRecorded, Typed, PoolTypes
<1>3. CASE idle[call[k].srv] = None
  BY <1>1, <1>3, ScanTyped DEF CrashRecorded, ScanAll, Typed, PoolTypes
<1> QED
  BY <1>2, <1>3

LEMMA CrashDroppedTyped ==
  ASSUME Typed, NEW k \in Calls, CrashIdleDropped(k) \/ CrashEntryDropped(k)
  PROVE  Typed'
<1>1. CASE CrashIdleDropped(k)
  <2>1. call[k].srv \in Servers
    BY <1>1 DEF CrashIdleDropped, Typed, CallOK
  <2>2. idle' \in [Servers -> Clients \cup {None}]
    BY <1>1, <2>1 DEF CrashIdleDropped, Typed, PoolTypes
  <2> QED
    BY <1>1, <2>1, <2>2, ScanTyped DEF CrashIdleDropped, ScanAll, Typed, PoolTypes
<1>2. CASE CrashEntryDropped(k)
  <2>1. call[k].srv \in Servers /\ call[k].sid \in Sessions /\ call[k].obj \in Objects
    BY <1>2 DEF CrashEntryDropped, Typed, CallOK
  <2>2. call[k].entries \in SUBSET Entry
    BY DEF Typed, PoolTypes, CallRec
  <2>3. slot' \in [Objects -> [Servers -> Clients \cup {None}]] /\ used' \in [Sessions -> SUBSET Servers]
    BY <1>2, <2>1 DEF CrashEntryDropped, Typed, PoolTypes
  <2> QED
    BY <1>2, <2>1, <2>2, <2>3, ScanTyped DEF CrashEntryDropped, Typed, PoolTypes
<1> QED
  BY <1>1, <1>2

LEMMA RecreateTyped ==
  ASSUME Typed, NEW k \in Calls, NEW x \in Servers, Recreate(k, x)
  PROVE  /\ creating' \subseteq Servers
         /\ call' \in [Calls -> CallRec] /\ \A q \in Calls : CallOK(q)'
<1> DEFINE rec == IF Lazy THEN Free ELSE At("reconnecting", None, x, {}, {})
<1>1. rec \in CallRec /\ rec.pc \in {"free", "reconnecting"} /\ (rec.pc = "reconnecting" => rec.srv = x)
  BY FreeTyped, AtTyped DEF Pcs
<1>2. call' = [call EXCEPT ![k] = rec]
  BY DEF Recreate
<1> HIDE DEF rec
<1>3. call' \in [Calls -> CallRec] /\ \A q \in Calls : CallOK(q)'
  BY <1>1, <1>2, OneCall
<1> QED
  BY <1>3 DEF Recreate, Typed, PoolTypes

LEMMA InvalidateTyped ==
  ASSUME Typed, NEW k \in Calls, NEW x \in Servers, Invalidate(k, x)
  PROVE  Typed'
<1>1. CASE idle[x] = None
  BY <1>1, RecreateTyped DEF Invalidate, Recreate, Typed, PoolTypes
<1>2. CASE idle[x] # None
  <2>1. At("droppingIdle", None, x, {}, {}) \in CallRec
        /\ At("droppingIdle", None, x, {}, {}).pc = "droppingIdle"
        /\ At("droppingIdle", None, x, {}, {}).srv = x
    BY AtTyped DEF Pcs
  <2>2. call' \in [Calls -> CallRec] /\ \A q \in Calls : CallOK(q)'
    BY <1>2, <2>1, OneCall DEF Invalidate
  <2>3. proc' \in [Clients -> Servers \cup {None}]
    BY <1>2, KilledTyped DEF Invalidate, Typed
  <2> QED
    BY <1>2, <2>2, <2>3 DEF Invalidate, Typed, PoolTypes
<1> QED
  BY <1>1, <1>2

LEMMA ReconnectionTyped ==
  ASSUME Typed, NEW k \in Calls, IdleDropped(k) \/ Reconnected(k) \/ ConnectFails(k)
  PROVE  Typed'
<1>1. CASE IdleDropped(k)
  <2>1. call[k].srv \in Servers
    BY <1>1 DEF IdleDropped, Typed, CallOK
  <2>2. idle' \in [Servers -> Clients \cup {None}]
    BY <1>1, <2>1 DEF IdleDropped, Typed, PoolTypes
  <2>3. Recreate(k, call[k].srv)
    BY <1>1 DEF IdleDropped
  <2> QED
    BY <1>1, <2>1, <2>2, <2>3, RecreateTyped DEF IdleDropped, Recreate, Typed, PoolTypes
<1>2. CASE Reconnected(k)
  <2>1. call[k].srv \in Servers
    BY <1>2 DEF Reconnected, Typed, CallOK
  <2>2. call' \in [Calls -> CallRec] /\ \A q \in Calls : CallOK(q)'
    BY <1>2, CallFreed DEF Reconnected
  <2> QED
    BY <1>2, <2>1, <2>2 DEF Reconnected, Typed, PoolTypes
<1>3. CASE ConnectFails(k)
  <2>1. call' \in [Calls -> CallRec] /\ \A q \in Calls : CallOK(q)'
    BY <1>3, CallFreed DEF ConnectFails
  <2> QED
    BY <1>3, <2>1 DEF ConnectFails, Typed, PoolTypes
<1> QED
  BY <1>1, <1>2, <1>3

LEMMA TypedStep ==
  ASSUME Typed, [Next]_vars
  PROVE  Typed'
<1>1. CASE UNCHANGED <<table, slot, used, idle, creating, warm, focus, proc, call>>
  BY <1>1, CallsKept DEF Typed, PoolTypes
<1>2. ASSUME NEW k \in Calls, Begin(k)
      PROVE  Typed'
  BY <1>2, GetSessionTyped, CleanupSessionTyped, CrashesTyped, InvalidateTyped DEF Begin
<1>3. ASSUME NEW k \in Calls, Continue(k)
      PROVE  Typed'
  <2>1. CASE Proceed(k)
    <3>1. call[k].sid \in Sessions /\ call[k].srv \in Servers
      BY <2>1 DEF Proceed, Typed, CallOK
    <3> QED
      BY <2>1, <3>1, ObtainTyped DEF Proceed
  <2>2. CASE \/ ActivePruned(k) \/ IdlePruned(k) \/ Connected(k) \/ ConnectFails(k)
             \/ SessionCleaned(k) \/ CrashRecorded(k) \/ CrashIdleDropped(k) \/ CrashEntryDropped(k)
             \/ IdleDropped(k) \/ Reconnected(k)
    BY <2>2, PrunedTyped, ConnectedTyped, ReconnectionTyped, SessionCleanedTyped, CrashRecordedTyped,
       CrashDroppedTyped
  <2>3. CASE \/ \E e \in call[k].entries : PruneEntry(k, e)
             \/ \E y \in call[k].idles : PruneIdle(k, y)
    BY <2>3, PruneEntryTyped, PruneIdleTyped
  <2> QED
    BY <1>3, <2>1, <2>2, <2>3 DEF Continue
<1>4. ASSUME NEW s \in Sessions, NEW x \in Servers, Reuse(s, x)
      PROVE  Typed'
  BY <1>4, CallsKept DEF Reuse, Typed, PoolTypes
<1> QED
  BY <1>1, <1>2, <1>3, <1>4, WarmedTyped DEF Next, Step, Quits, vars

(* Type correctness, and each call in flight has the session, server and   *)
(* table its code goes on with, in every mode and under every interleaving *)
(* of the pool's methods.                                                  *)
THEOREM PoolTypeCorrect == Spec => []TypeOK
<1> DEFINE Untold == quit \subseteq {c \in Clients : proc[c] # None}
<1>1. Init => Typed /\ Untold
  BY TypedInit DEF Init
<1>2. Typed /\ Untold /\ [Next]_vars => (Typed /\ Untold)'
  <2> SUFFICES ASSUME Typed, Untold, [Next]_vars PROVE Untold'
    BY TypedStep
  <2>1. CASE Forgotten
    BY <2>1 DEF Forgotten
  <2>2. CASE \E c \in Clients : Quits(c)
    BY <2>2 DEF Quits
  <2>3. CASE UNCHANGED vars
    BY <2>3 DEF vars
  <2> QED
    BY <2>1, <2>2, <2>3 DEF Next
<1>3. Typed /\ Untold => TypeOK
  BY DEF Typed, TypeOK
<1> QED
  BY <1>1, <1>2, <1>3, PTL DEF Spec

-----------------------------------------------------------------------------
(* Nobody shares a connection.                                             *)

(* Two open sessions have tables of their own.                             *)
OwnTables == \A s, t \in Sessions : Open(s) /\ table[s] = table[t] => s = t

(* The client a session has for a server.                                  *)
Has(s, x) == IF Open(s) THEN slot[table[s]][x] ELSE None

Apart ==
  /\ \A s, t \in Sessions, x, y \in Servers :
       Has(s, x) # None /\ Has(s, x) = Has(t, y) => s = t /\ x = y
  /\ \A s \in Sessions, x, y \in Servers : Has(s, x) # None => idle[y] # Has(s, x)
  /\ \A x, y \in Servers : idle[x] # None /\ idle[x] = idle[y] => x = y

PoolInv == Typed /\ OwnTables /\ Apart

LEMMA ApartIsNoSharing == PoolInv => NoSharing
  BY DEF PoolInv, Apart, NoSharing, Has

(* A step that only takes clients and tables away.                         *)
LEMMA ShrinkHas ==
  ASSUME PoolInv,
         \A s \in Sessions : table'[s] \in {table[s], None},
         \A o \in Objects, x \in Servers : slot'[o][x] \in {slot[o][x], None},
         NEW s \in Sessions, NEW x \in Servers
  PROVE  Has(s, x)' \in {Has(s, x), None}
<1>1. CASE table'[s] = None
  BY <1>1 DEF Has, Open
<1>2. CASE table'[s] # None
  <2>1. table'[s] = table[s] /\ table[s] \in Objects
    BY <1>2 DEF PoolInv, Typed, PoolTypes
  <2>2. Has(s, x)' = slot'[table[s]][x] /\ Has(s, x) = slot[table[s]][x]
    BY <1>2, <2>1 DEF Has, Open
  <2> QED
    BY <2>1, <2>2
<1> QED
  BY <1>1, <1>2

LEMMA Shrink ==
  ASSUME PoolInv,
         \A s \in Sessions : table'[s] \in {table[s], None},
         \A o \in Objects, x \in Servers : slot'[o][x] \in {slot[o][x], None},
         \A x \in Servers : idle'[x] \in {idle[x], None}
  PROVE  (OwnTables /\ Apart)'
<1>1. OwnTables'
  BY DEF PoolInv, OwnTables, Open
<1>2. \A s \in Sessions, x \in Servers : Has(s, x)' \in {Has(s, x), None}
  BY ShrinkHas
<1>3. Apart'
  <2>1. ASSUME NEW s \in Sessions, NEW t \in Sessions, NEW x \in Servers, NEW y \in Servers,
               Has(s, x)' # None, Has(s, x)' = Has(t, y)'
        PROVE  s = t /\ x = y
    <3>1. Has(s, x)' = Has(s, x) /\ Has(t, y)' = Has(t, y)
      BY <1>2, <2>1
    <3>2. Has(s, x) # None /\ Has(s, x) = Has(t, y)
      BY <2>1, <3>1
    <3> QED
      BY <3>2 DEF PoolInv, Apart
  <2>2. ASSUME NEW s \in Sessions, NEW x \in Servers, NEW y \in Servers, Has(s, x)' # None
        PROVE  idle'[y] # Has(s, x)'
    <3>1. Has(s, x)' = Has(s, x) /\ idle'[y] \in {idle[y], None}
      BY <1>2, <2>2
    <3> QED
      BY <2>2, <3>1 DEF PoolInv, Apart
  <2>3. ASSUME NEW x \in Servers, NEW y \in Servers, idle'[x] # None, idle'[x] = idle'[y]
        PROVE  x = y
    BY <2>3 DEF PoolInv, Apart
  <2> QED
    BY <2>1, <2>2, <2>3 DEF Apart
<1> QED
  BY <1>1, <1>3

LEMMA NothingMoves ==
  ASSUME PoolInv, UNCHANGED <<table, slot, idle>>
  PROVE  (OwnTables /\ Apart)'
  BY Shrink

(* A fresh client is nobody's.                                             *)
LEMMA FreshIsNobodys ==
  ASSUME PoolInv, NEW c \in Clients, Fresh(c)
  PROVE  /\ c # None
         /\ \A x \in Servers : idle[x] # c
         /\ \A s \in Sessions, x \in Servers : Has(s, x) # c
<1>1. c # None
  BY NoneIsNothing
<1>2. ASSUME NEW s \in Sessions, NEW x \in Servers PROVE Has(s, x) # c
  <2>1. Open(s) => Referenced(table[s]) /\ table[s] \in Objects
    BY DEF Open, Referenced, PoolInv, Typed, PoolTypes
  <2> QED
    BY <1>1, <2>1 DEF Has, Fresh
<1> QED
  BY <1>1, <1>2 DEF Fresh

(* The idle pool gets a fresh client.                                      *)
LEMMA IdleGains ==
  ASSUME PoolInv, NEW c \in Clients, Fresh(c), NEW x \in Servers,
         idle' = [idle EXCEPT ![x] = c], UNCHANGED <<table, slot>>
  PROVE  (OwnTables /\ Apart)'
<1>1. OwnTables'
  BY DEF OwnTables, Open, PoolInv
<1>2. \A s \in Sessions, y \in Servers : Has(s, y)' = Has(s, y)
  BY DEF Open, Has
<1>3. \A y \in Servers : idle'[y] = IF y = x THEN c ELSE idle[y]
  BY DEF PoolInv, Typed, PoolTypes
<1>4. \A s, t \in Sessions, y, z \in Servers :
        Has(s, y)' # None /\ Has(s, y)' = Has(t, z)' => s = t /\ y = z
  BY <1>2 DEF PoolInv, Apart
<1>5. \A s \in Sessions, y, z \in Servers : Has(s, y)' # None => idle'[z] # Has(s, y)'
  BY <1>2, <1>3, FreshIsNobodys DEF PoolInv, Apart
<1>6. \A y, z \in Servers : idle'[y] # None /\ idle'[y] = idle'[z] => y = z
  BY <1>3, FreshIsNobodys DEF PoolInv, Apart
<1> QED
  BY <1>1, <1>4, <1>5, <1>6 DEF Apart

(* A session gets a client that no session has and the idle pool has not,  *)
(* or has no more, in its table or in a new one.                           *)
LEMMA SessionGains ==
  ASSUME PoolInv, NEW s \in Sessions, NEW x \in Servers, NEW c,
         c # None,
         \A t \in Sessions, y \in Servers : Has(t, y) # c,
         \A y \in Servers : idle'[y] # c /\ idle'[y] \in {idle[y], None},
         \A t \in Sessions \ {s}, y \in Servers : Has(t, y)' = Has(t, y),
         \A y \in Servers : Has(s, y)' = IF y = x THEN c ELSE Has(s, y)
  PROVE  Apart'
<1>1. \A t \in Sessions, y \in Servers :
        Has(t, y)' = IF t = s /\ y = x THEN c ELSE Has(t, y)
  OBVIOUS
<1>2. ASSUME NEW t \in Sessions, NEW u \in Sessions, NEW y \in Servers, NEW z \in Servers,
             Has(t, y)' # None, Has(t, y)' = Has(u, z)'
      PROVE  t = u /\ y = z
  BY <1>1, <1>2 DEF PoolInv, Apart
<1>3. ASSUME NEW t \in Sessions, NEW y \in Servers, NEW z \in Servers, Has(t, y)' # None
      PROVE  idle'[z] # Has(t, y)'
  BY <1>1, <1>3 DEF PoolInv, Apart
<1>4. ASSUME NEW y \in Servers, NEW z \in Servers, idle'[y] # None, idle'[y] = idle'[z]
      PROVE  y = z
  BY <1>4 DEF PoolInv, Apart
<1> QED
  BY <1>2, <1>3, <1>4 DEF Apart

(* Obtain gives the session a table if it has none, and what it has then   *)
(* is what it had, or the idle client besides.                             *)
LEMMA ObtainHas ==
  ASSUME PoolInv, NEW k \in Calls, NEW s \in Sessions, NEW x \in Servers, Obtain(k, s, x)
  PROVE  /\ OwnTables'
         /\ \A t \in Sessions \ {s}, y \in Servers : Has(t, y)' = Has(t, y)
         /\ \/ /\ \A y \in Servers : Has(s, y)' = Has(s, y)
               /\ UNCHANGED <<idle, focus>> /\ call' = [call EXCEPT ![k] = At("connecting", s, x, {}, {})]
            \/ /\ idle[x] # None /\ Promote(x)
               /\ \A y \in Servers : Has(s, y)' = IF y = x THEN idle[x] ELSE Has(s, y)
               /\ focus' = x /\ call' = [call EXCEPT ![k] = Free]
<1> DEFINE known(o) == IF Open(s) THEN slot ELSE [slot EXCEPT ![o] = [y \in Servers |-> None]]
<1>1. PICK o \in Objects :
        /\ IF Open(s) THEN o = table[s] ELSE ~Referenced(o)
        /\ table' = [table EXCEPT ![s] = o]
        /\ \/ /\ idle[x] # None /\ Promote(x) /\ slot' = [known(o) EXCEPT ![o][x] = idle[x]]
              /\ focus' = x /\ call' = [call EXCEPT ![k] = Free]
           \/ /\ slot' = known(o) /\ UNCHANGED <<idle, focus>>
              /\ call' = [call EXCEPT ![k] = At("connecting", s, x, {}, {})]
  BY DEF Obtain
<1>2. known(o) \in [Objects -> [Servers -> Clients \cup {None}]]
      /\ \A p \in Objects, y \in Servers :
           known(o)[p][y] = IF ~Open(s) /\ p = o THEN None ELSE slot[p][y]
  BY DEF PoolInv, Typed, PoolTypes
<1> HIDE DEF known
<1>3. \A t \in Sessions : table'[t] = (IF t = s THEN o ELSE table[t]) /\ table[t] \in Objects \cup {None}
  BY <1>1 DEF PoolInv, Typed, PoolTypes
<1>4. o # None
  BY NoneIsNothing
<1>5. \A t \in Sessions \ {s} : table[t] # o
  BY <1>1 DEF Referenced, PoolInv, OwnTables
<1>6. OwnTables'
  BY <1>3, <1>4, <1>5 DEF OwnTables, Open, PoolInv
<1>7. \A t \in Sessions \ {s} : table'[t] = table[t] /\ (Open(t) => table[t] \in Objects \ {o})
  BY <1>3, <1>5 DEF Open
<1>8. CASE /\ slot' = known(o) /\ UNCHANGED <<idle, focus>>
           /\ call' = [call EXCEPT ![k] = At("connecting", s, x, {}, {})]
  <2>1. \A t \in Sessions \ {s}, y \in Servers : Has(t, y)' = Has(t, y)
    BY <1>2, <1>7, <1>8 DEF Has, Open
  <2>2. \A y \in Servers : Has(s, y)' = Has(s, y)
    BY <1>1, <1>2, <1>3, <1>4, <1>8 DEF Has, Open
  <2> QED
    BY <1>6, <1>8, <2>1, <2>2
<1>9. CASE /\ idle[x] # None /\ Promote(x) /\ slot' = [known(o) EXCEPT ![o][x] = idle[x]]
           /\ focus' = x /\ call' = [call EXCEPT ![k] = Free]
  <2>1. \A p \in Objects, y \in Servers :
          slot'[p][y] = IF p = o /\ y = x THEN idle[x] ELSE known(o)[p][y]
    BY <1>2, <1>9
  <2>2. \A t \in Sessions \ {s}, y \in Servers : Has(t, y)' = Has(t, y)
    BY <1>2, <1>7, <2>1 DEF Has, Open
  <2>3. \A y \in Servers : Has(s, y)' = IF y = x THEN idle[x] ELSE Has(s, y)
    BY <1>1, <1>2, <1>3, <1>4, <2>1 DEF Has, Open
  <2> QED
    BY <1>6, <1>9, <2>2, <2>3
<1> QED
  BY <1>1, <1>8, <1>9

LEMMA ObtainApart ==
  ASSUME PoolInv, NEW k \in Calls, NEW s \in Sessions, NEW x \in Servers, Obtain(k, s, x)
  PROVE  (OwnTables /\ Apart)'
<1>1. OwnTables' /\ \A t \in Sessions \ {s}, y \in Servers : Has(t, y)' = Has(t, y)
  BY ObtainHas
<1>2. CASE (\A y \in Servers : Has(s, y)' = Has(s, y)) /\ UNCHANGED idle
  <2>1. \A t \in Sessions, y \in Servers : Has(t, y)' = Has(t, y)
    BY <1>1, <1>2
  <2>2. \A t, u \in Sessions, y, z \in Servers :
          Has(t, y)' # None /\ Has(t, y)' = Has(u, z)' => t = u /\ y = z
    BY <2>1 DEF PoolInv, Apart
  <2>3. \A t \in Sessions, y, z \in Servers : Has(t, y)' # None => idle'[z] # Has(t, y)'
    BY <1>2, <2>1 DEF PoolInv, Apart
  <2>4. \A y, z \in Servers : idle'[y] # None /\ idle'[y] = idle'[z] => y = z
    BY <1>2 DEF PoolInv, Apart
  <2> QED
    BY <1>1, <2>2, <2>3, <2>4 DEF Apart
<1>3. CASE /\ idle[x] # None /\ Promote(x)
           /\ \A y \in Servers : Has(s, y)' = IF y = x THEN idle[x] ELSE Has(s, y)
  <2>1. \A y \in Servers : idle'[y] = IF y = x THEN None ELSE idle[y]
    BY <1>3 DEF Promote, PoolInv, Typed, PoolTypes
  <2>2. \A y \in Servers : idle'[y] # idle[x] /\ idle'[y] \in {idle[y], None}
    BY <1>3, <2>1 DEF PoolInv, Apart
  <2>3. \A t \in Sessions, y \in Servers : Has(t, y) # idle[x]
    BY <1>3 DEF PoolInv, Apart
  <2>4. Apart'
    BY <1>1, <1>3, <2>2, <2>3, SessionGains
  <2> QED
    BY <1>1, <2>4
<1> QED
  BY <1>2, <1>3, ObtainHas

(* What a session has after a connection was made for it.                  *)
LEMMA ConnectedHas ==
  ASSUME PoolInv, NEW k \in Calls, Connected(k)
  PROVE  \E c \in Clients :
           /\ Fresh(c) /\ proc' = [proc EXCEPT ![c] = call[k].srv] /\ UNCHANGED <<table, idle>>
           /\ \/ UNCHANGED slot
              \/ \A s \in Sessions, y \in Servers :
                   Has(s, y)' = IF s = call[k].sid /\ y = call[k].srv THEN c ELSE Has(s, y)
<1>1. PICK s \in Sessions, x \in Servers : s = call[k].sid /\ x = call[k].srv
  BY DEF Connected, PoolInv, Typed, CallOK
<1>2. PICK c \in Clients :
        /\ Fresh(c) /\ proc' = [proc EXCEPT ![c] = x] /\ UNCHANGED <<table, idle>>
        /\ \/ Open(s) /\ slot' = [slot EXCEPT ![table[s]][x] = c]
           \/ UNCHANGED slot
  BY <1>1 DEF Connected
<1>3. CASE UNCHANGED slot
  BY <1>1, <1>2, <1>3
<1>4. CASE Open(s) /\ slot' = [slot EXCEPT ![table[s]][x] = c]
  <2>1. table[s] \in Objects
    BY <1>1, <1>4 DEF Open, PoolInv, Typed, PoolTypes
  <2>2. \A p \in Objects, y \in Servers :
          slot'[p][y] = IF p = table[s] /\ y = x THEN c ELSE slot[p][y]
    BY <1>1, <1>4, <2>1 DEF PoolInv, Typed, PoolTypes
  <2>3. \A t \in Sessions \ {s} : Open(t) => table[t] \in Objects \ {table[s]}
    BY <1>1 DEF Open, PoolInv, OwnTables, Typed, PoolTypes
  <2>4. \A t \in Sessions \ {s}, y \in Servers : Has(t, y)' = Has(t, y)
    BY <1>2, <2>2, <2>3 DEF Has, Open
  <2>5. \A y \in Servers : Has(s, y)' = IF y = x THEN c ELSE Has(s, y)
    BY <1>2, <1>4, <2>1, <2>2 DEF Has, Open
  <2>6. \A t \in Sessions, y \in Servers :
          Has(t, y)' = IF t = s /\ y = x THEN c ELSE Has(t, y)
    BY <2>4, <2>5
  <2> QED
    BY <1>1, <1>2, <2>6
<1> QED
  BY <1>2, <1>3, <1>4

LEMMA ConnectedApart ==
  ASSUME PoolInv, NEW k \in Calls, Connected(k)
  PROVE  (OwnTables /\ Apart)'
<1>1. PICK s \in Sessions, x \in Servers : s = call[k].sid /\ x = call[k].srv
  BY DEF Connected, PoolInv, Typed, CallOK
<1>2. PICK c \in Clients :
        /\ Fresh(c) /\ UNCHANGED <<table, idle>>
        /\ \/ UNCHANGED slot
           \/ \A t \in Sessions, y \in Servers :
                Has(t, y)' = IF t = s /\ y = x THEN c ELSE Has(t, y)
  BY <1>1, ConnectedHas
<1>3. CASE UNCHANGED slot
  BY <1>2, <1>3, NothingMoves
<1>4. CASE \A t \in Sessions, y \in Servers :
             Has(t, y)' = IF t = s /\ y = x THEN c ELSE Has(t, y)
  <2>1. /\ c # None
        /\ \A t \in Sessions, y \in Servers : Has(t, y) # c
        /\ \A y \in Servers : idle'[y] # c /\ idle'[y] \in {idle[y], None}
    BY <1>2, FreshIsNobodys
  <2>2. Apart'
    BY <1>4, <2>1, SessionGains
  <2>3. OwnTables'
    <3>1. table' = table
      BY <1>2
    <3> QED
      BY <3>1 DEF OwnTables, Open, PoolInv
  <2> QED
    BY <2>2, <2>3
<1> QED
  BY <1>2, <1>3, <1>4

LEMMA WarmedApart ==
  ASSUME PoolInv, NEW x \in Servers, Warmed(x)
  PROVE  (OwnTables /\ Apart)'
<1>1. CASE \E c \in Clients : Fresh(c) /\ idle' = [idle EXCEPT ![x] = c]
  BY <1>1, IdleGains DEF Warmed
<1>2. CASE UNCHANGED idle
  BY <1>2, NothingMoves DEF Warmed
<1> QED
  BY <1>1, <1>2 DEF Warmed

LEMMA ReconnectedApart ==
  ASSUME PoolInv, NEW k \in Calls, Reconnected(k)
  PROVE  (OwnTables /\ Apart)'
<1>1. PICK x \in Servers : x = call[k].srv
  BY DEF Reconnected, PoolInv, Typed, CallOK
<1>2. PICK c \in Clients : Fresh(c) /\ idle' = [idle EXCEPT ![x] = c]
  BY <1>1 DEF Reconnected
<1> QED
  BY <1>2, IdleGains DEF Reconnected

(* The steps in which clients and tables only go away.                     *)
LEMMA Drops ==
  ASSUME PoolInv, NEW k \in Calls,
         \/ \E e \in call[k].entries : PruneEntry(k, e)
         \/ \E y \in call[k].idles : PruneIdle(k, y)
         \/ SessionCleaned(k) \/ CrashIdleDropped(k) \/ CrashEntryDropped(k) \/ IdleDropped(k)
  PROVE  /\ \A s \in Sessions : table'[s] \in {table[s], None}
         /\ \A o \in Objects, x \in Servers : slot'[o][x] \in {slot[o][x], None}
         /\ \A x \in Servers : idle'[x] \in {idle[x], None}
<1>1. \A e \in call[k].entries : PruneEntry(k, e) =>
        /\ UNCHANGED <<table, idle>>
        /\ \A o \in Objects, x \in Servers : slot'[o][x] \in {slot[o][x], None}
  BY DEF PruneEntry, PoolInv, Typed, PoolTypes
<1>2. \A y \in call[k].idles : PruneIdle(k, y) =>
        UNCHANGED <<table, slot>> /\ \A x \in Servers : idle'[x] \in {idle[x], None}
  BY DEF PruneIdle, PoolInv, Typed, PoolTypes
<1>3. SessionCleaned(k) =>
        UNCHANGED <<slot, idle>> /\ \A s \in Sessions : table'[s] \in {table[s], None}
  BY DEF SessionCleaned, PoolInv, Typed, PoolTypes
<1>4. CrashIdleDropped(k) \/ IdleDropped(k) =>
        UNCHANGED <<table, slot>> /\ \A x \in Servers : idle'[x] \in {idle[x], None}
  BY DEF CrashIdleDropped, IdleDropped, Recreate, PoolInv, Typed, PoolTypes
<1>5. CrashEntryDropped(k) =>
        /\ UNCHANGED <<table, idle>>
        /\ \A o \in Objects, x \in Servers : slot'[o][x] \in {slot[o][x], None}
  BY DEF CrashEntryDropped, PoolInv, Typed, PoolTypes
<1> QED
  BY <1>1, <1>2, <1>3, <1>4, <1>5

LEMMA ApartStep ==
  ASSUME PoolInv, [Next]_vars
  PROVE  (OwnTables /\ Apart)'
<1>1. CASE UNCHANGED <<table, slot, used, idle, creating, warm, focus, proc, call>>
  BY <1>1, NothingMoves
<1>2. ASSUME NEW k \in Calls, Begin(k)
      PROVE  (OwnTables /\ Apart)'
  <2>1. ASSUME NEW s \in Sessions, NEW x \in Servers, GetSession(k, s, x)
        PROVE  (OwnTables /\ Apart)'
    BY <2>1, ObtainApart, NothingMoves DEF GetSession
  <2>2. ASSUME NEW x \in Servers, Invalidate(k, x)
        PROVE  (OwnTables /\ Apart)'
    BY <2>2, NothingMoves DEF Invalidate, Recreate
  <2> QED
    BY <1>2, <2>1, <2>2, NothingMoves DEF Begin, CleanupSession, Crashes
<1>3. ASSUME NEW k \in Calls, Continue(k)
      PROVE  (OwnTables /\ Apart)'
  <2>1. CASE Proceed(k)
    <3>1. PICK s \in Sessions, x \in Servers : Obtain(k, s, x)
      BY <2>1 DEF Proceed, PoolInv, Typed, CallOK
    <3> QED
      BY <3>1, ObtainApart
  <2>2. CASE ActivePruned(k) \/ IdlePruned(k) \/ ConnectFails(k) \/ CrashRecorded(k)
    BY <2>2, NothingMoves DEF ActivePruned, IdlePruned, ConnectFails, CrashRecorded
  <2> QED
    BY <1>3, <2>1, <2>2, ConnectedApart, ReconnectedApart, Drops, Shrink DEF Continue
<1>4. ASSUME NEW s \in Sessions, NEW x \in Servers, Reuse(s, x)
      PROVE  (OwnTables /\ Apart)'
  BY <1>4, NothingMoves DEF Reuse
<1> QED
  BY <1>1, <1>2, <1>3, <1>4, WarmedApart DEF Next, Step, Quits, vars

LEMMA PoolInvInit == Init => PoolInv
<1> SUFFICES ASSUME Init PROVE PoolInv
  OBVIOUS
<1>1. OwnTables /\ Apart
  BY DEF Init, OwnTables, Apart, Open, Has
<1> QED
  BY <1>1, TypedInit DEF PoolInv

(* No connection is ever shared, between two sessions, between two servers *)
(* or between a session and the idle pool, in every mode and however the   *)
(* methods of the pool interleave.                                         *)
THEOREM NeverShared == Spec => []NoSharing
<1>1. Init => PoolInv
  BY PoolInvInit
<1>2. PoolInv /\ [Next]_vars => PoolInv'
  BY TypedStep, ApartStep DEF PoolInv
<1>3. PoolInv => NoSharing
  BY ApartIsNoSharing
<1> QED
  BY <1>1, <1>2, <1>3, PTL DEF Spec

-----------------------------------------------------------------------------
(* No connection leads to another server.                                  *)

(* A connection held for a server is dead or leads to that server.         *)
LeadsTo(c, x) == c # None => proc[c] \in {None, x}

Leads ==
  /\ \A s \in Sessions, x \in Servers : LeadsTo(Has(s, x), x)
  /\ \A x \in Servers : LeadsTo(idle[x], x)

(* Sessions lose connections or get the idle one of the server.            *)
LEMMA LeadsAsBefore ==
  ASSUME PoolInv, Leads,
         \A s \in Sessions, x \in Servers : Has(s, x)' \in {Has(s, x), idle[x], None},
         \A x \in Servers : idle'[x] \in {idle[x], None},
         \A c \in Clients : proc'[c] \in {proc[c], None}
  PROVE  Leads'
<1>1. \A s \in Sessions, x \in Servers : Has(s, x) \in Clients \cup {None}
  BY DEF Has, Open, PoolInv, Typed, PoolTypes
<1>2. \A x \in Servers : idle[x] \in Clients \cup {None}
  BY DEF PoolInv, Typed, PoolTypes
<1>3. ASSUME NEW s \in Sessions, NEW x \in Servers, Has(s, x)' # None
      PROVE  proc'[Has(s, x)'] \in {None, x}
  <2> DEFINE c == Has(s, x)'
  <2>1. c \in {Has(s, x), idle[x]} /\ c # None
    BY <1>3
  <2>2. c \in Clients
    BY <1>1, <1>2, <2>1
  <2>3. proc[c] \in {None, x}
    BY <2>1 DEF Leads, LeadsTo
  <2> HIDE DEF c
  <2>4. proc'[c] \in {None, x}
    BY <2>2, <2>3
  <2> QED
    BY <2>4 DEF c
<1>4. ASSUME NEW x \in Servers, idle'[x] # None
      PROVE  proc'[idle'[x]] \in {None, x}
  <2>1. idle'[x] = idle[x] /\ idle[x] \in Clients
    BY <1>2, <1>4
  <2>2. proc[idle[x]] \in {None, x}
    BY <1>4, <2>1 DEF Leads, LeadsTo
  <2> QED
    BY <2>1, <2>2
<1> QED
  BY <1>3, <1>4 DEF Leads, LeadsTo

(* A new connection is held for the server it leads to.                    *)
LEMMA LeadsToo ==
  ASSUME PoolInv, Leads, NEW c \in Clients, Fresh(c), NEW x \in Servers,
         proc' = [proc EXCEPT ![c] = x],
         \A s \in Sessions, y \in Servers : Has(s, y)' = Has(s, y) \/ (y = x /\ Has(s, y)' = c),
         \A y \in Servers : idle'[y] = idle[y] \/ (y = x /\ idle'[y] = c)
  PROVE  Leads'
<1>1. /\ \A y \in Servers : idle[y] # c
      /\ \A s \in Sessions, y \in Servers : Has(s, y) # c
  BY FreshIsNobodys
<1>2. proc'[c] = x /\ \A d : d # c /\ d \in Clients => proc'[d] = proc[d]
  BY DEF PoolInv, Typed, PoolTypes
<1>3. \A s \in Sessions, y \in Servers : Has(s, y) \in Clients \cup {None}
  BY DEF Has, Open, PoolInv, Typed, PoolTypes
<1>4. ASSUME NEW s \in Sessions, NEW y \in Servers, Has(s, y)' # None
      PROVE  proc'[Has(s, y)'] \in {None, y}
  <2>1. CASE Has(s, y)' = Has(s, y)
    <3>1. Has(s, y) # None /\ Has(s, y) \in Clients /\ Has(s, y) # c
      BY <1>1, <1>3, <1>4, <2>1
    <3>2. proc[Has(s, y)] \in {None, y}
      BY <3>1 DEF Leads, LeadsTo
    <3>3. proc'[Has(s, y)] = proc[Has(s, y)]
      BY <1>2, <3>1
    <3> QED
      BY <2>1, <3>2, <3>3
  <2>2. CASE y = x /\ Has(s, y)' = c
    BY <1>2, <2>2
  <2> QED
    BY <2>1, <2>2
<1>5. ASSUME NEW y \in Servers, idle'[y] # None
      PROVE  proc'[idle'[y]] \in {None, y}
  <2>1. CASE idle'[y] = idle[y]
    <3>1. idle[y] \in Clients /\ idle[y] # c
      BY <1>1, <1>5, <2>1 DEF PoolInv, Typed, PoolTypes
    <3>2. proc[idle[y]] \in {None, y}
      BY <1>5, <2>1 DEF Leads, LeadsTo
    <3> QED
      BY <1>2, <2>1, <3>1, <3>2
  <2>2. CASE y = x /\ idle'[y] = c
    BY <1>2, <2>2
  <2> QED
    BY <2>1, <2>2
<1> QED
  BY <1>4, <1>5 DEF Leads, LeadsTo

LEMMA ProcsKilled ==
  ASSUME PoolInv, NEW C, proc' = Killed(C)
  PROVE  \A c \in Clients : proc'[c] \in {proc[c], None}
  BY DEF Killed

LEMMA SameHas ==
  ASSUME UNCHANGED <<table, slot>>
  PROVE  \A s \in Sessions, x \in Servers : Has(s, x)' = Has(s, x)
  BY DEF Has, Open

(* A step that takes connections away or kills them, at most.              *)
LEMMA LessLeads ==
  ASSUME PoolInv, Leads,
         \A s \in Sessions : table'[s] \in {table[s], None},
         \A o \in Objects, x \in Servers : slot'[o][x] \in {slot[o][x], None},
         \A x \in Servers : idle'[x] \in {idle[x], None},
         \/ UNCHANGED proc \/ \E C : proc' = Killed(C)
  PROVE  Leads'
<1>1. \A s \in Sessions, x \in Servers : Has(s, x)' \in {Has(s, x), idle[x], None}
  BY ShrinkHas
<1>2. \A c \in Clients : proc'[c] \in {proc[c], None}
  BY ProcsKilled
<1> QED
  BY <1>1, <1>2, LeadsAsBefore

LEMMA ObtainLeads ==
  ASSUME PoolInv, Leads, NEW k \in Calls, NEW s \in Sessions, NEW x \in Servers,
         Obtain(k, s, x), UNCHANGED proc
  PROVE  Leads'
<1>1. \A t \in Sessions, y \in Servers : Has(t, y)' \in {Has(t, y), idle[y], None}
  BY ObtainHas
<1>2. \A y \in Servers : idle'[y] \in {idle[y], None}
  BY ObtainHas DEF Promote, PoolInv, Typed, PoolTypes
<1> QED
  BY <1>1, <1>2, LeadsAsBefore

LEMMA ConnectedLeads ==
  ASSUME PoolInv, Leads, NEW k \in Calls, Connected(k)
  PROVE  Leads'
<1>1. call[k].sid \in Sessions /\ call[k].srv \in Servers
  BY DEF Connected, PoolInv, Typed, CallOK
<1>2. PICK c \in Clients :
        /\ Fresh(c) /\ proc' = [proc EXCEPT ![c] = call[k].srv] /\ UNCHANGED idle
        /\ \A s \in Sessions, y \in Servers :
             Has(s, y)' = Has(s, y) \/ (y = call[k].srv /\ Has(s, y)' = c)
  BY <1>1, ConnectedHas, SameHas
<1> QED
  BY <1>1, <1>2, LeadsToo

LEMMA LeadsStep ==
  ASSUME PoolInv, Leads, [Next]_vars
  PROVE  Leads'
<1>1. CASE UNCHANGED <<table, slot, used, idle, creating, warm, focus, proc, call>>
  BY <1>1, LessLeads
<1>2. ASSUME NEW k \in Calls, Begin(k)
      PROVE  Leads'
  <2>1. ASSUME NEW s \in Sessions, NEW x \in Servers, GetSession(k, s, x)
        PROVE  Leads'
    <3>1. CASE Obtain(k, s, x) /\ UNCHANGED proc
      BY <3>1, ObtainLeads
    <3>2. CASE UNCHANGED <<table, slot, idle>> /\ \E C : proc' = Killed(C)
      BY <3>2, LessLeads
    <3> QED
      BY <2>1, <3>1, <3>2 DEF GetSession
  <2>2. ASSUME NEW x \in Servers, Invalidate(k, x)
        PROVE  Leads'
    BY <2>2, LessLeads DEF Invalidate, Recreate
  <2>3. ASSUME NEW x \in Servers, Crashes(k, x)
        PROVE  Leads'
    <3>1. UNCHANGED <<table, slot, idle>> /\ \A c \in Clients : proc'[c] \in {proc[c], None}
      BY <2>3 DEF Crashes, PoolInv, Typed, PoolTypes
    <3> QED
      BY <3>1, SameHas, LeadsAsBefore
  <2>4. ASSUME NEW s \in Sessions, CleanupSession(k, s)
        PROVE  Leads'
    BY <2>4, LessLeads DEF CleanupSession
  <2> QED
    BY <1>2, <2>1, <2>2, <2>3, <2>4 DEF Begin
<1>3. ASSUME NEW k \in Calls, Continue(k)
      PROVE  Leads'
  <2>1. CASE Proceed(k)
    <3>1. PICK s \in Sessions, x \in Servers : Obtain(k, s, x) /\ UNCHANGED proc
      BY <2>1 DEF Proceed, PoolInv, Typed, CallOK
    <3> QED
      BY <3>1, ObtainLeads
  <2>2. CASE ActivePruned(k) \/ IdlePruned(k) \/ ConnectFails(k)
    BY <2>2, LessLeads DEF ActivePruned, IdlePruned, ConnectFails
  <2>3. CASE CrashRecorded(k)
    <3>1. UNCHANGED <<table, slot, idle>> /\ (UNCHANGED proc \/ \E C : proc' = Killed(C))
      BY <2>3 DEF CrashRecorded, ScanAll, Scan
    <3> QED
      BY <3>1, LessLeads
  <2>4. CASE Reconnected(k)
    <3>1. PICK x \in Servers : x = call[k].srv
      BY <2>4 DEF Reconnected, PoolInv, Typed, CallOK
    <3>2. PICK c \in Clients :
            Fresh(c) /\ proc' = [proc EXCEPT ![c] = x] /\ idle' = [idle EXCEPT ![x] = c]
      BY <2>4, <3>1 DEF Reconnected
    <3>3. \A y \in Servers : idle'[y] = idle[y] \/ (y = x /\ idle'[y] = c)
      BY <3>2 DEF PoolInv, Typed, PoolTypes
    <3>4. \A s \in Sessions, y \in Servers : Has(s, y)' = Has(s, y)
      BY <2>4, SameHas DEF Reconnected
    <3> QED
      BY <3>2, <3>3, <3>4, LeadsToo
  <2>5. CASE \/ \E e \in call[k].entries : PruneEntry(k, e)
             \/ \E y \in call[k].idles : PruneIdle(k, y)
             \/ SessionCleaned(k) \/ CrashIdleDropped(k) \/ CrashEntryDropped(k) \/ IdleDropped(k)
    <3>1. UNCHANGED proc \/ \E C : proc' = Killed(C)
      BY <2>5 DEF PruneEntry, PruneIdle, SessionCleaned, CrashIdleDropped, CrashEntryDropped,
                  IdleDropped, ScanAll, Scan
    <3> QED
      BY <2>5, <3>1, Drops, LessLeads
  <2> QED
    BY <1>3, <2>1, <2>2, <2>3, <2>4, <2>5, ConnectedLeads DEF Continue
<1>4. ASSUME NEW s \in Sessions, NEW x \in Servers, Reuse(s, x)
      PROVE  Leads'
  BY <1>4, LessLeads DEF Reuse
<1>5. ASSUME NEW x \in Servers, Warmed(x)
      PROVE  Leads'
  <2>1. CASE UNCHANGED <<idle, proc>>
    BY <1>5, <2>1, LessLeads DEF Warmed
  <2>2. ASSUME NEW c \in Clients,
               Fresh(c), idle' = [idle EXCEPT ![x] = c], proc' = [proc EXCEPT ![c] = x]
        PROVE  Leads'
    <3>1. \A y \in Servers : idle'[y] = idle[y] \/ (y = x /\ idle'[y] = c)
      BY <2>2 DEF PoolInv, Typed, PoolTypes
    <3>2. \A s \in Sessions, y \in Servers : Has(s, y)' = Has(s, y)
      BY <1>5, SameHas DEF Warmed
    <3> QED
      BY <2>2, <3>1, <3>2, LeadsToo
  <2> QED
    BY <1>5, <2>1, <2>2 DEF Warmed
<1> QED
  BY <1>1, <1>2, <1>3, <1>4, <1>5 DEF Next, Step, Quits, vars

(* In every mode and however calls overlap, a connection that a session    *)
(* has for a server, or that is idle for it, leads to that very server     *)
(* until it is closed or crashes; so getSession may hand out a connection  *)
(* whose process is dead, never one to another server.                     *)
RightServer ==
  /\ \A s \in Sessions, x \in Servers :
       Open(s) /\ slot[table[s]][x] # None => proc[slot[table[s]][x]] \in {None, x}
  /\ \A x \in Servers : idle[x] # None => proc[idle[x]] \in {None, x}

THEOREM NeverAnotherServer == Spec => []RightServer
<1>1. Init => PoolInv /\ Leads
  <2> SUFFICES ASSUME Init PROVE Leads
    BY PoolInvInit
  <2> QED
    BY DEF Init, Leads, LeadsTo, Has, Open
<1>2. PoolInv /\ Leads /\ [Next]_vars => (PoolInv /\ Leads)'
  BY TypedStep, ApartStep, LeadsStep DEF PoolInv
<1>3. PoolInv /\ Leads => RightServer
  BY DEF Leads, LeadsTo, Has, RightServer
<1> QED
  BY <1>1, <1>2, <1>3, PTL DEF Spec

-----------------------------------------------------------------------------
(* The mark of a prewarm.                                                  *)

LEMMA WarmUpMarks ==
  ASSUME PoolTypes, MarkHasWorker, NEW servers \in SUBSET Servers, WarmUp(servers)
  PROVE  MarkHasWorker'
<1> DEFINE begun == {x \in servers : ~Lazy /\ idle'[x] = None /\ x \notin creating}
<1>1. creating' = creating \cup begun
      /\ warm' = [x \in Servers |-> IF x \in begun THEN warm[x] + 1 ELSE warm[x]]
  BY DEF WarmUp
<1> HIDE DEF begun
<1>2. \A x \in creating' : x \in Servers
  BY WarmUpTyped
<1>3. \A x \in Servers : warm[x] \in Nat
  BY DEF PoolTypes
<1>4. \A x \in creating' : warm'[x] > 0
  BY <1>1, <1>2, <1>3 DEF MarkHasWorker
<1> QED
  BY <1>4 DEF MarkHasWorker

(* A server's mark may go, and nothing else.                               *)
LEMMA MarksGo ==
  ASSUME MarkHasWorker, creating' \subseteq creating, UNCHANGED warm
  PROVE  MarkHasWorker'
  BY DEF MarkHasWorker

LEMMA WarmedMarks ==
  ASSUME PoolTypes, MarkHasWorker, NEW x \in Servers, Warmed(x)
  PROVE  MarkHasWorker'
<1>1. creating' = creating \ {x} /\ warm' = [warm EXCEPT ![x] = @ - 1]
  BY DEF Warmed, WarmOver
<1>2. \A y \in creating' : y \in creating /\ warm'[y] = warm[y]
  BY <1>1 DEF PoolTypes
<1> QED
  BY <1>2 DEF MarkHasWorker

LEMMA ObtainMarks ==
  ASSUME PoolTypes, MarkHasWorker, NEW k \in Calls, NEW s \in Sessions, NEW x \in Servers, Obtain(k, s, x)
  PROVE  MarkHasWorker'
<1>1. WarmUp({x}) \/ UNCHANGED <<creating, warm>>
  BY DEF Obtain
<1> QED
  BY <1>1, WarmUpMarks, MarksGo

LEMMA MarksStep ==
  ASSUME Typed, MarkHasWorker, [Next]_vars
  PROVE  MarkHasWorker'
<1>1. CASE UNCHANGED <<table, slot, used, idle, creating, warm, focus, proc, call>>
  BY <1>1, MarksGo
<1>2. ASSUME NEW k \in Calls, Begin(k)
      PROVE  MarkHasWorker'
  <2>1. ASSUME NEW s \in Sessions, NEW x \in Servers, GetSession(k, s, x)
        PROVE  MarkHasWorker'
    BY <2>1, ObtainMarks, MarksGo DEF GetSession, Typed
  <2>2. ASSUME NEW x \in Servers, Invalidate(k, x)
        PROVE  MarkHasWorker'
    BY <2>2, MarksGo DEF Invalidate, Recreate
  <2> QED
    BY <1>2, <2>1, <2>2, MarksGo DEF Begin, CleanupSession, Crashes
<1>3. ASSUME NEW k \in Calls, Continue(k)
      PROVE  MarkHasWorker'
  <2>1. CASE Proceed(k)
    <3>1. PICK s \in Sessions, x \in Servers : Obtain(k, s, x)
      BY <2>1 DEF Proceed, Typed, CallOK
    <3> QED
      BY <3>1, ObtainMarks DEF Typed
  <2>2. CASE Connected(k)
    <3>1. \/ call[k].srv \in Servers /\ WarmUp({call[k].srv})
          \/ UNCHANGED <<creating, warm>>
      BY <2>2 DEF Connected, Typed, CallOK
    <3> QED
      BY <3>1, WarmUpMarks, MarksGo DEF Typed
  <2>3. CASE SessionCleaned(k)
    <3>1. used[call[k].sid] \in SUBSET Servers
      BY <2>3 DEF SessionCleaned, Typed, PoolTypes, CallOK
    <3> QED
      BY <2>3, <3>1, WarmUpMarks DEF SessionCleaned, Typed
  <2>4. CASE CrashRecorded(k) \/ CrashIdleDropped(k) \/ CrashEntryDropped(k)
    <3>1. creating' \subseteq creating /\ UNCHANGED warm
      BY <2>4 DEF CrashRecorded, CrashIdleDropped, CrashEntryDropped, ScanAll, Scan
    <3> QED
      BY <3>1, MarksGo
  <2>5. CASE \/ ActivePruned(k) \/ IdlePruned(k) \/ ConnectFails(k) \/ IdleDropped(k) \/ Reconnected(k)
             \/ \E e \in call[k].entries : PruneEntry(k, e)
             \/ \E y \in call[k].idles : PruneIdle(k, y)
    <3>1. creating' \subseteq creating /\ UNCHANGED warm
      BY <2>5 DEF ActivePruned, IdlePruned, ConnectFails, IdleDropped, Recreate, Reconnected,
                  PruneEntry, PruneIdle
    <3> QED
      BY <3>1, MarksGo
  <2> QED
    BY <1>3, <2>1, <2>2, <2>3, <2>4, <2>5 DEF Continue
<1>4. ASSUME NEW s \in Sessions, NEW x \in Servers, Reuse(s, x)
      PROVE  MarkHasWorker'
  BY <1>4, MarksGo DEF Reuse
<1> QED
  BY <1>1, <1>2, <1>3, <1>4, WarmedMarks DEF Next, Step, Quits, vars, Typed

(* A server is marked as being prewarmed only while a prewarm of it is in  *)
(* flight, whatever else clears the mark or asks for a prewarm meanwhile.  *)
THEOREM MarksHaveWorkers == Spec => []MarkHasWorker
<1>1. Init => Typed /\ MarkHasWorker
  BY TypedInit DEF Init, MarkHasWorker
<1>2. Typed /\ MarkHasWorker /\ [Next]_vars => (Typed /\ MarkHasWorker)'
  BY TypedStep, MarksStep
<1> QED
  BY <1>1, <1>2, PTL DEF Spec

-----------------------------------------------------------------------------
(* The server shown as the active one.                                     *)

Removing(k) == call[k].pc \in {"pruning", "pruningIdle", "crashIdle", "crashEntry"}

(* The focus is right in terms of what the sessions have.                  *)
FocusRight ==
  \/ focus = None /\ \A s \in Sessions, x \in Servers : Has(s, x) = None
  \/ focus \in Servers /\ \E s \in Sessions : Has(s, focus) # None

FocusInv == (\A k \in Calls : ~Removing(k)) => FocusRight

LEMMA EntriesAreHad ==
  ASSUME Typed
  PROVE  /\ \A e \in Entries : e.sid \in Sessions /\ e.srv \in Servers /\ Has(e.sid, e.srv) # None
         /\ \A s \in Sessions, x \in Servers :
              Has(s, x) # None => \E e \in Entries : e.sid = s /\ e.srv = x
<1>1. ASSUME NEW e \in Entries
      PROVE  e.sid \in Sessions /\ e.srv \in Servers /\ Has(e.sid, e.srv) # None
  <2>1. e \in Entry /\ table[e.sid] = e.obj /\ slot[e.obj][e.srv] # None
    BY DEF Entries
  <2>2. e.sid \in Sessions /\ e.srv \in Servers /\ e.obj # None
    BY <2>1, NoneIsNothing DEF Entry
  <2> QED
    BY <2>1, <2>2 DEF Has, Open
<1>2. ASSUME NEW s \in Sessions, NEW x \in Servers, Has(s, x) # None
      PROVE  \E e \in Entries : e.sid = s /\ e.srv = x
  <2> DEFINE e == [obj |-> table[s], sid |-> s, srv |-> x]
  <2>1. table[s] \in Objects /\ slot[table[s]][x] # None
    BY <1>2 DEF Has, Open, Typed, PoolTypes
  <2>2. e \in Entry /\ e.sid = s /\ e.srv = x /\ e.obj = table[s]
    BY <2>1 DEF Entry
  <2> HIDE DEF e
  <2>3. e \in Entries
    BY <2>1, <2>2 DEF Entries
  <2> QED
    BY <2>2, <2>3
<1> QED
  BY <1>1, <1>2

LEMMA FocusInvIsHonest ==
  ASSUME Typed, FocusInv
  PROVE  FocusHonest
<1> SUFFICES ASSUME \A k \in Calls : ~Removing(k)
             PROVE  IF Entries = {} THEN focus = None ELSE \E e \in Entries : e.srv = focus
  BY DEF FocusHonest, Removing
<1>1. FocusRight
  BY DEF FocusInv
<1>2. CASE focus = None /\ \A s \in Sessions, x \in Servers : Has(s, x) = None
  BY <1>2, EntriesAreHad
<1>3. CASE focus \in Servers /\ \E s \in Sessions : Has(s, focus) # None
  BY <1>3, EntriesAreHad
<1> QED
  BY <1>1, <1>2, <1>3 DEF FocusRight

(* recomputeActiveServerFocus                                              *)
LEMMA RefocusRight ==
  ASSUME Refocus
  PROVE  FocusInv'
<1>1. \A x \in Servers : x \in ActiveNext <=> \E s \in Sessions : Has(s, x)' # None
  BY DEF ActiveNext, Has, Open
<1>2. ActiveNext \subseteq Servers
  BY DEF ActiveNext
<1>3. CASE ActiveNext = {}
  BY <1>1, <1>3 DEF Refocus, FocusInv, FocusRight
<1>4. CASE ActiveNext # {}
  <2>1. focus' \in ActiveNext
    BY <1>4 DEF Refocus
  <2> QED
    BY <1>1, <1>2, <2>1 DEF FocusInv, FocusRight
<1> QED
  BY <1>3, <1>4

(* A step that leaves alone what sessions have and the focus, and after    *)
(* which whatever was removing still is.                                   *)
LEMMA FocusKept ==
  ASSUME FocusInv, UNCHANGED focus,
         \A s \in Sessions, x \in Servers : Has(s, x)' = Has(s, x),
         \A k \in Calls : Removing(k) => Removing(k)'
  PROVE  FocusInv'
<1>1. FocusRight => FocusRight'
  BY DEF FocusRight
<1> QED
  BY <1>1 DEF FocusInv

LEMMA FocusMoves ==
  ASSUME NEW s \in Sessions, NEW x \in Servers, focus' = x, Has(s, x)' # None
  PROVE  FocusInv'
  BY DEF FocusInv, FocusRight

LEMMA SameTablesHas ==
  ASSUME UNCHANGED <<table, slot>>
  PROVE  \A s \in Sessions, x \in Servers : Has(s, x)' = Has(s, x)
  BY DEF Has, Open

LEMMA OtherCalls ==
  ASSUME Typed, NEW k \in Calls, NEW rec, call' = [call EXCEPT ![k] = rec],
         Removing(k) => rec.pc \in {"pruning", "pruningIdle", "crashIdle", "crashEntry"}
  PROVE  \A q \in Calls : Removing(q) => Removing(q)'
<1>1. call'[k] = rec /\ \A q \in Calls \ {k} : call'[q] = call[q]
  BY DEF Typed, PoolTypes
<1> QED
  BY <1>1 DEF Removing

LEMMA ObtainFocus ==
  ASSUME PoolInv, FocusInv, NEW k \in Calls, NEW s \in Sessions, NEW x \in Servers,
         ~Removing(k), Obtain(k, s, x)
  PROVE  FocusInv'
<1>1. CASE /\ \A y \in Servers : Has(s, y)' = Has(s, y)
           /\ UNCHANGED <<idle, focus>> /\ call' = [call EXCEPT ![k] = At("connecting", s, x, {}, {})]
  <2>0. \A t \in Sessions \ {s}, y \in Servers : Has(t, y)' = Has(t, y)
    BY ObtainHas
  <2>1. \A t \in Sessions, y \in Servers : Has(t, y)' = Has(t, y)
    BY <1>1, <2>0
  <2>2. \A q \in Calls : Removing(q) => Removing(q)'
    BY <1>1, OtherCalls DEF PoolInv
  <2> QED
    BY <1>1, <2>1, <2>2, FocusKept
<1>2. CASE /\ idle[x] # None /\ focus' = x
           /\ \A y \in Servers : Has(s, y)' = IF y = x THEN idle[x] ELSE Has(s, y)
  BY <1>2, FocusMoves
<1> QED
  BY <1>1, <1>2, ObtainHas

LEMMA ConnectedFocus ==
  ASSUME PoolInv, FocusInv, NEW k \in Calls, Connected(k)
  PROVE  FocusInv'
<1>1. PICK s \in Sessions, x \in Servers : s = call[k].sid /\ x = call[k].srv
  BY DEF Connected, PoolInv, Typed, CallOK
<1>2. PICK c \in Clients :
        /\ UNCHANGED table
        /\ \/ Open(s) /\ slot' = [slot EXCEPT ![table[s]][x] = c] /\ focus' = x
           \/ UNCHANGED <<slot, focus>>
  BY <1>1 DEF Connected
<1>3. CASE UNCHANGED <<slot, focus>>
  <2>1. \A q \in Calls : Removing(q) => Removing(q)'
    BY OtherCalls DEF Connected, Removing, PoolInv
  <2> QED
    BY <1>2, <1>3, <2>1, SameTablesHas, FocusKept
<1>4. CASE Open(s) /\ slot' = [slot EXCEPT ![table[s]][x] = c] /\ focus' = x
  <2>1. table'[s] # None /\ slot'[table'[s]][x] = c /\ c # None
    BY <1>2, <1>4, NoneIsNothing DEF Open, PoolInv, Typed, PoolTypes
  <2>2. Has(s, x)' # None
    BY <2>1 DEF Has, Open
  <2> QED
    BY <1>4, <2>2, FocusMoves
<1> QED
  BY <1>2, <1>3, <1>4

(* A call starts.                                                          *)
LEMMA BeginFocus ==
  ASSUME PoolInv, FocusInv, NEW k \in Calls, Begin(k)
  PROVE  FocusInv'
<1>1. ~Removing(k)
  <2>1. call[k] = Free
    BY DEF Begin, GetSession, CleanupSession, Crashes, Invalidate, MayBegin
  <2> QED
    BY <2>1, FreeTyped DEF Removing
<1>2. ASSUME NEW rec, call' = [call EXCEPT ![k] = rec], UNCHANGED <<table, slot, focus>>
      PROVE  FocusInv'
  <2>1. \A q \in Calls : Removing(q) => Removing(q)'
    BY <1>1, <1>2, OtherCalls DEF PoolInv
  <2> QED
    BY <1>2, <2>1, SameTablesHas, FocusKept
<1>3. ASSUME NEW s \in Sessions, NEW x \in Servers, GetSession(k, s, x)
      PROVE  FocusInv'
  <2>1. CASE ~SingleActive
    BY <1>1, <1>3, <2>1, ObtainFocus DEF GetSession
  <2>2. CASE SingleActive
    BY <1>2, <1>3, <2>2 DEF GetSession
  <2> QED
    BY <2>1, <2>2
<1>4. ASSUME NEW s \in Sessions, CleanupSession(k, s)
      PROVE  FocusInv'
  BY <1>2, <1>4 DEF CleanupSession
<1>5. ASSUME NEW x \in Servers, Crashes(k, x)
      PROVE  FocusInv'
  BY <1>2, <1>5 DEF Crashes
<1>6. ASSUME NEW x \in Servers, Invalidate(k, x)
      PROVE  FocusInv'
  BY <1>2, <1>6 DEF Invalidate, Recreate
<1> QED
  BY <1>3, <1>4, <1>5, <1>6 DEF Begin

(* The steps of a removal: it is still one, or the focus is looked for.    *)
LEMMA ScanFocus ==
  ASSUME Typed, FocusInv, NEW k \in Calls, NEW left \in SUBSET Entry, call[k].srv \in Servers,
         Scan(k, left)
  PROVE  FocusInv'
<1>1. CASE Refocus
  BY <1>1, RefocusRight
<1>2. CASE \E e \in left, passed \in SUBSET left :
             call' = [call EXCEPT ![k] =
               [At("crashEntry", e.sid, call[k].srv, left \ (passed \cup {e}), {}) EXCEPT !.obj = e.obj]]
  <2>1. PICK e \in left, passed \in SUBSET left :
             call' = [call EXCEPT ![k] =
               [At("crashEntry", e.sid, call[k].srv, left \ (passed \cup {e}), {}) EXCEPT !.obj = e.obj]]
    BY <1>2
  <2> DEFINE at == At("crashEntry", e.sid, call[k].srv, left \ (passed \cup {e}), {})
  <2>2. at.pc = "crashEntry" /\ at \in CallRec
    BY AtTyped DEF Pcs, Entry
  <2> HIDE DEF at
  <2>3. [at EXCEPT !.obj = e.obj].pc = "crashEntry"
    BY <2>2 DEF CallRec
  <2>4. call'[k].pc = "crashEntry"
    BY <2>1, <2>3 DEF at, Typed, PoolTypes
  <2> QED
    BY <2>4 DEF FocusInv, Removing
<1> QED
  BY <1>1, <1>2 DEF Scan

LEMMA RemovalFocus ==
  ASSUME Typed, FocusInv, NEW k \in Calls,
         \/ ActivePruned(k) \/ IdlePruned(k) \/ SessionCleaned(k)
         \/ CrashRecorded(k) \/ CrashIdleDropped(k) \/ CrashEntryDropped(k)
         \/ \E e \in call[k].entries : PruneEntry(k, e)
         \/ \E y \in call[k].idles : PruneIdle(k, y)
  PROVE  FocusInv'
<1>1. CASE IdlePruned(k) \/ SessionCleaned(k)
  BY <1>1, RefocusRight DEF IdlePruned, SessionCleaned
<1>2. CASE ActivePruned(k)
  <2>1. At("pruningIdle", call[k].sid, call[k].srv, {}, IdleOthers(call[k].srv)).pc = "pruningIdle"
    BY DEF At
  <2>2. call'[k].pc = "pruningIdle"
    BY <1>2, <2>1 DEF ActivePruned, Typed, PoolTypes
  <2> QED
    BY <2>2 DEF FocusInv, Removing
<1>3. CASE (\E e \in call[k].entries : PruneEntry(k, e)) \/ \E y \in call[k].idles : PruneIdle(k, y)
  <2>1. call[k] \in CallRec
    BY DEF Typed, PoolTypes
  <2>2. call[k].pc \in {"pruning", "pruningIdle"}
    BY <1>3 DEF PruneEntry, PruneIdle
  <2>3. call'[k].pc = call[k].pc
    <3>1. ASSUME NEW e \in call[k].entries, PruneEntry(k, e)
          PROVE  call'[k].pc = call[k].pc
      BY <2>1, <3>1 DEF PruneEntry, CallRec, Typed, PoolTypes
    <3>2. ASSUME NEW y \in call[k].idles, PruneIdle(k, y)
          PROVE  call'[k].pc = call[k].pc
      BY <2>1, <3>2 DEF PruneIdle, CallRec, Typed, PoolTypes
    <3> QED
      BY <1>3, <3>1, <3>2
  <2> QED
    BY <2>2, <2>3 DEF FocusInv, Removing
<1>4. CASE CrashRecorded(k)
  <2>1. call[k].srv \in Servers
    BY <1>4 DEF CrashRecorded, Typed, CallOK
  <2>2. CASE idle[call[k].srv] # None
    <3>1. At("crashIdle", None, call[k].srv, {}, {}).pc = "crashIdle"
      BY DEF At
    <3>2. call'[k].pc = "crashIdle"
      BY <1>4, <2>2, <3>1 DEF CrashRecorded, Typed, PoolTypes
    <3> QED
      BY <3>2 DEF FocusInv, Removing
  <2>3. CASE idle[call[k].srv] = None
    BY <1>4, <2>1, <2>3, ScanFocus DEF CrashRecorded, ScanAll
  <2> QED
    BY <2>2, <2>3
<1>5. CASE CrashIdleDropped(k)
  <2>1. call[k].srv \in Servers
    BY <1>5 DEF CrashIdleDropped, Typed, CallOK
  <2> QED
    BY <1>5, <2>1, ScanFocus DEF CrashIdleDropped, ScanAll
<1>6. CASE CrashEntryDropped(k)
  <2>1. call[k].srv \in Servers /\ call[k].entries \in SUBSET Entry
    BY <1>6 DEF CrashEntryDropped, Typed, PoolTypes, CallOK, CallRec
  <2> QED
    BY <1>6, <2>1, ScanFocus DEF CrashEntryDropped
<1> QED
  BY <1>1, <1>2, <1>3, <1>4, <1>5, <1>6

LEMMA FocusStep ==
  ASSUME PoolInv, FocusInv, [Next]_vars
  PROVE  FocusInv'
<1>1. CASE UNCHANGED <<table, slot, used, idle, creating, warm, focus, proc, call>>
  <2>1. \A k \in Calls : Removing(k) => Removing(k)'
    BY <1>1 DEF Removing
  <2> QED
    BY <1>1, <2>1, SameTablesHas, FocusKept
<1>2. ASSUME NEW k \in Calls, Continue(k)
      PROVE  FocusInv'
  <2>1. CASE Proceed(k)
    <3>1. PICK s \in Sessions, x \in Servers : Obtain(k, s, x)
      BY <2>1 DEF Proceed, PoolInv, Typed, CallOK
    <3>2. ~Removing(k)
      BY <2>1 DEF Proceed, Removing
    <3> QED
      BY <3>1, <3>2, ObtainFocus
  <2>2. CASE ConnectFails(k) \/ IdleDropped(k) \/ Reconnected(k)
    <3>1. PICK rec : call' = [call EXCEPT ![k] = rec]
      BY <2>2 DEF ConnectFails, IdleDropped, Recreate, Reconnected
    <3>2. ~Removing(k) /\ UNCHANGED <<table, slot, focus>>
      BY <2>2 DEF ConnectFails, IdleDropped, Recreate, Reconnected, Removing
    <3>3. \A q \in Calls : Removing(q) => Removing(q)'
      BY <3>1, <3>2, OtherCalls DEF PoolInv
    <3> QED
      BY <3>2, <3>3, SameTablesHas, FocusKept
  <2> QED
    BY <1>2, <2>1, <2>2, ConnectedFocus, RemovalFocus DEF Continue, PoolInv
<1>3. ASSUME NEW s \in Sessions, NEW x \in Servers, Reuse(s, x)
      PROVE  FocusInv'
  <2>1. Has(s, x)' # None
    BY <1>3 DEF Reuse, Has, Open
  <2> QED
    BY <1>3, <2>1, FocusMoves DEF Reuse
<1>4. ASSUME NEW x \in Servers, Warmed(x)
      PROVE  FocusInv'
  <2>1. \A k \in Calls : Removing(k) => Removing(k)'
    BY <1>4 DEF Warmed, Removing
  <2> QED
    BY <1>4, <2>1, SameTablesHas, FocusKept DEF Warmed
<1> QED
  BY <1>1, <1>2, <1>3, <1>4, BeginFocus DEF Next, Step, Quits, vars

(* The server the pool shows as the active one has an active session, and  *)
(* none is shown only when there is none, unless a removal is under way:   *)
(* every path that takes a session's client away ends in                   *)
(* recomputeActiveServerFocus, whatever runs in between.                   *)
THEOREM FocusAlwaysHonest == Spec => []FocusHonest
<1>1. Init => PoolInv /\ FocusInv
  <2> SUFFICES ASSUME Init PROVE FocusInv
    BY PoolInvInit
  <2> QED
    BY DEF Init, FocusInv, FocusRight, Has, Open
<1>2. PoolInv /\ FocusInv /\ [Next]_vars => (PoolInv /\ FocusInv)'
  BY TypedStep, ApartStep, FocusStep DEF PoolInv
<1>3. PoolInv /\ FocusInv => FocusHonest
  BY FocusInvIsHonest DEF PoolInv
<1> QED
  BY <1>1, <1>2, <1>3, PTL DEF Spec

-----------------------------------------------------------------------------
(* One call at a time: what a client gets is open, and nothing leaks.      *)

(* The connections the call whose record is r is about to take away.       *)
Dooms(r, s, x) ==
  \/ r.pc = "pruning" /\ \E e \in r.entries : e.sid = s /\ e.srv = x
  \/ r.pc = "closing" /\ r.sid = s
  \/ r.pc \in {"recording", "crashIdle"} /\ r.srv = x
  \/ r.pc = "crashEntry" /\ r.srv = x /\ (r.sid = s \/ \E e \in r.entries : e.sid = s)

DoomsIdle(r, x) ==
  \/ r.pc = "pruningIdle" /\ x \in r.idles
  \/ r.pc \in {"recording", "crashIdle", "droppingIdle"} /\ r.srv = x

Dead(c) == c # None => proc[c] = None

(* Every other connection is alive and leads where it should; every process*)
(* belongs to a session or to the idle pool.                               *)
Live(r) ==
  /\ \A s \in Sessions, x \in Servers :
       Has(s, x) # None => proc[Has(s, x)] = x \/ Dooms(r, s, x)
  /\ \A x \in Servers : idle[x] # None => proc[idle[x]] = x \/ DoomsIdle(r, x)

Held ==
  \A c \in Clients : proc[c] # None =>
    \/ \E s \in Sessions, x \in Servers : Has(s, x) = c
    \/ \E x \in Servers : idle[x] = c

(* What the call has killed before it takes it away, what it expects of the*)
(* tables it holds, and the place that is free for what it connects.       *)
Doing(r) ==
  /\ r.pc = "pruning" =>
       \A e \in r.entries : e.obj = table[e.sid] /\ Dead(Has(e.sid, e.srv))
  /\ r.pc = "closing" => \A x \in Servers : Dead(Has(r.sid, x))
  /\ r.pc = "crashEntry" =>
       /\ r.obj = table[r.sid] /\ Dead(Has(r.sid, r.srv)) /\ idle[r.srv] = None
       /\ \A e \in r.entries : e.srv = r.srv /\ e.obj = table[e.sid]
  /\ r.pc = "pruningIdle" => \A y \in r.idles : Dead(idle[y])
  /\ r.pc \in {"crashIdle", "droppingIdle"} => Dead(idle[r.srv])
  /\ r.pc = "reconnecting" => idle[r.srv] = None
  /\ r.pc \in {"pruning", "pruningIdle", "ready", "connecting"} => Has(r.sid, r.srv) = None
  /\ r.pc = "connecting" => Open(r.sid)

(* All sessions' connections are to one server, and to the server a call   *)
(* connects to, once it has pruned.                                        *)
Focused(r) ==
  /\ \A s, t \in Sessions, x, y \in Servers : Has(s, x) # None /\ Has(t, y) # None => x = y
  /\ \A s \in Sessions, x \in Servers : Has(s, x) # None =>
       /\ r.pc = "pruning" => x = r.srv \/ \E e \in r.entries : e.sid = s /\ e.srv = x
       /\ r.pc \in {"pruningIdle", "ready", "connecting"} => x = r.srv

WorkOK(r) == Live(r) /\ Held /\ Doing(r) /\ (SingleActive => Focused(r))

SerialInv ==
  /\ (\A k \in Calls : call[k] = Free) => WorkOK(Free)
  /\ \A k \in Calls : call[k] # Free =>
       /\ WorkOK(call[k])
       /\ \A q \in Calls \ {k} : call[q] = Free
       /\ \A x \in Servers : warm[x] = 0

(* A step of the one call in flight, or of one that begins when none is.   *)
LEMMA Settle ==
  ASSUME Typed, SerialInv, NEW k \in Calls, NEW rec, call' = [call EXCEPT ![k] = rec],
         call[k] # Free \/ Quiet, rec = Free \/ UNCHANGED warm, WorkOK(rec)'
  PROVE  SerialInv'
<1>1. \A q \in Calls \ {k} : call[q] = Free
  BY DEF SerialInv, Quiet
<1>2. rec # Free => \A x \in Servers : warm'[x] = 0
  BY DEF SerialInv, Quiet
<1>3. /\ call'[k] = rec /\ \A q \in Calls \ {k} : call'[q] = Free
  BY <1>1 DEF Typed, PoolTypes
<1>4. CASE rec = Free
  <2>1. \A q \in Calls : call'[q] = Free
    BY <1>3, <1>4
  <2>2. WorkOK(Free)'
    BY <1>4 DEF WorkOK, Live, Held, Doing, Focused, Dooms, DoomsIdle, Dead
  <2> QED
    BY <2>1, <2>2 DEF SerialInv
<1>5. CASE rec # Free
  <2>1. WorkOK(call[k])'
    BY <1>3 DEF WorkOK, Live, Held, Doing, Focused, Dooms, DoomsIdle, Dead
  <2> QED
    BY <1>2, <1>3, <1>5, <2>1 DEF SerialInv
<1> QED
  BY <1>4, <1>5

(* The types a step of the proof below rests on.                           *)
LEMMA View ==
  ASSUME PoolInv
  PROVE  /\ table \in [Sessions -> Objects \cup {None}]
         /\ slot \in [Objects -> [Servers -> Clients \cup {None}]]
         /\ idle \in [Servers -> Clients \cup {None}]
         /\ proc \in [Clients -> Servers \cup {None}]
         /\ call \in [Calls -> CallRec]
         /\ \A s \in Sessions, x \in Servers : Has(s, x) \in Clients \cup {None}
         /\ None \notin Clients /\ None \notin Servers /\ None \notin Objects
<1>1. /\ table \in [Sessions -> Objects \cup {None}]
      /\ slot \in [Objects -> [Servers -> Clients \cup {None}]]
      /\ idle \in [Servers -> Clients \cup {None}]
      /\ proc \in [Clients -> Servers \cup {None}]
      /\ call \in [Calls -> CallRec]
  BY DEF PoolInv, Typed, PoolTypes
<1>2. ASSUME NEW s \in Sessions, NEW x \in Servers PROVE Has(s, x) \in Clients \cup {None}
  BY <1>1 DEF Has, Open
<1>3. None \notin Clients /\ None \notin Servers /\ None \notin Objects
  BY NoneIsNothing
<1> QED
  BY <1>1, <1>2, <1>3

LEMMA ViewNext ==
  ASSUME PoolInv'
  PROVE  /\ \A s \in Sessions, x \in Servers : Has(s, x)' \in Clients \cup {None}
         /\ \A x \in Servers : idle'[x] \in Clients \cup {None}
  BY DEF PoolInv, Typed, PoolTypes, Has, Open

(* Emptying a place of an open session's table.                            *)
LEMMA PlaceEmptied ==
  ASSUME PoolInv, NEW s \in Sessions, NEW x \in Servers, table[s] \in Objects,
         UNCHANGED table, slot' = [slot EXCEPT ![table[s]][x] = None]
  PROVE  \A t \in Sessions, y \in Servers :
           Has(t, y)' = IF t = s /\ y = x THEN None ELSE Has(t, y)
<1>1. \A o \in Objects, y \in Servers :
        slot'[o][y] = IF o = table[s] /\ y = x THEN None ELSE slot[o][y]
  BY View
<1>2. \A t \in Sessions : Open(t) => table[t] \in Objects /\ (table[t] = table[s] => t = s)
  BY View DEF Open, PoolInv, OwnTables
<1>3. Open(s)
  BY View DEF Open
<1> QED
  BY <1>1, <1>2, <1>3 DEF Has, Open

LEMMA NothingSeen ==
  ASSUME UNCHANGED <<table, slot>>
  PROVE  \A s \in Sessions, x \in Servers : Has(s, x)' = Has(s, x)
  BY DEF Has, Open

(* getSession's last part, after pruning or without it.                    *)
LEMMA ObtainSerial ==
  ASSUME PoolInv, SerialInv, NEW k \in Calls, NEW s \in Sessions, NEW x \in Servers, NEW r,
         call[k] # Free \/ Quiet, WorkOK(r), r.pc \in {"free", "ready"}, Has(s, x) = None,
         SingleActive => \A t \in Sessions, y \in Servers : Has(t, y) # None => y = x,
         Obtain(k, s, x), UNCHANGED proc
  PROVE  SerialInv'
<1> DEFINE rec == At("connecting", s, x, {}, {})
<1>1. \A t \in Sessions, y \in Servers : Has(t, y) # None => proc[Has(t, y)] = y
  BY DEF WorkOK, Live, Dooms
<1>2. \A y \in Servers : idle[y] # None => proc[idle[y]] = y
  BY DEF WorkOK, Live, DoomsIdle
<1>3. Held
  BY DEF WorkOK
<1>4. CASE /\ \A t \in Sessions, y \in Servers : Has(t, y)' = Has(t, y)
           /\ UNCHANGED <<idle, warm>> /\ call' = [call EXCEPT ![k] = rec] /\ Open(s)'
  <2>1. rec.pc = "connecting" /\ rec.sid = s /\ rec.srv = x
    BY DEF At
  <2> HIDE DEF rec
  <2>2. Live(rec)'
    BY <1>1, <1>2, <1>4 DEF Live
  <2>3. Held'
    BY <1>3, <1>4 DEF Held
  <2>4. Doing(rec)'
    BY <1>4, <2>1 DEF Doing
  <2>5. SingleActive => Focused(rec)'
    BY <1>4, <2>1 DEF Focused
  <2>6. WorkOK(rec)'
    BY <2>2, <2>3, <2>4, <2>5 DEF WorkOK
  <2>7. PICK made : made = rec
    OBVIOUS
  <2>8. WorkOK(made)'
    BY <2>6, <2>7 DEF WorkOK, Live, Held, Doing, Focused, Dooms, DoomsIdle, Dead
  <2> QED
    BY <1>4, <2>7, <2>8, Settle DEF PoolInv
<1>5. CASE /\ idle[x] # None /\ Promote(x) /\ call' = [call EXCEPT ![k] = Free]
           /\ \A t \in Sessions, y \in Servers :
                Has(t, y)' = IF t = s /\ y = x THEN idle[x] ELSE Has(t, y)
  <2>1. \A y \in Servers : idle'[y] = IF y = x THEN None ELSE idle[y]
    BY <1>5, View DEF Promote
  <2>2. Live(Free)'
    BY <1>1, <1>2, <1>5, <2>1 DEF Live
  <2>3. Held'
    BY <1>3, <1>5, <2>1 DEF Held
  <2>4. Doing(Free)'
    BY FreeTyped DEF Doing
  <2>5. SingleActive => Focused(Free)'
    BY <1>5, FreeTyped DEF Focused
  <2>6. WorkOK(Free)'
    BY <2>2, <2>3, <2>4, <2>5 DEF WorkOK
  <2> QED
    BY <1>5, <2>6, Settle DEF PoolInv
<1>6. Open(s)'
  <2>1. PICK o \in Objects : table' = [table EXCEPT ![s] = o]
    BY DEF Obtain
  <2> QED
    BY <2>1, View DEF Open
<1>7. call' = [call EXCEPT ![k] = rec] => UNCHANGED warm
  <2>1. rec.pc # Free.pc
    BY FreeTyped DEF At
  <2>2. [call EXCEPT ![k] = rec] # [call EXCEPT ![k] = Free]
    BY <2>1, View
  <2>3. UNCHANGED warm \/ call' = [call EXCEPT ![k] = Free]
    BY DEF Obtain
  <2> QED
    BY <2>2, <2>3
<1> HIDE DEF rec
<1>8. \A t \in Sessions \ {s}, y \in Servers : Has(t, y)' = Has(t, y)
  BY ObtainHas
<1>9. \/ /\ \A y \in Servers : Has(s, y)' = Has(s, y)
         /\ UNCHANGED idle /\ call' = [call EXCEPT ![k] = rec]
      \/ /\ idle[x] # None /\ Promote(x) /\ call' = [call EXCEPT ![k] = Free]
         /\ \A y \in Servers : Has(s, y)' = IF y = x THEN idle[x] ELSE Has(s, y)
  BY ObtainHas DEF rec
<1> QED
  BY <1>4, <1>5, <1>6, <1>7, <1>8, <1>9

(* Killing what sessions have for some servers harms nothing else.         *)
LEMMA SessionsKilled ==
  ASSUME PoolInv, NEW E \in SUBSET Entries, proc' = Killed(ClientsOf(E)),
         UNCHANGED <<table, slot, idle>>
  PROVE  /\ \A t \in Sessions, y \in Servers : Has(t, y) # None =>
              proc'[Has(t, y)] = IF \E e \in E : e.sid = t /\ e.srv = y THEN None
                                 ELSE proc[Has(t, y)]
         /\ \A y \in Servers : idle[y] # None => proc'[idle[y]] = proc[idle[y]]
         /\ Held => Held'
<1>1. \A c \in Clients : proc'[c] = IF c \in ClientsOf(E) THEN None ELSE proc[c]
  BY DEF Killed
<1>2. \A e \in E : /\ e.sid \in Sessions /\ e.srv \in Servers
                   /\ slot[e.obj][e.srv] = Has(e.sid, e.srv) /\ Has(e.sid, e.srv) # None
  <2>1. \A e \in E : e \in Entries /\ table[e.sid] = e.obj
    BY DEF Entries
  <2>2. \A e \in E : e.sid \in Sessions /\ e.srv \in Servers /\ Has(e.sid, e.srv) # None
    BY <2>1, EntriesAreHad DEF PoolInv
  <2> QED
    BY <2>1, <2>2 DEF Has
<1>3. \A c : c \in ClientsOf(E) <=> \E e \in E : c = Has(e.sid, e.srv)
  BY <1>2 DEF ClientsOf
<1>4. \A t \in Sessions, y \in Servers : Has(t, y) # None =>
        (Has(t, y) \in ClientsOf(E) <=> \E e \in E : e.sid = t /\ e.srv = y)
  BY <1>2, <1>3 DEF PoolInv, Apart
<1>5. \A y \in Servers : idle[y] # None => idle[y] \notin ClientsOf(E)
  BY <1>2, <1>3 DEF PoolInv, Apart
<1>6. Held => Held'
  BY <1>1, NothingSeen DEF Held
<1> QED
  BY <1>1, <1>4, <1>5, <1>6, View

(* Killing idle connections.                                               *)
LEMMA IdlesKilled ==
  ASSUME PoolInv, NEW Y \in SUBSET Servers, \A y \in Y : idle[y] # None,
         proc' = Killed({idle[y] : y \in Y}), UNCHANGED <<table, slot, idle>>
  PROVE  /\ \A t \in Sessions, y \in Servers : Has(t, y) # None => proc'[Has(t, y)] = proc[Has(t, y)]
         /\ \A y \in Servers : idle[y] # None =>
              proc'[idle[y]] = IF y \in Y THEN None ELSE proc[idle[y]]
         /\ Held => Held'
<1> DEFINE C == {idle[y] : y \in Y}
<1>1. \A c \in Clients : proc'[c] = IF c \in C THEN None ELSE proc[c]
  BY DEF Killed
<1>2. \A y \in Servers : idle[y] # None => (idle[y] \in C <=> y \in Y)
  BY DEF PoolInv, Apart
<1>3. \A t \in Sessions, y \in Servers : Has(t, y) # None => Has(t, y) \notin C
  BY DEF PoolInv, Apart
<1> HIDE DEF C
<1>4. Held => Held'
  BY <1>1, NothingSeen DEF Held
<1> QED
  BY <1>1, <1>2, <1>3, <1>4, View

(* When nothing is in flight, everything a session or the pool has lives.  *)
LEMMA WhenQuiet ==
  ASSUME SerialInv, Quiet
  PROVE  /\ WorkOK(Free) /\ Held
         /\ \A s \in Sessions, x \in Servers : Has(s, x) # None => proc[Has(s, x)] = x
         /\ \A x \in Servers : idle[x] # None => proc[idle[x]] = x
         /\ SingleActive => \A s, t \in Sessions, x, y \in Servers :
                              Has(s, x) # None /\ Has(t, y) # None => x = y
<1>1. WorkOK(Free)
  BY DEF SerialInv, Quiet
<1> QED
  BY <1>1, FreeTyped DEF WorkOK, Live, Focused, Dooms, DoomsIdle

LEMMA GetSessionSerial ==
  ASSUME PoolInv, SerialInv, ~Overlap, NEW k \in Calls, NEW s \in Sessions, NEW x \in Servers,
         GetSession(k, s, x)
  PROVE  SerialInv'
<1>1. Quiet /\ call[k] = Free
  BY DEF GetSession, MayBegin
<1>2. Has(s, x) = None
  BY DEF GetSession, Has
<1>3. CASE ~SingleActive
  <2>1. Obtain(k, s, x) /\ UNCHANGED proc
    BY <1>3 DEF GetSession
  <2> QED
    BY <1>1, <1>2, <1>3, <2>1, WhenQuiet, ObtainSerial, FreeTyped
<1>4. CASE SingleActive /\ Others(s, x) # {}
  <2> DEFINE E == Others(s, x)
  <2>1. PICK rec : rec = At("pruning", s, x, E, {})
    OBVIOUS
  <2>2. /\ proc' = Killed(ClientsOf(E)) /\ call' = [call EXCEPT ![k] = rec]
        /\ UNCHANGED <<table, slot, idle, warm>>
    BY <1>4, <2>1 DEF GetSession
  <2>3. rec.pc = "pruning" /\ rec.sid = s /\ rec.srv = x /\ rec.entries = E
    BY <2>1 DEF At
  <2>4. /\ E \in SUBSET Entries
        /\ \A e \in E : /\ e.sid \in Sessions /\ e.srv \in Servers /\ table[e.sid] = e.obj
                        /\ Has(e.sid, e.srv) # None
        /\ \A t \in Sessions, y \in Servers \ {x} : Has(t, y) # None =>
             \E e \in E : e.sid = t /\ e.srv = y
    BY EntriesAreHad DEF Others, Entries, PoolInv
  <2>5. \A e \in E : e.srv # x
    BY DEF Others
  <2> HIDE DEF E
  <2>6. Live(rec)' /\ Held'
    BY <1>1, <2>2, <2>3, <2>4, SessionsKilled, NothingSeen, WhenQuiet DEF Live, Dooms
  <2>7. Doing(rec)'
    BY <1>2, <2>2, <2>3, <2>4, SessionsKilled, NothingSeen DEF Doing, Dead
  <2>8. SingleActive => Focused(rec)'
    BY <1>1, <2>2, <2>3, <2>4, NothingSeen, WhenQuiet DEF Focused
  <2> QED
    BY <1>1, <2>2, <2>6, <2>7, <2>8, Settle DEF WorkOK, PoolInv
<1>5. CASE SingleActive /\ Others(s, x) = {}
  <2> DEFINE Y == IdleOthers(x)
  <2>1. PICK rec : rec = At(IF Y = {} THEN "ready" ELSE "pruningIdle", s, x, {}, Y)
    OBVIOUS
  <2>2. /\ proc' = Killed({idle[y] : y \in Y}) /\ call' = [call EXCEPT ![k] = rec]
        /\ UNCHANGED <<table, slot, idle, warm>>
    BY <1>5, <2>1 DEF GetSession
  <2>3. /\ rec.pc \in {"ready", "pruningIdle"} /\ rec.sid = s /\ rec.srv = x /\ rec.idles = Y
        /\ Y # {} => rec.pc = "pruningIdle"
    BY <2>1 DEF At
  <2>4. Y \in SUBSET Servers /\ \A y \in Y : idle[y] # None
    BY DEF IdleOthers
  <2>5. \A t \in Sessions, y \in Servers : Has(t, y) # None => y = x
    BY <1>5, EntriesAreHad DEF Others, PoolInv
  <2> HIDE DEF Y
  <2>6. Live(rec)' /\ Held'
    <3>1. ASSUME NEW t \in Sessions, NEW y \in Servers, Has(t, y)' # None
          PROVE  proc'[Has(t, y)'] = y
      <4>1. Has(t, y)' = Has(t, y)
        BY <2>2, NothingSeen
      <4>2. proc'[Has(t, y)] = proc[Has(t, y)]
        BY <2>2, <2>4, <3>1, <4>1, IdlesKilled
      <4> QED
        BY <1>1, <3>1, <4>1, <4>2, WhenQuiet
    <3>2. ASSUME NEW y \in Servers, idle'[y] # None
          PROVE  proc'[idle'[y]] = y \/ DoomsIdle(rec, y)
      <4>1. CASE y \in Y
        BY <2>3, <4>1 DEF DoomsIdle
      <4>2. CASE y \notin Y
        BY <1>1, <2>2, <2>4, <3>2, <4>2, IdlesKilled, WhenQuiet
      <4> QED
        BY <4>1, <4>2
    <3>3. Held'
      BY <1>1, <2>2, <2>4, IdlesKilled, WhenQuiet
    <3> QED
      BY <3>1, <3>2, <3>3 DEF Live
  <2>7. Doing(rec)'
    <3>1. \A y \in Y : idle'[y] # None => proc'[idle'[y]] = None
      BY <2>2, <2>4, IdlesKilled
    <3>2. Has(s, x)' = None
      BY <1>2, <2>2, NothingSeen
    <3> QED
      BY <2>3, <3>1, <3>2 DEF Doing, Dead
  <2>8. SingleActive => Focused(rec)'
    BY <1>1, <2>2, <2>3, <2>5, NothingSeen, WhenQuiet DEF Focused
  <2> QED
    BY <1>1, <2>2, <2>6, <2>7, <2>8, Settle DEF WorkOK, PoolInv
<1> QED
  BY <1>3, <1>4, <1>5

LEMMA InFlight ==
  ASSUME PoolInv, SerialInv, NEW k \in Calls, call[k].pc # "free"
  PROVE  /\ call[k] # Free /\ call[k] \in CallRec /\ CallOK(k)
         /\ WorkOK(call[k]) /\ Live(call[k]) /\ Held /\ Doing(call[k])
         /\ SingleActive => Focused(call[k])
         /\ \A x \in Servers : warm[x] = 0
<1>1. call[k] # Free /\ call[k] \in CallRec /\ CallOK(k)
  BY FreeTyped DEF PoolInv, Typed, PoolTypes
<1> QED
  BY <1>1 DEF SerialInv, WorkOK

LEMMA PruneEntrySerial ==
  ASSUME PoolInv, SerialInv, NEW k \in Calls, NEW e \in call[k].entries, PruneEntry(k, e)
  PROVE  SerialInv'
<1> DEFINE r == call[k]
<1>1. /\ r.pc = "pruning" /\ UNCHANGED <<table, idle, proc, warm>>
      /\ slot' = [slot EXCEPT ![e.obj][e.srv] = None]
      /\ call' = [call EXCEPT ![k] = [r EXCEPT !.entries = @ \ {e}]]
  BY View DEF PruneEntry
<1>2. /\ r # Free /\ r \in CallRec /\ Live(r) /\ Held /\ Doing(r)
      /\ SingleActive => Focused(r)
  BY <1>1, InFlight
<1>3. PICK rec : rec = [r EXCEPT !.entries = @ \ {e}]
  OBVIOUS
<1>4. /\ rec.pc = "pruning" /\ rec.sid = r.sid /\ rec.srv = r.srv /\ rec.entries = r.entries \ {e}
      /\ e \in Entry /\ \A f \in r.entries : f \in Entry
  BY <1>1, <1>2, <1>3 DEF CallRec
<1>5. /\ e.obj = table[e.sid] /\ Dead(Has(e.sid, e.srv)) /\ e.sid \in Sessions /\ e.srv \in Servers
      /\ e.obj \in Objects
  BY <1>1, <1>2, <1>4 DEF Doing, Entry
<1>6. \A t \in Sessions, y \in Servers :
        Has(t, y)' = IF t = e.sid /\ y = e.srv THEN None ELSE Has(t, y)
  BY <1>1, <1>5, PlaceEmptied
<1>7. \A f \in r.entries : f.sid \in Sessions /\ f.srv \in Servers
  BY <1>4 DEF Entry
<1>8. r.sid \in Sessions /\ r.srv \in Servers
  BY <1>1, InFlight DEF CallOK
<1> HIDE DEF r
<1>9. Live(rec)'
  <2>1. ASSUME NEW t \in Sessions, NEW y \in Servers, Has(t, y)' # None
        PROVE  proc'[Has(t, y)'] = y \/ Dooms(rec, t, y)
    <3>1. Has(t, y)' = Has(t, y) /\ ~(t = e.sid /\ y = e.srv)
      BY <1>6, <2>1
    <3> QED
      BY <1>1, <1>2, <1>4, <2>1, <3>1 DEF Live, Dooms
  <2>2. ASSUME NEW y \in Servers, idle'[y] # None
        PROVE  proc'[idle'[y]] = y \/ DoomsIdle(rec, y)
    BY <1>1, <1>2, <2>2 DEF Live, DoomsIdle, r
  <2> QED
    BY <2>1, <2>2 DEF Live, Dooms
<1>10. Held'
  <2>1. \A c \in Clients : proc[c] # None => c # Has(e.sid, e.srv)
    BY <1>5, View DEF Dead
  <2> QED
    BY <1>1, <1>2, <1>6, <2>1 DEF Held
<1>11. Doing(rec)'
  <2>1. \A f \in rec.entries : f.obj = table'[f.sid] /\ Dead(Has(f.sid, f.srv))'
    BY <1>1, <1>2, <1>4, <1>6, <1>7 DEF Doing, Dead
  <2>2. Has(rec.sid, rec.srv)' = None
    BY <1>1, <1>2, <1>4, <1>6, <1>8 DEF Doing
  <2> QED
    BY <1>4, <2>1, <2>2 DEF Doing
<1>12. SingleActive => Focused(rec)'
  <2> SUFFICES ASSUME SingleActive PROVE Focused(rec)'
    OBVIOUS
  <2>1. \A s, t \in Sessions, x, y \in Servers : Has(s, x)' # None /\ Has(t, y)' # None => x = y
    BY <1>2, <1>6 DEF Focused
  <2>2. ASSUME NEW s \in Sessions, NEW x \in Servers, Has(s, x)' # None
        PROVE  x = rec.srv \/ \E f \in rec.entries : f.sid = s /\ f.srv = x
    <3>1. Has(s, x) # None /\ ~(s = e.sid /\ x = e.srv)
      BY <1>6, <2>2
    <3> QED
      BY <1>1, <1>2, <1>4, <3>1 DEF Focused
  <2> QED
    BY <1>4, <2>1, <2>2 DEF Focused
<1> QED
  BY <1>1, <1>2, <1>3, <1>9, <1>10, <1>11, <1>12, Settle DEF WorkOK, PoolInv, r

LEMMA ActivePrunedSerial ==
  ASSUME PoolInv, SerialInv, NEW k \in Calls, ActivePruned(k)
  PROVE  SerialInv'
<1> DEFINE r == call[k]
           Y == IdleOthers(r.srv)
<1>1. /\ r.pc = "pruning" /\ r.entries = {} /\ UNCHANGED <<table, slot, idle, warm>>
      /\ proc' = Killed({idle[y] : y \in Y})
      /\ call' = [call EXCEPT ![k] = At("pruningIdle", r.sid, r.srv, {}, Y)]
  BY DEF ActivePruned
<1>2. /\ r # Free /\ Live(r) /\ Held /\ Doing(r) /\ (SingleActive => Focused(r))
      /\ r.sid \in Sessions /\ r.srv \in Servers
  BY <1>1, InFlight DEF CallOK
<1>3. PICK rec : rec = At("pruningIdle", r.sid, r.srv, {}, Y)
  OBVIOUS
<1>4. rec.pc = "pruningIdle" /\ rec.sid = r.sid /\ rec.srv = r.srv /\ rec.idles = Y
  BY <1>3 DEF At
<1>5. Y \in SUBSET Servers /\ \A y \in Y : idle[y] # None
  BY DEF IdleOthers
<1> HIDE DEF r, Y
<1>6. \A s \in Sessions, x \in Servers : Has(s, x)' = Has(s, x)
  BY <1>1, NothingSeen
<1>7. /\ \A s \in Sessions, x \in Servers : Has(s, x) # None => proc'[Has(s, x)] = proc[Has(s, x)]
      /\ \A y \in Servers : idle[y] # None => proc'[idle[y]] = IF y \in Y THEN None ELSE proc[idle[y]]
      /\ Held'
  BY <1>1, <1>2, <1>5, IdlesKilled
<1>8. Live(rec)'
  BY <1>1, <1>2, <1>4, <1>6, <1>7 DEF Live, Dooms, DoomsIdle
<1>9. Doing(rec)'
  BY <1>1, <1>2, <1>4, <1>5, <1>6, <1>7 DEF Doing, Dead
<1>10. SingleActive => Focused(rec)'
  BY <1>1, <1>2, <1>4, <1>6 DEF Focused
<1> QED
  BY <1>1, <1>2, <1>3, <1>7, <1>8, <1>9, <1>10, Settle DEF WorkOK, PoolInv, r

LEMMA PruneIdleSerial ==
  ASSUME PoolInv, SerialInv, NEW k \in Calls, NEW y \in call[k].idles, PruneIdle(k, y)
  PROVE  SerialInv'
<1> DEFINE r == call[k]
<1>1. /\ r.pc = "pruningIdle" /\ UNCHANGED <<table, slot, proc, warm>>
      /\ idle' = [idle EXCEPT ![y] = None]
      /\ call' = [call EXCEPT ![k] = [r EXCEPT !.idles = @ \ {y}]]
  BY View DEF PruneIdle
<1>2. /\ r # Free /\ r \in CallRec /\ Live(r) /\ Held /\ Doing(r) /\ (SingleActive => Focused(r))
      /\ r.sid \in Sessions /\ r.srv \in Servers
  BY <1>1, InFlight DEF CallOK
<1>3. PICK rec : rec = [r EXCEPT !.idles = @ \ {y}]
  OBVIOUS
<1>4. /\ rec.pc = "pruningIdle" /\ rec.sid = r.sid /\ rec.srv = r.srv /\ rec.idles = r.idles \ {y}
      /\ y \in Servers /\ r.idles \subseteq Servers
  BY <1>1, <1>2, <1>3 DEF CallRec
<1> HIDE DEF r
<1>5. \A s \in Sessions, x \in Servers : Has(s, x)' = Has(s, x)
  BY <1>1, NothingSeen
<1>6. \A x \in Servers : idle'[x] = IF x = y THEN None ELSE idle[x]
  BY <1>1, <1>4, View
<1>7. Live(rec)'
  BY <1>1, <1>2, <1>4, <1>5, <1>6 DEF Live, Dooms, DoomsIdle
<1>8. Held'
  <2>1. Dead(idle[y])
    BY <1>1, <1>2 DEF Doing, r
  <2>2. \A c \in Clients : proc[c] # None => c # idle[y]
    BY <2>1, View DEF Dead
  <2> QED
    BY <1>1, <1>2, <1>5, <1>6, <2>2 DEF Held
<1>9. Doing(rec)'
  BY <1>1, <1>2, <1>4, <1>5, <1>6 DEF Doing, Dead
<1>10. SingleActive => Focused(rec)'
  BY <1>1, <1>2, <1>4, <1>5 DEF Focused
<1> QED
  BY <1>1, <1>2, <1>3, <1>7, <1>8, <1>9, <1>10, Settle DEF WorkOK, PoolInv, r

LEMMA IdlePrunedSerial ==
  ASSUME PoolInv, SerialInv, NEW k \in Calls, IdlePruned(k)
  PROVE  SerialInv'
<1> DEFINE r == call[k]
<1>1. /\ r.pc = "pruningIdle" /\ r.idles = {} /\ UNCHANGED <<table, slot, idle, proc, warm>>
      /\ call' = [call EXCEPT ![k] = At("ready", r.sid, r.srv, {}, {})]
  BY DEF IdlePruned
<1>2. /\ r # Free /\ Live(r) /\ Held /\ Doing(r) /\ (SingleActive => Focused(r))
      /\ r.sid \in Sessions /\ r.srv \in Servers
  BY <1>1, InFlight DEF CallOK
<1>3. PICK rec : rec = At("ready", r.sid, r.srv, {}, {})
  OBVIOUS
<1>4. rec.pc = "ready" /\ rec.sid = r.sid /\ rec.srv = r.srv
  BY <1>3 DEF At
<1> HIDE DEF r
<1>5. \A s \in Sessions, x \in Servers : Has(s, x)' = Has(s, x)
  BY <1>1, NothingSeen
<1>6. Live(rec)'
  BY <1>1, <1>2, <1>4, <1>5 DEF Live, Dooms, DoomsIdle
<1>7. Held'
  BY <1>1, <1>2, <1>5 DEF Held
<1>8. Doing(rec)'
  BY <1>1, <1>2, <1>4, <1>5 DEF Doing
<1>9. SingleActive => Focused(rec)'
  BY <1>1, <1>2, <1>4, <1>5 DEF Focused
<1> QED
  BY <1>1, <1>2, <1>3, <1>6, <1>7, <1>8, <1>9, Settle DEF WorkOK, PoolInv, r

LEMMA ProceedSerial ==
  ASSUME PoolInv, SerialInv, NEW k \in Calls, Proceed(k)
  PROVE  SerialInv'
<1>1. call[k].pc = "ready" /\ Obtain(k, call[k].sid, call[k].srv) /\ UNCHANGED proc
  BY DEF Proceed
<1>2. /\ call[k] # Free /\ WorkOK(call[k]) /\ Doing(call[k]) /\ (SingleActive => Focused(call[k]))
      /\ call[k].sid \in Sessions /\ call[k].srv \in Servers
  BY <1>1, InFlight DEF CallOK
<1>3. /\ Has(call[k].sid, call[k].srv) = None
      /\ SingleActive => \A t \in Sessions, y \in Servers : Has(t, y) # None => y = call[k].srv
  BY <1>1, <1>2 DEF Doing, Focused
<1> QED
  BY <1>1, <1>2, <1>3, ObtainSerial

(* The session is still open and has no connection to the server: the one  *)
(* just made is recorded.                                                  *)
LEMMA ConnectedSerial ==
  ASSUME PoolInv, SerialInv, NEW k \in Calls, Connected(k)
  PROVE  SerialInv'
<1> DEFINE s == call[k].sid
           x == call[k].srv
<1>1. call[k].pc = "connecting"
  BY DEF Connected
<1>2. /\ call[k] # Free /\ Live(call[k]) /\ Held /\ Open(s) /\ Has(s, x) = None
      /\ SingleActive => Focused(call[k])
  BY <1>1, InFlight DEF Doing
<1>3. s \in Sessions /\ x \in Servers
  BY <1>1, InFlight DEF CallOK
<1>4. PICK c \in Clients :
        /\ Fresh(c) /\ UNCHANGED <<table, idle>> /\ proc' = [proc EXCEPT ![c] = x]
        /\ slot' = [slot EXCEPT ![table[s]][x] = c] /\ call' = [call EXCEPT ![k] = Free]
  BY <1>2 DEF Connected
<1>5. \A t \in Sessions, y \in Servers : Has(t, y) # None => proc[Has(t, y)] = y
  BY <1>1, <1>2 DEF Live, Dooms
<1>6. \A y \in Servers : idle[y] # None => proc[idle[y]] = y
  BY <1>1, <1>2 DEF Live, DoomsIdle
<1>7. SingleActive => \A t \in Sessions, y \in Servers : Has(t, y) # None => y = x
  BY <1>1, <1>2 DEF Focused
<1> HIDE DEF s, x
<1>8. \A t \in Sessions, y \in Servers : Has(t, y)' = IF t = s /\ y = x THEN c ELSE Has(t, y)
  <2>1. table[s] \in Objects
    BY <1>2, <1>3, View DEF Open
  <2>2. \A o \in Objects, y \in Servers :
          slot'[o][y] = IF o = table[s] /\ y = x THEN c ELSE slot[o][y]
    BY <1>3, <1>4, <2>1, View
  <2>3. \A t \in Sessions : Open(t) => table[t] \in Objects /\ (table[t] = table[s] => t = s)
    BY <1>3, View DEF Open, PoolInv, OwnTables
  <2> QED
    BY <1>2, <1>4, <2>1, <2>2, <2>3 DEF Has, Open
<1>9. /\ c # None /\ (\A y \in Servers : idle[y] # c)
      /\ \A t \in Sessions, y \in Servers : Has(t, y) # c
  BY <1>4, FreshIsNobodys
<1>10. \A d \in Clients : proc'[d] = IF d = c THEN x ELSE proc[d]
  BY <1>4, View
<1>11. Live(Free)'
  <2>1. ASSUME NEW t \in Sessions, NEW y \in Servers, Has(t, y)' # None
        PROVE  proc'[Has(t, y)'] = y
    <3>1. CASE t = s /\ y = x
      BY <1>8, <1>10, <3>1
    <3>2. CASE ~(t = s /\ y = x)
      <4>1. Has(t, y)' = Has(t, y) /\ Has(t, y) \in Clients \ {c}
        BY <1>8, <1>9, <2>1, <3>2, View
      <4> QED
        BY <1>5, <1>10, <2>1, <4>1
    <3> QED
      BY <3>1, <3>2
  <2>2. \A y \in Servers : idle'[y] # None => proc'[idle'[y]] = y
    <3>1. \A y \in Servers : idle[y] # None => idle[y] \in Clients \ {c}
      BY <1>9, View
    <3> QED
      BY <1>4, <1>6, <1>10, <3>1
  <2> QED
    BY <2>1, <2>2 DEF Live
<1>12. Held'
  <2>1. ASSUME NEW d \in Clients, proc'[d] # None
        PROVE  \/ \E t \in Sessions, y \in Servers : Has(t, y)' = d
               \/ \E y \in Servers : idle'[y] = d
    <3>1. CASE d = c
      BY <1>3, <1>8, <3>1
    <3>2. CASE d # c
      <4>1. proc[d] # None /\ d # None
        BY <1>10, <2>1, <3>2, View
      <4> QED
        BY <1>2, <1>4, <1>8, <4>1 DEF Held
    <3> QED
      BY <3>1, <3>2
  <2> QED
    BY <2>1 DEF Held
<1>13. Doing(Free)' /\ (SingleActive => Focused(Free)')
  BY <1>3, <1>7, <1>8, FreeTyped DEF Doing, Focused
<1> QED
  BY <1>2, <1>4, <1>11, <1>12, <1>13, Settle DEF WorkOK, PoolInv

LEMMA ConnectFailsSerial ==
  ASSUME PoolInv, SerialInv, NEW k \in Calls, ConnectFails(k)
  PROVE  SerialInv'
<1>1. /\ call[k].pc \in {"connecting", "reconnecting"} /\ UNCHANGED <<table, slot, idle, proc>>
      /\ call' = [call EXCEPT ![k] = Free]
  BY DEF ConnectFails
<1>2. call[k] # Free /\ Live(call[k]) /\ Held /\ (SingleActive => Focused(call[k]))
  BY <1>1, InFlight
<1>3. \A s \in Sessions, x \in Servers : Has(s, x)' = Has(s, x)
  BY <1>1, NothingSeen
<1>4. Live(Free)' /\ Held' /\ Doing(Free)' /\ (SingleActive => Focused(Free)')
  BY <1>1, <1>2, <1>3, FreeTyped DEF Live, Dooms, DoomsIdle, Held, Doing, Focused
<1> QED
  BY <1>1, <1>2, <1>4, Settle DEF WorkOK, PoolInv

LEMMA CleanupSessionSerial ==
  ASSUME PoolInv, SerialInv, ~Overlap, NEW k \in Calls, NEW s \in Sessions, CleanupSession(k, s)
  PROVE  SerialInv'
<1> DEFINE E == {e \in Entries : e.sid = s}
<1>1. /\ Quiet /\ call[k] = Free /\ proc' = Killed(ClientsOf(E))
      /\ UNCHANGED <<table, slot, idle, warm>>
      /\ call' = [call EXCEPT ![k] = At("closing", s, None, {}, {})]
  BY DEF CleanupSession, MayBegin
<1>2. PICK rec : rec = At("closing", s, None, {}, {})
  OBVIOUS
<1>3. rec.pc = "closing" /\ rec.sid = s
  BY <1>2 DEF At
<1>4. /\ E \in SUBSET Entries /\ \A e \in E : e.sid = s
      /\ \A x \in Servers : Has(s, x) # None => \E e \in E : e.sid = s /\ e.srv = x
  BY EntriesAreHad DEF PoolInv
<1> HIDE DEF E
<1>5. \A t \in Sessions, x \in Servers : Has(t, x)' = Has(t, x)
  BY <1>1, NothingSeen
<1>6. /\ \A t \in Sessions, x \in Servers : Has(t, x) # None =>
           proc'[Has(t, x)] = IF t = s THEN None ELSE proc[Has(t, x)]
      /\ \A x \in Servers : idle[x] # None => proc'[idle[x]] = proc[idle[x]]
      /\ Held'
  BY <1>1, <1>4, SessionsKilled, WhenQuiet
<1>7. Live(rec)'
  BY <1>1, <1>3, <1>5, <1>6, WhenQuiet DEF Live, Dooms
<1>8. Doing(rec)' /\ (SingleActive => Focused(rec)')
  BY <1>1, <1>3, <1>5, <1>6, WhenQuiet DEF Doing, Dead, Focused
<1> QED
  BY <1>1, <1>2, <1>6, <1>7, <1>8, Settle DEF WorkOK, PoolInv

LEMMA SessionCleanedSerial ==
  ASSUME PoolInv, SerialInv, NEW k \in Calls, SessionCleaned(k)
  PROVE  SerialInv'
<1> DEFINE s == call[k].sid
<1>1. /\ call[k].pc = "closing" /\ table' = [table EXCEPT ![s] = None]
      /\ UNCHANGED <<slot, idle, proc>> /\ call' = [call EXCEPT ![k] = Free]
  BY DEF SessionCleaned
<1>2. /\ call[k] # Free /\ Live(call[k]) /\ Held /\ Doing(call[k])
      /\ SingleActive => Focused(call[k])
  BY <1>1, InFlight
<1>3. s \in Sessions /\ \A x \in Servers : Dead(Has(s, x))
  BY <1>1, <1>2, InFlight DEF CallOK, Doing
<1>4. \A t \in Sessions, x \in Servers : Has(t, x)' = IF t = s THEN None ELSE Has(t, x)
  BY <1>1, <1>3, View DEF Has, Open
<1>5. Live(Free)'
  BY <1>1, <1>2, <1>4 DEF Live, Dooms, DoomsIdle
<1>6. Held'
  <2>1. \A c \in Clients, x \in Servers : proc[c] # None => c # Has(s, x)
    BY <1>3, View DEF Dead
  <2> QED
    BY <1>1, <1>2, <1>4, <2>1 DEF Held
<1>7. Doing(Free)' /\ (SingleActive => Focused(Free)')
  BY <1>2, <1>4, FreeTyped DEF Doing, Focused
<1> QED
  BY <1>1, <1>2, <1>5, <1>6, <1>7, Settle DEF WorkOK, PoolInv

LEMMA CrashesSerial ==
  ASSUME PoolInv, SerialInv, ~Overlap, NEW k \in Calls, NEW x \in Servers, Crashes(k, x)
  PROVE  SerialInv'
<1>1. /\ Quiet /\ call[k] = Free /\ UNCHANGED <<table, slot, idle, warm>>
      /\ call' = [call EXCEPT ![k] = At("recording", None, x, {}, {})]
  BY DEF Crashes, MayBegin
<1>2. PICK rec : rec = At("recording", None, x, {}, {})
  OBVIOUS
<1>3. rec.pc = "recording" /\ rec.srv = x
  BY <1>2 DEF At
<1>4. \A c \in Clients : proc'[c] = proc[c] \/ (proc[c] = x /\ proc'[c] = None)
  BY View DEF Crashes
<1>5. \A t \in Sessions, y \in Servers : Has(t, y)' = Has(t, y)
  BY <1>1, NothingSeen
<1>6. Live(rec)'
  BY <1>1, <1>3, <1>4, <1>5, WhenQuiet, View DEF Live, Dooms, DoomsIdle
<1>7. Held'
  BY <1>1, <1>4, <1>5, WhenQuiet, View DEF Held
<1>8. Doing(rec)' /\ (SingleActive => Focused(rec)')
  BY <1>1, <1>3, <1>5, WhenQuiet DEF Doing, Focused
<1> QED
  BY <1>1, <1>2, <1>6, <1>7, <1>8, Settle DEF WorkOK, PoolInv

(* cleanupServerSessions, on what is left to look at: when it finds nothing*)
(* more, no session has a connection to the crashed server.                *)
LEMMA ScanSerial ==
  ASSUME PoolInv, SerialInv, PoolInv', NEW k \in Calls, call[k] # Free, NEW x \in Servers,
         x = call[k].srv, NEW left \in SUBSET Entry, Scan(k, left), UNCHANGED <<table, warm>>,
         \A t \in Sessions, y \in Servers : Has(t, y)' # None =>
           proc[Has(t, y)'] = y \/ (y = x /\ \E e \in left : e.sid = t),
         \A y \in Servers : idle'[y] # None => proc[idle'[y]] = y,
         idle'[x] = None,
         \A c \in Clients : proc[c] # None =>
           \/ \E s \in Sessions, y \in Servers : Has(s, y)' = c
           \/ \E y \in Servers : idle'[y] = c,
         \A e \in left : e.srv = x /\ e.obj = table[e.sid],
         SingleActive => \A s, t \in Sessions, y, z \in Servers :
                           Has(s, y)' # None /\ Has(t, z)' # None => y = z
  PROVE  SerialInv'
<1>0. \/ /\ {e \in left : slot'[e.obj][call[k].srv] # None} = {}
         /\ call' = [call EXCEPT ![k] = Free] /\ UNCHANGED proc
      \/ \E e \in left, passed \in SUBSET left :
           /\ e \in {f \in left : slot'[f.obj][call[k].srv] # None}
           /\ passed \in SUBSET (left \ {f \in left : slot'[f.obj][call[k].srv] # None})
           /\ proc' = Killed({slot'[e.obj][call[k].srv]})
           /\ call' = [call EXCEPT ![k] =
                [At("crashEntry", e.sid, call[k].srv, left \ (passed \cup {e}), {}) EXCEPT !.obj = e.obj]]
  BY DEF Scan
<1>1. \A e \in left : e.sid \in Sessions /\ e.obj \in Objects /\ e.srv = x
  BY DEF Entry
<1>2. \A e \in left : Has(e.sid, x)' = slot'[e.obj][x]
  <2>1. \A e \in left : table'[e.sid] = e.obj /\ e.obj # None
    BY <1>1, View
  <2> QED
    BY <2>1 DEF Has, Open
<1>3. \A t \in Sessions, y \in Servers : Has(t, y)' \in Clients \cup {None}
  BY ViewNext
<1>4. \A y \in Servers : idle'[y] \in Clients \cup {None}
  BY ViewNext
<1>5. CASE /\ {e \in left : slot'[e.obj][call[k].srv] # None} = {}
           /\ call' = [call EXCEPT ![k] = Free] /\ UNCHANGED proc
  <2>0. \A e \in left : slot'[e.obj][x] = None
    BY <1>5
  <2>1. \A e \in left : Has(e.sid, x)' = None
    BY <1>2, <2>0
  <2>2. Live(Free)'
    BY <1>5, <2>1 DEF Live
  <2>3. Held'
    BY <1>5 DEF Held
  <2>4. Doing(Free)' /\ (SingleActive => Focused(Free)')
    BY FreeTyped DEF Doing, Focused
  <2> QED
    BY <1>5, <2>2, <2>3, <2>4, Settle DEF WorkOK, PoolInv
<1>6. CASE \E e \in left, passed \in SUBSET left :
             /\ e \in {f \in left : slot'[f.obj][call[k].srv] # None}
             /\ passed \in SUBSET (left \ {f \in left : slot'[f.obj][call[k].srv] # None})
             /\ proc' = Killed({slot'[e.obj][call[k].srv]})
             /\ call' = [call EXCEPT ![k] =
                  [At("crashEntry", e.sid, call[k].srv, left \ (passed \cup {e}), {}) EXCEPT !.obj = e.obj]]
  <2>0. PICK e \in left, passed \in SUBSET left :
             /\ e \in {f \in left : slot'[f.obj][call[k].srv] # None}
             /\ passed \in SUBSET (left \ {f \in left : slot'[f.obj][call[k].srv] # None})
             /\ proc' = Killed({slot'[e.obj][call[k].srv]})
             /\ call' = [call EXCEPT ![k] =
                  [At("crashEntry", e.sid, call[k].srv, left \ (passed \cup {e}), {}) EXCEPT !.obj = e.obj]]
    BY <1>6
  <2>1. /\ slot'[e.obj][x] # None /\ \A f \in passed : slot'[f.obj][x] = None
        /\ proc' = Killed({slot'[e.obj][x]})
        /\ call' = [call EXCEPT ![k] =
             [At("crashEntry", e.sid, x, left \ (passed \cup {e}), {}) EXCEPT !.obj = e.obj]]
    BY <2>0
  <2> DEFINE at == At("crashEntry", e.sid, x, left \ (passed \cup {e}), {})
  <2>2. PICK rec : rec = [at EXCEPT !.obj = e.obj]
    OBVIOUS
  <2>3. /\ at \in CallRec /\ at.pc = "crashEntry" /\ at.sid = e.sid /\ at.srv = x
        /\ at.entries = left \ (passed \cup {e})
    BY <1>1, AtTyped DEF Pcs
  <2> HIDE DEF at
  <2>4. /\ rec.pc = "crashEntry" /\ rec.sid = e.sid /\ rec.srv = x /\ rec.obj = e.obj
        /\ rec.entries = left \ (passed \cup {e})
    BY <2>2, <2>3 DEF CallRec
  <2>5. /\ e \in left /\ e.sid \in Sessions /\ Has(e.sid, x)' = slot'[e.obj][x]
        /\ Has(e.sid, x)' # None /\ Has(e.sid, x)' \in Clients
    BY <1>1, <1>2, <1>3, <2>1
  <2>6. \A c \in Clients : proc'[c] = IF c = Has(e.sid, x)' THEN None ELSE proc[c]
    BY <2>1, <2>5 DEF Killed
  <2>7. ASSUME NEW t \in Sessions, NEW y \in Servers, Has(t, y)' # None
        PROVE  proc'[Has(t, y)'] = y \/ Dooms(rec, t, y)
    <3>1. CASE proc[Has(t, y)'] = y
      <4>1. CASE Has(t, y)' = Has(e.sid, x)'
        <5>1. t = e.sid /\ y = x
          BY <2>5, <4>1 DEF PoolInv, Apart
        <5> QED
          BY <2>4, <5>1 DEF Dooms
      <4>2. CASE Has(t, y)' # Has(e.sid, x)'
        BY <1>3, <2>6, <2>7, <3>1, <4>2
      <4> QED
        BY <4>1, <4>2
    <3>2. CASE y = x /\ \E f \in left : f.sid = t
      <4>1. PICK f \in left : f.sid = t
        BY <3>2
      <4>2. f \notin passed
        BY <1>2, <2>1, <2>7, <3>2, <4>1
      <4>3. f = e \/ f \in rec.entries
        BY <2>4, <4>1, <4>2
      <4> QED
        BY <2>4, <3>2, <4>1, <4>3 DEF Dooms
    <3> QED
      BY <2>7, <3>1, <3>2
  <2>8. ASSUME NEW y \in Servers, idle'[y] # None
        PROVE  proc'[idle'[y]] = y
    <3>1. idle'[y] # Has(e.sid, x)'
      BY <2>5 DEF PoolInv, Apart
    <3> QED
      BY <1>4, <2>6, <2>8, <3>1
  <2>9. Live(rec)'
    BY <2>7, <2>8 DEF Live, Dooms
  <2>10. Held'
    BY <2>6 DEF Held
  <2>11. Doing(rec)'
    <3>1. Dead(Has(e.sid, x))'
      BY <2>5, <2>6 DEF Dead
    <3>2. e.obj = table'[e.sid] /\ \A f \in rec.entries : f.srv = x /\ f.obj = table'[f.sid]
      BY <2>4, <2>5
    <3> QED
      BY <2>4, <3>1, <3>2 DEF Doing, Dead
  <2>12. SingleActive => Focused(rec)'
    BY <2>4 DEF Focused
  <2> QED
    BY <2>1, <2>2, <2>9, <2>10, <2>11, <2>12, Settle DEF WorkOK, PoolInv, at
<1> QED
  BY <1>0, <1>5, <1>6

(* Every session's connection to a server is among the entries of it.      *)
LEMMA AllEntries ==
  ASSUME PoolInv, NEW x \in Servers
  PROVE  LET all == {e \in Entry : e.srv = x /\ table[e.sid] = e.obj}
         IN  /\ all \in SUBSET Entry /\ \A e \in all : e.srv = x /\ e.obj = table[e.sid]
             /\ \A t \in Sessions : Has(t, x) # None => \E e \in all : e.sid = t
<1> DEFINE all == {e \in Entry : e.srv = x /\ table[e.sid] = e.obj}
<1>1. ASSUME NEW t \in Sessions, Has(t, x) # None PROVE \E e \in all : e.sid = t
  <2>1. PICK e \in Entries : e.sid = t /\ e.srv = x
    BY <1>1, EntriesAreHad DEF PoolInv
  <2> QED
    BY <2>1 DEF Entries
<1> QED
  BY <1>1

LEMMA CrashRecordedSerial ==
  ASSUME PoolInv, SerialInv, PoolInv', NEW k \in Calls, CrashRecorded(k)
  PROVE  SerialInv'
<1> DEFINE x == call[k].srv
<1>1. call[k].pc = "recording" /\ UNCHANGED <<table, slot, idle, warm>>
  BY DEF CrashRecorded
<1>2. /\ call[k] # Free /\ Live(call[k]) /\ Held /\ (SingleActive => Focused(call[k]))
      /\ x \in Servers
  BY <1>1, InFlight DEF CallOK
<1>3. \A s \in Sessions, y \in Servers : Has(s, y)' = Has(s, y)
  BY <1>1, NothingSeen
<1>4. \A s \in Sessions, y \in Servers : Has(s, y) # None => proc[Has(s, y)] = y \/ y = x
  BY <1>1, <1>2 DEF Live, Dooms
<1>5. \A y \in Servers : idle[y] # None => proc[idle[y]] = y \/ y = x
  BY <1>1, <1>2 DEF Live, DoomsIdle
<1>6. SingleActive => \A s, t \in Sessions, y, z \in Servers :
                        Has(s, y) # None /\ Has(t, z) # None => y = z
  BY <1>2 DEF Focused
<1>7. CASE idle[x] # None
  <2>1. PICK rec : rec = At("crashIdle", None, x, {}, {})
    OBVIOUS
  <2>2. rec.pc = "crashIdle" /\ rec.srv = x
    BY <2>1 DEF At
  <2>3. proc' = Killed({idle[x]}) /\ call' = [call EXCEPT ![k] = rec]
    BY <1>7, <2>1 DEF CrashRecorded
  <2> HIDE DEF x
  <2>4. /\ \A s \in Sessions, y \in Servers : Has(s, y) # None => proc'[Has(s, y)] = proc[Has(s, y)]
        /\ \A y \in Servers : idle[y] # None => proc'[idle[y]] = IF y = x THEN None ELSE proc[idle[y]]
        /\ Held'
    <3>1. {x} \in SUBSET Servers /\ \A y \in {x} : idle[y] # None
      BY <1>2, <1>7
    <3>2. proc' = Killed({idle[y] : y \in {x}})
      BY <2>3
    <3> QED
      BY <1>1, <1>2, <3>1, <3>2, IdlesKilled
  <2>5. Live(rec)'
    BY <1>1, <1>3, <1>4, <1>5, <2>2, <2>4 DEF Live, Dooms, DoomsIdle
  <2>6. Doing(rec)' /\ (SingleActive => Focused(rec)')
    BY <1>1, <1>2, <1>3, <1>6, <1>7, <2>2, <2>4 DEF Doing, Dead, Focused
  <2> QED
    BY <1>1, <1>2, <2>3, <2>4, <2>5, <2>6, Settle DEF WorkOK, PoolInv
<1>8. CASE idle[x] = None
  <2> DEFINE all == {e \in Entry : e.srv = x /\ table[e.sid] = e.obj}
  <2>1. Scan(k, all)
    BY <1>8 DEF CrashRecorded, ScanAll
  <2>2. /\ all \in SUBSET Entry /\ \A e \in all : e.srv = x /\ e.obj = table[e.sid]
        /\ \A t \in Sessions : Has(t, x) # None => \E e \in all : e.sid = t
    BY <1>2, AllEntries
  <2> HIDE DEF all
  <2>3. \A t \in Sessions, y \in Servers : Has(t, y)' # None =>
          proc[Has(t, y)'] = y \/ (y = x /\ \E e \in all : e.sid = t)
    BY <1>3, <1>4, <2>2
  <2>4. /\ \A y \in Servers : idle'[y] # None => proc[idle'[y]] = y
        /\ idle'[x] = None
    BY <1>1, <1>5, <1>8
  <2>5. \A c \in Clients : proc[c] # None =>
          \/ \E s \in Sessions, y \in Servers : Has(s, y)' = c
          \/ \E y \in Servers : idle'[y] = c
    BY <1>1, <1>2, <1>3 DEF Held
  <2>6. SingleActive => \A s, t \in Sessions, y, z \in Servers :
                          Has(s, y)' # None /\ Has(t, z)' # None => y = z
    BY <1>3, <1>6
  <2> QED
    BY <1>1, <1>2, <2>1, <2>2, <2>3, <2>4, <2>5, <2>6, ScanSerial
<1> QED
  BY <1>7, <1>8

LEMMA CrashIdleDroppedSerial ==
  ASSUME PoolInv, SerialInv, PoolInv', NEW k \in Calls, CrashIdleDropped(k)
  PROVE  SerialInv'
<1> DEFINE r == call[k]
<1>1. /\ r.pc = "crashIdle" /\ UNCHANGED <<table, slot, warm>>
      /\ idle' = [idle EXCEPT ![r.srv] = None]
  BY DEF CrashIdleDropped
<1>2. /\ r # Free /\ Live(r) /\ Held /\ Dead(idle[r.srv]) /\ (SingleActive => Focused(r))
      /\ r.srv \in Servers
  BY <1>1, InFlight DEF CallOK, Doing
<1>3. PICK x \in Servers : x = r.srv
  BY <1>2
<1> DEFINE all == {e \in Entry : e.srv = r.srv /\ table[e.sid] = e.obj}
<1>4. Scan(k, all)
  BY DEF CrashIdleDropped, ScanAll
<1>5. /\ all \in SUBSET Entry /\ \A e \in all : e.srv = r.srv /\ e.obj = table[e.sid]
      /\ \A t \in Sessions : Has(t, x) # None => \E e \in all : e.sid = t
  BY <1>2, <1>3, AllEntries
<1> HIDE DEF all
<1>6. \A s \in Sessions, y \in Servers : Has(s, y)' = Has(s, y)
  BY <1>1, NothingSeen
<1>7. \A y \in Servers : idle'[y] = IF y = x THEN None ELSE idle[y]
  BY <1>1, <1>2, <1>3, View
<1>8. \A t \in Sessions, y \in Servers : Has(t, y)' # None =>
        proc[Has(t, y)'] = y \/ (y = x /\ \E e \in all : e.sid = t)
  BY <1>1, <1>2, <1>3, <1>5, <1>6 DEF Live, Dooms
<1>9. \A y \in Servers : idle'[y] # None => proc[idle'[y]] = y
  BY <1>1, <1>2, <1>3, <1>7 DEF Live, DoomsIdle
<1>10. ASSUME NEW c \in Clients, proc[c] # None
       PROVE  \/ \E s \in Sessions, y \in Servers : Has(s, y)' = c
              \/ \E y \in Servers : idle'[y] = c
  <2>1. c # None /\ c # idle[x]
    BY <1>2, <1>3, <1>10, View DEF Dead
  <2> QED
    BY <1>2, <1>6, <1>7, <1>10, <2>1 DEF Held
<1>11. SingleActive => \A s, t \in Sessions, y, z \in Servers :
                         Has(s, y)' # None /\ Has(t, z)' # None => y = z
  BY <1>2, <1>6 DEF Focused
<1> QED
  BY <1>1, <1>2, <1>3, <1>4, <1>5, <1>7, <1>8, <1>9, <1>10, <1>11, ScanSerial

LEMMA CrashEntryDroppedSerial ==
  ASSUME PoolInv, SerialInv, PoolInv', NEW k \in Calls, CrashEntryDropped(k)
  PROVE  SerialInv'
<1> DEFINE r == call[k]
<1>1. /\ r.pc = "crashEntry" /\ UNCHANGED <<table, idle, warm>>
      /\ slot' = [slot EXCEPT ![r.obj][r.srv] = None] /\ Scan(k, r.entries)
  BY DEF CrashEntryDropped
<1>2. /\ r # Free /\ r \in CallRec /\ Live(r) /\ Held /\ Doing(r) /\ (SingleActive => Focused(r))
      /\ r.srv \in Servers /\ r.sid \in Sessions /\ r.obj \in Objects
  BY <1>1, InFlight DEF CallOK
<1>3. PICK x \in Servers, u \in Sessions : x = r.srv /\ u = r.sid
  BY <1>2
<1>4. /\ r.obj = table[u] /\ Dead(Has(u, x)) /\ idle[x] = None
      /\ r.entries \in SUBSET Entry /\ \A e \in r.entries : e.srv = r.srv /\ e.obj = table[e.sid]
  BY <1>1, <1>2, <1>3 DEF Doing, CallRec
<1>5. \A t \in Sessions, y \in Servers :
        Has(t, y)' = IF t = u /\ y = x THEN None ELSE Has(t, y)
  <2>1. slot' = [slot EXCEPT ![table[u]][x] = None] /\ table[u] \in Objects
    BY <1>1, <1>2, <1>3, <1>4
  <2> QED
    BY <1>1, <2>1, PlaceEmptied
<1>6. \A t \in Sessions, y \in Servers : Has(t, y)' # None =>
        proc[Has(t, y)'] = y \/ (y = r.srv /\ \E e \in r.entries : e.sid = t)
  BY <1>1, <1>2, <1>3, <1>5 DEF Live, Dooms
<1>7. (\A y \in Servers : idle'[y] # None => proc[idle'[y]] = y) /\ idle'[r.srv] = None
  BY <1>1, <1>2, <1>3, <1>4 DEF Live, DoomsIdle
<1>8. ASSUME NEW c \in Clients, proc[c] # None
      PROVE  \/ \E s \in Sessions, y \in Servers : Has(s, y)' = c
             \/ \E y \in Servers : idle'[y] = c
  <2>1. c # None /\ c # Has(u, x)
    BY <1>4, <1>8, View DEF Dead
  <2> QED
    BY <1>1, <1>2, <1>5, <1>8, <2>1 DEF Held
<1>9. SingleActive => \A s, t \in Sessions, y, z \in Servers :
                        Has(s, y)' # None /\ Has(t, z)' # None => y = z
  BY <1>2, <1>5 DEF Focused
<1> QED
  BY <1>1, <1>2, <1>4, <1>6, <1>7, <1>8, <1>9, ScanSerial

(* What is left of an invalidated idle client: a connection to make, or    *)
(* nothing; idle has been emptied of a connection that is dead.            *)
LEMMA RecreateSerial ==
  ASSUME PoolInv, SerialInv, NEW k \in Calls, NEW x \in Servers, Recreate(k, x), UNCHANGED proc,
         call[k] # Free \/ Quiet, Held, Dead(idle[x]),
         \A y \in Servers : idle'[y] = IF y = x THEN None ELSE idle[y],
         \A s \in Sessions, y \in Servers : Has(s, y) # None => proc[Has(s, y)] = y,
         \A y \in Servers : idle[y] # None => proc[idle[y]] = y \/ y = x,
         SingleActive => \A s, t \in Sessions, y, z \in Servers :
                           Has(s, y) # None /\ Has(t, z) # None => y = z
  PROVE  SerialInv'
<1>1. PICK rec : rec = IF Lazy THEN Free ELSE At("reconnecting", None, x, {}, {})
  OBVIOUS
<1>2. /\ call' = [call EXCEPT ![k] = rec] /\ UNCHANGED <<table, slot, warm>>
  BY <1>1 DEF Recreate
<1>3. rec.pc \in {"free", "reconnecting"} /\ (rec.pc = "reconnecting" => rec.srv = x)
  BY <1>1, FreeTyped DEF At
<1>4. \A s \in Sessions, y \in Servers : Has(s, y)' = Has(s, y)
  BY <1>2, NothingSeen
<1>5. Live(rec)'
  BY <1>4 DEF Live
<1>6. Held'
  <2>1. \A c \in Clients : proc[c] # None => c # idle[x]
    BY View DEF Dead
  <2> QED
    BY <1>4, <2>1 DEF Held
<1>7. Doing(rec)' /\ (SingleActive => Focused(rec)')
  BY <1>3, <1>4 DEF Doing, Focused
<1> QED
  BY <1>2, <1>5, <1>6, <1>7, Settle DEF WorkOK, PoolInv

LEMMA InvalidateSerial ==
  ASSUME PoolInv, SerialInv, ~Overlap, NEW k \in Calls, NEW x \in Servers, Invalidate(k, x)
  PROVE  SerialInv'
<1>1. Quiet /\ UNCHANGED idle
  BY DEF Invalidate, MayBegin
<1>2. /\ Held /\ \A s \in Sessions, y \in Servers : Has(s, y) # None => proc[Has(s, y)] = y
      /\ \A y \in Servers : idle[y] # None => proc[idle[y]] = y
      /\ SingleActive => \A s, t \in Sessions, y, z \in Servers :
                           Has(s, y) # None /\ Has(t, z) # None => y = z
  BY <1>1, WhenQuiet
<1>3. CASE idle[x] = None
  BY <1>1, <1>2, <1>3, RecreateSerial DEF Invalidate, Dead
<1>4. CASE idle[x] # None
  <2>1. PICK rec : rec = At("droppingIdle", None, x, {}, {})
    OBVIOUS
  <2>2. rec.pc = "droppingIdle" /\ rec.srv = x
    BY <2>1 DEF At
  <2>3. /\ proc' = Killed({idle[x]}) /\ call' = [call EXCEPT ![k] = rec]
        /\ UNCHANGED <<table, slot, warm>>
    BY <1>4, <2>1 DEF Invalidate
  <2>4. /\ \A s \in Sessions, y \in Servers : Has(s, y) # None => proc'[Has(s, y)] = proc[Has(s, y)]
        /\ \A y \in Servers : idle[y] # None => proc'[idle[y]] = IF y = x THEN None ELSE proc[idle[y]]
        /\ Held'
    <3>1. {x} \in SUBSET Servers /\ \A y \in {x} : idle[y] # None
      BY <1>4
    <3>2. proc' = Killed({idle[y] : y \in {x}})
      BY <2>3
    <3> QED
      BY <1>1, <1>2, <2>3, <3>1, <3>2, IdlesKilled
  <2>5. \A s \in Sessions, y \in Servers : Has(s, y)' = Has(s, y)
    BY <2>3, NothingSeen
  <2>6. Live(rec)'
    BY <1>1, <1>2, <2>2, <2>4, <2>5 DEF Live, Dooms, DoomsIdle
  <2>7. Doing(rec)' /\ (SingleActive => Focused(rec)')
    BY <1>1, <1>2, <1>4, <2>2, <2>4, <2>5 DEF Doing, Dead, Focused
  <2> QED
    BY <1>1, <2>3, <2>4, <2>6, <2>7, Settle DEF WorkOK, PoolInv
<1> QED
  BY <1>3, <1>4

LEMMA IdleDroppedSerial ==
  ASSUME PoolInv, SerialInv, NEW k \in Calls, IdleDropped(k)
  PROVE  SerialInv'
<1> DEFINE r == call[k]
<1>1. /\ r.pc = "droppingIdle" /\ UNCHANGED proc /\ Recreate(k, r.srv)
      /\ idle' = [idle EXCEPT ![r.srv] = None]
  BY DEF IdleDropped
<1>2. /\ r # Free /\ Live(r) /\ Held /\ Dead(idle[r.srv]) /\ (SingleActive => Focused(r))
      /\ r.srv \in Servers
  BY <1>1, InFlight DEF CallOK, Doing
<1>3. PICK x \in Servers : x = r.srv
  BY <1>2
<1>4. \A y \in Servers : idle'[y] = IF y = x THEN None ELSE idle[y]
  BY <1>1, <1>3, View
<1>5. /\ \A s \in Sessions, y \in Servers : Has(s, y) # None => proc[Has(s, y)] = y
      /\ \A y \in Servers : idle[y] # None => proc[idle[y]] = y \/ y = x
  BY <1>1, <1>2, <1>3 DEF Live, Dooms, DoomsIdle
<1>6. SingleActive => \A s, t \in Sessions, y, z \in Servers :
                        Has(s, y) # None /\ Has(t, z) # None => y = z
  BY <1>2 DEF Focused
<1> QED
  BY <1>1, <1>2, <1>3, <1>4, <1>5, <1>6, RecreateSerial

(* A new idle connection, where there is none.                             *)
LEMMA IdleMade ==
  ASSUME PoolInv, Held, NEW c \in Clients, NEW x \in Servers, Fresh(c), idle[x] = None,
         idle' = [idle EXCEPT ![x] = c], proc' = [proc EXCEPT ![c] = x],
         UNCHANGED <<table, slot>>,
         \A s \in Sessions, y \in Servers : Has(s, y) # None => proc[Has(s, y)] = y,
         \A y \in Servers : idle[y] # None => proc[idle[y]] = y
  PROVE  Live(Free)' /\ Held'
<1>1. /\ c # None /\ (\A y \in Servers : idle[y] # c)
      /\ \A t \in Sessions, y \in Servers : Has(t, y) # c
  BY FreshIsNobodys
<1>2. /\ \A d \in Clients : proc'[d] = IF d = c THEN x ELSE proc[d]
      /\ \A y \in Servers : idle'[y] = IF y = x THEN c ELSE idle[y]
  BY View
<1>3. \A s \in Sessions, y \in Servers : Has(s, y)' = Has(s, y)
  BY NothingSeen
<1>4. ASSUME NEW t \in Sessions, NEW y \in Servers, Has(t, y)' # None
      PROVE  proc'[Has(t, y)'] = y
  <2>1. Has(t, y)' = Has(t, y) /\ Has(t, y) \in Clients /\ Has(t, y) # c
    BY <1>1, <1>3, <1>4, View
  <2> QED
    BY <1>2, <1>4, <2>1
<1>5. ASSUME NEW y \in Servers, idle'[y] # None
      PROVE  proc'[idle'[y]] = y
  <2>1. CASE y = x
    BY <1>2, <2>1
  <2>2. CASE y # x
    <3>1. idle'[y] = idle[y] /\ idle[y] \in Clients /\ idle[y] # c
      BY <1>1, <1>2, <1>5, <2>2, View
    <3> QED
      BY <1>2, <1>5, <3>1
  <2> QED
    BY <2>1, <2>2
<1>6. ASSUME NEW d \in Clients, proc'[d] # None
      PROVE  \/ \E s \in Sessions, y \in Servers : Has(s, y)' = d
             \/ \E y \in Servers : idle'[y] = d
  <2>1. CASE d = c
    BY <1>2, <2>1
  <2>2. CASE d # c
    <3>1. proc[d] # None /\ d # None
      BY <1>2, <1>6, <2>2, View
    <3> QED
      BY <1>2, <1>3, <3>1 DEF Held
  <2> QED
    BY <2>1, <2>2
<1> QED
  BY <1>4, <1>5, <1>6 DEF Live, Held

LEMMA ReconnectedSerial ==
  ASSUME PoolInv, SerialInv, NEW k \in Calls, Reconnected(k)
  PROVE  SerialInv'
<1> DEFINE r == call[k]
<1>1. /\ r.pc = "reconnecting" /\ UNCHANGED <<table, slot, warm>>
      /\ call' = [call EXCEPT ![k] = Free]
  BY DEF Reconnected
<1>2. /\ r # Free /\ Live(r) /\ Held /\ idle[r.srv] = None /\ (SingleActive => Focused(r))
      /\ r.srv \in Servers
  BY <1>1, InFlight DEF CallOK, Doing
<1>3. PICK x \in Servers : x = r.srv
  BY <1>2
<1>4. PICK c \in Clients :
        Fresh(c) /\ proc' = [proc EXCEPT ![c] = x] /\ idle' = [idle EXCEPT ![x] = c]
  BY <1>3 DEF Reconnected
<1>5. /\ \A s \in Sessions, y \in Servers : Has(s, y) # None => proc[Has(s, y)] = y
      /\ \A y \in Servers : idle[y] # None => proc[idle[y]] = y
  BY <1>1, <1>2 DEF Live, Dooms, DoomsIdle
<1>6. Live(Free)' /\ Held'
  BY <1>1, <1>2, <1>3, <1>4, <1>5, IdleMade
<1>7. Doing(Free)' /\ (SingleActive => Focused(Free)')
  <2>1. \A s \in Sessions, y \in Servers : Has(s, y)' = Has(s, y)
    BY <1>1, NothingSeen
  <2> QED
    BY <1>2, <2>1, FreeTyped DEF Doing, Focused
<1> QED
  BY <1>1, <1>2, <1>6, <1>7, Settle DEF WorkOK, PoolInv

(* While a background connection is under way, no call is in flight.       *)
LEMMA WarmedSerial ==
  ASSUME PoolInv, SerialInv, NEW x \in Servers, Warmed(x)
  PROVE  SerialInv'
<1>1. warm[x] > 0 /\ UNCHANGED <<table, slot, call>>
  BY DEF Warmed, WarmOver
<1>2. \A k \in Calls : call[k] = Free
  BY <1>1 DEF SerialInv
<1>3. WorkOK(Free)
  BY <1>2 DEF SerialInv
<1>4. /\ Held /\ (SingleActive => Focused(Free))
      /\ \A s \in Sessions, y \in Servers : Has(s, y) # None => proc[Has(s, y)] = y
      /\ \A y \in Servers : idle[y] # None => proc[idle[y]] = y
  BY <1>3, FreeTyped DEF WorkOK, Live, Dooms, DoomsIdle
<1>5. \A s \in Sessions, y \in Servers : Has(s, y)' = Has(s, y)
  BY <1>1, NothingSeen
<1>6. Live(Free)' /\ Held'
  <2>1. CASE UNCHANGED <<idle, proc>>
    BY <1>4, <1>5, <2>1 DEF Live, Held
  <2>2. CASE \E c \in Clients :
               /\ idle[x] = None /\ Fresh(c)
               /\ idle' = [idle EXCEPT ![x] = c] /\ proc' = [proc EXCEPT ![c] = x]
    BY <1>1, <1>4, <2>2, IdleMade
  <2> QED
    BY <2>1, <2>2 DEF Warmed
<1>7. Doing(Free)' /\ (SingleActive => Focused(Free)')
  BY <1>4, <1>5, FreeTyped DEF Doing, Focused
<1>8. WorkOK(Free)'
  BY <1>6, <1>7 DEF WorkOK
<1> QED
  BY <1>1, <1>2, <1>8 DEF SerialInv, WorkOK, Live, Held, Doing, Focused, Dooms, DoomsIdle, Dead

LEMMA NothingMovesSerial ==
  ASSUME SerialInv, UNCHANGED <<table, slot, idle, warm, proc, call>>
  PROVE  SerialInv'
<1>1. \A s \in Sessions, x \in Servers : Has(s, x)' = Has(s, x)
  BY NothingSeen
<1>2. ASSUME NEW r, WorkOK(r) PROVE WorkOK(r)'
  <2>1. Live(r)'
    BY <1>1, <1>2 DEF WorkOK, Live, Dooms, DoomsIdle
  <2>2. Held'
    BY <1>1, <1>2 DEF WorkOK, Held
  <2>3. Doing(r)'
    BY <1>1, <1>2 DEF WorkOK, Doing, Dead, Has, Open
  <2>4. SingleActive => Focused(r)'
    BY <1>1, <1>2 DEF WorkOK, Focused
  <2> QED
    BY <2>1, <2>2, <2>3, <2>4 DEF WorkOK
<1>3. (\A k \in Calls : call[k] = Free) => WorkOK(Free)'
  BY <1>2 DEF SerialInv
<1>4. ASSUME NEW k \in Calls, call[k] # Free
      PROVE  /\ WorkOK(call[k])' /\ \A q \in Calls \ {k} : call[q] = Free
             /\ \A x \in Servers : warm[x] = 0
  <2>1. PICK r : r = call[k]
    OBVIOUS
  <2>2. WorkOK(r)'
    BY <1>2, <1>4, <2>1 DEF SerialInv
  <2>3. WorkOK(call[k])'
    <3>1. r = call'[k]
      BY <2>1
    <3> QED
      BY <2>2, <3>1 DEF WorkOK, Live, Held, Doing, Focused, Dooms, DoomsIdle, Dead
  <2> QED
    BY <1>4, <2>3 DEF SerialInv
<1>5. /\ (\A k \in Calls : call'[k] = Free) => WorkOK(Free)'
      /\ \A k \in Calls : call'[k] # Free =>
           /\ WorkOK(call[k])' /\ \A q \in Calls \ {k} : call'[q] = Free
           /\ \A x \in Servers : warm'[x] = 0
  BY <1>3, <1>4
<1> QED
  BY <1>5 DEF SerialInv, WorkOK, Live, Held, Doing, Focused, Dooms, DoomsIdle, Dead

LEMMA SerialInit == Init => SerialInv
<1> SUFFICES ASSUME Init PROVE SerialInv
  OBVIOUS
<1>1. /\ \A k \in Calls : call[k] = Free
      /\ \A s \in Sessions, x \in Servers : Has(s, x) = None
      /\ \A x \in Servers : idle[x] = None
      /\ \A c \in Clients : proc[c] = None
  BY DEF Init, Has, Open
<1>2. WorkOK(Free)
  BY <1>1, FreeTyped DEF WorkOK, Live, Held, Doing, Focused
<1> QED
  BY <1>1, <1>2 DEF SerialInv

LEMMA SerialStep ==
  ASSUME ~Overlap, PoolInv, SerialInv, PoolInv', [Next]_vars
  PROVE  SerialInv'
<1>1. CASE \E k \in Calls : Begin(k)
  <2>1. PICK k \in Calls : Begin(k)
    BY <1>1
  <2> QED
    BY <2>1, GetSessionSerial, CleanupSessionSerial, CrashesSerial, InvalidateSerial DEF Begin
<1>2. CASE \E k \in Calls : Continue(k)
  <2>1. PICK k \in Calls : Continue(k)
    BY <1>2
  <2>2. CASE \E e \in call[k].entries : PruneEntry(k, e)
    BY <2>2, PruneEntrySerial
  <2>3. CASE \E y \in call[k].idles : PruneIdle(k, y)
    BY <2>3, PruneIdleSerial
  <2> QED
    BY <2>1, <2>2, <2>3, ActivePrunedSerial, IdlePrunedSerial, ProceedSerial, ConnectedSerial,
       ConnectFailsSerial, SessionCleanedSerial, CrashRecordedSerial, CrashIdleDroppedSerial,
       CrashEntryDroppedSerial, IdleDroppedSerial, ReconnectedSerial DEF Continue
<1>3. CASE \E s \in Sessions, x \in Servers : Reuse(s, x)
  <2>1. UNCHANGED <<table, slot, idle, warm, proc, call>>
    BY <1>3 DEF Reuse
  <2> QED
    BY <2>1, NothingMovesSerial
<1>4. CASE \E x \in Servers : Warmed(x)
  BY <1>4, WarmedSerial
<1>5. CASE UNCHANGED <<table, slot, used, idle, creating, warm, focus, proc, call>>
  BY <1>5, NothingMovesSerial
<1> QED
  BY <1>1, <1>2, <1>3, <1>4, <1>5 DEF Next, Step, Quits, vars

(* "Cleanup all connections for this session": with one call at a time, no *)
(* process is left behind by a call that has ended, even when servers      *)
(* crash, connections fail and sessions come and go.                       *)
THEOREM NeverLeaks ==
  ASSUME ~Overlap
  PROVE  Spec => []NoLeak
<1>1. Init => PoolInv /\ SerialInv
  BY PoolInvInit, SerialInit
<1>2. PoolInv /\ SerialInv /\ [Next]_vars => (PoolInv /\ SerialInv)'
  BY TypedStep, ApartStep, SerialStep DEF PoolInv
<1>3. PoolInv /\ SerialInv => NoLeak
  <2> SUFFICES ASSUME PoolInv, SerialInv, Quiet, NEW c \in Clients, proc[c] # None
               PROVE  Tracked(c)
    BY DEF NoLeak
  <2>1. CASE \E x \in Servers : idle[x] = c
    BY <2>1 DEF Tracked
  <2>2. CASE \E s \in Sessions, x \in Servers : Has(s, x) = c
    <3>1. PICK s \in Sessions, x \in Servers : Has(s, x) = c
      BY <2>2
    <3>2. Has(s, x) # None
      BY <3>1, View
    <3>3. PICK e \in Entries : e.sid = s /\ e.srv = x
      BY <3>2, EntriesAreHad DEF PoolInv
    <3>4. slot[e.obj][e.srv] = c
      BY <3>1, <3>2, <3>3 DEF Entries, Has, Open
    <3> QED
      BY <3>3, <3>4 DEF Tracked
  <2> QED
    BY <2>1, <2>2, WhenQuiet DEF Held
<1> QED
  BY <1>1, <1>2, <1>3, PTL DEF Spec

(* "one downstream server process remains active at a time": with one call *)
(* at a time, pruning leaves no process of another server, the idle pool's *)
(* apart.                                                                  *)
THEOREM OneServerServed ==
  ASSUME ~Overlap, SingleActive
  PROVE  Spec => []OneServer
<1>1. Init => PoolInv /\ SerialInv
  BY PoolInvInit, SerialInit
<1>2. PoolInv /\ SerialInv /\ [Next]_vars => (PoolInv /\ SerialInv)'
  BY TypedStep, ApartStep, SerialStep DEF PoolInv
<1>3. PoolInv /\ SerialInv => OneServer
  <2> SUFFICES ASSUME PoolInv, SerialInv, Quiet, NEW c \in Clients, NEW d \in Clients,
                      proc[c] # None, proc[d] # None, \A x \in Servers : idle[x] \notin {c, d}
               PROVE  proc[c] = proc[d]
    BY DEF OneServer
  <2>1. PICK s \in Sessions, x \in Servers : Has(s, x) = c
    BY WhenQuiet DEF Held
  <2>2. PICK t \in Sessions, y \in Servers : Has(t, y) = d
    BY WhenQuiet DEF Held
  <2>3. c # None /\ d # None
    BY View
  <2>4. proc[c] = x /\ proc[d] = y
    BY <2>1, <2>2, <2>3, WhenQuiet
  <2>5. x = y
    BY <2>1, <2>2, <2>3, WhenQuiet
  <2> QED
    BY <2>4, <2>5
<1> QED
  BY <1>1, <1>2, <1>3, PTL DEF Spec

(* With one call at a time, the connection getSession hands out again      *)
(* leads to the server asked for, and is neither one the pool has closed   *)
(* nor one whose crash the pool has been told of.                          *)
THEOREM HandsOutOnlyOpen ==
  ASSUME ~Overlap
  PROVE  Spec => HandsOutOpen
<1>1. Init => PoolInv /\ SerialInv
  BY PoolInvInit, SerialInit
<1>2. PoolInv /\ SerialInv /\ [Next]_vars => (PoolInv /\ SerialInv)'
  BY TypedStep, ApartStep, SerialStep DEF PoolInv
<1>3. PoolInv /\ SerialInv /\ [Next]_vars =>
        [\A s \in Sessions, x \in Servers : Reuse(s, x) => proc[slot[table[s]][x]] = x]_vars
  <2> SUFFICES ASSUME PoolInv, SerialInv, NEW s \in Sessions, NEW x \in Servers, Reuse(s, x)
               PROVE  proc[slot[table[s]][x]] = x
    OBVIOUS
  <2>1. Quiet /\ Has(s, x) # None /\ Has(s, x) = slot[table[s]][x]
    BY DEF Reuse, Has
  <2> QED
    BY <2>1, WhenQuiet
<1> QED
  BY <1>1, <1>2, <1>3, PTL DEF Spec, HandsOutOpen
=============================================================================
