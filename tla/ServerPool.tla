----------------------------- MODULE ServerPool -----------------------------
(***************************************************************************)
(* The pool of downstream MCP servers                                      *)
(* (packages/core/src/services/mcp-server-pool.service.ts).                *)
(*                                                                         *)
(* The pool keeps the connections of every client session and, when it is  *)
(* not lazy, one idle connection per server.  Its methods are async: an    *)
(* action below is what runs between two awaits, and any other call may    *)
(* run while one awaits a connection or the end of a cleanup.  A client's  *)
(* cleanup() kills its process at once; what is awaited is the rest of it, *)
(* and only then is the client taken out of the table it was found in.     *)
(* That table is an OBJECT held by the call: when the session has been     *)
(* closed meanwhile, it is not the session's table any more.               *)
(*                                                                         *)
(* A process that fails starts the handler of crashes.  One that ends of   *)
(* itself with exit code 0 starts nothing, and neither does a remote       *)
(* connection that drops: nobody is told, the client stays where it is and *)
(* is handed out again.                                                    *)
(*                                                                         *)
(* Left out: the timeline of events and timestamps (a session may expire   *)
(* at any time, which is CleanupSession), the parameters of a server, and  *)
(* the methods nothing calls (cleanupAll, setLifecycleModes,               *)
(* ensureIdleSessions, ensureIdleSessionForNewServer, cleanupIdleSession). *)
(***************************************************************************)
EXTENDS Naturals, FiniteSets

CONSTANTS
  Sessions,      \* session ids
  Servers,       \* server uuids
  Clients,       \* connections; recycled once dead and forgotten (a bound)
  Objects,       \* the per-session tables; recycled once forgotten (a bound)
  Calls,         \* calls that may be in flight at once (a bound)
  MaxWarm,       \* bound: background connections to one server in flight
  Lazy,          \* lazySessionMode
  SingleActive,  \* singleActiveServerMode
  MayCrash,      \* whether server processes crash
  Overlap,       \* whether a call may begin while others are in flight
  None           \* no client, no object, no server, no session

ASSUME NoneIsNothing == None \notin Sessions \cup Servers \cup Clients \cup Objects
ASSUME PoolFlagsAreBoolean == {Lazy, SingleActive, MayCrash, Overlap} \subseteq BOOLEAN
ASSUME MaxWarmIsNat == MaxWarm \in Nat

VARIABLES
  table,     \* activeSessions: the object of each session, None if it has none
  slot,      \* the contents of the objects: a client per server
  used,      \* sessionToServers
  idle,      \* idleSessions
  creating,  \* creatingIdleSessions
  warm,      \* how many background connections to each server are in flight
  focus,     \* currentActiveServerUuid
  proc,      \* the server a client is connected to, None once cleaned up or crashed
  quit,      \* the clients whose process has ended with nobody told
  call       \* the calls in flight

vars == <<table, slot, used, idle, creating, warm, focus, proc, quit, call>>

Pcs == {"free", "pruning", "pruningIdle", "ready", "connecting", "closing",
        "recording", "crashIdle", "crashEntry", "droppingIdle", "reconnecting"}

(* A call: where it is, for which session and server, the table entries    *)
(* whose cleanup it awaits or has still to look at, and the one it cleans. *)
At(pc, s, x, E, Y) ==
  [pc |-> pc, sid |-> s, srv |-> x, obj |-> None, entries |-> E, idles |-> Y]

Free == At("free", None, None, {}, {})

Entry == [obj: Objects, sid: Sessions, srv: Servers]

CallRec == [pc: Pcs, sid: Sessions \cup {None}, srv: Servers \cup {None},
            obj: Objects \cup {None}, entries: SUBSET Entry, idles: SUBSET Servers]

Quiet == (\A k \in Calls : call[k] = Free) /\ (\A x \in Servers : warm[x] = 0)

MayBegin(k) == call[k] = Free /\ (Overlap \/ Quiet)

Open(s) == table[s] # None

Entries == {e \in Entry : table[e.sid] = e.obj /\ slot[e.obj][e.srv] # None}

Referenced(o) ==
  \/ \E s \in Sessions : table[s] = o
  \/ \E k \in Calls : call[k].obj = o \/ \E e \in call[k].entries : e.obj = o

Fresh(c) ==
  /\ proc[c] = None
  /\ \A x \in Servers : idle[x] # c
  /\ \A o \in Objects, x \in Servers : Referenced(o) => slot[o][x] # c

Killed(C) == [c \in Clients |-> IF c \in C THEN None ELSE proc[c]]

ClientsOf(E) == {slot[e.obj][e.srv] : e \in E}

(* The servers with an active session, once the step is taken.             *)
ActiveNext == {x \in Servers : \E s \in Sessions : table'[s] # None /\ slot'[table'[s]][x] # None}

(* recomputeActiveServerFocus                                              *)
Refocus_Forgotten == UNCHANGED focus

Refocus ==
  IF ActiveNext = {} THEN focus' = None
  ELSE IF focus \in ActiveNext THEN UNCHANGED focus
  ELSE focus' \in ActiveNext

(* createIdleSessionAsync, called for each of the servers.                 *)
WarmUp(servers) ==
  LET begun == {x \in servers : ~Lazy /\ idle'[x] = None /\ x \notin creating}
  IN  /\ \A x \in begun : warm[x] < MaxWarm
      /\ creating' = creating \cup begun
      /\ warm' = [x \in Servers |-> IF x \in begun THEN warm[x] + 1 ELSE warm[x]]

-----------------------------------------------------------------------------
(* getSession.                                                             *)

(* A session that has a client for the server gets it again.               *)
Reuse(s, x) ==
  /\ Overlap \/ Quiet
  /\ Open(s) /\ slot[table[s]][x] # None
  /\ focus' = x
  /\ UNCHANGED <<table, slot, used, idle, creating, warm, proc, call>>

(* A session without a table gets an empty one, then the idle client of    *)
(* the server, or a connection is awaited.                                 *)
Promote_KeepsIdle(x) == UNCHANGED idle

Promote(x) == idle' = [idle EXCEPT ![x] = None]

Obtain(k, s, x) ==
  \E o \in Objects :
    LET known    == IF Open(s) THEN slot ELSE [slot EXCEPT ![o] = [y \in Servers |-> None]]
        usedNow  == IF Open(s) THEN used[s] ELSE {}
    IN  /\ IF Open(s) THEN o = table[s] ELSE ~Referenced(o)
        /\ table' = [table EXCEPT ![s] = o]
        /\ IF idle[x] # None
           THEN /\ Promote(x)
                /\ slot' = [known EXCEPT ![o][x] = idle[x]]
                /\ used' = [used EXCEPT ![s] = usedNow \cup {x}]
                /\ focus' = x
                /\ WarmUp({x})
                /\ call' = [call EXCEPT ![k] = Free]
           ELSE /\ slot' = known
                /\ used' = [used EXCEPT ![s] = usedNow]
                /\ call' = [call EXCEPT ![k] = At("connecting", s, x, {}, {})]
                /\ UNCHANGED <<idle, creating, warm, focus>>

(* In single-active mode, every connection to another server is cleaned up *)
(* first: those of the sessions, then the idle ones.                       *)
Others_OfSession(s, x) == {e \in Entries : e.sid = s /\ e.srv # x}

Others(s, x) == {e \in Entries : e.srv # x}

IdleOthers(x) == {y \in Servers \ {x} : idle[y] # None}

GetSession(k, s, x) ==
  /\ MayBegin(k)
  /\ ~(Open(s) /\ slot[table[s]][x] # None)
  /\ IF ~SingleActive
     THEN Obtain(k, s, x) /\ UNCHANGED proc
     ELSE LET others == Others(s, x)
              idles  == IdleOthers(x)
          IN  /\ IF others # {}
                 THEN /\ proc' = Killed(ClientsOf(others))
                      /\ call' = [call EXCEPT ![k] = At("pruning", s, x, others, {})]
                 ELSE /\ proc' = Killed({idle[y] : y \in idles})
                      /\ call' = [call EXCEPT ![k] =
                           At(IF idles = {} THEN "ready" ELSE "pruningIdle", s, x, {}, idles)]
              /\ UNCHANGED <<table, slot, used, idle, creating, warm, focus>>

(* One of the cleanups is over.                                            *)
PruneEntry_WhileThere(k, e) ==
  /\ call[k].pc = "pruning" /\ e \in call[k].entries
  /\ slot[e.obj][e.srv] # None
  /\ slot' = [slot EXCEPT ![e.obj][e.srv] = None]
  /\ used' = [used EXCEPT ![e.sid] = @ \ {e.srv}]
  /\ call' = [call EXCEPT ![k].entries = @ \ {e}]
  /\ UNCHANGED <<table, idle, creating, warm, focus, proc>>

PruneEntry_Kept(k, e) ==
  /\ call[k].pc = "pruning" /\ e \in call[k].entries
  /\ used' = [used EXCEPT ![e.sid] = @ \ {e.srv}]
  /\ call' = [call EXCEPT ![k].entries = @ \ {e}]
  /\ UNCHANGED <<table, slot, idle, creating, warm, focus, proc>>

PruneEntry(k, e) ==
  /\ call[k].pc = "pruning" /\ e \in call[k].entries
  /\ slot' = [slot EXCEPT ![e.obj][e.srv] = None]
  /\ used' = [used EXCEPT ![e.sid] = @ \ {e.srv}]
  /\ call' = [call EXCEPT ![k].entries = @ \ {e}]
  /\ UNCHANGED <<table, idle, creating, warm, focus, proc>>

ActivePruned(k) ==
  /\ call[k].pc = "pruning" /\ call[k].entries = {}
  /\ LET idles == IdleOthers(call[k].srv)
     IN  /\ proc' = Killed({idle[y] : y \in idles})
         /\ call' = [call EXCEPT ![k] = At("pruningIdle", call[k].sid, call[k].srv, {}, idles)]
  /\ UNCHANGED <<table, slot, used, idle, creating, warm, focus>>

PruneIdle(k, y) ==
  /\ call[k].pc = "pruningIdle" /\ y \in call[k].idles
  /\ idle' = [idle EXCEPT ![y] = None]
  /\ call' = [call EXCEPT ![k].idles = @ \ {y}]
  /\ UNCHANGED <<table, slot, used, creating, warm, focus, proc>>

IdlePruned(k) ==
  /\ call[k].pc = "pruningIdle" /\ call[k].idles = {}
  /\ call' = [call EXCEPT ![k] = At("ready", call[k].sid, call[k].srv, {}, {})]
  /\ UNCHANGED <<table, slot, used, idle, creating, warm, proc>>
  /\ Refocus

Proceed(k) ==
  /\ call[k].pc = "ready"
  /\ Obtain(k, call[k].sid, call[k].srv)
  /\ UNCHANGED proc

(* The connection is there.  Nothing is looked at again: when the session  *)
(* has been closed, recording the client throws and it is lost.            *)
Connected(k) ==
  /\ call[k].pc = "connecting"
  /\ LET s == call[k].sid
         x == call[k].srv
     IN  \E c \in Clients :
           /\ Fresh(c)
           /\ proc' = [proc EXCEPT ![c] = x]
           /\ IF Open(s)
              THEN /\ slot' = [slot EXCEPT ![table[s]][x] = c]
                   /\ used' = [used EXCEPT ![s] = @ \cup {x}]
                   /\ focus' = x
                   /\ UNCHANGED idle
                   /\ WarmUp({x})
              ELSE UNCHANGED <<slot, used, idle, creating, warm, focus>>
  /\ call' = [call EXCEPT ![k] = Free]
  /\ UNCHANGED table

(* connecthypernexusClient gives up.                                       *)
ConnectFails(k) ==
  /\ call[k].pc \in {"connecting", "reconnecting"}
  /\ call' = [call EXCEPT ![k] = Free]
  /\ UNCHANGED <<table, slot, used, idle, creating, warm, focus, proc>>

(* The background connection of createIdleSessionAsync: kept, or closed    *)
(* when the server has an idle client by now, or it fails.                 *)
WarmFails_FlagStays(x) == warm[x] > 0 /\ UNCHANGED creating

WarmOver(x) == warm[x] > 0 /\ creating' = creating \ {x}

Warmed(x) ==
  /\ WarmOver(x)
  /\ warm' = [warm EXCEPT ![x] = @ - 1]
  /\ \/ \E c \in Clients :
          /\ idle[x] = None /\ Fresh(c)
          /\ idle' = [idle EXCEPT ![x] = c]
          /\ proc' = [proc EXCEPT ![c] = x]
     \/ UNCHANGED <<idle, proc>>
  /\ UNCHANGED <<table, slot, used, focus, call>>

-----------------------------------------------------------------------------
(* cleanupSession, called when a client disconnects or its session expires *)
CleanupSession(k, s) ==
  /\ MayBegin(k) /\ Open(s)
  /\ proc' = Killed(ClientsOf({e \in Entries : e.sid = s}))
  /\ call' = [call EXCEPT ![k] = At("closing", s, None, {}, {})]
  /\ UNCHANGED <<table, slot, used, idle, creating, warm, focus>>

SessionCleaned(k) ==
  /\ call[k].pc = "closing"
  /\ table' = [table EXCEPT ![call[k].sid] = None]
  /\ used' = [used EXCEPT ![call[k].sid] = {}]
  /\ call' = [call EXCEPT ![k] = Free]
  /\ UNCHANGED <<slot, idle, proc>>
  /\ WarmUp(used[call[k].sid])
  /\ Refocus

-----------------------------------------------------------------------------
(* A server process fails, with an exit code other than 0 or by a signal,  *)
(* one that is connected or one that is being connected to: onprocesscrash *)
(* starts handleServerCrash, which records the crash.                      *)
Crashes(k, x) ==
  /\ MayCrash /\ MayBegin(k)
  /\ \/ \E c \in Clients \ quit : proc[c] = x /\ proc' = [proc EXCEPT ![c] = None]
     \/ /\ warm[x] > 0 \/ \E q \in Calls : call[q].pc \in {"connecting", "reconnecting"} /\ call[q].srv = x
        /\ UNCHANGED proc
  /\ call' = [call EXCEPT ![k] = At("recording", None, x, {}, {})]
  /\ UNCHANGED <<table, slot, used, idle, creating, warm, focus>>

(* A server process ends with exit code 0, or a remote connection drops:   *)
(* no handler runs.                                                        *)
Quits(c) ==
  /\ MayCrash /\ c \notin quit /\ proc[c] # None
  /\ quit' = quit \cup {c}
  /\ UNCHANGED <<table, slot, used, idle, creating, warm, focus, proc, call>>

(* cleanupServerSessions goes on with the entries left to look at, in the  *)
(* order of the sessions: it cleans up the next one that is there, or is   *)
(* done.  Entries it has passed are not looked at again.                   *)
Scan(k, left) ==
  LET x   == call[k].srv
      hit == {e \in left : slot'[e.obj][x] # None}
  IN  \/ /\ hit = {}
         /\ creating' = creating \ {x}
         /\ call' = [call EXCEPT ![k] = Free]
         /\ UNCHANGED proc
         /\ Refocus
      \/ \E e \in hit, passed \in SUBSET (left \ hit) :
           /\ proc' = Killed({slot'[e.obj][x]})
           /\ call' = [call EXCEPT ![k] =
                [At("crashEntry", e.sid, x, left \ (passed \cup {e}), {}) EXCEPT !.obj = e.obj]]
           /\ UNCHANGED <<creating, focus>>

ScanAll(k) == Scan(k, {e \in Entry : e.srv = call[k].srv /\ table[e.sid] = e.obj})

CrashRecorded(k) ==
  /\ call[k].pc = "recording"
  /\ UNCHANGED <<table, slot, used, idle, warm>>
  /\ IF idle[call[k].srv] # None
     THEN /\ proc' = Killed({idle[call[k].srv]})
          /\ call' = [call EXCEPT ![k] = At("crashIdle", None, call[k].srv, {}, {})]
          /\ UNCHANGED <<creating, focus>>
     ELSE ScanAll(k)

CrashIdleDropped(k) ==
  /\ call[k].pc = "crashIdle"
  /\ idle' = [idle EXCEPT ![call[k].srv] = None]
  /\ UNCHANGED <<table, slot, used, warm>>
  /\ ScanAll(k)

CrashEntryDropped(k) ==
  /\ call[k].pc = "crashEntry"
  /\ slot' = [slot EXCEPT ![call[k].obj][call[k].srv] = None]
  /\ used' = [used EXCEPT ![call[k].sid] = @ \ {call[k].srv}]
  /\ UNCHANGED <<table, idle, warm>>
  /\ Scan(k, call[k].entries)

-----------------------------------------------------------------------------
(* invalidateIdleSession, called by the reconnection of a crashed server.  *)
Recreate(k, x) ==
  /\ creating' = creating \ {x}
  /\ call' = [call EXCEPT ![k] = IF Lazy THEN Free
                                 ELSE At("reconnecting", None, x, {}, {})]
  /\ UNCHANGED <<table, slot, used, warm, focus>>

Invalidate_LeavesIdle(k, x) ==
  /\ MayBegin(k)
  /\ idle' = [idle EXCEPT ![x] = None]
  /\ Recreate(k, x) /\ UNCHANGED proc

Invalidate(k, x) ==
  /\ MayBegin(k)
  /\ UNCHANGED idle
  /\ IF idle[x] = None
     THEN Recreate(k, x) /\ UNCHANGED proc
     ELSE /\ proc' = Killed({idle[x]})
          /\ call' = [call EXCEPT ![k] = At("droppingIdle", None, x, {}, {})]
          /\ UNCHANGED <<table, slot, used, creating, warm, focus>>

IdleDropped(k) ==
  /\ call[k].pc = "droppingIdle"
  /\ idle' = [idle EXCEPT ![call[k].srv] = None]
  /\ UNCHANGED proc
  /\ Recreate(k, call[k].srv)

(* createIdleSession does not look again whether there is an idle client.  *)
Reconnected(k) ==
  /\ call[k].pc = "reconnecting"
  /\ \E c \in Clients :
       /\ Fresh(c)
       /\ proc' = [proc EXCEPT ![c] = call[k].srv]
       /\ idle' = [idle EXCEPT ![call[k].srv] = c]
  /\ call' = [call EXCEPT ![k] = Free]
  /\ UNCHANGED <<table, slot, used, creating, warm, focus>>

-----------------------------------------------------------------------------
Init ==
  /\ table = [s \in Sessions |-> None]
  /\ slot = [o \in Objects |-> [x \in Servers |-> None]]
  /\ used = [s \in Sessions |-> {}]
  /\ idle = [x \in Servers |-> None]
  /\ creating = {}
  /\ warm = [x \in Servers |-> 0]
  /\ focus = None
  /\ proc = [c \in Clients |-> None]
  /\ quit = {}
  /\ call = [k \in Calls |-> Free]

(* What a call in flight does next.                                        *)
Continue(k) ==
  \/ ActivePruned(k) \/ IdlePruned(k) \/ Proceed(k) \/ Connected(k) \/ ConnectFails(k)
  \/ SessionCleaned(k) \/ CrashRecorded(k) \/ CrashIdleDropped(k) \/ CrashEntryDropped(k)
  \/ IdleDropped(k) \/ Reconnected(k)
  \/ \E e \in call[k].entries : PruneEntry(k, e)
  \/ \E y \in call[k].idles : PruneIdle(k, y)

Begin(k) ==
  \/ \E s \in Sessions, x \in Servers : GetSession(k, s, x)
  \/ \E s \in Sessions : CleanupSession(k, s)
  \/ \E x \in Servers : Crashes(k, x) \/ Invalidate(k, x)

Step ==
  \/ \E k \in Calls : Begin(k) \/ Continue(k)
  \/ \E s \in Sessions, x \in Servers : Reuse(s, x)
  \/ \E x \in Servers : Warmed(x)

(* A client that is cleaned up is forgotten, however its process ended.    *)
Forgotten == quit' = {c \in quit : proc'[c] # None}

Next ==
  \/ Step /\ Forgotten
  \/ \E c \in Clients : Quits(c)

Spec == Init /\ [][Next]_vars

(* Promises are settled: a cleanup and a connection end.                   *)
Fairness == \A k \in Calls : WF_vars(Continue(k) /\ Forgotten)

FairSpec == Spec /\ Fairness

-----------------------------------------------------------------------------
(* Properties.                                                             *)

PoolTypes ==
  /\ table \in [Sessions -> Objects \cup {None}]
  /\ slot \in [Objects -> [Servers -> Clients \cup {None}]]
  /\ used \in [Sessions -> SUBSET Servers]
  /\ idle \in [Servers -> Clients \cup {None}]
  /\ creating \subseteq Servers
  /\ warm \in [Servers -> Nat]
  /\ focus \in Servers \cup {None}
  /\ proc \in [Clients -> Servers \cup {None}]
  /\ call \in [Calls -> CallRec]

TypeOK == PoolTypes /\ quit \subseteq {c \in Clients : proc[c] # None}

(* No connection is shared: not by two sessions, nor by a session and the  *)
(* idle pool, however calls interleave ("promote-idle" in getSession).     *)
NoSharing ==
  /\ \A s, t \in Sessions, x, y \in Servers :
       Open(s) /\ Open(t) /\ slot[table[s]][x] # None /\ slot[table[s]][x] = slot[table[t]][y]
         => s = t /\ x = y
  /\ \A s \in Sessions, x, y \in Servers :
       Open(s) /\ slot[table[s]][x] # None => idle[y] # slot[table[s]][x]
  /\ \A x, y \in Servers : idle[x] # None /\ idle[x] = idle[y] => x = y

(* A server marked as being prewarmed has a prewarm under way: the mark    *)
(* never outlives it, or the server would never be prewarmed again.        *)
MarkHasWorker == \A x \in creating : warm[x] > 0

(* The server shown as the active one has an active session, and there is  *)
(* one whenever some server has, unless a cleanup is still under way.      *)
FocusHonest ==
  (\A k \in Calls : call[k].pc \notin {"pruning", "pruningIdle", "crashIdle", "crashEntry"}) =>
     IF Entries = {} THEN focus = None ELSE \E e \in Entries : e.srv = focus

Tracked(c) ==
  \/ \E e \in Entries : slot[e.obj][e.srv] = c
  \/ \E x \in Servers : idle[x] = c

(* "Cleanup all connections for this session"                              *)
(* (mcp-server-pool.service.ts:463): when nothing is in flight, every      *)
(* process belongs to an open session or to the idle pool.                 *)
NoLeak == Quiet => \A c \in Clients : proc[c] # None => Tracked(c)

(* "one downstream server process remains active at a time"                *)
(* (docs/PROJECT_STATE_AUDIT.md:7644): when nothing is in flight, no two   *)
(* servers have processes, the idle pool's apart.                          *)
OneServer ==
  Quiet => \A c, d \in Clients :
    proc[c] # None /\ proc[d] # None /\ (\A x \in Servers : idle[x] \notin {c, d}) => proc[c] = proc[d]

(* A session is never handed a connection to another server, nor one that  *)
(* the pool has closed or whose crash it has been told of: whatever was    *)
(* cleaned up is out of the tables before the next call looks.  (One whose *)
(* process has ended with nobody told, a member of quit, it does get: 169  *)
(* asks for no more than that there is one.)                               *)
HandsOutOpen ==
  [][\A s \in Sessions, x \in Servers : Reuse(s, x) => proc[slot[table[s]][x]] = x]_vars

(* Every call returns.                                                     *)
CallsReturn == \A k \in Calls : call[k] # Free ~> call[k] = Free
=============================================================================
