# HyperNexus: TLA+ models and proofs

HyperNexus runs AI coding harnesses and MCP tool servers for them: it starts and watches processes, keeps
connections to tool servers, runs workflows of steps and swarms of agents, and remembers what happened. This
directory holds TLA+ models of the parts of it whose correctness depends on the order of things: critical
sections of goroutines, the code between two `await`s, timers that fire late, processes that die, servers that
restart. Each model is translated from the source at the lines `PROJECT.json` ("map") names; TLC checks it
on small instances, and TLAPS proves the safety properties for every instance.

Contents: [1 The system](#1-the-system) · [2 Plan](#2-plan) · [3 Modules](#3-modules-and-how-they-correspond-to-the-code) ·
[4 Runs](#4-runs-what-is-checked-and-on-what) · [5 Fairness](#5-fairness) · [6 Proofs](#6-proofs) ·
[7 Where code and documentation part](#7-where-code-and-documentation-part) · [8 Not modelled](#8-not-modelled)

Paths are relative to `src/`. Run everything from this directory:

    tlasany M.tla                          parse
    tlc -workers 2 -config X.cfg M.tla     model-check a run; PROJECT.json ("runs") names the module of each cfg
    tlapm <M>Proofs.tla                    check the proofs

## 1 The system

Two programs carry the logic. The **Go sidecar** (`go/internal/*`) supervises sessions, runs workflows and
serves an HTTP API; the **TypeScript core** (`packages/core/src/*`) is the control plane: it aggregates MCP
servers, keeps the tools a session sees, reconnects servers, supervises sessions of its own, and hosts the
council, swarm and mesh. Around them are a web UI, editor and browser extensions, a CLI, an older Go
orchestrator (`orchestrator`, `agent`, `foundation`) and vendored code. They interact by HTTP (UI and CLI to
both), by stdio (core to MCP servers, both to harness processes) and through SQLite and JSON files.

### Inventory

| Component | State it keeps | Operations | What is hard | What makes it correct | Modelled in |
|---|---|---|---|---|---|
| **Go session supervisor** `go/internal/supervisor/supervisor.go` | table of sessions (state, process handle, restart timer, `manualStop`, `restartAfterStop`, restart count), a JSON file of it | create, start, stop, restart, restore, shutdown; exits, timers, launches | everything is under one lock, but a start, an exit and a timer each span several critical sections; sidecar crashes; torn file | a handle is that of a live process that is waited for; stops stick; the restart budget holds; the file restores what the table had | `GoSupervisor` |
| **Go workflow engine** `go/internal/workflow/engine.go` | a graph of steps, each with a status shared by all runs of the workflow | Run: topological sort, one goroutine per step, collect | step goroutines interleave; runs of one workflow overlap (one per HTTP request) | dependencies first; nothing runs behind a failure; the shown verdict is true; runs return | `GoWorkflow`, `GoTopologicalSort`, `DagRun` |
| **TS MCP server pool** `packages/core/src/services/mcp-server-pool.service.ts` | connections per session and server, idle connections, marks of prewarms, the active server | getSession, prewarm, cleanupSession, crash handling, refresh of an idle connection | methods are async: another call runs at every await; processes crash meanwhile | no connection shared or leaked; one server active; marks and focus honest | `ServerPool` |
| **TS auto-reconnect service** `packages/core/src/services/auto-reconnect.service.ts` | a reconnection object and a timer per server | schedule, cancel, trigger, reset, enable, clear; attempts and timers | an attempt keeps its object across awaits while the map gets another | one attempt at a time; nothing hangs; reconnections end | `AutoReconnect` |
| **TS crash recovery** `server-error-tracker.service.ts`, `server-health.service.ts`, the crash handler of the pool | crash counts, the ERROR mark in the database | record crash, mark, reset, clear, health check | a count read before an await; a mark written after it; the attempt that should clear a mark is refused by it | a mark is cleared or reconnecting was given up | `CrashRecovery`, which composes with `AutoReconnect` |
| **TS swarm orchestrator and mission service** `packages/core/src/agents/swarm/SwarmOrchestrator.ts`, `services/MissionService.ts` | tasks with a place in their execution, a queue, the mission's record and verdict, worktrees | execute, approve, retry, heal, verify, resume | results late, twice or never; time-outs that race them; a crash between an update and the next | attempts bounded and approved; nothing completed without a result; a true verdict; the swarm ends | `SwarmOrchestrator` |
| **TS session supervisor** `packages/core/src/supervisor/SessionSupervisor.ts` | as the Go supervisor, with auto-resume and restarts after clean exits | same operations | awaits in createSession; exits of replaced children; timers nobody can clear any more | running means alive; stops stick; transient states end; isolation | `SessionSupervisor` |
| **TS workflow engine** `packages/core/src/orchestrator/WorkflowEngine.ts` | an execution: status, current node, state | start, pause, resume, approve, reject; activations | two activations of one execution; a status changed while a node is awaited | nodes once and in order; an approval executes what was asked; an end is final | `WorkflowEngine` |
| TS session tool working set `packages/core/src/mcp/SessionToolWorkingSet.ts`, Go `go/internal/mcp/native_router.go` | two LRU maps and pinned tools | load, hydrate, touch, unload, pin | two bounded sets kept in step | bounds; hydrated tools loaded | – |
| Go process manager `go/internal/process/manager.go` | processes by session id | spawn, kill, exit | an id is reused while the old process still ends | an entry is that of the latest process | – |
| Job queue workers `orchestrator/queue_workers.go` | job rows in SQL | poll, mark, run, finish, retry | crash while processing | a job ends or is retried | – |
| Go cache, event bus, gossip, mesh, A2A broker `go/internal/{cache,eventbus,gossip,mesh,orchestration}` | maps under locks, channels | get, set; publish; register, route | check then act; full channels | bounds; no lost registration | – |
| TS council, quota, aggregator, reactors; routers, storage, importers, providers, tools, UIs | counters, rows and files | requests | mostly I/O | not stated here | – |

`PROJECT.json` lists every component with its status, and under "hazards" what is hard to test in each, at
the line where it bites, with the properties that watch it.

### How the modelled parts interact

- The HTTP handlers call the Go supervisor's operations from any number of goroutines (`httpapi`); the
  manager's own goroutines wait for processes and its timers call `StartSession` like a client does.
- Workflow handlers call `Run` once per request on a workflow kept in a registry, with
  `context.WithoutCancel`: in production a run is not cancelled, though `Run` handles it.
- Clients of the core call `getSession` (tool discovery calls it for all servers at once,
  `hypernexus-proxy.service.ts:546-557`) and `cleanupSession` on disconnection. A crashed process makes the
  pool call `handleServerCrash`, which records the crash and calls `scheduleReconnection`
  (`mcp-server-pool.service.ts:755,784`). An attempt of a reconnection resets the crash count, clears the mark,
  calls the pool's `invalidateIdleSession` and then a health check, which refuses a server that is marked. This
  chain is `CrashRecovery`; the pool's half of it, seen from the connections, is in `ServerPool`.
- The swarm router starts and resumes missions and approves tasks. The orchestrator speaks to agents over the
  mesh and writes each change of a task to the mission service, which derives the mission's status and persists it.
- The session router and the workflow router call the TypeScript supervisor and engine from overlapping requests.

## 2 Plan

The components were taken in the order of how much of the system's behaviour rests on them and how much of it
interleaves: `GoSupervisor` (with crashes); `GoWorkflow`, implementing the abstract `DagRun`, with
`GoTopologicalSort`, which opens its sort up and is shown to implement it; `ServerPool`; `AutoReconnect`; then the
components above it, `CrashRecovery`, which opens the attempts up and is shown to implement `AutoReconnect`; then
`SwarmOrchestrator`, which implements `Mission`, what the record of a mission promises; then `SessionSupervisor` and
`WorkflowEngine`; and `Supervision`, what a supervisor promises of a session, which both supervisors are shown to
implement. All of it is built, and of each module the safety properties are proved as well as checked.

All modules are written to be proved about: constants with named assumptions, one action per operation or
critical section, invariants as conjunctions of named parts, and no RECURSIVE operator: the one recursion the
modelled code has, the depth-first search of `topologicalSort`, is modelled step by step with its stack.

What is left, by worth: the Go process manager (one hazard, listed); the overlap of the swarm with a second
orchestrator resumed beside it; the file the TypeScript supervisor shares with the pseudo-terminal supervisor
(`MCPServer.ts:540`); the tool working set, which is sequential and within reach of tests.

## 3 Modules and how they correspond to the code

`X.tla` is the model, `MCX.tla` its instances for TLC where a cfg cannot say them (symmetry sets, graphs),
`X_run.cfg` or `X.cfg` the runs, `XProofs.tla` the theorems. Operators whose name carries a suffix after an
underscore (`Normalize_UnknownState`) are variants of the operator they are named after, with a plausible mistake
in them; nothing uses them but the check that each property notices a mistake.

### Supervision

What a supervisor promises of one session, whichever of the two it is: `session` is the phase it is shown in
("active" stands for starting, running, stopping and restarting), the automatic restarts it has had and their limit;
`pending` are the starts that have been granted and neither used up nor dropped; `up` are the processes that are
watched. A process comes up only on a start that was granted, and a start brings up one process at most. Who may
grant one is what the specification says: `Client` is what a client asks for (`Create`, `Ask`, which grants one
start, `Stop`, which grants none); `Own` is what the supervisor does of its own accord: nothing that shows (`Stay`),
a start passed on or used up (`Begin`, which needs one that is pending), an automatic restart (`Restart`, which
needs a process that has ended and an attempt left, and uses the attempt up), the end of a process (`End`: stopped,
or in error with no attempt left), a start that fails (`StartFails`); `Recovery` is a new supervisor, or one that
reads its file again: `Recover`, which may grant one start to a session that was under way, and `Forget`, which
loses the record (the file was torn, or had no room for it). Attempts are never given back, and the limit never
changes, until the record is lost.

`Supervises` says of each supervisor that every session of it does what `Supervision` allows, and ties the three
parts to the steps of the model: a step that only `Client` allows is a request for this very session, one that only
`Recovery` allows a restoration or a crash; exits, launches and timers have `Own`. So a timer or an exit that
restarts a session without using up an attempt, or after no exit, breaks it. The mapping is `Entry`, `Pending` and,
of processes, the watched launches of the one supervisor and the children of the other; `Contract(s)` is the
instance for session s. Pending are, in the Go supervisor, the launches from an armed timer to a spawned process,
and, in the TypeScript one, the timers of a session, those nobody can clear included; in both, a restart that waits
for an exit.

### GoSupervisor

An action is one critical section of `m.mu`. What lies between two critical sections of one goroutine is a
**launch**, one attempt to bring a session up, in `launch`:
`free → timer → calling → launching → spawned → watched → free`: a timer is armed (`time.AfterFunc`), it has
fired but not called yet, `StartSession` has released the lock but nothing is spawned, the process exists but
`runSession` has not taken the lock again, the process is registered and `waitForExit` watches it. `orphan` is
a process nobody waits for. So a stop can come at each of these points, and a session can have several
launches. `sess` is the table with the fields that decide anything; `disk` is the persistence file, empty when
torn; `restoring` is a `RestoreSessions` that has read the file and waits for the lock; `Crash` ends the
sidecar and starts another one on what the file holds, perhaps torn. `AutoResume` is
`ManagerOptions.AutoResumeOnStart` (the server sets it FALSE). `autoRestart = false` is `max = 0`. Abstracted:
logs, health, metadata and the monitor, contexts (a cancelled one is an exit or a failed start, possible at
any time), write errors. The signal `StopSession` sends just after unlocking is part of its critical section.

### DagRun, GoWorkflow, GoTopologicalSort

`DagRun` is what one run of a workflow promises. `GoWorkflow` is the engine: `status` and `overall` are the shared
fields of the workflow, everything else belongs to a run: `at[r][s]` is where the goroutine of step s is,
`pending[r][s]` the dependency it waits for next (one after the other, in the order of the list), `outcome[r][s]`
what it sent. A step waits on the channels of its own run but asks `Step.Status` whether the dependency failed. In
`GoWorkflow` the sort is one step that succeeds when the graph is `Sortable`, the definition of what
`topologicalSort` is for. `GoTopologicalSort` extends the module and replaces that step by the search itself
(`SearchSpec`): `visited` and `sorted` are the maps and the list of the closure `visit`, `visiting` the calls of it
that are open, and `loops` the loops over steps and over dependencies that those calls and the function itself are
in, the innermost last; `Seen`, `Enter`, `Leave`, `SortFails` and `SortSucceeds` are the branches of the code. With
`loops`, `visiting`, `visited` and `sorted` forgotten it implements `GoWorkflow`, which is where `SortIsRight` comes
in: a search ends without an error exactly when the graph has an order, and then its list is one. A failure is seen
one link down only, as in the code: behind a step that was skipped the next one executes, without its input.
Registering a workflow is left out, and step ids are distinct (two with one id would close a channel twice).

### ServerPool

An action is the code between two awaits; a call in flight (`call[k]`) keeps what it captured before: the session,
the server, the per-session table it looked up (`obj`, an object that may no longer be the session's), and the
entries its `Promise.all` still waits for. `cleanup()` of a client kills its process when it is called and is
awaited after that. `warm` counts background connections, which nobody awaits. `proc[c]` is the server a connection
leads to. `Lazy` and `SingleActive` are the environment switches (both on by default); `Overlap` says whether a call
may begin while another is in flight. A crash of a server is `Crashes`, followed by the handler's steps, for an exit
code other than 0 or a signal only; a process that ends with exit code 0, or a remote connection that drops, starts
no handler (`process-managed.transport.ts:128`): `Quits` marks its client in `quit`, and it stays in the tables,
where `Reuse` and `Promote` hand it out. So `proc[c]` is the server that c leads to until c is cleaned up or its
crash is told, whether its process still runs or not, and `HandsOutOpen` speaks of connections the pool knows to be
open. The refresh that a reconnection attempt asks for may come at any time. OneServer counts the connections of
sessions: a refresh may recreate an idle connection of another server while idle connections are on.

### AutoReconnect

A reconnection is an object (`state`), replaced in the map (`current`) by each new schedule; `flight` holds the
attempts between `state.status = "RECONNECTING"` and the end of their awaits, each with the object it started
with; `timers` the servers whose retry timer is pending. A timer looks the object up when it fires. In the
repository only `scheduleReconnection` has callers. The rest of the interface (cancel, trigger, reset, enable,
clear) is modelled too, and the history variable `touched` says whether any of it has been used: what is promised
of crashes and health checks alone is promised while it is FALSE.

### CrashRecovery

Extends `AutoReconnect` and replaces its coarse end of an attempt by what an attempt does: it looks the server up
and resets the crash count, clears the mark, has the health checked, connects, lists the tools (`stage`). A crash
handler (`call`) counts before one await and marks after it, then cleans up and schedules. `marked` is the
database's `error_status`; both the health check and the connection refuse a marked server. `late` remembers the
servers whose handler left the reconnection to an attempt that had already looked: such a mark may stay although the
attempt succeeds (`auto-reconnect.service.ts:147`), and the properties say so instead of denying it. A failed health
check would schedule a reconnection too, which is skipped, since its only caller is an attempt under way.

### SwarmOrchestrator

`job[t].at` is where `executeTask` of a task is between two awaits: at the start, waiting for an approval, for
capacity, for a worktree, for bids, for a result, for a verifier, before a retry, in the healer, in the cleanup.
`record` and `verdict` are the mission as `MissionService` persists it; a crash loses everything else. The mesh is
the environment: bids come or do not, and results of an assignment come late, several times or never, also after the
task has been given to another agent (`working`). Three facts of the repository shape the model: its own agents bid
with a message id in place of the task's, so their bids count for none (`SpecializedAgent.ts:107`); the healer the
server passes has no method `heal` (`SwarmOrchestrator.ts:755`), so the call throws and the task stays "healing",
which is `HealThrows` beside a healer that works; and a worktree is removed after a failure only. `offers`,
`granted`, `heals` and `worked` are history: how often a task was offered, the approvals not used up, the heals, and
the tasks of which an agent returned a good result. A token limit of 0 is no limit, as in the code. Two things are
called resuming a mission: `ResumeMission` is the orchestrator's, which takes up the pending tasks of a record;
`ResetMission` is `MissionService.resumeMission` (165-194), which makes every task that is not completed pending
again, with the retries it had, and the mission active, a completed one too. Nothing in the repository calls it, but
it is public; it is modelled while no orchestrator is at work on the mission, at most `MaxResets` times, and counted
in `resets`.

`Mission` is what all this owes to whoever reads a mission's record: of each task an outcome (open, done, failed),
whether a good result was delivered and how many retries were spent; the tokens; and the verdict. A task is done
only after a result was delivered and then for good; it fails in a way that can be taken up again only with its
retries spent (`GiveUp`), or for good when it went over the token limit with a result in hand (`Overspend`) or was
refused (`Refuse`), until a client reopens the mission (`Reopen`, counted in `reopened`); the verdict is that of the
outcomes. `KeepsRecord` says that `SwarmOrchestrator` implements it under the mapping `Outcome`, `Spent`, `Shown`,
crashes, resumptions, resets and heals included.

### SessionSupervisor

Every method but `createSession` runs to its end without letting another one in, so an action is a whole method, a
timer's callback or the exit handler of a child. The limit of restarts is part of a session's record, chosen from
`RestartLimits[s]`; 0 also stands for `autoRestart: false`. A child is known through `runtime.process` only, and its
exit handler does not say which child has exited; so `HandleExit(s, p)` is the same for every p. `loose` counts
timers that a second exit overwrote, `stale` those of a runtime that a restoration replaced: both still fire, and
neither can be cleared. `Children[s]` bounds the children session s has at a time.

A start may fail: `spawnProcess` throws (204) when the status is already "starting" (193) and nothing is persisted
yet. The session then stays "starting", with the handle it had or none, until somebody asks again or the supervisor
is restored; in a timer, an exit handler or a restoration the rejection is unhandled, which the server survives
(`MCPServer.ts:4353`). `file` is the status a restoration would read of each session, after
`normalizeRestoredSession`; every write is of the whole table (`Persist`), and `Save` stands for the writes that
change no status (metadata, output). What is written with a status always comes with the restarts, the limit and the
directory of the table, so only the status is kept apart. A crash is a restart on `Restored(s)`, or on nothing when
the last write was torn.

`halted` are the sessions that a client last asked to stop. A stop that is not over when the supervisor is restored
or dies is read as a session that was running and restarted (605-608, 386-389): `StopSticks` names that, and
`StillHalted` takes such a session out of the history. `astray` remembers that a session had two children at once,
or that a timer or a child of it outlived a restoration; `StopSticks` excuses those sessions, because there it is
false in the code.

### WorkflowEngine

One execution, with any number of activations (`act`): start, approve and resume begin one, and it ends when it finds
the execution no longer running. `executing` is the await of the node's function, which was given `input`; `routing`
that of the edges' conditions. A resume while the paused activation still awaits its node begins a second one on the
same execution (744): `overlapped` remembers it, and what is true only until then says so. `asked` is the checkpoint
announced last, and `approvals` counts, of each checkpoint, the approvals that answered an announcement of it, so that
`ApprovesWhatWasAsked` can say that every execution of a checkpoint had one of its own. The state is the set of
nodes whose results it holds.

## 4 Runs: what is checked, and on what

Passing runs (distinct states in parentheses; deadlock is checked unless noted):

| Run | Instance | Shows |
|---|---|---|
| `go_live` (247 k) | fair; one session, two launches, one crash, torn file, sessions resumed, RestoreSessions on a live manager | **WithinBudget**: late exits of several processes never exceed the restart budget; **HandleIsWatched**; **StopSticks**: a stop without a race is not undone by a timer or a late exit; **TransientSettles** |
| `go_pair` (295 k) | two sessions, one directory, a file with room for one, no resume (as in production) | **FileIsCurrent**: the file always holds the newest sessions, with their budget and a state that restores alike; **Supervises** (each session implements Supervision, across the crash) |
| `wf_serial` (439 k) | fair, with the search opened up; two runs, one after the other, of every graph of three steps with up to two dependencies each, cycles and missing ids included, contexts cancelled at any time; no deadlock check: runs end | **OverallIsHonest**, **SortIsRight**, **KeepsPromise** (a run implements DagRun), **RunsReturn** (the search ends on every graph, too) |
| `pool_serial` (8 k) | two sessions and servers, four connections; idle connections and one active server, one call at a time, crashes, processes that end untold | **NoSharing**, **MarkHasWorker**, **OneServer**, **NoLeak**, **HandsOutOpen** |
| `pool_progress` (205 k) | fair; default modes, calls overlap, crashes | **FocusHonest**, **CallsReturn** |
| `recon` (211 k) | fair; two servers, three objects, two attempts at a time, limit 2, the whole interface | **TypeOK** (no attempt counted past the limit), **DriverPresent**, **OneAttempt**, **SuccessSticks**, **ReconnectionEnds** |
| `recovery` (24 k) | fair; one server, three crashes of which two mark it, two handlers or resets at a time | **ErrorClears**; **ImplementsAutoReconnect**: the refinement with its fairness |
| `swarm` (261 k) | fair; two tasks, one sensitive, one coding; one retry, one heal, one crash, one reset of the mission, a token limit that one task reaches | **AttemptsBounded**, **CompletedWasWorked**, **MissionHonest**, **EveryAttemptApproved**, **KeepsRecord** (the refinement of Mission), **SwarmEnds** |
| `ts_sup` (146 k) | fair; two sessions, one isolated; one with up to two children at a time and one or two restarts, the other with one child and none; spawns that fail, restorations, one crash, torn file | **TypeOK** (within the restart limit), **RunningIsAlive**, **StopSticks**, **Supervises** (each session implements Supervision), **TransientSettles** |
| `ts_wf` (34 k) | fair; five nodes, two ways to the end, two checkpoints, two activations; no deadlock check: executions end | **ApprovesWhatWasAsked**, **EachOnceInOrder**, **PauseHolds**, **EndIsFinal**, **RunEnds** |

The two other runs, `pool_discovery` and `ts_parallel`, end in a counterexample (section 7). Symmetry is used in
`go_pair` and `pool_serial` only, which check no liveness: of sessions and launches in the one, which their module
treats alike, of connections, objects and calls in the other.

A few properties are proved and not run, because the proof says more and a run would only repeat it: the type
invariants of GoSupervisor, GoWorkflow, GoTopologicalSort, ServerPool, SwarmOrchestrator and WorkflowEngine,
`RecoveryTypeOK`, `TransientHasDriver` of both supervisors, `RunningHasActivation`, `ErrorIsAnswered`,
`BudgetNeverRefunded` of both (which follows from Supervises), `DependenciesFirst`, `NeverAfterFailure`,
`CompletedSticks` (part of KeepsRecord), `WithinConcurrency` and `RightServer`.

Bounds, and why they are enough. *Launches, Clients, Objects, States, Attempts, Calls, Procs, Activations* are
identities that are recycled when nothing refers to them: they bound how many are in use at once, not how many a
behaviour has. Two launches are a process that is ending and the one being started; two children, attempts, handlers
or activations are the old one and the new one, between which every confusion of identity arises. Two sessions and
two servers suffice for sharing, overwriting and focus, which relate two. `RestartLimits = {1}` has both sides of
the limit; in the TypeScript supervisor `{1, 2}` has in addition a restart that uses up some of the budget but not
all, and `{0}` a session that is never restarted; `Children` gives only one of its two sessions two children at a
time, since what children of one session do to each other does not reach another session. `MaxResets = 1` has failed
tasks taken up again and a completed mission reopened. `MaxCrashes = 1`: a crash leaves a file and orphans, and a
second meets the same; in `recovery` crashes are those of the server, and three of them put one below the limit, one
at it and one while the reconnection of the second is under way. `MaxPersisted = 1` with two sessions has the file
overflow. Graphs of three steps with two dependencies contain all orders of two and three steps, self-loops and
cycles. Five nodes have a branch, a join and a checkpoint before and after it. With two tasks and a token limit of
one, one completes and the other goes over the limit. The runs of a workflow do not overlap in `wf_serial`; what
holds when they do is the theorem DependenciesAlwaysFirst. The theorems of section 6 remove the bounds for the
properties they cover.

## 5 Fairness

Weak fairness only, and never of what a client, a person or an agent may do.

- GoSupervisor: of a call that has been made, a spawn (or its failure), the registration of a process, the
  handling of an exit, an armed timer (goroutines are scheduled, and the lock is fair enough for each to get it), and
  of the exit of a process that was **signalled** (an assumption on the harness: the code never repeats or
  escalates the signal). A process that was not signalled may run for ever.
- GoWorkflow: of each step of a run's sort, of the return and of each goroutine; a step that executes ends, with or
  without an error.
- ServerPool: of each call in flight: promises of connections and cleanups settle.
- AutoReconnect: of the end of each attempt and of each retry timer, as long as nothing else is done with the
  reconnections.
- CrashRecovery: of each step of a handler and of an attempt, and of the retry timers: the database, the pool and
  the health check (which has a time-out) answer. That this implies the fairness of AutoReconnect is part of
  `ImplementsAutoReconnect`.
- SwarmOrchestrator: of each step of `executeTask` (its timers fire, the limiter regains capacity, the worktree
  commands and the healer return) and of the loop that empties the queue. Nothing is assumed of agents, verifiers and
  people: that a task ends without them rests on the time-outs. A task that waits for an approval may wait for ever.
- SessionSupervisor: of each session, the timer of its runtime fires, and of the children that were signalled one
  exits. Nothing is assumed of other children, nor of timers that nobody can clear any more.
- WorkflowEngine: of each step of an activation: nodes are raced against a time-out, and conditions return.

## 6 Proofs

Every theorem is for all values of the constants that satisfy the named assumptions in the modules (None is
fresh, flags are Boolean, limits are naturals, dependency lists are lists, the entry point is a node), and the
assumptions named in the table. Only ConcurrencyIsBounded, which counts tasks, needs a set to be finite.

| Module | Theorems | Argument |
|---|---|---|
| `GoSupervisorProofs` | TypeCorrect, HandlesWatched, DriversPresent, BudgetNeverExceeded, StopAlwaysSticks; with `~LiveRestore` FileAlwaysCurrent, RefundsNever, ContractIsKept | `IInv` = TypeOK ∧ LaunchesOwned ∧ SessionOK(s) for every s. The properties alone are not inductive: that a handle is watched needs that a launch in use has an owner, that a session's timer is a launch of its own in phase timer, and which launches a transient state may rest on; one lemma per action. The budget needs in addition that what the files hold is within it; the file needs that no stale restoration waits for the lock, that it lists the newest sessions and mirrors them (`FileInv`); a stop sticks because a session stopped without a race has nothing left that could start it (`QuietlyStopped`), which only a start, a restart or a new sidecar ends. ContractIsKept is the refinement of Supervision: of every action, that what it does to a session fits its part of the contract (`OwnFits`, `ClientFits`, `CrashFits`: which starts it grants or uses up, which processes come up or end), and that what fits is such a step of Supervision or a stutter; after a crash that takes that the file mirrors the table, limits and restarts included, which a restoration that overtakes a client of a live manager would break |
| `GoWorkflowProofs` | WorkflowTypeCorrect, DependenciesAlwaysFirst; with `~MayOverlap` SerialNeverAfterFailure, SerialOverallIsHonest and, for at least one run, RunsKeepPromise | `IInv` ties the place of each goroutine to the phase of its run, to what it has waited for and to its outcome; it holds whether or not runs overlap. `SerialInv` adds that one run is under way, that in it the shared status of a step that is over is its outcome, and that a step passes no failed dependency. RunsKeepPromise is the refinement of DagRun: initial states map to initial states, and each step to a step of DagRun or a stutter. Of the search opened up: SearchTypeCorrect, SearchIsTheSort (it implements GoWorkflow) and SortIsAlwaysRight; and by composition EngineWaitsForDependencies and, with `~MayOverlap`, EngineIsHonest and EngineKeepsPromise, the properties of the run `wf_serial` of the module it runs. `SearchInv`: the open loops are nested, each over the dependencies of the step that opened it; the marks are those of the steps that were left; what the list holds comes after its dependencies. That a failing search has no order to find needs no induction over the graph: an open step waits for the one above it, so the open steps from the one met again to the top keep one another waiting, and no list can place a set of steps that does (a least place would have a smaller one) |
| `ServerPoolProofs` | PoolTypeCorrect, NeverShared, MarksHaveWorkers, FocusAlwaysHonest; with `~Overlap` NeverLeaks, HandsOutOnlyOpen and, with `SingleActive`, OneServerServed; in every mode and with any overlap NeverAnotherServer | `Typed` adds to TypeOK what each call in flight holds (`CallOK`); `PoolInv` adds that tables belong to one session and that every connection is in one place; `FocusInv` who will set the focus. These hold under any interleaving. `SerialInv` says of the one call in flight, at each place it can be, what it is about to take away: everything else that is recorded is open (neither closed nor told to have crashed), every process is held by somebody, and no other server is served. RightServer (`Leads`): what a session or the idle table has for a server is dead or leads to that server, because entries only move along one server and a new process takes an identity nobody holds (`PoolInv`) |
| `AutoReconnectProofs` | ReconnectTypeCorrect, ReconnectDriverPresent, AutomaticOneAttempt, AutomaticSuccessSticks | `Inv` = TypeOK ∧ OwnObject ∧ OwnAttempt ∧ DriverPresent: two servers never have one object, and an attempt with a server's object is an attempt for that server; without them the end of one server's attempt could take another's driver. While nothing but the automatic part is used, OneAttempt is inductive with Inv, and SuccessSticks is an action property from both |
| `CrashRecoveryProofs` | RecoveryTypeCorrect, ErrorAlwaysAnswered, RecoveryIsAutoReconnect, RecoveryOneAttempt | a mark has a handler still at work, or a reconnection that is pending, under way or given up, or the server is one of `late`. RecoveryIsAutoReconnect is the safety part of the refinement, and RecoveryOneAttempt comes with it from AutomaticOneAttempt: what is proved of the abstraction holds of the whole chain |
| `SwarmOrchestratorProofs` | SwarmTypeCorrect, AttemptsAlwaysBounded, CompletedAlwaysWorked, AttemptsAlwaysApproved, CompletedAlwaysSticks; for at least one task MissionAlwaysHonest; RecordIsKept; for finitely many tasks ConcurrencyIsBounded | `Inv` = TypeOK and, of each task, what its place says of its status (`StatusOf`), that the record agrees with it (`Synced`), that it is queued only while it is untouched (`Queued`), that the offers made are those the retries, heals and resets allow (`Counted`), that a result is one an agent gave (`Proven`), and that an approval is left for what will be offered (`Allowed`); and that the verdict is that of the record. RecordIsKept is the refinement of Mission: `LedgerInv` adds the verdict in a form that holds of a mission without tasks and of one that was reset too (`Settled`) and why a task may come to fail (`Reasons`: it goes to the healer only with its retries spent, and only a sensitive one waits for an approval), and each step is a step of Mission or a stutter. ConcurrencyIsBounded: a batch is begun only when the last one is over, and whatever comes in between begins none |
| `SessionSupervisorProofs` | SessionTypeCorrect, RunningAlwaysAlive, TransientAlwaysDriven, StopAlwaysSticks, BudgetIsNeverRefunded, ContractIsKept | one predicate of a session (`Good`) and one of its steps (`Moves`), shown of every operation. `Good` says in addition that the file shows what a restoration should read, unless a start has failed (`Filed`), and, of a session that is not `astray`, that nothing is left that its record does not name (`Alone`) and nothing that could start it once it is halted (`Rests`). TransientAlwaysDriven says nothing of "starting", which a failed spawn leaves behind. ContractIsKept, the refinement of Supervision, excuses no session: `Moves` contains what each part of Supervision allows (`OwnFits`, `ClientFits`, `RecoveryFits`), in terms of the number of starts granted (`Due`), also of a late exit and of a timer nobody can clear |
| `WorkflowEngineProofs` | WorkflowTypeCorrect, RunningAlwaysWorked, ApprovalsAlwaysRight, PauseAlwaysHolds, EndIsAlwaysFinal; for graphs without a cycle AlwaysInOrder | until a resume overlaps, at most one activation works, none while an approval is awaited, the checkpoint to be approved is the one announced, and each checkpoint has been executed at most as often as an announcement of it was approved (`Single`); a rank of the nodes that every edge raises bounds the results an execution has (`Ordered`) |

Only model-checked: liveness (TransientSettles of both supervisors, RunsReturn, CallsReturn, ReconnectionEnds,
ErrorClears, SwarmEnds, RunEnds) and the fairness part of ImplementsAutoReconnect, because fairness and ENABLED are
outside the prover's reach. That the search of `topologicalSort` ends is part of RunsReturn; that what it answers is
right is proved.

## 7 Where code and documentation part

Two runs end in a counterexample to what the repository says of itself; "findings" in `PROJECT.json` quotes it.

- `pool_discovery` (OneServer; `docs/PROJECT_STATE_AUDIT.md:7644`: "one downstream server process remains active
  at a time"): two overlapping `getSession` calls both prune before either has connected.
- `ts_parallel` (LaterSessionsIsolated; `SessionSupervisor.ts:453`: "subsequent parallel sessions get isolated
  worktrees"): `createSession` decides at line 119 and records at 163, and awaits in between; of two overlapping
  calls neither sees the other.

What the models say of the code beyond that, where nothing in the repository promises otherwise:

- Two overlapping runs of one Go workflow share `Step.Status` (`engine.go:161`): after a step failed in one run
  the other marks it running, and the first run's dependent step executes. NeverAfterFailure is therefore proved for
  runs one after the other only; DependenciesFirst holds in any case.
- A connection that is being made while its session is closed is recorded where no cleanup looks
  (`mcp-server-pool.service.ts:228`), and its process is left running: NoLeak is for one call at a time.
- A server process that ends with exit code 0, or a remote connection that drops, tells nobody
  (`process-managed.transport.ts:128`): its client stays in the tables, and `getSession` hands it out again
  (`mcp-server-pool.service.ts:169`). HandsOutOpen leaves that case out.
- A crash handler that finds an attempt under way leaves the reconnection to it, though the attempt may have cleared
  the mark before (`auto-reconnect.service.ts:147`): such a mark stays after a success.
- The healer that the server passes to the swarm has no method `heal` (`SwarmOrchestrator.ts:755`), so with it the
  heal throws and the task stays "healing".
- An exit of an earlier child is taken for that of the present one by the TypeScript supervisor (480), and a timer
  may outlive its session's restoration: StopSticks is false for those sessions, and excuses them.
- A stop that is not over when the TypeScript supervisor is restored or dies is undone: "stopping" is read as
  "restarting" and the session is started (605-608, 386-389).
- A spawn that throws leaves a session of the TypeScript supervisor "starting", without a child of its own or a
  timer, and the file behind (193, 204): nothing but a client's request or a restoration takes it further.
  TransientSettles therefore speaks of stopping and restarting only.
- `MissionService.resumeMission` (165) makes a mission active even when all its tasks are completed: MissionHonest
  says so.

What holds nevertheless shows how far this goes: with overlap the order of steps, the separation of connections
(NoSharing) and the honesty of marks and focus stay.

## 8 Not modelled

By far most of the repository's lines are interface, adapters, I/O and vendored code, so the share of them that the
models cover is small; what is modelled is where the order of events decides.

- User interfaces, extensions, CLI: no logic of the system. HTTP handlers and tRPC routers: decoding; what they call
  is modelled where it lives. Storage, importers, providers: I/O. Model-driven pipelines: their state is text.
  Vendored and archived code.
- The Go process manager (`manager.go:166`: the exit of a replaced process deletes its successor's entry), whose
  hazard is listed; the legacy queue workers; the cache, the A2A broker, the event bus and the mesh, each a few maps
  behind one lock; the tool working set and the native router, sequential and within reach of tests; council and
  quota.
- Within the modelled components: logs, health, the monitor and write errors of the Go supervisor; the registry of
  Go workflows and what steps pass on; the pool's methods that nothing calls (`cleanupAll`, `setLifecycleModes`,
  `ensureIdleSessions`, `ensureIdleSessionForNewServer`, `cleanupIdleSession`) and its timeline; totals, listeners
  and delays of reconnections; health states and the retries inside one connection; `decomposeTask`, and a second
  orchestrator resumed, or a mission reset by `MissionService.resumeMission`, beside one at work; the worktree left
  after a success (`SwarmOrchestrator.ts:721`); the pseudo-terminal supervisor that shares the session file
  (`MCPServer.ts:540`) and the shutdown of the TypeScript supervisor; rollback, history and events of the TypeScript
  workflow engine, and an edge condition that throws (`WorkflowEngine.ts:636`).
