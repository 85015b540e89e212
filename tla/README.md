# TLA+ verification of DuoDuo Code

DuoDuo Code is an AI coding agent: a TypeScript server with its user interfaces
(`packages/`) and a Rust service, the "smart layer" (`crates/`). A prompt enters
the TypeScript server, which hands the turn to the run loop of the Rust service,
executes the tools the loop asks for, and asks the user for consent where the
rules say so. Sessions are event logs that may move to remote workspaces. Where
several agents work on one code base they coordinate through the *blackboard*, a
SQLite database with file locks, versions, drafts and notifications. The modules
here are about the parts whose correctness depends on interleavings, time-outs,
restarts and lost messages.

Contents: [inventory](#inventory) · [modules](#modules) · [runs](#runs) ·
[fairness](#fairness) · [proofs](#proofs) · [what does not hold](#what-does-not-hold) ·
[limits](#limits) · [not modelled](#not-modelled) · [plan](#plan)

## Inventory

The TypeScript server (`packages/duoduo/src`) and the run loop it drives:

| Component | State | Operations | What is hard | What makes it correct |
|---|---|---|---|---|
| **Agent turns** `session/prompt.ts` | abort flags and loop owner per session, overflow counter of the layer, locals of `delegateToRust` | prompt, delegate, snapshot, event stream, poll, probe, watchdog, tool execution, compact-and-retry, output retry, cancel | one poll loop reads rows another process writes; events and results get lost; the stop button lands between any two awaits | a turn ends whatever is lost; a call is executed once |
| **Rust run loop** `duo-smart-layer/src/agent.rs` | runs registered per session, the session lock, tool waits, rows and parts in SQLite | run_loop, tool_result, cancel; rounds, delegation, stop marker, terminal event, clean-up | a second prompt supersedes a run that is still alive; cancellation meets every await | a live run can be cancelled; no part stays open |
| **Session event log** `sync/index.ts`, `session/projectors.ts` | `event` and `event_sequence` tables, projected rows | run, replay, process, remove | an event is two commits, in `run` and in a replay; replays are repeated and cut short | logs are copies of one; no event is logged without its rows |
| **Workspace control plane** `control-plane/workspace.ts`, `server/proxy.ts`, `server/fence.ts` | connection status and controllers, sync loops, fences | sessionRestore, startSync, the loop, removal, forward and wait | several loops for one workspace; a stream opens after its history was read | nothing is missed on a stream; a client reads its own writes; a lagging copy catches up |
| **Permissions and questions** `permission/`, `question/`, `project/instance.ts` | pending requests, approvals, allowedPaths | ask, reply once / always / reject, time-out, interruption, reload | one reply settles other requests; approvals live in three places | nothing goes ahead without consent; every request ends |
| **Session runner** `effect/runner.ts`, `session/run-state.ts` | one state per runner, the map of runners, session status | ensureRunning, startShell, cancel | a cancel returns long after it took the state; a new runner may exist by then | no fiber is lost, no caller waits in vain, no session stays busy |
| Sessions and messages, tools, providers, MCP, LSP, PTY, instances, storage, HTTP, CLI, apps | | | rows, I/O, formats, user interface | see [not modelled](#not-modelled) |

The blackboard (`crates/`):

| Component | State | Operations | What is hard | What makes it correct |
|---|---|---|---|---|
| **File locks** `file-lock-manager/src/lock_manager.rs` | `file_locks` rows (persistent), wait queues (memory, one mutex) | acquire_locks, release_lock, release_all_agent_locks, force_release, grant_to_next_in_queue, check_expired_locks, recover_from_crash; `FileLockGuard` in the coordinator | every store call and mutex section interleaves; the hand-off pops, then grants; the sweep works from a snapshot; queues die with the process | two agents work on one file only if the sweep took it from one; a waiter is never forgotten; blockages end |
| **Write path** `blackboard-coordinator/src/coordinator.rs`, `optimistic_lock.rs`, `submission_manager.rs` | the file on disk, `file_versions`, `agent_submissions`, `serial_queue`; conflict counters and backoff in memory | submit_stable_with_write (eight phases), submit_stable, read_file, promote_draft, serial / backoff / lock ticks | the disk and the store are two resources; content and version are read at two moments; the lock may expire under the writer; a refused writer is in the wait queue for a moment | edits are merged, not lost; disk and store agree; versions are unique; no way out of a call keeps the lock |
| **Circuit breaker** `circuit_breaker.rs` | `state`, `counters`, `config` behind three tokio RwLocks; conflict samples in the store | is_tripped, record_*, check_conflict_rate, try_recover, trigger | nested locks under a fair RwLock; check-then-act in the recovery | methods return; excess is never left untripped |
| **Change notifications** `notification_manager.rs` | `change_notifications` rows, `pending_acks` in memory | notify_file_change, acknowledge_notification, check_ack_timeouts, recover_from_crash | acknowledgements overtake insertions; the sweep fails half way; restarts | within a process, at least once up to the limit; bounded deliveries; no leak |
| **Blackboard store** `blackboard-store/src/store.rs` | the SQLite tables | one IMMEDIATE transaction per call on a write pool of one connection | | each call is atomic: the grain of every module |
| Conflict degradation, agent states | counters, InBackoff | record_conflict, reset_counter, enter_backoff, expire_backoffs | | part of the write path |
| HTTP routes `duo-smart-layer/src/routes/blackboard.rs` | a coordinator per request | init, read, submit, promote, list, … | requests of several agents interleave; nothing in memory survives a request | the store's guarantees alone |
| Wait graph, fault handler, dependency adapter, scope enforcer, public resources, parallel executor, scheduler, project task lock, session manager, permission rules, prompt cache | tables and memory | | queues, limits, cancellation | not modelled yet |

How they interact. The TypeScript server writes the user's message, takes a
snapshot of the last assistant row, and POSTs the turn to `run_loop`. The Rust
loop writes assistant rows and tool parts into the same SQLite database, sends
its terminal event over a stream, and leaves tools it does not run itself as
*pending* parts; the TypeScript poll finds them, executes them (asking
**permissions** on the way) and POSTs the results back. Neither side trusts the
stream: the poll, a liveness probe and a watchdog are three more ways in which a
turn ends. A **session runner** keeps shells and runs of one session apart. Every
change of a session is an event in its **log**, which a **sync loop** copies
between the control server and a remote workspace; a proxied request waits at a
fence for its own event.

The agent loop creates one coordinator per run (`create_session`) and calls
`submit_stable_with_write` for every edit. That call declares its intent (circuit
breaker, agent state, then **file locks**), runs the **write path** under the
lock, and on success releases the lock and **notifies** the agents that depend on
the file. A background task of the coordinator ticks: it force-releases expired
locks, re-delivers notifications, ends backoffs, checks the conflict rate and
works off the serial queue. The TypeScript tools reach the same operations over
HTTP; each request builds a fresh coordinator over the database of its prompt, so
its conflict counters, backoff, breaker and queues start empty and are dropped
with the request.

`PROJECT.json` lists all components with their sources, the hazards at their
lines, and the code each definition stands for (`map`).

## Modules

| Module | Models | |
|---|---|---|
| `AgentTurn` | prompts of one session, the Rust runs they start, and what passes between them | one action per await of the turn or step of the run |
| `AgentTurnProofs` | | types, cancellability, settled parts, calls executed once |
| `WorkspaceSync` | the event log of one session on the control server and in a workspace, restore, sync loops, proxy | crashes of both sites, torn commits, lost requests, broken streams |
| `ReplicatedLog` | *abstract*: one log and its copies | what sync promises |
| `WorkspaceSyncProofs` | | types, crash consistency, streams, restores, fences, `ReplicatedLog` |
| `Consent` | permission requests and questions | one action per reply, time-out or ask |
| `ConsentProofs` | | consent, rejection |
| `SessionRunner` | runners of one session, their calls and cancels | one action per transition of the runner's state |
| `SessionRunnerProofs` | | no fiber lost, no waiter unanswered, no session left busy |
| `FileLocks` | the lock manager over the lock table | 30 actions, one per store call or mutex section |
| `FileLease` | *abstract*: a table of leases | what the lock manager promises its callers |
| `FileLocksProofs` | | types, mutual exclusion, waiters, `FileLease` |
| `WritePath` | how agents change one file | one step per store or file-system call |
| `EditRegister` | *abstract*: a register to which edits are applied one by one | what the write path promises |
| `WritePathProofs` | | types, versions, locks, disk and store, `EditRegister` |
| `CircuitBreaker` | the breaker at the level of its RwLocks | one step to ask for a lock, one to get it |
| `CircuitBreakerProofs` | | types, no lost trip |
| `Notifications` | publisher, acknowledger and sweep over rows and `pending_acks` | |
| `NotificationsProofs` | | types, at least once, bounded |
| `MCFileLocks`, `MCWritePath`, `MCCircuitBreaker`, `MCConsent` | constants for TLC | |

Definitions whose name has an underscore suffix (`GiveLock_Replace`) are plausible bugs of
the definition that follows; each property is shown to notice one.

**AgentTurn.** `pc[t]` says at which await of `delegateToRust` turn `t` is;
`prev`, `handled`, `exec`, `gone`, `sseDone`, `ladder`, `result` are its locals,
`inbox` the first terminal event its stream has carried. `loop[r]` is where
`run_loop_handler` is in run `r`; `current` is the session's entry in the map of
running loops, `cancelled` its tokens, `waiting` the registered tool waits, `msgs`
the assistant rows, `part` the tool parts. `Delegate`, `MarkRust`, `PostRunLoop`,
`Snapshot` start a turn; `Connect` and `ReceiveEvent` are the stream; `PollAborted`,
`PollEnded`, `Probe`, `ProbeGone`, `Watchdog`, `PollFinished` the ways out of the
poll; `Collect`, `ExecuteTool`, `ToolsDone` the tools; `Settle`, `CompactAndRetry`,
`OutputRetry`, `EndTurn` what follows. On the Rust side `TakeLock` or `RefuseRun`,
then rounds: `BeginRound`, and the model answers (`LastRound`, `ConfirmRound`,
`ToolRound`), hangs (`Hang`), refuses (`RequestFails`) or breaks off
(`StreamBreaks`, `FailedRound`); a call goes through `MarkRunning`, `RunNatively`
or `DelegateCall`, `AwaitResult`, `ResultArrives`; `StopMarker`, `EndRun`, `LeaveRun`
end it. `PressStop` and `CancelRunLoop` are the abort route. What the model
answers is free; a row is its run, its finish reason and its error. `run_loop` takes
the slot, and cancels the run that has it, before it looks at the session
(`Register`): a session that is not there gives the slot back and rejects the
request (`RejectRun`), one that cannot be read (the `?` at `agent.rs:3102`) keeps it,
as a run that never begins.

**WorkspaceSync.** `log[s]` is the event table of a site and `proj[s]` the set of
events whose rows it has stored. An event is committed to the rows first and to the
log second; `Tear` (in a replay) and `TornRun` (in `run()`) are what is left when the
second commit does not happen, because it fails or because the process dies there.
A replay may end between two events as well (`CutOff`). `Crash` ends the control
server with its loops, its restore and its fence, `WorkspaceCrash` the workspace:
its open streams deliver what they hold and nothing more (`closed`). `Faults` selects
the kinds of faults: `crash`, `commit`, `stream`, `request`. A loop is `LoopTop`,
`ConnectSSE`, `FetchHistory`, `ReplayHistory`, `StreamEvent` until `StreamEnds` or
`SyncFails`, then `Wake`; two loops may run for one workspace, as `startSync` does not
exclude it, and they share one controller entry (`aborts`) and one status.
`RestoreStart`, `RestoreBatch` and `RestoreFails` are `sessionRestore`; `Forward`,
`FenceOpens`, `FenceTimeout` a proxied request; `RemoveSessions`, `StopSync` a removal.

`SingleWriter` has two parts. A session is changed only where it lives: that is what
`sync/README.md` demands of callers. And nobody changes it while a restore is under way
or has failed. The second part is more than that document asks for, and the code does
not provide it: from `workspace.ts:158` on requests are routed to the workspace, whether
or not the rows have arrived there. Without it the workspace may append events of its
own to a log whose beginning is still on its way, and the copies diverge.

**Consent.** A request has a session, a kind, resources, the patterns "always"
would allow, and the ruleset it was asked under; `approved` are the approvals of
the instance, `paths` its allowedPaths. `ReplyOnce`, `ReplyAlways`, `ReplyReject`
settle the request and, as the code does, others. `once`, `granted`, `given` and
`struck` are history variables: what the user said, what a turn brought along,
and which requests the rejection of another one struck.

**SessionRunner.** `st` is the SynchronizedRef of each runner, `registered` the
entry in the map of runners. A cancel takes the state in one step and interrupts,
answers and returns in later ones (`CancelFiber`, `CancelBoth`, `AnswerQueued`,
`CancelReturns`), while calls find an idle runner or create a new one.

**FileLocks.** `lock` is the `file_locks` table, `queue` the wait queues; `pc`,
`todo`, `op`, `popped` are the program counters and locals of the calls in
flight, one per agent and one for the sweep. `TryLock`, `EnqueueWait`, `Settle`,
`UndoLock`, `Requeue` are `acquire_locks`; `ReleaseLock`, `PopWaiter`, `GiveLock`,
`PutBack` are `release_lock` and its hand-off; `StartDrop`, `DropGuard` the guard's
`Drop`; `ReleaseAll`, `Purge` what a fault does; `Age`, `SweepSnapshot`,
`ForceRelease` the expiry sweep; `Crash` is the restart and `RecoverFromCrash` the
recovery that may follow it. (The coordinator's comment, `coordinator.rs:376`, says
"Call this on startup"; only `integration_tests.rs:602` does, so a restart without it is
what production sees. The model has both.)
`AcquireFails`, `ReleaseFails`, `GrantFails`, `ForceFails` are the `?` and the logged
errors. Time is a set `old` of rows that have passed `lock_timeout_secs`.
`stripped` is a history variable: which files the sweep took from which agent.

**WritePath.** One file. A content is the *set of edits* in it: `edit_file` adds its
edit to the content it finds, `write_file` replaces the content. That is enough to
tell a merged write from a lost one. `BeginWrite` … `Release` are the phases of
`submit_stable_with_write`, with `Validate`, `Commit`, `StoreStable`, `Finish`,
`Report`, `Conflict` inside `submit_stable`; syntax, scope and dependency checks
are a free refusal. `lock` is the owner in the file's row. A call that finds it taken
is refused in three steps, as in the code: `BeginRefused`, `EnqueueWait`, `GiveUp`.
A release pops a waiter (`ReleaseLock`, `Pop`) and gives it the row in a later step,
whatever it does by then (`HandOver`, `HandOverFails`). `RegisterFails` is the rollback
of a declaration; a failing release is logged and keeps the row (`KeepRow`), and
`FileLockGuard::drop` serves no waiter (`DropGuard`). The order of the queue is left to
`FileLocks`: any waiter may be next. HTTP agents (`DirectSubmits`, `Promotions`) work on
the same board: the routes take any prompt id, the session's own too. `OwnCoordinator`
says that their conflicts leave no counter and no backoff and that their wait queue is
empty. `reported`, `found` and `stray` are history variables; `stray` marks a row that
no call will give back, because a hand-over gave it to an agent that was not at work or
because its release failed.

**CircuitBreaker.** tokio's RwLock is fair, so asking (`Await`) and getting
(`Locked`) are separate steps with a FIFO queue per lock. Thresholds are a half;
the window of 50 samples is `Window`.

**Notifications.** `pending` maps tracked rows to their retry count; the sweep is
one step per entry it looks at and per row it creates. `Restart` leaves an empty map, as
`NotificationManager::new` does; `RecoverFromCrash`, which no production code calls, may
follow before the new process does anything else. `before` is the number of changes
published before the restart and not recovered: the process knows of the later ones
(`Known`).

## Runs

States are distinct states; `tlc -workers 2 -config <cfg> <module>`. The module and
the configuration of each run are in `PROJECT.json`.

| Run | Instance | Checks | Shows |
|---|---|---|---|
| `agentturn_overlap` | 2 prompts, 2 runs of 1 round, failures, symmetry; 3.5 M | `TypeOK`, `Cancellable`, `PartsSettled` | a superseded run's clean-up takes nothing from its successor |
| `agentturn_retries` | 1 prompt, 2 runs, a hung model, one stop, both retries; 0.2 M | `ExecutedOnce`, `TurnEnds` | a turn ends over everything that can be lost |
| `workspacesync_faults` | 2 loops, batches of 2, 3 events, 2 faults of any kind; 1.7 M | `TypeOK`, `CrashConsistent`, `StreamCovers`, `RestoreComplete`, `ReadYourWrites`, `ImplementsLog`, `CaughtUp` | the two logs are copies of one |
| `workspacesync_proxy` | 1 loop | `ForwardedWhileSyncing` **violated** | see below |
| `consent_replies` | 3 requests, 2 sessions, 2 resources, 1 reload, turns with directories; 0.6 M | `TypeOK`, `Consented`, `RejectionCovers`, `RequestsEnd` | replies that settle other requests allow nothing more |
| `sessionrunner_cancels` | 4 calls, 2 cancels, 4 runners; 0.5 M | `TypeOK`, `KnownToRunner`, `WaitersAnswered`, `NotLeftBusy`, `CancelsReturn` | late cancels lose no work and no caller |
| `filelocks_two_files` | 2 agents, 2 files, lists in any order, expiry, 2 declarations; 1.0 M | `WaiterAccounted`, `ImplementsLease`, `BlockageEnds` | rollback and hand-off lose nobody; cycles and ghost locks end |
| `filelocks_errors` | 3 agents, 1 file, 4 declarations, crashes, store errors; 0.3 M | `TypeOK`, `MutualExclusion`, `ImplementsLease` | exclusion survives every `?` |
| `writepath_locked` | 3 agents, 5 attempts, no expiry; 0.9 M | `TypeOK`, `DiskAgrees`, `RefusalRestoresDisk`, `ImplementsRegister` | under the lock the write path is atomic |
| `writepath_shared` | 2 agents, 3 attempts, everything on; 10.2 M | `UniqueVersions`, `NoStrandedLock` | the compare-and-swap alone keeps versions unique; no way out of a call keeps the lock |
| `circuitbreaker_races` | 1 writer, maintenance, operator; 0.4 M | `TypeOK`, `ExcessTrips`, `CallsReturn` | no deadlock, no lost trip |
| `notifications_sweep` | 2 changes, 1 retry, 5 rows, 1 fault; 0.8 M | `TypeOK`, `DeliveriesBounded`, `NotForgotten`, `UnackedLeaves` | within a process: at least once, bounded, and drained |

Bounds. They stand in the guards and cap what would grow for ever: `MaxRuns`,
`MaxRounds`, `MaxCancels`, `LadderLength`, `MaxOverflow`, `ConfirmLimit`;
`MaxEvents`, `MaxFaults`; `MaxReloads`; `MaxRunners`; `MaxDeclares`, `MaxEdits`,
`MaxSerial`, `MaxChanges`, `MaxRows`. Why they are enough:

* Two runs are a run and its successor, whether another prompt or a retry starts
  it; one round reaches every way out of a round, and a confirmation round adds a
  second request within a run. Retry counters of 1 are used up in the run (the code
  has five ladder steps and three overflow retries).
* Three events over batches of two make a restore of two requests, so that one may
  fail after the other arrived; two faults give a torn write followed by a crash, or
  a crash by a broken stream; two loops are the least that share a controller.
* Three requests in two sessions are one that is answered, one it settles and one
  it must leave alone. Four calls are a shell, a run queued behind it, one that
  joins, and one that arrives after the cancel; two cancels overtake each other.
* Three agents give an owner, a waiter and a third that takes the file during the
  hand-off; two files in both orders give half-granted declarations and cycles;
  three attempts give a conflict, a retry and, with a promotion, the serial queue
  (`SerialAfter` is 2 there, 3 in the code), five a writer, two that are refused, and
  writers after the hand-over; two faults of two agents exceed both
  thresholds of the breaker; two changes with one retry use up their deliveries.

Symmetry is used in safety runs only. `CHECK_DEADLOCK FALSE` stands where the
system may rest: when every prompt, call or request is over or a bound is used up.
The circuit breaker has no such state and is checked for deadlock.

## Fairness

* **AgentTurn**: the poll, the tools and the retry of a turn go on (fibers of one
  process; a tool ends within its five minutes or fails); the probe and the
  watchdog are timers; a run that does not hang takes its next step (tokio polls
  every ready task, and each await of the loop has a limit or a cancellation
  branch). Nothing is assumed of the event stream, of the model or of the user: an
  event may never arrive and a hung model never answers.
* **WorkspaceSync**: a loop that was started goes on; its sleep is a timer. Restores,
  requests and removals are not fair.
* **Consent**: the time-out of a permission fires; a question has no timer of its own
  and ends, if the user never answers, with the five minutes of the tool that
  asked it (`Interrupt`).
* **SessionRunner**: an interrupted fiber ends and a cancel's next step happens.
  Uninterrupted work may run for ever.
* **Blackboard**: started calls go on (`WF` of `CallStep`, `Grant`, `MethodStep`;
  `SF` of `Track` and `Clear`, which need an async FIFO mutex that the sweep takes
  again and again); the clock and the maintenance loop go on (`WF` of `Age`,
  `Sweep`, `SweepStep`; `SF` of the breaker's `SerialTick`, which shares its task
  with the rate check). What agents decide and what fails is never fair.

## Proofs

All safety properties of the passing runs are also theorems: for every value of the
constants, any number of agents, prompts, runs, events, rows and faults. What is
assumed is the named ASSUME of each module (`AgentTurnAssumption`,
`ConsentAssumption`, `RunnerAssumption`, `FileLocksAssumption`,
`WritePathAssumption`, `SyncAssumption`, `NotificationsAssumption`,
`CircuitBreakerAssumption`): the bounds are numbers, switches are Booleans, a special
value is no member of the set beside it. Where a property does not hold in every
setting the hypothesis stands in the theorem, over the constants that switch the
disturbance on; the runs check the property in that setting too.

| Theorem | States | Under |
|---|---|---|
| `FileLocksProofs!TypeCorrect`, `Exclusion` | `[]TypeOK`, `[]MutualExclusion` | |
| `FileLocksProofs!NoWaiterForgotten` | `[]WaiterAccounted` | `~StoreFails` |
| `FileLocksProofs!Refinement` | `FileLocks` implements `FileLease` | |
| `AgentTurnProofs!TypeCorrect`, `AlwaysCancellable`, `PartsAreSettled` | `[]TypeOK`, `[]Cancellable`, `[]PartsSettled` | |
| `AgentTurnProofs!CallsExecutedOnce` | `[]ExecutedOnce` | one turn (`Alone`) |
| `ConsentProofs!TypeCorrect`, `ConsentHolds`, `RejectionHolds` | `[]TypeOK`, `[]Consented`, `[]RejectionCovers` | |
| `SessionRunnerProofs!TypeCorrect`, `NoFiberLost`, `NobodyWaitsInVain`, `SessionNotLeftBusy` | `[]TypeOK`, `[]KnownToRunner`, `[]WaitersAnswered`, `[]NotLeftBusy` | |
| `WritePathProofs!TypeCorrect`, `VersionsAreUnique`, `NoLockStranded` | `[]TypeOK`, `[]UniqueVersions`, `[]NoStrandedLock` | |
| `WritePathProofs!DiskAgreesWithStore`, `WritePathImplementsRegister` | `[]DiskAgrees`; `WritePath` implements `EditRegister` | `Undisturbed` |
| `WritePathProofs!RefusalRestores` | `RefusalRestoresDisk` | `Undisturbed`, `~UnknownOnDisk` |
| `WorkspaceSyncProofs!TypeCorrect`, `CrashesTearOneWay`, `StreamsCover` | `[]TypeOK`, `[]CrashConsistent`, `[]StreamCovers` | |
| `WorkspaceSyncProofs!RestoresAreComplete`, `FenceReadsYourWrites`, `SyncImplementsLog` | `[]RestoreComplete`, `ReadYourWrites`; `WorkspaceSync` implements `ReplicatedLog` | `SingleWriter` |
| `NotificationsProofs!TypeCorrect`, `NoChangeForgotten`, `RedeliveryIsBounded` | `[]TypeOK`, `[]NotForgotten`, `[]DeliveriesBounded` | |
| `CircuitBreakerProofs!TypeCorrect`, `ExcessAlwaysTrips` | `[]TypeOK`, `[]ExcessTrips` | |

**File locks.** The inductive invariant `IndInv` is `TypeOK`, `LoopInv` and `OwnInv`.
`MutualExclusion` speaks of agents that *have been told* they hold their files;
that this is true depends on what the call saw several steps before. `OwnInv`
carries it along: a declaration in progress owns each file it has acquired, or
lost it to the sweep; a declaration that was rolled back can no longer be taken
for a complete one (`got # declared`), which is why the rollback may delete rows;
a granted one owns all its files. No step of another process deletes a row of an
agent without recording it in `stripped`: releases name their agent, and a
grant needs a free row (`KeepsOthers`, `OthersOwn`). `LoopInv` says that a loop
is at a file and a hand-off has a waiter, without which `Cur` and `popped` mean
nothing. The refinement then needs only `IndInv` and one step per action: `Take`,
`Enter`, `GiveBack`, `Leave`, `Revoke`, `Restart`, `Clear` or a stutter, under the
mapping owner ← `lock`, inside ← the files of a granted declaration, revoked ←
`stripped`. `WaiterAccounted` speaks of an agent after its call returned; `WaitInv` says
the same of each file while the call is under way: the file is still ahead of the
loop (`Ahead`) or accounted for already, in the queue, in a hand-off, as a lock or as
a file the sweep took (`Accounted`). What other processes do to a file moves a
waiter from one of these places to the next. A store error in the middle of a
hand-off drops the waiter, hence `~StoreFails`.

**Agent turns.** `IInv` is `Shape` (the types the argument needs), `Unstarted` (runs
that have not been started hold nothing), `Cancellable` and `OpenParts`. The last is
the strengthening of `PartsSettled`: a part may be open only while its run is at
the place that will close it, so that each way out of a run, cancelled waits and
refused requests included, finds nothing open. `Cancellable` needs that a new run
cancels the one in the slot before it takes the slot, and that clean-up empties
the slot only of the run itself; a rejected request obeys both. `Typed` and `Counted` add that rows are never
deleted, so the places turns remember stay places.

`ExecutedOnce` is the one that is not local. `handledCallIDs` is a local of one poll
and a retry of the turn starts with an empty one; what protects a call is that
nothing that was handed out is still open when a retry starts. A retry needs an
error row of an overflow or an output limit (`Retried`). A run never stores one
(`BrokenPlainly`), so the poll wrote it, told so by a terminal event (`Over`): the run
that sent it has ended, the session lock allows no other one to be at work
(`OneHolds`), and every run that still waits for the lock is cancelled, because the slot
belongs to the run the turn follows or to nobody (`Follows`, `Cancellable`). Such a run
never opens a part again (`Still`). `ErrorsLast` and `Results` carry this to a turn that
returns an old error row after a stop, `Known` is the statement for the poll, `Fresh`
and `Busy` say that parts are inserted once and stay open in the middle of a
call. With two turns the property is false: each has its own `handledCallIDs`.

**Consent.** `IInv` is `TypeOK`, `Consented`, the origin of each approval
(`ApprovalsGranted`: what is in `approved` was granted by the user or stored;
`PathsGranted`: what is in `paths` was granted as a directory or came with a turn),
and `StruckOver`: a request struck by a rejection is over, so no later reply
revives it. A reload falls back to the stored approvals; the consent behind a
request that went ahead is in the history and stays.

**Session runner.** `IInv` adds to `KnownToRunner` where everything is: a runner
holds only calls of its own, at work or queued behind its shell (`Placed`, `Held`);
what a cancel has taken out of a runner is in no runner any more (`TakenOut`);
callers wait for runs that are live or queued (`Joined`), and a queued run is in
its runner or about to be answered by a cancel (`Queued`). `WaitersAnswered` follows
from these. `NotLeftBusy` needs `BusyRegistered` and `IdleLeaves`: the status is busy
only while a runner is registered, and a registered runner that is idle has a
cancel that will take it out.

**Write path.** In every setting `IInv` is `TypeOK`, `HasContent` (a call that goes to
commit has computed a content), `LockInv` (the row belongs to a call that will
release it, or is `stray`) and `VersionInv`. The last relates the versions that were reported to those
that are committed and not reported yet: they differ from each other, and none is
later than the store's. It needs no lock: it holds by the compare-and-swap while
locks expire and agents write past them. `Undisturbed` (locks do not expire, the store
does not fail, nobody submits directly or promotes) is what the register needs:
`LInv` says for each step of the call under the lock what it knows (`Knows`): until the
write the disk is what the store has (`Agree`), from the write on it is the content the
call wants, and that is its edit applied to what it found (`Wanted`). The version cannot
move in between, so the commit is the register's one step; a refusal rolls back to
what the store has. A stray row stops writers and changes nothing. `Numbered` and `HasStable` make each edit new and give the rollback a
row to read.

**Workspace sync.** `IInv` is `TypeOK`, `PostingInv` (a restore posts rows
the control server has), `SingleEvents`, and `StreamCovers` with its counterpart one
step earlier, `HistoryCovers`: while the history is being replayed, an event is in the
history or already in the stream. That is where connecting before asking
matters. With one writer at a time (`SingleWriter`) `SInv` says which site leads:
control until a session is moved and while a restore is under way or failed, the workspace
otherwise; the other log is a prefix (`Leads`). Every message in a stream or in hand
is a piece of the workspace's log (`Genuine`), so that replays, in whatever order
several loops make them, copy and never invent; a failed restore that is repeated
finds a prefix at the other end (`RestoreInv`); and a waiting request's event is at
its place (`FenceInv`), which is why comparing numbers is enough. Each action then is
a step of `ReplicatedLog` or a stutter.

`CrashConsistent` is an induction of its own over `IInv`. A step that stores events in
order leaves every logged event projected (`LoggedStored`) and adds nothing to `Ahead`, the
events projected and not logged; a torn one adds one event, at one site, and is a fault
(`AheadStep`, `FaultsCount`). What is torn in `run()` stays in `Ahead` for good, so the number
of faults is the bound, and no constant is.

**Notifications.** `IInv` is `TypeOK`, `RowsInv`, `CountInv` (a retry count stands for rows
that were created), `SweepInv` (what the sweep gathered under the mutex is still
true when it applies it), `ClearInv`, `StartInv` (without faults every change is known) and
`NotForgotten`. The bound needs the opposite
inequality: `ExactInv`, that one row of each change is tracked and its count is exact,
which a fault destroys for good, hence `faults = 0`, and `OnceInv`, that a sweep moves
an entry once, which faults do not touch.

**Circuit breaker.** `ExcessTrips` names three places of the reporter; `TripInv` separates
them, as a failure is on its way over `failConfig` and a crash over `crashConfig`: with the
two joined, the invariant would not be inductive. `QueueInv` says that a process that
waits is in the queue of the lock its step needs, and `ReportInv` that a count read before
asking for a lock is current, since one process counts.

Model-checked only: liveness (`TurnEnds`, `CaughtUp`, `RequestsEnd`, `CancelsReturn`,
`BlockageEnds`, `CallsReturn`, `UnackedLeaves`; fairness and ENABLED are beyond the
prover) and the statements below that fail.

## What does not hold

One run states what the code means to do and shows it doing otherwise
(`findings` in `PROJECT.json`):

* **`workspacesync_proxy`.** A request is forwarded to a workspace nobody follows.
  `proxy.ts:106` negates the result of `isSyncing`, which is an async function
  (`workspace.ts:387`): a promise, so the answer 503 is never given, and the
  request's fence runs into its time-out.

Other statements that fail are kept in the modules, unchecked, beside the properties
that hold; adding one to a configuration gives the trace.

| Statement | Fails because |
|---|---|
| `AgentTurn!FinishedMeansOver` | a round that ends with `stop` may be followed by a confirmation round (`ConfirmRound`); the poll takes its row for the end of the run (11 states), and nobody executes what the run delegates afterwards |
| `AgentTurn!OwnedByRust` | two prompts of one session share one owner flag; the first to end gives it back (`prompt.ts:3017-3022`; 7 states) |
| `AgentTurn!OneErrorRow` | a stream error emits `loop_error` (`agent.rs:4980`) before its row is stored; a poll in between stores a second error row of its own (12 states) |
| `AgentTurn!OverflowRecovered` | an HTTP error that says the context is too long breaks out at `agent.rs:4876`, before the check at 4992; the provider's text lacks the word `context_overflow`, so the turn is not compacted and retried (14 states). Errors of the stream parser never match that check, so the row it would write is unreachable and not modelled |
| `Consent!OnlyApprovedPaths` | a turn may bring directories that no approval covers into allowedPaths (`UpFront`; `prompt.ts:3167-3170`), while the comments at `project/instance.ts:248-250` and `permission/index.ts:340-341` say that only approvals fill it |
| `SessionRunner!OneShell` | `onIdle` deletes whichever runner is registered (`run-state.ts:56-59`): the late return of a cancel on an old runner unregisters the runner of a newer shell, and the next call starts another shell beside it (9 states) |
| `WorkspaceSync!ImplementsLog` with `SingleWriter = FALSE` | a session changed at both sites diverges; `sync/README.md` forbids it and nothing enforces it |
| `FileLocks!NoGhostGrant` | a waiter that gives up between being popped and the grant is handed the lock; the sweep takes it back (`BlockageEnds`) after the full time-out. In the write path every refused writer is such a waiter: `coordinator.rs:1178-1192` enqueues it and removes it again, and a release in between pops it (`stray`) |
| `WritePath!NoStrandedLock` without `~ stray` | the same hand-over, and a release the store fails (`coordinator.rs:92-103`, 122-131): the row stays until the sweep |
| `Notifications!NotForgotten` for all changes | a restart begins with an empty `pending_acks`, and nobody calls `recover_from_crash` |
| `WritePath!NoLostUpdate` with expiry | the disk is read before the base version; if the lock expires in between and another writer commits, the version matches and the other edit is gone |
| `WritePath!RefusalRestoresDisk` with `UnknownOnDisk` | a refused edit of a file that existed before the session and was never submitted removes it: "no row" is taken for "did not exist" |
| `CircuitBreaker!BreakerRecovers` | a breaker tripped by the conflict rate denies the writes whose samples would lower the rate, and serial ticks record none |

Met while modelling, in the model but not the subject of a property of their own
(the hazards name most of them):

* *Turns.* A stop during the pre-flight does not cancel the run that is posted
  afterwards; a stop during a compaction or between retries is erased by
  `abortedSessions.delete` (`prompt.ts:2540`). A tool result that arrives before the
  wait is registered is lost, and the run waits ten minutes. Between `pending` and
  `running` the TypeScript side may execute a tool that Rust runs itself
  (`agent.rs:5903-5953`). A failed compaction still retries (`prompt.ts:3076-3082`);
  `overflowRetries` belongs to the layer and is never reset (2528). The probe asks
  about the session, not about the run (2277-2302). A request that `run_loop` rejects has
  cancelled the session's run by then (`agent.rs:3095`), and one whose session cannot be
  read leaves its entries in the slot.
* *Sync.* A torn `run()` leaves rows at its site whose event is in no log: the other
  site never gets it, and its number is given to the next event. A crash that tears a creation leaves a row that makes its event
  unreplayable for ever (`projectors.ts:64-65`), which is why `CaughtUp` excludes
  `Torn`. A failed replay of a stream event is only logged (`workspace.ts:544`).
  `setStatus("error")` deletes the controller of whichever loop (347-349). History
  brings a removed session back. Restoring a session whose copy lags diverges. The
  fence compares sequence numbers and nothing else.
* *Consent.* "Always" overrides a deny of the configuration; approvals are not
  written to `PermissionTable`; stored approvals of directories are not mirrored into
  allowedPaths.
* *Runner.* A reused runner keeps the `onInterrupt` of its first creator; prompts do
  not register with `SessionRunState` while Rust serves them.
* *Blackboard.* A free file with waiters is not always served (guard drop, rollback
  and a release before the enqueue wake nobody); the sweep may take a lock that was
  renewed since its snapshot; a store error after `fs::write` leaves the disk ahead of
  the store; a restart neither frees the lock rows nor counts the crash, for the same
  reason it forgets notifications; the serial tick commits stale content without comparing versions; an
  acknowledgement that overtakes the insertion leaves an entry in `pending_acks`; a
  store error in the sweep makes a notification exceed its deliveries; a fault
  reported during the recovery check is overtaken; with `update_config`, which only a
  test calls, the breaker's methods can block each other.

Where such a case would break a property, the property says so: `DiskAgrees` and
`WaiterAccounted` are checked without store errors, `DeliveriesBounded` bounds
the deliveries of behaviours without faults, `NoStrandedLock` excuses stray rows,
`NotForgotten` is about the changes of the living process, `RefusalRestoresDisk` about files
the store knows, and `CaughtUp` excludes torn creations.

## Limits

* One session in `AgentTurn`, `SessionRunner` and `WorkspaceSync`. One tool call per
  round; a round cut off by its output limit behaves like a confirmation round, and
  the last such row (`length`) is not modelled. A turn that fails before its request
  (no connection to the smart layer, `prompt.ts:2546`, or no session) and errors of
  `update_part`, which are only logged, are left out.
* A pattern in `Consent` is one resource or everything.
* One file in `WritePath`; many in `FileLocks`.
* A SQLite transaction is atomic and durable. A crash in the middle of the write
  path is not modelled (nothing reconciles disk and store afterwards).
* Times are orderings: expired or not. Delay lengths are not modelled.
* Content is a set of edits; formatting returns what is on disk.
* Of the blackboard's tables, intents, dependencies, scopes, annotations, public
  resources, the change log and metrics other than the conflict samples are left out.
* In `SessionRunner` the finalizer of an instance (a cancel of every runner) and
  `assertNotBusy` (a read) are left out.

## Not modelled

Most of the repository's lines are user interface (`app`, `ui`, `desktop`, the
terminal UI), generated clients (`sdk`), formats of model providers, and tools that
call the file system, a shell or the network: they keep no state that other parts
race for, and a model of them would repeat their text. Indexing, memory, context
building and prompt assembly are functions of large data, out of a model checker's
reach. `PROJECT.json` gives the reason for each component. What has protocol state
and is still left out is in the plan.

## Plan

1. **TypeScript**: revert and unrevert of a session against a running turn; MCP
   reconnection; the PTY's buffer and its subscribers.
2. **Blackboard**: intents and `wait_graph` (depth-first search against reachability,
   TLC only, as it is recursive); `agent_fault_handler` with the agent states;
   `dependency_adapter` and `scope_enforcer` in place of the free refusal; crashes in
   `WritePath`; a composition of `FileLocks` and `WritePath`.
3. **Other Rust parts**: `project_tasks` (one task per project), `scheduler` (slots
   and priorities), `parallel_executor` and `phase_machine`, `session-manager`,
   `permission-eval` as an algorithm against a reference.
4. **Proofs**: every safety property a run checks has its theorem. What is added to
   the model gets one too; lemmas that several proof modules state for themselves
   (prefixes, largest row of a set) belong in a module of their own.
