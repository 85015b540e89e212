----------------------------- MODULE FileLocks -----------------------------
(***************************************************************************)
(* The file lock manager of the multi-agent blackboard                     *)
(* (crates/file-lock-manager/src/lock_manager.rs) over the lock table of   *)
(* the blackboard store (crates/blackboard-store/src/store.rs).            *)
(*                                                                         *)
(* A store call is one IMMEDIATE SQLite transaction on a write pool of     *)
(* size one, and the wait queues sit behind one tokio mutex: each store    *)
(* call and each mutex section is one step here, and everything between    *)
(* two of them may be interleaved with the calls of other agents and with  *)
(* the background sweep for expired locks.                                 *)
(***************************************************************************)
EXTENDS Naturals, Sequences, FiniteSets

CONSTANTS
  Agents,         \* agent ids
  Files,          \* file paths
  Sweeper,        \* the background task that runs check_expired_locks
  NoAgent,        \* "no row" / "no agent"
  Declarations,   \* the file lists an agent may declare
  AtomicAcquire,  \* FileLockConfig::atomic_acquire (default true)
  LocksExpire,    \* FALSE: only the first lock_timeout_secs are modelled
  MayCrash,       \* TRUE: the process may crash and restart
  StoreFails,     \* TRUE: store calls may return an error
  MaxDeclares     \* bound: declarations in one behaviour

ASSUME FileLocksAssumption ==
  /\ IsFiniteSet(Files)
  /\ Sweeper \notin Agents
  /\ NoAgent \notin Agents
  /\ Declarations \subseteq Seq(Files) \ {<<>>}
  /\ AtomicAcquire \in BOOLEAN
  /\ LocksExpire \in BOOLEAN
  /\ MayCrash \in BOOLEAN
  /\ StoreFails \in BOOLEAN
  /\ MaxDeclares \in Nat

Procs == Agents \cup {Sweeper}

VARIABLES
  lock,      \* file_locks table: the agent of each file's row, or NoAgent
  old,       \* files whose row is older than lock_timeout_secs
  queue,     \* wait_queues
  pc,        \* per call: the next step of the code
  op,        \* per call: which operation called grant_to_next_in_queue
  declared,  \* per agent: IntentDeclaration.files of its last declaration
  todo,      \* per call: files the running loop has still to visit
  got,       \* per agent: acquired_files of its last declaration
  popped,    \* per call: the waiter taken off a queue, not yet granted
  stripped,  \* history: <<a, f>>: f, declared by a, was force-released from a
  declares   \* number of declarations so far (bounded by MaxDeclares)

vars == <<lock, old, queue, pc, op, declared, todo, got, popped, stripped,
          declares>>

Labels ==
  {"idle", "try", "wait", "undo", "requeue", "register", "held", "queued",
   "release", "pop", "give", "putback", "unqueue", "drop", "purge", "force"}

Callers == {"none", "release", "rollback", "releaseAll", "sweep"}

(***************************************************************************)
(* Helpers                                                                 *)
(***************************************************************************)

\* The elements of a sequence.
Elems(s) == {s[i] : i \in 1..Len(s)}

\* Every order in which a query may return the rows of a finite set.
Orders(S) ==
  {s \in [1..Cardinality(S) -> S] :
     \A i, j \in 1..Cardinality(S) : s[i] = s[j] => i = j}

\* Vec::retain(|entry| entry.agent_id != a): the entries of q that are not
\* a's, in their order. Rank(i) is the place of entry i among those kept.
Retain(q, a) ==
  LET keep == {i \in 1..Len(q) : q[i] # a}
      Rank(i) == Cardinality({k \in keep : k <= i})
  IN [j \in 1..Cardinality(keep) |-> q[CHOOSE i \in keep : Rank(i) = j]]

\* queue.push, unless the agent already waits there.
Enqueue(q, a) == IF a \in Elems(q) THEN q ELSE Append(q, a)

\* The file the running loop of p is at.
Cur(p) == Head(todo[p])

\* store.acquire_file_lock succeeds: no row, or the agent's own row.
CanLock(f, a) == lock[f] \in {NoAgent, a}

\* store.acquire_file_lock: a row with a fresh timestamp.
PutLock(f, a) ==
  /\ lock' = [lock EXCEPT ![f] = a]
  /\ old' = old \ {f}

\* The deletion of a row.
DeleteLock(f) ==
  /\ lock' = [lock EXCEPT ![f] = NoAgent]
  /\ old' = old \ {f}

Goto(p, label) == pc' = [pc EXCEPT ![p] = label]

\* The loop over todo goes on to its next file, or ends.
NextFile(p, label, end) ==
  LET last == Tail(todo[p]) = <<>>
  IN /\ todo' = [todo EXCEPT ![p] = Tail(@)]
     /\ Goto(p, IF last THEN end ELSE label)
     /\ op' = [op EXCEPT ![p] = IF last /\ end = "idle" THEN "none" ELSE @]

\* The agent ends its declaration: what follows is a loop over todo.
EndDeclaration(a) ==
  /\ declared' = [declared EXCEPT ![a] = <<>>]
  /\ got' = [got EXCEPT ![a] = <<>>]
  /\ stripped' = {s \in stripped : s[1] # a}

(***************************************************************************)
(* acquire_locks and declare_intent                                        *)
(***************************************************************************)

\* An agent declares write intent on a list of files. A waiting agent may
\* declare again: nothing tells it that its turn has come.
Declare(a, fs) ==
  /\ pc[a] \in {"idle", "queued"}
  /\ declares < MaxDeclares
  /\ declares' = declares + 1
  /\ declared' = [declared EXCEPT ![a] = fs]
  /\ todo' = [todo EXCEPT ![a] = fs]
  /\ got' = [got EXCEPT ![a] = <<>>]
  /\ stripped' = {s \in stripped : s[1] # a}
  /\ Goto(a, "try")
  /\ UNCHANGED <<lock, old, queue, op, popped>>

\* store.acquire_file_lock for the next file of the declaration.
TryLock(a) ==
  /\ pc[a] = "try"
  /\ todo[a] # <<>>
  /\ \/ /\ CanLock(Cur(a), a)
        /\ PutLock(Cur(a), a)
        /\ got' = [got EXCEPT ![a] = Append(@, Cur(a))]
        /\ todo' = [todo EXCEPT ![a] = Tail(@)]
        /\ UNCHANGED pc
     \/ /\ ~ CanLock(Cur(a), a)
        /\ Goto(a, "wait")
        /\ UNCHANGED <<lock, old, got, todo>>
  /\ UNCHANGED <<queue, op, declared, popped, stripped, declares>>

\* enqueue_wait for a file that was refused.
EnqueueWait(a) ==
  /\ pc[a] = "wait"
  /\ queue' = [queue EXCEPT ![Cur(a)] = Enqueue(@, a)]
  /\ todo' = [todo EXCEPT ![a] = Tail(@)]
  /\ Goto(a, "try")
  /\ UNCHANGED <<lock, old, op, declared, got, popped, stripped, declares>>

\* All files tried: go on to register the intent, or, in atomic mode with a
\* file refused, give back the ones acquired.
Settle(a) ==
  /\ pc[a] = "try"
  /\ todo[a] = <<>>
  /\ LET undo == AtomicAcquire /\ got[a] # declared[a] /\ got[a] # <<>>
     IN /\ Goto(a, IF undo THEN "undo" ELSE "register")
        /\ todo' = [todo EXCEPT ![a] = IF undo THEN got[a] ELSE <<>>]
  /\ UNCHANGED <<lock, old, queue, op, declared, got, popped, stripped,
                 declares>>

\* The all-or-nothing rollback: store.release_file_lock on each acquired
\* file, without serving its queue.
UndoLock(a) ==
  /\ pc[a] = "undo"
  /\ IF lock[Cur(a)] = a THEN DeleteLock(Cur(a)) ELSE UNCHANGED <<lock, old>>
  /\ IF Tail(todo[a]) = <<>>
       THEN /\ Goto(a, "requeue")
            /\ todo' = [todo EXCEPT ![a] = got[a]]
       ELSE /\ todo' = [todo EXCEPT ![a] = Tail(@)]
            /\ UNCHANGED pc
  /\ UNCHANGED <<queue, op, declared, got, popped, stripped, declares>>

\* Mutant: the rolled-back files are not queued for.
Requeue_NoEnqueue(a) ==
  /\ pc[a] = "requeue"
  /\ NextFile(a, "requeue", "register")
  /\ UNCHANGED <<lock, old, queue, declared, got, popped, stripped, declares>>

\* ... and enqueue_wait on each of them.
Requeue(a) ==
  /\ pc[a] = "requeue"
  /\ queue' = [queue EXCEPT ![Cur(a)] = Enqueue(@, a)]
  /\ NextFile(a, "requeue", "register")
  /\ UNCHANGED <<lock, old, declared, got, popped, stripped, declares>>

\* Mutant: one Granted result is taken for all of them.
Register_AnyGranted(a) ==
  /\ pc[a] = "register"
  /\ Goto(a, IF got[a] # <<>> THEN "held" ELSE "queued")
  /\ got' = [got EXCEPT ![a] = <<>>]
  /\ UNCHANGED <<lock, old, queue, op, declared, todo, popped, stripped,
                 declares>>

\* store.register_intent succeeds: declare_intent returns its results, all
\* Granted ("held") or some Queued ("queued").
Register(a) ==
  /\ pc[a] = "register"
  /\ Goto(a, IF got[a] = declared[a] THEN "held" ELSE "queued")
  /\ got' = [got EXCEPT ![a] = <<>>]
  /\ UNCHANGED <<lock, old, queue, op, declared, todo, popped, stripped,
                 declares>>

\* store.register_intent fails: rollback_declaration over all the files.
RegisterFails(a) ==
  /\ pc[a] = "register"
  /\ todo' = [todo EXCEPT ![a] = declared[a]]
  /\ op' = [op EXCEPT ![a] = "rollback"]
  /\ Goto(a, "release")
  /\ EndDeclaration(a)
  /\ UNCHANGED <<lock, old, queue, popped, declares>>

\* A waiting agent finds by get_lock_state that it was granted every file.
Proceed(a) ==
  /\ pc[a] = "queued"
  /\ \A f \in Elems(declared[a]) : lock[f] = a
  /\ Goto(a, "held")
  /\ UNCHANGED <<lock, old, queue, op, declared, todo, got, popped, stripped,
                 declares>>

\* A caller gives up after Queued: remove_from_queue for each file.
Abandon(a) ==
  /\ pc[a] = "queued"
  /\ todo' = [todo EXCEPT ![a] = declared[a]]
  /\ Goto(a, "unqueue")
  /\ EndDeclaration(a)
  /\ UNCHANGED <<lock, old, queue, op, popped, declares>>

\* remove_from_queue, from a giving-up caller or from rollback_declaration.
Unqueue(a) ==
  /\ pc[a] = "unqueue"
  /\ queue' = [queue EXCEPT ![Cur(a)] = Retain(@, a)]
  /\ NextFile(a, IF op[a] = "rollback" THEN "release" ELSE "unqueue", "idle")
  /\ UNCHANGED <<lock, old, declared, got, popped, stripped, declares>>

(***************************************************************************)
(* release_lock, release_all_agent_locks, the guard's Drop                 *)
(***************************************************************************)

\* The agent is done: release_lock for each of its files.
StartRelease(a) ==
  /\ pc[a] = "held"
  /\ todo' = [todo EXCEPT ![a] = declared[a]]
  /\ op' = [op EXCEPT ![a] = "release"]
  /\ Goto(a, "release")
  /\ EndDeclaration(a)
  /\ UNCHANGED <<lock, old, queue, popped, declares>>

\* Mutant: DELETE ... WHERE file_path = f, without AND agent_id = a.
ReleaseLock_AnyOwner(a) ==
  /\ pc[a] = "release"
  /\ DeleteLock(Cur(a))
  /\ Goto(a, "pop")
  /\ UNCHANGED <<todo, op, queue, declared, got, popped, stripped, declares>>

\* release_lock: DELETE ... AND agent_id = a; the queue is served only when a
\* row was deleted.
ReleaseLock(a) ==
  /\ pc[a] = "release"
  /\ \/ /\ lock[Cur(a)] = a
        /\ DeleteLock(Cur(a))
        /\ Goto(a, "pop")
        /\ UNCHANGED <<todo, op>>
     \/ /\ lock[Cur(a)] # a
        /\ IF op[a] = "rollback"
             THEN Goto(a, "unqueue") /\ UNCHANGED <<todo, op>>
             ELSE NextFile(a, "release", "idle")
        /\ UNCHANGED <<lock, old>>
  /\ UNCHANGED <<queue, declared, got, popped, stripped, declares>>

\* The guard of the write path is dropped on a panic or a missed branch.
StartDrop(a) ==
  /\ pc[a] = "held"
  /\ todo' = [todo EXCEPT ![a] = declared[a]]
  /\ Goto(a, "drop")
  /\ EndDeclaration(a)
  /\ UNCHANGED <<lock, old, queue, op, popped, declares>>

\* FileLockGuard::drop: the store release alone, no hand-off.
DropGuard(a) ==
  /\ pc[a] = "drop"
  /\ IF lock[Cur(a)] = a THEN DeleteLock(Cur(a)) ELSE UNCHANGED <<lock, old>>
  /\ NextFile(a, "drop", "idle")
  /\ UNCHANGED <<queue, declared, got, popped, stripped, declares>>

\* handle_fault on the agent: release_all_agent_locks deletes its rows ...
ReleaseAll(a) ==
  /\ pc[a] \in {"held", "queued"}
  /\ LET mine == {f \in Files : lock[f] = a}
     IN /\ lock' = [f \in Files |-> IF f \in mine THEN NoAgent ELSE lock[f]]
        /\ old' = old \ mine
        /\ \E s \in Orders(mine) : todo' = [todo EXCEPT ![a] = s]
        /\ Goto(a, IF mine = {} THEN "purge" ELSE "pop")
  /\ op' = [op EXCEPT ![a] = "releaseAll"]
  /\ EndDeclaration(a)
  /\ UNCHANGED <<queue, popped, declares>>

\* ... and, after serving their queues, takes the agent off every queue.
Purge(a) ==
  /\ pc[a] = "purge"
  /\ queue' = [f \in Files |-> Retain(queue[f], a)]
  /\ Goto(a, "idle")
  /\ op' = [op EXCEPT ![a] = "none"]
  /\ UNCHANGED <<lock, old, declared, todo, got, popped, stripped,
                 declares>>

(***************************************************************************)
(* grant_to_next_in_queue                                                  *)
(***************************************************************************)

\* grant_to_next_in_queue returns to the loop that called it.
Granted(p) ==
  CASE op[p] = "rollback"   -> Goto(p, "unqueue") /\ UNCHANGED <<todo, op>>
    [] op[p] = "releaseAll" -> NextFile(p, "pop", "purge")
    [] op[p] = "sweep"      -> NextFile(p, "force", "idle")
    [] OTHER                -> NextFile(p, "release", "idle")

\* Take the head of the queue, under the mutex.
PopWaiter(p) ==
  /\ pc[p] = "pop"
  /\ \/ /\ queue[Cur(p)] = <<>>
        /\ Granted(p)
        /\ UNCHANGED <<queue, popped>>
     \/ /\ queue[Cur(p)] # <<>>
        /\ popped' = [popped EXCEPT ![p] = Head(queue[Cur(p)])]
        /\ queue' = [queue EXCEPT ![Cur(p)] = Tail(@)]
        /\ Goto(p, "give")
        /\ UNCHANGED <<todo, op>>
  /\ UNCHANGED <<lock, old, declared, got, stripped, declares>>

\* Mutant: the row is replaced (INSERT OR REPLACE) whoever has it.
GiveLock_Replace(p) ==
  /\ pc[p] = "give"
  /\ PutLock(Cur(p), popped[p])
  /\ popped' = [popped EXCEPT ![p] = NoAgent]
  /\ Granted(p)
  /\ UNCHANGED <<queue, declared, got, stripped, declares>>

\* store.acquire_file_lock on the waiter's behalf, the mutex released.
GiveLock(p) ==
  /\ pc[p] = "give"
  /\ \/ /\ CanLock(Cur(p), popped[p])
        /\ PutLock(Cur(p), popped[p])
        /\ popped' = [popped EXCEPT ![p] = NoAgent]
        /\ Granted(p)
     \/ /\ ~ CanLock(Cur(p), popped[p])
        /\ Goto(p, "putback")
        /\ UNCHANGED <<lock, old, popped, todo, op>>
  /\ UNCHANGED <<queue, declared, got, stripped, declares>>

\* Mutant: a waiter whose grant failed is dropped.
PutBack_Drop(p) ==
  /\ pc[p] = "putback"
  /\ popped' = [popped EXCEPT ![p] = NoAgent]
  /\ Granted(p)
  /\ UNCHANGED <<lock, old, queue, declared, got, stripped, declares>>

\* The file was taken meanwhile: back to the front of the queue.
PutBack(p) ==
  /\ pc[p] = "putback"
  /\ queue' = [queue EXCEPT ![Cur(p)] = <<popped[p]>> \o @]
  /\ popped' = [popped EXCEPT ![p] = NoAgent]
  /\ Granted(p)
  /\ UNCHANGED <<lock, old, declared, got, stripped, declares>>

(***************************************************************************)
(* check_expired_locks, crashes                                            *)
(***************************************************************************)

\* Time passes: the row of f becomes older than lock_timeout_secs.
Age(f) ==
  /\ LocksExpire
  /\ lock[f] # NoAgent
  /\ f \notin old
  /\ old' = old \cup {f}
  /\ UNCHANGED <<lock, queue, pc, op, declared, todo, got, popped, stripped,
                 declares>>

\* check_expired_locks reads all rows and keeps the expired ones.
SweepSnapshot ==
  /\ pc[Sweeper] = "idle"
  /\ old # {}
  /\ \E s \in Orders(old) : todo' = [todo EXCEPT ![Sweeper] = s]
  /\ op' = [op EXCEPT ![Sweeper] = "sweep"]
  /\ Goto(Sweeper, "force")
  /\ UNCHANGED <<lock, old, queue, declared, got, popped, stripped, declares>>

\* Mutant: the previous owner is recorded without looking whether there is one.
ForceRelease_NoOwnerCheck ==
  /\ pc[Sweeper] = "force"
  /\ stripped' = stripped \cup {<<lock[Cur(Sweeper)], Cur(Sweeper)>>}
  /\ DeleteLock(Cur(Sweeper))
  /\ Goto(Sweeper, "pop")
  /\ UNCHANGED <<queue, op, declared, todo, got, popped, declares>>

\* Mutant: the queue is served but the expired row stays.
ForceRelease_KeepRow ==
  /\ pc[Sweeper] = "force"
  /\ Goto(Sweeper, "pop")
  /\ UNCHANGED <<lock, old, queue, op, declared, todo, got, popped, stripped,
                 declares>>

\* force_release of the next file of that snapshot, whoever has it now.
ForceRelease ==
  /\ pc[Sweeper] = "force"
  /\ LET f == Cur(Sweeper)
     IN /\ stripped' = stripped \cup
             {<<a, f>> : a \in {b \in Agents : lock[f] = b
                                              /\ f \in Elems(declared[b])}}
        /\ DeleteLock(f)
  /\ Goto(Sweeper, "pop")
  /\ UNCHANGED <<queue, op, declared, todo, got, popped, declares>>

\* The process dies: calls and wait queues are gone, lock rows persist.
Crash ==
  /\ MayCrash
  /\ queue' = [f \in Files |-> <<>>]
  /\ pc' = [p \in Procs |-> "idle"]
  /\ op' = [p \in Procs |-> "none"]
  /\ declared' = [a \in Agents |-> <<>>]
  /\ todo' = [p \in Procs |-> <<>>]
  /\ got' = [a \in Agents |-> <<>>]
  /\ popped' = [p \in Procs |-> NoAgent]
  /\ stripped' = {}
  /\ UNCHANGED <<lock, old, declares>>

\* recover_from_crash, which asks to be called at start-up, before any call
\* runs: every row is force-released and the queues are cleared. No code but a
\* test calls it, and after a Crash it may as well not come.
RecoverFromCrash ==
  /\ MayCrash
  /\ \A p \in Procs : pc[p] = "idle"
  /\ lock' = [f \in Files |-> NoAgent]
  /\ old' = {}
  /\ queue' = [f \in Files |-> <<>>]
  /\ UNCHANGED <<pc, op, declared, todo, got, popped, stripped,
                 declares>>

(***************************************************************************)
(* Errors of the store                                                     *)
(***************************************************************************)

\* acquire_locks leaves through `?`: what it has acquired and where it has
\* queued stays, and declare_intent does not roll back.
AcquireFails(a) ==
  /\ StoreFails
  /\ pc[a] = "undo" \/ (pc[a] = "try" /\ todo[a] # <<>>)
  /\ todo' = [todo EXCEPT ![a] = <<>>]
  /\ Goto(a, "idle")
  /\ EndDeclaration(a)
  /\ UNCHANGED <<lock, old, queue, op, popped, declares>>

\* A release fails: the row stays. Its caller logs the error and goes on.
ReleaseFails(a) ==
  /\ StoreFails
  /\ pc[a] \in {"release", "drop"}
  /\ IF op[a] = "rollback"
       THEN Goto(a, "unqueue") /\ UNCHANGED <<todo, op>>
       ELSE NextFile(a, pc[a], "idle")
  /\ UNCHANGED <<lock, old, queue, declared, got, popped, stripped, declares>>

\* The call ends, the files still to visit are left alone.
CutShort(p) ==
  /\ todo' = [todo EXCEPT ![p] = <<>>]
  /\ op' = [op EXCEPT ![p] = "none"]
  /\ Goto(p, "idle")

\* grant_to_next_in_queue leaves through `?`: the waiter it had taken off the
\* queue is lost, and so is the rest of a sweep or of a fault release.
GrantFails(p) ==
  /\ StoreFails
  /\ pc[p] = "give"
  /\ popped' = [popped EXCEPT ![p] = NoAgent]
  /\ IF op[p] \in {"releaseAll", "sweep"} THEN CutShort(p) ELSE Granted(p)
  /\ UNCHANGED <<lock, old, queue, declared, got, stripped, declares>>

\* force_release fails, and the sweep with it.
ForceFails ==
  /\ StoreFails
  /\ pc[Sweeper] = "force"
  /\ CutShort(Sweeper)
  /\ UNCHANGED <<lock, old, queue, declared, got, popped, stripped, declares>>

(***************************************************************************)
(* Specification                                                           *)
(***************************************************************************)

Init ==
  /\ lock = [f \in Files |-> NoAgent]
  /\ old = {}
  /\ queue = [f \in Files |-> <<>>]
  /\ pc = [p \in Procs |-> "idle"]
  /\ op = [p \in Procs |-> "none"]
  /\ declared = [a \in Agents |-> <<>>]
  /\ todo = [p \in Procs |-> <<>>]
  /\ got = [a \in Agents |-> <<>>]
  /\ popped = [p \in Procs |-> NoAgent]
  /\ stripped = {}
  /\ declares = 0

\* The steps of a call that has started, the ones its task keeps taking.
CallStep(a) ==
  \/ TryLock(a) \/ EnqueueWait(a) \/ Settle(a) \/ UndoLock(a) \/ Requeue(a)
  \/ Register(a) \/ Unqueue(a) \/ ReleaseLock(a) \/ DropGuard(a) \/ Purge(a)

\* What an agent chooses to do, or what fails under it.
AgentChoice(a) ==
  \/ \E fs \in Declarations : Declare(a, fs)
  \/ RegisterFails(a) \/ Proceed(a) \/ Abandon(a)
  \/ StartRelease(a) \/ StartDrop(a) \/ ReleaseAll(a)

Grant(p) == PopWaiter(p) \/ GiveLock(p) \/ PutBack(p)

Sweep == SweepSnapshot \/ ForceRelease

StoreError ==
  \/ \E a \in Agents : AcquireFails(a) \/ ReleaseFails(a)
  \/ \E p \in Procs : GrantFails(p)
  \/ ForceFails

Next ==
  \/ \E a \in Agents : CallStep(a) \/ AgentChoice(a)
  \/ \E p \in Procs : Grant(p)
  \/ \E f \in Files : Age(f)
  \/ Sweep
  \/ StoreError
  \/ Crash
  \/ RecoverFromCrash

Spec == Init /\ [][Next]_vars

\* The tokio runtime keeps polling a started call and the maintenance task,
\* and the clock goes on. What agents choose is not fair.
Fairness ==
  /\ \A a \in Agents : WF_vars(CallStep(a))
  /\ \A p \in Procs : WF_vars(Grant(p))
  /\ \A f \in Files : WF_vars(Age(f))
  /\ WF_vars(Sweep)

FairSpec == Spec /\ Fairness

(***************************************************************************)
(* Properties                                                              *)
(***************************************************************************)

\* The type invariant.
TypeOK ==
  /\ lock \in [Files -> Agents \cup {NoAgent}]
  /\ old \in SUBSET Files
  /\ queue \in [Files -> Seq(Agents)]
  /\ pc \in [Procs -> Labels]
  /\ op \in [Procs -> Callers]
  /\ declared \in [Agents -> Declarations \cup {<<>>}]
  /\ todo \in [Procs -> Seq(Files)]
  /\ got \in [Agents -> Seq(Files)]
  /\ popped \in [Procs -> Agents \cup {NoAgent}]
  /\ stripped \in SUBSET (Agents \X Files)
  /\ declares \in 0..MaxDeclares

\* Agent a has been told that it holds f and works on it.
WorksOn(a, f) == pc[a] = "held" /\ f \in Elems(declared[a])

\* Two agents work on one file at the same time only when the sweep took the
\* lock from one of them after it declared: no interleaving of releases,
\* rollbacks, hand-offs and guard drops lets a second agent in.
MutualExclusion ==
  \A a, b \in Agents, f \in Files :
    a # b /\ WorksOn(a, f) /\ WorksOn(b, f)
      => <<a, f>> \in stripped \/ <<b, f>> \in stripped

\* Some call has taken a off the queue of f and will grant or put it back.
InHandOff(a, f) ==
  \E p \in Procs :
    pc[p] \in {"give", "putback"} /\ popped[p] = a /\ Cur(p) = f

\* An agent told Queued that has not given up is never forgotten: for each of
\* its files it is in the queue, being handed the lock, or was handed it.
WaiterAccounted ==
  \A a \in Agents : pc[a] = "queued" =>
    \A f \in Elems(declared[a]) :
      \/ a \in Elems(queue[f])
      \/ InHandOff(a, f)
      \/ lock[f] = a
      \/ <<a, f>> \in stripped

\* f is locked for an agent that runs no call.
GhostLock(f) == lock[f] # NoAgent /\ pc[lock[f]] = "idle"

\* a waits for a file that b holds.
WaitsFor(a, b) ==
  pc[a] = "queued" /\ \E f \in Elems(declared[a]) : lock[f] = b

WaitCycle == \E a, b \in Agents : a # b /\ WaitsFor(a, b) /\ WaitsFor(b, a)

\* The lock timeout is what ends a wait-for cycle (wait_graph.rs only reports
\* it) and what takes back a lock handed to an agent that had given up: there
\* is always a later moment with neither.
BlockageEnds == []<>(~ WaitCycle /\ \A f \in Files : ~ GhostLock(f))

\* write_path_test.rs: an agent that gives up after being queued must not be
\* handed the lock. No step gives a lock to an agent that runs no call.
NoGhostGrant ==
  [][\A a \in Agents, f \in Files :
       lock[f] # a /\ lock'[f] = a => pc[a] # "idle"]_vars

(***************************************************************************)
(* Refinement: what the lock manager promises its callers                  *)
(***************************************************************************)

\* The files a works on in the belief that it holds them.
Inside(a) == IF pc[a] = "held" THEN Elems(declared[a]) ELSE {}

Lease == INSTANCE FileLease WITH
  owner <- lock, inside <- [a \in Agents |-> Inside(a)], revoked <- stripped

\* The lock manager implements the lease table of FileLease.
ImplementsLease == Lease!Spec

=============================================================================
