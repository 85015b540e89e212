----------------------------- MODULE WritePath -----------------------------
(***************************************************************************)
(* How the agents of the blackboard change one file                        *)
(* (crates/blackboard-coordinator/src/coordinator.rs): the write path      *)
(* submit_stable_with_write, the direct submissions of the HTTP API        *)
(* (read_file, then submit_stable), promote_draft and the serial queue of  *)
(* the background task, over the tables file_versions, agent_submissions   *)
(* and serial_queue of the store and the file on disk.                     *)
(*                                                                         *)
(* A content is the set of edits it contains: an edit_file call adds its   *)
(* edit to the content it finds, a write_file call replaces the content.   *)
(* Each store call and each file-system call is one step.                  *)
(*                                                                         *)
(* The file lock is the lease of module FileLease: who holds the row. A    *)
(* writer that does not get it is queued and takes itself off the queue    *)
(* again; a release in between hands it the lock all the same. Which of    *)
(* several waiters is served is the subject of FileLocks: here, any.       *)
(*                                                                         *)
(* The agents of an agent loop share one coordinator. Each HTTP request    *)
(* builds its own over the same database (create_for_prompt), and its      *)
(* conflict counters and agent states go with it: they leave no trace.     *)
(***************************************************************************)
EXTENDS Naturals, Sequences, FiniteSets, FiniteSetsExt

CONSTANTS
  Agents,         \* agent ids
  NoAgent,        \* no lock row
  NoFile,         \* no file on disk / no row in the store
  LocksExpire,    \* TRUE: the sweep may take the lock from its holder
  StoreFails,     \* TRUE: store and file-system calls may return an error
  DirectSubmits,  \* TRUE: agents also submit over the HTTP API
  Promotions,     \* TRUE: agents also promote drafts over the HTTP API
  UnknownOnDisk,  \* TRUE: the file may be on disk and not in the store
  SerialAfter,    \* the conflict that starts serial mode (3 in the code)
  MaxEdits        \* bound: changes attempted in one behaviour

ASSUME WritePathAssumption ==
  /\ NoAgent \notin Agents
  /\ \A c \in SUBSET (1..MaxEdits) : c # NoFile
  /\ {LocksExpire, StoreFails, DirectSubmits, Promotions, UnknownOnDisk}
       \subseteq BOOLEAN
  /\ SerialAfter \in Nat \ {0, 1}
  /\ MaxEdits \in Nat

Edits == 1..MaxEdits
Contents == SUBSET Edits

VARIABLES
  disk,       \* the file on disk
  version,    \* file_versions.version; 0 while there is no row
  content,    \* file_versions.content; NoFile while there is no row
  subs,       \* agent_submissions by id; ids are never used again
  serial,     \* serial_queue in the order of its ids
  lock,       \* the agent of the lock row
  queue,      \* the agents in the wait queue of the file
  popped,     \* per agent: the waiter its release hands the lock to; the
              \* sweep's is popped[NoAgent]
  pc,         \* per agent: the next step of its call
  kind,       \* per agent: which call it runs
  edit,       \* per agent: the edit of the call it runs
  want,       \* per agent: the content the call computed or read
  base,       \* per agent: base_version, then new_version once committed
  conflicts,  \* per agent: retry_counters of conflict_degradation
  backoff,    \* agents in state InBackoff
  edits,      \* number of edits attempted (bounded by MaxEdits)
  stray,      \* history: the lock row was put there by a hand-off, or a
              \* release of it has failed
  reported,   \* history: <<new_version, edit>> of each Success
  found       \* history: per agent, the disk when its call read it

locking == <<lock, queue, popped, stray>>

vars == <<disk, version, content, subs, serial, locking, pc, kind, edit, want,
          base, conflicts, backoff, edits, reported, found>>

\* Where an agent is while it has no lock: between two calls, behind the
\* lock, giving up, or past the release.
Resting == {"idle", "wait", "queued", "unqueue", "report"}

Labels == Resting \cup
  {"read", "base", "draft", "write", "format", "validate", "commit",
   "store", "finish", "conflict", "rollback", "restore", "release"}

\* edit_file, write_file, POST /blackboard/submit
Kinds == {"edit", "overwrite", "submit"}

(***************************************************************************)
(* Store operations                                                        *)
(***************************************************************************)

Tracked == content # NoFile

Row(a, c, status) == [agent |-> a, content |-> c, status |-> status]

\* submit_file with status draft: deletes the agent's earlier drafts, and a
\* deleted row leaves its id behind.
WithDraft(a, c) ==
  Append([i \in DOMAIN subs |-> IF subs[i].agent = a /\ subs[i].status = "draft"
                                  THEN Row(a, {}, "deleted") ELSE subs[i]],
         Row(a, c, "draft"))

\* get_readable_content: the agent's latest submission if it is a draft, else
\* the latest stable submission.
Readable(a) ==
  LET own == {i \in DOMAIN subs : subs[i].agent = a /\ subs[i].status # "deleted"}
      stable == {i \in DOMAIN subs : subs[i].status = "stable"}
  IN IF own # {} /\ subs[Max(own)].status = "draft"
       THEN subs[Max(own)].content
       ELSE IF stable # {} THEN subs[Max(stable)].content ELSE NoFile

\* Mutant: -1 stands for nothing readable.
BaseVersion_Sentinel(a) == IF Readable(a) = NoFile THEN 0 - 1 ELSE version

\* read_file: the version it returns, 0 when nothing is readable.
BaseVersion(a) == IF Readable(a) = NoFile THEN 0 ELSE version

\* The UPSERT of update_file_version: version 1, or the next one.
Upsert(c) ==
  /\ version' = version + 1
  /\ content' = c

\* commit_file_version_cas goes through: no row, or the expected version.
CasSucceeds(v) == ~ Tracked \/ version = v

(***************************************************************************)
(* Steps of a call                                                         *)
(***************************************************************************)

Goto(a, label) == pc' = [pc EXCEPT ![a] = label]

\* What a call keeps in its local variables.
locals == <<kind, edit, want, base, found>>

\* The call returns, and its local variables are gone.
Return(a) ==
  /\ Goto(a, "idle")
  /\ kind' = [kind EXCEPT ![a] = "edit"]
  /\ edit' = [edit EXCEPT ![a] = 0]
  /\ want' = [want EXCEPT ![a] = {}]
  /\ base' = [base EXCEPT ![a] = 0]
  /\ found' = [found EXCEPT ![a] = NoFile]

\* A request has a coordinator to itself, with an empty wait queue.
OwnCoordinator(a) == kind[a] = "submit"

\* The row is deleted.
Unlock == lock' = NoAgent /\ stray' = FALSE

\* grant_to_next_in_queue, first half: p takes a waiter off the queue.
Pop(p) ==
  \/ queue = {} /\ UNCHANGED <<queue, popped>>
  \/ \E w \in queue : /\ queue' = queue \ {w}
                      /\ popped' = [popped EXCEPT ![p] = w]

\* release_lock: the agent's own row only, and then the next waiter.
ReleaseLock(a) ==
  IF lock = a
    THEN /\ Unlock
         /\ IF OwnCoordinator(a) THEN UNCHANGED <<queue, popped>> ELSE Pop(a)
    ELSE UNCHANGED locking

\* A release that fails is logged, and the row stays.
KeepRow(a) ==
  /\ stray' = (stray \/ lock = a)
  /\ UNCHANGED <<lock, queue, popped>>

\* FileLockGuard::drop, which a request does not have: the agent's own row,
\* unless the store fails, and no waiter is served.
DropGuard(a) ==
  IF lock = a /\ ~ OwnCoordinator(a)
    THEN Unlock \/ (UNCHANGED lock /\ stray' = TRUE)
    ELSE UNCHANGED <<lock, stray>>

\* The agent's last call has returned.
Free(a) == pc[a] = "idle" /\ popped[a] = NoAgent

NewEdit(a, k) ==
  /\ edits < MaxEdits
  /\ edits' = edits + 1
  /\ edit' = [edit EXCEPT ![a] = edits + 1]
  /\ kind' = [kind EXCEPT ![a] = k]

\* Mutant: the write goes on without the lock.
BeginWrite_NoLock(a, k) ==
  /\ Free(a)
  /\ k \in {"edit", "overwrite"}
  /\ a \notin backoff
  /\ lock' = a
  /\ stray' = FALSE
  /\ NewEdit(a, k)
  /\ Goto(a, "read")
  /\ UNCHANGED <<disk, version, content, subs, serial, queue, popped, want,
                 base, conflicts, backoff, reported, found>>

\* submit_stable_with_write up to the lock. An agent in backoff is denied and
\* changes nothing.
BeginWrite(a, k) ==
  /\ Free(a)
  /\ k \in {"edit", "overwrite"}
  /\ a \notin backoff
  /\ lock \in {NoAgent, a}
  /\ lock' = a
  /\ stray' = FALSE
  /\ NewEdit(a, k)
  /\ Goto(a, "read")
  /\ UNCHANGED <<disk, version, content, subs, serial, queue, popped, want,
                 base, conflicts, backoff, reported, found>>

\* The same when another agent has the row ...
BeginRefused(a) ==
  /\ Free(a)
  /\ edits < MaxEdits
  /\ edits' = edits + 1
  /\ a \notin backoff
  /\ lock \notin {NoAgent, a}
  /\ Goto(a, "wait")
  /\ UNCHANGED <<disk, version, content, subs, serial, locking, locals,
                 conflicts, backoff, reported>>

\* ... enqueue_wait, after which declare_intent returns Queued ...
EnqueueWait(a) ==
  /\ pc[a] = "wait"
  /\ queue' = queue \cup {a}
  /\ Goto(a, "queued")
  /\ UNCHANGED <<disk, version, content, subs, serial, lock, popped, stray,
                 locals, conflicts, backoff, edits, reported>>

\* ... and remove_from_queue: the call gives up (QueuedForSerial).
GiveUp(a) ==
  /\ pc[a] \in {"queued", "unqueue"}
  /\ popped[a] = NoAgent
  /\ queue' = queue \ {a}
  /\ Return(a)
  /\ UNCHANGED <<disk, version, content, subs, serial, lock, popped, stray,
                 conflicts, backoff, edits, reported>>

\* register_intent fails, after Granted or Queued: rollback_declaration
\* releases the lock, takes the agent off the queue (GiveUp) and fails.
RegisterFails(a) ==
  /\ StoreFails
  /\ pc[a] \in {"read", "queued"}
  /\ ~ OwnCoordinator(a)
  /\ ReleaseLock(a) \/ KeepRow(a)
  /\ Goto(a, "unqueue")
  /\ UNCHANGED <<disk, version, content, subs, serial, locals, conflicts,
                 backoff, edits, reported>>

\* grant_to_next_in_queue, second half: the row for the waiter, whatever it
\* does by now, or back to the queue when the file has been taken.
HandOver(p) ==
  /\ popped[p] # NoAgent
  /\ popped' = [popped EXCEPT ![p] = NoAgent]
  /\ IF lock \in {NoAgent, popped[p]}
       THEN /\ lock' = popped[p]
            /\ stray' = (stray \/ lock = NoAgent)
            /\ UNCHANGED queue
       ELSE /\ queue' = queue \cup {popped[p]}
            /\ UNCHANGED <<lock, stray>>
  /\ UNCHANGED <<disk, version, content, subs, serial, pc, locals, conflicts,
                 backoff, edits, reported>>

\* The store fails: the waiter is forgotten, and submit_stable leaves.
HandOverFails(p) ==
  /\ StoreFails
  /\ popped[p] # NoAgent
  /\ popped' = [popped EXCEPT ![p] = NoAgent]
  /\ IF p \in Agents /\ pc[p] = "report"
       THEN DropGuard(p) /\ Return(p)
       ELSE UNCHANGED <<pc, locals, lock, stray>>
  /\ UNCHANGED <<disk, version, content, subs, serial, queue, conflicts,
                 backoff, edits, reported>>

\* Mutant: the early return for a missing old_text keeps the lock.
ReadDisk_KeepsLock(a) ==
  /\ pc[a] = "read"
  /\ found' = [found EXCEPT ![a] = disk]
  /\ \/ /\ disk # NoFile
        /\ want' = [want EXCEPT ![a] = disk \cup {edit[a]}]
        /\ Goto(a, "base")
     \/ Goto(a, "idle") /\ UNCHANGED want
  /\ UNCHANGED <<disk, version, content, subs, serial, locking, kind, edit, base,
                 conflicts, backoff, edits, reported>>

\* Phase 0.7: read the disk under the lock and apply the edit to it. An
\* old_text that is not there, or an unreadable file, ends the call.
ReadDisk(a) ==
  /\ pc[a] = "read"
  /\ found' = [found EXCEPT ![a] = disk]
  /\ \/ /\ kind[a] = "overwrite"
        /\ want' = [want EXCEPT ![a] = {edit[a]}]
        /\ Goto(a, "base")
     \/ /\ kind[a] = "edit"
        /\ disk # NoFile
        /\ want' = [want EXCEPT ![a] = disk \cup {edit[a]}]
        /\ Goto(a, "base")
     \/ /\ kind[a] = "edit"
        /\ Goto(a, "release")
        /\ UNCHANGED want
  /\ UNCHANGED <<disk, version, content, subs, serial, locking, kind, edit, base,
                 conflicts, backoff, edits, reported>>

\* Phase 1: read_file for the base version.
ReadBase(a) ==
  /\ pc[a] = "base"
  /\ base' = [base EXCEPT ![a] = BaseVersion(a)]
  /\ Goto(a, IF kind[a] = "submit" THEN "validate" ELSE "draft")
  /\ UNCHANGED <<disk, version, content, subs, serial, locking, kind, edit, want,
                 conflicts, backoff, edits, reported, found>>

\* Phase 2: submit_draft.
SubmitDraft(a) ==
  /\ pc[a] = "draft"
  /\ subs' = WithDraft(a, want[a])
  /\ Goto(a, "write")
  /\ UNCHANGED <<disk, version, content, serial, locking, kind, edit, want, base,
                 conflicts, backoff, edits, reported, found>>

\* Phase 3: fs::write.
WriteDisk(a) ==
  /\ pc[a] = "write"
  /\ disk' = want[a]
  /\ Goto(a, "format")
  /\ UNCHANGED <<version, content, subs, serial, locking, kind, edit, want, base,
                 conflicts, backoff, edits, reported, found>>

\* Phase 4: with a formatter, the content is read back from the disk.
Format(a) ==
  /\ pc[a] = "format"
  /\ \/ UNCHANGED want
     \/ disk # NoFile /\ want' = [want EXCEPT ![a] = disk]
  /\ Goto(a, "validate")
  /\ UNCHANGED <<disk, version, content, subs, serial, locking, kind, edit, base,
                 conflicts, backoff, edits, reported, found>>

\* A refused call of the write path goes on to put the disk back.
Refuse(a) ==
  IF OwnCoordinator(a) THEN Return(a)
                       ELSE Goto(a, "rollback") /\ UNCHANGED locals

\* submit_stable, up to the commit: out of scope, changed dependencies or a
\* syntax error refuse the content; validate_write compares the version.
Validate(a) ==
  /\ pc[a] = "validate"
  /\ \/ Refuse(a)
     \/ /\ Goto(a, IF CasSucceeds(base[a]) THEN "commit" ELSE "conflict")
        /\ UNCHANGED locals
  /\ UNCHANGED <<disk, version, content, subs, serial, locking, conflicts,
                 backoff, edits, reported>>

\* Mutant: update_file_version instead of the compare and swap.
Commit_NoCas(a) ==
  /\ pc[a] = "commit"
  /\ Upsert(want[a])
  /\ base' = [base EXCEPT ![a] = @ + 1]
  /\ Goto(a, "store")
  /\ UNCHANGED <<disk, subs, serial, locking, kind, edit, want, conflicts,
                 backoff, edits, reported, found>>

\* commit_write: compare and swap of the version, in one transaction.
Commit(a) ==
  /\ pc[a] = "commit"
  /\ \/ /\ CasSucceeds(base[a])
        /\ Upsert(want[a])
        /\ base' = [base EXCEPT ![a] = version + 1]
        /\ Goto(a, "store")
     \/ /\ ~ CasSucceeds(base[a])
        /\ Goto(a, "conflict")
        /\ UNCHANGED <<version, content, base>>
  /\ UNCHANGED <<disk, subs, serial, locking, kind, edit, want, conflicts,
                 backoff, edits, reported, found>>

\* submit_file with status stable; the draft of the call stays.
StoreStable(a) ==
  /\ pc[a] = "store"
  /\ subs' = Append(subs, Row(a, want[a], "stable"))
  /\ Goto(a, "finish")
  /\ UNCHANGED <<disk, version, content, serial, locking, kind, edit, want, base,
                 conflicts, backoff, edits, reported, found>>

\* The rest of submit_stable on success: release_lock, reset_counter ...
Finish(a) ==
  /\ pc[a] = "finish"
  /\ ReleaseLock(a)
  /\ conflicts' = IF OwnCoordinator(a) THEN conflicts
                                       ELSE [conflicts EXCEPT ![a] = 0]
  /\ Goto(a, "report")
  /\ UNCHANGED <<disk, version, content, subs, serial, locals, backoff, edits,
                 reported>>

\* ... metrics, change log and notifications (Notifications), which may fail,
\* and mark_idle.
Report(a) ==
  /\ pc[a] = "report"
  /\ popped[a] = NoAgent
  /\ backoff' = IF OwnCoordinator(a) THEN backoff ELSE backoff \ {a}
  /\ reported' = reported \cup {<<base[a], edit[a]>>}
  /\ Return(a)
  /\ UNCHANGED <<disk, version, content, subs, serial, locking, conflicts,
                 edits>>

\* record_conflict says SerialMode.
SerialMode(a) == conflicts[a] + 1 >= SerialAfter

\* The rest of submit_stable on a conflict: record_conflict, enter_backoff,
\* and enqueue_serial once the counter says SerialMode. To the coordinator of
\* a request every conflict is the first: an immediate retry.
Conflict(a) ==
  /\ pc[a] = "conflict"
  /\ IF OwnCoordinator(a)
       THEN UNCHANGED <<conflicts, backoff, serial>>
       ELSE /\ conflicts' = [conflicts EXCEPT ![a] = @ + 1]
            /\ backoff' = backoff \cup {a}
            /\ serial' = IF SerialMode(a)
                           THEN Append(serial, Row(a, want[a], "queued"))
                           ELSE serial
  /\ Refuse(a)
  /\ UNCHANGED <<disk, version, content, subs, locking, edits, reported>>

\* Mutant: the refusal returns without the restore.
Rollback_Skipped(a) ==
  /\ pc[a] = "rollback"
  /\ Goto(a, "release")
  /\ UNCHANGED <<disk, version, content, subs, serial, locking, kind, edit, want,
                 base, conflicts, backoff, edits, reported, found>>

\* Mutant: what is restored is what the agent can read, its own draft.
Rollback_OwnDraft(a) ==
  /\ pc[a] = "rollback"
  /\ want' = [want EXCEPT ![a] = Readable(a)]
  /\ Goto(a, "restore")
  /\ UNCHANGED <<disk, version, content, subs, serial, locking, kind, edit, base,
                 conflicts, backoff, edits, reported, found>>

\* After a refusal: get_file_content ... (A failed query counts as no row; a
\* failed connection skips the restore.)
Rollback(a) ==
  /\ pc[a] = "rollback"
  /\ \/ want' = [want EXCEPT ![a] = content] /\ Goto(a, "restore")
     \/ /\ StoreFails
        /\ \/ want' = [want EXCEPT ![a] = NoFile] /\ Goto(a, "restore")
           \/ Goto(a, "release") /\ UNCHANGED want
  /\ UNCHANGED <<disk, version, content, subs, serial, locking, kind, edit, base,
                 conflicts, backoff, edits, reported, found>>

\* ... and write it to the disk, or remove the file when there is no row.
Restore(a) ==
  /\ pc[a] = "restore"
  /\ disk' = want[a] \/ (StoreFails /\ UNCHANGED disk)
  /\ Goto(a, "release")
  /\ UNCHANGED <<version, content, subs, serial, locking, kind, edit, want, base,
                 conflicts, backoff, edits, reported, found>>

\* lock_guard.release(), which logs a failed release.
Release(a) ==
  /\ pc[a] = "release"
  /\ ReleaseLock(a) \/ (StoreFails /\ KeepRow(a))
  /\ Return(a)
  /\ UNCHANGED <<disk, version, content, subs, serial, conflicts, backoff,
                 edits, reported>>

\* An error of the store or of the file system leaves the call through `?`;
\* the guard of the write path is dropped.
Fail(a) ==
  /\ StoreFails
  /\ pc[a] \in {"read", "base", "draft", "write", "validate", "commit",
                "store", "finish", "report"}
  /\ popped[a] = NoAgent
  /\ DropGuard(a)
  /\ Return(a)
  /\ UNCHANGED <<disk, version, content, subs, serial, queue, popped,
                 conflicts, backoff, edits, reported>>

\* The same in serial mode: the metric of record_conflict or enqueue_serial
\* fails, the one before and the other after enter_backoff.
ConflictFails(a) ==
  /\ StoreFails
  /\ pc[a] = "conflict"
  /\ ~ OwnCoordinator(a)
  /\ SerialMode(a)
  /\ conflicts' = [conflicts EXCEPT ![a] = @ + 1]
  /\ backoff' \in {backoff, backoff \cup {a}}
  /\ DropGuard(a)
  /\ Return(a)
  /\ UNCHANGED <<disk, version, content, subs, serial, queue, popped, edits,
                 reported>>

(***************************************************************************)
(* The HTTP API and the background task                                    *)
(***************************************************************************)

\* POST /blackboard/read, first half: get_readable_content. The client puts
\* its edit into what it read. ReadBase is the second half, and the client
\* then sends POST /blackboard/submit.
ReadForSubmit(a) ==
  /\ DirectSubmits
  /\ Free(a)
  /\ NewEdit(a, "submit")
  /\ want' = [want EXCEPT ![a] =
       (IF Readable(a) = NoFile THEN {} ELSE Readable(a)) \cup {edits + 1}]
  /\ Goto(a, "base")
  /\ UNCHANGED <<disk, version, content, subs, serial, locking, base, conflicts,
                 backoff, reported, found>>

\* POST /blackboard/promote: promote_draft_to_stable_atomic.
Promote(a) ==
  /\ Promotions
  /\ Free(a)
  /\ \E i \in DOMAIN subs :
       /\ subs[i].agent = a
       /\ subs[i].status = "draft"
       /\ subs' = [subs EXCEPT ![i].status = "stable"]
       /\ Upsert(subs[i].content)
  /\ UNCHANGED <<disk, serial, locking, pc, kind, edit, want, base, conflicts,
                 backoff, edits, reported, found>>

\* The serial tick: dequeue_serial, then update_file_version and
\* reset_counter. If the update fails the entry is gone all the same.
SerialTick ==
  /\ serial # <<>>
  /\ serial' = Tail(serial)
  /\ \/ /\ Upsert(Head(serial).content)
        /\ conflicts' = [conflicts EXCEPT ![Head(serial).agent] = 0]
     \/ StoreFails /\ UNCHANGED <<version, content, conflicts>>
  /\ UNCHANGED <<disk, subs, locking, pc, kind, edit, want, base, backoff, edits,
                 reported, found>>

\* The backoff tick: expire_backoffs.
ExpireBackoff(a) ==
  /\ a \in backoff
  /\ backoff' = backoff \ {a}
  /\ UNCHANGED <<disk, version, content, subs, serial, locking, pc, kind, edit,
                 want, base, conflicts, edits, reported, found>>

\* The lock tick takes the lock from its holder and serves the queue.
ExpireLock ==
  /\ LocksExpire
  /\ lock # NoAgent
  /\ popped[NoAgent] = NoAgent
  /\ Unlock
  /\ Pop(NoAgent)
  /\ UNCHANGED <<disk, version, content, subs, serial, pc, kind, edit, want,
                 base, conflicts, backoff, edits, reported, found>>

(***************************************************************************)
(* Specification                                                           *)
(***************************************************************************)

\* The file was seeded with its content on disk (init_file_version, version
\* 0), does not exist, or exists and the store does not know it.
Init ==
  /\ \/ disk = {} /\ content = {}
     \/ disk = NoFile /\ content = NoFile
     \/ UnknownOnDisk /\ disk = {} /\ content = NoFile
  /\ version = 0
  /\ subs = <<>>
  /\ serial = <<>>
  /\ lock = NoAgent
  /\ queue = {}
  /\ popped = [p \in Agents \cup {NoAgent} |-> NoAgent]
  /\ stray = FALSE
  /\ pc = [a \in Agents |-> "idle"]
  /\ kind = [a \in Agents |-> "edit"]
  /\ edit = [a \in Agents |-> 0]
  /\ want = [a \in Agents |-> {}]
  /\ base = [a \in Agents |-> 0]
  /\ conflicts = [a \in Agents |-> 0]
  /\ backoff = {}
  /\ edits = 0
  /\ reported = {}
  /\ found = [a \in Agents |-> NoFile]

\* The steps of a call that has started.
CallStep(a) ==
  \/ EnqueueWait(a) \/ GiveUp(a)
  \/ ReadDisk(a) \/ ReadBase(a) \/ SubmitDraft(a) \/ WriteDisk(a)
  \/ Format(a) \/ Validate(a) \/ Commit(a) \/ StoreStable(a) \/ Finish(a)
  \/ Report(a) \/ Conflict(a) \/ Rollback(a) \/ Restore(a) \/ Release(a)

Next ==
  \/ \E a \in Agents :
       \/ \E k \in {"edit", "overwrite"} : BeginWrite(a, k)
       \/ BeginRefused(a)
       \/ CallStep(a)
       \/ RegisterFails(a)
       \/ Fail(a)
       \/ ConflictFails(a)
       \/ ReadForSubmit(a)
       \/ Promote(a)
       \/ ExpireBackoff(a)
  \/ \E p \in Agents \cup {NoAgent} : HandOver(p) \/ HandOverFails(p)
  \/ SerialTick
  \/ ExpireLock

Spec == Init /\ [][Next]_vars

(***************************************************************************)
(* Properties                                                              *)
(***************************************************************************)

\* The type invariant.
TypeOK ==
  /\ disk \in {NoFile} \cup Contents
  /\ version \in Nat
  /\ content \in {NoFile} \cup Contents
  /\ subs \in Seq([agent : Agents, content : Contents,
                    status : {"draft", "stable", "deleted"}])
  /\ serial \in Seq([agent : Agents, content : Contents,
                      status : {"queued"}])
  /\ lock \in Agents \cup {NoAgent}
  /\ queue \in SUBSET Agents
  /\ popped \in [Agents \cup {NoAgent} -> Agents \cup {NoAgent}]
  /\ stray \in BOOLEAN
  /\ pc \in [Agents -> Labels]
  /\ kind \in [Agents -> Kinds]
  /\ edit \in [Agents -> 0..MaxEdits]
  /\ want \in [Agents -> {NoFile} \cup Contents]
  /\ base \in [Agents -> Nat]
  /\ conflicts \in [Agents -> Nat]
  /\ backoff \in SUBSET Agents
  /\ edits \in 0..MaxEdits
  /\ reported \subseteq Nat \X Edits
  /\ found \in [Agents -> {NoFile} \cup Contents]

\* Phase 0.7: parallel agents editing the file "merge correctly rather than
\* the later writer silently overwriting". No new version other than that of
\* an overwrite drops an edit of the version before.
NoLostUpdate ==
  [][(/\ version' # version
      /\ Tracked
      /\ \A a \in Agents : kind[a] = "overwrite"
                             => pc'[a] # "store" \/ pc[a] = "store")
     => content \subseteq content']_vars

\* While nobody is between its lock and its release, the disk has the content
\* of the store, whoever may have the row: the point of writing both under
\* one lock, and of the rollback after a refusal.
DiskAgrees ==
  (\A a \in Agents : pc[a] \in Resting) /\ Tracked => disk = content

\* A refused write leaves the disk as the call found it, whatever it had
\* already written there. (Not with UnknownOnDisk: a file that was there before
\* the session and was never submitted has no row, and is removed.)
RefusalRestoresDisk ==
  [][\A a \in Agents : pc[a] = "restore" /\ pc'[a] = "release"
       => disk' = found[a]]_vars

\* No two changes are told the same new_version: of all writers that started
\* from one version, over the write path or the API and with the lock or
\* without it, at most one is told Success.
UniqueVersions ==
  \A r, s \in reported : r[1] = s[1] => r[2] = s[2]

\* write_path_test.rs: a failed edit must not strand the file lock. An agent
\* that is not at work has the row only because a hand-off came when it had
\* given up, or because the release itself failed: no refusal, error or early
\* return of a call leaves the lock behind.
NoStrandedLock == lock # NoAgent /\ ~ stray => pc[lock] \notin Resting

(***************************************************************************)
(* Refinement: a register that edits are applied to one by one             *)
(***************************************************************************)

Register == INSTANCE EditRegister

\* While locks do not expire, the write path applies each edit to the content
\* as if in one atomic step.
ImplementsRegister == Register!Spec

=============================================================================
