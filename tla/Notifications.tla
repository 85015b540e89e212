--------------------------- MODULE Notifications ---------------------------
(***************************************************************************)
(* Change notifications with acknowledgement and re-delivery               *)
(* (crates/blackboard-coordinator/src/notification_manager.rs) over the    *)
(* change_notifications table. A row is how a notification reaches its     *)
(* agent, which polls for rows that are not acknowledged; the in-memory    *)
(* map pending_acks decides which rows are delivered again, as new rows.   *)
(*                                                                         *)
(* The map sits behind a mutex, the table does not: the sweep for ack      *)
(* timeouts holds the mutex over all its store calls, while the publisher  *)
(* and the acknowledging agent write to the table first and take the mutex *)
(* afterwards.                                                             *)
(*                                                                         *)
(* The map dies with its process. recover_from_crash would build it again  *)
(* from the rows, and asks to be called at start-up; no code but a test    *)
(* calls it. Both starts are modelled, with it and without.                *)
(***************************************************************************)
EXTENDS Naturals, FiniteSets

CONSTANTS
  MaxAckRetries,  \* MAX_ACK_RETRIES (3 in the code)
  MaxChanges,     \* bound: changes an agent is notified of
  MaxRows,        \* bound: rows in the table
  MaxFaults       \* bound: failed store calls of the sweep, and crashes

ASSUME NotificationsAssumption ==
  {MaxAckRetries, MaxChanges, MaxRows, MaxFaults} \subseteq Nat

Changes == 1..MaxChanges
Ids == 1..MaxRows

VARIABLES
  rows,      \* number of rows; their ids are 1..rows
  about,     \* per row: the change it notifies of
  changes,   \* number of changes so far
  before,    \* history: the changes that came before this process, which
             \* started with an empty map and knows nothing of them
  acked,     \* rows with acknowledged = 1
  pending,   \* pending_acks: the retry count of each tracked row
  aged,      \* tracked rows older than ACK_TIMEOUT_SECS
  tracking,  \* rows whose publisher has not yet put them into pending_acks
  clearing,  \* rows whose acknowledger has not yet removed the entry
  sweeping,  \* the sweep runs, and holds the mutex
  todo,      \* sweep: entries still to look at
  timedOut,  \* sweep: the entry whose row it is about to create again
  moves,     \* sweep: re_delivery_map, <<old id, new id>>
  drops,     \* sweep: to_remove
  faults     \* history: failed sweeps and crashes so far

vars == <<rows, about, changes, before, acked, pending, aged, tracking, clearing,
          sweeping, todo, timedOut, moves, drops, faults>>

table == <<rows, about, changes, before, acked>>
sweep == <<sweeping, todo, timedOut, moves, drops>>

Tracked == DOMAIN pending

\* create_change_notification.
CreateRow(c) ==
  /\ rows < MaxRows
  /\ rows' = rows + 1
  /\ about' = [about EXCEPT ![rows + 1] = c]

\* HashMap::insert and HashMap::remove.
Insert(f, id, n) ==
  [i \in DOMAIN f \cup {id} |-> IF i = id THEN n ELSE f[i]]
Without(f, S) == [i \in DOMAIN f \ S |-> f[i]]

(***************************************************************************)
(* Publishers and acknowledgers                                            *)
(***************************************************************************)

\* notify_file_change for one dependent agent: the row ...
Notify ==
  /\ changes < MaxChanges
  /\ changes' = changes + 1
  /\ CreateRow(changes + 1)
  /\ tracking' = tracking \cup {rows + 1}
  /\ UNCHANGED <<before, acked, pending, aged, clearing, sweep, faults>>

\* ... and the entry in pending_acks.
Track(id) ==
  /\ id \in tracking
  /\ ~ sweeping
  /\ pending' = Insert(pending, id, 0)
  /\ tracking' = tracking \ {id}
  /\ aged' = aged \ {id}
  /\ UNCHANGED <<table, clearing, sweep, faults>>

\* acknowledge_notification: the row ...
Acknowledge(id) ==
  /\ id \in 1..rows \ clearing
  /\ acked' = acked \cup {id}
  /\ clearing' = clearing \cup {id}
  /\ UNCHANGED <<rows, about, changes, before, pending, aged, tracking, sweep,
                 faults>>

\* ... and the entry.
Clear(id) ==
  /\ id \in clearing
  /\ ~ sweeping
  /\ pending' = Without(pending, {id})
  /\ aged' = aged \ {id}
  /\ clearing' = clearing \ {id}
  /\ UNCHANGED <<table, tracking, sweep, faults>>

(***************************************************************************)
(* check_ack_timeouts                                                      *)
(***************************************************************************)

\* A tracked row becomes older than ACK_TIMEOUT_SECS.
Age(id) ==
  /\ id \in Tracked \ aged
  /\ aged' = aged \cup {id}
  /\ UNCHANGED <<table, pending, tracking, clearing, sweep, faults>>

\* The sweep locks the map; it looks at the entries that have timed out.
SweepStart ==
  /\ ~ sweeping
  /\ aged # {}
  /\ sweeping' = TRUE
  /\ todo' = aged
  /\ UNCHANGED <<table, pending, aged, tracking, clearing, timedOut, moves,
                 drops, faults>>

\* Mutant: one re-delivery too many.
SweepLook_OneMore(id) ==
  /\ id \in todo
  /\ timedOut = {}
  /\ todo' = todo \ {id}
  /\ drops' = IF pending[id] > MaxAckRetries THEN drops \cup {id} ELSE drops
  /\ timedOut' = IF pending[id] > MaxAckRetries \/ id \in acked THEN {}
                 ELSE {id}
  /\ UNCHANGED <<table, pending, aged, tracking, clearing, sweeping, moves, faults>>

\* Mutant: an entry out of retries is skipped and not removed.
SweepLook_KeepsEntry(id) ==
  /\ id \in todo
  /\ timedOut = {}
  /\ todo' = todo \ {id}
  /\ timedOut' = IF pending[id] >= MaxAckRetries \/ id \in acked THEN {}
                 ELSE {id}
  /\ UNCHANGED <<table, pending, aged, tracking, clearing, sweeping, moves,
                 drops, faults>>

\* One entry: out of retries, to be removed; else, if its row is not
\* acknowledged, to be delivered again; else nothing.
SweepLook(id) ==
  /\ id \in todo
  /\ timedOut = {}
  /\ todo' = todo \ {id}
  /\ drops' = IF pending[id] >= MaxAckRetries THEN drops \cup {id} ELSE drops
  /\ timedOut' = IF pending[id] >= MaxAckRetries \/ id \in acked THEN {}
                 ELSE {id}
  /\ UNCHANGED <<table, pending, aged, tracking, clearing, sweeping, moves, faults>>

\* The new row of a re-delivery.
SweepCreate ==
  /\ \E id \in timedOut :
       /\ CreateRow(about[id])
       /\ moves' = moves \cup {<<id, rows + 1>>}
  /\ timedOut' = {}
  /\ UNCHANGED <<changes, before, acked, pending, aged, tracking, clearing,
                 sweeping, todo, drops, faults>>

\* The end of a sweep: the mutex is free and its local variables are gone.
SweepDone ==
  /\ sweeping' = FALSE
  /\ todo' = {}
  /\ timedOut' = {}
  /\ moves' = {}
  /\ drops' = {}

\* Mutant: a re-delivered row starts its retries anew.
SweepEnd_RetryReset ==
  /\ sweeping
  /\ todo = {}
  /\ timedOut = {}
  /\ LET gone == drops \cup {m[1] : m \in moves}
         new == {m[2] : m \in moves}
     IN /\ pending' = [i \in (Tracked \ gone) \cup new |->
                         IF i \in new THEN 0 ELSE pending[i]]
        /\ aged' = aged \ gone
  /\ SweepDone
  /\ UNCHANGED <<table, tracking, clearing, faults>>

\* All entries looked at: drop and replace entries, unlock.
SweepEnd ==
  /\ sweeping
  /\ todo = {}
  /\ timedOut = {}
  /\ LET gone == drops \cup {m[1] : m \in moves}
         new == {m[2] : m \in moves}
         Old(id) == CHOOSE o \in Tracked : <<o, id>> \in moves
     IN /\ pending' = [i \in (Tracked \ gone) \cup new |->
                         IF i \in new THEN pending[Old(i)] + 1 ELSE pending[i]]
        /\ aged' = aged \ gone
  /\ SweepDone
  /\ UNCHANGED <<table, tracking, clearing, faults>>

\* Mutant: the sweep works on the map itself, which an error loses.
SweepFails_MapTaken ==
  /\ faults < MaxFaults
  /\ faults' = faults + 1
  /\ sweeping
  /\ \/ \E id \in todo : pending[id] < MaxAckRetries
     \/ timedOut # {}
     \/ moves # {}
  /\ SweepDone
  /\ pending' = [i \in {} |-> 0]
  /\ aged' = {}
  /\ UNCHANGED <<table, tracking, clearing>>

\* A store call of the sweep fails (reading the rows of an agent, creating a
\* row, recording its metric): it returns with `?`, the rows it created stay
\* and the map is as it was.
SweepFails ==
  /\ faults < MaxFaults
  /\ faults' = faults + 1
  /\ sweeping
  /\ \/ \E id \in todo : pending[id] < MaxAckRetries
     \/ timedOut # {}
     \/ moves # {}
  /\ SweepDone
  /\ UNCHANGED <<table, pending, aged, tracking, clearing>>

\* The process dies; the next one starts with an empty map
\* (NotificationManager::new).
Restart ==
  /\ faults < MaxFaults
  /\ faults' = faults + 1
  /\ before' = changes
  /\ pending' = [i \in {} |-> 0]
  /\ aged' = {}
  /\ tracking' = {}
  /\ clearing' = {}
  /\ SweepDone
  /\ UNCHANGED <<rows, about, changes, acked>>

\* recover_from_crash, before the new process does anything else: every row
\* that is not acknowledged is tracked again.
RecoverFromCrash ==
  /\ before = changes
  /\ Tracked \cup tracking \cup clearing = {}
  /\ ~ sweeping
  /\ before' = 0
  /\ pending' = [i \in 1..rows \ acked |-> 0]
  /\ UNCHANGED <<rows, about, changes, acked, aged, tracking, clearing, sweep,
                 faults>>

(***************************************************************************)
(* Specification                                                           *)
(***************************************************************************)

Init ==
  /\ rows = 0
  /\ about = [i \in Ids |-> 0]
  /\ changes = 0
  /\ before = 0
  /\ acked = {}
  /\ pending = [i \in {} |-> 0]
  /\ aged = {}
  /\ tracking = {}
  /\ clearing = {}
  /\ sweeping = FALSE
  /\ todo = {}
  /\ timedOut = {}
  /\ moves = {}
  /\ drops = {}
  /\ faults = 0

SweepStep ==
  \/ SweepStart
  \/ \E id \in todo : SweepLook(id)
  \/ SweepCreate
  \/ SweepEnd

Next ==
  \/ Notify
  \/ \E id \in Ids : Track(id) \/ Acknowledge(id) \/ Clear(id) \/ Age(id)
  \/ SweepStep
  \/ SweepFails
  \/ Restart
  \/ RecoverFromCrash

Spec == Init /\ [][Next]_vars

\* Started calls go on (the mutex is fair), time passes and the sweep ticks.
\* Nothing makes an agent acknowledge.
Fairness ==
  /\ SF_vars(\E id \in Ids : Track(id) \/ Clear(id))
  /\ WF_vars(\E id \in Ids : Age(id))
  /\ WF_vars(SweepStep)

FairSpec == Spec /\ Fairness

(***************************************************************************)
(* Properties                                                              *)
(***************************************************************************)

\* The type invariant.
TypeOK ==
  /\ rows \in 0..MaxRows
  /\ about \in [Ids -> 0..MaxChanges]
  /\ changes \in 0..MaxChanges
  /\ before \in 0..changes
  /\ acked \in SUBSET (1..rows)
  /\ Tracked \subseteq 1..rows
  /\ \A id \in Tracked : pending[id] \in 0..MaxAckRetries
  /\ aged \in SUBSET Tracked
  /\ tracking \in SUBSET (1..rows)
  /\ clearing \in SUBSET (1..rows)
  /\ sweeping \in BOOLEAN
  /\ todo \in SUBSET Tracked
  /\ timedOut \in SUBSET Tracked
  /\ moves \in SUBSET (Tracked \X (1..rows))
  /\ drops \in SUBSET Tracked
  /\ faults \in 0..MaxFaults

RowsOf(c) == {id \in 1..rows : about[id] = c}

\* The changes this process knows of.
Known == (before + 1)..changes

\* At-least-once delivery within the life of a process: a change it knows of,
\* none of whose rows is acknowledged, is still tracked for re-delivery, or was
\* delivered as often as it ever is. No race of sweep, publisher and
\* acknowledger and no failed sweep loses it. (A restart does lose the changes
\* before it, unless recover_from_crash follows.)
NotForgotten ==
  \A c \in Known :
    \/ RowsOf(c) \cap acked # {}
    \/ RowsOf(c) \cap (Tracked \cup tracking) # {}
    \/ Cardinality(RowsOf(c)) > MaxAckRetries

\* check_ack_timeouts: "re-delivery is bounded by MAX_ACK_RETRIES". A change
\* is delivered at most once plus that often, while no sweep fails halfway and
\* nothing is recovered after a crash, which counts the retries anew.
DeliveriesBounded ==
  faults = 0 => \A c \in 1..changes : Cardinality(RowsOf(c)) <= 1 + MaxAckRetries

Awaited(c) == RowsOf(c) \cap (Tracked \ acked)

\* A change that nobody acknowledges does not stay in pending_acks, also when
\* sweeps fail and after a recovery (unless the model's table is full).
UnackedLeaves ==
  \A c \in Changes : Awaited(c) # {} ~> Awaited(c) = {} \/ rows = MaxRows

=============================================================================
