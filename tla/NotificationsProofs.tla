------------------------ MODULE NotificationsProofs ------------------------
(***************************************************************************)
(* Notifications for every number of retries, changes, rows and faults: no *)
(* change that the process knows of is forgotten, and while no sweep fails *)
(* and nothing restarts none is delivered more often than MAX_ACK_RETRIES  *)
(* allows.                                                                 *)
(***************************************************************************)
EXTENDS Notifications, FiniteSetTheorems, TLAPS

\* Every row is about a change, and every change has a row.
RowsInv ==
  /\ \A id \in 1..rows : about[id] \in 1..changes
  /\ \A c \in 1..changes : RowsOf(c) # {}

Deliveries(c) == Cardinality(RowsOf(c))

\* A retry count stands for rows that were created.
CountInv ==
  \A id \in Tracked, c \in 1..changes :
    about[id] = c => pending[id] + 1 <= Deliveries(c)

\* What the sweep has gathered under the mutex.
SweepInv ==
  /\ ~ sweeping => todo = {} /\ timedOut = {} /\ moves = {} /\ drops = {}
  /\ \A id \in timedOut : pending[id] < MaxAckRetries
  /\ \A id \in drops : pending[id] >= MaxAckRetries
  /\ \A m \in moves : /\ about[m[2]] = about[m[1]]
                      /\ pending[m[1]] < MaxAckRetries
                      /\ \A c \in 1..changes :
                           about[m[1]] = c => pending[m[1]] + 2 <= Deliveries(c)

\* An entry is removed only for a row that is acknowledged.
ClearInv == clearing \subseteq acked

\* Without a fault there was one process only.
StartInv == faults = 0 => before = 0

\* The inductive invariant.
IInv == TypeOK /\ RowsInv /\ CountInv /\ SweepInv /\ ClearInv /\ StartInv /\ NotForgotten

Moved(id) == \E m \in moves : m[1] = id

\* A sweep looks at an entry once, and rows it creates are new.
OnceInv ==
  /\ Tracked \cap tracking = {}
  /\ \A m \in moves : m[2] \notin Tracked \cup tracking
  /\ todo \cap timedOut = {}
  /\ \A m \in moves : m[1] \notin todo \cup timedOut
  /\ \A m, n \in moves : m[1] = n[1] => m = n

\* One live row of each change, and its retry count is exact.
ExactInv ==
  /\ \A i, j \in Tracked \cup tracking : about[i] = about[j] => i = j
  /\ \A i \in Tracked, c \in 1..changes : about[i] = c =>
       Deliveries(c) <= IF Moved(i) THEN pending[i] + 2 ELSE pending[i] + 1
  /\ \A i \in tracking, c \in 1..changes : about[i] = c => Deliveries(c) <= 1
  /\ \A c \in 1..changes : Deliveries(c) <= 1 + MaxAckRetries

\* The inductive invariant of the bound.
BInv == OnceInv /\ (faults = 0 => ExactInv)

(***************************************************************************)
(* The rows of a change                                                    *)
(***************************************************************************)

\* The bounds are numbers.
LEMMA ConstantsAreNat ==
  MaxAckRetries \in Nat /\ MaxChanges \in Nat /\ MaxRows \in Nat /\ MaxFaults \in Nat
BY NotificationsAssumption

\* A change has finitely many rows, and at least one delivery if it has any.
LEMMA RowsAreCounted ==
  ASSUME rows \in Nat
  PROVE  \A c : /\ IsFiniteSet(RowsOf(c))
                /\ Deliveries(c) \in Nat
                /\ RowsOf(c) # {} => Deliveries(c) >= 1
<1> TAKE c
<1>1. IsFiniteSet(1..rows)
  BY FS_Interval
<1>2. IsFiniteSet(RowsOf(c))
  BY <1>1, FS_Subset DEF RowsOf
<1>3. Deliveries(c) \in Nat
  BY <1>2, FS_CardinalityType DEF Deliveries
<1>4. ASSUME RowsOf(c) # {} PROVE Deliveries(c) >= 1
  <2>1. Cardinality(RowsOf(c)) # 0
    BY <1>2, <1>4, FS_EmptySet
  <2> QED BY <2>1, <1>3 DEF Deliveries
<1> QED BY <1>2, <1>3, <1>4

\* A step that leaves the table alone leaves the deliveries alone.
LEMMA RowsUnchanged ==
  ASSUME UNCHANGED <<rows, about>>
  PROVE  \A c : RowsOf(c)' = RowsOf(c) /\ Deliveries(c)' = Deliveries(c)
BY DEF RowsOf, Deliveries

\* create_change_notification adds one delivery of its change and of no other.
LEMMA RowsGrow ==
  ASSUME TypeOK, NEW d \in 1..MaxChanges, CreateRow(d)
  PROVE  /\ rows' = rows + 1 /\ rows \in Nat /\ rows' \in 0..MaxRows
         /\ about' \in [Ids -> 0..MaxChanges]
         /\ about'[rows + 1] = d
         /\ \A i \in 1..rows : about'[i] = about[i]
         /\ \A c : RowsOf(c)' = IF c = d THEN RowsOf(c) \cup {rows + 1} ELSE RowsOf(c)
         /\ \A c : Deliveries(c)' = IF c = d THEN Deliveries(c) + 1 ELSE Deliveries(c)
<1>1. rows' = rows + 1 /\ rows \in Nat /\ rows' \in 0..MaxRows /\ rows + 1 \in Ids
  BY ConstantsAreNat DEF TypeOK, CreateRow, Ids
<1>2. about' \in [Ids -> 0..MaxChanges] /\ about'[rows + 1] = d
  BY <1>1, ConstantsAreNat DEF TypeOK, CreateRow
<1>3. \A i \in 1..rows : about'[i] = about[i]
  <2> TAKE i \in 1..rows
  <2>1. i \in Ids /\ i # rows + 1
    BY <1>1, ConstantsAreNat DEF Ids
  <2> QED BY <2>1 DEF TypeOK, CreateRow
<1>4. \A c : RowsOf(c)' = IF c = d THEN RowsOf(c) \cup {rows + 1} ELSE RowsOf(c)
  <2> TAKE c
  <2>1. 1..(rows + 1) = (1..rows) \cup {rows + 1}
    BY <1>1
  <2>2. RowsOf(c)' = {i \in (1..rows) \cup {rows + 1} : about'[i] = c}
    BY <1>1, <2>1 DEF RowsOf
  <2> QED BY <2>2, <1>2, <1>3 DEF RowsOf
<1>5. \A c : Deliveries(c)' = IF c = d THEN Deliveries(c) + 1 ELSE Deliveries(c)
  <2> TAKE c
  <2>1. IsFiniteSet(RowsOf(c))
    BY <1>1, RowsAreCounted
  <2>2. rows + 1 \notin RowsOf(c)
    BY <1>1 DEF RowsOf
  <2>3. Cardinality(RowsOf(c) \cup {rows + 1}) = Cardinality(RowsOf(c)) + 1
    BY <2>1, <2>2, FS_AddElement
  <2> QED BY <2>3, <1>4 DEF Deliveries
<1> QED BY <1>1, <1>2, <1>3, <1>4, <1>5

(***************************************************************************)
(* The inductive invariant, action by action                               *)
(***************************************************************************)

\* What the steps below need of the rows: they are numbered, each is about a
\* change that was published, and the counts of deliveries are numbers.
LEMMA RowFacts ==
  ASSUME IInv
  PROVE  /\ rows \in Nat /\ changes \in Nat
         /\ 1..changes \subseteq 1..MaxChanges
         /\ \A id \in 1..rows : about[id] \in 1..changes /\ id \in RowsOf(about[id])
         /\ \A c : Deliveries(c) \in Nat
         /\ \A c \in 1..changes : Deliveries(c) >= 1
<1>1. rows \in Nat /\ changes \in Nat /\ 1..changes \subseteq 1..MaxChanges
  BY ConstantsAreNat DEF IInv, TypeOK
<1>2. \A id \in 1..rows : about[id] \in 1..changes /\ id \in RowsOf(about[id])
  BY DEF IInv, RowsInv, RowsOf
<1>3. \A c : Deliveries(c) \in Nat
  BY <1>1, RowsAreCounted
<1>4. \A c \in 1..changes : Deliveries(c) >= 1
  BY <1>1, RowsAreCounted DEF IInv, RowsInv
<1> QED BY <1>1, <1>2, <1>3, <1>4

LEMMA InitInv ==
  Init => IInv
<1> SUFFICES ASSUME Init PROVE IInv
  OBVIOUS
<1>1. TypeOK
  <2>1. Tracked = {}
    BY DEF Init, Tracked
  <2>2. /\ rows \in 0..MaxRows /\ changes \in 0..MaxChanges /\ faults \in 0..MaxFaults
        /\ before \in 0..changes
    BY ConstantsAreNat DEF Init
  <2>3. about \in [Ids -> 0..MaxChanges]
    BY ConstantsAreNat DEF Init
  <2> QED BY <2>1, <2>2, <2>3 DEF Init, TypeOK
<1>2. RowsInv
  BY DEF Init, RowsInv
<1>3. CountInv
  BY DEF Init, CountInv
<1>4. SweepInv /\ ClearInv
  BY DEF Init, SweepInv, ClearInv
<1>5. NotForgotten
  BY DEF Init, NotForgotten, Known
<1>6. StartInv
  BY DEF Init, StartInv
<1> QED BY <1>1, <1>2, <1>3, <1>4, <1>5, <1>6 DEF IInv

LEMMA NotifyKeeps ==
  ASSUME IInv, Notify
  PROVE  IInv'
<1> DEFINE d == changes + 1
<1>0. d \in 1..MaxChanges /\ changes' = d /\ d \notin 1..changes
      /\ 1..changes' = (1..changes) \cup {d}
  BY ConstantsAreNat DEF IInv, TypeOK, Notify
<1>1. CreateRow(d)
  BY DEF Notify
<1> HIDE DEF d
<1>2. TypeOK
  BY DEF IInv
<1>3. /\ rows' = rows + 1 /\ rows \in Nat /\ rows' \in 0..MaxRows
      /\ about' \in [Ids -> 0..MaxChanges]
      /\ about'[rows + 1] = d
      /\ \A i \in 1..rows : about'[i] = about[i]
      /\ \A c : RowsOf(c)' = IF c = d THEN RowsOf(c) \cup {rows + 1} ELSE RowsOf(c)
      /\ \A c : Deliveries(c)' = IF c = d THEN Deliveries(c) + 1 ELSE Deliveries(c)
  BY <1>0, <1>1, <1>2, RowsGrow
<1>4. /\ 1..rows' = (1..rows) \cup {rows + 1}
      /\ rows + 1 \notin 1..rows
  BY <1>3
<1>5. UNCHANGED <<before, acked, pending, aged, clearing, sweeping, todo, timedOut, moves,
                  drops, faults>>
      /\ tracking' = tracking \cup {rows + 1} /\ Tracked' = Tracked
  BY DEF Notify, sweep, Tracked
<1>6. TypeOK'
  <2>1. changes' \in 0..MaxChanges /\ before' \in 0..changes'
    BY <1>0, <1>2, <1>5, ConstantsAreNat DEF TypeOK, d
  <2> QED BY <1>2, <1>3, <1>4, <1>5, <2>1 DEF TypeOK
<1>7. RowsInv'
  <2>1. \A id \in 1..rows' : about'[id] \in 1..changes'
    BY <1>0, <1>3, <1>4 DEF IInv, RowsInv
  <2>2. \A c \in 1..changes' : RowsOf(c)' # {}
    BY <1>0, <1>3 DEF IInv, RowsInv
  <2> QED BY <2>1, <2>2 DEF RowsInv
<1>8. \A id \in Tracked : id \in 1..rows /\ about'[id] = about[id]
                          /\ about[id] \in 1..changes
  BY <1>2, <1>3 DEF TypeOK, IInv, RowsInv
<1>9. \A c \in 1..changes : Deliveries(c)' = Deliveries(c)
  BY <1>0, <1>3
<1>10. CountInv'
  BY <1>5, <1>8, <1>9 DEF IInv, CountInv
<1>11. SweepInv'
  <2>1. \A m \in moves : m[1] \in Tracked /\ m[2] \in 1..rows
    BY <1>2 DEF TypeOK
  <2> QED BY <1>3, <1>5, <1>8, <1>9, <2>1 DEF IInv, SweepInv
<1>12. ClearInv'
  BY <1>5 DEF IInv, ClearInv
<1>13. NotForgotten'
  <2>0. Known' \subseteq Known \cup {d} /\ d \notin Known
    BY <1>0, <1>2, <1>5, ConstantsAreNat DEF TypeOK, Known, d
  <2> SUFFICES ASSUME NEW c \in Known'
               PROVE  \/ RowsOf(c)' \cap acked' # {}
                      \/ RowsOf(c)' \cap (Tracked' \cup tracking') # {}
                      \/ Cardinality(RowsOf(c)') > MaxAckRetries
    BY DEF NotForgotten
  <2>1. CASE c = d
    BY <2>1, <1>3, <1>5
  <2>2. CASE c \in Known
    <3>1. RowsOf(c)' = RowsOf(c)
      BY <2>0, <2>2, <1>3
    <3> QED BY <2>2, <3>1, <1>5 DEF IInv, NotForgotten
  <2> QED BY <2>0, <2>1, <2>2
<1>14. StartInv'
  BY <1>5 DEF IInv, StartInv
<1> QED BY <1>6, <1>7, <1>10, <1>11, <1>12, <1>13, <1>14 DEF IInv

\* The part of the invariant about the table alone.
LEMMA TableKept ==
  ASSUME IInv, UNCHANGED table
  PROVE  /\ UNCHANGED <<rows, about, changes, before, acked>>
         /\ RowsInv' /\ Known' = Known
         /\ \A c : RowsOf(c)' = RowsOf(c) /\ Deliveries(c)' = Deliveries(c)
<1>1. UNCHANGED <<rows, about, changes, before, acked>>
  BY DEF table
<1>2. \A c : RowsOf(c)' = RowsOf(c) /\ Deliveries(c)' = Deliveries(c)
  BY <1>1, RowsUnchanged
<1> QED BY <1>1, <1>2 DEF IInv, RowsInv, Known

\* The publisher's entry starts at zero retries, and its row exists.
LEMMA TrackKeeps ==
  ASSUME IInv, NEW id \in Ids, Track(id)
  PROVE  IInv'
<1>1. UNCHANGED <<rows, about, changes, before, acked>> /\ RowsInv' /\ Known' = Known
      /\ \A c : RowsOf(c)' = RowsOf(c) /\ Deliveries(c)' = Deliveries(c)
  BY TableKept DEF Track
<1>2. /\ UNCHANGED <<clearing, sweeping, todo, timedOut, moves, drops, faults>>
      /\ id \in tracking /\ ~ sweeping
      /\ tracking' = tracking \ {id} /\ aged' = aged \ {id}
  BY DEF Track, sweep
<1>3. id \in 1..rows
  BY <1>2 DEF IInv, TypeOK
<1>4. /\ Tracked' = Tracked \cup {id}
      /\ pending'[id] = 0
      /\ \A i \in Tracked \ {id} : pending'[i] = pending[i]
  BY DEF Track, Insert, Tracked
<1>5. todo = {} /\ timedOut = {} /\ moves = {} /\ drops = {}
  BY <1>2 DEF IInv, SweepInv
<1>6. TypeOK'
  <2>1. \A i \in Tracked' : pending'[i] \in 0..MaxAckRetries
    BY <1>4, ConstantsAreNat DEF IInv, TypeOK
  <2> QED BY <1>1, <1>2, <1>3, <1>4, <1>5, <2>1 DEF IInv, TypeOK
<1>7. CountInv'
  <2> SUFFICES ASSUME NEW i \in Tracked', NEW c \in 1..changes', about'[i] = c
               PROVE  pending'[i] + 1 <= Deliveries(c)'
    BY DEF CountInv
  <2>1. CASE i = id
    <3>1. Deliveries(c) \in Nat /\ Deliveries(c) >= 1
      BY <1>1, RowFacts
    <3> QED BY <2>1, <3>1, <1>1, <1>4
  <2>2. CASE i # id
    BY <2>2, <1>1, <1>4 DEF IInv, CountInv
  <2> QED BY <2>1, <2>2
<1>8. SweepInv'
  BY <1>2, <1>5 DEF SweepInv
<1>9. ClearInv'
  BY <1>1, <1>2 DEF IInv, ClearInv
<1>10. NotForgotten'
  <2>1. Tracked' \cup tracking' = Tracked \cup tracking
    BY <1>2, <1>4
  <2> QED BY <2>1, <1>1 DEF IInv, NotForgotten
<1>11. StartInv'
  BY <1>1, <1>2 DEF IInv, StartInv
<1> QED BY <1>1, <1>6, <1>7, <1>8, <1>9, <1>10, <1>11 DEF IInv

LEMMA AcknowledgeKeeps ==
  ASSUME IInv, NEW id \in Ids, Acknowledge(id)
  PROVE  IInv'
<1>1. /\ UNCHANGED <<rows, about, changes, before, pending, aged, tracking, sweeping, todo,
                     timedOut, moves, drops, faults>>
      /\ id \in 1..rows
      /\ acked' = acked \cup {id} /\ clearing' = clearing \cup {id}
      /\ Tracked' = Tracked
  BY DEF Acknowledge, sweep, Tracked
<1>2. \A c : RowsOf(c)' = RowsOf(c) /\ Deliveries(c)' = Deliveries(c)
  BY <1>1, RowsUnchanged
<1>3. TypeOK'
  BY <1>1 DEF IInv, TypeOK
<1>4. RowsInv' /\ CountInv' /\ ClearInv'
  BY <1>1, <1>2 DEF IInv, RowsInv, CountInv, ClearInv
<1>5. SweepInv'
  BY <1>1, <1>2 DEF IInv, SweepInv
<1>6. NotForgotten'
  BY <1>1, <1>2 DEF IInv, NotForgotten, Known
<1>7. StartInv'
  BY <1>1 DEF IInv, StartInv
<1> QED BY <1>3, <1>4, <1>5, <1>6, <1>7 DEF IInv

\* The acknowledger removes an entry: its row is acknowledged already.
LEMMA ClearKeeps ==
  ASSUME IInv, NEW id \in Ids, Clear(id)
  PROVE  IInv'
<1>1. UNCHANGED <<rows, about, changes, before, acked>> /\ RowsInv' /\ Known' = Known
      /\ \A c : RowsOf(c)' = RowsOf(c) /\ Deliveries(c)' = Deliveries(c)
  BY TableKept DEF Clear
<1>2. /\ UNCHANGED <<tracking, sweeping, todo, timedOut, moves, drops, faults>>
      /\ id \in acked /\ ~ sweeping
      /\ clearing' = clearing \ {id} /\ aged' = aged \ {id}
  BY DEF Clear, sweep, IInv, ClearInv
<1>3. /\ Tracked' = Tracked \ {id}
      /\ \A i \in Tracked \ {id} : pending'[i] = pending[i]
  BY DEF Clear, Without, Tracked
<1>4. todo = {} /\ timedOut = {} /\ moves = {} /\ drops = {}
  BY <1>2 DEF IInv, SweepInv
<1>5. TypeOK'
  BY <1>1, <1>2, <1>3, <1>4 DEF IInv, TypeOK
<1>6. CountInv' /\ ClearInv'
  BY <1>1, <1>2, <1>3 DEF IInv, CountInv, ClearInv
<1>7. SweepInv'
  BY <1>2, <1>4 DEF SweepInv
<1>8. NotForgotten'
  <2> SUFFICES ASSUME NEW c \in Known
               PROVE  \/ RowsOf(c) \cap acked # {}
                      \/ RowsOf(c) \cap (Tracked' \cup tracking) # {}
                      \/ Cardinality(RowsOf(c)) > MaxAckRetries
    BY <1>1, <1>2 DEF NotForgotten
  <2>1. CASE id \in RowsOf(c)
    BY <2>1, <1>2
  <2>2. CASE id \notin RowsOf(c)
    BY <2>2, <1>3 DEF IInv, NotForgotten
  <2> QED BY <2>1, <2>2
<1>9. StartInv'
  BY <1>1, <1>2 DEF IInv, StartInv
<1> QED BY <1>1, <1>5, <1>6, <1>7, <1>8, <1>9 DEF IInv

\* Steps of the clock and of the sweep that change neither the table nor the map.
LEMMA LookKeeps ==
  ASSUME IInv,
         UNCHANGED table, UNCHANGED <<pending, tracking, clearing>>,
         aged' \in SUBSET Tracked, faults' \in 0..MaxFaults, faults' = 0 => faults = 0,
         sweeping' \in BOOLEAN, todo' \in SUBSET Tracked,
         timedOut' \in SUBSET Tracked, moves' \in SUBSET moves,
         drops' \in SUBSET Tracked,
         ~ sweeping' => todo' = {} /\ timedOut' = {} /\ moves' = {} /\ drops' = {},
         \A id \in timedOut' : pending[id] < MaxAckRetries,
         \A id \in drops' : pending[id] >= MaxAckRetries
  PROVE  IInv'
<1>1. UNCHANGED <<rows, about, changes, before, acked>> /\ RowsInv' /\ Known' = Known
      /\ \A c : RowsOf(c)' = RowsOf(c) /\ Deliveries(c)' = Deliveries(c)
  BY TableKept
<1>2. Tracked' = Tracked
  BY DEF Tracked
<1>3. TypeOK'
  BY <1>1, <1>2 DEF IInv, TypeOK
<1>4. CountInv' /\ ClearInv'
  BY <1>1, <1>2 DEF IInv, CountInv, ClearInv
<1>5. SweepInv'
  BY <1>1 DEF IInv, SweepInv
<1>6. NotForgotten'
  BY <1>1, <1>2 DEF IInv, NotForgotten
<1>7. StartInv'
  BY <1>1 DEF IInv, StartInv
<1> QED BY <1>1, <1>3, <1>4, <1>5, <1>6, <1>7 DEF IInv

LEMMA AgeKeeps ==
  ASSUME IInv, NEW id \in Ids, Age(id)
  PROVE  IInv'
<1>1. /\ UNCHANGED table /\ UNCHANGED <<pending, tracking, clearing>>
      /\ UNCHANGED <<sweeping, todo, timedOut, moves, drops, faults>>
      /\ aged' = aged \cup {id} /\ id \in Tracked
  BY DEF Age, sweep
<1>2. TypeOK /\ SweepInv
  BY DEF IInv
<1> QED BY <1>1, <1>2, LookKeeps DEF TypeOK, SweepInv

LEMMA SweepStartKeeps ==
  ASSUME IInv, SweepStart
  PROVE  IInv'
<1>1. /\ UNCHANGED table /\ UNCHANGED <<pending, tracking, clearing>>
      /\ UNCHANGED <<aged, timedOut, moves, drops, faults>>
      /\ sweeping' = TRUE /\ todo' = aged
  BY DEF SweepStart
<1>2. TypeOK /\ SweepInv
  BY DEF IInv
<1> QED BY <1>1, <1>2, LookKeeps DEF TypeOK, SweepInv

LEMMA SweepLookKeeps ==
  ASSUME IInv, NEW id \in todo, SweepLook(id)
  PROVE  IInv'
<1>1. /\ UNCHANGED table /\ UNCHANGED <<pending, tracking, clearing>>
      /\ UNCHANGED <<aged, sweeping, moves, faults>>
      /\ todo' = todo \ {id}
      /\ drops' = IF pending[id] >= MaxAckRetries THEN drops \cup {id} ELSE drops
      /\ timedOut' = IF pending[id] >= MaxAckRetries \/ id \in acked THEN {} ELSE {id}
  BY DEF SweepLook
<1>2. TypeOK /\ SweepInv
  BY DEF IInv
<1>3. id \in Tracked /\ pending[id] \in 0..MaxAckRetries /\ sweeping
  BY <1>2 DEF TypeOK, SweepInv
<1>4. \A i \in timedOut' : i \in Tracked /\ pending[i] < MaxAckRetries
  BY <1>1, <1>3, ConstantsAreNat
<1>5. \A i \in drops' : i \in Tracked /\ pending[i] >= MaxAckRetries
  BY <1>1, <1>2, <1>3 DEF TypeOK, SweepInv
<1>6. /\ aged' \in SUBSET Tracked /\ faults' \in 0..MaxFaults
      /\ sweeping' \in BOOLEAN /\ todo' \in SUBSET Tracked
      /\ timedOut' \in SUBSET Tracked /\ moves' \in SUBSET moves
      /\ drops' \in SUBSET Tracked
  BY <1>1, <1>2, <1>4, <1>5 DEF TypeOK
<1> QED BY <1>1, <1>3, <1>4, <1>5, <1>6, LookKeeps

\* A failed sweep leaves the map as it was.
LEMMA SweepFailsKeeps ==
  ASSUME IInv, SweepFails
  PROVE  IInv'
<1>1. /\ UNCHANGED table /\ UNCHANGED <<pending, tracking, clearing>>
      /\ UNCHANGED aged
      /\ sweeping' = FALSE /\ todo' = {} /\ timedOut' = {} /\ moves' = {} /\ drops' = {}
      /\ faults < MaxFaults /\ faults' = faults + 1
  BY DEF SweepFails, SweepDone
<1>2. TypeOK
  BY DEF IInv
<1>3. faults' \in 0..MaxFaults /\ faults' # 0
  BY <1>1, <1>2, ConstantsAreNat DEF TypeOK
<1> QED BY <1>1, <1>2, <1>3, LookKeeps DEF TypeOK

\* The re-delivery: the row exists before the map knows of it.
LEMMA SweepCreateKeeps ==
  ASSUME IInv, SweepCreate
  PROVE  IInv'
<1>1. PICK id \in timedOut : CreateRow(about[id]) /\ moves' = moves \cup {<<id, rows + 1>>}
  BY DEF SweepCreate
<1>2. TypeOK
  BY DEF IInv
<1>3. id \in Tracked /\ id \in 1..rows
  BY <1>2 DEF TypeOK
<1>4. about[id] \in 1..changes /\ about[id] \in 1..MaxChanges
  BY <1>3, RowFacts
<1>5. PICK d \in 1..MaxChanges : d = about[id] /\ d \in 1..changes /\ CreateRow(d)
  BY <1>1, <1>4
<1>6. /\ rows' = rows + 1 /\ rows \in Nat /\ rows' \in 0..MaxRows
      /\ about' \in [Ids -> 0..MaxChanges]
      /\ about'[rows + 1] = d
      /\ \A i \in 1..rows : about'[i] = about[i]
      /\ \A c : RowsOf(c)' = IF c = d THEN RowsOf(c) \cup {rows + 1} ELSE RowsOf(c)
      /\ \A c : Deliveries(c)' = IF c = d THEN Deliveries(c) + 1 ELSE Deliveries(c)
  BY <1>2, <1>5, RowsGrow
<1>7. 1..rows' = (1..rows) \cup {rows + 1} /\ rows + 1 \notin 1..rows
  BY <1>6
<1>8. /\ UNCHANGED <<changes, before, acked, pending, aged, tracking, clearing, sweeping,
                     todo, drops, faults>>
      /\ timedOut' = {} /\ Tracked' = Tracked
  BY DEF SweepCreate, Tracked
<1>9. \A c : Deliveries(c) \in Nat /\ Deliveries(c)' \in Nat /\ Deliveries(c)' >= Deliveries(c)
  BY <1>6, RowFacts
<1>10. \A c : RowsOf(c) \subseteq RowsOf(c)'
  BY <1>6
<1>11. TypeOK'
  <2>1. moves' \in SUBSET (Tracked' \X (1..rows'))
    BY <1>1, <1>2, <1>3, <1>7, <1>8 DEF TypeOK
  <2> QED BY <1>2, <1>6, <1>7, <1>8, <2>1 DEF TypeOK
<1>12. RowsInv'
  <2>1. \A i \in 1..rows' : about'[i] \in 1..changes'
    BY <1>5, <1>6, <1>7, <1>8 DEF IInv, RowsInv
  <2>2. \A c \in 1..changes' : RowsOf(c)' # {}
    BY <1>8, <1>10 DEF IInv, RowsInv
  <2> QED BY <2>1, <2>2 DEF RowsInv
<1>13. \A i \in Tracked : i \in 1..rows /\ about'[i] = about[i]
                          /\ pending[i] \in Nat
  BY <1>2, <1>6, ConstantsAreNat DEF TypeOK
<1>14. CountInv'
  <2> SUFFICES ASSUME NEW i \in Tracked, NEW c \in 1..changes, about[i] = c
               PROVE  pending[i] + 1 <= Deliveries(c)'
    BY <1>8, <1>13 DEF CountInv
  <2>1. pending[i] + 1 <= Deliveries(c)
    BY DEF IInv, CountInv
  <2> QED BY <2>1, <1>9, <1>13
<1>15. SweepInv'
  <2>1. sweeping
    BY <1>1 DEF IInv, SweepInv
  <2>2. pending[id] < MaxAckRetries
    BY <1>1 DEF IInv, SweepInv
  <2>3. ASSUME NEW m \in moves'
        PROVE  /\ about'[m[2]] = about'[m[1]]
               /\ pending[m[1]] < MaxAckRetries
               /\ \A c \in 1..changes :
                    about'[m[1]] = c => pending[m[1]] + 2 <= Deliveries(c)'
    <3>1. CASE m \in moves
      <4>1. m[1] \in Tracked /\ m[2] \in 1..rows
        BY <3>1, <1>2 DEF TypeOK
      <4>2. /\ about[m[2]] = about[m[1]]
            /\ pending[m[1]] < MaxAckRetries
            /\ \A c \in 1..changes :
                 about[m[1]] = c => pending[m[1]] + 2 <= Deliveries(c)
        BY <3>1 DEF IInv, SweepInv
      <4>3. about'[m[2]] = about[m[2]] /\ about'[m[1]] = about[m[1]]
        BY <4>1, <1>6, <1>13
      <4> QED BY <4>1, <4>2, <4>3, <1>9, <1>13
    <3>2. CASE m = <<id, rows + 1>>
      <4>1. m[1] = id /\ m[2] = rows + 1
        BY <3>2
      <4>2. about'[id] = d /\ about'[rows + 1] = d
        BY <1>3, <1>5, <1>6
      <4>3. pending[id] + 1 <= Deliveries(d)
        BY <1>3, <1>5 DEF IInv, CountInv
      <4>4. pending[id] + 2 <= Deliveries(d)'
        <5>1. Deliveries(d)' = Deliveries(d) + 1
          BY <1>6
        <5>2. Deliveries(d) \in Nat /\ pending[id] \in Nat
          BY <1>3, <1>9, <1>13
        <5> QED BY <4>3, <5>1, <5>2
      <4> QED BY <4>1, <4>2, <4>4, <2>2
    <3> QED BY <3>1, <3>2, <1>1
  <2>4. \A i \in drops : pending[i] >= MaxAckRetries
    BY DEF IInv, SweepInv
  <2> QED BY <2>1, <2>3, <2>4, <1>8 DEF SweepInv
<1>16. ClearInv'
  BY <1>8 DEF IInv, ClearInv
<1>17. NotForgotten'
  <2> SUFFICES ASSUME NEW c \in Known
               PROVE  \/ RowsOf(c)' \cap acked # {}
                      \/ RowsOf(c)' \cap (Tracked \cup tracking) # {}
                      \/ Cardinality(RowsOf(c)') > MaxAckRetries
    BY <1>8 DEF NotForgotten, Known
  <2>1. CASE Deliveries(c) > MaxAckRetries
    <3>1. Deliveries(c)' > MaxAckRetries
      BY <2>1, <1>9, ConstantsAreNat
    <3> QED BY <3>1 DEF Deliveries
  <2>2. CASE ~ Deliveries(c) > MaxAckRetries
    BY <2>2, <1>10 DEF IInv, NotForgotten, Deliveries
  <2> QED BY <2>1, <2>2
<1>18. StartInv'
  BY <1>8 DEF IInv, StartInv
<1> QED BY <1>11, <1>12, <1>14, <1>15, <1>16, <1>17, <1>18 DEF IInv

\* The entry a re-delivered row replaces.
Replaced(id) == CHOOSE o \in Tracked : <<o, id>> \in moves

\* What the end of a sweep does to the map.
LEMMA SweepEndMap ==
  ASSUME IInv, SweepEnd
  PROVE  LET gone == drops \cup {m[1] : m \in moves}
             new == {m[2] : m \in moves}
         IN  /\ Tracked' = (Tracked \ gone) \cup new
             /\ aged' = aged \ gone
             /\ \A i \in new : /\ Replaced(i) \in Tracked
                               /\ <<Replaced(i), i>> \in moves
                               /\ pending'[i] = pending[Replaced(i)] + 1
             /\ \A i \in Tracked' \ new : i \in Tracked /\ pending'[i] = pending[i]
<1> DEFINE gone == drops \cup {m[1] : m \in moves}
           new == {m[2] : m \in moves}
<1>1. /\ pending' = [i \in (Tracked \ gone) \cup new |->
                       IF i \in new THEN pending[Replaced(i)] + 1 ELSE pending[i]]
      /\ aged' = aged \ gone
  BY DEF SweepEnd, Replaced
<1>2. Tracked' = (Tracked \ gone) \cup new
  BY <1>1 DEF Tracked
<1>3. ASSUME NEW i \in new
      PROVE  Replaced(i) \in Tracked /\ <<Replaced(i), i>> \in moves
  <2>1. PICK m \in moves : i = m[2]
    OBVIOUS
  <2>2. m \in Tracked \X (1..rows)
    BY DEF IInv, TypeOK
  <2>3. m[1] \in Tracked /\ <<m[1], i>> \in moves
    BY <2>1, <2>2
  <2> QED BY <2>3 DEF Replaced
<1> HIDE DEF gone, new
<1>4. \A i \in new : pending'[i] = pending[Replaced(i)] + 1
  BY <1>1
<1>5. \A i \in Tracked' \ new : i \in Tracked /\ pending'[i] = pending[i]
  BY <1>1, <1>2
<1>6. /\ Tracked' = (Tracked \ gone) \cup new
      /\ aged' = aged \ gone
      /\ \A i \in new : /\ Replaced(i) \in Tracked
                        /\ <<Replaced(i), i>> \in moves
                        /\ pending'[i] = pending[Replaced(i)] + 1
      /\ \A i \in Tracked' \ new : i \in Tracked /\ pending'[i] = pending[i]
  BY <1>1, <1>2, <1>3, <1>4, <1>5
<1> QED BY <1>6 DEF gone, new

\* The end of a sweep: an entry leaves the map when it is out of retries or
\* when the row that replaces it enters.
LEMMA SweepEndKeeps ==
  ASSUME IInv, SweepEnd
  PROVE  IInv'
<1> DEFINE gone == drops \cup {m[1] : m \in moves}
           new == {m[2] : m \in moves}
<1>1. UNCHANGED <<rows, about, changes, before, acked>> /\ RowsInv' /\ Known' = Known
      /\ \A c : RowsOf(c)' = RowsOf(c) /\ Deliveries(c)' = Deliveries(c)
  BY TableKept DEF SweepEnd
<1>2. /\ UNCHANGED <<tracking, clearing, faults>>
      /\ sweeping' = FALSE /\ todo' = {} /\ timedOut' = {} /\ moves' = {} /\ drops' = {}
  BY DEF SweepEnd, SweepDone
<1>3. /\ Tracked' = (Tracked \ gone) \cup new
      /\ aged' = aged \ gone
      /\ \A i \in new : /\ Replaced(i) \in Tracked
                        /\ <<Replaced(i), i>> \in moves
                        /\ pending'[i] = pending[Replaced(i)] + 1
      /\ \A i \in Tracked' \ new : i \in Tracked /\ pending'[i] = pending[i]
  BY SweepEndMap
<1>4. TypeOK /\ SweepInv /\ CountInv
  BY DEF IInv
<1>5. ASSUME NEW i \in new
      PROVE  /\ i \in 1..rows /\ about[i] = about[Replaced(i)]
             /\ pending[Replaced(i)] \in Nat
             /\ pending[Replaced(i)] < MaxAckRetries
             /\ \A c \in 1..changes :
                  about[i] = c => pending[Replaced(i)] + 2 <= Deliveries(c)
  <2> DEFINE m == <<Replaced(i), i>>
  <2>1. m \in moves /\ m[1] = Replaced(i) /\ m[2] = i /\ Replaced(i) \in Tracked
    BY <1>3
  <2> HIDE DEF m
  <2>2. i \in 1..rows /\ pending[Replaced(i)] \in Nat
    <3>1. m \in Tracked \X (1..rows)
      BY <2>1, <1>4 DEF TypeOK
    <3>2. pending[Replaced(i)] \in 0..MaxAckRetries
      BY <2>1, <1>4 DEF TypeOK
    <3> QED BY <2>1, <3>1, <3>2, ConstantsAreNat
  <2>3. about[m[2]] = about[m[1]] /\ pending[m[1]] < MaxAckRetries
        /\ \A c \in 1..changes : about[m[1]] = c => pending[m[1]] + 2 <= Deliveries(c)
    BY <2>1, <1>4 DEF SweepInv
  <2> QED BY <2>1, <2>2, <2>3
<1>6. \A i \in gone : i \in Tracked
  <2>1. \A m \in moves : m[1] \in Tracked
    BY <1>4 DEF TypeOK
  <2> QED BY <2>1, <1>4 DEF TypeOK
<1>7. \A m \in moves : m[2] \in new /\ about[m[2]] = about[m[1]]
  BY <1>4 DEF SweepInv
<1>8. \A i \in gone : i \in drops \/ \E m \in moves : i = m[1]
  OBVIOUS
<1> HIDE DEF gone, new
<1>9. TypeOK'
  <2>1. Tracked' \subseteq 1..rows
    BY <1>3, <1>4, <1>5 DEF TypeOK
  <2>2. \A i \in Tracked' : pending'[i] \in 0..MaxAckRetries
    <3> TAKE i \in Tracked'
    <3>1. CASE i \in new
      <4>1. pending'[i] = pending[Replaced(i)] + 1 /\ pending[Replaced(i)] \in Nat
            /\ pending[Replaced(i)] < MaxAckRetries
        BY <3>1, <1>3, <1>5
      <4> QED BY <4>1, ConstantsAreNat
    <3>2. CASE i \notin new
      BY <3>2, <1>3, <1>4 DEF TypeOK
    <3> QED BY <3>1, <3>2
  <2>3. aged' \subseteq Tracked'
    BY <1>3, <1>4 DEF TypeOK
  <2> QED BY <1>1, <1>2, <1>4, <2>1, <2>2, <2>3 DEF TypeOK
<1>10. CountInv'
  <2> SUFFICES ASSUME NEW i \in Tracked', NEW c \in 1..changes, about[i] = c
               PROVE  pending'[i] + 1 <= Deliveries(c)
    BY <1>1 DEF CountInv
  <2>1. CASE i \in new
    <3>1. pending'[i] = pending[Replaced(i)] + 1 /\ pending[Replaced(i)] \in Nat
          /\ pending[Replaced(i)] + 2 <= Deliveries(c) /\ Deliveries(c) \in Nat
      BY <2>1, <1>3, <1>5, RowFacts
    <3> QED BY <3>1
  <2>2. CASE i \notin new
    BY <2>2, <1>3, <1>4 DEF CountInv
  <2> QED BY <2>1, <2>2
<1>11. SweepInv'
  BY <1>2 DEF SweepInv
<1>12. ClearInv'
  BY <1>1, <1>2 DEF IInv, ClearInv
<1>13. NotForgotten'
  <2>0. Known \subseteq 1..changes
    BY <1>4, ConstantsAreNat DEF TypeOK, Known
  <2> SUFFICES ASSUME NEW c \in Known,
                      RowsOf(c) \cap acked = {},
                      ~ (Deliveries(c) > MaxAckRetries)
               PROVE  RowsOf(c) \cap (Tracked' \cup tracking) # {}
    BY <1>1, <1>2 DEF NotForgotten, Deliveries
  <2>1. PICK i \in RowsOf(c) : i \in Tracked \cup tracking
    BY DEF IInv, NotForgotten, Deliveries
  <2>2. about[i] = c /\ i \in 1..rows
    BY DEF RowsOf
  <2>3. CASE i \in tracking \/ i \notin gone
    BY <2>1, <2>3, <1>3
  <2>4. CASE i \in Tracked /\ i \in drops
    <3>1. pending[i] >= MaxAckRetries /\ pending[i] + 1 <= Deliveries(c)
          /\ pending[i] \in 0..MaxAckRetries /\ Deliveries(c) \in Nat
      BY <2>0, <2>2, <2>4, <1>4, RowFacts DEF SweepInv, CountInv, TypeOK
    <3> QED BY <3>1, ConstantsAreNat
  <2>5. CASE \E m \in moves : i = m[1]
    <3>1. PICK m \in moves : i = m[1]
      BY <2>5
    <3>2. m[2] \in new /\ about[m[2]] = c
      BY <3>1, <2>2, <1>7
    <3>3. m[2] \in RowsOf(c) /\ m[2] \in Tracked'
      BY <3>2, <1>3, <1>5 DEF RowsOf
    <3> QED BY <3>3
  <2> QED BY <2>1, <2>3, <2>4, <2>5, <1>6, <1>8
<1>14. StartInv'
  BY <1>1, <1>2 DEF IInv, StartInv
<1> QED BY <1>1, <1>9, <1>10, <1>11, <1>12, <1>13, <1>14 DEF IInv

\* A restart knows of no change: the map is empty.
LEMMA RestartKeeps ==
  ASSUME IInv, Restart
  PROVE  IInv'
<1>1. UNCHANGED <<rows, about, changes, acked>> /\ before' = changes
  BY DEF Restart
<1>2. /\ aged' = {} /\ tracking' = {} /\ clearing' = {}
      /\ sweeping' = FALSE /\ todo' = {} /\ timedOut' = {} /\ moves' = {} /\ drops' = {}
      /\ faults < MaxFaults /\ faults' = faults + 1
  BY DEF Restart, SweepDone
<1>3. Tracked' = {}
  BY DEF Restart, Tracked
<1>4. faults \in Nat /\ faults' \in 0..MaxFaults /\ changes \in Nat
  BY <1>2, ConstantsAreNat DEF IInv, TypeOK
<1>5. TypeOK'
  <2>1. before' \in 0..changes'
    BY <1>1, <1>4
  <2> QED BY <1>1, <1>2, <1>3, <1>4, <2>1 DEF IInv, TypeOK
<1>6. RowsInv'
  BY <1>1, RowsUnchanged DEF IInv, RowsInv
<1>7. CountInv' /\ SweepInv' /\ ClearInv'
  BY <1>2, <1>3 DEF CountInv, SweepInv, ClearInv
<1>8. StartInv'
  BY <1>2, <1>4 DEF StartInv
<1>9. NotForgotten'
  <2>1. Known' = {}
    BY <1>1, <1>4 DEF Known
  <2> QED BY <2>1 DEF NotForgotten
<1> QED BY <1>5, <1>6, <1>7, <1>8, <1>9 DEF IInv

\* recover_from_crash tracks every row that is not acknowledged.
LEMMA RecoverKeeps ==
  ASSUME IInv, RecoverFromCrash
  PROVE  IInv'
<1>1. UNCHANGED <<rows, about, changes, acked, aged, tracking, clearing, sweeping, todo,
                  timedOut, moves, drops, faults>>
      /\ before' = 0 /\ Tracked = {} /\ ~ sweeping
  BY DEF RecoverFromCrash, sweep
<1>2. Tracked' = 1..rows \ acked /\ \A i \in Tracked' : pending'[i] = 0
  BY DEF RecoverFromCrash, Tracked
<1>3. \A c : RowsOf(c)' = RowsOf(c) /\ Deliveries(c)' = Deliveries(c)
  BY <1>1, RowsUnchanged
<1>4. aged = {} /\ todo = {} /\ timedOut = {} /\ moves = {} /\ drops = {}
  BY <1>1 DEF IInv, TypeOK, SweepInv
<1>5. TypeOK'
  <2>1. before' \in 0..changes' /\ \A i \in Tracked' : pending'[i] \in 0..MaxAckRetries
    BY <1>1, <1>2, ConstantsAreNat DEF IInv, TypeOK
  <2> QED BY <1>1, <1>2, <1>4, <2>1 DEF IInv, TypeOK
<1>6. RowsInv' /\ ClearInv' /\ StartInv'
  BY <1>1, <1>3 DEF IInv, RowsInv, ClearInv, StartInv
<1>7. CountInv'
  <2> SUFFICES ASSUME NEW i \in Tracked', NEW c \in 1..changes, about[i] = c
               PROVE  pending'[i] + 1 <= Deliveries(c)
    BY <1>1, <1>3 DEF CountInv
  <2>1. Deliveries(c) \in Nat /\ Deliveries(c) >= 1
    BY RowFacts
  <2> QED BY <2>1, <1>2
<1>8. SweepInv'
  BY <1>1, <1>4 DEF SweepInv
<1>9. NotForgotten'
  <2>0. Known' = 1..changes
    BY <1>1, ConstantsAreNat DEF Known, IInv, TypeOK
  <2> SUFFICES ASSUME NEW c \in 1..changes, RowsOf(c) \cap acked = {}
               PROVE  RowsOf(c) \cap Tracked' # {}
    BY <1>1, <1>3, <2>0 DEF NotForgotten
  <2>1. PICK i : i \in RowsOf(c)
    BY DEF IInv, RowsInv
  <2> QED BY <2>1, <1>2 DEF RowsOf
<1> QED BY <1>5, <1>6, <1>7, <1>8, <1>9 DEF IInv

LEMMA Invariance ==
  Spec => []IInv
<1>1. IInv /\ [Next]_vars => IInv'
  <2> SUFFICES ASSUME IInv, [Next]_vars PROVE IInv'
    OBVIOUS
  <2>1. CASE Notify
    BY <2>1, NotifyKeeps
  <2>2. ASSUME NEW id \in Ids, Track(id) \/ Acknowledge(id) \/ Clear(id) \/ Age(id)
        PROVE  IInv'
    BY <2>2, TrackKeeps, AcknowledgeKeeps, ClearKeeps, AgeKeeps
  <2>3. CASE SweepStep
    BY <2>3, SweepStartKeeps, SweepLookKeeps, SweepCreateKeeps, SweepEndKeeps
       DEF SweepStep
  <2>4. CASE SweepFails
    BY <2>4, SweepFailsKeeps
  <2>5. CASE Restart \/ RecoverFromCrash
    BY <2>5, RestartKeeps, RecoverKeeps
  <2>6. CASE UNCHANGED vars
    <3>1. /\ UNCHANGED table /\ UNCHANGED <<pending, tracking, clearing>>
          /\ UNCHANGED <<aged, sweeping, todo, timedOut, moves, drops, faults>>
      BY <2>6 DEF vars, table
    <3>2. TypeOK /\ SweepInv
      BY DEF IInv
    <3> QED BY <3>1, <3>2, LookKeeps DEF TypeOK, SweepInv
  <2> QED BY <2>1, <2>2, <2>3, <2>4, <2>5, <2>6 DEF Next
<1> QED BY InitInv, <1>1, PTL DEF Spec

(***************************************************************************)
(* Theorems                                                                *)
(***************************************************************************)

\* The variables keep their types: in particular check_ack_timeouts never
\* counts an entry beyond MAX_ACK_RETRIES, and every entry has its row.
THEOREM TypeCorrect ==
  Spec => []TypeOK
<1>1. IInv => TypeOK
  BY DEF IInv
<1> QED BY <1>1, Invariance, PTL

\* At-least-once delivery: however publisher, acknowledger, sweep and failed
\* store calls interleave, a change without an acknowledged row that this
\* process published, or recover_from_crash brought back, is tracked for
\* re-delivery or was delivered more than MAX_ACK_RETRIES times.
THEOREM NoChangeForgotten ==
  Spec => []NotForgotten
<1>1. IInv => NotForgotten
  BY DEF IInv
<1> QED BY <1>1, Invariance, PTL

(***************************************************************************)
(* The bound on deliveries                                                 *)
(***************************************************************************)

LEMMA InitBound ==
  Init => BInv
<1> SUFFICES ASSUME Init PROVE BInv
  OBVIOUS
<1>1. Tracked = {} /\ tracking = {} /\ moves = {} /\ todo = {} /\ timedOut = {}
  BY DEF Init, Tracked
<1>2. 1..changes = {}
  BY DEF Init
<1> QED BY <1>1, <1>2 DEF BInv, OnceInv, ExactInv

\* Steps that neither create rows nor add entries or moves.
LEMMA QuietKeepsBound ==
  ASSUME IInv, BInv,
         UNCHANGED <<rows, about, changes, tracking, moves, faults>>,
         Tracked' \subseteq Tracked,
         \A i \in Tracked' : pending'[i] = pending[i],
         todo' \cap timedOut' = {},
         \A m \in moves : m[1] \notin todo' \cup timedOut'
  PROVE  BInv'
<1>1. \A c : Deliveries(c)' = Deliveries(c)
  BY RowsUnchanged
<1>2. OnceInv'
  BY DEF BInv, OnceInv
<1>3. ASSUME faults = 0 PROVE ExactInv'
  <2>1. ExactInv
    BY <1>3 DEF BInv
  <2>2. \A i : Moved(i)' = Moved(i)
    BY DEF Moved
  <2> QED BY <1>1, <2>1, <2>2 DEF ExactInv
<1> QED BY <1>2, <1>3 DEF BInv

LEMMA NotifyBound ==
  ASSUME IInv, BInv, Notify
  PROVE  BInv'
<1>0. PICK d \in 1..MaxChanges :
        d = changes + 1 /\ changes' = d /\ 1..changes' = (1..changes) \cup {d}
        /\ d \notin 1..changes
  BY ConstantsAreNat DEF IInv, TypeOK, Notify
<1>1. CreateRow(d)
  BY <1>0 DEF Notify
<1>2. TypeOK
  BY DEF IInv
<1>3. /\ rows' = rows + 1 /\ rows \in Nat
      /\ about'[rows + 1] = d
      /\ \A i \in 1..rows : about'[i] = about[i]
      /\ \A c : Deliveries(c)' = IF c = d THEN Deliveries(c) + 1 ELSE Deliveries(c)
  BY <1>1, <1>2, RowsGrow
<1>4. rows + 1 \notin 1..rows
  BY <1>3
<1>5. UNCHANGED <<pending, todo, timedOut, moves, faults>>
      /\ tracking' = tracking \cup {rows + 1} /\ Tracked' = Tracked
  BY DEF Notify, sweep, Tracked
<1>6. Tracked \subseteq 1..rows /\ tracking \subseteq 1..rows
      /\ \A m \in moves : m[2] \in 1..rows
  BY <1>2 DEF TypeOK
<1>7. OnceInv'
  BY <1>4, <1>5, <1>6 DEF BInv, OnceInv
<1>8. ASSUME faults = 0 PROVE ExactInv'
  <2>1. ExactInv
    BY <1>8 DEF BInv
  <2>2. \A i \in 1..rows : about'[i] = about[i] /\ about[i] \in 1..changes
    BY <1>3 DEF IInv, RowsInv
  <2>3. \A c \in 1..changes : Deliveries(c)' = Deliveries(c)
    BY <1>0, <1>3
  <2>4. Deliveries(d)' = 1
    <3>1. RowsOf(d) = {}
      BY <1>0, <2>2 DEF RowsOf
    <3>2. Deliveries(d) = 0
      BY <3>1, FS_EmptySet DEF Deliveries
    <3>3. Deliveries(d)' = Deliveries(d) + 1
      BY <1>3
    <3> QED BY <3>2, <3>3
  <2>5. \A i, j \in Tracked' \cup tracking' : about'[i] = about'[j] => i = j
    <3>1. \A i \in Tracked \cup tracking : i \in 1..rows
      BY <1>6
    <3>2. \A i \in Tracked' \cup tracking' : i \in Tracked \cup tracking \/ i = rows + 1
      BY <1>5
    <3>3. \A i \in Tracked \cup tracking : about'[i] = about[i] /\ about'[i] # d
      BY <3>1, <2>2, <1>0
    <3> QED BY <3>2, <3>3, <1>3, <2>1 DEF ExactInv
  <2>6. \A i : Moved(i)' = Moved(i)
    BY <1>5 DEF Moved
  <2>7. \A i \in Tracked', c \in 1..changes' : about'[i] = c =>
          Deliveries(c)' <= IF Moved(i)' THEN pending'[i] + 2 ELSE pending'[i] + 1
    BY <1>0, <1>5, <1>6, <2>1, <2>2, <2>3, <2>6 DEF ExactInv
  <2>8. \A i \in tracking', c \in 1..changes' : about'[i] = c => Deliveries(c)' <= 1
    <3> SUFFICES ASSUME NEW i \in tracking', NEW c \in 1..changes', about'[i] = c
                 PROVE  Deliveries(c)' <= 1
      OBVIOUS
    <3>1. CASE i = rows + 1
      <4>1. c = d
        BY <3>1, <1>3
      <4> QED BY <4>1, <2>4
    <3>2. CASE i \in tracking
      <4>1. c \in 1..changes /\ about[i] = c
        BY <3>2, <1>6, <2>2
      <4>2. Deliveries(c) <= 1
        BY <3>2, <4>1, <2>1 DEF ExactInv
      <4> QED BY <4>1, <4>2, <2>3
    <3> QED BY <3>1, <3>2, <1>5
  <2>9. \A c \in 1..changes' : Deliveries(c)' <= 1 + MaxAckRetries
    <3> TAKE c \in 1..changes'
    <3>1. CASE c = d
      <4>1. Deliveries(c)' = 1
        BY <3>1, <2>4
      <4> QED BY <4>1, ConstantsAreNat
    <3>2. CASE c \in 1..changes
      BY <3>2, <2>1, <2>3 DEF ExactInv
    <3> QED BY <3>1, <3>2, <1>0
  <2> QED BY <2>5, <2>7, <2>8, <2>9 DEF ExactInv
<1> QED BY <1>5, <1>7, <1>8 DEF BInv

\* The publisher's row was delivered once when its entry is made.
LEMMA TrackBound ==
  ASSUME IInv, BInv, NEW id \in Ids, Track(id)
  PROVE  BInv'
<1>1. UNCHANGED <<rows, about, changes, todo, timedOut, moves, faults>>
      /\ id \in tracking /\ ~ sweeping /\ tracking' = tracking \ {id}
  BY DEF Track, sweep, table
<1>2. /\ Tracked' = Tracked \cup {id}
      /\ pending'[id] = 0
      /\ \A i \in Tracked \ {id} : pending'[i] = pending[i]
  BY DEF Track, Insert, Tracked
<1>3. moves = {} /\ todo = {} /\ timedOut = {}
  BY <1>1 DEF IInv, SweepInv
<1>4. \A c : Deliveries(c)' = Deliveries(c)
  BY <1>1, RowsUnchanged
<1>5. OnceInv'
  BY <1>1, <1>2, <1>3 DEF BInv, OnceInv
<1>6. ASSUME faults = 0 PROVE ExactInv'
  <2>1. ExactInv
    BY <1>6 DEF BInv
  <2>2. Tracked' \cup tracking' = Tracked \cup tracking
    BY <1>1, <1>2
  <2>3. \A i : ~ Moved(i) /\ ~ Moved(i)'
    BY <1>1, <1>3 DEF Moved
  <2>4. \A i \in Tracked', c \in 1..changes : about[i] = c => Deliveries(c) <= pending'[i] + 1
    <3> SUFFICES ASSUME NEW i \in Tracked', NEW c \in 1..changes, about[i] = c
                 PROVE  Deliveries(c) <= pending'[i] + 1
      OBVIOUS
    <3>1. CASE i = id
      BY <3>1, <1>1, <1>2, <2>1 DEF ExactInv
    <3>2. CASE i # id
      BY <3>2, <1>2, <2>1, <2>3 DEF ExactInv
    <3> QED BY <3>1, <3>2
  <2> QED BY <1>1, <1>4, <2>1, <2>2, <2>3, <2>4 DEF ExactInv
<1> QED BY <1>1, <1>5, <1>6 DEF BInv

\* Steps of the acknowledger, the clock and the sweep that create nothing.
LEMMA OtherBound ==
  ASSUME IInv, BInv,
         \/ \E id \in Ids : Acknowledge(id) \/ Clear(id) \/ Age(id)
         \/ SweepStart
         \/ \E id \in todo : SweepLook(id)
         \/ UNCHANGED vars
  PROVE  BInv'
<1>1. ASSUME NEW id \in Ids, Acknowledge(id) \/ Age(id)
      PROVE  BInv'
  <2>1. UNCHANGED <<rows, about, changes, tracking, moves, faults, pending, todo, timedOut>>
        /\ Tracked' = Tracked
    BY <1>1 DEF Acknowledge, Age, sweep, table, Tracked
  <2> QED BY <2>1, QuietKeepsBound DEF BInv, OnceInv
<1>2. ASSUME NEW id \in Ids, Clear(id)
      PROVE  BInv'
  <2>1. UNCHANGED <<rows, about, changes, tracking, moves, faults, todo, timedOut>>
    BY <1>2 DEF Clear, sweep, table
  <2>2. Tracked' \subseteq Tracked /\ \A i \in Tracked' : pending'[i] = pending[i]
    BY <1>2 DEF Clear, Without, Tracked
  <2> QED BY <2>1, <2>2, QuietKeepsBound DEF BInv, OnceInv
<1>3. ASSUME SweepStart
      PROVE  BInv'
  <2>1. UNCHANGED <<rows, about, changes, tracking, moves, faults, pending, timedOut>>
        /\ Tracked' = Tracked /\ ~ sweeping
    BY <1>3 DEF SweepStart, table, Tracked
  <2>2. moves = {} /\ timedOut = {}
    BY <2>1 DEF IInv, SweepInv
  <2> QED BY <2>1, <2>2, QuietKeepsBound
<1>4. ASSUME NEW id \in todo, SweepLook(id)
      PROVE  BInv'
  <2>1. UNCHANGED <<rows, about, changes, tracking, moves, faults, pending>>
        /\ Tracked' = Tracked /\ todo' = todo \ {id} /\ timedOut' \subseteq {id}
    BY <1>4 DEF SweepLook, table, Tracked
  <2>2. todo' \cap timedOut' = {} /\ \A m \in moves : m[1] \notin todo' \cup timedOut'
    BY <2>1 DEF BInv, OnceInv
  <2> QED BY <2>1, <2>2, QuietKeepsBound
<1>5. ASSUME UNCHANGED vars
      PROVE  BInv'
  <2>1. UNCHANGED <<rows, about, changes, tracking, moves, faults, pending, todo, timedOut>>
        /\ Tracked' = Tracked
    BY <1>5 DEF vars, Tracked
  <2> QED BY <2>1, QuietKeepsBound DEF BInv, OnceInv
<1> QED BY <1>1, <1>2, <1>3, <1>4, <1>5

\* A row is created again only for the one entry of its change, once a sweep.
LEMMA SweepCreateBound ==
  ASSUME IInv, BInv, SweepCreate
  PROVE  BInv'
<1>1. PICK id \in timedOut : CreateRow(about[id]) /\ moves' = moves \cup {<<id, rows + 1>>}
  BY DEF SweepCreate
<1>2. TypeOK
  BY DEF IInv
<1>3. id \in Tracked /\ id \in 1..rows /\ pending[id] \in Nat
      /\ pending[id] < MaxAckRetries
  BY <1>2, ConstantsAreNat DEF TypeOK, IInv, SweepInv
<1>4. PICK d \in 1..MaxChanges : d = about[id] /\ d \in 1..changes /\ CreateRow(d)
  BY <1>1, <1>3, RowFacts
<1>5. /\ rows' = rows + 1 /\ rows \in Nat
      /\ about'[rows + 1] = d
      /\ \A i \in 1..rows : about'[i] = about[i]
      /\ \A c : Deliveries(c)' = IF c = d THEN Deliveries(c) + 1 ELSE Deliveries(c)
  BY <1>2, <1>4, RowsGrow
<1>6. rows + 1 \notin 1..rows
  BY <1>5
<1>7. UNCHANGED <<changes, pending, tracking, todo, faults>>
      /\ timedOut' = {} /\ Tracked' = Tracked
  BY DEF SweepCreate, Tracked
<1>8. Tracked \subseteq 1..rows /\ tracking \subseteq 1..rows
  BY <1>2 DEF TypeOK
<1>9. \A m \in moves' : m \in moves \/ (m[1] = id /\ m[2] = rows + 1 /\ m = <<id, rows + 1>>)
  BY <1>1
<1>10. \A m \in moves : m[1] # id
  BY DEF BInv, OnceInv
<1>11. OnceInv'
  <2>1. \A m \in moves' : m[2] \notin Tracked' \cup tracking'
    BY <1>6, <1>7, <1>8, <1>9 DEF BInv, OnceInv
  <2>2. \A m \in moves' : m[1] \notin todo' \cup timedOut'
    BY <1>7, <1>9 DEF BInv, OnceInv
  <2>3. \A m, n \in moves' : m[1] = n[1] => m = n
    BY <1>9, <1>10 DEF BInv, OnceInv
  <2> QED BY <1>7, <2>1, <2>2, <2>3 DEF BInv, OnceInv
<1>12. ASSUME faults = 0 PROVE ExactInv'
  <2>1. ExactInv
    BY <1>12 DEF BInv
  <2>2. \A i \in Tracked \cup tracking : about'[i] = about[i]
    BY <1>5, <1>8
  <2>3. ~ Moved(id)
    BY <1>10 DEF Moved
  <2>4. Deliveries(d) <= pending[id] + 1 /\ Deliveries(d) \in Nat
    BY <1>3, <1>4, <2>1, <2>3, RowFacts DEF ExactInv
  <2>5. Deliveries(d)' = Deliveries(d) + 1
    BY <1>5
  <2>6. Deliveries(d)' <= pending[id] + 2 /\ Deliveries(d)' <= 1 + MaxAckRetries
    BY <1>3, <2>4, <2>5, ConstantsAreNat
  <2>7. \A c \in 1..changes : c # d => Deliveries(c)' = Deliveries(c)
    BY <1>5
  <2>8. Moved(id)' /\ \A i : i # id => (Moved(i)' <=> Moved(i))
    <3>1. <<id, rows + 1>> \in moves' /\ <<id, rows + 1>>[1] = id
      BY <1>1
    <3>2. Moved(id)'
      BY <3>1 DEF Moved
    <3>3. \A i : Moved(i) => Moved(i)'
      BY <1>1 DEF Moved
    <3>4. \A i : i # id /\ Moved(i)' => Moved(i)
      BY <1>9 DEF Moved
    <3> QED BY <3>2, <3>3, <3>4
  <2>9. \A i \in Tracked \cup tracking : about[i] = d => i = id
    BY <1>3, <1>4, <2>1 DEF ExactInv
  <2>10. \A i \in Tracked, c \in 1..changes : about[i] = c =>
           Deliveries(c)' <= IF Moved(i)' THEN pending[i] + 2 ELSE pending[i] + 1
    <3> SUFFICES ASSUME NEW i \in Tracked, NEW c \in 1..changes, about[i] = c
                 PROVE  Deliveries(c)' <= IF Moved(i)' THEN pending[i] + 2 ELSE pending[i] + 1
      OBVIOUS
    <3>1. CASE c = d
      BY <3>1, <2>6, <2>8, <2>9
    <3>2. CASE c # d
      BY <3>2, <1>4, <2>1, <2>7, <2>8 DEF ExactInv
    <3> QED BY <3>1, <3>2
  <2>11. \A i \in tracking, c \in 1..changes : about[i] = c => Deliveries(c)' <= 1
    <3>1. id \notin tracking
      BY <1>3 DEF BInv, OnceInv
    <3> QED BY <3>1, <2>1, <2>7, <2>9 DEF ExactInv
  <2>12. \A c \in 1..changes : Deliveries(c)' <= 1 + MaxAckRetries
    BY <2>1, <2>6, <2>7 DEF ExactInv
  <2> QED BY <1>7, <2>1, <2>2, <2>10, <2>11, <2>12 DEF ExactInv
<1> QED BY <1>7, <1>11, <1>12 DEF BInv

\* The map after a sweep: a replaced row hands its count on, plus one.
LEMMA SweepEndBound ==
  ASSUME IInv, BInv, SweepEnd
  PROVE  BInv'
<1> DEFINE gone == drops \cup {m[1] : m \in moves}
           new == {m[2] : m \in moves}
<1>1. UNCHANGED <<rows, about, changes, tracking, faults>>
      /\ todo' = {} /\ timedOut' = {} /\ moves' = {}
  BY DEF SweepEnd, SweepDone, table
<1>2. /\ Tracked' = (Tracked \ gone) \cup new
      /\ \A i \in new : /\ Replaced(i) \in Tracked
                        /\ <<Replaced(i), i>> \in moves
                        /\ pending'[i] = pending[Replaced(i)] + 1
      /\ \A i \in Tracked' \ new : i \in Tracked /\ pending'[i] = pending[i]
  BY SweepEndMap
<1>3. \A c : Deliveries(c)' = Deliveries(c)
  BY <1>1, RowsUnchanged
<1>4. \A i \in new : /\ i \notin Tracked \cup tracking
                     /\ Replaced(i) \in gone
                     /\ about[Replaced(i)] = about[i]
                     /\ Moved(Replaced(i))
  <2> TAKE i \in new
  <2> DEFINE m == <<Replaced(i), i>>
  <2>1. m \in moves /\ m[1] = Replaced(i) /\ m[2] = i
    BY <1>2
  <2> HIDE DEF m
  <2>2. i \notin Tracked \cup tracking
    BY <2>1 DEF BInv, OnceInv
  <2>3. about[m[2]] = about[m[1]]
    BY <2>1 DEF IInv, SweepInv
  <2> QED BY <2>1, <2>2, <2>3 DEF Moved
<1>5. \A i, j \in new : Replaced(i) = Replaced(j) => i = j
  <2> TAKE i, j \in new
  <2> HAVE Replaced(i) = Replaced(j)
  <2> DEFINE m == <<Replaced(i), i>>
             n == <<Replaced(j), j>>
  <2>1. m \in moves /\ n \in moves /\ m[1] = n[1] /\ m[2] = i /\ n[2] = j
    BY <1>2
  <2> HIDE DEF m, n
  <2>2. m = n
    BY <2>1 DEF BInv, OnceInv
  <2> QED BY <2>1, <2>2
<1>6. \A i : Moved(i) => i \in gone
  BY DEF Moved
<1> HIDE DEF gone, new
<1>7. OnceInv'
  BY <1>1, <1>2, <1>4 DEF BInv, OnceInv
<1>8. ASSUME faults = 0 PROVE ExactInv'
  <2>1. ExactInv
    BY <1>8 DEF BInv
  <2>2. \A i : ~ Moved(i)'
    BY <1>1 DEF Moved
  <2>3. \A i, j \in Tracked' \cup tracking : about[i] = about[j] => i = j
    <3> SUFFICES ASSUME NEW i \in Tracked' \cup tracking, NEW j \in Tracked' \cup tracking,
                        about[i] = about[j]
                 PROVE  i = j
      OBVIOUS
    <3>1. \A k \in Tracked' \cup tracking :
            k \in new \/ (k \in Tracked \cup tracking /\ ~ (k \in Tracked /\ k \in gone))
      <4>1. Tracked \cap tracking = {}
        BY DEF BInv, OnceInv
      <4> QED BY <1>2, <4>1
    <3>2. CASE i \in new /\ j \in new
      <4>1. Replaced(i) = Replaced(j)
        BY <3>2, <1>2, <1>4, <2>1 DEF ExactInv
      <4> QED BY <3>2, <4>1, <1>5
    <3>3. ASSUME NEW k \in new, NEW l \in Tracked \cup tracking,
                 ~ (l \in Tracked /\ l \in gone), about[k] = about[l]
          PROVE  FALSE
      <4>1. Replaced(k) \in Tracked /\ Replaced(k) \in gone /\ about[Replaced(k)] = about[l]
        BY <3>3, <1>2, <1>4
      <4>2. Replaced(k) = l
        BY <4>1, <2>1 DEF ExactInv
      <4> QED BY <3>3, <4>1, <4>2
    <3>4. CASE i \notin new /\ j \notin new
      BY <3>1, <3>4, <2>1 DEF ExactInv
    <3> QED BY <3>1, <3>2, <3>3, <3>4
  <2>4. \A i \in Tracked', c \in 1..changes : about[i] = c => Deliveries(c) <= pending'[i] + 1
    <3> SUFFICES ASSUME NEW i \in Tracked', NEW c \in 1..changes, about[i] = c
                 PROVE  Deliveries(c) <= pending'[i] + 1
      OBVIOUS
    <3>1. CASE i \in new
      <4>1. Deliveries(c) <= pending[Replaced(i)] + 2
        BY <3>1, <1>2, <1>4, <2>1 DEF ExactInv
      <4>2. pending[Replaced(i)] \in Nat /\ pending'[i] = pending[Replaced(i)] + 1
        <5>1. Replaced(i) \in Tracked /\ pending'[i] = pending[Replaced(i)] + 1
          BY <3>1, <1>2
        <5>2. \A o \in Tracked : pending[o] \in 0..MaxAckRetries
          BY DEF IInv, TypeOK
        <5> QED BY <5>1, <5>2, ConstantsAreNat
      <4> QED BY <4>1, <4>2, RowFacts
    <3>2. CASE i \notin new
      <4>1. i \in Tracked /\ pending'[i] = pending[i] /\ ~ Moved(i)
        BY <3>2, <1>2, <1>6
      <4> QED BY <4>1, <2>1 DEF ExactInv
    <3> QED BY <3>1, <3>2
  <2> QED BY <1>1, <1>3, <2>1, <2>2, <2>3, <2>4 DEF ExactInv
<1> QED BY <1>1, <1>7, <1>8 DEF BInv

\* After a fault only the shape of the sweep's sets is kept.
LEMMA FaultBound ==
  ASSUME IInv, BInv, SweepFails \/ Restart
  PROVE  BInv'
<1>1. /\ todo' = {} /\ timedOut' = {} /\ moves' = {}
      /\ faults \in Nat /\ faults' = faults + 1
  BY ConstantsAreNat DEF SweepFails, Restart, SweepDone, IInv, TypeOK
<1>2. Tracked' \cap tracking' = {}
  BY DEF SweepFails, Restart, BInv, OnceInv, Tracked
<1>3. OnceInv'
  BY <1>1, <1>2 DEF OnceInv
<1> QED BY <1>1, <1>3 DEF BInv

\* A recovery finds rows only after a fault.
LEMMA RecoverBound ==
  ASSUME IInv, BInv, RecoverFromCrash
  PROVE  BInv'
<1>1. UNCHANGED <<rows, about, changes, tracking, clearing, sweeping, todo, timedOut, moves,
                  faults>>
      /\ Tracked \cup tracking = {} /\ ~ sweeping /\ before = changes
  BY DEF RecoverFromCrash, sweep
<1>2. todo' = {} /\ timedOut' = {} /\ moves' = {} /\ tracking' = {}
  BY <1>1 DEF IInv, SweepInv
<1>3. OnceInv'
  BY <1>2 DEF OnceInv
<1>4. ASSUME faults = 0 PROVE ExactInv'
  <2>1. changes = 0
    BY <1>1, <1>4 DEF IInv, StartInv
  <2>2. 1..changes' = {}
    BY <1>1, <2>1
  <2>3. 1..rows = {}
    BY <2>1, <2>2, <1>1 DEF IInv, RowsInv
  <2>4. Tracked' = {}
    BY <2>3 DEF RecoverFromCrash, Tracked
  <2> QED BY <1>2, <2>2, <2>4 DEF ExactInv
<1> QED BY <1>1, <1>3, <1>4 DEF BInv

LEMMA BoundInvariance ==
  Spec => []BInv
<1>1. IInv /\ BInv /\ [Next]_vars => BInv'
  <2> SUFFICES ASSUME IInv, BInv, [Next]_vars PROVE BInv'
    OBVIOUS
  <2>1. CASE Notify
    BY <2>1, NotifyBound
  <2>2. ASSUME NEW id \in Ids, Track(id) \/ Acknowledge(id) \/ Clear(id) \/ Age(id)
        PROVE  BInv'
    BY <2>2, TrackBound, OtherBound
  <2>3. CASE SweepStep
    BY <2>3, OtherBound, SweepCreateBound, SweepEndBound DEF SweepStep
  <2>4. CASE SweepFails \/ Restart \/ RecoverFromCrash
    BY <2>4, FaultBound, RecoverBound
  <2>5. CASE UNCHANGED vars
    BY <2>5, OtherBound
  <2> QED BY <2>1, <2>2, <2>3, <2>4, <2>5 DEF Next
<1> QED BY InitBound, Invariance, <1>1, PTL DEF Spec

\* check_ack_timeouts: as long as no store call of a sweep fails and nothing
\* restarts, no change gets more than 1 + MAX_ACK_RETRIES rows.
THEOREM RedeliveryIsBounded ==
  Spec => []DeliveriesBounded
<1>1. BInv => DeliveriesBounded
  BY DEF BInv, ExactInv, DeliveriesBounded, Deliveries
<1> QED BY <1>1, BoundInvariance, PTL

=============================================================================
