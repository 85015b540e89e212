--------------------------- MODULE WritePathProofs ---------------------------
(***************************************************************************)
(* The write path for every number of agents and edits. Whatever expires,  *)
(* fails or bypasses the lock, versions stay unique and no call leaves its *)
(* lock behind unless the release itself fails; under locks that do not    *)
(* expire, the write path is an atomic register and leaves the disk as the *)
(* store has it.                                                           *)
(***************************************************************************)
EXTENDS WritePath, SequenceTheorems, WellFoundedInduction, TLAPS

Submissions == [agent : Agents, content : Contents, status : {"draft", "stable", "deleted"}]
Queued == [agent : Agents, content : Contents, status : {"queued"}]

\* Between two calls, behind the lock, or giving up.
NoEdit == {"idle", "wait", "queued", "unqueue"}

\* A call that has computed its content has one, and a call has an edit.
HasContent ==
  \A a \in Agents :
    /\ pc[a] \notin NoEdit \cup {"read", "rollback", "restore", "release"} => want[a] \in Contents
    /\ pc[a] \notin NoEdit => edit[a] \in Edits

\* A row that nobody left behind is that of a call of the write path that has
\* not released it yet.
LockInv ==
  \A a \in Agents : lock = a /\ ~ stray => pc[a] \notin Resting /\ kind[a] # "submit"

\* A call that has committed and not yet reported.
Committed(a) == pc[a] \in {"store", "finish", "report"}

\* A version was handed out once, and later than those before it.
VersionInv ==
  /\ \A a \in Agents : Committed(a) => base[a] <= version
  /\ \A a, b \in Agents : Committed(a) /\ Committed(b) /\ base[a] = base[b] => a = b
  /\ \A r \in reported : r[1] <= version
  /\ \A r \in reported, a \in Agents : Committed(a) => r[1] # base[a]
  /\ UniqueVersions

\* The inductive invariant of every setting.
IInv == TypeOK /\ HasContent /\ LockInv /\ VersionInv

-----------------------------------------------------------------------------
(* Rows and contents.                                                      *)

\* A set of row numbers that is not empty has a largest one.
LEMMA MaxInSet ==
  ASSUME NEW n \in Nat, NEW S \in SUBSET (1..n), S # {}
  PROVE  Max(S) \in S /\ \A i \in S : i <= Max(S)
<1> DEFINE T == {n - i : i \in S}
<1>1. \A i \in S : i \in Int /\ 1 <= i /\ i <= n
  OBVIOUS
<1>2. T \subseteq Nat
  BY <1>1
<1>3. T # {}
  OBVIOUS
<1> DEFINE R == OpToRel(<, Nat)
<1>4. IsWellFoundedOn(R, Nat)
  BY NatLessThanWellFounded
<1> HIDE DEF R
<1>5. PICK m \in T : \A k \in T : ~ (<<k, m>> \in R)
  BY <1>2, <1>3, <1>4, WFMin
<1>6. \A k \in T : ~ (k < m)
  BY <1>2, <1>5 DEF R, OpToRel
<1>7. PICK i \in S : m = n - i
  BY <1>5
<1>8. \A k \in S : i >= k
  <2> SUFFICES ASSUME NEW k \in S PROVE i >= k
    OBVIOUS
  <2>1. n - k \in T
    OBVIOUS
  <2>2. ~ (n - k < m)
    BY <2>1, <1>6
  <2>3. QED
    BY <2>2, <1>1, <1>7
<1>9. Max(S) \in S /\ \A k \in S : Max(S) >= k
  BY <1>7, <1>8 DEF Max
<1>10. QED
  BY <1>1, <1>9

\* What an agent reads is a content, or nothing.
LEMMA ReadableType ==
  ASSUME TypeOK, NEW a \in Agents
  PROVE  Readable(a) \in {NoFile} \cup Contents
<1> DEFINE own == {i \in DOMAIN subs : subs[i].agent = a /\ subs[i].status # "deleted"}
           stable == {i \in DOMAIN subs : subs[i].status = "stable"}
<1>1. subs \in Seq(Submissions)
  BY DEF TypeOK, Submissions
<1>2. Len(subs) \in Nat /\ DOMAIN subs = 1..Len(subs) /\ \A i \in DOMAIN subs : subs[i] \in Submissions
  BY <1>1
<1>3. own # {} => Max(own) \in own
  BY <1>2, MaxInSet
<1>4. stable # {} => Max(stable) \in stable
  BY <1>2, MaxInSet
<1>5. \A i \in DOMAIN subs : subs[i].content \in Contents
  BY <1>2 DEF Submissions
<1>6. QED
  BY <1>3, <1>4, <1>5 DEF Readable

LEMMA WithDraftType ==
  ASSUME TypeOK, NEW a \in Agents, NEW c \in Contents
  PROVE  WithDraft(a, c) \in Seq(Submissions)
<1> DEFINE kept == [i \in DOMAIN subs |-> IF subs[i].agent = a /\ subs[i].status = "draft"
                                  THEN Row(a, {}, "deleted") ELSE subs[i]]
<1>1. subs \in Seq(Submissions)
  BY DEF TypeOK, Submissions
<1>2. Len(subs) \in Nat /\ DOMAIN subs = 1..Len(subs) /\ \A i \in DOMAIN subs : subs[i] \in Submissions
  BY <1>1
<1>3. Row(a, {}, "deleted") \in Submissions /\ Row(a, c, "draft") \in Submissions
  BY DEF Row, Submissions, Contents
<1>4. kept \in [1..Len(subs) -> Submissions]
  BY <1>2, <1>3
<1>5. kept \in Seq(Submissions)
  BY <1>2, <1>4
<1>6. QED
  BY <1>3, <1>5 DEF WithDraft

\* The parts of the type invariant.
FileOK ==
  /\ disk \in {NoFile} \cup Contents
  /\ version \in Nat
  /\ content \in {NoFile} \cup Contents

TablesOK == subs \in Seq(Submissions) /\ serial \in Seq(Queued)

CallsOK ==
  /\ pc \in [Agents -> Labels] /\ kind \in [Agents -> Kinds]
  /\ edit \in [Agents -> 0..MaxEdits] /\ base \in [Agents -> Nat]
  /\ want \in [Agents -> {NoFile} \cup Contents]
  /\ found \in [Agents -> {NoFile} \cup Contents]

LockingOK ==
  /\ lock \in Agents \cup {NoAgent} /\ queue \in SUBSET Agents /\ stray \in BOOLEAN
  /\ popped \in [Agents \cup {NoAgent} -> Agents \cup {NoAgent}]

OtherOK ==
  /\ conflicts \in [Agents -> Nat] /\ backoff \in SUBSET Agents
  /\ edits \in 0..MaxEdits /\ reported \subseteq Nat \X Edits

LEMMA TypeParts ==
  ASSUME TypeOK
  PROVE  FileOK /\ TablesOK /\ CallsOK /\ OtherOK /\ LockingOK
  BY DEF TypeOK, FileOK, TablesOK, CallsOK, OtherOK, LockingOK, Submissions, Queued

\* Versions are kept by a step that commits nothing.
LEMMA VersionsKept ==
  ASSUME TypeOK, VersionInv, version' \in Nat, version' >= version, reported' = reported,
         \A b \in Agents : Committed(b)' => Committed(b) /\ base'[b] = base[b]
  PROVE  VersionInv'
<1>1. version \in Nat /\ \A b \in Agents : base[b] \in Nat
  BY DEF TypeOK
<1>2. \A r \in reported : r[1] \in Nat
  BY DEF TypeOK
<1>3. QED
  BY <1>1, <1>2 DEF VersionInv, UniqueVersions

LEMMA BeginWriteKeeps ==
  ASSUME IInv, NEW a \in Agents, NEW k \in {"edit", "overwrite"}, BeginWrite(a, k)
  PROVE  IInv'
<1> USE DEF IInv, BeginWrite, Free, NewEdit, Goto, locking, locals
<1>1. TypeOK'
  <2>0. FileOK /\ TablesOK /\ CallsOK /\ OtherOK /\ LockingOK
    BY TypeParts
  <2>1. FileOK'
    BY <2>0, WritePathAssumption DEF FileOK, TablesOK, CallsOK, HasContent, NoEdit, Edits, Contents, Submissions, Queued
  <2>2. TablesOK'
    BY <2>0, WithDraftType DEF TablesOK, CallsOK, HasContent, NoEdit, Submissions, Queued, WithDraft
  <2>3. CallsOK'
    BY <2>0, WritePathAssumption, ReadableType DEF CallsOK, FileOK, OtherOK, Edits, Contents, Kinds, Labels, Resting
  <2>4. OtherOK'
    BY <2>0, WritePathAssumption DEF OtherOK, CallsOK, TablesOK, HasContent, NoEdit, Edits, Contents, Queued
  <2>5. LockingOK'
    BY <2>0, WritePathAssumption DEF LockingOK
  <2>6. QED
    BY <2>1, <2>2, <2>3, <2>4, <2>5 DEF TypeOK, FileOK, TablesOK, CallsOK, OtherOK, LockingOK, Submissions, Queued
<1>2. HasContent'
  BY WritePathAssumption DEF TypeOK, HasContent, NoEdit, Edits, Contents
<1>3. LockInv'
  BY WritePathAssumption DEF TypeOK, LockInv, Resting
<1>4. VersionInv'
  BY DEF TypeOK, VersionInv, Committed, UniqueVersions
<1>5. QED
  BY <1>1, <1>2, <1>3, <1>4

LEMMA BeginRefusedKeeps ==
  ASSUME IInv, NEW a \in Agents, BeginRefused(a)
  PROVE  IInv'
<1> USE DEF IInv, BeginRefused, Goto, Free, locking, locals
<1>1. TypeOK'
  BY WritePathAssumption DEF TypeOK, Contents, Kinds, Labels, Resting
<1>2. HasContent'
  BY WritePathAssumption DEF TypeOK, HasContent, NoEdit, Edits, Contents
<1>3. LockInv'
  BY WritePathAssumption DEF TypeOK, LockInv, Resting
<1>4. VersionInv'
  BY DEF TypeOK, VersionInv, Committed, UniqueVersions
<1>5. QED
  BY <1>1, <1>2, <1>3, <1>4

LEMMA EnqueueWaitKeeps ==
  ASSUME IInv, NEW a \in Agents, EnqueueWait(a)
  PROVE  IInv'
<1> USE DEF IInv, EnqueueWait, Goto, locking, locals
<1>1. TypeOK'
  BY WritePathAssumption DEF TypeOK, Contents, Kinds, Labels, Resting
<1>2. HasContent'
  BY WritePathAssumption DEF TypeOK, HasContent, NoEdit, Edits, Contents
<1>3. LockInv'
  BY WritePathAssumption DEF TypeOK, LockInv, Resting
<1>4. VersionInv'
  BY DEF TypeOK, VersionInv, Committed, UniqueVersions
<1>5. QED
  BY <1>1, <1>2, <1>3, <1>4

LEMMA GiveUpKeeps ==
  ASSUME IInv, NEW a \in Agents, GiveUp(a)
  PROVE  IInv'
<1> USE DEF IInv, GiveUp, Goto, Return, locking, locals
<1>1. TypeOK'
  BY WritePathAssumption DEF TypeOK, Contents, Kinds, Labels, Resting
<1>2. HasContent'
  BY WritePathAssumption DEF TypeOK, HasContent, NoEdit, Edits, Contents
<1>3. LockInv'
  BY WritePathAssumption DEF TypeOK, LockInv, Resting
<1>4. VersionInv'
  BY DEF TypeOK, VersionInv, Committed, UniqueVersions
<1>5. QED
  BY <1>1, <1>2, <1>3, <1>4

LEMMA RegisterFailsKeeps ==
  ASSUME IInv, NEW a \in Agents, RegisterFails(a)
  PROVE  IInv'
<1> USE DEF IInv, RegisterFails, Goto, ReleaseLock, Unlock, Pop, KeepRow, OwnCoordinator, locking, locals
<1>1. TypeOK'
  BY WritePathAssumption DEF TypeOK, Contents, Kinds, Labels, Resting
<1>2. HasContent'
  BY WritePathAssumption DEF TypeOK, HasContent, NoEdit, Edits, Contents
<1>3. LockInv'
  BY WritePathAssumption DEF TypeOK, LockInv, Resting
<1>4. VersionInv'
  BY DEF TypeOK, VersionInv, Committed, UniqueVersions
<1>5. QED
  BY <1>1, <1>2, <1>3, <1>4

LEMMA HandOverKeeps ==
  ASSUME IInv, NEW p \in Agents \cup {NoAgent}, HandOver(p)
  PROVE  IInv'
<1> USE DEF IInv, HandOver, locking, locals
<1>1. TypeOK'
  BY WritePathAssumption DEF TypeOK, Contents, Kinds, Labels, Resting
<1>2. HasContent'
  BY WritePathAssumption DEF TypeOK, HasContent, NoEdit, Edits, Contents
<1>3. LockInv'
  BY WritePathAssumption DEF TypeOK, LockInv, Resting
<1>4. VersionInv'
  BY DEF TypeOK, VersionInv, Committed, UniqueVersions
<1>5. QED
  BY <1>1, <1>2, <1>3, <1>4

LEMMA HandOverFailsKeeps ==
  ASSUME IInv, NEW p \in Agents \cup {NoAgent}, HandOverFails(p)
  PROVE  IInv'
<1> USE DEF IInv, HandOverFails, locking, locals
<1>1. CASE p \in Agents /\ pc[p] = "report"
  <2> USE <1>1 DEF Return, Goto, DropGuard, Unlock, OwnCoordinator
  <2>1. TypeOK'
    <3>0. FileOK /\ TablesOK /\ CallsOK /\ OtherOK /\ LockingOK
      BY TypeParts
    <3>1. FileOK' /\ TablesOK' /\ OtherOK'
      BY <3>0 DEF FileOK, TablesOK, OtherOK
    <3>2. CallsOK'
      BY <3>0, WritePathAssumption DEF CallsOK, Contents, Kinds, Labels, Resting
    <3>3. LockingOK'
      BY <3>0 DEF LockingOK
    <3>4. QED
      BY <3>1, <3>2, <3>3 DEF TypeOK, FileOK, TablesOK, CallsOK, OtherOK, LockingOK, Submissions, Queued
  <2>2. HasContent'
    <3>1. pc'[p] \in NoEdit /\ \A b \in Agents \ {p} : pc'[b] = pc[b] /\ want'[b] = want[b] /\ edit'[b] = edit[b]
      BY DEF TypeOK, NoEdit
    <3>2. QED
      BY <3>1 DEF HasContent, NoEdit
  <2>3. LockInv'
    BY WritePathAssumption DEF TypeOK, LockInv, Resting
  <2>4. VersionInv'
    <3>1. \A b \in Agents : Committed(b)' => Committed(b) /\ base'[b] = base[b]
      BY DEF TypeOK, Committed
    <3>2. version' \in Nat /\ version' >= version /\ reported' = reported
      BY DEF TypeOK
    <3>3. QED
      BY <3>1, <3>2, VersionsKept
  <2>5. QED
    BY <2>1, <2>2, <2>3, <2>4
<1>2. CASE ~ (p \in Agents /\ pc[p] = "report")
  <2>1. UNCHANGED <<disk, version, content, subs, serial, lock, queue, stray, pc, kind, edit,
                    want, base, found, conflicts, backoff, edits, reported>>
    BY <1>2
  <2>2. popped' \in [Agents \cup {NoAgent} -> Agents \cup {NoAgent}]
    BY DEF TypeOK
  <2> HIDE DEF HandOverFails
  <2>3. TypeOK'
    BY <2>1, <2>2 DEF TypeOK
  <2>4. HasContent' /\ LockInv'
    BY <2>1 DEF HasContent, LockInv
  <2>5. VersionInv'
    BY <2>1 DEF VersionInv, Committed, UniqueVersions
  <2>6. QED
    BY <2>3, <2>4, <2>5
<1>3. QED
  BY <1>1, <1>2

LEMMA ReadDiskKeeps ==
  ASSUME IInv, NEW a \in Agents, ReadDisk(a)
  PROVE  IInv'
<1> USE DEF IInv, ReadDisk, Goto, locking, locals
<1>1. TypeOK'
  <2>0. FileOK /\ TablesOK /\ CallsOK /\ OtherOK /\ LockingOK
    BY TypeParts
  <2>1. FileOK'
    BY <2>0, WritePathAssumption DEF FileOK, TablesOK, CallsOK, HasContent, NoEdit, Edits, Contents, Submissions, Queued
  <2>2. TablesOK'
    BY <2>0, WithDraftType DEF TablesOK, CallsOK, HasContent, NoEdit, Submissions, Queued, WithDraft
  <2>3. CallsOK'
    <3>1. {edit[a]} \in Contents /\ (disk # NoFile => disk \cup {edit[a]} \in Contents)
      BY <2>0 DEF FileOK, HasContent, NoEdit, Contents
    <3>2. QED
      BY <2>0, <3>1 DEF CallsOK, FileOK, Labels, Resting
  <2>4. OtherOK'
    BY <2>0, WritePathAssumption DEF OtherOK, CallsOK, TablesOK, HasContent, NoEdit, Edits, Contents, Queued
  <2>5. LockingOK'
    BY <2>0, WritePathAssumption DEF LockingOK
  <2>6. QED
    BY <2>1, <2>2, <2>3, <2>4, <2>5 DEF TypeOK, FileOK, TablesOK, CallsOK, OtherOK, LockingOK, Submissions, Queued
<1>2. HasContent'
  <2>1. \A b \in Agents \ {a} : pc'[b] = pc[b] /\ want'[b] = want[b] /\ edit'[b] = edit[b]
    BY DEF TypeOK
  <2>2. pc'[a] \notin NoEdit \cup {"read", "rollback", "restore", "release"} => want'[a] \in Contents
    <3>1. edit[a] \in Edits
      BY DEF HasContent, NoEdit
    <3>2. {edit[a]} \in Contents /\ (disk # NoFile => disk \cup {edit[a]} \in Contents)
      BY <3>1 DEF TypeOK, Contents
    <3>3. pc'[a] = "base" => want'[a] \in {{edit[a]}} \cup {disk \cup {edit[a]}} /\ (kind[a] = "overwrite" => want'[a] = {edit[a]})
      BY DEF TypeOK
    <3>4. pc'[a] = "base" /\ kind[a] # "overwrite" => disk # NoFile
      BY DEF TypeOK
    <3>5. pc'[a] \in {"base", "release"}
      BY DEF TypeOK
    <3>6. QED
      BY <3>2, <3>3, <3>4, <3>5 DEF NoEdit
  <2>3. pc'[a] \notin NoEdit => edit'[a] \in Edits
    BY DEF TypeOK, HasContent, NoEdit
  <2>4. QED
    BY <2>1, <2>2, <2>3 DEF HasContent
<1>3. LockInv'
  BY WritePathAssumption DEF TypeOK, LockInv, Resting
<1>4. VersionInv'
  <2>1. \A b \in Agents : Committed(b)' => Committed(b) /\ base'[b] = base[b]
    BY DEF TypeOK, Committed
  <2>2. version' \in Nat /\ version' >= version /\ reported' = reported
    BY DEF TypeOK
  <2>3. QED
    BY <2>1, <2>2, VersionsKept
<1>5. QED
  BY <1>1, <1>2, <1>3, <1>4

LEMMA ReadBaseKeeps ==
  ASSUME IInv, NEW a \in Agents, ReadBase(a)
  PROVE  IInv'
<1> USE DEF IInv, ReadBase, Goto, BaseVersion, locking, locals
<1>1. TypeOK'
  BY WritePathAssumption DEF TypeOK, HasContent, NoEdit, Edits, Contents, Kinds, Labels, Resting
<1>2. HasContent'
  BY WritePathAssumption DEF TypeOK, HasContent, NoEdit, Edits, Contents
<1>3. LockInv'
  BY WritePathAssumption DEF TypeOK, LockInv, Resting
<1>4. VersionInv'
  BY DEF TypeOK, VersionInv, Committed, UniqueVersions
<1>5. QED
  BY <1>1, <1>2, <1>3, <1>4

LEMMA SubmitDraftKeeps ==
  ASSUME IInv, NEW a \in Agents, SubmitDraft(a)
  PROVE  IInv'
<1> USE DEF IInv, SubmitDraft, Goto, locking, locals
<1>1. TypeOK'
  <2>0. FileOK /\ TablesOK /\ CallsOK /\ OtherOK /\ LockingOK
    BY TypeParts
  <2>1. FileOK'
    BY <2>0, WritePathAssumption DEF FileOK, TablesOK, CallsOK, HasContent, NoEdit, Edits, Contents, Submissions, Queued
  <2>2. TablesOK'
    BY <2>0, WithDraftType DEF TablesOK, CallsOK, HasContent, NoEdit, Submissions, Queued, WithDraft
  <2>3. CallsOK'
    BY <2>0, WritePathAssumption, ReadableType DEF CallsOK, FileOK, OtherOK, Edits, Contents, Kinds, Labels, Resting
  <2>4. OtherOK'
    BY <2>0, WritePathAssumption DEF OtherOK, CallsOK, TablesOK, HasContent, NoEdit, Edits, Contents, Queued
  <2>5. LockingOK'
    BY <2>0, WritePathAssumption DEF LockingOK
  <2>6. QED
    BY <2>1, <2>2, <2>3, <2>4, <2>5 DEF TypeOK, FileOK, TablesOK, CallsOK, OtherOK, LockingOK, Submissions, Queued
<1>2. HasContent'
  BY WritePathAssumption DEF TypeOK, HasContent, NoEdit, Edits, Contents
<1>3. LockInv'
  BY WritePathAssumption DEF TypeOK, LockInv, Resting
<1>4. VersionInv'
  BY DEF TypeOK, VersionInv, Committed, UniqueVersions
<1>5. QED
  BY <1>1, <1>2, <1>3, <1>4

LEMMA WriteDiskKeeps ==
  ASSUME IInv, NEW a \in Agents, WriteDisk(a)
  PROVE  IInv'
<1> USE DEF IInv, WriteDisk, Goto, locking, locals
<1>1. TypeOK'
  BY WritePathAssumption DEF TypeOK, HasContent, NoEdit, Edits, Contents, Kinds, Labels, Resting
<1>2. HasContent'
  BY WritePathAssumption DEF TypeOK, HasContent, NoEdit, Edits, Contents
<1>3. LockInv'
  BY WritePathAssumption DEF TypeOK, LockInv, Resting
<1>4. VersionInv'
  BY DEF TypeOK, VersionInv, Committed, UniqueVersions
<1>5. QED
  BY <1>1, <1>2, <1>3, <1>4

LEMMA FormatKeeps ==
  ASSUME IInv, NEW a \in Agents, Format(a)
  PROVE  IInv'
<1> USE DEF IInv, Format, Goto, locking, locals
<1>1. TypeOK'
  BY WritePathAssumption DEF TypeOK, HasContent, NoEdit, Edits, Contents, Kinds, Labels, Resting
<1>2. HasContent'
  BY WritePathAssumption DEF TypeOK, HasContent, NoEdit, Edits, Contents
<1>3. LockInv'
  BY WritePathAssumption DEF TypeOK, LockInv, Resting
<1>4. VersionInv'
  BY DEF TypeOK, VersionInv, Committed, UniqueVersions
<1>5. QED
  BY <1>1, <1>2, <1>3, <1>4

LEMMA ValidateKeeps ==
  ASSUME IInv, NEW a \in Agents, Validate(a)
  PROVE  IInv'
<1> USE DEF IInv, Validate, Goto, Refuse, Return, OwnCoordinator, locals, locking
<1>1. TypeOK'
  <2>0. FileOK /\ TablesOK /\ CallsOK /\ OtherOK /\ LockingOK
    BY TypeParts
  <2>1. FileOK'
    BY <2>0, WritePathAssumption DEF FileOK, TablesOK, CallsOK, HasContent, NoEdit, Edits, Contents, Submissions, Queued
  <2>2. TablesOK'
    BY <2>0, WithDraftType DEF TablesOK, CallsOK, HasContent, NoEdit, Submissions, Queued, WithDraft
  <2>3. CallsOK'
    BY <2>0, WritePathAssumption, ReadableType DEF CallsOK, FileOK, OtherOK, Edits, Contents, Kinds, Labels, Resting
  <2>4. OtherOK'
    BY <2>0, WritePathAssumption DEF OtherOK, CallsOK, TablesOK, HasContent, NoEdit, Edits, Contents, Queued
  <2>5. LockingOK'
    BY <2>0, WritePathAssumption DEF LockingOK
  <2>6. QED
    BY <2>1, <2>2, <2>3, <2>4, <2>5 DEF TypeOK, FileOK, TablesOK, CallsOK, OtherOK, LockingOK, Submissions, Queued
<1>2. HasContent'
  <2>1. \A b \in Agents \ {a} : pc'[b] = pc[b] /\ want'[b] = want[b] /\ edit'[b] = edit[b]
    BY DEF TypeOK
  <2>2. pc'[a] \notin NoEdit \cup {"read", "rollback", "restore", "release"} => want'[a] \in Contents
    BY DEF TypeOK, HasContent, NoEdit, Edits, Contents
  <2>3. pc'[a] \notin NoEdit => edit'[a] \in Edits
    <3>1. edit[a] \in Edits
      BY DEF HasContent, NoEdit
    <3>2. pc'[a] = "idle" \/ edit' = edit
      BY DEF TypeOK
    <3>3. QED
      BY <3>1, <3>2 DEF NoEdit
  <2>4. QED
    BY <2>1, <2>2, <2>3 DEF HasContent
<1>3. LockInv'
  BY WritePathAssumption DEF TypeOK, LockInv, Resting
<1>4. VersionInv'
  <2>1. \A b \in Agents : Committed(b)' => Committed(b) /\ base'[b] = base[b]
    BY DEF TypeOK, Committed
  <2>2. version' \in Nat /\ version' >= version /\ reported' = reported
    BY DEF TypeOK
  <2>3. QED
    BY <2>1, <2>2, VersionsKept
<1>5. QED
  BY <1>1, <1>2, <1>3, <1>4

LEMMA CommitKeeps ==
  ASSUME IInv, NEW a \in Agents, Commit(a)
  PROVE  IInv'
<1> USE DEF IInv, Commit, Goto, Upsert, locking, locals
<1>1. TypeOK'
  <2>0. FileOK /\ TablesOK /\ CallsOK /\ OtherOK /\ LockingOK
    BY TypeParts
  <2>1. FileOK'
    BY <2>0, WritePathAssumption DEF FileOK, TablesOK, CallsOK, HasContent, NoEdit, Edits, Contents, Submissions, Queued
  <2>2. TablesOK'
    BY <2>0, WithDraftType DEF TablesOK, CallsOK, HasContent, NoEdit, Submissions, Queued, WithDraft
  <2>3. CallsOK'
    BY <2>0, WritePathAssumption, ReadableType DEF CallsOK, FileOK, OtherOK, Edits, Contents, Kinds, Labels, Resting
  <2>4. OtherOK'
    BY <2>0, WritePathAssumption DEF OtherOK, CallsOK, TablesOK, HasContent, NoEdit, Edits, Contents, Queued
  <2>5. LockingOK'
    BY <2>0, WritePathAssumption DEF LockingOK
  <2>6. QED
    BY <2>1, <2>2, <2>3, <2>4, <2>5 DEF TypeOK, FileOK, TablesOK, CallsOK, OtherOK, LockingOK, Submissions, Queued
<1>2. HasContent'
  BY WritePathAssumption DEF TypeOK, HasContent, NoEdit, Edits, Contents
<1>3. LockInv'
  BY WritePathAssumption DEF TypeOK, LockInv, Resting
<1>4. VersionInv'
  <2>1. CASE CasSucceeds(base[a])
    <3>1. version' = version + 1 /\ base' = [base EXCEPT ![a] = version + 1]
      BY <2>1
    <3>2. \A b \in Agents : b # a => (Committed(b)' <=> Committed(b)) /\ base'[b] = base[b]
      BY <3>1 DEF TypeOK, Committed
    <3>3. base'[a] = version + 1 /\ reported' = reported
      BY <3>1 DEF TypeOK
    <3>4. version \in Nat /\ \A b \in Agents : base[b] \in Nat
      BY DEF TypeOK
    <3>5. QED
      BY <3>1, <3>2, <3>3, <3>4 DEF VersionInv, UniqueVersions, TypeOK
  <2>2. CASE ~ CasSucceeds(base[a])
    <3>1. \A b \in Agents : Committed(b)' => Committed(b) /\ base'[b] = base[b]
      BY <2>2 DEF TypeOK, Committed
    <3>2. version' \in Nat /\ version' >= version /\ reported' = reported
      BY <2>2 DEF TypeOK
    <3>3. QED
      BY <3>1, <3>2, VersionsKept
  <2>3. QED
    BY <2>1, <2>2
<1>5. QED
  BY <1>1, <1>2, <1>3, <1>4

LEMMA StoreStableKeeps ==
  ASSUME IInv, NEW a \in Agents, StoreStable(a)
  PROVE  IInv'
<1> USE DEF IInv, StoreStable, Goto, Row, locking, locals
<1>1. TypeOK'
  <2>0. FileOK /\ TablesOK /\ CallsOK /\ OtherOK /\ LockingOK
    BY TypeParts
  <2>1. FileOK'
    BY <2>0, WritePathAssumption DEF FileOK, TablesOK, CallsOK, HasContent, NoEdit, Edits, Contents, Submissions, Queued
  <2>2. TablesOK'
    <3>1. Row(a, want[a], "stable") \in Submissions
      BY DEF HasContent, NoEdit, Submissions
    <3>2. QED
      BY <2>0, <3>1 DEF TablesOK
  <2>3. CallsOK'
    BY <2>0, WritePathAssumption, ReadableType DEF CallsOK, FileOK, OtherOK, Edits, Contents, Kinds, Labels, Resting
  <2>4. OtherOK'
    BY <2>0, WritePathAssumption DEF OtherOK, CallsOK, TablesOK, HasContent, NoEdit, Edits, Contents, Queued
  <2>5. LockingOK'
    BY <2>0, WritePathAssumption DEF LockingOK
  <2>6. QED
    BY <2>1, <2>2, <2>3, <2>4, <2>5 DEF TypeOK, FileOK, TablesOK, CallsOK, OtherOK, LockingOK, Submissions, Queued
<1>2. HasContent'
  BY WritePathAssumption DEF TypeOK, HasContent, NoEdit, Edits, Contents
<1>3. LockInv'
  BY WritePathAssumption DEF TypeOK, LockInv, Resting
<1>4. VersionInv'
  BY DEF TypeOK, VersionInv, Committed, UniqueVersions
<1>5. QED
  BY <1>1, <1>2, <1>3, <1>4

LEMMA FinishKeeps ==
  ASSUME IInv, NEW a \in Agents, Finish(a)
  PROVE  IInv'
<1> USE DEF IInv, Finish, Goto, ReleaseLock, Unlock, Pop, KeepRow, DropGuard, OwnCoordinator, locking, locals
<1>1. TypeOK'
  BY WritePathAssumption DEF TypeOK, HasContent, NoEdit, Edits, Contents, Kinds, Labels, Resting
<1>2. HasContent'
  BY WritePathAssumption DEF TypeOK, HasContent, NoEdit, Edits, Contents
<1>3. LockInv'
  BY WritePathAssumption DEF TypeOK, LockInv, Resting
<1>4. VersionInv'
  BY DEF TypeOK, VersionInv, Committed, UniqueVersions
<1>5. QED
  BY <1>1, <1>2, <1>3, <1>4

LEMMA ReportKeeps ==
  ASSUME IInv, NEW a \in Agents, Report(a)
  PROVE  IInv'
<1> USE DEF IInv, Report, Goto, Return, OwnCoordinator, locking, locals
<1>1. TypeOK'
  <2>0. FileOK /\ TablesOK /\ CallsOK /\ OtherOK /\ LockingOK
    BY TypeParts
  <2>1. FileOK'
    BY <2>0, WritePathAssumption DEF FileOK, TablesOK, CallsOK, HasContent, NoEdit, Edits, Contents, Submissions, Queued
  <2>2. TablesOK'
    BY <2>0, WithDraftType DEF TablesOK, CallsOK, HasContent, NoEdit, Submissions, Queued, WithDraft
  <2>3. CallsOK'
    BY <2>0, WritePathAssumption, ReadableType DEF CallsOK, FileOK, OtherOK, Edits, Contents, Kinds, Labels, Resting
  <2>4. OtherOK'
    <3>1. base[a] \in Nat /\ edit[a] \in Edits
      BY <2>0 DEF CallsOK, HasContent, NoEdit
    <3>2. reported' \subseteq Nat \X Edits
      BY <2>0, <3>1 DEF OtherOK
    <3>3. backoff' \in SUBSET Agents
      BY <2>0 DEF OtherOK
    <3>4. QED
      BY <2>0, <3>2, <3>3 DEF OtherOK
  <2>5. LockingOK'
    BY <2>0, WritePathAssumption DEF LockingOK
  <2>6. QED
    BY <2>1, <2>2, <2>3, <2>4, <2>5 DEF TypeOK, FileOK, TablesOK, CallsOK, OtherOK, LockingOK, Submissions, Queued
<1>2. HasContent'
  BY WritePathAssumption DEF TypeOK, HasContent, NoEdit, Edits, Contents
<1>3. LockInv'
  BY WritePathAssumption DEF TypeOK, LockInv, Resting
<1>4. VersionInv'
  BY DEF TypeOK, VersionInv, Committed, UniqueVersions, HasContent, NoEdit
<1>5. QED
  BY <1>1, <1>2, <1>3, <1>4

LEMMA ConflictKeeps ==
  ASSUME IInv, NEW a \in Agents, Conflict(a)
  PROVE  IInv'
<1> USE DEF IInv, Conflict, Goto, Refuse, Return, OwnCoordinator, locals, Row, locking
<1>1. TypeOK'
  <2>0. FileOK /\ TablesOK /\ CallsOK /\ OtherOK /\ LockingOK
    BY TypeParts
  <2>1. FileOK'
    BY <2>0, WritePathAssumption DEF FileOK, TablesOK, CallsOK, HasContent, NoEdit, Edits, Contents, Submissions, Queued
  <2>2. TablesOK'
    <3>1. Row(a, want[a], "queued") \in Queued
      BY DEF HasContent, NoEdit, Queued
    <3>2. \A q \in Queued : Append(serial, q) \in Seq(Queued)
      BY <2>0 DEF TablesOK
    <3>3. Append(serial, Row(a, want[a], "queued")) \in Seq(Queued)
      BY <3>1, <3>2, Zenon
    <3>4. subs' = subs /\ serial' \in {serial, Append(serial, Row(a, want[a], "queued"))}
      OBVIOUS
    <3>5. QED
      BY <2>0, <3>3, <3>4, Zenon DEF TablesOK
  <2>3. CallsOK'
    <3>1. CASE OwnCoordinator(a)
      BY <2>0, <3>1, WritePathAssumption DEF CallsOK, Contents, Kinds, Labels, Resting
    <3>2. CASE ~ OwnCoordinator(a)
      BY <2>0, <3>2 DEF CallsOK, Labels, Resting
    <3>3. QED
      BY <3>1, <3>2
  <2>4. OtherOK'
    BY <2>0, WritePathAssumption DEF OtherOK, CallsOK, TablesOK, HasContent, NoEdit, Edits, Contents, Queued
  <2>5. LockingOK'
    BY <2>0, WritePathAssumption DEF LockingOK
  <2>6. QED
    BY <2>1, <2>2, <2>3, <2>4, <2>5 DEF TypeOK, FileOK, TablesOK, CallsOK, OtherOK, LockingOK, Submissions, Queued
<1>2. HasContent'
  <2>1. \A b \in Agents \ {a} : pc'[b] = pc[b] /\ want'[b] = want[b] /\ edit'[b] = edit[b]
    BY DEF TypeOK
  <2>2. pc'[a] \notin NoEdit \cup {"read", "rollback", "restore", "release"} => want'[a] \in Contents
    BY DEF TypeOK, HasContent, NoEdit, Edits, Contents
  <2>3. pc'[a] \notin NoEdit => edit'[a] \in Edits
    <3>1. edit[a] \in Edits
      BY DEF HasContent, NoEdit
    <3>2. pc'[a] = "idle" \/ edit' = edit
      BY DEF TypeOK
    <3>3. QED
      BY <3>1, <3>2 DEF NoEdit
  <2>4. QED
    BY <2>1, <2>2, <2>3 DEF HasContent
<1>3. LockInv'
  BY WritePathAssumption DEF TypeOK, LockInv, Resting
<1>4. VersionInv'
  <2>1. \A b \in Agents : Committed(b)' => Committed(b) /\ base'[b] = base[b]
    BY DEF TypeOK, Committed
  <2>2. version' \in Nat /\ version' >= version /\ reported' = reported
    BY DEF TypeOK
  <2>3. QED
    BY <2>1, <2>2, VersionsKept
<1>5. QED
  BY <1>1, <1>2, <1>3, <1>4

LEMMA RollbackKeeps ==
  ASSUME IInv, NEW a \in Agents, Rollback(a)
  PROVE  IInv'
<1> USE DEF IInv, Rollback, Goto, locking, locals
<1>1. TypeOK'
  BY WritePathAssumption DEF TypeOK, HasContent, NoEdit, Edits, Contents, Kinds, Labels, Resting
<1>2. HasContent'
  BY WritePathAssumption DEF TypeOK, HasContent, NoEdit, Edits, Contents
<1>3. LockInv'
  BY WritePathAssumption DEF TypeOK, LockInv, Resting
<1>4. VersionInv'
  <2>1. \A b \in Agents : Committed(b)' => Committed(b) /\ base'[b] = base[b]
    BY DEF TypeOK, Committed
  <2>2. version' \in Nat /\ version' >= version /\ reported' = reported
    BY DEF TypeOK
  <2>3. QED
    BY <2>1, <2>2, VersionsKept
<1>5. QED
  BY <1>1, <1>2, <1>3, <1>4

LEMMA RestoreKeeps ==
  ASSUME IInv, NEW a \in Agents, Restore(a)
  PROVE  IInv'
<1> USE DEF IInv, Restore, Goto, locking, locals
<1>1. TypeOK'
  BY WritePathAssumption DEF TypeOK, HasContent, NoEdit, Edits, Contents, Kinds, Labels, Resting
<1>2. HasContent'
  BY WritePathAssumption DEF TypeOK, HasContent, NoEdit, Edits, Contents
<1>3. LockInv'
  BY WritePathAssumption DEF TypeOK, LockInv, Resting
<1>4. VersionInv'
  BY DEF TypeOK, VersionInv, Committed, UniqueVersions
<1>5. QED
  BY <1>1, <1>2, <1>3, <1>4

LEMMA ReleaseKeeps ==
  ASSUME IInv, NEW a \in Agents, Release(a)
  PROVE  IInv'
<1> USE DEF IInv, Release, Goto, OwnCoordinator, ReleaseLock, Unlock, Pop, KeepRow, DropGuard, Return, locking, locals
<1>1. TypeOK'
  <2>0. FileOK /\ TablesOK /\ CallsOK /\ OtherOK /\ LockingOK
    BY TypeParts
  <2>1. FileOK'
    BY <2>0, WritePathAssumption DEF FileOK, TablesOK, CallsOK, HasContent, NoEdit, Edits, Contents, Submissions, Queued
  <2>2. TablesOK'
    BY <2>0, WithDraftType DEF TablesOK, CallsOK, HasContent, NoEdit, Submissions, Queued, WithDraft
  <2>3. CallsOK'
    BY <2>0, WritePathAssumption, ReadableType DEF CallsOK, FileOK, OtherOK, Edits, Contents, Kinds, Labels, Resting
  <2>4. OtherOK'
    BY <2>0, WritePathAssumption DEF OtherOK, CallsOK, TablesOK, HasContent, NoEdit, Edits, Contents, Queued
  <2>5. LockingOK'
    BY <2>0, WritePathAssumption DEF LockingOK
  <2>6. QED
    BY <2>1, <2>2, <2>3, <2>4, <2>5 DEF TypeOK, FileOK, TablesOK, CallsOK, OtherOK, LockingOK, Submissions, Queued
<1>2. HasContent'
  BY WritePathAssumption DEF TypeOK, HasContent, NoEdit, Edits, Contents
<1>3. LockInv'
  BY WritePathAssumption DEF TypeOK, LockInv, Resting
<1>4. VersionInv'
  BY DEF TypeOK, VersionInv, Committed, UniqueVersions
<1>5. QED
  BY <1>1, <1>2, <1>3, <1>4

LEMMA FailKeeps ==
  ASSUME IInv, NEW a \in Agents, Fail(a)
  PROVE  IInv'
<1> USE DEF IInv, Fail, Goto, ReleaseLock, Unlock, Pop, KeepRow, DropGuard, Return, OwnCoordinator, locking, locals
<1>1. TypeOK'
  <2>0. FileOK /\ TablesOK /\ CallsOK /\ OtherOK /\ LockingOK
    BY TypeParts
  <2>1. FileOK'
    BY <2>0, WritePathAssumption DEF FileOK, TablesOK, CallsOK, HasContent, NoEdit, Edits, Contents, Submissions, Queued
  <2>2. TablesOK'
    BY <2>0, WithDraftType DEF TablesOK, CallsOK, HasContent, NoEdit, Submissions, Queued, WithDraft
  <2>3. CallsOK'
    BY <2>0, WritePathAssumption, ReadableType DEF CallsOK, FileOK, OtherOK, Edits, Contents, Kinds, Labels, Resting
  <2>4. OtherOK'
    BY <2>0, WritePathAssumption DEF OtherOK, CallsOK, TablesOK, HasContent, NoEdit, Edits, Contents, Queued
  <2>5. LockingOK'
    BY <2>0, WritePathAssumption DEF LockingOK
  <2>6. QED
    BY <2>1, <2>2, <2>3, <2>4, <2>5 DEF TypeOK, FileOK, TablesOK, CallsOK, OtherOK, LockingOK, Submissions, Queued
<1>2. HasContent'
  BY WritePathAssumption DEF TypeOK, HasContent, NoEdit, Edits, Contents
<1>3. LockInv'
  BY WritePathAssumption DEF TypeOK, LockInv, Resting
<1>4. VersionInv'
  BY DEF TypeOK, VersionInv, Committed, UniqueVersions
<1>5. QED
  BY <1>1, <1>2, <1>3, <1>4

LEMMA ConflictFailsKeeps ==
  ASSUME IInv, NEW a \in Agents, ConflictFails(a)
  PROVE  IInv'
<1> USE DEF IInv, ConflictFails, Goto, ReleaseLock, Unlock, Pop, KeepRow, DropGuard, Return, OwnCoordinator, locking, locals
<1>1. TypeOK'
  <2>0. FileOK /\ TablesOK /\ CallsOK /\ OtherOK /\ LockingOK
    BY TypeParts
  <2>1. FileOK'
    BY <2>0, WritePathAssumption DEF FileOK, TablesOK, CallsOK, HasContent, NoEdit, Edits, Contents, Submissions, Queued
  <2>2. TablesOK'
    BY <2>0, WithDraftType DEF TablesOK, CallsOK, HasContent, NoEdit, Submissions, Queued, WithDraft
  <2>3. CallsOK'
    BY <2>0, WritePathAssumption, ReadableType DEF CallsOK, FileOK, OtherOK, Edits, Contents, Kinds, Labels, Resting
  <2>4. OtherOK'
    BY <2>0, WritePathAssumption DEF OtherOK, CallsOK, TablesOK, HasContent, NoEdit, Edits, Contents, Queued
  <2>5. LockingOK'
    BY <2>0, WritePathAssumption DEF LockingOK
  <2>6. QED
    BY <2>1, <2>2, <2>3, <2>4, <2>5 DEF TypeOK, FileOK, TablesOK, CallsOK, OtherOK, LockingOK, Submissions, Queued
<1>2. HasContent'
  BY WritePathAssumption DEF TypeOK, HasContent, NoEdit, Edits, Contents
<1>3. LockInv'
  BY WritePathAssumption DEF TypeOK, LockInv, Resting
<1>4. VersionInv'
  BY DEF TypeOK, VersionInv, Committed, UniqueVersions
<1>5. QED
  BY <1>1, <1>2, <1>3, <1>4

LEMMA ReadForSubmitKeeps ==
  ASSUME IInv, NEW a \in Agents, ReadForSubmit(a)
  PROVE  IInv'
<1> USE DEF IInv, ReadForSubmit, Free, Goto, NewEdit, locking, locals
<1>1. TypeOK'
  <2>0. FileOK /\ TablesOK /\ CallsOK /\ OtherOK /\ LockingOK
    BY TypeParts
  <2>1. FileOK'
    BY <2>0, WritePathAssumption DEF FileOK, TablesOK, CallsOK, HasContent, NoEdit, Edits, Contents, Submissions, Queued
  <2>2. TablesOK'
    BY <2>0, WithDraftType DEF TablesOK, CallsOK, HasContent, NoEdit, Submissions, Queued, WithDraft
  <2>3. CallsOK'
    BY <2>0, WritePathAssumption, ReadableType DEF CallsOK, FileOK, OtherOK, Edits, Contents, Kinds, Labels, Resting
  <2>4. OtherOK'
    BY <2>0, WritePathAssumption DEF OtherOK, CallsOK, TablesOK, HasContent, NoEdit, Edits, Contents, Queued
  <2>5. LockingOK'
    BY <2>0, WritePathAssumption DEF LockingOK
  <2>6. QED
    BY <2>1, <2>2, <2>3, <2>4, <2>5 DEF TypeOK, FileOK, TablesOK, CallsOK, OtherOK, LockingOK, Submissions, Queued
<1>2. HasContent'
  BY WritePathAssumption, ReadableType DEF TypeOK, HasContent, NoEdit, Edits, Contents
<1>3. LockInv'
  BY WritePathAssumption DEF TypeOK, LockInv, Resting
<1>4. VersionInv'
  BY DEF TypeOK, VersionInv, Committed, UniqueVersions
<1>5. QED
  BY <1>1, <1>2, <1>3, <1>4

LEMMA PromoteKeeps ==
  ASSUME IInv, NEW a \in Agents, Promote(a)
  PROVE  IInv'
<1> USE DEF IInv, Promote, Free, Upsert, locking, locals
<1>1. TypeOK'
  <2>0. FileOK /\ TablesOK /\ CallsOK /\ OtherOK /\ LockingOK
    BY TypeParts
  <2>6. PICK i \in DOMAIN subs : /\ subs' = [subs EXCEPT ![i].status = "stable"]
                                 /\ version' = version + 1 /\ content' = subs[i].content
    OBVIOUS
  <2>7. Len(subs) \in Nat /\ DOMAIN subs = 1..Len(subs) /\ subs[i] \in Submissions
    BY <2>0 DEF TablesOK
  <2>1. FileOK'
    BY <2>0, <2>6, <2>7 DEF FileOK, Submissions
  <2>2. TablesOK'
    <3>1. [subs[i] EXCEPT !.status = "stable"] \in Submissions
      BY <2>7 DEF Submissions
    <3>2. subs' = [subs EXCEPT ![i] = [subs[i] EXCEPT !.status = "stable"]]
      BY <2>6
    <3>3. QED
      BY <2>0, <2>7, <3>1, <3>2, ExceptSeq DEF TablesOK
  <2>3. CallsOK'
    BY <2>0, WritePathAssumption, ReadableType DEF CallsOK, FileOK, OtherOK, Edits, Contents, Kinds, Labels, Resting
  <2>4. OtherOK'
    BY <2>0, WritePathAssumption DEF OtherOK, CallsOK, TablesOK, HasContent, NoEdit, Edits, Contents, Queued
  <2>5. LockingOK'
    BY <2>0, WritePathAssumption DEF LockingOK
  <2>8. QED
    BY <2>1, <2>2, <2>3, <2>4, <2>5 DEF TypeOK, FileOK, TablesOK, CallsOK, OtherOK, LockingOK, Submissions, Queued
<1>2. HasContent'
  BY WritePathAssumption DEF TypeOK, HasContent, NoEdit, Edits, Contents
<1>3. LockInv'
  BY WritePathAssumption DEF TypeOK, LockInv, Resting
<1>4. VersionInv'
  <2>1. \A b \in Agents : Committed(b)' => Committed(b) /\ base'[b] = base[b]
    BY DEF TypeOK, Committed
  <2>2. version' = version + 1 /\ reported' = reported
    OBVIOUS
  <2> HIDE DEF Promote
  <2>3. version' \in Nat /\ version' >= version
    BY <2>2 DEF TypeOK
  <2>4. QED
    BY <2>1, <2>2, <2>3, VersionsKept
<1>5. QED
  BY <1>1, <1>2, <1>3, <1>4

LEMMA ExpireBackoffKeeps ==
  ASSUME IInv, NEW a \in Agents, ExpireBackoff(a)
  PROVE  IInv'
<1> USE DEF IInv, ExpireBackoff, locking, locals
<1>1. TypeOK'
  BY WritePathAssumption DEF TypeOK, HasContent, NoEdit, Edits, Contents, Kinds, Labels, Resting
<1>2. HasContent'
  BY WritePathAssumption DEF TypeOK, HasContent, NoEdit, Edits, Contents
<1>3. LockInv'
  BY WritePathAssumption DEF TypeOK, LockInv, Resting
<1>4. VersionInv'
  BY DEF TypeOK, VersionInv, Committed, UniqueVersions
<1>5. QED
  BY <1>1, <1>2, <1>3, <1>4

LEMMA SerialTickKeeps ==
  ASSUME IInv, SerialTick
  PROVE  IInv'
<1> USE DEF IInv, SerialTick, Upsert, locking, locals
<1>1. TypeOK'
  <2>0. FileOK /\ TablesOK /\ CallsOK /\ OtherOK /\ LockingOK
    BY TypeParts
  <2>6. Head(serial) \in Queued
    BY <2>0 DEF TablesOK
  <2>1. FileOK'
    BY <2>0, <2>6 DEF FileOK, Queued
  <2>2. TablesOK'
    BY <2>0, WithDraftType DEF TablesOK, CallsOK, HasContent, NoEdit, Submissions, Queued, WithDraft
  <2>3. CallsOK'
    BY <2>0, WritePathAssumption, ReadableType DEF CallsOK, FileOK, OtherOK, Edits, Contents, Kinds, Labels, Resting
  <2>4. OtherOK'
    BY <2>0, <2>6 DEF OtherOK, Queued
  <2>5. LockingOK'
    BY <2>0, WritePathAssumption DEF LockingOK
  <2>8. QED
    BY <2>1, <2>2, <2>3, <2>4, <2>5 DEF TypeOK, FileOK, TablesOK, CallsOK, OtherOK, LockingOK, Submissions, Queued
<1>2. HasContent'
  BY WritePathAssumption DEF TypeOK, HasContent, NoEdit, Edits, Contents
<1>3. LockInv'
  BY WritePathAssumption DEF TypeOK, LockInv, Resting
<1>4. VersionInv'
  BY DEF TypeOK, VersionInv, Committed, UniqueVersions
<1>5. QED
  BY <1>1, <1>2, <1>3, <1>4

LEMMA ExpireLockKeeps ==
  ASSUME IInv, ExpireLock
  PROVE  IInv'
<1> USE DEF IInv, ExpireLock, Unlock, Pop, locking, locals
<1>1. TypeOK'
  <2>0. FileOK /\ TablesOK /\ CallsOK /\ OtherOK /\ LockingOK
    BY TypeParts
  <2>1. FileOK'
    BY <2>0, WritePathAssumption DEF FileOK, TablesOK, CallsOK, HasContent, NoEdit, Edits, Contents, Submissions, Queued
  <2>2. TablesOK'
    BY <2>0, WithDraftType DEF TablesOK, CallsOK, HasContent, NoEdit, Submissions, Queued, WithDraft
  <2>3. CallsOK'
    BY <2>0, WritePathAssumption, ReadableType DEF CallsOK, FileOK, OtherOK, Edits, Contents, Kinds, Labels, Resting
  <2>4. OtherOK'
    BY <2>0, WritePathAssumption DEF OtherOK, CallsOK, TablesOK, HasContent, NoEdit, Edits, Contents, Queued
  <2>5. LockingOK'
    BY <2>0, WritePathAssumption DEF LockingOK
  <2>6. QED
    BY <2>1, <2>2, <2>3, <2>4, <2>5 DEF TypeOK, FileOK, TablesOK, CallsOK, OtherOK, LockingOK, Submissions, Queued
<1>2. HasContent'
  BY WritePathAssumption DEF TypeOK, HasContent, NoEdit, Edits, Contents
<1>3. LockInv'
  BY WritePathAssumption DEF TypeOK, LockInv, Resting
<1>4. VersionInv'
  BY DEF TypeOK, VersionInv, Committed, UniqueVersions
<1>5. QED
  BY <1>1, <1>2, <1>3, <1>4

-----------------------------------------------------------------------------
(* Every setting.                                                          *)

LEMMA InitIInv ==
  ASSUME Init
  PROVE  IInv
<1>1. TypeOK
  <2> USE DEF Init
  <2>1. FileOK /\ TablesOK
    BY DEF FileOK, TablesOK, Contents
  <2>2. CallsOK
    BY WritePathAssumption DEF CallsOK, Contents, Kinds, Labels, Resting
  <2>3. OtherOK
    BY WritePathAssumption DEF OtherOK
  <2>4. LockingOK
    BY DEF LockingOK
  <2>5. QED
    BY <2>1, <2>2, <2>3, <2>4 DEF TypeOK, FileOK, TablesOK, CallsOK, OtherOK, LockingOK, Submissions, Queued
<1>2. HasContent /\ LockInv /\ VersionInv
  BY WritePathAssumption DEF Init, HasContent, NoEdit, LockInv, VersionInv, Committed, UniqueVersions
<1>3. QED
  BY <1>1, <1>2 DEF IInv

LEMMA StepIInv ==
  ASSUME IInv, [Next]_vars
  PROVE  IInv'
<1>1. ASSUME NEW a \in Agents, CallStep(a)
      PROVE  IInv'
  BY <1>1, EnqueueWaitKeeps, GiveUpKeeps, ReadDiskKeeps, ReadBaseKeeps, SubmitDraftKeeps, WriteDiskKeeps, FormatKeeps,
     ValidateKeeps, CommitKeeps, StoreStableKeeps, FinishKeeps, ReportKeeps, ConflictKeeps,
     RollbackKeeps, RestoreKeeps, ReleaseKeeps DEF CallStep
<1>2. ASSUME UNCHANGED vars
      PROVE  IInv'
  BY <1>2 DEF vars, locking, IInv, TypeOK, HasContent, NoEdit, LockInv, VersionInv, Committed, UniqueVersions
<1>3. QED
  BY <1>1, <1>2, BeginWriteKeeps, BeginRefusedKeeps, RegisterFailsKeeps, HandOverKeeps,
     HandOverFailsKeeps, FailKeeps, ConflictFailsKeeps, ReadForSubmitKeeps,
     PromoteKeeps, ExpireBackoffKeeps, SerialTickKeeps, ExpireLockKeeps DEF Next

LEMMA Invariance == Spec => []IInv
<1>1. Init => IInv
  BY InitIInv
<1>2. IInv /\ [Next]_vars => IInv'
  BY StepIInv
<1>3. QED
  BY <1>1, <1>2, PTL DEF Spec

\* Every reachable state of the write path is well typed.
THEOREM TypeCorrect == Spec => []TypeOK
<1>1. IInv => TypeOK
  BY DEF IInv
<1>2. QED
  BY <1>1, Invariance, PTL

\* commit_file_version_cas: no two calls are told the same new version, whether
\* they hold the lock, lost it to the sweep or never had it.
THEOREM VersionsAreUnique == Spec => []UniqueVersions
<1>1. IInv => UniqueVersions
  BY DEF IInv, VersionInv
<1>2. QED
  BY <1>1, Invariance, PTL

\* FileLockGuard: whichever way a call returns, its lock is gone, unless the
\* release failed or a hand-off reached an agent that had given up.
THEOREM NoLockStranded == Spec => []NoStrandedLock
<1>1. IInv => NoStrandedLock
  BY DEF IInv, LockInv, NoStrandedLock, TypeOK
<1>2. QED
  BY <1>1, Invariance, PTL

-----------------------------------------------------------------------------
(* Under locks that do not expire, with no failing calls and nobody beside  *)
(* the write path.                                                         *)

Undisturbed == ~ LocksExpire /\ ~ StoreFails /\ ~ DirectSubmits /\ ~ Promotions

\* d is what the store has; a file the store does not know may be on disk.
Agree(d) == IF Tracked THEN d = content ELSE d = NoFile \/ (UnknownOnDisk /\ d = {})

\* The call's content is its edit, applied to what the call found.
Wanted(a) ==
  /\ kind[a] = "edit" => found[a] # NoFile
  /\ want[a] = (IF kind[a] = "overwrite" THEN {} ELSE found[a]) \cup {edit[a]}

\* No call is between its lock and its release.
Quiet == \A a \in Agents : pc[a] \in Resting

BeforeCommit == {"read", "base", "draft", "write", "format", "validate", "commit"}

\* What a call of the write path knows of the disk and the store at each step.
Knows(a) ==
  /\ pc[a] \notin Resting => lock = a /\ kind[a] # "submit"
  /\ pc[a] # "conflict"
  /\ pc[a] \in {"read", "release"} => Agree(disk)
  /\ pc[a] \in {"base", "draft", "write"} => Agree(disk) /\ found[a] = disk /\ Wanted(a)
  /\ pc[a] \in {"format", "validate", "commit"} => disk = want[a] /\ Agree(found[a]) /\ Wanted(a)
  /\ pc[a] \in {"draft", "write", "format", "validate", "commit"} => CasSucceeds(base[a])
  /\ pc[a] \in {"rollback", "restore"} => Agree(found[a])
  /\ pc[a] = "restore" => want[a] = content
  /\ pc[a] \in {"store", "finish"} => disk = content
  /\ pc[a] \in BeforeCommit /\ Tracked => edit[a] \notin content

\* Edits are numbered in the order in which they begin.
Numbered ==
  /\ \A a \in Agents : edit[a] <= edits
  /\ Tracked => \A e \in content : e <= edits

\* A version other than the first has a stable submission, or is about to.
HasStable ==
  \/ version = 0
  \/ \E i \in DOMAIN subs : subs[i].status = "stable"
  \/ \E a \in Agents : pc[a] = "store"

\* The inductive invariant of the undisturbed write path.
LInv ==
  /\ \A a \in Agents : Knows(a)
  /\ Quiet => Agree(disk)
  /\ serial = <<>>
  /\ Numbered /\ HasStable

\* While a has the lock, or nobody has it, the other agents rest.
LEMMA OthersRest ==
  ASSUME IInv, LInv, NEW a \in Agents, lock \in {a, NoAgent}
  PROVE  \A b \in Agents : b # a => pc[b] \in Resting
  BY WritePathAssumption DEF LInv, Knows

\* Once there is a stable submission, everybody can read something.
LEMMA StableReadable ==
  ASSUME TypeOK, NEW a \in Agents, \E i \in DOMAIN subs : subs[i].status = "stable"
  PROVE  Readable(a) # NoFile
<1> DEFINE own == {i \in DOMAIN subs : subs[i].agent = a /\ subs[i].status # "deleted"}
           stable == {i \in DOMAIN subs : subs[i].status = "stable"}
<1>0. subs \in Seq(Submissions)
  BY DEF TypeOK, Submissions
<1>1. Len(subs) \in Nat /\ DOMAIN subs = 1..Len(subs) /\ \A i \in DOMAIN subs : subs[i] \in Submissions
  BY <1>0
<1>2. own # {} => Max(own) \in own
  BY <1>1, MaxInSet
<1>3. stable # {} /\ Max(stable) \in stable
  BY <1>1, MaxInSet
<1>4. \A i \in DOMAIN subs : subs[i].content # NoFile
  BY <1>1, WritePathAssumption DEF Submissions, Contents, Edits
<1>5. QED
  BY <1>2, <1>3, <1>4 DEF Readable

LEMMA BeginWriteLocked ==
  ASSUME IInv, IInv', LInv, Undisturbed, NEW a \in Agents, NEW k \in {"edit", "overwrite"}, BeginWrite(a, k)
  PROVE  LInv'
<1> USE DEF BeginWrite, Free, Goto, NewEdit, locking, locals
<1>1. TypeOK /\ HasContent /\ LockInv /\ Knows(a) /\ Numbered /\ TypeOK' /\ HasContent'
  BY DEF IInv, LInv
<1>2. lock \in {a, NoAgent}
  BY <1>1 DEF LockInv, Knows, Resting
<1>3. \A b \in Agents : b # a => pc[b] \in Resting /\ pc'[b] = pc[b]
  BY <1>1, <1>2, OthersRest DEF TypeOK
<1>4. \A b \in Agents : b # a => Knows(b)'
  BY <1>3 DEF Knows, BeforeCommit, Resting
<1>5. Knows(a)'
  <2>1. Agree(disk)
    BY <1>3 DEF LInv, Quiet, Resting
  <2>2. edits \in Nat /\ edit'[a] = edits + 1
    BY <1>1, WritePathAssumption DEF TypeOK
  <2>3. Tracked => edits + 1 \notin content
    BY <1>1, <2>2 DEF Numbered
  <2>4. QED
    BY <1>1, <2>1, <2>2, <2>3 DEF Knows, Agree, BeforeCommit, Tracked, TypeOK
<1>6. (Quiet => Agree(disk))' /\ serial' = <<>>
  BY <1>1, WritePathAssumption DEF LInv, Knows, Agree, Tracked, TypeOK, Quiet, Resting
<1>7. Numbered'
  <2>1. edits \in Nat /\ edits' = edits + 1 /\ content' = content
    BY <1>1, WritePathAssumption DEF TypeOK
  <2>2. \A b \in Agents : edit[b] \in Nat /\ edit'[b] \in {edit[b], edits + 1}
    BY <1>1, WritePathAssumption DEF TypeOK
  <2>3. Tracked => \A e \in content : e \in Nat
    BY <1>1, WritePathAssumption DEF TypeOK, Tracked, Contents, Edits
  <2>4. QED
    BY <1>1, <2>1, <2>2, <2>3 DEF Numbered, Tracked
<1>8. HasStable'
  BY <1>1, <1>3 DEF LInv, HasStable, TypeOK
<1>9. QED
  BY <1>4, <1>5, <1>6, <1>7, <1>8 DEF LInv

LEMMA ReadDiskLocked ==
  ASSUME IInv, IInv', LInv, Undisturbed, NEW a \in Agents, ReadDisk(a)
  PROVE  LInv'
<1> USE DEF ReadDisk, Goto, locking, locals
<1>1. TypeOK /\ HasContent /\ LockInv /\ Knows(a) /\ Numbered /\ TypeOK' /\ HasContent'
  BY DEF IInv, LInv
<1>2. lock \in {a, NoAgent}
  BY <1>1 DEF LockInv, Knows, Resting
<1>3. \A b \in Agents : b # a => pc[b] \in Resting /\ pc'[b] = pc[b]
  BY <1>1, <1>2, OthersRest DEF TypeOK
<1>4. \A b \in Agents : b # a => Knows(b)'
  BY <1>3 DEF Knows, BeforeCommit, Resting
<1>5. Knows(a)'
  BY <1>1, WritePathAssumption DEF Knows, Agree, Wanted, BeforeCommit, CasSucceeds, Tracked, TypeOK, Undisturbed, Resting
<1>6. (Quiet => Agree(disk))' /\ serial' = <<>>
  BY <1>1, WritePathAssumption DEF LInv, Knows, Agree, Tracked, TypeOK, Quiet, Resting
<1>7. Numbered'
  BY <1>1, WritePathAssumption DEF Numbered, Tracked, TypeOK
<1>8. HasStable'
  BY <1>1, <1>3 DEF LInv, HasStable, TypeOK
<1>9. QED
  BY <1>4, <1>5, <1>6, <1>7, <1>8 DEF LInv

LEMMA ReadBaseLocked ==
  ASSUME IInv, IInv', LInv, Undisturbed, NEW a \in Agents, ReadBase(a)
  PROVE  LInv'
<1> USE DEF ReadBase, Goto, BaseVersion, locking, locals
<1>1. TypeOK /\ HasContent /\ LockInv /\ Knows(a) /\ Numbered /\ TypeOK' /\ HasContent'
  BY DEF IInv, LInv
<1>2. lock \in {a, NoAgent}
  BY <1>1 DEF LockInv, Knows, Resting
<1>3. \A b \in Agents : b # a => pc[b] \in Resting /\ pc'[b] = pc[b]
  BY <1>1, <1>2, OthersRest DEF TypeOK
<1>4. \A b \in Agents : b # a => Knows(b)'
  BY <1>3 DEF Knows, BeforeCommit, Resting
<1>5. Knows(a)'
  <2>1. version = 0 \/ \E i \in DOMAIN subs : subs[i].status = "stable"
    BY <1>3 DEF LInv, HasStable, Resting
  <2>2. BaseVersion(a) = version
    BY <1>1, <2>1, StableReadable
  <2> HIDE DEF BaseVersion
  <2>3. base'[a] = version
    BY <1>1, <2>2 DEF TypeOK
  <2>4. QED
    BY <1>1, <2>3 DEF Knows, Agree, Wanted, BeforeCommit, CasSucceeds, Tracked, TypeOK, Resting
<1>6. (Quiet => Agree(disk))' /\ serial' = <<>>
  BY <1>1, WritePathAssumption DEF LInv, Knows, Agree, Tracked, TypeOK, Quiet, Resting
<1>7. Numbered'
  BY <1>1, WritePathAssumption DEF Numbered, Tracked, TypeOK
<1>8. HasStable'
  BY <1>1, <1>3 DEF LInv, HasStable, TypeOK
<1>9. QED
  BY <1>4, <1>5, <1>6, <1>7, <1>8 DEF LInv

LEMMA SubmitDraftLocked ==
  ASSUME IInv, IInv', LInv, Undisturbed, NEW a \in Agents, SubmitDraft(a)
  PROVE  LInv'
<1> USE DEF SubmitDraft, Goto, locking, locals
<1>1. TypeOK /\ HasContent /\ LockInv /\ Knows(a) /\ Numbered /\ TypeOK' /\ HasContent'
  BY DEF IInv, LInv
<1>2. lock \in {a, NoAgent}
  BY <1>1 DEF LockInv, Knows, Resting
<1>3. \A b \in Agents : b # a => pc[b] \in Resting /\ pc'[b] = pc[b]
  BY <1>1, <1>2, OthersRest DEF TypeOK
<1>4. \A b \in Agents : b # a => Knows(b)'
  BY <1>3 DEF Knows, BeforeCommit, Resting
<1>5. Knows(a)'
  BY <1>1, WritePathAssumption DEF Knows, Agree, Wanted, BeforeCommit, CasSucceeds, Tracked, TypeOK, Undisturbed, Resting
<1>6. (Quiet => Agree(disk))' /\ serial' = <<>>
  BY <1>1, WritePathAssumption DEF LInv, Knows, Agree, Tracked, TypeOK, Quiet, Resting
<1>7. Numbered'
  BY <1>1, WritePathAssumption DEF Numbered, Tracked, TypeOK
<1>8. HasStable'
  <2>1. subs \in Seq(Submissions)
    BY <1>1 DEF TypeOK, Submissions
  <2>2. ASSUME NEW i \in DOMAIN subs, subs[i].status = "stable"
        PROVE  i \in DOMAIN subs' /\ subs'[i].status = "stable"
    <3> DEFINE kept == [j \in DOMAIN subs |-> IF subs[j].agent = a /\ subs[j].status = "draft"
                                              THEN Row(a, {}, "deleted") ELSE subs[j]]
    <3>1. Len(subs) \in Nat /\ DOMAIN subs = 1..Len(subs)
      BY <2>1
    <3>2. kept[i] = subs[i]
      BY <2>2
    <3>3. subs' = Append(kept, Row(a, want[a], "draft"))
      BY DEF WithDraft
    <3>4. kept \in Seq(Submissions) /\ Len(kept) = Len(subs)
      <4>1. Row(a, {}, "deleted") \in Submissions
        BY DEF Row, Submissions, Contents
      <4>2. \A j \in DOMAIN subs : subs[j] \in Submissions
        BY <2>1
      <4>3. kept \in [1..Len(subs) -> Submissions]
        BY <3>1, <4>1, <4>2
      <4>4. QED
        BY <3>1, <4>3
    <3> HIDE DEF kept
    <3>5. DOMAIN Append(kept, Row(a, want[a], "draft")) = 1..Len(subs) + 1
          /\ Append(kept, Row(a, want[a], "draft"))[i] = kept[i]
      BY <3>1, <3>4
    <3>6. QED
      BY <2>2, <3>1, <3>2, <3>3, <3>5
  <2>3. QED
    BY <1>1, <1>3, <2>2 DEF LInv, HasStable, TypeOK
<1>9. QED
  BY <1>4, <1>5, <1>6, <1>7, <1>8 DEF LInv

LEMMA WriteDiskLocked ==
  ASSUME IInv, IInv', LInv, Undisturbed, NEW a \in Agents, WriteDisk(a)
  PROVE  LInv'
<1> USE DEF WriteDisk, Goto, locking, locals
<1>1. TypeOK /\ HasContent /\ LockInv /\ Knows(a) /\ Numbered /\ TypeOK' /\ HasContent'
  BY DEF IInv, LInv
<1>2. lock \in {a, NoAgent}
  BY <1>1 DEF LockInv, Knows, Resting
<1>3. \A b \in Agents : b # a => pc[b] \in Resting /\ pc'[b] = pc[b]
  BY <1>1, <1>2, OthersRest DEF TypeOK
<1>4. \A b \in Agents : b # a => Knows(b)'
  BY <1>3 DEF Knows, BeforeCommit, Resting
<1>5. Knows(a)'
  BY <1>1, WritePathAssumption DEF Knows, Agree, Wanted, BeforeCommit, CasSucceeds, Tracked, TypeOK, Undisturbed, Resting
<1>6. (Quiet => Agree(disk))' /\ serial' = <<>>
  BY <1>1, WritePathAssumption DEF LInv, Knows, Agree, Tracked, TypeOK, Quiet, Resting
<1>7. Numbered'
  BY <1>1, WritePathAssumption DEF Numbered, Tracked, TypeOK
<1>8. HasStable'
  BY <1>1, <1>3 DEF LInv, HasStable, TypeOK
<1>9. QED
  BY <1>4, <1>5, <1>6, <1>7, <1>8 DEF LInv

LEMMA FormatLocked ==
  ASSUME IInv, IInv', LInv, Undisturbed, NEW a \in Agents, Format(a)
  PROVE  LInv'
<1> USE DEF Format, Goto, locking, locals
<1>1. TypeOK /\ HasContent /\ LockInv /\ Knows(a) /\ Numbered /\ TypeOK' /\ HasContent'
  BY DEF IInv, LInv
<1>2. lock \in {a, NoAgent}
  BY <1>1 DEF LockInv, Knows, Resting
<1>3. \A b \in Agents : b # a => pc[b] \in Resting /\ pc'[b] = pc[b]
  BY <1>1, <1>2, OthersRest DEF TypeOK
<1>4. \A b \in Agents : b # a => Knows(b)'
  BY <1>3 DEF Knows, BeforeCommit, Resting
<1>5. Knows(a)'
  BY <1>1, WritePathAssumption DEF Knows, Agree, Wanted, BeforeCommit, CasSucceeds, Tracked, TypeOK, Undisturbed, Resting
<1>6. (Quiet => Agree(disk))' /\ serial' = <<>>
  BY <1>1, WritePathAssumption DEF LInv, Knows, Agree, Tracked, TypeOK, Quiet, Resting
<1>7. Numbered'
  BY <1>1, WritePathAssumption DEF Numbered, Tracked, TypeOK
<1>8. HasStable'
  BY <1>1, <1>3 DEF LInv, HasStable, TypeOK
<1>9. QED
  BY <1>4, <1>5, <1>6, <1>7, <1>8 DEF LInv

LEMMA ValidateLocked ==
  ASSUME IInv, IInv', LInv, Undisturbed, NEW a \in Agents, Validate(a)
  PROVE  LInv'
<1> USE DEF Validate, Goto, Refuse, OwnCoordinator, locals, locking
<1>1. TypeOK /\ HasContent /\ LockInv /\ Knows(a) /\ Numbered /\ TypeOK' /\ HasContent'
  BY DEF IInv, LInv
<1>2. lock \in {a, NoAgent}
  BY <1>1 DEF LockInv, Knows, Resting
<1>10. ~ OwnCoordinator(a)
  BY <1>1 DEF Knows, Resting
<1>3. \A b \in Agents : b # a => pc[b] \in Resting /\ pc'[b] = pc[b]
  BY <1>1, <1>2, <1>10, OthersRest DEF TypeOK
<1>4. \A b \in Agents : b # a => Knows(b)'
  BY <1>3 DEF Knows, BeforeCommit, Resting
<1>5. Knows(a)'
  BY <1>1, WritePathAssumption DEF Knows, Agree, Wanted, BeforeCommit, CasSucceeds, Tracked, TypeOK, Undisturbed, Resting
<1>6. (Quiet => Agree(disk))' /\ serial' = <<>>
  BY <1>1, WritePathAssumption DEF LInv, Knows, Agree, Tracked, TypeOK, Quiet, Resting
<1>7. Numbered'
  BY <1>1, <1>10 DEF Numbered, Tracked
<1>8. HasStable'
  BY <1>1, <1>3 DEF LInv, HasStable, TypeOK
<1>9. QED
  BY <1>4, <1>5, <1>6, <1>7, <1>8 DEF LInv

LEMMA CommitLocked ==
  ASSUME IInv, IInv', LInv, Undisturbed, NEW a \in Agents, Commit(a)
  PROVE  LInv'
<1> USE DEF Commit, Goto, Upsert, locking, locals
<1>1. TypeOK /\ HasContent /\ LockInv /\ Knows(a) /\ Numbered /\ TypeOK' /\ HasContent'
  BY DEF IInv, LInv
<1>2. lock \in {a, NoAgent}
  BY <1>1 DEF LockInv, Knows, Resting
<1>3. \A b \in Agents : b # a => pc[b] \in Resting /\ pc'[b] = pc[b]
  BY <1>1, <1>2, OthersRest DEF TypeOK
<1>4. \A b \in Agents : b # a => Knows(b)'
  BY <1>3 DEF Knows, BeforeCommit, Resting
<1>5. Knows(a)'
  BY <1>1, WritePathAssumption DEF Knows, Agree, Wanted, BeforeCommit, CasSucceeds, Tracked, TypeOK, Undisturbed, Resting
<1>6. (Quiet => Agree(disk))' /\ serial' = <<>>
  BY <1>1, WritePathAssumption DEF LInv, Knows, Agree, Tracked, TypeOK, Quiet, Resting
<1>7. Numbered'
  <2>1. CasSucceeds(base[a]) /\ content' = want[a] /\ UNCHANGED <<edit, edits>>
    BY <1>1 DEF Knows
  <2>2. \A e \in want[a] : e <= edits
    <3>1. Wanted(a) /\ Agree(found[a]) /\ kind[a] \in {"edit", "overwrite"} /\ edit[a] <= edits
      BY <1>1 DEF Knows, Numbered, TypeOK, Kinds, Resting
    <3>2. want[a] \subseteq (IF Tracked THEN content ELSE {}) \cup {edit[a]}
      BY <3>1 DEF Wanted, Agree
    <3>3. Tracked => \A e \in content : e <= edits
      BY <1>1 DEF Numbered
    <3> HIDE DEF Commit
    <3>4. QED
      BY <3>1, <3>2, <3>3
  <2>3. QED
    BY <1>1, <2>1, <2>2 DEF Numbered
<1>8. HasStable'
  BY <1>1, <1>3 DEF LInv, HasStable, TypeOK
<1>9. QED
  BY <1>4, <1>5, <1>6, <1>7, <1>8 DEF LInv

LEMMA StoreStableLocked ==
  ASSUME IInv, IInv', LInv, Undisturbed, NEW a \in Agents, StoreStable(a)
  PROVE  LInv'
<1> USE DEF StoreStable, Goto, locking, locals
<1>1. TypeOK /\ HasContent /\ LockInv /\ Knows(a) /\ Numbered /\ TypeOK' /\ HasContent'
  BY DEF IInv, LInv
<1>2. lock \in {a, NoAgent}
  BY <1>1 DEF LockInv, Knows, Resting
<1>3. \A b \in Agents : b # a => pc[b] \in Resting /\ pc'[b] = pc[b]
  BY <1>1, <1>2, OthersRest DEF TypeOK
<1>4. \A b \in Agents : b # a => Knows(b)'
  BY <1>3 DEF Knows, BeforeCommit, Resting
<1>5. Knows(a)'
  BY <1>1, WritePathAssumption DEF Knows, Agree, Wanted, BeforeCommit, CasSucceeds, Tracked, TypeOK, Undisturbed, Resting
<1>6. (Quiet => Agree(disk))' /\ serial' = <<>>
  BY <1>1, WritePathAssumption DEF LInv, Knows, Agree, Tracked, TypeOK, Quiet, Resting
<1>7. Numbered'
  BY <1>1, WritePathAssumption DEF Numbered, Tracked, TypeOK
<1>8. HasStable'
  <2>1. subs \in Seq(Submissions)
    BY <1>1 DEF TypeOK, Submissions
  <2>2. Row(a, want[a], "stable") \in Submissions
    BY <1>1 DEF Row, Submissions, HasContent, NoEdit
  <2>3. Len(subs) + 1 \in DOMAIN subs' /\ subs'[Len(subs) + 1] = Row(a, want[a], "stable")
    BY <2>1, <2>2
  <2>4. QED
    BY <2>3 DEF HasStable, Row
<1>9. QED
  BY <1>4, <1>5, <1>6, <1>7, <1>8 DEF LInv

LEMMA FinishLocked ==
  ASSUME IInv, IInv', LInv, Undisturbed, NEW a \in Agents, Finish(a)
  PROVE  LInv'
<1> USE DEF Finish, Goto, OwnCoordinator, ReleaseLock, Unlock, Pop, KeepRow, DropGuard, locking, locals
<1>1. TypeOK /\ HasContent /\ LockInv /\ Knows(a) /\ Numbered /\ TypeOK' /\ HasContent'
  BY DEF IInv, LInv
<1>2. lock \in {a, NoAgent}
  BY <1>1 DEF LockInv, Knows, Resting
<1>3. \A b \in Agents : b # a => pc[b] \in Resting /\ pc'[b] = pc[b]
  BY <1>1, <1>2, OthersRest DEF TypeOK
<1>4. \A b \in Agents : b # a => Knows(b)'
  BY <1>3 DEF Knows, BeforeCommit, Resting
<1>5. Knows(a)'
  BY <1>1, WritePathAssumption DEF Knows, Agree, Wanted, BeforeCommit, CasSucceeds, Tracked, TypeOK, Undisturbed, Resting
<1>6. (Quiet => Agree(disk))' /\ serial' = <<>>
  BY <1>1, WritePathAssumption DEF LInv, Knows, Agree, Tracked, TypeOK, Quiet, Resting
<1>7. Numbered'
  BY <1>1, WritePathAssumption DEF Numbered, Tracked, TypeOK
<1>8. HasStable'
  BY <1>1, <1>3 DEF LInv, HasStable, TypeOK
<1>9. QED
  BY <1>4, <1>5, <1>6, <1>7, <1>8 DEF LInv

LEMMA RollbackLocked ==
  ASSUME IInv, IInv', LInv, Undisturbed, NEW a \in Agents, Rollback(a)
  PROVE  LInv'
<1> USE DEF Rollback, Goto, locking, locals
<1>1. TypeOK /\ HasContent /\ LockInv /\ Knows(a) /\ Numbered /\ TypeOK' /\ HasContent'
  BY DEF IInv, LInv
<1>2. lock \in {a, NoAgent}
  BY <1>1 DEF LockInv, Knows, Resting
<1>3. \A b \in Agents : b # a => pc[b] \in Resting /\ pc'[b] = pc[b]
  BY <1>1, <1>2, OthersRest DEF TypeOK
<1>4. \A b \in Agents : b # a => Knows(b)'
  BY <1>3 DEF Knows, BeforeCommit, Resting
<1>5. Knows(a)'
  BY <1>1, WritePathAssumption DEF Knows, Agree, Wanted, BeforeCommit, CasSucceeds, Tracked, TypeOK, Undisturbed, Resting
<1>6. (Quiet => Agree(disk))' /\ serial' = <<>>
  BY <1>1, WritePathAssumption DEF LInv, Knows, Agree, Tracked, TypeOK, Quiet, Resting
<1>7. Numbered'
  BY <1>1, WritePathAssumption DEF Numbered, Tracked, TypeOK
<1>8. HasStable'
  BY <1>1, <1>3 DEF LInv, HasStable, TypeOK
<1>9. QED
  BY <1>4, <1>5, <1>6, <1>7, <1>8 DEF LInv

LEMMA RestoreLocked ==
  ASSUME IInv, IInv', LInv, Undisturbed, NEW a \in Agents, Restore(a)
  PROVE  LInv'
<1> USE DEF Restore, Goto, locking, locals
<1>1. TypeOK /\ HasContent /\ LockInv /\ Knows(a) /\ Numbered /\ TypeOK' /\ HasContent'
  BY DEF IInv, LInv
<1>2. lock \in {a, NoAgent}
  BY <1>1 DEF LockInv, Knows, Resting
<1>3. \A b \in Agents : b # a => pc[b] \in Resting /\ pc'[b] = pc[b]
  BY <1>1, <1>2, OthersRest DEF TypeOK
<1>4. \A b \in Agents : b # a => Knows(b)'
  BY <1>3 DEF Knows, BeforeCommit, Resting
<1>5. Knows(a)'
  BY <1>1, WritePathAssumption DEF Knows, Agree, Wanted, BeforeCommit, CasSucceeds, Tracked, TypeOK, Undisturbed, Resting
<1>6. (Quiet => Agree(disk))' /\ serial' = <<>>
  BY <1>1, WritePathAssumption DEF LInv, Knows, Agree, Tracked, TypeOK, Quiet, Resting
<1>7. Numbered'
  BY <1>1, WritePathAssumption DEF Numbered, Tracked, TypeOK
<1>8. HasStable'
  BY <1>1, <1>3 DEF LInv, HasStable, TypeOK
<1>9. QED
  BY <1>4, <1>5, <1>6, <1>7, <1>8 DEF LInv

LEMMA ReleaseLocked ==
  ASSUME IInv, IInv', LInv, Undisturbed, NEW a \in Agents, Release(a)
  PROVE  LInv'
<1> USE DEF Release, Goto, OwnCoordinator, ReleaseLock, Unlock, Pop, KeepRow, DropGuard, Return, locking, locals
<1>1. TypeOK /\ HasContent /\ LockInv /\ Knows(a) /\ Numbered /\ TypeOK' /\ HasContent'
  BY DEF IInv, LInv
<1>2. lock \in {a, NoAgent}
  BY <1>1 DEF LockInv, Knows, Resting
<1>3. \A b \in Agents : b # a => pc[b] \in Resting /\ pc'[b] = pc[b]
  BY <1>1, <1>2, OthersRest DEF TypeOK
<1>4. \A b \in Agents : b # a => Knows(b)'
  BY <1>3 DEF Knows, BeforeCommit, Resting
<1>5. Knows(a)'
  BY <1>1, WritePathAssumption DEF Knows, Agree, Wanted, BeforeCommit, CasSucceeds, Tracked, TypeOK, Undisturbed, Resting
<1>6. (Quiet => Agree(disk))' /\ serial' = <<>>
  BY <1>1, WritePathAssumption DEF LInv, Knows, Agree, Tracked, TypeOK, Quiet, Resting
<1>7. Numbered'
  BY <1>1, WritePathAssumption DEF Numbered, Tracked, TypeOK
<1>8. HasStable'
  BY <1>1, <1>3 DEF LInv, HasStable, TypeOK
<1>9. QED
  BY <1>4, <1>5, <1>6, <1>7, <1>8 DEF LInv

\* Steps of agents that have no lock: they leave the file and the calls that
\* write alone.
LEMMA QuietLocked ==
  ASSUME IInv, IInv', LInv, UNCHANGED <<disk, version, content, subs, serial>>,
         edits' >= edits,
         \A b \in Agents :
           \/ pc[b] \in Resting /\ pc'[b] \in Resting /\ edit'[b] \in {0, edit[b]}
           \/ /\ pc[b] \notin Resting /\ pc'[b] = pc[b] /\ kind'[b] = kind[b]
              /\ edit'[b] = edit[b] /\ want'[b] = want[b] /\ base'[b] = base[b]
              /\ found'[b] = found[b],
         lock' = lock \/ lock = NoAgent
  PROVE  LInv'
<1>1. \A b \in Agents : Knows(b)'
  <2> SUFFICES ASSUME NEW b \in Agents
               PROVE  Knows(b)'
    OBVIOUS
  <2>1. CASE pc[b] \in Resting
    BY <2>1 DEF Knows, BeforeCommit, Resting
  <2>2. CASE pc[b] \notin Resting
    <3>1. Knows(b) /\ lock = b
      BY <2>2 DEF LInv, Knows
    <3>2. lock' = b
      BY <3>1, WritePathAssumption
    <3>3. QED
      BY <2>2, <3>1, <3>2 DEF Knows, Agree, Wanted, BeforeCommit, CasSucceeds, Tracked
  <2>3. QED
    BY <2>1, <2>2
<1>2. (Quiet => Agree(disk))' /\ serial' = <<>>
  BY DEF LInv, Agree, Tracked, Quiet
<1>3. Numbered'
  <2>1. Numbered /\ TypeOK
    BY DEF LInv, IInv
  <2>2. edits \in Nat /\ edits' \in Nat /\ \A b \in Agents : edit[b] \in Nat
    BY WritePathAssumption DEF IInv, TypeOK
  <2>3. Tracked => \A e \in content : e \in Nat
    BY <2>1, WritePathAssumption DEF TypeOK, Tracked, Contents, Edits
  <2>4. \A b \in Agents : edit'[b] \in {0, edit[b]}
    OBVIOUS
  <2>5. QED
    BY <2>1, <2>2, <2>3, <2>4 DEF Numbered, Tracked
<1>4. HasStable'
  BY DEF LInv, HasStable, Resting
<1>5. QED
  BY <1>1, <1>2, <1>3, <1>4 DEF LInv

LEMMA RestingLocked ==
  ASSUME IInv, IInv', LInv, Undisturbed, NEW a \in Agents,
         BeginRefused(a) \/ EnqueueWait(a) \/ GiveUp(a) \/ Report(a)
  PROVE  LInv'
<1> USE DEF BeginRefused, EnqueueWait, GiveUp, Report, Free, Return, Goto, locals, locking
<1>1. TypeOK
  BY DEF IInv
<1>2. UNCHANGED <<disk, version, content, subs, serial, lock>>
  OBVIOUS
<1>3. edits' >= edits
  BY <1>1, WritePathAssumption DEF TypeOK
<1>4. pc[a] \in Resting /\ pc'[a] \in Resting /\ edit'[a] \in {0, edit[a]}
  BY <1>1 DEF TypeOK, Resting
<1>5. \A b \in Agents \ {a} :
         /\ pc'[b] = pc[b] /\ kind'[b] = kind[b] /\ edit'[b] = edit[b]
         /\ want'[b] = want[b] /\ base'[b] = base[b] /\ found'[b] = found[b]
  BY <1>1 DEF TypeOK
<1> HIDE DEF BeginRefused, EnqueueWait, GiveUp, Report
<1>6. QED
  BY <1>2, <1>3, <1>4, <1>5, QuietLocked

LEMMA HandOverLocked ==
  ASSUME IInv, IInv', LInv, NEW p \in Agents \cup {NoAgent}, HandOver(p)
  PROVE  LInv'
<1>1. UNCHANGED <<disk, version, content, subs, serial, pc, kind, edit, want, base, found, edits>>
  BY DEF HandOver, locals
<1>2. lock' = lock \/ lock = NoAgent
  BY DEF HandOver
<1>3. edits' >= edits
  BY <1>1, WritePathAssumption DEF IInv, TypeOK
<1>4. QED
  BY <1>1, <1>2, <1>3, QuietLocked

LEMMA InitLInv ==
  ASSUME Init
  PROVE  LInv
<1>1. \A a \in Agents : Knows(a)
  BY DEF Init, Knows, BeforeCommit, Resting
<1>2. Agree(disk) /\ serial = <<>>
  BY DEF Init, Agree, Tracked
<1>3. Numbered
  <2>1. \A a \in Agents : edit[a] = 0
    BY DEF Init
  <2>2. edits = 0 /\ content \in {{}, NoFile}
    BY DEF Init
  <2>3. QED
    BY <2>1, <2>2 DEF Numbered, Tracked
<1>4. HasStable
  BY DEF Init, HasStable
<1>5. QED
  BY <1>1, <1>2, <1>3, <1>4 DEF LInv

LEMMA StepLInv ==
  ASSUME IInv, IInv', LInv, Undisturbed, [Next]_vars
  PROVE  LInv'
<1>1. ASSUME NEW a \in Agents, CallStep(a)
      PROVE  LInv'
  <2>1. ~ Conflict(a)
    BY DEF LInv, Knows, Conflict
  <2>2. QED
    BY <1>1, <2>1, RestingLocked, ReadDiskLocked, ReadBaseLocked, SubmitDraftLocked, WriteDiskLocked,
       FormatLocked, ValidateLocked, CommitLocked, StoreStableLocked, FinishLocked,
       RollbackLocked, RestoreLocked, ReleaseLocked DEF CallStep
<1>2. ASSUME NEW a \in Agents
      PROVE  /\ ~ RegisterFails(a) /\ ~ Fail(a) /\ ~ ConflictFails(a)
             /\ ~ ReadForSubmit(a) /\ ~ Promote(a)
  BY DEF Undisturbed, RegisterFails, Fail, ConflictFails, ReadForSubmit, Promote
<1>3. ~ SerialTick /\ ~ ExpireLock /\ \A p \in Agents \cup {NoAgent} : ~ HandOverFails(p)
  BY DEF Undisturbed, LInv, SerialTick, ExpireLock, HandOverFails
<1>4. ASSUME NEW a \in Agents, ExpireBackoff(a)
      PROVE  LInv'
  <2>1. edits' >= edits
    BY <1>4, WritePathAssumption DEF ExpireBackoff, IInv, TypeOK
  <2>2. QED
    BY <1>4, <2>1, QuietLocked DEF ExpireBackoff, locking
<1>5. ASSUME UNCHANGED vars
      PROVE  LInv'
  <2>1. edits' >= edits
    BY <1>5, WritePathAssumption DEF vars, IInv, TypeOK
  <2>2. QED
    BY <1>5, <2>1, QuietLocked DEF vars, locking
<1>6. QED
  BY <1>1, <1>2, <1>3, <1>4, <1>5, BeginWriteLocked, RestingLocked, HandOverLocked DEF Next

LEMMA LockedInvariance ==
  ASSUME Undisturbed
  PROVE  Spec => []LInv
<1>1. Init => LInv
  BY InitLInv
<1>2. IInv /\ IInv' /\ LInv /\ [Next]_vars => LInv'
  BY StepLInv
<1>3. QED
  BY <1>1, <1>2, Invariance, PTL DEF Spec

\* submit_stable_with_write keeps the disk and file_versions together: between
\* two calls the disk has the content of the store.
THEOREM DiskAgreesWithStore ==
  ASSUME Undisturbed
  PROVE  Spec => []DiskAgrees
<1>1. LInv => DiskAgrees
  BY DEF LInv, DiskAgrees, Agree, Quiet
<1>2. QED
  BY <1>1, LockedInvariance, PTL

\* The step from restore to release is Restore and no other.
LEMMA OnlyRestoreRestores ==
  ASSUME IInv, Next, NEW a \in Agents, pc[a] = "restore", pc'[a] = "release"
  PROVE  Restore(a)
<1>0. pc \in [Agents -> Labels]
  BY DEF IInv, TypeOK
<1>1. ASSUME NEW b \in Agents, b # a, pc' \in {pc} \cup {[pc EXCEPT ![b] = l] : l \in Labels}
      PROVE  FALSE
  BY <1>0, <1>1
<1>2. ASSUME NEW b \in Agents, CallStep(b)
      PROVE  Restore(a)
  <2>1. pc' \in {[pc EXCEPT ![b] = l] : l \in Labels}
    BY <1>2 DEF CallStep, EnqueueWait, GiveUp, ReadDisk, ReadBase, SubmitDraft, WriteDisk, Format, Validate, Commit,
                StoreStable, Finish, Report, Conflict, Rollback, Restore, Release, Refuse,
                Return, Goto, Labels, Resting
  <2>2. b = a
    BY <1>1, <2>1
  <2>3. QED
    BY <1>2, <2>2 DEF CallStep, EnqueueWait, GiveUp, ReadDisk, ReadBase, SubmitDraft, WriteDisk, Format, Validate,
                Commit, StoreStable, Finish, Report, Conflict, Rollback, Release
<1>3. ASSUME NEW b \in Agents, Fail(b) \/ ConflictFails(b) \/ ReadForSubmit(b)
                                \/ BeginRefused(b) \/ RegisterFails(b) \/ HandOverFails(b)
                                \/ \E k \in {"edit", "overwrite"} : BeginWrite(b, k)
      PROVE  FALSE
  <2>1. pc' = pc \/ (pc[b] # "restore" /\ pc' \in {[pc EXCEPT ![b] = l] : l \in Labels})
    BY <1>3 DEF Fail, ConflictFails, ReadForSubmit, BeginWrite, BeginRefused, RegisterFails,
                HandOverFails, Free, Return, Goto, Labels, Resting
  <2>2. QED
    BY <1>1, <2>1
<1>4. ASSUME pc' = pc
      PROVE  FALSE
  BY <1>4
<1>5. ~ HandOverFails(NoAgent) \/ pc' = pc
  BY WritePathAssumption DEF HandOverFails
<1>6. QED
  BY <1>2, <1>3, <1>4, <1>5 DEF Next, HandOver, Promote, ExpireBackoff, SerialTick, ExpireLock

\* submit_stable_with_write after a refusal: what the call leaves on the disk is
\* what it found there, for files that the store knows or that did not exist. A
\* file that was there before the session and was never submitted is removed
\* instead (coordinator.rs:1371), hence ~ UnknownOnDisk.
THEOREM RefusalRestores ==
  ASSUME Undisturbed, ~ UnknownOnDisk
  PROVE  Spec => RefusalRestoresDisk
<1>1. ASSUME IInv, LInv, [Next]_vars
      PROVE  [\A a \in Agents : pc[a] = "restore" /\ pc'[a] = "release"
                => disk' = found[a]]_vars
  <2>1. SUFFICES ASSUME Next, NEW a \in Agents, pc[a] = "restore", pc'[a] = "release"
                 PROVE  disk' = found[a]
    BY <1>1
  <2>2. Restore(a)
    BY <1>1, <2>1, OnlyRestoreRestores
  <2>3. Knows(a)
    BY <1>1 DEF LInv
  <2>4. QED
    BY <2>1, <2>2, <2>3 DEF Restore, Knows, Agree, Tracked, Undisturbed
<1>2. IInv /\ LInv /\ [Next]_vars => [\A a \in Agents : pc[a] = "restore" /\ pc'[a] = "release"
                                      => disk' = found[a]]_vars
  BY <1>1
<1>3. QED
  BY <1>2, Invariance, LockedInvariance, PTL DEF Spec, RefusalRestoresDisk

\* A commit of the write path is an edit or an overwrite of the register.
LEMMA CommitIsAtomic ==
  ASSUME IInv, LInv, NEW a \in Agents, Commit(a)
  PROVE  \E e \in 1..MaxEdits : Register!Edit(e) \/ Register!Overwrite(e)
<1>1. Knows(a) /\ pc[a] = "commit" /\ edit[a] \in 1..MaxEdits /\ kind[a] \in {"edit", "overwrite"}
  BY DEF LInv, IInv, Commit, HasContent, NoEdit, Edits, Knows, TypeOK, Kinds, Resting
<1>2. Wanted(a) /\ Agree(found[a]) /\ CasSucceeds(base[a]) /\ (Tracked => edit[a] \notin content)
  BY <1>1 DEF Knows, BeforeCommit, Resting
<1>3. version' = version + 1 /\ content' = want[a]
  BY <1>2 DEF Commit, Upsert
<1>4. content' # content
  BY <1>2, <1>3, WritePathAssumption DEF Wanted, Tracked, TypeOK, IInv, HasContent, NoEdit, Contents, Edits, Commit
<1>5. CASE kind[a] = "edit"
  <2>1. content' = (IF content = NoFile THEN {} ELSE content) \cup {edit[a]}
    BY <1>2, <1>3, <1>5 DEF Wanted, Agree, Tracked
  <2>2. QED
    BY <1>1, <1>3, <1>4, <2>1 DEF Register!Edit
<1>6. CASE kind[a] = "overwrite"
  BY <1>1, <1>2, <1>3, <1>4, <1>6 DEF Wanted, Register!Overwrite
<1>7. QED
  BY <1>1, <1>5, <1>6

LEMMA StepRefines ==
  ASSUME IInv, LInv, Undisturbed, [Next]_vars
  PROVE  [Register!Next]_(Register!vars)
<1>1. ASSUME NEW a \in Agents, CallStep(a)
      PROVE  Commit(a) \/ UNCHANGED <<version, content>>
  BY <1>1 DEF CallStep, EnqueueWait, GiveUp, ReadDisk, ReadBase, SubmitDraft, WriteDisk,
              Format, Validate, StoreStable, Finish, Report, Conflict, Rollback, Restore, Release
<1>2. ASSUME NEW a \in Agents
      PROVE  /\ ~ RegisterFails(a) /\ ~ Fail(a) /\ ~ ConflictFails(a)
             /\ ~ ReadForSubmit(a) /\ ~ Promote(a)
  BY DEF Undisturbed, RegisterFails, Fail, ConflictFails, ReadForSubmit, Promote
<1>3. ~ SerialTick /\ ~ ExpireLock /\ \A p \in Agents \cup {NoAgent} : ~ HandOverFails(p)
  BY DEF Undisturbed, LInv, SerialTick, ExpireLock, HandOverFails
<1>4. (\E a \in Agents : Commit(a)) \/ UNCHANGED <<version, content>>
  BY <1>1, <1>2, <1>3 DEF Next, BeginWrite, BeginRefused, HandOver, ExpireBackoff, vars
<1>5. QED
  BY <1>4, CommitIsAtomic DEF Register!Next, Register!vars

\* With no lock expiring and nobody beside it, submit_stable_with_write is
\* atomic: read, draft, write, validate and commit together apply one edit.
THEOREM WritePathImplementsRegister ==
  ASSUME Undisturbed
  PROVE  Spec => ImplementsRegister
<1>1. Init => Register!Init
  BY DEF Init, Register!Init
<1>2. IInv /\ LInv /\ [Next]_vars => [Register!Next]_(Register!vars)
  BY StepRefines
<1>3. QED
  BY <1>1, <1>2, Invariance, LockedInvariance, PTL DEF Spec, ImplementsRegister, Register!Spec

=============================================================================
