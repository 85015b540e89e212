------------------------ MODULE WorkspaceSyncProofs ------------------------
(***************************************************************************)
(* Session sync for every number of loops, events and faults. In every     *)
(* setting a crash tears the two commits of process() one way round only   *)
(* and an open stream covers what is missing; with one writer at a time    *)
(* the two logs are copies of one.                                         *)
(***************************************************************************)
EXTENDS WorkspaceSync, SequenceTheorems, FiniteSetTheorems, TLAPS

C == log["control"]
W == log["workspace"]

Phases == {"off", "top", "connecting", "asking", "replaying", "streaming", "sleeping"}
Restores == [state : {"idle", "posting", "failed", "done"}, rows : Seq(Events), sent : Nat]
Requests == [state : {"idle", "waiting", "synced"}, at : Nat, event : Nat]

\* While a restore posts, the control server has at least the rows it read.
PostingInv ==
  restore.state = "posting" =>
    /\ removed = "no"
    /\ restore.sent < Len(restore.rows)
    /\ Len(restore.rows) <= Latest("control")

\* A stream carries single events.
SingleEvents ==
  \A l \in Loops : \A i \in 1..Len(queue[l]) : Len(queue[l][i].events) = 1

InStream(l, k) == \E i \in 1..Len(queue[l]) : queue[l][i].from = k

\* What the history in hand does not bring is in the stream already.
HistoryCovers ==
  \A l \in Loops :
    pc[l] = "replaying" /\ removed = "no" =>
      /\ reply[l].from <= Latest("control") + 1
      /\ ~ closed[l] => \A k \in Latest("control") + 1..Latest("workspace") :
                         k <= LastOf(reply[l]) \/ InStream(l, k)

\* The inductive invariant of every setting.
IInv == TypeOK /\ PostingInv /\ SingleEvents /\ HistoryCovers /\ StreamCovers

-----------------------------------------------------------------------------
(* Logs, messages and batches.                                             *)

\* The parts of the type invariant.
LogsOK == log \in [Sites -> Seq(Events)] /\ proj \in [Sites -> SUBSET Events]

MessagesOK == reply \in [Loops -> Messages] /\ queue \in [Loops -> Seq(Messages)]

RestoreOK == restore \in Restores /\ restore.sent <= Len(restore.rows)

OtherOK ==
  /\ writes \in 0..MaxEvents /\ home \in Sites \cup {"none"}
  /\ removed \in {"no", "sessions", "stopped"}
  /\ pc \in [Loops -> Phases]
  /\ signal \in [Loops -> BOOLEAN] /\ missed \in [Loops -> BOOLEAN]
  /\ closed \in [Loops -> BOOLEAN]
  /\ aborts \in Loops \cup {NoLoop}
  /\ status \in {"none", "disconnected", "connecting", "connected", "error"}
  /\ fence \in Requests
  /\ faults \in 0..MaxFaults

LEMMA TypeParts == TypeOK <=> LogsOK /\ MessagesOK /\ RestoreOK /\ OtherOK
  BY DEF TypeOK, LogsOK, MessagesOK, RestoreOK, OtherOK, Phases, Restores, Requests

\* A log that takes events of a message over grows to the place asked for.
LEMMA ExtendedLog ==
  ASSUME LogsOK, NEW s \in Sites, NEW m \in Messages, m.from <= Latest(s) + 1,
         NEW n \in Nat, Latest(s) <= n, n <= LastOf(m)
  PROVE  /\ Extended(s, m, n) \in Seq(Events)
         /\ Len(Extended(s, m, n)) = n
         /\ \A k \in 1..n : Extended(s, m, n)[k] =
              IF k <= Latest(s) THEN log[s][k] ELSE m.events[k - m.from + 1]
<1>1. log[s] \in Seq(Events) /\ Latest(s) \in Nat
  BY DEF LogsOK, Latest
<1>2. m.events \in Seq(Events) /\ m.from \in Nat /\ m.from >= 1 /\ Len(m.events) \in Nat
  BY DEF Messages
<1>3. ASSUME NEW k \in 1..n
      PROVE  (IF k <= Latest(s) THEN log[s][k] ELSE m.events[k - m.from + 1]) \in Events
  <2>1. CASE k <= Latest(s)
    <3>1. k \in 1..Len(log[s])
      BY <1>1, <2>1 DEF Latest
    <3>2. QED
      BY <1>1, <2>1, <3>1
  <2>2. CASE k > Latest(s)
    <3>1. k - m.from + 1 \in 1..Len(m.events)
      BY <1>1, <1>2, <2>2 DEF LastOf
    <3>2. QED
      BY <1>1, <1>2, <2>2, <3>1
  <2>3. QED
    BY <1>1, <2>1, <2>2
<1>4. Extended(s, m, n) \in [1..n -> Events]
  BY <1>3 DEF Extended
<1>5. QED
  BY <1>4 DEF Extended

\* The events a site takes from a message are events.
LEMMA NewEvents ==
  ASSUME LogsOK, NEW s \in Sites, NEW m \in Messages, m.from <= Latest(s) + 1,
         NEW n \in Nat, n <= LastOf(m)
  PROVE  New(s, m, n) \subseteq Events
<1>1. Latest(s) \in Nat
  BY DEF LogsOK, Latest
<1>2. m.events \in Seq(Events) /\ m.from \in Nat /\ m.from >= 1 /\ Len(m.events) \in Nat
  BY DEF Messages
<1>3. ASSUME NEW k \in Latest(s) + 1..n
      PROVE  m.events[k - m.from + 1] \in Events
  <2>1. k - m.from + 1 \in 1..Len(m.events)
    BY <1>1, <1>2 DEF LastOf
  <2>2. QED
    BY <1>2, <2>1
<1>4. QED
  BY <1>3 DEF New

\* The events of a message are stored up to place n, their projections up to t.
Stored(s, m, n, t) ==
  /\ log' = [log EXCEPT ![s] = Extended(s, m, n)]
  /\ proj' = [proj EXCEPT ![s] = proj[s] \cup New(s, m, t)]

LEMMA StoredKeeps ==
  ASSUME LogsOK, NEW s \in Sites, NEW m \in Messages, m.from <= Latest(s) + 1,
         NEW n \in Nat, Latest(s) <= n, n <= LastOf(m), NEW t \in Nat, t <= LastOf(m),
         Stored(s, m, n, t)
  PROVE  /\ LogsOK' /\ Latest(s)' = n
         /\ log'[s] = Extended(s, m, n) /\ proj'[s] = proj[s] \cup New(s, m, t)
         /\ \A o \in Sites : o # s => log'[o] = log[o] /\ proj'[o] = proj[o]
<1>1. Extended(s, m, n) \in Seq(Events) /\ Len(Extended(s, m, n)) = n
  BY ExtendedLog
<1>2. New(s, m, t) \subseteq Events
  BY NewEvents
<1>3. /\ log'[s] = Extended(s, m, n) /\ proj'[s] = proj[s] \cup New(s, m, t)
      /\ \A o \in Sites : o # s => log'[o] = log[o] /\ proj'[o] = proj[o]
  BY DEF LogsOK, Stored
<1>4. log' \in [Sites -> Seq(Events)]
  BY <1>1 DEF LogsOK, Stored
<1>5. proj' \in [Sites -> SUBSET Events]
  <2>1. proj[s] \cup New(s, m, t) \in SUBSET Events
    BY <1>2 DEF LogsOK
  <2>2. QED
    BY <2>1 DEF LogsOK, Stored
<1>6. QED
  BY <1>1, <1>3, <1>4, <1>5 DEF LogsOK, Latest

\* What becomes of a message: nothing, all of it, or the events up to some
\* place, with the projection of the next one or without it.
Tried(s, m) == Replay(s, m) \/ Refused(s, m) \/ CutOff(s, m) \/ UNCHANGED logVars

LEMMA WholeStores ==
  ASSUME LogsOK, NEW s \in Sites, NEW m \in Messages, Replay(s, m) \/ Refused(s, m)
  PROVE  \/ UNCHANGED logVars
         \/ /\ ~ Stale(s, m) /\ m.from <= Latest(s) + 1
            /\ \E n \in Nat : Latest(s) <= n /\ n <= LastOf(m) /\ Stored(s, m, n, n)
<1>1. Latest(s) \in Nat
  BY DEF LogsOK, Latest
<1>2. LastOf(m) \in Int
  BY DEF Messages, LastOf
<1>3. CASE Replay(s, m)
  <2>1. CASE Stale(s, m)
    BY <1>3, <2>1 DEF Replay
  <2>2. CASE ~ Stale(s, m)
    <3>1. LastOf(m) \in Nat /\ Latest(s) <= LastOf(m) /\ LastOf(m) <= LastOf(m)
      BY <1>1, <1>2, <2>2 DEF Stale
    <3>2. m.from <= Latest(s) + 1 /\ Stored(s, m, LastOf(m), LastOf(m))
      BY <1>3, <2>2 DEF Replay, Fits, Apply, Stored
    <3>3. QED
      BY <2>2, <3>1, <3>2
  <2>3. QED
    BY <2>1, <2>2
<1>4. CASE Refused(s, m)
  <2>1. ASSUME NEW n \in Latest(s)..LastOf(m) - 1, Apply(s, m, n)
        PROVE  n \in Nat /\ Latest(s) <= n /\ n <= LastOf(m) /\ Stored(s, m, n, n)
    BY <1>1, <1>2, <2>1 DEF Apply, Stored
  <2>2. QED
    BY <1>4, <2>1 DEF Refused, Rowless, Fits
<1>5. QED
  BY <1>3, <1>4

LEMMA TriedStores ==
  ASSUME LogsOK, NEW s \in Sites, NEW m \in Messages, Tried(s, m)
  PROVE  \/ UNCHANGED logVars
         \/ /\ ~ Stale(s, m) /\ m.from <= Latest(s) + 1
            /\ \E n, t \in Nat : /\ Latest(s) <= n /\ n <= LastOf(m) /\ t <= LastOf(m)
                                 /\ t = n \/ t = n + 1
                                 /\ Stored(s, m, n, t)
<1>1. Latest(s) \in Nat
  BY DEF LogsOK, Latest
<1>2. LastOf(m) \in Int
  BY DEF Messages, LastOf
<1>3. CASE Replay(s, m) \/ Refused(s, m)
  BY <1>3, WholeStores
<1>4. CASE CutOff(s, m)
  <2>1. PICK n \in Latest(s)..LastOf(m) - 1 : Apply(s, m, n) \/ Tear(s, m, n)
    BY <1>4 DEF CutOff
  <2>2. ~ Stale(s, m) /\ m.from <= Latest(s) + 1
    BY <1>4 DEF CutOff, Fits
  <2>3. n \in Nat /\ n + 1 \in Nat /\ Latest(s) <= n /\ n + 1 <= LastOf(m) /\ n <= LastOf(m)
    BY <1>1, <1>2
  <2>4. Stored(s, m, n, n) \/ Stored(s, m, n, n + 1)
    BY <2>1 DEF Apply, Tear, Stored
  <2>5. QED
    BY <2>2, <2>3, <2>4
<1>5. QED
  BY <1>3, <1>4 DEF Tried

\* As to the log: it stays as it is or takes over part of the message.
Taken(s, m) ==
  \/ UNCHANGED log
  \/ /\ ~ Stale(s, m) /\ m.from <= Latest(s) + 1
     /\ \E n \in Nat : /\ Latest(s) <= n /\ n <= LastOf(m)
                       /\ log' = [log EXCEPT ![s] = Extended(s, m, n)]

LEMMA TriedKeeps ==
  ASSUME LogsOK, NEW s \in Sites, NEW m \in Messages, Tried(s, m)
  PROVE  /\ LogsOK' /\ Taken(s, m)
         /\ \A o \in Sites : o # s => log'[o] = log[o]
         /\ Latest(s)' \in Nat /\ Latest(s) \in Nat /\ Latest(s)' >= Latest(s)
         /\ Latest(s)' = Latest(s) \/ Latest(s)' <= LastOf(m)
<1>1. Latest(s) \in Nat
  BY DEF LogsOK, Latest
<1>2. CASE UNCHANGED logVars
  BY <1>1, <1>2 DEF logVars, LogsOK, Latest, Taken
<1>3. ASSUME ~ Stale(s, m), m.from <= Latest(s) + 1,
             NEW n \in Nat, NEW t \in Nat, Latest(s) <= n, n <= LastOf(m), t <= LastOf(m),
             Stored(s, m, n, t)
      PROVE  /\ LogsOK' /\ Taken(s, m)
             /\ \A o \in Sites : o # s => log'[o] = log[o]
             /\ Latest(s)' = n
  <2>1. LogsOK' /\ Latest(s)' = n /\ \A o \in Sites : o # s => log'[o] = log[o]
    BY <1>3, StoredKeeps
  <2>2. Taken(s, m)
    BY <1>3 DEF Stored, Taken
  <2>3. QED
    BY <2>1, <2>2
<1>4. QED
  BY <1>1, <1>2, <1>3, TriedStores

\* replay() that goes through brings the log to the end of the message.
LEMMA ReplayKeeps ==
  ASSUME LogsOK, NEW s \in Sites, NEW m \in Messages, Replay(s, m)
  PROVE  /\ \A o \in Sites : o # s => log'[o] = log[o]
         /\ Latest(s)' \in Nat /\ Latest(s) \in Nat /\ Latest(s)' >= Latest(s)
         /\ Stale(s, m) => UNCHANGED logVars
         /\ ~ Stale(s, m) => Latest(s)' = LastOf(m)
<1>1. /\ \A o \in Sites : o # s => log'[o] = log[o]
      /\ Latest(s)' \in Nat /\ Latest(s) \in Nat /\ Latest(s)' >= Latest(s)
  BY TriedKeeps DEF Tried
<1>2. ASSUME ~ Stale(s, m)
      PROVE  Latest(s)' = LastOf(m)
  <2>1. LastOf(m) \in Int
    BY DEF Messages, LastOf
  <2>2. LastOf(m) \in Nat /\ Latest(s) <= LastOf(m) /\ LastOf(m) <= LastOf(m)
    BY <1>1, <1>2, <2>1 DEF Stale
  <2>3. m.from <= Latest(s) + 1 /\ Stored(s, m, LastOf(m), LastOf(m))
    BY <1>2 DEF Replay, Fits, Apply, Stored
  <2>4. QED
    BY <2>2, <2>3, StoredKeeps
<1>3. QED
  BY <1>1, <1>2 DEF Replay

\* run() appends one event and sends it to the streams that are open.
LEMMA RunKeeps ==
  ASSUME TypeOK, SingleEvents, NEW s \in Sites, Run(s)
  PROVE  /\ LogsOK' /\ SingleEvents' /\ faults' = faults
         /\ writes' \in 0..MaxEvents /\ writes' = writes + 1 /\ writes' \in Events
         /\ queue' \in [Loops -> Seq(Messages)]
         /\ \A o \in Sites : o # s => log'[o] = log[o]
         /\ log'[s] = Append(log[s], writes + 1)
         /\ Latest(s)' = Latest(s) + 1 /\ Latest(s) \in Nat
         /\ \A l \in Loops : \A k \in Nat : InStream(l, k) => InStream(l, k)'
         /\ s = "workspace" => \A l \in Loops, k \in Nat :
                             Listening(l) /\ k = Latest(s) + 1 => InStream(l, k)'
         /\ \A l \in Loops :
              queue'[l] = IF s = "workspace" /\ Listening(l)
                            THEN Append(queue[l], Message(Latest(s) + 1, <<writes + 1>>))
                            ELSE queue[l]
<1>0. LogsOK /\ MessagesOK /\ OtherOK
  BY TypeParts
<1>1. writes' = writes + 1 /\ writes' \in 0..MaxEvents /\ writes' \in Events
  BY <1>0, SyncAssumption DEF Run, OtherOK, Events
<1>2. log[s] \in Seq(Events) /\ Latest(s) \in Nat
  BY <1>0 DEF LogsOK, Latest
<1>3. /\ log' = [log EXCEPT ![s] = Append(log[s], writes + 1)]
      /\ proj' = [proj EXCEPT ![s] = proj[s] \cup {writes + 1}] /\ faults' = faults
  BY DEF Run
<1>4. Append(log[s], writes + 1) \in Seq(Events) /\ Len(Append(log[s], writes + 1)) = Latest(s) + 1
  BY <1>1, <1>2 DEF Latest
<1>5. LogsOK'
  <2>1. proj[s] \cup {writes + 1} \in SUBSET Events
    BY <1>0, <1>1 DEF LogsOK
  <2>2. QED
    BY <1>0, <1>3, <1>4, <2>1 DEF LogsOK
<1>6. \A o \in Sites : o # s => log'[o] = log[o]
  BY <1>0, <1>3 DEF LogsOK
<1>7. log'[s] = Append(log[s], writes + 1) /\ Latest(s)' = Latest(s) + 1
  BY <1>0, <1>3, <1>4 DEF LogsOK, Latest
<1> DEFINE m == Message(Latest(s) + 1, <<writes + 1>>)
<1>9. m \in Messages /\ m.from = Latest(s) + 1 /\ Len(m.events) = 1
  BY <1>1, <1>2 DEF Message, Messages
<1>10. \A l \in Loops : queue'[l] = IF s = "workspace" /\ Listening(l)
                                      THEN Append(queue[l], m) ELSE queue[l]
  BY DEF Run
<1> HIDE DEF m
<1>11. \A l \in Loops : queue[l] \in Seq(Messages)
  BY <1>0 DEF MessagesOK
<1>12. queue' \in [Loops -> Seq(Messages)]
  <2>1. ASSUME NEW l \in Loops PROVE queue'[l] \in Seq(Messages)
    <3>1. queue[l] \in Seq(Messages) /\ queue'[l] \in {queue[l], Append(queue[l], m)}
      BY <1>10, <1>11, Zenon
    <3>2. Append(queue[l], m) \in Seq(Messages)
      BY <1>9, <3>1
    <3>3. QED
      BY <3>1, <3>2
  <2>2. queue' = [l \in Loops |-> queue'[l]]
    BY DEF Run
  <2>3. QED
    BY <2>1, <2>2
<1>13. ASSUME NEW l \in Loops
       PROVE  /\ \A i \in 1..Len(queue'[l]) : Len(queue'[l][i].events) = 1
              /\ \A k \in Nat : InStream(l, k) => InStream(l, k)'
              /\ \A k \in Nat : s = "workspace" /\ Listening(l) /\ k = Latest(s) + 1
                                => InStream(l, k)'
  <2>1. CASE s = "workspace" /\ Listening(l)
    <3>0. queue'[l] = Append(queue[l], m) /\ queue[l] \in Seq(Messages)
      BY <1>10, <1>11, <2>1, Zenon
    <3>1. queue'[l] = Append(queue[l], m) /\ Len(queue[l]) \in Nat
      BY <3>0
    <3>2. /\ Len(queue'[l]) = Len(queue[l]) + 1 /\ queue'[l][Len(queue[l]) + 1] = m
          /\ \A i \in 1..Len(queue[l]) : queue'[l][i] = queue[l][i]
      BY <1>9, <1>11, <3>1
    <3>3. \A i \in 1..Len(queue'[l]) : Len(queue'[l][i].events) = 1
      BY <1>9, <3>1, <3>2 DEF SingleEvents
    <3>4. \A k \in Nat : InStream(l, k) => InStream(l, k)'
      BY <3>1, <3>2 DEF InStream
    <3>5. ASSUME NEW k \in Nat, k = Latest(s) + 1
          PROVE  InStream(l, k)'
      <4>1. Len(queue[l]) + 1 \in 1..Len(queue'[l])
        BY <3>1, <3>2
      <4>2. queue'[l][Len(queue[l]) + 1].from = k
        BY <1>9, <3>2, <3>5
      <4>3. QED
        BY <4>1, <4>2 DEF InStream
    <3>6. QED
      BY <3>3, <3>4, <3>5
  <2>2. CASE ~ (s = "workspace" /\ Listening(l))
    BY <1>10, <2>2 DEF SingleEvents, InStream
  <2>3. QED
    BY <2>1, <2>2
<1>14. SingleEvents'
  BY <1>13 DEF SingleEvents
<1>15. QED
  BY <1>1, <1>2, <1>3, <1>5, <1>6, <1>7, <1>10, <1>12, <1>13, <1>14 DEF m

\* A batch is the next rows, at least one of them.
LEMMA BatchIsNext ==
  ASSUME RestoreOK, restore.sent < Len(restore.rows)
  PROVE  /\ Batch \in Messages /\ Batch.from = restore.sent + 1 /\ Batch.events # <<>>
         /\ LastOf(Batch) \in Nat /\ restore.sent < LastOf(Batch)
         /\ LastOf(Batch) <= Len(restore.rows)
         /\ LastOf(Batch) = restore.sent + Len(Batch.events)
         /\ \A j \in 1..Len(Batch.events) : Batch.events[j] = restore.rows[restore.sent + j]
<1> DEFINE rest == Len(restore.rows) - restore.sent
           size == IF rest < BatchSize THEN rest ELSE BatchSize
           es == SubSeq(restore.rows, restore.sent + 1, restore.sent + size)
<1>1. restore.rows \in Seq(Events) /\ restore.sent \in Nat /\ Len(restore.rows) \in Nat
  BY DEF RestoreOK, Restores
<1>2. size \in Nat /\ size >= 1 /\ restore.sent + size <= Len(restore.rows)
  BY <1>1, SyncAssumption
<1> HIDE DEF size
<1> DEFINE lo == restore.sent + 1
           hi == restore.sent + size
<1>3. lo \in Int /\ hi \in Int /\ \A i \in lo..hi : restore.rows[i] \in Events
  <2>1. \A i \in lo..hi : i \in 1..Len(restore.rows)
    BY <1>1, <1>2
  <2>2. QED
    BY <1>1, <1>2, <2>1
<1>4. es = SubSeq(restore.rows, lo, hi)
  OBVIOUS
<1>5. es \in Seq(Events) /\ Len(es) = size /\ \A i \in 1..size : es[i] = restore.rows[restore.sent + i]
  <2>1. hi - lo + 1 = size /\ lo <= hi
    BY <1>1, <1>2
  <2>2. \A i \in 1..size : lo + i - 1 = restore.sent + i
    BY <1>1, <1>2
  <2> HIDE DEF lo, hi, es
  <2>3. /\ es \in Seq(Events)
        /\ Len(es) = IF lo <= hi THEN hi - lo + 1 ELSE 0
        /\ \A i \in 1..hi - lo + 1 : es[i] = restore.rows[lo + i - 1]
    BY <1>3, <1>4, SubSeqProperties
  <2>4. QED
    BY <2>1, <2>2, <2>3
<1> HIDE DEF es
<1>6. es # <<>>
  BY <1>2, <1>5
<1>7. Batch = [from |-> restore.sent + 1, events |-> es]
  BY DEF Batch, Message, es, size
<1>8. Batch \in Messages
  BY <1>1, <1>5, <1>7 DEF Messages
<1>9. Batch.from = restore.sent + 1 /\ Batch.events = es
  BY <1>7
<1>10. LastOf(Batch) = restore.sent + size
  <2>1. LastOf(Batch) = restore.sent + 1 + size - 1
    BY <1>5, <1>9 DEF LastOf
  <2>2. QED
    BY <1>1, <1>2, <2>1
<1>11. QED
  BY <1>1, <1>2, <1>5, <1>6, <1>8, <1>9, <1>10

\* What one loop has in hand and in its stream.
LoopCovers(l) ==
  /\ pc[l] = "replaying" /\ removed = "no" =>
       /\ reply[l].from <= Latest("control") + 1
       /\ ~ closed[l] => \A k \in Latest("control") + 1..Latest("workspace") :
                          k <= LastOf(reply[l]) \/ InStream(l, k)
  /\ pc[l] = "streaming" /\ ~ missed[l] /\ ~ closed[l] /\ removed = "no" =>
       \A k \in Latest("control") + 1..Latest("workspace") : InStream(l, k)

LEMMA CoverParts == (\A l \in Loops : LoopCovers(l)) <=> HistoryCovers /\ StreamCovers
  BY DEF LoopCovers, HistoryCovers, StreamCovers, InStream

\* What a loop has stays enough while nothing is new to both sites that does
\* not come over its stream.
LEMMA CoverKept ==
  ASSUME LogsOK, LogsOK', MessagesOK, NEW l \in Loops, LoopCovers(l),
         pc'[l] = pc[l], missed'[l] = missed[l], reply'[l] = reply[l],
         ~ closed'[l] => ~ closed[l],
         removed' = "no" => removed = "no" /\ Latest("control")' >= Latest("control"),
         \A k \in Nat : InStream(l, k) => InStream(l, k)',
         \A k \in Nat : Latest("control")' < k /\ Latest("workspace") < k /\ k <= Latest("workspace")'
                         /\ Listening(l) => InStream(l, k)'
  PROVE  LoopCovers(l)'
<1>1. /\ Latest("control") \in Nat /\ Latest("workspace") \in Nat
      /\ Latest("control")' \in Nat /\ Latest("workspace")' \in Nat
  BY DEF LogsOK, Latest, Sites
<1>2. reply[l].from \in Nat
  BY DEF MessagesOK, Messages
<1>3. LastOf(reply[l])' = LastOf(reply[l])
  BY DEF LastOf
<1>4. CASE removed' # "no"
  BY <1>4 DEF LoopCovers
<1>5. CASE removed' = "no"
  <2>1. ASSUME NEW k \in Latest("control")' + 1..Latest("workspace")', Listening(l)
        PROVE  InStream(l, k)' \/ k \in Latest("control") + 1..Latest("workspace")
    <3>1. k \in Nat /\ Latest("control")' < k /\ k <= Latest("workspace")'
      BY <1>1
    <3>2. Latest("control") < k
      BY <1>1, <1>5, <3>1
    <3>3. QED
      BY <1>1, <2>1, <3>1, <3>2
  <2>2. \A k \in Latest("control")' + 1..Latest("workspace")' : k \in Nat
    BY <1>1
  <2>3. ASSUME pc[l] = "replaying"
        PROVE  /\ reply[l].from <= Latest("control")' + 1
               /\ ~ closed'[l] => \A k \in Latest("control")' + 1..Latest("workspace")' :
                                    k <= LastOf(reply[l]) \/ InStream(l, k)'
    <3>1. /\ reply[l].from <= Latest("control") + 1
          /\ ~ closed[l] => \A k \in Latest("control") + 1..Latest("workspace") :
                              k <= LastOf(reply[l]) \/ InStream(l, k)
      BY <1>5, <2>3 DEF LoopCovers
    <3>2. reply[l].from <= Latest("control")' + 1
      BY <1>1, <1>2, <1>5, <3>1
    <3>3. ~ closed'[l] => Listening(l)
      BY <2>3 DEF Listening, Connected
    <3>4. QED
      BY <2>1, <2>2, <3>1, <3>2, <3>3
  <2>4. ASSUME pc[l] = "streaming", ~ missed[l], ~ closed'[l]
        PROVE  \A k \in Latest("control")' + 1..Latest("workspace")' : InStream(l, k)'
    <3>1. \A k \in Latest("control") + 1..Latest("workspace") : InStream(l, k)
      BY <1>5, <2>4 DEF LoopCovers
    <3>2. Listening(l)
      BY <2>4 DEF Listening, Connected
    <3>3. QED
      BY <2>1, <2>2, <3>1, <3>2
  <2>5. QED
    BY <1>3, <2>3, <2>4 DEF LoopCovers
<1>6. QED
  BY <1>4, <1>5

\* A loop that is not at a message has nothing to cover.
LEMMA CoverAway ==
  ASSUME NEW l \in Loops, pc'[l] \notin {"replaying", "streaming"}
  PROVE  LoopCovers(l)'
  BY DEF LoopCovers

\* The invariant after a step, from its parts.
LEMMA Parts ==
  ASSUME LogsOK', MessagesOK', RestoreOK', OtherOK', PostingInv',
         SingleEvents', \A l \in Loops : LoopCovers(l)'
  PROVE  IInv'
<1>1. TypeOK'
  BY DEF TypeOK, LogsOK, MessagesOK, RestoreOK, OtherOK, Phases, Restores, Requests
<1>2. HistoryCovers' /\ StreamCovers'
  BY DEF LoopCovers, HistoryCovers, StreamCovers, InStream
<1>3. QED
  BY <1>1, <1>2 DEF IInv

LEMMA PartsOf ==
  ASSUME IInv
  PROVE  /\ LogsOK /\ MessagesOK /\ RestoreOK /\ OtherOK /\ PostingInv
         /\ SingleEvents /\ \A l \in Loops : LoopCovers(l)
         /\ \A s \in Sites : Latest(s) \in Nat
<1>1. TypeOK /\ HistoryCovers /\ StreamCovers
  BY DEF IInv
<1>2. LogsOK
  BY <1>1, TypeParts
<1>3. QED
  BY <1>1, <1>2, TypeParts, CoverParts DEF IInv, LogsOK, Latest

-----------------------------------------------------------------------------
(* The steps.                                                              *)

\* A step that writes an event.
LEMMA RunStep ==
  ASSUME IInv, NEW s \in Sites, Run(s), UNCHANGED <<removed, pc, reply, missed, closed, signal, connVars>>,
         RestoreOK', home' \in Sites \cup {"none"}, fence' \in Requests, PostingInv'
  PROVE  IInv'
<1>1. /\ LogsOK /\ MessagesOK /\ RestoreOK /\ OtherOK /\ PostingInv
      /\ SingleEvents /\ \A l \in Loops : LoopCovers(l)
  BY PartsOf
<1>2. /\ LogsOK' /\ SingleEvents' /\ faults' = faults
      /\ writes' \in 0..MaxEvents
      /\ queue' \in [Loops -> Seq(Messages)]
      /\ \A o \in Sites : o # s => log'[o] = log[o]
      /\ Latest(s)' = Latest(s) + 1 /\ Latest(s) \in Nat
      /\ \A l \in Loops : \A k \in Nat : InStream(l, k) => InStream(l, k)'
      /\ s = "workspace" => \A l \in Loops, k \in Nat :
                             Listening(l) /\ k = Latest(s) + 1 => InStream(l, k)'
  BY RunKeeps DEF IInv
<1>3. MessagesOK' /\ OtherOK'
  BY <1>1, <1>2 DEF MessagesOK, OtherOK, connVars
<1>4. ASSUME NEW l \in Loops
      PROVE  LoopCovers(l)'
  <2>1. Latest("control")' >= Latest("control") /\ Latest("workspace") \in Nat
    BY <1>1, <1>2 DEF Latest, Sites, LogsOK
  <2>2. ASSUME NEW k \in Nat, Latest("control")' < k, Latest("workspace") < k,
               k <= Latest("workspace")', Listening(l)
        PROVE  InStream(l, k)'
    <3>1. s = "workspace"
      BY <1>2, <2>1, <2>2 DEF Latest, Sites
    <3>2. k = Latest(s) + 1
      BY <1>2, <2>2, <3>1
    <3>3. QED
      BY <1>2, <2>2, <3>1, <3>2
  <2>3. QED
    BY <1>1, <1>2, <2>1, <2>2, CoverKept
<1>5. QED
  BY <1>2, <1>3, <1>4, Parts

\* A step whose write is torn.
LEMMA TornKeeps ==
  ASSUME TypeOK, NEW s \in Sites, TornRun(s)
  PROVE  /\ LogsOK' /\ UNCHANGED <<log, queue>>
         /\ proj'[s] = proj[s] \cup {writes + 1} /\ writes + 1 \in Events
         /\ \A o \in Sites : o # s => proj'[o] = proj[o]
         /\ writes' \in 0..MaxEvents /\ faults' = faults + 1 /\ faults' \in 0..MaxFaults
<1>1. LogsOK /\ OtherOK
  BY TypeParts
<1>2. writes + 1 \in Events /\ writes' \in 0..MaxEvents
  BY <1>1, SyncAssumption DEF TornRun, OtherOK, Events
<1>3. faults' = faults + 1 /\ faults' \in 0..MaxFaults
  BY <1>1, SyncAssumption DEF TornRun, Fault, OtherOK
<1>4. proj' = [proj EXCEPT ![s] = proj[s] \cup {writes + 1}] /\ UNCHANGED <<log, queue>>
  BY DEF TornRun
<1>5. proj[s] \cup {writes + 1} \in SUBSET Events
  BY <1>1, <1>2 DEF LogsOK
<1>6. LogsOK'
  BY <1>1, <1>4, <1>5 DEF LogsOK
<1>7. /\ proj'[s] = proj[s] \cup {writes + 1}
      /\ \A o \in Sites : o # s => proj'[o] = proj[o]
  BY <1>1, <1>4 DEF LogsOK
<1>8. QED
  BY <1>2, <1>3, <1>4, <1>6, <1>7

LEMMA TornStep ==
  ASSUME IInv, NEW s \in Sites, TornRun(s),
         UNCHANGED <<removed, pc, reply, missed, closed, signal, connVars>>,
         RestoreOK', home' \in Sites \cup {"none"}, fence' \in Requests, PostingInv'
  PROVE  IInv'
<1>1. /\ MessagesOK /\ OtherOK /\ SingleEvents /\ \A l \in Loops : LoopCovers(l)
  BY PartsOf
<1>2. /\ LogsOK' /\ UNCHANGED <<log, queue>> /\ writes' \in 0..MaxEvents
      /\ faults' \in 0..MaxFaults
  BY TornKeeps DEF IInv
<1>3. MessagesOK' /\ SingleEvents'
  BY <1>1, <1>2 DEF MessagesOK, SingleEvents
<1>4. OtherOK'
  BY <1>1, <1>2 DEF OtherOK, connVars
<1>5. \A l \in Loops : LoopCovers(l)'
  BY <1>1, <1>2 DEF LoopCovers, InStream, Latest, LastOf
<1>6. QED
  BY <1>2, <1>3, <1>4, <1>5, Parts

\* A step that leaves the logs alone and moves at most one loop.
LEMMA LoopMoves ==
  ASSUME IInv, NEW l \in Loops, UNCHANGED <<logVars, restore, removed>>,
         \A o \in Loops : o # l => /\ pc'[o] = pc[o] /\ reply'[o] = reply[o]
                                   /\ queue'[o] = queue[o] /\ missed'[o] = missed[o] /\ closed'[o] = closed[o],
         MessagesOK', OtherOK', SingleEvents', LoopCovers(l)'
  PROVE  IInv'
<1>1. /\ LogsOK /\ MessagesOK /\ RestoreOK /\ OtherOK /\ PostingInv
      /\ SingleEvents /\ \A o \in Loops : LoopCovers(o)
      /\ \A s \in Sites : Latest(s) \in Nat
  BY PartsOf
<1>2. LogsOK' /\ RestoreOK' /\ PostingInv'
  BY <1>1 DEF logVars, LogsOK, RestoreOK, PostingInv, Latest
<1>3. ASSUME NEW o \in Loops, o # l
      PROVE  LoopCovers(o)'
  <2>1. \A k \in Nat : InStream(o, k) => InStream(o, k)'
    BY <1>3 DEF InStream
  <2>2. Latest("control")' = Latest("control") /\ Latest("workspace")' = Latest("workspace")
    BY DEF Latest, logVars
  <2>3. Latest("control") \in Nat /\ Latest("workspace") \in Nat
    BY <1>1 DEF Sites
  <2>4. QED
    BY <1>1, <1>2, <1>3, <2>1, <2>2, <2>3, CoverKept
<1>4. QED
  BY <1>2, <1>3, Parts

LEMMA CreateKeeps ==
  ASSUME IInv, NEW s \in Sites, Create(s)
  PROVE  IInv'
<1>1. RestoreOK /\ OtherOK /\ PostingInv /\ LogsOK
  BY PartsOf
<1>2. RestoreOK' /\ home' \in Sites \cup {"none"} /\ fence' \in Requests
  BY <1>1 DEF Create, RestoreOK, OtherOK
<1>3. UNCHANGED <<restore, removed>>
  BY DEF Create
<1>4. CASE Run(s)
  <2>1. /\ \A o \in Sites : o # s => log'[o] = log[o]
        /\ Latest(s)' = Latest(s) + 1 /\ Latest(s) \in Nat
    BY <1>4, RunKeeps DEF IInv
  <2>2. Latest("control")' >= Latest("control") /\ Latest("control")' \in Nat /\ Latest("control") \in Nat
    BY <1>1, <2>1 DEF Latest, LogsOK, Sites
  <2>3. Len(restore.rows) \in Nat
    BY <1>1 DEF RestoreOK, Restores
  <2>4. PostingInv'
    BY <1>1, <1>3, <2>2, <2>3 DEF PostingInv
  <2>5. QED
    BY <1>2, <1>4, <2>4, RunStep DEF Create
<1>5. CASE TornRun(s)
  <2>1. PostingInv'
    BY <1>1, <1>3, <1>5 DEF PostingInv, TornRun, Latest
  <2>2. QED
    BY <1>2, <1>5, <2>1, TornStep DEF Create
<1>6. QED
  BY <1>4, <1>5 DEF Create

LEMMA UpdateKeeps ==
  ASSUME IInv, NEW s \in Sites, Update(s)
  PROVE  IInv'
<1>1. RestoreOK /\ OtherOK /\ PostingInv /\ LogsOK
  BY PartsOf
<1>2. RestoreOK' /\ home' \in Sites \cup {"none"} /\ fence' \in Requests
  BY <1>1 DEF Update, RestoreOK, OtherOK
<1>3. UNCHANGED <<restore, removed>>
  BY DEF Update
<1>4. CASE Run(s)
  <2>1. /\ \A o \in Sites : o # s => log'[o] = log[o]
        /\ Latest(s)' = Latest(s) + 1 /\ Latest(s) \in Nat
    BY <1>4, RunKeeps DEF IInv
  <2>2. Latest("control")' >= Latest("control") /\ Latest("control")' \in Nat /\ Latest("control") \in Nat
    BY <1>1, <2>1 DEF Latest, LogsOK, Sites
  <2>3. Len(restore.rows) \in Nat
    BY <1>1 DEF RestoreOK, Restores
  <2>4. PostingInv'
    BY <1>1, <1>3, <2>2, <2>3 DEF PostingInv
  <2>5. QED
    BY <1>2, <1>4, <2>4, RunStep DEF Update
<1>5. CASE TornRun(s)
  <2>1. PostingInv'
    BY <1>1, <1>3, <1>5 DEF PostingInv, TornRun, Latest
  <2>2. QED
    BY <1>2, <1>5, <2>1, TornStep DEF Update
<1>6. QED
  BY <1>4, <1>5 DEF Update

LEMMA ForwardKeeps ==
  ASSUME IInv, Forward
  PROVE  IInv'
<1>1. RestoreOK /\ OtherOK /\ PostingInv /\ LogsOK
  BY PartsOf
<1>2. "workspace" \in Sites /\ "control" \in Sites
  BY DEF Sites
<1>3. /\ \A o \in Sites : o # "workspace" => log'[o] = log[o]
      /\ Latest("workspace") \in Nat /\ writes' = writes + 1 /\ writes' \in 0..MaxEvents
  BY <1>2, RunKeeps DEF IInv, Forward
<1>4. RestoreOK' /\ home' \in Sites \cup {"none"}
  BY <1>1 DEF Forward, RestoreOK, OtherOK
<1>5. fence' \in Requests
  BY <1>3, SyncAssumption DEF Forward, Moved, Requests
<1>6. PostingInv'
  BY <1>1, <1>2, <1>3 DEF Forward, Moved, PostingInv, Latest
<1>7. QED
  BY <1>2, <1>4, <1>5, <1>6, RunStep DEF Forward

LEMMA RestoreStartKeeps ==
  ASSUME IInv, RestoreStart
  PROVE  IInv'
<1>1. RestoreOK /\ OtherOK /\ PostingInv /\ LogsOK
  BY PartsOf
<1>2. "workspace" \in Sites /\ "control" \in Sites
  BY DEF Sites
<1>3. home' \in Sites \cup {"none"} /\ fence' \in Requests /\ removed' = "no"
  BY <1>1, <1>2 DEF RestoreStart, OtherOK
<1>4. CASE Run("control") /\ restore' = [state |-> "posting", rows |-> log'["control"], sent |-> 0]
  <2>1. LogsOK' /\ Latest("control")' = Latest("control") + 1 /\ Latest("control") \in Nat
    BY <1>2, <1>4, RunKeeps DEF IInv
  <2>2. log'["control"] \in Seq(Events)
    BY <1>2, <2>1 DEF LogsOK
  <2>3. RestoreOK'
    BY <1>4, <2>2 DEF RestoreOK, Restores
  <2>4. PostingInv'
    <3>1. restore'.rows = log'["control"] /\ restore'.sent = 0
      BY <1>4
    <3>2. Len(log'["control"]) = Latest("control") + 1
      BY <2>1 DEF Latest
    <3>3. QED
      BY <1>3, <2>1, <3>1, <3>2 DEF PostingInv, Latest
  <2>5. QED
    BY <1>2, <1>3, <1>4, <2>3, <2>4, RunStep DEF RestoreStart
<1>5. CASE TornRun("control") /\ restore' = [NoRestore EXCEPT !.state = "failed"]
  <2>1. restore' = [state |-> "failed", rows |-> <<>>, sent |-> 0]
    BY <1>5 DEF NoRestore
  <2>2. RestoreOK' /\ PostingInv'
    BY <2>1 DEF RestoreOK, Restores, PostingInv
  <2>3. QED
    BY <1>2, <1>3, <1>5, <2>2, TornStep DEF RestoreStart
<1>6. QED
  BY <1>4, <1>5 DEF RestoreStart

\* A batch reaches the workspace, whatever becomes of the answer.
LEMMA BatchReplayed ==
  ASSUME IInv, restore.state = "posting", Tried("workspace", Batch),
         UNCHANGED <<removed, pc, reply, queue, missed>>,
         \A l \in Loops : ~ closed'[l] => ~ closed[l]
  PROVE  /\ LogsOK' /\ log'["control"] = log["control"]
         /\ \A l \in Loops : LoopCovers(l)'
<1>1. /\ LogsOK /\ MessagesOK /\ RestoreOK /\ PostingInv
      /\ \A o \in Loops : LoopCovers(o)
      /\ \A s \in Sites : Latest(s) \in Nat
  BY PartsOf
<1>2. "workspace" \in Sites /\ "control" \in Sites /\ "workspace" # "control"
  BY DEF Sites
<1>3. Batch \in Messages /\ LastOf(Batch) \in Nat /\ LastOf(Batch) <= Len(restore.rows)
  BY <1>1, BatchIsNext DEF PostingInv
<1>4. LastOf(Batch) <= Latest("control")
  <2>1. Len(restore.rows) \in Nat
    BY <1>1 DEF RestoreOK, Restores
  <2>2. QED
    BY <1>1, <1>2, <1>3, <2>1 DEF PostingInv
<1>5. /\ LogsOK' /\ log'["control"] = log["control"]
      /\ Latest("workspace")' \in Nat
      /\ Latest("workspace")' = Latest("workspace") \/ Latest("workspace")' <= LastOf(Batch)
  BY <1>1, <1>2, <1>3, TriedKeeps
<1>6. ASSUME NEW l \in Loops
      PROVE  LoopCovers(l)'
  <2>1. \A k \in Nat : InStream(l, k) => InStream(l, k)'
    BY DEF InStream
  <2>2. Latest("control")' = Latest("control")
    BY <1>5 DEF Latest
  <2>3. \A k \in Nat : ~ (Latest("control")' < k /\ Latest("workspace") < k /\ k <= Latest("workspace")')
    BY <1>1, <1>2, <1>3, <1>4, <1>5, <2>2
  <2>4. QED
    BY <1>1, <1>2, <1>5, <2>1, <2>2, <2>3, CoverKept
<1>7. QED
  BY <1>5, <1>6

LEMMA RestoreBatchKeeps ==
  ASSUME IInv, RestoreBatch
  PROVE  IInv'
<1>1. MessagesOK /\ RestoreOK /\ OtherOK /\ PostingInv /\ SingleEvents
  BY PartsOf
<1>2. /\ LogsOK' /\ log'["control"] = log["control"]
      /\ \A l \in Loops : LoopCovers(l)'
  BY BatchReplayed DEF RestoreBatch, loopVars, Tried
<1>3. LastOf(Batch) \in Nat /\ LastOf(Batch) <= Len(restore.rows) /\ restore.state = "posting"
  BY <1>1, BatchIsNext DEF PostingInv, RestoreBatch
<1>4. restore' = [state |-> IF LastOf(Batch) = Len(restore.rows) THEN "done" ELSE "posting",
                  rows |-> restore.rows, sent |-> LastOf(Batch)]
  BY <1>1, <1>3 DEF RestoreBatch, RestoreOK, Restores
<1>5. RestoreOK'
  BY <1>1, <1>3, <1>4 DEF RestoreOK, Restores
<1>6. PostingInv'
  <2>1. restore'.rows = restore.rows /\ restore'.sent = LastOf(Batch) /\ removed' = removed
        /\ (restore'.state = "posting" => LastOf(Batch) # Len(restore.rows))
    BY <1>4 DEF RestoreBatch
  <2>2. Len(restore.rows) \in Nat
    BY <1>1 DEF RestoreOK, Restores
  <2>3. QED
    BY <1>1, <1>2, <1>3, <2>1, <2>2 DEF PostingInv, Latest
<1>7. MessagesOK' /\ OtherOK' /\ SingleEvents'
  BY <1>1 DEF RestoreBatch, loopVars, connVars, MessagesOK, OtherOK, SingleEvents
<1>8. QED
  BY <1>2, <1>5, <1>6, <1>7, Parts

LEMMA RestoreFailsKeeps ==
  ASSUME IInv, RestoreFails
  PROVE  IInv'
<1>1. MessagesOK /\ RestoreOK /\ OtherOK /\ PostingInv /\ SingleEvents
  BY PartsOf
<1>2. /\ LogsOK'
      /\ \A l \in Loops : LoopCovers(l)'
  BY BatchReplayed DEF RestoreFails, loopVars, Tried
<1>3. restore' = [state |-> "failed", rows |-> <<>>, sent |-> 0]
  BY DEF RestoreFails, NoRestore
<1>7. RestoreOK' /\ PostingInv'
  BY <1>3 DEF RestoreOK, Restores, PostingInv
<1>4. faults' \in 0..MaxFaults
  BY <1>1, SyncAssumption DEF RestoreFails, Fault, OtherOK
<1>5. MessagesOK' /\ OtherOK' /\ SingleEvents'
  BY <1>1, <1>4 DEF RestoreFails, loopVars, connVars, MessagesOK, OtherOK, SingleEvents
<1>6. QED
  BY <1>2, <1>5, <1>7, Parts

LEMMA StartSyncKeeps ==
  ASSUME IInv, NEW l \in Loops, StartSync(l)
  PROVE  IInv'
<1>1. MessagesOK /\ OtherOK /\ SingleEvents
  BY PartsOf
<1>2. OtherOK'
  BY <1>1, SyncAssumption DEF StartSync, Go, OtherOK, Phases, siteVars
<1>3. MessagesOK' /\ SingleEvents'
  BY <1>1 DEF StartSync, MessagesOK, SingleEvents
<1>4. pc'[l] \notin {"replaying", "streaming"}
  BY <1>1 DEF StartSync, Go, OtherOK
<1>5. LoopCovers(l)'
  BY <1>4, CoverAway
<1>6. \A o \in Loops : o # l => /\ pc'[o] = pc[o] /\ reply'[o] = reply[o]
                                /\ queue'[o] = queue[o] /\ missed'[o] = missed[o] /\ closed'[o] = closed[o]
  BY <1>1 DEF StartSync, Go, OtherOK, MessagesOK
<1>7. UNCHANGED <<logVars, restore, removed>>
  BY DEF StartSync, siteVars
<1>8. QED
  BY <1>2, <1>3, <1>5, <1>6, <1>7, LoopMoves

LEMMA LoopTopKeeps ==
  ASSUME IInv, NEW l \in Loops, LoopTop(l)
  PROVE  IInv'
<1>1. MessagesOK /\ OtherOK /\ SingleEvents
  BY PartsOf
<1>2. OtherOK'
  BY <1>1, SyncAssumption DEF LoopTop, Go, OtherOK, Phases, connVars, SetStatus, siteVars
<1>3. MessagesOK' /\ SingleEvents'
  BY <1>1 DEF LoopTop, MessagesOK, SingleEvents
<1>4. pc'[l] \notin {"replaying", "streaming"}
  BY <1>1 DEF LoopTop, Go, OtherOK
<1>5. LoopCovers(l)'
  BY <1>4, CoverAway
<1>6. \A o \in Loops : o # l => /\ pc'[o] = pc[o] /\ reply'[o] = reply[o]
                                /\ queue'[o] = queue[o] /\ missed'[o] = missed[o] /\ closed'[o] = closed[o]
  BY <1>1 DEF LoopTop, Go, OtherOK, MessagesOK
<1>7. UNCHANGED <<logVars, restore, removed>>
  BY DEF LoopTop, siteVars
<1>8. QED
  BY <1>2, <1>3, <1>5, <1>6, <1>7, LoopMoves

LEMMA WakeKeeps ==
  ASSUME IInv, NEW l \in Loops, Wake(l)
  PROVE  IInv'
<1>1. MessagesOK /\ OtherOK /\ SingleEvents
  BY PartsOf
<1>2. OtherOK'
  BY <1>1, SyncAssumption DEF Wake, Go, OtherOK, Phases, connVars, siteVars
<1>3. MessagesOK' /\ SingleEvents'
  BY <1>1 DEF Wake, MessagesOK, SingleEvents
<1>4. pc'[l] \notin {"replaying", "streaming"}
  BY <1>1 DEF Wake, Go, OtherOK
<1>5. LoopCovers(l)'
  BY <1>4, CoverAway
<1>6. \A o \in Loops : o # l => /\ pc'[o] = pc[o] /\ reply'[o] = reply[o]
                                /\ queue'[o] = queue[o] /\ missed'[o] = missed[o] /\ closed'[o] = closed[o]
  BY <1>1 DEF Wake, Go, OtherOK, MessagesOK
<1>7. UNCHANGED <<logVars, restore, removed>>
  BY DEF Wake, siteVars
<1>8. QED
  BY <1>2, <1>3, <1>5, <1>6, <1>7, LoopMoves

LEMMA ConnectSSEKeeps ==
  ASSUME IInv, NEW l \in Loops, ConnectSSE(l)
  PROVE  IInv'
<1>1. MessagesOK /\ OtherOK /\ SingleEvents
  BY PartsOf
<1>2. OtherOK'
  BY <1>1, SyncAssumption DEF ConnectSSE, Go, OtherOK, Phases, connVars, siteVars
<1>3. MessagesOK' /\ SingleEvents'
  <2>1. NoMessage \in Messages /\ <<>> \in Seq(Messages) /\ Len(<<>>) = 0
    BY DEF NoMessage, Message, Messages
  <2>2. MessagesOK'
    BY <1>1, <2>1 DEF ConnectSSE, MessagesOK
  <2>3. ASSUME NEW o \in Loops, NEW i \in 1..Len(queue'[o])
        PROVE  Len(queue'[o][i].events) = 1
    <3>1. queue'[o] = queue[o] \/ queue'[o] = <<>>
      BY <1>1 DEF ConnectSSE, MessagesOK
    <3>2. QED
      BY <1>1, <2>3, <3>1 DEF SingleEvents
  <2>4. QED
    BY <2>2, <2>3 DEF SingleEvents
<1>4. pc'[l] \notin {"replaying", "streaming"}
  BY <1>1 DEF ConnectSSE, Go, OtherOK
<1>5. LoopCovers(l)'
  BY <1>4, CoverAway
<1>6. \A o \in Loops : o # l => /\ pc'[o] = pc[o] /\ reply'[o] = reply[o]
                                /\ queue'[o] = queue[o] /\ missed'[o] = missed[o] /\ closed'[o] = closed[o]
  BY <1>1 DEF ConnectSSE, Go, OtherOK, MessagesOK
<1>7. UNCHANGED <<logVars, restore, removed>>
  BY DEF ConnectSSE, siteVars
<1>8. QED
  BY <1>2, <1>3, <1>5, <1>6, <1>7, LoopMoves

LEMMA StreamEndsKeeps ==
  ASSUME IInv, NEW l \in Loops, StreamEnds(l)
  PROVE  IInv'
<1>1. MessagesOK /\ OtherOK /\ SingleEvents
  BY PartsOf
<1>2. OtherOK'
  BY <1>1, SyncAssumption DEF StreamEnds, Go, OtherOK, Phases, SetStatus, siteVars, Fault
<1>3. MessagesOK' /\ SingleEvents'
  <2>1. NoMessage \in Messages /\ <<>> \in Seq(Messages) /\ Len(<<>>) = 0
    BY DEF NoMessage, Message, Messages
  <2>2. MessagesOK'
    BY <1>1, <2>1 DEF StreamEnds, MessagesOK
  <2>3. ASSUME NEW o \in Loops, NEW i \in 1..Len(queue'[o])
        PROVE  Len(queue'[o][i].events) = 1
    <3>1. queue'[o] = queue[o] \/ queue'[o] = <<>>
      BY <1>1 DEF StreamEnds, MessagesOK
    <3>2. QED
      BY <1>1, <2>3, <3>1 DEF SingleEvents
  <2>4. QED
    BY <2>2, <2>3 DEF SingleEvents
<1>4. pc'[l] \notin {"replaying", "streaming"}
  BY <1>1 DEF StreamEnds, Go, OtherOK
<1>5. LoopCovers(l)'
  BY <1>4, CoverAway
<1>6. \A o \in Loops : o # l => /\ pc'[o] = pc[o] /\ reply'[o] = reply[o]
                                /\ queue'[o] = queue[o] /\ missed'[o] = missed[o] /\ closed'[o] = closed[o]
  BY <1>1 DEF StreamEnds, Go, OtherOK, MessagesOK
<1>7. UNCHANGED <<logVars, restore, removed>>
  BY DEF StreamEnds, siteVars
<1>8. QED
  BY <1>2, <1>3, <1>5, <1>6, <1>7, LoopMoves

LEMMA FetchHistoryKeeps ==
  ASSUME IInv, NEW l \in Loops, FetchHistory(l)
  PROVE  IInv'
<1>1. /\ MessagesOK /\ OtherOK /\ SingleEvents /\ LogsOK
      /\ \A s \in Sites : Latest(s) \in Nat
  BY PartsOf
<1>2. "workspace" \in Sites /\ "control" \in Sites
  BY DEF Sites
<1> DEFINE c == Latest("control")
           w == Latest("workspace")
<1>3. c \in Nat /\ w \in Nat
  BY <1>1, <1>2
<1>4. PICK known \in {0, c} :
        reply' = [reply EXCEPT ![l] = Message(known + 1, SubSeq(log["workspace"], known + 1, w))]
  BY DEF FetchHistory, History
<1> DEFINE es == SubSeq(log["workspace"], known + 1, w)
           lo == known + 1
<1>5. lo \in Nat /\ lo >= 1 /\ lo <= c + 1 /\ (lo = 1 \/ lo = c + 1)
  BY <1>3
<1>6. es \in Seq(Events) /\ Len(es) = IF lo <= w THEN w - lo + 1 ELSE 0
  <2>1. log["workspace"] \in Seq(Events) /\ w = Len(log["workspace"])
    BY <1>1, <1>2 DEF LogsOK, Latest
  <2>2. \A i \in lo..w : log["workspace"][i] \in Events
    <3>1. \A i \in lo..w : i \in 1..Len(log["workspace"])
      BY <1>3, <1>5, <2>1
    <3>2. QED
      BY <2>1, <3>1
  <2>3. es = SubSeq(log["workspace"], lo, w) /\ lo \in Int /\ w \in Int
    BY <1>3, <1>5
  <2> HIDE DEF es, lo, w
  <2>4. QED
    BY <2>2, <2>3, SubSeqProperties
<1>7. reply'[l] = [from |-> lo, events |-> es] /\ reply' = [reply EXCEPT ![l] = [from |-> lo, events |-> es]]
  BY <1>1, <1>4 DEF MessagesOK, Message
<1> HIDE DEF es, lo, c, w
<1>8. MessagesOK' /\ SingleEvents'
  <2>1. [from |-> lo, events |-> es] \in Messages
    BY <1>5, <1>6 DEF Messages
  <2>2. queue' = queue
    BY DEF FetchHistory, History
  <2>3. QED
    BY <1>1, <1>7, <2>1, <2>2 DEF MessagesOK, SingleEvents
<1>9. OtherOK'
  BY <1>1 DEF FetchHistory, Go, OtherOK, Phases, connVars, siteVars
<1>10. LoopCovers(l)'
  <2>1. pc'[l] = "replaying"
    BY <1>1 DEF FetchHistory, Go, OtherOK
  <2>2. Latest("control")' = c /\ Latest("workspace")' = w
    BY DEF FetchHistory, siteVars, logVars, Latest, c, w
  <2>3. reply'[l].from = lo /\ LastOf(reply[l])' = lo + Len(es) - 1
    BY <1>7 DEF LastOf
  <2>4. \A k \in c + 1..w : k <= lo + Len(es) - 1
    BY <1>3, <1>5, <1>6
  <2>5. lo <= c + 1
    BY <1>5
  <2>6. QED
    BY <2>1, <2>2, <2>3, <2>4, <2>5 DEF LoopCovers
<1>11. \A o \in Loops : o # l => /\ pc'[o] = pc[o] /\ reply'[o] = reply[o]
                                 /\ queue'[o] = queue[o] /\ missed'[o] = missed[o] /\ closed'[o] = closed[o]
  BY <1>1, <1>7 DEF FetchHistory, Go, OtherOK, MessagesOK
<1>12. UNCHANGED <<logVars, restore, removed>>
  BY DEF FetchHistory, siteVars
<1>13. QED
  BY <1>8, <1>9, <1>10, <1>11, <1>12, LoopMoves

\* A step that replays a message on the control server.
LEMMA ControlReplays ==
  ASSUME IInv, NEW l \in Loops, NEW m \in Messages,
         Tried("control", m),
         UNCHANGED <<restore, removed>>,
         \A o \in Loops : o # l => /\ pc'[o] = pc[o] /\ reply'[o] = reply[o]
                                   /\ queue'[o] = queue[o] /\ missed'[o] = missed[o] /\ closed'[o] = closed[o],
         MessagesOK', OtherOK', SingleEvents', LoopCovers(l)'
  PROVE  IInv'
<1>1. /\ LogsOK /\ MessagesOK /\ RestoreOK /\ PostingInv
      /\ \A o \in Loops : LoopCovers(o)
      /\ \A s \in Sites : Latest(s) \in Nat
  BY PartsOf
<1>2. "workspace" \in Sites /\ "control" \in Sites /\ "workspace" # "control"
  BY DEF Sites
<1>3. /\ LogsOK' /\ log'["workspace"] = log["workspace"]
      /\ Latest("control")' \in Nat /\ Latest("control")' >= Latest("control")
  BY <1>1, <1>2, TriedKeeps
<1>4. RestoreOK' /\ PostingInv'
  <2>1. Len(restore.rows) \in Nat /\ Latest("control") \in Nat
    BY <1>1, <1>2 DEF RestoreOK, Restores
  <2>2. RestoreOK'
    BY <1>1 DEF RestoreOK
  <2>3. PostingInv'
    BY <1>1, <1>3, <2>1 DEF PostingInv
  <2>4. QED
    BY <2>2, <2>3
<1>5. ASSUME NEW o \in Loops, o # l
      PROVE  LoopCovers(o)'
  <2>1. \A k \in Nat : InStream(o, k) => InStream(o, k)'
    BY <1>5 DEF InStream
  <2>2. Latest("workspace")' = Latest("workspace") /\ Latest("workspace") \in Nat
    BY <1>1, <1>2, <1>3 DEF Latest
  <2>3. QED
    BY <1>1, <1>3, <1>5, <2>1, <2>2, CoverKept
<1>6. QED
  BY <1>3, <1>4, <1>5, Parts

LEMMA SyncFailsKeeps ==
  ASSUME IInv, NEW l \in Loops, SyncFails(l)
  PROVE  IInv'
<1>1. MessagesOK /\ OtherOK /\ SingleEvents
  BY PartsOf
<1>2. OtherOK'
  BY <1>1, SyncAssumption DEF SyncFails, Go, OtherOK, Phases, SetStatus, Fault
<1>3. MessagesOK' /\ SingleEvents'
  <2>1. NoMessage \in Messages /\ <<>> \in Seq(Messages) /\ Len(<<>>) = 0
    BY DEF NoMessage, Message, Messages
  <2>2. MessagesOK'
    BY <1>1, <2>1 DEF SyncFails, MessagesOK
  <2>3. ASSUME NEW o \in Loops, NEW i \in 1..Len(queue'[o])
        PROVE  Len(queue'[o][i].events) = 1
    <3>1. queue'[o] = queue[o] \/ queue'[o] = <<>>
      BY <1>1 DEF SyncFails, MessagesOK
    <3>2. QED
      BY <1>1, <2>3, <3>1 DEF SingleEvents
  <2>4. QED
    BY <2>2, <2>3 DEF SingleEvents
<1>4. pc'[l] \notin {"replaying", "streaming"}
  BY <1>1 DEF SyncFails, Go, OtherOK
<1>5. LoopCovers(l)'
  BY <1>4, CoverAway
<1>6. \A o \in Loops : o # l => /\ pc'[o] = pc[o] /\ reply'[o] = reply[o]
                                /\ queue'[o] = queue[o] /\ missed'[o] = missed[o] /\ closed'[o] = closed[o]
  BY <1>1 DEF SyncFails, Go, OtherOK, MessagesOK
<1>7. reply[l] \in Messages /\ Tried("control", reply[l]) /\ UNCHANGED <<restore, removed>>
  BY <1>1 DEF SyncFails, MessagesOK, Tried
<1>8. QED
  BY <1>2, <1>3, <1>5, <1>6, <1>7, ControlReplays

LEMMA ReplayHistoryKeeps ==
  ASSUME IInv, NEW l \in Loops, ReplayHistory(l)
  PROVE  IInv'
<1>1. /\ MessagesOK /\ OtherOK /\ SingleEvents /\ LogsOK /\ LoopCovers(l)
      /\ \A s \in Sites : Latest(s) \in Nat
  BY PartsOf
<1>2. "workspace" \in Sites /\ "control" \in Sites /\ "workspace" # "control"
  BY DEF Sites
<1>3. reply[l] \in Messages /\ Replay("control", reply[l])
  BY <1>1 DEF MessagesOK, ReplayHistory
<1>4. OtherOK'
  BY <1>1 DEF ReplayHistory, Go, OtherOK, Phases, SetStatus
<1>5. MessagesOK' /\ SingleEvents'
  <2>1. NoMessage \in Messages
    BY DEF NoMessage, Message, Messages
  <2>2. QED
    BY <1>1, <2>1 DEF ReplayHistory, MessagesOK, SingleEvents
<1>6. \A o \in Loops : o # l => /\ pc'[o] = pc[o] /\ reply'[o] = reply[o]
                                /\ queue'[o] = queue[o] /\ missed'[o] = missed[o] /\ closed'[o] = closed[o]
  BY <1>1 DEF ReplayHistory, Go, OtherOK, MessagesOK
<1>7. LoopCovers(l)'
  <2>1. SUFFICES ASSUME removed = "no", ~ closed[l],
                        NEW k \in Latest("control")' + 1..Latest("workspace")'
                 PROVE  InStream(l, k)'
    BY <1>1 DEF LoopCovers, ReplayHistory, Go, OtherOK
  <2>2. /\ log'["workspace"] = log["workspace"]
        /\ Latest("control")' \in Nat /\ Latest("control")' >= Latest("control")
        /\ Stale("control", reply[l]) => UNCHANGED logVars
        /\ ~ Stale("control", reply[l]) => Latest("control")' = LastOf(reply[l])
    BY <1>1, <1>2, <1>3, ReplayKeeps
  <2>3. k \in Latest("control") + 1..Latest("workspace") /\ k \in Nat /\ k > Latest("control")'
    <3>1. Latest("workspace")' = Latest("workspace")
      BY <2>2 DEF Latest
    <3>2. QED
      BY <1>1, <1>2, <2>2, <3>1
  <2>4. /\ reply[l].from <= Latest("control") + 1
        /\ k <= LastOf(reply[l]) \/ InStream(l, k)
    BY <1>1, <2>1, <2>3 DEF LoopCovers, ReplayHistory
  <2>5. ~ (k <= LastOf(reply[l]))
    <3>1. reply[l].from \in Nat /\ Len(reply[l].events) \in Nat
      BY <1>3 DEF Messages
    <3>2. LastOf(reply[l]) = reply[l].from + Len(reply[l].events) - 1
      BY DEF LastOf
    <3>3. Stale("control", reply[l]) => LastOf(reply[l]) <= Latest("control")
      <4>1. CASE reply[l].events = <<>>
        BY <1>1, <1>2, <2>4, <3>1, <3>2, <4>1
      <4>2. CASE LastOf(reply[l]) <= Latest("control")
        BY <4>2
      <4>3. QED
        BY <4>1, <4>2 DEF Stale
    <3>4. LastOf(reply[l]) <= Latest("control")'
      BY <1>1, <1>2, <2>2, <3>1, <3>2, <3>3
    <3>5. LastOf(reply[l]) \in Int
      BY <3>1, <3>2
    <3>6. QED
      BY <2>2, <2>3, <3>4, <3>5
  <2>6. QED
    BY <2>4, <2>5 DEF InStream, ReplayHistory
<1>8. QED
  BY <1>3, <1>4, <1>5, <1>6, <1>7, ControlReplays DEF ReplayHistory, Tried

LEMMA StreamEventKeeps ==
  ASSUME IInv, NEW l \in Loops, StreamEvent(l)
  PROVE  IInv'
<1>1. /\ MessagesOK /\ OtherOK /\ SingleEvents /\ LogsOK /\ LoopCovers(l)
      /\ \A s \in Sites : Latest(s) \in Nat
  BY PartsOf
<1>2. "workspace" \in Sites /\ "control" \in Sites /\ "workspace" # "control"
  BY DEF Sites
<1> DEFINE q == queue[l]
           m == Head(q)
<1>3. q \in Seq(Messages) /\ q # <<>> /\ Len(q) \in Nat /\ Len(q) >= 1
  BY <1>1 DEF MessagesOK, StreamEvent
<1>4. /\ m \in Messages /\ m = q[1] /\ Tail(q) \in Seq(Messages) /\ Len(Tail(q)) = Len(q) - 1
      /\ \A i \in 1..Len(q) - 1 : Tail(q)[i] = q[i + 1]
  BY <1>3
<1>5. queue' = [queue EXCEPT ![l] = Tail(q)] /\ queue'[l] = Tail(q)
  BY <1>1 DEF StreamEvent, MessagesOK
<1>6. Tried("control", m)
  BY DEF StreamEvent, Tried
<1> HIDE DEF m, q
<1>7. OtherOK'
  <2>1. missed' = missed \/ missed' = [missed EXCEPT ![l] = TRUE]
    BY DEF StreamEvent
  <2>2. missed' \in [Loops -> BOOLEAN]
    BY <1>1, <2>1 DEF OtherOK
  <2>3. faults' \in 0..MaxFaults
    BY <1>1, SyncAssumption DEF StreamEvent, OtherOK, Fault
  <2>4. UNCHANGED <<writes, home, removed, pc, closed, signal, connVars, fence>>
    BY DEF StreamEvent
  <2>5. QED
    BY <1>1, <2>2, <2>3, <2>4 DEF OtherOK, connVars
<1>8. MessagesOK'
  BY <1>1, <1>4, <1>5 DEF StreamEvent, MessagesOK
<1>9. SingleEvents'
  <2>1. SUFFICES ASSUME NEW o \in Loops, NEW i \in 1..Len(queue'[o])
                 PROVE  Len(queue'[o][i].events) = 1
    BY DEF SingleEvents
  <2>2. CASE o # l
    BY <1>1, <1>5, <2>1, <2>2 DEF SingleEvents, MessagesOK
  <2>3. CASE o = l
    <3>1. i \in 1..Len(q) - 1 /\ queue'[o][i] = q[i + 1] /\ i + 1 \in 1..Len(q)
      BY <1>3, <1>4, <1>5, <2>1, <2>3
    <3>2. QED
      BY <1>1, <3>1 DEF SingleEvents, q
  <2>4. QED
    BY <2>2, <2>3
<1>10. \A o \in Loops : o # l => /\ pc'[o] = pc[o] /\ reply'[o] = reply[o]
                                 /\ queue'[o] = queue[o] /\ missed'[o] = missed[o] /\ closed'[o] = closed[o]
  BY <1>1, <1>5 DEF StreamEvent, OtherOK, MessagesOK
<1>11. LoopCovers(l)'
  <2>1. pc'[l] = "streaming" /\ pc[l] = "streaming" /\ removed' = removed /\ closed' = closed
    BY DEF StreamEvent
  <2>2. SUFFICES ASSUME removed = "no", ~ missed'[l], ~ closed[l],
                        NEW k \in Latest("control")' + 1..Latest("workspace")'
                 PROVE  InStream(l, k)'
    BY <2>1 DEF LoopCovers
  <2>3. Replay("control", m) /\ ~ missed[l]
    BY <1>1, <2>2 DEF StreamEvent, OtherOK, m, q
  <2>4. /\ log'["workspace"] = log["workspace"]
        /\ Latest("control")' \in Nat /\ Latest("control")' >= Latest("control")
        /\ Stale("control", m) => UNCHANGED logVars
        /\ ~ Stale("control", m) => Latest("control")' = LastOf(m)
    BY <1>1, <1>2, <1>4, <2>3, ReplayKeeps
  <2>5. k \in Latest("control") + 1..Latest("workspace") /\ k \in Nat /\ k > Latest("control")'
    <3>1. Latest("workspace")' = Latest("workspace")
      BY <2>4 DEF Latest
    <3>2. QED
      BY <1>1, <1>2, <2>4, <3>1
  <2>6. PICK i \in 1..Len(q) : q[i].from = k
    BY <1>1, <2>1, <2>2, <2>3, <2>5 DEF LoopCovers, InStream, q
  <2>7. i # 1
    <3>1. m.from \in Nat /\ Len(m.events) = 1 /\ m.events # <<>>
      <4>1. Len(q[1].events) = 1
        BY <1>1, <1>3 DEF SingleEvents, q
      <4>2. m.from \in Nat /\ Len(m.events) = 1
        BY <1>4, <4>1 DEF Messages
      <4>3. Len(<<>>) = 0
        OBVIOUS
      <4>4. m.events # <<>>
        <5>1. m.events = <<>> => 1 = 0
          BY <4>2, <4>3, Zenon
        <5>2. QED
          BY <5>1
      <4>5. QED
        BY <4>2, <4>4
    <3>2. LastOf(m) = m.from
      BY <3>1 DEF LastOf
    <3>3. LastOf(m) <= Latest("control")'
      BY <1>1, <1>2, <2>4, <3>1, <3>2 DEF Stale
    <3>4. QED
      BY <1>4, <2>4, <2>5, <2>6, <3>2, <3>3
  <2>8. i - 1 \in 1..Len(queue'[l]) /\ queue'[l][i - 1] = q[i]
    <3>1. i - 1 \in 1..Len(q) - 1 /\ (i - 1) + 1 = i
      BY <1>3, <2>6, <2>7
    <3>2. QED
      BY <1>4, <1>5, <3>1
  <2>9. QED
    BY <2>6, <2>8 DEF InStream
<1>12. UNCHANGED <<restore, removed>>
  BY DEF StreamEvent
<1>13. QED
  BY <1>4, <1>6, <1>7, <1>8, <1>9, <1>10, <1>11, <1>12, ControlReplays

LEMMA RemoveSessionsKeeps ==
  ASSUME IInv, RemoveSessions
  PROVE  IInv'
<1>1. LogsOK /\ MessagesOK /\ RestoreOK /\ OtherOK /\ SingleEvents
  BY PartsOf
<1>2. "control" \in Sites
  BY DEF Sites
<1>3. <<>> \in Seq(Events) /\ Len(<<>>) = 0
  OBVIOUS
<1>4. /\ log' = [log EXCEPT !["control"] = <<>>]
      /\ proj' = [proj EXCEPT !["control"] = {}]
  BY DEF RemoveSessions
<1>5. LogsOK'
  BY <1>1, <1>3, <1>4 DEF LogsOK
<1>7. RestoreOK' /\ PostingInv' /\ MessagesOK' /\ OtherOK' /\ SingleEvents'
  BY <1>1 DEF RemoveSessions, RestoreOK, PostingInv, MessagesOK, OtherOK, SingleEvents,
              loopVars, connVars
<1>8. \A l \in Loops : LoopCovers(l)'
  BY DEF RemoveSessions, LoopCovers
<1>9. QED
  BY <1>5, <1>7, <1>8, Parts

LEMMA StopSyncKeeps ==
  ASSUME IInv, StopSync
  PROVE  IInv'
<1>1. LogsOK /\ MessagesOK /\ RestoreOK /\ OtherOK /\ SingleEvents /\ PostingInv
  BY PartsOf
<1>2. LogsOK' /\ RestoreOK' /\ MessagesOK' /\ SingleEvents' /\ PostingInv'
  BY <1>1 DEF StopSync, RestoreOK, PostingInv, MessagesOK, LogsOK, SingleEvents, siteVars,
              logVars, Latest
<1>3. OtherOK'
  <2>1. signal' \in [Loops -> BOOLEAN]
    BY <1>1 DEF StopSync, OtherOK
  <2>2. QED
    BY <1>1, <2>1 DEF StopSync, OtherOK, siteVars
<1>4. \A l \in Loops : LoopCovers(l)'
  BY DEF StopSync, LoopCovers
<1>5. QED
  BY <1>2, <1>3, <1>4, Parts

\* What a loop has at hand is a message.
LEMMA ReplayingMessage ==
  ASSUME MessagesOK, NEW l \in Loops
  PROVE  Replaying(l) \in Messages
<1>1. queue[l] # <<>> => Head(queue[l]) \in Messages
  BY DEF MessagesOK
<1>2. QED
  BY <1>1 DEF Replaying, MessagesOK

\* A restore that was posting has failed.
LEMMA AbandonedKeeps ==
  ASSUME IInv, restore' = Abandoned, removed' = removed, restore.state # "posting" => PostingInv'
  PROVE  RestoreOK' /\ PostingInv'
<1>1. RestoreOK
  BY PartsOf
<1>2. CASE restore.state = "posting"
  <2>1. restore' = [state |-> "failed", rows |-> <<>>, sent |-> 0]
    BY <1>2 DEF Abandoned, NoRestore
  <2>2. QED
    BY <2>1 DEF RestoreOK, Restores, PostingInv
<1>3. CASE restore.state # "posting"
  BY <1>1, <1>3 DEF Abandoned, RestoreOK
<1>4. QED
  BY <1>2, <1>3

LEMMA CrashKeeps ==
  ASSUME IInv, Crash
  PROVE  IInv'
<1>1. LogsOK /\ MessagesOK /\ RestoreOK /\ OtherOK
  BY PartsOf
<1>2. LogsOK'
  <2>1. CASE UNCHANGED logVars
    BY <1>1, <2>1 DEF logVars, LogsOK
  <2>2. CASE \E l \in Loops : CutOff("control", Replaying(l))
    <3>1. PICK l \in Loops : CutOff("control", Replaying(l))
      BY <2>2
    <3>2. Replaying(l) \in Messages /\ "control" \in Sites
      BY <1>1, ReplayingMessage DEF Sites
    <3>3. QED
      BY <1>1, <3>1, <3>2, TriedKeeps DEF Tried
  <2>3. QED
    BY <2>1, <2>2 DEF Crash
<1>3. RestoreOK' /\ PostingInv'
  <2>1. restore.state # "posting" => PostingInv'
    BY DEF Crash, Abandoned, PostingInv
  <2>2. QED
    BY <2>1, AbandonedKeeps DEF Crash
<1>4. MessagesOK' /\ SingleEvents'
  <2>1. NoMessage \in Messages /\ <<>> \in Seq(Messages) /\ Len(<<>>) = 0
    BY DEF NoMessage, Message, Messages
  <2>2. \A l \in Loops : queue'[l] = <<>>
    BY DEF Crash
  <2>3. QED
    BY <2>1, <2>2 DEF Crash, MessagesOK, SingleEvents
<1>5. OtherOK'
  <2>1. faults' \in 0..MaxFaults
    BY <1>1, SyncAssumption DEF Crash, Fault, OtherOK
  <2>2. fence' \in Requests
    BY DEF Crash, NoRequest, Requests
  <2>3. pc' \in [Loops -> Phases]
    BY DEF Crash, Phases
  <2>4. closed' \in [Loops -> BOOLEAN]
    BY DEF Crash
  <2>5. QED
    BY <1>1, <2>1, <2>2, <2>3, <2>4 DEF Crash, OtherOK
<1>6. \A l \in Loops : LoopCovers(l)'
  BY CoverAway DEF Crash
<1>7. QED
  BY <1>2, <1>3, <1>4, <1>5, <1>6, Parts

LEMMA WorkspaceCrashKeeps ==
  ASSUME IInv, WorkspaceCrash
  PROVE  IInv'
<1>1. /\ LogsOK /\ MessagesOK /\ OtherOK /\ SingleEvents /\ PostingInv
      /\ \A l \in Loops : LoopCovers(l)
  BY PartsOf
<1>2. closed' \in [Loops -> BOOLEAN] /\ \A l \in Loops : ~ closed'[l] => ~ closed[l]
  <2>1. closed' = [l \in Loops |-> closed[l] \/ Connected(l)]
    BY DEF WorkspaceCrash
  <2>2. QED
    BY <2>1 DEF OtherOK
<1>3. LogsOK' /\ \A l \in Loops : LoopCovers(l)'
  <2>1. CASE restore.state = "posting"
    BY <1>2, <2>1, BatchReplayed DEF WorkspaceCrash, Tried
  <2>2. CASE restore.state # "posting"
    <3>1. UNCHANGED <<log, proj, removed, pc, reply, queue, missed>>
      BY <2>2 DEF WorkspaceCrash, logVars
    <3>2. LogsOK'
      BY <1>1, <3>1 DEF LogsOK
    <3>3. \A l \in Loops : LoopCovers(l)'
      BY <1>1, <1>2, <3>1 DEF LoopCovers, InStream, Latest, LastOf
    <3>4. QED
      BY <3>2, <3>3
  <2>3. QED
    BY <2>1, <2>2
<1>4. RestoreOK' /\ PostingInv'
  <2>1. restore.state # "posting" => PostingInv'
    BY DEF WorkspaceCrash, Abandoned, PostingInv
  <2>2. QED
    BY <2>1, AbandonedKeeps DEF WorkspaceCrash
<1>5. MessagesOK' /\ SingleEvents'
  BY <1>1 DEF WorkspaceCrash, MessagesOK, SingleEvents
<1>6. faults' \in 0..MaxFaults
  BY <1>1, SyncAssumption DEF WorkspaceCrash, Fault, OtherOK
<1>7. OtherOK'
  BY <1>1, <1>2, <1>6 DEF WorkspaceCrash, OtherOK, connVars
<1>8. QED
  BY <1>3, <1>4, <1>5, <1>7, Parts

\* Steps that only the fence notices.
LEMMA FenceKeeps ==
  ASSUME IInv, UNCHANGED <<siteVars, restore, removed, loopVars, connVars, faults>>,
         fence' \in Requests
  PROVE  IInv'
<1>1. /\ LogsOK /\ MessagesOK /\ RestoreOK /\ OtherOK /\ PostingInv
      /\ SingleEvents /\ \A l \in Loops : LoopCovers(l)
  BY PartsOf
<1> USE DEF siteVars, logVars, loopVars, connVars
<1>2. LogsOK' /\ MessagesOK' /\ RestoreOK' /\ OtherOK'
  BY <1>1 DEF LogsOK, MessagesOK, RestoreOK, OtherOK
<1>3. PostingInv' /\ SingleEvents'
  BY <1>1 DEF PostingInv, SingleEvents, Latest
<1>4. \A l \in Loops : LoopCovers(l)'
  BY <1>1 DEF LoopCovers, InStream, Latest, LastOf
<1>5. QED
  BY <1>2, <1>3, <1>4, Parts

-----------------------------------------------------------------------------
(* Every setting.                                                          *)

LEMMA InitIInv ==
  ASSUME Init
  PROVE  IInv
<1>1. NoMessage \in Messages /\ <<>> \in Seq(Messages) /\ Len(<<>>) = 0 /\ <<>> \in Seq(Events)
  BY DEF NoMessage, Message, Messages
<1>2. LogsOK /\ MessagesOK
  BY <1>1 DEF Init, LogsOK, MessagesOK
<1>3. RestoreOK /\ PostingInv
  BY <1>1 DEF Init, NoRestore, RestoreOK, Restores, PostingInv
<1>4. OtherOK
  BY SyncAssumption DEF Init, OtherOK, Phases, NoRequest, Requests
<1>5. SingleEvents
  <2>1. \A l \in Loops : queue[l] = <<>>
    BY DEF Init
  <2>2. QED
    BY <1>1, <2>1 DEF SingleEvents
<1>6. HistoryCovers /\ StreamCovers
  BY DEF Init, HistoryCovers, StreamCovers
<1>7. QED
  BY <1>2, <1>3, <1>4, <1>5, <1>6, TypeParts DEF IInv

LEMMA StepIInv ==
  ASSUME IInv, [Next]_vars
  PROVE  IInv'
<1>1. OtherOK
  BY PartsOf
<1>2. ASSUME NEW l \in Loops, LoopStep(l)
      PROVE  IInv'
  BY <1>2, LoopTopKeeps, ConnectSSEKeeps, FetchHistoryKeeps, ReplayHistoryKeeps, SyncFailsKeeps,
     StreamEventKeeps, StreamEndsKeeps, WakeKeeps DEF LoopStep
<1>3. ASSUME FenceOpens \/ FenceTimeout \/ UNCHANGED vars
      PROVE  IInv'
  <2>1. UNCHANGED <<siteVars, restore, removed, loopVars, connVars, faults>>
    BY <1>3 DEF FenceOpens, FenceTimeout, vars
  <2>2. fence' \in Requests
    BY <1>1, <1>3 DEF FenceOpens, FenceTimeout, vars, NoRequest, OtherOK, Requests
  <2>3. QED
    BY <2>1, <2>2, FenceKeeps
<1>4. QED
  BY <1>2, <1>3, CreateKeeps, UpdateKeeps, RestoreStartKeeps, RestoreBatchKeeps,
     RestoreFailsKeeps, StartSyncKeeps, ForwardKeeps, RemoveSessionsKeeps, StopSyncKeeps,
     CrashKeeps, WorkspaceCrashKeeps DEF Next

LEMMA Invariance == Spec => []IInv
<1>1. Init => IInv
  BY InitIInv
<1>2. IInv /\ [Next]_vars => IInv'
  BY StepIInv
<1>3. QED
  BY <1>1, <1>2, PTL DEF Spec

\* Every reachable state of session sync is well typed.
THEOREM TypeCorrect == Spec => []TypeOK
<1>1. IInv => TypeOK
  BY DEF IInv
<1>2. QED
  BY <1>1, Invariance, PTL

\* syncWorkspaceLoop connects the stream before it fetches the history: while
\* it streams and no replay failed, no event of the workspace falls between.
THEOREM StreamsCover == Spec => []StreamCovers
<1>1. IInv => StreamCovers
  BY DEF IInv
<1>2. QED
  BY <1>1, Invariance, PTL

-----------------------------------------------------------------------------
(* The two commits of process().                                           *)

\* The events a site has logged, after a message was stored up to place n.
LEMMA LoggedStored ==
  ASSUME LogsOK, NEW s \in Sites, NEW m \in Messages, m.from <= Latest(s) + 1,
         NEW n \in Nat, Latest(s) <= n, n <= LastOf(m),
         log'[s] = Extended(s, m, n), Latest(s)' = n
  PROVE  Logged(s)' = Logged(s) \cup New(s, m, n)
<1>1. Latest(s) \in Nat
  BY DEF LogsOK, Latest
<1>2. \A k \in 1..n : log'[s][k] =
        IF k <= Latest(s) THEN log[s][k] ELSE m.events[k - m.from + 1]
  BY ExtendedLog
<1>3. Logged(s)' = {log'[s][k] : k \in 1..n}
  BY DEF Logged
<1>4. ASSUME NEW k \in 1..n
      PROVE  log'[s][k] \in Logged(s) \cup New(s, m, n)
  <2>1. CASE k <= Latest(s)
    <3>1. k \in 1..Latest(s) /\ log'[s][k] = log[s][k]
      BY <1>1, <1>2, <2>1
    <3>2. QED
      BY <3>1 DEF Logged
  <2>2. CASE ~ (k <= Latest(s))
    <3>1. k \in Latest(s) + 1..n /\ log'[s][k] = m.events[k - m.from + 1]
      BY <1>1, <1>2, <2>2
    <3>2. QED
      BY <3>1 DEF New
  <2>3. QED
    BY <2>1, <2>2
<1>5. ASSUME NEW k \in 1..Latest(s)
      PROVE  log[s][k] \in Logged(s)'
  <2>1. k \in 1..n /\ log'[s][k] = log[s][k]
    BY <1>1, <1>2
  <2>2. QED
    BY <1>3, <2>1
<1>6. ASSUME NEW k \in Latest(s) + 1..n
      PROVE  m.events[k - m.from + 1] \in Logged(s)'
  <2>1. k \in 1..n /\ log'[s][k] = m.events[k - m.from + 1]
    BY <1>1, <1>2
  <2>2. QED
    BY <1>3, <2>1
<1>7. QED
  BY <1>3, <1>4, <1>5, <1>6 DEF Logged, New

\* A step at one site that projects what it logs, and leaves no more events
\* ahead of the log than before, or one more and that by a fault.
LEMMA AheadStep ==
  ASSUME LogsOK, LogsOK', CrashConsistent, faults \in Nat, faults' \in Nat, NEW s \in Sites,
         \A o \in Sites : o # s => log'[o] = log[o] /\ proj'[o] = proj[o],
         Logged(s)' \subseteq proj'[s],
         \/ Ahead(s)' \subseteq Ahead(s) /\ faults <= faults'
         \/ faults' = faults + 1 /\ \E e : Ahead(s)' \subseteq Ahead(s) \cup {e}
  PROVE  CrashConsistent'
<1>1. \A o \in Sites : o # s => Logged(o)' = Logged(o) /\ Ahead(o)' = Ahead(o)
  BY DEF Logged, Ahead, Latest
<1>2. \A o \in Sites : Logged(o)' \subseteq proj'[o]
  BY <1>1 DEF CrashConsistent
<1>3. IsFiniteSet(Events)
  <2>1. 1 \in Int /\ MaxEvents \in Int
    BY SyncAssumption
  <2>2. IsFiniteSet(1..MaxEvents)
    BY <2>1, FS_Interval
  <2>3. QED
    BY <2>2 DEF Events
<1>4. \A o \in Sites : IsFiniteSet(Ahead(o)) /\ Cardinality(Ahead(o)) \in Nat
  <2>1. \A o \in Sites : Ahead(o) \subseteq Events
    BY DEF Ahead, LogsOK
  <2>2. QED
    BY <1>3, <2>1, FS_Subset, FS_CardinalityType
<1>5. \A o \in Sites : IsFiniteSet(Ahead(o)') /\ Cardinality(Ahead(o)') \in Nat
  <2>1. \A o \in Sites : Ahead(o)' \subseteq Events
    BY DEF Ahead, LogsOK
  <2>2. QED
    BY <1>3, <2>1, FS_Subset, FS_CardinalityType
<1>6. \/ Cardinality(Ahead(s)') <= Cardinality(Ahead(s)) /\ faults <= faults'
      \/ Cardinality(Ahead(s)') <= Cardinality(Ahead(s)) + 1 /\ faults' = faults + 1
  <2>1. CASE Ahead(s)' \subseteq Ahead(s) /\ faults <= faults'
    BY <1>4, <2>1, FS_Subset
  <2>2. ASSUME NEW e, Ahead(s)' \subseteq Ahead(s) \cup {e}, faults' = faults + 1
        PROVE  Cardinality(Ahead(s)') <= Cardinality(Ahead(s)) + 1
    <3> DEFINE a == Ahead(s)
    <3>0. IsFiniteSet(a) /\ Cardinality(a) \in Nat
      BY <1>4
    <3> HIDE DEF a
    <3>4. /\ IsFiniteSet(a \cup {e})
          /\ Cardinality(a \cup {e}) = IF e \in a THEN Cardinality(a) ELSE Cardinality(a) + 1
      BY <3>0, FS_AddElement
    <3>1. /\ IsFiniteSet(Ahead(s) \cup {e})
          /\ Cardinality(Ahead(s) \cup {e}) <= Cardinality(Ahead(s)) + 1
          /\ Cardinality(Ahead(s) \cup {e}) \in Nat
      BY <3>0, <3>4 DEF a
    <3>2. Cardinality(Ahead(s)') <= Cardinality(Ahead(s) \cup {e})
      BY <2>2, <3>1, FS_Subset
    <3>3. QED
      BY <1>4, <1>5, <3>1, <3>2
  <2>3. QED
    BY <2>1, <2>2
<1>7. Cardinality(Ahead("control")') + Cardinality(Ahead("workspace")') <= faults'
  <2>1. Cardinality(Ahead("control")) + Cardinality(Ahead("workspace")) <= faults
    BY DEF CrashConsistent
  <2>2. "control" \in Sites /\ "workspace" \in Sites /\ "control" # "workspace"
    BY DEF Sites
  <2>3. CASE s = "control"
    <3>1. Cardinality(Ahead("workspace")') = Cardinality(Ahead("workspace"))
      BY <1>1, <2>2, <2>3
    <3> DEFINE c1 == Cardinality(Ahead("control"))
               c2 == Cardinality(Ahead("control")')
               w == Cardinality(Ahead("workspace"))
    <3>2. c1 \in Nat /\ c2 \in Nat /\ w \in Nat /\ c1 + w <= faults
      BY <1>4, <1>5, <2>1, <2>2
    <3>3. (c2 <= c1 /\ faults <= faults') \/ (c2 <= c1 + 1 /\ faults' = faults + 1)
      BY <1>6, <2>3
    <3> HIDE DEF c1, c2, w
    <3>4. c2 + w <= faults'
      BY <3>2, <3>3
    <3>5. QED
      BY <3>1, <3>4 DEF c2, w
  <2>4. CASE s = "workspace"
    <3>1. Cardinality(Ahead("control")') = Cardinality(Ahead("control"))
      BY <1>1, <2>2, <2>4
    <3> DEFINE c == Cardinality(Ahead("control"))
               w1 == Cardinality(Ahead("workspace"))
               w2 == Cardinality(Ahead("workspace")')
    <3>2. c \in Nat /\ w1 \in Nat /\ w2 \in Nat /\ c + w1 <= faults
      BY <1>4, <1>5, <2>1, <2>2
    <3>3. (w2 <= w1 /\ faults <= faults') \/ (w2 <= w1 + 1 /\ faults' = faults + 1)
      BY <1>6, <2>4
    <3> HIDE DEF c, w1, w2
    <3>4. c + w2 <= faults'
      BY <3>2, <3>3
    <3>5. QED
      BY <3>1, <3>4 DEF c, w2
  <2>5. QED
    BY <2>3, <2>4 DEF Sites
<1>8. QED
  BY <1>2, <1>7 DEF CrashConsistent

\* What IInv says of the faults.
LEMMA FaultsCount ==
  ASSUME IInv
  PROVE  faults \in Nat
  BY PartsOf, SyncAssumption DEF OtherOK

LEMMA LogsAlone ==
  ASSUME IInv, IInv', CrashConsistent, UNCHANGED logVars, faults <= faults'
  PROVE  CrashConsistent'
<1>1. LogsOK /\ LogsOK' /\ faults \in Nat /\ faults' \in Nat
  <2>1. TypeOK'
    BY DEF IInv
  <2>2. LogsOK' /\ faults' \in Nat
    BY <2>1, SyncAssumption DEF TypeOK, LogsOK
  <2>3. QED
    BY <2>2, PartsOf, FaultsCount
<1>2. \A o \in Sites : Logged(o)' = Logged(o) /\ Ahead(o)' = Ahead(o) /\ proj'[o] = proj[o]
                       /\ log'[o] = log[o]
  BY DEF logVars, Logged, Ahead, Latest
<1>3. "control" \in Sites
  BY DEF Sites
<1>4. Logged("control")' \subseteq proj'["control"] /\ Ahead("control")' \subseteq Ahead("control")
  BY <1>2, <1>3 DEF CrashConsistent
<1>5. QED
  BY <1>1, <1>2, <1>3, <1>4, AheadStep

\* A message that is replayed, refused or cut off.
LEMMA TriedConsistent ==
  ASSUME IInv, IInv', CrashConsistent, NEW s \in Sites, NEW m \in Messages,
         \/ (Replay(s, m) \/ Refused(s, m) \/ UNCHANGED logVars) /\ faults <= faults'
         \/ CutOff(s, m) /\ faults' = faults + 1
  PROVE  CrashConsistent'
<1>1. LogsOK /\ LogsOK' /\ faults \in Nat /\ faults' \in Nat
  <2>1. TypeOK'
    BY DEF IInv
  <2>2. LogsOK' /\ faults' \in Nat
    BY <2>1, SyncAssumption DEF TypeOK, LogsOK
  <2>3. QED
    BY <2>2, PartsOf, FaultsCount
<1>2. Latest(s) \in Nat
  BY <1>1 DEF LogsOK, Latest
<1>3. faults <= faults'
  BY <1>1
<1>4. CASE UNCHANGED logVars
  BY <1>3, <1>4, LogsAlone
<1>5. ASSUME m.from <= Latest(s) + 1, NEW n \in Nat, NEW t \in Nat,
             Latest(s) <= n, n <= LastOf(m), t <= LastOf(m), Stored(s, m, n, t),
             t = n \/ (t = n + 1 /\ faults' = faults + 1)
      PROVE  CrashConsistent'
  <2>1. /\ Latest(s)' = n
        /\ log'[s] = Extended(s, m, n) /\ proj'[s] = proj[s] \cup New(s, m, t)
        /\ \A o \in Sites : o # s => log'[o] = log[o] /\ proj'[o] = proj[o]
    BY <1>1, <1>5, StoredKeeps
  <2>2. Logged(s)' = Logged(s) \cup New(s, m, n)
    BY <1>1, <1>5, <2>1, LoggedStored
  <2>3. Logged(s) \subseteq proj[s]
    BY DEF CrashConsistent
  <2>4. New(s, m, n) \subseteq New(s, m, t)
    <3>1. \A k \in Latest(s) + 1..n : k \in Latest(s) + 1..t
      BY <1>2, <1>5
    <3>2. QED
      BY <3>1 DEF New
  <2>5. Logged(s)' \subseteq proj'[s]
    BY <2>1, <2>2, <2>3, <2>4
  <2>6. Ahead(s)' = proj'[s] \ Logged(s)'
    BY DEF Ahead
  <2>7. CASE t = n
    <3>1. Ahead(s)' \subseteq Ahead(s)
      BY <2>1, <2>2, <2>6, <2>7 DEF Ahead
    <3>2. QED
      BY <1>1, <1>3, <2>1, <2>5, <3>1, AheadStep
  <2>8. CASE t = n + 1 /\ faults' = faults + 1
    <3> DEFINE e == m.events[t - m.from + 1]
    <3>1. New(s, m, t) \subseteq New(s, m, n) \cup {e}
      <4>1. \A k \in Latest(s) + 1..t : k \in Latest(s) + 1..n \/ k = t
        BY <1>2, <1>5, <2>8
      <4>2. QED
        BY <4>1 DEF New
    <3> HIDE DEF e
    <3>2. Ahead(s)' \subseteq Ahead(s) \cup {e}
      BY <2>1, <2>2, <2>6, <3>1 DEF Ahead
    <3>3. QED
      BY <1>1, <2>1, <2>5, <2>8, <3>2, AheadStep
  <2>9. QED
    BY <1>5, <2>7, <2>8
<1>6. CASE Replay(s, m) \/ Refused(s, m)
  <2>1. CASE UNCHANGED logVars
    BY <1>4, <2>1
  <2>2. ASSUME m.from <= Latest(s) + 1, NEW n \in Nat, Latest(s) <= n, n <= LastOf(m),
               Stored(s, m, n, n)
        PROVE  CrashConsistent'
    BY <1>5, <2>2
  <2>3. QED
    BY <1>1, <1>6, <2>1, <2>2, WholeStores
<1>7. CASE CutOff(s, m) /\ faults' = faults + 1
  <2>1. CASE UNCHANGED logVars
    BY <1>4, <2>1
  <2>2. ASSUME m.from <= Latest(s) + 1, NEW n \in Nat, NEW t \in Nat, Latest(s) <= n,
               n <= LastOf(m), t <= LastOf(m), t = n \/ t = n + 1, Stored(s, m, n, t)
        PROVE  CrashConsistent'
    BY <1>5, <1>7, <2>2
  <2>3. Tried(s, m)
    BY <1>7 DEF Tried
  <2>4. QED
    BY <1>1, <2>1, <2>2, <2>3, TriedStores
<1>8. QED
  BY <1>4, <1>6, <1>7

\* A write, whole or torn.
LEMMA RunConsistent ==
  ASSUME IInv, IInv', CrashConsistent, NEW s \in Sites, Run(s) \/ TornRun(s)
  PROVE  CrashConsistent'
<1>1. LogsOK /\ LogsOK' /\ faults \in Nat /\ faults' \in Nat
  <2>1. TypeOK'
    BY DEF IInv
  <2>2. LogsOK' /\ faults' \in Nat
    BY <2>1, SyncAssumption DEF TypeOK, LogsOK
  <2>3. QED
    BY <2>2, PartsOf, FaultsCount
<1>2. log[s] \in Seq(Events) /\ Latest(s) \in Nat /\ Logged(s) \subseteq proj[s]
  BY <1>1 DEF LogsOK, Latest, CrashConsistent
<1>3. CASE Run(s)
  <2>1. /\ log' = [log EXCEPT ![s] = Append(log[s], writes + 1)]
        /\ proj' = [proj EXCEPT ![s] = proj[s] \cup {writes + 1}] /\ faults' = faults
    BY <1>3 DEF Run
  <2>2. /\ log'[s] = Append(log[s], writes + 1) /\ proj'[s] = proj[s] \cup {writes + 1}
        /\ \A o \in Sites : o # s => log'[o] = log[o] /\ proj'[o] = proj[o]
    BY <1>1, <2>1 DEF LogsOK
  <2>3. /\ Latest(s)' = Latest(s) + 1 /\ log'[s][Latest(s) + 1] = writes + 1
        /\ \A k \in 1..Latest(s) : log'[s][k] = log[s][k]
    BY <1>2, <2>2 DEF Latest
  <2>4. Logged(s)' = Logged(s) \cup {writes + 1}
    <3>1. Logged(s)' = {log'[s][k] : k \in 1..Latest(s) + 1}
      BY <2>3 DEF Logged
    <3>2. \A k \in 1..Latest(s) + 1 : k \in 1..Latest(s) \/ k = Latest(s) + 1
      BY <1>2
    <3>3. Latest(s) + 1 \in 1..Latest(s) + 1 /\ \A k \in 1..Latest(s) : k \in 1..Latest(s) + 1
      BY <1>2
    <3>4. QED
      BY <2>3, <3>1, <3>2, <3>3 DEF Logged
  <2>5. Logged(s)' \subseteq proj'[s] /\ Ahead(s)' \subseteq Ahead(s)
    BY <1>2, <2>2, <2>4 DEF Ahead
  <2>6. QED
    BY <1>1, <2>1, <2>2, <2>5, AheadStep
<1>4. CASE TornRun(s)
  <2>1. /\ UNCHANGED log /\ proj'[s] = proj[s] \cup {writes + 1} /\ faults' = faults + 1
        /\ \A o \in Sites : o # s => proj'[o] = proj[o]
    BY <1>4, TornKeeps DEF IInv
  <2>2. Logged(s)' = Logged(s)
    BY <2>1 DEF Logged, Latest
  <2>3. Logged(s)' \subseteq proj'[s] /\ Ahead(s)' \subseteq Ahead(s) \cup {writes + 1}
    BY <1>2, <2>1, <2>2 DEF Ahead
  <2>4. QED
    BY <1>1, <2>1, <2>3, AheadStep
<1>5. QED
  BY <1>3, <1>4

LEMMA RemoveConsistent ==
  ASSUME IInv, IInv', CrashConsistent, RemoveSessions
  PROVE  CrashConsistent'
<1>1. LogsOK /\ LogsOK' /\ faults \in Nat /\ faults' = faults
  <2>1. TypeOK'
    BY DEF IInv
  <2>2. LogsOK'
    BY <2>1 DEF TypeOK, LogsOK
  <2>3. QED
    BY <2>2, PartsOf, FaultsCount DEF RemoveSessions
<1>2. "control" \in Sites
  BY DEF Sites
<1>3. /\ log'["control"] = <<>> /\ proj'["control"] = {}
      /\ \A o \in Sites : o # "control" => log'[o] = log[o] /\ proj'[o] = proj[o]
  BY <1>1, <1>2 DEF RemoveSessions, LogsOK
<1>4. Logged("control")' = {}
  <2>1. Latest("control")' = 0
    BY <1>3 DEF Latest
  <2>2. QED
    BY <2>1 DEF Logged
<1>5. Ahead("control")' \subseteq Ahead("control")
  BY <1>3 DEF Ahead
<1>6. QED
  BY <1>1, <1>2, <1>3, <1>4, <1>5, AheadStep

\* The loops.
LEMMA LoopConsistent ==
  ASSUME IInv, IInv', CrashConsistent, NEW l \in Loops, StartSync(l) \/ LoopStep(l)
  PROVE  CrashConsistent'
<1>1. MessagesOK /\ faults \in Nat /\ "control" \in Sites
  BY PartsOf, FaultsCount DEF Sites
<1>2. reply[l] \in Messages /\ (queue[l] # <<>> => Head(queue[l]) \in Messages)
  BY <1>1 DEF MessagesOK
<1>3. CASE ReplayHistory(l)
  BY <1>1, <1>2, <1>3, TriedConsistent DEF ReplayHistory
<1>4. CASE SyncFails(l)
  BY <1>1, <1>2, <1>4, TriedConsistent DEF SyncFails, Fault
<1>5. CASE StreamEvent(l)
  BY <1>1, <1>2, <1>5, TriedConsistent DEF StreamEvent, Fault
<1>6. CASE \/ StartSync(l) \/ LoopTop(l) \/ ConnectSSE(l) \/ FetchHistory(l)
           \/ StreamEnds(l) \/ Wake(l)
  <2>1. UNCHANGED logVars
    BY <1>6 DEF StartSync, LoopTop, ConnectSSE, FetchHistory, StreamEnds, Wake, siteVars
  <2>2. faults <= faults'
    BY <1>1, <1>6 DEF StartSync, LoopTop, ConnectSSE, FetchHistory, StreamEnds, Wake, Fault
  <2>3. QED
    BY <2>1, <2>2, LogsAlone
<1>7. QED
  BY <1>3, <1>4, <1>5, <1>6 DEF LoopStep

LEMMA CrashesConsistent ==
  ASSUME IInv, IInv', CrashConsistent, Crash \/ WorkspaceCrash
  PROVE  CrashConsistent'
<1>1. MessagesOK /\ RestoreOK /\ PostingInv /\ faults \in Nat
  BY PartsOf, FaultsCount
<1>2. faults' = faults + 1 /\ faults <= faults'
  BY <1>1 DEF Crash, WorkspaceCrash, Fault
<1>3. CASE UNCHANGED logVars
  BY <1>2, <1>3, LogsAlone
<1>4. ASSUME NEW l \in Loops, CutOff("control", Replaying(l))
      PROVE  CrashConsistent'
  <2>1. Replaying(l) \in Messages /\ "control" \in Sites
    BY <1>1, ReplayingMessage DEF Sites
  <2>2. QED
    BY <1>2, <1>4, <2>1, TriedConsistent
<1>5. ASSUME restore.state = "posting", CutOff("workspace", Batch)
      PROVE  CrashConsistent'
  <2>1. Batch \in Messages /\ "workspace" \in Sites
    BY <1>1, <1>5, BatchIsNext DEF PostingInv, Sites
  <2>2. QED
    BY <1>2, <1>5, <2>1, TriedConsistent
<1>6. QED
  BY <1>3, <1>4, <1>5 DEF Crash, WorkspaceCrash

LEMMA StepConsistent ==
  ASSUME IInv, IInv', CrashConsistent, [Next]_vars
  PROVE  CrashConsistent'
<1>1. RestoreOK /\ PostingInv /\ faults \in Nat
  BY PartsOf, FaultsCount
<1>2. "workspace" \in Sites /\ "control" \in Sites
  BY DEF Sites
<1>3. ASSUME RestoreBatch \/ RestoreFails
      PROVE  CrashConsistent'
  <2>1. Batch \in Messages
    BY <1>1, <1>3, BatchIsNext DEF PostingInv, RestoreBatch, RestoreFails
  <2>2. QED
    BY <1>1, <1>2, <1>3, <2>1, TriedConsistent DEF RestoreBatch, RestoreFails, Fault
<1>4. ASSUME NEW s \in Sites, Create(s) \/ Update(s)
      PROVE  CrashConsistent'
  BY <1>4, RunConsistent DEF Create, Update
<1>5. ASSUME RestoreStart \/ Forward
      PROVE  CrashConsistent'
  BY <1>2, <1>5, RunConsistent DEF RestoreStart, Forward
<1>6. ASSUME StopSync \/ FenceOpens \/ FenceTimeout \/ UNCHANGED vars
      PROVE  CrashConsistent'
  <2>1. UNCHANGED logVars /\ faults <= faults'
    BY <1>1, <1>6 DEF StopSync, FenceOpens, FenceTimeout, vars, siteVars
  <2>2. QED
    BY <2>1, LogsAlone
<1>7. QED
  BY <1>3, <1>4, <1>5, <1>6, LoopConsistent, RemoveConsistent, CrashesConsistent DEF Next

LEMMA InitConsistent ==
  ASSUME Init
  PROVE  CrashConsistent
<1>1. \A s \in Sites : log[s] = <<>> /\ proj[s] = {}
  BY DEF Init
<1>2. \A s \in Sites : Logged(s) = {} /\ Ahead(s) = {}
  <2>1. \A s \in Sites : Latest(s) = 0
    BY <1>1 DEF Latest
  <2>2. QED
    BY <1>1, <2>1 DEF Logged, Ahead
<1>3. Cardinality(Ahead("control")) = 0 /\ Cardinality(Ahead("workspace")) = 0
  <2>1. Ahead("control") = {} /\ Ahead("workspace") = {}
    BY <1>2 DEF Sites
  <2>2. QED
    BY <2>1, FS_EmptySet
<1>4. QED
  BY <1>2, <1>3 DEF Init, CrashConsistent

\* process() at either site, in run() and in replay(): however often a process
\* dies or a commit fails between the two transactions, and whoever writes, no
\* event is logged whose projection is lost, and the faults bound the events
\* that are projected and not logged.
THEOREM CrashesTearOneWay == Spec => []CrashConsistent
<1>1. Init => CrashConsistent
  BY InitConsistent
<1>2. IInv /\ IInv' /\ CrashConsistent /\ [Next]_vars => CrashConsistent'
  BY StepConsistent
<1>3. QED
  BY <1>1, <1>2, Invariance, PTL DEF Spec

-----------------------------------------------------------------------------
(* One writer at a time.                                                   *)

IsPrefixOf(s, t) == Len(s) <= Len(t) /\ \A k \in 1..Len(s) : s[k] = t[k]

\* The control server has the longer log until the restore is through.
ControlLeads ==
  home = "control" \/ (restore.state \in {"posting", "failed"} /\ removed = "no")

Leads ==
  /\ home = "none" => C = <<>> /\ W = <<>>
  /\ IF ControlLeads THEN IsPrefixOf(W, C) ELSE IsPrefixOf(C, W)

RestoreInv ==
  /\ home # "workspace" => restore.state = "idle" /\ removed = "no"
  /\ restore.state = "posting" => restore.rows = C /\ restore.sent <= Latest("workspace")
  /\ restore.state = "done" => IsPrefixOf(restore.rows, W)

\* A message has events of the workspace's log.
Genuine(m) ==
  m.events # <<>> =>
    /\ LastOf(m) <= Latest("workspace")
    /\ \A j \in 1..Len(m.events) : m.events[j] = W[m.from + j - 1]

MessagesInv ==
  \A l \in Loops : Genuine(reply[l]) /\ \A i \in 1..Len(queue[l]) : Genuine(queue[l][i])

\* The event of the request that waits is at its place in the workspace.
FenceInv ==
  fence.state = "waiting" =>
    fence.at \in 1..Latest("workspace") /\ W[fence.at] = fence.event

\* The inductive invariant under one writer at a time.
SInv == Leads /\ RestoreInv /\ MessagesInv /\ FenceInv

LEMMA SingleWriterParts ==
  ASSUME IInv
  PROVE  /\ C \in Seq(Events) /\ W \in Seq(Events) /\ Len(C) \in Nat /\ Len(W) \in Nat
         /\ Latest("control") = Len(C) /\ Latest("workspace") = Len(W)
         /\ "workspace" \in Sites /\ "control" \in Sites /\ "workspace" # "control"
         /\ \A o \in Sites : o = "control" \/ o = "workspace"
<1>1. LogsOK
  BY PartsOf
<1>2. C \in Seq(Events) /\ W \in Seq(Events)
  BY <1>1 DEF LogsOK, Sites, C, W
<1>3. QED
  BY <1>2 DEF Sites, Latest, C, W

\* What is known of the workspace's log stays true while it grows.
LEMMA WorkspaceGrows ==
  ASSUME IInv, IInv', IsPrefixOf(W, W')
  PROVE  /\ \A m \in Messages : Genuine(m) => Genuine(m)'
         /\ \A r \in Seq(Events) : IsPrefixOf(r, W) => IsPrefixOf(r, W')
         /\ FenceInv /\ UNCHANGED fence => FenceInv'
<1>1. Len(W) \in Nat /\ Latest("workspace") = Len(W)
  BY SingleWriterParts
<1>2. Len(W') \in Nat /\ Latest("workspace")' = Len(W')
  <2>1. TypeOK'
    BY DEF IInv
  <2>2. QED
    BY <2>1 DEF TypeOK, Sites, W, Latest
<1>3. ASSUME NEW m \in Messages, Genuine(m)
      PROVE  Genuine(m)'
  <2>1. SUFFICES ASSUME m.events # <<>>
                 PROVE  /\ LastOf(m) <= Len(W')
                        /\ \A j \in 1..Len(m.events) : m.events[j] = W'[m.from + j - 1]
    BY <1>2 DEF Genuine
  <2>2. m.from \in Nat /\ m.from >= 1 /\ Len(m.events) \in Nat
    BY DEF Messages
  <2>3. /\ LastOf(m) <= Len(W) /\ LastOf(m) = m.from + Len(m.events) - 1
        /\ \A j \in 1..Len(m.events) : m.events[j] = W[m.from + j - 1]
    BY <1>1, <1>3, <2>1 DEF Genuine, LastOf
  <2>4. \A j \in 1..Len(m.events) : m.from + j - 1 \in 1..Len(W)
    BY <1>1, <2>2, <2>3
  <2>5. \A j \in 1..Len(m.events) : m.events[j] = W'[m.from + j - 1]
    BY <2>3, <2>4 DEF IsPrefixOf
  <2>6. LastOf(m) <= Len(W')
    BY <1>1, <1>2, <2>2, <2>3 DEF IsPrefixOf
  <2>7. QED
    BY <2>5, <2>6
<1>4. ASSUME NEW r \in Seq(Events), IsPrefixOf(r, W)
      PROVE  IsPrefixOf(r, W')
  <2>1. Len(r) \in Nat /\ Len(r) <= Len(W) /\ Len(W) <= Len(W')
    BY <1>4 DEF IsPrefixOf
  <2>2. \A k \in 1..Len(r) : k \in 1..Len(W)
    BY <1>1, <2>1
  <2>3. QED
    BY <1>1, <1>2, <1>4, <2>1, <2>2 DEF IsPrefixOf
<1>5. FenceInv /\ UNCHANGED fence => FenceInv'
  <2>1. SUFFICES ASSUME fence.at \in 1..Len(W), W[fence.at] = fence.event
                 PROVE  fence.at \in 1..Len(W') /\ W'[fence.at] = fence.event
    BY <1>1, <1>2 DEF FenceInv
  <2>2. QED
    BY <1>1, <1>2, <2>1 DEF IsPrefixOf
<1>6. QED
  BY <1>3, <1>4, <1>5

LEMMA PrefixOfItself ==
  ASSUME NEW t \in Seq(Events)
  PROVE  IsPrefixOf(t, t) /\ IsPrefixOf(<<>>, t)
<1>1. Len(t) \in Nat /\ Len(<<>>) = 0
  OBVIOUS
<1>2. IsPrefixOf(t, t)
  BY <1>1 DEF IsPrefixOf
<1>3. IsPrefixOf(<<>>, t)
  BY <1>1 DEF IsPrefixOf
<1>4. QED
  BY <1>2, <1>3

LEMMA PrefixOfAppend ==
  ASSUME NEW r \in Seq(Events), NEW t \in Seq(Events), IsPrefixOf(r, t), NEW e \in Events
  PROVE  IsPrefixOf(r, Append(t, e))
<1>1. Len(r) \in Nat /\ Len(t) \in Nat /\ Len(r) <= Len(t)
  BY DEF IsPrefixOf
<1>2. Len(Append(t, e)) = Len(t) + 1 /\ \A k \in 1..Len(t) : Append(t, e)[k] = t[k]
  OBVIOUS
<1>3. \A k \in 1..Len(r) : k \in 1..Len(t)
  BY <1>1
<1>4. QED
  BY <1>1, <1>2, <1>3 DEF IsPrefixOf

\* Site s takes over more of the log of site o.
Copied(s, o) ==
  \E t \in Seq(Events) :
    /\ log' = [log EXCEPT ![s] = t]
    /\ IsPrefixOf(log[s], t)
    /\ IsPrefixOf(t, log[o])

\* The control server extends its log by a genuine message: it copies, and it
\* was behind.
LEMMA ExtendedCopies ==
  ASSUME IInv, SInv, NEW m \in Messages, Genuine(m), ~ Stale("control", m),
         m.from <= Latest("control") + 1,
         NEW n \in Nat, Latest("control") <= n, n <= LastOf(m),
         log' = [log EXCEPT !["control"] = Extended("control", m, n)]
  PROVE  ~ ControlLeads /\ Copied("control", "workspace")
<1>1. /\ C \in Seq(Events) /\ W \in Seq(Events) /\ Len(C) \in Nat /\ Len(W) \in Nat
      /\ Latest("control") = Len(C) /\ Latest("workspace") = Len(W)
      /\ "workspace" \in Sites /\ "control" \in Sites
  BY SingleWriterParts
<1>2. m.from \in Nat /\ m.from >= 1 /\ Len(m.events) \in Nat
  BY DEF Messages
<1>3. /\ LastOf(m) <= Len(W) /\ LastOf(m) = m.from + Len(m.events) - 1
      /\ \A j \in 1..Len(m.events) : m.events[j] = W[m.from + j - 1]
      /\ LastOf(m) > Len(C)
  <2>1. m.events # <<>> /\ ~ (LastOf(m) <= Len(C))
    BY <1>1 DEF Stale
  <2>2. LastOf(m) \in Int
    BY <1>2 DEF LastOf
  <2>3. QED
    BY <1>1, <2>1, <2>2 DEF Genuine, LastOf
<1>4. ~ ControlLeads
  BY <1>1, <1>2, <1>3 DEF SInv, Leads, IsPrefixOf
<1>5. IsPrefixOf(C, W)
  BY <1>4 DEF SInv, Leads
<1> DEFINE t == Extended("control", m, n)
<1>6. LogsOK
  BY PartsOf
<1>7. t \in Seq(Events) /\ Len(t) = n
      /\ \A k \in 1..n : t[k] = IF k <= Len(C) THEN C[k] ELSE m.events[k - m.from + 1]
  BY <1>1, <1>6, ExtendedLog DEF C
<1> HIDE DEF t
<1>8. IsPrefixOf(C, t)
  <2>1. \A k \in 1..Len(C) : k \in 1..n /\ k <= Len(C)
    BY <1>1
  <2>2. QED
    BY <1>1, <1>7, <2>1 DEF IsPrefixOf
<1>9. IsPrefixOf(t, W)
  <2>1. n <= Len(W)
    BY <1>1, <1>2, <1>3
  <2>2. ASSUME NEW k \in 1..n
        PROVE  t[k] = W[k]
    <3>1. CASE k <= Len(C)
      BY <1>1, <1>5, <1>7, <3>1 DEF IsPrefixOf
    <3>2. CASE k > Len(C)
      <4>1. k - m.from + 1 \in 1..Len(m.events) /\ m.from + (k - m.from + 1) - 1 = k
        <5>1. k \in Nat /\ k <= LastOf(m) /\ m.from <= Len(C) + 1
          BY <1>1, <1>2, <1>3
        <5>2. k <= m.from + Len(m.events) - 1 /\ m.from <= k
          BY <1>1, <1>2, <1>3, <3>2, <5>1
        <5>3. QED
          BY <1>2, <5>1, <5>2
      <4>2. t[k] = m.events[k - m.from + 1]
        BY <1>1, <1>7, <3>2
      <4>3. QED
        BY <1>3, <4>1, <4>2
    <3>3. QED
      BY <1>1, <3>1, <3>2
  <2>3. QED
    BY <1>7, <2>1, <2>2 DEF IsPrefixOf
<1>10. QED
  BY <1>4, <1>7, <1>8, <1>9 DEF Copied, C, W, t

LEMMA ControlCopies ==
  ASSUME IInv, SInv, NEW m \in Messages, Genuine(m), Tried("control", m)
  PROVE  UNCHANGED log \/ (~ ControlLeads /\ Copied("control", "workspace"))
<1>1. LogsOK /\ "control" \in Sites
  BY PartsOf DEF Sites
<1>2. Taken("control", m)
  BY <1>1, TriedKeeps
<1>3. QED
  BY <1>2, ExtendedCopies DEF Taken

\* While a restore posts, the workspace copies the control server's log.
LEMMA BatchCopies ==
  ASSUME IInv, SInv, restore.state = "posting", Tried("workspace", Batch)
  PROVE  UNCHANGED log \/ Copied("workspace", "control")
<1>1. /\ C \in Seq(Events) /\ W \in Seq(Events) /\ Len(C) \in Nat /\ Len(W) \in Nat
      /\ Latest("control") = Len(C) /\ Latest("workspace") = Len(W)
      /\ "workspace" \in Sites /\ "control" \in Sites
  BY SingleWriterParts
<1>2. LogsOK /\ RestoreOK /\ PostingInv
  BY PartsOf
<1>3. /\ Batch \in Messages /\ Batch.from = restore.sent + 1 /\ Batch.events # <<>>
      /\ LastOf(Batch) \in Nat /\ LastOf(Batch) <= Len(restore.rows)
      /\ LastOf(Batch) = restore.sent + Len(Batch.events)
      /\ \A j \in 1..Len(Batch.events) : Batch.events[j] = restore.rows[restore.sent + j]
  BY <1>2, BatchIsNext DEF PostingInv
<1>4. restore.sent \in Nat /\ Len(Batch.events) \in Nat
  BY <1>2, <1>3 DEF RestoreOK, Restores, Messages
<1>5. IsPrefixOf(W, C) /\ restore.rows = C /\ removed = "no"
  BY <1>2 DEF SInv, Leads, ControlLeads, RestoreInv, PostingInv
<1>6. Taken("workspace", Batch)
  BY <1>1, <1>2, <1>3, TriedKeeps
<1>7. ASSUME ~ Stale("workspace", Batch), Batch.from <= Latest("workspace") + 1,
             NEW n \in Nat, Latest("workspace") <= n, n <= LastOf(Batch),
             log' = [log EXCEPT !["workspace"] = Extended("workspace", Batch, n)]
      PROVE  Copied("workspace", "control")
  <2> DEFINE t == Extended("workspace", Batch, n)
  <2>1. Batch.from <= Len(W) + 1 /\ Len(W) <= n
    BY <1>1, <1>7
  <2>2. log' = [log EXCEPT !["workspace"] = t]
    BY <1>7
  <2>3. t \in Seq(Events) /\ Len(t) = n
        /\ \A k \in 1..n : t[k] = IF k <= Len(W) THEN W[k] ELSE Batch.events[k - Batch.from + 1]
    BY <1>1, <1>2, <1>3, <1>7, ExtendedLog DEF W
  <2> HIDE DEF t
  <2>4. IsPrefixOf(W, t)
    <3>1. \A k \in 1..Len(W) : k \in 1..n /\ k <= Len(W)
      BY <1>1, <2>1
    <3>2. QED
      BY <1>1, <2>1, <2>3, <3>1 DEF IsPrefixOf
  <2>5. IsPrefixOf(t, C)
    <3>1. n <= Len(C)
      BY <1>1, <1>3, <1>5, <1>7
    <3>2. ASSUME NEW k \in 1..n
          PROVE  t[k] = C[k]
      <4>1. CASE k <= Len(W)
        BY <1>1, <1>5, <2>3, <4>1 DEF IsPrefixOf
      <4>2. CASE k > Len(W)
        <5>1. n <= restore.sent + Len(Batch.events)
          BY <1>3, <1>7
        <5>2. k - Batch.from + 1 \in 1..Len(Batch.events)
              /\ restore.sent + (k - Batch.from + 1) = k
          <6>1. k \in Nat /\ k <= restore.sent + Len(Batch.events) /\ restore.sent + 1 <= Len(W) + 1
            BY <1>1, <1>3, <1>4, <2>1, <5>1
          <6>2. Batch.from = restore.sent + 1 /\ restore.sent < k
            BY <1>1, <1>3, <1>4, <4>2, <6>1
          <6>3. QED
            BY <1>4, <6>1, <6>2
        <5>3. t[k] = Batch.events[k - Batch.from + 1]
          BY <1>1, <2>3, <4>2
        <5>4. QED
          BY <1>3, <1>5, <5>2, <5>3
      <4>3. QED
        BY <1>1, <4>1, <4>2
    <3>3. QED
      BY <2>3, <3>1, <3>2 DEF IsPrefixOf
  <2>6. QED
    BY <2>2, <2>3, <2>4, <2>5 DEF Copied, C, W, t
<1>8. QED
  BY <1>6, <1>7 DEF Taken

\* A batch that is answered has arrived.
LEMMA BatchArrives ==
  ASSUME IInv, restore.state = "posting", Replay("workspace", Batch)
  PROVE  LastOf(Batch) <= Latest("workspace")'
<1>1. LogsOK /\ RestoreOK /\ PostingInv /\ "workspace" \in Sites
  BY PartsOf DEF Sites
<1>2. Batch \in Messages /\ Batch.events # <<>> /\ LastOf(Batch) \in Nat
  BY <1>1, BatchIsNext DEF PostingInv
<1>3. /\ Stale("workspace", Batch) => UNCHANGED logVars
      /\ ~ Stale("workspace", Batch) => Latest("workspace")' = LastOf(Batch)
  BY <1>1, <1>2, ReplayKeeps
<1>4. CASE Stale("workspace", Batch)
  BY <1>2, <1>3, <1>4 DEF Stale, logVars, Latest
<1>5. CASE ~ Stale("workspace", Batch)
  BY <1>2, <1>3, <1>5
<1>6. QED
  BY <1>4, <1>5

\* A step that writes leaves both logs extensions of themselves, and what it
\* sends is genuine.
LEMMA RunGrows ==
  ASSUME IInv, IInv', SInv, NEW s \in Sites, Run(s), UNCHANGED reply
  PROVE  /\ log'[s] = Append(log[s], writes + 1) /\ writes + 1 \in Events
         /\ \A o \in Sites : o # s => log'[o] = log[o]
         /\ IsPrefixOf(W, W') /\ IsPrefixOf(C, C')
         /\ MessagesInv'
<1>1. /\ C \in Seq(Events) /\ W \in Seq(Events) /\ Len(C) \in Nat /\ Len(W) \in Nat
      /\ Latest("control") = Len(C) /\ Latest("workspace") = Len(W)
      /\ "workspace" \in Sites /\ "control" \in Sites /\ "workspace" # "control"
      /\ \A o \in Sites : o = "control" \/ o = "workspace"
  BY SingleWriterParts
<1>2. /\ \A o \in Sites : o # s => log'[o] = log[o]
      /\ log'[s] = Append(log[s], writes + 1) /\ writes' = writes + 1 /\ writes' \in Events
      /\ \A l \in Loops :
           queue'[l] = IF s = "workspace" /\ Listening(l)
                         THEN Append(queue[l], Message(Latest(s) + 1, <<writes + 1>>))
                         ELSE queue[l]
  BY RunKeeps DEF IInv
<1>3. writes + 1 \in Events
  BY <1>2
<1>4. IsPrefixOf(W, W')
  <2>1. W' = W \/ W' = Append(W, writes + 1)
    BY <1>1, <1>2 DEF W
  <2>2. QED
    BY <1>1, <1>3, <2>1, PrefixOfItself, PrefixOfAppend
<1>5. IsPrefixOf(C, C')
  <2>1. C' = C \/ C' = Append(C, writes + 1)
    BY <1>1, <1>2 DEF C
  <2>2. QED
    BY <1>1, <1>3, <2>1, PrefixOfItself, PrefixOfAppend
<1>6. MessagesOK
  BY PartsOf
<1>7. \A m \in Messages : Genuine(m) => Genuine(m)'
  BY <1>4, WorkspaceGrows
<1>8. ASSUME NEW l \in Loops
      PROVE  Genuine(reply[l])' /\ \A i \in 1..Len(queue'[l]) : Genuine(queue[l][i])'
  <2>1. reply[l] \in Messages /\ queue[l] \in Seq(Messages)
    BY <1>6 DEF MessagesOK
  <2>2. Genuine(reply[l]) /\ \A i \in 1..Len(queue[l]) : Genuine(queue[l][i])
    BY DEF SInv, MessagesInv
  <2>3. Genuine(reply[l])'
    BY <1>7, <2>1, <2>2 DEF Genuine, LastOf
  <2>4. \A m \in Messages : m \in {queue[l][i] : i \in 1..Len(queue[l])} => Genuine(m)'
    BY <1>7, <2>2
  <2>5. ASSUME NEW i \in 1..Len(queue'[l])
        PROVE  Genuine(queue[l][i])'
    <3>1. CASE ~ (s = "workspace" /\ Listening(l))
      <4>1. queue'[l] = queue[l]
        BY <1>2, <3>1, Zenon
      <4>2. queue[l][i] \in Messages /\ i \in 1..Len(queue[l])
        BY <2>1, <2>5, <4>1
      <4>3. PICK m \in Messages : m = queue[l][i]
        BY <4>2
      <4>4. Genuine(m)'
        BY <2>4, <4>2, <4>3
      <4>5. m = queue'[l][i]
        BY <4>1, <4>3
      <4>6. QED
        BY <4>4, <4>5 DEF Genuine, LastOf
    <3>2. CASE s = "workspace" /\ Listening(l)
      <4> DEFINE new == Message(Latest(s) + 1, <<writes + 1>>)
      <4>1. queue'[l] = Append(queue[l], new)
        BY <1>2, <3>2, Zenon
      <4>2. new \in Messages /\ new.from = Len(W) + 1 /\ new.events = <<writes + 1>>
        BY <1>1, <1>3, <3>2 DEF Message, Messages
      <4> HIDE DEF new
      <4>3. CASE i \in 1..Len(queue[l])
        <5>1. queue'[l][i] = queue[l][i] /\ queue[l][i] \in Messages
          BY <2>1, <4>1, <4>2, <4>3
        <5>2. PICK m \in Messages : m = queue[l][i]
          BY <5>1
        <5>3. Genuine(m)'
          BY <2>4, <4>3, <5>2
        <5>4. m = queue'[l][i]
          BY <5>1, <5>2
        <5>5. QED
          BY <5>3, <5>4 DEF Genuine, LastOf
      <4>4. CASE i = Len(queue[l]) + 1
        <5>1. queue'[l][i] = new
          BY <2>1, <4>1, <4>2, <4>4
        <5>2. W' = Append(W, writes + 1)
          BY <1>2, <3>2 DEF W
        <5>3. Len(W') = Len(W) + 1 /\ W'[Len(W) + 1] = writes + 1
          BY <1>1, <1>3, <5>2
        <5>4. Latest("workspace")' = Len(W) + 1
          BY <5>3 DEF Latest, W
        <5>5. Len(new.events) = 1 /\ new.events[1] = writes + 1
          BY <4>2
        <5>6. new.from + Len(new.events) - 1 <= Latest("workspace")'
          BY <1>1, <4>2, <5>4, <5>5
        <5>7. \A j \in 1..Len(new.events) : new.events[j] = W'[new.from + j - 1]
          BY <1>1, <4>2, <5>3, <5>5
        <5>8. QED
          BY <5>1, <5>6, <5>7 DEF Genuine, LastOf
      <4>5. i \in 1..Len(queue[l]) \/ i = Len(queue[l]) + 1
        <5>1. Len(queue'[l]) = Len(queue[l]) + 1 /\ Len(queue[l]) \in Nat
          BY <2>1, <4>1, <4>2
        <5>2. QED
          BY <2>5, <5>1
      <4>6. QED
        BY <4>3, <4>4, <4>5
    <3>3. QED
      BY <3>1, <3>2
  <2>6. QED
    BY <2>3, <2>5
<1>9. QED
  BY <1>2, <1>3, <1>4, <1>5, <1>8 DEF MessagesInv

\* A step in which the control server follows, or neither log changes.
LEMMA FollowStep ==
  ASSUME IInv, IInv', SInv,
         UNCHANGED log \/ (~ ControlLeads /\ Copied("control", "workspace")),
         UNCHANGED <<home, removed>>,
         restore' = restore \/ (restore.state = "posting" /\ restore'.state = "failed"),
         MessagesInv', FenceInv'
  PROVE  SInv'
<1>1. /\ C \in Seq(Events) /\ W \in Seq(Events) /\ Len(C) \in Nat /\ Len(W) \in Nat
      /\ Latest("control") = Len(C) /\ Latest("workspace") = Len(W)
      /\ "workspace" \in Sites /\ "control" \in Sites /\ "workspace" # "control"
  BY SingleWriterParts
<1>2. Leads /\ RestoreInv /\ PostingInv /\ LogsOK
  BY PartsOf DEF SInv
<1>3. ControlLeads' <=> ControlLeads
  BY DEF ControlLeads
<1>4. /\ W' = W
      /\ C' = C \/ (~ ControlLeads /\ IsPrefixOf(C', W))
  BY <1>1, <1>2 DEF Copied, C, W, LogsOK
<1>5. C' \in Seq(Events)
  <2>1. TypeOK'
    BY DEF IInv
  <2>2. QED
    BY <2>1 DEF TypeOK, Sites, C
<1>6. Leads'
  <2>1. ASSUME home = "none"
        PROVE  C' = <<>> /\ W' = <<>>
    <3>1. C = <<>> /\ W = <<>>
      BY <1>2, <2>1 DEF Leads
    <3>2. IsPrefixOf(C', W) => C' = <<>>
      <4>1. Len(W) = 0 /\ Len(C') \in Nat
        BY <1>5, <3>1
      <4>2. IsPrefixOf(C', W) => Len(C') = 0
        BY <4>1 DEF IsPrefixOf
      <4>3. QED
        BY <1>5, <4>2, EmptySeq
    <3>3. QED
      BY <1>4, <3>1, <3>2
  <2>2. IF ControlLeads THEN IsPrefixOf(W', C') ELSE IsPrefixOf(C', W')
    BY <1>2, <1>4 DEF Leads
  <2>3. QED
    BY <1>3, <2>1, <2>2 DEF Leads
<1>7. RestoreInv'
  <2>1. home # "workspace" => restore'.state = "idle" /\ removed' = "no"
    BY <1>2 DEF RestoreInv
  <2>2. restore'.state = "posting" => restore'.rows = C' /\ restore'.sent <= Latest("workspace")'
    <3>1. SUFFICES ASSUME restore'.state = "posting"
                   PROVE  restore'.rows = C' /\ restore'.sent <= Latest("workspace")'
      OBVIOUS
    <3>2. restore' = restore /\ restore.state = "posting" /\ removed = "no"
      BY <1>2, <3>1 DEF PostingInv
    <3>3. C' = C
      BY <1>4, <3>2 DEF ControlLeads
    <3>4. QED
      BY <1>2, <1>4, <3>2, <3>3 DEF RestoreInv, Latest, W
  <2>3. restore'.state = "done" => IsPrefixOf(restore'.rows, W')
    BY <1>2, <1>4 DEF RestoreInv
  <2>4. QED
    BY <2>1, <2>2, <2>3 DEF RestoreInv
<1>8. QED
  BY <1>6, <1>7 DEF SInv

LEMMA CreateSingle ==
  ASSUME IInv, IInv', SInv, NEW s \in Sites, Create(s), Run(s)
  PROVE  SInv'
<1>1. /\ C \in Seq(Events) /\ W \in Seq(Events)
      /\ "workspace" \in Sites /\ "control" \in Sites /\ "workspace" # "control"
      /\ \A o \in Sites : o = "control" \/ o = "workspace"
  BY SingleWriterParts
<1>2. /\ log'[s] = Append(log[s], writes + 1) /\ writes + 1 \in Events
      /\ \A o \in Sites : o # s => log'[o] = log[o]
      /\ IsPrefixOf(W, W') /\ MessagesInv'
  BY RunGrows DEF Create
<1>3. FenceInv'
  BY <1>2, WorkspaceGrows DEF SInv, Create
<1>4. C = <<>> /\ W = <<>> /\ restore.state = "idle" /\ removed = "no"
  BY DEF SInv, Leads, RestoreInv, Create
<1>5. home' = s /\ UNCHANGED <<restore, removed>>
  BY DEF Create
<1>6. Leads'
  <2>1. CASE s = "control"
    <3>1. W' = <<>> /\ C' = Append(C, writes + 1)
      BY <1>1, <1>2, <1>4, <2>1 DEF C, W
    <3>2. IsPrefixOf(W', C')
      <4>1. Append(C, writes + 1) \in Seq(Events)
        BY <1>1, <1>2
      <4>2. QED
        BY <3>1, <4>1, PrefixOfItself
    <3>3. QED
      BY <1>5, <2>1, <3>2 DEF Leads, ControlLeads
  <2>2. CASE s = "workspace"
    <3>1. C' = <<>> /\ W' = Append(W, writes + 1)
      BY <1>1, <1>2, <1>4, <2>2 DEF C, W
    <3>2. IsPrefixOf(C', W')
      <4>1. Append(W, writes + 1) \in Seq(Events)
        BY <1>1, <1>2
      <4>2. QED
        BY <3>1, <4>1, PrefixOfItself
    <3>3. QED
      BY <1>4, <1>5, <2>2, <3>2 DEF Leads, ControlLeads
  <2>3. QED
    BY <1>1, <2>1, <2>2
<1>7. RestoreInv'
  BY <1>4, <1>5 DEF RestoreInv
<1>8. QED
  BY <1>2, <1>3, <1>6, <1>7 DEF SInv

\* Of the sites, the one whose log is the longer writes.
LEMMA UpdateSingle ==
  ASSUME IInv, IInv', SInv, NEW s \in Sites, Run(s), UNCHANGED <<reply, home, restore, removed>>,
         home = s, restore.state \in {"idle", "done"}, FenceInv'
  PROVE  SInv'
<1>1. /\ C \in Seq(Events) /\ W \in Seq(Events)
      /\ "workspace" \in Sites /\ "control" \in Sites /\ "workspace" # "control"
      /\ \A o \in Sites : o = "control" \/ o = "workspace"
  BY SingleWriterParts
<1>2. /\ log'[s] = Append(log[s], writes + 1) /\ writes + 1 \in Events
      /\ \A o \in Sites : o # s => log'[o] = log[o]
      /\ IsPrefixOf(W, W') /\ MessagesInv'
  BY RunGrows
<1>3. Leads /\ RestoreInv /\ RestoreOK
  BY PartsOf DEF SInv
<1>4. Leads'
  <2>1. CASE s = "control"
    <3>1. W' = W /\ C' = Append(C, writes + 1)
      BY <1>1, <1>2, <2>1 DEF C, W
    <3>2. IsPrefixOf(W', C')
      BY <1>1, <1>2, <1>3, <2>1, <3>1, PrefixOfAppend DEF Leads, ControlLeads
    <3>3. QED
      BY <2>1, <3>2 DEF Leads, ControlLeads
  <2>2. CASE s = "workspace"
    <3>1. C' = C /\ W' = Append(W, writes + 1)
      BY <1>1, <1>2, <2>2 DEF C, W
    <3>2. ~ ControlLeads
      BY <2>2 DEF ControlLeads
    <3>3. IsPrefixOf(C', W')
      BY <1>1, <1>2, <1>3, <3>1, <3>2, PrefixOfAppend DEF Leads
    <3>4. ~ ControlLeads'
      BY <2>2 DEF ControlLeads
    <3>5. QED
      BY <1>1, <2>2, <3>3, <3>4 DEF Leads
  <2>3. QED
    BY <1>1, <2>1, <2>2
<1>5. RestoreInv'
  <2>1. restore.rows \in Seq(Events)
    BY <1>3 DEF RestoreOK, Restores
  <2>2. restore.state = "done" => IsPrefixOf(restore.rows, W')
    BY <1>2, <1>3, <2>1, WorkspaceGrows DEF RestoreInv
  <2>3. QED
    BY <1>3, <2>2 DEF RestoreInv
<1>6. QED
  BY <1>2, <1>4, <1>5 DEF SInv

LEMMA ForwardSingle ==
  ASSUME IInv, IInv', SInv, SingleWriter, Forward
  PROVE  SInv'
<1>1. /\ W \in Seq(Events) /\ Len(W) \in Nat /\ Latest("workspace") = Len(W)
      /\ "workspace" \in Sites
  BY SingleWriterParts
<1>2. /\ log'["workspace"] = Append(log["workspace"], writes + 1) /\ writes + 1 \in Events
  BY <1>1, RunGrows DEF Forward
<1>3. FenceInv'
  <2>1. Len(W') = Len(W) + 1 /\ W'[Len(W) + 1] = writes + 1
    BY <1>1, <1>2 DEF W
  <2>2. Latest("workspace")' = Len(W) + 1
    BY <2>1 DEF Latest, W
  <2>3. fence'.at = Len(W) + 1 /\ fence'.event = writes + 1
    BY <1>1 DEF Forward, Moved
  <2>4. QED
    BY <1>1, <2>1, <2>2, <2>3 DEF FenceInv
<1>4. home = "workspace" /\ restore.state \in {"idle", "done"}
  BY DEF Forward, MayWrite
<1>5. QED
  BY <1>1, <1>3, <1>4, UpdateSingle DEF Forward

LEMMA RestoreStartSingle ==
  ASSUME IInv, IInv', SInv, RestoreStart, Run("control"),
         restore' = [state |-> "posting", rows |-> log'["control"], sent |-> 0]
  PROVE  SInv'
<1>1. /\ C \in Seq(Events) /\ W \in Seq(Events) /\ Len(W) \in Nat
      /\ "workspace" \in Sites /\ "control" \in Sites /\ "workspace" # "control"
  BY SingleWriterParts
<1>2. /\ log'["control"] = Append(log["control"], writes + 1) /\ writes + 1 \in Events
      /\ \A o \in Sites : o # "control" => log'[o] = log[o]
      /\ IsPrefixOf(W, W') /\ MessagesInv'
  BY <1>1, RunGrows DEF RestoreStart
<1>3. FenceInv'
  BY <1>2, WorkspaceGrows DEF SInv, RestoreStart
<1>4. ControlLeads /\ Leads
  BY DEF RestoreStart, ControlLeads, SInv
<1>5. W' = W /\ C' = Append(C, writes + 1)
  BY <1>1, <1>2 DEF C, W
<1>6. IsPrefixOf(W', C')
  BY <1>1, <1>2, <1>4, <1>5, PrefixOfAppend DEF Leads
<1>7. /\ restore'.state = "posting" /\ restore'.rows = C' /\ restore'.sent = 0
      /\ home' = "workspace" /\ removed' = "no"
  BY DEF RestoreStart, C
<1>8. Leads'
  BY <1>6, <1>7 DEF Leads, ControlLeads
<1>9. RestoreInv'
  <2>1. Latest("workspace")' \in Nat
    BY <1>1, <1>5 DEF Latest, W
  <2>2. QED
    BY <1>7, <2>1 DEF RestoreInv
<1>10. QED
  BY <1>2, <1>3, <1>8, <1>9 DEF SInv

\* A batch that reaches the workspace, as to the logs and the messages.
LEMMA BatchSingle ==
  ASSUME IInv, IInv', SInv, restore.state = "posting",
         Tried("workspace", Batch), UNCHANGED <<reply, queue, fence>>
  PROVE  /\ C' = C /\ W' \in Seq(Events) /\ IsPrefixOf(W', C)
         /\ MessagesInv' /\ FenceInv'
<1>1. /\ C \in Seq(Events) /\ W \in Seq(Events) /\ Len(C) \in Nat /\ Len(W) \in Nat
      /\ "workspace" \in Sites /\ "control" \in Sites /\ "workspace" # "control"
  BY SingleWriterParts
<1>2. LogsOK /\ PostingInv /\ MessagesOK
  BY PartsOf
<1>3. IsPrefixOf(W, C)
  BY <1>2 DEF SInv, Leads, ControlLeads, PostingInv
<1>4. UNCHANGED log \/ Copied("workspace", "control")
  BY BatchCopies
<1>5. C' = C /\ W' \in Seq(Events) /\ IsPrefixOf(W', C) /\ IsPrefixOf(W, W')
  <2>1. CASE UNCHANGED log
    BY <1>1, <1>3, <2>1, PrefixOfItself DEF C, W
  <2>2. CASE Copied("workspace", "control")
    BY <1>1, <1>2, <2>2 DEF Copied, C, W, LogsOK
  <2>3. QED
    BY <1>4, <2>1, <2>2
<1>6. FenceInv'
  BY <1>5, WorkspaceGrows DEF SInv
<1>7. MessagesInv'
  <2>1. \A m \in Messages : Genuine(m) => Genuine(m)'
    BY <1>5, WorkspaceGrows
  <2>2. ASSUME NEW l \in Loops
        PROVE  Genuine(reply[l])' /\ \A i \in 1..Len(queue'[l]) : Genuine(queue[l][i])'
    <3>1. reply[l] \in Messages /\ queue[l] \in Seq(Messages)
      BY <1>2 DEF MessagesOK
    <3>2. Genuine(reply[l]) /\ \A i \in 1..Len(queue[l]) : Genuine(queue[l][i])
      BY DEF SInv, MessagesInv
    <3>3. Genuine(reply[l])'
      BY <2>1, <3>1, <3>2 DEF Genuine, LastOf
    <3>4. ASSUME NEW i \in 1..Len(queue'[l])
          PROVE  Genuine(queue[l][i])'
      <4>1. i \in 1..Len(queue[l]) /\ queue[l][i] \in Messages
        BY <3>1, <3>4
      <4>2. QED
        BY <2>1, <3>2, <4>1 DEF Genuine, LastOf
    <3>5. QED
      BY <3>3, <3>4
  <2>3. QED
    BY <2>2 DEF MessagesInv
<1>8. QED
  BY <1>5, <1>6, <1>7

LEMMA RestoreBatchSingle ==
  ASSUME IInv, IInv', SInv, RestoreBatch
  PROVE  SInv'
<1>1. /\ C \in Seq(Events) /\ Len(C) \in Nat
  BY SingleWriterParts
<1>2. RestoreOK /\ PostingInv /\ RestoreInv
  BY PartsOf DEF SInv
<1>3. restore.state = "posting" /\ restore.rows = C /\ home = "workspace" /\ removed = "no"
  BY <1>2 DEF RestoreBatch, RestoreInv, PostingInv
<1>4. /\ C' = C /\ W' \in Seq(Events) /\ IsPrefixOf(W', C)
      /\ MessagesInv' /\ FenceInv'
  BY BatchSingle DEF RestoreBatch, loopVars, Tried
<1>5. LastOf(Batch) <= Latest("workspace")' /\ Latest("workspace")' = Len(W')
  BY <1>3, BatchArrives DEF RestoreBatch, Latest, W
<1>6. LastOf(Batch) \in Nat
  BY <1>2, <1>3, BatchIsNext DEF PostingInv
<1>7. restore' = [state |-> IF LastOf(Batch) = Len(C) THEN "done" ELSE "posting",
                  rows |-> C, sent |-> LastOf(Batch)]
  BY <1>2, <1>3 DEF RestoreBatch, RestoreOK, Restores
<1>8. UNCHANGED <<home, removed>>
  BY DEF RestoreBatch
<1>9. LastOf(Batch) = Len(C) => IsPrefixOf(C, W')
  <2>1. SUFFICES ASSUME LastOf(Batch) = Len(C)
                 PROVE  IsPrefixOf(C, W')
    OBVIOUS
  <2>2. Len(W') \in Nat /\ Len(W') <= Len(C) /\ Len(C) <= Len(W')
    BY <1>4, <1>5, <2>1 DEF IsPrefixOf
  <2>3. Len(W') = Len(C)
    BY <1>1, <2>2
  <2>4. QED
    BY <1>4, <2>2, <2>3 DEF IsPrefixOf
<1>10. Leads'
  <2>1. CASE LastOf(Batch) = Len(C)
    <3>1. ~ ControlLeads'
      BY <1>3, <1>7, <1>8, <2>1 DEF ControlLeads
    <3>2. QED
      BY <1>3, <1>4, <1>8, <1>9, <2>1, <3>1 DEF Leads
  <2>2. CASE LastOf(Batch) # Len(C)
    <3>1. ControlLeads'
      BY <1>3, <1>7, <1>8, <2>2 DEF ControlLeads
    <3>2. QED
      BY <1>3, <1>4, <1>8, <3>1 DEF Leads
  <2>3. QED
    BY <2>1, <2>2
<1>11. RestoreInv'
  BY <1>3, <1>4, <1>5, <1>7, <1>8, <1>9 DEF RestoreInv
<1>12. QED
  BY <1>4, <1>10, <1>11 DEF SInv

LEMMA RestoreFailsSingle ==
  ASSUME IInv, IInv', SInv, RestoreFails
  PROVE  SInv'
<1>1. PostingInv /\ RestoreInv
  BY PartsOf DEF SInv
<1>2. restore.state = "posting" /\ home = "workspace" /\ removed = "no"
  BY <1>1 DEF RestoreFails, RestoreInv, PostingInv
<1>3. /\ C' = C /\ W' \in Seq(Events) /\ IsPrefixOf(W', C)
      /\ MessagesInv' /\ FenceInv'
  BY BatchSingle DEF RestoreFails, loopVars, Tried
<1>4. restore'.state = "failed" /\ UNCHANGED <<home, removed>>
  BY DEF RestoreFails, NoRestore
<1>5. Leads' /\ RestoreInv'
  BY <1>2, <1>3, <1>4 DEF Leads, ControlLeads, RestoreInv
<1>6. QED
  BY <1>3, <1>5 DEF SInv

\* The workspace's log is the same, and messages and request are, or are gone.
LEMMA MessagesDropped ==
  ASSUME SInv, W' = W,
         \A l \in Loops : reply'[l] = reply[l] \/ reply'[l] = NoMessage,
         \A l \in Loops : \A i \in 1..Len(queue'[l]) :
           \E j \in 1..Len(queue[l]) : queue'[l][i] = queue[l][j],
         fence' = fence \/ fence'.state # "waiting"
  PROVE  MessagesInv' /\ FenceInv'
<1>0. Latest("workspace")' = Latest("workspace")
  BY DEF Latest, W
<1>1. ASSUME NEW l \in Loops
      PROVE  Genuine(reply[l])' /\ \A i \in 1..Len(queue'[l]) : Genuine(queue[l][i])'
  <2>1. Genuine(reply[l]) /\ \A i \in 1..Len(queue[l]) : Genuine(queue[l][i])
    BY DEF SInv, MessagesInv
  <2>2. NoMessage.events = <<>>
    BY DEF NoMessage, Message
  <2>3. Genuine(reply[l])'
    <3>1. CASE reply'[l] = reply[l]
      BY <1>0, <2>1, <3>1 DEF Genuine, LastOf
    <3>2. CASE reply'[l] = NoMessage
      BY <2>2, <3>2 DEF Genuine
    <3>3. QED
      BY <3>1, <3>2
  <2>4. ASSUME NEW i \in 1..Len(queue'[l])
        PROVE  Genuine(queue[l][i])'
    <3>1. PICK j \in 1..Len(queue[l]) : queue'[l][i] = queue[l][j]
      BY <2>4
    <3>2. Genuine(queue[l][j])
      BY <2>1
    <3>3. QED
      BY <1>0, <3>1, <3>2 DEF Genuine, LastOf
  <2>5. QED
    BY <2>3, <2>4
<1>2. FenceInv'
  BY <1>0 DEF SInv, FenceInv
<1>3. QED
  BY <1>1, <1>2 DEF MessagesInv

LEMMA QuietSingle ==
  ASSUME IInv, IInv', SInv, UNCHANGED <<log, home, restore, removed>>,
         \A l \in Loops : reply'[l] = reply[l] \/ reply'[l] = NoMessage,
         \A l \in Loops : queue'[l] = queue[l] \/ queue'[l] = <<>>,
         fence' = fence \/ fence'.state # "waiting"
  PROVE  SInv'
<1>1. W' = W
  BY DEF W
<1>2. \A l \in Loops : \A i \in 1..Len(queue'[l]) :
        \E j \in 1..Len(queue[l]) : queue'[l][i] = queue[l][j]
  <2>1. Len(<<>>) = 0
    OBVIOUS
  <2>2. QED
    BY <2>1
<1>3. MessagesInv' /\ FenceInv'
  BY <1>1, <1>2, MessagesDropped
<1>4. QED
  BY <1>3, FollowStep

\* A write that is torn leaves the logs and what is under way alone.
LEMMA TornSingle ==
  ASSUME IInv, IInv', SInv, NEW s \in Sites, TornRun(s), UNCHANGED <<reply, fence, removed>>,
         \/ UNCHANGED <<home, restore>>
         \/ home = "none" /\ home' \in Sites /\ UNCHANGED restore
         \/ ControlLeads /\ removed = "no" /\ home' = "workspace" /\ restore'.state = "failed"
  PROVE  SInv'
<1>1. /\ C \in Seq(Events) /\ W \in Seq(Events)
  BY SingleWriterParts
<1>2. UNCHANGED <<log, queue>> /\ C' = C /\ W' = W /\ Latest("workspace")' = Latest("workspace")
  BY DEF TornRun, C, W, Latest
<1>3. MessagesInv' /\ FenceInv'
  BY <1>2, MessagesDropped
<1>4. CASE UNCHANGED <<home, restore>>
  BY <1>2, <1>4, QuietSingle
<1>5. CASE home = "none" /\ home' \in Sites /\ UNCHANGED restore
  <2>1. C = <<>> /\ W = <<>> /\ restore.state = "idle" /\ removed = "no"
    BY <1>5 DEF SInv, Leads, RestoreInv
  <2>2. IsPrefixOf(C, W) /\ IsPrefixOf(W, C)
    BY <1>1, <2>1, PrefixOfItself
  <2>3. Leads'
    BY <1>2, <1>5, <2>2 DEF Leads, ControlLeads, Sites
  <2>4. RestoreInv'
    BY <1>5, <2>1 DEF RestoreInv
  <2>5. QED
    BY <1>3, <2>3, <2>4 DEF SInv
<1>6. CASE ControlLeads /\ removed = "no" /\ home' = "workspace" /\ restore'.state = "failed"
  <2>1. IsPrefixOf(W, C)
    BY <1>6 DEF SInv, Leads
  <2>2. Leads' /\ RestoreInv'
    BY <1>2, <1>6, <2>1 DEF Leads, ControlLeads, RestoreInv
  <2>3. QED
    BY <1>3, <2>2 DEF SInv
<1>7. QED
  BY <1>4, <1>5, <1>6

LEMMA FetchHistorySingle ==
  ASSUME IInv, IInv', SInv, NEW l \in Loops, FetchHistory(l)
  PROVE  SInv'
<1>1. /\ C \in Seq(Events) /\ W \in Seq(Events) /\ Len(C) \in Nat /\ Len(W) \in Nat
      /\ Latest("control") = Len(C) /\ Latest("workspace") = Len(W)
  BY SingleWriterParts
<1>2. MessagesOK
  BY PartsOf
<1>3. UNCHANGED <<log, home, restore, removed, queue, fence>>
  BY DEF FetchHistory, siteVars, logVars
<1>4. PICK known \in {0, Len(C)} :
        reply' = [reply EXCEPT ![l] = Message(known + 1, SubSeq(W, known + 1, Len(W)))]
  BY <1>1 DEF FetchHistory, History, W
<1> DEFINE lo == known + 1
           w == Len(W)
           es == SubSeq(W, lo, w)
<1>5. lo \in Nat /\ lo >= 1 /\ w \in Nat
  BY <1>1
<1>6. /\ Len(es) = IF lo <= w THEN w - lo + 1 ELSE 0
      /\ \A j \in 1..w - lo + 1 : es[j] = W[lo + j - 1]
  <2>1. \A j \in lo..w : W[j] \in Events
    <3>1. \A j \in lo..w : j \in 1..Len(W)
      BY <1>5
    <3>2. QED
      BY <1>1, <3>1
  <2>2. lo \in Int /\ w \in Int /\ es = SubSeq(W, lo, w)
    BY <1>5
  <2> HIDE DEF lo, w, es
  <2>3. QED
    BY <2>1, <2>2, SubSeqProperties
<1>7. reply'[l].from = lo /\ reply'[l].events = es
  BY <1>2, <1>4 DEF MessagesOK, Message
<1>8. \A o \in Loops : o # l => reply'[o] = reply[o]
  BY <1>2, <1>4 DEF MessagesOK
<1> HIDE DEF lo, w, es
<1>9. Genuine(reply[l])'
  <2>1. SUFFICES ASSUME es # <<>>
                 PROVE  /\ lo + Len(es) - 1 <= w
                        /\ \A j \in 1..Len(es) : es[j] = W[lo + j - 1]
    BY <1>3, <1>7 DEF Genuine, LastOf, Latest, W, w
  <2>2. lo <= w
    <3>1. es = <<>> \/ lo <= w
      <4>1. w < lo => es = <<>>
        <5>1. lo \in Int /\ w \in Int
          BY <1>5
        <5>2. QED
          BY <5>1, SubSeqEmpty DEF es
      <4>2. QED
        BY <1>5, <4>1
    <3>2. QED
      BY <2>1, <3>1
  <2>3. Len(es) = w - lo + 1
    BY <1>6, <2>2
  <2>4. QED
    BY <1>5, <1>6, <2>3
<1>10. MessagesInv'
  <2>1. ASSUME NEW o \in Loops
        PROVE  Genuine(reply[o])' /\ \A i \in 1..Len(queue'[o]) : Genuine(queue[o][i])'
    <3>1. Genuine(reply[o]) /\ \A i \in 1..Len(queue[o]) : Genuine(queue[o][i])
      BY DEF SInv, MessagesInv
    <3>2. Genuine(reply[o])'
      <4>1. CASE o = l
        BY <1>9, <4>1
      <4>2. CASE o # l
        BY <1>3, <1>8, <3>1, <4>2 DEF Genuine, LastOf, Latest, W
      <4>3. QED
        BY <4>1, <4>2
    <3>3. \A i \in 1..Len(queue'[o]) : Genuine(queue[o][i])'
      BY <1>3, <3>1 DEF Genuine, LastOf, Latest, W
    <3>4. QED
      BY <3>2, <3>3
  <2>2. QED
    BY <2>1 DEF MessagesInv
<1>11. FenceInv'
  BY <1>3 DEF SInv, FenceInv, Latest, W
<1>12. QED
  BY <1>3, <1>10, <1>11, FollowStep

LEMMA StartSyncSingle ==
  ASSUME IInv, IInv', SInv, NEW l \in Loops, StartSync(l)
  PROVE  SInv'
<1>1. MessagesOK
  BY PartsOf
<1>2. \A o \in Loops : reply'[o] = reply[o] \/ reply'[o] = NoMessage
  BY <1>1 DEF StartSync, MessagesOK
<1>3. \A o \in Loops : queue'[o] = queue[o] \/ queue'[o] = <<>>
  BY <1>1 DEF StartSync, MessagesOK
<1>4. QED
  BY <1>2, <1>3, QuietSingle DEF StartSync, siteVars, logVars

LEMMA LoopTopSingle ==
  ASSUME IInv, IInv', SInv, NEW l \in Loops, LoopTop(l)
  PROVE  SInv'
<1>1. MessagesOK
  BY PartsOf
<1>2. \A o \in Loops : reply'[o] = reply[o] \/ reply'[o] = NoMessage
  BY <1>1 DEF LoopTop, MessagesOK
<1>3. \A o \in Loops : queue'[o] = queue[o] \/ queue'[o] = <<>>
  BY <1>1 DEF LoopTop, MessagesOK
<1>4. QED
  BY <1>2, <1>3, QuietSingle DEF LoopTop, siteVars, logVars

LEMMA ConnectSSESingle ==
  ASSUME IInv, IInv', SInv, NEW l \in Loops, ConnectSSE(l)
  PROVE  SInv'
<1>1. MessagesOK
  BY PartsOf
<1>2. \A o \in Loops : reply'[o] = reply[o] \/ reply'[o] = NoMessage
  BY <1>1 DEF ConnectSSE, MessagesOK
<1>3. \A o \in Loops : queue'[o] = queue[o] \/ queue'[o] = <<>>
  BY <1>1 DEF ConnectSSE, MessagesOK
<1>4. QED
  BY <1>2, <1>3, QuietSingle DEF ConnectSSE, siteVars, logVars

LEMMA StreamEndsSingle ==
  ASSUME IInv, IInv', SInv, NEW l \in Loops, StreamEnds(l)
  PROVE  SInv'
<1>1. MessagesOK
  BY PartsOf
<1>2. \A o \in Loops : reply'[o] = reply[o] \/ reply'[o] = NoMessage
  BY <1>1 DEF StreamEnds, MessagesOK
<1>3. \A o \in Loops : queue'[o] = queue[o] \/ queue'[o] = <<>>
  BY <1>1 DEF StreamEnds, MessagesOK
<1>4. QED
  BY <1>2, <1>3, QuietSingle DEF StreamEnds, siteVars, logVars

LEMMA WakeSingle ==
  ASSUME IInv, IInv', SInv, NEW l \in Loops, Wake(l)
  PROVE  SInv'
<1>1. MessagesOK
  BY PartsOf
<1>2. \A o \in Loops : reply'[o] = reply[o] \/ reply'[o] = NoMessage
  BY <1>1 DEF Wake, MessagesOK
<1>3. \A o \in Loops : queue'[o] = queue[o] \/ queue'[o] = <<>>
  BY <1>1 DEF Wake, MessagesOK
<1>4. QED
  BY <1>2, <1>3, QuietSingle DEF Wake, siteVars, logVars

LEMMA SyncFailsSingle ==
  ASSUME IInv, IInv', SInv, NEW l \in Loops, SyncFails(l)
  PROVE  SInv'
<1>1. MessagesOK /\ LogsOK
  BY PartsOf
<1>2. reply[l] \in Messages /\ Genuine(reply[l])
  BY <1>1 DEF MessagesOK, SInv, MessagesInv
<1>3. UNCHANGED log \/ (~ ControlLeads /\ Copied("control", "workspace"))
  BY <1>2, ControlCopies DEF SyncFails, Tried
<1>4. W' = W
  BY <1>1, <1>3 DEF Copied, W, LogsOK, Sites
<1>5. \A o \in Loops : reply'[o] = reply[o] \/ reply'[o] = NoMessage
  BY <1>1 DEF SyncFails, MessagesOK
<1>6. \A o \in Loops : \A i \in 1..Len(queue'[o]) :
        \E j \in 1..Len(queue[o]) : queue'[o][i] = queue[o][j]
  <2>1. \A o \in Loops : queue'[o] = queue[o] \/ queue'[o] = <<>>
    BY <1>1 DEF SyncFails, MessagesOK
  <2>2. Len(<<>>) = 0
    OBVIOUS
  <2>3. QED
    BY <2>1, <2>2
<1>7. MessagesInv' /\ FenceInv'
  BY <1>4, <1>5, <1>6, MessagesDropped DEF SyncFails
<1>8. QED
  BY <1>3, <1>7, FollowStep DEF SyncFails

LEMMA ReplayHistorySingle ==
  ASSUME IInv, IInv', SInv, NEW l \in Loops, ReplayHistory(l)
  PROVE  SInv'
<1>1. MessagesOK /\ LogsOK
  BY PartsOf
<1>2. reply[l] \in Messages /\ Genuine(reply[l])
  BY <1>1 DEF MessagesOK, SInv, MessagesInv
<1>3. UNCHANGED log \/ (~ ControlLeads /\ Copied("control", "workspace"))
  BY <1>2, ControlCopies DEF ReplayHistory, Tried
<1>4. W' = W
  BY <1>1, <1>3 DEF Copied, W, LogsOK, Sites
<1>5. \A o \in Loops : reply'[o] = reply[o] \/ reply'[o] = NoMessage
  BY <1>1 DEF ReplayHistory, MessagesOK
<1>6. MessagesInv' /\ FenceInv'
  BY <1>4, <1>5, MessagesDropped DEF ReplayHistory
<1>7. QED
  BY <1>3, <1>6, FollowStep DEF ReplayHistory

LEMMA StreamEventSingle ==
  ASSUME IInv, IInv', SInv, NEW l \in Loops, StreamEvent(l)
  PROVE  SInv'
<1>1. MessagesOK /\ LogsOK
  BY PartsOf
<1> DEFINE q == queue[l]
<1>2. q \in Seq(Messages) /\ q # <<>>
  BY <1>1 DEF MessagesOK, StreamEvent
<1>3. /\ Len(q) \in Nat /\ Len(q) >= 1 /\ Head(q) \in Messages /\ Head(q) = q[1]
      /\ Len(Tail(q)) = Len(q) - 1
      /\ \A i \in 1..Len(q) - 1 : Tail(q)[i] = q[i + 1]
  BY <1>2
<1>4. Genuine(Head(q))
  <2>1. 1 \in 1..Len(q)
    BY <1>3
  <2>2. Genuine(q[1])
    BY <2>1 DEF SInv, MessagesInv
  <2>3. QED
    BY <1>3, <2>2
<1>5. UNCHANGED log \/ (~ ControlLeads /\ Copied("control", "workspace"))
  BY <1>3, <1>4, ControlCopies DEF StreamEvent, Tried
<1>6. W' = W
  BY <1>1, <1>5 DEF Copied, W, LogsOK, Sites
<1>7. ASSUME NEW o \in Loops, NEW i \in 1..Len(queue'[o])
      PROVE  \E j \in 1..Len(queue[o]) : queue'[o][i] = queue[o][j]
  <2>1. CASE o = l
    <3>1. queue'[o] = Tail(q)
      BY <1>1, <2>1 DEF StreamEvent, MessagesOK
    <3>2. i \in 1..Len(q) - 1
      BY <1>3, <1>7, <3>1
    <3>3. i + 1 \in 1..Len(q) /\ queue'[o][i] = q[i + 1]
      BY <1>3, <3>1, <3>2
    <3>4. QED
      BY <2>1, <3>3
  <2>2. CASE o # l
    <3>1. queue'[o] = queue[o]
      BY <1>1, <2>2 DEF StreamEvent, MessagesOK
    <3>2. QED
      BY <1>7, <3>1
  <2>3. QED
    BY <2>1, <2>2
<1>8. MessagesInv' /\ FenceInv'
  BY <1>6, <1>7, MessagesDropped DEF StreamEvent
<1>9. QED
  BY <1>5, <1>8, FollowStep DEF StreamEvent

LEMMA RemoveSessionsSingle ==
  ASSUME IInv, IInv', SInv, RemoveSessions
  PROVE  SInv'
<1>1. /\ W \in Seq(Events)
      /\ "workspace" \in Sites /\ "control" \in Sites /\ "workspace" # "control"
  BY SingleWriterParts
<1>2. LogsOK
  BY PartsOf
<1>3. C' = <<>> /\ W' = W
  BY <1>1, <1>2 DEF RemoveSessions, LogsOK, C, W
<1>4. MessagesInv' /\ FenceInv'
  BY <1>3, MessagesDropped DEF RemoveSessions, loopVars
<1>5. home = "workspace" /\ home' = home /\ removed' = "sessions" /\ restore' = restore
      /\ restore.state # "posting"
  BY DEF RemoveSessions
<1>6. Leads'
  BY <1>1, <1>3, <1>5, PrefixOfItself DEF Leads, ControlLeads
<1>7. RestoreInv'
  BY <1>3, <1>5 DEF RestoreInv, SInv
<1>8. QED
  BY <1>4, <1>6, <1>7 DEF SInv

LEMMA StopSyncSingle ==
  ASSUME IInv, IInv', SInv, StopSync
  PROVE  SInv'
<1>1. UNCHANGED <<log, home, restore, reply, queue, fence>> /\ removed = "sessions" /\ removed' = "stopped"
  BY DEF StopSync, siteVars, logVars
<1>2. C' = C /\ W' = W /\ Latest("workspace")' = Latest("workspace")
  BY <1>1 DEF C, W, Latest
<1>3. MessagesInv' /\ FenceInv'
  BY <1>1, <1>2, MessagesDropped
<1>4. home = "workspace" /\ ~ ControlLeads /\ ~ ControlLeads'
  <2>1. home = "workspace"
    BY <1>1 DEF SInv, RestoreInv
  <2>2. QED
    BY <1>1, <2>1 DEF ControlLeads
<1>5. Leads' /\ RestoreInv'
  BY <1>1, <1>2, <1>4 DEF SInv, Leads, RestoreInv
<1>6. QED
  BY <1>3, <1>5 DEF SInv

\* A crash in the middle of a replay: part of the message has been copied.
LEMMA CrashCopies ==
  ASSUME IInv, SInv, Crash
  PROVE  UNCHANGED log \/ (~ ControlLeads /\ Copied("control", "workspace"))
<1>1. MessagesOK
  BY PartsOf
<1>2. ASSUME NEW l \in Loops, CutOff("control", Replaying(l))
      PROVE  UNCHANGED log \/ (~ ControlLeads /\ Copied("control", "workspace"))
  <2>1. Replaying(l) \in Messages
    BY <1>1, ReplayingMessage
  <2>2. Genuine(Replaying(l))
    <3>1. Genuine(reply[l])
      BY DEF SInv, MessagesInv
    <3>2. ASSUME queue[l] # <<>>
          PROVE  Genuine(Head(queue[l]))
      <4>1. queue[l] \in Seq(Messages)
        BY <1>1 DEF MessagesOK
      <4>2. Head(queue[l]) = queue[l][1] /\ 1 \in 1..Len(queue[l])
        BY <3>2, <4>1
      <4>3. Genuine(queue[l][1])
        BY <4>2 DEF SInv, MessagesInv
      <4>4. QED
        BY <4>2, <4>3
    <3>3. QED
      BY <3>1, <3>2 DEF Replaying
  <2>3. QED
    BY <1>2, <2>1, <2>2, ControlCopies DEF Tried
<1>3. QED
  BY <1>2 DEF Crash, logVars

LEMMA WorkspaceCrashSingle ==
  ASSUME IInv, IInv', SInv, WorkspaceCrash
  PROVE  SInv'
<1>1. PostingInv /\ RestoreInv
  BY PartsOf DEF SInv
<1>2. UNCHANGED <<home, removed, reply, queue, fence>> /\ restore' = Abandoned
  BY DEF WorkspaceCrash
<1>3. CASE restore.state = "posting"
  <2>1. home = "workspace" /\ removed = "no" /\ restore'.state = "failed"
    BY <1>1, <1>2, <1>3 DEF RestoreInv, PostingInv, Abandoned, NoRestore
  <2>2. C' = C /\ IsPrefixOf(W', C) /\ MessagesInv' /\ FenceInv'
    BY <1>2, <1>3, BatchSingle DEF WorkspaceCrash, Tried
  <2>3. Leads' /\ RestoreInv'
    BY <1>2, <2>1, <2>2 DEF Leads, ControlLeads, RestoreInv
  <2>4. QED
    BY <2>2, <2>3 DEF SInv
<1>4. CASE restore.state # "posting"
  <2>1. UNCHANGED <<log, restore>>
    BY <1>2, <1>4 DEF WorkspaceCrash, Abandoned, logVars
  <2>2. QED
    BY <1>2, <2>1, QuietSingle
<1>5. QED
  BY <1>3, <1>4

LEMMA CrashSingle ==
  ASSUME IInv, IInv', SInv, Crash
  PROVE  SInv'
<1>1. UNCHANGED log \/ (~ ControlLeads /\ Copied("control", "workspace"))
  BY CrashCopies
<1>2. LogsOK
  BY PartsOf
<1>3. W' = W
  BY <1>1, <1>2 DEF Copied, W, LogsOK, Sites
<1>4. \A l \in Loops : reply'[l] = NoMessage /\ queue'[l] = <<>>
  BY DEF Crash
<1>5. \A l \in Loops : 1..Len(queue'[l]) = {}
  <2>1. Len(<<>>) = 0
    OBVIOUS
  <2>2. QED
    BY <1>4, <2>1
<1>6. fence'.state # "waiting"
  BY DEF Crash, NoRequest
<1>7. MessagesInv' /\ FenceInv'
  BY <1>3, <1>4, <1>5, <1>6, MessagesDropped
<1>8. restore' = restore \/ (restore.state = "posting" /\ restore'.state = "failed")
  BY DEF Crash, Abandoned, NoRestore
<1>9. UNCHANGED <<home, removed>>
  BY DEF Crash
<1>10. QED
  BY <1>1, <1>7, <1>8, <1>9, FollowStep

LEMMA InitSInv ==
  ASSUME Init
  PROVE  SInv
<1>1. C = <<>> /\ W = <<>> /\ home = "none" /\ removed = "no" /\ restore.state = "idle"
  BY DEF Init, C, W, Sites, NoRestore
<1>2. <<>> \in Seq(Events)
  OBVIOUS
<1>3. Leads /\ RestoreInv
  BY <1>1, <1>2, PrefixOfItself DEF Leads, ControlLeads, RestoreInv
<1>4. MessagesInv
  <2>1. \A l \in Loops : reply[l] = NoMessage /\ queue[l] = <<>>
    BY DEF Init
  <2>2. NoMessage.events = <<>> /\ Len(<<>>) = 0
    BY DEF NoMessage, Message
  <2>3. \A l \in Loops : Genuine(reply[l])
    BY <2>1, <2>2 DEF Genuine
  <2>4. ASSUME NEW l \in Loops PROVE 1..Len(queue[l]) = {}
    <3>1. Len(queue[l]) = 0
      BY <2>1, <2>2, Zenon
    <3>2. QED
      BY <3>1
  <2>5. QED
    BY <2>3, <2>4 DEF MessagesInv
<1>5. FenceInv
  BY DEF Init, NoRequest, FenceInv
<1>6. QED
  BY <1>3, <1>4, <1>5 DEF SInv

LEMMA StepSInv ==
  ASSUME IInv, IInv', SInv, SingleWriter, [Next]_vars
  PROVE  SInv'
<1>1. ASSUME NEW l \in Loops, LoopStep(l)
      PROVE  SInv'
  BY <1>1, LoopTopSingle, ConnectSSESingle, FetchHistorySingle, ReplayHistorySingle,
     SyncFailsSingle, StreamEventSingle, StreamEndsSingle, WakeSingle DEF LoopStep
<1>2. ASSUME NEW s \in Sites, Update(s)
      PROVE  SInv'
  <2>1. CASE Run(s)
    <3>1. IsPrefixOf(W, W')
      BY <1>2, <2>1, RunGrows DEF Update
    <3>2. FenceInv'
      BY <1>2, <3>1, WorkspaceGrows DEF Update, SInv
    <3>3. QED
      BY <1>2, <2>1, <3>2, UpdateSingle DEF Update, MayWrite
  <2>2. CASE TornRun(s)
    BY <1>2, <2>2, TornSingle DEF Update
  <2>3. QED
    BY <1>2, <2>1, <2>2 DEF Update
<1>3. ASSUME FenceOpens \/ FenceTimeout \/ UNCHANGED vars
      PROVE  SInv'
  <2>1. UNCHANGED <<log, home, restore, removed, reply, queue>>
    BY <1>3 DEF FenceOpens, FenceTimeout, vars, siteVars, logVars, loopVars
  <2>2. fence' = fence \/ fence'.state # "waiting"
    <3>1. fence \in Requests
      BY PartsOf DEF OtherOK
    <3>2. QED
      BY <1>3, <3>1 DEF FenceOpens, FenceTimeout, vars, NoRequest, Requests
  <2>3. QED
    BY <2>1, <2>2, QuietSingle
<1>4. ASSUME NEW s \in Sites, Create(s)
      PROVE  SInv'
  <2>1. CASE Run(s)
    BY <1>4, <2>1, CreateSingle
  <2>2. CASE TornRun(s)
    BY <1>4, <2>2, TornSingle DEF Create
  <2>3. QED
    BY <1>4, <2>1, <2>2 DEF Create
<1>5. ASSUME RestoreStart
      PROVE  SInv'
  <2>1. ControlLeads /\ removed = "no" /\ home' = "workspace" /\ "control" \in Sites
    BY <1>5 DEF RestoreStart, ControlLeads, Sites
  <2>2. CASE TornRun("control") /\ restore' = [NoRestore EXCEPT !.state = "failed"]
    <3>1. restore'.state = "failed"
      BY <2>2 DEF NoRestore
    <3>2. QED
      BY <1>5, <2>1, <2>2, <3>1, TornSingle DEF RestoreStart
  <2>3. QED
    BY <1>5, <2>2, RestoreStartSingle DEF RestoreStart
<1>6. QED
  BY <1>1, <1>2, <1>3, <1>4, <1>5, RestoreBatchSingle,
     RestoreFailsSingle, StartSyncSingle, ForwardSingle, RemoveSessionsSingle,
     StopSyncSingle, CrashSingle, WorkspaceCrashSingle DEF Next

LEMMA SingleWriterInvariance ==
  ASSUME SingleWriter
  PROVE  Spec => []SInv
<1>1. Init => SInv
  BY InitSInv
<1>2. IInv /\ IInv' /\ SInv /\ [Next]_vars => SInv'
  BY StepSInv
<1>3. QED
  BY <1>1, <1>2, Invariance, PTL DEF Spec

\* sessionRestore with one writer: when it reports success, the workspace has
\* every row, whatever earlier attempts lost, repeated or applied in part.
THEOREM RestoresAreComplete ==
  ASSUME SingleWriter
  PROVE  Spec => []RestoreComplete
<1>1. IInv /\ SInv => RestoreComplete
  BY DEF SInv, RestoreInv, IsPrefixOf, RestoreComplete, Latest, W
<1>2. QED
  BY <1>1, Invariance, SingleWriterInvariance, PTL

\* No other step answers the request.
LEMMA OnlyFenceOpens ==
  ASSUME Next, fence.state = "waiting", fence'.state = "synced"
  PROVE  FenceOpens
<1>1. ASSUME NEW l \in Loops, StartSync(l) \/ LoopStep(l)
      PROVE  fence' = fence
  BY <1>1 DEF StartSync, LoopStep, LoopTop, ConnectSSE, FetchHistory, ReplayHistory, SyncFails,
              StreamEvent, StreamEnds, Wake
<1>2. ASSUME NEW s \in Sites, Create(s) \/ Update(s)
      PROVE  fence' = fence
  BY <1>2 DEF Create, Update
<1>3. ASSUME \/ RestoreStart \/ RestoreBatch \/ RestoreFails \/ RemoveSessions \/ StopSync
             \/ WorkspaceCrash
      PROVE  fence' = fence
  BY <1>3 DEF RestoreStart, RestoreBatch, RestoreFails, RemoveSessions, StopSync, WorkspaceCrash
<1>4. ~ Forward /\ ~ FenceTimeout /\ ~ Crash
  BY DEF Forward, FenceTimeout, Crash, NoRequest
<1>5. QED
  BY <1>1, <1>2, <1>3, <1>4 DEF Next

\* Fence.wait compares sequence numbers, and with one writer that is enough:
\* the event it lets the client read here is the one the workspace wrote.
THEOREM FenceReadsYourWrites ==
  ASSUME SingleWriter
  PROVE  Spec => ReadYourWrites
<1> DEFINE A == fence.state = "waiting" /\ fence'.state = "synced"
                  => fence.at <= Latest("control") /\ log["control"][fence.at] = fence.event
<1>1. ASSUME IInv, SInv, [Next]_vars
      PROVE  [A]_vars
  <2>1. SUFFICES ASSUME Next, fence.state = "waiting", fence'.state = "synced"
                 PROVE  fence.at <= Latest("control") /\ C[fence.at] = fence.event
    BY <1>1 DEF C
  <2>2. Latest("control") >= fence.at
    BY <2>1, OnlyFenceOpens DEF FenceOpens
  <2>3. /\ Len(C) \in Nat /\ Len(W) \in Nat
        /\ Latest("control") = Len(C) /\ Latest("workspace") = Len(W)
    BY <1>1, SingleWriterParts
  <2>4. fence.at \in 1..Len(W) /\ W[fence.at] = fence.event
    BY <1>1, <2>1, <2>3 DEF SInv, FenceInv
  <2>5. fence.at \in 1..Len(C)
    BY <2>2, <2>3, <2>4
  <2>6. C[fence.at] = W[fence.at]
    BY <1>1, <2>4, <2>5 DEF SInv, Leads, IsPrefixOf
  <2>7. QED
    BY <2>3, <2>4, <2>5, <2>6
<1>2. IInv /\ SInv /\ [Next]_vars => [A]_vars
  BY <1>1
<1>3. QED
  BY <1>2, Invariance, SingleWriterInvariance, PTL DEF Spec, ReadYourWrites

-----------------------------------------------------------------------------
(* The two logs are copies of one.                                         *)

\* A write by the site with the longest log.
LEMMA WriteRefines ==
  ASSUME IInv, SInv, NEW s \in Sites, Run(s),
         \A o \in Sites : Len(log[o]) <= Len(log[s])
  PROVE  Abstract!LogNext
<1>1. writes' = writes + 1 /\ writes' \in Events
  BY RunKeeps DEF IInv
<1>2. Abstract!Write(s, writes + 1)
  BY DEF Run, Abstract!Write
<1>3. QED
  BY <1>1, <1>2 DEF Abstract!LogNext

LEMMA CopyRefines ==
  ASSUME IInv, NEW s \in Sites, NEW o \in Sites, Copied(s, o)
  PROVE  Abstract!LogNext \/ UNCHANGED log
<1>1. PICK t \in Seq(Events) : /\ log' = [log EXCEPT ![s] = t]
                              /\ IsPrefixOf(log[s], t)
                              /\ IsPrefixOf(t, log[o])
  BY DEF Copied
<1>2. LogsOK
  BY PartsOf
<1>3. /\ log[s] \in Seq(Events) /\ log[o] \in Seq(Events) /\ Len(t) \in Nat
      /\ Len(log[s]) \in Nat /\ Len(log[o]) \in Nat
  BY <1>2 DEF LogsOK
<1>4. Len(log[s]) <= Len(t) /\ Len(t) <= Len(log[o])
  BY <1>1 DEF IsPrefixOf
<1>5. CASE Len(log[s]) = Len(t)
  <2>1. log[s] = t
    <3>1. \A k \in 1..Len(log[s]) : log[s][k] = t[k]
      BY <1>1 DEF IsPrefixOf
    <3>2. QED
      BY <1>3, <1>5, <3>1, SeqEqual
  <2>2. QED
    BY <1>1, <1>2, <2>1 DEF LogsOK
<1>6. CASE Len(log[s]) < Len(t)
  <2> DEFINE n == Len(t)
             u == SubSeq(log[o], 1, n)
  <2>1. n \in Len(log[s]) + 1..Len(log[o]) /\ Len(log[s]) < Len(log[o]) /\ n \in Int /\ 1 <= n
    BY <1>3, <1>4, <1>6
  <2>2. \A k \in 1..n : log[o][k] \in Events
    <3>1. \A k \in 1..n : k \in 1..Len(log[o])
      BY <1>3, <1>4
    <3>2. QED
      BY <1>3, <3>1
  <2>3. u \in Seq(Events) /\ Len(u) = n /\ \A k \in 1..n : u[k] = log[o][k]
    <3>1. /\ u \in Seq(Events) /\ Len(u) = (IF 1 <= n THEN n - 1 + 1 ELSE 0)
          /\ \A k \in 1..n - 1 + 1 : u[k] = log[o][1 + k - 1]
      <4> HIDE DEF n
      <4>1. QED
        BY <2>1, <2>2, SubSeqProperties
    <3> HIDE DEF n, u
    <3>2. n - 1 + 1 = n /\ \A k \in 1..n : 1 + k - 1 = k
      BY <2>1
    <3>3. QED
      BY <2>1, <3>1, <3>2
  <2>4. t = u
    <3>1. \A k \in 1..Len(t) : t[k] = u[k]
      BY <1>1, <2>3 DEF IsPrefixOf
    <3> HIDE DEF u
    <3>2. QED
      BY <2>3, <3>1, SeqEqual
  <2>5. Abstract!TakeOver(s, o)
    BY <1>1, <2>1, <2>4 DEF Abstract!TakeOver
  <2>6. QED
    BY <2>5 DEF Abstract!LogNext
<1>7. QED
  BY <1>3, <1>4, <1>5, <1>6

LEMMA StepRefines ==
  ASSUME IInv, SInv, SingleWriter, [Next]_vars
  PROVE  [Abstract!LogNext]_log
<1>1. /\ C \in Seq(Events) /\ W \in Seq(Events) /\ Len(C) \in Nat /\ Len(W) \in Nat
      /\ "workspace" \in Sites /\ "control" \in Sites /\ "workspace" # "control"
      /\ \A o \in Sites : o = "control" \/ o = "workspace"
  BY SingleWriterParts
<1>2. MessagesOK /\ RestoreOK /\ PostingInv
  BY PartsOf
<1>3. ASSUME Len(W) <= Len(C), Run("control")
      PROVE  Abstract!LogNext
  <2>1. \A o \in Sites : Len(log[o]) <= Len(log["control"])
    BY <1>1, <1>3 DEF C, W
  <2>2. QED
    BY <1>1, <1>3, <2>1, WriteRefines
<1>4. ASSUME Len(C) <= Len(W), Run("workspace")
      PROVE  Abstract!LogNext
  <2>1. \A o \in Sites : Len(log[o]) <= Len(log["workspace"])
    BY <1>1, <1>4 DEF C, W
  <2>2. QED
    BY <1>1, <1>4, <2>1, WriteRefines
<1>5. ASSUME NEW s \in Sites, Create(s), Run(s)
      PROVE  Abstract!LogNext
  <2>1. C = <<>> /\ W = <<>> /\ Run(s)
    BY <1>5 DEF SInv, Leads, Create
  <2>2. Len(C) <= Len(W) /\ Len(W) <= Len(C)
    BY <1>1, <2>1
  <2>3. QED
    BY <1>1, <1>3, <1>4, <2>1, <2>2
<1>6. ASSUME NEW s \in Sites, Run(s), home = s, restore.state \in {"idle", "done"}
      PROVE  Abstract!LogNext
  <2>1. CASE s = "control"
    BY <1>3, <1>6, <2>1 DEF SInv, Leads, ControlLeads, IsPrefixOf
  <2>2. CASE s = "workspace"
    BY <1>4, <1>6, <2>2 DEF SInv, Leads, ControlLeads, IsPrefixOf
  <2>3. QED
    BY <1>1, <2>1, <2>2
<1>7. ASSUME RestoreStart, Run("control")
      PROVE  Abstract!LogNext
  BY <1>3, <1>7 DEF RestoreStart, SInv, Leads, ControlLeads, IsPrefixOf
<1>8. ASSUME RestoreBatch \/ RestoreFails \/ WorkspaceCrash
      PROVE  Abstract!LogNext \/ UNCHANGED log
  <2>1. UNCHANGED log \/ (restore.state = "posting" /\ Tried("workspace", Batch))
    BY <1>8 DEF RestoreBatch, RestoreFails, WorkspaceCrash, Tried, logVars
  <2>2. UNCHANGED log \/ Copied("workspace", "control")
    BY <2>1, BatchCopies
  <2>3. QED
    BY <1>1, <2>2, CopyRefines
<1>9. ASSUME NEW l \in Loops, StartSync(l) \/ LoopStep(l)
      PROVE  Abstract!LogNext \/ UNCHANGED log
  <2>1. reply[l] \in Messages /\ Genuine(reply[l])
    BY <1>2 DEF MessagesOK, SInv, MessagesInv
  <2>2. ASSUME queue[l] # <<>>
        PROVE  Head(queue[l]) \in Messages /\ Genuine(Head(queue[l]))
    <3>1. queue[l] \in Seq(Messages)
      BY <1>2 DEF MessagesOK
    <3>2. Head(queue[l]) = queue[l][1] /\ 1 \in 1..Len(queue[l]) /\ Head(queue[l]) \in Messages
      BY <2>2, <3>1
    <3>3. Genuine(queue[l][1])
      BY <3>2 DEF SInv, MessagesInv
    <3>4. QED
      BY <3>2, <3>3
  <2>3. CASE ReplayHistory(l) \/ SyncFails(l)
    <3>1. Tried("control", reply[l])
      BY <2>3 DEF ReplayHistory, SyncFails, Tried
    <3>2. QED
      BY <1>1, <2>1, <3>1, ControlCopies, CopyRefines
  <2>4. CASE StreamEvent(l)
    <3>1. Tried("control", Head(queue[l])) /\ queue[l] # <<>>
      BY <2>4 DEF StreamEvent, Tried
    <3>2. QED
      BY <1>1, <2>2, <3>1, ControlCopies, CopyRefines
  <2>5. CASE ~ ReplayHistory(l) /\ ~ SyncFails(l) /\ ~ StreamEvent(l)
    BY <1>9, <2>5 DEF StartSync, LoopStep, LoopTop, ConnectSSE, FetchHistory,
                      StreamEnds, Wake, siteVars, logVars
  <2>6. QED
    BY <2>3, <2>4, <2>5
<1>10. ASSUME RemoveSessions
       PROVE  Abstract!LogNext
  BY <1>1, <1>10 DEF RemoveSessions, Abstract!LogNext, Abstract!Forget
<1>11. ASSUME Crash
       PROVE  Abstract!LogNext \/ UNCHANGED log
  BY <1>1, <1>11, CrashCopies, CopyRefines
<1>12. ASSUME StopSync \/ FenceOpens \/ FenceTimeout \/ UNCHANGED vars
       PROVE  UNCHANGED log
  BY <1>12 DEF StopSync, FenceOpens, FenceTimeout, vars, siteVars, logVars
<1>13. ASSUME NEW s \in Sites, Update(s), Run(s)
       PROVE  Abstract!LogNext
  BY <1>6, <1>13 DEF Update, MayWrite
<1>14. ASSUME Forward
       PROVE  Abstract!LogNext
  BY <1>1, <1>6, <1>14 DEF Forward, MayWrite
<1>15. ASSUME NEW s \in Sites, Create(s) \/ Update(s)
       PROVE  Abstract!LogNext \/ UNCHANGED log
  BY <1>5, <1>13, <1>15 DEF Create, Update, TornRun
<1>16. ASSUME RestoreStart
       PROVE  Abstract!LogNext \/ UNCHANGED log
  BY <1>7, <1>16 DEF RestoreStart, TornRun
<1>17. QED
  BY <1>8, <1>9, <1>10, <1>11, <1>12, <1>14, <1>15, <1>16 DEF Next

\* sync/README.md asks for one writer at a time. Under that, and while nobody
\* writes during a restore or after a failed one, whatever is lost, repeated,
\* refused or torn by a crash, the logs of the control server and the workspace
\* are copies of one log.
THEOREM SyncImplementsLog ==
  ASSUME SingleWriter
  PROVE  Spec => ImplementsLog
<1>1. Init => Abstract!EmptyLogs
  BY DEF Init, Abstract!EmptyLogs
<1>2. IInv /\ SInv /\ [Next]_vars => [Abstract!LogNext]_log
  BY StepRefines
<1>3. QED
  BY <1>1, <1>2, Invariance, SingleWriterInvariance, PTL
  DEF Spec, ImplementsLog, Abstract!LogSpec

=============================================================================
