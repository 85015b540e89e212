---------------------------- MODULE WorkspaceSync ----------------------------
(***************************************************************************)
(* One session's event log on two sites (sync/index.ts): the control       *)
(* server and a workspace. sessionRestore hands the log of a session over  *)
(* to the workspace in batches; afterwards the control server follows the  *)
(* workspace with sync loops (control-plane/workspace.ts): connect the     *)
(* event stream, fetch the history, replay it, then replay the stream. A   *)
(* request the control server proxies to the workspace waits on a fence    *)
(* until the events it caused have been replayed.                          *)
(*                                                                         *)
(* The event with sequence number n is at place n + 1 of a log; an event   *)
(* is the number of the write that made it. Events travel in messages: the *)
(* place of the first one, and the events from there on.                   *)
(***************************************************************************)
EXTENDS Naturals, Sequences, FiniteSets

CONSTANTS
  Loops,         \* the sync loops that may run at a time
  BatchSize,     \* events of a restore request (10 in the code)
  SingleWriter,  \* TRUE: as sync/README.md asks, one site at a time writes, and
                 \* none while a restore is under way or has failed
  Faults,        \* kinds of faults, of "crash", "stream", "request", "commit"
  MaxFaults,     \* bound: faults
  MaxEvents      \* bound: writes

NoLoop == "none"

ASSUME SyncAssumption ==
  /\ BatchSize \in Nat \ {0} /\ MaxEvents \in Nat /\ MaxFaults \in Nat
  /\ SingleWriter \in BOOLEAN
  /\ NoLoop \notin Loops

Sites == {"control", "workspace"}
Events == 1..MaxEvents

VARIABLES
  log,      \* EventTable and EventSequenceTable of each site
  proj,     \* the events whose projections the site has committed
  writes,   \* number of writes so far
  home,     \* where the session's requests are routed: its workspaceID
  restore,  \* sessionRestore: its state, the rows it read, how many it sent
  removed,  \* Workspace.remove: "no", "sessions", "stopped"
  pc,       \* where each sync loop is
  reply,    \* the history it fetched
  queue,    \* what its event stream holds
  missed,   \* a replay from the stream failed since it was opened
  closed,   \* the workspace died since it was opened: nothing more comes
  signal,   \* its abort signal
  aborts,   \* the loop whose controller is in `aborts`
  status,   \* the workspace's entry in `connections`
  fence,    \* the proxied request: its state, the place it waits for, its event
  faults    \* number of faults so far

logVars == <<log, proj>>
siteVars == <<logVars, writes, home>>
loopVars == <<pc, reply, queue, missed, closed, signal>>
connVars == <<aborts, status>>
vars == <<siteVars, restore, removed, loopVars, connVars, fence, faults>>

Latest(s) == Len(log[s])
Logged(s) == {log[s][k] : k \in 1..Latest(s)}
Message(n, es) == [from |-> n, events |-> es]
NoMessage == Message(1, <<>>)
LastOf(m) == m.from + Len(m.events) - 1

\* Mutant: the stream delivers only what is emitted after the history.
Connected_Late(l) == pc[l] = "streaming"

Connected(l) == pc[l] \in {"asking", "replaying", "streaming"}
Listening(l) == Connected(l) /\ ~closed[l]
Up == removed # "stopped"

NoRestore == [state |-> "idle", rows |-> <<>>, sent |-> 0]
NoRequest == [state |-> "idle", at |-> 0, event |-> 0]

Init ==
  /\ log = [s \in Sites |-> <<>>]
  /\ proj = [s \in Sites |-> {}]
  /\ writes = 0 /\ home = "none"
  /\ restore = NoRestore /\ removed = "no"
  /\ pc = [l \in Loops |-> "off"]
  /\ reply = [l \in Loops |-> NoMessage]
  /\ queue = [l \in Loops |-> <<>>]
  /\ missed = [l \in Loops |-> FALSE]
  /\ closed = [l \in Loops |-> FALSE]
  /\ signal = [l \in Loops |-> FALSE]
  /\ aborts = NoLoop /\ status = "none"
  /\ fence = NoRequest /\ faults = 0

Fault(kind) == kind \in Faults /\ faults < MaxFaults /\ faults' = faults + 1

-----------------------------------------------------------------------------
(* SyncEvent. process() commits the projection to the project's database   *)
(* first and then the event to the global one, and may fail or die between *)
(* the two. The first write is the session's creation, whose projector     *)
(* inserts the session's row: it throws if the row is there.               *)

RowThere(s) == 1 \in proj[s]

\* replay(), for each event of a message: a known number is ignored, a gap and
\* a projector that fails throw.
Stale(s, m) == m.events = <<>> \/ LastOf(m) <= Latest(s)
FirstNew(s, m) == m.events[Latest(s) + 2 - m.from]

Fits(s, m) == m.from <= Latest(s) + 1 /\ (FirstNew(s, m) = 1 => ~RowThere(s))

Extended(s, m, n) ==
  [k \in 1..n |-> IF k <= Latest(s) THEN log[s][k] ELSE m.events[k - m.from + 1]]
New(s, m, n) == {m.events[k - m.from + 1] : k \in Latest(s) + 1..n}

\* The events of the message up to place n.
Apply(s, m, n) ==
  /\ log' = [log EXCEPT ![s] = Extended(s, m, n)]
  /\ proj' = [proj EXCEPT ![s] = @ \cup New(s, m, n)]

Replay(s, m) ==
  IF Stale(s, m) THEN UNCHANGED logVars
                 ELSE Fits(s, m) /\ Apply(s, m, LastOf(m))

\* Without the session's row, an update of the session throws and one of a
\* message or a part is passed over: the events before the one that throws
\* are in.
Rowless(s, m) == Fits(s, m) /\ FirstNew(s, m) # 1 /\ ~RowThere(s)

Refused(s, m) ==
  /\ ~Stale(s, m)
  /\ \/ ~Fits(s, m) /\ UNCHANGED logVars
     \/ Rowless(s, m) /\ \E n \in Latest(s)..LastOf(m) - 1 : Apply(s, m, n)

\* Mutant: the event is committed before its projection.
Tear_LogFirst(s, m, n) ==
  /\ log' = [log EXCEPT ![s] = Extended(s, m, n + 1)]
  /\ proj' = [proj EXCEPT ![s] = @ \cup New(s, m, n)]

\* The second commit of an event fails: its projection is stored, it is not.
Tear(s, m, n) ==
  /\ log' = [log EXCEPT ![s] = Extended(s, m, n)]
  /\ proj' = [proj EXCEPT ![s] = @ \cup New(s, m, n + 1)]

\* A replay that ends early, between two events or in the middle of one.
CutOff(s, m) ==
  /\ ~Stale(s, m) /\ Fits(s, m)
  /\ \E n \in Latest(s)..LastOf(m) - 1 : Apply(s, m, n) \/ Tear(s, m, n)

\* run(): the next number, the projection, the event; then the event goes to
\* the streams that are open.
Run(s) ==
  LET n == Latest(s) + 1 IN
  /\ writes < MaxEvents
  /\ writes' = writes + 1
  /\ log' = [log EXCEPT ![s] = Append(@, writes + 1)]
  /\ proj' = [proj EXCEPT ![s] = @ \cup {writes + 1}]
  /\ queue' = [l \in Loops |->
                 IF s = "workspace" /\ Listening(l)
                   THEN Append(queue[l], Message(n, <<writes + 1>>)) ELSE queue[l]]
  /\ UNCHANGED faults

\* run() whose outer transaction, the global one, does not commit: it throws
\* (or the process dies there, and a crash follows). The projection stays.
TornRun(s) ==
  /\ Fault("commit")
  /\ writes < MaxEvents
  /\ writes' = writes + 1
  /\ proj' = [proj EXCEPT ![s] = @ \cup {writes + 1}]
  /\ UNCHANGED <<log, queue>>

\* The session's first event: Session.Event.Created.
Create(s) ==
  /\ home = "none"
  /\ home' = s
  /\ Run(s) \/ TornRun(s)
  /\ UNCHANGED <<restore, removed, pc, reply, missed, closed, signal, connVars, fence>>

\* A turn that was started before the hand-over writes on the control server
\* still, and the workspace may be written to before it is complete, unless
\* somebody sees to it that one site writes.
MayWrite(s) ==
  /\ RowThere(s) /\ Up
  /\ SingleWriter => home = s /\ restore.state \in {"idle", "done"}

Update(s) ==
  /\ MayWrite(s)
  /\ Run(s) \/ TornRun(s)
  /\ UNCHANGED <<home, restore, removed, pc, reply, missed, closed, signal, connVars, fence>>

-----------------------------------------------------------------------------
(* sessionRestore.                                                         *)

\* Mutant: the rows are read before the session is switched.
RestoreStart_ReadsFirst ==
  /\ home = "control" \/ restore.state = "failed"
  /\ restore.state # "posting"
  /\ RowThere("control") /\ removed = "no"
  /\ home' = "workspace"
  /\ Run("control")
  /\ restore' = [state |-> "posting", rows |-> log["control"], sent |-> 0]
  /\ UNCHANGED <<removed, pc, reply, missed, closed, signal, connVars, fence>>

\* The session is switched to the workspace first, by an event of its own;
\* then its rows are read.
RestoreStart ==
  /\ home = "control" \/ restore.state = "failed"
  /\ restore.state # "posting"
  /\ RowThere("control") /\ removed = "no"
  /\ home' = "workspace"
  /\ \/ /\ Run("control")
        /\ restore' = [state |-> "posting", rows |-> log'["control"], sent |-> 0]
     \/ /\ TornRun("control")
        /\ restore' = [NoRestore EXCEPT !.state = "failed"]
  /\ UNCHANGED <<removed, pc, reply, missed, closed, signal, connVars, fence>>

Batch ==
  LET rest == Len(restore.rows) - restore.sent
      size == IF rest < BatchSize THEN rest ELSE BatchSize
  IN  Message(restore.sent + 1,
              SubSeq(restore.rows, restore.sent + 1, restore.sent + size))

\* Mutant: the batches are cut one event too far apart.
RestoreBatch_Skips ==
  /\ restore.state = "posting"
  /\ Replay("workspace", Batch)
  /\ restore' = [restore EXCEPT
                   !.sent = LastOf(Batch) + 1,
                   !.state = IF LastOf(Batch) = Len(restore.rows) THEN "done" ELSE @]
  /\ UNCHANGED <<writes, home, removed, loopVars, connVars, fence, faults>>

\* POST /sync/replay is answered.
RestoreBatch ==
  /\ restore.state = "posting"
  /\ Replay("workspace", Batch)
  /\ restore' = [restore EXCEPT
                   !.sent = LastOf(Batch),
                   !.state = IF LastOf(Batch) = Len(restore.rows) THEN "done" ELSE @]
  /\ UNCHANGED <<writes, home, removed, loopVars, connVars, fence, faults>>

\* Mutant: the status of the answer is not looked at.
RestoreFails_Unchecked ==
  /\ restore.state = "posting"
  /\ Fault("request")
  /\ restore' = [restore EXCEPT
                   !.sent = LastOf(Batch),
                   !.state = IF LastOf(Batch) = Len(restore.rows) THEN "done" ELSE @]
  /\ UNCHANGED <<siteVars, removed, loopVars, connVars, fence>>

\* The batch is refused, the request or its answer is lost, or the workspace
\* fails in the middle of it.
RestoreFails ==
  /\ restore.state = "posting"
  /\ \/ Refused("workspace", Batch) /\ UNCHANGED faults
     \/ Fault("request") /\ (Replay("workspace", Batch) \/ UNCHANGED logVars)
     \/ Fault("commit") /\ CutOff("workspace", Batch)
  /\ restore' = [NoRestore EXCEPT !.state = "failed"]
  /\ UNCHANGED <<writes, home, removed, loopVars, connVars, fence>>

-----------------------------------------------------------------------------
(* The sync loops.                                                         *)

\* setStatus: nothing happens if the status is the same; an error takes the
\* controller out of `aborts`, whichever loop has it.
SetStatus(st) ==
  /\ status' = st
  /\ aborts' = IF st = "error" /\ status # "error" THEN NoLoop ELSE aborts

Go(l, p) == pc' = [pc EXCEPT ![l] = p]

StartSync(l) ==
  /\ removed = "no"
  /\ aborts = NoLoop /\ pc[l] = "off"
  /\ Go(l, "top")
  /\ aborts' = l /\ status' = "disconnected"
  /\ signal' = [signal EXCEPT ![l] = FALSE]
  /\ UNCHANGED <<siteVars, restore, removed, reply, queue, missed, closed, fence, faults>>

LoopTop(l) ==
  /\ pc[l] = "top"
  /\ IF signal[l] THEN Go(l, "off") /\ UNCHANGED connVars
                  ELSE Go(l, "connecting") /\ SetStatus("connecting")
  /\ UNCHANGED <<siteVars, restore, removed, reply, queue, missed, closed, signal, fence, faults>>

\* connectSSE: from here on the stream holds what the workspace emits.
ConnectSSE(l) ==
  /\ pc[l] = "connecting" /\ Up /\ ~signal[l]
  /\ Go(l, "asking")
  /\ queue' = [queue EXCEPT ![l] = <<>>]
  /\ missed' = [missed EXCEPT ![l] = FALSE]
  /\ closed' = [closed EXCEPT ![l] = FALSE]
  /\ UNCHANGED <<siteVars, restore, removed, reply, signal, connVars, fence, faults>>

\* The workspace answers with the events after the last known one.
History(known) ==
  Message(known + 1, SubSeq(log["workspace"], known + 1, Latest("workspace")))

\* POST /sync/history, with the last number known here if the session's row
\* says that it belongs to the workspace.
FetchHistory(l) ==
  /\ pc[l] = "asking" /\ Up /\ ~signal[l]
  /\ Go(l, "replaying")
  /\ \E known \in {0, Latest("control")} :
       reply' = [reply EXCEPT ![l] = History(known)]
  /\ UNCHANGED <<siteVars, restore, removed, queue, missed, closed, signal, connVars, fence, faults>>

ReplayHistory(l) ==
  /\ pc[l] = "replaying"
  /\ Replay("control", reply[l])
  /\ Go(l, "streaming")
  /\ reply' = [reply EXCEPT ![l] = NoMessage]
  /\ SetStatus("connected")
  /\ UNCHANGED <<writes, home, restore, removed, queue, missed, closed, signal, fence, faults>>

\* The catch clause: a request failed, or the history could not be replayed.
SyncFails(l) ==
  /\ \/ /\ pc[l] \in {"connecting", "asking"}
        /\ ((signal[l] \/ ~Up) /\ UNCHANGED faults) \/ Fault("request")
        /\ UNCHANGED logVars
     \/ /\ pc[l] = "replaying"
        /\ \/ Refused("control", reply[l]) /\ UNCHANGED faults
           \/ Fault("commit") /\ CutOff("control", reply[l])
  /\ Go(l, "sleeping")
  /\ reply' = [reply EXCEPT ![l] = NoMessage]
  /\ queue' = [queue EXCEPT ![l] = <<>>]
  /\ SetStatus("error")
  /\ UNCHANGED <<writes, home, restore, removed, missed, closed, signal, fence>>

\* parseSSE's callback: a replay that throws is logged, and the stream goes on.
StreamEvent(l) ==
  /\ pc[l] = "streaming" /\ queue[l] # <<>>
  /\ \/ /\ Replay("control", Head(queue[l]))
        /\ UNCHANGED <<missed, faults>>
     \/ /\ \/ Refused("control", Head(queue[l])) /\ UNCHANGED faults
           \/ Fault("commit") /\ CutOff("control", Head(queue[l]))
        /\ missed' = [missed EXCEPT ![l] = TRUE]
  /\ queue' = [queue EXCEPT ![l] = Tail(@)]
  /\ UNCHANGED <<writes, home, restore, removed, pc, reply, closed, signal, connVars, fence>>

StreamEnds(l) ==
  /\ pc[l] = "streaming"
  /\ ((signal[l] \/ closed[l] \/ ~Up) /\ UNCHANGED faults) \/ Fault("stream")
  /\ Go(l, "sleeping")
  /\ queue' = [queue EXCEPT ![l] = <<>>]
  /\ SetStatus("disconnected")
  /\ UNCHANGED <<siteVars, restore, removed, reply, missed, closed, signal, fence>>

\* Mutant: no attempt follows a lost connection.
Wake_Never(l) == FALSE

Wake(l) ==
  /\ pc[l] = "sleeping"
  /\ Go(l, "top")
  /\ UNCHANGED <<siteVars, restore, removed, reply, queue, missed, closed, signal, connVars,
                 fence, faults>>

-----------------------------------------------------------------------------
(* The proxy and its fence.                                                *)

\* FenceMiddleware: the numbers a request has moved, here that of its one event.
Moved == Latest("workspace") + 1

\* http(): the check for a broken sync connection tests a promise, so every
\* request is forwarded. The workspace handles it and answers with the number
\* the fence is to wait for.
Forward ==
  /\ fence.state # "waiting"
  /\ home = "workspace" /\ MayWrite("workspace")
  /\ Run("workspace")
  /\ fence' = [state |-> "waiting", at |-> Moved, event |-> writes + 1]
  /\ UNCHANGED <<home, restore, removed, pc, reply, missed, closed, signal, connVars>>

\* Mutant: the fence opens one event too early.
FenceOpens_Early ==
  /\ fence.state = "waiting"
  /\ Latest("control") + 1 >= fence.at
  /\ fence' = [fence EXCEPT !.state = "synced"]
  /\ UNCHANGED <<siteVars, restore, removed, loopVars, connVars, faults>>

\* waitForSync: synced, or five seconds.
FenceOpens ==
  /\ fence.state = "waiting"
  /\ Latest("control") >= fence.at
  /\ fence' = [fence EXCEPT !.state = "synced"]
  /\ UNCHANGED <<siteVars, restore, removed, loopVars, connVars, faults>>

FenceTimeout ==
  /\ fence.state = "waiting"
  /\ fence' = NoRequest
  /\ UNCHANGED <<siteVars, restore, removed, loopVars, connVars, faults>>

-----------------------------------------------------------------------------
(* Workspace.remove: the sessions first, then stopSync and the workspace   *)
(* itself.                                                                 *)

RemoveSessions ==
  /\ removed = "no" /\ home = "workspace" /\ restore.state # "posting"
  /\ removed' = "sessions"
  /\ log' = [log EXCEPT !["control"] = <<>>]
  /\ proj' = [proj EXCEPT !["control"] = {}]
  /\ UNCHANGED <<writes, home, restore, loopVars, connVars, fence, faults>>

StopSync ==
  /\ removed = "sessions"
  /\ removed' = "stopped"
  /\ signal' = [l \in Loops |-> signal[l] \/ l = aborts]
  /\ aborts' = NoLoop /\ status' = "none"
  /\ UNCHANGED <<siteVars, restore, pc, reply, queue, missed, closed, fence, faults>>

-----------------------------------------------------------------------------
(* A process dies and is started again, possibly in the middle of a replay.*)

Replaying(l) ==
  IF pc[l] = "streaming" /\ queue[l] # <<>> THEN Head(queue[l]) ELSE reply[l]

Abandoned ==
  IF restore.state = "posting" THEN [NoRestore EXCEPT !.state = "failed"] ELSE restore

\* The control server, with its loops, its restore and its fence.
Crash ==
  /\ Fault("crash")
  /\ UNCHANGED logVars \/ \E l \in Loops : CutOff("control", Replaying(l))
  /\ restore' = Abandoned
  /\ pc' = [l \in Loops |-> "off"]
  /\ reply' = [l \in Loops |-> NoMessage]
  /\ queue' = [l \in Loops |-> <<>>]
  /\ closed' = [l \in Loops |-> FALSE]
  /\ aborts' = NoLoop /\ status' = "none"
  /\ fence' = NoRequest
  /\ UNCHANGED <<writes, home, removed, missed, signal>>

\* The workspace: its streams end once they are read, and the batch it was
\* sent is not answered.
WorkspaceCrash ==
  /\ Fault("crash") /\ Up
  /\ UNCHANGED logVars \/ (restore.state = "posting" /\ CutOff("workspace", Batch))
  /\ restore' = Abandoned
  /\ closed' = [l \in Loops |-> closed[l] \/ Connected(l)]
  /\ UNCHANGED <<writes, home, removed, pc, reply, queue, missed, signal, connVars, fence>>

-----------------------------------------------------------------------------
LoopStep(l) ==
  \/ LoopTop(l) \/ ConnectSSE(l) \/ FetchHistory(l) \/ ReplayHistory(l) \/ SyncFails(l)
  \/ StreamEvent(l) \/ StreamEnds(l) \/ Wake(l)

Next ==
  \/ \E s \in Sites : Create(s) \/ Update(s)
  \/ RestoreStart \/ RestoreBatch \/ RestoreFails
  \/ \E l \in Loops : StartSync(l) \/ LoopStep(l)
  \/ Forward \/ FenceOpens \/ FenceTimeout
  \/ RemoveSessions \/ StopSync \/ Crash \/ WorkspaceCrash

\* A loop that was started goes on. Nothing is assumed of users, and of faults
\* only that their number is bounded.
Fairness == \A l \in Loops : WF_vars(LoopStep(l))

Spec == Init /\ [][Next]_vars /\ Fairness

-----------------------------------------------------------------------------
Messages == [from : Nat \ {0}, events : Seq(Events)]

(* Well-typed states. *)
TypeOK ==
  /\ log \in [Sites -> Seq(Events)] /\ proj \in [Sites -> SUBSET Events]
  /\ writes \in 0..MaxEvents /\ home \in Sites \cup {"none"}
  /\ restore \in [state : {"idle", "posting", "failed", "done"}, rows : Seq(Events),
                  sent : Nat]
  /\ restore.sent <= Len(restore.rows)
  /\ removed \in {"no", "sessions", "stopped"}
  /\ pc \in [Loops -> {"off", "top", "connecting", "asking", "replaying", "streaming",
                       "sleeping"}]
  /\ reply \in [Loops -> Messages] /\ queue \in [Loops -> Seq(Messages)]
  /\ signal \in [Loops -> BOOLEAN] /\ missed \in [Loops -> BOOLEAN]
  /\ closed \in [Loops -> BOOLEAN]
  /\ aborts \in Loops \cup {NoLoop}
  /\ status \in {"none", "disconnected", "connecting", "connected", "error"}
  /\ fence \in [state : {"idle", "waiting", "synced"}, at : Nat, event : Nat]
  /\ faults \in 0..MaxFaults

(* With one writer at a time, the two logs are copies of one: whatever is lost,
   repeated, refused or half done, a site only ever appends what is new to both,
   takes over what the other has, or forgets the session. *)
Abstract == INSTANCE ReplicatedLog
ImplementsLog == Abstract!LogSpec

\* The events that are projected at a site and not in its log.
Ahead(s) == proj[s] \ Logged(s)

(* The two commits of process() may be torn, in run() and in a replay, at
   either site, by a crash or a commit that fails, but only one way round: no
   event is in a log whose projection was lost, and each fault leaves at most
   one event that is projected and in no log of that site, however many
   writes, replays and restores follow. *)
CrashConsistent ==
  /\ \A s \in Sites : Logged(s) \subseteq proj[s]
  /\ Cardinality(Ahead("control")) + Cardinality(Ahead("workspace")) <= faults

(* The stream is connected before the history is fetched: once a loop streams,
   and as long as no replay failed and the workspace lives, every event of the
   workspace that is not here yet is still in the stream. *)
StreamCovers ==
  \A l \in Loops :
    pc[l] = "streaming" /\ ~missed[l] /\ ~closed[l] /\ removed = "no" =>
      \A k \in Latest("control") + 1..Latest("workspace") :
        \E i \in 1..Len(queue[l]) : queue[l][i].from = k

(* A restore that reports success has brought every row it read to the
   workspace, also after failed attempts that were applied in part. *)
RestoreComplete ==
  restore.state = "done" =>
    /\ Len(restore.rows) <= Latest("workspace")
    /\ \A k \in 1..Len(restore.rows) : log["workspace"][k] = restore.rows[k]

(* The fence compares numbers only; still, when it opens, the event the request
   wrote in the workspace is the one at that place here. *)
ReadYourWrites ==
  [][fence.state = "waiting" /\ fence'.state = "synced"
       => fence.at <= Latest("control") /\ log["control"][fence.at] = fence.event]_vars

\* The session's creation is projected at a site and not in its log.
Torn == \E s \in Sites : 1 \in Ahead(s)

(* A workspace that is followed is caught up with, over broken streams, failed
   requests, torn writes and replays and a workspace that dies, unless the
   server dies, a replay from an open stream fails, which nobody repeats, or the
   session's creation was torn: where it is projected its projector cannot run
   again, and where it is not logged nobody else gets it. *)
CaughtUp ==
  (\E l \in Loops : pc[l] # "off") ~>
    \/ Latest("control") >= Latest("workspace")
    \/ removed # "no" \/ Torn
    \/ \E l \in Loops : pc[l] = "streaming" /\ missed[l]
    \/ \A l \in Loops : pc[l] = "off"

(* A request is forwarded to a workspace only while its events are followed:
   otherwise the fence cannot open. *)
ForwardedWhileSyncing ==
  [][fence.state # "waiting" /\ fence'.state = "waiting" => aborts # NoLoop]_vars

=============================================================================
