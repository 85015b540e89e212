------------------------------ MODULE AgentTurn ------------------------------
(***************************************************************************)
(* One session's agent turns. A prompt (session/prompt.ts) delegates its   *)
(* turn to a run of the Rust loop (routes/agent.rs) and then polls the     *)
(* shared database: it executes the tool calls the run delegates, posts    *)
(* their results back and decides from the rows, from the run's event      *)
(* stream, from a liveness probe and from a watchdog when the turn is      *)
(* over. Turns are not serialised: the project's task lock is re-entrant   *)
(* for one session, so a prompt that arrives while another is polled       *)
(* supersedes its run.                                                     *)
(*                                                                         *)
(* Messages are the session's assistant rows in order; a row's place is    *)
(* its id. A run delegates at most one call per round.                     *)
(***************************************************************************)
EXTENDS Naturals, Sequences, FiniteSets, TLC

CONSTANTS
  Turns,         \* the prompts
  LadderLength,  \* entries of OUTPUT_RETRY_LADDER (5 in the code)
  MaxOverflow,   \* MAX_OVERFLOW_RETRIES (3 in the code)
  ConfirmLimit,  \* COMPLETION_CONFIRM_LIMIT (2 in the code)
  Failures,      \* what the error text of a failed request says: "overflow" has
                 \* the word context_overflow in it, "window" reports an overflow
                 \* in the provider's words, "max_tokens", "plain"
  MayHang,       \* TRUE: the model of a run may stop answering
  MaxCancels,    \* bound: how often the user presses stop
  MaxRounds,     \* bound: rounds of a run that go on
  MaxRuns        \* bound: runs that are started; later requests are refused

ASSUME AgentTurnAssumption ==
  /\ {LadderLength, MaxOverflow, ConfirmLimit, MaxCancels, MaxRounds, MaxRuns}
       \subseteq Nat
  /\ Failures \subseteq {"plain", "overflow", "window", "max_tokens"}
  /\ MayHang \in BOOLEAN

Runs == 1..MaxRuns
Calls == Runs \X (1..MaxRounds)
Errors == Failures \cup {"none", "plain", "aborted"}

VARIABLES
  \* What the server process keeps for the session.
  aborted,    \* the session is in abortedSessions
  owner,      \* who writes assistant rows: session/ownership.ts
  overflows,  \* overflowRetries
  stop,       \* abort route: "idle", or "cancel" when only the run is left to cancel
  cancels,    \* how often stop was pressed
  \* The prompts.
  pc,         \* where the prompt is
  prev,       \* prevLastAssistantId
  handled,    \* handledCallIDs
  exec,       \* the calls it is executing
  gone,       \* goneSince: the last probe found no run
  result,     \* the message the turn returns, 0 for none
  ladder,     \* how far down OUTPUT_RETRY_LADDER the turn went
  source,     \* the run whose event stream it reads, 0 for none
  inbox,      \* the first terminal event on that stream
  sseDone,    \* the terminal event was received
  \* The runs.
  started,    \* number of runs
  loop,       \* where the run is
  cancelled,  \* its CancellationToken
  round, confirms,
  failure,    \* last_error
  current,    \* the run in agent_cancellations and runloop_event_buses
  metrics,    \* loop_metrics has an entry for the session
  \* The database and the registry of awaited results.
  msgs, part, waiting,
  tries       \* history: how often the server executed a call

pollVars == <<prev, handled, exec, gone, source, inbox, sseDone>>
turnVars == <<pc, pollVars, result, ladder>>
stepVars == <<started, cancelled, failure>>
slotVars == <<current, metrics>>
runVars == <<stepVars, slotVars, loop, round, confirms>>
procVars == <<aborted, owner, overflows, stop, cancels>>
dbVars == <<msgs, part, waiting>>
vars == <<turnVars, runVars, procVars, dbVars, tries>>

Symmetry == Permutations(Turns)

Alive(r) == loop[r] \notin {"none", "refused", "gone"}
AtWork(t) == pc[t] \notin {"idle", "done"}
Last == Len(msgs)
New(t) == Last > prev[t]
Message(r, f, e) == [run |-> r, finish |-> f, error |-> e]
Pending == {c \in Calls : part[c] = "pending"}
Call(r) == <<r, round[r]>>
Go(t, l) == pc' = [pc EXCEPT ![t] = l]

Init ==
  /\ aborted = FALSE /\ owner = "ts" /\ overflows = 0 /\ stop = "idle" /\ cancels = 0
  /\ pc = [t \in Turns |-> "idle"]
  /\ prev = [t \in Turns |-> 0]
  /\ handled = [t \in Turns |-> {}]
  /\ exec = [t \in Turns |-> {}]
  /\ gone = [t \in Turns |-> FALSE]
  /\ result = [t \in Turns |-> 0]
  /\ ladder = [t \in Turns |-> 0]
  /\ source = [t \in Turns |-> 0]
  /\ inbox = [t \in Turns |-> "none"]
  /\ sseDone = [t \in Turns |-> FALSE]
  /\ started = 0 /\ current = 0 /\ metrics = FALSE
  /\ loop = [r \in Runs |-> "none"]
  /\ cancelled = [r \in Runs |-> FALSE]
  /\ round = [r \in Runs |-> 0]
  /\ confirms = [r \in Runs |-> 0]
  /\ failure = [r \in Runs |-> "none"]
  /\ msgs = <<>> /\ waiting = {}
  /\ part = [c \in Calls |-> "none"]
  /\ tries = [c \in Calls |-> 0]

-----------------------------------------------------------------------------
(* Delegating a turn: delegateToRustRunLoop.                               *)

\* The delegation, and each retry of it, first clears the abort flag; the
\* pre-flight requests follow.
Delegate(t) ==
  /\ pc[t] \in {"idle", "again"}
  /\ Go(t, "preflight")
  /\ aborted' = FALSE
  /\ UNCHANGED <<pollVars, result, ladder, runVars, owner, overflows, stop, cancels,
                 dbVars, tries>>

\* ownership.markRust, then the request goes out.
MarkRust(t) ==
  /\ pc[t] = "preflight"
  /\ Go(t, "posting")
  /\ owner' = "rust"
  /\ UNCHANGED <<pollVars, result, ladder, runVars, aborted, overflows, stop, cancels,
                 dbVars, tries>>

\* run_loop_handler: the new run takes the session's slot and cancels the run
\* that had it; the loop itself waits for the session lock. If the session
\* cannot be read then, the run is refused and keeps the slot.
Register(r, l) ==
  /\ started' = r
  /\ loop' = [loop EXCEPT ![r] = l]
  /\ cancelled' = [s \in Runs |-> cancelled[s] \/ (s = current)]
  /\ current' = r
  /\ UNCHANGED <<round, confirms, failure, metrics>>

\* The session is not there: the slot is taken and given back, and the run that
\* had it is cancelled all the same.
RejectRun ==
  /\ cancelled' = [s \in Runs |-> cancelled[s] \/ (s = current)]
  /\ current' = 0
  /\ metrics' = FALSE
  /\ UNCHANGED <<started, loop, round, confirms, failure>>

PostRunLoop(t) ==
  /\ pc[t] = "posting"
  /\ \/ started < MaxRuns /\ Register(started + 1, "lock") /\ Go(t, "snapshot")
     \/ started < MaxRuns /\ Register(started + 1, "refused") /\ Go(t, "settle")
     \/ RejectRun /\ Go(t, "settle")
     \/ Go(t, "settle") /\ UNCHANGED runVars     \* the request fails
  /\ UNCHANGED <<pollVars, result, ladder, procVars, dbVars, tries>>

\* The poll starts from the assistant row that is the last one now.
Snapshot(t) ==
  /\ pc[t] = "snapshot"
  /\ Go(t, "poll")
  /\ prev' = [prev EXCEPT ![t] = Last]
  /\ UNCHANGED <<handled, exec, gone, source, inbox, sseDone, result, ladder, runVars, procVars,
                 dbVars, tries>>

-----------------------------------------------------------------------------
(* The event stream, read by a fiber of its own. Nothing is replayed: what *)
(* was emitted before the subscription is never seen. A stream that is     *)
(* refused or breaks is one that never connects or delivers. It ends with  *)
(* the first loop_done or loop_error, and a run may emit two: one when the *)
(* answer of the model breaks off, one when the run ends.                  *)

Emitted(r) == loop[r] \in {"emitted", "gone"}

Emit(r, e) ==
  inbox' = [t \in Turns |-> IF source[t] = r /\ inbox[t] = "none" THEN e ELSE inbox[t]]

Connect(t) ==
  /\ pc[t] \in {"poll", "tools"} /\ source[t] = 0
  /\ current # 0 /\ ~Emitted(current)
  /\ source' = [source EXCEPT ![t] = current]
  /\ UNCHANGED <<pc, prev, handled, exec, gone, inbox, sseDone, result, ladder, runVars,
                 procVars, dbVars, tries>>

ReceiveEvent(t) ==
  /\ inbox[t] # "none" /\ ~sseDone[t]
  /\ sseDone' = [sseDone EXCEPT ![t] = TRUE]
  /\ UNCHANGED <<pc, prev, handled, exec, gone, source, inbox, result, ladder, runVars,
                 procVars, dbVars, tries>>

\* loop_error carries the failure, loop_done nothing.
RunError(t) == IF sseDone[t] /\ inbox[t] # "done" THEN inbox[t] ELSE "none"

-----------------------------------------------------------------------------
(* rustRunLoopPoll. The abort flag is looked at only at the top of an      *)
(* iteration: it may be raised while the rest of one is under way.         *)

\* The poll returns message m and drops what it kept; what its stream fiber
\* does afterwards only reaches the user interface.
Return(t, m) ==
  /\ Go(t, "settle")
  /\ result' = [result EXCEPT ![t] = m]
  /\ prev' = [prev EXCEPT ![t] = 0]
  /\ handled' = [handled EXCEPT ![t] = {}]
  /\ gone' = [gone EXCEPT ![t] = FALSE]
  /\ source' = [source EXCEPT ![t] = 0]
  /\ inbox' = [inbox EXCEPT ![t] = "none"]
  /\ sseDone' = [sseDone EXCEPT ![t] = FALSE]
  /\ UNCHANGED <<exec, ladder>>

\* createRunLoopErrorMessage: the row is new, and returned.
Synthesize(t, e) ==
  /\ msgs' = Append(msgs, Message(0, "error", e))
  /\ Return(t, Last + 1)

PollAborted(t) ==
  /\ pc[t] = "poll" /\ aborted
  /\ aborted' = FALSE
  /\ Return(t, Last)
  /\ UNCHANGED <<owner, overflows, stop, cancels, runVars, dbVars, tries>>

PollEnded(t) ==
  /\ pc[t] = "poll" /\ sseDone[t]
  /\ IF RunError(t) # "none" /\ ~(New(t) /\ msgs[Last].error # "none")
       THEN Synthesize(t, RunError(t))
       ELSE Return(t, Last) /\ UNCHANGED msgs
  /\ UNCHANGED <<part, waiting, runVars, procVars, tries>>

\* The probe asks for the session's metrics, not for this turn's run.
Probe(t) ==
  /\ pc[t] = "poll"
  /\ gone[t] # ~metrics
  /\ gone' = [gone EXCEPT ![t] = ~metrics]
  /\ UNCHANGED <<pc, prev, handled, exec, source, inbox, sseDone, result, ladder, runVars,
                 procVars, dbVars, tries>>

\* Mutant: without a new row the poll goes on.
ProbeGone_NewOnly(t) ==
  /\ pc[t] = "poll"
  /\ gone[t] /\ ~metrics /\ New(t)
  /\ Return(t, Last)
  /\ UNCHANGED <<runVars, procVars, dbVars, tries>>

ProbeGone(t) ==
  /\ pc[t] = "poll"
  /\ gone[t] /\ ~metrics
  /\ IF ~New(t) /\ RunError(t) # "none"
       THEN Synthesize(t, RunError(t))
       ELSE Return(t, Last) /\ UNCHANGED msgs
  /\ UNCHANGED <<part, waiting, runVars, procVars, tries>>

\* No new row for STUCK_THRESHOLD_MS: every other wait of a run is shorter, so
\* the run at work is one whose model does not answer, or there is none and the
\* metrics of one that lost its slot make the probe believe in it.
Stalled ==
  \/ \E r \in Runs : loop[r] = "hung" /\ ~cancelled[r]
  \/ metrics /\ \A r \in Runs : ~Alive(r)

Watchdog(t) ==
  /\ pc[t] = "poll"
  /\ Stalled
  /\ cancelled' = [r \in Runs |-> cancelled[r] \/ r = current]
  /\ IF New(t) THEN Return(t, Last) /\ UNCHANGED msgs ELSE Synthesize(t, "plain")
  /\ UNCHANGED <<started, failure, slotVars, loop, round, confirms, part, waiting,
                 procVars, tries>>

\* The rest of an iteration: execute what is pending, then look whether the
\* rows that were read before end the turn.
Finished(t) == New(t) /\ msgs[Last].finish = "stop"

\* Mutant: handledCallIDs is not consulted.
Collect_Unhandled(t) ==
  /\ pc[t] = "poll" /\ ~sseDone[t]
  /\ Pending # {}
  /\ exec' = [exec EXCEPT ![t] = Pending]
  /\ tries' = [c \in Calls |-> IF c \in Pending THEN tries[c] + 1 ELSE tries[c]]
  /\ result' = [result EXCEPT ![t] = IF Finished(t) THEN Last ELSE 0]
  /\ Go(t, "tools")
  /\ UNCHANGED <<prev, handled, gone, source, inbox, sseDone, ladder, runVars, procVars, dbVars>>

Collect(t) ==
  LET found == Pending \ handled[t] IN
  /\ pc[t] = "poll" /\ ~sseDone[t]
  /\ found # {}
  /\ handled' = [handled EXCEPT ![t] = @ \cup found]
  /\ exec' = [exec EXCEPT ![t] = found]
  /\ tries' = [c \in Calls |-> IF c \in found THEN tries[c] + 1 ELSE tries[c]]
  /\ result' = [result EXCEPT ![t] = IF Finished(t) THEN Last ELSE 0]
  /\ Go(t, "tools")
  /\ UNCHANGED <<prev, gone, source, inbox, sseDone, ladder, runVars, procVars, dbVars>>

PollFinished(t) ==
  /\ pc[t] = "poll" /\ ~sseDone[t]
  /\ Pending \subseteq handled[t]
  /\ Finished(t)
  /\ Return(t, Last)
  /\ UNCHANGED <<runVars, procVars, dbVars, tries>>

\* executePendingToolPart: the tool returns, fails, is aborted or runs into the
\* five minutes. Its result is posted at once: it reaches the run if the run
\* awaits it, and is in vain if it does not yet or if all four attempts fail.
ExecuteTool(t, c) ==
  /\ c \in exec[t]
  /\ exec' = [exec EXCEPT ![t] = @ \ {c}]
  /\ waiting' \in {waiting, waiting \ {c}}
  /\ UNCHANGED <<pc, prev, handled, gone, source, inbox, sseDone, result, ladder, runVars,
                 procVars, msgs, part, tries>>

ToolsDone(t) ==
  /\ pc[t] = "tools" /\ exec[t] = {}
  /\ IF result[t] # 0 THEN Return(t, result[t])
                      ELSE Go(t, "poll") /\ UNCHANGED <<pollVars, result, ladder>>
  /\ UNCHANGED <<runVars, procVars, dbVars, tries>>

-----------------------------------------------------------------------------
(* After the poll.                                                         *)

\* Effect.ensuring: on every way out of the delegation.
Settle(t) ==
  /\ pc[t] = "settle"
  /\ Go(t, "after")
  /\ owner' = "ts"
  /\ UNCHANGED <<pollVars, result, ladder, runVars, aborted, overflows, stop, cancels,
                 dbVars, tries>>

FailedWith(t, e) ==
  result[t] # 0 /\ msgs[result[t]].finish = "error" /\ msgs[result[t]].error = e

Again(t) == Go(t, "again") /\ result' = [result EXCEPT ![t] = 0]

\* Mutant: the depth limit is not looked at.
CompactAndRetry_NoLimit(t) ==
  /\ pc[t] = "after" /\ FailedWith(t, "overflow")
  /\ overflows' = overflows + 1
  /\ Again(t)
  /\ UNCHANGED <<pollVars, ladder, runVars, aborted, owner, stop, cancels, dbVars, tries>>

\* Compaction may add its summary or fail; the retry looks at neither, only at
\* the counter, which all sessions share and nothing resets.
CompactAndRetry(t) ==
  /\ pc[t] = "after" /\ FailedWith(t, "overflow")
  /\ msgs' \in {msgs, Append(msgs, Message(0, "stop", "none"))}
  /\ IF overflows < MaxOverflow
       THEN overflows' = overflows + 1 /\ Again(t)
       ELSE Go(t, "done") /\ UNCHANGED <<overflows, result>>
  /\ UNCHANGED <<pollVars, ladder, runVars, aborted, owner, stop, cancels, part,
                 waiting, tries>>

\* delegateToRustRunLoopWithOutputRetry.
OutputRetry(t) ==
  /\ pc[t] = "after" /\ FailedWith(t, "max_tokens")
  /\ ladder[t] < LadderLength
  /\ ladder' = [ladder EXCEPT ![t] = @ + 1]
  /\ Again(t)
  /\ UNCHANGED <<pollVars, runVars, procVars, dbVars, tries>>

EndTurn(t) ==
  /\ pc[t] = "after"
  /\ ~FailedWith(t, "overflow")
  /\ FailedWith(t, "max_tokens") => ladder[t] = LadderLength
  /\ Go(t, "done")
  /\ UNCHANGED <<pollVars, result, ladder, runVars, procVars, dbVars, tries>>

-----------------------------------------------------------------------------
(* The abort route: SessionPrompt.cancel and, after the requests it makes, *)
(* the cancellation of whatever run has the slot then.                     *)

PressStop ==
  /\ stop = "idle" /\ cancels < MaxCancels
  /\ cancels' = cancels + 1
  /\ aborted' = TRUE
  /\ stop' = "cancel"
  /\ UNCHANGED <<turnVars, runVars, owner, overflows, dbVars, tries>>

CancelRunLoop ==
  /\ stop = "cancel"
  /\ stop' = "idle"
  /\ cancelled' = [r \in Runs |-> cancelled[r] \/ r = current]
  /\ UNCHANGED <<turnVars, started, failure, slotVars, loop, round, confirms, aborted,
                 owner, overflows, cancels, dbVars, tries>>

-----------------------------------------------------------------------------
(* The run: run_loop_handler's spawned task.                               *)

MoveTo(r, l) == loop' = [loop EXCEPT ![r] = l]

\* Mutant: the clean-up is not gated on the identity of the run.
Unregister_Ungated(r) == current' = 0 /\ metrics' = FALSE

\* cleanup_run_loop_registration: only the run that still has the slot.
Unregister(r) ==
  /\ current' = IF current = r THEN 0 ELSE current
  /\ metrics' = IF current = r THEN FALSE ELSE metrics

Locked == \E r \in Runs : loop[r] \notin {"none", "lock", "refused", "gone"}

TakeLock(r) ==
  /\ loop[r] = "lock" /\ ~Locked
  /\ MoveTo(r, "top")
  /\ metrics' = TRUE
  /\ UNCHANGED <<stepVars, current, round, confirms, turnVars, procVars, dbVars, tries>>

\* No blackboard: the run leaves without a row and without an event.
RefuseRun(r) ==
  /\ loop[r] = "lock" /\ ~Locked
  /\ MoveTo(r, "refused")
  /\ Unregister(r)
  /\ UNCHANGED <<stepVars, round, confirms, turnVars, procVars, dbVars, tries>>

StopAtTop(r) ==
  /\ loop[r] = "top" /\ cancelled[r]
  /\ MoveTo(r, "ending")
  /\ UNCHANGED <<stepVars, slotVars, round, confirms, turnVars, procVars, dbVars, tries>>

\* The request to the model goes out. It may be cancelled from here on, and the
\* token is looked at again only when the answer is stored.
BeginRound(r) ==
  /\ loop[r] = "top" /\ ~cancelled[r]
  /\ MoveTo(r, "asking")
  /\ UNCHANGED <<stepVars, slotVars, round, confirms, turnVars, procVars, dbVars, tries>>

Hang(r) ==
  /\ MayHang
  /\ loop[r] = "asking" /\ ~cancelled[r]
  /\ MoveTo(r, "hung")
  /\ UNCHANGED <<stepVars, slotVars, round, confirms, turnVars, procVars, dbVars, tries>>

Answers(r) == loop[r] = "asking"
Interrupted(r) == loop[r] \in {"asking", "hung"} /\ cancelled[r]

\* call_llm_stream_with_fallback fails: no row and no event before the run ends.
\* A provider that refuses the request is noticed here.
RequestFails(r) ==
  /\ \E e \in Failures \cup {"plain"} :
       /\ (Answers(r) /\ e \in Failures) \/ (Interrupted(r) /\ e = "plain")
       /\ failure' = [failure EXCEPT ![r] = e]
  /\ MoveTo(r, "ending")
  /\ UNCHANGED <<started, cancelled, slotVars, round, confirms, turnVars, procVars, dbVars,
                 tries>>

\* The answer breaks off: the error goes out before anything is stored. No text
\* of the stream's parser reports an overflow.
StreamBreaks(r) ==
  /\ (Answers(r) /\ "plain" \in Failures) \/ Interrupted(r)
  /\ failure' = [failure EXCEPT ![r] = "plain"]
  /\ Emit(r, "plain")
  /\ MoveTo(r, "failing")
  /\ UNCHANGED <<pc, prev, handled, exec, gone, source, sseDone, result, ladder, started,
                 cancelled, slotVars, round, confirms, procVars, dbVars, tries>>

\* A row of this round; the stop marker if the run was cancelled meanwhile.
Persist(r, f, e) ==
  msgs' = Append(msgs, IF cancelled[r] THEN Message(r, "cancelled", "aborted")
                                       ELSE Message(r, f, e))

\* What had arrived of the answer is stored, if anything had.
FailedRound(r) ==
  /\ loop[r] = "failing"
  /\ Persist(r, "error", failure[r]) \/ UNCHANGED msgs
  /\ MoveTo(r, "ending")
  /\ UNCHANGED <<stepVars, slotVars, round, confirms, turnVars, procVars, part, waiting,
                 tries>>

\* A text-only round: the last one, or one the model is asked to confirm. Both
\* rows carry finish=stop.
LastRound(r) ==
  /\ Answers(r)
  /\ Persist(r, "stop", "none")
  /\ MoveTo(r, "ending")
  /\ UNCHANGED <<stepVars, slotVars, round, confirms, turnVars, procVars, part, waiting,
                 tries>>

ConfirmRound(r) ==
  /\ Answers(r) /\ confirms[r] < ConfirmLimit /\ round[r] < MaxRounds
  /\ Persist(r, "stop", "none")
  /\ confirms' = [confirms EXCEPT ![r] = @ + 1]
  /\ round' = [round EXCEPT ![r] = @ + 1]
  /\ MoveTo(r, "top")
  /\ UNCHANGED <<stepVars, slotVars, turnVars, procVars, part, waiting, tries>>

\* A round with a tool call: its part is inserted as pending, whoever will
\* execute it.
ToolRound(r) ==
  /\ Answers(r) /\ round[r] < MaxRounds
  /\ round' = [round EXCEPT ![r] = @ + 1]
  /\ Persist(r, "tool-calls", "none")
  /\ part' = [part EXCEPT ![<<r, round[r] + 1>>] = "pending"]
  /\ MoveTo(r, "inserted")
  /\ UNCHANGED <<stepVars, slotVars, confirms, turnVars, procVars, waiting, tries>>

SetPart(r, s) == part' = [part EXCEPT ![Call(r)] = s]

MarkRunning(r) ==
  /\ loop[r] = "inserted"
  /\ SetPart(r, "running") /\ MoveTo(r, "running")
  /\ UNCHANGED <<stepVars, slotVars, round, confirms, turnVars, procVars, msgs, waiting,
                 tries>>

RunNatively(r) ==
  /\ loop[r] = "running"
  /\ SetPart(r, "settled") /\ MoveTo(r, "top")
  /\ UNCHANGED <<stepVars, slotVars, round, confirms, turnVars, procVars, msgs, waiting,
                 tries>>

\* Back to pending; the result is awaited only once the batch has been walked.
DelegateCall(r) ==
  /\ loop[r] = "running"
  /\ SetPart(r, "pending") /\ MoveTo(r, "batch")
  /\ UNCHANGED <<stepVars, slotVars, round, confirms, turnVars, procVars, msgs, waiting,
                 tries>>

AwaitResult(r) ==
  /\ loop[r] = "batch"
  /\ waiting' = waiting \cup {Call(r)}
  /\ MoveTo(r, "wait")
  /\ UNCHANGED <<stepVars, slotVars, round, confirms, turnVars, procVars, msgs, part,
                 tries>>

\* Mutant: a cancelled wait leaves the part as it is.
ResultArrives_CancelKeeps(r) ==
  /\ loop[r] = "wait"
  /\ \/ waiting' = waiting \ {Call(r)} /\ SetPart(r, "settled")
     \/ cancelled[r] /\ UNCHANGED <<waiting, part>>
  /\ MoveTo(r, "top")
  /\ UNCHANGED <<stepVars, slotVars, round, confirms, turnVars, procVars, msgs, tries>>

\* wait_for_tool_result: the result, the ten minutes, or cancellation, which
\* leaves the entry behind.
ResultArrives(r) ==
  /\ loop[r] = "wait"
  /\ \/ waiting' = waiting \ {Call(r)}
     \/ cancelled[r] /\ UNCHANGED waiting
  /\ SetPart(r, "settled") /\ MoveTo(r, "top")
  /\ UNCHANGED <<stepVars, slotVars, round, confirms, turnVars, procVars, msgs, tries>>

\* The stop marker goes on the run's last row, or on a row of its own.
RowsOf(r) == {i \in 1..Last : msgs[i].run = r}

StopMarker(r) ==
  IF RowsOf(r) = {}
    THEN Append(msgs, Message(r, "cancelled", "aborted"))
    ELSE LET i == CHOOSE i \in RowsOf(r) : \A j \in RowsOf(r) : j <= i
         IN  [msgs EXCEPT ![i] = Message(r, "cancelled", "aborted")]

\* The stop marker is written before the terminal event goes out.
EndRun(r) ==
  /\ loop[r] = "ending"
  /\ msgs' = IF cancelled[r] THEN StopMarker(r) ELSE msgs
  /\ Emit(r, IF failure[r] = "none" THEN "done" ELSE failure[r])
  /\ MoveTo(r, "emitted")
  /\ UNCHANGED <<pc, prev, handled, exec, gone, source, sseDone, result, ladder, stepVars,
                 slotVars, round, confirms, procVars, part, waiting, tries>>

\* The task ends: its token, its counters and its error go with it.
LeaveRun(r) ==
  /\ loop[r] = "emitted"
  /\ Unregister(r)
  /\ MoveTo(r, "gone")
  /\ round' = [round EXCEPT ![r] = 0]
  /\ confirms' = [confirms EXCEPT ![r] = 0]
  /\ cancelled' = [cancelled EXCEPT ![r] = FALSE]
  /\ failure' = [failure EXCEPT ![r] = "none"]
  /\ UNCHANGED <<started, turnVars, procVars, dbVars, tries>>

-----------------------------------------------------------------------------
PollStep(t) ==
  \/ MarkRust(t) \/ PostRunLoop(t) \/ Snapshot(t)
  \/ PollAborted(t) \/ PollEnded(t) \/ Collect(t) \/ PollFinished(t) \/ ToolsDone(t)
  \/ Settle(t) \/ CompactAndRetry(t) \/ OutputRetry(t) \/ EndTurn(t)

Retry(t) == pc[t] = "again" /\ Delegate(t)

ExecStep(t) == \E c \in Calls : ExecuteTool(t, c)

RunStep(r) ==
  \/ TakeLock(r) \/ RefuseRun(r) \/ StopAtTop(r) \/ BeginRound(r) \/ RequestFails(r)
  \/ StreamBreaks(r) \/ FailedRound(r) \/ LastRound(r) \/ ConfirmRound(r) \/ ToolRound(r) \/ MarkRunning(r) \/ RunNatively(r)
  \/ DelegateCall(r) \/ AwaitResult(r) \/ ResultArrives(r) \/ EndRun(r) \/ LeaveRun(r)

Next ==
  \/ \E t \in Turns :
       \/ Delegate(t) \/ PollStep(t) \/ ExecStep(t)
       \/ Probe(t) \/ ProbeGone(t) \/ Watchdog(t)
       \/ Connect(t) \/ ReceiveEvent(t)
  \/ \E r \in Runs : RunStep(r) \/ Hang(r)
  \/ PressStop \/ CancelRunLoop

\* Fibers are scheduled, tools are cut off after five minutes, probe and
\* watchdog are timers of the poll, and a run that is not hung takes its next
\* step. Nothing is assumed of the event stream and of the user.
Fairness ==
  /\ \A t \in Turns : /\ WF_vars(PollStep(t)) /\ WF_vars(Retry(t))
                      /\ WF_vars(ExecStep(t)) /\ WF_vars(Probe(t) \/ ProbeGone(t))
                      /\ WF_vars(Watchdog(t))
  /\ \A r \in Runs : WF_vars(RunStep(r))

Spec == Init /\ [][Next]_vars /\ Fairness

-----------------------------------------------------------------------------
(* Well-typed states. *)
TypeOK ==
  /\ aborted \in BOOLEAN /\ owner \in {"ts", "rust"}
  /\ overflows \in 0..MaxOverflow /\ stop \in {"idle", "cancel"}
  /\ cancels \in 0..MaxCancels
  /\ pc \in [Turns -> {"idle", "preflight", "posting", "snapshot", "poll", "tools",
                       "settle", "after", "again", "done"}]
  /\ \A t \in Turns : {prev[t], result[t]} \subseteq 0..Last
  /\ handled \in [Turns -> SUBSET Calls] /\ exec \in [Turns -> SUBSET Calls]
  /\ gone \in [Turns -> BOOLEAN] /\ sseDone \in [Turns -> BOOLEAN]
  /\ ladder \in [Turns -> 0..LadderLength]
  /\ source \in [Turns -> 0..started] /\ inbox \in [Turns -> Errors \cup {"done"}]
  /\ loop \in [Runs -> {"none", "lock", "refused", "top", "asking", "hung", "failing",
                        "inserted", "running", "batch", "wait", "ending", "emitted", "gone"}]
  /\ current \in 0..started /\ started \in 0..MaxRuns
  /\ \A i \in 1..Last : msgs[i].run \in 0..started /\ msgs[i].error \in Errors
  /\ part \in [Calls -> {"none", "pending", "running", "settled"}]
  /\ waiting \subseteq Calls

(* A run that nobody has cancelled can be cancelled: it is the one in the
   session's slot, whatever older runs do on their way out. The identity gate
   of cleanup_run_loop_registration is there for this. *)
Cancellable == \A r \in Runs : Alive(r) /\ ~cancelled[r] => current = r

(* A run that is gone leaves no tool part behind that a later poll would take
   for a call to execute, and none that looks as if it were still running. *)
PartsSettled ==
  \A c \in Calls : loop[c[1]] = "gone" => part[c] \in {"none", "settled"}

(* As long as only the run's own turn polls its rows, the server executes each
   call at most once: also when the result came before the run awaited it, so
   that the part stays pending, and over the retries of the turn. *)
ExecutedOnce == \A c \in Calls : tries[c] <= 1

(* Every turn ends: whichever of the events, the results and the answers of the
   model get lost, and however often it is retried. *)
TurnEnds == \A t \in Turns : AtWork(t) ~> pc[t] = "done"

(* finish=stop on a new row means that the run completed: the run of the row a
   turn ended with works no more. Otherwise nobody executes the calls it goes
   on to delegate. *)
FinishedMeansOver ==
  \A t \in Turns :
    pc[t] = "done" /\ result[t] # 0 /\ msgs[result[t]].finish = "stop" =>
      LET r == msgs[result[t]].run
      IN  r = 0 \/ loop[r] \in {"ending", "emitted", "gone"}

(* One failure, one error row: a turn that returns an error of its own making
   does so because the run stored none. The error goes out before the row is
   stored, so the poll can be too early. *)
OneErrorRow ==
  \A i, j \in 1..Last :
    msgs[i].finish = "error" /\ msgs[j].finish = "error" /\ msgs[i].run = 0 =>
      msgs[j].run = 0

(* A run that ended because the context overflowed is compacted and retried. The
   providers' own words do not say context_overflow, and the row that says it is
   written only for errors of a stream. *)
OverflowRecovered ==
  \A t \in Turns :
    pc[t] = "done" /\ result[t] # 0 /\ msgs[result[t]].error = "window" =>
      overflows = MaxOverflow

(* For the duration of a delegated turn, from the request on until its poll
   returns, the Rust side is the writer of the assistant rows. *)
OwnedByRust ==
  \A t \in Turns : pc[t] \in {"posting", "snapshot", "poll", "tools"} => owner = "rust"

=============================================================================
