--------------------------- MODULE AgentTurnProofs ---------------------------
(***************************************************************************)
(* AgentTurn for every number of turns, runs, rounds, retries and stops:   *)
(* a run nobody cancelled can be cancelled, a run that is gone leaves no   *)
(* tool part open, the states are well typed, and a turn that is alone     *)
(* executes each call at most once.                                        *)
(***************************************************************************)
EXTENDS AgentTurn, TLAPS

Places == {"none", "lock", "refused", "top", "asking", "hung", "failing", "inserted",
           "running", "batch", "wait", "ending", "emitted", "gone"}

PartStates == {"none", "pending", "running", "settled"}

\* The types the argument needs.
Shape ==
  /\ loop \in [Runs -> Places] /\ cancelled \in [Runs -> BOOLEAN]
  /\ round \in [Runs -> 0..MaxRounds] /\ part \in [Calls -> PartStates]
  /\ started \in Nat /\ current \in Nat

\* A run that was not started has done nothing.
Unstarted == \A r \in Runs : r > started => loop[r] = "none"

\* An open part belongs to the round its run is in, and the run is in the middle
\* of it.
OpenParts ==
  \A r \in Runs, n \in 1..MaxRounds :
    part[<<r, n>>] \in {"pending", "running"} =>
      round[r] = n /\ loop[r] \in {"inserted", "running", "batch", "wait"}

\* The inductive invariant.
IInv == Shape /\ Unstarted /\ Cancellable /\ OpenParts

\* What the run of a step, or the step itself, leaves alone.
Untouched == UNCHANGED <<loop, cancelled, round, part, started, current>>

-----------------------------------------------------------------------------
\* A step of the prompts that reaches no run.
LEMMA UntouchedKeeps ==
  ASSUME IInv, Untouched
  PROVE  IInv'
  BY DEF IInv, Untouched, Shape, Unstarted, Cancellable, Alive, OpenParts

\* The steps of the prompts and of the abort route change runs only by cancelling
\* and by starting them.
LEMMA TurnSteps ==
  ASSUME NEW t \in Turns,
         \/ Delegate(t) \/ MarkRust(t) \/ Snapshot(t) \/ PollAborted(t) \/ PollEnded(t)
         \/ Collect(t) \/ PollFinished(t) \/ ToolsDone(t) \/ Settle(t)
         \/ CompactAndRetry(t) \/ OutputRetry(t) \/ EndTurn(t) \/ ExecStep(t)
         \/ Probe(t) \/ ProbeGone(t) \/ Connect(t) \/ ReceiveEvent(t)
  PROVE  Untouched
<1>1. CASE \/ Delegate(t) \/ MarkRust(t) \/ Snapshot(t) \/ PollAborted(t) \/ PollEnded(t)
           \/ Collect(t) \/ PollFinished(t)
  BY <1>1 DEF Delegate, MarkRust, Snapshot, PollAborted, PollEnded, Collect, PollFinished,
              Untouched, runVars, stepVars, slotVars, dbVars
<1>2. CASE \/ ToolsDone(t) \/ Settle(t) \/ CompactAndRetry(t) \/ OutputRetry(t) \/ EndTurn(t)
  BY <1>2 DEF ToolsDone, Settle, CompactAndRetry, OutputRetry, EndTurn,
              Untouched, runVars, stepVars, slotVars, dbVars
<1>3. CASE ExecStep(t) \/ Probe(t) \/ ProbeGone(t) \/ Connect(t) \/ ReceiveEvent(t)
  BY <1>3 DEF ExecStep, ExecuteTool, Probe, ProbeGone, Connect, ReceiveEvent,
              Untouched, runVars, stepVars, slotVars, dbVars
<1>4. QED
  BY <1>1, <1>2, <1>3

\* Cancelling the run in the slot.
LEMMA CancelKeeps ==
  ASSUME IInv, cancelled' = [r \in Runs |-> cancelled[r] \/ r = current],
         UNCHANGED <<loop, round, part, started, current>>
  PROVE  IInv'
  BY DEF IInv, Shape, Unstarted, Cancellable, Alive, OpenParts

\* A new run takes the slot: the one that had it is cancelled, and no other run
\* was alive and not cancelled.
LEMMA RegisterKeeps ==
  ASSUME IInv, started < MaxRuns, NEW l \in {"lock", "refused"},
         Register(started + 1, l), UNCHANGED <<part>>
  PROVE  IInv'
<1> DEFINE r == started + 1
<1> USE AgentTurnAssumption DEF IInv
<1>1. r \in Runs /\ r \in Nat /\ loop[r] = "none"
  BY DEF Shape, Unstarted, Runs
<1>2. /\ started' = r /\ loop' = [loop EXCEPT ![r] = l] /\ current' = r
      /\ cancelled' = [s \in Runs |-> cancelled[s] \/ (s = current)]
      /\ UNCHANGED <<round, part>>
  BY DEF Register
<1>3. Shape'
  BY <1>1, <1>2 DEF Shape, Places
<1>4. Unstarted'
  BY <1>1, <1>2 DEF Unstarted, Shape, Runs
<1>5. Cancellable'
  <2>1. SUFFICES ASSUME NEW s \in Runs, Alive(s)', ~cancelled'[s]
                 PROVE  s = r
    BY <1>2 DEF Cancellable
  <2>2. s # current /\ ~cancelled[s]
    BY <1>2, <2>1 DEF Shape
  <2>3. s # r => Alive(s)
    BY <1>1, <1>2, <2>1 DEF Alive, Shape
  <2>4. QED
    BY <2>2, <2>3 DEF Cancellable
<1>6. OpenParts'
  BY <1>1, <1>2 DEF OpenParts, Shape
<1>7. QED
  BY <1>3, <1>4, <1>5, <1>6

\* A run that is rejected empties the slot: again no other run was alive and not
\* cancelled.
LEMMA RejectKeeps ==
  ASSUME IInv, RejectRun, UNCHANGED <<part>>
  PROVE  IInv'
  BY DEF RejectRun, IInv, Shape, Unstarted, Cancellable, Alive, OpenParts

\* A run moves on and keeps the slot as it is.
LEMMA MoveKeeps ==
  ASSUME IInv, NEW r \in Runs, NEW l \in Places,
         loop[r] \notin {"none", "refused", "gone"}, l \notin {"none"},
         loop' = [loop EXCEPT ![r] = l],
         UNCHANGED <<cancelled, started, current>>
  PROVE  Unstarted' /\ Cancellable' /\ loop' \in [Runs -> Places]
  BY DEF IInv, Shape, Unstarted, Cancellable, Alive

\* ... between two of its rounds.
LEMMA RestKeeps ==
  ASSUME IInv, NEW r \in Runs, NEW l \in Places,
         loop[r] \notin {"none", "refused", "gone", "inserted", "running", "batch", "wait"},
         l # "none",
         loop' = [loop EXCEPT ![r] = l],
         UNCHANGED <<cancelled, started, current, round, part>>
  PROVE  IInv'
<1>1. Unstarted' /\ Cancellable' /\ loop' \in [Runs -> Places]
  BY MoveKeeps
<1>2. OpenParts'
  BY DEF IInv, OpenParts, Shape
<1>3. QED
  BY <1>1, <1>2 DEF IInv, Shape

\* ... with the part of its round.
LEMMA PartKeeps ==
  ASSUME IInv, NEW r \in Runs, NEW l \in Places, NEW s \in {"pending", "running", "settled"},
         loop[r] \in {"inserted", "running", "batch", "wait"},
         \/ l \in {"inserted", "running", "batch", "wait"}
         \/ l = "top" /\ s = "settled",
         loop' = [loop EXCEPT ![r] = l],
         part' = [part EXCEPT ![Call(r)] = s],
         UNCHANGED <<cancelled, started, current, round>>
  PROVE  IInv'
<1> USE DEF IInv
<1>1. Unstarted' /\ Cancellable' /\ loop' \in [Runs -> Places]
  BY MoveKeeps
<1>2. OpenParts'
  <2>1. SUFFICES ASSUME NEW q \in Runs, NEW n \in 1..MaxRounds,
                        part'[<<q, n>>] \in {"pending", "running"}
                 PROVE  round[q] = n /\ loop'[q] \in {"inserted", "running", "batch", "wait"}
    BY DEF OpenParts
  <2>2. <<q, n>> \in Calls
    BY DEF Calls
  <2>3. CASE <<q, n>> = Call(r)
    <3>1. q = r /\ n = round[r]
      BY <2>3 DEF Call
    <3>2. part'[<<q, n>>] = s
      BY <2>2, <2>3 DEF Shape
    <3>3. QED
      BY <2>1, <3>1, <3>2 DEF Shape
  <2>4. CASE <<q, n>> # Call(r)
    <3>1. part[<<q, n>>] \in {"pending", "running"}
      BY <2>1, <2>2, <2>4 DEF Shape
    <3>2. round[q] = n /\ loop[q] \in {"inserted", "running", "batch", "wait"}
      BY <3>1 DEF OpenParts
    <3>3. q # r
      BY <2>4, <3>2 DEF Call
    <3>4. QED
      BY <3>2, <3>3 DEF Shape
  <2>5. QED
    BY <2>3, <2>4
<1>3. part' \in [Calls -> PartStates]
  BY DEF PartStates, Shape
<1>4. QED
  BY <1>1, <1>2, <1>3 DEF Shape

\* A run leaves: it gives up the slot if it still has it.
LEMMA LeaveKeeps ==
  ASSUME IInv, NEW r \in Runs, NEW l \in {"refused", "gone"},
         loop[r] \in {"lock", "emitted"},
         Unregister(r), loop' = [loop EXCEPT ![r] = l],
         cancelled' \in {cancelled, [cancelled EXCEPT ![r] = FALSE]},
         round' \in {round, [round EXCEPT ![r] = 0]},
         UNCHANGED <<part, started>>
  PROVE  IInv'
<1> USE AgentTurnAssumption DEF IInv
<1>1. Shape'
  <2>1. loop' \in [Runs -> Places]
    BY DEF Shape, Places
  <2>2. cancelled' \in [Runs -> BOOLEAN]
    BY DEF Shape
  <2>3. round' \in [Runs -> 0..MaxRounds]
    BY DEF Shape
  <2>4. current' \in Nat
    BY DEF Shape, Unregister
  <2>5. QED
    BY <2>1, <2>2, <2>3, <2>4 DEF Shape
<1>2. Unstarted'
  BY DEF Unstarted, Shape
<1>3. Cancellable'
  <2>1. SUFFICES ASSUME NEW s \in Runs, Alive(s)', ~cancelled'[s]
                 PROVE  current' = s
    BY DEF Cancellable
  <2>2. s # r
    BY <2>1 DEF Alive, Shape
  <2>3. Alive(s) /\ ~cancelled[s]
    BY <2>1, <2>2 DEF Alive, Shape
  <2>4. current = s
    BY <2>3 DEF Cancellable
  <2>5. QED
    BY <2>2, <2>4 DEF Unregister
<1>4. OpenParts'
  BY DEF OpenParts, Shape
<1>5. QED
  BY <1>1, <1>2, <1>3, <1>4

\* A round with a tool call opens the part of the next round.
LEMMA ToolRoundKeeps ==
  ASSUME IInv, NEW r \in Runs, ToolRound(r)
  PROVE  IInv'
<1> USE AgentTurnAssumption DEF IInv
<1>1. /\ loop[r] = "asking" /\ round[r] < MaxRounds
      /\ round' = [round EXCEPT ![r] = @ + 1]
      /\ part' = [part EXCEPT ![<<r, round[r] + 1>>] = "pending"]
      /\ loop' = [loop EXCEPT ![r] = "inserted"]
      /\ UNCHANGED <<cancelled, started, current>>
  BY DEF ToolRound, Answers, MoveTo, stepVars, slotVars
<1>2. Unstarted' /\ Cancellable' /\ loop' \in [Runs -> Places]
  BY <1>1, MoveKeeps DEF Places
<1>3. round' \in [Runs -> 0..MaxRounds]
  BY <1>1 DEF Shape
<1>4. OpenParts'
  <2>1. SUFFICES ASSUME NEW q \in Runs, NEW n \in 1..MaxRounds,
                        part'[<<q, n>>] \in {"pending", "running"}
                 PROVE  round'[q] = n /\ loop'[q] \in {"inserted", "running", "batch", "wait"}
    BY DEF OpenParts
  <2>2. <<q, n>> \in Calls
    BY DEF Calls
  <2>3. CASE <<q, n>> = <<r, round[r] + 1>>
    <3>1. q = r /\ n = round[r] + 1
      BY <2>3
    <3>2. QED
      BY <1>1, <3>1 DEF Shape
  <2>4. CASE <<q, n>> # <<r, round[r] + 1>>
    <3>1. part[<<q, n>>] \in {"pending", "running"}
      BY <1>1, <2>1, <2>2, <2>4 DEF Shape
    <3>2. round[q] = n /\ loop[q] \in {"inserted", "running", "batch", "wait"}
      BY <3>1 DEF OpenParts
    <3>3. q # r
      BY <1>1, <3>2
    <3>4. QED
      BY <1>1, <3>2, <3>3 DEF Shape
  <2>5. QED
    BY <2>3, <2>4
<1>5. part' \in [Calls -> PartStates]
  BY <1>1 DEF PartStates, Shape
<1>6. QED
  BY <1>1, <1>2, <1>3, <1>4, <1>5 DEF Shape

\* A round the model is asked to confirm: no part, one round more.
LEMMA ConfirmRoundKeeps ==
  ASSUME IInv, NEW r \in Runs, ConfirmRound(r)
  PROVE  IInv'
<1> USE AgentTurnAssumption DEF IInv
<1>1. /\ loop[r] = "asking" /\ round[r] < MaxRounds
      /\ round' = [round EXCEPT ![r] = @ + 1]
      /\ loop' = [loop EXCEPT ![r] = "top"]
      /\ UNCHANGED <<part, cancelled, started, current>>
  BY DEF ConfirmRound, Answers, MoveTo, stepVars, slotVars
<1>2. Unstarted' /\ Cancellable' /\ loop' \in [Runs -> Places]
  BY <1>1, MoveKeeps DEF Places
<1>3. Shape'
  BY <1>1, <1>2 DEF Shape
<1>4. OpenParts'
  BY <1>1 DEF OpenParts, Shape
<1>5. QED
  BY <1>2, <1>3, <1>4

-----------------------------------------------------------------------------
\* Every step of a run keeps the invariant.
LEMMA RunSteps ==
  ASSUME IInv, NEW r \in Runs, RunStep(r) \/ Hang(r)
  PROVE  IInv'
<1> USE DEF Places
<1>1. CASE TakeLock(r)
  BY <1>1, RestKeeps DEF TakeLock, MoveTo, stepVars, dbVars
<1>2. CASE RefuseRun(r)
  BY <1>2, LeaveKeeps DEF RefuseRun, MoveTo, stepVars, dbVars
<1>3. CASE Hang(r)
  BY <1>3, RestKeeps DEF Hang, MoveTo, stepVars, slotVars, dbVars
<1>4. CASE StopAtTop(r) \/ BeginRound(r)
  BY <1>4, RestKeeps DEF StopAtTop, BeginRound, MoveTo, stepVars, slotVars, dbVars
<1>5. CASE LastRound(r)
  BY <1>5, RestKeeps DEF LastRound, Answers, MoveTo, stepVars, slotVars
<1>6. CASE ConfirmRound(r)
  BY <1>6, ConfirmRoundKeeps
<1>7. CASE RequestFails(r) \/ StreamBreaks(r) \/ FailedRound(r)
  <2>1. CASE RequestFails(r)
    BY <2>1, RestKeeps DEF RequestFails, Answers, Interrupted, MoveTo, slotVars, dbVars
  <2>2. CASE StreamBreaks(r)
    BY <2>2, RestKeeps DEF StreamBreaks, Answers, Interrupted, MoveTo, slotVars, dbVars
  <2>3. CASE FailedRound(r)
    BY <2>3, RestKeeps DEF FailedRound, MoveTo, stepVars, slotVars
  <2>4. QED
    BY <1>7, <2>1, <2>2, <2>3
<1>8. CASE ToolRound(r)
  BY <1>8, ToolRoundKeeps
<1>9. CASE MarkRunning(r)
  BY <1>9, PartKeeps DEF MarkRunning, SetPart, MoveTo, stepVars, slotVars
<1>10. CASE RunNatively(r)
  BY <1>10, PartKeeps DEF RunNatively, SetPart, MoveTo, stepVars, slotVars
<1>11. CASE DelegateCall(r)
  BY <1>11, PartKeeps DEF DelegateCall, SetPart, MoveTo, stepVars, slotVars
<1>12. CASE AwaitResult(r)
  <2>1. /\ loop[r] = "batch" /\ loop' = [loop EXCEPT ![r] = "wait"]
        /\ UNCHANGED <<cancelled, started, current, round, part>>
    BY <1>12 DEF AwaitResult, MoveTo, stepVars, slotVars
  <2>2. Unstarted' /\ Cancellable' /\ loop' \in [Runs -> Places]
    BY <2>1, MoveKeeps
  <2>3. OpenParts'
    BY <2>1 DEF IInv, OpenParts, Shape
  <2>4. QED
    BY <2>1, <2>2, <2>3 DEF IInv, Shape
<1>13. CASE ResultArrives(r)
  BY <1>13, PartKeeps DEF ResultArrives, SetPart, MoveTo, stepVars, slotVars
<1>14. CASE EndRun(r)
  BY <1>14, RestKeeps DEF EndRun, MoveTo, stepVars, slotVars
<1>15. CASE LeaveRun(r)
  BY <1>15, LeaveKeeps DEF LeaveRun, MoveTo, dbVars
<1>16. QED
  BY <1>1, <1>2, <1>3, <1>4, <1>5, <1>6, <1>7, <1>8, <1>9, <1>10, <1>11, <1>12, <1>13,
     <1>14, <1>15 DEF RunStep

\* Every step keeps it.
LEMMA Inductive ==
  ASSUME IInv, [Next]_vars
  PROVE  IInv'
<1>1. CASE UNCHANGED vars
  BY <1>1, UntouchedKeeps
  DEF vars, Untouched, runVars, stepVars, slotVars, dbVars
<1>2. ASSUME NEW t \in Turns, PostRunLoop(t)
      PROVE  IInv'
  <2>1. ASSUME NEW l \in {"lock", "refused"}, started < MaxRuns, Register(started + 1, l)
        PROVE  IInv'
    BY <1>2, <2>1, RegisterKeeps DEF PostRunLoop, dbVars
  <2>2. CASE RejectRun
    BY <1>2, <2>2, RejectKeeps DEF PostRunLoop, dbVars
  <2>3. CASE UNCHANGED runVars
    BY <1>2, <2>3, UntouchedKeeps
    DEF PostRunLoop, Untouched, runVars, stepVars, slotVars, dbVars
  <2>4. QED
    BY <1>2, <2>1, <2>2, <2>3 DEF PostRunLoop
<1>3. ASSUME NEW t \in Turns, Watchdog(t)
      PROVE  IInv'
  BY <1>3, CancelKeeps DEF Watchdog, slotVars
<1>4. ASSUME NEW t \in Turns,
             \/ Delegate(t) \/ (PollStep(t) /\ ~PostRunLoop(t)) \/ ExecStep(t)
             \/ Probe(t) \/ ProbeGone(t) \/ Connect(t) \/ ReceiveEvent(t)
      PROVE  IInv'
  <2>1. Untouched
    BY <1>4, TurnSteps DEF PollStep
  <2>2. QED
    BY <2>1, UntouchedKeeps
<1>5. ASSUME NEW r \in Runs, RunStep(r) \/ Hang(r)
      PROVE  IInv'
  BY <1>5, RunSteps
<1>6. CASE PressStop
  BY <1>6, UntouchedKeeps
  DEF PressStop, Untouched, runVars, stepVars, slotVars, dbVars
<1>7. CASE CancelRunLoop
  BY <1>7, CancelKeeps DEF CancelRunLoop, slotVars, dbVars
<1>8. QED
  BY <1>1, <1>2, <1>3, <1>4, <1>5, <1>6, <1>7 DEF Next, PollStep

\* The first state satisfies it.
LEMMA Initially == Init => IInv
<1> SUFFICES ASSUME Init PROVE IInv
  OBVIOUS
<1> USE AgentTurnAssumption
<1>1. Shape
  BY DEF Init, Shape, Places, PartStates
<1>2. Unstarted /\ Cancellable
  BY DEF Init, Unstarted, Cancellable, Alive
<1>3. OpenParts
  <2>1. \A r \in Runs, n \in 1..MaxRounds : <<r, n>> \in Calls
    BY DEF Calls
  <2>2. QED
    BY <2>1 DEF Init, OpenParts
<1>4. QED
  BY <1>1, <1>2, <1>3 DEF IInv

-----------------------------------------------------------------------------
(* The inductive invariant holds in every reachable state, however turns
   overlap and whatever gets lost. *)
THEOREM Invariance == Spec => []IInv
<1>1. Init => IInv
  BY Initially
<1>2. IInv /\ [Next]_vars => IInv'
  BY Inductive
<1>3. QED
  BY <1>1, <1>2, PTL DEF Spec

(* A run nobody cancelled has the session's slot, so a stop reaches it: the
   identity gate of cleanup_run_loop_registration is enough. *)
THEOREM AlwaysCancellable == Spec => []Cancellable
<1>1. IInv => Cancellable
  BY DEF IInv
<1>2. QED
  BY <1>1, Invariance, PTL

(* A run that is gone leaves no tool part pending or running. *)
THEOREM PartsAreSettled == Spec => []PartsSettled
<1>1. IInv => PartsSettled
  <2>1. SUFFICES ASSUME IInv, NEW c \in Calls, loop[c[1]] = "gone"
                 PROVE  part[c] \in {"none", "settled"}
    BY DEF PartsSettled
  <2>2. PICK r \in Runs, n \in 1..MaxRounds : c = <<r, n>>
    BY DEF Calls
  <2>3. part[<<r, n>>] \notin {"pending", "running"}
    BY <2>1, <2>2 DEF IInv, OpenParts
  <2>4. QED
    BY <2>1, <2>2, <2>3 DEF IInv, Shape, PartStates
<1>2. QED
  BY <1>1, Invariance, PTL

-----------------------------------------------------------------------------
(* Type correctness. The rows keep their type because only whole messages are
   appended and replaced; the places a turn remembers stay places because rows
   are never deleted.                                                       *)

TurnPlaces == {"idle", "preflight", "posting", "snapshot", "poll", "tools", "settle",
               "after", "again", "done"}

Rows == [run : Nat, finish : {"stop", "tool-calls", "cancelled", "error"}, error : Errors]

ProcTyped ==
  /\ aborted \in BOOLEAN /\ owner \in {"ts", "rust"} /\ overflows \in 0..MaxOverflow
  /\ stop \in {"idle", "cancel"} /\ cancels \in 0..MaxCancels

TurnTyped ==
  /\ pc \in [Turns -> TurnPlaces]
  /\ prev \in [Turns -> Nat] /\ result \in [Turns -> Nat]
  /\ handled \in [Turns -> SUBSET Calls] /\ exec \in [Turns -> SUBSET Calls]
  /\ gone \in [Turns -> BOOLEAN] /\ sseDone \in [Turns -> BOOLEAN]
  /\ ladder \in [Turns -> 0..LadderLength]
  /\ source \in [Turns -> 0..started] /\ inbox \in [Turns -> Errors \cup {"done"}]

RunTyped ==
  /\ failure \in [Runs -> Errors] /\ current \in 0..started /\ started \in 0..MaxRuns
  /\ metrics \in BOOLEAN /\ waiting \subseteq Calls

RowTyped == msgs \in Seq(Rows) /\ \A i \in 1..Last : msgs[i].run <= started

\* A turn remembers rows that exist.
Ids == \A t \in Turns : prev[t] <= Last /\ result[t] <= Last

Typed == ProcTyped /\ TurnTyped /\ RunTyped /\ RowTyped /\ Ids

\* A message of a run that was started, or of the server.
LEMMA MessageTyped ==
  ASSUME NEW r \in 0..started, started \in Nat,
         NEW f \in {"stop", "tool-calls", "cancelled", "error"}, NEW e \in Errors
  PROVE  Message(r, f, e) \in Rows /\ Message(r, f, e).run <= started
  BY DEF Message, Rows

\* A row is added.
LEMMA AppendTyped ==
  ASSUME RowTyped, started \in Nat, NEW m \in Rows, m.run <= started,
         msgs' = Append(msgs, m), UNCHANGED started
  PROVE  RowTyped' /\ Last' = Last + 1
<1>1. msgs' \in Seq(Rows) /\ Len(msgs') = Len(msgs) + 1 /\ Len(msgs) \in Nat
  BY DEF RowTyped
<1>2. ASSUME NEW i \in 1..Len(msgs')
      PROVE  msgs'[i].run <= started
  <2>1. CASE i = Len(msgs) + 1
    BY <2>1 DEF RowTyped
  <2>2. CASE i \in 1..Len(msgs)
    BY <2>2 DEF RowTyped, Last
  <2>3. QED
    BY <1>1, <2>1, <2>2
<1>3. QED
  BY <1>1, <1>2 DEF RowTyped, Last

\* The stop marker is a row of the run, new or in the place of one.
LEMMA StopMarkerTyped ==
  ASSUME RowTyped, NEW r \in Runs, r <= started, started \in Nat,
         msgs' = StopMarker(r), UNCHANGED started
  PROVE  RowTyped' /\ Last' \in Nat /\ Last' >= Last
<1> DEFINE m == Message(r, "cancelled", "aborted")
<1>1. m \in Rows /\ m.run <= started
  BY DEF Message, Rows, Errors, Runs
<1> HIDE DEF m
<1>2. Last \in Nat
  BY DEF RowTyped, Last
<1>3. CASE RowsOf(r) = {}
  <2>1. msgs' = Append(msgs, m)
    BY <1>3 DEF StopMarker, m
  <2>2. QED
    BY <1>1, <1>2, <2>1, AppendTyped
<1>4. CASE RowsOf(r) # {}
  <2>1. PICK i : msgs' = [msgs EXCEPT ![i] = m]
    BY <1>4 DEF StopMarker, m
  <2>2. msgs \in [1..Last -> Rows]
    BY DEF RowTyped, Last
  <2>3. msgs' \in [1..Last -> Rows]
    BY <1>1, <2>1, <2>2
  <2>4. msgs' \in Seq(Rows) /\ Len(msgs') = Last
    BY <1>2, <2>3
  <2>5. \A j \in 1..Last : msgs'[j].run <= started
    BY <1>1, <2>1, <2>2 DEF RowTyped
  <2>6. QED
    BY <1>2, <2>4, <2>5 DEF RowTyped, Last
<1>5. QED
  BY <1>3, <1>4

\* A turn's poll returns a row that exists.
LEMMA ReturnTyped ==
  ASSUME Typed, NEW t \in Turns, NEW m \in Nat, Return(t, m), m <= Last',
         Last \in Nat, Last' \in Nat, Last' >= Last, UNCHANGED started
  PROVE  TurnTyped' /\ Ids'
<1> USE AgentTurnAssumption DEF Typed, TurnTyped
<1>1. TurnTyped'
  <2>1. pc' \in [Turns -> TurnPlaces] /\ prev' \in [Turns -> Nat] /\ result' \in [Turns -> Nat]
    BY DEF Return, Go, TurnPlaces
  <2>2. /\ handled' \in [Turns -> SUBSET Calls] /\ exec' \in [Turns -> SUBSET Calls]
        /\ ladder' \in [Turns -> 0..LadderLength]
    BY DEF Return
  <2>3. gone' \in [Turns -> BOOLEAN] /\ sseDone' \in [Turns -> BOOLEAN]
    BY DEF Return
  <2>4. source' \in [Turns -> 0..started] /\ inbox' \in [Turns -> Errors \cup {"done"}]
    BY DEF Return, Errors, RunTyped
  <2>5. QED
    BY <2>1, <2>2, <2>3, <2>4
<1>2. Ids'
  BY DEF Return, Ids
<1>3. QED
  BY <1>1, <1>2

\* A turn's poll stores an error of its own and returns it.
LEMMA SynthesizeTyped ==
  ASSUME Typed, NEW t \in Turns, NEW e \in Errors, Synthesize(t, e), UNCHANGED started
  PROVE  TurnTyped' /\ Ids' /\ RowTyped'
<1>1. started \in Nat /\ Last \in Nat
  BY AgentTurnAssumption DEF Typed, RunTyped, RowTyped, Last
<1>2. Message(0, "error", e) \in Rows /\ Message(0, "error", e).run <= started
  BY <1>1 DEF Message, Rows
<1>3. msgs' = Append(msgs, Message(0, "error", e)) /\ Return(t, Last + 1)
  BY DEF Synthesize
<1>4. RowTyped' /\ Last' = Last + 1
  BY <1>1, <1>2, <1>3, AppendTyped DEF Typed
<1>5. QED
  BY <1>1, <1>3, <1>4, ReturnTyped

\* A run that is in the middle of a call has begun a round.
Counted ==
  \A r \in Runs : loop[r] \in {"inserted", "running", "batch", "wait"} => round[r] # 0

\* Only a round with a call leads there, and the count falls back when the run is
\* gone.
LEMMA CountedKeeps ==
  ASSUME IInv, Counted, [Next]_vars
  PROVE  Counted'
<1> USE DEF Counted, Shape, IInv
<1>1. CASE UNCHANGED <<loop, round>>
  BY <1>1
<1>2. ASSUME NEW t \in Turns, PostRunLoop(t)
      PROVE  Counted'
  BY <1>1, <1>2 DEF PostRunLoop, Register, RejectRun, runVars
<1>3. ASSUME NEW t \in Turns, Watchdog(t)
      PROVE  Counted'
  BY <1>1, <1>3 DEF Watchdog
<1>4. ASSUME NEW t \in Turns,
             \/ Delegate(t) \/ (PollStep(t) /\ ~PostRunLoop(t)) \/ ExecStep(t)
             \/ Probe(t) \/ ProbeGone(t) \/ Connect(t) \/ ReceiveEvent(t)
      PROVE  Counted'
  <2>1. Untouched
    BY <1>4, TurnSteps DEF PollStep
  <2>2. QED
    BY <1>1, <2>1 DEF Untouched
<1>5. ASSUME NEW r \in Runs, RunStep(r) \/ Hang(r)
      PROVE  Counted'
  <2>1. CASE ToolRound(r)
    BY <2>1 DEF ToolRound, MoveTo
  <2>2. CASE ConfirmRound(r)
    BY <2>2 DEF ConfirmRound, MoveTo
  <2>3. CASE \/ MarkRunning(r) \/ RunNatively(r) \/ DelegateCall(r) \/ AwaitResult(r)
             \/ ResultArrives(r)
    BY <2>3 DEF MarkRunning, RunNatively, DelegateCall, AwaitResult, ResultArrives, MoveTo
  <2>4. CASE LeaveRun(r)
    BY <2>4 DEF LeaveRun, MoveTo
  <2>5. CASE TakeLock(r) \/ RefuseRun(r) \/ StopAtTop(r) \/ BeginRound(r) \/ Hang(r)
    BY <2>5 DEF TakeLock, RefuseRun, StopAtTop, BeginRound, Hang, MoveTo
  <2>6. CASE \/ RequestFails(r) \/ StreamBreaks(r) \/ FailedRound(r) \/ LastRound(r)
             \/ EndRun(r)
    BY <2>6 DEF RequestFails, StreamBreaks, FailedRound, LastRound, EndRun, MoveTo
  <2>7. QED
    BY <1>5, <2>1, <2>2, <2>3, <2>4, <2>5, <2>6 DEF RunStep
<1>6. CASE UNCHANGED vars \/ PressStop \/ CancelRunLoop
  BY <1>1, <1>6 DEF vars, PressStop, CancelRunLoop, runVars
<1>7. QED
  BY <1>2, <1>3, <1>4, <1>5, <1>6 DEF Next, PollStep

\* What a run's steps have in common.
LEMMA RunSideTyped ==
  ASSUME Typed, UNCHANGED <<pc, prev, handled, exec, gone, source, sseDone, result, ladder,
                            started, procVars>>,
         inbox' \in [Turns -> Errors \cup {"done"}],
         RowTyped', Last' \in Nat, Last \in Nat, Last' >= Last,
         failure' \in [Runs -> Errors], current' \in {0, current},
         metrics' \in BOOLEAN, waiting' \subseteq Calls
  PROVE  Typed'
<1> USE AgentTurnAssumption DEF Typed
<1>1. ProcTyped'
  BY DEF ProcTyped, procVars
<1>2. TurnTyped'
  BY DEF TurnTyped
<1>3. RunTyped'
  BY DEF RunTyped
<1>4. Ids'
  BY DEF Ids, TurnTyped
<1>5. QED
  BY <1>1, <1>2, <1>3, <1>4

\* A run stores the row of its round.
LEMMA PersistTyped ==
  ASSUME Typed, NEW r \in Runs, r <= started, UNCHANGED started,
         NEW f \in {"stop", "tool-calls", "cancelled", "error"}, NEW e \in Errors,
         Persist(r, f, e)
  PROVE  RowTyped' /\ Last' = Last + 1
<1>1. started \in Nat /\ r \in 0..started /\ "aborted" \in Errors
  BY AgentTurnAssumption DEF Typed, RunTyped, Runs, Errors
<1>2. PICK m \in {Message(r, "cancelled", "aborted"), Message(r, f, e)} :
        msgs' = Append(msgs, m)
  BY DEF Persist
<1>3. m \in Rows /\ m.run <= started
  BY <1>1, <1>2, MessageTyped
<1>4. QED
  BY <1>1, <1>2, <1>3, AppendTyped DEF Typed

\* The terminal event of a run.
LEMMA EmitTyped ==
  ASSUME Typed, NEW r \in Runs, NEW e \in Errors \cup {"done"}, Emit(r, e)
  PROVE  inbox' \in [Turns -> Errors \cup {"done"}]
  BY DEF Emit, Typed, TurnTyped

\* A run's steps keep the types.
LEMMA RunStepsTyped ==
  ASSUME Typed, IInv, Counted, NEW r \in Runs, RunStep(r) \/ Hang(r)
  PROVE  Typed'
<1> USE DEF Typed
<1>1. /\ inbox \in [Turns -> Errors \cup {"done"}] /\ failure \in [Runs -> Errors]
      /\ started \in Nat /\ Last \in Nat /\ Last >= Last /\ metrics \in BOOLEAN
      /\ waiting \subseteq Calls /\ {"none", "plain"} \subseteq Errors
  BY AgentTurnAssumption DEF TurnTyped, RunTyped, RowTyped, Last, Errors
<1>2. loop[r] # "none" => r <= started
  BY DEF IInv, Unstarted, Shape, Runs
<1>3. UNCHANGED <<msgs, started>> => RowTyped' /\ Last' = Last
  BY DEF RowTyped, Last
<1>4. Unregister(r) => current' \in {0, current} /\ metrics' \in BOOLEAN
  BY <1>1 DEF Unregister
<1>5. CASE \/ StopAtTop(r) \/ BeginRound(r) \/ Hang(r) \/ MarkRunning(r) \/ RunNatively(r)
           \/ DelegateCall(r)
  <2>1. UNCHANGED <<stepVars, slotVars, turnVars, procVars, msgs, waiting>>
    BY <1>5 DEF StopAtTop, BeginRound, Hang, MarkRunning, RunNatively, DelegateCall, dbVars
  <2>2. QED
    BY <1>1, <1>3, <2>1, RunSideTyped DEF stepVars, slotVars, turnVars, pollVars
<1>6. CASE TakeLock(r) \/ RefuseRun(r)
  <2>1. UNCHANGED <<stepVars, turnVars, procVars, msgs, waiting>>
    BY <1>6 DEF TakeLock, RefuseRun, dbVars
  <2>2. current' \in {0, current} /\ metrics' \in BOOLEAN
    BY <1>4, <1>6 DEF TakeLock, RefuseRun
  <2>3. QED
    BY <1>1, <1>3, <2>1, <2>2, RunSideTyped DEF stepVars, turnVars, pollVars
<1>7. CASE RequestFails(r)
  <2>1. UNCHANGED <<started, slotVars, turnVars, procVars, msgs, waiting>>
    BY <1>7 DEF RequestFails, dbVars
  <2>2. failure' \in [Runs -> Errors]
    BY <1>1, <1>7 DEF RequestFails, Errors
  <2>3. QED
    BY <1>1, <1>3, <2>1, <2>2, RunSideTyped DEF slotVars, turnVars, pollVars
<1>8. CASE StreamBreaks(r)
  <2>1. UNCHANGED <<pc, prev, handled, exec, gone, source, sseDone, result, ladder, started,
                    slotVars, procVars, msgs, waiting>>
    BY <1>8 DEF StreamBreaks, dbVars
  <2>2. failure' \in [Runs -> Errors]
    BY <1>1, <1>8 DEF StreamBreaks
  <2>3. inbox' \in [Turns -> Errors \cup {"done"}]
    BY <1>1, <1>8, EmitTyped DEF StreamBreaks
  <2>4. QED
    BY <1>1, <1>3, <2>1, <2>2, <2>3, RunSideTyped DEF slotVars
<1>9. CASE FailedRound(r) \/ LastRound(r) \/ ConfirmRound(r) \/ ToolRound(r)
  <2>1. UNCHANGED <<stepVars, slotVars, turnVars, procVars, waiting>>
    BY <1>9 DEF FailedRound, LastRound, ConfirmRound, ToolRound
  <2>2. loop[r] # "none"
    BY <1>9 DEF FailedRound, LastRound, ConfirmRound, ToolRound, Answers
  <2>3. \/ UNCHANGED msgs
        \/ Persist(r, "error", failure[r])
        \/ Persist(r, "stop", "none") \/ Persist(r, "tool-calls", "none")
    BY <1>9 DEF FailedRound, LastRound, ConfirmRound, ToolRound
  <2>4. failure[r] \in Errors
    BY <1>1
  <2>5. UNCHANGED started
    BY <2>1 DEF stepVars
  <2>6. RowTyped' /\ Last' \in Nat /\ Last' >= Last
    BY <1>1, <1>2, <1>3, <2>2, <2>3, <2>4, <2>5, PersistTyped
  <2>7. QED
    BY <1>1, <2>1, <2>6, RunSideTyped DEF stepVars, slotVars, turnVars, pollVars
<1>10. CASE AwaitResult(r) \/ ResultArrives(r)
  <2>1. UNCHANGED <<stepVars, slotVars, turnVars, procVars, msgs>>
    BY <1>10 DEF AwaitResult, ResultArrives
  <2>2. CASE AwaitResult(r)
    <3>1. round[r] \in 1..MaxRounds
      BY <2>2, AgentTurnAssumption DEF AwaitResult, IInv, Shape, Counted
    <3>2. waiting' \subseteq Calls
      BY <1>1, <2>2, <3>1 DEF AwaitResult, Call, Calls
    <3>3. QED
      BY <1>1, <1>3, <2>1, <3>2, RunSideTyped DEF stepVars, slotVars, turnVars, pollVars
  <2>3. CASE ResultArrives(r)
    <3>1. waiting' \subseteq Calls
      BY <1>1, <2>3 DEF ResultArrives
    <3>2. QED
      BY <1>1, <1>3, <2>1, <3>1, RunSideTyped DEF stepVars, slotVars, turnVars, pollVars
  <2>4. QED
    BY <1>10, <2>2, <2>3
<1>11. CASE EndRun(r)
  <2>1. UNCHANGED <<pc, prev, handled, exec, gone, source, sseDone, result, ladder,
                    stepVars, slotVars, procVars, waiting>>
    BY <1>11 DEF EndRun
  <2>2. loop[r] # "none" /\ UNCHANGED started
    BY <1>11 DEF EndRun, stepVars
  <2>3. inbox' \in [Turns -> Errors \cup {"done"}]
    <3>1. PICK e \in Errors \cup {"done"} : Emit(r, e)
      BY <1>1, <1>11 DEF EndRun
    <3>2. QED
      BY <3>1, EmitTyped
  <2>4. RowTyped' /\ Last' \in Nat /\ Last' >= Last
    <3>1. CASE cancelled[r]
      BY <1>1, <1>2, <1>11, <2>2, <3>1, StopMarkerTyped DEF EndRun
    <3>2. CASE ~cancelled[r]
      BY <1>1, <1>3, <1>11, <2>2, <3>2 DEF EndRun
    <3>3. QED
      BY <3>1, <3>2
  <2>5. QED
    BY <1>1, <2>1, <2>3, <2>4, RunSideTyped DEF stepVars, slotVars
<1>12. CASE LeaveRun(r)
  <2>1. UNCHANGED <<started, turnVars, procVars, msgs, waiting>>
    BY <1>12 DEF LeaveRun, dbVars
  <2>2. failure' \in [Runs -> Errors]
    BY <1>1, <1>12 DEF LeaveRun
  <2>3. current' \in {0, current} /\ metrics' \in BOOLEAN
    BY <1>4, <1>12 DEF LeaveRun
  <2>4. QED
    BY <1>1, <1>3, <2>1, <2>2, <2>3, RunSideTyped DEF turnVars, pollVars
<1>13. QED
  BY <1>5, <1>6, <1>7, <1>8, <1>9, <1>10, <1>11, <1>12 DEF RunStep

\* The error a poll has been told of.
LEMMA RunErrorTyped ==
  ASSUME Typed, NEW t \in Turns
  PROVE  RunError(t) \in Errors
<1>1. inbox[t] \in Errors \cup {"done"} /\ "none" \in Errors
  BY DEF Typed, TurnTyped, Errors
<1>2. QED
  BY <1>1 DEF RunError

\* The steps of a turn that only lead it on, before its poll and after it.
LEMMA WayTyped ==
  ASSUME Typed, NEW t \in Turns,
         \/ Delegate(t) \/ MarkRust(t) \/ PostRunLoop(t) \/ Snapshot(t) \/ Settle(t)
         \/ CompactAndRetry(t) \/ OutputRetry(t) \/ EndTurn(t)
  PROVE  Typed'
<1> USE AgentTurnAssumption DEF Typed
<1>1. Last \in Nat /\ started \in Nat
  BY DEF RowTyped, RunTyped, Last
<1>2. CASE Delegate(t) \/ MarkRust(t) \/ Settle(t)
  <2>1. /\ UNCHANGED <<pollVars, result, ladder, runVars, overflows, stop, cancels, dbVars>>
        /\ aborted' \in {aborted, FALSE} /\ owner' \in {owner, "ts", "rust"}
        /\ \E l \in TurnPlaces : Go(t, l)
    BY <1>2 DEF Delegate, MarkRust, Settle, TurnPlaces
  <2>2. ProcTyped'
    BY <2>1 DEF ProcTyped
  <2>3. TurnTyped'
    BY <2>1 DEF TurnTyped, Go, pollVars, runVars, stepVars
  <2>4. RunTyped' /\ RowTyped' /\ Ids'
    BY <2>1 DEF RunTyped, RowTyped, Ids, Last, pollVars, runVars, stepVars, slotVars, dbVars
  <2>5. QED
    BY <2>2, <2>3, <2>4
<1>3. CASE PostRunLoop(t)
  <2>1. /\ UNCHANGED <<pollVars, result, ladder, procVars, dbVars, failure>>
        /\ metrics' \in {metrics, FALSE}
        /\ \E l \in TurnPlaces : Go(t, l)
        /\ \/ started' = started /\ current' \in {current, 0}
           \/ started < MaxRuns /\ started' = started + 1 /\ current' = started + 1
    BY <1>3 DEF PostRunLoop, Register, RejectRun, runVars, stepVars, slotVars, TurnPlaces
  <2>2. ProcTyped'
    BY <2>1 DEF ProcTyped, procVars
  <2>3. RunTyped' /\ started <= started'
    <3>1. /\ current' \in 0..started' /\ started' \in 0..MaxRuns /\ started <= started'
      BY <1>1, <2>1 DEF RunTyped
    <3>2. /\ failure' \in [Runs -> Errors] /\ metrics' \in BOOLEAN /\ waiting' \subseteq Calls
      BY <2>1, Zenon DEF RunTyped, dbVars
    <3>3. QED
      BY <3>1, <3>2 DEF RunTyped
  <2>4. TurnTyped'
    BY <1>1, <2>1, <2>3 DEF TurnTyped, Go, pollVars, RunTyped
  <2>5. RowTyped' /\ Ids'
    <3>1. \A i \in 1..Last : msgs[i] \in Rows
      BY DEF RowTyped, Last
    <3>2. \A i \in 1..Last : msgs[i].run \in Nat
      BY <3>1 DEF Rows
    <3>3. QED
      BY <1>1, <2>1, <2>3, <3>2 DEF RowTyped, RunTyped, Ids, Last, pollVars, dbVars
  <2>6. QED
    BY <2>2, <2>3, <2>4, <2>5
<1>4. CASE Snapshot(t)
  <2>1. /\ UNCHANGED <<handled, exec, gone, source, inbox, sseDone, result, ladder, runVars,
                       procVars, dbVars>>
        /\ Go(t, "poll") /\ prev' = [prev EXCEPT ![t] = Last]
    BY <1>4 DEF Snapshot
  <2>2. ProcTyped' /\ RunTyped' /\ RowTyped'
    BY <2>1 DEF ProcTyped, RunTyped, RowTyped, Last, procVars, runVars, stepVars, slotVars,
                dbVars
  <2>3. TurnTyped'
    BY <1>1, <2>1 DEF TurnTyped, Go, TurnPlaces, runVars, stepVars
  <2>4. Ids'
    BY <1>1, <2>1 DEF Ids, TurnTyped, Last, dbVars
  <2>5. QED
    BY <2>2, <2>3, <2>4
<1>5. CASE CompactAndRetry(t)
  <2>1. /\ UNCHANGED <<pollVars, ladder, runVars, aborted, owner, stop, cancels, waiting>>
        /\ msgs' \in {msgs, Append(msgs, Message(0, "stop", "none"))}
        /\ overflows' = overflows \/ (overflows < MaxOverflow /\ overflows' = overflows + 1)
        /\ \E l \in TurnPlaces : Go(t, l)
        /\ result' \in {result, [result EXCEPT ![t] = 0]}
    BY <1>5 DEF CompactAndRetry, Again, TurnPlaces
  <2>2. ProcTyped' /\ RunTyped'
    BY <2>1 DEF ProcTyped, RunTyped, runVars, stepVars, slotVars
  <2>3. TurnTyped'
    <3>1. pc' \in [Turns -> TurnPlaces]
      BY <2>1 DEF TurnTyped, Go
    <3>2. result' = result \/ result' = [result EXCEPT ![t] = 0]
      BY <2>1, Zenon
    <3>3. result' \in [Turns -> Nat]
      BY <3>2 DEF TurnTyped
    <3>4. QED
      BY <2>1, <3>1, <3>3 DEF TurnTyped, pollVars, runVars, stepVars
  <2>4. RowTyped' /\ Last' \in Nat /\ Last' >= Last
    <3>1. UNCHANGED started
      BY <2>1 DEF runVars, stepVars
    <3>2. Message(0, "stop", "none") \in Rows /\ Message(0, "stop", "none").run <= started
      BY <1>1, MessageTyped DEF Errors
    <3>3. CASE msgs' = msgs
      BY <1>1, <3>1, <3>3 DEF RowTyped, Last
    <3>4. CASE msgs' = Append(msgs, Message(0, "stop", "none"))
      BY <1>1, <3>1, <3>2, <3>4, AppendTyped
    <3>5. QED
      BY <2>1, <3>3, <3>4
  <2>5. Ids'
    <3>1. \A s \in Turns : result'[s] \in {0, result[s]} /\ prev'[s] = prev[s]
      BY <2>1 DEF TurnTyped, pollVars
    <3>2. QED
      BY <1>1, <2>4, <3>1 DEF Ids, TurnTyped
  <2>6. QED
    BY <2>2, <2>3, <2>4, <2>5
<1>6. CASE OutputRetry(t) \/ EndTurn(t)
  <2>1. /\ UNCHANGED <<pollVars, runVars, procVars, dbVars>>
        /\ \/ UNCHANGED ladder
           \/ ladder[t] < LadderLength /\ ladder' = [ladder EXCEPT ![t] = @ + 1]
        /\ \E l \in TurnPlaces : Go(t, l)
        /\ result' \in {result, [result EXCEPT ![t] = 0]}
    BY <1>6 DEF OutputRetry, EndTurn, Again, TurnPlaces
  <2>2. ProcTyped' /\ RunTyped' /\ RowTyped'
    BY <2>1 DEF ProcTyped, RunTyped, RowTyped, Last, procVars, runVars, stepVars, slotVars,
                dbVars
  <2>3. TurnTyped'
    BY <2>1 DEF TurnTyped, Go, pollVars, runVars, stepVars
  <2>4. Ids'
    <3>1. \A s \in Turns : result'[s] \in {0, result[s]} /\ prev'[s] = prev[s]
      BY <2>1 DEF TurnTyped, pollVars
    <3>2. Last' = Last
      BY <2>1 DEF Last, dbVars
    <3>3. QED
      BY <1>1, <3>1, <3>2 DEF Ids, TurnTyped
  <2>5. QED
    BY <2>2, <2>3, <2>4
<1>7. QED
  BY <1>2, <1>3, <1>4, <1>5, <1>6

\* The steps of a poll, and its event stream.
LEMMA PollTyped ==
  ASSUME Typed, NEW t \in Turns,
         \/ PollAborted(t) \/ PollEnded(t) \/ Probe(t) \/ ProbeGone(t) \/ Watchdog(t)
         \/ Collect(t) \/ PollFinished(t) \/ ExecStep(t) \/ ToolsDone(t)
         \/ Connect(t) \/ ReceiveEvent(t)
  PROVE  Typed'
<1> USE AgentTurnAssumption DEF Typed
<1>1. Last \in Nat /\ Last >= Last /\ started \in Nat
  BY DEF RowTyped, RunTyped, Last
<1>2. UNCHANGED <<msgs, started>> => RowTyped' /\ Last' = Last
  BY DEF RowTyped, Last
<1>3. CASE \/ PollAborted(t) \/ PollEnded(t) \/ ProbeGone(t) \/ Watchdog(t) \/ PollFinished(t)
           \/ (ToolsDone(t) /\ result[t] # 0)
  <2>1. /\ UNCHANGED <<owner, overflows, stop, cancels, started, slotVars, failure, waiting>>
        /\ aborted' \in {aborted, FALSE}
    BY <1>3 DEF PollAborted, PollEnded, ProbeGone, Watchdog, PollFinished, ToolsDone,
                runVars, stepVars, slotVars, procVars, dbVars
  <2>2. ProcTyped' /\ RunTyped'
    BY <2>1 DEF ProcTyped, RunTyped, slotVars
  <2>3. \/ UNCHANGED msgs /\ (Return(t, Last) \/ Return(t, result[t]))
        \/ Synthesize(t, RunError(t)) \/ Synthesize(t, "plain")
    BY <1>3 DEF PollAborted, PollEnded, ProbeGone, Watchdog, PollFinished, ToolsDone, dbVars
  <2>4. result[t] \in Nat /\ result[t] <= Last
    BY DEF TurnTyped, Ids
  <2>5. RunError(t) \in Errors /\ "plain" \in Errors
    BY RunErrorTyped DEF Errors
  <2>6. TurnTyped' /\ Ids' /\ RowTyped'
    <3>1. CASE UNCHANGED msgs /\ (Return(t, Last) \/ Return(t, result[t]))
      BY <1>1, <1>2, <2>1, <2>4, <3>1, ReturnTyped
    <3>2. CASE Synthesize(t, RunError(t)) \/ Synthesize(t, "plain")
      BY <2>1, <2>5, <3>2, SynthesizeTyped
    <3>3. QED
      BY <2>3, <3>1, <3>2
  <2>7. QED
    BY <2>2, <2>6
<1>4. CASE ToolsDone(t) /\ result[t] = 0
  <2>1. UNCHANGED <<pollVars, result, ladder, runVars, procVars, dbVars>> /\ Go(t, "poll")
    BY <1>4 DEF ToolsDone
  <2>2. ProcTyped' /\ RunTyped' /\ RowTyped' /\ Ids'
    BY <2>1 DEF ProcTyped, RunTyped, RowTyped, Ids, Last, procVars, runVars, stepVars,
                slotVars, dbVars, pollVars
  <2>3. TurnTyped'
    BY <2>1 DEF TurnTyped, Go, TurnPlaces, pollVars, runVars, stepVars
  <2>4. QED
    BY <2>2, <2>3
<1>5. CASE Collect(t)
  <2>1. /\ UNCHANGED <<prev, gone, source, inbox, sseDone, ladder, runVars, procVars, dbVars>>
        /\ handled' = [handled EXCEPT ![t] = @ \cup (Pending \ handled[t])]
        /\ exec' = [exec EXCEPT ![t] = Pending \ handled[t]]
        /\ result' \in {[result EXCEPT ![t] = Last], [result EXCEPT ![t] = 0]}
        /\ Go(t, "tools")
    BY <1>5 DEF Collect
  <2>2. ProcTyped' /\ RunTyped' /\ RowTyped'
    BY <2>1 DEF ProcTyped, RunTyped, RowTyped, Last, procVars, runVars, stepVars, slotVars,
                dbVars
  <2>3. Pending \subseteq Calls
    BY DEF Pending
  <2>4. handled' \in [Turns -> SUBSET Calls] /\ exec' \in [Turns -> SUBSET Calls]
    BY <2>1, <2>3 DEF TurnTyped
  <2>5. TurnTyped'
    BY <1>1, <2>1, <2>4 DEF TurnTyped, Go, TurnPlaces, runVars, stepVars
  <2>6. Ids'
    <3>1. \A s \in Turns : result'[s] \in {0, Last, result[s]} /\ prev'[s] = prev[s]
      BY <2>1 DEF TurnTyped
    <3>2. Last' = Last
      BY <2>1 DEF Last, dbVars
    <3>3. QED
      BY <1>1, <3>1, <3>2 DEF Ids, TurnTyped
  <2>7. QED
    BY <2>2, <2>5, <2>6
<1>6. CASE ExecStep(t)
  <2>1. PICK c \in Calls : ExecuteTool(t, c)
    BY <1>6 DEF ExecStep
  <2>2. /\ UNCHANGED <<pc, prev, handled, gone, source, inbox, sseDone, result, ladder,
                       runVars, procVars, msgs>>
        /\ exec' = [exec EXCEPT ![t] = @ \ {c}]
        /\ waiting' \in {waiting, waiting \ {c}}
    BY <2>1 DEF ExecuteTool
  <2>3. ProcTyped' /\ RunTyped' /\ RowTyped' /\ Ids'
    BY <2>2 DEF ProcTyped, RunTyped, RowTyped, Ids, Last, procVars, runVars, stepVars, slotVars
  <2>4. exec' \in [Turns -> SUBSET Calls]
    BY <2>2 DEF TurnTyped
  <2>5. TurnTyped'
    BY <2>2, <2>4 DEF TurnTyped, runVars, stepVars
  <2>6. QED
    BY <2>3, <2>5
<1>7. CASE Probe(t) \/ Connect(t) \/ ReceiveEvent(t)
  <2>1. UNCHANGED <<pc, prev, handled, exec, inbox, result, ladder, runVars, procVars, dbVars>>
    BY <1>7 DEF Probe, Connect, ReceiveEvent
  <2>2. ProcTyped' /\ RunTyped' /\ RowTyped' /\ Ids'
    BY <2>1 DEF ProcTyped, RunTyped, RowTyped, Ids, Last, procVars, runVars, stepVars,
                slotVars, dbVars
  <2>3. gone' \in [Turns -> BOOLEAN] /\ sseDone' \in [Turns -> BOOLEAN]
    BY <1>7 DEF Probe, Connect, ReceiveEvent, TurnTyped, RunTyped
  <2>4. source' \in [Turns -> 0..started]
    BY <1>7 DEF Probe, Connect, ReceiveEvent, TurnTyped, RunTyped
  <2>5. TurnTyped'
    BY <2>1, <2>3, <2>4 DEF TurnTyped, runVars, stepVars
  <2>6. QED
    BY <2>2, <2>5
<1>8. QED
  BY <1>3, <1>4, <1>5, <1>6, <1>7

\* Every step keeps the types.
LEMMA TypedKept ==
  ASSUME Typed, IInv, Counted, [Next]_vars
  PROVE  Typed'
<1>1. CASE UNCHANGED vars
  BY <1>1 DEF vars, Typed, ProcTyped, TurnTyped, RunTyped, RowTyped, Ids, Last, turnVars,
              pollVars, runVars, stepVars, slotVars, procVars, dbVars
<1>2. ASSUME NEW t \in Turns,
             \/ Delegate(t) \/ PollStep(t) \/ ExecStep(t) \/ Probe(t) \/ ProbeGone(t)
             \/ Watchdog(t) \/ Connect(t) \/ ReceiveEvent(t)
      PROVE  Typed'
  BY <1>2, WayTyped, PollTyped DEF PollStep
<1>3. ASSUME NEW r \in Runs, RunStep(r) \/ Hang(r)
      PROVE  Typed'
  BY <1>3, RunStepsTyped
<1>4. CASE PressStop \/ CancelRunLoop
  <2>1. ProcTyped'
    <3>1. cancels' \in 0..MaxCancels
      BY <1>4, AgentTurnAssumption DEF PressStop, CancelRunLoop, Typed, ProcTyped
    <3>2. aborted' \in {aborted, TRUE} /\ UNCHANGED <<owner, overflows>>
      BY <1>4 DEF PressStop, CancelRunLoop
    <3>3. stop' \in {"idle", "cancel"}
      BY <1>4 DEF PressStop, CancelRunLoop
    <3>4. QED
      BY <3>1, <3>2, <3>3 DEF Typed, ProcTyped
  <2>2. UNCHANGED <<turnVars, started, failure, slotVars, dbVars>>
    BY <1>4 DEF PressStop, CancelRunLoop, runVars, stepVars
  <2>3. QED
    BY <2>1, <2>2 DEF Typed, TurnTyped, RunTyped, RowTyped, Ids, Last, turnVars, pollVars,
                      slotVars, dbVars
<1>5. QED
  BY <1>1, <1>2, <1>3, <1>4 DEF Next

\* The first state is typed.
LEMMA TypedInitially == Init => Typed /\ Counted
<1> SUFFICES ASSUME Init PROVE Typed /\ Counted
  OBVIOUS
<1> USE AgentTurnAssumption DEF Init
<1>1. ProcTyped
  <2>1. aborted \in BOOLEAN /\ owner \in {"ts", "rust"} /\ stop \in {"idle", "cancel"}
    BY Zenon
  <2>2. overflows \in 0..MaxOverflow /\ cancels \in 0..MaxCancels
    OBVIOUS
  <2>3. QED
    BY <2>1, <2>2 DEF ProcTyped
<1>2. RunTyped
  <2>1. metrics \in BOOLEAN
    BY Zenon
  <2>2. failure \in [Runs -> Errors] /\ waiting \subseteq Calls
    BY DEF Errors
  <2>3. current \in 0..started /\ started \in 0..MaxRuns
    OBVIOUS
  <2>4. QED
    BY <2>1, <2>2, <2>3 DEF RunTyped
<1>3. Counted
  BY DEF Counted
<1>4. TurnTyped
  BY DEF TurnTyped, TurnPlaces, Errors
<1>5. Last = 0
  BY DEF Last
<1>6. RowTyped /\ Ids
  BY <1>5 DEF RowTyped, Ids
<1>7. QED
  BY <1>1, <1>2, <1>3, <1>4, <1>6 DEF Typed

(* Every reachable state is well typed: the places a turn remembers are rows that
   exist, and what is awaited are calls of rounds that were begun. *)
THEOREM TypeCorrect == Spec => []TypeOK
<1>1. Init => IInv /\ Typed /\ Counted
  BY Initially, TypedInitially
<1>2. IInv /\ Typed /\ Counted /\ [Next]_vars => (IInv /\ Typed /\ Counted)'
  BY Inductive, TypedKept, CountedKeeps
<1>3. IInv /\ Typed /\ Counted => TypeOK
  <2> SUFFICES ASSUME IInv, Typed PROVE TypeOK
    OBVIOUS
  <2> USE AgentTurnAssumption DEF Typed
  <2>2. Last \in Nat /\ started \in Nat
    BY DEF RowTyped, RunTyped, Last
  <2>3. \A t \in Turns : {prev[t], result[t]} \subseteq 0..Last
    BY <2>2 DEF TurnTyped, Ids
  <2>4. \A i \in 1..Last : msgs[i].run \in 0..started /\ msgs[i].error \in Errors
    <3>1. \A i \in 1..Last : msgs[i] \in Rows
      BY DEF RowTyped, Last
    <3>2. QED
      BY <2>2, <3>1 DEF RowTyped, Rows
  <2>5. QED
    BY <2>3, <2>4
    DEF TypeOK, IInv, Shape, Places, PartStates, ProcTyped, TurnTyped, RunTyped, TurnPlaces
<1>4. QED
  BY <1>1, <1>2, <1>3, PTL DEF Spec

-----------------------------------------------------------------------------
(* Executing once. What a retry of the turn could execute again are parts that
   are still open and that the poll before it had handed out. A turn is retried
   only for an error row of an overflow or an output limit; the poll writes such
   a row only when it was told so by a run that has ended, and by then no run
   opens a part any more: the session lock lets one run work at a time, and the
   runs that still wait for it are cancelled.                               *)

Open(c) == part[c] \in {"pending", "running"}

\* The session lock: one run works.
OneHolds ==
  \A r, s \in Runs :
    /\ loop[r] \notin {"none", "lock", "refused", "gone"}
    /\ loop[s] \notin {"none", "lock", "refused", "gone"}
    => r = s

\* An answer that broke off says so in its row.
BrokenPlainly == \A r \in Runs : loop[r] = "failing" => failure[r] = "plain"

\* Nothing is executed that was not inserted, and the parts of rounds to come are
\* not inserted.
Fresh ==
  /\ \A c \in Calls : part[c] = "none" => tries[c] = 0
  /\ \A r \in Runs, n \in 1..MaxRounds :
       n > round[r] /\ loop[r] # "gone" => part[<<r, n>>] = "none"

\* A run in the middle of a call has its part open.
Busy ==
  \A r \in Runs : loop[r] \in {"inserted", "running", "batch", "wait"} => Open(Call(r))

\* What holds of the runs, however many turns there are.
RInv == tries \in [Calls -> Nat] /\ OneHolds /\ BrokenPlainly /\ Fresh /\ Busy

\* Steps that neither move a run nor execute a call.
LEMMA RInvUntouched ==
  ASSUME RInv, UNCHANGED <<loop, round, part, failure, tries>>
  PROVE  RInv'
  BY DEF RInv, OneHolds, BrokenPlainly, Fresh, Busy, Open, Call

\* A run moves outside its calls.
LEMMA RInvMove ==
  ASSUME RInv, IInv, NEW r \in Runs, NEW l \in Places \ {"failing"},
         loop[r] \notin {"none", "lock", "refused", "gone"},
         l \notin {"inserted", "running", "batch", "wait"},
         loop' = [loop EXCEPT ![r] = l],
         \A s \in Runs : s # r => failure'[s] = failure[s],
         \A s \in Runs : s # r => round'[s] = round[s],
         round'[r] >= round[r] \/ l = "gone", round'[r] \in Nat,
         UNCHANGED <<part, tries>>
  PROVE  RInv'
<1> USE DEF RInv, IInv, Shape
<1>1. OneHolds'
  BY DEF OneHolds
<1>2. BrokenPlainly'
  BY DEF BrokenPlainly
<1>3. Fresh'
  <2>1. ASSUME NEW s \in Runs, NEW n \in 1..MaxRounds, n > round'[s], loop'[s] # "gone"
        PROVE  n > round[s] /\ loop[s] # "gone"
    BY <2>1
  <2>2. QED
    BY <2>1 DEF Fresh
<1>4. Busy'
  BY DEF Busy, Open, Call
<1>5. QED
  BY <1>1, <1>2, <1>3, <1>4

\* A run takes a step of its call.
LEMMA RInvCall ==
  ASSUME RInv, IInv, Counted, NEW r \in Runs, NEW l, NEW s \in {"pending", "running", "settled"},
         loop[r] \in {"inserted", "running", "batch", "wait"},
         \/ l \in {"inserted", "running", "batch", "wait"} /\ s # "settled"
         \/ l = "top",
         loop' = [loop EXCEPT ![r] = l],
         part' = [part EXCEPT ![Call(r)] = s],
         UNCHANGED <<round, failure, tries>>
  PROVE  RInv'
<1> USE AgentTurnAssumption DEF RInv, IInv, Shape
<1>1. OneHolds' /\ BrokenPlainly'
  BY DEF OneHolds, BrokenPlainly
<1>2. round[r] \in 1..MaxRounds /\ Call(r) \in Calls
  BY DEF Counted, Call, Calls
<1>3. Fresh'
  <2>1. \A c \in Calls : part'[c] = "none" => part[c] = "none"
    BY <1>2
  <2>2. ASSUME NEW q \in Runs, NEW n \in 1..MaxRounds, n > round[q], loop'[q] # "gone"
        PROVE  part'[<<q, n>>] = "none"
    <3>1. <<q, n>> # Call(r) /\ <<q, n>> \in Calls
      BY <1>2, <2>2 DEF Call, Calls
    <3>2. loop[q] # "gone"
      BY <2>2
    <3>3. part[<<q, n>>] = "none"
      BY <2>2, <3>2 DEF Fresh
    <3>4. QED
      BY <3>1, <3>3
  <2>3. QED
    BY <2>1, <2>2 DEF Fresh
<1>4. Busy'
  <2>1. SUFFICES ASSUME NEW q \in Runs, loop'[q] \in {"inserted", "running", "batch", "wait"}
                 PROVE  part'[Call(q)] \in {"pending", "running"}
    BY DEF Busy, Open, Call
  <2>2. CASE q = r
    BY <1>2, <2>1, <2>2
  <2>3. CASE q # r
    <3>1. Call(q) # Call(r)
      BY <2>3 DEF Call
    <3>2. part[Call(q)] \in {"pending", "running"}
      BY <2>1, <2>3 DEF Busy, Open
    <3>3. QED
      BY <3>1, <3>2
  <2>4. QED
    BY <2>2, <2>3
<1>5. QED
  BY <1>1, <1>3, <1>4

\* A round with a call inserts a part that was not there.
LEMMA RInvToolRound ==
  ASSUME RInv, IInv, NEW r \in Runs, ToolRound(r)
  PROVE  RInv'
<1> USE AgentTurnAssumption DEF RInv, IInv, Shape
<1>1. PICK n \in 1..MaxRounds : n = round[r] + 1
  BY DEF ToolRound
<1>2. /\ loop[r] = "asking" /\ loop' = [loop EXCEPT ![r] = "inserted"]
      /\ round' = [round EXCEPT ![r] = n]
      /\ part' = [part EXCEPT ![<<r, n>>] = "pending"]
      /\ UNCHANGED <<failure, tries>>
  BY <1>1 DEF ToolRound, Answers, MoveTo, stepVars
<1>3. <<r, n>> \in Calls
  BY DEF Calls
<1>4. OneHolds' /\ BrokenPlainly'
  BY <1>2 DEF OneHolds, BrokenPlainly
<1>5. Fresh'
  <2>1. \A c \in Calls : part'[c] = "none" => part[c] = "none"
    BY <1>2, <1>3
  <2>2. ASSUME NEW q \in Runs, NEW k \in 1..MaxRounds, k > round'[q], loop'[q] # "gone"
        PROVE  part'[<<q, k>>] = "none"
    <3>1. <<q, k>> # <<r, n>> /\ <<q, k>> \in Calls
      BY <1>2, <2>2 DEF Calls
    <3>2. k > round[q] /\ loop[q] # "gone"
      BY <1>1, <1>2, <2>2
    <3>3. part[<<q, k>>] = "none"
      BY <3>2 DEF Fresh
    <3>4. QED
      BY <1>2, <3>1, <3>3
  <2>3. QED
    BY <1>2, <2>1, <2>2 DEF Fresh
<1>6. Busy'
  <2>1. SUFFICES ASSUME NEW q \in Runs, loop'[q] \in {"inserted", "running", "batch", "wait"}
                 PROVE  part'[<<q, round'[q]>>] \in {"pending", "running"}
    BY DEF Busy, Open, Call
  <2>2. CASE q = r
    BY <1>2, <1>3, <2>2
  <2>3. CASE q # r
    <3>1. part[<<q, round[q]>>] \in {"pending", "running"}
      BY <1>2, <2>1, <2>3 DEF Busy, Open, Call
    <3>2. <<q, round[q]>> # <<r, n>> /\ round'[q] = round[q]
      BY <1>2, <2>3
    <3>3. QED
      BY <1>2, <3>1, <3>2
  <2>4. QED
    BY <2>2, <2>3
<1>7. QED
  BY <1>2, <1>4, <1>5, <1>6

\* The runs' steps.
LEMMA RInvRun ==
  ASSUME RInv, IInv, Counted, Typed, NEW r \in Runs, RunStep(r) \/ Hang(r)
  PROVE  RInv'
<1> USE AgentTurnAssumption DEF Places
<1>1. round \in [Runs -> 0..MaxRounds] /\ failure \in [Runs -> Errors]
  BY DEF IInv, Shape, Typed, RunTyped
<1>2. CASE \/ StopAtTop(r) \/ BeginRound(r) \/ Hang(r) \/ FailedRound(r) \/ LastRound(r)
           \/ EndRun(r)
  <2>1. /\ UNCHANGED <<round, failure, part, tries>>
        /\ loop[r] \in {"top", "asking", "failing", "ending"}
        /\ \E l \in {"ending", "asking", "hung", "emitted"} : loop' = [loop EXCEPT ![r] = l]
    BY <1>2 DEF StopAtTop, BeginRound, Hang, FailedRound, LastRound, EndRun, Answers, MoveTo,
                stepVars, dbVars
  <2>2. PICK l \in {"ending", "asking", "hung", "emitted"} : loop' = [loop EXCEPT ![r] = l]
    BY <2>1
  <2>3. round'[r] \in Nat /\ round'[r] >= round[r]
    BY <1>1, <2>1
  <2>4. l \in Places \ {"failing"}
    OBVIOUS
  <2>5. QED
    BY <2>1, <2>2, <2>3, <2>4, RInvMove
<1>3. CASE RequestFails(r)
  <2>1. /\ UNCHANGED <<round, part, tries>> /\ loop[r] \in {"asking", "hung"}
        /\ loop' = [loop EXCEPT ![r] = "ending"]
    BY <1>3 DEF RequestFails, Answers, Interrupted, MoveTo, dbVars
  <2>2. \A s \in Runs : s # r => failure'[s] = failure[s]
    BY <1>1, <1>3 DEF RequestFails
  <2>3. round'[r] \in Nat /\ round'[r] >= round[r]
    BY <1>1, <2>1
  <2>4. QED
    BY <2>1, <2>2, <2>3, RInvMove
<1>4. CASE LeaveRun(r)
  <2>1. /\ UNCHANGED <<part, tries>> /\ loop[r] = "emitted"
        /\ loop' = [loop EXCEPT ![r] = "gone"]
        /\ round' = [round EXCEPT ![r] = 0] /\ failure' = [failure EXCEPT ![r] = "none"]
    BY <1>4 DEF LeaveRun, MoveTo, dbVars
  <2>2. QED
    BY <1>1, <2>1, RInvMove
<1>5. CASE ConfirmRound(r)
  <2>1. /\ UNCHANGED <<part, tries, failure>> /\ loop[r] = "asking"
        /\ loop' = [loop EXCEPT ![r] = "top"] /\ round' = [round EXCEPT ![r] = @ + 1]
    BY <1>5 DEF ConfirmRound, Answers, MoveTo, stepVars
  <2>2. /\ round'[r] \in Nat /\ round'[r] >= round[r]
        /\ \A s \in Runs : s # r => round'[s] = round[s]
    BY <1>1, <2>1
  <2>3. QED
    BY <2>1, <2>2, RInvMove
<1>6. CASE TakeLock(r) \/ RefuseRun(r)
  <2>1. PICK l \in {"top", "refused"} : loop' = [loop EXCEPT ![r] = l]
    BY <1>6 DEF TakeLock, RefuseRun, MoveTo
  <2>2. /\ UNCHANGED <<round, failure, part, tries>> /\ loop[r] = "lock"
        /\ \A s \in Runs : loop[s] \in {"none", "lock", "refused", "gone"}
    BY <1>6 DEF TakeLock, RefuseRun, Locked, stepVars, dbVars
  <2> USE <2>1, <2>2 DEF RInv, IInv, Shape
  <2>3. OneHolds' /\ BrokenPlainly'
    BY DEF OneHolds, BrokenPlainly
  <2>4. Fresh'
    BY DEF Fresh
  <2>5. Busy'
    BY DEF Busy
  <2>6. QED
    BY <2>3, <2>4, <2>5
<1>7. CASE StreamBreaks(r)
  <2>1. /\ UNCHANGED <<round, part, tries>> /\ loop[r] \in {"asking", "hung"}
        /\ loop' = [loop EXCEPT ![r] = "failing"] /\ failure' = [failure EXCEPT ![r] = "plain"]
    BY <1>7 DEF StreamBreaks, Answers, Interrupted, MoveTo, dbVars
  <2> USE <1>1, <2>1 DEF RInv, IInv, Shape
  <2>2. OneHolds' /\ BrokenPlainly'
    BY DEF OneHolds, BrokenPlainly
  <2>3. Fresh'
    BY DEF Fresh
  <2>4. Busy'
    BY DEF Busy, Open, Call
  <2>5. QED
    BY <2>2, <2>3, <2>4
<1>8. CASE ToolRound(r)
  BY <1>8, RInvToolRound
<1>9. CASE MarkRunning(r) \/ RunNatively(r) \/ DelegateCall(r) \/ ResultArrives(r)
  <2>1. PICK l \in {"running", "batch", "top"}, s \in {"pending", "running", "settled"} :
          /\ s # "settled" \/ l = "top"
          /\ loop' = [loop EXCEPT ![r] = l] /\ part' = [part EXCEPT ![Call(r)] = s]
    BY <1>9 DEF MarkRunning, RunNatively, DelegateCall, ResultArrives, SetPart, MoveTo
  <2>2. UNCHANGED <<round, failure, tries>> /\ loop[r] \in {"inserted", "running", "wait"}
    BY <1>9 DEF MarkRunning, RunNatively, DelegateCall, ResultArrives, stepVars
  <2>3. QED
    BY <2>1, <2>2, RInvCall
<1>10. CASE AwaitResult(r)
  <2>1. /\ UNCHANGED <<round, failure, part, tries>> /\ loop[r] = "batch"
        /\ loop' = [loop EXCEPT ![r] = "wait"]
    BY <1>10 DEF AwaitResult, MoveTo, stepVars
  <2> USE <2>1 DEF RInv, IInv, Shape
  <2>2. OneHolds' /\ BrokenPlainly'
    BY DEF OneHolds, BrokenPlainly
  <2>3. Fresh'
    BY DEF Fresh
  <2>4. Busy'
    BY DEF Busy, Open, Call
  <2>5. QED
    BY <2>2, <2>3, <2>4
<1>11. QED
  BY <1>2, <1>3, <1>4, <1>5, <1>6, <1>7, <1>8, <1>9, <1>10 DEF RunStep

\* The other steps: a new run, and the execution of parts that are pending.
LEMMA RInvOther ==
  ASSUME RInv, IInv, Counted, Typed, [Next]_vars
  PROVE  RInv'
<1>1. ASSUME NEW t \in Turns, PostRunLoop(t)
      PROVE  RInv'
  <2>1. CASE UNCHANGED runVars
    BY <1>1, <2>1, RInvUntouched DEF PostRunLoop, runVars, stepVars, dbVars
  <2>2. CASE RejectRun
    BY <1>1, <2>2, RInvUntouched DEF PostRunLoop, RejectRun, dbVars
  <2>3. ASSUME NEW l \in {"lock", "refused"}, started < MaxRuns, Register(started + 1, l)
        PROVE  RInv'
    <3>1. PICK r \in Runs : r = started + 1
      BY <2>3, AgentTurnAssumption DEF Runs, IInv, Shape
    <3>2. loop[r] = "none"
      BY <3>1 DEF IInv, Unstarted, Shape
    <3>3. /\ UNCHANGED <<round, part, failure, tries>>
          /\ loop' = [loop EXCEPT ![r] = l]
      BY <1>1, <2>3, <3>1 DEF PostRunLoop, Register, dbVars
    <3> USE <3>2, <3>3 DEF RInv, IInv, Shape
    <3>4. OneHolds' /\ BrokenPlainly'
      BY DEF OneHolds, BrokenPlainly
    <3>5. Fresh'
      BY DEF Fresh
    <3>6. Busy'
      BY DEF Busy, Open, Call
    <3>7. QED
      BY <3>4, <3>5, <3>6
  <2>4. QED
    BY <1>1, <2>1, <2>2, <2>3 DEF PostRunLoop
<1>2. ASSUME NEW t \in Turns, Collect(t)
      PROVE  RInv'
  <2>1. /\ UNCHANGED <<loop, round, part, failure>>
        /\ tries' = [c \in Calls |-> IF c \in Pending \ handled[t] THEN tries[c] + 1
                                                                 ELSE tries[c]]
    BY <1>2 DEF Collect, runVars, stepVars, dbVars
  <2>2. tries' \in [Calls -> Nat]
    BY <2>1 DEF RInv
  <2>3. \A c \in Calls : part[c] = "none" => tries'[c] = tries[c]
    BY <2>1 DEF Pending
  <2>4. OneHolds' /\ BrokenPlainly' /\ Busy'
    BY <2>1 DEF RInv, OneHolds, BrokenPlainly, Busy, Open, Call
  <2>5. Fresh'
    BY <2>1, <2>3 DEF RInv, Fresh
  <2>6. QED
    BY <2>2, <2>4, <2>5 DEF RInv
<1>3. ASSUME NEW r \in Runs, RunStep(r) \/ Hang(r)
      PROVE  RInv'
  BY <1>3, RInvRun
<1>4. ASSUME NEW t \in Turns,
             \/ Delegate(t) \/ MarkRust(t) \/ Snapshot(t) \/ PollAborted(t) \/ PollEnded(t)
             \/ PollFinished(t) \/ ToolsDone(t) \/ Settle(t)
      PROVE  RInv'
  BY <1>4, RInvUntouched
  DEF Delegate, MarkRust, Snapshot, PollAborted, PollEnded, PollFinished, ToolsDone, Settle,
      runVars, stepVars, dbVars
<1>5. ASSUME NEW t \in Turns,
             \/ CompactAndRetry(t) \/ OutputRetry(t) \/ EndTurn(t) \/ ExecStep(t) \/ Probe(t)
             \/ ProbeGone(t) \/ Watchdog(t) \/ Connect(t) \/ ReceiveEvent(t)
      PROVE  RInv'
  BY <1>5, RInvUntouched
  DEF CompactAndRetry, OutputRetry, EndTurn, ExecStep, ExecuteTool, Probe, ProbeGone, Watchdog,
      Connect, ReceiveEvent, runVars, stepVars, dbVars
<1>6. CASE UNCHANGED vars \/ PressStop \/ CancelRunLoop
  BY <1>6, RInvUntouched DEF vars, PressStop, CancelRunLoop, runVars, stepVars, dbVars
<1>7. QED
  BY <1>1, <1>2, <1>3, <1>4, <1>5, <1>6 DEF Next, PollStep

\* There is one turn.
Alone == \A s, t \in Turns : s = t

\* A row for which the turn is retried.
Retried(m) == m.finish = "error" /\ m.error \in {"overflow", "max_tokens"}

\* The run opens no part any more.
Still(r) ==
  \/ loop[r] \in {"none", "refused", "emitted", "gone"}
  \/ cancelled[r] /\ loop[r] \in {"lock", "top", "ending"}

\* The stream a turn reads is the one of the run it started, or of one that is
\* out of the slot, and it reads one only while it polls.
Follows ==
  \A t \in Turns :
    /\ source[t] # 0 => current \in {0, source[t]}
    /\ pc[t] \notin {"poll", "tools"} => source[t] = 0 /\ inbox[t] = "none"

\* Whoever is told of an overflow or an output limit is told when all is over.
Over ==
  \A t \in Turns : inbox[t] \in {"overflow", "max_tokens"} => \A r \in Runs : Still(r)

\* While such an error is the last row, no part is open.
ErrorsLast == Last # 0 /\ Retried(msgs[Last]) => \A c \in Calls : ~Open(c)

\* What a turn has to return: nothing yet, the row that ended it, or an error, and
\* if that is one to retry, no part that was executed is open.
Results ==
  \A t \in Turns :
    /\ pc[t] \in {"idle", "preflight", "posting", "snapshot", "poll", "again"} => result[t] = 0
    /\ pc[t] = "tools" /\ result[t] # 0 => msgs[result[t]].finish # "error"
    /\ pc[t] \in {"settle", "after"} /\ result[t] # 0 /\ Retried(msgs[result[t]]) =>
         \A c \in Calls : tries[c] > 0 => ~Open(c)

\* The poll, or the next one, knows of every open part that was executed.
Known ==
  \A t \in Turns :
    pc[t] \notin {"settle", "after", "done"} =>
      \A c \in Calls : tries[c] > 0 /\ Open(c) => c \in handled[t]

\* What holds in addition when there is one turn.
EInv == Follows /\ Over /\ ErrorsLast /\ Results /\ Known /\ ExecutedOnce

\* Rows stay, or become stop markers.
RowsStay ==
  /\ Last' \in Nat /\ Last' >= Last
  /\ \A i \in 1..Last : msgs'[i] = msgs[i] \/ msgs'[i].finish = "cancelled"

\* The last row is one to retry only if it was, and then nothing was opened.
LastStays ==
  Last' # 0 /\ Retried(msgs'[Last']) =>
    /\ Last' = Last /\ msgs'[Last] = msgs[Last]
    /\ \A c \in Calls : Open(c)' => Open(c)

\* What was executed is not opened again.
NoneReopened == \A c \in Calls : tries[c] > 0 /\ Open(c)' => Open(c)

\* A run that opens no part never does again.
StillStays == \A r \in Runs : Still(r) => Still(r)'

\* No part is open when every run is still.
LEMMA StillClosed ==
  ASSUME IInv, \A r \in Runs : Still(r)
  PROVE  \A c \in Calls : ~Open(c)
<1>1. SUFFICES ASSUME NEW r \in Runs, NEW n \in 1..MaxRounds, Open(<<r, n>>)
               PROVE  FALSE
  BY DEF Calls
<1>2. loop[r] \in {"inserted", "running", "batch", "wait"}
  BY <1>1 DEF Open, IInv, OpenParts
<1>3. QED
  BY <1>2 DEF Still

\* A step that leaves the turns alone, whatever it does to runs, rows and parts.
LEMMA RunSideKeeps ==
  ASSUME EInv, IInv, Typed, RInv, RowsStay, LastStays, NoneReopened,
         UNCHANGED <<pc, handled, source, result, tries>>,
         current' \in {0, current}, Over',
         \A t \in Turns : source[t] = 0 => inbox'[t] = inbox[t]
  PROVE  EInv'
<1> USE DEF EInv
<1>1. Follows'
  BY DEF Follows
<1>2. ErrorsLast'
  BY DEF ErrorsLast, LastStays, RowsStay
<1>3. Results'
  <2>1. SUFFICES ASSUME NEW t \in Turns
                 PROVE  /\ pc[t] = "tools" /\ result[t] # 0 => msgs'[result[t]].finish # "error"
                        /\ pc[t] \in {"settle", "after"} /\ result[t] # 0
                             /\ Retried(msgs'[result[t]]) =>
                             \A c \in Calls : tries[c] > 0 => ~Open(c)'
    BY DEF Results
  <2>2. result[t] # 0 => result[t] \in 1..Last
    BY DEF Typed, TurnTyped, Ids, RowTyped, Last
  <2>3. result[t] # 0 => msgs'[result[t]] = msgs[result[t]] \/ msgs'[result[t]].finish = "cancelled"
    BY <2>2 DEF RowsStay
  <2>4. pc[t] = "tools" /\ result[t] # 0 => msgs'[result[t]].finish # "error"
    BY <2>3 DEF Results
  <2>5. result[t] # 0 /\ Retried(msgs'[result[t]]) => Retried(msgs[result[t]])
    BY <2>3 DEF Retried
  <2>6. QED
    BY <2>4, <2>5 DEF Results, NoneReopened
<1>4. Known'
  BY DEF Known, NoneReopened
<1>5. ExecutedOnce'
  BY DEF ExecutedOnce
<1>6. QED
  BY <1>1, <1>2, <1>3, <1>4, <1>5

\* A row is added for which no turn is retried.
LEMMA AppendStays ==
  ASSUME Typed, NEW m, ~Retried(m), msgs' = Append(msgs, m)
  PROVE  RowsStay /\ LastStays
<1>1. msgs \in Seq(Rows)
  BY DEF Typed, RowTyped
<1>2. /\ Len(msgs) \in Nat /\ Len(msgs') = Len(msgs) + 1 /\ msgs'[Len(msgs) + 1] = m
      /\ \A i \in 1..Len(msgs) : msgs'[i] = msgs[i]
  BY <1>1
<1>3. QED
  BY <1>2 DEF RowsStay, LastStays, Last

\* No row changes and no part is opened.
LEMMA SameStays ==
  ASSUME Typed, UNCHANGED msgs, \A c \in Calls : Open(c)' => Open(c)
  PROVE  RowsStay /\ LastStays /\ NoneReopened
<1>1. Last \in Nat /\ Last' = Last
  BY DEF Typed, RowTyped, Last
<1>2. QED
  BY <1>1 DEF RowsStay, LastStays, NoneReopened

\* What a run stores of a round: never an error to retry.
LEMMA PersistStays ==
  ASSUME Typed, NEW r \in Runs, NEW f, NEW e, Persist(r, f, e),
         f # "error" \/ e = "plain"
  PROVE  RowsStay /\ LastStays
<1>1. PICK m \in {Message(r, "cancelled", "aborted"), Message(r, f, e)} :
        msgs' = Append(msgs, m)
  BY DEF Persist
<1>2. ~Retried(m)
  BY DEF Retried, Message
<1>3. QED
  BY <1>1, <1>2, AppendStays

\* The stop marker.
LEMMA StopMarkerStays ==
  ASSUME Typed, NEW r \in Runs, msgs' = StopMarker(r), UNCHANGED part
  PROVE  RowsStay /\ LastStays
<1> DEFINE m == Message(r, "cancelled", "aborted")
<1>1. ~Retried(m) /\ m.finish = "cancelled"
  BY DEF Retried, Message
<1> HIDE DEF m
<1>2. CASE RowsOf(r) = {}
  <2>1. msgs' = Append(msgs, m)
    BY <1>2 DEF StopMarker, m
  <2>2. QED
    BY <1>1, <2>1, AppendStays
<1>3. CASE RowsOf(r) # {}
  <2>1. PICK i : msgs' = [msgs EXCEPT ![i] = m]
    BY <1>3 DEF StopMarker, m
  <2>2. msgs \in [1..Last -> Rows] /\ Last \in Nat
    BY DEF Typed, RowTyped, Last
  <2>3. Len(msgs') = Last
    BY <2>1, <2>2
  <2>4. \A j \in 1..Last : msgs'[j] = msgs[j] \/ msgs'[j] = m
    BY <2>1, <2>2
  <2>5. \A c \in Calls : Open(c)' => Open(c)
    BY DEF Open
  <2>6. Last' = Last
    BY <2>3 DEF Last
  <2>7. RowsStay
    BY <1>1, <2>2, <2>4, <2>6 DEF RowsStay
  <2>8. LastStays
    <3>1. SUFFICES ASSUME Last # 0, Retried(msgs'[Last])
                   PROVE  msgs'[Last] = msgs[Last]
      BY <2>5, <2>6 DEF LastStays
    <3>2. Last \in 1..Last
      BY <2>2, <3>1
    <3>3. QED
      BY <1>1, <2>4, <3>1, <3>2
  <2>9. QED
    BY <2>7, <2>8
<1>4. QED
  BY <1>2, <1>3

\* Rows and parts under the steps of a run.
LEMMA RunRows ==
  ASSUME Typed, IInv, RInv, Counted, NEW r \in Runs, RunStep(r) \/ Hang(r)
  PROVE  RowsStay /\ LastStays /\ NoneReopened
<1>1. UNCHANGED part => (\A c \in Calls : Open(c)' => Open(c)) /\ NoneReopened
  BY DEF Open, NoneReopened
<1>2. CASE \/ StopAtTop(r) \/ BeginRound(r) \/ Hang(r) \/ TakeLock(r) \/ RefuseRun(r)
           \/ RequestFails(r) \/ StreamBreaks(r) \/ AwaitResult(r) \/ LeaveRun(r)
  <2>1. UNCHANGED <<msgs, part>>
    BY <1>2 DEF StopAtTop, BeginRound, Hang, TakeLock, RefuseRun, RequestFails, StreamBreaks,
                AwaitResult, LeaveRun, dbVars
  <2>2. QED
    BY <1>1, <2>1, SameStays
<1>3. CASE MarkRunning(r) \/ RunNatively(r) \/ DelegateCall(r) \/ ResultArrives(r)
  <2>1. PICK s \in {"pending", "running", "settled"} : part' = [part EXCEPT ![Call(r)] = s]
    BY <1>3 DEF MarkRunning, RunNatively, DelegateCall, ResultArrives, SetPart
  <2>2. UNCHANGED msgs /\ loop[r] \in {"inserted", "running", "wait"}
    BY <1>3 DEF MarkRunning, RunNatively, DelegateCall, ResultArrives
  <2>3. Open(Call(r))
    BY <2>2 DEF RInv, Busy
  <2>4. \A c \in Calls : Open(c)' => Open(c)
    BY <2>1, <2>3 DEF Open, IInv, Shape
  <2>5. QED
    BY <2>2, <2>4, SameStays
<1>4. CASE LastRound(r) \/ ConfirmRound(r)
  <2>1. Persist(r, "stop", "none") /\ UNCHANGED part
    BY <1>4 DEF LastRound, ConfirmRound
  <2>2. QED
    BY <1>1, <2>1, PersistStays
<1>5. CASE FailedRound(r)
  <2>1. UNCHANGED part /\ (UNCHANGED msgs \/ Persist(r, "error", failure[r]))
    BY <1>5 DEF FailedRound
  <2>2. failure[r] = "plain"
    BY <1>5 DEF FailedRound, RInv, BrokenPlainly
  <2>3. QED
    BY <1>1, <2>1, <2>2, PersistStays, SameStays
<1>6. CASE ToolRound(r)
  <2>1. PICK n \in 1..MaxRounds : n = round[r] + 1
    BY <1>6, AgentTurnAssumption DEF ToolRound, IInv, Shape
  <2>2. /\ Persist(r, "tool-calls", "none") /\ loop[r] = "asking"
        /\ part' = [part EXCEPT ![<<r, n>>] = "pending"]
    BY <1>6, <2>1 DEF ToolRound, Answers
  <2>3. RowsStay /\ LastStays
    BY <2>2, PersistStays
  <2>4. <<r, n>> \in Calls /\ n > round[r]
    BY <2>1 DEF Calls, IInv, Shape
  <2>5. tries[<<r, n>>] = 0
    BY <2>2, <2>4 DEF RInv, Fresh
  <2>6. NoneReopened
    BY <2>2, <2>5 DEF NoneReopened, Open, IInv, Shape
  <2>7. QED
    BY <2>3, <2>6
<1>7. CASE EndRun(r)
  <2>1. UNCHANGED part /\ (msgs' = msgs \/ msgs' = StopMarker(r))
    BY <1>7 DEF EndRun
  <2>2. QED
    BY <1>1, <2>1, SameStays, StopMarkerStays
<1>8. QED
  BY <1>2, <1>3, <1>4, <1>5, <1>6, <1>7 DEF RunStep

\* A run's own steps keep every run still that is.
LEMMA RunStillStays ==
  ASSUME IInv, NEW r \in Runs, RunStep(r) \/ Hang(r)
  PROVE  StillStays
<1> USE DEF IInv, Shape, StillStays, Still
<1>1. CASE TakeLock(r) \/ RefuseRun(r) \/ StopAtTop(r) \/ BeginRound(r) \/ Hang(r)
  BY <1>1 DEF TakeLock, RefuseRun, StopAtTop, BeginRound, Hang, MoveTo, stepVars
<1>2. CASE RequestFails(r) \/ StreamBreaks(r) \/ FailedRound(r)
  BY <1>2 DEF RequestFails, StreamBreaks, FailedRound, Answers, Interrupted, MoveTo, stepVars
<1>3. CASE LastRound(r) \/ ConfirmRound(r) \/ ToolRound(r)
  BY <1>3 DEF LastRound, ConfirmRound, ToolRound, Answers, MoveTo, stepVars
<1>4. CASE \/ MarkRunning(r) \/ RunNatively(r) \/ DelegateCall(r) \/ AwaitResult(r)
           \/ ResultArrives(r)
  BY <1>4 DEF MarkRunning, RunNatively, DelegateCall, AwaitResult, ResultArrives, MoveTo,
              stepVars
<1>5. CASE EndRun(r) \/ LeaveRun(r)
  BY <1>5 DEF EndRun, LeaveRun, MoveTo, stepVars
<1>6. QED
  BY <1>1, <1>2, <1>3, <1>4, <1>5 DEF RunStep

\* When a run in whose stream a turn reads ends, no other run is at work, and
\* those that wait for the lock are cancelled.
LEMMA EndIsOver ==
  ASSUME IInv, RInv, EInv, NEW r \in Runs, EndRun(r), NEW t \in Turns, source[t] = r
  PROVE  \A s \in Runs : Still(s)'
<1> USE DEF IInv, Shape
<1>1. /\ loop[r] = "ending" /\ loop' = [loop EXCEPT ![r] = "emitted"]
      /\ UNCHANGED <<cancelled, current>>
  BY DEF EndRun, MoveTo, stepVars, slotVars
<1>2. SUFFICES ASSUME NEW s \in Runs, s # r
               PROVE  Still(s)'
  BY <1>1 DEF Still
<1>3. loop[s] \in {"none", "lock", "refused", "gone"}
  BY <1>1, <1>2 DEF RInv, OneHolds
<1>4. r # 0
  BY DEF Runs
<1>5. current # s
  BY <1>2, <1>4 DEF EInv, Follows, Runs
<1>6. loop[s] = "lock" => cancelled[s]
  BY <1>5 DEF Cancellable, Alive
<1>7. QED
  BY <1>1, <1>2, <1>3, <1>6 DEF Still

\* The runs' steps keep what holds of one turn.
LEMMA EInvRun ==
  ASSUME EInv, IInv, Typed, RInv, Counted, NEW r \in Runs, RunStep(r) \/ Hang(r)
  PROVE  EInv'
<1>1. RowsStay /\ LastStays /\ NoneReopened
  BY RunRows
<1>2. StillStays
  BY RunStillStays
<1>3. UNCHANGED <<pc, handled, source, result, tries>>
  <2>1. CASE \/ StopAtTop(r) \/ BeginRound(r) \/ Hang(r) \/ TakeLock(r) \/ RefuseRun(r)
             \/ RequestFails(r) \/ StreamBreaks(r) \/ FailedRound(r) \/ EndRun(r) \/ LeaveRun(r)
    BY <2>1 DEF StopAtTop, BeginRound, Hang, TakeLock, RefuseRun, RequestFails, StreamBreaks,
                FailedRound, EndRun, LeaveRun, turnVars, pollVars
  <2>2. CASE \/ LastRound(r) \/ ConfirmRound(r) \/ ToolRound(r) \/ MarkRunning(r)
             \/ RunNatively(r) \/ DelegateCall(r) \/ AwaitResult(r) \/ ResultArrives(r)
    BY <2>2 DEF LastRound, ConfirmRound, ToolRound, MarkRunning, RunNatively, DelegateCall,
                AwaitResult, ResultArrives, turnVars, pollVars
  <2>3. QED
    BY <2>1, <2>2 DEF RunStep
<1>4. current' \in {0, current}
  <2>1. CASE RefuseRun(r) \/ LeaveRun(r)
    BY <2>1 DEF RefuseRun, LeaveRun, Unregister
  <2>2. CASE \/ StopAtTop(r) \/ BeginRound(r) \/ Hang(r) \/ TakeLock(r)
             \/ RequestFails(r) \/ StreamBreaks(r) \/ FailedRound(r) \/ EndRun(r)
    BY <2>2 DEF StopAtTop, BeginRound, Hang, TakeLock, RequestFails, StreamBreaks, FailedRound,
                EndRun, slotVars
  <2>3. CASE \/ LastRound(r) \/ ConfirmRound(r) \/ ToolRound(r) \/ MarkRunning(r)
             \/ RunNatively(r) \/ DelegateCall(r) \/ AwaitResult(r) \/ ResultArrives(r)
    BY <2>3 DEF LastRound, ConfirmRound, ToolRound, MarkRunning, RunNatively, DelegateCall,
                AwaitResult, ResultArrives, slotVars
  <2>4. QED
    BY <2>1, <2>2, <2>3 DEF RunStep
<1>5. (\A t \in Turns : source[t] = 0 => inbox'[t] = inbox[t]) /\ Over'
  <2>1. inbox \in [Turns -> Errors \cup {"done"}] /\ r # 0
    BY DEF Typed, TurnTyped, Runs
  <2>2. CASE UNCHANGED inbox
    BY <1>2, <2>2 DEF EInv, Over, StillStays
  <2>3. CASE StreamBreaks(r)
    <3>1. inbox' = [t \in Turns |-> IF source[t] = r /\ inbox[t] = "none" THEN "plain"
                                                                       ELSE inbox[t]]
      BY <2>3 DEF StreamBreaks, Emit
    <3>2. \A t \in Turns : inbox'[t] = inbox[t] \/ (source[t] = r /\ inbox'[t] = "plain")
      BY <3>1
    <3>3. QED
      BY <1>2, <2>1, <3>2 DEF EInv, Over, StillStays
  <2>4. CASE EndRun(r)
    <3>1. PICK e : inbox' = [t \in Turns |-> IF source[t] = r /\ inbox[t] = "none" THEN e
                                                                       ELSE inbox[t]]
      BY <2>4 DEF EndRun, Emit
    <3>2. \A t \in Turns : inbox'[t] = inbox[t] \/ source[t] = r
      BY <3>1
    <3>3. \A t \in Turns : source[t] = r => \A s \in Runs : Still(s)'
      BY <2>4, EndIsOver
    <3>4. QED
      BY <1>2, <2>1, <3>2, <3>3 DEF EInv, Over, StillStays
  <2>5. StreamBreaks(r) \/ EndRun(r) \/ UNCHANGED inbox
    <3>1. CASE \/ StopAtTop(r) \/ BeginRound(r) \/ Hang(r) \/ TakeLock(r) \/ RefuseRun(r)
               \/ RequestFails(r) \/ FailedRound(r) \/ LeaveRun(r)
      BY <3>1 DEF StopAtTop, BeginRound, Hang, TakeLock, RefuseRun, RequestFails, FailedRound,
                  LeaveRun, turnVars, pollVars
    <3>2. CASE \/ LastRound(r) \/ ConfirmRound(r) \/ ToolRound(r) \/ MarkRunning(r)
               \/ RunNatively(r) \/ DelegateCall(r) \/ AwaitResult(r) \/ ResultArrives(r)
      BY <3>2 DEF LastRound, ConfirmRound, ToolRound, MarkRunning, RunNatively, DelegateCall,
                  AwaitResult, ResultArrives, turnVars, pollVars
    <3>3. QED
      BY <3>1, <3>2 DEF RunStep
  <2>6. QED
    BY <2>2, <2>3, <2>4, <2>5
<1>6. QED
  BY <1>1, <1>3, <1>4, <1>5, RunSideKeeps

\* A poll returns: the row it takes is not one to retry, or nothing that was
\* executed is open.
LEMMA ReturnKeeps ==
  ASSUME EInv, Typed, Alone, NEW t \in Turns, NEW m, Return(t, m),
         m # 0 /\ Retried(msgs'[m]) => \A c \in Calls : ~Open(c),
         ErrorsLast', UNCHANGED <<part, current, loop, tries>>
  PROVE  EInv'
<1> USE DEF EInv
<1>1. \A s \in Turns : s = t
  BY DEF Alone
<1>2. /\ pc' = [pc EXCEPT ![t] = "settle"] /\ result' = [result EXCEPT ![t] = m]
      /\ source' = [source EXCEPT ![t] = 0] /\ inbox' = [inbox EXCEPT ![t] = "none"]
  BY DEF Return, Go
<1>3. pc'[t] = "settle" /\ result'[t] = m /\ source'[t] = 0 /\ inbox'[t] = "none"
  BY <1>2 DEF Typed, TurnTyped
<1>4. Follows' /\ Over'
  BY <1>1, <1>3 DEF Follows, Over
<1>5. Results'
  BY <1>1, <1>3 DEF Results, Open
<1>6. Known'
  BY <1>1, <1>3 DEF Known
<1>7. ExecutedOnce'
  BY DEF ExecutedOnce
<1>8. QED
  BY <1>4, <1>5, <1>6, <1>7

\* A poll returns a row that is there.
LEMMA ReturnOldKeeps ==
  ASSUME EInv, Typed, Alone, NEW t \in Turns, NEW m, Return(t, m),
         m = Last \/ (pc[t] = "tools" /\ m = result[t] /\ m # 0),
         UNCHANGED <<msgs, part, current, loop, tries>>
  PROVE  EInv'
<1>1. m # 0 /\ Retried(msgs[m]) => \A c \in Calls : ~Open(c)
  BY DEF EInv, ErrorsLast, Results, Retried
<1>2. ErrorsLast'
  BY DEF EInv, ErrorsLast, Open, Last
<1>3. msgs' = msgs
  OBVIOUS
<1>4. QED
  BY <1>1, <1>2, <1>3, ReturnKeeps

\* A poll returns an error of its own: one to retry only if it was told so.
LEMMA SynthesizeKeeps ==
  ASSUME EInv, Typed, IInv, Alone, NEW t \in Turns, NEW e, Synthesize(t, e),
         e \in {RunError(t), "plain"}, UNCHANGED <<part, current, loop, tries>>
  PROVE  EInv'
<1>1. msgs \in Seq(Rows) /\ Last \in Nat
  BY DEF Typed, RowTyped, Last
<1>2. PICK m : m = Message(0, "error", e) /\ msgs' = Append(msgs, m) /\ Return(t, Last + 1)
  BY DEF Synthesize
<1>3. msgs'[Last + 1] = m /\ Last' = Last + 1
  BY <1>1, <1>2 DEF Last
<1>4. Retried(m) => inbox[t] \in {"overflow", "max_tokens"}
  BY <1>2 DEF Retried, Message, RunError
<1>5. Retried(m) => \A c \in Calls : ~Open(c)
  BY <1>4, StillClosed DEF EInv, Over
<1>6. ErrorsLast'
  BY <1>3, <1>5 DEF ErrorsLast, Open
<1>7. QED
  BY <1>1, <1>2, <1>3, <1>5, <1>6, ReturnKeeps

\* The ways out of the poll.
LEMMA EInvReturn ==
  ASSUME EInv, Typed, IInv, Alone, NEW t \in Turns,
         \/ PollAborted(t) \/ PollEnded(t) \/ ProbeGone(t) \/ Watchdog(t) \/ PollFinished(t)
         \/ (ToolsDone(t) /\ result[t] # 0)
  PROVE  EInv'
<1>1. UNCHANGED <<part, current, loop, tries>>
  BY DEF PollAborted, PollEnded, ProbeGone, Watchdog, PollFinished, ToolsDone, runVars,
         slotVars, dbVars
<1>2. \/ UNCHANGED msgs /\ Return(t, Last)
      \/ UNCHANGED msgs /\ Return(t, result[t]) /\ pc[t] = "tools" /\ result[t] # 0
      \/ Synthesize(t, RunError(t)) \/ Synthesize(t, "plain")
  BY DEF PollAborted, PollEnded, ProbeGone, Watchdog, PollFinished, ToolsDone, dbVars
<1>3. QED
  BY <1>1, <1>2, ReturnOldKeeps, SynthesizeKeeps

\* A turn executes what is pending and not yet handed out.
LEMMA EInvCollect ==
  ASSUME EInv, RInv, Typed, Alone, NEW t \in Turns, Collect(t)
  PROVE  EInv'
<1> USE DEF EInv
<1>1. \A s \in Turns : s = t
  BY DEF Alone
<1>2. PICK found : found = Pending \ handled[t]
  OBVIOUS
<1>3. /\ pc[t] = "poll" /\ handled'[t] = handled[t] \cup found /\ pc'[t] = "tools"
      /\ tries' = [c \in Calls |-> IF c \in found THEN tries[c] + 1 ELSE tries[c]]
      /\ UNCHANGED <<source, inbox, loop, cancelled, current, msgs, part>>
  BY <1>2 DEF Collect, Go, Typed, TurnTyped, runVars, stepVars, slotVars, dbVars
<1>4. result'[t] = 0 \/ (result'[t] = Last /\ msgs[Last].finish = "stop")
  BY DEF Collect, Finished, Typed, TurnTyped
<1>5. \A c \in found : c \in Calls /\ tries[c] = 0
  <2>1. SUFFICES ASSUME NEW c \in found
                 PROVE  c \in Calls /\ tries[c] = 0
    OBVIOUS
  <2>2. c \in Calls /\ Open(c) /\ c \notin handled[t]
    BY <1>2 DEF Pending, Open
  <2>3. QED
    BY <1>3, <2>2 DEF Known, RInv
<1>6. Follows'
  BY <1>1, <1>3 DEF Follows
<1>7. Over'
  BY <1>3 DEF Over, Still
<1>8. ErrorsLast'
  BY <1>3 DEF ErrorsLast, Open, Last
<1>9. Results'
  BY <1>1, <1>3, <1>4 DEF Results
<1>10. Known'
  <2>1. SUFFICES ASSUME NEW c \in Calls, tries'[c] > 0, Open(c)'
                 PROVE  c \in handled'[t]
    BY <1>1 DEF Known
  <2>2. CASE c \in found
    BY <1>3, <2>2
  <2>3. CASE c \notin found
    <3>1. tries[c] > 0 /\ Open(c)
      BY <1>3, <2>1, <2>3 DEF Open
    <3>2. QED
      BY <1>3, <3>1 DEF Known
  <2>4. QED
    BY <2>2, <2>3
<1>11. ExecutedOnce'
  BY <1>3, <1>5 DEF ExecutedOnce
<1>12. QED
  BY <1>6, <1>7, <1>8, <1>9, <1>10, <1>11

\* Steps on the way to the poll and after it.
LEMMA EInvWay ==
  ASSUME EInv, Typed, IInv, Alone, NEW t \in Turns,
         \/ Delegate(t) \/ MarkRust(t) \/ PostRunLoop(t) \/ Snapshot(t) \/ Settle(t)
         \/ CompactAndRetry(t) \/ OutputRetry(t) \/ EndTurn(t)
  PROVE  EInv'
<1> USE DEF EInv
<1>1. \A s \in Turns : s = t
  BY DEF Alone
<1>2. pc \in [Turns -> TurnPlaces] /\ result \in [Turns -> Nat]
  BY DEF Typed, TurnTyped
<1>3. UNCHANGED <<handled, source, inbox, part, tries>>
  BY DEF Delegate, MarkRust, PostRunLoop, Snapshot, Settle, CompactAndRetry, OutputRetry,
         EndTurn, pollVars, dbVars
<1>4. pc[t] \notin {"poll", "tools"}
  BY DEF Delegate, MarkRust, PostRunLoop, Snapshot, Settle, CompactAndRetry, OutputRetry,
         EndTurn
<1>5. source[t] = 0 /\ inbox[t] = "none"
  BY <1>4 DEF Follows
<1>6. Follows' /\ Over'
  BY <1>1, <1>3, <1>5 DEF Follows, Over
<1>7. ExecutedOnce'
  BY <1>3 DEF ExecutedOnce
<1>8. UNCHANGED msgs => ErrorsLast'
  BY <1>3 DEF ErrorsLast, Open, Last
<1>9. CASE Delegate(t) \/ MarkRust(t) \/ PostRunLoop(t) \/ Snapshot(t)
  <2>1. /\ UNCHANGED <<msgs, result>> /\ pc'[t] \in {"preflight", "posting", "snapshot", "poll", "settle"}
        /\ pc[t] \in {"idle", "preflight", "posting", "snapshot", "again"}
    BY <1>2, <1>9 DEF Delegate, MarkRust, PostRunLoop, Snapshot, Go, dbVars
  <2>2. result[t] = 0
    BY <2>1 DEF Results
  <2>3. Results'
    BY <1>1, <2>1, <2>2 DEF Results
  <2>4. Known'
    BY <1>1, <1>3, <2>1 DEF Known, Open
  <2>5. QED
    BY <1>6, <1>7, <1>8, <2>1, <2>3, <2>4
<1>10. CASE Settle(t) \/ EndTurn(t)
  <2>1. /\ UNCHANGED <<msgs, result>> /\ pc'[t] \in {"after", "done"}
        /\ pc'[t] = "after" => pc[t] = "settle"
    BY <1>2, <1>10 DEF Settle, EndTurn, Go, dbVars
  <2>2. Results'
    BY <1>1, <1>3, <2>1 DEF Results, Open
  <2>3. Known'
    BY <1>1, <2>1 DEF Known
  <2>4. QED
    BY <1>6, <1>7, <1>8, <2>1, <2>2, <2>3
<1>11. CASE CompactAndRetry(t) \/ OutputRetry(t)
  <2>1. /\ pc[t] = "after" /\ result[t] # 0 /\ Retried(msgs[result[t]])
        /\ \/ pc'[t] = "again" /\ result'[t] = 0
           \/ pc'[t] = "done"
    BY <1>2, <1>11 DEF CompactAndRetry, OutputRetry, FailedWith, Again, Go, Retried
  <2>2. \A c \in Calls : tries[c] > 0 => ~Open(c)
    BY <2>1 DEF Results
  <2>3. Results'
    BY <1>1, <2>1 DEF Results
  <2>4. Known'
    BY <1>1, <1>3, <2>1, <2>2 DEF Known, Open
  <2>5. ErrorsLast'
    <3>1. CASE UNCHANGED msgs
      BY <1>8, <3>1
    <3>2. CASE msgs' = Append(msgs, Message(0, "stop", "none"))
      <4>1. ~Retried(Message(0, "stop", "none"))
        BY DEF Retried, Message
      <4>2. msgs \in Seq(Rows)
        BY DEF Typed, RowTyped
      <4>3. msgs'[Last'] = Message(0, "stop", "none")
        BY <3>2, <4>2 DEF Last
      <4>4. QED
        BY <4>1, <4>3 DEF ErrorsLast
    <3>3. QED
      BY <1>11, <3>1, <3>2 DEF CompactAndRetry, OutputRetry, dbVars
  <2>6. QED
    BY <1>6, <1>7, <2>3, <2>4, <2>5
<1>12. QED
  BY <1>9, <1>10, <1>11

\* The other steps of a turn in its poll, and the abort route.
LEMMA EInvPoll ==
  ASSUME EInv, Typed, IInv, Alone, NEW t \in Turns,
         \/ (ToolsDone(t) /\ result[t] = 0) \/ ExecStep(t) \/ Probe(t) \/ Connect(t)
         \/ ReceiveEvent(t)
  PROVE  EInv'
<1> USE DEF EInv
<1>1. \A s \in Turns : s = t
  BY DEF Alone
<1>2. UNCHANGED <<handled, inbox, result, part, tries, msgs, loop, cancelled, current>>
  BY DEF ToolsDone, ExecStep, ExecuteTool, Probe, Connect, ReceiveEvent, pollVars, runVars,
         stepVars, slotVars, dbVars
<1>3. \/ UNCHANGED pc
      \/ pc[t] = "tools" /\ pc'[t] = "poll" /\ result[t] = 0
  BY DEF ToolsDone, ExecStep, ExecuteTool, Probe, Connect, ReceiveEvent, Go, Typed, TurnTyped
<1>4. \/ UNCHANGED source
      \/ source'[t] = current /\ pc[t] \in {"poll", "tools"} /\ UNCHANGED pc
  BY DEF ToolsDone, ExecStep, ExecuteTool, Probe, Connect, ReceiveEvent, pollVars, Typed,
         TurnTyped
<1>5. Follows'
  BY <1>1, <1>2, <1>3, <1>4 DEF Follows
<1>6. Over'
  BY <1>2 DEF Over, Still
<1>7. ErrorsLast' /\ ExecutedOnce'
  BY <1>2 DEF ErrorsLast, ExecutedOnce, Open, Last
<1>8. Results'
  BY <1>1, <1>2, <1>3 DEF Results, Open
<1>9. Known'
  BY <1>1, <1>2, <1>3 DEF Known, Open
<1>10. QED
  BY <1>5, <1>6, <1>7, <1>8, <1>9

\* Every step keeps it.
LEMMA EInvKept ==
  ASSUME Alone, EInv, RInv, Typed, IInv, Counted, [Next]_vars
  PROVE  EInv'
<1>1. CASE UNCHANGED vars \/ PressStop \/ CancelRunLoop
  <2>1. /\ UNCHANGED <<handled, source, inbox, result, part, tries, msgs, loop, current, pc>>
        /\ \A r \in Runs : cancelled[r] => cancelled'[r]
    BY <1>1 DEF vars, PressStop, CancelRunLoop, turnVars, pollVars, runVars, stepVars, slotVars,
                dbVars
  <2> USE DEF EInv
  <2>2. Follows'
    BY <2>1 DEF Follows
  <2>3. Over'
    BY <2>1 DEF Over, Still
  <2>4. ErrorsLast' /\ ExecutedOnce'
    BY <2>1 DEF ErrorsLast, ExecutedOnce, Open, Last
  <2>5. Results' /\ Known'
    BY <2>1 DEF Results, Known, Open
  <2>6. QED
    BY <2>2, <2>3, <2>4, <2>5
<1>2. ASSUME NEW r \in Runs, RunStep(r) \/ Hang(r)
      PROVE  EInv'
  BY <1>2, EInvRun
<1>3. ASSUME NEW t \in Turns, PollStep(t)
      PROVE  EInv'
  BY <1>3, EInvWay, EInvReturn, EInvCollect, EInvPoll DEF PollStep
<1>4. ASSUME NEW t \in Turns,
             \/ Delegate(t) \/ ExecStep(t) \/ Probe(t) \/ ProbeGone(t) \/ Watchdog(t)
             \/ Connect(t) \/ ReceiveEvent(t)
      PROVE  EInv'
  BY <1>4, EInvWay, EInvReturn, EInvPoll
<1>5. QED
  BY <1>1, <1>2, <1>3, <1>4 DEF Next

\* The first state.
LEMMA EInvInitially == Init => RInv /\ EInv
<1> SUFFICES ASSUME Init PROVE RInv /\ EInv
  OBVIOUS
<1> USE DEF Init
<1>1. \A r \in Runs, n \in 1..MaxRounds : <<r, n>> \in Calls
  BY DEF Calls
<1>2. RInv
  BY <1>1 DEF RInv, OneHolds, BrokenPlainly, Fresh, Busy
<1>3. Follows /\ Over /\ Results
  BY DEF Follows, Over, Results
<1>4. ErrorsLast /\ Known /\ ExecutedOnce
  BY DEF ErrorsLast, Known, ExecutedOnce, Last, Open
<1>5. QED
  BY <1>2, <1>3, <1>4 DEF EInv

(* As long as only one turn polls, the server executes each call at most once, for
   any number of runs, rounds, retries and stops: handledCallIDs covers one poll,
   and a retry starts only when no part that was handed out is open. *)
THEOREM CallsExecutedOnce ==
  ASSUME Alone
  PROVE  Spec => []ExecutedOnce
<1> DEFINE All == IInv /\ Typed /\ Counted /\ RInv /\ EInv
<1>1. Init => All
  BY Initially, TypedInitially, EInvInitially
<1>2. All /\ [Next]_vars => All'
  BY Inductive, TypedKept, CountedKeeps, RInvOther, EInvKept
<1>3. All => ExecutedOnce
  BY DEF EInv
<1>4. QED
  BY <1>1, <1>2, <1>3, PTL DEF Spec

=============================================================================
