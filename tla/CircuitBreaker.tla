--------------------------- MODULE CircuitBreaker ---------------------------
(***************************************************************************)
(* The global circuit breaker of the blackboard                            *)
(* (crates/blackboard-coordinator/src/circuit_breaker.rs), at the level of *)
(* its three RwLocks, with what drives it: agents that ask is_tripped      *)
(* before a write and leave a conflict sample, the maintenance task that   *)
(* checks the conflict rate and works off the serial queue, and an         *)
(* operator that reports failures and crashes. update_config, which        *)
(* nothing in the repository calls but a test, is left out.                *)
(*                                                                         *)
(* tokio's RwLock is fair: requests queue in order, so a reader waits      *)
(* behind a writer that came first even while other readers hold the lock. *)
(* Asking for a lock and getting it are two steps; what the code does      *)
(* between getting one lock and asking for the next is part of the first.  *)
(***************************************************************************)
EXTENDS Naturals, Sequences, FiniteSets

CONSTANTS
  Agents,          \* agents that write
  Maintenance,     \* the background task
  Operator,        \* callers of record_agent_failure, record_crash, ...
  TotalAgents,     \* set_total_agents, at initialization
  Window,          \* samples compute_conflict_rate looks at (50 in the code)
  RecoveryCount,   \* recovery_success_count
  CrashThreshold,  \* blackboard_crash_threshold
  MaxSerial,       \* bound: entries in the serial queue
  MaxFaults        \* bound: failures and crashes reported since a recovery

ASSUME CircuitBreakerAssumption ==
  /\ Maintenance \notin Agents
  /\ Operator \notin Agents \cup {Maintenance}
  /\ {TotalAgents, CrashThreshold, MaxSerial, MaxFaults} \subseteq Nat
  /\ {Window, RecoveryCount} \subseteq Nat \ {0}

Procs == Agents \cup {Maintenance, Operator}

Locks == {"config", "state", "counters"}

\* The lock a method awaits at each of its steps, and how.
Need ==
  [gate       |-> <<"state", "read">>,
   recovered  |-> <<"counters", "write">>,
   fail       |-> <<"counters", "write">>,
   failConfig |-> <<"config", "read">>,
   crash      |-> <<"counters", "write">>,
   crashConfig |-> <<"config", "read">>,
   rateConfig |-> <<"config", "read">>,
   trigger    |-> <<"state", "write">>,
   okConfig   |-> <<"config", "read">>,
   okCount    |-> <<"counters", "write">>,
   notOk      |-> <<"counters", "write">>,
   safeCount  |-> <<"counters", "read">>,
   safeConfig |-> <<"config", "read">>,
   recover    |-> <<"state", "write">>,
   reset      |-> <<"counters", "write">>]

Labels == DOMAIN Need \cup {"idle", "write", "safeRate"}

VARIABLES
  broken,     \* state = Broken
  failed,     \* counters.failed_agents
  crashes,    \* counters.crash_count
  successes,  \* counters.consecutive_serial_successes, up to RecoveryCount
  samples,    \* the last Window file_conflict_rate samples: 1 is a conflict
  serial,     \* number of entries in the serial queue
  pc,         \* per process: the next step of the method it runs
  holds,      \* per process: the guards it holds
  waiting,    \* processes in a lock's queue
  queue,      \* per lock: the processes waiting for it, in order
  calm        \* per process: what it saw at or below the thresholds

vars == <<broken, failed, crashes, successes, samples, serial, pc, holds,
          waiting, queue, calm>>

(***************************************************************************)
(* The RwLocks                                                             *)
(***************************************************************************)

\* Nobody else holds lock l in a way that excludes mode m.
Compatible(l, m) ==
  \A q \in Procs :
    /\ <<l, "write">> \notin holds[q]
    /\ m = "write" => <<l, "read">> \notin holds[q]

\* p asks for the lock its next step needs.
Await(p) ==
  /\ pc[p] \in DOMAIN Need
  /\ p \notin waiting
  /\ waiting' = waiting \cup {p}
  /\ queue' = [queue EXCEPT ![Need[pc[p]][1]] = Append(@, p)]
  /\ UNCHANGED <<broken, failed, crashes, successes, samples, serial, pc,
                 holds, calm>>

\* p gets the lock it waits for at step label.
Locked(p, label) ==
  /\ pc[p] = label
  /\ p \in waiting
  /\ Head(queue[Need[label][1]]) = p
  /\ Compatible(Need[label][1], Need[label][2])
  /\ waiting' = waiting \ {p}
  /\ queue' = [queue EXCEPT ![Need[label][1]] = Tail(@)]

\* The method goes on to its next step with the guard it just got ...
Keep(p, next) ==
  /\ holds' = [holds EXCEPT ![p] = @ \cup {Need[pc[p]]}]
  /\ pc' = [pc EXCEPT ![p] = next]

\* ... or having dropped every guard.
Drop(p, next) ==
  /\ holds' = [holds EXCEPT ![p] = {}]
  /\ pc' = [pc EXCEPT ![p] = next]

\* The start of a method, which needs no lock yet.
Call(p, label) ==
  /\ pc[p] = "idle"
  /\ pc' = [pc EXCEPT ![p] = label]
  /\ UNCHANGED <<broken, failed, crashes, successes, holds, waiting, queue,
                 calm>>

(***************************************************************************)
(* What the breaker looks at                                               *)
(***************************************************************************)

\* compute_conflict_rate exceeds conflict_rate_threshold (a half).
RateExceeded ==
  2 * Cardinality({i \in DOMAIN samples : samples[i] = 1}) > Len(samples)

\* The failure ratio exceeds agent_failure_ratio_threshold (a half).
FailuresExceeded == TotalAgents > 0 /\ 2 * failed > TotalAgents

CrashesExceeded == crashes > CrashThreshold

(***************************************************************************)
(* Agents                                                                  *)
(***************************************************************************)

\* declare_intent asks is_tripped.
AskTripped(a) == Call(a, "gate") /\ UNCHANGED <<samples, serial>>

\* A tripped breaker denies the intent.
Gate(a) ==
  /\ Locked(a, "gate")
  /\ Drop(a, IF broken THEN "idle" ELSE "write")
  /\ UNCHANGED <<broken, failed, crashes, successes, samples, serial, calm>>

\* record_metric: the sample of a write, in the sliding window.
Sampled(s) ==
  samples' = IF Len(samples) = Window THEN Append(Tail(samples), s)
             ELSE Append(samples, s)

\* The write ends: a success goes on to record_agent_recovery, a conflict may
\* put its content on the serial queue.
EndWrite(a) ==
  /\ pc[a] = "write"
  /\ \/ /\ Sampled(0)
        /\ pc' = [pc EXCEPT ![a] = "recovered"]
        /\ UNCHANGED serial
     \/ /\ Sampled(1)
        /\ pc' = [pc EXCEPT ![a] = "idle"]
        /\ serial' \in {serial} \cup {n \in {serial + 1} : n <= MaxSerial}
  /\ UNCHANGED <<broken, failed, crashes, successes, holds, waiting, queue,
                 calm>>

\* Mutant: a plain subtraction.
Recovered_Wraps(a) ==
  /\ Locked(a, "recovered")
  /\ failed' = failed - 1
  /\ Drop(a, "idle")
  /\ UNCHANGED <<broken, crashes, successes, samples, serial, calm>>

\* record_agent_recovery.
Recovered(a) ==
  /\ Locked(a, "recovered")
  /\ failed' = IF failed > 0 THEN failed - 1 ELSE 0
  /\ Drop(a, "idle")
  /\ UNCHANGED <<broken, crashes, successes, samples, serial, calm>>

(***************************************************************************)
(* Failures and crashes                                                    *)
(***************************************************************************)

ReportFailure ==
  /\ failed < MaxFaults
  /\ Call(Operator, "fail")
  /\ UNCHANGED <<samples, serial>>

\* record_agent_failure counts, and without agents is done.
Fail ==
  /\ Locked(Operator, "fail")
  /\ failed' = failed + 1
  /\ IF TotalAgents > 0 THEN Keep(Operator, "failConfig")
                        ELSE Drop(Operator, "idle")
  /\ UNCHANGED <<broken, crashes, successes, samples, serial, calm>>

\* ... and compares, counters still locked.
FailConfig ==
  /\ Locked(Operator, "failConfig")
  /\ Drop(Operator, IF FailuresExceeded THEN "trigger" ELSE "idle")
  /\ UNCHANGED <<broken, failed, crashes, successes, samples, serial, calm>>

ReportCrash ==
  /\ crashes < MaxFaults
  /\ Call(Operator, "crash")
  /\ UNCHANGED <<samples, serial>>

\* record_crash, likewise.
CountCrash ==
  /\ Locked(Operator, "crash")
  /\ crashes' = crashes + 1
  /\ Keep(Operator, "crashConfig")
  /\ UNCHANGED <<broken, failed, successes, samples, serial, calm>>

CrashConfig ==
  /\ Locked(Operator, "crashConfig")
  /\ Drop(Operator, IF CrashesExceeded THEN "trigger" ELSE "idle")
  /\ UNCHANGED <<broken, failed, crashes, successes, samples, serial, calm>>

\* trigger.
Trigger(p) ==
  /\ Locked(p, "trigger")
  /\ broken' = TRUE
  /\ Drop(p, "idle")
  /\ UNCHANGED <<failed, crashes, successes, samples, serial, calm>>

(***************************************************************************)
(* The maintenance task                                                    *)
(***************************************************************************)

\* check_conflict_rate computes the rate ...
CheckRate ==
  /\ pc[Maintenance] = "idle"
  /\ calm' = [calm EXCEPT ![Maintenance] = ~ RateExceeded]
  /\ pc' = [pc EXCEPT ![Maintenance] = "rateConfig"]
  /\ UNCHANGED <<broken, failed, crashes, successes, samples, serial, holds,
                 waiting, queue>>

\* ... and compares it.
RateConfig ==
  /\ Locked(Maintenance, "rateConfig")
  /\ Drop(Maintenance, IF calm[Maintenance] THEN "idle" ELSE "trigger")
  /\ UNCHANGED <<broken, failed, crashes, successes, samples, serial, calm>>

\* The serial tick takes an entry and records how its processing ended.
SerialTick ==
  /\ serial > 0
  /\ serial' = serial - 1
  /\ \E label \in {"okConfig", "notOk"} : Call(Maintenance, label)
  /\ UNCHANGED samples

\* record_serial_failure.
NotOk ==
  /\ Locked(Maintenance, "notOk")
  /\ successes' = 0
  /\ Drop(Maintenance, "idle")
  /\ UNCHANGED <<broken, failed, crashes, samples, serial, calm>>

\* record_serial_success: the configuration, then the counters.
OkConfig ==
  /\ Locked(Maintenance, "okConfig")
  /\ Keep(Maintenance, "okCount")
  /\ UNCHANGED <<broken, failed, crashes, successes, samples, serial, calm>>

OkCount ==
  /\ Locked(Maintenance, "okCount")
  /\ LET enough == successes + 1 >= RecoveryCount
     IN /\ successes' = IF enough THEN RecoveryCount ELSE successes + 1
        /\ Drop(Maintenance, IF enough THEN "safeRate" ELSE "idle")
  /\ UNCHANGED <<broken, failed, crashes, samples, serial, calm>>

\* try_recover: the conflict rate ...
SafeRate ==
  /\ pc[Maintenance] = "safeRate"
  /\ calm' = [calm EXCEPT ![Maintenance] = ~ RateExceeded]
  /\ pc' = [pc EXCEPT ![Maintenance] = "safeCount"]
  /\ UNCHANGED <<broken, failed, crashes, successes, samples, serial, holds,
                 waiting, queue>>

\* ... the failure ratio ...
SafeCount ==
  /\ Locked(Maintenance, "safeCount")
  /\ calm' = [calm EXCEPT ![Maintenance] = @ /\ ~ FailuresExceeded]
  /\ Keep(Maintenance, "safeConfig")
  /\ UNCHANGED <<broken, failed, crashes, successes, samples, serial>>

\* ... both guards dropped before the state is written ...
SafeConfig ==
  /\ Locked(Maintenance, "safeConfig")
  /\ Drop(Maintenance, IF calm[Maintenance] THEN "recover" ELSE "idle")
  /\ UNCHANGED <<broken, failed, crashes, successes, samples, serial, calm>>

\* Mutant (P0-04): the read guard on the counters is still held.
Recover_CountersHeld ==
  /\ Locked(Maintenance, "recover")
  /\ broken' = FALSE
  /\ holds' = [holds EXCEPT ![Maintenance] = {<<"counters", "read">>}]
  /\ pc' = [pc EXCEPT ![Maintenance] = "reset"]
  /\ UNCHANGED <<failed, crashes, successes, samples, serial, calm>>

\* ... the state ...
Recover ==
  /\ Locked(Maintenance, "recover")
  /\ broken' = FALSE
  /\ Drop(Maintenance, "reset")
  /\ UNCHANGED <<failed, crashes, successes, samples, serial, calm>>

\* Mutant: the crash count survives the recovery.
Reset_KeepsCrashes ==
  /\ Locked(Maintenance, "reset")
  /\ successes' = 0
  /\ failed' = 0
  /\ Drop(Maintenance, "idle")
  /\ UNCHANGED <<broken, crashes, samples, serial, calm>>

\* ... and the counters.
Reset ==
  /\ Locked(Maintenance, "reset")
  /\ successes' = 0
  /\ failed' = 0
  /\ crashes' = 0
  /\ Drop(Maintenance, "idle")
  /\ UNCHANGED <<broken, samples, serial, calm>>

(***************************************************************************)
(* Specification                                                           *)
(***************************************************************************)

Init ==
  /\ broken = FALSE
  /\ failed = 0
  /\ crashes = 0
  /\ successes = 0
  /\ samples = <<>>
  /\ serial = 0
  /\ pc = [p \in Procs |-> "idle"]
  /\ holds = [p \in Procs |-> {}]
  /\ waiting = {}
  /\ queue = [l \in Locks |-> <<>>]
  /\ calm = [p \in Procs |-> TRUE]

AgentStep(a) == Gate(a) \/ EndWrite(a) \/ Recovered(a)

OperatorStep == Fail \/ FailConfig \/ CountCrash \/ CrashConfig

MaintenanceStep ==
  \/ RateConfig \/ NotOk \/ OkConfig \/ OkCount
  \/ SafeRate \/ SafeCount \/ SafeConfig \/ Recover \/ Reset

\* The steps of a method that has been called.
MethodStep(p) ==
  \/ Await(p)
  \/ Trigger(p)
  \/ p \in Agents /\ AgentStep(p)
  \/ p = Operator /\ OperatorStep
  \/ p = Maintenance /\ MaintenanceStep

Next ==
  \/ \E p \in Procs : MethodStep(p)
  \/ \E a \in Agents : AskTripped(a)
  \/ ReportFailure \/ ReportCrash
  \/ CheckRate \/ SerialTick

Spec == Init /\ [][Next]_vars

\* The runtime polls every method that can go on, agents keep asking to
\* write, and the serial tick keeps coming round.
Fairness ==
  /\ \A p \in Procs : WF_vars(MethodStep(p))
  /\ \A a \in Agents : WF_vars(AskTripped(a))
  /\ SF_vars(SerialTick)

FairSpec == Spec /\ Fairness

(***************************************************************************)
(* Properties                                                              *)
(***************************************************************************)

\* The type invariant.
TypeOK ==
  /\ broken \in BOOLEAN
  /\ failed \in 0..MaxFaults
  /\ crashes \in 0..MaxFaults
  /\ successes \in 0..RecoveryCount
  /\ samples \in Seq({0, 1}) /\ Len(samples) <= Window
  /\ serial \in 0..MaxSerial
  /\ pc \in [Procs -> Labels]
  /\ holds \in [Procs -> SUBSET (Locks \X {"read", "write"})]
  /\ waiting \in SUBSET Procs
  /\ queue \in [Locks -> Seq(Procs)]
  /\ calm \in [Procs -> BOOLEAN]

\* "A single RwLock to prevent deadlocks": every method that is called
\* returns, however the methods of different tasks interleave.
CallsReturn == \A p \in Procs : pc[p] # "idle" ~> pc[p] = "idle"

\* Failure and crash counts over their thresholds are never left with the
\* breaker closed: no race of a report with a recovery loses the trip and
\* keeps the counts.
ExcessTrips ==
  (FailuresExceeded \/ CrashesExceeded) /\ ~ broken
    => \/ pc[Operator] \in {"failConfig", "crashConfig", "trigger"}
       \/ pc[Maintenance] = "reset"

\* optimistic_lock.rs (P0-05): a conflict no longer leaves the breaker
\* "tripped permanently".
BreakerRecovers == broken ~> ~ broken

=============================================================================
