------------------------ MODULE CircuitBreakerProofs ------------------------
(***************************************************************************)
(* CircuitBreaker for every set of agents and every threshold: the types,  *)
(* and that no race of a report with a recovery leaves the counts over     *)
(* their thresholds with the breaker closed.                               *)
(***************************************************************************)
EXTENDS CircuitBreaker, TLAPS

\* A process that waits is in the queue of the lock its step needs.
QueueInv ==
  \A p \in waiting :
    /\ pc[p] \in DOMAIN Need
    /\ \E i \in 1..Len(queue[Need[pc[p]][1]]) : queue[Need[pc[p]][1]][i] = p

\* Only the operator counts, so what it saw before it asked for the lock holds.
ReportInv ==
  /\ pc[Operator] = "fail" => failed < MaxFaults
  /\ pc[Operator] = "crash" => crashes < MaxFaults

\* Each of the two counts has its own step on the way to trigger.
TripInv ==
  /\ FailuresExceeded /\ ~ broken =>
       pc[Operator] \in {"failConfig", "trigger"} \/ pc[Maintenance] = "reset"
  /\ CrashesExceeded /\ ~ broken =>
       pc[Operator] \in {"crashConfig", "trigger"} \/ pc[Maintenance] = "reset"

\* The inductive invariant.
IInv == TypeOK /\ QueueInv /\ ReportInv /\ TripInv

(***************************************************************************)
(* The locks                                                               *)
(***************************************************************************)

LEMMA NeedFacts ==
  /\ DOMAIN Need = {"gate", "recovered", "fail", "failConfig", "crash", "crashConfig",
                    "rateConfig", "trigger", "okConfig", "okCount", "notOk", "safeCount",
                    "safeConfig", "recover", "reset"}
  /\ \A l \in DOMAIN Need : Need[l] \in Locks \X {"read", "write"} /\ Need[l][1] \in Locks
BY DEF Need, Locks

LEMMA Constants ==
  /\ TotalAgents \in Nat /\ CrashThreshold \in Nat /\ MaxSerial \in Nat /\ MaxFaults \in Nat
  /\ Window \in Nat \ {0} /\ RecoveryCount \in Nat \ {0}
  /\ Maintenance \in Procs /\ Operator \in Procs /\ Agents \subseteq Procs
  /\ Operator # Maintenance /\ Operator \notin Agents /\ Maintenance \notin Agents
BY CircuitBreakerAssumption DEF Procs

\* The locks and the places of the methods after a step of p to label n.
Moved(p, n) ==
  /\ pc' \in [Procs -> Labels]
  /\ holds' \in [Procs -> SUBSET (Locks \X {"read", "write"})]
  /\ waiting' \in SUBSET Procs
  /\ queue' \in [Locks -> Seq(Procs)]
  /\ QueueInv'
  /\ pc'[p] = n
  /\ \A q \in Procs \ {p} : pc'[q] = pc[q]

\* A process that gets its lock leaves the queue, from the front.
LEMMA LockStep ==
  ASSUME IInv, NEW p \in Procs, NEW l \in DOMAIN Need, NEW n \in Labels,
         Locked(p, l), Drop(p, n) \/ Keep(p, n)
  PROVE  Moved(p, n) /\ pc[p] = l
<1>1. pc[p] = l /\ p \in waiting
  BY DEF Locked
<1>2. PICK k \in Locks : k = Need[l][1]
  BY NeedFacts
<1>3. /\ Head(queue[k]) = p /\ waiting' = waiting \ {p}
      /\ queue' = [queue EXCEPT ![k] = Tail(@)]
  BY <1>2 DEF Locked
<1>4. /\ queue \in [Locks -> Seq(Procs)] /\ queue[k] \in Seq(Procs)
      /\ pc \in [Procs -> Labels] /\ waiting \in SUBSET Procs
      /\ holds \in [Procs -> SUBSET (Locks \X {"read", "write"})]
  BY <1>2 DEF IInv, TypeOK
<1>5. queue[k] # <<>>
  <2>1. PICK i \in 1..Len(queue[k]) : queue[k][i] = p
    BY <1>1, <1>2 DEF IInv, QueueInv
  <2> QED BY <2>1, <1>4
<1>6. pc' = [pc EXCEPT ![p] = n]
  BY DEF Drop, Keep
<1>7. pc' \in [Procs -> Labels] /\ pc'[p] = n /\ \A q \in Procs \ {p} : pc'[q] = pc[q]
  BY <1>4, <1>6
<1>8. holds' \in [Procs -> SUBSET (Locks \X {"read", "write"})]
  <2>1. CASE Drop(p, n)
    BY <2>1, <1>4 DEF Drop
  <2>2. CASE Keep(p, n)
    <3>1. Need[pc[p]] \in Locks \X {"read", "write"}
      BY <1>1, NeedFacts
    <3> QED BY <2>2, <3>1, <1>4 DEF Keep
  <2> QED BY <2>1, <2>2
<1>9. queue' \in [Locks -> Seq(Procs)]
  <2>1. Tail(queue[k]) \in Seq(Procs)
    BY <1>4, <1>5
  <2> QED BY <2>1, <1>3, <1>4
<1>10. QueueInv'
  <2> SUFFICES ASSUME NEW q \in waiting'
               PROVE  /\ pc'[q] \in DOMAIN Need
                      /\ \E i \in 1..Len(queue'[Need[pc'[q]][1]]) :
                           queue'[Need[pc'[q]][1]][i] = q
    BY DEF QueueInv
  <2>1. q \in waiting /\ q # p /\ q \in Procs
    BY <1>3, <1>4
  <2>2. pc'[q] = pc[q] /\ pc[q] \in DOMAIN Need
    BY <2>1, <1>7 DEF IInv, QueueInv
  <2>3. PICK j \in Locks : j = Need[pc[q]][1]
    BY <2>2, NeedFacts
  <2>4. PICK i \in 1..Len(queue[j]) : queue[j][i] = q
    BY <2>1, <2>3 DEF IInv, QueueInv
  <2>5. \E m \in 1..Len(queue'[j]) : queue'[j][m] = q
    <3>1. CASE j # k
      BY <3>1, <2>4, <1>3, <1>4
    <3>2. CASE j = k
      <4>1. queue'[j] = Tail(queue[k])
        BY <3>2, <1>3, <1>4
      <4>2. queue[k][1] = p
        BY <1>3, <1>4, <1>5
      <4>3. i # 1 /\ i \in Nat /\ i \in 1..Len(queue[k])
        BY <4>2, <2>1, <2>4, <3>2
      <4>4. i - 1 \in 1..Len(Tail(queue[k])) /\ Tail(queue[k])[i - 1] = queue[k][i]
        BY <4>3, <1>4, <1>5
      <4> QED BY <4>1, <4>4, <2>4, <3>2
    <3> QED BY <3>1, <3>2
  <2> QED BY <2>2, <2>3, <2>5
<1> QED BY <1>1, <1>3, <1>4, <1>7, <1>8, <1>9, <1>10 DEF Moved

\* A step that needs no lock leaves the queues alone.
LEMMA FreeStep ==
  ASSUME IInv, NEW p \in Procs, NEW n \in Labels, pc[p] \notin DOMAIN Need,
         pc' = [pc EXCEPT ![p] = n], UNCHANGED <<holds, waiting, queue>>
  PROVE  Moved(p, n)
<1>1. pc \in [Procs -> Labels] /\ waiting \in SUBSET Procs
  BY DEF IInv, TypeOK
<1>2. pc' \in [Procs -> Labels] /\ pc'[p] = n /\ \A q \in Procs \ {p} : pc'[q] = pc[q]
  BY <1>1
<1>3. p \notin waiting
  BY DEF IInv, QueueInv
<1>4. QueueInv'
  BY <1>1, <1>2, <1>3 DEF IInv, QueueInv
<1> QED BY <1>2, <1>4 DEF Moved, IInv, TypeOK

\* The start of a method.
LEMMA CallStep ==
  ASSUME IInv, NEW p \in Procs, NEW n \in Labels, Call(p, n)
  PROVE  Moved(p, n) /\ pc[p] = "idle"
         /\ UNCHANGED <<broken, failed, crashes, successes, calm>>
<1>1. pc[p] = "idle" /\ pc[p] \notin DOMAIN Need
  BY NeedFacts DEF Call
<1> QED BY <1>1, FreeStep DEF Call

(***************************************************************************)
(* The invariant, step by step                                             *)
(***************************************************************************)

\* A step of p that changes neither the state nor the counts.
LEMMA QuietKeeps ==
  ASSUME IInv, NEW p \in Procs, NEW n \in Labels, Moved(p, n),
         UNCHANGED <<broken, failed, crashes>>,
         successes' \in 0..RecoveryCount,
         samples' \in Seq({0, 1}) /\ Len(samples') <= Window,
         serial' \in 0..MaxSerial,
         calm' \in [Procs -> BOOLEAN],
         p = Operator /\ n = "fail" => failed < MaxFaults,
         p = Operator /\ n = "crash" => crashes < MaxFaults,
         p = Operator /\ FailuresExceeded /\ pc[p] \in {"failConfig", "trigger"}
           => n = "trigger",
         p = Operator /\ CrashesExceeded /\ pc[p] \in {"crashConfig", "trigger"}
           => n = "trigger",
         p = Maintenance => pc[p] # "reset"
  PROVE  IInv'
<1>1. TypeOK'
  BY DEF Moved, IInv, TypeOK
<1>2. ReportInv'
  BY Constants DEF Moved, IInv, ReportInv
<1>3. (FailuresExceeded' <=> FailuresExceeded) /\ (CrashesExceeded' <=> CrashesExceeded)
  BY DEF FailuresExceeded, CrashesExceeded
<1>4. TripInv'
  <2>1. CASE p = Operator
    BY <2>1, <1>3, Constants DEF Moved, IInv, TripInv
  <2>2. CASE p # Operator
    BY <2>2, <1>3, Constants DEF Moved, IInv, TripInv
  <2> QED BY <2>1, <2>2
<1> QED BY <1>1, <1>2, <1>4 DEF Moved, IInv

LEMMA AwaitKeeps ==
  ASSUME IInv, NEW p \in Procs, Await(p)
  PROVE  IInv'
<1>1. pc[p] \in DOMAIN Need /\ UNCHANGED <<broken, failed, crashes, successes, samples,
                                           serial, pc, holds, calm>>
  BY DEF Await
<1>2. PICK k \in Locks : k = Need[pc[p]][1]
  BY <1>1, NeedFacts
<1>3. waiting' = waiting \cup {p} /\ queue' = [queue EXCEPT ![k] = Append(@, p)]
  BY <1>2 DEF Await
<1>4. queue \in [Locks -> Seq(Procs)] /\ queue[k] \in Seq(Procs)
  BY <1>2 DEF IInv, TypeOK
<1>5. queue' \in [Locks -> Seq(Procs)] /\ queue'[k] = Append(queue[k], p)
      /\ \A j \in Locks \ {k} : queue'[j] = queue[j]
  BY <1>3, <1>4
<1>6. TypeOK'
  BY <1>1, <1>3, <1>5 DEF IInv, TypeOK
<1>7. QueueInv'
  <2> SUFFICES ASSUME NEW q \in waiting'
               PROVE  /\ pc[q] \in DOMAIN Need
                      /\ \E i \in 1..Len(queue'[Need[pc[q]][1]]) :
                           queue'[Need[pc[q]][1]][i] = q
    BY <1>1 DEF QueueInv
  <2>1. CASE q = p
    <3>1. Len(queue'[k]) \in 1..Len(queue'[k]) /\ queue'[k][Len(queue'[k])] = p
      BY <1>4, <1>5
    <3> QED BY <2>1, <3>1, <1>1, <1>2
  <2>2. CASE q \in waiting
    <3>1. pc[q] \in DOMAIN Need
      BY <2>2 DEF IInv, QueueInv
    <3>2. PICK j \in Locks : j = Need[pc[q]][1]
      BY <3>1, NeedFacts
    <3>3. PICK i \in 1..Len(queue[j]) : queue[j][i] = q
      BY <2>2, <3>2 DEF IInv, QueueInv
    <3>4. i \in 1..Len(queue'[j]) /\ queue'[j][i] = q
      <4>1. CASE j = k
        BY <4>1, <3>3, <1>4, <1>5
      <4>2. CASE j # k
        BY <4>2, <3>3, <1>5
      <4> QED BY <4>1, <4>2
    <3> QED BY <3>1, <3>2, <3>4
  <2> QED BY <2>1, <2>2, <1>3
<1>8. ReportInv' /\ TripInv'
  BY <1>1 DEF IInv, ReportInv, TripInv, FailuresExceeded, CrashesExceeded
<1> QED BY <1>6, <1>7, <1>8 DEF IInv

LEMMA TriggerKeeps ==
  ASSUME IInv, NEW p \in Procs, Trigger(p)
  PROVE  IInv'
<1>1. "trigger" \in DOMAIN Need /\ "idle" \in Labels
  BY NeedFacts DEF Labels
<1>2. Moved(p, "idle")
  BY <1>1, LockStep DEF Trigger
<1>3. broken' = TRUE /\ UNCHANGED <<failed, crashes, successes, samples, serial, calm>>
  BY DEF Trigger
<1>4. TypeOK'
  BY <1>2, <1>3 DEF Moved, IInv, TypeOK
<1>5. ReportInv' /\ TripInv'
  BY <1>2, <1>3, Constants DEF Moved, IInv, ReportInv, TripInv
<1> QED BY <1>2, <1>4, <1>5 DEF Moved, IInv

\* The sliding window keeps its size.
LEMMA SampledKeeps ==
  ASSUME TypeOK, NEW x \in {0, 1}, Sampled(x)
  PROVE  samples' \in Seq({0, 1}) /\ Len(samples') <= Window
<1>1. samples \in Seq({0, 1}) /\ Len(samples) <= Window /\ Len(samples) \in Nat
  BY DEF TypeOK
<1>2. CASE Len(samples) = Window
  <2>1. samples # <<>>
    BY <1>2, Constants
  <2>2. Tail(samples) \in Seq({0, 1}) /\ Len(Tail(samples)) = Len(samples) - 1
    BY <1>1, <2>1
  <2>3. samples' = Append(Tail(samples), x)
    BY <1>2 DEF Sampled
  <2>4. samples' \in Seq({0, 1}) /\ Len(samples') = Len(Tail(samples)) + 1
    BY <2>2, <2>3
  <2> QED BY <2>2, <2>4, <1>2, Constants
<1>3. CASE Len(samples) # Window
  <2>1. samples' = Append(samples, x)
    BY <1>3 DEF Sampled
  <2>2. samples' \in Seq({0, 1}) /\ Len(samples') = Len(samples) + 1
    BY <2>1, <1>1
  <2> QED BY <2>2, <1>1, <1>3, Constants
<1> QED BY <1>2, <1>3

LEMMA AgentKeeps ==
  ASSUME IInv, NEW a \in Agents, AskTripped(a) \/ AgentStep(a)
  PROVE  IInv'
<1>0. /\ a \in Procs /\ a # Operator /\ a # Maintenance
      /\ {"idle", "write", "gate", "recovered"} \subseteq Labels
      /\ {"gate", "recovered"} \subseteq DOMAIN Need /\ "write" \notin DOMAIN Need
  BY Constants, NeedFacts DEF Labels
<1>00. TypeOK
  BY DEF IInv
<1>1. CASE AskTripped(a)
  <2>1. Moved(a, "gate") /\ UNCHANGED <<broken, failed, crashes, successes, calm, samples, serial>>
    BY <1>0, <1>1, CallStep DEF AskTripped
  <2> QED BY <2>1, <1>0, <1>00, QuietKeeps DEF TypeOK
<1>2. CASE Gate(a)
  <2>1. PICK n \in {"idle", "write"} : Drop(a, n)
    BY <1>2 DEF Gate
  <2>2. Moved(a, n) /\ n \in Labels
    BY <1>0, <1>2, <2>1, LockStep DEF Gate
  <2>3. UNCHANGED <<broken, failed, crashes, successes, calm, samples, serial>>
    BY <1>2 DEF Gate
  <2> QED BY <2>2, <2>3, <1>0, <1>00, QuietKeeps DEF TypeOK
<1>3. CASE EndWrite(a)
  <2>1. PICK n \in {"idle", "recovered"} : pc' = [pc EXCEPT ![a] = n]
    BY <1>3 DEF EndWrite
  <2>2. UNCHANGED <<broken, failed, crashes, successes, holds, waiting, queue, calm>>
        /\ pc[a] = "write"
    BY <1>3 DEF EndWrite
  <2>3. Moved(a, n) /\ n \in Labels
    BY <1>0, <2>1, <2>2, FreeStep
  <2>4. samples' \in Seq({0, 1}) /\ Len(samples') <= Window
    <3>1. \E x \in {0, 1} : Sampled(x)
      BY <1>3 DEF EndWrite
    <3> QED BY <3>1, <1>00, SampledKeeps
  <2>5. serial' \in 0..MaxSerial
    <3>1. serial' = serial \/ (serial' = serial + 1 /\ serial' <= MaxSerial)
      BY <1>3 DEF EndWrite
    <3> QED BY <3>1, <1>00, Constants DEF TypeOK
  <2> QED BY <2>2, <2>3, <2>4, <2>5, <1>0, <1>00, QuietKeeps DEF TypeOK
<1>4. CASE Recovered(a)
  <2>1. Moved(a, "idle")
    BY <1>0, <1>4, LockStep DEF Recovered
  <2>2. UNCHANGED <<broken, crashes, successes, samples, serial, calm>>
        /\ failed' = IF failed > 0 THEN failed - 1 ELSE 0
    BY <1>4 DEF Recovered
  <2>3. failed \in Nat /\ failed <= MaxFaults /\ failed' \in Nat /\ failed' <= failed
    BY <2>2, <1>00, Constants DEF TypeOK
  <2>4. TypeOK'
    BY <2>1, <2>2, <2>3, <1>00, Constants DEF Moved, TypeOK
  <2>5. UNCHANGED <<pc[Operator], pc[Maintenance]>>
    BY <2>1, <1>0, Constants DEF Moved
  <2>6. ReportInv'
    BY <2>2, <2>3, <2>5, Constants DEF IInv, ReportInv
  <2>7. FailuresExceeded' => FailuresExceeded
    <3>1. \A m, n, t \in Nat : m <= n /\ 2 * m > t => 2 * n > t
      OBVIOUS
    <3>2. TotalAgents \in Nat /\ failed \in Nat /\ failed' \in Nat /\ failed' <= failed
      BY <2>3, Constants
    <3> QED BY <3>1, <3>2 DEF FailuresExceeded
  <2>8. TripInv'
    BY <2>2, <2>5, <2>7 DEF IInv, TripInv, CrashesExceeded
  <2> QED BY <2>1, <2>4, <2>6, <2>8 DEF Moved, IInv
<1> QED BY <1>1, <1>2, <1>3, <1>4 DEF AgentStep

\* The operator: what it counts beyond a threshold, it trips the breaker for.
LEMMA OperatorKeeps ==
  ASSUME IInv, ReportFailure \/ ReportCrash \/ OperatorStep
  PROVE  IInv'
<1>0. /\ Operator \in Procs /\ Operator # Maintenance
      /\ {"idle", "fail", "failConfig", "crash", "crashConfig", "trigger"} \subseteq Labels
      /\ {"fail", "failConfig", "crash", "crashConfig"} \subseteq DOMAIN Need
  BY Constants, NeedFacts DEF Labels
<1>00. TypeOK /\ failed \in Nat /\ crashes \in Nat
  BY Constants DEF IInv, TypeOK
<1>1. CASE ReportFailure
  <2>1. Moved(Operator, "fail") /\ pc[Operator] = "idle" /\ failed < MaxFaults
        /\ UNCHANGED <<broken, failed, crashes, successes, calm, samples, serial>>
    BY <1>0, <1>1, CallStep DEF ReportFailure
  <2> QED BY <2>1, <1>0, <1>00, QuietKeeps DEF TypeOK
<1>2. CASE ReportCrash
  <2>1. Moved(Operator, "crash") /\ pc[Operator] = "idle" /\ crashes < MaxFaults
        /\ UNCHANGED <<broken, failed, crashes, successes, calm, samples, serial>>
    BY <1>0, <1>2, CallStep DEF ReportCrash
  <2> QED BY <2>1, <1>0, <1>00, QuietKeeps DEF TypeOK
<1>3. CASE Fail
  <2>1. PICK n \in {"failConfig", "idle"} :
          /\ Drop(Operator, n) \/ Keep(Operator, n)
          /\ n = IF TotalAgents > 0 THEN "failConfig" ELSE "idle"
    BY <1>3 DEF Fail
  <2>2. Moved(Operator, n) /\ pc[Operator] = "fail" /\ n \in Labels
    BY <1>0, <1>3, <2>1, LockStep DEF Fail
  <2>3. UNCHANGED <<broken, crashes, successes, samples, serial, calm>> /\ failed' = failed + 1
    BY <1>3 DEF Fail
  <2>4. failed < MaxFaults
    BY <2>2 DEF IInv, ReportInv
  <2>5. TypeOK'
    BY <2>2, <2>3, <2>4, <1>00, Constants DEF Moved, TypeOK
  <2>6. pc'[Operator] = n /\ pc'[Maintenance] = pc[Maintenance]
    BY <2>2, <1>0, Constants DEF Moved
  <2>7. ReportInv'
    BY <2>1, <2>6 DEF ReportInv
  <2>8. TripInv'
    <3>1. FailuresExceeded' => n = "failConfig"
      BY <2>1 DEF FailuresExceeded
    <3>2. CrashesExceeded' /\ ~ broken' => pc[Maintenance] = "reset"
      BY <2>2, <2>3 DEF IInv, TripInv, CrashesExceeded
    <3> QED BY <3>1, <3>2, <2>6 DEF TripInv
  <2> QED BY <2>2, <2>5, <2>7, <2>8 DEF Moved, IInv
<1>4. CASE FailConfig
  <2>1. PICK n \in {"trigger", "idle"} :
          Drop(Operator, n) /\ n = IF FailuresExceeded THEN "trigger" ELSE "idle"
    BY <1>4 DEF FailConfig
  <2>2. Moved(Operator, n) /\ pc[Operator] = "failConfig" /\ n \in Labels
    BY <1>0, <1>4, <2>1, LockStep DEF FailConfig
  <2>3. UNCHANGED <<broken, failed, crashes, successes, samples, serial, calm>>
    BY <1>4 DEF FailConfig
  <2> QED BY <2>1, <2>2, <2>3, <1>0, <1>00, QuietKeeps DEF TypeOK
<1>5. CASE CountCrash
  <2>1. Moved(Operator, "crashConfig") /\ pc[Operator] = "crash"
    BY <1>0, <1>5, LockStep DEF CountCrash
  <2>2. UNCHANGED <<broken, failed, successes, samples, serial, calm>> /\ crashes' = crashes + 1
    BY <1>5 DEF CountCrash
  <2>3. crashes < MaxFaults
    BY <2>1 DEF IInv, ReportInv
  <2>4. TypeOK'
    BY <2>1, <2>2, <2>3, <1>00, Constants DEF Moved, TypeOK
  <2>5. pc'[Operator] = "crashConfig" /\ pc'[Maintenance] = pc[Maintenance]
    BY <2>1, <1>0, Constants DEF Moved
  <2>6. ReportInv'
    BY <2>5 DEF ReportInv
  <2>7. TripInv'
    <3>1. FailuresExceeded' /\ ~ broken' => pc[Maintenance] = "reset"
      BY <2>1, <2>2 DEF IInv, TripInv, FailuresExceeded
    <3> QED BY <3>1, <2>5 DEF TripInv
  <2> QED BY <2>1, <2>4, <2>6, <2>7 DEF Moved, IInv
<1>6. CASE CrashConfig
  <2>1. PICK n \in {"trigger", "idle"} :
          Drop(Operator, n) /\ n = IF CrashesExceeded THEN "trigger" ELSE "idle"
    BY <1>6 DEF CrashConfig
  <2>2. Moved(Operator, n) /\ pc[Operator] = "crashConfig" /\ n \in Labels
    BY <1>0, <1>6, <2>1, LockStep DEF CrashConfig
  <2>3. UNCHANGED <<broken, failed, crashes, successes, samples, serial, calm>>
    BY <1>6 DEF CrashConfig
  <2> QED BY <2>1, <2>2, <2>3, <1>0, <1>00, QuietKeeps DEF TypeOK
<1> QED BY <1>1, <1>2, <1>3, <1>4, <1>5, <1>6 DEF OperatorStep

\* The maintenance task: the breaker closes before the counts are reset, and
\* only the reset itself ends that state.
LEMMA MaintenanceKeeps ==
  ASSUME IInv, CheckRate \/ SerialTick \/ MaintenanceStep
  PROVE  IInv'
<1> DEFINE M == Maintenance
<1>0. /\ M \in Procs /\ Operator # M
      /\ {"idle", "rateConfig", "trigger", "okConfig", "okCount", "notOk", "safeRate",
          "safeCount", "safeConfig", "recover", "reset"} \subseteq Labels
      /\ {"rateConfig", "okConfig", "okCount", "notOk", "safeCount", "safeConfig",
          "recover", "reset"} \subseteq DOMAIN Need
      /\ "idle" \notin DOMAIN Need /\ "safeRate" \notin DOMAIN Need
  BY Constants, NeedFacts DEF Labels
<1>00. TypeOK
  BY DEF IInv
<1>1. \A b \in BOOLEAN : [calm EXCEPT ![M] = b] \in [Procs -> BOOLEAN]
  BY <1>00 DEF TypeOK
<1>2. calm[M] \in BOOLEAN
  BY <1>0, <1>00 DEF TypeOK
<1>3. CASE CheckRate
  <2>1. Moved(M, "rateConfig") /\ pc[M] = "idle"
    BY <1>0, <1>3, FreeStep DEF CheckRate
  <2>2. UNCHANGED <<broken, failed, crashes, successes, samples, serial>>
        /\ calm' = [calm EXCEPT ![M] = ~ RateExceeded]
    BY <1>3 DEF CheckRate
  <2>3. calm' \in [Procs -> BOOLEAN]
    BY <2>2, <1>1
  <2> QED BY <2>1, <2>2, <2>3, <1>0, <1>00, QuietKeeps DEF TypeOK
<1>4. CASE RateConfig
  <2>1. PICK n \in {"trigger", "idle"} : Drop(M, n)
    BY <1>4 DEF RateConfig
  <2>2. Moved(M, n) /\ pc[M] = "rateConfig" /\ n \in Labels
    BY <1>0, <1>4, <2>1, LockStep DEF RateConfig
  <2>3. UNCHANGED <<broken, failed, crashes, successes, samples, serial, calm>>
    BY <1>4 DEF RateConfig
  <2> QED BY <2>2, <2>3, <1>0, <1>00, QuietKeeps DEF TypeOK
<1>5. CASE SerialTick
  <2>1. PICK n \in {"okConfig", "notOk"} : Call(M, n)
    BY <1>5 DEF SerialTick
  <2>2. Moved(M, n) /\ pc[M] = "idle" /\ n \in Labels
        /\ UNCHANGED <<broken, failed, crashes, successes, calm, samples>>
    BY <1>0, <1>5, <2>1, CallStep DEF SerialTick
  <2>3. serial' \in 0..MaxSerial
    BY <1>5, <1>00, Constants DEF SerialTick, TypeOK
  <2> QED BY <2>2, <2>3, <1>0, <1>00, QuietKeeps DEF TypeOK
<1>6. CASE NotOk
  <2>1. Moved(M, "idle") /\ pc[M] = "notOk"
    BY <1>0, <1>6, LockStep DEF NotOk
  <2>2. UNCHANGED <<broken, failed, crashes, samples, serial, calm>>
        /\ successes' \in 0..RecoveryCount
    BY <1>6, Constants DEF NotOk
  <2> QED BY <2>1, <2>2, <1>0, <1>00, QuietKeeps DEF TypeOK
<1>7. CASE OkConfig
  <2>1. Moved(M, "okCount") /\ pc[M] = "okConfig"
    BY <1>0, <1>7, LockStep DEF OkConfig
  <2>2. UNCHANGED <<broken, failed, crashes, successes, samples, serial, calm>>
    BY <1>7 DEF OkConfig
  <2> QED BY <2>1, <2>2, <1>0, <1>00, QuietKeeps DEF TypeOK
<1>8. CASE OkCount
  <2>1. PICK n \in {"safeRate", "idle"} : Drop(M, n)
    BY <1>8 DEF OkCount
  <2>2. Moved(M, n) /\ pc[M] = "okCount" /\ n \in Labels
    BY <1>0, <1>8, <2>1, LockStep DEF OkCount
  <2>3. UNCHANGED <<broken, failed, crashes, samples, serial, calm>>
        /\ successes' = IF successes + 1 >= RecoveryCount THEN RecoveryCount ELSE successes + 1
    BY <1>8 DEF OkCount
  <2>4. successes' \in 0..RecoveryCount
    BY <2>3, <1>00, Constants DEF TypeOK
  <2> QED BY <2>2, <2>3, <2>4, <1>0, <1>00, QuietKeeps DEF TypeOK
<1>9. CASE SafeRate
  <2>1. Moved(M, "safeCount") /\ pc[M] = "safeRate"
    BY <1>0, <1>9, FreeStep DEF SafeRate
  <2>2. UNCHANGED <<broken, failed, crashes, successes, samples, serial>>
        /\ calm' = [calm EXCEPT ![M] = ~ RateExceeded]
    BY <1>9 DEF SafeRate
  <2>3. calm' \in [Procs -> BOOLEAN]
    BY <2>2, <1>1
  <2> QED BY <2>1, <2>2, <2>3, <1>0, <1>00, QuietKeeps DEF TypeOK
<1>10. CASE SafeCount
  <2>1. Moved(M, "safeConfig") /\ pc[M] = "safeCount"
    BY <1>0, <1>10, LockStep DEF SafeCount
  <2>2. UNCHANGED <<broken, failed, crashes, successes, samples, serial>>
        /\ calm' = [calm EXCEPT ![M] = @ /\ ~ FailuresExceeded]
    BY <1>10 DEF SafeCount
  <2>3. calm' \in [Procs -> BOOLEAN]
    BY <2>2, <1>1, <1>2
  <2> QED BY <2>1, <2>2, <2>3, <1>0, <1>00, QuietKeeps DEF TypeOK
<1>11. CASE SafeConfig
  <2>1. PICK n \in {"recover", "idle"} : Drop(M, n)
    BY <1>11 DEF SafeConfig
  <2>2. Moved(M, n) /\ pc[M] = "safeConfig" /\ n \in Labels
    BY <1>0, <1>11, <2>1, LockStep DEF SafeConfig
  <2>3. UNCHANGED <<broken, failed, crashes, successes, samples, serial, calm>>
    BY <1>11 DEF SafeConfig
  <2> QED BY <2>2, <2>3, <1>0, <1>00, QuietKeeps DEF TypeOK
<1>12. CASE Recover
  <2>1. Moved(M, "reset")
    BY <1>0, <1>12, LockStep DEF Recover
  <2>2. broken' = FALSE /\ UNCHANGED <<failed, crashes, successes, samples, serial, calm>>
    BY <1>12 DEF Recover
  <2>3. TypeOK'
    BY <2>1, <2>2, <1>00 DEF Moved, TypeOK
  <2>4. ReportInv' /\ TripInv'
    BY <2>1, <2>2, <1>0, Constants DEF Moved, IInv, ReportInv, TripInv
  <2> QED BY <2>1, <2>3, <2>4 DEF Moved, IInv
<1>13. CASE Reset
  <2>1. Moved(M, "idle")
    BY <1>0, <1>13, LockStep DEF Reset
  <2>2. UNCHANGED <<broken, samples, serial, calm>>
        /\ successes' = 0 /\ failed' = 0 /\ crashes' = 0
    BY <1>13 DEF Reset
  <2>3. TypeOK'
    BY <2>1, <2>2, <1>00, Constants DEF Moved, TypeOK
  <2>4. pc'[Operator] = pc[Operator]
    BY <2>1, <1>0, Constants DEF Moved
  <2>5. ReportInv'
    BY <2>2, <2>4, <1>00, Constants DEF IInv, ReportInv, TypeOK
  <2>6. ~ FailuresExceeded' /\ ~ CrashesExceeded'
    BY <2>2, Constants DEF FailuresExceeded, CrashesExceeded
  <2> QED BY <2>1, <2>3, <2>5, <2>6 DEF Moved, IInv, TripInv
<1> QED BY <1>3, <1>4, <1>5, <1>6, <1>7, <1>8, <1>9, <1>10, <1>11, <1>12, <1>13
        DEF MaintenanceStep

LEMMA InitInv ==
  Init => IInv
<1> SUFFICES ASSUME Init PROVE IInv
  OBVIOUS
<1>1. TypeOK
  <2>1. "idle" \in Labels
    BY DEF Labels
  <2>2. samples \in Seq({0, 1}) /\ Len(samples) <= Window
    <3>1. samples = <<>>
      BY DEF Init
    <3>2. <<>> \in Seq({0, 1}) /\ Len(<<>>) = 0
      OBVIOUS
    <3>3. samples \in Seq({0, 1}) /\ Len(samples) = 0
      BY <3>1, <3>2, Zenon
    <3> QED BY <3>3, Constants
  <2>3. /\ broken \in BOOLEAN /\ failed \in 0..MaxFaults /\ crashes \in 0..MaxFaults
        /\ successes \in 0..RecoveryCount /\ serial \in 0..MaxSerial
    <3>1. broken = FALSE /\ failed = 0 /\ crashes = 0 /\ successes = 0 /\ serial = 0
      BY DEF Init
    <3>2. 0 \in 0..MaxFaults /\ 0 \in 0..RecoveryCount /\ 0 \in 0..MaxSerial
      BY Constants
    <3> QED BY <3>1, <3>2, Zenon
  <2>4. /\ pc \in [Procs -> Labels] /\ waiting \in SUBSET Procs
        /\ holds \in [Procs -> SUBSET (Locks \X {"read", "write"})]
        /\ calm \in [Procs -> BOOLEAN]
    BY <2>1 DEF Init
  <2>5. queue \in [Locks -> Seq(Procs)]
    BY DEF Init
  <2> QED BY <2>2, <2>3, <2>4, <2>5 DEF TypeOK
<1>2. QueueInv
  BY DEF Init, QueueInv
<1>3. ReportInv
  BY Constants DEF Init, ReportInv
<1>4. TripInv
  BY Constants DEF Init, TripInv, FailuresExceeded, CrashesExceeded
<1> QED BY <1>1, <1>2, <1>3, <1>4 DEF IInv

LEMMA Invariance ==
  Spec => []IInv
<1>1. IInv /\ [Next]_vars => IInv'
  <2> SUFFICES ASSUME IInv, [Next]_vars PROVE IInv'
    OBVIOUS
  <2>1. ASSUME NEW p \in Procs, MethodStep(p)
        PROVE  IInv'
    BY <2>1, AwaitKeeps, TriggerKeeps, AgentKeeps, OperatorKeeps, MaintenanceKeeps
       DEF MethodStep
  <2>2. CASE \E a \in Agents : AskTripped(a)
    BY <2>2, AgentKeeps
  <2>3. CASE ReportFailure \/ ReportCrash
    BY <2>3, OperatorKeeps
  <2>4. CASE CheckRate \/ SerialTick
    BY <2>4, MaintenanceKeeps
  <2>5. CASE UNCHANGED vars
    BY <2>5 DEF vars, IInv, TypeOK, QueueInv, ReportInv, TripInv, FailuresExceeded,
                CrashesExceeded
  <2> QED BY <2>1, <2>2, <2>3, <2>4, <2>5 DEF Next
<1> QED BY InitInv, <1>1, PTL DEF Spec

(***************************************************************************)
(* Theorems                                                                *)
(***************************************************************************)

\* The variables keep their types: saturating_sub and the sliding window keep
\* the counters and the samples in range, for every order of the lock queues.
THEOREM TypeCorrect ==
  Spec => []TypeOK
<1>1. IInv => TypeOK
  BY DEF IInv
<1> QED BY <1>1, Invariance, PTL

\* No race of record_agent_failure or record_crash with try_recover leaves a
\* count over its threshold, the breaker closed and nobody on the way to it.
THEOREM ExcessAlwaysTrips ==
  Spec => []ExcessTrips
<1>1. IInv => ExcessTrips
  BY DEF IInv, TripInv, ExcessTrips
<1> QED BY <1>1, Invariance, PTL

=============================================================================
