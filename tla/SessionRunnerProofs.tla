------------------------- MODULE SessionRunnerProofs -------------------------
(***************************************************************************)
(* SessionRunner for every number of calls, cancels and runners: no work   *)
(* is lost to its runner, nobody waits in vain, and the session is not     *)
(* left busy.                                                              *)
(***************************************************************************)
EXTENDS SessionRunner, TLAPS

Kinds == {"none", "run", "shell"}
Phases == {"new", "working", "stopping", "queued", "joined", "done", "interrupted", "refused"}
CallInfo == [kind : Kinds, runner : 0..MaxRunners, joins : Calls \cup {NoCall}, phase : Phases]
States == {Idle} \cup {Running(c) : c \in Calls} \cup {Shell(c) : c \in Calls}
                 \cup {ShellThenRun(c, d) : c \in Calls, d \in Calls}

\* A runner that was not made is idle.
Fresh == \A r \in Runners : r > made => st[r] = Idle

\* A call that was made has a runner.
Placed == \A c \in Calls : call[c].phase # "new" => call[c].runner \in Runners

\* What a runner holds is its own and at work, or queued behind its shell.
Held ==
  \A r \in Runners, c \in Calls :
    /\ st[r].shell = c =>
         call[c].kind = "shell" /\ call[c].runner = r /\ call[c].phase = "working"
    /\ st[r].run = c =>
         /\ call[c].kind = "run" /\ call[c].runner = r
         /\ call[c].phase = IF st[r].tag = "Running" THEN "working" ELSE "queued"

\* What a cancel has taken out of a runner is in no runner any more.
TakenOut ==
  \A k \in Cancels : stop[k].phase = "answering" =>
    /\ stop[k].shell \in Calls /\ stop[k].run \in Calls
    /\ call[stop[k].shell].kind = "shell" /\ call[stop[k].shell].phase \notin {"new", "queued"}
    /\ call[stop[k].run].kind = "run" /\ call[stop[k].run].phase # "new"
    /\ \A r \in Runners : st[r].shell # stop[k].shell /\ st[r].run # stop[k].run

\* Callers wait for runs.
Joined ==
  \A c \in Calls : call[c].phase = "joined" =>
    /\ call[c].joins \in Calls /\ call[call[c].joins].kind = "run"
    /\ call[call[c].joins].phase \in {"working", "stopping", "queued"}

Queued ==
  \A c \in Calls : call[c].phase = "queued" =>
    \/ st[call[c].runner].tag = "ShellThenRun" /\ st[call[c].runner].run = c
    \/ BeingCancelled(c)

\* The status is busy only while a runner is registered, and a registered runner
\* that is idle has a cancel that will take it out.
BusyRegistered == status = "busy" => registered # 0

IdleLeaves ==
  registered # 0 /\ st[registered] = Idle =>
    \E k \in Cancels : stop[k].runner = registered /\ stop[k].phase \in {"answering", "waiting"}

\* The inductive invariant.
IInv ==
  /\ TypeOK /\ Fresh /\ Placed /\ Held /\ TakenOut /\ Joined /\ Queued
  /\ KnownToRunner /\ BusyRegistered /\ IdleLeaves

-----------------------------------------------------------------------------
\* The forms a runner's state takes.
LEMMA Forms ==
  ASSUME TypeOK, NEW r \in Runners
  PROVE  \/ st[r] = Idle /\ st[r].tag = "Idle" /\ st[r].shell = NoCall /\ st[r].run = NoCall
         \/ /\ st[r].tag = "Running" /\ st[r].shell = NoCall /\ st[r].run \in Calls
            /\ st[r] = Running(st[r].run) /\ st[r] # Idle
         \/ /\ st[r].tag = "Shell" /\ st[r].shell \in Calls /\ st[r].run = NoCall
            /\ st[r] = Shell(st[r].shell) /\ st[r] # Idle
         \/ /\ st[r].tag = "ShellThenRun" /\ st[r].shell \in Calls /\ st[r].run \in Calls
            /\ st[r] = ShellThenRun(st[r].shell, st[r].run) /\ st[r] # Idle
<1>1. CASE st[r] = Idle
  BY <1>1 DEF Idle
<1>2. ASSUME NEW c \in Calls, st[r] = Running(c)
      PROVE  /\ st[r].tag = "Running" /\ st[r].shell = NoCall /\ st[r].run \in Calls
             /\ st[r] = Running(st[r].run) /\ st[r] # Idle
  BY <1>2 DEF Running, Idle
<1>3. ASSUME NEW c \in Calls, st[r] = Shell(c)
      PROVE  /\ st[r].tag = "Shell" /\ st[r].shell \in Calls /\ st[r].run = NoCall
             /\ st[r] = Shell(st[r].shell) /\ st[r] # Idle
  BY <1>3 DEF Shell, Idle
<1>4. ASSUME NEW c \in Calls, NEW d \in Calls, st[r] = ShellThenRun(c, d)
      PROVE  /\ st[r].tag = "ShellThenRun" /\ st[r].shell \in Calls /\ st[r].run \in Calls
             /\ st[r] = ShellThenRun(st[r].shell, st[r].run) /\ st[r] # Idle
  BY <1>4 DEF ShellThenRun, Idle
<1>5. QED
  BY <1>1, <1>2, <1>3, <1>4 DEF TypeOK

\* The fields of the forms.
LEMMA Fields ==
  /\ Idle.tag = "Idle" /\ Idle.shell = NoCall /\ Idle.run = NoCall
  /\ \A c : Running(c).tag = "Running" /\ Running(c).shell = NoCall /\ Running(c).run = c
  /\ \A c : Shell(c).tag = "Shell" /\ Shell(c).shell = c /\ Shell(c).run = NoCall
  /\ \A c, d : /\ ShellThenRun(c, d).tag = "ShellThenRun" /\ ShellThenRun(c, d).shell = c
               /\ ShellThenRun(c, d).run = d
  BY DEF Idle, Running, Shell, ShellThenRun

\* They are different, and well typed.
LEMMA Different ==
  /\ \A c : Idle # Running(c) /\ Idle # Shell(c)
  /\ \A c, d : Idle # ShellThenRun(c, d)
  /\ Idle \in States /\ \A c \in Calls : Running(c) \in States /\ Shell(c) \in States
  /\ \A c, d \in Calls : ShellThenRun(c, d) \in States
<1>1. /\ \A c : Idle # Running(c) /\ Idle # Shell(c)
      /\ \A c, d : Idle # ShellThenRun(c, d)
  BY Fields
<1>2. /\ Idle \in States /\ \A c \in Calls : Running(c) \in States /\ Shell(c) \in States
      /\ \A c, d \in Calls : ShellThenRun(c, d) \in States
  BY DEF States
<1>3. QED
  BY <1>1, <1>2

\* TypeOK by its named parts.
LEMMA Types ==
  TypeOK <=> /\ registered \in 0..made /\ made \in 0..MaxRunners
             /\ st \in [Runners -> States] /\ call \in [Calls -> CallInfo]
             /\ stop \in [Cancels -> [runner : 0..MaxRunners, shell : Calls \cup {NoCall},
                                      run : Calls \cup {NoCall},
                                      phase : {"new", "answering", "waiting", "done"}]]
             /\ status \in {"idle", "busy"}
  BY DEF TypeOK, States, CallInfo, Kinds, Phases

LEMMA TypesNext ==
  TypeOK' <=> /\ registered' \in 0..made' /\ made' \in 0..MaxRunners
              /\ st' \in [Runners -> States] /\ call' \in [Calls -> CallInfo]
              /\ stop' \in [Cancels -> [runner : 0..MaxRunners, shell : Calls \cup {NoCall},
                                        run : Calls \cup {NoCall},
                                        phase : {"new", "answering", "waiting", "done"}]]
              /\ status' \in {"idle", "busy"}
  BY DEF TypeOK, States, CallInfo, Kinds, Phases

LEMMA RegisteredRunner ==
  ASSUME TypeOK, registered # 0
  PROVE  registered \in Runners
  BY RunnerAssumption DEF TypeOK, Runners

\* A change of phases changes nothing else of a call.
LEMMA PhaseFields ==
  ASSUME TypeOK, NEW cs, NEW p \in Phases
  PROVE  /\ WithPhase(cs, p) \in [Calls -> CallInfo]
         /\ \A d \in Calls :
              /\ WithPhase(cs, p)[d].kind = call[d].kind
              /\ WithPhase(cs, p)[d].runner = call[d].runner
              /\ WithPhase(cs, p)[d].joins = call[d].joins
              /\ WithPhase(cs, p)[d].phase = IF d \in cs THEN p ELSE call[d].phase
<1>1. call \in [Calls -> CallInfo]
  BY Types
<1>2. ASSUME NEW d \in Calls
      PROVE  /\ [call[d] EXCEPT !.phase = p] \in CallInfo
             /\ [call[d] EXCEPT !.phase = p].kind = call[d].kind
             /\ [call[d] EXCEPT !.phase = p].runner = call[d].runner
             /\ [call[d] EXCEPT !.phase = p].joins = call[d].joins
             /\ [call[d] EXCEPT !.phase = p].phase = p
  <2>1. call[d] \in CallInfo
    BY <1>1
  <2>2. QED
    BY <2>1 DEF CallInfo
<1>3. QED
  BY <1>1, <1>2 DEF WithPhase

-----------------------------------------------------------------------------
(* Calls. *)

\* The session's runner, and what registering it changes.
LEMMA Registered ==
  ASSUME TypeOK, Fresh, Register
  PROVE  /\ TheRunner \in Runners /\ registered' = TheRunner /\ registered' # 0
         /\ registered' \in 0..made' /\ made' \in 0..MaxRunners
         /\ registered = 0 => st[TheRunner] = Idle
         /\ registered # 0 => TheRunner = registered
         /\ \A r \in Runners : r > made' => r > made /\ r # TheRunner
  BY RunnerAssumption DEF TypeOK, Fresh, Register, TheRunner, Runners

\* A call enters, and its runner's state changes or not. What follows from that
\* alone.
LEMMA Entering ==
  ASSUME IInv, Register, UNCHANGED stop,
         NEW c \in Calls, call[c].phase = "new",
         NEW kind \in {"run", "shell"}, NEW joins \in Calls \cup {NoCall}, NEW phase \in Phases,
         phase # "new", Entered(c, kind, joins, phase)
  PROVE  /\ call' \in [Calls -> CallInfo] /\ Placed'
         /\ call'[c].kind = kind /\ call'[c].runner = TheRunner
         /\ call'[c].joins = joins /\ call'[c].phase = phase
         /\ \A d \in Calls : d # c => call'[d] = call[d]
         /\ \A r \in Runners : st[r].shell # c /\ st[r].run # c
         /\ \A k \in Cancels : stop[k].phase = "answering" => stop[k].shell # c /\ stop[k].run # c
         /\ \A d \in Calls : BeingCancelled(d)' <=> BeingCancelled(d)
<1> USE DEF IInv
<1>1. TheRunner \in Runners
  BY Registered
<1>2. call' = [call EXCEPT ![c] =
                 [kind |-> kind, runner |-> TheRunner, joins |-> joins, phase |-> phase]]
  BY DEF Entered
<1>3. call \in [Calls -> CallInfo]
  BY Types
<1>4. [kind |-> kind, runner |-> TheRunner, joins |-> joins, phase |-> phase] \in CallInfo
  BY <1>1 DEF CallInfo, Kinds, Runners
<1>5. call' \in [Calls -> CallInfo]
  BY <1>2, <1>3, <1>4
<1>6. /\ call'[c].kind = kind /\ call'[c].runner = TheRunner
      /\ call'[c].joins = joins /\ call'[c].phase = phase
      /\ \A d \in Calls : d # c => call'[d] = call[d]
  BY <1>2, <1>3
<1>7. Placed'
  BY <1>1, <1>6 DEF Placed
<1>8. \A r \in Runners : st[r].shell # c /\ st[r].run # c
  BY DEF Held
<1>9. \A k \in Cancels : stop[k].phase = "answering" => stop[k].shell # c /\ stop[k].run # c
  BY DEF TakenOut
<1>10. \A d \in Calls : BeingCancelled(d)' <=> BeingCancelled(d)
  BY DEF BeingCancelled
<1>11. QED
  BY <1>5, <1>6, <1>7, <1>8, <1>9, <1>10

\* A call that changes no state of a runner: it joins a run, or is refused.
LEMMA EnteringBeside ==
  ASSUME IInv, Register, UNCHANGED <<st, stop, status>>,
         NEW c \in Calls, call[c].phase = "new", st[TheRunner].tag # "Idle",
         \/ /\ st[TheRunner].tag \in {"Running", "ShellThenRun"}
            /\ Entered(c, "run", st[TheRunner].run, "joined")
         \/ Entered(c, "shell", NoCall, "refused")
  PROVE  IInv'
<1> USE DEF IInv
<1>0. /\ TheRunner \in Runners /\ registered' = TheRunner /\ registered' # 0
      /\ registered' \in 0..made' /\ made' \in 0..MaxRunners
      /\ registered # 0 => TheRunner = registered
      /\ \A r \in Runners : r > made' => r > made
  BY Registered
<1>1. CASE /\ st[TheRunner].tag \in {"Running", "ShellThenRun"}
           /\ Entered(c, "run", st[TheRunner].run, "joined")
  <2> DEFINE d == st[TheRunner].run
  <2>1. d \in Calls
    BY <1>0, <1>1, Forms
  <2>2. call[d].kind = "run" /\ call[d].phase \in {"working", "queued"}
    BY <1>0, <1>1, <2>1 DEF Held
  <2>3. "joined" \in Phases /\ d \in Calls \cup {NoCall}
    BY <2>1 DEF Phases
  <2> HIDE DEF d
  <2>4. /\ call' \in [Calls -> CallInfo] /\ Placed'
        /\ call'[c].joins = d /\ call'[c].phase = "joined"
        /\ \A e \in Calls : e # c => call'[e] = call[e]
        /\ \A r \in Runners : st[r].shell # c /\ st[r].run # c
        /\ \A k \in Cancels : stop[k].phase = "answering" => stop[k].shell # c /\ stop[k].run # c
        /\ \A e \in Calls : BeingCancelled(e)' <=> BeingCancelled(e)
    BY <1>1, <2>3, Entering DEF d
  <2>5. TypeOK'
    BY <1>0, <2>4, Types, TypesNext
  <2>6. Fresh' /\ BusyRegistered'
    BY <1>0 DEF Fresh, BusyRegistered
  <2>7. Held'
    BY <2>4 DEF Held
  <2>8. TakenOut'
    BY <2>4 DEF TakenOut
  <2>9. Joined'
    <3>1. d # c /\ call'[d] = call[d]
      BY <2>1, <2>2, <2>4
    <3>2. \A e \in Calls : call[e].phase = "joined" => call[e].joins # c
      BY DEF Joined
    <3>3. QED
      BY <2>1, <2>2, <2>4, <3>1, <3>2 DEF Joined
  <2>10. Queued' /\ KnownToRunner'
    BY <2>4 DEF Queued, KnownToRunner
  <2>11. IdleLeaves'
    BY <1>0, Fields DEF IdleLeaves
  <2>12. QED
    BY <2>4, <2>5, <2>6, <2>7, <2>8, <2>9, <2>10, <2>11
<1>2. CASE Entered(c, "shell", NoCall, "refused")
  <2>3. "refused" \in Phases /\ NoCall \in Calls \cup {NoCall}
    BY DEF Phases
  <2>4. /\ call' \in [Calls -> CallInfo] /\ Placed'
        /\ call'[c].phase = "refused"
        /\ \A e \in Calls : e # c => call'[e] = call[e]
        /\ \A r \in Runners : st[r].shell # c /\ st[r].run # c
        /\ \A k \in Cancels : stop[k].phase = "answering" => stop[k].shell # c /\ stop[k].run # c
        /\ \A e \in Calls : BeingCancelled(e)' <=> BeingCancelled(e)
    BY <1>2, <2>3, Entering
  <2>5. TypeOK'
    BY <1>0, <2>4, Types, TypesNext
  <2>6. Fresh' /\ BusyRegistered'
    BY <1>0 DEF Fresh, BusyRegistered
  <2>7. Held'
    BY <2>4 DEF Held
  <2>8. TakenOut'
    BY <2>4 DEF TakenOut
  <2>9. Joined'
    <3>2. \A e \in Calls : call[e].phase = "joined" => call[e].joins # c
      BY DEF Joined
    <3>3. QED
      BY <2>4, <3>2 DEF Joined
  <2>10. Queued' /\ KnownToRunner'
    BY <2>4 DEF Queued, KnownToRunner
  <2>11. IdleLeaves'
    BY <1>0, Fields DEF IdleLeaves
  <2>12. QED
    BY <2>4, <2>5, <2>6, <2>7, <2>8, <2>9, <2>10, <2>11
<1>3. QED
  BY <1>1, <1>2

\* A call that is given its place in its runner.
LEMMA EnteringRunner ==
  ASSUME IInv, Register, UNCHANGED stop, NEW c \in Calls, call[c].phase = "new",
         status' \in {status, "busy"},
         \/ /\ st[TheRunner].tag = "Shell"
            /\ Entered(c, "run", NoCall, "queued")
            /\ st' = [st EXCEPT ![TheRunner] = ShellThenRun(st[TheRunner].shell, c)]
         \/ /\ st[TheRunner].tag = "Idle"
            /\ Entered(c, "run", NoCall, "working")
            /\ st' = [st EXCEPT ![TheRunner] = Running(c)]
         \/ /\ st[TheRunner].tag = "Idle"
            /\ Entered(c, "shell", NoCall, "working")
            /\ st' = [st EXCEPT ![TheRunner] = Shell(c)]
  PROVE  IInv'
<1> USE DEF IInv
<1> DEFINE R == TheRunner
<1>0. /\ R \in Runners /\ registered' = R /\ registered' # 0
      /\ registered' \in 0..made' /\ made' \in 0..MaxRunners
      /\ registered # 0 => R = registered
      /\ \A r \in Runners : r > made' => r > made /\ r # R
  BY Registered
<1>1. PICK kind \in {"run", "shell"}, phase \in {"queued", "working"}, s \in States :
        /\ Entered(c, kind, NoCall, phase) /\ st' = [st EXCEPT ![R] = s] /\ s # Idle
        /\ kind = "run" => s.run = c /\ s.shell = st[R].shell
                           /\ phase = IF s.tag = "Running" THEN "working" ELSE "queued"
        /\ kind = "shell" => s.shell = c /\ s.run = NoCall /\ phase = "working"
        /\ phase = "queued" => s.tag = "ShellThenRun"
        /\ st[R].run = NoCall /\ (st[R].shell \in Calls => s.shell = st[R].shell)
        /\ (kind = "run" \/ st[R].shell = NoCall)
  <2>1. CASE /\ st[R].tag = "Shell"
             /\ Entered(c, "run", NoCall, "queued")
             /\ st' = [st EXCEPT ![R] = ShellThenRun(st[R].shell, c)]
    <3>1. st[R].shell \in Calls /\ st[R].run = NoCall
      BY <1>0, <2>1, Forms
    <3>2. LET s == ShellThenRun(st[R].shell, c)
          IN  /\ s \in States /\ s # Idle /\ s.run = c /\ s.shell = st[R].shell
              /\ s.tag = "ShellThenRun"
      BY <3>1, Fields, Different
    <3>3. QED
      BY <2>1, <3>1, <3>2
  <2>2. CASE /\ st[R].tag = "Idle"
             /\ Entered(c, "run", NoCall, "working")
             /\ st' = [st EXCEPT ![R] = Running(c)]
    <3>1. st[R].shell = NoCall /\ st[R].run = NoCall
      BY <1>0, <2>2, Forms
    <3>2. QED
      BY <2>2, <3>1, Fields, Different, RunnerAssumption
  <2>3. CASE /\ st[R].tag = "Idle"
             /\ Entered(c, "shell", NoCall, "working")
             /\ st' = [st EXCEPT ![R] = Shell(c)]
    <3>1. st[R].shell = NoCall /\ st[R].run = NoCall
      BY <1>0, <2>3, Forms
    <3>2. QED
      BY <2>3, <3>1, Fields, Different, RunnerAssumption
  <2>4. QED
    BY <2>1, <2>2, <2>3
<1>2. phase \in Phases /\ phase # "new" /\ NoCall \in Calls \cup {NoCall}
  BY DEF Phases
<1>3. /\ call' \in [Calls -> CallInfo] /\ Placed'
      /\ call'[c].kind = kind /\ call'[c].runner = R /\ call'[c].phase = phase
      /\ \A e \in Calls : e # c => call'[e] = call[e]
      /\ \A r \in Runners : st[r].shell # c /\ st[r].run # c
      /\ \A k \in Cancels : stop[k].phase = "answering" => stop[k].shell # c /\ stop[k].run # c
      /\ \A e \in Calls : BeingCancelled(e)' <=> BeingCancelled(e)
  BY <1>1, <1>2, Entering
<1> HIDE DEF R
<1>4. st \in [Runners -> States]
  BY Types
<1>5. st'[R] = s /\ \A r \in Runners : r # R => st'[r] = st[r]
  BY <1>0, <1>1, <1>4
<1>6. TypeOK'
  BY <1>0, <1>1, <1>3, <1>4, Types, TypesNext
<1>7. Fresh' /\ BusyRegistered'
  BY <1>0, <1>5 DEF Fresh, BusyRegistered
<1>8. Held'
  <2>1. SUFFICES ASSUME NEW r \in Runners, NEW d \in Calls
        PROVE  /\ st'[r].shell = d =>
                    call'[d].kind = "shell" /\ call'[d].runner = r /\ call'[d].phase = "working"
               /\ st'[r].run = d =>
                    /\ call'[d].kind = "run" /\ call'[d].runner = r
                    /\ call'[d].phase = IF st'[r].tag = "Running" THEN "working" ELSE "queued"
    BY DEF Held
  <2>2. CASE r # R
    BY <1>3, <1>5, <2>2 DEF Held
  <2>3. CASE r = R /\ d = c
    BY <1>0, <1>1, <1>3, <1>5, <2>3, RunnerAssumption
  <2>4. CASE r = R /\ d # c
    BY <1>0, <1>1, <1>3, <1>5, <2>4, RunnerAssumption DEF Held
  <2>5. QED
    BY <2>2, <2>3, <2>4
<1>9. TakenOut'
  <2>1. SUFFICES ASSUME NEW k \in Cancels, stop[k].phase = "answering"
        PROVE  /\ stop[k].shell \in Calls /\ stop[k].run \in Calls
               /\ call'[stop[k].shell].kind = "shell" /\ call'[stop[k].shell].phase \notin {"new", "queued"}
               /\ call'[stop[k].run].kind = "run" /\ call'[stop[k].run].phase # "new"
               /\ \A r \in Runners : st'[r].shell # stop[k].shell /\ st'[r].run # stop[k].run
    BY DEF TakenOut
  <2>2. /\ stop[k].shell \in Calls \ {c} /\ stop[k].run \in Calls \ {c}
        /\ call[stop[k].shell].kind = "shell" /\ call[stop[k].shell].phase \notin {"new", "queued"}
        /\ call[stop[k].run].kind = "run" /\ call[stop[k].run].phase # "new"
        /\ \A r \in Runners : st[r].shell # stop[k].shell /\ st[r].run # stop[k].run
    BY <1>3, <2>1 DEF TakenOut
  <2>3. s.shell # stop[k].shell /\ s.run # stop[k].run
    BY <1>0, <1>1, <2>2, RunnerAssumption
  <2>4. QED
    BY <1>3, <1>5, <2>2, <2>3
<1>10. Joined'
  <2>1. \A e \in Calls : call[e].phase = "joined" => call[e].joins # c
    BY DEF Joined
  <2>2. QED
    BY <1>3, <2>1 DEF Joined
<1>11. Queued'
  <2>1. SUFFICES ASSUME NEW d \in Calls, call'[d].phase = "queued"
        PROVE  \/ st'[call'[d].runner].tag = "ShellThenRun" /\ st'[call'[d].runner].run = d
               \/ BeingCancelled(d)'
    BY DEF Queued
  <2>2. CASE d = c
    BY <1>0, <1>1, <1>3, <1>5, <2>1, <2>2
  <2>3. CASE d # c
    <3>1. call'[d] = call[d] /\ call[d].runner \in Runners
      BY <1>3, <2>1, <2>3 DEF Placed
    <3>2. \/ st[call[d].runner].tag = "ShellThenRun" /\ st[call[d].runner].run = d
          \/ BeingCancelled(d)
      BY <2>1, <3>1 DEF Queued
    <3>3. call[d].runner = R => BeingCancelled(d)
      BY <1>1, <3>2, RunnerAssumption
    <3>4. QED
      BY <1>3, <1>5, <3>1, <3>2, <3>3
  <2>4. QED
    BY <2>2, <2>3
<1>12. KnownToRunner'
  <2>1. SUFFICES ASSUME NEW d \in Calls, call'[d].phase = "working"
        PROVE  \/ d \in {st'[call'[d].runner].shell, st'[call'[d].runner].run}
               \/ BeingCancelled(d)'
    BY DEF KnownToRunner
  <2>2. CASE d = c
    BY <1>0, <1>1, <1>3, <1>5, <2>2
  <2>3. CASE d # c
    <3>1. call'[d] = call[d] /\ call[d].runner \in Runners
      BY <1>3, <2>1, <2>3 DEF Placed
    <3>2. d \in {st[call[d].runner].shell, st[call[d].runner].run} \/ BeingCancelled(d)
      BY <2>1, <3>1 DEF KnownToRunner
    <3>3. call[d].runner = R => s.shell = d \/ BeingCancelled(d)
      BY <1>1, <3>2, RunnerAssumption
    <3>4. QED
      BY <1>3, <1>5, <3>1, <3>2, <3>3
  <2>4. QED
    BY <2>2, <2>3
<1>13. IdleLeaves'
  BY <1>0, <1>1, <1>5 DEF IdleLeaves
<1>14. QED
  BY <1>3, <1>6, <1>7, <1>8, <1>9, <1>10, <1>11, <1>12, <1>13

-----------------------------------------------------------------------------
(* Fibers that end. *)

\* A call's end, in terms of its phase.
LEMMA Ends ==
  ASSUME TypeOK, NEW c \in Calls
  PROVE  EndOf(c) \in {"interrupted", "done"} /\ EndOf(c) \in Phases
  BY DEF EndOf, Phases

\* A run ends.
LEMMA FinishRunKeeps ==
  ASSUME IInv, NEW c \in Calls, FinishRun(c)
  PROVE  IInv'
<1> USE DEF IInv
<1> DEFINE r == call[c].runner
           cs == {c} \cup WaitersFor(c)
           p == EndOf(c)
<1>0. /\ call[c].kind = "run" /\ call[c].phase \in {"working", "stopping"}
      /\ r \in Runners /\ p \in Phases /\ p \in {"interrupted", "done"}
  BY Ends DEF FinishRun, Live, Placed
<1>1. /\ call' = WithPhase(cs, p) /\ UNCHANGED <<made, stop>>
      /\ \/ /\ st[r] = Running(c) /\ st' = [st EXCEPT ![r] = Idle]
            /\ registered' = 0 /\ status' = "idle"
         \/ st[r] # Running(c) /\ UNCHANGED <<st, registered, status>>
  BY DEF FinishRun, OnIdle
<1>2. \A d \in cs \ {c} : d \in Calls /\ call[d].phase = "joined"
  BY DEF WaitersFor
<1>3. \A d \in Calls : call[d].phase = "joined" /\ call[d].joins = c => d \in cs
  BY DEF WaitersFor
<1> HIDE DEF cs, p
<1>4. /\ call' \in [Calls -> CallInfo]
      /\ \A d \in Calls :
           /\ call'[d].kind = call[d].kind /\ call'[d].runner = call[d].runner
           /\ call'[d].joins = call[d].joins
           /\ call'[d].phase = IF d \in cs THEN p ELSE call[d].phase
  BY <1>0, <1>1, PhaseFields
<1>5. c \in cs
  BY DEF cs
<1>6. st \in [Runners -> States] /\ st' \in [Runners -> States]
  BY <1>1, Types, Different
<1>7. /\ \A q \in Runners : q # r => st'[q] = st[q]
      /\ st'[r] = Idle \/ st'[r] = st[r]
      /\ st'[r].run # c /\ st'[r].shell # c
      /\ st'[r] # st[r] => st[r] = Running(c) /\ st'[r] = Idle
  <2>1. CASE st[r] = Running(c)
    BY <1>0, <1>1, <1>6, <2>1, Fields, RunnerAssumption
  <2>2. CASE st[r] # Running(c)
    <3>1. st[r].shell # c
      BY <1>0 DEF Held
    <3>2. st[r].run # c
      <4>1. CASE st[r].tag = "Running"
        BY <1>0, <2>2, <4>1, Forms
      <4>2. CASE st[r].tag # "Running"
        BY <1>0, <4>2 DEF Held
      <4>3. QED
        BY <4>1, <4>2
    <3>3. QED
      BY <1>1, <2>2, <3>1, <3>2
  <2>3. QED
    BY <2>1, <2>2
<1>8. \A d \in Calls : BeingCancelled(d)' <=> BeingCancelled(d)
  BY <1>1 DEF BeingCancelled
<1>9. TypeOK'
  BY <1>1, <1>4, <1>6, Types, TypesNext
<1>10. Fresh' /\ Placed'
  BY <1>0, <1>1, <1>2, <1>4, <1>7 DEF Fresh, Placed
<1>11. Held'
  <2>1. SUFFICES ASSUME NEW q \in Runners, NEW d \in Calls, st'[q].shell = d \/ st'[q].run = d
        PROVE  st'[q] = st[q] /\ d \notin cs
    BY <1>4 DEF Held
  <2>2. st'[q] = st[q]
    BY <1>7, <2>1, Fields, RunnerAssumption
  <2>3. call[d].phase \in {"working", "queued"} /\ call[d].runner = q
    BY <2>1, <2>2 DEF Held
  <2>4. QED
    BY <1>2, <1>7, <2>1, <2>2, <2>3
<1>12. TakenOut'
  <2>1. SUFFICES ASSUME NEW k \in Cancels, stop[k].phase = "answering"
        PROVE  /\ stop[k].shell \in Calls /\ stop[k].run \in Calls
               /\ call'[stop[k].shell].kind = "shell" /\ call'[stop[k].shell].phase \notin {"new", "queued"}
               /\ call'[stop[k].run].kind = "run" /\ call'[stop[k].run].phase # "new"
               /\ \A q \in Runners : st'[q].shell # stop[k].shell /\ st'[q].run # stop[k].run
    BY <1>1 DEF TakenOut
  <2>2. QED
    BY <1>0, <1>4, <1>7, <2>1, Fields, RunnerAssumption DEF TakenOut
<1>13. Joined'
  <2>1. SUFFICES ASSUME NEW d \in Calls, call'[d].phase = "joined"
        PROVE  /\ call[d].joins \in Calls /\ call[call[d].joins].kind = "run"
               /\ call'[call[d].joins].phase \in {"working", "stopping", "queued"}
    BY <1>4 DEF Joined
  <2>2. d \notin cs /\ call[d].phase = "joined"
    BY <1>0, <1>4, <2>1
  <2>3. /\ call[d].joins \in Calls /\ call[call[d].joins].kind = "run"
        /\ call[call[d].joins].phase \in {"working", "stopping", "queued"}
    BY <2>2 DEF Joined
  <2>4. call[d].joins # c
    BY <1>3, <2>2
  <2>5. call[d].joins \notin cs
    BY <1>2, <2>3, <2>4
  <2>6. QED
    BY <1>4, <2>3, <2>5
<1>14. Queued'
  <2>1. SUFFICES ASSUME NEW d \in Calls, call'[d].phase = "queued"
        PROVE  \/ st'[call[d].runner].tag = "ShellThenRun" /\ st'[call[d].runner].run = d
               \/ BeingCancelled(d)
    BY <1>4, <1>8 DEF Queued
  <2>2. call[d].phase = "queued" /\ call[d].runner \in Runners
    BY <1>0, <1>4, <2>1 DEF Placed
  <2>3. \/ st[call[d].runner].tag = "ShellThenRun" /\ st[call[d].runner].run = d
        \/ BeingCancelled(d)
    BY <2>2 DEF Queued
  <2>4. QED
    BY <1>7, <2>2, <2>3, Fields
<1>15. KnownToRunner'
  <2>1. SUFFICES ASSUME NEW d \in Calls, call'[d].phase = "working"
        PROVE  d \in {st'[call[d].runner].shell, st'[call[d].runner].run} \/ BeingCancelled(d)
    BY <1>4, <1>8 DEF KnownToRunner
  <2>2. call[d].phase = "working" /\ d # c /\ call[d].runner \in Runners
    BY <1>0, <1>4, <1>5, <2>1 DEF Placed
  <2>3. d \in {st[call[d].runner].shell, st[call[d].runner].run} \/ BeingCancelled(d)
    BY <2>2 DEF KnownToRunner
  <2>4. QED
    BY <1>7, <2>2, <2>3, Fields, RunnerAssumption
<1>16. BusyRegistered' /\ IdleLeaves'
  BY <1>1 DEF BusyRegistered, IdleLeaves
<1>17. QED
  BY <1>9, <1>10, <1>11, <1>12, <1>13, <1>14, <1>15, <1>16

\* A shell ends: its runner is idle, or its queued run starts, or it was taken
\* out of its runner before.
LEMMA FinishShellKeeps ==
  ASSUME IInv, NEW c \in Calls, FinishShell(c)
  PROVE  IInv'
<1> USE DEF IInv
<1> DEFINE r == call[c].runner
           p == EndOf(c)
           n == IF st[r].shell = c THEN st[r].run ELSE NoCall
<1>0. /\ call[c].kind = "shell" /\ call[c].phase \in {"working", "stopping"}
      /\ r \in Runners /\ p \in Phases /\ p \in {"interrupted", "done"}
  BY Ends DEF FinishShell, Live, Placed
<1>1. UNCHANGED <<made, stop>>
  BY DEF FinishShell
<1>2. n \in Calls => /\ n # c /\ call[n].kind = "run" /\ call[n].runner = r
                     /\ call[n].phase = "queued" /\ st[r].tag = "ShellThenRun"
                     /\ st[r].shell = c
  <2>1. SUFFICES ASSUME n \in Calls
                 PROVE  /\ n # c /\ call[n].kind = "run" /\ call[n].runner = r
                        /\ call[n].phase = "queued" /\ st[r].tag = "ShellThenRun"
                        /\ st[r].shell = c
    OBVIOUS
  <2>2. st[r].shell = c /\ st[r].run = n
    BY <2>1, RunnerAssumption
  <2>3. st[r].tag = "ShellThenRun"
    BY <1>0, <2>1, <2>2, Forms, RunnerAssumption
  <2>4. QED
    BY <1>0, <2>1, <2>2, <2>3 DEF Held
<1> HIDE DEF p
<1>3. /\ call' \in [Calls -> CallInfo]
      /\ \A d \in Calls :
           /\ call'[d].kind = call[d].kind /\ call'[d].runner = call[d].runner
           /\ call'[d].joins = call[d].joins
           /\ call'[d].phase = IF d = c THEN p ELSE IF d = n THEN "working" ELSE call[d].phase
      /\ st' = IF st[r].shell = c
                 THEN [st EXCEPT ![r] = IF n \in Calls THEN Running(n) ELSE Idle] ELSE st
      /\ \/ st[r].shell = c /\ n \notin Calls /\ registered' = 0 /\ status' = "idle"
         \/ ~(st[r].shell = c /\ n \notin Calls) /\ UNCHANGED <<registered, status>>
  <2>1. LET w == WithPhase({c}, p)
        IN  /\ w \in [Calls -> CallInfo]
            /\ \A d \in Calls :
                 /\ w[d].kind = call[d].kind /\ w[d].runner = call[d].runner
                 /\ w[d].joins = call[d].joins
                 /\ w[d].phase = IF d = c THEN p ELSE call[d].phase
    BY <1>0, PhaseFields
  <2>2. CASE /\ st[r] = Shell(c)
             /\ st' = [st EXCEPT ![r] = Idle]
             /\ call' = WithPhase({c}, p) /\ registered' = 0 /\ status' = "idle"
    <3>1. st[r].shell = c /\ n = NoCall
      BY <2>2, Fields
    <3>2. QED
      BY <2>1, <2>2, <3>1, RunnerAssumption
  <2>3. CASE /\ st[r].tag = "ShellThenRun" /\ st[r].shell = c
             /\ st' = [st EXCEPT ![r] = Running(st[r].run)]
             /\ call' = [WithPhase({c}, p) EXCEPT ![st[r].run].phase = "working"]
             /\ UNCHANGED <<registered, status>>
    <3>1. n = st[r].run /\ n \in Calls /\ n # c
      BY <1>0, <1>2, <2>3, Forms
    <3> DEFINE w == WithPhase({c}, p)
    <3>2. w[n] \in CallInfo /\ "working" \in Phases
      BY <2>1, <3>1 DEF Phases
    <3>3. /\ [w[n] EXCEPT !.phase = "working"] \in CallInfo
          /\ [w[n] EXCEPT !.phase = "working"].kind = w[n].kind
          /\ [w[n] EXCEPT !.phase = "working"].runner = w[n].runner
          /\ [w[n] EXCEPT !.phase = "working"].joins = w[n].joins
          /\ [w[n] EXCEPT !.phase = "working"].phase = "working"
      BY <3>2 DEF CallInfo
    <3>4. call' = [w EXCEPT ![n] = [w[n] EXCEPT !.phase = "working"]]
      BY <2>3, <3>1
    <3> HIDE DEF w, n
    <3>5. /\ call' \in [Calls -> CallInfo]
          /\ \A d \in Calls : call'[d] = IF d = n THEN [w[n] EXCEPT !.phase = "working"] ELSE w[d]
      BY <2>1, <3>1, <3>3, <3>4 DEF w
    <3>6. \A d \in Calls :
            /\ call'[d].kind = call[d].kind /\ call'[d].runner = call[d].runner
            /\ call'[d].joins = call[d].joins
            /\ call'[d].phase = IF d = c THEN p ELSE IF d = n THEN "working" ELSE call[d].phase
      <4>1. \A d \in Calls :
              /\ w[d].kind = call[d].kind /\ w[d].runner = call[d].runner
              /\ w[d].joins = call[d].joins
              /\ w[d].phase = IF d = c THEN p ELSE call[d].phase
        BY <2>1 DEF w
      <4>2. TAKE d \in Calls
      <4>3. CASE d = n
        <5>1. call'[d] = [w[n] EXCEPT !.phase = "working"]
          BY <3>5, <4>3
        <5>2. /\ call'[d].kind = w[d].kind /\ call'[d].runner = w[d].runner
              /\ call'[d].joins = w[d].joins /\ call'[d].phase = "working"
          BY <3>3, <4>3, <5>1
        <5>3. QED
          BY <3>1, <4>1, <4>3, <5>2
      <4>4. CASE d # n
        BY <3>5, <4>1, <4>4
      <4>5. QED
        BY <4>3, <4>4
    <3>7. st' = [st EXCEPT ![r] = IF n \in Calls THEN Running(n) ELSE Idle]
      BY <2>3, <3>1
    <3>8. QED
      BY <2>3, <3>1, <3>5, <3>6, <3>7
  <2>4. CASE /\ st[r].shell # c
             /\ call' = WithPhase({c}, p)
             /\ UNCHANGED <<st, registered, status>>
    BY <2>1, <2>4, RunnerAssumption
  <2>5. QED
    BY <2>2, <2>3, <2>4 DEF FinishShell, OnIdle, p
<1>4. st \in [Runners -> States] /\ st' \in [Runners -> States]
  BY <1>3, Types, Different
<1> HIDE DEF n
<1>5. /\ \A q \in Runners : q # r => st'[q] = st[q]
      /\ st[r].shell # c => st'[r] = st[r] /\ n \notin Calls
      /\ st[r].shell = c /\ n \in Calls => st'[r] = Running(n)
      /\ st[r].shell = c /\ n \notin Calls => st'[r] = Idle /\ st[r].run \notin Calls
  BY <1>0, <1>3, <1>4, RunnerAssumption DEF n
<1>6. \A d \in Calls : BeingCancelled(d)' <=> BeingCancelled(d)
  BY <1>1 DEF BeingCancelled
<1>7. \A q \in Runners : st[q].run # c /\ (st[q].shell = c => q = r)
  BY <1>0 DEF Held
<1>8. TypeOK'
  BY <1>1, <1>3, <1>4, Types, TypesNext
<1>9. Fresh' /\ Placed'
  <2>1. Placed'
    BY <1>0, <1>2, <1>3 DEF Placed
  <2>2. Fresh'
    BY <1>1, <1>5, Fields, RunnerAssumption DEF Fresh
  <2>3. QED
    BY <2>1, <2>2
<1>10. Held'
  <2>1. SUFFICES ASSUME NEW q \in Runners, NEW d \in Calls
        PROVE  /\ st'[q].shell = d =>
                    call[d].kind = "shell" /\ call[d].runner = q /\ call'[d].phase = "working"
               /\ st'[q].run = d =>
                    /\ call[d].kind = "run" /\ call[d].runner = q
                    /\ call'[d].phase = IF st'[q].tag = "Running" THEN "working" ELSE "queued"
    BY <1>3 DEF Held
  <2>2. CASE st'[q] = st[q]
    <3>1. st[q].shell = d => d # c
      BY <1>5, <1>7, <2>2, Fields, RunnerAssumption
    <3>2. st[q].run = d => d # c
      BY <1>7
    <3>3. st[q].shell = d \/ st[q].run = d => d # n
      BY <1>2, <1>5, <2>2, Fields DEF Held
    <3>4. QED
      BY <1>3, <2>2, <3>1, <3>2, <3>3 DEF Held
  <2>3. CASE st'[q] # st[q]
    BY <1>2, <1>3, <1>5, <2>3, Fields, RunnerAssumption
  <2>4. QED
    BY <2>2, <2>3
<1>11. TakenOut'
  <2>1. SUFFICES ASSUME NEW k \in Cancels, stop[k].phase = "answering"
        PROVE  /\ stop[k].shell \in Calls /\ stop[k].run \in Calls
               /\ call'[stop[k].shell].kind = "shell" /\ call'[stop[k].shell].phase \notin {"new", "queued"}
               /\ call'[stop[k].run].kind = "run" /\ call'[stop[k].run].phase # "new"
               /\ \A q \in Runners : st'[q].shell # stop[k].shell /\ st'[q].run # stop[k].run
    BY <1>1 DEF TakenOut
  <2>2. /\ stop[k].shell \in Calls /\ stop[k].run \in Calls
        /\ call[stop[k].shell].kind = "shell" /\ call[stop[k].shell].phase \notin {"new", "queued"}
        /\ call[stop[k].run].kind = "run" /\ call[stop[k].run].phase # "new"
        /\ \A q \in Runners : st[q].shell # stop[k].shell /\ st[q].run # stop[k].run
    BY <2>1 DEF TakenOut
  <2>3. n \in Calls => stop[k].run # n
    BY <1>0, <2>2, RunnerAssumption DEF n
  <2>4. \A q \in Runners : st'[q].shell # stop[k].shell /\ st'[q].run # stop[k].run
    BY <1>5, <2>2, <2>3, Fields, RunnerAssumption
  <2>5. QED
    BY <1>0, <1>3, <2>2, <2>4
<1>12. Joined'
  <2>1. SUFFICES ASSUME NEW d \in Calls, call'[d].phase = "joined"
        PROVE  /\ call[d].joins \in Calls /\ call[call[d].joins].kind = "run"
               /\ call'[call[d].joins].phase \in {"working", "stopping", "queued"}
    BY <1>3 DEF Joined
  <2>2. call[d].phase = "joined"
    BY <1>0, <1>3, <2>1
  <2>3. /\ call[d].joins \in Calls /\ call[call[d].joins].kind = "run"
        /\ call[call[d].joins].phase \in {"working", "stopping", "queued"}
    BY <2>2 DEF Joined
  <2>4. QED
    BY <1>0, <1>3, <2>3
<1>13. Queued'
  <2>1. SUFFICES ASSUME NEW d \in Calls, call'[d].phase = "queued"
        PROVE  \/ st'[call[d].runner].tag = "ShellThenRun" /\ st'[call[d].runner].run = d
               \/ BeingCancelled(d)
    BY <1>3, <1>6 DEF Queued
  <2>2. call[d].phase = "queued" /\ call[d].runner \in Runners /\ d # n
    BY <1>0, <1>3, <2>1 DEF Placed
  <2>3. \/ st[call[d].runner].tag = "ShellThenRun" /\ st[call[d].runner].run = d
        \/ BeingCancelled(d)
    BY <2>2 DEF Queued
  <2>4. call[d].runner = r /\ st[r].shell = c /\ st[r].run = d => d = n
    BY DEF n
  <2>5. QED
    BY <1>5, <2>2, <2>3, <2>4
<1>14. KnownToRunner'
  <2>1. SUFFICES ASSUME NEW d \in Calls, call'[d].phase = "working"
        PROVE  d \in {st'[call[d].runner].shell, st'[call[d].runner].run} \/ BeingCancelled(d)
    BY <1>3, <1>6 DEF KnownToRunner
  <2>2. CASE d = n
    BY <1>2, <1>5, <2>2, Fields
  <2>3. CASE d # n
    <3>1. call[d].phase = "working" /\ d # c /\ call[d].runner \in Runners
      BY <1>0, <1>3, <2>1, <2>3 DEF Placed
    <3>2. d \in {st[call[d].runner].shell, st[call[d].runner].run} \/ BeingCancelled(d)
      BY <3>1 DEF KnownToRunner
    <3>3. call[d].runner = r /\ st[r].shell = c /\ st[r].run = d => d = n
      BY DEF n
    <3>4. QED
      BY <1>5, <2>3, <3>1, <3>2, <3>3
  <2>4. QED
    BY <2>2, <2>3
<1>15. BusyRegistered' /\ IdleLeaves'
  <2>1. CASE registered' = 0 /\ status' = "idle"
    BY <2>1 DEF BusyRegistered, IdleLeaves
  <2>2. CASE ~(st[r].shell = c /\ n \notin Calls) /\ UNCHANGED <<registered, status>>
    <3>1. registered # 0 => registered \in Runners
      BY RegisteredRunner
    <3>2. registered # 0 => (st'[registered] = Idle => st[registered] = Idle)
      BY <1>5, <2>2, <3>1, Different
    <3>3. QED
      BY <1>1, <2>2, <3>2 DEF BusyRegistered, IdleLeaves
  <2>3. QED
    BY <1>3, <2>1, <2>2
<1>16. QED
  BY <1>8, <1>9, <1>10, <1>11, <1>12, <1>13, <1>14, <1>15

-----------------------------------------------------------------------------
(* Cancels. *)

StopInfo ==
  [runner : 0..MaxRunners, shell : Calls \cup {NoCall}, run : Calls \cup {NoCall},
   phase : {"new", "answering", "waiting", "done"}]

\* A cancel's phase changes, and nothing else of any cancel.
LEMMA StopFields ==
  ASSUME TypeOK, NEW k \in Cancels, NEW p \in {"new", "answering", "waiting", "done"},
         stop' = [stop EXCEPT ![k].phase = p]
  PROVE  /\ stop' \in [Cancels -> StopInfo]
         /\ \A j \in Cancels :
              /\ stop'[j].runner = stop[j].runner /\ stop'[j].shell = stop[j].shell
              /\ stop'[j].run = stop[j].run
              /\ stop'[j].phase = IF j = k THEN p ELSE stop[j].phase
<1>1. stop \in [Cancels -> StopInfo] /\ stop[k] \in StopInfo
  BY Types DEF StopInfo
<1>2. /\ [stop[k] EXCEPT !.phase = p] \in StopInfo
      /\ [stop[k] EXCEPT !.phase = p].runner = stop[k].runner
      /\ [stop[k] EXCEPT !.phase = p].shell = stop[k].shell
      /\ [stop[k] EXCEPT !.phase = p].run = stop[k].run
      /\ [stop[k] EXCEPT !.phase = p].phase = p
  BY <1>1 DEF StopInfo
<1>3. stop' = [stop EXCEPT ![k] = [stop[k] EXCEPT !.phase = p]]
  OBVIOUS
<1>4. QED
  BY <1>1, <1>2, <1>3

\* A cancel that finds nothing, or returns.
LEMMA CancelEnds ==
  ASSUME IInv, NEW k \in Cancels, CancelNothing(k) \/ CancelReturns(k)
  PROVE  IInv'
<1> USE DEF IInv
<1>1. /\ stop[k].phase \in {"new", "waiting"} /\ stop' = [stop EXCEPT ![k].phase = "done"]
      /\ UNCHANGED <<made, st, call>>
      /\ \/ registered' = 0 /\ status' = "idle"
         \/ registered' = registered /\ status' = "idle" /\ stop[k].phase = "new"
         \/ UNCHANGED <<registered, status>> /\ st[stop[k].runner] # Idle
  BY DEF CancelNothing, CancelReturns, OnIdle
<1>2. /\ stop' \in [Cancels -> StopInfo]
      /\ \A j \in Cancels :
           /\ stop'[j].runner = stop[j].runner /\ stop'[j].shell = stop[j].shell
           /\ stop'[j].run = stop[j].run
           /\ stop'[j].phase = IF j = k THEN "done" ELSE stop[j].phase
  BY <1>1, StopFields
<1>3. \A d \in Calls : BeingCancelled(d)' <=> BeingCancelled(d)
  BY <1>1, <1>2 DEF BeingCancelled
<1>4. TypeOK'
  <2>1. registered \in 0..made /\ made \in 0..MaxRunners /\ 0 \in 0..made
    BY RunnerAssumption DEF TypeOK
  <2>2. QED
    BY <1>1, <1>2, <2>1, Types, TypesNext DEF StopInfo
<1>5. Fresh' /\ Placed' /\ Held' /\ Joined'
  BY <1>1 DEF Fresh, Placed, Held, Joined
<1>6. TakenOut'
  BY <1>1, <1>2 DEF TakenOut
<1>7. Queued' /\ KnownToRunner'
  BY <1>1, <1>3 DEF Queued, KnownToRunner
<1>8. BusyRegistered' /\ IdleLeaves'
  BY <1>1, <1>2 DEF BusyRegistered, IdleLeaves
<1>9. QED
  BY <1>4, <1>5, <1>6, <1>7, <1>8

\* What a cancel takes out of the registered runner.
LEMMA TakesOut ==
  ASSUME IInv, NEW k \in Cancels, stop[k].phase = "new", registered # 0,
         NEW p \in {"answering", "waiting"}, Stopping(k, registered, p),
         st' = [st EXCEPT ![registered] = Idle]
  PROVE  /\ registered \in Runners
         /\ st' \in [Runners -> States] /\ st'[registered] = Idle
         /\ \A q \in Runners : q # registered => st'[q] = st[q]
         /\ stop' \in [Cancels -> StopInfo]
         /\ stop'[k].runner = registered /\ stop'[k].phase = p
         /\ stop'[k].shell = st[registered].shell /\ stop'[k].run = st[registered].run
         /\ \A j \in Cancels : j # k => stop'[j] = stop[j]
<1>1. registered \in Runners
  BY RegisteredRunner DEF IInv
<1>2. st \in [Runners -> States] /\ stop \in [Cancels -> StopInfo]
  BY Types DEF IInv, StopInfo
<1>3. /\ st[registered].shell \in Calls \cup {NoCall}
      /\ st[registered].run \in Calls \cup {NoCall}
  BY <1>1, Forms DEF IInv
<1> DEFINE v == [runner |-> registered, shell |-> st[registered].shell,
                 run |-> st[registered].run, phase |-> p]
<1>4. v \in StopInfo
  <2>1. registered \in 0..MaxRunners
    BY <1>1, RunnerAssumption DEF Runners
  <2>2. QED
    BY <1>3, <2>1 DEF StopInfo
<1>5. /\ v.runner = registered /\ v.phase = p
      /\ v.shell = st[registered].shell /\ v.run = st[registered].run
  OBVIOUS
<1>6. stop' = [stop EXCEPT ![k] = v]
  BY DEF Stopping
<1> HIDE DEF v
<1>7. QED
  BY <1>1, <1>2, <1>4, <1>5, <1>6, Different

\* The fiber of a runner is interrupted.
LEMMA CancelFiberKeeps ==
  ASSUME IInv, NEW k \in Cancels, CancelFiber(k)
  PROVE  IInv'
<1> USE DEF IInv
<1> DEFINE R == registered
           cs == {st[R].shell, st[R].run} \ {NoCall}
<1>1. /\ stop[k].phase = "new" /\ R # 0 /\ st[R].tag \in {"Running", "Shell"}
      /\ call' = WithPhase(cs, "stopping") /\ UNCHANGED <<registered, made, status>>
  BY DEF CancelFiber
<1>2. /\ R \in Runners
      /\ st' \in [Runners -> States] /\ st'[R] = Idle
      /\ \A q \in Runners : q # R => st'[q] = st[q]
      /\ stop' \in [Cancels -> StopInfo]
      /\ stop'[k].runner = R /\ stop'[k].phase = "waiting"
      /\ \A j \in Cancels : j # k => stop'[j] = stop[j]
  BY TakesOut DEF CancelFiber
<1>3. \A d \in cs : d \in Calls /\ call[d].phase = "working" /\ call[d].runner = R
  BY <1>1, <1>2, Forms DEF Held
<1>4. \A d \in Calls : st[R].shell = d \/ st[R].run = d => d \in cs
  BY RunnerAssumption
<1> HIDE DEF cs
<1>5. "stopping" \in Phases
  BY DEF Phases
<1>6. /\ call' \in [Calls -> CallInfo]
      /\ \A d \in Calls :
           /\ call'[d].kind = call[d].kind /\ call'[d].runner = call[d].runner
           /\ call'[d].joins = call[d].joins
           /\ call'[d].phase = IF d \in cs THEN "stopping" ELSE call[d].phase
  BY <1>1, <1>5, PhaseFields
<1>7. \A d \in Calls : BeingCancelled(d)' <=> BeingCancelled(d)
  BY <1>1, <1>2 DEF BeingCancelled
<1>8. TypeOK'
  BY <1>1, <1>2, <1>6, Types, TypesNext DEF StopInfo
<1>9. Fresh' /\ Placed'
  <2>1. Placed'
    BY <1>3, <1>6 DEF Placed
  <2>2. Fresh'
    BY <1>1, <1>2 DEF Fresh
  <2>3. QED
    BY <2>1, <2>2
<1>10. Held'
  <2>1. SUFFICES ASSUME NEW q \in Runners, NEW d \in Calls, st'[q].shell = d \/ st'[q].run = d
                 PROVE  st'[q] = st[q] /\ d \notin cs
    BY <1>6 DEF Held
  <2>2. q # R /\ st'[q] = st[q]
    BY <1>2, <2>1, Fields, RunnerAssumption
  <2>3. call[d].runner = q
    BY <2>1, <2>2 DEF Held
  <2>4. QED
    BY <1>3, <2>2, <2>3
<1>11. TakenOut'
  <2>1. SUFFICES ASSUME NEW j \in Cancels, j # k, stop[j].phase = "answering"
        PROVE  /\ stop[j].shell \in Calls /\ stop[j].run \in Calls
               /\ call'[stop[j].shell].kind = "shell"
               /\ call'[stop[j].shell].phase \notin {"new", "queued"}
               /\ call'[stop[j].run].kind = "run" /\ call'[stop[j].run].phase # "new"
               /\ \A q \in Runners : st'[q].shell # stop[j].shell /\ st'[q].run # stop[j].run
    BY <1>2 DEF TakenOut
  <2>2. QED
    BY <1>2, <1>6, <2>1, Fields, RunnerAssumption DEF TakenOut
<1>12. Joined'
  <2>1. SUFFICES ASSUME NEW d \in Calls, call'[d].phase = "joined"
        PROVE  /\ call[d].joins \in Calls /\ call[call[d].joins].kind = "run"
               /\ call'[call[d].joins].phase \in {"working", "stopping", "queued"}
    BY <1>6 DEF Joined
  <2>2. call[d].phase = "joined"
    BY <1>6, <2>1
  <2>3. QED
    BY <1>6, <2>2 DEF Joined
<1>13. Queued'
  <2>1. SUFFICES ASSUME NEW d \in Calls, call'[d].phase = "queued"
        PROVE  \/ st'[call[d].runner].tag = "ShellThenRun" /\ st'[call[d].runner].run = d
               \/ BeingCancelled(d)
    BY <1>6, <1>7 DEF Queued
  <2>2. call[d].phase = "queued" /\ call[d].runner \in Runners
    BY <1>6, <2>1 DEF Placed
  <2>3. \/ st[call[d].runner].tag = "ShellThenRun" /\ st[call[d].runner].run = d
        \/ BeingCancelled(d)
    BY <2>2 DEF Queued
  <2>4. QED
    BY <1>1, <1>2, <2>2, <2>3
<1>14. KnownToRunner'
  <2>1. SUFFICES ASSUME NEW d \in Calls, call'[d].phase = "working"
        PROVE  d \in {st'[call[d].runner].shell, st'[call[d].runner].run} \/ BeingCancelled(d)
    BY <1>6, <1>7 DEF KnownToRunner
  <2>2. call[d].phase = "working" /\ d \notin cs /\ call[d].runner \in Runners
    BY <1>6, <2>1 DEF Placed
  <2>3. d \in {st[call[d].runner].shell, st[call[d].runner].run} \/ BeingCancelled(d)
    BY <2>2 DEF KnownToRunner
  <2>4. QED
    BY <1>2, <1>4, <2>2, <2>3
<1>15. BusyRegistered' /\ IdleLeaves'
  BY <1>1, <1>2 DEF BusyRegistered, IdleLeaves
<1>16. QED
  BY <1>8, <1>9, <1>10, <1>11, <1>12, <1>13, <1>14, <1>15

\* A shell and the run behind it are taken out of their runner.
LEMMA CancelBothKeeps ==
  ASSUME IInv, NEW k \in Cancels, CancelBoth(k)
  PROVE  IInv'
<1> USE DEF IInv
<1> DEFINE R == registered
           sh == st[R].shell
           rn == st[R].run
<1>1. /\ stop[k].phase = "new" /\ R # 0 /\ st[R].tag = "ShellThenRun"
      /\ UNCHANGED <<registered, made, call, status>>
  BY DEF CancelBoth
<1>2. /\ R \in Runners
      /\ st' \in [Runners -> States] /\ st'[R] = Idle
      /\ \A q \in Runners : q # R => st'[q] = st[q]
      /\ stop' \in [Cancels -> StopInfo]
      /\ stop'[k].runner = R /\ stop'[k].phase = "answering"
      /\ stop'[k].shell = sh /\ stop'[k].run = rn
      /\ \A j \in Cancels : j # k => stop'[j] = stop[j]
  BY TakesOut DEF CancelBoth
<1>3. /\ sh \in Calls /\ rn \in Calls
      /\ call[sh].kind = "shell" /\ call[sh].phase = "working" /\ call[sh].runner = R
      /\ call[rn].kind = "run" /\ call[rn].phase = "queued" /\ call[rn].runner = R
  <2>1. sh \in Calls /\ rn \in Calls
    BY <1>1, <1>2, Forms
  <2>2. QED
    BY <1>1, <1>2, <2>1 DEF Held
<1>4. \A d \in Calls : BeingCancelled(d) => BeingCancelled(d)'
  BY <1>1, <1>2 DEF BeingCancelled
<1>5. \A d \in Calls : d = sh \/ d = rn => BeingCancelled(d)'
  BY <1>2 DEF BeingCancelled
<1>6. TypeOK'
  BY <1>1, <1>2, Types, TypesNext DEF StopInfo
<1>7. Fresh' /\ Placed' /\ Joined'
  BY <1>1, <1>2 DEF Fresh, Placed, Joined
<1>8. Held'
  <2>1. SUFFICES ASSUME NEW q \in Runners, NEW d \in Calls, st'[q].shell = d \/ st'[q].run = d
                 PROVE  st'[q] = st[q]
    BY <1>1 DEF Held
  <2>2. QED
    BY <1>2, <2>1, Fields, RunnerAssumption
<1>9. TakenOut'
  <2>1. SUFFICES ASSUME NEW j \in Cancels, stop'[j].phase = "answering"
        PROVE  /\ stop'[j].shell \in Calls /\ stop'[j].run \in Calls
               /\ call[stop'[j].shell].kind = "shell"
               /\ call[stop'[j].shell].phase \notin {"new", "queued"}
               /\ call[stop'[j].run].kind = "run" /\ call[stop'[j].run].phase # "new"
               /\ \A q \in Runners : st'[q].shell # stop'[j].shell /\ st'[q].run # stop'[j].run
    BY <1>1 DEF TakenOut
  <2>2. CASE j = k
    <3>1. \A q \in Runners : q # R => st[q].shell # sh /\ st[q].run # rn
      BY <1>2, <1>3 DEF Held
    <3>2. \A q \in Runners : st'[q].shell # sh /\ st'[q].run # rn
      BY <1>2, <1>3, <3>1, Fields, RunnerAssumption
    <3>3. QED
      BY <1>2, <1>3, <2>2, <3>2
  <2>3. CASE j # k
    BY <1>2, <2>1, <2>3, Fields, RunnerAssumption DEF TakenOut
  <2>4. QED
    BY <2>2, <2>3
<1>10. Queued' /\ KnownToRunner'
  <2>1. ASSUME NEW d \in Calls, call[d].phase = "queued"
        PROVE  \/ st'[call[d].runner].tag = "ShellThenRun" /\ st'[call[d].runner].run = d
               \/ BeingCancelled(d)'
    <3>1. \/ st[call[d].runner].tag = "ShellThenRun" /\ st[call[d].runner].run = d
          \/ BeingCancelled(d)
      BY <2>1 DEF Queued
    <3>2. call[d].runner \in Runners
      BY <2>1 DEF Placed
    <3>3. st[R].run = d => BeingCancelled(d)'
      BY <1>5
    <3>4. QED
      BY <1>2, <1>4, <3>1, <3>2, <3>3
  <2>2. ASSUME NEW d \in Calls, call[d].phase = "working"
        PROVE  \/ d \in {st'[call[d].runner].shell, st'[call[d].runner].run}
               \/ BeingCancelled(d)'
    <3>1. d \in {st[call[d].runner].shell, st[call[d].runner].run} \/ BeingCancelled(d)
      BY <2>2 DEF KnownToRunner
    <3>2. call[d].runner \in Runners
      BY <2>2 DEF Placed
    <3>3. st[R].shell = d \/ st[R].run = d => BeingCancelled(d)'
      BY <1>5
    <3>4. QED
      BY <1>2, <1>4, <3>1, <3>2, <3>3
  <2>3. QED
    BY <1>1, <2>1, <2>2 DEF Queued, KnownToRunner
<1>11. BusyRegistered' /\ IdleLeaves'
  BY <1>1, <1>2 DEF BusyRegistered, IdleLeaves
<1>12. QED
  BY <1>6, <1>7, <1>8, <1>9, <1>10, <1>11

\* The callers of a queued run are answered, and the shell is interrupted.
LEMMA AnswerQueuedKeeps ==
  ASSUME IInv, NEW k \in Cancels, AnswerQueued(k)
  PROVE  IInv'
<1> USE DEF IInv
<1> DEFINE run == stop[k].run
           shell == stop[k].shell
           cs == {run} \cup WaitersFor(run)
           w == WithPhase(cs, "interrupted")
<1>1. /\ stop[k].phase = "answering" /\ stop' = [stop EXCEPT ![k].phase = "waiting"]
      /\ UNCHANGED <<registered, made, st, status>>
      /\ call' = IF shell \in Live THEN [w EXCEPT ![shell].phase = "stopping"] ELSE w
  BY DEF AnswerQueued
<1>2. /\ run \in Calls /\ shell \in Calls /\ call[run].kind = "run" /\ call[shell].kind = "shell"
      /\ call[shell].phase \notin {"new", "queued"} /\ call[run].phase # "new"
      /\ \A r \in Runners : st[r].shell # shell /\ st[r].run # run
  BY <1>1 DEF TakenOut
<1>3. \A d \in cs : d = run \/ (d \in Calls /\ call[d].phase = "joined")
  BY DEF WaitersFor
<1>4. run \in cs /\ \A d \in Calls : call[d].phase = "joined" /\ call[d].joins = run => d \in cs
  BY DEF WaitersFor
<1>5. /\ w \in [Calls -> CallInfo]
      /\ \A d \in Calls :
           /\ w[d].kind = call[d].kind /\ w[d].runner = call[d].runner
           /\ w[d].joins = call[d].joins
           /\ w[d].phase = IF d \in cs THEN "interrupted" ELSE call[d].phase
  <2>1. "interrupted" \in Phases
    BY DEF Phases
  <2>2. QED
    BY <2>1, PhaseFields
<1>6. shell \in Live <=> call[shell].phase \in {"working", "stopping"}
  BY <1>2 DEF Live
<1> HIDE DEF w, cs, run, shell
<1>7. shell \in Live => shell \notin cs
  BY <1>2, <1>3, <1>6
<1>8. /\ call' \in [Calls -> CallInfo]
      /\ \A d \in Calls :
           /\ call'[d].kind = call[d].kind /\ call'[d].runner = call[d].runner
           /\ call'[d].joins = call[d].joins
           /\ call'[d].phase = IF d \in cs THEN "interrupted"
                               ELSE IF d = shell /\ shell \in Live THEN "stopping"
                               ELSE call[d].phase
  <2>1. CASE shell \in Live
    <3> DEFINE x == [w[shell] EXCEPT !.phase = "stopping"]
    <3>1. w[shell] \in CallInfo /\ "stopping" \in Phases
      BY <1>2, <1>5 DEF Phases
    <3>2. /\ x \in CallInfo /\ x.kind = w[shell].kind /\ x.runner = w[shell].runner
          /\ x.joins = w[shell].joins /\ x.phase = "stopping"
      BY <3>1 DEF CallInfo
    <3>3. call' = [w EXCEPT ![shell] = x]
      BY <1>1, <2>1
    <3> HIDE DEF x
    <3>4. /\ call' \in [Calls -> CallInfo]
          /\ \A d \in Calls : call'[d] = IF d = shell THEN x ELSE w[d]
      BY <1>2, <1>5, <3>2, <3>3
    <3>5. QED
      BY <1>2, <1>5, <1>7, <2>1, <3>2, <3>4
  <2>2. CASE shell \notin Live
    BY <1>1, <1>5, <2>2
  <2>3. QED
    BY <2>1, <2>2
<1>9. /\ stop' \in [Cancels -> StopInfo]
      /\ \A j \in Cancels :
           /\ stop'[j].runner = stop[j].runner /\ stop'[j].shell = stop[j].shell
           /\ stop'[j].run = stop[j].run
           /\ stop'[j].phase = IF j = k THEN "waiting" ELSE stop[j].phase
  BY <1>1, StopFields
<1>10. \A d \in Calls : BeingCancelled(d) /\ d # run /\ d # shell => BeingCancelled(d)'
  <2>1. SUFFICES ASSUME NEW d \in Calls, BeingCancelled(d), d # run, d # shell
                 PROVE  BeingCancelled(d)'
    OBVIOUS
  <2>2. PICK j \in Cancels : stop[j].phase = "answering" /\ d \in {stop[j].shell, stop[j].run}
    BY <2>1 DEF BeingCancelled
  <2>3. j # k
    BY <2>1, <2>2 DEF run, shell
  <2>4. QED
    BY <1>9, <2>2, <2>3 DEF BeingCancelled
<1>11. TypeOK'
  BY <1>1, <1>8, <1>9, Types, TypesNext DEF StopInfo
<1>12. Fresh' /\ Placed'
  <2>1. \A d \in cs : call[d].phase # "new"
    BY <1>2, <1>3
  <2>2. shell \in Live => call[shell].phase # "new"
    BY <1>2
  <2>3. Placed'
    BY <1>8, <2>1, <2>2 DEF Placed
  <2>4. QED
    BY <1>1, <2>3 DEF Fresh
<1>13. Held'
  <2>1. SUFFICES ASSUME NEW q \in Runners, NEW d \in Calls, st[q].shell = d \/ st[q].run = d
                 PROVE  call'[d].phase = call[d].phase
    BY <1>1, <1>8 DEF Held
  <2>2. call[d].phase \in {"working", "queued"}
    BY <2>1 DEF Held
  <2>3. d # run
    BY <1>2, <2>1 DEF Held
  <2>4. d # shell
    BY <1>2, <2>1 DEF Held
  <2>5. QED
    BY <1>3, <1>8, <2>2, <2>3, <2>4
<1>14. TakenOut'
  <2>1. SUFFICES ASSUME NEW j \in Cancels, stop[j].phase = "answering"
        PROVE  /\ stop[j].shell \in Calls /\ stop[j].run \in Calls
               /\ call'[stop[j].shell].kind = "shell"
               /\ call'[stop[j].shell].phase \notin {"new", "queued"}
               /\ call'[stop[j].run].kind = "run" /\ call'[stop[j].run].phase # "new"
               /\ \A r \in Runners : st[r].shell # stop[j].shell /\ st[r].run # stop[j].run
    BY <1>1, <1>9 DEF TakenOut
  <2>2. QED
    BY <1>8, <2>1 DEF TakenOut
<1>15. Joined'
  <2>1. SUFFICES ASSUME NEW d \in Calls, call'[d].phase = "joined"
        PROVE  /\ call[d].joins \in Calls /\ call[call[d].joins].kind = "run"
               /\ call'[call[d].joins].phase \in {"working", "stopping", "queued"}
    BY <1>8 DEF Joined
  <2>2. call[d].phase = "joined" /\ d \notin cs
    BY <1>8, <2>1
  <2>3. /\ call[d].joins \in Calls /\ call[call[d].joins].kind = "run"
        /\ call[call[d].joins].phase \in {"working", "stopping", "queued"}
    BY <2>2 DEF Joined
  <2>4. call[d].joins # run
    BY <1>4, <2>2
  <2>5. call[d].joins \notin cs
    BY <1>3, <2>3, <2>4
  <2>6. QED
    BY <1>8, <2>3, <2>5
<1>16. Queued'
  <2>1. SUFFICES ASSUME NEW d \in Calls, call'[d].phase = "queued"
        PROVE  \/ st[call[d].runner].tag = "ShellThenRun" /\ st[call[d].runner].run = d
               \/ BeingCancelled(d)'
    BY <1>1, <1>8 DEF Queued
  <2>2. call[d].phase = "queued" /\ d \notin cs
    BY <1>8, <2>1
  <2>3. d # run /\ d # shell
    BY <1>2, <1>4, <2>2
  <2>4. QED
    BY <1>10, <2>2, <2>3 DEF Queued
<1>17. KnownToRunner'
  <2>1. SUFFICES ASSUME NEW d \in Calls, call'[d].phase = "working"
        PROVE  d \in {st[call[d].runner].shell, st[call[d].runner].run} \/ BeingCancelled(d)'
    BY <1>1, <1>8 DEF KnownToRunner
  <2>2. call[d].phase = "working" /\ d \notin cs
    BY <1>8, <2>1
  <2>3. d # run /\ d # shell
    BY <1>4, <1>6, <1>8, <2>1, <2>2
  <2>4. QED
    BY <1>10, <2>2, <2>3 DEF KnownToRunner
<1>18. BusyRegistered' /\ IdleLeaves'
  BY <1>1, <1>9 DEF BusyRegistered, IdleLeaves
<1>19. QED
  BY <1>11, <1>12, <1>13, <1>14, <1>15, <1>16, <1>17, <1>18

-----------------------------------------------------------------------------
LEMMA Initially == Init => IInv
<1> SUFFICES ASSUME Init PROVE IInv
  OBVIOUS
<1>1. /\ registered = 0 /\ made = 0 /\ status = "idle"
      /\ \A r \in Runners : st[r] = Idle
      /\ \A c \in Calls : call[c].phase = "new"
      /\ \A k \in Cancels : stop[k].phase = "new"
  BY DEF Init
<1>2. TypeOK
  <2>1. registered \in 0..made /\ made \in 0..MaxRunners /\ 0 \in 0..MaxRunners
    BY <1>1, RunnerAssumption
  <2>2. st \in [Runners -> States]
    BY Different DEF Init
  <2>3. call \in [Calls -> CallInfo]
    BY <2>1 DEF Init, CallInfo, Kinds, Phases
  <2>4. stop \in [Cancels -> StopInfo]
    BY <2>1 DEF Init, StopInfo
  <2>5. QED
    BY <1>1, <2>1, <2>2, <2>3, <2>4, Types DEF StopInfo
<1>3. Held
  BY <1>1, Fields, RunnerAssumption DEF Held
<1>4. /\ Fresh /\ Placed /\ TakenOut /\ Joined /\ Queued /\ KnownToRunner
      /\ BusyRegistered /\ IdleLeaves
  BY <1>1 DEF Fresh, Placed, TakenOut, Joined, Queued, KnownToRunner, BusyRegistered, IdleLeaves
<1>5. QED
  BY <1>2, <1>3, <1>4 DEF IInv

LEMMA Inductive == IInv /\ [Next]_vars => IInv'
<1> SUFFICES ASSUME IInv, [Next]_vars PROVE IInv'
  OBVIOUS
<1>1. ASSUME NEW c \in Calls, EnsureRunning(c) PROVE IInv'
  <2>1. /\ call[c].phase = "new" /\ Register /\ UNCHANGED <<stop, status>>
    BY <1>1 DEF EnsureRunning
  <2>2. CASE /\ st[TheRunner].tag \in {"Running", "ShellThenRun"}
             /\ Entered(c, "run", st[TheRunner].run, "joined")
             /\ UNCHANGED st
    BY <2>1, <2>2, EnteringBeside
  <2>3. CASE \/ /\ st[TheRunner].tag = "Shell"
                /\ Entered(c, "run", NoCall, "queued")
                /\ st' = [st EXCEPT ![TheRunner] = ShellThenRun(st[TheRunner].shell, c)]
             \/ /\ st[TheRunner].tag = "Idle"
                /\ Entered(c, "run", NoCall, "working")
                /\ st' = [st EXCEPT ![TheRunner] = Running(c)]
    BY <2>1, <2>3, EnteringRunner
  <2>4. QED
    BY <1>1, <2>2, <2>3 DEF EnsureRunning
<1>2. ASSUME NEW c \in Calls, StartShell(c) PROVE IInv'
  <2>1. call[c].phase = "new" /\ Register /\ UNCHANGED stop
    BY <1>2 DEF StartShell
  <2>2. CASE /\ st[TheRunner].tag # "Idle"
             /\ Entered(c, "shell", NoCall, "refused")
             /\ UNCHANGED <<st, status>>
    BY <2>1, <2>2, EnteringBeside
  <2>3. CASE /\ st[TheRunner].tag = "Idle"
             /\ Entered(c, "shell", NoCall, "working")
             /\ st' = [st EXCEPT ![TheRunner] = Shell(c)]
             /\ status' = "busy"
    BY <2>1, <2>3, EnteringRunner
  <2>4. QED
    BY <1>2, <2>2, <2>3 DEF StartShell
<1>3. ASSUME UNCHANGED vars PROVE IInv'
  <2>1. TypeOK'
    BY <1>3, Types, TypesNext DEF IInv, vars
  <2>2. /\ Fresh' /\ Placed' /\ Held' /\ TakenOut' /\ Joined' /\ Queued' /\ KnownToRunner'
        /\ BusyRegistered' /\ IdleLeaves'
    BY <1>3 DEF IInv, vars, Fresh, Placed, Held, TakenOut, Joined, Queued, KnownToRunner,
                BeingCancelled, BusyRegistered, IdleLeaves
  <2>3. QED
    BY <2>1, <2>2 DEF IInv
<1>4. QED
  BY <1>1, <1>2, <1>3, FinishRunKeeps, FinishShellKeeps, CancelEnds, CancelFiberKeeps,
     CancelBothKeeps, AnswerQueuedKeeps DEF Next

\* The inductive invariant holds in every behaviour, with fairness or without.
THEOREM Invariance == Spec => []IInv
  BY Initially, Inductive, PTL DEF Spec

\* Every variable keeps its type.
THEOREM TypeCorrect == Spec => []TypeOK
<1>1. IInv => TypeOK
  BY DEF IInv
<1>2. QED
  BY <1>1, Invariance, PTL

\* No fiber that nobody interrupted is out of reach of its runner (Runner.cancel
\* and the finish handlers), for any number of calls, cancels and runners.
THEOREM NoFiberLost == Spec => []KnownToRunner
<1>1. IInv => KnownToRunner
  BY DEF IInv
<1>2. QED
  BY <1>1, Invariance, PTL

\* Nobody waits for a deferred that no code will complete (Runner.ensureRunning,
\* complete and the ShellThenRun branch of cancel).
THEOREM NobodyWaitsInVain == Spec => []WaitersAnswered
<1>1. ASSUME IInv, NEW c \in Calls
      PROVE  /\ call[c].phase = "joined" =>
                  call[call[c].joins].phase \in {"working", "stopping", "queued"}
             /\ call[c].phase = "queued" =>
                  \/ /\ st[call[c].runner].tag = "ShellThenRun" /\ st[call[c].runner].run = c
                     /\ st[call[c].runner].shell \in Live
                  \/ BeingCancelled(c)
  <2>1. call[c].phase = "joined" =>
          call[call[c].joins].phase \in {"working", "stopping", "queued"}
    BY <1>1 DEF IInv, Joined
  <2>2. ASSUME call[c].phase = "queued", ~ BeingCancelled(c)
        PROVE  /\ st[call[c].runner].tag = "ShellThenRun" /\ st[call[c].runner].run = c
               /\ st[call[c].runner].shell \in Live
    <3>1. call[c].runner \in Runners
      BY <1>1, <2>2 DEF IInv, Placed
    <3>2. st[call[c].runner].tag = "ShellThenRun" /\ st[call[c].runner].run = c
      BY <1>1, <2>2 DEF IInv, Queued
    <3>3. st[call[c].runner].shell \in Calls
      BY <1>1, <3>1, <3>2, Forms DEF IInv
    <3>4. QED
      BY <1>1, <3>1, <3>2, <3>3 DEF IInv, Held, Live
  <2>3. QED
    BY <2>1, <2>2
<1>2. IInv => WaitersAnswered
  BY <1>1 DEF WaitersAnswered
<1>3. QED
  BY <1>2, Invariance, PTL

\* When nothing runs, waits or is being cancelled, the session is idle
\* (SessionRunState.runner's onIdle and cancel): a runner that is still
\* registered would have to be idle with a cancel under way, or hold live work.
THEOREM SessionNotLeftBusy == Spec => []NotLeftBusy
<1>1. ASSUME IInv, Live = {}, \A c \in Calls : call[c].phase # "queued",
             \A k \in Cancels : stop[k].phase \notin {"answering", "waiting"}
      PROVE  registered = 0
  <2>1. SUFFICES ASSUME registered # 0 PROVE FALSE
    OBVIOUS
  <2>2. registered \in Runners /\ st[registered] # Idle
    BY <1>1, <2>1, RegisteredRunner DEF IInv, IdleLeaves
  <2>3. PICK c \in Calls : st[registered].shell = c \/ st[registered].run = c
    BY <1>1, <2>2, Forms DEF IInv
  <2>4. call[c].phase \in {"working", "queued"}
    BY <1>1, <2>2, <2>3 DEF IInv, Held
  <2>5. QED
    BY <1>1, <2>4 DEF Live
<1>2. ASSUME IInv PROVE NotLeftBusy
  BY <1>1, <1>2 DEF NotLeftBusy, IInv, BusyRegistered, TypeOK
<1>3. QED
  BY <1>2, Invariance, PTL

=============================================================================
