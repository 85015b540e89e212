---------------------------- MODULE SessionRunner ----------------------------
(***************************************************************************)
(* Who may work in a session: the state machine of effect/runner.ts and    *)
(* the map from sessions to runners of session/run-state.ts, for one       *)
(* session. A runner holds one run, one shell, or a shell with a run that  *)
(* waits for it. Callers of a run that is there already wait for its       *)
(* result. A cancel frees the runner at once and then waits until what it  *)
(* interrupted is gone, so replacement work may start in between. The      *)
(* state changes under the lock of a SynchronizedRef and the callbacks     *)
(* onIdle and onBusy do not give way: each handler is one step up to the   *)
(* point where it waits for a fiber.                                       *)
(***************************************************************************)
EXTENDS Naturals, FiniteSets

CONSTANTS
  Calls,      \* calls of ensureRunning and startShell
  Cancels,    \* calls of cancel
  NoCall,
  MaxRunners  \* bound: runners made for the session

ASSUME RunnerAssumption ==
  /\ NoCall \notin Calls /\ MaxRunners \in Nat \ {0}

VARIABLES
  registered,  \* the session's entry in `runners`, 0 when there is none
  made,        \* how many runners were made
  st,          \* per runner: State
  call,        \* per call: its kind, its runner, the run it waits for, its phase
  stop,        \* per cancel: what it waits for, and its phase
  status       \* SessionStatus as runners set it

vars == <<registered, made, st, call, stop, status>>

Runners == 1..MaxRunners
Idle == [tag |-> "Idle", shell |-> NoCall, run |-> NoCall]
Running(c) == [tag |-> "Running", shell |-> NoCall, run |-> c]
Shell(c) == [tag |-> "Shell", shell |-> c, run |-> NoCall]
ShellThenRun(c, d) == [tag |-> "ShellThenRun", shell |-> c, run |-> d]

Init ==
  /\ registered = 0 /\ made = 0
  /\ st = [r \in Runners |-> Idle]
  /\ call = [c \in Calls |-> [kind |-> "none", runner |-> 0, joins |-> NoCall, phase |-> "new"]]
  /\ stop = [k \in Cancels |-> [runner |-> 0, shell |-> NoCall, run |-> NoCall, phase |-> "new"]]
  /\ status = "idle"

Live == {c \in Calls : call[c].phase \in {"working", "stopping"}}
WaitersFor(c) == {d \in Calls : call[d].phase = "joined" /\ call[d].joins = c}

\* Phases of a set of calls.
WithPhase(cs, phase) ==
  [c \in Calls |-> IF c \in cs THEN [call[c] EXCEPT !.phase = phase] ELSE call[c]]

-----------------------------------------------------------------------------
(* Calls. *)

\* SessionRunState.runner: the session's runner, made when there is none.
TheRunner == IF registered = 0 THEN made + 1 ELSE registered

Register ==
  /\ TheRunner \in Runners
  /\ registered' = TheRunner
  /\ made' = IF registered = 0 THEN made + 1 ELSE made

Entered(c, kind, joins, phase) ==
  call' = [call EXCEPT ![c] =
             [kind |-> kind, runner |-> TheRunner, joins |-> joins, phase |-> phase]]

EnsureRunning(c) ==
  LET s == st[TheRunner] IN
  /\ call[c].phase = "new" /\ Register
  /\ \/ /\ s.tag \in {"Running", "ShellThenRun"}
        /\ Entered(c, "run", s.run, "joined")
        /\ UNCHANGED st
     \/ /\ s.tag = "Shell"
        /\ Entered(c, "run", NoCall, "queued")
        /\ st' = [st EXCEPT ![TheRunner] = ShellThenRun(s.shell, c)]
     \/ /\ s.tag = "Idle"
        /\ Entered(c, "run", NoCall, "working")
        /\ st' = [st EXCEPT ![TheRunner] = Running(c)]
  /\ UNCHANGED <<stop, status>>

StartShell(c) ==
  /\ call[c].phase = "new" /\ Register
  /\ \/ /\ st[TheRunner].tag # "Idle"
        /\ Entered(c, "shell", NoCall, "refused")
        /\ UNCHANGED <<st, status>>
     \/ /\ st[TheRunner].tag = "Idle"
        /\ Entered(c, "shell", NoCall, "working")
        /\ st' = [st EXCEPT ![TheRunner] = Shell(c)]
        /\ status' = "busy"
  /\ UNCHANGED stop

-----------------------------------------------------------------------------
(* A fiber ends: its work is done, or its interruption is. *)

\* onIdle: whichever runner is registered for the session is taken out.
OnIdle == registered' = 0 /\ status' = "idle"

EndOf(c) == IF call[c].phase = "stopping" THEN "interrupted" ELSE "done"

FinishRun_AnyRun(c) ==
  LET r == call[c].runner IN
  /\ c \in Live /\ call[c].kind = "run"
  /\ call' = WithPhase({c} \cup WaitersFor(c), EndOf(c))
  /\ \/ st[r].tag = "Running" /\ st' = [st EXCEPT ![r] = Idle] /\ OnIdle
     \/ st[r].tag # "Running" /\ UNCHANGED <<st, registered, status>>
  /\ UNCHANGED <<made, stop>>

FinishRun(c) ==
  LET r == call[c].runner IN
  /\ c \in Live /\ call[c].kind = "run"
  /\ call' = WithPhase({c} \cup WaitersFor(c), EndOf(c))
  /\ \/ st[r] = Running(c) /\ st' = [st EXCEPT ![r] = Idle] /\ OnIdle
     \/ st[r] # Running(c) /\ UNCHANGED <<st, registered, status>>
  /\ UNCHANGED <<made, stop>>

FinishShell_AlwaysRuns(c) ==
  LET r == call[c].runner IN
  /\ c \in Live /\ call[c].kind = "shell"
  /\ call' = WithPhase({c}, EndOf(c))
  /\ \/ st[r].shell = c /\ st' = [st EXCEPT ![r] = Running(st[r].run)]
     \/ st[r].shell # c /\ UNCHANGED st
  /\ UNCHANGED <<registered, made, stop, status>>

FinishShell(c) ==
  LET r == call[c].runner IN
  /\ c \in Live /\ call[c].kind = "shell"
  /\ \/ /\ st[r] = Shell(c)
        /\ st' = [st EXCEPT ![r] = Idle]
        /\ call' = WithPhase({c}, EndOf(c)) /\ OnIdle
     \/ /\ st[r].tag = "ShellThenRun" /\ st[r].shell = c
        /\ st' = [st EXCEPT ![r] = Running(st[r].run)]
        /\ call' = [WithPhase({c}, EndOf(c)) EXCEPT ![st[r].run].phase = "working"]
        /\ UNCHANGED <<registered, status>>
     \/ /\ st[r].shell # c
        /\ call' = WithPhase({c}, EndOf(c))
        /\ UNCHANGED <<st, registered, status>>
  /\ UNCHANGED <<made, stop>>

-----------------------------------------------------------------------------
(* SessionRunState.cancel and Runner.cancel. *)

Stopping(k, r, phase) ==
  stop' = [stop EXCEPT ![k] =
             [runner |-> r, shell |-> st[r].shell, run |-> st[r].run, phase |-> phase]]

\* Nothing is there to cancel.
CancelNothing(k) ==
  /\ stop[k].phase = "new"
  /\ registered # 0 => st[registered] = Idle
  /\ stop' = [stop EXCEPT ![k].phase = "done"]
  /\ status' = "idle"
  /\ UNCHANGED <<registered, made, st, call>>

\* The runner is free, its fiber is interrupted and waited for.
CancelFiber(k) ==
  /\ stop[k].phase = "new" /\ registered # 0
  /\ st[registered].tag \in {"Running", "Shell"}
  /\ st' = [st EXCEPT ![registered] = Idle]
  /\ Stopping(k, registered, "waiting")
  /\ call' = WithPhase({st[registered].shell, st[registered].run} \ {NoCall}, "stopping")
  /\ UNCHANGED <<registered, made, status>>

CancelBoth_RunForgotten(k) ==
  /\ stop[k].phase = "new" /\ registered # 0
  /\ st[registered].tag = "ShellThenRun"
  /\ st' = [st EXCEPT ![registered] = Idle]
  /\ Stopping(k, registered, "waiting")
  /\ call' = WithPhase({st[registered].shell}, "stopping")
  /\ UNCHANGED <<registered, made, status>>

\* A shell with a run behind it: the run's callers get the result of onInterrupt,
\* which takes its time, before the shell is interrupted.
CancelBoth(k) ==
  /\ stop[k].phase = "new" /\ registered # 0
  /\ st[registered].tag = "ShellThenRun"
  /\ st' = [st EXCEPT ![registered] = Idle]
  /\ Stopping(k, registered, "answering")
  /\ UNCHANGED <<registered, made, call, status>>

AnswerQueued_NoInterrupt(k) ==
  /\ stop[k].phase = "answering"
  /\ call' = WithPhase({stop[k].run} \cup WaitersFor(stop[k].run), "interrupted")
  /\ stop' = [stop EXCEPT ![k].phase = "waiting"]
  /\ UNCHANGED <<registered, made, st, status>>

AnswerQueued(k) ==
  LET run == stop[k].run
      shell == stop[k].shell
      answered == WithPhase({run} \cup WaitersFor(run), "interrupted")
  IN  /\ stop[k].phase = "answering"
      /\ call' = IF shell \in Live
                   THEN [answered EXCEPT ![shell].phase = "stopping"]
                   ELSE answered
      /\ stop' = [stop EXCEPT ![k].phase = "waiting"]
      /\ UNCHANGED <<registered, made, st, status>>

CancelReturns_NoIdle(k) ==
  /\ stop[k].phase = "waiting" /\ {stop[k].shell, stop[k].run} \cap Live = {}
  /\ stop' = [stop EXCEPT ![k].phase = "done"]
  /\ UNCHANGED <<registered, made, st, call, status>>

\* idleIfCurrent, once what was interrupted is gone.
CancelReturns(k) ==
  /\ stop[k].phase = "waiting" /\ {stop[k].shell, stop[k].run} \cap Live = {}
  /\ stop' = [stop EXCEPT ![k].phase = "done"]
  /\ \/ st[stop[k].runner] = Idle /\ OnIdle
     \/ st[stop[k].runner] # Idle /\ UNCHANGED <<registered, status>>
  /\ UNCHANGED <<made, st, call>>

-----------------------------------------------------------------------------
Next ==
  \/ \E c \in Calls : EnsureRunning(c) \/ StartShell(c) \/ FinishRun(c) \/ FinishShell(c)
  \/ \E k \in Cancels :
       CancelNothing(k) \/ CancelFiber(k) \/ CancelBoth(k) \/ AnswerQueued(k) \/ CancelReturns(k)

\* Interrupted fibers go (a command is killed after three seconds) and the steps
\* of a cancel go on. Nothing makes uninterrupted work end.
Fairness ==
  /\ \A c \in Calls :
       WF_vars(call[c].phase = "stopping" /\ (FinishRun(c) \/ FinishShell(c)))
  /\ \A k \in Cancels : WF_vars(AnswerQueued(k) \/ CancelReturns(k))

Spec == Init /\ [][Next]_vars /\ Fairness

-----------------------------------------------------------------------------
(* Well-typed states. *)
TypeOK ==
  /\ registered \in 0..made /\ made \in 0..MaxRunners
  /\ st \in [Runners -> {Idle}
                        \cup {Running(c) : c \in Calls} \cup {Shell(c) : c \in Calls}
                        \cup {ShellThenRun(c, d) : c \in Calls, d \in Calls}]
  /\ call \in [Calls -> [kind : {"none", "run", "shell"}, runner : 0..MaxRunners,
                         joins : Calls \cup {NoCall},
                         phase : {"new", "working", "stopping", "queued", "joined",
                                  "done", "interrupted", "refused"}]]
  /\ stop \in [Cancels -> [runner : 0..MaxRunners, shell : Calls \cup {NoCall},
                           run : Calls \cup {NoCall},
                           phase : {"new", "answering", "waiting", "done"}]]
  /\ status \in {"idle", "busy"}

\* A cancel is about to answer run c, or to interrupt shell c.
BeingCancelled(c) == \E k \in Cancels : stop[k].phase = "answering" /\ c \in {stop[k].shell, stop[k].run}

(* Work that nobody interrupted is known to its runner, or a cancel is on its
   way to it: whatever replaces it, and in whichever order cancels return, no
   fiber goes on unreachable for a later cancel of its runner. *)
KnownToRunner ==
  \A c \in Calls : call[c].phase = "working" =>
    c \in {st[call[c].runner].shell, st[call[c].runner].run} \/ BeingCancelled(c)

(* Nobody waits for a result that will not come: a caller that joined a run
   joined one that is live or queued, and a queued run is behind the shell of
   its runner until it starts or its callers are answered. *)
WaitersAnswered ==
  \A c \in Calls :
    /\ call[c].phase = "joined" => call[call[c].joins].phase \in {"working", "stopping", "queued"}
    /\ call[c].phase = "queued" =>
         \/ /\ st[call[c].runner].tag = "ShellThenRun" /\ st[call[c].runner].run = c
            /\ st[call[c].runner].shell \in Live
         \/ BeingCancelled(c)

(* The session is not left busy: when no work is live or queued and no cancel is
   under way, the status is idle and no busy runner is registered. *)
NotLeftBusy ==
  (/\ Live = {} /\ \A c \in Calls : call[c].phase # "queued"
   /\ \A k \in Cancels : stop[k].phase \notin {"answering", "waiting"})
  => status = "idle" /\ (registered # 0 => st[registered] = Idle)

(* A cancel returns, also when replacement work starts before the interrupted
   work is gone. *)
CancelsReturn == \A k \in Cancels : stop[k].phase # "new" ~> stop[k].phase = "done"

(* A shell is refused while another one runs that nobody cancels. It is not an
   invariant: onIdle takes out whichever runner is registered, so the late return
   of a cancel can unregister the runner of newer work. *)
OneShell ==
  Cardinality({c \in Calls : /\ call[c].kind = "shell" /\ call[c].phase = "working"
                             /\ ~ BeingCancelled(c)}) <= 1

=============================================================================
