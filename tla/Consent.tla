------------------------------- MODULE Consent -------------------------------
(***************************************************************************)
(* What the user is asked before a tool acts (permission/index.ts) and     *)
(* while it acts (question/index.ts), for one instance and its sessions.   *)
(* A request is decided by rules, or waits for a reply, its timeout, the   *)
(* interruption of the tool or the end of the instance. One reply may      *)
(* settle other requests of its session. Handlers run to their end without *)
(* giving way, so each one is a single step.                               *)
(***************************************************************************)
EXTENDS Naturals, Sequences

CONSTANTS
  Requests,   \* identities of permission requests and questions
  Sessions,
  Resources,  \* what a request names: files, commands, directories
  Rulesets,   \* the rulesets of agents, sequences of rules
  Asked,      \* the requests that tools make
  Saved,      \* allowed patterns in PermissionTable, loaded by each instance
  UpFront,    \* TRUE: a turn may come with allowedPaths of its own
  MaxReloads  \* bound: how often the instance is disposed and loaded again

Kinds == {"edit", "external_directory"}
AnyPattern == "*"
Patterns == Resources \cup {AnyPattern}

PermissionInfo ==
  [session : Sessions, kind : Kinds, resources : SUBSET Resources \ {{}},
   always : SUBSET Patterns, rules : Rulesets]

ASSUME ConsentAssumption ==
  /\ Asked \subseteq PermissionInfo
  /\ Saved \subseteq Kinds \X Patterns
  /\ UpFront \in BOOLEAN /\ MaxReloads \in Nat
  /\ AnyPattern \notin Resources
  /\ \A rules \in Rulesets : \A i \in 1..Len(rules) :
       rules[i] \in [kind : Kinds \cup {"*"}, pattern : Patterns,
                     action : {"allow", "deny", "ask"}]

VARIABLES
  state,     \* per request: "new", "pending", or how it ended
  info,      \* per request: what it asks for
  approved,  \* (kind, pattern) pairs the user always allows
  paths,     \* allowedPaths of the instance
  reloads,   \* how often the instance was loaded again
  once,      \* history: requests the user allowed themselves
  granted,   \* history: pairs the user ever allowed always
  struck,    \* history: requests pending when another of their session was rejected
  given      \* history: directories that came with a turn

vars == <<state, info, approved, paths, reloads, once, granted, struck, given>>

Question == [kind |-> "question"]

Nothing == [kind |-> "none"]

Init ==
  /\ state = [r \in Requests |-> "new"]
  /\ info = [r \in Requests |-> Nothing]
  /\ approved = Saved /\ paths = {} /\ reloads = 0
  /\ once = {} /\ granted = {} /\ struck = {} /\ given = {}

-----------------------------------------------------------------------------
(* evaluate: the last rule that matches decides, an unmatched resource is  *)
(* asked for. Approvals stand behind the ruleset, and all of them allow.   *)

Matches(res, pattern) == pattern \in {res, AnyPattern}

Allowed(kind, res, allows) == \E p \in Patterns : <<kind, p>> \in allows /\ Matches(res, p)

Hits(kind, res, rules) ==
  {i \in 1..Len(rules) : rules[i].kind \in {kind, "*"} /\ Matches(res, rules[i].pattern)}

RuleAction(kind, res, rules) ==
  IF Hits(kind, res, rules) = {}
    THEN "ask"
    ELSE rules[CHOOSE i \in Hits(kind, res, rules) :
                 \A j \in Hits(kind, res, rules) : j <= i].action

Evaluate(kind, res, rules, allows) ==
  IF Allowed(kind, res, allows) THEN "allow" ELSE RuleAction(kind, res, rules)

-----------------------------------------------------------------------------
Pending == {r \in Requests : state[r] = "pending"}
SameSession(r) == {q \in Pending \ {r} : info[q].kind # "question"
                                          /\ info[q].session = info[r].session}

\* Permission.ask.
Ask(r, i) ==
  LET actions == {Evaluate(i.kind, res, i.rules, approved) : res \in i.resources}
  IN  /\ state[r] = "new"
      /\ info' = [info EXCEPT ![r] = i]
      /\ state' = [state EXCEPT ![r] =
                     IF "deny" \in actions THEN "denied"
                     ELSE IF actions \subseteq {"allow"} THEN "allowed" ELSE "pending"]
      /\ UNCHANGED <<approved, paths, reloads, once, granted, struck, given>>

ReplyOnce(r) ==
  /\ r \in Pending /\ info[r].kind # "question"
  /\ state' = [state EXCEPT ![r] = "allowed"]
  /\ once' = once \cup {r}
  /\ UNCHANGED <<info, approved, paths, reloads, granted, struck, given>>

ReplyReject_Alone(r) ==
  /\ r \in Pending /\ info[r].kind # "question"
  /\ state' = [state EXCEPT ![r] = "rejected"]
  /\ struck' = struck \cup SameSession(r)
  /\ UNCHANGED <<info, approved, paths, reloads, once, granted, given>>

\* Rejected, with feedback or without: everything the session waits for goes
\* with it.
ReplyReject(r) ==
  /\ r \in Pending /\ info[r].kind # "question"
  /\ state' = [q \in Requests |->
                 IF q = r \/ q \in SameSession(r) THEN "rejected" ELSE state[q]]
  /\ struck' = struck \cup SameSession(r)
  /\ UNCHANGED <<info, approved, paths, reloads, once, granted, given>>

Settled_OneResource(r, allows) ==
  {q \in SameSession(r) : \E res \in info[q].resources : Allowed(info[q].kind, res, allows)}

\* What the session waits for is looked at again with the new approvals.
Settled(r, allows) ==
  {q \in SameSession(r) : \A res \in info[q].resources : Allowed(info[q].kind, res, allows)}

DirectoriesOf_Wildcards(r) ==
  IF info[r].kind = "external_directory" THEN info[r].always ELSE {}

\* directoryOfPattern: a pattern that is all wildcard names no directory.
DirectoriesOf(r) ==
  IF info[r].kind = "external_directory" THEN info[r].always \ {AnyPattern} ELSE {}

\* The request's own patterns are approved and its directories are mirrored into
\* the instance's allowedPaths.
ReplyAlways(r) ==
  LET new == {info[r].kind} \X info[r].always IN
  /\ r \in Pending /\ info[r].kind # "question"
  /\ approved' = approved \cup new
  /\ paths' = paths \cup DirectoriesOf(r)
  /\ state' = [q \in Requests |->
                 IF q = r \/ q \in Settled(r, approved \cup new) THEN "allowed" ELSE state[q]]
  /\ once' = once \cup {r}
  /\ granted' = granted \cup new
  /\ UNCHANGED <<info, reloads, struck, given>>

Timeout_EditsOnly(r) ==
  /\ r \in Pending /\ info[r].kind = "edit"
  /\ state' = [state EXCEPT ![r] = "rejected"]
  /\ UNCHANGED <<info, approved, paths, reloads, once, granted, struck, given>>

\* PLAN_CONFIRM_TIMEOUT and PERMISSION_ASK_TIMEOUT. Questions have none.
Timeout(r) ==
  /\ r \in Pending /\ info[r].kind # "question"
  /\ state' = [state EXCEPT ![r] = "rejected"]
  /\ UNCHANGED <<info, approved, paths, reloads, once, granted, struck, given>>

\* Question.ask, reply and reject.
AskQuestion(r) ==
  /\ state[r] = "new"
  /\ info' = [info EXCEPT ![r] = Question]
  /\ state' = [state EXCEPT ![r] = "pending"]
  /\ UNCHANGED <<approved, paths, reloads, once, granted, struck, given>>

EndQuestion(r) ==
  /\ r \in Pending /\ info[r].kind = "question"
  /\ \E end \in {"answered", "rejected"} : state' = [state EXCEPT ![r] = end]
  /\ UNCHANGED <<info, approved, paths, reloads, once, granted, struck, given>>

\* The tool that asks is interrupted: by the user, or after its five minutes.
Interrupt(r) ==
  /\ r \in Pending
  /\ state' = [state EXCEPT ![r] = "interrupted"]
  /\ UNCHANGED <<info, approved, paths, reloads, once, granted, struck, given>>

\* The finalizers reject what is pending; the next instance starts from the
\* table, which nobody writes.
Reload ==
  /\ reloads < MaxReloads
  /\ reloads' = reloads + 1
  /\ state' = [r \in Requests |-> IF r \in Pending THEN "rejected" ELSE state[r]]
  /\ approved' = Saved /\ paths' = {}
  /\ UNCHANGED <<info, once, granted, struck, given>>

\* Instance.containsPath: a tool enters an allowed directory without asking.
Enter(r, i) ==
  /\ state[r] = "new"
  /\ i.kind = "external_directory" /\ i.resources \subseteq paths
  /\ info' = [info EXCEPT ![r] = i]
  /\ state' = [state EXCEPT ![r] = "allowed"]
  /\ UNCHANGED <<approved, paths, reloads, once, granted, struck, given>>

\* runAgentTurn: the allowedPaths of the request are registered first.
StartTurn(d) ==
  /\ UpFront
  /\ paths' = paths \cup {d}
  /\ given' = given \cup {d}
  /\ UNCHANGED <<state, info, approved, reloads, once, granted, struck>>

-----------------------------------------------------------------------------
Next ==
  \/ \E r \in Requests :
       \/ \E i \in Asked : Ask(r, i) \/ Enter(r, i)
       \/ ReplyOnce(r) \/ ReplyReject(r) \/ ReplyAlways(r) \/ Timeout(r)
       \/ AskQuestion(r) \/ EndQuestion(r) \/ Interrupt(r)
  \/ Reload
  \/ \E d \in Resources : StartTurn(d)

\* Timeouts of permissions are timers; a question ends with the tool's own limit.
Fairness ==
  \A r \in Requests :
    /\ WF_vars(Timeout(r))
    /\ WF_vars(info[r].kind = "question" /\ Interrupt(r))

Spec == Init /\ [][Next]_vars /\ Fairness

-----------------------------------------------------------------------------
(* Well-typed states. *)
TypeOK ==
  /\ state \in [Requests -> {"new", "pending", "allowed", "denied", "rejected",
                             "answered", "interrupted"}]
  /\ info \in [Requests -> PermissionInfo \cup {Question, Nothing}]
  /\ \A r \in Requests : state[r] = "new" <=> info[r] = Nothing
  /\ approved \subseteq Kinds \X Patterns /\ granted \subseteq Kinds \X Patterns
  /\ paths \subseteq Resources /\ reloads \in 0..MaxReloads
  /\ once \subseteq Requests /\ struck \subseteq Requests
  /\ given \subseteq Resources

(* No tool goes ahead without consent: each resource of a request that was
   allowed is allowed by the agent's rules, by a stored approval, by a pattern
   the user allowed always for the same kind of request, is a directory that came
   with a turn, or the user allowed the request itself. The replies that settle other requests, and the directories
   that are mirrored, stay within that. *)
Consented ==
  \A r \in Requests :
    state[r] = "allowed" =>
      \/ r \in once
      \/ \A res \in info[r].resources :
           \/ Allowed(info[r].kind, res, granted \cup Saved)
           \/ RuleAction(info[r].kind, res, info[r].rules) = "allow"
           \/ info[r].kind = "external_directory" /\ res \in given

(* What waits in a session when the user rejects one of its requests never goes
   ahead, whatever is approved afterwards. *)
RejectionCovers == \A r \in struck : state[r] # "allowed"

(* Every request ends, whether or not anybody replies. *)
RequestsEnd == \A r \in Requests : state[r] = "pending" ~> state[r] # "pending"

(* allowedPaths holds what the user approved and nothing else: it is written
   when the user answers "always". *)
OnlyApprovedPaths == \A d \in paths : Allowed("external_directory", d, approved)

=============================================================================
