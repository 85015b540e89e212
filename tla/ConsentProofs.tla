---------------------------- MODULE ConsentProofs ----------------------------
(***************************************************************************)
(* Consent for every number of requests, sessions, resources and rules: no *)
(* request is allowed without consent, and a rejection covers everything   *)
(* the session was waiting for.                                            *)
(***************************************************************************)
EXTENDS Consent, TLAPS

\* What the approvals in use, and the directories mirrored from them, come from.
ApprovalsGranted == approved \subseteq granted \cup Saved
PathsGranted == \A d \in paths : <<"external_directory", d>> \in granted \/ d \in given

\* A struck request is over, so no later reply can reach it.
StruckOver == \A r \in struck : state[r] \notin {"new", "pending", "allowed"}

\* The inductive invariant.
IInv == TypeOK /\ Consented /\ ApprovalsGranted /\ PathsGranted /\ StruckOver

\* One request's share of Consented, as a function of what it depends on.
Justified(r, i, o, g, t) ==
  \/ r \in o
  \/ \A res \in i.resources :
       \/ Allowed(i.kind, res, g \cup Saved)
       \/ RuleAction(i.kind, res, i.rules) = "allow"
       \/ i.kind = "external_directory" /\ res \in t

-----------------------------------------------------------------------------
\* An approval is never lost by approving more.
LEMMA AllowedGrows ==
  ASSUME NEW k, NEW res, NEW S, NEW T, S \subseteq T, Allowed(k, res, S)
  PROVE  Allowed(k, res, T)
  BY DEF Allowed

\* Consent that was given stays given while the histories grow.
LEMMA JustifiedGrows ==
  ASSUME NEW r, NEW i, NEW o, NEW oo, NEW g, NEW gg, NEW t, NEW tt,
         o \subseteq oo, g \subseteq gg, t \subseteq tt, Justified(r, i, o, g, t)
  PROVE  Justified(r, i, oo, gg, tt)
<1>1. CASE r \in o
  BY <1>1 DEF Justified
<1>2. CASE r \notin o
  <2>1. g \cup Saved \subseteq gg \cup Saved
    OBVIOUS
  <2>2. SUFFICES ASSUME NEW res \in i.resources
                 PROVE  \/ Allowed(i.kind, res, gg \cup Saved)
                        \/ RuleAction(i.kind, res, i.rules) = "allow"
                        \/ i.kind = "external_directory" /\ res \in tt
    BY DEF Justified
  <2>3. \/ Allowed(i.kind, res, g \cup Saved)
        \/ RuleAction(i.kind, res, i.rules) = "allow"
        \/ i.kind = "external_directory" /\ res \in t
    BY <1>2 DEF Justified
  <2>4. QED
    BY <2>1, <2>3, AllowedGrows
<1>3. QED
  BY <1>1, <1>2

\* Consented, request by request.
LEMMA ConsentedByRequest ==
  Consented <=> \A r \in Requests :
                  state[r] = "allowed" => Justified(r, info[r], once, granted, given)
  BY DEF Consented, Justified

\* The same after a step.
LEMMA ConsentedByRequestNext ==
  Consented' <=> \A r \in Requests :
                   state'[r] = "allowed" => Justified(r, info'[r], once', granted', given')
  BY DEF Consented, Justified

\* A step that allows nothing new, and forgets nothing, keeps Consented.
LEMMA NothingNewAllowed ==
  ASSUME Consented,
         once \subseteq once', granted \subseteq granted', given \subseteq given',
         \A r \in Requests : state'[r] = "allowed" => state[r] = "allowed" /\ info'[r] = info[r]
  PROVE  Consented'
<1>1. SUFFICES ASSUME NEW r \in Requests, state'[r] = "allowed"
               PROVE  Justified(r, info'[r], once', granted', given')
  BY ConsentedByRequestNext
<1>2. Justified(r, info[r], once, granted, given) /\ info'[r] = info[r]
  BY <1>1, ConsentedByRequest
<1>3. QED
  BY <1>2, JustifiedGrows

\* What evaluate lets through has consent: behind an approval or by a rule.
LEMMA EvaluatedAllow ==
  ASSUME NEW k, NEW res, NEW rules, ApprovalsGranted,
         Evaluate(k, res, rules, approved) = "allow"
  PROVE  Allowed(k, res, granted \cup Saved) \/ RuleAction(k, res, rules) = "allow"
  BY AllowedGrows DEF Evaluate, ApprovalsGranted

-----------------------------------------------------------------------------
\* A question has its own kind, so a permission request that waits is one a
\* tool made.
LEMMA WaitingInfo ==
  ASSUME TypeOK, NEW r \in Pending, info[r].kind # "question"
  PROVE  info[r] \in PermissionInfo
  BY DEF TypeOK, Pending, Question, Nothing

\* The types are kept by every step.
LEMMA TypeStep ==
  ASSUME TypeOK, [Next]_vars
  PROVE  TypeOK'
<1> USE ConsentAssumption
<1>1. CASE UNCHANGED vars
  BY <1>1 DEF vars, TypeOK
<1>2. ASSUME NEW r \in Requests, NEW i \in Asked, Ask(r, i) \/ Enter(r, i)
      PROVE  TypeOK'
  <2>1. i \in PermissionInfo /\ i # Nothing
    BY DEF PermissionInfo, Nothing, Kinds
  <2>2. QED
    BY <1>2, <2>1 DEF TypeOK, Ask, Enter
<1>3. ASSUME NEW r \in Requests,
             ReplyOnce(r) \/ ReplyReject(r) \/ Timeout(r) \/ EndQuestion(r) \/ Interrupt(r)
      PROVE  TypeOK'
  BY <1>3 DEF TypeOK, ReplyOnce, ReplyReject, Timeout, EndQuestion, Interrupt, Pending, SameSession
<1>4. ASSUME NEW r \in Requests, AskQuestion(r)
      PROVE  TypeOK'
  <2>1. Question # Nothing
    BY DEF Question, Nothing
  <2>2. QED
    BY <1>4, <2>1 DEF TypeOK, AskQuestion
<1>5. ASSUME NEW r \in Requests, ReplyAlways(r)
      PROVE  TypeOK'
  <2>1. info[r] \in PermissionInfo
    BY <1>5, WaitingInfo DEF ReplyAlways
  <2>2. info[r].kind \in Kinds /\ info[r].always \subseteq Patterns
    BY <2>1 DEF PermissionInfo
  <2>3. {info[r].kind} \X info[r].always \subseteq Kinds \X Patterns
    BY <2>2
  <2>4. DirectoriesOf(r) \subseteq Resources
    BY <2>2 DEF DirectoriesOf, Patterns
  <2>5. QED
    BY <1>5, <2>3, <2>4 DEF TypeOK, ReplyAlways, Pending, Settled, SameSession
<1>6. CASE Reload
  BY <1>6 DEF TypeOK, Reload, Pending
<1>7. ASSUME NEW d \in Resources, StartTurn(d)
      PROVE  TypeOK'
  BY <1>7 DEF TypeOK, StartTurn
<1>8. QED
  BY <1>1, <1>2, <1>3, <1>4, <1>5, <1>6, <1>7 DEF Next

-----------------------------------------------------------------------------
\* Every step keeps the inductive invariant.
LEMMA Inductive ==
  ASSUME IInv, [Next]_vars
  PROVE  IInv'
<1> USE DEF IInv
<1>0. TypeOK'
  BY TypeStep
<1>1. CASE UNCHANGED vars
  BY <1>0, <1>1, NothingNewAllowed DEF vars, ApprovalsGranted, PathsGranted, StruckOver
<1>2. ASSUME NEW r \in Requests, NEW i \in Asked, Ask(r, i)
      PROVE  IInv'
  <2>1. Consented'
    <3>1. SUFFICES ASSUME NEW q \in Requests, state'[q] = "allowed"
                   PROVE  Justified(q, info'[q], once', granted', given')
      BY ConsentedByRequestNext
    <3>2. CASE q # r
      BY <1>2, <3>1, <3>2, ConsentedByRequest DEF Ask, TypeOK
    <3>3. CASE q = r
      <4>1. info'[r] = i
        BY <1>2 DEF Ask, TypeOK
      <4>2. {Evaluate(i.kind, res, i.rules, approved) : res \in i.resources} \subseteq {"allow"}
        BY <1>2, <3>1, <3>3 DEF Ask, TypeOK
      <4>3. \A res \in i.resources : Evaluate(i.kind, res, i.rules, approved) = "allow"
        BY <4>2
      <4>4. QED
        BY <1>2, <3>3, <4>1, <4>3, EvaluatedAllow DEF Ask, Justified
    <3>4. QED
      BY <3>2, <3>3
  <2>2. StruckOver'
    BY <1>2 DEF StruckOver, Ask, TypeOK
  <2>3. QED
    BY <1>0, <1>2, <2>1, <2>2 DEF Ask, ApprovalsGranted, PathsGranted
<1>3. ASSUME NEW r \in Requests, NEW i \in Asked, Enter(r, i)
      PROVE  IInv'
  <2>1. Consented'
    <3>1. SUFFICES ASSUME NEW q \in Requests, state'[q] = "allowed"
                   PROVE  Justified(q, info'[q], once', granted', given')
      BY ConsentedByRequestNext
    <3>2. CASE q # r
      BY <1>3, <3>1, <3>2, ConsentedByRequest DEF Enter, TypeOK
    <3>3. CASE q = r
      <4>1. info'[r] = i /\ i.kind = "external_directory" /\ UNCHANGED <<granted, given>>
        BY <1>3 DEF Enter, TypeOK
      <4>2. SUFFICES ASSUME NEW res \in i.resources
                     PROVE  \/ Allowed("external_directory", res, granted \cup Saved)
                            \/ res \in given
        BY <3>3, <4>1 DEF Justified
      <4>3. res \in paths /\ res \in Resources
        BY <1>3 DEF Enter, TypeOK
      <4>4. <<"external_directory", res>> \in granted => Allowed("external_directory", res, granted \cup Saved)
        BY <4>3 DEF Allowed, Matches, Patterns
      <4>5. QED
        BY <4>3, <4>4 DEF PathsGranted
    <3>4. QED
      BY <3>2, <3>3
  <2>2. StruckOver'
    BY <1>3 DEF StruckOver, Enter, TypeOK
  <2>3. QED
    BY <1>0, <1>3, <2>1, <2>2 DEF Enter, ApprovalsGranted, PathsGranted
<1>4. ASSUME NEW r \in Requests, ReplyOnce(r)
      PROVE  IInv'
  <2>1. Consented'
    <3>1. SUFFICES ASSUME NEW q \in Requests, state'[q] = "allowed"
                   PROVE  Justified(q, info'[q], once', granted', given')
      BY ConsentedByRequestNext
    <3>2. CASE q # r
      <4>1. Justified(q, info[q], once, granted, given)
        BY <1>4, <3>1, <3>2, ConsentedByRequest DEF ReplyOnce, TypeOK
      <4>2. QED
        BY <1>4, <4>1, JustifiedGrows DEF ReplyOnce
    <3>3. CASE q = r
      BY <1>4, <3>3 DEF ReplyOnce, Justified
    <3>4. QED
      BY <3>2, <3>3
  <2>2. StruckOver'
    BY <1>4 DEF StruckOver, ReplyOnce, TypeOK, Pending
  <2>3. QED
    BY <1>0, <1>4, <2>1, <2>2 DEF ReplyOnce, ApprovalsGranted, PathsGranted
<1>5. ASSUME NEW r \in Requests, ReplyReject(r)
      PROVE  IInv'
  <2>1. Consented'
    BY <1>5, NothingNewAllowed DEF ReplyReject
  <2>2. StruckOver'
    BY <1>5 DEF StruckOver, ReplyReject, TypeOK, SameSession, Pending
  <2>3. QED
    BY <1>0, <1>5, <2>1, <2>2 DEF ReplyReject, ApprovalsGranted, PathsGranted
<1>6. ASSUME NEW r \in Requests, ReplyAlways(r)
      PROVE  IInv'
  <2> DEFINE new == {info[r].kind} \X info[r].always
  <2>1. /\ approved' = approved \cup new /\ granted' = granted \cup new
        /\ paths' = paths \cup DirectoriesOf(r)
        /\ once' = once \cup {r} /\ given' = given /\ info' = info
    BY <1>6 DEF ReplyAlways
  <2>2. ApprovalsGranted'
    BY <2>1 DEF ApprovalsGranted
  <2>3. Consented'
    <3>1. SUFFICES ASSUME NEW q \in Requests, state'[q] = "allowed"
                   PROVE  Justified(q, info'[q], once', granted', given')
      BY ConsentedByRequestNext
    <3>2. CASE q = r
      BY <2>1, <3>2 DEF Justified
    <3>3. CASE q \in Settled(r, approved \cup new)
      <4>1. \A res \in info[q].resources : Allowed(info[q].kind, res, approved')
        BY <2>1, <3>3 DEF Settled
      <4>2. \A res \in info[q].resources : Allowed(info[q].kind, res, granted' \cup Saved)
        BY <2>2, <4>1, AllowedGrows DEF ApprovalsGranted
      <4>3. QED
        BY <2>1, <4>2 DEF Justified
    <3>4. CASE q # r /\ q \notin Settled(r, approved \cup new)
      <4>1. Justified(q, info[q], once, granted, given)
        BY <1>6, <3>1, <3>4, ConsentedByRequest DEF ReplyAlways
      <4>2. once \subseteq once' /\ granted \subseteq granted' /\ given \subseteq given'
        BY <2>1
      <4>3. QED
        BY <2>1, <4>1, <4>2, JustifiedGrows
    <3>5. QED
      BY <3>2, <3>3, <3>4
  <2>4. PathsGranted'
    <3>1. SUFFICES ASSUME NEW d, d \in paths'
                   PROVE  <<"external_directory", d>> \in granted' \/ d \in given'
      BY DEF PathsGranted
    <3>2. CASE d \in paths
      BY <2>1, <3>2 DEF PathsGranted
    <3>3. CASE d \in DirectoriesOf(r)
      <4>1. info[r].kind = "external_directory" /\ d \in info[r].always
        BY <3>3 DEF DirectoriesOf
      <4>2. QED
        BY <2>1, <4>1
    <3>4. QED
      BY <2>1, <3>1, <3>2, <3>3
  <2>5. StruckOver'
    BY <1>6 DEF StruckOver, ReplyAlways, TypeOK, Settled, SameSession, Pending
  <2>6. QED
    BY <1>0, <2>2, <2>3, <2>4, <2>5
<1>7. ASSUME NEW r \in Requests, Timeout(r) \/ EndQuestion(r) \/ Interrupt(r)
      PROVE  IInv'
  <2>1. Consented'
    BY <1>7, NothingNewAllowed DEF Timeout, EndQuestion, Interrupt, TypeOK
  <2>2. StruckOver'
    BY <1>7 DEF StruckOver, Timeout, EndQuestion, Interrupt, TypeOK, Pending
  <2>3. QED
    BY <1>0, <1>7, <2>1, <2>2 DEF Timeout, EndQuestion, Interrupt, ApprovalsGranted, PathsGranted
<1>8. ASSUME NEW r \in Requests, AskQuestion(r)
      PROVE  IInv'
  <2>1. Consented'
    BY <1>8, NothingNewAllowed DEF AskQuestion, TypeOK
  <2>2. StruckOver'
    BY <1>8 DEF StruckOver, AskQuestion, TypeOK
  <2>3. QED
    BY <1>0, <1>8, <2>1, <2>2 DEF AskQuestion, ApprovalsGranted, PathsGranted
<1>9. CASE Reload
  <2>1. Consented'
    BY <1>9, NothingNewAllowed DEF Reload, TypeOK
  <2>2. StruckOver'
    BY <1>9 DEF StruckOver, Reload, TypeOK, Pending
  <2>3. QED
    BY <1>0, <1>9, <2>1, <2>2 DEF Reload, ApprovalsGranted, PathsGranted
<1>10. ASSUME NEW d \in Resources, StartTurn(d)
       PROVE  IInv'
  <2>1. Consented'
    BY <1>10, NothingNewAllowed DEF StartTurn
  <2>2. QED
    BY <1>0, <1>10, <2>1 DEF StartTurn, ApprovalsGranted, PathsGranted, StruckOver
<1>11. QED
  BY <1>1, <1>2, <1>3, <1>4, <1>5, <1>6, <1>7, <1>8, <1>9, <1>10 DEF Next

\* The first state satisfies it.
LEMMA Initially == Init => IInv
  BY ConsentAssumption
  DEF Init, IInv, TypeOK, Consented, ApprovalsGranted, PathsGranted, StruckOver

-----------------------------------------------------------------------------
(* The inductive invariant holds in every reachable state of
   permission/index.ts and question/index.ts as modelled. *)
THEOREM Invariance == Spec => []IInv
<1>1. Init => IInv
  BY Initially
<1>2. IInv /\ [Next]_vars => IInv'
  BY Inductive
<1>3. QED
  BY <1>1, <1>2, PTL DEF Spec

(* Consent is well typed: in particular allowedPaths never holds a wildcard,
   whatever patterns a request asks for. *)
THEOREM TypeCorrect == Spec => []TypeOK
<1>1. IInv => TypeOK
  BY DEF IInv
<1>2. QED
  BY <1>1, Invariance, PTL

(* No tool goes ahead without consent, for any rules, requests and replies. *)
THEOREM ConsentHolds == Spec => []Consented
<1>1. IInv => Consented
  BY DEF IInv
<1>2. QED
  BY <1>1, Invariance, PTL

(* What waited in a session when the user rejected one of its requests never
   goes ahead. *)
THEOREM RejectionHolds == Spec => []RejectionCovers
<1>1. IInv => RejectionCovers
  BY DEF IInv, StruckOver, RejectionCovers
<1>2. QED
  BY <1>1, Invariance, PTL

=============================================================================
