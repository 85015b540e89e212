----------------------------- MODULE FileLease -----------------------------
(***************************************************************************)
(* What the file lock manager promises: a table of leases on files. An     *)
(* agent enters its files only when each is leased to it or has been       *)
(* revoked from it; a lease moves from one agent to another only through   *)
(* being free; only a revocation takes a file from an agent that is inside.*)
(***************************************************************************)
EXTENDS Naturals

CONSTANTS Agents, Files, NoAgent

VARIABLES
  owner,    \* who each file is leased to
  inside,   \* the files each agent works on
  revoked   \* <<a, f>>: f was taken from a since a last asked for files

vars == <<owner, inside, revoked>>

Init ==
  /\ owner = [f \in Files |-> NoAgent]
  /\ inside = [a \in Agents |-> {}]
  /\ revoked = {}

\* A free file is leased to an agent: acquired or handed over.
Take(a, f) ==
  /\ owner[f] = NoAgent
  /\ owner' = [owner EXCEPT ![f] = a]
  /\ UNCHANGED <<inside, revoked>>

\* An agent starts to work on the files F.
Enter(a, F) ==
  /\ inside[a] = {}
  /\ \A f \in F : owner[f] = a \/ <<a, f>> \in revoked
  /\ inside' = [inside EXCEPT ![a] = F]
  /\ UNCHANGED <<owner, revoked>>

\* An agent that is not inside gives back a file.
GiveBack(a, f) ==
  /\ owner[f] = a
  /\ inside[a] = {}
  /\ owner' = [owner EXCEPT ![f] = NoAgent]
  /\ UNCHANGED <<inside, revoked>>

\* An agent leaves, or asks anew, and may give back files at once. What was
\* revoked from it before no longer counts.
Leave(a, F) ==
  /\ \A f \in F : owner[f] = a
  /\ owner' = [f \in Files |-> IF f \in F THEN NoAgent ELSE owner[f]]
  /\ inside' = [inside EXCEPT ![a] = {}]
  /\ revoked' = {r \in revoked : r[1] # a}

\* A lease is taken away from whoever has it; an agent that is inside will
\* always find the revocation on record.
Revoke(f) ==
  /\ owner[f] # NoAgent
  /\ owner' = [owner EXCEPT ![f] = NoAgent]
  /\ \/ revoked' = revoked \cup {<<owner[f], f>>}
     \/ f \notin inside[owner[f]] /\ UNCHANGED revoked
  /\ UNCHANGED inside

\* Everybody is gone; the leases stay, or are cleared.
Restart ==
  /\ inside' = [a \in Agents |-> {}]
  /\ revoked' = {}
  /\ UNCHANGED owner

Clear ==
  /\ \A a \in Agents : inside[a] = {}
  /\ owner' = [f \in Files |-> NoAgent]
  /\ UNCHANGED <<inside, revoked>>

Next ==
  \/ \E a \in Agents, f \in Files : Take(a, f) \/ GiveBack(a, f)
  \/ \E a \in Agents, F \in SUBSET Files : Enter(a, F) \/ Leave(a, F)
  \/ \E f \in Files : Revoke(f)
  \/ Restart
  \/ Clear

Spec == Init /\ [][Next]_vars

=============================================================================
