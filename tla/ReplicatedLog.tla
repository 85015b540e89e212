---------------------------- MODULE ReplicatedLog ----------------------------
(***************************************************************************)
(* What session sync promises: every site keeps a copy of one event log.   *)
(* A site whose copy is the longest may append to it, a site may take over *)
(* more of a longer copy, and a site may forget the session.               *)
(***************************************************************************)
EXTENDS Naturals, Sequences

CONSTANTS Sites, Events

VARIABLE log

EmptyLogs == log = [s \in Sites |-> <<>>]

Write(s, e) ==
  /\ \A o \in Sites : Len(log[o]) <= Len(log[s])
  /\ log' = [log EXCEPT ![s] = Append(@, e)]

TakeOver(s, o) ==
  /\ Len(log[s]) < Len(log[o])
  /\ \E n \in Len(log[s]) + 1..Len(log[o]) :
       log' = [log EXCEPT ![s] = SubSeq(log[o], 1, n)]

Forget(s) == log' = [log EXCEPT ![s] = <<>>]

LogNext ==
  \/ \E s \in Sites, e \in Events : Write(s, e)
  \/ \E s, o \in Sites : TakeOver(s, o)
  \/ \E s \in Sites : Forget(s)

LogSpec == EmptyLogs /\ [][LogNext]_log

=============================================================================
