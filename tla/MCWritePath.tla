---------------------------- MODULE MCWritePath ----------------------------
(* Instances of WritePath for TLC. *)
EXTENDS WritePath, TLC

CONSTANTS a1, a2, a3

\* Agents are interchangeable in every safety run.
AgentSymmetry == Permutations(Agents)

=============================================================================
