---------------------------- MODULE MCFileLocks ----------------------------
(* Instances of FileLocks for TLC. *)
EXTENDS FileLocks, TLC

CONSTANTS a1, a2, a3, f1, f2

\* Write-path declarations: one file.
OneFile == {<<f1>>}

\* Every list of one or two distinct files out of two.
UpToTwoFiles == {<<f1>>, <<f2>>, <<f1, f2>>, <<f2, f1>>}

\* Two files in one fixed and in the other order.
CrossedPairs == {<<f1, f2>>, <<f2, f1>>}

AgentSymmetry == Permutations(Agents)

=============================================================================
