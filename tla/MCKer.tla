------------------------------- MODULE MCKer -------------------------------
(* Two MEM nodes, two task handles, two workers and a table.               *)
EXTENDS Ker, TLC

MCConsistency == [t \in Tables |-> "SC"]
MCSymmetry == Permutations(Nodes) \cup Permutations(Handles)
=============================================================================
