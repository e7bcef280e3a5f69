------------------------------ MODULE MCBlocks ------------------------------
(* A table that is created twice, its dumps and compactions, two workers.  *)
EXTENDS Blocks, TLC

MCSymmetry == Permutations(Threads)
=============================================================================
