------------------------------ MODULE MCGossip ------------------------------
(* Two MEM nodes and the kernel; b and the kernel have only a as a seed,   *)
(* and a has none: a hears of b when b greets it, the kernel from a.       *)
EXTENDS Gossip

CONSTANTS a, b
MCSeeds == [p \in Nodes |-> IF p = a THEN {} ELSE {a}]
=============================================================================
