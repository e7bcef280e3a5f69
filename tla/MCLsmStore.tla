----------------------------- MODULE MCLsmStore -----------------------------
(* One table with two partitions and a key in each.                        *)
EXTENDS LsmStoreInv, TLC

CONSTANTS i1, d1, d2, s1

MCKeys == {0, 1}
MCTimestamps == {1, 2}
=============================================================================
