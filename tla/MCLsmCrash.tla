----------------------------- MODULE MCLsmCrash -----------------------------
(* One table with two partitions and a key in each.                        *)
EXTENDS LsmCrash

CONSTANTS i1, d1

MCKeys == {0, 1}
MCTimestamps == {1, 2}
=============================================================================
