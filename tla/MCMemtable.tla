----------------------------- MODULE MCMemtable -----------------------------
(* Three keys in two partitions, an array that starts with room for two.   *)
EXTENDS Memtable
=============================================================================
