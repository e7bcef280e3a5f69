----------------------------- MODULE MCMemNode -----------------------------
(* Two connections, which may get the same handle one after the other.     *)
EXTENDS MemNode
=============================================================================
