----------------------------- MODULE MCReslock ------------------------------
(* Four users, as many as the counter can count.                           *)
EXTENDS Reslock

CONSTANTS u1, u2, u3, u4, b
=============================================================================
