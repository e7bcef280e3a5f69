------------------------------- MODULE KvStore -------------------------------
(***************************************************************************)
(* What one Lissandra table promises to its writers.                       *)
(*                                                                         *)
(* A record is a key, a timestamp and a value; the record with the highest *)
(* timestamp is the one that counts, so the store is a map from keys to    *)
(* timestamps that only ever moves up.  The map is kept as the set `reach` *)
(* of the pairs <<k, t>> such that the store holds a record of key k with  *)
(* a timestamp of at least t: the newest timestamp of k is the largest t   *)
(* paired with it, and "newer wins" is set inclusion.                      *)
(***************************************************************************)
EXTENDS Naturals

CONSTANTS Keys,         \* the keys of the table (uint16_t in the code)
          Timestamps    \* the timestamps a record may carry

VARIABLE reach          \* the pairs <<key, timestamp>> the store answers for

Init == reach = {}

(* An INSERT of key k with timestamp t becomes part of the store.          *)
Put(k, t) ==
    reach' = reach \cup {<<k, u>> : u \in {u \in Timestamps : u <= t}}

Next == \E k \in Keys, t \in Timestamps : Put(k, t)

Spec == Init /\ [][Next]_reach
=============================================================================
