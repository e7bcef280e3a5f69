----------------------------- MODULE MCPageCache ----------------------------
(* Instances of PageCache for TLC.                                         *)
EXTENDS PageCache, TLC

CONSTANTS w1, w2, w3, a, b

MCKeys == {1, 2}
MCOneKey == {1}
MCTimestamps == {1, 2}
MCOneTimestamp == {1}

(* Tasks are alike, and so are tables.                                     *)
MCSymmetry == Permutations(Tasks) \cup Permutations(Tables)
=============================================================================
