---------------------------- MODULE LsmStoreInv -----------------------------
(***************************************************************************)
(* The inductive invariant of LsmStore: why no acknowledged record is lost *)
(* and no file is touched while somebody is reading it.                    *)
(***************************************************************************)
EXTENDS LsmStore

-----------------------------------------------------------------------------
(* The guard, the memtable's mutex and the flag follow the tasks.          *)

Searching == {"part", "dumps", "memtable", "copy"}

UsersExact ==
    /\ \A i \in Inserters : i \in users <=> pending[i] # None
    /\ \A d \in Dumpers : d \in users <=> dpc[d] # "idle"
    /\ \A s \in Selectors : s \in users <=> spc[s] \in Searching

OwnerExact == \A d \in Dumpers : owner = d <=> dpc[d] \in {"sorted", "saved"}

BlockingPc == {"wait1", "rename", "wait3", "delete", "swap", "move",
               "overrun"}

BlockedExact == blocked <=> cpc \in BlockingPc

LockInv == UsersExact /\ OwnerExact /\ BlockedExact /\ StagesExclusive

-----------------------------------------------------------------------------
(* What dumps and compactions know about the files.                        *)

CoversAll(S, T) == \A r \in T : Covers(S, r)

(* The memtable a dump is about to empty is in a D#.tmp.                   *)
SavedInv ==
    \A d \in Dumpers : dpc[d] = "saved" =>
       \E n \in DumpNumbers : memtable \subseteq tmp[n]

(* The compaction knows every D#.tmpc there is, and has deleted those that *)
(* are no longer in todo.                                                  *)
ScopeInv ==
    /\ cpc \in {"load", "merge", "wait3"} =>
          \A n \in DumpNumbers : tmpc[n] # {} => n \in scope
    /\ cpc = "rename" => /\ todo \subseteq scope
                         /\ \A n \in DumpNumbers :
                               /\ tmpc[n] # {} => n \in scope
                               /\ n \notin todo => tmp[n] = {}
    /\ cpc \in {"wait3", "delete"} => \A n \in DumpNumbers : tmpc[n] # {} => n \in todo
    /\ cpc \in {"swap", "move"} => \A n \in DumpNumbers : tmpc[n] = {}

(* Past the load, the merged memtable covers the D#.tmpc that are left ... *)
MergedInv ==
    cpc \in {"merge", "wait3", "delete"} =>
       \A n \in DumpNumbers : CoversAll(merged, tmpc[n])

(* ... and a P#.binc covers the part of it that belongs to the partition.  *)
PartDone(p) == \A r \in merged : PartOf(r.key) = p => Covers(binc[p], r)

BincInv ==
    /\ cpc = "merge" => \A p \in Partitions : p < cpart => PartDone(p)
    /\ cpc \in {"wait3", "delete"} => \A p \in Partitions : PartDone(p)
    /\ cpc \in {"swap", "move"} => \A p \in Partitions : p < cpart => binc[p] = {}

(* A P#.binc, this compaction's or one that a failed compaction left,      *)
(* covers the P#.bin it is to replace.                                     *)
ReplaceInv ==
    \A p \in Partitions : binc[p] # {} => CoversAll(binc[p], bin[p])

(* A P#.bin is missing only while it is being replaced.                    *)
GoneInv ==
    /\ gone = IF cpc = "move" THEN {cpart} ELSE {}
    /\ cpc = "move" => binc[cpart] # {}

(* What a compaction has in hand is nothing new.                           *)
NothingNewInv ==
    /\ \A p \in Partitions : CoversAll(Visible, binc[p])
    /\ CoversAll(Visible, merged)

DataInv ==
    /\ SavedInv /\ ScopeInv /\ MergedInv /\ BincInv /\ ReplaceInv /\ GoneInv
    /\ NothingNewInv

(* The inductive invariant.                                                *)
IInv == TypeOK /\ LockInv /\ DataInv /\ NoAckedRecordLost

-----------------------------------------------------------------------------
(* What keeps the files searchable, and everything of known origin.        *)

(* The memtable a dump is about to write has one record per key.           *)
SortedInv == \A d \in Dumpers : dpc[d] = "sorted" => OnePerKey(memtable)

(* A compaction invents nothing; and the record whose value a SELECT is    *)
(* about to copy is in the memtable, unless a dump has freed records.      *)
OriginInv ==
    /\ merged \subseteq acked
    /\ \A p \in Partitions : binc[p] \subseteq acked
    /\ \A s \in Selectors : spc[s] = "copy" /\ ~freed[s] => sbest[s] \in memtable

FilesInv == SortedInv /\ FilesSearchable /\ OriginInv /\ NoRecordInvented

-----------------------------------------------------------------------------
(* Why a SELECT is fresh: what it was asked to find is in its hands or in  *)
(* what it has yet to look at.                                             *)

Holds(s, r) == sbest[s] # None /\ sbest[s].ts >= r.ts

(* The dumps it will certainly read, and the memtable.  (While it has yet  *)
(* to read the partition, that every acknowledged record is visible says   *)
(* it all.)                                                                *)
Ahead(s) ==
    (IF spc[s] \in {"dumps", "memtable"} THEN memtable ELSE {})
       \cup (IF spc[s] = "dumps" THEN InDumps(slisted[s]) ELSE {})

FloorInv ==
    \A s \in Selectors :
       /\ spc[s] = "idle" => floor[s] = {}
       /\ floor[s] \subseteq {r \in acked : r.key = skey[s]}

AheadInv ==
    \A s \in Selectors : spc[s] # "part" /\ ~freed[s] =>
       \A r \in floor[s] : Holds(s, r) \/ Covers(Ahead(s), r)

FreshInv == FloorInv /\ AheadInv
=============================================================================
