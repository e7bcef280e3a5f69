------------------------------ MODULE LsmStore ------------------------------
(***************************************************************************)
(* The storage of one table of the Lissandra file system (lfs/): the       *)
(* memtable, the dump files D#.tmp and D#.tmpc, the partitions P#.bin and  *)
(* their replacements P#.binc, and the four kinds of worker that move      *)
(* records between them: INSERT, dump, compaction and SELECT.              *)
(*                                                                         *)
(* A file is the set of its records.  No dump and no .binc file is ever    *)
(* written empty (memtable.c:212, lfs_worker.c:262), so {} stands for "no  *)
(* such file"; a partition may be empty, and one whose .bin is missing is  *)
(* in `gone`.  `users` is the set of tasks between                         *)
(* fs_table_avail_guard_begin and _end: its size is the reslock's counter  *)
(* (module Reslock).  A task that finds the table blocked is rescheduled   *)
(* (module TableTasks); here it simply has not begun.                      *)
(***************************************************************************)
EXTENDS Naturals, FiniteSets

CONSTANTS Keys,         \* keys of the table
          PartCount,    \* meta.partitionsCount
          Timestamps,   \* timestamps an INSERT may carry (0 means "now")
          Values,       \* values an INSERT may carry
          MaxDumps,     \* bound: dump numbers used (uint16_t in the code)
          MaxInserts,   \* bound: INSERTs begun
          Inserters, Dumpers, Selectors,    \* the tasks that use the table
          AllocMayFail, \* whether fs_block_alloc may run out of blocks
          None          \* no record, no task

ASSUME KeysAssumption == Keys \subseteq Nat
ASSUME PartCountAssumption == PartCount \in Nat \ {0}
ASSUME TimestampsAssumption == Timestamps \subseteq Nat \ {0}
ASSUME MaxDumpsAssumption == MaxDumps \in Nat
ASSUME MaxInsertsAssumption == MaxInserts \in Nat
ASSUME AllocAssumption == AllocMayFail \in BOOLEAN

Record == [key : Keys, ts : Timestamps, val : Values]

ASSUME NoneAssumption == None \notin Record \cup Dumpers \cup Values

(* Three kinds of task; an INSERT is never a SELECT.                       *)
ASSUME TasksAssumption ==
    /\ Inserters \cap Dumpers = {}
    /\ Inserters \cap Selectors = {}
    /\ Dumpers \cap Selectors = {}

VARIABLES
    memtable,   \* table->memtable.records
    owner,      \* the dump task holding memtable.mtx, or None
    tmp, tmpc,  \* dump number -> records of D#.tmp, of D#.tmpc
    bin, binc,  \* partition   -> records of P#.bin, of P#.binc
    gone,       \* partitions whose P#.bin does not exist
    blocked,    \* reslock.blocked
    users,      \* the tasks inside the availability guard
    pending,    \* inserter -> the record it is about to add
    dpc,        \* dumper   -> where its handler stands
    cpc,        \* where the compaction stands
    scope,      \* dumpNumbers: the dumps this compaction works on
    todo,       \* those of scope still to rename or to delete
    merged,     \* dumpsMemt.records
    cpart,      \* partition counter of the compaction's loops
    spc,        \* selector -> where its handler stands
    skey,       \* selector -> the key asked for
    sbest,      \* selector -> data->record: best match so far, or None
    slisted,    \* selector -> dumps in the directory when it was opened
    inserts,    \* INSERTs begun, for the bound
    acked,      \* history: the records whose INSERT has completed
    floor,      \* history: selector -> acked records when it began
    freed       \* history: selector -> a dump freed memtable records meanwhile

storageVars == <<memtable, owner, tmp, tmpc, bin, binc, gone>>
lockVars    == <<blocked, users>>
compactVars == <<cpc, scope, todo, merged, cpart>>
selectVars  == <<spc, skey, sbest, slisted, floor>>
taskVars    == <<pending, inserts, dpc>>
vars == <<storageVars, lockVars, taskVars, compactVars, selectVars, acked,
          freed>>

Partitions == 0 .. PartCount - 1
DumpNumbers == 1 .. MaxDumps

(* The partition a key belongs to.                                         *)
PartOf(k) == k % PartCount

-----------------------------------------------------------------------------
(* Sets of records.                                                        *)

(* S holds a record of r's key that is at least as recent as r.            *)
Covers(S, r) == \E q \in S : q.key = r.key /\ q.ts >= r.ts

(* Mutant of Preprocessed: the records are sorted, duplicates stay.        *)
PreprocessedSorted(S, U) == U = S

(* U is what memtable_preprocess may leave of S: one record per key, the   *)
(* newest.  Quicksort is not stable, so a tie may be resolved either way.  *)
Preprocessed(S, U) ==
    /\ U \subseteq S
    /\ \A r \in S : Covers(U, r)
    /\ \A u, w \in U : u.key = w.key => u = w

(* memtable_find: a most recent record of key k in S.                      *)
IsFound(S, k, r) ==
    /\ r \in S
    /\ r.key = k
    /\ \A q \in S : q.key = k => q.ts <= r.ts

(* A SELECT replaces its best match by one at least as recent.             *)
NoBetter(best, S, k) ==
    \A r \in S : r.key = k => best # None /\ r.ts < best.ts

IsBetter(best, S, k, new) ==
    /\ IsFound(S, k, new)
    /\ best # None => new.ts >= best.ts

Better(best, S, k, new) ==
    \/ NoBetter(best, S, k) /\ new = best
    \/ IsBetter(best, S, k, new)

(* Mutant of IsNextDump: the highest number there is, and not one more.    *)
IsHighestDump(n) ==
    /\ \A m \in DumpNumbers : tmp[m] # {} => m <= n
    /\ n = 1 \/ (n \in DumpNumbers /\ tmp[n] # {})

(* fs_table_dump_number_next: one more than the highest D#.tmp.            *)
IsNextDump(n) ==
    /\ \A m \in DumpNumbers : tmp[m] # {} => m < n
    /\ n = 1 \/ (n - 1 \in DumpNumbers /\ tmp[n - 1] # {})

(* The array of dumpNumbers has as many entries as the highest D#.tmp has  *)
(* for a number; the number of every file is stored in it, D#.tmpc too.    *)
DumpFiles ==
    Cardinality({n \in DumpNumbers : tmp[n] # {}})
       + Cardinality({n \in DumpNumbers : tmpc[n] # {}})

NumbersFit == \E n \in 1 .. MaxDumps + 1 : IsNextDump(n) /\ DumpFiles <= n - 1

DumpsOnDisk == {n \in DumpNumbers : tmp[n] # {} \/ tmpc[n] # {}}

(* Mutant of InDumps: the dumps being compacted are not looked at.         *)
InDumpsTmp(D) == UNION {tmp[n] : n \in D}

InDumps(D) == UNION {tmp[n] \cup tmpc[n] : n \in D}
InPartitions == UNION {bin[p] : p \in Partitions}

(* What the files a SELECT looks at, and the memtable, hold together.      *)
Stored == memtable \cup InDumps(DumpNumbers) \cup InPartitions

-----------------------------------------------------------------------------
Init ==
    /\ memtable = {} /\ owner = None
    /\ tmp = [n \in DumpNumbers |-> {}]
    /\ tmpc = [n \in DumpNumbers |-> {}]
    /\ bin = [p \in Partitions |-> {}]
    /\ binc = [p \in Partitions |-> {}]
    /\ gone = {}
    /\ blocked = FALSE /\ users = {}
    /\ pending = [i \in Inserters |-> None]
    /\ inserts = 0
    /\ dpc = [d \in Dumpers |-> "idle"]
    /\ cpc = "idle" /\ scope = {} /\ todo = {} /\ merged = {} /\ cpart = 0
    /\ spc = [s \in Selectors |-> "idle"]
    /\ skey \in [Selectors -> Keys]
    /\ sbest = [s \in Selectors |-> None]
    /\ slisted = [s \in Selectors |-> {}]
    /\ acked = {}
    /\ floor = [s \in Selectors |-> {}]
    /\ freed = [s \in Selectors |-> FALSE]

(* fs_table_avail_guard_begin and _end.                                    *)
GuardBegin(task) == ~blocked /\ users' = users \cup {task}
GuardEnd(task) == users' = users \ {task}

-----------------------------------------------------------------------------
(* worker_handle_insert                                                    *)

InsertBegin(i, r) ==
    /\ pending[i] = None
    /\ inserts < MaxInserts
    /\ GuardBegin(i)
    /\ pending' = [pending EXCEPT ![i] = r]
    /\ inserts' = inserts + 1
    /\ UNCHANGED <<storageVars, blocked, dpc, compactVars, selectVars, acked,
                   freed>>

(* memtable_add, the end of the guard and the answer to the client.        *)
InsertAdd(i) ==
    /\ pending[i] # None
    /\ owner = None
    /\ memtable' = memtable \cup {pending[i]}
    /\ acked' = acked \cup {pending[i]}
    /\ pending' = [pending EXCEPT ![i] = None]
    /\ GuardEnd(i)
    /\ UNCHANGED <<owner, tmp, tmpc, bin, binc, gone, blocked, inserts, dpc,
                   compactVars, selectVars, freed>>

-----------------------------------------------------------------------------
(* worker_handle_dump and memtable_make_dump                               *)

(* Bound: a dump begins only while every dump at work will find a number.  *)
RoomForDump ==
    \E n \in DumpNumbers :
       /\ IsNextDump(n)
       /\ n + Cardinality({d \in Dumpers : dpc[d] # "idle"}) <= MaxDumps

DumpBegin(d) ==
    /\ dpc[d] = "idle"
    /\ RoomForDump
    /\ GuardBegin(d)
    /\ dpc' = [dpc EXCEPT ![d] = "begun"]
    /\ UNCHANGED <<storageVars, blocked, pending, inserts, compactVars,
                   selectVars, acked, freed>>

(* ERR_DUMP_NOT_NEEDED                                                     *)
DumpNotNeeded(d) ==
    /\ dpc[d] = "begun" /\ owner = None
    /\ memtable = {}
    /\ dpc' = [dpc EXCEPT ![d] = "idle"]
    /\ GuardEnd(d)
    /\ UNCHANGED <<storageVars, blocked, pending, inserts, compactVars,
                   selectVars, acked, freed>>

(* Locks the memtable and leaves one record per key in it.                 *)
DumpSort(d) ==
    /\ dpc[d] = "begun" /\ owner = None
    /\ memtable # {}
    /\ \E U \in SUBSET memtable :
          /\ Preprocessed(memtable, U)
          /\ memtable' = U
          /\ freed' = [s \in Selectors |->
                          freed[s] \/ (s \in users /\ U # memtable)]
    /\ owner' = d
    /\ dpc' = [dpc EXCEPT ![d] = "sorted"]
    /\ UNCHANGED <<tmp, tmpc, bin, binc, gone, lockVars, pending, inserts,
                   compactVars, selectVars, acked>>

(* _memtable_save finds its blocks; the file takes the next number.        *)
DumpSave(d) ==
    /\ dpc[d] = "sorted"
    /\ \E n \in DumpNumbers :
          IsNextDump(n) /\ tmp' = [tmp EXCEPT ![n] = memtable]
    /\ dpc' = [dpc EXCEPT ![d] = "saved"]
    /\ UNCHANGED <<memtable, owner, tmpc, bin, binc, gone, lockVars, pending,
                   inserts, compactVars, selectVars, acked, freed>>

(* Mutant of DumpFail: the memtable is cleared although nothing was saved. *)
DumpFailClears(d) ==
    /\ dpc[d] = "sorted"
    /\ AllocMayFail
    /\ memtable' = {}
    /\ owner' = None
    /\ dpc' = [dpc EXCEPT ![d] = "idle"]
    /\ GuardEnd(d)
    /\ UNCHANGED <<tmp, tmpc, bin, binc, gone, blocked, pending, inserts,
                   compactVars, selectVars, acked, freed>>

(* _memtable_save runs out of blocks: the records stay in the memtable.    *)
DumpFail(d) ==
    /\ dpc[d] = "sorted"
    /\ AllocMayFail
    /\ owner' = None
    /\ dpc' = [dpc EXCEPT ![d] = "idle"]
    /\ GuardEnd(d)
    /\ UNCHANGED <<memtable, tmp, tmpc, bin, binc, gone, blocked, pending,
                   inserts, compactVars, selectVars, acked, freed>>

(* memtable_clear, the unlock and the end of the guard.                    *)
DumpClear(d) ==
    /\ dpc[d] = "saved"
    /\ memtable' = {}
    /\ owner' = None
    /\ dpc' = [dpc EXCEPT ![d] = "idle"]
    /\ GuardEnd(d)
    /\ freed' = [s \in Selectors |-> freed[s] \/ s \in users]
    /\ UNCHANGED <<tmp, tmpc, bin, binc, gone, blocked, pending, inserts,
                   compactVars, selectVars, acked>>

-----------------------------------------------------------------------------
(* worker_handle_compact.  Stage 1: with the table blocked and unused,     *)
(* rename the dumps.  There is one compaction at a time (module            *)
(* TableTasks), so only the compaction blocks and unblocks the table.      *)

CompactBegin ==
    /\ cpc = "idle"
    /\ blocked' = TRUE
    /\ cpc' = "wait1"
    /\ UNCHANGED <<storageVars, users, taskVars, scope, todo, merged, cpart,
                   selectVars, acked, freed>>

(* Mutant of CompactScope: what a failed compaction left is not taken up.  *)
CompactScopeTmp ==
    /\ cpc = "wait1" /\ users = {}
    /\ scope' = {n \in DumpNumbers : tmp[n] # {}}
    /\ todo' = scope'
    /\ cpc' = "rename"
    /\ UNCHANGED <<storageVars, lockVars, taskVars, merged, cpart, selectVars,
                   acked, freed>>

(* The directory is read into dumpNumbers.  Beyond the array, if they are  *)
(* more than NumbersFit, only into what malloc has rounded up to.          *)
CompactScope ==
    /\ cpc = "wait1" /\ users = {}
    /\ scope' = DumpsOnDisk
    /\ todo' = DumpsOnDisk
    /\ cpc' = "rename"
    /\ UNCHANGED <<storageVars, lockVars, taskVars, merged, cpart, selectVars,
                   acked, freed>>

(* Or into what lies behind that: undefined behaviour, and nothing is said *)
(* of the process from there on, but that it does nothing to the files.    *)
CompactOverrun ==
    /\ cpc = "wait1" /\ users = {}
    /\ ~NumbersFit
    /\ cpc' = "overrun"
    /\ UNCHANGED <<storageVars, lockVars, taskVars, scope, todo, merged, cpart,
                   selectVars, acked, freed>>

Overrun == cpc = "overrun" /\ UNCHANGED vars

(* cx_file_move of one dump; one that is already a D#.tmpc is left alone.  *)
CompactRename(n) ==
    /\ cpc = "rename" /\ n \in todo
    /\ tmp[n] = {} \/ tmpc[n] = {}
    /\ todo' = todo \ {n}
    /\ tmpc' = [tmpc EXCEPT ![n] = tmp[n] \cup tmpc[n]]
    /\ tmp' = [tmp EXCEPT ![n] = {}]
    /\ UNCHANGED <<memtable, owner, bin, binc, gone, lockVars, taskVars, cpc,
                   scope, merged, cpart, selectVars, acked, freed>>

(* Mutant of CompactConflict: an early return forgets to unblock the table. *)
CompactConflictBlocked(n) ==
    /\ cpc = "rename" /\ n \in todo
    /\ tmp[n] # {} /\ tmpc[n] # {}
    /\ cpc' = "idle" /\ scope' = {} /\ todo' = {}
    /\ UNCHANGED <<storageVars, lockVars, taskVars, merged, cpart, selectVars,
                   acked, freed>>

(* cx_file_move refuses to overwrite: the compaction gives up.             *)
CompactConflict(n) ==
    /\ cpc = "rename" /\ n \in todo
    /\ tmp[n] # {} /\ tmpc[n] # {}
    /\ blocked' = FALSE
    /\ cpc' = "idle" /\ scope' = {} /\ todo' = {}
    /\ UNCHANGED <<storageVars, users, taskVars, merged, cpart, selectVars,
                   acked, freed>>

CompactUnblock ==
    /\ cpc = "rename" /\ todo = {}
    /\ blocked' = FALSE
    /\ cpc' = "load"
    /\ UNCHANGED <<storageVars, users, taskVars, scope, todo, merged, cpart,
                   selectVars, acked, freed>>

(* Stage 2, beside SELECTs, INSERTs and dumps: merge the D#.tmpc in memory *)
(* and write a P#.binc for every partition they touch.                     *)

(* Mutant of CompactLoad: the dumps are deleted as soon as they are merged. *)
CompactLoadDeletes ==
    /\ cpc = "load"
    /\ LET dumped == UNION {tmpc[n] : n \in scope}
       IN \E U \in SUBSET dumped : Preprocessed(dumped, U) /\ merged' = U
    /\ tmpc' = [n \in DumpNumbers |-> IF n \in scope THEN {} ELSE tmpc[n]]
    /\ cpart' = 0
    /\ cpc' = "merge"
    /\ UNCHANGED <<memtable, owner, tmp, bin, binc, gone, lockVars, taskVars,
                   scope, todo, selectVars, acked, freed>>

CompactLoad ==
    /\ cpc = "load"
    /\ LET dumped == UNION {tmpc[n] : n \in scope}
       IN \E U \in SUBSET dumped : Preprocessed(dumped, U) /\ merged' = U
    /\ cpart' = 0
    /\ cpc' = "merge"
    /\ UNCHANGED <<storageVars, lockVars, taskVars, scope, todo, selectVars,
                   acked, freed>>

(* The records of dumpsMemt that belong to partition p.                    *)
Entries(p) == {r \in merged : PartOf(r.key) = p}

CompactSkipPart ==
    /\ cpc = "merge" /\ cpart < PartCount
    /\ Entries(cpart) = {} \/ cpart \in gone
    /\ cpart' = cpart + 1
    /\ UNCHANGED <<storageVars, lockVars, taskVars, cpc, scope, todo, merged,
                   selectVars, acked, freed>>

(* Mutant of CompactMakePart: the old records of the partition are left out. *)
CompactMakePartNew ==
    /\ cpc = "merge" /\ cpart < PartCount
    /\ Entries(cpart) # {} /\ cpart \notin gone
    /\ binc' = [binc EXCEPT ![cpart] = Entries(cpart)]
    /\ cpart' = cpart + 1
    /\ UNCHANGED <<memtable, owner, tmp, tmpc, bin, gone, lockVars, taskVars,
                   cpc, scope, todo, merged, selectVars, acked, freed>>

CompactMakePart ==
    /\ cpc = "merge" /\ cpart < PartCount
    /\ Entries(cpart) # {} /\ cpart \notin gone
    /\ LET both == bin[cpart] \cup Entries(cpart)
       IN \E U \in SUBSET both :
             Preprocessed(both, U) /\ binc' = [binc EXCEPT ![cpart] = U]
    /\ cpart' = cpart + 1
    /\ UNCHANGED <<memtable, owner, tmp, tmpc, bin, gone, lockVars, taskVars,
                   cpc, scope, todo, merged, selectVars, acked, freed>>

(* memtable_make_part runs out of blocks: stage 3 is skipped, and the      *)
(* D#.tmpc and the P#.binc written so far stay on disk.                    *)
CompactFail ==
    /\ cpc = "merge" /\ cpart < PartCount
    /\ Entries(cpart) # {} /\ cpart \notin gone
    /\ AllocMayFail
    /\ cpc' = "idle" /\ scope' = {} /\ todo' = {} /\ merged' = {}
    /\ cpart' = 0
    /\ UNCHANGED <<storageVars, lockVars, taskVars, selectVars, acked,
                   freed>>

(* Stage 3: with the table blocked and unused again, delete the D#.tmpc    *)
(* and put every P#.binc in the place of its P#.bin.                       *)

CompactBlock ==
    /\ cpc = "merge" /\ cpart = PartCount
    /\ blocked' = TRUE
    /\ cpc' = "wait3"
    /\ todo' = scope
    /\ UNCHANGED <<storageVars, users, taskVars, scope, merged, cpart,
                   selectVars, acked, freed>>

(* Mutant of CompactAlone: nobody waits for the tasks inside the guard.    *)
CompactAloneAtOnce ==
    /\ cpc = "wait3"
    /\ cpc' = "delete"
    /\ UNCHANGED <<storageVars, lockVars, taskVars, scope, todo, merged,
                   cpart, selectVars, acked, freed>>

CompactAlone ==
    /\ cpc = "wait3" /\ users = {}
    /\ cpc' = "delete"
    /\ UNCHANGED <<storageVars, lockVars, taskVars, scope, todo, merged,
                   cpart, selectVars, acked, freed>>

CompactDelete(n) ==
    /\ cpc = "delete" /\ n \in todo
    /\ tmpc' = [tmpc EXCEPT ![n] = {}]
    /\ todo' = todo \ {n}
    /\ UNCHANGED <<memtable, owner, tmp, bin, binc, gone, lockVars, taskVars,
                   cpc, scope, merged, cpart, selectVars, acked, freed>>

CompactDeleted ==
    /\ cpc = "delete" /\ todo = {}
    /\ cpart' = 0
    /\ cpc' = "swap"
    /\ UNCHANGED <<storageVars, lockVars, taskVars, scope, todo, merged,
                   selectVars, acked, freed>>

(* fs_table_part_get fails, or there is no P#.binc.                        *)
CompactKeepPart ==
    /\ cpc = "swap" /\ cpart < PartCount
    /\ cpart \in gone \/ binc[cpart] = {}
    /\ cpart' = cpart + 1
    /\ UNCHANGED <<storageVars, lockVars, taskVars, cpc, scope, todo, merged,
                   selectVars, acked, freed>>

(* Mutant of CompactDropOld: a P#.bin goes whether or not there is a P#.binc. *)
CompactDropAny ==
    /\ cpc = "swap" /\ cpart < PartCount
    /\ cpart \notin gone
    /\ bin' = [bin EXCEPT ![cpart] = {}]
    /\ gone' = gone \cup {cpart}
    /\ cpc' = "move"
    /\ UNCHANGED <<memtable, owner, tmp, tmpc, binc, lockVars, taskVars,
                   scope, todo, merged, cpart, selectVars, acked, freed>>

CompactDropOld ==
    /\ cpc = "swap" /\ cpart < PartCount
    /\ cpart \notin gone /\ binc[cpart] # {}
    /\ bin' = [bin EXCEPT ![cpart] = {}]
    /\ gone' = gone \cup {cpart}
    /\ cpc' = "move"
    /\ UNCHANGED <<memtable, owner, tmp, tmpc, binc, lockVars, taskVars,
                   scope, todo, merged, cpart, selectVars, acked, freed>>

CompactMoveNew ==
    /\ cpc = "move"
    /\ bin' = [bin EXCEPT ![cpart] = binc[cpart]]
    /\ binc' = [binc EXCEPT ![cpart] = {}]
    /\ gone' = gone \ {cpart}
    /\ cpart' = cpart + 1
    /\ cpc' = "swap"
    /\ UNCHANGED <<memtable, owner, tmp, tmpc, lockVars, taskVars, scope,
                   todo, merged, selectVars, acked, freed>>

CompactEnd ==
    /\ cpc = "swap" /\ cpart = PartCount
    /\ blocked' = FALSE
    /\ cpc' = "idle" /\ scope' = {} /\ merged' = {} /\ cpart' = 0
    /\ UNCHANGED <<storageVars, users, taskVars, todo, selectVars, acked,
                   freed>>

-----------------------------------------------------------------------------
(* worker_handle_select                                                    *)

SelectBegin(s, k) ==
    /\ spc[s] \in {"idle", "answered"}
    /\ GuardBegin(s)
    /\ spc' = [spc EXCEPT ![s] = "part"]
    /\ skey' = [skey EXCEPT ![s] = k]
    /\ sbest' = [sbest EXCEPT ![s] = None]
    /\ slisted' = [slisted EXCEPT ![s] = {}]
    /\ floor' = [floor EXCEPT ![s] = {r \in acked : r.key = k}]
    /\ freed' = [freed EXCEPT ![s] = FALSE]
    /\ UNCHANGED <<storageVars, blocked, taskVars, compactVars, acked>>

(* Mutant of SelectPart: the value found is not copied before the loaded   *)
(* partition is destroyed.                                                 *)
SelectPartNoCopy(s) ==
    /\ spc[s] = "part"
    /\ \E new \in Record \cup {None} :
          /\ Better(None, bin[PartOf(skey[s])], skey[s], new)
          /\ sbest' = [sbest EXCEPT ![s] =
                          IF new = None THEN None ELSE [new EXCEPT !.val = None]]
    /\ slisted' = [slisted EXCEPT ![s] = DumpsOnDisk]
    /\ spc' = [spc EXCEPT ![s] = "dumps"]
    /\ UNCHANGED <<storageVars, lockVars, taskVars, compactVars, skey, acked,
                   floor, freed>>

(* The partition first, then the directory is opened.  A dump saved while  *)
(* it is being read may or may not turn up.                                *)
SelectPart(s) ==
    /\ spc[s] = "part"
    /\ \E new \in Record \cup {None} :
          /\ Better(None, bin[PartOf(skey[s])], skey[s], new)
          /\ sbest' = [sbest EXCEPT ![s] = new]
    /\ slisted' = [slisted EXCEPT ![s] = DumpsOnDisk]
    /\ spc' = [spc EXCEPT ![s] = "dumps"]
    /\ UNCHANGED <<storageVars, lockVars, taskVars, compactVars, skey, acked,
                   floor, freed>>

SelectDumps(s) ==
    /\ spc[s] = "dumps"
    /\ \E seen \in SUBSET DumpsOnDisk, new \in Record \cup {None} :
          /\ slisted[s] \subseteq seen
          /\ Better(sbest[s], InDumps(seen), skey[s], new)
          /\ sbest' = [sbest EXCEPT ![s] = new]
    /\ spc' = [spc EXCEPT ![s] = "memtable"]
    /\ UNCHANGED <<storageVars, lockVars, taskVars, compactVars, skey,
                   slisted, acked, floor, freed>>

(* The memtable last.  memtable_find copies the record under the memtable's *)
(* mutex, but the record's value is still the memtable's own.              *)
SelectMemtable(s) ==
    /\ spc[s] = "memtable" /\ owner = None
    /\ \E new \in memtable :
          /\ IsBetter(sbest[s], memtable, skey[s], new)
          /\ sbest' = [sbest EXCEPT ![s] = new]
    /\ spc' = [spc EXCEPT ![s] = "copy"]
    /\ UNCHANGED <<storageVars, lockVars, taskVars, compactVars, skey, slisted,
                   acked, floor, freed>>

SelectNoMemtable(s) ==
    /\ spc[s] = "memtable" /\ owner = None
    /\ NoBetter(sbest[s], memtable, skey[s])
    /\ spc' = [spc EXCEPT ![s] = "answered"]
    /\ GuardEnd(s)
    /\ UNCHANGED <<storageVars, blocked, taskVars, compactVars, skey, sbest,
                   slisted, acked, floor, freed>>

(* cx_str_copy_d of that value, outside the mutex: anything (None) when a  *)
(* dump has freed it meanwhile.                                            *)
SelectCopy(s) ==
    /\ spc[s] = "copy"
    /\ \E v \in IF sbest[s] \in memtable THEN {sbest[s].val}
                 ELSE Values \cup {None} :
          sbest' = [sbest EXCEPT ![s].val = v]
    /\ spc' = [spc EXCEPT ![s] = "answered"]
    /\ GuardEnd(s)
    /\ UNCHANGED <<storageVars, blocked, taskVars, compactVars, skey, slisted,
                   acked, floor, freed>>

-----------------------------------------------------------------------------
Compact ==
    \/ CompactBegin \/ CompactScope \/ CompactOverrun \/ CompactUnblock
    \/ \E n \in DumpNumbers :
          CompactRename(n) \/ CompactConflict(n) \/ CompactDelete(n)
    \/ CompactLoad \/ CompactSkipPart \/ CompactMakePart \/ CompactFail
    \/ CompactBlock \/ CompactAlone \/ CompactDeleted
    \/ CompactKeepPart \/ CompactDropOld \/ CompactMoveNew \/ CompactEnd

Insert(i) == InsertAdd(i) \/ \E r \in Record : InsertBegin(i, r)

Dump(d) ==
    \/ DumpBegin(d) \/ DumpNotNeeded(d) \/ DumpSort(d)
    \/ DumpSave(d) \/ DumpFail(d) \/ DumpClear(d)

Select(s) ==
    \/ \E k \in Keys : SelectBegin(s, k)
    \/ SelectPart(s) \/ SelectDumps(s) \/ SelectMemtable(s)
    \/ SelectNoMemtable(s) \/ SelectCopy(s)

Next ==
    \/ \E i \in Inserters : Insert(i)
    \/ \E d \in Dumpers : Dump(d)
    \/ Compact
    \/ \E s \in Selectors : Select(s)
    \/ Overrun

Spec == Init /\ [][Next]_vars

-----------------------------------------------------------------------------
(* Type invariant.                                                         *)

CompactPc == {"idle", "wait1", "rename", "load", "merge", "wait3", "delete",
              "swap", "move", "overrun"}

(* What a SELECT holds: nothing, a record, or one with a freed value.      *)
Answer == {None} \cup [key : Keys, ts : Timestamps, val : Values \cup {None}]

TypeOK ==
    /\ memtable \subseteq Record
    /\ owner \in Dumpers \cup {None}
    /\ tmp \in [DumpNumbers -> SUBSET Record]
    /\ tmpc \in [DumpNumbers -> SUBSET Record]
    /\ bin \in [Partitions -> SUBSET Record]
    /\ binc \in [Partitions -> SUBSET Record]
    /\ gone \subseteq Partitions
    /\ blocked \in BOOLEAN
    /\ users \subseteq Inserters \cup Dumpers \cup Selectors
    /\ pending \in [Inserters -> Record \cup {None}]
    /\ inserts \in 0 .. MaxInserts
    /\ dpc \in [Dumpers -> {"idle", "begun", "sorted", "saved"}]
    /\ cpc \in CompactPc
    /\ scope \subseteq DumpNumbers
    /\ todo \subseteq DumpNumbers
    /\ merged \subseteq Record
    /\ cpart \in IF cpc = "move" THEN Partitions ELSE 0 .. PartCount
    /\ spc \in [Selectors -> {"idle", "part", "dumps", "memtable", "copy",
                          "answered"}]
    /\ skey \in [Selectors -> Keys]
    /\ sbest \in [Selectors -> Answer]
    /\ \A s \in Selectors : spc[s] = "copy" => sbest[s] \in Record
    /\ slisted \in [Selectors -> SUBSET DumpNumbers]
    /\ acked \subseteq Record
    /\ floor \in [Selectors -> SUBSET Record]
    /\ freed \in [Selectors -> BOOLEAN]

-----------------------------------------------------------------------------
(* Safety.                                                                 *)

(* The stages of the compaction that need the table for themselves.        *)
Exclusive == cpc \in {"rename", "delete", "swap", "move"}

(* Nobody reads or writes the table while the compaction renames, deletes  *)
(* or swaps its files: wait_unused really has waited for the last SELECT,  *)
(* INSERT and dump, and none has come in since.                            *)
StagesExclusive == Exclusive => blocked /\ users = {}

(* In stage 3 the P#.binc stand for the D#.tmpc already deleted.           *)
Visible ==
    IF cpc \in {"delete", "swap", "move"}
    THEN Stored \cup UNION {binc[p] : p \in Partitions}
    ELSE Stored

(* No acknowledged INSERT is lost: whatever dumps, failed dumps, failed or *)
(* abandoned compactions have happened, every acknowledged record is still *)
(* in the memtable or on disk, unless a newer one of its key replaced it.  *)
NoAckedRecordLost == \A r \in acked : Covers(Visible, r)

(* Nothing is made up: a record held anywhere was given by some INSERT, and *)
(* so was the answer of a SELECT beside which no dump freed records.       *)
NoRecordInvented ==
    /\ Visible \subseteq acked
    /\ \A s \in Selectors :
          sbest[s] # None /\ ~freed[s] => sbest[s] \in acked

(* "assume the entries in our files are sorted and contain no duplicates"  *)
(* (memtable.c:272): memtable_find searches a file by bisection, and looks *)
(* for a key only in the partition the key belongs to.                     *)
OnePerKey(S) == \A q, r \in S : q.key = r.key => q = r

FilesSearchable ==
    /\ \A n \in DumpNumbers : OnePerKey(tmp[n]) /\ OnePerKey(tmpc[n])
    /\ \A p \in Partitions :
          /\ OnePerKey(bin[p])
          /\ OnePerKey(binc[p])
          /\ \A r \in bin[p] \cup binc[p] : PartOf(r.key) = p

(* The answer of a SELECT: at least as recent as every record of its key   *)
(* acknowledged before it began.                                           *)
Fresh(s) ==
    spc[s] = "answered" => \A r \in floor[s] : sbest[s] # None /\ sbest[s].ts >= r.ts

(* A SELECT during which no dump emptied the memtable is fresh, however    *)
(* many INSERTs and compaction stages went on beside it.  With such a dump *)
(* between its scan of the directory and its search of the memtable it may *)
(* answer "Key %d does not exist" (lfs_worker.c:131) for a key that was    *)
(* acknowledged long before.                                               *)
SelectFreshUnlessDumped == \A s \in Selectors : ~freed[s] => Fresh(s)

-----------------------------------------------------------------------------
(* Action properties.                                                      *)

(* A dump never replaces an existing D#.tmp: numbers are unique even when  *)
(* two dump tasks of the table overlap.                                    *)
DumpsNeverOverwritten ==
    [][\A n \in DumpNumbers : tmp[n] # {} => tmp'[n] \in {{}, tmp[n]}]_tmp

(* Dumps and compactions are invisible to readers: the store as a map from *)
(* keys to newest timestamps changes by INSERTs only.                      *)
Reach == {p \in Keys \X Timestamps :
             \E r \in Visible : r.key = p[1] /\ r.ts >= p[2]}

Store == INSTANCE KvStore WITH reach <- Reach

StoreSpec == Store!Spec

-----------------------------------------------------------------------------
(* Liveness: a worker that has begun a handler goes on with it.            *)

CompactStep ==
    \/ CompactScope \/ CompactOverrun \/ CompactUnblock \/ CompactLoad
    \/ CompactSkipPart \/ CompactMakePart \/ CompactFail
    \/ CompactBlock \/ CompactAlone \/ CompactDeleted
    \/ CompactKeepPart \/ CompactDropOld \/ CompactMoveNew \/ CompactEnd
    \/ \E n \in DumpNumbers :
          CompactRename(n) \/ CompactConflict(n) \/ CompactDelete(n)

DumpStep(d) ==
    DumpNotNeeded(d) \/ DumpSort(d) \/ DumpSave(d) \/ DumpFail(d) \/ DumpClear(d)

SelectStep(s) ==
    \/ SelectPart(s) \/ SelectDumps(s) \/ SelectMemtable(s)
    \/ SelectNoMemtable(s) \/ SelectCopy(s)

Fairness ==
    /\ \A i \in Inserters : WF_vars(InsertAdd(i))
    /\ \A d \in Dumpers : WF_vars(DumpStep(d))
    /\ \A s \in Selectors : WF_vars(SelectStep(s))
    /\ WF_vars(CompactStep)

FairSpec == Spec /\ Fairness

(* A compaction gets the table for itself twice, whatever traffic there    *)
(* is, and gives it back: the table never stays blocked.  But one that     *)
(* finds a D#.tmpc of a failed compaction may write behind dumpNumbers.    *)
CompactionEnds ==
    cpc # "idle" ~> \/ cpc = "idle" /\ ~blocked
                    \/ cpc = "overrun" /\ \E n \in DumpNumbers : tmpc[n] # {}
=============================================================================
