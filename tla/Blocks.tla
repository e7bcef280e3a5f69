------------------------------- MODULE Blocks -------------------------------
(***************************************************************************)
(* The blocks of the file system, lfs/src/fs.c: the bitmap, the files of a *)
(* table's folder with the blocks they list, and the workers that allocate *)
(* and free them: CREATE, DROP, dumps and compactions.  A DROP takes no    *)
(* availability guard: it runs beside dumps and compactions of its table,  *)
(* and beside the CREATE of the next table of that name.                   *)
(*                                                                         *)
(* What is in a block and how a record is laid out is left out; so are     *)
(* SELECTs, which only read.  fs_block_alloc and fs_block_free hold        *)
(* mtxBlocks and leave the bitmap flushed to disk: one step each.          *)
(***************************************************************************)
EXTENDS Naturals, FiniteSets

CONSTANTS Tables,       \* table names, and the names of their folders
          Parts,        \* partitions of a table
          NumBlocks,    \* meta.blocksCount
          FileBlocks,   \* bound: blocks of a file
          Threads,      \* worker threads
          MaxCreates,   \* bound: CREATEs
          MaxDumps,     \* bound: dumps
          MaxCompacts,  \* bound: compactions
          MaxCrashes    \* bound: crashes

ASSUME SizesAssumption ==
    /\ Parts \in Nat \ {0} /\ NumBlocks \in Nat /\ FileBlocks \in Nat \ {0}
    /\ {MaxCreates, MaxDumps, MaxCompacts, MaxCrashes} \subseteq Nat

ASSUME ThreadsAssumption == IsFiniteSet(Threads)

VARIABLES
    used,     \* the bitmap
    files,    \* path -> file
    dir,      \* table -> its folder: "none", "bare", or "full" (Metadata)
    map,      \* tablesMap: name -> the incarnation of the table_t, 0 if none
    th,       \* thread -> what its task is doing
    count,    \* how many of each operation, for the bounds
    leaked,   \* history: blocks that were left marked with no owner
    doubtful  \* history: blocks freed while a file that lists them stayed

vars == <<used, files, dir, map, th, count, leaked, doubtful>>

BlockNumbers == 0 .. NumBlocks - 1
Kinds == {"bin", "binc", "tmp", "tmpc"}
Path == [t : Tables, kind : Kinds, n : 0 .. Parts + MaxDumps]
File(t, kind, n) == [t |-> t, kind |-> kind, n |-> n]

(* A fs_file_t on disk: "torn" between cx_file_touch and config_save.      *)
(* `freed` is history: its blocks have been freed.                         *)
NoFile == [st |-> "none", blocks |-> {}, freed |-> FALSE]
Torn == [st |-> "torn", blocks |-> {}, freed |-> FALSE]
Saved(blocks) == [st |-> "saved", blocks |-> blocks, freed |-> FALSE]

(* _fs_file_load                                                           *)
Loads(p) == files[p].st = "saved"
Exists(p) == files[p].st # "none"

Idle == [op |-> "none", pc |-> "idle", t |-> "none", inc |-> 0, part |-> 0,
         path |-> File("none", "none", 0), held |-> {}, loaded |-> {},
         scope |-> {}]

Init ==
    /\ used = {}
    /\ files = [p \in Path |-> NoFile]
    /\ dir = [t \in Tables |-> "none"]
    /\ map = [t \in Tables |-> 0]
    /\ th = [w \in Threads |-> Idle]
    /\ count = [create |-> 0, dump |-> 0, compact |-> 0, crash |-> 0]
    /\ leaked = {} /\ doubtful = {}

At(w, op, pc) == th[w].op = op /\ th[w].pc = pc
Counted(op, bound) == count[op] < bound /\ count' = [count EXCEPT ![op] = @ + 1]
Freed(f) == [f EXCEPT !.freed = TRUE]

(* Who has a block: files that list it, and threads that have allocated it *)
(* and not written it into a file yet.                                     *)
Owners(b) ==
    {p \in Path : b \in files[p].blocks /\ ~files[p].freed}
      \cup {w \in Threads : b \in th[w].held}

(* The availability guard of the table_t that w works on: dumps inside;    *)
(* CREATE and the stages 1 and 3 of a compaction block it.                 *)
On(w, t, inc) == th[w].t = t /\ th[w].inc = inc
Users(t, inc) == {w \in Threads : On(w, t, inc) /\ th[w].op = "dump"}
Blocked(t, inc) ==
    \E w \in Threads : On(w, t, inc) /\
        \/ th[w].op = "create"
        \/ /\ th[w].op = "compact"
           /\ th[w].pc \in {"rename", "alone", "swap", "free", "remove", "move"}

-----------------------------------------------------------------------------
(* Blocks.                                                                 *)

(* fs_block_alloc of one block scans the bitmap from the start.            *)
FreeBlocks == BlockNumbers \ used
LowestFree == CHOOSE b \in FreeBlocks : \A c \in FreeBlocks : b <= c

(* fs_block_free clears the bits, whoever has the blocks by now.           *)
FreeTaken(w) ==
    LET p == th[w].path
        mine == files[p].blocks = th[w].loaded /\ ~files[p].freed
    IN
    /\ used' = used \ th[w].loaded
    /\ leaked' = leaked \ th[w].loaded
    /\ files' = IF mine THEN [files EXCEPT ![p] = Freed(@)] ELSE files
    /\ doubtful' = doubtful \cup
         {b \in th[w].loaded : Owners(b) \ (IF mine THEN {p} ELSE {}) # {}}

(* A metadata file is replaced or removed with its blocks still marked.    *)
Abandoned(p) == IF files[p].freed THEN {} ELSE files[p].blocks

(* _memtable_save and fs_table_create take their blocks one at a time.     *)
Alloc(w) ==
    /\ th[w].pc = "alloc" /\ FreeBlocks # {}
    /\ Cardinality(th[w].held) < FileBlocks
    /\ th[w].op = "create" => th[w].held = {}
    /\ used' = used \cup {LowestFree}
    /\ th' = [th EXCEPT ![w].held = @ \cup {LowestFree}]
    /\ UNCHANGED <<files, dir, map, count, leaked, doubtful>>

(* fs_table_dump_number_next: 0 if there is no folder.                     *)
NumberNext(t) ==
    IF dir[t] = "none" THEN 0
    ELSE LET taken == {p.n : p \in {q \in Path : /\ q.t = t /\ q.kind = "tmp"
                                                 /\ Exists(q)}} \cup {0}
         IN 1 + CHOOSE n \in taken : \A m \in taken : m <= n

Target(w) ==
    CASE th[w].op = "create" -> File(th[w].t, "bin", th[w].part)
      [] th[w].op = "compact" -> File(th[w].t, "binc", th[w].part)
      [] OTHER -> File(th[w].t, "tmp", NumberNext(th[w].t))

(* The records may end where a block does: the last block, which stays     *)
(* empty, is then given back.                                              *)
Allocated(w) ==
    /\ th[w].pc = "alloc" /\ th[w].held # {}
    /\ \E spare \in {{}} \cup {{b} : b \in th[w].held} :
          /\ spare # {} => th[w].op # "create" /\ spare # th[w].held
          /\ used' = used \ spare
          /\ th' = [th EXCEPT ![w].pc = "touch", ![w].path = Target(w),
                             ![w].held = @ \ spare]
    /\ UNCHANGED <<files, dir, map, count, leaked, doubtful>>

(* A task that ends; a failed CREATE leaves its table_t registered.        *)
End(w) == th' = [th EXCEPT ![w] = Idle]

(* Mutant: the blocks of a file that did not fit are not freed.            *)
AllocFailsKeeping(w) ==
    /\ th[w].pc = "alloc" /\ FreeBlocks = {}
    /\ End(w)
    /\ UNCHANGED <<used, files, dir, map, count, leaked, doubtful>>

(* No block left, or fs_block_write fails for a block that _memtable_save  *)
(* has allocated: what was allocated is freed, and the task fails.         *)
AllocFails(w) ==
    /\ th[w].pc = "alloc"
    /\ th[w].op = "create" \/ th[w].held = {} => FreeBlocks = {}
    /\ used' = used \ th[w].held
    /\ End(w)
    /\ UNCHANGED <<files, dir, map, count, leaked, doubtful>>

(* _fs_file_save removes the file that is there and touches a new one,     *)
(* cx_file_touch makes the folder if there is none ...                     *)
SaveTouch(w) ==
    LET p == th[w].path IN
    /\ th[w].pc = "touch"
    /\ files' = [files EXCEPT ![p] = Torn]
    /\ leaked' = leaked \cup Abandoned(p)
    /\ dir' = [dir EXCEPT ![p.t] = IF @ = "none" THEN "bare" ELSE @]
    /\ th' = [th EXCEPT ![w].pc = "write"]
    /\ UNCHANGED <<used, map, count, doubtful>>

AfterSave(w) ==
    IF th[w].op # "dump" /\ th[w].part + 1 < Parts
    THEN [th[w] EXCEPT !.pc = IF th[w].op = "create" THEN "alloc" ELSE "make",
                       !.part = @ + 1, !.held = {}]
    ELSE IF th[w].op = "compact"
    THEN [th[w] EXCEPT !.pc = "block", !.part = Parts, !.held = {}]
    ELSE Idle

(* ... and config_save writes it; nobody looks whether it could.           *)
SaveWrite(w) ==
    LET p == th[w].path IN
    /\ th[w].pc = "write"
    /\ IF dir[p.t] = "none"
       THEN /\ leaked' = leaked \cup th[w].held
            /\ UNCHANGED files
       ELSE /\ files' = [files EXCEPT ![p] = Saved(th[w].held)]
            /\ leaked' = leaked \cup Abandoned(p)
    /\ th' = [th EXCEPT ![w] = AfterSave(w)]
    /\ UNCHANGED <<used, dir, map, count, doubtful>>

(* The metadata file cannot be created: the task fails and nobody frees    *)
(* the blocks.                                                             *)
SaveFails(w) ==
    LET p == th[w].path IN
    /\ th[w].pc = "touch"
    /\ files' = [files EXCEPT ![p] = NoFile]
    /\ leaked' = leaked \cup th[w].held \cup Abandoned(p)
    /\ End(w)
    /\ UNCHANGED <<used, dir, map, count, doubtful>>

-----------------------------------------------------------------------------
(* fs_table_create                                                         *)
CreateBegin(w, t) ==
    /\ th[w] = Idle /\ map[t] = 0
    /\ Counted("create", MaxCreates)
    /\ map' = [map EXCEPT ![t] = count'.create]
    /\ th' = [th EXCEPT ![w] = [Idle EXCEPT !.op = "create", !.pc = "mkdir",
                                            !.t = t, !.inc = count'.create]]
    /\ UNCHANGED <<used, files, dir, leaked, doubtful>>

(* The folder may still be there with what is in it.                       *)
CreateFolder(w) ==
    /\ At(w, "create", "mkdir")
    /\ dir' = [dir EXCEPT ![th[w].t] = IF @ = "none" THEN "bare" ELSE @]
    /\ th' = [th EXCEPT ![w].pc = "meta"]
    /\ UNCHANGED <<used, files, map, count, leaked, doubtful>>

CreateMetadata(w) ==
    /\ At(w, "create", "meta")
    /\ dir' = [dir EXCEPT ![th[w].t] = "full"]
    /\ th' = [th EXCEPT ![w].pc = "alloc"]
    /\ UNCHANGED <<used, files, map, count, leaked, doubtful>>

-----------------------------------------------------------------------------
(* memtable_make_dump; one at a time holds the memtable's mutex.           *)
DumpBegin(w, t) ==
    /\ th[w] = Idle /\ map[t] # 0
    /\ ~Blocked(t, map[t]) /\ Users(t, map[t]) = {}
    /\ Counted("dump", MaxDumps)
    /\ th' = [th EXCEPT ![w] = [Idle EXCEPT !.op = "dump", !.pc = "alloc",
                                            !.t = t, !.inc = map[t]]]
    /\ UNCHANGED <<used, files, dir, map, leaked, doubtful>>

-----------------------------------------------------------------------------
(* worker_handle_compact                                                   *)
Compacting(t, inc) ==
    \E w \in Threads : On(w, t, inc) /\ th[w].op = "compact"

CompactBegin(w, t) ==
    /\ th[w] = Idle /\ map[t] # 0
    /\ ~Blocked(t, map[t]) /\ ~Compacting(t, map[t])
    /\ Counted("compact", MaxCompacts)
    /\ th' = [th EXCEPT ![w] = [Idle EXCEPT !.op = "compact", !.pc = "rename",
                                            !.t = t, !.inc = map[t]]]
    /\ UNCHANGED <<used, files, dir, map, leaked, doubtful>>

(* Stage 1, alone: every D#.tmp becomes a D#.tmpc, until one is in the     *)
(* way.  That the numbers have room in dumpNumbers is taken for granted    *)
(* here: NumbersFit of LsmStore.                                           *)
Tmp(t) == {p \in Path : p.t = t /\ p.kind = "tmp" /\ Loads(p)}
Tmpc(p) == [p EXCEPT !.kind = "tmpc"]
Renamed(moved) ==
    [p \in Path |-> IF p \in moved THEN NoFile
                    ELSE IF p.kind = "tmpc" /\ [p EXCEPT !.kind = "tmp"] \in moved
                    THEN files[[p EXCEPT !.kind = "tmp"]] ELSE files[p]]

CompactScope(w) ==
    LET t == th[w].t
        stuck == {p \in Tmp(t) : Exists(Tmpc(p))}
    IN
    /\ At(w, "compact", "rename") /\ Users(th[w].t, th[w].inc) = {}
    /\ \E moved \in SUBSET (Tmp(t) \ stuck) :
          /\ stuck = {} => moved = Tmp(t)
          /\ files' = Renamed(moved)
    /\ IF stuck # {} THEN End(w)
       ELSE th' = [th EXCEPT ![w].pc = "make",
              ![w].scope = {p.n : p \in {q \in Path : /\ q.t = t /\ Exists(q)
                                          /\ q.kind \in {"tmp", "tmpc"}}}]
    /\ UNCHANGED <<used, dir, map, count, leaked, doubtful>>

(* Stage 2: a P#.binc for each partition the dumps have records of, unless *)
(* the partition cannot be read.                                           *)
CompactMake(w) ==
    /\ At(w, "compact", "make") /\ th[w].scope # {}
    /\ Loads(File(th[w].t, "bin", th[w].part))
    /\ IF map[th[w].t] # 0 THEN th' = [th EXCEPT ![w].pc = "alloc"] ELSE End(w)
    /\ UNCHANGED <<used, files, dir, map, count, leaked, doubtful>>

CompactSkip(w) ==
    /\ At(w, "compact", "make")
    /\ th' = [th EXCEPT ![w] = AfterSave(w)]
    /\ UNCHANGED <<used, files, dir, map, count, leaked, doubtful>>

(* Stage 3, alone: fs_file_delete of the D#.tmpc ...                       *)
CompactBlock(w) ==
    /\ At(w, "compact", "block")
    /\ th' = [th EXCEPT ![w].pc = "alone"]
    /\ UNCHANGED <<used, files, dir, map, count, leaked, doubtful>>

CompactAlone(w) ==
    /\ At(w, "compact", "alone") /\ Users(th[w].t, th[w].inc) = {}
    /\ th' = [th EXCEPT ![w].pc = "swap", ![w].part = 0]
    /\ UNCHANGED <<used, files, dir, map, count, leaked, doubtful>>

Load(w, p, pc) ==
    th' = [th EXCEPT ![w].path = p, ![w].loaded = files[p].blocks,
                     ![w].pc = pc]

CompactDelete(w) ==
    /\ At(w, "compact", "swap")
    /\ \E n \in th[w].scope : LET p == File(th[w].t, "tmpc", n) IN
          IF Loads(p)
          THEN th' = [th EXCEPT ![w].path = p, ![w].loaded = files[p].blocks,
                                ![w].scope = @ \ {n}, ![w].pc = "free"]
          ELSE th' = [th EXCEPT ![w].scope = @ \ {n}]
    /\ UNCHANGED <<used, files, dir, map, count, leaked, doubtful>>

(* ... and of each P#.bin that a P#.binc replaces.                         *)
CompactReplace(w) ==
    LET p == File(th[w].t, "bin", th[w].part)
        new == File(th[w].t, "binc", th[w].part)
    IN
    /\ At(w, "compact", "swap") /\ th[w].scope = {} /\ th[w].part < Parts
    /\ IF Loads(p) /\ Exists(new)
       THEN Load(w, p, "free")
       ELSE th' = [th EXCEPT ![w].part = @ + 1]
    /\ UNCHANGED <<used, files, dir, map, count, leaked, doubtful>>

CompactEnd(w) ==
    /\ At(w, "compact", "swap") /\ th[w].scope = {} /\ th[w].part = Parts
    /\ End(w)
    /\ UNCHANGED <<used, files, dir, map, count, leaked, doubtful>>

(* fs_file_delete: fs_block_free, then cx_file_remove.                     *)
FileFree(w) ==
    /\ At(w, "compact", "free")
    /\ FreeTaken(w)
    /\ th' = [th EXCEPT ![w].pc = "remove", ![w].loaded = {}]
    /\ UNCHANGED <<dir, map, count>>

FileRemove(w) ==
    LET p == th[w].path IN
    /\ At(w, "compact", "remove")
    /\ files' = [files EXCEPT ![p] = NoFile]
    /\ leaked' = leaked \cup Abandoned(p)
    /\ th' = [th EXCEPT ![w].pc = IF p.kind = "bin" THEN "move" ELSE "swap"]
    /\ UNCHANGED <<used, dir, map, count, doubtful>>

(* Mutant: the new partition is copied, not moved.                         *)
CompactCopy(w) ==
    LET p == th[w].path  new == [p EXCEPT !.kind = "binc"] IN
    /\ At(w, "compact", "move")
    /\ IF Exists(new) /\ ~Exists(p)
       THEN /\ files' = [files EXCEPT ![p] = files[new]]
            /\ th' = [th EXCEPT ![w].pc = "swap", ![w].part = @ + 1]
       ELSE /\ End(w)
            /\ UNCHANGED files
    /\ UNCHANGED <<used, dir, map, count, leaked, doubtful>>

CompactMove(w) ==
    LET p == th[w].path  new == [p EXCEPT !.kind = "binc"] IN
    /\ At(w, "compact", "move")
    /\ IF Exists(new) /\ ~Exists(p)
       THEN /\ files' = [files EXCEPT ![p] = files[new], ![new] = NoFile]
            /\ th' = [th EXCEPT ![w].pc = "swap", ![w].part = @ + 1]
       ELSE /\ End(w)
            /\ UNCHANGED files
    /\ UNCHANGED <<used, dir, map, count, leaked, doubtful>>

-----------------------------------------------------------------------------
(* fs_table_delete                                                         *)
DropBegin(w, t) ==
    /\ th[w] = Idle /\ map[t] # 0
    /\ map' = [map EXCEPT ![t] = 0]
    /\ th' = [th EXCEPT ![w] = [Idle EXCEPT !.op = "drop", !.t = t,
                                            !.inc = map[t], !.pc = "meta"]]
    /\ UNCHANGED <<used, files, dir, count, leaked, doubtful>>

(* The Metadata tells how many partitions there are.                       *)
DropMeta(w) ==
    /\ At(w, "drop", "meta")
    /\ th' = [th EXCEPT ![w].pc = IF dir[th[w].t] = "full" THEN "load"
                                  ELSE "rmdir"]
    /\ UNCHANGED <<used, files, dir, map, count, leaked, doubtful>>

DropLoad(w) ==
    LET p == File(th[w].t, "bin", th[w].part) IN
    /\ At(w, "drop", "load")
    /\ IF th[w].part = Parts THEN th' = [th EXCEPT ![w].pc = "rmdir"]
       ELSE IF Loads(p) THEN Load(w, p, "free")
       ELSE th' = [th EXCEPT ![w].part = @ + 1]
    /\ UNCHANGED <<used, files, dir, map, count, leaked, doubtful>>

DropFree(w) ==
    /\ At(w, "drop", "free")
    /\ FreeTaken(w)
    /\ th' = [th EXCEPT ![w].pc = "load", ![w].part = @ + 1, ![w].loaded = {}]
    /\ UNCHANGED <<dir, map, count>>

(* cx_file_remove of the folder, file by file, the Metadata at some point. *)
InFolder(t) == {p \in Path : p.t = t /\ Exists(p)}

DropRemoveFile(w) ==
    /\ At(w, "drop", "rmdir")
    /\ \E p \in InFolder(th[w].t) :
          /\ files' = [files EXCEPT ![p] = NoFile]
          /\ leaked' = leaked \cup Abandoned(p)
    /\ UNCHANGED <<used, dir, map, th, count, doubtful>>

DropMetadata(w) ==
    /\ At(w, "drop", "rmdir") /\ dir[th[w].t] = "full"
    /\ dir' = [dir EXCEPT ![th[w].t] = "bare"]
    /\ UNCHANGED <<used, files, map, th, count, leaked, doubtful>>

DropEnd(w) ==
    LET t == th[w].t IN
    /\ At(w, "drop", "rmdir") /\ InFolder(t) = {} /\ dir[t] # "full"
    /\ dir' = [dir EXCEPT ![t] = "none"]
    /\ End(w)
    /\ UNCHANGED <<used, files, map, count, leaked, doubtful>>

(* _cx_file_rmdir stops at the first file it cannot remove, and rmdir      *)
(* fails if there is a new one: the DROP ends, and the rest stays.         *)
DropStops(w) ==
    /\ At(w, "drop", "rmdir")
    /\ End(w)
    /\ UNCHANGED <<used, files, dir, map, count, leaked, doubtful>>

-----------------------------------------------------------------------------
(* The process dies and fs_init loads bitmap and tables as they are: a     *)
(* table is a folder with a Metadata file.                                 *)
LoadBlocks == used
LoadTables ==
    [t \in Tables |-> IF dir[t] = "full" THEN MaxCreates + 1 ELSE 0]

Crash ==
    /\ Counted("crash", MaxCrashes)
    /\ leaked' = leaked \cup UNION {th[w].held : w \in Threads}
    /\ doubtful' = doubtful
         \cup UNION {files[p].blocks : p \in {q \in Path : files[q].freed}}
    /\ files' = [p \in Path |-> [files[p] EXCEPT !.freed = FALSE]]
    /\ used' = LoadBlocks /\ map' = LoadTables
    /\ th' = [w \in Threads |-> Idle]
    /\ UNCHANGED dir

Work(w) ==
    \/ Alloc(w) \/ Allocated(w) \/ AllocFails(w)
    \/ SaveTouch(w) \/ SaveWrite(w) \/ SaveFails(w)
    \/ CreateFolder(w) \/ CreateMetadata(w)
    \/ CompactScope(w) \/ CompactMake(w) \/ CompactSkip(w) \/ CompactBlock(w)
    \/ CompactAlone(w) \/ CompactDelete(w) \/ CompactReplace(w) \/ CompactEnd(w)
    \/ FileFree(w) \/ FileRemove(w) \/ CompactMove(w)
    \/ DropMeta(w) \/ DropLoad(w) \/ DropFree(w) \/ DropRemoveFile(w)
    \/ DropMetadata(w) \/ DropEnd(w) \/ DropStops(w)

Start(w, t) ==
    CreateBegin(w, t) \/ DumpBegin(w, t) \/ CompactBegin(w, t) \/ DropBegin(w, t)

Next == Crash \/ \E w \in Threads : Work(w) \/ \E t \in Tables : Start(w, t)

Spec == Init /\ [][Next]_vars

-----------------------------------------------------------------------------
(* fs.c:658, :689 and :784: no block belongs to two files, or to a file    *)
(* and to a task that is filling it, as long as it was not freed by        *)
(* somebody who had read the block list of a file that is no longer there, *)
(* and no crash came between fs_block_free and the removal of the file.    *)
NoSharedBlock ==
    \A b \in BlockNumbers \ doubtful : \A o, q \in Owners(b) : o = q

(* fs.c:658 and :689: a block is marked exactly while it has an owner: no  *)
(* file lists a block that may be given away, and no block is lost but by  *)
(* the ways that `leaked` names (a DROP's dumps and P#.binc, a P#.binc     *)
(* that is saved again, a metadata file that could not be written, a       *)
(* crash).                                                                 *)
UsedIsOwned ==
    \A b \in BlockNumbers \ doubtful :
        b \in used <=> Owners(b) # {} \/ b \in leaked
=============================================================================
