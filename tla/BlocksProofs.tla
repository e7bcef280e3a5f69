---------------------------- MODULE BlocksProofs ----------------------------
(***************************************************************************)
(* Theorems about Blocks, for any number of tables, partitions, blocks and *)
(* worker threads, and any number of crashes.                              *)
(***************************************************************************)
EXTENDS Blocks, WellFoundedInduction, FiniteSetTheorems, TLAPS

-----------------------------------------------------------------------------
(* Types, and what a thread knows where it stands.                         *)

Numbers == 0 .. Parts + MaxDumps

FileState ==
    [st : {"none", "torn", "saved"}, blocks : SUBSET BlockNumbers, freed : BOOLEAN]

Ops == {"none", "create", "dump", "compact", "drop"}

Pcs == {"idle", "mkdir", "meta", "alloc", "touch", "write", "rename", "make",
        "block", "alone", "swap", "free", "remove", "move", "load", "rmdir"}

Thread ==
    [op : Ops, pc : Pcs, t : Tables \cup {"none"}, inc : Nat, part : 0 .. Parts,
     path : Path \cup {Idle.path}, held : SUBSET BlockNumbers,
     loaded : SUBSET BlockNumbers, scope : SUBSET Numbers]

TypeOK ==
    /\ used \subseteq BlockNumbers
    /\ files \in [Path -> FileState]
    /\ \A p \in Path : files[p].st # "saved" => files[p].blocks = {}
    /\ map \in [Tables -> Nat]
    /\ count \in [{"create", "dump", "compact", "crash"} -> Nat]
    /\ count["dump"] <= MaxDumps
    /\ th \in [Threads -> Thread]

(* What a thread's task is where it stands: a CREATE and a compaction have *)
(* a partition in their hands, and one that saves or deletes has a path.   *)
Pending == {"touch", "write"}
Deleting == {"free", "remove", "move"}

KindOf(op) == CASE op = "create" -> "bin" [] op = "compact" -> "binc" [] OTHER -> "tmp"

Placed(x) ==
    /\ x.op = "none" <=> x.pc = "idle"
    /\ x.pc # "idle" => x.t \in Tables
    /\ x.held # {} => x.pc \in {"alloc"} \cup Pending
    /\ x.pc \in {"mkdir", "meta", "rename", "make", "alloc"} \cup Pending
          => x.op = "dump" \/ x.part < Parts
    /\ x.pc \in {"alloc"} \cup Pending => x.op \in {"create", "dump", "compact"}
    /\ x.pc \in Pending => x.path \in Path /\ x.path.kind = KindOf(x.op)
    /\ x.pc \in Deleting => x.op \in {"compact", "drop"} /\ x.path \in Path
    /\ x.pc = "move" => x.path.kind = "bin"
    /\ x.pc \in Deleting /\ (x.op = "drop" \/ x.path.kind = "bin") => x.part < Parts

ThreadsInv == \A w \in Threads : Placed(th[w])

(* The dumps that have not chosen their number yet.                        *)
Choosing == {w \in Threads : At(w, "dump", "alloc")}

Saving(w) == th[w].op = "dump" /\ th[w].pc \in Pending

(* Each dump takes a number that is greater by one at most: the numbers    *)
(* stay within the number of dumps there have been.                        *)
NumbersInv ==
    /\ Cardinality(Choosing) <= count["dump"]
    /\ \A p \in Path : p.kind = "tmp" /\ Exists(p) =>
          p.n + Cardinality(Choosing) <= count["dump"]
    /\ \A w \in Threads : Saving(w) =>
          th[w].path.n + Cardinality(Choosing) <= count["dump"]

-----------------------------------------------------------------------------
(* Blocks and their owners.                                                *)

Lists(p, b) == b \in files[p].blocks /\ ~files[p].freed
Holds(w, b) == b \in th[w].held

Owned(b) == (\E p \in Path : Lists(p, b)) \/ (\E w \in Threads : Holds(w, b))

(* One owner at most, and a block that was left is nobody's.               *)
BlockInv(b) ==
    /\ \A p, q \in Path : Lists(p, b) /\ Lists(q, b) => p = q
    /\ \A v, w \in Threads : Holds(v, b) /\ Holds(w, b) => v = w
    /\ \A p \in Path, w \in Threads : ~(Lists(p, b) /\ Holds(w, b))
    /\ b \in used <=> Owned(b) \/ b \in leaked
    /\ ~(Owned(b) /\ b \in leaked)

OwnersInv == \A b \in BlockNumbers \ doubtful : BlockInv(b)

IInv == TypeOK /\ ThreadsInv /\ NumbersInv /\ OwnersInv

-----------------------------------------------------------------------------
(* Numbers.                                                                *)

LEMMA Least ==
    ASSUME NEW T \in SUBSET Nat, T # {}
    PROVE  \E x \in T : \A y \in T : x <= y
<1> DEFINE R == OpToRel(<, Nat)
<1>1. IsWellFoundedOn(R, Nat)
  BY NatLessThanWellFounded
<1>2. \A x, y \in Nat : x < y => <<x, y>> \in R
  BY DEF OpToRel
<1> HIDE DEF R
<1>3. PICK x \in T : \A y \in T : ~(<<y, x>> \in R)
  BY <1>1, WFMin
<1>4. x \in Nat /\ \A y \in T : y \in Nat /\ ~(y < x)
  BY <1>2, <1>3
<1> QED
  BY <1>3, <1>4

LEMMA Greatest ==
    ASSUME NEW N \in Nat, NEW T \in SUBSET (0 .. N), T # {}
    PROVE  \E x \in T : \A y \in T : y <= x
<1> DEFINE S == {k \in Nat : N - k \in T}
<1>1. \A y \in T : y \in Nat /\ N - y \in Nat /\ N - (N - y) = y
  OBVIOUS
<1>2. S # {}
  <2>1. PICK y \in T : TRUE
    OBVIOUS
  <2> QED
    BY <1>1, <2>1
<1>3. PICK m \in S : \A k \in S : m <= k
  <2>1. S \in SUBSET Nat
    OBVIOUS
  <2> HIDE DEF S
  <2> QED
    BY <1>2, <2>1, Least
<1>4. N - m \in T /\ m \in Nat
  OBVIOUS
<1>5. ASSUME NEW y \in T PROVE y <= N - m
  <2>1. y \in Nat /\ N - y \in S
    BY <1>1
  <2>2. m <= N - y
    BY <1>3, <2>1
  <2> QED
    BY <1>4, <2>1, <2>2
<1> QED
  BY <1>4, <1>5

(* fs_block_alloc finds a block that is free.                              *)
LEMMA LowestFreeIsFree ==
    ASSUME FreeBlocks # {}
    PROVE  LowestFree \in FreeBlocks
<1>1. FreeBlocks \in SUBSET Nat
  BY SizesAssumption DEF FreeBlocks, BlockNumbers
<1>2. \E b \in FreeBlocks : \A c \in FreeBlocks : b <= c
  <2> HIDE DEF FreeBlocks
  <2> QED
    BY <1>1, Least
<1> QED
  BY <1>2 DEF LowestFree

LEMMA Sizes ==
    /\ Parts \in Nat /\ Parts > 0 /\ MaxDumps \in Nat /\ NumBlocks \in Nat
    /\ 0 \in 0 .. Parts
BY SizesAssumption

(* The number of a dump is greater by one at most than those there are.    *)
LEMMA NumberNextBounded ==
    ASSUME NEW t, NEW K \in Nat,
           \A p \in Path : p.kind = "tmp" /\ Exists(p) => p.n <= K
    PROVE  NumberNext(t) \in 0 .. K + 1
<1> DEFINE taken == {p.n : p \in {q \in Path : q.t = t /\ q.kind = "tmp" /\ Exists(q)}}
                      \cup {0}
<1>1. taken \in SUBSET (0 .. K) /\ taken # {}
  BY Sizes DEF Path
<1>2. \E n \in taken : \A m \in taken : m <= n
  <2> HIDE DEF taken
  <2> QED
    BY <1>1, Greatest
<1> DEFINE top == CHOOSE n \in taken : \A m \in taken : m <= n
<1>3. top \in taken
  <2> HIDE DEF taken
  <2> QED
    BY <1>2
<1>4. 1 + top \in 0 .. K + 1
  <2> HIDE DEF taken, top
  <2> QED
    BY <1>1, <1>3
<1> QED
  BY <1>4 DEF NumberNext

LEMMA ChoosingFinite ==
    /\ IsFiniteSet(Choosing)
    /\ Cardinality(Choosing) \in Nat
    /\ \A w \in Choosing : Cardinality(Choosing) > 0
<1>1. IsFiniteSet(Choosing)
  BY ThreadsAssumption, FS_Subset DEF Choosing
<1> QED
  BY <1>1, FS_CardinalityType, FS_EmptySet

(* A dump that has allocated its blocks may have the number it chooses.    *)
LEMMA TargetIsPath ==
    ASSUME TypeOK, ThreadsInv, NumbersInv, NEW w \in Threads, th[w].pc = "alloc"
    PROVE  /\ Target(w) \in Path /\ Target(w).kind = KindOf(th[w].op)
           /\ th[w].op = "dump" =>
                 Target(w).n + (Cardinality(Choosing) - 1) <= count["dump"]
<1>1. Placed(th[w]) /\ th[w] \in Thread /\ th[w].t \in Tables
  BY DEF TypeOK, ThreadsInv, Placed
<1>2. CASE th[w].op \in {"create", "compact"}
  <2>1. th[w].part \in 0 .. Parts + MaxDumps
    BY <1>1, Sizes DEF Thread
  <2> QED
    BY <1>1, <1>2, <2>1 DEF Target, File, Path, KindOf, Kinds
<1>3. CASE th[w].op = "dump"
  <2> DEFINE c == Cardinality(Choosing)
             K == count["dump"] - c
  <2>1. w \in Choosing
    BY <1>3 DEF Choosing, At
  <2>2. c \in Nat /\ c > 0 /\ c <= count["dump"] /\ count["dump"] \in Nat /\ count["dump"] <= MaxDumps
    BY <2>1, ChoosingFinite DEF NumbersInv, TypeOK
  <2>3. \A p \in Path : p.n \in Nat
    BY Sizes DEF Path
  <2>4. K \in Nat /\ \A p \in Path : p.kind = "tmp" /\ Exists(p) => p.n <= K
    BY <2>2, <2>3 DEF NumbersInv
  <2> HIDE DEF c
  <2>5. NumberNext(th[w].t) \in 0 .. K + 1
    <3> HIDE DEF K
    <3> QED
      BY <2>4, NumberNextBounded
  <2>6. /\ NumberNext(th[w].t) \in 0 .. Parts + MaxDumps
        /\ NumberNext(th[w].t) + (c - 1) <= count["dump"]
    BY <2>2, <2>5, Sizes
  <2>7. Target(w) = File(th[w].t, "tmp", NumberNext(th[w].t))
    BY <1>3 DEF Target
  <2> QED
    BY <1>1, <1>3, <2>6, <2>7 DEF File, Path, KindOf, Kinds, c
<1> QED
  BY <1>1, <1>2, <1>3 DEF Placed

-----------------------------------------------------------------------------
(* What a step makes of its thread.                                        *)

LEMMA IdlePlaced == Idle \in Thread /\ Placed(Idle) /\ Idle.held = {} /\ Idle.op = "none"
BY Sizes DEF Idle, Thread, Placed, Ops, Pcs, Pending, Deleting, File

LEMMA AfterSavePlaced ==
    ASSUME NEW w, th[w] \in Thread, Placed(th[w]), th[w].pc \in {"make", "write"},
           th[w].pc = "make" => th[w].op = "compact"
    PROVE  /\ AfterSave(w) \in Thread /\ Placed(AfterSave(w))
           /\ AfterSave(w).held = {} /\ AfterSave(w).op # "dump"
<1>1. th[w].part \in Nat /\ th[w].op \in {"create", "dump", "compact"} /\ th[w].t \in Tables
  BY Sizes DEF Thread, Placed, Pending
<1>2. CASE th[w].op # "dump" /\ th[w].part + 1 < Parts
  <2>1. AfterSave(w) = [th[w] EXCEPT !.pc = IF th[w].op = "create" THEN "alloc" ELSE "make",
                                     !.part = @ + 1, !.held = {}]
    BY <1>2 DEF AfterSave
  <2>2. th[w].part + 1 \in 0 .. Parts
    BY <1>1, <1>2, Sizes
  <2> QED
    BY <1>1, <1>2, <2>1, <2>2 DEF Thread, Placed, Pending, Deleting, Pcs, Ops
<1>3. CASE ~(th[w].op # "dump" /\ th[w].part + 1 < Parts) /\ th[w].op = "compact"
  <2>1. AfterSave(w) = [th[w] EXCEPT !.pc = "block", !.part = Parts, !.held = {}]
    BY <1>3 DEF AfterSave
  <2>2. Parts \in 0 .. Parts
    BY Sizes
  <2> QED
    BY <1>1, <1>3, <2>1, <2>2 DEF Thread, Placed, Pending, Deleting, Pcs, Ops
<1>4. CASE ~(th[w].op # "dump" /\ th[w].part + 1 < Parts) /\ th[w].op # "compact"
  <2>1. AfterSave(w) = Idle
    BY <1>4 DEF AfterSave
  <2> QED
    BY <2>1, IdlePlaced
<1> QED
  BY <1>2, <1>3, <1>4

(* A step changes the one thread's state and leaves it well placed.        *)
Moves(w) ==
    /\ \E x \in Thread : Placed(x) /\ th' = [th EXCEPT ![w] = x]
    /\ \A v \in Threads \ {w} : th'[v] = th[v]

LEMMA SaveMoves ==
    ASSUME TypeOK, ThreadsInv, NumbersInv, NEW w \in Threads,
           Alloc(w) \/ Allocated(w) \/ AllocFails(w) \/ SaveTouch(w) \/ SaveWrite(w)
             \/ SaveFails(w) \/ CreateFolder(w) \/ CreateMetadata(w)
    PROVE  Moves(w)
<1>1. th \in [Threads -> Thread] /\ th[w] \in Thread /\ Placed(th[w])
  BY DEF TypeOK, ThreadsInv
<1> DEFINE now == th'[w]
<1>2. CASE Alloc(w)
  <2>1. LowestFree \in BlockNumbers
    BY <1>2, LowestFreeIsFree DEF Alloc, FreeBlocks
  <2> DEFINE x == [th[w] EXCEPT !.held = @ \cup {LowestFree}]
  <2>2. x \in Thread /\ Placed(x)
    BY <1>1, <1>2, <2>1 DEF Alloc, Thread, Placed, Pending, Deleting
  <2>3. th' = [th EXCEPT ![w] = x]
    BY <1>2 DEF Alloc
  <2> QED
    BY <1>1, <2>2, <2>3 DEF Moves
<1>3. CASE Allocated(w)
  <2>1. PICK spare \in {{}} \cup {{b} : b \in th[w].held} :
           th' = [th EXCEPT ![w].pc = "touch", ![w].path = Target(w), ![w].held = @ \ spare]
    BY <1>3 DEF Allocated
  <2> DEFINE x == [th[w] EXCEPT !.pc = "touch", !.path = Target(w), !.held = @ \ spare]
  <2>2. Target(w) \in Path /\ Target(w).kind = KindOf(th[w].op)
    BY <1>3, TargetIsPath DEF Allocated
  <2>3. x \in Thread /\ Placed(x)
    BY <1>1, <1>3, <2>2 DEF Allocated, Thread, Placed, Pending, Deleting, Pcs
  <2>4. th' = [th EXCEPT ![w] = x]
    BY <2>1
  <2> QED
    BY <1>1, <2>3, <2>4 DEF Moves
<1>4. CASE AllocFails(w) \/ SaveFails(w)
  BY <1>1, <1>4, IdlePlaced DEF AllocFails, SaveFails, End, Moves
<1>5. CASE SaveTouch(w)
  <2> DEFINE x == [th[w] EXCEPT !.pc = "write"]
  <2>1. x \in Thread /\ Placed(x)
    BY <1>1, <1>5 DEF SaveTouch, Thread, Placed, Pending, Deleting, Pcs
  <2> QED
    BY <1>1, <1>5, <2>1 DEF Moves, SaveTouch
<1>6. CASE SaveWrite(w)
  BY <1>1, <1>6, AfterSavePlaced DEF SaveWrite, Moves
<1>7. CASE CreateFolder(w)
  <2> DEFINE x == [th[w] EXCEPT !.pc = "meta"]
  <2>1. x \in Thread /\ Placed(x)
    BY <1>1, <1>7 DEF CreateFolder, At, Thread, Placed, Pending, Deleting, Pcs
  <2> QED
    BY <1>1, <1>7, <2>1 DEF Moves, CreateFolder
<1>8. CASE CreateMetadata(w)
  <2> DEFINE x == [th[w] EXCEPT !.pc = "alloc"]
  <2>1. x \in Thread /\ Placed(x)
    BY <1>1, <1>8 DEF CreateMetadata, At, Thread, Placed, Pending, Deleting, Pcs
  <2> QED
    BY <1>1, <1>8, <2>1 DEF Moves, CreateMetadata
<1> QED
  BY <1>2, <1>3, <1>4, <1>5, <1>6, <1>7, <1>8

LEMMA CompactMoves ==
    ASSUME TypeOK, ThreadsInv, NEW w \in Threads,
           CompactScope(w) \/ CompactMake(w) \/ CompactSkip(w) \/ CompactBlock(w)
             \/ CompactAlone(w) \/ CompactDelete(w) \/ CompactReplace(w) \/ CompactEnd(w)
             \/ FileFree(w) \/ FileRemove(w) \/ CompactMove(w)
    PROVE  Moves(w)
<1>1. th \in [Threads -> Thread] /\ th[w] \in Thread /\ Placed(th[w])
  BY DEF TypeOK, ThreadsInv
<1> USE DEF At, Thread, Placed, Pending, Deleting, Pcs, Ops
<1>2. \A x \in Thread : Placed(x) /\ th' = [th EXCEPT ![w] = x] => Moves(w)
  <2> SUFFICES ASSUME NEW x \in Thread, Placed(x), th' = [th EXCEPT ![w] = x]
               PROVE  Moves(w)
    OBVIOUS
  <2> QED
    BY <1>1 DEF Moves
<1>3. CASE CompactScope(w)
  <2> DEFINE t == th[w].t
             ns == {p.n : p \in {q \in Path : q.t = t /\ Exists(q) /\ q.kind \in {"tmp", "tmpc"}}}
             x == [th[w] EXCEPT !.pc = "make", !.scope = ns]
  <2>1. ns \subseteq Numbers
    BY DEF Path, Numbers
  <2>2. th' = [th EXCEPT ![w] = Idle] \/ th' = [th EXCEPT ![w] = x]
    BY <1>3 DEF CompactScope, End
  <2>3. th[w].op = "compact" /\ th[w].pc = "rename"
    BY <1>3 DEF CompactScope
  <2>4. x \in Thread /\ Placed(x)
    <3> HIDE DEF ns
    <3> QED
      BY <1>1, <2>1, <2>3
  <2> HIDE DEF x
  <2> QED
    BY <1>2, <2>2, <2>4, IdlePlaced
<1>4. CASE CompactMake(w)
  <2> DEFINE x == [th[w] EXCEPT !.pc = "alloc"]
  <2>1. x \in Thread /\ Placed(x)
    BY <1>1, <1>4 DEF CompactMake
  <2>2. th' = [th EXCEPT ![w] = x] \/ th' = [th EXCEPT ![w] = Idle]
    BY <1>4 DEF CompactMake, End
  <2> HIDE DEF x
  <2> QED
    BY <1>2, <2>1, <2>2, IdlePlaced
<1>5. CASE CompactSkip(w)
  <2>1. AfterSave(w) \in Thread /\ Placed(AfterSave(w))
    BY <1>1, <1>5, AfterSavePlaced DEF CompactSkip
  <2>2. th' = [th EXCEPT ![w] = AfterSave(w)]
    BY <1>5 DEF CompactSkip
  <2> QED
    BY <1>2, <2>1, <2>2
<1>6. CASE CompactBlock(w)
  <2> DEFINE x == [th[w] EXCEPT !.pc = "alone"]
  <2>1. x \in Thread /\ Placed(x) /\ th' = [th EXCEPT ![w] = x]
    BY <1>1, <1>6 DEF CompactBlock
  <2> HIDE DEF x
  <2> QED
    BY <1>2, <2>1
<1>7. CASE CompactAlone(w)
  <2> DEFINE x == [th[w] EXCEPT !.pc = "swap", !.part = 0]
  <2>1. x \in Thread /\ Placed(x) /\ th' = [th EXCEPT ![w] = x]
    BY <1>1, <1>7, Sizes DEF CompactAlone
  <2> HIDE DEF x
  <2> QED
    BY <1>2, <2>1
<1>8. CASE CompactDelete(w)
  <2>1. th[w].op = "compact" /\ th[w].pc = "swap"
    BY <1>8 DEF CompactDelete
  <2>2. PICK n \in th[w].scope :
           LET p == File(th[w].t, "tmpc", n) IN
           IF Loads(p)
           THEN th' = [th EXCEPT ![w].path = p, ![w].loaded = files[p].blocks,
                                 ![w].scope = @ \ {n}, ![w].pc = "free"]
           ELSE th' = [th EXCEPT ![w].scope = @ \ {n}]
    BY <1>8 DEF CompactDelete
  <2> DEFINE p == File(th[w].t, "tmpc", n)
             x == [th[w] EXCEPT !.path = p, !.loaded = files[p].blocks,
                                !.scope = @ \ {n}, !.pc = "free"]
             y == [th[w] EXCEPT !.scope = @ \ {n}]
  <2>3. p \in Path /\ p.kind = "tmpc" /\ files[p].blocks \subseteq BlockNumbers
    <3>1. p \in Path /\ p.kind = "tmpc"
      BY <1>1, <2>1 DEF File, Path, Kinds, Numbers
    <3> HIDE DEF p
    <3> QED
      BY <3>1 DEF TypeOK, FileState
  <2>4. th' = [th EXCEPT ![w] = x] \/ th' = [th EXCEPT ![w] = y]
    BY <2>2
  <2>5. y \in Thread /\ Placed(y)
    BY <1>1, <2>1
  <2>6. x \in Thread /\ Placed(x)
    <3> HIDE DEF p
    <3> QED
      BY <1>1, <2>1, <2>3
  <2> HIDE DEF x, y
  <2> QED
    BY <1>2, <2>4, <2>5, <2>6
<1>9. CASE CompactReplace(w)
  <2>1. th[w].op = "compact" /\ th[w].pc = "swap" /\ th[w].part < Parts
    BY <1>9 DEF CompactReplace
  <2> DEFINE p == File(th[w].t, "bin", th[w].part)
             x == [th[w] EXCEPT !.path = p, !.loaded = files[p].blocks, !.pc = "free"]
             y == [th[w] EXCEPT !.part = @ + 1]
  <2>2. p \in Path /\ files[p].blocks \subseteq BlockNumbers
    <3>1. p \in Path
      BY <1>1, <2>1, Sizes DEF File, Path, Kinds
    <3> HIDE DEF p
    <3> QED
      BY <3>1 DEF TypeOK, FileState
  <2>3. th' = [th EXCEPT ![w] = x] \/ th' = [th EXCEPT ![w] = y]
    BY <1>9 DEF CompactReplace, Load
  <2>4. th[w].part + 1 \in 0 .. Parts
    BY <1>1, <2>1, Sizes
  <2>5. y \in Thread /\ Placed(y)
    BY <1>1, <2>1, <2>4
  <2>6. x \in Thread /\ Placed(x)
    <3> HIDE DEF p
    <3> QED
      BY <1>1, <2>1, <2>2
  <2> HIDE DEF x, y
  <2> QED
    BY <1>2, <2>3, <2>5, <2>6
<1>10. CASE CompactEnd(w)
  BY <1>2, <1>10, IdlePlaced DEF CompactEnd, End
<1>11. CASE FileFree(w)
  <2> DEFINE x == [th[w] EXCEPT !.pc = "remove", !.loaded = {}]
  <2>1. x \in Thread /\ Placed(x) /\ th' = [th EXCEPT ![w] = x]
    BY <1>1, <1>11 DEF FileFree
  <2> HIDE DEF x
  <2> QED
    BY <1>2, <2>1
<1>12. CASE FileRemove(w)
  <2> DEFINE x == [th[w] EXCEPT !.pc = IF th[w].path.kind = "bin" THEN "move" ELSE "swap"]
  <2>1. x \in Thread /\ Placed(x) /\ th' = [th EXCEPT ![w] = x]
    BY <1>1, <1>12 DEF FileRemove
  <2> HIDE DEF x
  <2> QED
    BY <1>2, <2>1
<1>13. CASE CompactMove(w)
  <2> DEFINE x == [th[w] EXCEPT !.pc = "swap", !.part = @ + 1]
  <2>1. th[w].part + 1 \in 0 .. Parts
    BY <1>1, <1>13, Sizes DEF CompactMove
  <2>2. x \in Thread /\ Placed(x)
    BY <1>1, <1>13, <2>1 DEF CompactMove
  <2>3. th' = [th EXCEPT ![w] = x] \/ th' = [th EXCEPT ![w] = Idle]
    BY <1>13 DEF CompactMove, End
  <2> HIDE DEF x
  <2> QED
    BY <1>2, <2>2, <2>3, IdlePlaced
<1> QED
  BY <1>3, <1>4, <1>5, <1>6, <1>7, <1>8, <1>9, <1>10, <1>11, <1>12, <1>13

LEMMA DropMoves ==
    ASSUME TypeOK, ThreadsInv, NEW w \in Threads,
           DropMeta(w) \/ DropLoad(w) \/ DropFree(w) \/ DropRemoveFile(w)
             \/ DropMetadata(w) \/ DropEnd(w) \/ DropStops(w)
    PROVE  Moves(w)
<1>1. th \in [Threads -> Thread] /\ th[w] \in Thread /\ Placed(th[w])
  BY DEF TypeOK, ThreadsInv
<1> USE DEF At, Thread, Placed, Pending, Deleting, Pcs, Ops
<1>2. \A x \in Thread : Placed(x) /\ th' = [th EXCEPT ![w] = x] => Moves(w)
  <2> SUFFICES ASSUME NEW x \in Thread, Placed(x), th' = [th EXCEPT ![w] = x]
               PROVE  Moves(w)
    OBVIOUS
  <2> QED
    BY <1>1 DEF Moves
<1>3. CASE DropMeta(w)
  <2> DEFINE x == [th[w] EXCEPT !.pc = IF dir[th[w].t] = "full" THEN "load" ELSE "rmdir"]
  <2>1. x \in Thread /\ Placed(x) /\ th' = [th EXCEPT ![w] = x]
    BY <1>1, <1>3 DEF DropMeta
  <2> HIDE DEF x
  <2> QED
    BY <1>2, <2>1
<1>4. CASE DropLoad(w)
  <2>1. th[w].op = "drop" /\ th[w].pc = "load"
    BY <1>4 DEF DropLoad
  <2> DEFINE p == File(th[w].t, "bin", th[w].part)
             x == [th[w] EXCEPT !.path = p, !.loaded = files[p].blocks, !.pc = "free"]
             y == [th[w] EXCEPT !.part = @ + 1]
             z == [th[w] EXCEPT !.pc = "rmdir"]
  <2>2. \/ th[w].part = Parts /\ th' = [th EXCEPT ![w] = z]
        \/ th[w].part # Parts /\ (th' = [th EXCEPT ![w] = x] \/ th' = [th EXCEPT ![w] = y])
    BY <1>4 DEF DropLoad, Load
  <2>3. z \in Thread /\ Placed(z)
    BY <1>1, <2>1
  <2>4. ASSUME th[w].part # Parts
        PROVE  x \in Thread /\ Placed(x) /\ y \in Thread /\ Placed(y)
    <3>1. th[w].part < Parts /\ th[w].part + 1 \in 0 .. Parts
      BY <1>1, <2>4, Sizes
    <3>2. p \in Path
      BY <1>1, <2>1, <3>1, Sizes DEF File, Path, Kinds
    <3>3. files[p].blocks \subseteq BlockNumbers
      <4> HIDE DEF p
      <4> QED
        BY <3>2 DEF TypeOK, FileState
    <3>4. y \in Thread /\ Placed(y)
      BY <1>1, <2>1, <3>1
    <3>5. x \in Thread /\ Placed(x)
      <4> HIDE DEF p
      <4> QED
        BY <1>1, <2>1, <3>1, <3>2, <3>3
    <3> QED
      BY <3>4, <3>5
  <2> HIDE DEF x, y, z
  <2> QED
    BY <1>2, <2>2, <2>3, <2>4
<1>5. CASE DropFree(w)
  <2> DEFINE x == [th[w] EXCEPT !.pc = "load", !.part = @ + 1, !.loaded = {}]
  <2>1. th[w].part + 1 \in 0 .. Parts
    BY <1>1, <1>5, Sizes DEF DropFree
  <2>2. x \in Thread /\ Placed(x) /\ th' = [th EXCEPT ![w] = x]
    BY <1>1, <1>5, <2>1 DEF DropFree
  <2> HIDE DEF x
  <2> QED
    BY <1>2, <2>2
<1>6. CASE DropRemoveFile(w) \/ DropMetadata(w)
  BY <1>1, <1>2, <1>6 DEF DropRemoveFile, DropMetadata
<1>7. CASE DropEnd(w) \/ DropStops(w)
  BY <1>2, <1>7, IdlePlaced DEF DropEnd, DropStops, End
<1> QED
  BY <1>3, <1>4, <1>5, <1>6, <1>7

LEMMA StartMoves ==
    ASSUME TypeOK, ThreadsInv, NEW w \in Threads, NEW t \in Tables, Start(w, t)
    PROVE  Moves(w)
<1>1. th \in [Threads -> Thread] /\ map[t] \in Nat /\ count["create"] \in Nat
  BY DEF TypeOK
<1> USE DEF Thread, Placed, Pending, Deleting, Pcs, Ops
<1>2. \A x \in Thread : Placed(x) /\ th' = [th EXCEPT ![w] = x] => Moves(w)
  <2> SUFFICES ASSUME NEW x \in Thread, Placed(x), th' = [th EXCEPT ![w] = x]
               PROVE  Moves(w)
    OBVIOUS
  <2> QED
    BY <1>1 DEF Moves
<1>4. CASE CreateBegin(w, t)
  <2> DEFINE x == [Idle EXCEPT !.op = "create", !.pc = "mkdir", !.t = t, !.inc = count'["create"]]
  <2>1. count'["create"] \in Nat
    BY <1>1, <1>4 DEF CreateBegin, Counted, TypeOK
  <2>2. x \in Thread /\ Placed(x)
    BY <2>1, IdlePlaced, Sizes DEF Idle
  <2>3. th' = [th EXCEPT ![w] = x]
    BY <1>4 DEF CreateBegin
  <2> HIDE DEF x
  <2> QED
    BY <1>2, <2>2, <2>3
<1>5. CASE DumpBegin(w, t)
  <2> DEFINE x == [Idle EXCEPT !.op = "dump", !.pc = "alloc", !.t = t, !.inc = map[t]]
  <2>1. x \in Thread /\ Placed(x)
    BY <1>1, IdlePlaced, Sizes DEF Idle
  <2>2. th' = [th EXCEPT ![w] = x]
    BY <1>5 DEF DumpBegin
  <2> HIDE DEF x
  <2> QED
    BY <1>2, <2>1, <2>2
<1>6. CASE CompactBegin(w, t)
  <2> DEFINE x == [Idle EXCEPT !.op = "compact", !.pc = "rename", !.t = t, !.inc = map[t]]
  <2>1. x \in Thread /\ Placed(x)
    BY <1>1, IdlePlaced, Sizes DEF Idle
  <2>2. th' = [th EXCEPT ![w] = x]
    BY <1>6 DEF CompactBegin
  <2> HIDE DEF x
  <2> QED
    BY <1>2, <2>1, <2>2
<1>7. CASE DropBegin(w, t)
  <2> DEFINE x == [Idle EXCEPT !.op = "drop", !.t = t, !.inc = map[t], !.pc = "meta"]
  <2>1. x \in Thread /\ Placed(x)
    BY <1>1, IdlePlaced, Sizes DEF Idle
  <2>2. th' = [th EXCEPT ![w] = x]
    BY <1>7 DEF DropBegin
  <2> HIDE DEF x
  <2> QED
    BY <1>2, <2>1, <2>2
<1> QED
  BY <1>4, <1>5, <1>6, <1>7 DEF Start

-----------------------------------------------------------------------------
(* Who owns a block after a step.                                          *)

(* A step that touches neither files nor blocks.                           *)
OwnersKept ==
    /\ UNCHANGED <<used, files, leaked, doubtful>>
    /\ \A v \in Threads : th'[v].held = th[v].held

LEMMA KeptOwners ==
    ASSUME OwnersInv, OwnersKept
    PROVE  OwnersInv'
BY DEF OwnersInv, OwnersKept, BlockInv, Owned, Lists, Holds

LEMMA QuietSteps ==
    ASSUME TypeOK, ThreadsInv, NEW w \in Threads,
           \/ CreateFolder(w) \/ CreateMetadata(w)
           \/ CompactMake(w) \/ CompactSkip(w) \/ CompactBlock(w) \/ CompactAlone(w)
           \/ CompactDelete(w) \/ CompactReplace(w) \/ CompactEnd(w)
           \/ DropMeta(w) \/ DropLoad(w) \/ DropMetadata(w) \/ DropEnd(w) \/ DropStops(w)
           \/ \E t \in Tables : Start(w, t)
    PROVE  OwnersKept
<1>1. th \in [Threads -> Thread] /\ Placed(th[w]) /\ th[w] \in Thread
  BY DEF TypeOK, ThreadsInv
<1>2. th[w].pc \notin {"alloc"} \cup Pending => th[w].held = {}
  BY <1>1 DEF Placed
<1>3. Idle.held = {}
  BY IdlePlaced
<1>4. CASE CompactSkip(w)
  <2>1. AfterSave(w).held = {} /\ th[w].held = {}
    BY <1>1, <1>2, <1>4, AfterSavePlaced DEF CompactSkip, At, Pending
  <2> QED
    BY <1>1, <1>4, <2>1 DEF CompactSkip, OwnersKept
<1>5. CASE CompactMake(w) \/ CompactEnd(w) \/ DropEnd(w) \/ DropStops(w)
  <2>1. th[w].held = {}
    BY <1>2, <1>5 DEF CompactMake, CompactEnd, DropEnd, DropStops, At, Pending
  <2> QED
    BY <1>1, <1>3, <1>5, <2>1 DEF CompactMake, CompactEnd, DropEnd, DropStops, End, OwnersKept, Thread
<1>6. CASE CreateFolder(w) \/ CreateMetadata(w) \/ CompactBlock(w) \/ CompactAlone(w)
  BY <1>1, <1>6 DEF CreateFolder, CreateMetadata, CompactBlock, CompactAlone, OwnersKept, Thread
<1>7. CASE CompactDelete(w)
  <2>1. PICK n \in th[w].scope :
           LET p == File(th[w].t, "tmpc", n) IN
           IF Loads(p)
           THEN th' = [th EXCEPT ![w].path = p, ![w].loaded = files[p].blocks,
                                 ![w].scope = @ \ {n}, ![w].pc = "free"]
           ELSE th' = [th EXCEPT ![w].scope = @ \ {n}]
    BY <1>7 DEF CompactDelete
  <2> DEFINE p == File(th[w].t, "tmpc", n)
  <2>2. \/ th' = [th EXCEPT ![w].path = p, ![w].loaded = files[p].blocks,
                            ![w].scope = @ \ {n}, ![w].pc = "free"]
        \/ th' = [th EXCEPT ![w].scope = @ \ {n}]
    BY <2>1
  <2>3. UNCHANGED <<used, files, leaked, doubtful>>
    BY <1>7 DEF CompactDelete
  <2> HIDE DEF p
  <2> QED
    BY <1>1, <2>2, <2>3 DEF OwnersKept, Thread
<1>8. CASE CompactReplace(w)
  BY <1>1, <1>8 DEF CompactReplace, Load, OwnersKept, Thread
<1>9. CASE DropMeta(w) \/ DropMetadata(w)
  BY <1>1, <1>9 DEF DropMeta, DropMetadata, OwnersKept, Thread
<1>10. CASE DropLoad(w)
  <2> DEFINE p == File(th[w].t, "bin", th[w].part)
  <2>1. /\ UNCHANGED <<used, files, leaked, doubtful>>
        /\ \/ th' = [th EXCEPT ![w].pc = "rmdir"]
           \/ th' = [th EXCEPT ![w].path = p, ![w].loaded = files[p].blocks, ![w].pc = "free"]
           \/ th' = [th EXCEPT ![w].part = @ + 1]
    BY <1>10 DEF DropLoad, Load
  <2> HIDE DEF p
  <2> QED
    BY <1>1, <2>1 DEF OwnersKept, Thread
<1>11. ASSUME NEW t \in Tables, Start(w, t) PROVE OwnersKept
  <2>1. th[w] = Idle
    BY <1>11 DEF Start, CreateBegin, DumpBegin, CompactBegin, DropBegin
  <2>2. UNCHANGED <<used, files, leaked, doubtful>>
    <3>1. CASE CreateBegin(w, t)
      BY <3>1 DEF CreateBegin
    <3>2. CASE DumpBegin(w, t) \/ CompactBegin(w, t) \/ DropBegin(w, t)
      BY <3>2 DEF DumpBegin, CompactBegin, DropBegin
    <3> QED
      BY <1>11, <3>1, <3>2 DEF Start
  <2>3. th'[w].held = {}
    <3>1. CASE CreateBegin(w, t)
      <4> DEFINE i == count'["create"]
      <4>1. th' = [th EXCEPT ![w] = [Idle EXCEPT !.op = "create", !.pc = "mkdir", !.t = t,
                                                 !.inc = i]]
        BY <3>1 DEF CreateBegin
      <4> HIDE DEF i
      <4> QED
        BY <1>1, <4>1 DEF Idle
    <3>2. CASE DumpBegin(w, t)
      BY <1>1, <3>2 DEF DumpBegin, Idle
    <3>3. CASE CompactBegin(w, t)
      BY <1>1, <3>3 DEF CompactBegin, Idle
    <3>4. CASE DropBegin(w, t)
      BY <1>1, <3>4 DEF DropBegin, Idle
    <3> QED
      BY <1>11, <3>1, <3>2, <3>3, <3>4 DEF Start
  <2>4. \A v \in Threads \ {w} : th'[v] = th[v]
    BY <1>1, <1>11 DEF Start, CreateBegin, DumpBegin, CompactBegin, DropBegin
  <2> QED
    BY <1>3, <2>1, <2>2, <2>3, <2>4 DEF OwnersKept
<1> QED
  BY <1>4, <1>5, <1>6, <1>7, <1>8, <1>9, <1>10, <1>11

LEMMA IdleKeeps ==
    ASSUME NEW w \in Threads, th \in [Threads -> Thread], th[w].held = {},
           th' = [th EXCEPT ![w] = Idle]
    PROVE  \A v \in Threads : th'[v].held = th[v].held
<1>1. th'[w] = Idle /\ \A v \in Threads : v # w => th'[v] = th[v]
  OBVIOUS
<1> QED
  BY <1>1, IdlePlaced

(* A compaction that moves a file, or takes the dumps, holds no blocks.     *)
LEMMA MoveHolds ==
    ASSUME NEW w \in Threads, th \in [Threads -> Thread], th[w].held = {}, CompactMove(w)
    PROVE  \A v \in Threads : th'[v].held = th[v].held
<1>1. \/ th' = [th EXCEPT ![w] = Idle]
      \/ th' = [th EXCEPT ![w].pc = "swap", ![w].part = @ + 1]
  BY DEF CompactMove, End
<1>2. CASE th' = [th EXCEPT ![w] = Idle]
  BY <1>2, IdleKeeps
<1>3. CASE th' = [th EXCEPT ![w].pc = "swap", ![w].part = @ + 1]
  BY <1>3 DEF Thread
<1> QED
  BY <1>1, <1>2, <1>3

LEMMA ScopeHolds ==
    ASSUME NEW w \in Threads, th \in [Threads -> Thread], th[w].held = {}, CompactScope(w)
    PROVE  \A v \in Threads : th'[v].held = th[v].held
<1> DEFINE ns == {p.n : p \in {q \in Path : /\ q.t = th[w].t /\ Exists(q)
                                           /\ q.kind \in {"tmp", "tmpc"}}}
<1>1. \/ th' = [th EXCEPT ![w] = Idle]
      \/ th' = [th EXCEPT ![w].pc = "make", ![w].scope = ns]
  BY DEF CompactScope, End
<1> HIDE DEF ns
<1>2. CASE th' = [th EXCEPT ![w] = Idle]
  BY <1>2, IdleKeeps
<1>3. CASE th' = [th EXCEPT ![w].pc = "make", ![w].scope = ns]
  BY <1>3 DEF Thread
<1> QED
  BY <1>1, <1>2, <1>3

(* Each step that does: one block seen before and after it.                *)
LEMMA OwnersAlloc ==
    ASSUME TypeOK, OwnersInv, NEW w \in Threads, Alloc(w) \/ Allocated(w) \/ AllocFails(w)
    PROVE  OwnersInv'
<1> SUFFICES ASSUME NEW b \in BlockNumbers \ doubtful PROVE BlockInv(b)'
  BY DEF OwnersInv, Alloc, Allocated, AllocFails
<1>1. th \in [Threads -> Thread] /\ BlockInv(b) /\ th[w].held \subseteq BlockNumbers
  BY DEF TypeOK, OwnersInv, Thread
<1>2. UNCHANGED <<files, leaked>> /\ \A p \in Path : Lists(p, b)' <=> Lists(p, b)
  BY DEF Alloc, Allocated, AllocFails, Lists
<1>3. CASE Alloc(w)
  <2>1. LowestFree \notin used
    BY <1>3, LowestFreeIsFree DEF Alloc, FreeBlocks
  <2>2. \A v \in Threads : Holds(v, b)' <=> Holds(v, b) \/ (v = w /\ b = LowestFree)
    BY <1>1, <1>3 DEF Alloc, Holds, Thread
  <2>3. b \in used' <=> b \in used \/ b = LowestFree
    BY <1>3 DEF Alloc
  <2> HIDE DEF LowestFree
  <2> QED
    BY <1>1, <1>2, <2>1, <2>2, <2>3 DEF BlockInv, Owned
<1>4. ASSUME NEW spare \in SUBSET th[w].held, used' = used \ spare,
             \A v \in Threads : Holds(v, b)' <=> Holds(v, b) /\ ~(v = w /\ b \in spare)
      PROVE  BlockInv(b)'
  <2>1. b \in spare => Holds(w, b)
    BY DEF Holds
  <2> QED
    BY <1>1, <1>2, <1>4, <2>1 DEF BlockInv, Owned
<1>5. CASE Allocated(w)
  <2>1. PICK spare \in {{}} \cup {{c} : c \in th[w].held} :
           /\ used' = used \ spare
           /\ th' = [th EXCEPT ![w].pc = "touch", ![w].path = Target(w), ![w].held = @ \ spare]
    BY <1>5 DEF Allocated
  <2>2. \A v \in Threads : Holds(v, b)' <=> Holds(v, b) /\ ~(v = w /\ b \in spare)
    BY <1>1, <2>1 DEF Holds, Thread
  <2> QED
    BY <1>4, <2>1, <2>2
<1>6. CASE AllocFails(w)
  <2>1. \A v \in Threads : Holds(v, b)' <=> Holds(v, b) /\ ~(v = w /\ b \in th[w].held)
    BY <1>1, <1>6, IdlePlaced DEF AllocFails, End, Holds
  <2> QED
    BY <1>4, <1>6, <2>1 DEF AllocFails
<1> QED
  BY <1>3, <1>5, <1>6

(* A file that is replaced or removed leaves its blocks behind.            *)
LEMMA OwnersAbandoned ==
    ASSUME TypeOK, OwnersInv, UNCHANGED <<used, doubtful>>, NEW p \in Path, NEW f \in FileState,
           f.blocks = {}, files' = [files EXCEPT ![p] = f],
           NEW rest \in SUBSET BlockNumbers, leaked' = leaked \cup rest \cup Abandoned(p),
           \/ rest = {} /\ \A v \in Threads : th'[v].held = th[v].held
           \/ \E w \in Threads :
                 /\ rest = th[w].held /\ th'[w].held = {}
                 /\ \A v \in Threads \ {w} : th'[v].held = th[v].held
    PROVE  OwnersInv'
<1> SUFFICES ASSUME NEW b \in BlockNumbers \ doubtful PROVE BlockInv(b)'
  BY DEF OwnersInv
<1>1. BlockInv(b) /\ files \in [Path -> FileState]
  BY DEF TypeOK, OwnersInv
<1>2. \A q \in Path : Lists(q, b)' <=> Lists(q, b) /\ q # p
  BY <1>1 DEF Lists
<1>3. b \in Abandoned(p) <=> Lists(p, b)
  BY <1>1 DEF Abandoned, Lists, FileState
<1>4. CASE rest = {} /\ \A v \in Threads : th'[v].held = th[v].held
  <2>1. \A v \in Threads : Holds(v, b)' <=> Holds(v, b)
    BY <1>4 DEF Holds
  <2> QED
    BY <1>1, <1>2, <1>3, <1>4, <2>1 DEF BlockInv, Owned
<1>5. ASSUME NEW w \in Threads, rest = th[w].held, th'[w].held = {},
             \A v \in Threads \ {w} : th'[v].held = th[v].held
      PROVE  BlockInv(b)'
  <2>1. \A v \in Threads : Holds(v, b)' <=> Holds(v, b) /\ v # w
    BY <1>5 DEF Holds
  <2>2. b \in rest <=> Holds(w, b)
    BY <1>5 DEF Holds
  <2> QED
    BY <1>1, <1>2, <1>3, <2>1, <2>2 DEF BlockInv, Owned
<1> QED
  BY <1>4, <1>5

LEMMA OwnersSave ==
    ASSUME TypeOK, ThreadsInv, OwnersInv, NEW w \in Threads,
           SaveTouch(w) \/ SaveWrite(w) \/ SaveFails(w)
    PROVE  OwnersInv'
<1>1. /\ th \in [Threads -> Thread] /\ files \in [Path -> FileState]
      /\ th[w] \in Thread /\ Placed(th[w]) /\ th[w].held \subseteq BlockNumbers
  BY DEF TypeOK, ThreadsInv, Thread
<1> DEFINE p == th[w].path
<1>2. p \in Path
  BY <1>1 DEF Placed, Pending, SaveTouch, SaveWrite, SaveFails
<1>3. Torn \in FileState /\ NoFile \in FileState /\ Torn.blocks = {} /\ NoFile.blocks = {}
  BY DEF Torn, NoFile, FileState
<1>4. CASE SaveTouch(w)
  <2>1. /\ files' = [files EXCEPT ![p] = Torn] /\ leaked' = leaked \cup {} \cup Abandoned(p)
        /\ UNCHANGED <<used, doubtful>>
    BY <1>4 DEF SaveTouch
  <2>2. \A v \in Threads : th'[v].held = th[v].held
    BY <1>1, <1>4 DEF SaveTouch, Thread
  <2> HIDE DEF p
  <2> QED
    BY <1>2, <1>3, <2>1, <2>2, OwnersAbandoned
<1>5. CASE SaveFails(w)
  <2>1. /\ files' = [files EXCEPT ![p] = NoFile]
        /\ leaked' = leaked \cup th[w].held \cup Abandoned(p)
        /\ UNCHANGED <<used, doubtful>>
    BY <1>5 DEF SaveFails
  <2>2. th'[w].held = {} /\ \A v \in Threads \ {w} : th'[v].held = th[v].held
    BY <1>1, <1>5, IdlePlaced DEF SaveFails, End
  <2> HIDE DEF p
  <2> QED
    BY <1>1, <1>2, <1>3, <2>1, <2>2, OwnersAbandoned
<1>6. CASE SaveWrite(w)
  <2> SUFFICES ASSUME NEW b \in BlockNumbers \ doubtful PROVE BlockInv(b)'
    BY <1>6 DEF OwnersInv, SaveWrite
  <2>1. BlockInv(b) /\ UNCHANGED used
    BY <1>6 DEF OwnersInv, SaveWrite
  <2>2. th'[w].held = {} /\ \A v \in Threads \ {w} : th'[v].held = th[v].held
    BY <1>1, <1>6, AfterSavePlaced DEF SaveWrite
  <2>3. \A v \in Threads : Holds(v, b)' <=> Holds(v, b) /\ v # w
    BY <2>2 DEF Holds
  <2>4. Holds(w, b) <=> b \in th[w].held
    BY DEF Holds
  <2>5. CASE dir[p.t] = "none"
    <3>1. UNCHANGED files /\ leaked' = leaked \cup th[w].held
      BY <1>6, <2>5 DEF SaveWrite
    <3>2. \A q \in Path : Lists(q, b)' <=> Lists(q, b)
      BY <3>1 DEF Lists
    <3> QED
      BY <2>1, <2>3, <2>4, <3>1, <3>2 DEF BlockInv, Owned
  <2>6. CASE dir[p.t] # "none"
    <3>1. files' = [files EXCEPT ![p] = Saved(th[w].held)] /\ leaked' = leaked \cup Abandoned(p)
      BY <1>6, <2>6 DEF SaveWrite
    <3>2. \A q \in Path : Lists(q, b)' <=> IF q = p THEN Holds(w, b) ELSE Lists(q, b)
      BY <1>1, <1>2, <3>1 DEF Lists, Saved, Holds
    <3>3. b \in Abandoned(p) <=> Lists(p, b)
      BY <1>1, <1>2 DEF Abandoned, Lists, FileState
    <3> HIDE DEF p
    <3> QED
      BY <1>2, <2>1, <2>3, <3>1, <3>2, <3>3 DEF BlockInv, Owned
  <2> QED
    BY <2>5, <2>6
<1> QED
  BY <1>4, <1>5, <1>6

(* fs_block_free clears the bits of the blocks that were read, and whoever *)
(* has one of them by then makes it doubtful.                              *)
LEMMA OwnersFree ==
    ASSUME TypeOK, ThreadsInv, OwnersInv, NEW w \in Threads, FileFree(w) \/ DropFree(w)
    PROVE  OwnersInv'
<1> DEFINE p == th[w].path
           mine == files[p].blocks = th[w].loaded /\ ~files[p].freed
<1>1. /\ th \in [Threads -> Thread] /\ files \in [Path -> FileState] /\ p \in Path
  BY DEF TypeOK, ThreadsInv, Placed, FileFree, DropFree, At, Deleting
<1>2. FreeTaken(w) /\ \A v \in Threads : th'[v].held = th[v].held
  BY <1>1 DEF FileFree, DropFree, Thread
<1>3. /\ used' = used \ th[w].loaded /\ leaked' = leaked \ th[w].loaded
      /\ files' = IF mine THEN [files EXCEPT ![p] = Freed(@)] ELSE files
      /\ doubtful' = doubtful \cup
           {b \in th[w].loaded : Owners(b) \ (IF mine THEN {p} ELSE {}) # {}}
  BY <1>2 DEF FreeTaken
<1> SUFFICES ASSUME NEW b \in BlockNumbers \ doubtful' PROVE BlockInv(b)'
  BY DEF OwnersInv
<1>4. BlockInv(b) /\ (b \in th[w].loaded => Owners(b) \ (IF mine THEN {p} ELSE {}) = {})
  BY <1>3 DEF OwnersInv
<1>5. \A v \in Threads : Holds(v, b)' <=> Holds(v, b)
  BY <1>2 DEF Holds
<1>6. \A q \in Path : Lists(q, b)' <=> Lists(q, b) /\ ~(mine /\ q = p)
  BY <1>1, <1>3 DEF Lists, Freed, FileState
<1>7. mine => (Lists(p, b) <=> b \in th[w].loaded)
  BY DEF Lists
<1>8. CASE b \in th[w].loaded
  <2>1. \A q \in Path : Lists(q, b) => mine /\ q = p
    BY <1>4, <1>8 DEF Owners, Lists
  <2>2. \A v \in Threads : ~Holds(v, b)
    <3>1. CASE mine
      <4> HIDE DEF p, mine
      <4> QED
        BY <1>1, <1>4, <1>7, <1>8, <3>1 DEF BlockInv
    <3>2. CASE ~mine
      BY <1>4, <1>8, <3>2 DEF Owners, Holds
    <3> QED
      BY <3>1, <3>2
  <2>3. b \notin used' /\ b \notin leaked'
    BY <1>3, <1>8
  <2> HIDE DEF p, mine
  <2> QED
    BY <1>5, <1>6, <2>1, <2>2, <2>3 DEF BlockInv, Owned
<1>9. CASE b \notin th[w].loaded
  <2>1. (b \in used' <=> b \in used) /\ (b \in leaked' <=> b \in leaked)
    BY <1>3, <1>9
  <2>2. \A q \in Path : Lists(q, b)' <=> Lists(q, b)
    BY <1>6, <1>7, <1>9
  <2> HIDE DEF p, mine
  <2> QED
    BY <1>4, <1>5, <2>1, <2>2 DEF BlockInv, Owned
<1> QED
  BY <1>8, <1>9

LEMMA OwnersRemove ==
    ASSUME TypeOK, ThreadsInv, OwnersInv, NEW w \in Threads, FileRemove(w) \/ DropRemoveFile(w)
    PROVE  OwnersInv'
<1>1. th \in [Threads -> Thread] /\ NoFile \in FileState /\ NoFile.blocks = {}
  BY DEF TypeOK, NoFile, FileState
<1>2. \E p \in Path : files' = [files EXCEPT ![p] = NoFile]
                      /\ leaked' = leaked \cup {} \cup Abandoned(p)
  <2>1. CASE FileRemove(w)
    BY <2>1 DEF FileRemove, ThreadsInv, Placed, At, Deleting
  <2>2. CASE DropRemoveFile(w)
    BY <2>2 DEF DropRemoveFile, InFolder
  <2> QED
    BY <2>1, <2>2
<1>3. UNCHANGED <<used, doubtful>> /\ \A v \in Threads : th'[v].held = th[v].held
  BY <1>1 DEF FileRemove, DropRemoveFile, Thread
<1> QED
  BY <1>1, <1>2, <1>3, OwnersAbandoned

(* A file that is moved to where none is takes its blocks along.           *)
LEMMA OwnersMove ==
    ASSUME TypeOK, ThreadsInv, OwnersInv, NEW w \in Threads, CompactMove(w)
    PROVE  OwnersInv'
<1> DEFINE p == th[w].path
           new == [p EXCEPT !.kind = "binc"]
<1>1. /\ th \in [Threads -> Thread] /\ files \in [Path -> FileState]
      /\ p \in Path /\ p.kind = "bin" /\ th[w].held = {}
  BY DEF TypeOK, ThreadsInv, Placed, CompactMove, At, Deleting, Pending
<1>2. new \in Path /\ new # p
  BY <1>1 DEF Path, Kinds
<1>3. UNCHANGED <<used, leaked, doubtful>> /\ \A v \in Threads : th'[v].held = th[v].held
  <2> HIDE DEF p, new
  <2> QED
    BY <1>1, MoveHolds DEF CompactMove
<1> SUFFICES ASSUME NEW b \in BlockNumbers \ doubtful PROVE BlockInv(b)'
  BY <1>3 DEF OwnersInv
<1>4. BlockInv(b) /\ \A v \in Threads : Holds(v, b)' <=> Holds(v, b)
  BY <1>3 DEF OwnersInv, Holds
<1>5. CASE Exists(new) /\ ~Exists(p)
  <2>1. files' = [files EXCEPT ![p] = files[new], ![new] = NoFile]
    BY <1>5 DEF CompactMove
  <2>2. files[p].blocks = {}
    BY <1>1, <1>5 DEF TypeOK, Exists
  <2>3. \A q \in Path : Lists(q, b)' <=> IF q = p THEN Lists(new, b)
                                         ELSE IF q = new THEN FALSE ELSE Lists(q, b)
    <3> HIDE DEF p, new
    <3> QED
      BY <1>1, <1>2, <2>1 DEF Lists, NoFile
  <2>4. ~Lists(p, b)
    BY <2>2 DEF Lists
  <2> HIDE DEF p, new
  <2> QED
    BY <1>1, <1>2, <1>3, <1>4, <2>3, <2>4 DEF BlockInv, Owned
<1>6. CASE ~(Exists(new) /\ ~Exists(p))
  <2>1. UNCHANGED files
    BY <1>6 DEF CompactMove
  <2>2. \A q \in Path : Lists(q, b)' <=> Lists(q, b)
    BY <2>1 DEF Lists
  <2> HIDE DEF p, new
  <2> QED
    BY <1>3, <1>4, <2>2 DEF BlockInv, Owned
<1> QED
  BY <1>5, <1>6

LEMMA OwnersScope ==
    ASSUME TypeOK, ThreadsInv, OwnersInv, NEW w \in Threads, CompactScope(w)
    PROVE  OwnersInv'
<1> DEFINE t == th[w].t
           tmpOf(q) == [q EXCEPT !.kind = "tmp"]
<1>1. /\ th \in [Threads -> Thread] /\ files \in [Path -> FileState]
      /\ th[w].held = {}
  BY DEF TypeOK, ThreadsInv, Placed, CompactScope, At, Pending
<1>2. PICK moved \in SUBSET (Tmp(t) \ {p \in Tmp(t) : Exists(Tmpc(p))}) : files' = Renamed(moved)
  BY DEF CompactScope
<1>3. UNCHANGED <<used, leaked, doubtful>> /\ \A v \in Threads : th'[v].held = th[v].held
  BY <1>1, ScopeHolds DEF CompactScope
<1> SUFFICES ASSUME NEW b \in BlockNumbers \ doubtful PROVE BlockInv(b)'
  BY <1>3 DEF OwnersInv
<1>4. BlockInv(b) /\ \A v \in Threads : Holds(v, b)' <=> Holds(v, b)
  BY <1>3 DEF OwnersInv, Holds
<1>5. ASSUME NEW q \in Path
      PROVE  /\ q \in moved => q.kind = "tmp" /\ ~Lists(Tmpc(q), b) /\ Tmpc(q) \in Path
                               /\ Tmpc(q).kind = "tmpc" /\ tmpOf(Tmpc(q)) = q
             /\ q.kind = "tmpc" => tmpOf(q) \in Path /\ Tmpc(tmpOf(q)) = q
  <2>1. q.kind = "tmpc" => tmpOf(q) \in Path /\ Tmpc(tmpOf(q)) = q
    BY DEF Path, Kinds, Tmpc
  <2>2. ASSUME q \in moved
        PROVE  q.kind = "tmp" /\ ~Lists(Tmpc(q), b) /\ Tmpc(q) \in Path
               /\ Tmpc(q).kind = "tmpc" /\ tmpOf(Tmpc(q)) = q
    <3>1. q.kind = "tmp" /\ ~Exists(Tmpc(q))
      BY <1>2, <2>2 DEF Tmp
    <3>2. Tmpc(q) \in Path /\ Tmpc(q).kind = "tmpc" /\ tmpOf(Tmpc(q)) = q
      BY <3>1 DEF Path, Kinds, Tmpc
    <3>3. ~Lists(Tmpc(q), b)
      BY <3>1, <3>2 DEF TypeOK, Exists, Lists
    <3> QED
      BY <3>1, <3>2, <3>3
  <2> QED
    BY <2>1, <2>2
<1>6. \A q \in Path : Lists(q, b)' <=>
         IF q \in moved THEN FALSE
         ELSE IF q.kind = "tmpc" /\ tmpOf(q) \in moved THEN Lists(tmpOf(q), b)
         ELSE Lists(q, b)
  BY <1>1, <1>2 DEF Renamed, Lists, NoFile
<1> HIDE DEF tmpOf
<1>7. (\E q \in Path : Lists(q, b)') <=> (\E q \in Path : Lists(q, b))
  <2>1. ASSUME NEW q \in Path, Lists(q, b)' PROVE \E r \in Path : Lists(r, b)
    BY <1>5, <1>6, <2>1
  <2>2. ASSUME NEW q \in Path, Lists(q, b) PROVE \E r \in Path : Lists(r, b)'
    BY <1>5, <1>6, <2>2
  <2> QED
    BY <2>1, <2>2
<1>8. ASSUME NEW q \in Path, NEW r \in Path, Lists(q, b)', Lists(r, b)' PROVE q = r
  <2>1. ASSUME NEW x \in Path, Lists(x, b)'
        PROVE  \/ Lists(x, b) /\ x \notin moved /\ ~(x.kind = "tmpc" /\ tmpOf(x) \in moved)
               \/ x.kind = "tmpc" /\ tmpOf(x) \in moved /\ tmpOf(x) \in Path
                  /\ Lists(tmpOf(x), b) /\ Tmpc(tmpOf(x)) = x
    BY <1>5, <1>6, <2>1
  <2> QED
    BY <1>4, <1>8, <2>1 DEF BlockInv
<1> QED
  BY <1>3, <1>4, <1>6, <1>5, <1>7, <1>8 DEF BlockInv, Owned

LEMMA OwnersCrash ==
    ASSUME TypeOK, OwnersInv, Crash
    PROVE  OwnersInv'
<1>1. /\ th' = [w \in Threads |-> Idle] /\ used' = used
      /\ leaked' = leaked \cup UNION {th[w].held : w \in Threads}
      /\ files' = [p \in Path |-> [files[p] EXCEPT !.freed = FALSE]]
      /\ doubtful' = doubtful \cup UNION {files[p].blocks : p \in {q \in Path : files[q].freed}}
  BY DEF Crash, LoadBlocks
<1> SUFFICES ASSUME NEW b \in BlockNumbers \ doubtful' PROVE BlockInv(b)'
  BY DEF OwnersInv
<1>2. BlockInv(b)
  BY <1>1 DEF OwnersInv
<1>3. \A q \in Path : Lists(q, b)' <=> Lists(q, b)
  <2> SUFFICES ASSUME NEW q \in Path PROVE Lists(q, b)' <=> Lists(q, b)
    OBVIOUS
  <2>1. b \in files[q].blocks => ~files[q].freed
    BY <1>1
  <2>2. files'[q].blocks = files[q].blocks /\ files'[q].freed = FALSE
    BY <1>1 DEF TypeOK, FileState
  <2> QED
    BY <2>1, <2>2 DEF Lists
<1>4. \A w \in Threads : ~Holds(w, b)'
  BY <1>1, IdlePlaced DEF Holds
<1>5. b \in leaked' <=> b \in leaked \/ \E w \in Threads : Holds(w, b)
  BY <1>1 DEF Holds
<1> QED
  BY <1>1, <1>2, <1>3, <1>4, <1>5 DEF BlockInv, Owned

LEMMA OwnersStep ==
    ASSUME TypeOK, ThreadsInv, OwnersInv, [Next]_vars
    PROVE  OwnersInv'
<1>1. CASE UNCHANGED vars
  <2>1. OwnersKept
    BY <1>1 DEF vars, OwnersKept
  <2> QED
    BY <2>1, KeptOwners
<1>2. CASE Crash
  BY <1>2, OwnersCrash
<1>3. ASSUME NEW w \in Threads, Work(w) PROVE OwnersInv'
  BY <1>3, OwnersAlloc, OwnersSave, OwnersFree, OwnersRemove, OwnersMove, OwnersScope,
     QuietSteps, KeptOwners DEF Work
<1>4. ASSUME NEW w \in Threads, NEW t \in Tables, Start(w, t) PROVE OwnersInv'
  BY <1>4, QuietSteps, KeptOwners
<1> QED
  BY <1>1, <1>2, <1>3, <1>4 DEF Next

-----------------------------------------------------------------------------
(* Types and numbers after a step.                                         *)

LEMMA Saves ==
    /\ NoFile \in FileState /\ Torn \in FileState
    /\ NoFile.st = "none" /\ Torn.st = "torn" /\ NoFile.blocks = {} /\ Torn.blocks = {}
    /\ \A blocks \in SUBSET BlockNumbers : Saved(blocks) \in FileState
    /\ \A f \in FileState : /\ Freed(f) \in FileState /\ Freed(f).st = f.st
                            /\ Freed(f).blocks = f.blocks
BY DEF NoFile, Torn, Saved, Freed, FileState

(* The files stay well formed, and no D#.tmp appears but by a dump.        *)
FilesOK ==
    /\ files' \in [Path -> FileState]
    /\ \A p \in Path : files'[p].st # "saved" => files'[p].blocks = {}
    /\ \A p \in Path : p.kind = "tmp" /\ files'[p].st # "none" =>
          Exists(p) \/ \E w \in Threads : Saving(w) /\ th[w].path = p

LEMMA FilesPut ==
    ASSUME TypeOK, NEW p \in Path, NEW f \in FileState,
           f.st # "saved" => f.blocks = {},
           files' = [files EXCEPT ![p] = f],
           p.kind = "tmp" /\ f.st # "none" =>
              Exists(p) \/ \E w \in Threads : Saving(w) /\ th[w].path = p
    PROVE  FilesOK
BY DEF TypeOK, FilesOK, Exists

LEMMA FilesStep ==
    ASSUME TypeOK, ThreadsInv, NEW w \in Threads, Work(w)
    PROVE  FilesOK
<1>1. /\ files \in [Path -> FileState] /\ th[w] \in Thread /\ Placed(th[w])
      /\ \A p \in Path : files[p].st # "saved" => files[p].blocks = {}
  BY DEF TypeOK, ThreadsInv
<1>2. CASE UNCHANGED files
  BY <1>1, <1>2 DEF FilesOK, Exists
<1>3. CASE SaveTouch(w) \/ SaveWrite(w) \/ SaveFails(w)
  <2> DEFINE p == th[w].path
  <2>1. /\ p \in Path /\ p.kind = KindOf(th[w].op) /\ th[w].pc \in Pending
        /\ th[w].op \in {"create", "compact", "dump"}
    BY <1>1, <1>3 DEF SaveTouch, SaveWrite, SaveFails, Placed, Pending
  <2>2. p.kind = "tmp" => Saving(w)
    BY <2>1 DEF Saving, KindOf
  <2>3. \/ UNCHANGED files
        \/ \E f \in {Torn, NoFile, Saved(th[w].held)} : files' = [files EXCEPT ![p] = f]
    BY <1>3 DEF SaveTouch, SaveWrite, SaveFails
  <2>4. Saved(th[w].held) \in FileState /\ Saved(th[w].held).st = "saved"
    BY <1>1, Saves DEF Saved, Thread
  <2> QED
    BY <1>2, <2>1, <2>2, <2>3, <2>4, Saves, FilesPut
<1>4. CASE FileFree(w) \/ DropFree(w)
  <2> DEFINE p == th[w].path
  <2>1. p \in Path
    BY <1>1, <1>4 DEF FileFree, DropFree, At, Placed, Deleting
  <2>2. UNCHANGED files \/ files' = [files EXCEPT ![p] = Freed(files[p])]
    BY <1>1, <1>4, <2>1 DEF FileFree, DropFree, FreeTaken
  <2>3. /\ Freed(files[p]) \in FileState /\ Freed(files[p]).st = files[p].st
        /\ Freed(files[p]).blocks = files[p].blocks
    BY <1>1, <2>1, Saves
  <2> HIDE DEF p
  <2> QED
    BY <1>1, <1>2, <2>1, <2>2, <2>3, FilesPut DEF Exists
<1>5. CASE FileRemove(w) \/ DropRemoveFile(w)
  <2>1. \E p \in Path : files' = [files EXCEPT ![p] = NoFile]
    BY <1>1, <1>5 DEF FileRemove, DropRemoveFile, InFolder, At, Placed, Deleting
  <2> QED
    BY <2>1, Saves, FilesPut
<1>6. CASE CompactMove(w)
  <2> DEFINE p == th[w].path
             new == [p EXCEPT !.kind = "binc"]
  <2>1. p \in Path /\ p.kind = "bin"
    BY <1>1, <1>6 DEF CompactMove, At, Placed, Deleting
  <2>2. new \in Path /\ new.kind = "binc"
    BY <2>1 DEF Path, Kinds
  <2>3. UNCHANGED files \/ files' = [files EXCEPT ![p] = files[new], ![new] = NoFile]
    BY <1>6 DEF CompactMove
  <2> HIDE DEF p, new
  <2> QED
    BY <1>1, <1>2, <2>1, <2>2, <2>3, Saves DEF FilesOK, Exists
<1>7. CASE CompactScope(w)
  <2>1. PICK moved : files' = Renamed(moved)
    BY <1>7 DEF CompactScope
  <2>2. \A q \in Path : q.kind = "tmpc" => [q EXCEPT !.kind = "tmp"] \in Path
    BY DEF Path, Kinds
  <2>3. \A q \in Path : \/ files'[q] = NoFile
                        \/ files'[q] = files[q]
                        \/ /\ q.kind = "tmpc"
                           /\ files'[q] = files[[q EXCEPT !.kind = "tmp"]]
    BY <2>1 DEF Renamed
  <2>4. files' = [q \in Path |-> files'[q]]
    BY <2>1 DEF Renamed
  <2>5. ASSUME NEW q \in Path
        PROVE  /\ files'[q] \in FileState /\ (files'[q].st # "saved" => files'[q].blocks = {})
               /\ q.kind = "tmp" /\ files'[q].st # "none" => Exists(q)
    BY <1>1, <2>2, <2>3, Saves DEF Exists
  <2>6. files' \in [Path -> FileState]
    BY <2>4, <2>5
  <2> QED
    BY <2>5, <2>6 DEF FilesOK
<1>8. CASE \/ Alloc(w) \/ Allocated(w) \/ AllocFails(w)
           \/ CreateFolder(w) \/ CreateMetadata(w)
           \/ CompactMake(w) \/ CompactSkip(w) \/ CompactBlock(w) \/ CompactAlone(w)
           \/ CompactDelete(w) \/ CompactReplace(w) \/ CompactEnd(w)
           \/ DropMeta(w) \/ DropLoad(w) \/ DropMetadata(w) \/ DropEnd(w) \/ DropStops(w)
  BY <1>2, <1>8 DEF Alloc, Allocated, AllocFails, CreateFolder, CreateMetadata, CompactMake,
     CompactSkip, CompactBlock, CompactAlone, CompactDelete, CompactReplace, CompactEnd,
     DropMeta, DropLoad, DropMetadata, DropEnd, DropStops
<1> QED
  BY <1>3, <1>4, <1>5, <1>6, <1>7, <1>8 DEF Work

(* What a step makes of the dumps: none begins to choose, and one that is  *)
(* saving was so before.                                                   *)
DumpsKept(w) ==
    th'[w].op = "dump" =>
       /\ th'[w].pc = "alloc" => th[w].op = "dump" /\ th[w].pc = "alloc"
       /\ th'[w].pc \in Pending => Saving(w) /\ th'[w].path = th[w].path

LEMMA DumpsStep ==
    ASSUME TypeOK, ThreadsInv, NEW w \in Threads, Work(w), ~Allocated(w)
    PROVE  DumpsKept(w)
<1>1. th \in [Threads -> Thread] /\ th[w] \in Thread /\ Placed(th[w])
  BY DEF TypeOK, ThreadsInv
<1>2. CASE th'[w].op # "dump"
  BY <1>2 DEF DumpsKept
<1>3. CASE th' = th
  BY <1>3 DEF DumpsKept, Saving
<1>4. CASE Alloc(w) \/ SaveTouch(w)
  BY <1>1, <1>4 DEF Alloc, SaveTouch, DumpsKept, Saving, Pending, Thread
<1>5. CASE AllocFails(w) \/ SaveFails(w) \/ CompactEnd(w) \/ DropEnd(w) \/ DropStops(w)
  BY <1>1, <1>2, <1>5, IdlePlaced DEF AllocFails, SaveFails, CompactEnd, DropEnd, DropStops, End
<1>6. CASE SaveWrite(w) \/ CompactSkip(w)
  BY <1>1, <1>2, <1>6, AfterSavePlaced DEF SaveWrite, CompactSkip, At
<1>7. ASSUME \/ th'[w] = Idle \/ th'[w].op = th[w].op, th[w].op # "dump"
      PROVE  DumpsKept(w)
  BY <1>2, <1>7, IdlePlaced
<1>8. CASE CreateFolder(w) \/ CreateMetadata(w) \/ CompactBlock(w) \/ CompactAlone(w)
  BY <1>1, <1>7, <1>8 DEF CreateFolder, CreateMetadata, CompactBlock, CompactAlone, At, Thread
<1>9. CASE CompactScope(w)
  <2> DEFINE ns == {p.n : p \in {q \in Path : /\ q.t = th[w].t /\ Exists(q)
                                             /\ q.kind \in {"tmp", "tmpc"}}}
  <2>1. \/ th' = [th EXCEPT ![w] = Idle]
        \/ th' = [th EXCEPT ![w].pc = "make", ![w].scope = ns]
    BY <1>9 DEF CompactScope, End
  <2>2. th[w].op # "dump"
    BY <1>9 DEF CompactScope, At
  <2> HIDE DEF ns
  <2> QED
    BY <1>1, <1>7, <2>1, <2>2 DEF Thread
<1>10. CASE CompactMake(w)
  BY <1>1, <1>7, <1>10 DEF CompactMake, At, End, Thread
<1>11. CASE CompactDelete(w)
  <2>1. th[w].op = "compact"
    BY <1>11 DEF CompactDelete, At
  <2>2. PICK n \in th[w].scope :
           LET p == File(th[w].t, "tmpc", n) IN
           IF Loads(p)
           THEN th' = [th EXCEPT ![w].path = p, ![w].loaded = files[p].blocks,
                                 ![w].scope = @ \ {n}, ![w].pc = "free"]
           ELSE th' = [th EXCEPT ![w].scope = @ \ {n}]
    BY <1>11 DEF CompactDelete
  <2> DEFINE p == File(th[w].t, "tmpc", n)
  <2>3. \/ th' = [th EXCEPT ![w].path = p, ![w].loaded = files[p].blocks,
                            ![w].scope = @ \ {n}, ![w].pc = "free"]
        \/ th' = [th EXCEPT ![w].scope = @ \ {n}]
    BY <2>2
  <2> HIDE DEF p
  <2> QED
    BY <1>1, <1>7, <2>1, <2>3 DEF Thread
<1>12. CASE CompactReplace(w) \/ DropLoad(w)
  <2>1. th[w].op # "dump"
    BY <1>12 DEF CompactReplace, DropLoad, At
  <2> DEFINE p == File(th[w].t, "bin", th[w].part)
  <2>2. \/ th' = [th EXCEPT ![w].path = p, ![w].loaded = files[p].blocks, ![w].pc = "free"]
        \/ th' = [th EXCEPT ![w].part = @ + 1]
        \/ th' = [th EXCEPT ![w].pc = "rmdir"]
    BY <1>12 DEF CompactReplace, DropLoad, Load
  <2> HIDE DEF p
  <2> QED
    BY <1>1, <1>7, <2>1, <2>2 DEF Thread
<1>13. CASE FileFree(w) \/ FileRemove(w) \/ DropFree(w)
  BY <1>1, <1>7, <1>13 DEF FileFree, FileRemove, DropFree, At, Thread
<1>14. CASE CompactMove(w)
  <2>1. \/ th' = [th EXCEPT ![w] = Idle]
        \/ th' = [th EXCEPT ![w].pc = "swap", ![w].part = @ + 1]
    BY <1>14 DEF CompactMove, End
  <2>2. th[w].op # "dump"
    BY <1>14 DEF CompactMove, At
  <2> QED
    BY <1>1, <1>7, <2>1, <2>2 DEF Thread
<1>15. CASE DropMeta(w)
  BY <1>1, <1>7, <1>15 DEF DropMeta, At, Thread
<1>16. CASE DropRemoveFile(w) \/ DropMetadata(w)
  BY <1>3, <1>16 DEF DropRemoveFile, DropMetadata
<1> QED
  BY <1>4, <1>5, <1>6, <1>8, <1>9, <1>10, <1>11, <1>12, <1>13, <1>14, <1>15, <1>16 DEF Work

LEMMA CountedStep ==
    ASSUME TypeOK, [Next]_vars
    PROVE  /\ count' \in [{"create", "dump", "compact", "crash"} -> Nat]
           /\ count'["dump"] <= MaxDumps /\ count'["dump"] >= count["dump"]
           /\ used' \subseteq BlockNumbers
           /\ map' \in [Tables -> Nat]
<1>1. /\ count \in [{"create", "dump", "compact", "crash"} -> Nat]
      /\ count["dump"] <= MaxDumps /\ count["dump"] \in Nat /\ MaxDumps \in Nat
      /\ used \subseteq BlockNumbers /\ map \in [Tables -> Nat]
  BY Sizes DEF TypeOK
<1>2. ASSUME NEW op \in {"create", "dump", "compact", "crash"}, NEW bound,
             Counted(op, bound), op = "dump" => bound = MaxDumps
      PROVE  /\ count' \in [{"create", "dump", "compact", "crash"} -> Nat]
             /\ count'["dump"] <= MaxDumps /\ count'["dump"] >= count["dump"]
  BY <1>1, <1>2 DEF Counted
<1>3. CASE UNCHANGED <<count, used, map>>
  BY <1>1, <1>3
<1>4. CASE Crash
  <2>1. MaxCreates + 1 \in Nat /\ 0 \in Nat
    BY SizesAssumption
  <2> QED
    BY <1>1, <1>2, <1>4, <2>1 DEF Crash, LoadBlocks, LoadTables
<1>5. ASSUME NEW w \in Threads, NEW t \in Tables, CreateBegin(w, t)
      PROVE  /\ count' \in [{"create", "dump", "compact", "crash"} -> Nat]
             /\ count'["dump"] <= MaxDumps /\ count'["dump"] >= count["dump"]
             /\ UNCHANGED used /\ map' \in [Tables -> Nat]
  <2>1. Counted("create", MaxCreates) /\ UNCHANGED used
        /\ map' = [map EXCEPT ![t] = count'["create"]]
    BY <1>5 DEF CreateBegin
  <2> QED
    BY <1>1, <1>2, <2>1
<1>6. ASSUME NEW w \in Threads, NEW t \in Tables,
             DumpBegin(w, t) \/ CompactBegin(w, t) \/ DropBegin(w, t)
      PROVE  /\ count' \in [{"create", "dump", "compact", "crash"} -> Nat]
             /\ count'["dump"] <= MaxDumps /\ count'["dump"] >= count["dump"]
             /\ UNCHANGED used /\ map' \in [Tables -> Nat]
  <2>1. \/ Counted("dump", MaxDumps) /\ UNCHANGED <<used, map>>
        \/ Counted("compact", MaxCompacts) /\ UNCHANGED <<used, map>>
        \/ UNCHANGED <<count, used>> /\ map' = [map EXCEPT ![t] = 0]
    BY <1>6 DEF DumpBegin, CompactBegin, DropBegin
  <2> QED
    BY <1>1, <1>2, <2>1
<1>7. ASSUME NEW w \in Threads, Work(w)
      PROVE  UNCHANGED <<count, map>> /\ used' \subseteq BlockNumbers
  <2>1. CASE Alloc(w)
    BY <1>1, <2>1, LowestFreeIsFree DEF Alloc, FreeBlocks
  <2>2. CASE Allocated(w)
    BY <1>1, <2>2 DEF Allocated
  <2>3. CASE AllocFails(w)
    BY <1>1, <2>3 DEF AllocFails
  <2>4. CASE FileFree(w) \/ DropFree(w)
    BY <1>1, <2>4 DEF FileFree, DropFree, FreeTaken
  <2>5. CASE SaveTouch(w) \/ SaveWrite(w) \/ SaveFails(w) \/ FileRemove(w) \/ DropRemoveFile(w)
    BY <1>1, <2>5 DEF SaveTouch, SaveWrite, SaveFails, FileRemove, DropRemoveFile
  <2>6. CASE \/ CreateFolder(w) \/ CreateMetadata(w) \/ CompactScope(w)
             \/ CompactMake(w) \/ CompactSkip(w) \/ CompactBlock(w) \/ CompactAlone(w)
             \/ CompactDelete(w) \/ CompactReplace(w) \/ CompactEnd(w) \/ CompactMove(w)
             \/ DropMeta(w) \/ DropLoad(w) \/ DropMetadata(w) \/ DropEnd(w) \/ DropStops(w)
    BY <1>1, <2>6 DEF CreateFolder, CreateMetadata, CompactScope, CompactMake,
       CompactSkip, CompactBlock, CompactAlone, CompactDelete, CompactReplace, CompactEnd,
       CompactMove, DropMeta, DropLoad, DropMetadata, DropEnd, DropStops
  <2> QED
    BY <1>7, <2>1, <2>2, <2>3, <2>4, <2>5, <2>6 DEF Work
<1> QED
  BY <1>1, <1>3, <1>4, <1>5, <1>6, <1>7 DEF Next, Start, vars

LEMMA TypeStep ==
    ASSUME TypeOK, ThreadsInv, NumbersInv, [Next]_vars
    PROVE  TypeOK' /\ ThreadsInv'
<1>1. ASSUME NEW w \in Threads, Moves(w)
      PROVE  th' \in [Threads -> Thread] /\ ThreadsInv'
  <2>1. PICK x \in Thread : Placed(x) /\ th' = [th EXCEPT ![w] = x]
    BY <1>1 DEF Moves
  <2>2. th \in [Threads -> Thread] /\ \A v \in Threads : Placed(th[v])
    BY DEF TypeOK, ThreadsInv
  <2>3. \A v \in Threads : th'[v] \in Thread /\ Placed(th'[v])
    BY <2>1, <2>2
  <2>4. th' \in [Threads -> Thread]
    BY <2>1, <2>2
  <2>5. ThreadsInv'
    BY <2>3 DEF ThreadsInv, Placed, Pending, Deleting, KindOf, Path
  <2> QED
    BY <2>4, <2>5
<1>2. CASE UNCHANGED vars
  BY <1>2 DEF vars, TypeOK, ThreadsInv, Placed
<1>3. CASE Crash
  <2>1. th' = [v \in Threads |-> Idle] /\ files' = [p \in Path |-> [files[p] EXCEPT !.freed = FALSE]]
    BY <1>3 DEF Crash
  <2>2. th' \in [Threads -> Thread] /\ ThreadsInv'
    BY <2>1, IdlePlaced DEF ThreadsInv
  <2>3. \A p \in Path : /\ files'[p] \in FileState
                        /\ files'[p].st = files[p].st /\ files'[p].blocks = files[p].blocks
    BY <2>1 DEF TypeOK, FileState
  <2>4. files' \in [Path -> FileState]
    BY <2>1, <2>3
  <2> QED
    BY <2>2, <2>3, <2>4, CountedStep DEF TypeOK
<1>4. ASSUME NEW w \in Threads, Work(w) PROVE TypeOK' /\ ThreadsInv'
  <2>1. Moves(w)
    BY <1>4, SaveMoves, CompactMoves, DropMoves DEF Work
  <2> QED
    BY <1>1, <1>4, <2>1, FilesStep, CountedStep DEF TypeOK, FilesOK
<1>5. ASSUME NEW w \in Threads, NEW t \in Tables, Start(w, t) PROVE TypeOK' /\ ThreadsInv'
  <2>1. UNCHANGED files
    BY <1>5, QuietSteps DEF OwnersKept
  <2> QED
    BY <1>1, <1>5, <2>1, StartMoves, CountedStep DEF TypeOK
<1> QED
  BY <1>2, <1>3, <1>4, <1>5 DEF Next

LEMMA NumbersStep ==
    ASSUME TypeOK, ThreadsInv, NumbersInv, [Next]_vars
    PROVE  NumbersInv'
<1> DEFINE c == Cardinality(Choosing)
           n == count["dump"]
<1>1. /\ th \in [Threads -> Thread] /\ n \in Nat /\ c \in Nat /\ IsFiniteSet(Choosing)
      /\ \A p \in Path : p.n \in Nat
  BY Sizes, ChoosingFinite DEF TypeOK, Path
<1>2. count'["dump"] \in Nat /\ count'["dump"] >= n
  BY CountedStep
(* It is enough that no dump begins to choose and none saves elsewhere.    *)
<1>3. ASSUME Choosing' \subseteq Choosing,
             \A v \in Threads : Saving(v)' => Saving(v) /\ th'[v].path = th[v].path,
             \A p \in Path : p.kind = "tmp" /\ Exists(p)' =>
                Exists(p) \/ \E v \in Threads : Saving(v) /\ th[v].path = p
      PROVE  NumbersInv'
  <2>1. Cardinality(Choosing') \in Nat /\ Cardinality(Choosing') <= c
    BY <1>1, <1>3, FS_Subset, FS_CardinalityType
  <2>2. ASSUME NEW p \in Path, p.kind = "tmp", Exists(p)'
        PROVE  p.n + Cardinality(Choosing') <= count'["dump"]
    <3>1. p.n + c <= n
      BY <1>3, <2>2 DEF NumbersInv
    <3> QED
      BY <1>1, <1>2, <2>1, <3>1
  <2>3. ASSUME NEW v \in Threads, Saving(v)'
        PROVE  th'[v].path.n + Cardinality(Choosing') <= count'["dump"]
    <3>1. th[v].path.n + c <= n /\ th[v].path \in Path /\ th'[v].path = th[v].path
      BY <1>3, <2>3 DEF NumbersInv, ThreadsInv, Placed, Saving
    <3> QED
      BY <1>1, <1>2, <2>1, <3>1
  <2>4. Cardinality(Choosing') <= count'["dump"]
    BY <1>1, <1>2, <2>1 DEF NumbersInv
  <2> QED
    BY <2>2, <2>3, <2>4 DEF NumbersInv
<1>4. CASE UNCHANGED vars
  BY <1>4 DEF vars, NumbersInv, Choosing, At, Exists, Saving
<1>5. CASE Crash
  <2>1. th' = [v \in Threads |-> Idle] /\ files' = [p \in Path |-> [files[p] EXCEPT !.freed = FALSE]]
    BY <1>5 DEF Crash
  <2>2. \A p \in Path : files'[p].st = files[p].st
    BY <2>1 DEF TypeOK, FileState
  <2> QED
    BY <1>3, <2>1, <2>2, IdlePlaced DEF Choosing, At, Saving, Exists
<1>6. ASSUME NEW w \in Threads, Moves(w), DumpsKept(w)
      PROVE  /\ Choosing' \subseteq Choosing
             /\ \A v \in Threads : Saving(v)' => Saving(v) /\ th'[v].path = th[v].path
  BY <1>6 DEF Moves, DumpsKept, Choosing, At, Saving
<1>7. ASSUME NEW w \in Threads, Work(w), ~Allocated(w) PROVE NumbersInv'
  <2>1. DumpsKept(w) /\ Moves(w) /\ FilesOK
    BY <1>7, DumpsStep, FilesStep, SaveMoves, CompactMoves, DropMoves DEF Work
  <2> QED
    BY <1>3, <1>6, <2>1 DEF FilesOK, Exists
<1>8. ASSUME NEW w \in Threads, Allocated(w) PROVE NumbersInv'
  <2>1. /\ th[w].pc = "alloc" /\ th'[w].pc = "touch" /\ th'[w].path = Target(w)
        /\ th'[w].op = th[w].op /\ \A v \in Threads \ {w} : th'[v] = th[v]
        /\ UNCHANGED files
    BY <1>1, <1>8 DEF Allocated, Thread
  <2>2. Choosing' = Choosing \ {w} /\ \A v \in Threads \ {w} : Saving(v)' <=> Saving(v)
    BY <2>1 DEF Choosing, At, Saving
  <2>3. CASE th[w].op # "dump"
    <3>1. ~Saving(w)'
      BY <2>1, <2>3 DEF Saving
    <3> QED
      BY <1>3, <2>1, <2>2, <3>1 DEF Exists
  <2>4. CASE th[w].op = "dump"
    <3>1. w \in Choosing
      BY <2>1, <2>4 DEF Choosing, At
    <3>2. Cardinality(Choosing') = c - 1
      BY <1>1, <2>2, <3>1, FS_RemoveElement
    <3>3. Target(w) \in Path /\ Target(w).n + (c - 1) <= n
      BY <2>1, <2>4, TargetIsPath
    <3>4. ASSUME NEW v \in Threads, Saving(v)'
          PROVE  th'[v].path.n + (c - 1) <= count'["dump"]
      <4>1. CASE v = w
        BY <1>1, <1>2, <2>1, <3>3, <4>1
      <4>2. CASE v # w
        <5>1. th'[v] = th[v] /\ th[v].path.n + c <= n /\ th[v].path \in Path
          BY <2>1, <2>2, <3>4, <4>2 DEF NumbersInv, ThreadsInv, Placed, Saving
        <5> QED
          BY <1>1, <1>2, <5>1
      <4> QED
        BY <4>1, <4>2
    <3>5. ASSUME NEW p \in Path, p.kind = "tmp", Exists(p)'
          PROVE  p.n + (c - 1) <= count'["dump"]
      <4>1. p.n + c <= n
        BY <2>1, <3>5 DEF NumbersInv, Exists
      <4> QED
        BY <1>1, <1>2, <4>1
    <3>6. c - 1 <= count'["dump"]
      BY <1>1, <1>2 DEF NumbersInv
    <3> QED
      BY <3>2, <3>4, <3>5, <3>6 DEF NumbersInv
  <2> QED
    BY <2>3, <2>4
<1>9. ASSUME NEW w \in Threads, NEW t \in Tables, Start(w, t), ~DumpBegin(w, t)
      PROVE  NumbersInv'
  <2>1. th'[w].op # "dump"
    <3>1. CASE CreateBegin(w, t)
      <4> DEFINE i == count'["create"]
      <4>1. th' = [th EXCEPT ![w] = [Idle EXCEPT !.op = "create", !.pc = "mkdir", !.t = t,
                                                 !.inc = i]]
        BY <3>1 DEF CreateBegin
      <4> HIDE DEF i
      <4> QED
        BY <1>1, <4>1 DEF Idle
    <3>2. CASE CompactBegin(w, t)
      BY <1>1, <3>2 DEF CompactBegin, Idle
    <3>3. CASE DropBegin(w, t)
      BY <1>1, <3>3 DEF DropBegin, Idle
    <3> QED
      BY <1>9, <3>1, <3>2, <3>3 DEF Start
  <2>2. Moves(w) /\ DumpsKept(w) /\ UNCHANGED files
    BY <1>9, <2>1, StartMoves, QuietSteps DEF DumpsKept, OwnersKept
  <2> QED
    BY <1>3, <1>6, <2>2 DEF Exists
<1>10. ASSUME NEW w \in Threads, NEW t \in Tables, DumpBegin(w, t) PROVE NumbersInv'
  <2>1. /\ th[w] = Idle /\ th'[w].op = "dump" /\ th'[w].pc = "alloc"
        /\ \A v \in Threads \ {w} : th'[v] = th[v]
        /\ UNCHANGED files /\ count'["dump"] = n + 1
    BY <1>1, <1>10 DEF DumpBegin, Counted, Idle, TypeOK
  <2>2. /\ w \notin Choosing /\ Choosing' = Choosing \cup {w}
        /\ \A v \in Threads : Saving(v)' => v # w /\ Saving(v)
    BY <2>1, IdlePlaced DEF Choosing, At, Saving, Pending
  <2>3. Cardinality(Choosing') = c + 1
    BY <1>1, <2>2, FS_AddElement
  <2>4. ASSUME NEW v \in Threads, Saving(v)'
        PROVE  th'[v].path.n + (c + 1) <= n + 1
    <3>1. th'[v] = th[v] /\ th[v].path.n + c <= n /\ th[v].path \in Path
      BY <2>1, <2>2, <2>4 DEF NumbersInv, ThreadsInv, Placed, Saving
    <3> QED
      BY <1>1, <3>1
  <2>5. ASSUME NEW p \in Path, p.kind = "tmp", Exists(p)'
        PROVE  p.n + (c + 1) <= n + 1
    <3>1. p.n + c <= n
      BY <2>1, <2>5 DEF NumbersInv, Exists
    <3> QED
      BY <1>1, <3>1
  <2>6. c + 1 <= n + 1
    BY <1>1 DEF NumbersInv
  <2> QED
    BY <2>1, <2>3, <2>4, <2>5, <2>6 DEF NumbersInv
<1> QED
  BY <1>4, <1>5, <1>7, <1>8, <1>9, <1>10 DEF Next

-----------------------------------------------------------------------------
(* The theorems.                                                           *)

LEMMA InitBlocks == Init => IInv
<1> SUFFICES ASSUME Init PROVE IInv
  OBVIOUS
<1>1. /\ used = {} /\ files = [p \in Path |-> NoFile] /\ map = [t \in Tables |-> 0]
      /\ th = [w \in Threads |-> Idle] /\ leaked = {}
      /\ count = [create |-> 0, dump |-> 0, compact |-> 0, crash |-> 0]
  BY DEF Init
<1>2. TypeOK /\ ThreadsInv
  BY <1>1, IdlePlaced, Saves, Sizes DEF TypeOK, ThreadsInv
<1>3. Choosing = {} /\ count["dump"] = 0 /\ \A w \in Threads : ~Saving(w)
  BY <1>1, IdlePlaced DEF Choosing, At, Saving
<1>4. NumbersInv
  BY <1>1, <1>3, Saves, FS_EmptySet DEF NumbersInv, Exists
<1>5. OwnersInv
  BY <1>1, IdlePlaced, Saves DEF OwnersInv, BlockInv, Owned, Lists, Holds
<1> QED
  BY <1>2, <1>4, <1>5 DEF IInv

LEMMA Inductive == IInv /\ [Next]_vars => IInv'
BY TypeStep, NumbersStep, OwnersStep DEF IInv

THEOREM Invariant == Spec => []IInv
BY InitBlocks, Inductive, PTL DEF Spec

LEMMA OwnersAre ==
    ASSUME NEW b
    PROVE  /\ \A o \in Owners(b) : \/ o \in Path /\ Lists(o, b)
                                   \/ o \in Threads /\ Holds(o, b)
           /\ Owners(b) # {} <=> Owned(b)
BY DEF Owners, Owned, Lists, Holds

(* fs.c:658, :689 and :784: no block belongs to two files, or to a file    *)
(* and to a task that fills one, unless it is doubtful.                    *)
THEOREM NoSharedBlockCorrect == Spec => []NoSharedBlock
<1>1. IInv => NoSharedBlock
  BY OwnersAre DEF IInv, OwnersInv, BlockInv, NoSharedBlock
<1> QED
  BY <1>1, Invariant, PTL

(* fs.c:658 and :689: a block that is not doubtful is marked exactly while *)
(* it has an owner or has been left without one.                           *)
THEOREM UsedIsOwnedCorrect == Spec => []UsedIsOwned
<1>1. IInv => UsedIsOwned
  BY OwnersAre DEF IInv, OwnersInv, BlockInv, UsedIsOwned
<1> QED
  BY <1>1, Invariant, PTL
=============================================================================
