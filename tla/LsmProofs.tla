------------------------------ MODULE LsmProofs ------------------------------
(***************************************************************************)
(* Theorems about LsmStore, for any number of keys, partitions, tasks and  *)
(* dumps; then about LsmCrash: what survives the crashes, for any number   *)
(* of them and whatever a dump or a compaction was doing.                  *)
(***************************************************************************)
EXTENDS LsmStoreInv, LsmCrash, FiniteSetTheorems, WellFoundedInduction, TLAPS

-----------------------------------------------------------------------------
(* Operators.                                                              *)

LEMMA PartOfType == \A k \in Keys : PartOf(k) \in Partitions
  BY KeysAssumption, PartCountAssumption DEF PartOf, Partitions

LEMMA TimestampType == \A r \in Record : r.ts \in Nat /\ r.key \in Keys
  BY TimestampsAssumption DEF Record

(* A set covers what a set it covers covers.                               *)
LEMMA CoversTrans ==
    ASSUME NEW S \in SUBSET Record, NEW T \in SUBSET Record, NEW r \in Record,
           Covers(S, r), \A q \in S : Covers(T, q)
    PROVE  Covers(T, r)
  BY TimestampType DEF Covers

LEMMA CoversMore ==
    ASSUME NEW S, NEW T, S \subseteq T, NEW r, Covers(S, r)
    PROVE  Covers(T, r)
  BY DEF Covers

LEMMA CoversItself ==
    ASSUME NEW S \in SUBSET Record, NEW r \in S
    PROVE  Covers(S, r)
  BY TimestampType DEF Covers

-----------------------------------------------------------------------------
(* Types.                                                                  *)

LEMMA InitType == Init => TypeOK
  <1> SUFFICES ASSUME Init PROVE TypeOK
    OBVIOUS
  <1>1. 0 \in 0 .. PartCount /\ 0 \in 0 .. MaxInserts
    BY PartCountAssumption, MaxInsertsAssumption
  <1>2. sbest \in [Selectors -> Answer]
    BY DEF Init, Answer
  <1> QED
    BY <1>1, <1>2 DEF Init, TypeOK, CompactPc

LEMMA InsertType ==
    ASSUME TypeOK, NEW i \in Inserters, Insert(i)
    PROVE  TypeOK'
  <1>1. ASSUME NEW r \in Record, InsertBegin(i, r) PROVE TypeOK'
    BY <1>1, MaxInsertsAssumption
    DEF InsertBegin, GuardBegin, TypeOK, storageVars, compactVars, selectVars
  <1>2. ASSUME InsertAdd(i) PROVE TypeOK'
    BY <1>2 DEF InsertAdd, GuardEnd, TypeOK, compactVars, selectVars
  <1> QED
    BY <1>1, <1>2 DEF Insert

LEMMA DumpType ==
    ASSUME TypeOK, NEW d \in Dumpers, Dump(d)
    PROVE  TypeOK'
  <1> USE DEF TypeOK, storageVars, lockVars, compactVars, selectVars
  <1>1. CASE DumpBegin(d)
    BY <1>1 DEF DumpBegin, GuardBegin
  <1>2. CASE DumpNotNeeded(d)
    BY <1>2 DEF DumpNotNeeded, GuardEnd
  <1>3. CASE DumpSort(d)
    BY <1>3 DEF DumpSort, Preprocessed
  <1>4. CASE DumpSave(d)
    BY <1>4 DEF DumpSave
  <1>5. CASE DumpFail(d)
    BY <1>5 DEF DumpFail, GuardEnd
  <1>6. CASE DumpClear(d)
    BY <1>6 DEF DumpClear, GuardEnd
  <1> QED
    BY <1>1, <1>2, <1>3, <1>4, <1>5, <1>6 DEF Dump

LEMMA SelectType ==
    ASSUME TypeOK, NEW s \in Selectors, Select(s)
    PROVE  TypeOK'
  <1> USE DEF TypeOK, storageVars, lockVars, taskVars, compactVars
  <1>1. ASSUME NEW k \in Keys, SelectBegin(s, k) PROVE TypeOK'
    BY <1>1 DEF SelectBegin, GuardBegin, Answer
  <1>2. CASE SelectPart(s)
    BY <1>2 DEF SelectPart, DumpsOnDisk, Answer, Record
  <1>3. CASE SelectDumps(s)
    BY <1>3 DEF SelectDumps, Answer, Record
  <1>4. CASE SelectMemtable(s)
    BY <1>4 DEF SelectMemtable, Answer, Record
  <1>5. CASE SelectNoMemtable(s)
    BY <1>5 DEF SelectNoMemtable, GuardEnd
  <1>6. CASE SelectCopy(s)
    BY <1>6 DEF SelectCopy, GuardEnd, Answer, Record
  <1> QED
    BY <1>1, <1>2, <1>3, <1>4, <1>5, <1>6 DEF Select

LEMMA CompactType ==
    ASSUME TypeOK, Compact
    PROVE  TypeOK'
  <1> USE DEF TypeOK, CompactPc, storageVars, lockVars, taskVars, selectVars
  <1>z. 0 \in 0 .. PartCount
    BY PartCountAssumption
  <1>1. CASE CompactBegin
    BY <1>1 DEF CompactBegin
  <1>12. CASE CompactScope
    BY <1>12 DEF CompactScope, DumpsOnDisk
  <1>18. CASE CompactOverrun
    BY <1>18 DEF CompactOverrun
  <1>13. CASE CompactUnblock
    BY <1>13 DEF CompactUnblock
  <1>14. CASE CompactLoad
    BY <1>14, <1>z DEF CompactLoad, Preprocessed
  <1>2. ASSUME NEW n \in DumpNumbers, CompactRename(n) PROVE TypeOK'
    BY <1>2 DEF CompactRename
  <1>3. ASSUME NEW n \in DumpNumbers, CompactConflict(n) PROVE TypeOK'
    BY <1>3 DEF CompactConflict
  <1>4. ASSUME NEW n \in DumpNumbers, CompactDelete(n) PROVE TypeOK'
    BY <1>4 DEF CompactDelete
  <1>5. CASE CompactSkipPart
    BY <1>5, PartCountAssumption DEF CompactSkipPart
  <1>6. CASE CompactMakePart
    BY <1>6, PartCountAssumption
    DEF CompactMakePart, Preprocessed, Entries, Partitions
  <1>7. CASE CompactFail
    BY <1>7, <1>z DEF CompactFail
  <1>15. CASE CompactBlock
    BY <1>15 DEF CompactBlock
  <1>16. CASE CompactAlone
    BY <1>16 DEF CompactAlone
  <1>17. CASE CompactDeleted
    BY <1>17, <1>z DEF CompactDeleted
  <1>8. CASE CompactKeepPart
    BY <1>8, PartCountAssumption DEF CompactKeepPart
  <1>9. CASE CompactDropOld
    BY <1>9, PartCountAssumption DEF CompactDropOld, Partitions
  <1>10. CASE CompactMoveNew
    BY <1>10, PartCountAssumption DEF CompactMoveNew, Partitions
  <1>11. CASE CompactEnd
    BY <1>11, <1>z DEF CompactEnd
  <1> QED
    BY <1>1, <1>2, <1>3, <1>4, <1>5, <1>6, <1>7, <1>8, <1>9, <1>10, <1>11,
       <1>12, <1>13, <1>14, <1>15, <1>16, <1>17, <1>18
    DEF Compact

LEMMA StepType == TypeOK /\ [Next]_vars => TypeOK'
  <1> SUFFICES ASSUME TypeOK, [Next]_vars PROVE TypeOK'
    OBVIOUS
  <1>1. CASE UNCHANGED vars
    BY <1>1 DEF vars, storageVars, lockVars, taskVars, compactVars, selectVars,
                TypeOK
  <1> QED
    BY <1>1, InsertType, DumpType, SelectType, CompactType DEF Next, Overrun

(* Every variable keeps its type.                                          *)
THEOREM TypeCorrect == Spec => []TypeOK
  BY InitType, StepType, PTL DEF Spec

-----------------------------------------------------------------------------
(* The guard and the stages of the compaction.                             *)

LEMMA Distinct ==
    /\ \A i \in Inserters : i \notin Dumpers /\ i \notin Selectors
    /\ \A d \in Dumpers : d \notin Inserters /\ d \notin Selectors /\ d # None
    /\ \A s \in Selectors : s \notin Inserters /\ s \notin Dumpers
    /\ None \notin Record
  BY TasksAssumption, NoneAssumption

LEMMA InitLock == Init => LockInv
  BY Distinct
  DEF Init, LockInv, UsersExact, OwnerExact, BlockedExact, StagesExclusive,
      Searching, BlockingPc, Exclusive

LEMMA InsertLock ==
    ASSUME TypeOK, LockInv, NEW i \in Inserters, Insert(i)
    PROVE  LockInv'
  <1> USE Distinct DEF TypeOK, LockInv, UsersExact, OwnerExact, BlockedExact,
          StagesExclusive, Searching, BlockingPc, Exclusive
  <1>1. ASSUME NEW r \in Record, InsertBegin(i, r) PROVE LockInv'
    BY <1>1 DEF InsertBegin, GuardBegin, storageVars, compactVars, selectVars
  <1>2. ASSUME InsertAdd(i) PROVE LockInv'
    BY <1>2 DEF InsertAdd, GuardEnd, compactVars, selectVars
  <1> QED
    BY <1>1, <1>2 DEF Insert

LEMMA DumpLock ==
    ASSUME TypeOK, LockInv, NEW d \in Dumpers, Dump(d)
    PROVE  LockInv'
  <1> USE Distinct DEF TypeOK, LockInv, UsersExact, OwnerExact, BlockedExact,
          StagesExclusive, Searching, BlockingPc, Exclusive, storageVars, lockVars,
          compactVars, selectVars
  <1>1. CASE DumpBegin(d)
    BY <1>1 DEF DumpBegin, GuardBegin
  <1>2. CASE DumpNotNeeded(d)
    BY <1>2 DEF DumpNotNeeded, GuardEnd
  <1>3. CASE DumpSort(d)
    BY <1>3 DEF DumpSort
  <1>4. CASE DumpSave(d)
    BY <1>4 DEF DumpSave
  <1>5. CASE DumpFail(d)
    BY <1>5 DEF DumpFail, GuardEnd
  <1>6. CASE DumpClear(d)
    BY <1>6 DEF DumpClear, GuardEnd
  <1> QED
    BY <1>1, <1>2, <1>3, <1>4, <1>5, <1>6 DEF Dump

LEMMA SelectLock ==
    ASSUME TypeOK, LockInv, NEW s \in Selectors, Select(s)
    PROVE  LockInv'
  <1> USE Distinct DEF TypeOK, LockInv, UsersExact, OwnerExact, BlockedExact,
          StagesExclusive, Searching, BlockingPc, Exclusive, storageVars, lockVars,
          taskVars, compactVars
  <1>1. ASSUME NEW k \in Keys, SelectBegin(s, k) PROVE LockInv'
    BY <1>1 DEF SelectBegin, GuardBegin
  <1>2. CASE SelectPart(s)
    BY <1>2 DEF SelectPart
  <1>3. CASE SelectDumps(s)
    BY <1>3 DEF SelectDumps
  <1>4. CASE SelectMemtable(s)
    BY <1>4 DEF SelectMemtable
  <1>5. CASE SelectNoMemtable(s)
    BY <1>5 DEF SelectNoMemtable, GuardEnd
  <1>6. CASE SelectCopy(s)
    BY <1>6 DEF SelectCopy, GuardEnd
  <1> QED
    BY <1>1, <1>2, <1>3, <1>4, <1>5, <1>6 DEF Select

(* A compaction step never changes who is in, so what is left to show is   *)
(* that the flag is up, and nobody in, whenever a stage needs it.          *)
LEMMA CompactLock ==
    ASSUME TypeOK, LockInv, Compact
    PROVE  LockInv'
  <1>1. UNCHANGED <<users, owner, pending, dpc, spc>>
    BY DEF Compact, CompactBegin, CompactScope, CompactOverrun, CompactRename,
           CompactConflict, CompactUnblock, CompactLoad, CompactSkipPart,
           CompactMakePart, CompactFail, CompactBlock, CompactAlone, CompactDelete,
           CompactDeleted, CompactKeepPart, CompactDropOld, CompactMoveNew,
           CompactEnd, storageVars, lockVars, taskVars, selectVars
  <1>2. UsersExact' /\ OwnerExact'
    BY <1>1 DEF LockInv, UsersExact, OwnerExact
  <1>3. BlockedExact'
    BY DEF LockInv, BlockedExact, BlockingPc, TypeOK, Compact, CompactBegin,
           CompactScope, CompactOverrun, CompactRename, CompactConflict,
           CompactUnblock, CompactLoad, CompactSkipPart, CompactMakePart,
           CompactFail, CompactBlock, CompactAlone, CompactDelete, CompactDeleted,
           CompactKeepPart, CompactDropOld, CompactMoveNew, CompactEnd, lockVars
  <1>4. StagesExclusive'
    BY <1>1
    DEF LockInv, BlockedExact, StagesExclusive, Exclusive, BlockingPc, Compact,
        CompactBegin, CompactScope, CompactOverrun, CompactRename, CompactConflict,
        CompactUnblock, CompactLoad, CompactSkipPart, CompactMakePart, CompactFail,
        CompactBlock, CompactAlone, CompactDelete, CompactDeleted, CompactKeepPart,
        CompactDropOld, CompactMoveNew, CompactEnd, lockVars
  <1> QED
    BY <1>2, <1>3, <1>4 DEF LockInv

LEMMA StepLock == TypeOK /\ LockInv /\ [Next]_vars => LockInv'
  <1> SUFFICES ASSUME TypeOK, LockInv, [Next]_vars PROVE LockInv'
    OBVIOUS
  <1>1. CASE UNCHANGED vars
    BY <1>1
    DEF vars, storageVars, lockVars, taskVars, compactVars, selectVars, LockInv,
        UsersExact, OwnerExact, BlockedExact, StagesExclusive, Exclusive
  <1> QED
    BY <1>1, InsertLock, DumpLock, SelectLock, CompactLock DEF Next, Overrun

LEMMA LockInductive == Spec => [](TypeOK /\ LockInv)
  BY InitType, StepType, InitLock, StepLock, PTL DEF Spec

(* Nobody is inside the guard while a compaction renames, deletes or swaps *)
(* the files of the table.                                                 *)
THEOREM StagesExclusiveCorrect == Spec => []StagesExclusive
  BY LockInductive, PTL DEF LockInv

-----------------------------------------------------------------------------
(* Dumps take a number of their own.                                       *)

(* The actions that do not touch the D#.tmp: all but two.                  *)
LEMMA TmpSteps ==
    ASSUME [Next]_vars
    PROVE  \/ UNCHANGED tmp
           \/ \E d \in Dumpers : DumpSave(d)
           \/ \E n \in DumpNumbers : CompactRename(n)
  BY DEF Next, Overrun, vars, Insert, InsertBegin, InsertAdd, Dump, DumpBegin,
         DumpNotNeeded, DumpSort, DumpFail, DumpClear, Select, SelectBegin,
         SelectPart, SelectDumps, SelectMemtable, SelectNoMemtable, SelectCopy,
         Compact, CompactBegin, CompactScope, CompactOverrun, CompactConflict,
         CompactUnblock, CompactLoad, CompactSkipPart, CompactMakePart, CompactFail,
         CompactBlock, CompactAlone, CompactDelete, CompactDeleted, CompactKeepPart,
         CompactDropOld, CompactMoveNew, CompactEnd, storageVars

(* A dump never replaces a D#.tmp that is on disk, however many dump tasks *)
(* the table has.                                                          *)
THEOREM DumpsNeverOverwrittenCorrect == Spec => DumpsNeverOverwritten
  <1>1. ASSUME TypeOK, [Next]_vars
        PROVE  [\A n \in DumpNumbers : tmp[n] # {} => tmp'[n] \in {{}, tmp[n]}]_tmp
    <2>1. ASSUME NEW d \in Dumpers, DumpSave(d), NEW n \in DumpNumbers, tmp[n] # {}
          PROVE  tmp'[n] = tmp[n]
      BY <1>1, <2>1 DEF DumpSave, IsNextDump, TypeOK, DumpNumbers
    <2>2. ASSUME NEW m \in DumpNumbers, CompactRename(m), NEW n \in DumpNumbers
          PROVE  tmp'[n] \in {{}, tmp[n]}
      BY <1>1, <2>2 DEF CompactRename, TypeOK
    <2> QED
      BY <1>1, <2>1, <2>2, TmpSteps
  <1> QED
    BY <1>1, InitType, StepType, PTL DEF Spec, DumpsNeverOverwritten

-----------------------------------------------------------------------------
(* Nothing gets lost: what is visible stays covered.                       *)

Stage3 == cpc \in {"delete", "swap", "move"}

Shown(r) ==
    \/ r \in memtable
    \/ \E n \in DumpNumbers : r \in tmp[n] \/ r \in tmpc[n]
    \/ \E p \in Partitions : r \in bin[p]
    \/ Stage3 /\ \E p \in Partitions : r \in binc[p]

LEMMA VisibleMembers ==
    /\ \A r : r \in Visible <=> Shown(r)
    /\ \A r : r \in Visible' <=> Shown(r)'
  <1>1. \A r : r \in Visible <=> Shown(r)
    BY DEF Visible, Stored, InDumps, InPartitions, Stage3, Shown
  <1>2. \A r : r \in Visible' <=> Shown(r)'
    BY DEF Visible, Stored, InDumps, InPartitions, Stage3, Shown
  <1> QED
    BY <1>1, <1>2

LEMMA VisibleType ==
    /\ TypeOK => Visible \subseteq Record
    /\ TypeOK' => Visible' \subseteq Record
  <1>1. TypeOK => Visible \subseteq Record
    BY DEF TypeOK, Visible, Stored, InDumps, InPartitions
  <1>2. TypeOK' => Visible' \subseteq Record
    BY DEF TypeOK, Visible, Stored, InDumps, InPartitions
  <1> QED
    BY <1>1, <1>2

(* Two states that show the same records, and two of which the second      *)
(* shows at least those of the first.                                      *)
LEMMA VisibleSame ==
    ASSUME UNCHANGED <<memtable, tmp, tmpc, bin>>,
           Stage3' <=> Stage3,
           Stage3 => UNCHANGED binc
    PROVE  Visible' = Visible
  BY DEF Visible, Stored, InDumps, InPartitions, Stage3

(* A step keeps what is visible, and shows nothing new.                    *)
Keeps == CoversAll(Visible', Visible)
NoNews == CoversAll(Visible, Visible')

LEMMA SameKeeps ==
    ASSUME TypeOK, Visible' = Visible
    PROVE  Keeps /\ NoNews
  BY VisibleType, CoversItself DEF Keeps, NoNews, CoversAll

LEMMA InsertKeeps ==
    ASSUME TypeOK, NEW i \in Inserters
    PROVE  /\ \A r \in Record : InsertBegin(i, r) => Visible' = Visible
           /\ InsertAdd(i) => Visible' = Visible \cup {pending[i]}
  <1>1. ASSUME NEW r \in Record, InsertBegin(i, r) PROVE Visible' = Visible
    BY <1>1, VisibleSame DEF InsertBegin, storageVars, compactVars, Stage3
  <1>2. ASSUME InsertAdd(i) PROVE Visible' = Visible \cup {pending[i]}
    BY <1>2 DEF InsertAdd, compactVars, Visible, Stored, InDumps, InPartitions
  <1> QED
    BY <1>1, <1>2

LEMMA SelectKeeps ==
    ASSUME NEW s \in Selectors, Select(s)
    PROVE  Visible' = Visible
  <1>1. UNCHANGED <<storageVars, cpc>>
    BY DEF Select, SelectBegin, SelectPart, SelectDumps, SelectMemtable,
           SelectNoMemtable, SelectCopy, compactVars
  <1> QED
    BY <1>1, VisibleSame DEF storageVars, Stage3

LEMMA DumpKeeps ==
    ASSUME TypeOK, SavedInv, NEW d \in Dumpers, Dump(d)
    PROVE  Keeps /\ NoNews
  <1> USE DEF storageVars, lockVars, compactVars, Shown, Stage3
  <1>t. Visible \subseteq Record /\ Visible' \subseteq Record
    BY VisibleType, DumpType
  <1>1. CASE DumpBegin(d) \/ DumpNotNeeded(d) \/ DumpFail(d)
    <2>1. UNCHANGED <<memtable, tmp, tmpc, bin, binc, cpc>>
      BY <1>1 DEF DumpBegin, DumpNotNeeded, DumpFail
    <2> QED
      BY <2>1, VisibleSame, SameKeeps DEF Stage3
  <1>2. CASE DumpSort(d)
    <2>1. UNCHANGED <<tmp, tmpc, bin, binc, cpc>> /\ Preprocessed(memtable, memtable')
      BY <1>2 DEF DumpSort
    <2>2. Visible' \subseteq Visible
      BY <2>1, VisibleMembers DEF Preprocessed
    <2>3. ASSUME NEW r \in Visible PROVE Covers(Visible', r)
      <3>1. CASE r \in memtable
        <4>1. Covers(memtable', r)
          BY <2>1, <3>1 DEF Preprocessed
        <4>2. memtable' \subseteq Visible'
          BY DEF Visible, Stored
        <4> QED
          BY <4>1, <4>2, CoversMore
      <3>2. CASE r \notin memtable
        <4>1. r \in Visible'
          BY <2>1, <3>2, <2>3, VisibleMembers
        <4> QED
          BY <4>1, <1>t, CoversItself
      <3> QED
        BY <3>1, <3>2
    <2> QED
      BY <2>2, <2>3, <1>t, CoversItself DEF Keeps, NoNews, CoversAll
  <1>3. CASE DumpSave(d)
    <2>1. UNCHANGED <<memtable, tmpc, bin, binc, cpc>>
      BY <1>3 DEF DumpSave
    <2>2. PICK m \in DumpNumbers : IsNextDump(m) /\ tmp' = [tmp EXCEPT ![m] = memtable]
      BY <1>3 DEF DumpSave
    <2>3. tmp[m] = {}
      <3>1. m \in Nat
        BY DEF DumpNumbers
      <3>2. tmp[m] # {} => m < m
        BY <2>2 DEF IsNextDump
      <3> QED
        BY <3>1, <3>2
    <2>4. Visible' = Visible
      BY <2>1, <2>2, <2>3, VisibleMembers DEF TypeOK
    <2> QED
      BY <2>4, SameKeeps
  <1>4. CASE DumpClear(d)
    <2>1. UNCHANGED <<tmp, tmpc, bin, binc, cpc>> /\ memtable' = {}
      BY <1>4 DEF DumpClear
    <2>2. \E n \in DumpNumbers : memtable \subseteq tmp[n]
      BY <1>4 DEF DumpClear, SavedInv
    <2>3. Visible' = Visible
      BY <2>1, <2>2, VisibleMembers
    <2> QED
      BY <2>3, SameKeeps
  <1> QED
    BY <1>1, <1>2, <1>3, <1>4 DEF Dump

(* The compaction's steps that change neither the files a reader looks at  *)
(* nor whether the P#.binc count.                                          *)
LEMMA CompactHidden ==
    ASSUME \/ CompactBegin \/ CompactScope \/ CompactOverrun \/ CompactUnblock
           \/ CompactLoad
           \/ CompactSkipPart \/ CompactMakePart \/ CompactFail \/ CompactBlock
           \/ CompactDeleted \/ CompactKeepPart
           \/ \E n \in DumpNumbers : CompactConflict(n)
    PROVE  Visible' = Visible
  <1>1. /\ UNCHANGED <<memtable, tmp, tmpc, bin>>
        /\ Stage3' <=> Stage3
        /\ Stage3 => UNCHANGED binc
    BY DEF Stage3, CompactBegin, CompactScope, CompactOverrun, CompactUnblock,
           CompactLoad, CompactSkipPart, CompactMakePart, CompactFail, CompactBlock,
           CompactDeleted, CompactKeepPart, CompactConflict, storageVars
  <1> QED
    BY <1>1, VisibleSame

LEMMA CompactKeeps ==
    ASSUME TypeOK, TypeOK', DataInv, Compact
    PROVE  Keeps /\ NoNews
  <1> USE DEF Shown, Stage3
  <1>t. Visible \subseteq Record /\ Visible' \subseteq Record
    BY VisibleType
  <1>1. ASSUME Visible' = Visible PROVE Keeps /\ NoNews
    BY <1>1, SameKeeps
  <1>2. ASSUME NEW n \in DumpNumbers, CompactRename(n) PROVE Keeps /\ NoNews
    <2>1. \A r : r \in Visible' <=> r \in Visible
      BY <1>2, VisibleMembers DEF CompactRename, TypeOK
    <2> QED
      BY <2>1, <1>1
  <1>3. ASSUME NEW n \in DumpNumbers, CompactDelete(n) PROVE Keeps /\ NoNews
    <2>1. /\ UNCHANGED <<memtable, tmp, bin, binc, cpc>> /\ cpc = "delete"
          /\ tmpc' = [tmpc EXCEPT ![n] = {}]
      BY <1>3 DEF CompactDelete
    <2>2. Visible' \subseteq Visible
      BY <2>1, VisibleMembers DEF TypeOK
    <2>3. ASSUME NEW r \in Visible PROVE Covers(Visible', r)
      <3>1. CASE r \in tmpc[n]
        <4>1. PICK q \in merged : q.key = r.key /\ q.ts >= r.ts
          BY <2>1, <3>1 DEF DataInv, MergedInv, CoversAll, Covers
        <4>2. q \in Record /\ PartOf(q.key) \in Partitions
          BY PartOfType, TimestampType DEF TypeOK
        <4>3. Covers(binc[PartOf(q.key)], q)
          BY <2>1, <4>2 DEF DataInv, BincInv, PartDone
        <4>4. binc[PartOf(q.key)] \subseteq Visible'
          BY <2>1, <4>2, VisibleMembers
        <4>5. Covers(Visible', q)
          BY <4>3, <4>4, CoversMore
        <4> QED
          BY <4>1, <4>2, <4>5, <1>t, TimestampType DEF Covers
      <3>2. CASE r \notin tmpc[n]
        <4>1. r \in Visible'
          BY <2>1, <3>2, <2>3, VisibleMembers DEF TypeOK
        <4> QED
          BY <4>1, <1>t, CoversItself
      <3> QED
        BY <3>1, <3>2
    <2> QED
      BY <2>2, <2>3, <1>t, CoversItself DEF Keeps, NoNews, CoversAll
  <1>4. CASE CompactAlone
    <2>1. /\ UNCHANGED <<memtable, tmp, tmpc, bin, binc>>
          /\ cpc = "wait3" /\ cpc' = "delete"
      BY <1>4 DEF CompactAlone, storageVars
    <2>2. Visible \subseteq Visible'
      BY <2>1, VisibleMembers
    <2>3. ASSUME NEW r \in Visible' PROVE Covers(Visible, r)
      <3>1. CASE r \in Visible
        BY <3>1, <1>t, CoversItself
      <3>2. CASE r \notin Visible
        <4>1. PICK p \in Partitions : r \in binc[p]
          BY <2>1, <3>2, <2>3, VisibleMembers
        <4> QED
          BY <4>1 DEF DataInv, NothingNewInv, CoversAll
      <3> QED
        BY <3>1, <3>2
    <2> QED
      BY <2>2, <2>3, <1>t, CoversItself DEF Keeps, NoNews, CoversAll
  <1>5. CASE CompactDropOld
    <2>1. /\ UNCHANGED <<memtable, tmp, tmpc, binc>> /\ cpc = "swap" /\ cpc' = "move"
          /\ bin' = [bin EXCEPT ![cpart] = {}]
          /\ cpart \in Partitions /\ binc[cpart] # {}
      BY <1>5, PartCountAssumption DEF CompactDropOld, TypeOK, Partitions
    <2>2. Visible' \subseteq Visible
      BY <2>1, VisibleMembers DEF TypeOK
    <2>3. ASSUME NEW r \in Visible PROVE Covers(Visible', r)
      <3>1. CASE r \in bin[cpart]
        <4>1. Covers(binc[cpart], r)
          BY <2>1, <3>1 DEF DataInv, ReplaceInv, CoversAll
        <4>2. binc[cpart] \subseteq Visible'
          BY <2>1, VisibleMembers
        <4> QED
          BY <4>1, <4>2, CoversMore
      <3>2. CASE r \notin bin[cpart]
        <4>1. r \in Visible'
          BY <2>1, <3>2, <2>3, VisibleMembers DEF TypeOK
        <4> QED
          BY <4>1, <1>t, CoversItself
      <3> QED
        BY <3>1, <3>2
    <2> QED
      BY <2>2, <2>3, <1>t, CoversItself DEF Keeps, NoNews, CoversAll
  <1>6. CASE CompactMoveNew
    <2>1. /\ UNCHANGED <<memtable, tmp, tmpc>> /\ cpc = "move" /\ cpc' = "swap"
          /\ bin' = [bin EXCEPT ![cpart] = binc[cpart]]
          /\ binc' = [binc EXCEPT ![cpart] = {}]
          /\ cpart \in Partitions /\ binc[cpart] # {}
      BY <1>6 DEF CompactMoveNew, TypeOK, DataInv, GoneInv
    <2>2. Visible' \subseteq Visible
      BY <2>1, VisibleMembers DEF TypeOK
    <2>3. ASSUME NEW r \in Visible PROVE Covers(Visible', r)
      <3>1. CASE r \in bin[cpart]
        <4>1. Covers(binc[cpart], r)
          BY <2>1, <3>1 DEF DataInv, ReplaceInv, CoversAll
        <4>2. binc[cpart] \subseteq Visible'
          BY <2>1, VisibleMembers DEF TypeOK
        <4> QED
          BY <4>1, <4>2, CoversMore
      <3>2. CASE r \notin bin[cpart]
        <4>1. r \in Visible'
          BY <2>1, <3>2, <2>3, VisibleMembers DEF TypeOK
        <4> QED
          BY <4>1, <1>t, CoversItself
      <3> QED
        BY <3>1, <3>2
    <2> QED
      BY <2>2, <2>3, <1>t, CoversItself DEF Keeps, NoNews, CoversAll
  <1>7. CASE CompactEnd
    <2>1. /\ UNCHANGED <<memtable, tmp, tmpc, bin, binc>>
          /\ cpc = "swap" /\ cpc' = "idle" /\ cpart = PartCount
      BY <1>7 DEF CompactEnd, storageVars
    <2>2. \A p \in Partitions : binc[p] = {}
      BY <2>1, PartCountAssumption DEF DataInv, BincInv, Partitions
    <2>3. \A r : r \in Visible' <=> r \in Visible
      BY <2>1, <2>2, VisibleMembers
    <2> QED
      BY <2>3, <1>1
  <1> QED
    BY <1>1, <1>2, <1>3, <1>4, <1>5, <1>6, <1>7, CompactHidden DEF Compact

(* Whatever the step, what was visible stays covered.                      *)
LEMMA StepKeeps ==
    ASSUME TypeOK, TypeOK', DataInv, [Next]_vars
    PROVE  Keeps
  <1>t. Visible \subseteq Record /\ Visible' \subseteq Record
    BY VisibleType
  <1>1. ASSUME NEW i \in Inserters, Insert(i) PROVE Visible \subseteq Visible'
    BY <1>1, InsertKeeps DEF Insert
  <1>2. ASSUME NEW s \in Selectors, Select(s) PROVE Visible \subseteq Visible'
    BY <1>2, SelectKeeps
  <1>3. CASE UNCHANGED vars
    BY <1>3, VisibleSame, SameKeeps DEF vars, storageVars, compactVars, Stage3
  <1>4. ASSUME Visible \subseteq Visible' PROVE Keeps
    BY <1>4, <1>t, CoversItself, CoversMore DEF Keeps, CoversAll
  <1> QED
    BY <1>1, <1>2, <1>3, <1>4, DumpKeeps, CompactKeeps DEF Next, Overrun, DataInv

-----------------------------------------------------------------------------
(* What dumps and compactions know about the files stays true.             *)

(* The compaction's own variables and the files only it touches.           *)
LEMMA OthersSteps ==
    ASSUME [Next]_vars
    PROVE  Compact \/ UNCHANGED <<compactVars, tmpc, bin, binc, gone>>
  BY DEF Next, Overrun, vars, Insert, InsertBegin, InsertAdd, Dump, DumpBegin,
         DumpNotNeeded, DumpSort, DumpSave, DumpFail, DumpClear, Select,
         SelectBegin, SelectPart, SelectDumps, SelectMemtable, SelectNoMemtable,
         SelectCopy, storageVars, compactVars

(* While a dump that has saved its memtable holds the mutex, nobody adds   *)
(* to it; and a compaction renames no dump while the dump task is inside.  *)
LEMMA SavedStep ==
    ASSUME TypeOK, LockInv, LockInv', SavedInv, [Next]_vars
    PROVE  SavedInv'
  <1> USE DEF SavedInv, LockInv, OwnerExact, TypeOK, storageVars
  <1>1. ASSUME NEW i \in Inserters, Insert(i) PROVE SavedInv'
    <2>1. CASE InsertAdd(i)
      BY <2>1, Distinct DEF InsertAdd
    <2>2. ASSUME NEW r \in Record, InsertBegin(i, r) PROVE SavedInv'
      BY <2>2 DEF InsertBegin
    <2> QED
      BY <1>1, <2>1, <2>2 DEF Insert
  <1>2. ASSUME NEW d \in Dumpers, Dump(d) PROVE SavedInv'
    <2>1. CASE DumpBegin(d) \/ DumpNotNeeded(d)
      BY <2>1 DEF DumpBegin, DumpNotNeeded
    <2>2. CASE DumpSort(d)
      BY <2>2 DEF DumpSort
    <2>3. CASE DumpSave(d)
      <3>1. PICK n \in DumpNumbers : tmp' = [tmp EXCEPT ![n] = memtable]
        BY <2>3 DEF DumpSave
      <3>2. memtable' \subseteq tmp'[n]
        BY <2>3, <3>1 DEF DumpSave
      <3> QED
        BY <3>2
    <2>4. CASE DumpFail(d) \/ DumpClear(d)
      <3>1. owner' = None
        BY <2>4 DEF DumpFail, DumpClear
      <3> QED
        BY <3>1, Distinct
    <2> QED
      BY <1>2, <2>1, <2>2, <2>3, <2>4 DEF Dump
  <1>3. CASE Compact
    <2>1. ASSUME NEW n \in DumpNumbers, CompactRename(n) PROVE SavedInv'
      BY <2>1 DEF CompactRename, lockVars, taskVars, StagesExclusive, Exclusive,
                  UsersExact
    <2>2. UNCHANGED <<memtable, tmp, dpc>> \/ \E n \in DumpNumbers : CompactRename(n)
      BY <1>3
      DEF Compact, CompactBegin, CompactScope, CompactOverrun, CompactConflict,
          CompactUnblock, CompactLoad, CompactSkipPart, CompactMakePart,
          CompactFail, CompactBlock, CompactAlone, CompactDelete, CompactDeleted,
          CompactKeepPart, CompactDropOld, CompactMoveNew, CompactEnd, taskVars
    <2> QED
      BY <2>1, <2>2
  <1>4. ASSUME NEW s \in Selectors, Select(s) PROVE SavedInv'
    <2>1. UNCHANGED <<memtable, tmp, dpc>>
      BY <1>4 DEF Select, SelectBegin, SelectPart, SelectDumps, SelectMemtable,
                  SelectNoMemtable, SelectCopy, taskVars
    <2> QED
      BY <2>1
  <1>5. CASE UNCHANGED vars
    BY <1>5 DEF vars, taskVars
  <1> QED
    BY <1>1, <1>2, <1>3, <1>4, <1>5 DEF Next, Overrun

(* The dump files of a compaction.                                         *)
LEMMA ScopeStep ==
    ASSUME TypeOK, LockInv, ScopeInv, [Next]_vars
    PROVE  ScopeInv'
  <1> USE DEF ScopeInv, TypeOK
  <1>1. CASE UNCHANGED <<compactVars, tmpc>>
    <2>1. CASE cpc # "rename"
      BY <1>1, <2>1 DEF compactVars
    <2>2. CASE cpc = "rename"
      <3>1. UNCHANGED tmp
        <4>1. ASSUME NEW d \in Dumpers, DumpSave(d) PROVE FALSE
          BY <2>2, <4>1
          DEF DumpSave, LockInv, StagesExclusive, Exclusive, UsersExact
        <4>2. ASSUME NEW n \in DumpNumbers, CompactRename(n) PROVE UNCHANGED tmp
          BY <1>1, <4>2 DEF CompactRename, compactVars
        <4> QED
          BY <4>1, <4>2, TmpSteps
      <3> QED
        BY <1>1, <3>1 DEF compactVars
    <2> QED
      BY <2>1, <2>2
  <1>2. CASE Compact
    <2> USE DEF storageVars
    <2>1. CASE CompactBegin
      BY <2>1 DEF CompactBegin
    <2>2. CASE CompactScope
      BY <2>2 DEF CompactScope, DumpsOnDisk
    <2>14. CASE CompactOverrun
      BY <2>14 DEF CompactOverrun
    <2>3. ASSUME NEW n \in DumpNumbers, CompactRename(n) PROVE ScopeInv'
      BY <2>3 DEF CompactRename
    <2>4. ASSUME NEW n \in DumpNumbers, CompactConflict(n) PROVE ScopeInv'
      BY <2>4 DEF CompactConflict
    <2>5. CASE CompactUnblock
      BY <2>5 DEF CompactUnblock
    <2>6. CASE CompactLoad
      BY <2>6 DEF CompactLoad
    <2>7. CASE CompactSkipPart \/ CompactMakePart
      BY <2>7 DEF CompactSkipPart, CompactMakePart
    <2>8. CASE CompactFail
      BY <2>8 DEF CompactFail
    <2>9. CASE CompactBlock
      BY <2>9 DEF CompactBlock
    <2>10. CASE CompactAlone
      BY <2>10 DEF CompactAlone
    <2>11. ASSUME NEW n \in DumpNumbers, CompactDelete(n) PROVE ScopeInv'
      BY <2>11 DEF CompactDelete
    <2>12. CASE CompactDeleted
      BY <2>12 DEF CompactDeleted
    <2>13. CASE CompactKeepPart \/ CompactDropOld \/ CompactMoveNew \/ CompactEnd
      BY <2>13 DEF CompactKeepPart, CompactDropOld, CompactMoveNew, CompactEnd
    <2> QED
      BY <1>2, <2>1, <2>2, <2>3, <2>4, <2>5, <2>6, <2>7, <2>8, <2>9, <2>10, <2>11,
         <2>12, <2>13, <2>14
      DEF Compact
  <1> QED
    BY <1>1, <1>2, OthersSteps

(* The merged memtable covers the dumps of the scope, and only those are   *)
(* left: loading it establishes that, deleting a dump keeps it.            *)
LEMMA MergedStep ==
    ASSUME TypeOK, ScopeInv, MergedInv, [Next]_vars
    PROVE  MergedInv'
  <1> USE DEF MergedInv, TypeOK, CoversAll
  <1>1. CASE UNCHANGED <<compactVars, tmpc>>
    BY <1>1 DEF compactVars, Covers
  <1>2. CASE Compact
    <2>1. CASE CompactLoad
      <3>1. PICK U : /\ Preprocessed(UNION {tmpc[n] : n \in scope}, U)
                     /\ merged' = U /\ tmpc' = tmpc /\ cpc = "load"
        BY <2>1 DEF CompactLoad, storageVars
      <3>2. ASSUME NEW n \in DumpNumbers, NEW r \in tmpc[n] PROVE Covers(U, r)
        BY <3>1, <3>2 DEF ScopeInv, Preprocessed
      <3> QED
        BY <3>1, <3>2 DEF Covers
    <2>2. ASSUME NEW n \in DumpNumbers, CompactDelete(n) PROVE MergedInv'
      BY <2>2 DEF CompactDelete, Covers
    <2>3. CASE CompactSkipPart \/ CompactMakePart \/ CompactBlock \/ CompactAlone
      <3>1. UNCHANGED <<merged, tmpc>> /\ cpc \in {"merge", "wait3"}
        BY <2>3 DEF CompactSkipPart, CompactMakePart, CompactBlock, CompactAlone,
                    storageVars
      <3> QED
        BY <3>1 DEF Covers
    <2>4. CASE \/ CompactBegin \/ CompactScope \/ CompactOverrun
               \/ CompactUnblock \/ CompactFail
               \/ CompactDeleted \/ CompactKeepPart \/ CompactDropOld
               \/ CompactMoveNew \/ CompactEnd
               \/ \E n \in DumpNumbers : CompactRename(n) \/ CompactConflict(n)
      <3>1. cpc' \notin {"merge", "wait3", "delete"}
        BY <2>4 DEF CompactBegin, CompactScope, CompactOverrun, CompactUnblock,
                    CompactFail, CompactDeleted, CompactKeepPart, CompactDropOld,
                    CompactMoveNew, CompactEnd, CompactRename, CompactConflict
      <3> QED
        BY <3>1
    <2> QED
      BY <1>2, <2>1, <2>2, <2>3, <2>4 DEF Compact
  <1> QED
    BY <1>1, <1>2, OthersSteps

(* Preprocessing the old partition with the entries of the partition       *)
(* covers both.                                                            *)
LEMMA MadePart ==
    ASSUME CompactMakePart, TypeOK
    PROVE  /\ cpart \in Partitions /\ cpc = "merge" /\ cpc' = "merge"
           /\ cpart' = cpart + 1
           /\ UNCHANGED <<memtable, tmp, tmpc, bin, gone, merged>>
           /\ \A p \in Partitions : p # cpart => binc'[p] = binc[p]
           /\ CoversAll(binc'[cpart], bin[cpart])
           /\ CoversAll(binc'[cpart], Entries(cpart))
           /\ binc'[cpart] \subseteq bin[cpart] \cup merged
           /\ Preprocessed(bin[cpart] \cup Entries(cpart), binc'[cpart])
  <1>1. PICK U : /\ Preprocessed(bin[cpart] \cup Entries(cpart), U)
                 /\ binc' = [binc EXCEPT ![cpart] = U]
    BY DEF CompactMakePart
  <1>2. cpart \in Partitions
    BY PartCountAssumption DEF CompactMakePart, TypeOK, Partitions
  <1>3. binc'[cpart] = U /\ \A p \in Partitions : p # cpart => binc'[p] = binc[p]
    BY <1>1, <1>2 DEF TypeOK
  <1>4. /\ CoversAll(binc'[cpart], bin[cpart])
        /\ CoversAll(binc'[cpart], Entries(cpart))
        /\ binc'[cpart] \subseteq bin[cpart] \cup merged
    BY <1>1, <1>3 DEF Preprocessed, CoversAll, Entries
  <1> QED
    BY <1>1, <1>2, <1>3, <1>4 DEF CompactMakePart

(* Each P#.binc takes over what the merged memtable has for its partition. *)
LEMMA BincStep ==
    ASSUME TypeOK, BincInv, GoneInv, [Next]_vars
    PROVE  BincInv'
  <1> USE DEF BincInv, TypeOK, PartDone
  <1>1. CASE UNCHANGED <<compactVars, binc>>
    BY <1>1 DEF compactVars, Covers
  <1>2. CASE Compact
    <2>1. CASE CompactLoad
      BY <2>1 DEF CompactLoad, Partitions
    <2>2. CASE CompactMakePart
      <3>1. ASSUME NEW p \in Partitions, p < cpart + 1, NEW r \in merged,
                   PartOf(r.key) = p
            PROVE  Covers(binc'[p], r)
        <4>1. CASE p = cpart
          BY <2>2, <3>1, <4>1, MadePart DEF CoversAll, Entries
        <4>2. CASE p # cpart
          <5>1. p < cpart
            BY <2>2, <3>1, <4>2, MadePart DEF Partitions
          <5>2. Covers(binc[p], r)
            BY <2>2, <3>1, <5>1, MadePart
          <5> QED
            BY <2>2, <4>2, <5>2, MadePart
        <4> QED
          BY <4>1, <4>2
      <3> QED
        BY <2>2, <3>1, MadePart
    <2>3. CASE CompactSkipPart
      <3>1. /\ cpc = "merge" /\ cpc' = "merge" /\ cpart' = cpart + 1
            /\ UNCHANGED <<merged, binc>> /\ cpart \in Partitions
        BY <2>3, PartCountAssumption DEF CompactSkipPart, storageVars, Partitions
      <3>2. Entries(cpart) = {}
        BY <2>3, <3>1 DEF CompactSkipPart, GoneInv
      <3>3. ASSUME NEW p \in Partitions, p < cpart + 1, NEW r \in merged,
                   PartOf(r.key) = p
            PROVE  Covers(binc[p], r)
        <4>1. p # cpart
          BY <3>2, <3>3 DEF Entries
        <4>2. p < cpart
          BY <3>1, <3>3, <4>1 DEF Partitions
        <4> QED
          BY <3>1, <3>3, <4>2
      <3> QED
        BY <3>1, <3>3
    <2>4. CASE CompactBlock
      <3>1. /\ cpc = "merge" /\ cpc' = "wait3" /\ cpart = PartCount
            /\ UNCHANGED <<merged, binc>>
        BY <2>4 DEF CompactBlock, storageVars
      <3> QED
        BY <3>1, PartCountAssumption DEF Partitions
    <2>5. CASE CompactAlone \/ \E n \in DumpNumbers : CompactDelete(n)
      <3>1. /\ cpc \in {"wait3", "delete"} /\ cpc' = "delete"
            /\ UNCHANGED <<merged, binc>>
        BY <2>5 DEF CompactAlone, CompactDelete, storageVars
      <3> QED
        BY <3>1
    <2>6. CASE CompactDeleted
      BY <2>6 DEF CompactDeleted, Partitions
    <2>7. CASE CompactKeepPart
      <3>1. /\ cpc = "swap" /\ cpc' = "swap" /\ cpart' = cpart + 1
            /\ binc' = binc /\ cpart \in Partitions
        BY <2>7, PartCountAssumption DEF CompactKeepPart, storageVars, Partitions
      <3>2. binc[cpart] = {}
        BY <2>7, <3>1 DEF CompactKeepPart, GoneInv
      <3> QED
        BY <3>1, <3>2 DEF Partitions
    <2>8. CASE CompactDropOld
      BY <2>8 DEF CompactDropOld
    <2>9. CASE CompactMoveNew
      BY <2>9 DEF CompactMoveNew, Partitions
    <2>10. CASE \/ CompactBegin \/ CompactScope \/ CompactOverrun
                \/ CompactUnblock \/ CompactFail
                \/ CompactEnd
                \/ \E n \in DumpNumbers : CompactRename(n) \/ CompactConflict(n)
      <3>1. cpc' \notin {"merge", "wait3", "delete", "swap", "move"}
        BY <2>10 DEF CompactBegin, CompactScope, CompactOverrun, CompactUnblock,
                     CompactFail, CompactEnd, CompactRename, CompactConflict
      <3> QED
        BY <3>1
    <2> QED
      BY <1>2, <2>1, <2>2, <2>3, <2>4, <2>5, <2>6, <2>7, <2>8, <2>9, <2>10
      DEF Compact
  <1> QED
    BY <1>1, <1>2, OthersSteps

(* A P#.binc is made from its P#.bin, and nothing else changes a P#.bin.   *)
LEMMA ReplaceStep ==
    ASSUME TypeOK, ReplaceInv, [Next]_vars
    PROVE  ReplaceInv'
  <1> USE DEF ReplaceInv, TypeOK
  <1>1. CASE UNCHANGED <<bin, binc>>
    BY <1>1
  <1>2. CASE CompactMakePart
    BY <1>2, MadePart
  <1>3. CASE CompactDropOld
    BY <1>3 DEF CompactDropOld, CoversAll
  <1>4. CASE CompactMoveNew
    BY <1>4 DEF CompactMoveNew
  <1>5. ASSUME Compact
        PROVE  \/ UNCHANGED <<bin, binc>>
               \/ CompactMakePart \/ CompactDropOld \/ CompactMoveNew
    BY <1>5
    DEF Compact, CompactBegin, CompactScope, CompactOverrun, CompactRename,
        CompactConflict, CompactUnblock, CompactLoad, CompactSkipPart, CompactFail,
        CompactBlock, CompactAlone, CompactDelete, CompactDeleted, CompactKeepPart,
        CompactEnd, storageVars
  <1> QED
    BY <1>1, <1>2, <1>3, <1>4, <1>5, OthersSteps

LEMMA GoneStep ==
    ASSUME TypeOK, GoneInv, [Next]_vars
    PROVE  GoneInv'
  <1> USE DEF GoneInv, TypeOK
  <1>1. CASE UNCHANGED <<compactVars, binc, gone>>
    BY <1>1 DEF compactVars
  <1>2. CASE CompactDropOld
    BY <1>2 DEF CompactDropOld
  <1>3. CASE CompactMoveNew
    BY <1>3 DEF CompactMoveNew
  <1>4. ASSUME Compact
        PROVE  \/ cpc # "move" /\ cpc' # "move" /\ gone' = gone
               \/ CompactDropOld \/ CompactMoveNew
    BY <1>4
    DEF Compact, CompactBegin, CompactScope, CompactOverrun, CompactRename,
        CompactConflict, CompactUnblock, CompactLoad, CompactSkipPart,
        CompactMakePart, CompactFail, CompactBlock, CompactAlone, CompactDelete,
        CompactDeleted, CompactKeepPart, CompactEnd, storageVars
  <1> QED
    BY <1>1, <1>2, <1>3, <1>4, OthersSteps

(* What a compaction has in hand comes from the files, and what it came    *)
(* from stays visible in it or in newer records.                           *)
LEMMA NothingNewStep ==
    ASSUME TypeOK, TypeOK', DataInv, [Next]_vars
    PROVE  NothingNewInv'
  <1> USE DEF NothingNewInv, DataInv
  <1>t. Visible \subseteq Record /\ Visible' \subseteq Record
    BY VisibleType
  <1>k. ASSUME NEW r \in Record, Covers(Visible, r) PROVE Covers(Visible', r)
    BY <1>k, <1>t, StepKeeps, CoversTrans DEF Keeps, CoversAll
  <1>m. ASSUME NEW S \in SUBSET Record, CoversAll(Visible, S)
        PROVE  CoversAll(Visible', S)
    BY <1>m, <1>k DEF CoversAll
  <1>s. ASSUME NEW S \in SUBSET Visible PROVE CoversAll(Visible, S)
    BY <1>s, <1>t, CoversItself DEF CoversAll
  <1>1. CASE UNCHANGED <<compactVars, binc>>
    BY <1>1, <1>m DEF compactVars, TypeOK
  <1>2. CASE Compact
    <2>1. CASE CompactLoad
      <3>1. PICK U : /\ Preprocessed(UNION {tmpc[n] : n \in scope}, U)
                     /\ merged' = U /\ binc' = binc
        BY <2>1 DEF CompactLoad, storageVars
      <3>2. U \subseteq Visible
        BY <3>1, VisibleMembers DEF Preprocessed, TypeOK, Shown
      <3> QED
        BY <3>1, <3>2, <1>s, <1>m, <1>t DEF TypeOK
    <2>2. CASE CompactMakePart
      <3>1. CoversAll(Visible, bin[cpart])
        BY <2>2, <1>s, MadePart, VisibleMembers DEF Shown
      <3>2. CoversAll(Visible, binc'[cpart])
        BY <2>2, <3>1, MadePart DEF CoversAll
      <3>3. \A p \in Partitions : CoversAll(Visible, binc'[p])
        BY <2>2, <3>2, MadePart
      <3>4. \A p \in Partitions : binc'[p] \subseteq Record
        BY DEF TypeOK
      <3> QED
        BY <2>2, <3>3, <3>4, <1>m, MadePart DEF TypeOK
    <2>3. CASE CompactMoveNew
      <3>1. \A p \in Partitions : binc'[p] \subseteq binc[p]
        BY <2>3 DEF CompactMoveNew, TypeOK
      <3>2. \A p \in Partitions : CoversAll(Visible, binc'[p])
        BY <3>1 DEF CoversAll
      <3>3. merged' = merged
        BY <2>3 DEF CompactMoveNew
      <3> QED
        BY <3>1, <3>2, <3>3, <1>m DEF TypeOK
    <2>4. ASSUME UNCHANGED binc, merged' = merged \/ merged' = {}
          PROVE  NothingNewInv'
      <3>1. CoversAll(Visible, merged')
        BY <2>4 DEF CoversAll
      <3> QED
        BY <2>4, <3>1, <1>m DEF TypeOK
    <2>5. \/ UNCHANGED binc /\ (merged' = merged \/ merged' = {})
          \/ CompactLoad \/ CompactMakePart \/ CompactMoveNew
      BY <1>2
      DEF Compact, CompactBegin, CompactScope, CompactOverrun, CompactRename,
          CompactConflict, CompactUnblock, CompactSkipPart, CompactFail,
          CompactBlock, CompactAlone, CompactDelete, CompactDeleted,
          CompactKeepPart, CompactDropOld, CompactEnd, storageVars
    <2> QED
      BY <2>1, <2>2, <2>3, <2>4, <2>5
  <1> QED
    BY <1>1, <1>2, OthersSteps

-----------------------------------------------------------------------------
(* The acknowledged records.                                               *)

LEMMA AckedStep ==
    ASSUME TypeOK, TypeOK', DataInv, NoAckedRecordLost, [Next]_vars
    PROVE  NoAckedRecordLost'
  <1>t. Visible \subseteq Record /\ Visible' \subseteq Record /\ acked \subseteq Record
    BY VisibleType DEF TypeOK
  <1>1. ASSUME NEW r \in acked PROVE Covers(Visible', r)
    BY <1>1, <1>t, StepKeeps, CoversTrans DEF Keeps, CoversAll, NoAckedRecordLost
  <1>2. CASE acked' = acked
    BY <1>1, <1>2 DEF NoAckedRecordLost
  <1>3. ASSUME NEW i \in Inserters, InsertAdd(i) PROVE NoAckedRecordLost'
    <2>1. acked' = acked \cup {pending[i]}
      BY <1>3 DEF InsertAdd
    <2>2. pending[i] \in Visible'
      BY <1>3, InsertKeeps
    <2>3. Covers(Visible', pending[i])
      BY <2>2, <1>t, CoversItself
    <2> QED
      BY <2>1, <2>3, <1>1 DEF NoAckedRecordLost
  <1>4. acked' = acked \/ \E i \in Inserters : InsertAdd(i)
    BY DEF Next, Overrun, vars, Insert, InsertBegin, Dump, DumpBegin, DumpNotNeeded,
           DumpSort, DumpSave, DumpFail, DumpClear, Select, SelectBegin, SelectPart,
           SelectDumps, SelectMemtable, SelectNoMemtable, SelectCopy, Compact,
           CompactBegin, CompactScope, CompactOverrun, CompactRename,
           CompactConflict, CompactUnblock, CompactLoad, CompactSkipPart,
           CompactMakePart, CompactFail, CompactBlock, CompactAlone, CompactDelete,
           CompactDeleted, CompactKeepPart, CompactDropOld, CompactMoveNew,
           CompactEnd
  <1> QED
    BY <1>2, <1>3, <1>4

LEMMA InitIInv == Init => IInv
  <1> SUFFICES ASSUME Init PROVE IInv
    OBVIOUS
  <1>1. TypeOK /\ LockInv
    BY InitType, InitLock
  <1>2. DataInv
    BY DEF Init, DataInv, SavedInv, ScopeInv, MergedInv, BincInv, ReplaceInv,
           GoneInv, NothingNewInv, CoversAll
  <1>3. NoAckedRecordLost
    BY DEF Init, NoAckedRecordLost
  <1> QED
    BY <1>1, <1>2, <1>3 DEF IInv

LEMMA StepIInv == IInv /\ [Next]_vars => IInv'
  <1> SUFFICES ASSUME IInv, [Next]_vars PROVE IInv'
    OBVIOUS
  <1>1. TypeOK /\ LockInv /\ DataInv /\ NoAckedRecordLost
    BY DEF IInv
  <1>2. TypeOK' /\ LockInv'
    BY <1>1, StepType, StepLock
  <1>3. DataInv'
    BY <1>1, <1>2, SavedStep, ScopeStep, MergedStep, BincStep, ReplaceStep, GoneStep,
       NothingNewStep
    DEF DataInv
  <1>4. NoAckedRecordLost'
    BY <1>1, <1>2, AckedStep
  <1> QED
    BY <1>2, <1>3, <1>4 DEF IInv

LEMMA Inductive == Spec => []IInv
  BY InitIInv, StepIInv, PTL DEF Spec

(* No acknowledged INSERT is ever lost, however its records move between   *)
(* the memtable, the dumps and the partitions, whatever fails.             *)
THEOREM NoAckedRecordLostCorrect == Spec => []NoAckedRecordLost
  BY Inductive, PTL DEF IInv

-----------------------------------------------------------------------------
(* The array of dump numbers.                                              *)

LEMMA Least ==
    ASSUME NEW T \in SUBSET Nat, T # {}
    PROVE  \E x \in T : \A y \in T : x <= y
  <1> DEFINE R == OpToRel(<, Nat)
  <1>1. IsWellFoundedOn(R, Nat)
    BY NatLessThanWellFounded
  <1>2. \A x, y \in Nat : x < y => <<x, y>> \in R
    BY DEF OpToRel
  <1> HIDE DEF R
  <1>3. PICK x \in T : \A y \in T : ~(<<y, x>> \in R)
    BY <1>1, WFMin
  <1>4. x \in Nat /\ \A y \in T : y \in Nat /\ ~(y < x)
    BY <1>2, <1>3
  <1> QED
    BY <1>3, <1>4

(* A next dump number exists.                                              *)
LEMMA NextNumber == \E n \in 1 .. MaxDumps + 1 : IsNextDump(n)
  <1> DEFINE Above == {n \in 1 .. MaxDumps + 1 :
                          \A m \in DumpNumbers : tmp[m] # {} => m < n}
  <1>1. MaxDumps + 1 \in Above /\ Above \in SUBSET Nat
    BY MaxDumpsAssumption DEF DumpNumbers
  <1>2. PICK n \in Above : \A k \in Above : n <= k
    <2> HIDE DEF Above
    <2> QED
      BY <1>1, Least
  <1>3. ASSUME n # 1 PROVE n - 1 \in DumpNumbers /\ tmp[n - 1] # {}
    <2>1. n - 1 \in 1 .. MaxDumps /\ ~(n <= n - 1)
      BY <1>2, <1>3, MaxDumpsAssumption
    <2>2. PICK m \in DumpNumbers : tmp[m] # {} /\ ~(m < n - 1)
      BY <1>2, <2>1, MaxDumpsAssumption
    <2>3. m < n
      BY <1>2, <2>2
    <2>4. m = n - 1
      BY <2>1, <2>2, <2>3, MaxDumpsAssumption DEF DumpNumbers
    <2> QED
      BY <2>2, <2>4
  <1> QED
    BY <1>2, <1>3 DEF IsNextDump

(* With no D#.tmpc about, the files are no more than the highest number.   *)
LEMMA AloneFits ==
    ASSUME \A n \in DumpNumbers : tmpc[n] = {}
    PROVE  NumbersFit
  <1>1. PICK n \in 1 .. MaxDumps + 1 : IsNextDump(n)
    BY NextNumber
  <1> DEFINE T == {m \in DumpNumbers : tmp[m] # {}}
             C == {m \in DumpNumbers : tmpc[m] # {}}
  <1>2. C = {} /\ T \subseteq 1 .. n - 1
    BY <1>1, MaxDumpsAssumption DEF IsNextDump, DumpNumbers
  <1>3. n - 1 \in Nat
    BY <1>1, MaxDumpsAssumption
  <1>4. IsFiniteSet(1 .. n - 1) /\ Cardinality(1 .. n - 1) = n - 1
    BY <1>3, FS_Interval
  <1>5. Cardinality(C) = 0
    BY <1>2, FS_EmptySet
  <1>6. Cardinality(T) \in Nat /\ Cardinality(T) <= n - 1
    <2> HIDE DEF T
    <2>1. IsFiniteSet(T) /\ Cardinality(T) <= Cardinality(1 .. n - 1)
      BY <1>2, <1>4, FS_Subset
    <2> QED
      BY <1>4, <2>1, FS_CardinalityType
  <1>7. DumpFiles = Cardinality(T) + Cardinality(C)
    BY DEF DumpFiles
  <1>8. DumpFiles <= n - 1
    <2> HIDE DEF T, C
    <2> QED
      BY <1>3, <1>5, <1>6, <1>7
  <1> QED
    BY <1>1, <1>8 DEF NumbersFit

(* What has been overrun has met a D#.tmpc.                                *)
OverrunInv == cpc = "overrun" => \E n \in DumpNumbers : tmpc[n] # {}

LEMMA OverrunStep ==
    ASSUME OverrunInv, TypeOK, [Next]_vars
    PROVE  OverrunInv'
  <1>1. CASE UNCHANGED <<cpc, tmpc>>
    BY <1>1 DEF OverrunInv
  <1>2. CASE CompactOverrun
    BY <1>2, AloneFits DEF CompactOverrun, storageVars, OverrunInv
  <1>3. ASSUME Compact, ~CompactOverrun PROVE cpc' # "overrun"
    BY <1>3
    DEF TypeOK, Compact, CompactBegin, CompactScope, CompactRename, CompactConflict,
        CompactUnblock, CompactLoad, CompactSkipPart, CompactMakePart, CompactFail,
        CompactBlock, CompactAlone, CompactDelete, CompactDeleted, CompactKeepPart,
        CompactDropOld, CompactMoveNew, CompactEnd
  <1> QED
    BY <1>1, <1>2, <1>3, OthersSteps DEF OverrunInv, compactVars

-----------------------------------------------------------------------------
(* To its writers the table is a map that only INSERTs change.             *)

(* Only an INSERT brings news.                                             *)
LEMMA StepNoNews ==
    ASSUME TypeOK, TypeOK', DataInv, [Next]_vars
    PROVE  (Keeps /\ NoNews) \/ \E i \in Inserters : InsertAdd(i)
  <1>1. ASSUME NEW i \in Inserters, Insert(i), ~InsertAdd(i) PROVE Keeps /\ NoNews
    BY <1>1, InsertKeeps, SameKeeps DEF Insert
  <1>2. ASSUME NEW s \in Selectors, Select(s) PROVE Keeps /\ NoNews
    BY <1>2, SelectKeeps, SameKeeps
  <1>3. CASE UNCHANGED vars
    BY <1>3, VisibleSame, SameKeeps DEF vars, storageVars, compactVars, Stage3
  <1> QED
    BY <1>1, <1>2, <1>3, DumpKeeps, CompactKeeps DEF Next, Overrun, DataInv

LEMMA SameReach ==
    ASSUME TypeOK, TypeOK', Keeps, NoNews
    PROVE  Reach' = Reach
  <1>t. Visible \subseteq Record /\ Visible' \subseteq Record
    BY VisibleType
  <1>1. ASSUME NEW k \in Keys, NEW t \in Timestamps,
               NEW r \in Visible, r.key = k, r.ts >= t
        PROVE  \E q \in Visible' : q.key = k /\ q.ts >= t
    <2>1. PICK q \in Visible' : q.key = r.key /\ q.ts >= r.ts
      BY DEF Keeps, CoversAll, Covers
    <2> QED
      BY <1>1, <1>t, <2>1, TimestampType, TimestampsAssumption
  <1>2. ASSUME NEW k \in Keys, NEW t \in Timestamps,
               NEW r \in Visible', r.key = k, r.ts >= t
        PROVE  \E q \in Visible : q.key = k /\ q.ts >= t
    <2>1. PICK q \in Visible : q.key = r.key /\ q.ts >= r.ts
      BY DEF NoNews, CoversAll, Covers
    <2> QED
      BY <1>2, <1>t, <2>1, TimestampType, TimestampsAssumption
  <1>3. ASSUME NEW p \in Keys \X Timestamps
        PROVE  (\E r \in Visible : r.key = p[1] /\ r.ts >= p[2])
               <=> (\E r \in Visible' : r.key = p[1] /\ r.ts >= p[2])
    BY <1>1, <1>2
  <1> QED
    BY <1>3 DEF Reach

LEMMA InsertPuts ==
    ASSUME TypeOK, NEW i \in Inserters, InsertAdd(i)
    PROVE  Store!Next
  <1>1. pending[i] \in Record /\ Visible' = Visible \cup {pending[i]}
    BY InsertKeeps DEF InsertAdd, TypeOK
  <1> DEFINE k == pending[i].key
             t == pending[i].ts
  <1>2. k \in Keys /\ t \in Timestamps
    BY <1>1 DEF Record
  <1>3. ASSUME NEW p \in Keys \X Timestamps
        PROVE  (\E r \in Visible' : r.key = p[1] /\ r.ts >= p[2])
               <=> \/ \E r \in Visible : r.key = p[1] /\ r.ts >= p[2]
                   \/ p[1] = k /\ t >= p[2]
    BY <1>1
  <1>4. Reach' = Reach \cup {<<k, u>> : u \in {u \in Timestamps : u <= t}}
    <2>1. \A p \in Keys \X Timestamps :
             p \in {<<k, u>> : u \in {u \in Timestamps : u <= t}}
             <=> p[1] = k /\ t >= p[2]
      <3> SUFFICES ASSUME NEW j \in Keys, NEW v \in Timestamps
                   PROVE  <<j, v>> \in {<<k, u>> : u \in {u \in Timestamps : u <= t}}
                          <=> j = k /\ t >= v
        OBVIOUS
      <3>1. v \in Nat /\ t \in Nat /\ (v <= t <=> t >= v)
        BY <1>2, TimestampsAssumption
      <3> HIDE DEF k, t
      <3> QED
        BY <3>1
    <2>2. {<<k, u>> : u \in {u \in Timestamps : u <= t}} \subseteq Keys \X Timestamps
      BY <1>2
    <2> HIDE DEF k, t
    <2> QED
      BY <1>3, <2>1, <2>2 DEF Reach
  <1> QED
    BY <1>2, <1>4 DEF Store!Next, Store!Put

(* The table implements the abstract store: dumps, compactions and SELECTs *)
(* change nothing a writer could tell, and an INSERT is one Put.           *)
THEOREM StoreImplemented == Spec => StoreSpec
  <1>1. Init => Store!Init
    BY DEF Init, Store!Init, Reach, Visible, Stored, InDumps, InPartitions
  <1>2. ASSUME IInv, IInv', [Next]_vars PROVE [Store!Next]_Reach
    BY <1>2, StepNoNews, SameReach, InsertPuts DEF IInv
  <1> QED
    BY <1>1, <1>2, Inductive, PTL DEF Spec, StoreSpec, Store!Spec

-----------------------------------------------------------------------------
(* What the files contain and what a SELECT finds.  Files can be searched  *)
(* by bisection, they hold nothing that was not inserted, and a SELECT     *)
(* beside which no dump freed records is fresh.                            *)

(* Files can be searched.                                                  *)

SearchInv == SortedInv /\ FilesSearchable

LEMMA InitSearch == Init => SearchInv
  BY DEF Init, SearchInv, SortedInv, FilesSearchable, OnePerKey

(* Who changes the files, and who the memtable.                            *)
LEMMA FileSteps ==
    ASSUME [Next]_vars
    PROVE  \/ UNCHANGED <<tmp, tmpc, bin, binc>>
           \/ \E d \in Dumpers : DumpSave(d)
           \/ \E n \in DumpNumbers : CompactRename(n) \/ CompactDelete(n)
           \/ CompactMakePart \/ CompactDropOld \/ CompactMoveNew
  BY DEF Next, Overrun, vars, Insert, InsertBegin, InsertAdd, Dump, DumpBegin,
         DumpNotNeeded, DumpSort, DumpFail, DumpClear, Select, SelectBegin,
         SelectPart, SelectDumps, SelectMemtable, SelectNoMemtable, SelectCopy,
         Compact, CompactBegin, CompactScope, CompactOverrun, CompactConflict,
         CompactUnblock, CompactLoad, CompactSkipPart, CompactFail, CompactBlock,
         CompactAlone, CompactDeleted, CompactKeepPart, CompactEnd, storageVars

LEMMA MemtableSteps ==
    ASSUME [Next]_vars
    PROVE  \/ UNCHANGED <<memtable, dpc>>
           \/ \E i \in Inserters : InsertAdd(i)
           \/ \E d \in Dumpers : Dump(d)
  BY DEF Next, Overrun, vars, Insert, InsertBegin, Select, SelectBegin, SelectPart,
         SelectDumps, SelectMemtable, SelectNoMemtable, SelectCopy, Compact,
         CompactBegin, CompactScope, CompactOverrun, CompactRename, CompactConflict,
         CompactUnblock, CompactLoad, CompactSkipPart, CompactMakePart, CompactFail,
         CompactBlock, CompactAlone, CompactDelete, CompactDeleted, CompactKeepPart,
         CompactDropOld, CompactMoveNew, CompactEnd, storageVars, taskVars

(* From the sort to the save the mutex keeps the memtable as it is.        *)
LEMMA SortedStep ==
    ASSUME TypeOK, LockInv, SortedInv, [Next]_vars
    PROVE  SortedInv'
  <1> USE DEF SortedInv, LockInv, OwnerExact, OnePerKey, TypeOK
  <1>1. CASE UNCHANGED <<memtable, dpc>>
    BY <1>1
  <1>2. ASSUME NEW i \in Inserters, InsertAdd(i) PROVE SortedInv'
    BY <1>2, Distinct DEF InsertAdd
  <1>3. ASSUME NEW d \in Dumpers, Dump(d) PROVE SortedInv'
    <2>1. CASE DumpSort(d)
      BY <2>1 DEF DumpSort, Preprocessed
    <2>2. CASE DumpClear(d)
      BY <2>2 DEF DumpClear
    <2>3. CASE DumpBegin(d) \/ DumpNotNeeded(d) \/ DumpSave(d) \/ DumpFail(d)
      <3>1. /\ memtable' = memtable
            /\ \A e \in Dumpers : dpc'[e] = "sorted" => dpc[e] = "sorted"
        BY <2>3 DEF DumpBegin, DumpNotNeeded, DumpSave, DumpFail, storageVars
      <3> QED
        BY <3>1
    <2> QED
      BY <1>3, <2>1, <2>2, <2>3 DEF Dump
  <1> QED
    BY <1>1, <1>2, <1>3, MemtableSteps

LEMMA SearchableStep ==
    ASSUME TypeOK, SearchInv, [Next]_vars
    PROVE  FilesSearchable'
  <1> USE DEF SearchInv, FilesSearchable, OnePerKey, TypeOK
  <1>1. CASE UNCHANGED <<tmp, tmpc, bin, binc>>
    BY <1>1
  <1>2. ASSUME NEW d \in Dumpers, DumpSave(d) PROVE FilesSearchable'
    BY <1>2 DEF DumpSave, SortedInv
  <1>3. ASSUME NEW n \in DumpNumbers, CompactRename(n) PROVE FilesSearchable'
    BY <1>3 DEF CompactRename
  <1>4. ASSUME NEW n \in DumpNumbers, CompactDelete(n) PROVE FilesSearchable'
    BY <1>4 DEF CompactDelete
  <1>5. CASE CompactMakePart
    <2>1. OnePerKey(binc'[cpart])
      BY <1>5, MadePart DEF Preprocessed
    <2>2. \A r \in binc'[cpart] : PartOf(r.key) = cpart
      BY <1>5, MadePart DEF Preprocessed, Entries
    <2> QED
      BY <1>5, <2>1, <2>2, MadePart
  <1>6. CASE CompactDropOld
    BY <1>6 DEF CompactDropOld
  <1>7. CASE CompactMoveNew
    BY <1>7 DEF CompactMoveNew
  <1> QED
    BY <1>1, <1>2, <1>3, <1>4, <1>5, <1>6, <1>7, FileSteps

LEMMA SearchInductive == Spec => []SearchInv
  <1>1. ASSUME IInv, SearchInv, [Next]_vars PROVE SearchInv'
    BY <1>1, SortedStep, SearchableStep DEF IInv, SearchInv
  <1> QED
    BY <1>1, InitSearch, Inductive, PTL DEF Spec

(* No file ever holds two records of a key, nor a partition a key of       *)
(* another: memtable_find may search them by bisection.                    *)
THEOREM FilesSearchableCorrect == Spec => []FilesSearchable
  BY SearchInductive, PTL DEF SearchInv

-----------------------------------------------------------------------------
(* Nothing is made up.                                                     *)

KnownInv == OriginInv /\ NoRecordInvented

LEMMA InitKnown == Init => KnownInv
  BY DEF Init, KnownInv, OriginInv, NoRecordInvented, Visible, Stored, InDumps,
         InPartitions

LEMMA AckedGrows ==
    ASSUME [Next]_vars
    PROVE  acked' = acked \/ \E i \in Inserters : InsertAdd(i)
  BY DEF Next, Overrun, vars, Insert, InsertBegin, Dump, DumpBegin, DumpNotNeeded,
         DumpSort, DumpSave, DumpFail, DumpClear, Select, SelectBegin, SelectPart,
         SelectDumps, SelectMemtable, SelectNoMemtable, SelectCopy, Compact,
         CompactBegin, CompactScope, CompactOverrun, CompactRename, CompactConflict,
         CompactUnblock, CompactLoad, CompactSkipPart, CompactMakePart, CompactFail,
         CompactBlock, CompactAlone, CompactDelete, CompactDeleted, CompactKeepPart,
         CompactDropOld, CompactMoveNew, CompactEnd

(* What is visible, on disk or in hand was inserted.                       *)
KnownRecords ==
    /\ Visible \subseteq acked
    /\ merged \subseteq acked
    /\ \A p \in Partitions : binc[p] \subseteq acked

LEMMA KnownRecordsStep ==
    ASSUME TypeOK, KnownRecords, [Next]_vars
    PROVE  KnownRecords'
  <1> USE DEF KnownRecords
  <1>1. ASSUME NEW i \in Inserters, InsertAdd(i) PROVE KnownRecords'
    BY <1>1, InsertKeeps DEF InsertAdd, compactVars
  <1>2. CASE acked' = acked
    <2>1. CASE UNCHANGED <<compactVars, tmpc, bin, binc, gone>>
      <3>1. memtable' \subseteq acked
        <4>1. memtable \subseteq acked
          BY DEF Visible, Stored
        <4>2. ASSUME NEW i \in Inserters, InsertAdd(i) PROVE memtable' \subseteq acked
          BY <1>2, <1>1, <4>2 DEF Visible, Stored
        <4>3. ASSUME NEW d \in Dumpers, Dump(d) PROVE memtable' \subseteq acked
          BY <4>1, <4>3
          DEF Dump, DumpBegin, DumpNotNeeded, DumpSort, DumpSave, DumpFail,
              DumpClear, Preprocessed, storageVars
        <4> QED
          BY <4>1, <4>2, <4>3, MemtableSteps
      <3>2. \A n \in DumpNumbers : tmp'[n] \subseteq acked
        <4>1. \A n \in DumpNumbers : tmp[n] \subseteq acked
          BY VisibleMembers DEF Shown
        <4>2. memtable \subseteq acked
          BY DEF Visible, Stored
        <4>3. ASSUME NEW d \in Dumpers, DumpSave(d), NEW n \in DumpNumbers
              PROVE  tmp'[n] \subseteq acked
          BY <4>1, <4>2, <4>3 DEF DumpSave, TypeOK
        <4>4. ASSUME NEW m \in DumpNumbers, CompactRename(m), NEW n \in DumpNumbers
              PROVE  tmp'[n] \subseteq acked
          BY <4>1, <4>4 DEF CompactRename, TypeOK
        <4> QED
          BY <4>1, <4>3, <4>4, TmpSteps
      <3>3. Visible' \subseteq acked
        BY <2>1, <3>1, <3>2, VisibleMembers DEF Shown, Stage3, compactVars
      <3> QED
        BY <1>2, <2>1, <3>3 DEF compactVars
    <2>2. CASE Compact
      <3>1. merged' \subseteq acked
        <4>1. CASE CompactLoad
          <5>1. \A n \in DumpNumbers : tmpc[n] \subseteq acked
            BY VisibleMembers DEF Shown
          <5> QED
            BY <4>1, <5>1 DEF CompactLoad, Preprocessed, TypeOK
        <4>2. merged' = merged \/ merged' = {} \/ CompactLoad
          BY <2>2
          DEF Compact, CompactBegin, CompactScope, CompactOverrun, CompactRename,
              CompactConflict, CompactUnblock, CompactSkipPart, CompactMakePart,
              CompactFail, CompactBlock, CompactAlone, CompactDelete,
              CompactDeleted, CompactKeepPart, CompactDropOld, CompactMoveNew,
              CompactEnd
        <4> QED
          BY <4>1, <4>2
      <3>2. \A p \in Partitions : binc'[p] \subseteq acked
        <4>1. CASE CompactMakePart
          <5>1. bin[cpart] \subseteq acked
            BY <4>1, MadePart, VisibleMembers DEF Shown
          <5> QED
            BY <4>1, <5>1, MadePart
        <4>2. CASE CompactMoveNew
          BY <4>2 DEF CompactMoveNew, TypeOK
        <4>3. binc' = binc \/ CompactMakePart \/ CompactMoveNew
          BY <2>2
          DEF Compact, CompactBegin, CompactScope, CompactOverrun, CompactRename,
              CompactConflict, CompactUnblock, CompactLoad, CompactSkipPart,
              CompactFail, CompactBlock, CompactAlone, CompactDelete,
              CompactDeleted, CompactKeepPart, CompactDropOld, CompactEnd,
              storageVars
        <4> QED
          BY <4>1, <4>2, <4>3
      <3>3. /\ memtable \subseteq acked
            /\ \A n \in DumpNumbers : tmp[n] \subseteq acked /\ tmpc[n] \subseteq acked
            /\ \A p \in Partitions : bin[p] \subseteq acked
        BY VisibleMembers DEF Shown
      <3>4. /\ memtable' \subseteq acked
            /\ \A n \in DumpNumbers : tmp'[n] \subseteq acked /\ tmpc'[n] \subseteq acked
            /\ \A p \in Partitions : bin'[p] \subseteq acked
        <4>1. CASE UNCHANGED <<memtable, tmp, tmpc, bin>>
          BY <3>3, <4>1
        <4>2. ASSUME NEW n \in DumpNumbers, CompactRename(n) \/ CompactDelete(n)
              PROVE  /\ UNCHANGED <<memtable, bin>>
                     /\ \A m \in DumpNumbers :
                           tmp'[m] \subseteq acked /\ tmpc'[m] \subseteq acked
          BY <3>3, <4>2 DEF CompactRename, CompactDelete, TypeOK
        <4>3. ASSUME CompactDropOld \/ CompactMoveNew
              PROVE  /\ UNCHANGED <<memtable, tmp, tmpc>>
                     /\ \A p \in Partitions : bin'[p] \subseteq acked
          BY <3>3, <4>3 DEF CompactDropOld, CompactMoveNew, TypeOK
        <4>4. \/ UNCHANGED <<memtable, tmp, tmpc, bin>>
              \/ \E n \in DumpNumbers : CompactRename(n) \/ CompactDelete(n)
              \/ CompactDropOld \/ CompactMoveNew
          BY <2>2
          DEF Compact, CompactBegin, CompactScope, CompactOverrun, CompactConflict,
              CompactUnblock, CompactLoad, CompactSkipPart, CompactMakePart,
              CompactFail, CompactBlock, CompactAlone, CompactDeleted,
              CompactKeepPart, CompactEnd, storageVars
        <4> QED
          BY <3>3, <4>1, <4>2, <4>3, <4>4
      <3>5. Visible' \subseteq acked
        BY <3>2, <3>4, VisibleMembers DEF Shown
      <3> QED
        BY <1>2, <3>1, <3>2, <3>5
    <2> QED
      BY <2>1, <2>2, OthersSteps
  <1> QED
    BY <1>1, <1>2, AckedGrows

(* What a SELECT holds was inserted, unless a dump freed it on the way.    *)
KnownBest ==
    \A s \in Selectors :
       /\ sbest[s] # None /\ ~freed[s] => sbest[s] \in acked
       /\ spc[s] = "copy" /\ ~freed[s] => sbest[s] \in memtable

LEMMA KnownBestStep ==
    ASSUME TypeOK, LockInv, KnownRecords, KnownBest, [Next]_vars
    PROVE  KnownBest'
  <1> USE DEF KnownBest, TypeOK
  <1>1. ASSUME NEW i \in Inserters, Insert(i) PROVE KnownBest'
    <2>1. CASE InsertAdd(i)
      BY <2>1 DEF InsertAdd, selectVars
    <2>2. ASSUME NEW r \in Record, InsertBegin(i, r) PROVE KnownBest'
      BY <2>2 DEF InsertBegin, selectVars, storageVars
    <2> QED
      BY <1>1, <2>1, <2>2 DEF Insert
  <1>2. ASSUME NEW d \in Dumpers, Dump(d) PROVE KnownBest'
    <2> USE DEF storageVars, selectVars
    <2>1. CASE DumpSort(d)
      <3>1. UNCHANGED <<acked, spc, sbest>>
        BY <2>1 DEF DumpSort
      <3>2. ASSUME NEW s \in Selectors, ~freed'[s]
            PROVE  ~freed[s] /\ (s \in users => memtable' = memtable)
        BY <2>1, <3>2 DEF DumpSort
      <3>3. ASSUME NEW s \in Selectors, spc[s] = "copy" PROVE s \in users
        BY <3>3 DEF LockInv, UsersExact, Searching
      <3> QED
        BY <3>1, <3>2, <3>3
    <2>2. CASE DumpClear(d)
      BY <2>2 DEF DumpClear, LockInv, UsersExact, Searching
    <2>3. CASE DumpBegin(d) \/ DumpNotNeeded(d) \/ DumpSave(d) \/ DumpFail(d)
      <3>1. UNCHANGED <<memtable, acked, freed, spc, sbest>>
        BY <2>3 DEF DumpBegin, DumpNotNeeded, DumpSave, DumpFail
      <3> QED
        BY <3>1
    <2> QED
      BY <1>2, <2>1, <2>2, <2>3 DEF Dump
  <1>3. CASE Compact
    <2>1. UNCHANGED <<memtable, acked, freed, spc, sbest>>
      BY <1>3
      DEF Compact, CompactBegin, CompactScope, CompactOverrun, CompactRename,
          CompactConflict, CompactUnblock, CompactLoad, CompactSkipPart,
          CompactMakePart, CompactFail, CompactBlock, CompactAlone, CompactDelete,
          CompactDeleted, CompactKeepPart, CompactDropOld, CompactMoveNew,
          CompactEnd, storageVars, selectVars
    <2> QED
      BY <2>1
  <1>4. ASSUME NEW s \in Selectors, Select(s) PROVE KnownBest'
    <2> USE DEF storageVars
    <2>1. ASSUME NEW k \in Keys, SelectBegin(s, k) PROVE KnownBest'
      BY <2>1 DEF SelectBegin
    <2>2. CASE SelectPart(s)
      <3>1. bin[PartOf(skey[s])] \subseteq acked
        BY PartOfType, VisibleMembers DEF KnownRecords, Shown
      <3>2. PICK new : /\ Better(None, bin[PartOf(skey[s])], skey[s], new)
                       /\ sbest' = [sbest EXCEPT ![s] = new]
        BY <2>2 DEF SelectPart
      <3>3. new # None => new \in acked
        BY <3>1, <3>2 DEF Better, IsBetter, IsFound
      <3> QED
        BY <2>2, <3>2, <3>3 DEF SelectPart
    <2>3. CASE SelectDumps(s)
      <3>1. PICK seen \in SUBSET DumpsOnDisk, new \in Record \cup {None} :
               /\ Better(sbest[s], InDumps(seen), skey[s], new)
               /\ sbest' = [sbest EXCEPT ![s] = new]
        BY <2>3 DEF SelectDumps
      <3>2. InDumps(seen) \subseteq acked
        BY VisibleMembers DEF KnownRecords, Shown, InDumps, DumpsOnDisk
      <3>3. new = sbest[s] \/ new \in acked
        BY <3>1, <3>2 DEF Better, IsBetter, IsFound
      <3> QED
        BY <2>3, <3>1, <3>3 DEF SelectDumps
    <2>4. CASE SelectMemtable(s)
      <3>1. memtable \subseteq acked
        BY DEF KnownRecords, Visible, Stored
      <3> QED
        BY <2>4, <3>1 DEF SelectMemtable
    <2>5. CASE SelectNoMemtable(s)
      BY <2>5 DEF SelectNoMemtable
    <2>6. CASE SelectCopy(s)
      <3>1. PICK v : /\ sbest' = [sbest EXCEPT ![s].val = v]
                     /\ sbest[s] \in memtable => v = sbest[s].val
        BY <2>6 DEF SelectCopy
      <3>2. spc[s] = "copy" /\ UNCHANGED <<memtable, acked, freed>>
            /\ spc' = [spc EXCEPT ![s] = "answered"]
        BY <2>6 DEF SelectCopy
      <3>3. sbest[s] \in Record
        BY <3>2
      <3>4. sbest[s] \in memtable => sbest'[s] = sbest[s]
        BY <3>1, <3>3 DEF Record
      <3>5. \A t \in Selectors : t # s => sbest'[t] = sbest[t]
        BY <3>1
      <3>6. sbest[s] # None
        BY <3>3, Distinct
      <3> QED
        BY <3>2, <3>4, <3>5, <3>6
    <2> QED
      BY <1>4, <2>1, <2>2, <2>3, <2>4, <2>5, <2>6 DEF Select
  <1>5. CASE UNCHANGED vars
    BY <1>5 DEF vars, storageVars, selectVars
  <1> QED
    BY <1>1, <1>2, <1>3, <1>4, <1>5 DEF Next, Overrun

LEMMA KnownInductive == Spec => []KnownInv
  <1>1. KnownInv <=> KnownRecords /\ KnownBest
    BY DEF KnownInv, OriginInv, NoRecordInvented, KnownRecords, KnownBest
  <1>2. ASSUME IInv, KnownInv, [Next]_vars PROVE KnownInv'
    <2>1. KnownRecords' /\ KnownBest'
      BY <1>1, <1>2, KnownRecordsStep, KnownBestStep DEF IInv
    <2> QED
      BY <2>1 DEF KnownInv, OriginInv, NoRecordInvented, KnownRecords, KnownBest
  <1> QED
    BY <1>2, InitKnown, Inductive, PTL DEF Spec

(* The files, the memtable and a compaction's hands hold inserted records  *)
(* only, and so do SELECTs beside which no dump freed records.             *)
THEOREM NoRecordInventedCorrect == Spec => []NoRecordInvented
  BY KnownInductive, PTL DEF KnownInv

-----------------------------------------------------------------------------
(* A SELECT misses nothing.                                                *)

LEMMA InitFresh == Init => FreshInv
  BY DEF Init, FreshInv, FloorInv, AheadInv

(* Only its own steps change what a SELECT holds.                          *)
SelectAt(s) == <<spc[s], skey[s], sbest[s], slisted[s], floor[s]>>

LEMMA SelectSteps ==
    ASSUME TypeOK, [Next]_vars
    PROVE  \/ UNCHANGED selectVars /\ (freed' = freed \/ \E d \in Dumpers : Dump(d))
           \/ \E s \in Selectors :
                 /\ Select(s)
                 /\ \A t \in Selectors \ {s} :
                       /\ UNCHANGED SelectAt(t)
                       /\ freed'[t] = freed[t]
  <1>1. ASSUME NEW s \in Selectors, Select(s)
        PROVE  \A t \in Selectors \ {s} : UNCHANGED SelectAt(t) /\ freed'[t] = freed[t]
    BY <1>1
    DEF Select, SelectBegin, SelectPart, SelectDumps, SelectMemtable,
        SelectNoMemtable, SelectCopy, SelectAt, TypeOK
  <1> QED
    BY <1>1
    DEF Next, Overrun, vars, Insert, InsertBegin, InsertAdd, Dump, DumpBegin,
        DumpNotNeeded, DumpSort, DumpSave, DumpFail, DumpClear, Compact,
        CompactBegin, CompactScope, CompactOverrun, CompactRename, CompactConflict,
        CompactUnblock, CompactLoad, CompactSkipPart, CompactMakePart, CompactFail,
        CompactBlock, CompactAlone, CompactDelete, CompactDeleted, CompactKeepPart,
        CompactDropOld, CompactMoveNew, CompactEnd

LEMMA FloorStep ==
    ASSUME TypeOK, FloorInv, [Next]_vars
    PROVE  FloorInv'
  <1> USE DEF FloorInv
  <1>1. acked \subseteq acked'
    BY AckedGrows DEF InsertAdd
  <1>2. CASE UNCHANGED selectVars
    BY <1>1, <1>2 DEF selectVars
  <1>3. ASSUME NEW s \in Selectors, Select(s),
               \A t \in Selectors \ {s} : UNCHANGED SelectAt(t)
        PROVE  FloorInv'
    <2>1. \A t \in Selectors \ {s} :
             spc'[t] = spc[t] /\ skey'[t] = skey[t] /\ floor'[t] = floor[t]
      BY <1>3 DEF SelectAt
    <2>2. ASSUME NEW k \in Keys, SelectBegin(s, k)
          PROVE  spc'[s] = "part" /\ skey'[s] = k
                 /\ floor'[s] = {r \in acked : r.key = k}
      BY <2>2 DEF SelectBegin, TypeOK
    <2>3. CASE SelectPart(s) \/ SelectDumps(s) \/ SelectMemtable(s)
               \/ SelectNoMemtable(s) \/ SelectCopy(s)
      BY <2>3
      DEF SelectPart, SelectDumps, SelectMemtable, SelectNoMemtable, SelectCopy,
          TypeOK
    <2>4. /\ spc'[s] # "idle"
          /\ floor'[s] \subseteq {r \in acked : r.key = skey'[s]}
      <3>1. ASSUME SelectPart(s) \/ SelectDumps(s) \/ SelectMemtable(s)
                   \/ SelectNoMemtable(s) \/ SelectCopy(s)
            PROVE  spc'[s] # "idle" /\ UNCHANGED <<skey, floor>>
        BY <3>1
        DEF SelectPart, SelectDumps, SelectMemtable, SelectNoMemtable, SelectCopy,
            TypeOK
      <3> QED
        BY <1>3, <2>2, <3>1 DEF Select
    <2> QED
      BY <1>1, <2>1, <2>4
  <1> QED
    BY <1>2, <1>3, SelectSteps

FreshAt(s) ==
    spc[s] # "part" /\ ~freed[s] =>
       \A r \in floor[s] : Holds(s, r) \/ Covers(Ahead(s), r)

(* A step of others keeps it, when what the SELECT has ahead only grows or *)
(* is freed.                                                               *)
LEMMA OthersFresh ==
    ASSUME NEW s \in Selectors, FreshAt(s), UNCHANGED SelectAt(s),
           freed[s] => freed'[s],
           spc[s] \in {"dumps", "memtable"} /\ ~freed'[s] => memtable \subseteq memtable',
           spc[s] = "dumps" => InDumps(slisted[s]) \subseteq InDumps(slisted[s])'
    PROVE  FreshAt(s)'
  <1>1. ~freed'[s] => Ahead(s) \subseteq Ahead(s)'
    BY DEF Ahead, SelectAt
  <1>2. \A r : Holds(s, r)' <=> Holds(s, r)
    BY DEF Holds, SelectAt
  <1> QED
    BY <1>1, <1>2, CoversMore DEF FreshAt, SelectAt

(* A SELECT keeps the better of what it holds and what it finds.           *)
LEMMA BetterHolds ==
    ASSUME NEW best \in Answer, NEW S \in SUBSET Record, NEW k \in Keys,
           NEW new \in Answer, Better(best, S, k, new)
    PROVE  /\ \A r \in Record :
                 best # None /\ best.ts >= r.ts => new # None /\ new.ts >= r.ts
           /\ \A r \in Record :
                 r.key = k /\ Covers(S, r) => new # None /\ new.ts >= r.ts
  <1>1. best # None => best.ts \in Nat
    BY TimestampsAssumption DEF Answer
  <1>2. \A q \in S : q \in Record /\ q.ts \in Nat
    BY TimestampType
  <1>3. CASE NoBetter(best, S, k) /\ new = best
    BY <1>1, <1>2, <1>3, TimestampType DEF NoBetter, Covers
  <1>4. CASE IsBetter(best, S, k, new)
    BY <1>1, <1>2, <1>4, TimestampType, Distinct DEF IsBetter, IsFound, Covers
  <1> QED
    BY <1>3, <1>4 DEF Better

(* While a SELECT is inside the guard no D#.tmp or D#.tmpc goes away.      *)
LEMMA DumpsStay ==
    ASSUME TypeOK, LockInv, [Next]_vars, users # {}, NEW n \in DumpNumbers
    PROVE  tmp[n] \cup tmpc[n] \subseteq tmp'[n] \cup tmpc'[n]
  <1>1. ASSUME NEW d \in Dumpers, DumpSave(d)
        PROVE  tmp[n] \subseteq tmp'[n] /\ tmpc'[n] = tmpc[n]
    BY <1>1 DEF DumpSave, IsNextDump, TypeOK, DumpNumbers
  <1>2. ASSUME NEW m \in DumpNumbers, CompactRename(m) \/ CompactDelete(m)
        PROVE  FALSE
    BY <1>2 DEF CompactRename, CompactDelete, LockInv, StagesExclusive, Exclusive
  <1>3. CompactMakePart \/ CompactDropOld
                        \/ CompactMoveNew => UNCHANGED <<tmp, tmpc>>
    BY DEF CompactMakePart, CompactDropOld, CompactMoveNew
  <1> QED
    BY <1>1, <1>2, <1>3, FileSteps

(* Until it begins again, a SELECT that was marked stays so.               *)
LEMMA FreedStays ==
    ASSUME TypeOK, [Next]_vars, NEW s \in Selectors, ~Select(s)
    PROVE  freed[s] => freed'[s]
  <1>1. freed'[s] = freed[s] \/ \E d \in Dumpers : Dump(d)
    BY SelectSteps
  <1>2. ASSUME NEW d \in Dumpers, Dump(d) PROVE freed[s] => freed'[s]
    BY <1>2
    DEF Dump, DumpBegin, DumpNotNeeded, DumpSort, DumpSave, DumpFail, DumpClear
  <1> QED
    BY <1>1, <1>2

(* The memtable loses records only when a dump sorts or clears it, and the *)
(* SELECTs inside the guard are marked then.                               *)
LEMMA MemtableStays ==
    ASSUME [Next]_vars, NEW s \in users, s \in Selectors, ~freed'[s]
    PROVE  memtable \subseteq memtable'
  <1>1. ASSUME NEW i \in Inserters, InsertAdd(i) PROVE memtable \subseteq memtable'
    BY <1>1 DEF InsertAdd
  <1>2. ASSUME NEW d \in Dumpers, Dump(d) PROVE memtable \subseteq memtable'
    BY <1>2
    DEF Dump, DumpBegin, DumpNotNeeded, DumpSort, DumpSave, DumpFail, DumpClear,
        storageVars
  <1> QED
    BY <1>1, <1>2, MemtableSteps

(* The SELECT's own steps: the partition ...                               *)
LEMMA FreshPart ==
    ASSUME IInv, FilesSearchable, FloorInv, NEW s \in Selectors, SelectPart(s)
    PROVE  FreshAt(s)'
  <1>1. PICK new \in Record \cup {None} :
           /\ Better(None, bin[PartOf(skey[s])], skey[s], new)
           /\ sbest' = [sbest EXCEPT ![s] = new]
    BY DEF SelectPart
  <1>2. /\ spc[s] = "part" /\ spc'[s] = "dumps" /\ sbest'[s] = new
        /\ slisted'[s] = DumpsOnDisk
        /\ UNCHANGED <<memtable, tmp, tmpc, skey, floor>>
    BY <1>1 DEF SelectPart, IInv, TypeOK, storageVars
  <1>3. ASSUME NEW r \in floor[s] PROVE Holds(s, r)' \/ Covers(Ahead(s)', r)
    <2>1. r \in acked /\ r.key = skey[s] /\ r \in Record
      BY DEF FloorInv, IInv, TypeOK
    <2>2. PICK q \in Visible : q.key = r.key /\ q.ts >= r.ts
      BY <2>1 DEF IInv, NoAckedRecordLost, Covers
    <2>3. ~Stage3
      BY <1>2 DEF Stage3, IInv, LockInv, UsersExact, StagesExclusive, Exclusive,
                  Searching
    <2>4. Shown(q)
      BY VisibleMembers
    <2>5. CASE q \in memtable
      BY <1>2, <2>2, <2>5 DEF Ahead, Covers
    <2>6. ASSUME NEW n \in DumpNumbers, q \in tmp[n] \/ q \in tmpc[n]
          PROVE  Covers(Ahead(s)', r)
      <3>1. n \in slisted'[s]
        BY <1>2, <2>6 DEF DumpsOnDisk
      <3>2. q \in Ahead(s)'
        BY <1>2, <2>6, <3>1 DEF Ahead, InDumps
      <3> QED
        BY <2>2, <3>2 DEF Covers
    <2>7. ASSUME NEW p \in Partitions, q \in bin[p] PROVE Holds(s, r)'
      <3>1. p = PartOf(skey[s])
        BY <2>1, <2>2, <2>7 DEF FilesSearchable
      <3>2. bin[p] \in SUBSET Record /\ skey[s] \in Keys
        BY DEF IInv, TypeOK
      <3>3. Covers(bin[p], r)
        BY <2>2, <2>7 DEF Covers
      <3>4. new \in Answer /\ None \in Answer
        BY DEF Answer, Record
      <3>5. new # None /\ new.ts >= r.ts
        BY <1>1, <2>1, <3>1, <3>2, <3>3, <3>4, BetterHolds
      <3> QED
        BY <1>2, <3>5 DEF Holds
    <2> QED
      BY <2>3, <2>4, <2>5, <2>6, <2>7 DEF Shown
  <1> QED
    BY <1>2, <1>3 DEF FreshAt

(* ... the dumps ...                                                       *)
LEMMA FreshDumps ==
    ASSUME TypeOK, FloorInv, NEW s \in Selectors, FreshAt(s), SelectDumps(s)
    PROVE  FreshAt(s)'
  <1>1. PICK seen \in SUBSET DumpsOnDisk, new \in Record \cup {None} :
           /\ slisted[s] \subseteq seen
           /\ Better(sbest[s], InDumps(seen), skey[s], new)
           /\ sbest' = [sbest EXCEPT ![s] = new]
    BY DEF SelectDumps
  <1>2. /\ spc[s] = "dumps" /\ spc'[s] = "memtable" /\ sbest'[s] = new
        /\ UNCHANGED <<memtable, floor, freed>>
    BY <1>1 DEF SelectDumps, TypeOK, storageVars
  <1>3. /\ sbest[s] \in Answer /\ new \in Answer /\ skey[s] \in Keys
        /\ InDumps(seen) \in SUBSET Record
    BY DEF TypeOK, Answer, Record, InDumps, DumpsOnDisk
  <1>4. ASSUME NEW r \in floor[s], Holds(s, r) \/ Covers(Ahead(s), r)
        PROVE  Holds(s, r)' \/ Covers(Ahead(s)', r)
    <2>1. r.key = skey[s] /\ r \in Record
      BY DEF FloorInv, TypeOK
    <2>2. CASE Holds(s, r)
      BY <1>1, <1>2, <1>3, <2>1, <2>2, BetterHolds DEF Holds
    <2>3. CASE Covers(memtable, r)
      BY <1>2, <2>3 DEF Ahead, Covers
    <2>4. CASE Covers(InDumps(slisted[s]), r)
      <3>1. Covers(InDumps(seen), r)
        BY <1>1, <2>4 DEF Covers, InDumps
      <3>2. new # None /\ new.ts >= r.ts
        BY <1>1, <1>3, <2>1, <3>1, BetterHolds
      <3> QED
        BY <1>2, <3>2 DEF Holds
    <2>5. Ahead(s) = memtable \cup InDumps(slisted[s])
      BY <1>2 DEF Ahead
    <2> QED
      BY <1>4, <2>2, <2>3, <2>4, <2>5 DEF Covers
  <1> QED
    BY <1>2, <1>4 DEF FreshAt

(* ... the memtable ...                                                    *)
LEMMA FreshMemtable ==
    ASSUME TypeOK, FloorInv, NEW s \in Selectors, FreshAt(s),
           SelectMemtable(s) \/ SelectNoMemtable(s)
    PROVE  FreshAt(s)'
  <1>1. PICK new \in Answer :
           /\ Better(sbest[s], memtable, skey[s], new)
           /\ sbest'[s] = new
    <2>1. CASE SelectMemtable(s)
      BY <2>1 DEF SelectMemtable, Better, TypeOK, Answer, Record
    <2>2. CASE SelectNoMemtable(s)
      BY <2>2 DEF SelectNoMemtable, Better, TypeOK
    <2> QED
      BY <2>1, <2>2
  <1>2. /\ spc[s] = "memtable" /\ spc'[s] \in {"copy", "answered"}
        /\ UNCHANGED <<floor, freed>>
    BY DEF SelectMemtable, SelectNoMemtable, TypeOK
  <1>3. sbest[s] \in Answer /\ skey[s] \in Keys /\ memtable \in SUBSET Record
    BY DEF TypeOK
  <1>4. ASSUME NEW r \in floor[s], Holds(s, r) \/ Covers(memtable, r)
        PROVE  Holds(s, r)'
    <2>1. r.key = skey[s] /\ r \in Record
      BY DEF FloorInv, TypeOK
    <2>2. /\ sbest[s] # None /\ sbest[s].ts >= r.ts => new # None /\ new.ts >= r.ts
          /\ Covers(memtable, r) => new # None /\ new.ts >= r.ts
      <3>1. Better(sbest[s], memtable, skey[s], new)
        BY <1>1
      <3> QED
        BY <1>3, <2>1, <3>1, BetterHolds
    <2> QED
      BY <1>1, <1>4, <2>2 DEF Holds
  <1>5. Ahead(s) = memtable
    BY <1>2 DEF Ahead
  <1> QED
    BY <1>2, <1>4, <1>5 DEF FreshAt

(* ... and the copy, of a record that is still in the memtable.            *)
LEMMA FreshCopy ==
    ASSUME TypeOK, OriginInv, NEW s \in Selectors, FreshAt(s), SelectCopy(s)
    PROVE  FreshAt(s)'
  <1>1. PICK v : /\ sbest' = [sbest EXCEPT ![s].val = v]
                 /\ sbest[s] \in memtable => v = sbest[s].val
    BY DEF SelectCopy
  <1>2. spc[s] = "copy" /\ spc'[s] = "answered" /\ UNCHANGED <<freed, floor>>
    BY DEF SelectCopy, TypeOK
  <1>3. sbest[s] \in Record
    BY <1>2 DEF TypeOK
  <1>4. ~freed[s] => sbest'[s] = sbest[s]
    BY <1>1, <1>2, <1>3 DEF OriginInv, Record, TypeOK
  <1>5. Ahead(s) = {} /\ Ahead(s)' = {}
    BY <1>2 DEF Ahead
  <1> QED
    BY <1>2, <1>4, <1>5 DEF FreshAt, Holds, Covers

LEMMA AheadStep ==
    ASSUME IInv, FilesInv, FreshInv, [Next]_vars
    PROVE  AheadInv'
  <1> SUFFICES ASSUME NEW s \in Selectors PROVE FreshAt(s)'
    BY DEF AheadInv, FreshAt
  <1>0. TypeOK /\ LockInv /\ FloorInv /\ FreshAt(s)
    BY DEF IInv, FreshInv, AheadInv, FreshAt
  <1>1. CASE Select(s)
    <2>1. ASSUME NEW k \in Keys, SelectBegin(s, k) PROVE FreshAt(s)'
      BY <1>0, <2>1 DEF SelectBegin, FreshAt, TypeOK
    <2> QED
      BY <1>0, <1>1, <2>1, FreshPart, FreshDumps, FreshMemtable, FreshCopy
      DEF Select, FilesInv
  <1>2. CASE ~Select(s)
    <2>1. UNCHANGED SelectAt(s)
      BY <1>0, <1>2, SelectSteps DEF SelectAt, selectVars
    <2>2. CASE s \in users
      <3>1. freed[s] => freed'[s]
        BY <1>0, <1>2, FreedStays
      <3>2. ~freed'[s] => memtable \subseteq memtable'
        BY <2>2, MemtableStays
      <3>3. InDumps(slisted[s]) \subseteq InDumps(slisted[s])'
        BY <1>0, <2>1, <2>2, DumpsStay DEF InDumps, SelectAt, TypeOK
      <3> QED
        BY <1>0, <2>1, <3>1, <3>2, <3>3, OthersFresh
    <2>3. CASE s \notin users
      <3>1. spc[s] \in {"idle", "answered"}
        BY <1>0, <2>3 DEF LockInv, UsersExact, Searching, TypeOK
      <3>2. freed[s] => freed'[s]
        BY <1>0, <1>2, FreedStays
      <3> QED
        BY <1>0, <2>1, <3>1, <3>2, OthersFresh
    <2> QED
      BY <2>2, <2>3
  <1> QED
    BY <1>1, <1>2

LEMMA FreshInductive == Spec => []FreshInv
  <1>1. ASSUME IInv, SearchInv, KnownInv, FreshInv, [Next]_vars PROVE FreshInv'
    BY <1>1, AheadStep, FloorStep DEF FreshInv, IInv, SearchInv, KnownInv, FilesInv
  <1> QED
    BY <1>1, InitFresh, Inductive, SearchInductive, KnownInductive, PTL DEF Spec

(* A SELECT beside which no dump freed records answers with a record at    *)
(* least as recent as every one of its key acknowledged before it began,   *)
(* whatever INSERTs, dumps' files and compaction stages went on beside it. *)
THEOREM SelectFreshCorrect == Spec => []SelectFreshUnlessDumped
  <1>1. FreshInv => SelectFreshUnlessDumped
    BY DEF FreshInv, AheadInv, SelectFreshUnlessDumped, Fresh, Holds, Ahead, Covers
  <1> QED
    BY <1>1, FreshInductive, PTL

-----------------------------------------------------------------------------
(* Crashes.                                                                *)

(* The invariant.  A partition whose replacement was interrupted is in     *)
(* torn; elsewhere everything is as if no crash had happened.              *)

(* What a P#.binc has taken over, in the partitions that have a P#.bin.    *)
BincLeft ==
    /\ cpc = "merge" => \A p \in Partitions : p < cpart /\ p \notin gone => PartDone(p)
    /\ cpc \in {"wait3", "delete"} => \A p \in Partitions : p \notin gone => PartDone(p)
    /\ cpc \in {"swap", "move"} =>
          \A p \in Partitions : p < cpart /\ p \notin gone => binc[p] = {}

(* A P#.bin is missing where a crash came between fs_file_delete and       *)
(* cx_file_move, or where the compaction at work is between the two.       *)
MissingInv ==
    /\ \A p \in gone : binc[p] # {} /\ (p \in torn \/ (cpc = "move" /\ p = cpart))
    /\ cpc = "move" => cpart \in gone

(* What the files alone hold.                                              *)
OnDisk(r) ==
    \/ \E n \in DumpNumbers : r \in tmp[n] \/ r \in tmpc[n]
    \/ \E p \in Partitions : r \in bin[p]
    \/ Stage3 /\ \E p \in Partitions : r \in binc[p]

DiskCovers(r) == \E q \in Record : OnDisk(q) /\ q.key = r.key /\ q.ts >= r.ts

Whole(r) == PartOf(r.key) \notin torn

AckedKept == \A r \in acked : Whole(r) => Covers(Visible, r)
DurableKept == \A r \in durable : Whole(r) => DiskCovers(r)

CrashInv ==
    /\ TypeOK /\ durable \subseteq Record
    /\ LockInv /\ SearchInv
    /\ SavedInv /\ ScopeInv /\ MergedInv /\ ReplaceInv /\ BincLeft /\ MissingInv
    /\ AckedKept /\ DurableKept

LEMMA InitCrash == CrashInit => CrashInv
  <1> SUFFICES ASSUME CrashInit PROVE CrashInv
    OBVIOUS
  <1>1. IInv /\ SearchInv
    BY InitIInv, InitSearch DEF CrashInit
  <1>2. MissingInv /\ BincLeft /\ AckedKept /\ DurableKept /\ durable \subseteq Record
    BY DEF CrashInit, Init, MissingInv, BincLeft, AckedKept, DurableKept
  <1> QED
    BY <1>1, <1>2 DEF IInv, DataInv, CrashInv

-----------------------------------------------------------------------------
(* What a compaction knows, with partitions missing.                       *)

LEMMA LeftStep ==
    ASSUME TypeOK, BincLeft, MissingInv, [Next]_vars
    PROVE  BincLeft'
  <1> USE DEF BincLeft, TypeOK, PartDone
  <1>1. CASE UNCHANGED <<compactVars, binc, gone>>
    BY <1>1 DEF compactVars, Covers
  <1>2. CASE Compact
    <2>1. CASE CompactLoad
      BY <2>1 DEF CompactLoad, Partitions
    <2>2. CASE CompactMakePart
      <3>1. ASSUME NEW p \in Partitions, p < cpart + 1, p \notin gone,
                   NEW r \in merged, PartOf(r.key) = p
            PROVE  Covers(binc'[p], r)
        <4>1. CASE p = cpart
          BY <2>2, <3>1, <4>1, MadePart DEF CoversAll, Entries
        <4>2. CASE p # cpart
          <5>1. p < cpart
            BY <2>2, <3>1, <4>2, MadePart DEF Partitions
          <5>2. Covers(binc[p], r)
            BY <2>2, <3>1, <5>1, MadePart
          <5> QED
            BY <2>2, <4>2, <5>2, MadePart
        <4> QED
          BY <4>1, <4>2
      <3> QED
        BY <2>2, <3>1, MadePart
    <2>3. CASE CompactSkipPart
      <3>1. /\ cpc = "merge" /\ cpc' = "merge" /\ cpart' = cpart + 1
            /\ UNCHANGED <<merged, binc, gone>> /\ cpart \in Partitions
        BY <2>3, PartCountAssumption DEF CompactSkipPart, storageVars, Partitions
      <3>2. Entries(cpart) = {} \/ cpart \in gone
        BY <2>3 DEF CompactSkipPart
      <3>3. ASSUME NEW p \in Partitions, p < cpart + 1, p \notin gone,
                   NEW r \in merged, PartOf(r.key) = p
            PROVE  Covers(binc[p], r)
        <4>1. p # cpart
          BY <3>2, <3>3 DEF Entries
        <4>2. p < cpart
          BY <3>1, <3>3, <4>1 DEF Partitions
        <4> QED
          BY <3>1, <3>3, <4>2
      <3> QED
        BY <3>1, <3>3
    <2>4. CASE CompactBlock
      <3>1. /\ cpc = "merge" /\ cpc' = "wait3" /\ cpart = PartCount
            /\ UNCHANGED <<merged, binc, gone>>
        BY <2>4 DEF CompactBlock, storageVars
      <3> QED
        BY <3>1, PartCountAssumption DEF Partitions
    <2>5. CASE CompactAlone \/ \E n \in DumpNumbers : CompactDelete(n)
      <3>1. /\ cpc \in {"wait3", "delete"} /\ cpc' = "delete"
            /\ UNCHANGED <<merged, binc, gone>>
        BY <2>5 DEF CompactAlone, CompactDelete, storageVars
      <3> QED
        BY <3>1
    <2>6. CASE CompactDeleted
      BY <2>6 DEF CompactDeleted, Partitions, storageVars
    <2>7. CASE CompactKeepPart
      <3>1. /\ cpc = "swap" /\ cpc' = "swap" /\ cpart' = cpart + 1
            /\ UNCHANGED <<binc, gone>> /\ cpart \in Partitions
        BY <2>7, PartCountAssumption DEF CompactKeepPart, storageVars, Partitions
      <3>2. cpart \in gone \/ binc[cpart] = {}
        BY <2>7 DEF CompactKeepPart
      <3> QED
        BY <3>1, <3>2 DEF Partitions
    <2>8. CASE CompactDropOld
      BY <2>8 DEF CompactDropOld
    <2>9. CASE CompactMoveNew
      BY <2>9 DEF CompactMoveNew, Partitions
    <2>10. CASE \/ CompactBegin \/ CompactScope \/ CompactOverrun
                \/ CompactUnblock \/ CompactFail
                \/ CompactEnd
                \/ \E n \in DumpNumbers : CompactRename(n) \/ CompactConflict(n)
      <3>1. cpc' \notin {"merge", "wait3", "delete", "swap", "move"}
        BY <2>10 DEF CompactBegin, CompactScope, CompactOverrun, CompactUnblock,
                     CompactFail, CompactEnd, CompactRename, CompactConflict
      <3> QED
        BY <3>1
    <2> QED
      BY <1>2, <2>1, <2>2, <2>3, <2>4, <2>5, <2>6, <2>7, <2>8, <2>9, <2>10
      DEF Compact
  <1> QED
    BY <1>1, <1>2, OthersSteps

LEMMA MissingStep ==
    ASSUME TypeOK, MissingInv, [Next]_vars, UNCHANGED torn
    PROVE  MissingInv'
  <1> USE DEF MissingInv, TypeOK
  <1>1. CASE UNCHANGED <<compactVars, binc, gone>>
    BY <1>1 DEF compactVars
  <1>2. CASE CompactDropOld
    BY <1>2 DEF CompactDropOld
  <1>3. CASE CompactMoveNew
    BY <1>3 DEF CompactMoveNew
  <1>4. CASE CompactMakePart
    <2>1. cpart \notin gone
      BY <1>4 DEF CompactMakePart
    <2> QED
      BY <1>4, <2>1, MadePart
  <1>5. ASSUME Compact
        PROVE  \/ cpc # "move" /\ cpc' # "move" /\ UNCHANGED <<gone, binc>>
               \/ CompactDropOld \/ CompactMoveNew \/ CompactMakePart
    BY <1>5
    DEF Compact, CompactBegin, CompactScope, CompactOverrun, CompactRename,
        CompactConflict, CompactUnblock, CompactLoad, CompactSkipPart, CompactFail,
        CompactBlock, CompactAlone, CompactDelete, CompactDeleted, CompactKeepPart,
        CompactEnd, storageVars
  <1> QED
    BY <1>1, <1>2, <1>3, <1>4, <1>5, OthersSteps

-----------------------------------------------------------------------------
(* The files keep what they hold of the partitions that are whole.         *)

LEMMA DiskTypes == ASSUME TypeOK, NEW r, OnDisk(r) PROVE r \in Record
  BY DEF OnDisk, TypeOK

LEMMA VisibleOnDisk == \A r : r \in Visible <=> r \in memtable \/ OnDisk(r)
  BY VisibleMembers DEF Shown, OnDisk

LEMMA DiskItself == ASSUME NEW r \in Record, OnDisk(r) PROVE DiskCovers(r)
  BY TimestampType DEF DiskCovers

(* The compaction: the only one that takes anything off the disk.          *)
LEMMA CompactDisk ==
    ASSUME TypeOK, FilesSearchable, MergedInv, ReplaceInv, BincLeft, MissingInv, Compact,
           NEW r \in Record, OnDisk(r), Whole(r)
    PROVE  DiskCovers(r)'
  <1> USE DEF TypeOK, Stage3
  <1>s. ASSUME OnDisk(r)' PROVE DiskCovers(r)'
    BY <1>s, TimestampType DEF DiskCovers
  <1>b. ASSUME NEW p \in Partitions, NEW S \in SUBSET Record, Covers(S, r),
               S \subseteq bin'[p] \/ (Stage3' /\ S \subseteq binc'[p])
        PROVE  DiskCovers(r)'
    BY <1>b DEF DiskCovers, OnDisk, Covers
  <1>1. ASSUME NEW n \in DumpNumbers, CompactRename(n) PROVE DiskCovers(r)'
    BY <1>1, <1>s DEF CompactRename, OnDisk
  <1>2. ASSUME NEW n \in DumpNumbers, CompactDelete(n) PROVE DiskCovers(r)'
    <2>1. /\ UNCHANGED <<tmp, bin, binc, cpc>> /\ cpc = "delete"
          /\ tmpc' = [tmpc EXCEPT ![n] = {}]
      BY <1>2 DEF CompactDelete
    <2>2. CASE r \in tmpc[n]
      <3>1. PICK q \in merged : q.key = r.key /\ q.ts >= r.ts
        BY <2>1, <2>2 DEF MergedInv, CoversAll, Covers
      <3>2. q \in Record /\ PartOf(q.key) \in Partitions
        BY PartOfType, TimestampType
      <3>3. PartOf(q.key) \notin gone
        BY <2>1, <3>1 DEF MissingInv, Whole
      <3>4. Covers(binc[PartOf(q.key)], q)
        BY <2>1, <3>2, <3>3 DEF BincLeft, PartDone
      <3>5. binc[PartOf(q.key)] \in SUBSET Record
        BY <3>2
      <3>6. Covers(binc[PartOf(q.key)], r)
        BY <3>1, <3>2, <3>4, <3>5, TimestampType DEF Covers
      <3> QED
        BY <2>1, <3>2, <3>5, <3>6, <1>b
    <2>3. CASE r \notin tmpc[n]
      BY <2>1, <2>3, <1>s DEF OnDisk
    <2> QED
      BY <2>2, <2>3
  <1>3. CASE CompactDropOld
    <2>1. /\ UNCHANGED <<tmp, tmpc, binc>> /\ cpc = "swap" /\ cpc' = "move"
          /\ bin' = [bin EXCEPT ![cpart] = {}]
          /\ cpart \in Partitions /\ binc[cpart] # {}
      BY <1>3, PartCountAssumption DEF CompactDropOld, Partitions
    <2>2. CASE r \in bin[cpart]
      <3>1. Covers(binc[cpart], r)
        BY <2>1, <2>2 DEF ReplaceInv, CoversAll
      <3> QED
        BY <2>1, <3>1, <1>b
    <2>3. CASE r \notin bin[cpart]
      BY <2>1, <2>3, <1>s DEF OnDisk
    <2> QED
      BY <2>2, <2>3
  <1>4. CASE CompactMoveNew
    <2>1. /\ UNCHANGED <<tmp, tmpc>> /\ cpc = "move" /\ cpc' = "swap"
          /\ bin' = [bin EXCEPT ![cpart] = binc[cpart]]
          /\ binc' = [binc EXCEPT ![cpart] = {}]
          /\ cpart \in Partitions /\ binc[cpart] # {}
      BY <1>4 DEF CompactMoveNew, MissingInv
    <2>2. CASE r \in bin[cpart]
      <3>1. Covers(binc[cpart], r)
        BY <2>1, <2>2 DEF ReplaceInv, CoversAll
      <3> QED
        BY <2>1, <3>1, <1>b
    <2>3. CASE r \notin bin[cpart]
      BY <2>1, <2>3, <1>s DEF OnDisk
    <2> QED
      BY <2>2, <2>3
  <1>5. CASE CompactEnd
    <2>1. /\ UNCHANGED <<tmp, tmpc, bin, binc>>
          /\ cpc = "swap" /\ cpc' = "idle" /\ cpart = PartCount
      BY <1>5 DEF CompactEnd, storageVars
    <2>2. ASSUME NEW p \in Partitions, r \in binc[p] PROVE FALSE
      <3>1. PartOf(r.key) = p
        BY <2>2 DEF FilesSearchable
      <3>2. p \in gone
        BY <2>1, <2>2, PartCountAssumption DEF BincLeft, Partitions
      <3> QED
        BY <2>1, <3>1, <3>2 DEF MissingInv, Whole
    <2> QED
      BY <2>1, <2>2, <1>s DEF OnDisk
  <1>6. CASE CompactMakePart
    BY <1>6, <1>s, MadePart DEF OnDisk
  <1>7. CASE \/ CompactBegin \/ CompactScope \/ CompactOverrun \/ CompactUnblock
             \/ CompactLoad
             \/ CompactSkipPart \/ CompactFail \/ CompactBlock \/ CompactAlone
             \/ CompactDeleted \/ CompactKeepPart
             \/ \E n \in DumpNumbers : CompactConflict(n)
    <2>1. UNCHANGED <<tmp, tmpc, bin, binc>> /\ (Stage3 => Stage3')
      BY <1>7
      DEF CompactBegin, CompactScope, CompactOverrun, CompactUnblock, CompactLoad,
          CompactSkipPart, CompactFail, CompactBlock, CompactAlone, CompactDeleted,
          CompactKeepPart, CompactConflict, storageVars
    <2> QED
      BY <2>1, <1>s DEF OnDisk
  <1> QED
    BY <1>1, <1>2, <1>3, <1>4, <1>5, <1>6, <1>7 DEF Compact

(* The others only add to the disk.                                        *)
LEMMA OthersDisk ==
    ASSUME TypeOK, [Next]_vars, ~Compact, NEW r \in Record, OnDisk(r)
    PROVE  OnDisk(r)'
  <1>1. UNCHANGED <<tmpc, bin, binc, cpc>>
    BY OthersSteps DEF compactVars
  <1>2. \A n \in DumpNumbers : tmp[n] \subseteq tmp'[n]
    <2>1. ASSUME NEW d \in Dumpers, DumpSave(d), NEW n \in DumpNumbers
          PROVE  tmp[n] \subseteq tmp'[n]
      BY <2>1 DEF DumpSave, IsNextDump, TypeOK, DumpNumbers
    <2>2. ~\E n \in DumpNumbers : CompactRename(n)
      BY DEF Compact
    <2> QED
      BY <2>1, <2>2, TmpSteps
  <1> QED
    BY <1>1, <1>2 DEF OnDisk, Stage3

LEMMA StepDisk ==
    ASSUME CrashInv, [Next]_vars, NEW r \in Record, DiskCovers(r), Whole(r)
    PROVE  DiskCovers(r)'
  <1>1. PICK q \in Record : OnDisk(q) /\ q.key = r.key /\ q.ts >= r.ts
    BY DEF DiskCovers
  <1>2. Whole(q)
    BY <1>1 DEF Whole
  <1>3. DiskCovers(q)'
    <2>1. CASE Compact
      BY <1>1, <1>2, <2>1, CompactDisk DEF CrashInv, SearchInv
    <2>2. CASE ~Compact
      <3>1. OnDisk(q)'
        BY <1>1, <2>2, OthersDisk DEF CrashInv
      <3> QED
        BY <3>1, TimestampType DEF DiskCovers
    <2> QED
      BY <2>1, <2>2
  <1> QED
    BY <1>1, <1>3, TimestampType DEF DiskCovers

-----------------------------------------------------------------------------
(* What was acknowledged, and what a dump has made durable.                *)

LEMMA VisibleKept ==
    ASSUME CrashInv, TypeOK', [Next]_vars, NEW r \in Visible, Whole(r)
    PROVE  Covers(Visible', r)
  <1>t. Visible \subseteq Record /\ Visible' \subseteq Record
    BY VisibleType DEF CrashInv
  <1>s. ASSUME r \in Visible' PROVE Covers(Visible', r)
    BY <1>s, <1>t, CoversItself
  <1>1. ASSUME NEW i \in Inserters, Insert(i) PROVE Covers(Visible', r)
    BY <1>1, <1>s, InsertKeeps DEF Insert, CrashInv
  <1>2. ASSUME NEW d \in Dumpers, Dump(d) PROVE Covers(Visible', r)
    BY <1>2, DumpKeeps DEF CrashInv, Keeps, CoversAll
  <1>3. ASSUME NEW s \in Selectors, Select(s) PROVE Covers(Visible', r)
    BY <1>3, <1>s, SelectKeeps
  <1>4. CASE Compact
    <2>1. memtable' = memtable
      BY <1>4
      DEF Compact, CompactBegin, CompactScope, CompactOverrun, CompactRename,
          CompactConflict, CompactUnblock, CompactLoad, CompactSkipPart,
          CompactMakePart, CompactFail, CompactBlock, CompactAlone, CompactDelete,
          CompactDeleted, CompactKeepPart, CompactDropOld, CompactMoveNew,
          CompactEnd, storageVars
    <2>2. CASE r \in memtable
      BY <2>1, <2>2, <1>s, VisibleMembers DEF Shown
    <2>3. CASE OnDisk(r)
      <3>1. DiskCovers(r)'
        BY <1>4, <2>3, <1>t, CompactDisk DEF CrashInv, SearchInv
      <3>2. \A q : OnDisk(q)' => q \in Visible'
        BY VisibleMembers DEF OnDisk, Shown
      <3> QED
        BY <3>1, <3>2 DEF DiskCovers, Covers
    <2> QED
      BY <2>2, <2>3, VisibleOnDisk
  <1>5. CASE UNCHANGED vars
    BY <1>5, <1>s, VisibleSame DEF vars, storageVars, compactVars, Stage3
  <1> QED
    BY <1>1, <1>2, <1>3, <1>4, <1>5 DEF Next, Overrun

LEMMA AckedKeptStep ==
    ASSUME CrashInv, TypeOK', [Next]_vars, UNCHANGED torn
    PROVE  AckedKept'
  <1>t. Visible \subseteq Record /\ Visible' \subseteq Record /\ acked \subseteq Record
    BY VisibleType DEF CrashInv, TypeOK
  <1>1. ASSUME NEW r \in acked, Whole(r) PROVE Covers(Visible', r)
    <2>1. PICK q \in Visible : q.key = r.key /\ q.ts >= r.ts
      BY <1>1 DEF CrashInv, AckedKept, Covers
    <2>2. Covers(Visible', q)
      BY <1>1, <2>1, VisibleKept DEF Whole
    <2> QED
      BY <2>1, <2>2, <1>t, TimestampType DEF Covers
  <1>2. CASE acked' = acked
    BY <1>1, <1>2 DEF AckedKept, Whole
  <1>3. ASSUME NEW i \in Inserters, InsertAdd(i) PROVE AckedKept'
    <2>1. acked' = acked \cup {pending[i]}
      BY <1>3 DEF InsertAdd
    <2>2. pending[i] \in Visible'
      BY <1>3, InsertKeeps DEF CrashInv
    <2>3. Covers(Visible', pending[i])
      BY <2>2, <1>t, CoversItself
    <2> QED
      BY <2>1, <2>3, <1>1 DEF AckedKept, Whole
  <1> QED
    BY <1>2, <1>3, AckedGrows

(* A dump that completes has its memtable in a D#.tmp, so that everything  *)
(* acknowledged so far is on disk.                                         *)
LEMMA DurableKeptStep ==
    ASSUME CrashInv, [Next]_vars, UNCHANGED torn,
           durable' = IF DumpCompletes THEN acked ELSE durable
    PROVE  DurableKept'
  <1>t. durable \subseteq Record /\ acked \subseteq Record /\ Visible \subseteq Record
    BY VisibleType DEF CrashInv, TypeOK
  <1>1. CASE durable' = durable
    <2>1. ASSUME NEW r \in durable, Whole(r) PROVE DiskCovers(r)'
      BY <2>1, <1>t, StepDisk DEF CrashInv, DurableKept
    <2> QED
      BY <1>1, <2>1 DEF DurableKept, Whole
  <1>2. CASE DumpCompletes
    <2>1. PICK d \in Dumpers : dpc[d] = "saved" /\ dpc'[d] = "idle"
      BY <1>2 DEF DumpCompletes
    <2>2. PICK n \in DumpNumbers : memtable \subseteq tmp[n]
      BY <2>1 DEF CrashInv, SavedInv
    <2>3. ASSUME NEW r \in acked, Whole(r) PROVE DiskCovers(r)'
      <3>1. PICK q \in Visible : q.key = r.key /\ q.ts >= r.ts
        BY <2>3 DEF CrashInv, AckedKept, Covers
      <3>2. OnDisk(q)
        BY <2>2, VisibleOnDisk DEF OnDisk
      <3>3. DiskCovers(r)
        BY <3>1, <3>2, <1>t DEF DiskCovers
      <3> QED
        BY <2>3, <3>3, <1>t, StepDisk
    <2> QED
      BY <1>2, <2>3 DEF DurableKept, Whole
  <1> QED
    BY <1>1, <1>2

LEMMA WorkStep == CrashInv /\ Work => CrashInv'
  <1> SUFFICES ASSUME CrashInv, Work PROVE CrashInv'
    OBVIOUS
  <1>0. /\ TypeOK /\ LockInv /\ SearchInv /\ SavedInv /\ ScopeInv /\ MergedInv
        /\ ReplaceInv /\ BincLeft /\ MissingInv
    BY DEF CrashInv
  <1>1. /\ [Next]_vars /\ UNCHANGED torn
        /\ durable' = IF DumpCompletes THEN acked ELSE durable
    BY DEF Work
  <1>2. TypeOK' /\ LockInv'
    BY <1>0, <1>1, StepType, StepLock
  <1>3. SearchInv'
    BY <1>0, <1>1, SortedStep, SearchableStep DEF SearchInv
  <1>4. SavedInv' /\ ScopeInv' /\ MergedInv' /\ ReplaceInv'
    BY <1>0, <1>1, <1>2, SavedStep, ScopeStep, MergedStep, ReplaceStep
  <1>5. BincLeft' /\ MissingInv'
    BY <1>0, <1>1, LeftStep, MissingStep
  <1>6. AckedKept' /\ DurableKept'
    BY <1>1, <1>2, AckedKeptStep, DurableKeptStep
  <1>7. durable' \subseteq Record
    BY <1>1 DEF CrashInv, TypeOK
  <1> QED
    BY <1>2, <1>3, <1>4, <1>5, <1>6, <1>7 DEF CrashInv

-----------------------------------------------------------------------------
(* The crash: the files are what they were, and what only the P#.binc of   *)
(* an interrupted replacement held is in a torn partition.                 *)

LEMMA CrashStep == CrashInv /\ Crash => CrashInv'
  <1> SUFFICES ASSUME CrashInv, Crash PROVE CrashInv'
    OBVIOUS
  <1> USE DEF Crash
  <1>1. TypeOK'
    <2>1. cpart' \in 0 .. PartCount
      BY PartCountAssumption
    <2> QED
      BY <2>1 DEF CrashInv, TypeOK, CompactPc
  <1>2. LockInv'
    BY Distinct
    DEF LockInv, UsersExact, OwnerExact, BlockedExact, StagesExclusive, Exclusive,
        Searching, BlockingPc
  <1>3. SearchInv'
    BY DEF CrashInv, SearchInv, SortedInv, FilesSearchable, OnePerKey
  <1>4. SavedInv' /\ ScopeInv' /\ MergedInv' /\ BincLeft'
    BY DEF SavedInv, ScopeInv, MergedInv, BincLeft
  <1>5. ReplaceInv'
    BY DEF CrashInv, ReplaceInv, CoversAll, Covers
  <1>6. torn \subseteq torn' /\ (Stage3 => \A p \in Partitions : binc[p] # {} => p \in torn')
    BY DEF Stage3
  <1>7. MissingInv'
    <2>1. gone \subseteq Partitions
      BY DEF CrashInv, TypeOK
    <2> QED
      BY <1>6, <2>1 DEF CrashInv, MissingInv, Stage3
  <1>8. ASSUME NEW r \in durable, Whole(r)' PROVE DiskCovers(r)' /\ Covers(Visible', r)
    <2>1. Whole(r)
      BY <1>6, <1>8 DEF Whole
    <2>2. PICK q \in Record : OnDisk(q) /\ q.key = r.key /\ q.ts >= r.ts
      BY <1>8, <2>1 DEF CrashInv, DurableKept, DiskCovers
    <2>3. ASSUME Stage3, NEW p \in Partitions, q \in binc[p] PROVE FALSE
      <3>1. PartOf(q.key) = p
        BY <2>3 DEF CrashInv, SearchInv, FilesSearchable
      <3> QED
        BY <1>6, <1>8, <2>2, <2>3, <3>1 DEF Whole
    <2>4. OnDisk(q)'
      BY <2>2, <2>3 DEF OnDisk
    <2>5. q \in Visible'
      BY <2>4, VisibleMembers DEF OnDisk, Shown
    <2> QED
      BY <2>2, <2>4, <2>5 DEF DiskCovers, Covers
  <1>9. AckedKept' /\ DurableKept'
    BY <1>8 DEF AckedKept, DurableKept
  <1>10. durable' \subseteq Record
    BY DEF CrashInv
  <1> QED
    BY <1>1, <1>2, <1>3, <1>4, <1>5, <1>7, <1>9, <1>10 DEF CrashInv

LEMMA CrashStutter == CrashInv /\ UNCHANGED <<vars, crashVars>> => CrashInv'
  <1> SUFFICES ASSUME CrashInv, UNCHANGED <<vars, crashVars>> PROVE CrashInv'
    OBVIOUS
  <1>0. /\ TypeOK /\ LockInv /\ SearchInv /\ SavedInv /\ ScopeInv /\ MergedInv
        /\ ReplaceInv /\ BincLeft /\ MissingInv
    BY DEF CrashInv
  <1>1. [Next]_vars /\ UNCHANGED <<torn, durable>>
    BY DEF crashVars
  <1>2. TypeOK' /\ LockInv'
    BY <1>0, <1>1, StepType, StepLock
  <1>3. SearchInv' /\ SavedInv' /\ ScopeInv' /\ MergedInv' /\ ReplaceInv'
    BY <1>0, <1>1, <1>2, SortedStep, SearchableStep, SavedStep, ScopeStep, MergedStep,
       ReplaceStep
    DEF SearchInv
  <1>4. BincLeft' /\ MissingInv' /\ AckedKept'
    BY <1>0, <1>1, <1>2, LeftStep, MissingStep, AckedKeptStep
  <1>5. DurableKept'
    <2>1. ~DumpCompletes
      BY DEF DumpCompletes, vars, taskVars
    <2> QED
      BY <1>1, <2>1, DurableKeptStep
  <1> QED
    BY <1>1, <1>2, <1>3, <1>4, <1>5 DEF CrashInv

LEMMA CrashInductive == CrashSpec => []CrashInv
  BY InitCrash, WorkStep, CrashStep, CrashStutter, PTL DEF CrashSpec, CrashNext

(* Whatever the process was doing each time it died, a record that was     *)
(* acknowledged before a dump completed is still there, or a newer one of  *)
(* its key, unless a crash caught its partition in stage 3.                *)
THEOREM DurableSurvivesCorrect == CrashSpec => []DurableSurvives
  <1>1. CrashInv => DurableSurvives
    BY VisibleOnDisk
    DEF CrashInv, DurableKept, DurableSurvives, DiskCovers, Whole, Covers
  <1> QED
    BY <1>1, CrashInductive, PTL

(* No partition is ever without both its P#.bin and its P#.binc, and only  *)
(* a crash leaves one without its P#.bin.                                  *)
THEOREM MissingPartRecoverableCorrect == CrashSpec => []MissingPartRecoverable
  <1>1. CrashInv => MissingPartRecoverable
    BY DEF CrashInv, MissingInv, MissingPartRecoverable
  <1> QED
    BY <1>1, CrashInductive, PTL

(* A compaction writes behind its array of dump numbers only if one before *)
(* it has failed, or was interrupted by a crash, and left a D#.tmpc.       *)
THEOREM OverrunNeedsLeftover ==
    /\ Spec => []OverrunInv
    /\ CrashSpec => []OverrunInv
  <1>1. Init => OverrunInv
    BY DEF Init, OverrunInv
  <1>2. TypeOK /\ OverrunInv /\ [Next]_vars => OverrunInv'
    BY OverrunStep
  <1>3. Spec => []OverrunInv
    BY <1>1, <1>2, TypeCorrect, PTL DEF Spec
  <1>4. CrashInit => OverrunInv
    BY <1>1 DEF CrashInit
  <1>5. CrashInv /\ OverrunInv /\ [CrashNext]_<<vars, crashVars>> => OverrunInv'
    <2>1. CASE Crash
      BY <2>1 DEF Crash, OverrunInv
    <2>2. CASE Work \/ UNCHANGED <<vars, crashVars>>
      BY <1>2, <2>2 DEF Work, CrashInv
    <2> QED
      BY <2>1, <2>2 DEF CrashNext
  <1>6. CrashSpec => []OverrunInv
    BY <1>4, <1>5, CrashInductive, PTL DEF CrashSpec
  <1> QED
    BY <1>3, <1>6

(* A compaction that comes to the end of stage 3 has taken up whatever the *)
(* compactions before it left on disk, those that a crash interrupted      *)
(* included.                                                               *)
THEOREM CompactionClearsCorrect == CrashSpec => []CompactionClears
  <1>1. CrashInv => CompactionClears
    BY PartCountAssumption
    DEF CrashInv, ScopeInv, BincLeft, CompactionClears, Partitions
  <1> QED
    BY <1>1, CrashInductive, PTL

(* What a table promises without crashes it promises with them: the        *)
(* compaction has the table for itself when it touches its files, and the  *)
(* files it leaves behind, half done or not, can be searched by bisection. *)
THEOREM CrashedTableUsable == CrashSpec => [](StagesExclusive /\ FilesSearchable)
  BY CrashInductive, PTL DEF CrashInv, LockInv, SearchInv
=============================================================================
