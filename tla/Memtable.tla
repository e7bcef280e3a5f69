------------------------------ MODULE Memtable ------------------------------
(***************************************************************************)
(* The array of records inside a memtable_t (lfs/src/memtable.c), and the  *)
(* sort, the removal of duplicates and the bisection of cx/src/sort.c that *)
(* work on it.  LsmStore takes a memtable for a set of records; this       *)
(* module is about what the memory does.                                   *)
(*                                                                         *)
(* One memtable of type MEM, whose operations its mutex makes atomic, and  *)
(* the records of a file just written from it, which a search reads back   *)
(* into a memtable of type DISK.  Positions count from 0, as in C.         *)
(***************************************************************************)
EXTENDS Integers, FiniteSetsExt, Sequences, Functions

CONSTANTS Keys,         \* keys
          Parts,        \* partitionsCount of the table
          Timestamps,   \* timestamps, none of them 0
          Modulus,      \* 2^64: how many timestamps there are
          Capacity,     \* MEMTABLE_INITIAL_CAPACITY
          MaxAdds       \* bound: records added

ASSUME KeysAssumption == Keys \subseteq Nat /\ Keys # {}
ASSUME PartsAssumption == Parts \in Nat \ {0}
ASSUME TimestampsAssumption ==
    Modulus \in Nat \ {0} /\ Timestamps \subseteq 1 .. (Modulus - 1)
ASSUME CapacityAssumption == Capacity \in Nat \ {0}
ASSUME MaxAddsAssumption == MaxAdds \in Nat

VARIABLES
    cells,      \* records: the whole of the allocated array
    count,      \* recordsCount
    sorted,     \* recordsSorted
    heap,       \* the values that are allocated
    adds,       \* records added so far
    file,       \* the records of a dump just written, in their order
    search      \* what memtable_find was last asked, and answers

memtableVars == <<cells, count, sorted, heap, adds, file, search>>

(* A value is the number of the INSERT that gave it; 0 is NULL.            *)
Null == 0
Zeroed == [key |-> 0, ts |-> 0, value |-> Null]

(* What may be in memory nobody has written to; -1 points to no value.     *)
Garbage == [key : Keys, ts : {0}, value : {-1}]

NoRecord == [key |-> -1, ts |-> 0, value |-> Null]
NoSearch == [key |-> -1, in |-> "none", hit |-> NoRecord]

MemtableInit ==
    /\ cells = [i \in 0 .. Capacity - 1 |-> Zeroed]
    /\ count = 0
    /\ sorted = FALSE
    /\ heap = {}
    /\ adds = 0
    /\ file = <<>>
    /\ search = NoSearch

Records == {cells[i] : i \in 0 .. count - 1}

-----------------------------------------------------------------------------
(* The comparators: by partition and key, and then the newest first.       *)
PartOf(k) == k % Parts

Basic(a, b) ==
    CASE a.key = b.key -> 0
      [] PartOf(a.key) < PartOf(b.key) -> -1
      [] PartOf(a.key) = PartOf(b.key) /\ a.key < b.key -> -1
      [] OTHER -> 1

(* The difference of two uint64_t, kept in an int64_t.                     *)
Difference(a, b) ==
    LET d == (a - b) % Modulus IN IF 2 * d < Modulus THEN d ELSE d - Modulus

(* Mutant of Full: the timestamps are left out.                            *)
FullByKey(a, b) == Basic(a, b)

Full(a, b) == IF a.key = b.key THEN Difference(b.ts, a.ts) ELSE Basic(a, b)

-----------------------------------------------------------------------------
(* cx_sort_quick.  The two scans of _cx_sort from i and from j stop at     *)
(* whatever is not on its side of the pivot, or at the end.                *)
Swapped(d, i, j) == [d EXCEPT ![i] = d[j], ![j] = d[i]]

ScanUp(d, i, hi, pivot) ==
    Min({m \in i + 1 .. hi : m = hi \/ Full(d[m], pivot) >= 0})
ScanDown(d, j, lo, pivot) ==
    Max({m \in lo .. j - 1 : m = lo \/ Full(d[m], pivot) <= 0})

(* One pass of its loop, and all of them: there are no more passes than    *)
(* there are records.                                                      *)
Pass(b, lo, hi, pivot) ==
    LET m == ScanUp(b.d, b.i, hi, pivot)
        n == ScanDown(b.d, b.j, lo, pivot)
    IN [d |-> IF m < n THEN Swapped(b.d, m, n) ELSE b.d, i |-> m, j |-> n]

Partition(d, lo, hi) ==
    LET pass[n \in 0 .. hi - lo + 1] ==
          IF n = 0 THEN [d |-> d, i |-> lo - 1, j |-> hi + 1]
          ELSE LET b == pass[n - 1]
               IN IF b.i < b.j THEN Pass(b, lo, hi, d[lo]) ELSE b
    IN pass[hi - lo + 1]

(* _cx_sort of d[lo .. hi], given what it makes of shorter ranges.         *)
SortRange(r, shorter) ==
    LET p == Partition(r.d, r.lo, r.hi)
        left == IF p.j > r.lo
                THEN shorter[[d |-> Swapped(p.d, r.lo, p.j), lo |-> r.lo, hi |-> p.j]]
                ELSE p.d
    IN IF r.hi - p.j > 1 THEN shorter[[d |-> left, lo |-> p.j + 1, hi |-> r.hi]]
       ELSE left

Sorted(d, num) ==
    LET Ranges == {r \in [d : [DOMAIN d -> Range(d)], lo : DOMAIN d, hi : DOMAIN d] :
                      r.lo <= r.hi}
        sort[n \in 0 .. num] ==
          [r \in Ranges |-> IF n = 0 THEN r.d ELSE SortRange(r, sort[n - 1])]
    IN IF num = 0 THEN d ELSE sort[num][[d |-> d, lo |-> 0, hi |-> num - 1]]

(* cx_sort_uniquify with _memtable_record_destroyer.  The records kept are *)
(* copied down; what is left behind them stays where it is.                *)
Keep(u, i) == [u EXCEPT !.last = @ + 1, !.d[u.last + 1] = u.d[i]]

(* Mutant of Drop: the value is not freed.                                 *)
DropOnly(u, i) == [u EXCEPT !.d[i].value = Null]

Drop(u, i) == [u EXCEPT !.heap = @ \ {u.d[i].value}, !.d[i].value = Null]

Uniquified(d, num, values) ==
    LET u[i \in 0 .. num - 1] ==
          IF i = 0 THEN [d |-> d, last |-> 0, heap |-> values]
          ELSE LET before == u[i - 1]
               IN IF Basic(before.d[i], before.d[before.last]) # 0
                  THEN Keep(before, i) ELSE Drop(before, i)
    IN u[num - 1]

(* cx_sort_find: the position of key k, or where it should be placed, as   *)
(* -1 for position 0, -2 for position 1 and so on.  The bisection begins   *)
(* with right = _num, the position behind the last record, and ends after  *)
(* no more steps than there are positions.                                 *)
Halve(d, k, b) ==
    LET mid == (b.left + b.right) \div 2
        result == Basic(d[mid], [key |-> k])
    IN CASE result < 0 -> [b EXCEPT !.left = mid + 1]
         [] result > 0 -> [b EXCEPT !.right = mid - 1]
         [] OTHER -> [b EXCEPT !.found = mid]

BinaryFind(d, num, k) ==
    LET bisect[n \in 0 .. num + 1] ==
          IF n = 0 THEN [left |-> 0, right |-> num, found |-> -1]
          ELSE LET b == bisect[n - 1]
               IN IF b.left <= b.right /\ b.found < 0 THEN Halve(d, k, b) ELSE b
        end == bisect[num + 1]
    IN IF num = 0 THEN -1
       ELSE IF end.found >= 0 THEN end.found ELSE - end.left - 1

-----------------------------------------------------------------------------
(* What the array may be with room for one more: one that is full is       *)
(* reallocated with twice its capacity, whatever is in the new half.       *)
Size == Cardinality(DOMAIN cells)
Room ==
    IF count < Size THEN {cells}
    ELSE {[i \in 0 .. 2 * Size - 1 |-> IF i < Size THEN cells[i] ELSE g] :
             g \in Garbage}

(* Mutant of Add: recordsSorted stays as it is.                            *)
AddSorted(k, t) ==
    /\ adds < MaxAdds
    /\ \E d \in Room :
          cells' = [d EXCEPT ![count] = [key |-> k, ts |-> t, value |-> adds + 1]]
    /\ count' = count + 1
    /\ heap' = heap \cup {adds + 1}
    /\ adds' = adds + 1
    /\ search' = NoSearch
    /\ file' = <<>>
    /\ UNCHANGED sorted

(* memtable_add of the record of an INSERT, which is copied.  Bound: the   *)
(* file of an earlier dump is not searched any more.                       *)
Add(k, t) ==
    /\ adds < MaxAdds
    /\ \E d \in Room :
          cells' = [d EXCEPT ![count] = [key |-> k, ts |-> t, value |-> adds + 1]]
    /\ count' = count + 1
    /\ sorted' = FALSE
    /\ heap' = heap \cup {adds + 1}
    /\ adds' = adds + 1
    /\ search' = NoSearch
    /\ file' = <<>>

(* memtable_preprocess                                                     *)
Preprocessed == Uniquified(Sorted(cells, count), count, heap)

(* memtable_make_dump: the file cannot be saved, and the records stay.     *)
DumpFails ==
    /\ count > 0
    /\ LET u == Preprocessed
       IN cells' = u.d /\ count' = u.last + 1 /\ heap' = u.heap
    /\ sorted' = TRUE
    /\ search' = NoSearch
    /\ UNCHANGED <<adds, file>>

(* memtable_make_dump, with memtable_clear: the values are freed, and the  *)
(* records stay in the array.                                              *)
Dump ==
    /\ count > 0
    /\ LET u == Preprocessed
           kept == 0 .. u.last
       IN /\ file' = [i \in 1 .. u.last + 1 |-> u.d[i - 1]]
          /\ cells' = [i \in DOMAIN u.d |->
                          IF i \in kept THEN [u.d[i] EXCEPT !.value = Null]
                          ELSE u.d[i]]
          /\ heap' = u.heap \ {u.d[i].value : i \in kept}
    /\ count' = 0
    /\ sorted' = TRUE
    /\ search' = NoSearch
    /\ UNCHANGED adds

(* The linear search: the first of the records with the highest timestamp. *)
LinearFind(k) ==
    LET found == {i \in 0 .. count - 1 : cells[i].key = k}
    IN IF found = {} THEN -1
       ELSE Min({i \in found : \A j \in found : cells[j].ts <= cells[i].ts})

Hit(d, pos) == IF pos >= 0 THEN d[pos] ELSE NoRecord

(* memtable_find, of the memtable.  Bound: one search between two changes. *)
Find(k) ==
    /\ search = NoSearch
    /\ \E g \in Garbage :
          LET d == [i \in 0 .. Size |-> IF i < Size THEN cells[i] ELSE g]
              pos == IF sorted THEN BinaryFind(d, count, k) ELSE LinearFind(k)
          IN search' = [key |-> k, in |-> "memtable", hit |-> Hit(d, pos)]
    /\ UNCHANGED <<cells, count, sorted, heap, adds, file>>

(* memtable_init_from_dump and memtable_find.  The array that was          *)
(* allocated is zeroed, what it was enlarged by is not.                    *)
FindInFile(k) ==
    /\ search = NoSearch /\ file # <<>>
    /\ \E g \in Garbage :
          LET d == [i \in 0 .. Len(file) |->
                       IF i < Len(file) THEN file[i + 1]
                       ELSE IF i < Capacity THEN Zeroed ELSE g]
          IN search' = [key |-> k, in |-> "file",
                        hit |-> Hit(d, BinaryFind(d, Len(file), k))]
    /\ UNCHANGED <<cells, count, sorted, heap, adds, file>>

MemtableNext ==
    \/ \E k \in Keys, t \in Timestamps : Add(k, t)
    \/ DumpFails \/ Dump
    \/ \E k \in Keys : Find(k) \/ FindInFile(k)

MemtableSpec == MemtableInit /\ [][MemtableNext]_memtableVars

-----------------------------------------------------------------------------
(* Each record has a value of its own that is allocated, and no other      *)
(* value is: however records are copied over each other when duplicates    *)
(* are removed (sort.c:175-193), none is freed twice or lost.              *)
ValuesExact ==
    /\ heap = {r.value : r \in Records}
    /\ Cardinality(heap) = count

(* The timestamps a difference of int64_t can tell apart.                  *)
Near(S) == \A q, r \in S : 2 * (q.ts - r.ts) < Modulus

Newest(S, r) == r \in S /\ \A q \in S : q.key = r.key => q.ts <= r.ts
Ascending(f) == \A i \in 2 .. Len(f) : Basic(f[i - 1], f[i]) < 0

(* What LsmStore takes for granted (its Preprocessed): of the records in   *)
(* the memtable the newest of each key, and nothing else; in the order in  *)
(* which the merge cuts them into partitions (lfs_worker.c:256) and a      *)
(* search bisects them.                                                    *)
Wrote(S, f) ==
    /\ Ascending(f)
    /\ \A i \in DOMAIN f : Newest(S, f[i])
    /\ \A r \in S : \E i \in DOMAIN f : f[i].key = r.key

Dumps == count > 0 /\ count' = 0

(* memtable.c:188: a dump keeps the newest record of each key, the "right  *)
(* value" (:352), sorted.  Of two timestamps half of their range or more   *)
(* apart the older one is taken for the newer.                             *)
DumpExact == [][Dumps /\ Near(Records) => Wrote(Records, file')]_memtableVars

(* A search answers the newest record of its key, and none if there is     *)
(* none.                                                                   *)
Searched == IF search.in = "file" THEN Range(file) ELSE Records
HasKey(k, S) == \E r \in S : r.key = k

RightHit ==
    IF HasKey(search.key, Searched)
    THEN search.hit.key = search.key /\ Newest(Searched, search.hit)
    ELSE search.hit = NoRecord

(* memtable.c:263, sort.c:56: unless a bisection is asked for a key behind *)
(* all others and reads what follows the records, which in a file of fewer *)
(* records than the array has room for at first is zeroed.                 *)
BehindAll(k, S) == S # {} /\ \A r \in S : Basic(r, [key |-> k]) < 0

ReadsBehind ==
    /\ BehindAll(search.key, Searched)
    /\ IF search.in = "file" THEN Len(file) >= Capacity ELSE sorted

FindExact == search.in # "none" => RightHit \/ ReadsBehind
=============================================================================
