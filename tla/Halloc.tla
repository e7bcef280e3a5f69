------------------------------- MODULE Halloc -------------------------------
(***************************************************************************)
(* The handle allocator, cx/src/halloc.c, as operators on its value `a`:   *)
(* `i2h` is indexToHandle, its first `num` entries are the handles in use; *)
(* `h2i` is handleToIndex, `key` is handleToKey and `byKey` the dictionary *)
(* keyToHandle.  Nothing in it checks that a handle that is freed is in    *)
(* use: that is left to the callers.                                       *)
(***************************************************************************)
EXTENDS Integers, Functions

CONSTANT MaxHandles  \* maxHandles

ASSUME MaxHandlesAssumption == MaxHandles \in Nat \ {0} /\ MaxHandles < 65535

Handle == 0 .. MaxHandles - 1
NoKey == -2147483647 - 1  \* INT32_MIN

(* tempKey: the four bytes of the key, lowest first, as a C string, which  *)
(* the first byte that is 0 ends.                                          *)
Byte(k, i) == (k \div 256^i) % 256
KeyString(k) ==
    LET bytes == [i \in 1..4 |-> Byte(k, i - 1)]
        end == {i \in 1..4 : bytes[i] = 0}
    IN  [i \in {j \in 1..4 : \A e \in end : j < e} |-> bytes[i]]

(* cx_halloc_reset fills handleToKey with ones.                            *)
FreshTable ==
    [num |-> 0, i2h |-> [i \in Handle |-> i], h2i |-> [h \in Handle |-> 0],
     key |-> [h \in Handle |-> -1], byKey |-> [s \in {} |-> 0]]

IsFull(a) == a.num >= MaxHandles

(* cx_handle_alloc: the handle it returns, and the table it leaves.        *)
NextOf(a) == a.i2h[a.num]
Alloc(a) == [a EXCEPT !.num = @ + 1, !.h2i[NextOf(a)] = a.num]

ContainsKey(a, k) == KeyString(k) \in DOMAIN a.byKey

(* cx_handle_alloc_key, where the table is not full and has no such key.   *)
AllocKey(a, k) ==
    [Alloc(a) EXCEPT !.key[NextOf(a)] = k,
                     !.byKey = [s \in DOMAIN @ \cup {KeyString(k)} |->
                                  IF s = KeyString(k) THEN NextOf(a) ELSE @[s]]]

(* Mutant: the last handle in use does not fill the gap.                   *)
FreeNoSwap(a, h) ==
    [a EXCEPT !.num = @ - 1, !.key[h] = NoKey,
              !.byKey = IF a.key[h] = NoKey THEN @
                        ELSE Restrict(@, DOMAIN @ \ {KeyString(a.key[h])})]

(* cx_handle_free: the last handle in use fills the gap.                   *)
Free(a, h) ==
    LET n == a.num - 1
        last == a.i2h[n]
    IN  [num |-> n,
         i2h |-> [a.i2h EXCEPT ![a.h2i[h]] = last, ![n] = h],
         h2i |-> [a.h2i EXCEPT ![last] = a.h2i[h]],
         key |-> [a.key EXCEPT ![h] = NoKey],
         byKey |-> IF a.key[h] = NoKey THEN a.byKey
                   ELSE Restrict(a.byKey,
                                 DOMAIN a.byKey \ {KeyString(a.key[h])})]

(* cx_handle_is_valid, and the handles it holds for.                       *)
IsValid(a, h) == a.h2i[h] < a.num /\ a.i2h[a.h2i[h]] = h
ValidHandles(a) == {h \in Handle : IsValid(a, h)}

(* cx_handle_get                                                           *)
HandleGet(a, k) == a.byKey[KeyString(k)]

(* What alloc and free rely on: indexToHandle has every handle once, and   *)
(* handleToIndex says where those in use are.                              *)
WellFormed(a) ==
    /\ a.num \in 0..MaxHandles
    /\ a.i2h \in [Handle -> Handle] /\ a.h2i \in [Handle -> Handle]
    /\ \A i, j \in Handle : a.i2h[i] = a.i2h[j] => i = j
    /\ \A i \in Handle : i < a.num => a.h2i[a.i2h[i]] = i
=============================================================================
