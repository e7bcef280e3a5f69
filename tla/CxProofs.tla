------------------------------ MODULE CxProofs ------------------------------
(***************************************************************************)
(* What cx promises to those who build on it, for every value of the       *)
(* constants.  First the lock of reslock.c, for any number of users: its   *)
(* counter is exact, its blocker is alone, and it implements AvailGuard.   *)
(* Then the sort, the removal of duplicates and the bisection of sort.c,   *)
(* for arrays of any length, and with them the memtable: no value is lost  *)
(* or freed twice, and dumps and searches give the newest records.         *)
(***************************************************************************)
EXTENDS Reslock, Memtable, FiniteSetTheorems, WellFoundedInduction, TLAPS

(* The blocker's place says whether the lock is blocked.                   *)
BlockedPc == {"blocked", "test", "asleep", "woken", "alone", "unblock"}

BlockedExact == blocked <=> pc[Blocker] \in BlockedPc

UserPc == {"idle", "begin", "inside", "end"}

BlockerPc == BlockedPc \cup {"idle", "block"}

(* Users and blocker keep to their own functions.                          *)
Roles == pc[Blocker] \in BlockerPc /\ \A u \in Users : pc[u] \in UserPc

(* The inductive invariant.                                                *)
IInv ==
    /\ TypeOK
    /\ MutexHeld
    /\ Roles
    /\ CounterExact
    /\ BlockedExact
    /\ BlockerAlone

-----------------------------------------------------------------------------
(* The counter cannot reach its limit: there are too few users.            *)
LEMMA InsideCounted ==
    /\ IsFiniteSet(Inside)
    /\ Cardinality(Inside) \in Nat
    /\ Cardinality(Inside) < CounterLimit
  <1>1. Inside \subseteq Users
    BY DEF Inside
  <1>2. IsFiniteSet(Inside) /\ Cardinality(Inside) <= Cardinality(Users)
    BY <1>1, FS_Subset, UsersAssumption
  <1>3. Cardinality(Inside) \in Nat /\ Cardinality(Users) \in Nat
    BY <1>2, FS_CardinalityType, UsersAssumption
  <1> QED
    BY <1>2, <1>3, LimitAssumption

(* Adding one and taking one off do not wrap below the limit.              *)
LEMMA NoWrap ==
    ASSUME NEW n \in Nat, NEW L \in Nat
    PROVE  /\ n + 1 < L => (n + 1) % L = n + 1
           /\ 0 < n /\ n < L => (n + L - 1) % L = n - 1
  <1>1. ASSUME n + 1 < L PROVE (n + 1) % L = n + 1
    BY <1>1
  <1>2. ASSUME 0 < n, n < L PROVE (n + L - 1) % L = n - 1
    <2>1. n + L - 1 = (n - 1) + 1 * L /\ n - 1 \in 0 .. L - 1
      BY <1>2
    <2> QED
      BY <2>1, <1>2
  <1> QED
    BY <1>1, <1>2

-----------------------------------------------------------------------------
LEMMA InitIInv == Init => IInv
  <1> SUFFICES ASSUME Init PROVE IInv
    OBVIOUS
  <1>1. pc[Blocker] \in {"idle", "alone"} /\ \A u \in Users : pc[u] = "idle"
    BY UsersAssumption DEF Init, Threads
  <1>2. Inside = {}
    BY <1>1 DEF Inside
  <1>3. TypeOK
    BY LimitAssumption, FS_CardinalityType, UsersAssumption DEF TypeOK, Init
  <1>4. MutexHeld
    BY <1>1, NoneAssumption DEF MutexHeld, Init, Threads, Locking
  <1>5. CounterExact
    BY <1>2, FS_EmptySet DEF CounterExact, Init
  <1>6. BlockedExact /\ Roles
    BY <1>1 DEF BlockedExact, BlockedPc, Roles, BlockerPc, UserPc, Init, Threads
  <1>7. BlockerAlone
    BY <1>2, <1>6 DEF BlockerAlone, BlockedExact, BlockedPc
  <1> QED
    BY <1>3, <1>4, <1>5, <1>6, <1>7 DEF IInv

(* Everything but the counter is preserved by taking the mutex ...         *)
LEMMA LockIInv ==
    ASSUME IInv, NEW t \in Threads, NEW from, NEW to \in Locking,
           Lock(t, from, to), from \notin Locking,
           t = Blocker => /\ to \in BlockerPc
                          /\ from \in BlockedPc <=> to \in BlockedPc
                          /\ to = "unblock" <=> from = "alone",
           t \in Users => /\ to \in {"begin", "end"}
                          /\ from = "inside" <=> to = "end"
    PROVE  IInv'
  <1>a. \A u \in Users : pc'[u] \in {"inside", "end"} <=> pc[u] \in {"inside", "end"}
    BY UsersAssumption DEF IInv, Lock, TypeOK, Threads, Locking
  <1>1. Inside' = Inside
    BY <1>a DEF Inside
  <1>2. TypeOK'
    BY DEF IInv, TypeOK, Lock, Locking
  <1>3. MutexHeld'
    BY NoneAssumption DEF IInv, TypeOK, MutexHeld, Lock, Threads
  <1>4. CounterExact'
    BY <1>1 DEF IInv, CounterExact, Lock
  <1>5. BlockedExact' /\ Roles'
    BY UsersAssumption DEF IInv, TypeOK, BlockedExact, Roles, UserPc, Lock, Threads
  <1>6. BlockerAlone'
    BY <1>1, UsersAssumption DEF IInv, TypeOK, BlockerAlone, BlockedExact, Lock, Threads, Locking
  <1> QED
    BY <1>2, <1>3, <1>4, <1>5, <1>6 DEF IInv

(* ... and, when who is inside does not change, by giving it back.         *)
LEMMA UnlockIInv ==
    ASSUME IInv, NEW t \in Threads, NEW from \in Locking, NEW to, to \notin Locking,
           Unlock(t, from, to), UNCHANGED counter,
           blocked' \in BOOLEAN,
           t = Blocker => /\ to \in BlockerPc
                          /\ blocked' <=> to \in BlockedPc
                          /\ to = "alone" => counter = 0 /\ blocked',
           t \in Users => /\ from = "begin" /\ to = "idle"
                          /\ UNCHANGED blocked
    PROVE  IInv'
  <1>a. \A u \in Users : pc'[u] \in {"inside", "end"} <=> pc[u] \in {"inside", "end"}
    BY UsersAssumption DEF IInv, Unlock, TypeOK, Threads, Locking, Roles, BlockerPc,
                           BlockedPc
  <1>1. Inside' = Inside
    BY <1>a DEF Inside
  <1>2. TypeOK'
    BY DEF IInv, TypeOK, Unlock, Threads, BlockerPc, BlockedPc
  <1>3. MutexHeld'
    BY NoneAssumption DEF IInv, TypeOK, MutexHeld, Unlock, Threads
  <1>4. CounterExact'
    BY <1>1 DEF IInv, CounterExact
  <1>5. BlockedExact' /\ Roles'
    BY UsersAssumption
    DEF IInv, TypeOK, BlockedExact, Roles, UserPc, Unlock, Threads
  <1>6. counter = 0 => Inside = {}
    BY InsideCounted, FS_EmptySet DEF IInv, CounterExact
  <1>7. BlockerAlone'
    BY <1>1, <1>6, UsersAssumption
    DEF IInv, TypeOK, BlockerAlone, BlockedExact, Unlock, Threads, Locking
  <1> QED
    BY <1>2, <1>3, <1>4, <1>5, <1>7 DEF IInv

LEMMA EnterIInv ==
    ASSUME IInv, NEW u \in Users, BeginEntered(u)
    PROVE  IInv'
  <1>1. u \notin Inside /\ Inside' = Inside \cup {u}
    BY UsersAssumption DEF IInv, BeginEntered, Unlock, TypeOK, Threads, Inside
  <1>2. Cardinality(Inside') = Cardinality(Inside) + 1
    BY <1>1, InsideCounted, FS_AddElement
  <1>3. Inside' \subseteq Users
    BY DEF Inside
  <1>4. Cardinality(Inside') < CounterLimit
    BY <1>3, <1>2, FS_Subset, FS_CardinalityType, UsersAssumption, LimitAssumption,
       InsideCounted
  <1>5. counter' = counter + 1 /\ counter' = Cardinality(Inside')
    BY <1>2, <1>4, NoWrap, InsideCounted, LimitAssumption
    DEF IInv, CounterExact, BeginEntered
  <1>6. TypeOK'
    BY <1>5, <1>4, InsideCounted, LimitAssumption
    DEF IInv, TypeOK, BeginEntered, Unlock, Threads
  <1>7. MutexHeld' /\ Roles'
    BY NoneAssumption, UsersAssumption
    DEF IInv, TypeOK, MutexHeld, Roles, UserPc, BeginEntered, Unlock, Threads, Locking
  <1>8. BlockedExact' /\ BlockerAlone'
    BY UsersAssumption
    DEF IInv, TypeOK, BlockedExact, BlockerAlone, BlockedPc, BeginEntered, Unlock,
        Threads
  <1> QED
    BY <1>5, <1>6, <1>7, <1>8 DEF IInv, CounterExact

LEMMA LeaveIInv ==
    ASSUME IInv, NEW u \in Users, EndBody(u)
    PROVE  IInv'
  <1>0. pc' = [pc EXCEPT ![u] = "idle", ![Blocker] = pc'[Blocker]]
        /\ pc'[Blocker] \in {pc[Blocker], IF pc[Blocker] = "asleep" THEN "woken"
                                          ELSE pc[Blocker]}
    BY UsersAssumption DEF IInv, EndBody, TypeOK, Threads
  <1>1. u \in Inside /\ Inside' = Inside \ {u}
    BY <1>0, UsersAssumption DEF IInv, EndBody, TypeOK, Threads, Inside
  <1>2. /\ Cardinality(Inside') = Cardinality(Inside) - 1
        /\ Cardinality(Inside') \in Nat /\ Cardinality(Inside) > 0
    BY <1>1, InsideCounted, FS_RemoveElement, FS_CardinalityType, FS_EmptySet
  <1>3. counter' = counter - 1 /\ counter' = Cardinality(Inside')
    BY <1>2, NoWrap, InsideCounted, LimitAssumption DEF IInv, CounterExact, EndBody
  <1>4. TypeOK'
    BY <1>0, <1>2, <1>3, InsideCounted, LimitAssumption
    DEF IInv, TypeOK, EndBody, Threads
  <1>5. MutexHeld' /\ Roles'
    BY <1>0, NoneAssumption, UsersAssumption
    DEF IInv, TypeOK, MutexHeld, Roles, UserPc, BlockerPc, BlockedPc, EndBody, Threads,
        Locking
  <1>6. BlockedExact' /\ BlockerAlone'
    BY <1>0, <1>1, UsersAssumption
    DEF IInv, TypeOK, BlockedExact, BlockerAlone, BlockedPc, EndBody, Threads
  <1> QED
    BY <1>3, <1>4, <1>5, <1>6 DEF IInv, CounterExact

LEMMA StepIInv == IInv /\ [Next]_vars => IInv'
  <1> SUFFICES ASSUME IInv, [Next]_vars PROVE IInv'
    OBVIOUS
  <1> USE DEF Locking, BlockerPc, BlockedPc
  <1>r. \A u \in Users : u \in Threads /\ u # Blocker
    BY UsersAssumption DEF Threads
  <1>b. Blocker \in Threads /\ Blocker \notin Users
    BY UsersAssumption DEF Threads
  <1>1. ASSUME NEW u \in Users, BeginLock(u) PROVE IInv'
    BY <1>1, <1>r, LockIInv DEF BeginLock
  <1>2. ASSUME NEW u \in Users, BeginRefused(u) PROVE IInv'
    <2>1. /\ Unlock(u, "begin", "idle") /\ UNCHANGED counter
          /\ blocked' \in BOOLEAN /\ UNCHANGED blocked
      BY <1>2 DEF BeginRefused, IInv, TypeOK
    <2> QED
      BY <2>1, <1>r, UnlockIInv
  <1>3. ASSUME NEW u \in Users, BeginEntered(u) PROVE IInv'
    BY <1>3, EnterIInv
  <1>4. ASSUME NEW u \in Users, EndLock(u) PROVE IInv'
    BY <1>4, <1>r, LockIInv DEF EndLock
  <1>5. ASSUME NEW u \in Users, EndBody(u) PROVE IInv'
    BY <1>5, LeaveIInv
  <1>6. ASSUME BlockLock PROVE IInv'
    BY <1>6, <1>b, LockIInv DEF BlockLock
  <1>7. ASSUME BlockBody PROVE IInv'
    BY <1>7, <1>b, UnlockIInv DEF BlockBody
  <1>8. ASSUME WaitLock PROVE IInv'
    BY <1>8, <1>b, LockIInv DEF WaitLock
  <1>k. ASSUME pc[Blocker] = "test" PROVE blocked
    BY <1>k DEF IInv, BlockedExact
  <1>9. ASSUME WaitSleep PROVE IInv'
    BY <1>9, <1>b, <1>k, UnlockIInv DEF WaitSleep, Unlock
  <1>10. ASSUME WaitDone PROVE IInv'
    BY <1>10, <1>b, <1>k, UnlockIInv DEF WaitDone, Unlock
  <1>11. ASSUME WaitSpurious PROVE IInv'
    <2>1. pc' = [pc EXCEPT ![Blocker] = "woken"] /\ pc[Blocker] = "asleep"
          /\ UNCHANGED <<mtx, blocked, counter>>
      BY <1>11 DEF WaitSpurious
    <2>2. Inside' = Inside
      BY <2>1, <1>b DEF Inside, IInv, TypeOK, Threads
    <2>3. TypeOK' /\ MutexHeld' /\ Roles'
      BY <2>1, <1>b DEF IInv, TypeOK, MutexHeld, Roles, UserPc, Threads
    <2> QED
      BY <2>1, <2>2, <2>3, <1>b
      DEF IInv, TypeOK, CounterExact, BlockedExact, BlockerAlone, Threads
  <1>12. ASSUME WaitRelock PROVE IInv'
    BY <1>12, <1>b, LockIInv DEF WaitRelock
  <1>13. ASSUME UnblockLock PROVE IInv'
    BY <1>13, <1>b, LockIInv DEF UnblockLock
  <1>14. ASSUME UnblockBody PROVE IInv'
    BY <1>14, <1>b, UnlockIInv DEF UnblockBody
  <1>15. ASSUME UNCHANGED vars PROVE IInv'
    BY <1>15
    DEF vars, IInv, TypeOK, MutexHeld, Roles, CounterExact, BlockedExact,
        BlockerAlone, Inside
  <1> QED
    BY <1>1, <1>2, <1>3, <1>4, <1>5, <1>6, <1>7, <1>8, <1>9, <1>10, <1>11, <1>12,
       <1>13, <1>14, <1>15
    DEF Next, Block, Wait, Use, Leave

LEMMA Inductive == Spec => []IInv
  BY InitIInv, StepIInv, PTL DEF Spec

-----------------------------------------------------------------------------
(* Every variable keeps its type, for any number of users.                 *)
THEOREM TypeCorrect == Spec => []TypeOK
  BY Inductive, PTL DEF IInv

(* The counter is the number of users inside the guard: no unpaired end,   *)
(* no lost increment, no wrap of the uint16_t.                             *)
THEOREM CounterCorrect == Spec => []CounterExact
  BY Inductive, PTL DEF IInv

(* wait_unused returns only to a blocker that is alone, and until the      *)
(* unblock nobody comes in.                                                *)
THEOREM AloneCorrect == Spec => []BlockerAlone
  BY Inductive, PTL DEF IInv

(* The lock implements the abstract guard that LsmStore and TableTasks     *)
(* use: each of its steps is one of the guard's, or none.                  *)
THEOREM GuardImplemented == Spec => GuardSpec
  <1>1. Init => Guard!Init
    BY UsersAssumption DEF Init, Guard!Init, Inside, Threads
  <1>2. IInv /\ IInv' /\ [Next]_vars => [Guard!Next]_(Guard!vars)
    <2> SUFFICES ASSUME IInv, IInv', [Next]_vars PROVE [Guard!Next]_(Guard!vars)
      OBVIOUS
    <2>r. \A u \in Users : u \in Threads /\ u # Blocker
      BY UsersAssumption DEF Threads
    <2>s. ASSUME \A u \in Users :
                    pc'[u] \in {"inside", "end"} <=> pc[u] \in {"inside", "end"},
                 pc'[Blocker] \in {"alone", "unblock"}
                    <=> pc[Blocker] \in {"alone", "unblock"},
                 UNCHANGED blocked
          PROVE  UNCHANGED Guard!vars
      <3>1. Inside' = Inside
        BY <2>s DEF Inside
      <3> QED
        BY <3>1, <2>s DEF Guard!vars
    <2>1. ASSUME NEW u \in Users, BeginLock(u) \/ BeginRefused(u) \/ EndLock(u)
          PROVE  UNCHANGED Guard!vars
      BY <2>1, <2>r, <2>s
      DEF BeginLock, BeginRefused, EndLock, Lock, Unlock, IInv, TypeOK, Threads
    <2>2. ASSUME BlockLock \/ WaitLock \/ WaitSleep \/ WaitSpurious \/ WaitRelock
                 \/ UnblockLock
          PROVE  UNCHANGED Guard!vars
      BY <2>2, <2>r, <2>s
      DEF BlockLock, WaitLock, WaitSleep, WaitSpurious, WaitRelock, UnblockLock,
          Lock, Unlock, IInv, TypeOK, Threads
    <2>3. ASSUME NEW u \in Users, BeginEntered(u) PROVE Guard!Enter(u)
      <3>1. Inside' = Inside \cup {u}
        BY <2>3, <2>r DEF BeginEntered, Unlock, IInv, TypeOK, Inside, Threads
      <3>2. pc'[Blocker] = pc[Blocker] /\ ~blocked /\ UNCHANGED blocked
        BY <2>3, <2>r DEF BeginEntered, Unlock, IInv, TypeOK, Threads
      <3> QED
        BY <3>1, <3>2 DEF Guard!Enter
    <2>4. ASSUME NEW u \in Users, EndBody(u) PROVE Guard!Leave(u)
      <3>1. u \in Inside /\ Inside' = Inside \ {u}
        BY <2>4, <2>r DEF EndBody, IInv, TypeOK, Inside, Threads
      <3>2. pc'[Blocker] \in {"alone", "unblock"}
               <=> pc[Blocker] \in {"alone", "unblock"}
        BY <2>4, <2>r DEF EndBody, IInv, TypeOK, Threads
      <3> QED
        BY <3>1, <3>2, <2>4 DEF Guard!Leave, EndBody
    <2>5. ASSUME BlockBody PROVE Guard!Block
      <3>1. ~blocked /\ pc[Blocker] = "block" /\ pc'[Blocker] = "blocked"
        BY <2>5 DEF BlockBody, Unlock, IInv, TypeOK, BlockedExact, BlockedPc, Threads
      <3>2. Inside' = Inside
        BY <2>5, <2>r DEF BlockBody, Unlock, IInv, TypeOK, Inside, Threads
      <3> QED
        BY <3>1, <3>2, <2>5 DEF Guard!Block, BlockBody
    <2>6. ASSUME WaitDone PROVE Guard!BeAlone
      <3>1. blocked /\ pc'[Blocker] = "alone"
        BY <2>6 DEF WaitDone, Unlock, IInv, TypeOK, BlockedExact, BlockedPc, Threads
      <3>2. Inside = {}
        BY <2>6, InsideCounted, FS_EmptySet DEF WaitDone, IInv, CounterExact
      <3>3. Inside' = Inside
        BY <2>6, <2>r DEF WaitDone, Unlock, IInv, TypeOK, Inside, Threads
      <3> QED
        BY <3>1, <3>2, <3>3, <2>6 DEF Guard!BeAlone, WaitDone
    <2>7. ASSUME UnblockBody PROVE Guard!Unblock
      <3>1. pc[Blocker] = "unblock" /\ pc'[Blocker] = "idle"
        BY <2>7 DEF UnblockBody, Unlock, IInv, TypeOK, Threads
      <3>2. Inside' = Inside
        BY <2>7, <2>r DEF UnblockBody, Unlock, IInv, TypeOK, Inside, Threads
      <3> QED
        BY <3>1, <3>2, <2>7 DEF Guard!Unblock, UnblockBody
    <2>8. ASSUME UNCHANGED vars PROVE UNCHANGED Guard!vars
      BY <2>8, <2>s DEF vars
    <2> QED
      BY <2>1, <2>2, <2>3, <2>4, <2>5, <2>6, <2>7, <2>8
      DEF Next, Block, Wait, Use, Leave, Guard!Next
  <1> QED
    BY <1>1, <1>2, Inductive, PTL DEF Spec, GuardSpec, Guard!Spec

-----------------------------------------------------------------------------
(* By partition and key, as memtable_comparator_basic compares.            *)
Before(a, b) ==
    \/ PartOf(a.key) < PartOf(b.key)
    \/ PartOf(a.key) = PartOf(b.key) /\ a.key < b.key

(* What a cell of the array may be.                                        *)
Cell == [key : Nat, ts : Nat, value : Int]

(* The part of a key is a number below the number of parts; key 0 is in    *)
(* part 0.                                                                 *)
LEMMA PartOfNat ==
    ASSUME NEW k \in Nat
    PROVE  PartOf(k) \in 0 .. Parts - 1 /\ PartOf(0) = 0
<1>1. Parts \in Nat \ {0}
  BY PartsAssumption
<1> QED
  BY <1>1 DEF PartOf

(* The comparator by partition and key (memtable.c:385-404) orders any two *)
(* keys, in one way only.                                                  *)
LEMMA BasicOrder ==
    ASSUME NEW a, NEW b, a.key \in Nat, b.key \in Nat
    PROVE  /\ Basic(a, b) \in {-1, 0, 1}
           /\ Basic(a, b) < 0 <=> Before(a, b)
           /\ Basic(a, b) = 0 <=> a.key = b.key
           /\ Basic(a, b) > 0 <=> Before(b, a)
           /\ ~(Before(a, b) /\ Before(b, a))
<1>1. PartOf(a.key) \in Int /\ PartOf(b.key) \in Int
  BY PartOfNat
<1>2. a.key = b.key => PartOf(a.key) = PartOf(b.key)
  OBVIOUS
<1> QED
  BY <1>1, <1>2 DEF Basic, Before

(* That order is transitive.                                               *)
LEMMA BeforeTransitive ==
    ASSUME NEW a, NEW b, NEW c, a.key \in Nat, b.key \in Nat, c.key \in Nat,
           Before(a, b), Before(b, c)
    PROVE  Before(a, c)
<1>1. PartOf(a.key) \in Int /\ PartOf(b.key) \in Int /\ PartOf(c.key) \in Int
  BY PartOfNat
<1> QED
  BY <1>1 DEF Before

(* The difference of two timestamps is exact if it fits into an int64_t,   *)
(* and 0 if they are equal.                                                *)
LEMMA Differences ==
    ASSUME NEW x \in Nat, NEW y \in Nat
    PROVE  /\ Difference(x, y) \in Int
           /\ x = y => Difference(x, y) = 0
           /\ 2 * (x - y) < Modulus /\ 2 * (y - x) < Modulus
                => Difference(x, y) = x - y
<1>1. Modulus \in Nat \ {0}
  BY TimestampsAssumption
<1>2. (x - y) % Modulus \in 0 .. Modulus - 1
  BY <1>1
<1>3. x = y => (x - y) % Modulus = 0
  BY <1>1
<1>4. ASSUME 2 * (x - y) < Modulus, 2 * (y - x) < Modulus
      PROVE  Difference(x, y) = x - y
  <2>1. CASE x >= y
    <3>1. x - y = (x - y) + 0 * Modulus /\ x - y \in 0 .. Modulus - 1
      BY <1>1, <1>4, <2>1
    <3>2. (x - y) % Modulus = x - y
      BY <1>1, <3>1
    <3> QED
      BY <1>4, <3>2 DEF Difference
  <2>2. CASE x < y
    <3>1. x - y = (x - y + Modulus) - 1 * Modulus /\ x - y + Modulus \in 0 .. Modulus - 1
      BY <1>1, <1>4, <2>2
    <3>2. (x - y) % Modulus = x - y + Modulus
      BY <1>1, <3>1
    <3> QED
      BY <1>1, <1>4, <2>2, <3>2 DEF Difference
  <2> QED
    BY <2>1, <2>2
<1>5. Difference(x, y) \in Int
  BY <1>1, <1>2 DEF Difference
<1>6. x = y => Difference(x, y) = 0
  BY <1>1, <1>3 DEF Difference
<1> QED
  BY <1>4, <1>5, <1>6

(* e is d with its positions lo .. hi in another order.                    *)
Reorders(f, D, lo, hi) ==
    /\ f \in [D -> D]
    /\ \A x, y \in D : f[x] = f[y] => x = y
    /\ \A y \in D : \E x \in D : f[x] = y
    /\ \A x \in D : x \notin lo .. hi => f[x] = x

Rearranged(d, e, lo, hi) ==
    \E f : /\ Reorders(f, DOMAIN d, lo, hi)
           /\ e = [x \in DOMAIN d |-> d[f[x]]]

(* An array is a rearrangement of itself.                                  *)
LEMMA RearrangedSelf ==
    ASSUME NEW D, NEW C, NEW d \in [D -> C], NEW lo, NEW hi
    PROVE  Rearranged(d, d, lo, hi)
<1> DEFINE f == [x \in D |-> x]
<1>1. Reorders(f, D, lo, hi)
  BY DEF Reorders
<1>2. d = [x \in D |-> d[f[x]]] /\ DOMAIN d = D
  OBVIOUS
<1> QED
  BY <1>1, <1>2 DEF Rearranged

(* A rearrangement of a rearrangement is a rearrangement.                  *)
LEMMA RearrangedTransitive ==
    ASSUME NEW D, NEW C, NEW d \in [D -> C], NEW e, NEW g, NEW lo, NEW hi,
           Rearranged(d, e, lo, hi), Rearranged(e, g, lo, hi)
    PROVE  Rearranged(d, g, lo, hi)
<1>1. PICK f : Reorders(f, D, lo, hi) /\ e = [x \in D |-> d[f[x]]]
  BY DEF Rearranged
<1>2. DOMAIN e = D
  BY <1>1
<1>3. PICK h : Reorders(h, D, lo, hi) /\ g = [x \in D |-> e[h[x]]]
  BY <1>2 DEF Rearranged
<1> DEFINE k == [x \in D |-> f[h[x]]]
<1>4. Reorders(k, D, lo, hi)
  <2>1. k \in [D -> D]
    BY <1>1, <1>3 DEF Reorders
  <2>2. \A x, y \in D : k[x] = k[y] => x = y
    BY <1>1, <1>3 DEF Reorders
  <2>3. ASSUME NEW y \in D PROVE \E x \in D : k[x] = y
    <3>1. PICK z \in D : f[z] = y
      BY <1>1 DEF Reorders
    <3>2. PICK x \in D : h[x] = z
      BY <1>3 DEF Reorders
    <3> QED
      BY <3>1, <3>2
  <2>4. \A x \in D : x \notin lo .. hi => k[x] = x
    BY <1>1, <1>3 DEF Reorders
  <2> HIDE DEF k
  <2> QED
    BY <2>1, <2>2, <2>3, <2>4 DEF Reorders
<1>5. g = [x \in D |-> d[k[x]]]
  BY <1>1, <1>3 DEF Reorders
<1> HIDE DEF k
<1> QED
  BY <1>4, <1>5 DEF Rearranged

(* A rearrangement of a range is one of any wider range.                   *)
LEMMA RearrangedWider ==
    ASSUME NEW d, NEW e, NEW lo \in Int, NEW hi \in Int, NEW l \in Int,
           NEW h \in Int, lo <= l, h <= hi, Rearranged(d, e, l, h)
    PROVE  Rearranged(d, e, lo, hi)
<1>1. \A x : x \in l .. h => x \in lo .. hi
  OBVIOUS
<1> QED
  BY <1>1 DEF Rearranged, Reorders

(* The swap of two records of a range rearranges it, and touches nothing   *)
(* else.                                                                   *)
LEMMA SwapRearranges ==
    ASSUME NEW D, NEW C, NEW d \in [D -> C], NEW lo, NEW hi,
           NEW m \in D, NEW n \in D, m \in lo .. hi, n \in lo .. hi
    PROVE  /\ Swapped(d, m, n) \in [D -> C]
           /\ Rearranged(d, Swapped(d, m, n), lo, hi)
           /\ Swapped(d, m, n)[m] = d[n]
           /\ Swapped(d, m, n)[n] = d[m]
           /\ \A x \in D : x # m /\ x # n => Swapped(d, m, n)[x] = d[x]
<1> DEFINE f == [x \in D |-> IF x = m THEN n ELSE IF x = n THEN m ELSE x]
<1>1. Reorders(f, D, lo, hi)
  <2>1. f \in [D -> D]
    OBVIOUS
  <2>2. \A x, y \in D : f[x] = f[y] => x = y
    OBVIOUS
  <2>3. ASSUME NEW y \in D PROVE \E x \in D : f[x] = y
    <3>1. f[f[y]] = y /\ f[y] \in D
      OBVIOUS
    <3> QED
      BY <3>1
  <2>4. \A x \in D : x \notin lo .. hi => f[x] = x
    OBVIOUS
  <2> HIDE DEF f
  <2> QED
    BY <2>1, <2>2, <2>3, <2>4 DEF Reorders
<1>2. Swapped(d, m, n) = [x \in D |-> d[f[x]]]
  BY DEF Swapped
<1>3. \A x \in D : f[x] \in D
  OBVIOUS
<1>4. f[m] = n /\ f[n] = m /\ \A x \in D : x # m /\ x # n => f[x] = x
  OBVIOUS
<1> HIDE DEF f
<1> QED
  BY <1>1, <1>2, <1>3, <1>4 DEF Rearranged

(* What a rearrangement keeps.                                             *)
SameOutside(d, e, D, lo, hi) == \A x \in D : x \notin lo .. hi => e[x] = d[x]
AllFrom(d, e, lo, hi) == \A x \in lo .. hi : \E y \in lo .. hi : e[x] = d[y]

(* A rearrangement of a range keeps what is outside, and has the same      *)
(* records inside.                                                         *)
LEMMA RearrangedKeeps ==
    ASSUME NEW D, NEW C, NEW d \in [D -> C], NEW e, NEW lo, NEW hi,
           lo .. hi \subseteq D, Rearranged(d, e, lo, hi)
    PROVE  /\ e \in [D -> C]
           /\ SameOutside(d, e, D, lo, hi)
           /\ AllFrom(d, e, lo, hi)
           /\ AllFrom(e, d, lo, hi)
<1>1. PICK f : Reorders(f, D, lo, hi) /\ e = [x \in D |-> d[f[x]]]
  BY DEF Rearranged
<1>2. \A x \in D : f[x] \in D /\ e[x] = d[f[x]]
  BY <1>1 DEF Reorders
<1>3. e \in [D -> C]
  BY <1>1, <1>2
<1>4. \A x \in D : x \notin lo .. hi => e[x] = d[x]
  BY <1>1, <1>2 DEF Reorders
<1>5. \A x \in lo .. hi : f[x] \in lo .. hi
  <2> SUFFICES ASSUME NEW x \in lo .. hi, f[x] \notin lo .. hi PROVE FALSE
    OBVIOUS
  <2>1. x \in D /\ f[x] \in D
    BY <1>2
  <2>2. f[f[x]] = f[x]
    BY <1>1, <2>1 DEF Reorders
  <2>3. f[x] = x
    BY <1>1, <2>1, <2>2 DEF Reorders
  <2> QED
    BY <2>3
<1>6. \A y \in lo .. hi : \E x \in lo .. hi : f[x] = y
  <2> SUFFICES ASSUME NEW y \in lo .. hi PROVE \E x \in lo .. hi : f[x] = y
    OBVIOUS
  <2>1. y \in D
    OBVIOUS
  <2>2. PICK x \in D : f[x] = y
    BY <1>1, <2>1 DEF Reorders
  <2>3. x \in lo .. hi
    BY <1>1, <2>2 DEF Reorders
  <2> QED
    BY <2>2, <2>3
<1>7. AllFrom(d, e, lo, hi)
  BY <1>2, <1>5 DEF AllFrom
<1>8. AllFrom(e, d, lo, hi)
  BY <1>2, <1>6 DEF AllFrom
<1> QED
  BY <1>3, <1>4, <1>7, <1>8 DEF SameOutside

(* If no two positions have the same value, then none have it afterwards.  *)
ValuesDiffer(d, S) == \A x, y \in S : d[x].value = d[y].value => x = y

(* A rearrangement keeps values different.                                 *)
LEMMA RearrangedDiffer ==
    ASSUME NEW D, NEW C, NEW d \in [D -> C], NEW e, NEW lo, NEW hi,
           lo .. hi \subseteq D, Rearranged(d, e, lo, hi),
           ValuesDiffer(d, lo .. hi)
    PROVE  ValuesDiffer(e, lo .. hi)
<1>1. PICK f : Reorders(f, D, lo, hi) /\ e = [x \in D |-> d[f[x]]]
  BY DEF Rearranged
<1>2. \A x \in lo .. hi : x \in D /\ f[x] \in D /\ e[x] = d[f[x]]
  BY <1>1 DEF Reorders
<1>3. \A x \in lo .. hi : f[x] \in lo .. hi
  <2> SUFFICES ASSUME NEW x \in lo .. hi, f[x] \notin lo .. hi PROVE FALSE
    OBVIOUS
  <2>1. f[f[x]] = f[x]
    BY <1>1, <1>2 DEF Reorders
  <2>2. f[x] = x
    BY <1>1, <1>2, <2>1 DEF Reorders
  <2> QED
    BY <2>2
<1> QED
  BY <1>1, <1>2, <1>3 DEF ValuesDiffer, Reorders

(* A set of numbers that is not empty has a least one.                     *)
LEMMA Least ==
    ASSUME NEW T \in SUBSET Nat, T # {}
    PROVE  \E x \in T : \A y \in T : x <= y
<1> DEFINE R == OpToRel(<, Nat)
<1>1. IsWellFoundedOn(R, Nat)
  BY NatLessThanWellFounded
<1>2. \A x, y \in Nat : x < y => <<x, y>> \in R
  BY DEF OpToRel
<1> HIDE DEF R
<1>3. PICK x \in T : \A y \in T : ~(<<y, x>> \in R)
  BY <1>1, WFMin
<1>4. x \in Nat /\ \A y \in T : y \in Nat /\ ~(y < x)
  BY <1>2, <1>3
<1> QED
  BY <1>3, <1>4

(* What holds of 0 and of each successor of a number it holds of holds of  *)
(* all of them: T is the set of the numbers it holds of.                   *)
LEMMA Upwards ==
    ASSUME NEW N \in Nat, NEW T, 0 \in T, \A n \in 1 .. N : n - 1 \in T => n \in T
    PROVE  \A n \in 0 .. N : n \in T
<1> DEFINE U == {n \in 0 .. N : n \notin T}
<1> SUFFICES ASSUME U # {} PROVE FALSE
  OBVIOUS
<1>1. PICK m \in U : \A n \in U : m <= n
  <2>1. U \in SUBSET Nat
    OBVIOUS
  <2> HIDE DEF U
  <2> QED
    BY <2>1, Least
<1>2. m \in 1 .. N /\ m - 1 \in 0 .. N /\ m \notin T
  <2>1. m \in 0 .. N /\ m \notin T
    OBVIOUS
  <2>2. m # 0
    BY <2>1
  <2> QED
    BY <2>1, <2>2
<1>3. m - 1 \notin U
  <2> HIDE DEF U
  <2> QED
    BY <1>1, <1>2
<1> QED
  BY <1>2, <1>3

(* Min is the least of a set of numbers.                                   *)
LEMMA MinIsLeast ==
    ASSUME NEW T \in SUBSET Nat, T # {}
    PROVE  Min(T) \in T /\ \A y \in T : Min(T) <= y
<1>1. \E x \in T : \A y \in T : x <= y
  BY Least
<1> QED
  BY <1>1 DEF Min

(* Max is the greatest of a set that has a bound.                          *)
LEMMA MaxIsGreatest ==
    ASSUME NEW N \in Nat, NEW T \in SUBSET (0 .. N), T # {}
    PROVE  Max(T) \in T /\ \A y \in T : Max(T) >= y
<1> DEFINE U == {n \in 0 .. N : N - n \in T}
<1>1. U \in SUBSET Nat /\ U # {}
  <2>1. PICK t \in T : TRUE
    OBVIOUS
  <2>2. t \in 0 .. N /\ N - t \in 0 .. N /\ N - (N - t) = t
    OBVIOUS
  <2>3. N - t \in U
    BY <2>2
  <2> QED
    BY <2>3
<1>2. PICK u \in U : \A y \in U : u <= y
  <2> HIDE DEF U
  <2> QED
    BY <1>1, Least
<1>3. N - u \in T
  OBVIOUS
<1>4. ASSUME NEW y \in T PROVE N - u >= y
  <2>1. y \in 0 .. N /\ N - y \in 0 .. N /\ N - (N - y) = y
    OBVIOUS
  <2>2. N - y \in U
    BY <2>1
  <2> QED
    BY <1>2, <2>1, <2>2
<1>5. \E x \in T : \A y \in T : x >= y
  BY <1>3, <1>4
<1> QED
  BY <1>5 DEF Max

(* The comparator with timestamps gives numbers, and 0 for a record and    *)
(* itself.                                                                 *)
LEMMA FullInt ==
    ASSUME NEW a \in Cell, NEW b \in Cell
    PROVE  Full(a, b) \in Int /\ Full(a, a) = 0
<1>1. a.key \in Nat /\ b.key \in Nat /\ a.ts \in Nat /\ b.ts \in Nat
  BY DEF Cell
<1>2. Basic(a, b) \in Int
  BY <1>1, BasicOrder
<1>3. Difference(b.ts, a.ts) \in Int /\ Difference(a.ts, a.ts) = 0
  BY <1>1, Differences
<1> QED
  BY <1>2, <1>3 DEF Full

(* Where the scan from the left stops (sort.c:121-125), and what it        *)
(* passed.                                                                 *)
LEMMA ScanUpStops ==
    ASSUME NEW d, NEW i \in Int, NEW hi \in Nat, -1 <= i, i < hi, NEW pivot
    PROVE  LET m == ScanUp(d, i, hi, pivot)
           IN /\ m \in i + 1 .. hi
              /\ m = hi \/ Full(d[m], pivot) >= 0
              /\ \A x \in i + 1 .. m - 1 : ~(Full(d[x], pivot) >= 0)
<1> DEFINE T == {m \in i + 1 .. hi : m = hi \/ Full(d[m], pivot) >= 0}
<1>1. T \in SUBSET Nat /\ T # {}
  <2>1. hi \in T
    OBVIOUS
  <2> QED
    BY <2>1
<1>2. ScanUp(d, i, hi, pivot) = Min(T)
  BY DEF ScanUp
<1>3. Min(T) \in T /\ \A y \in T : Min(T) <= y
  <2> HIDE DEF T
  <2> QED
    BY <1>1, MinIsLeast
<1>4. \A x \in i + 1 .. Min(T) - 1 : x \notin T /\ x \in i + 1 .. hi
  <2>1. Min(T) \in i + 1 .. hi
    BY <1>3
  <2> DEFINE min == Min(T)
  <2> HIDE DEF min
  <2>2. min \in i + 1 .. hi /\ \A y \in T : min <= y
    BY <1>3, <2>1 DEF min
  <2> HIDE DEF T
  <2>3. \A x \in i + 1 .. min - 1 : x \notin T /\ x \in i + 1 .. hi
    BY <2>2
  <2> QED
    BY <2>3 DEF min
<1> QED
  BY <1>2, <1>3, <1>4

(* Where the scan from the right stops (sort.c:127-131), and what it       *)
(* passed.                                                                 *)
LEMMA ScanDownStops ==
    ASSUME NEW d, NEW j \in Int, NEW lo \in Nat, lo < j, NEW pivot
    PROVE  LET n == ScanDown(d, j, lo, pivot)
           IN /\ n \in lo .. j - 1
              /\ n = lo \/ Full(d[n], pivot) <= 0
              /\ \A x \in n + 1 .. j - 1 : ~(Full(d[x], pivot) <= 0)
<1> DEFINE T == {m \in lo .. j - 1 : m = lo \/ Full(d[m], pivot) <= 0}
<1>1. j - 1 \in Nat /\ T \in SUBSET (0 .. j - 1) /\ T # {}
  <2>1. lo \in T
    OBVIOUS
  <2> QED
    BY <2>1
<1>2. ScanDown(d, j, lo, pivot) = Max(T)
  BY DEF ScanDown
<1>3. Max(T) \in T /\ \A y \in T : Max(T) >= y
  <2> HIDE DEF T
  <2> QED
    BY <1>1, MaxIsGreatest
<1>4. \A x \in Max(T) + 1 .. j - 1 : x \notin T /\ x \in lo .. j - 1
  <2>1. Max(T) \in lo .. j - 1
    BY <1>3
  <2> DEFINE max == Max(T)
  <2> HIDE DEF max
  <2>2. max \in lo .. j - 1 /\ \A y \in T : max >= y
    BY <1>3, <2>1 DEF max
  <2> HIDE DEF T
  <2>3. \A x \in max + 1 .. j - 1 : x \notin T /\ x \in lo .. j - 1
    BY <2>2
  <2> QED
    BY <2>3 DEF max
<1> QED
  BY <1>2, <1>3, <1>4

(* d is an array over D of records of C, and lo .. hi a range of it.       *)
ArrayRange(D, C, d, lo, hi) ==
    /\ C \subseteq Cell /\ d \in [D -> C]
    /\ lo \in Nat /\ hi \in Nat /\ lo <= hi /\ lo .. hi \subseteq D

(* The invariant of the loop of _cx_sort.                                  *)
Parting(b, D, C, d, lo, hi) ==
    /\ b \in [d : [D -> C], i : lo - 1 .. hi, j : lo .. hi + 1]
    /\ Rearranged(d, b.d, lo, hi)
    /\ b.i < b.j =>
         /\ \A x \in lo .. b.i : Full(b.d[x], d[lo]) <= 0
         /\ \A x \in b.j .. hi : Full(b.d[x], d[lo]) >= 0
         /\ b.i = lo - 1 \/ b.j = hi + 1 => b.i = lo - 1 /\ b.j = hi + 1 /\ b.d = d
    /\ ~(b.i < b.j) =>
         /\ \A x \in lo .. b.j : Full(b.d[x], d[lo]) <= 0
         /\ \A x \in b.j + 1 .. hi : Full(b.d[x], d[lo]) >= 0
         /\ b.j <= hi
         /\ lo < hi => b.j < hi

(* A pass of the loop of _cx_sort keeps its invariant and brings i and j   *)
(* closer by two.                                                          *)
LEMMA PassParts ==
    ASSUME NEW D, NEW C, NEW d, NEW lo, NEW hi, ArrayRange(D, C, d, lo, hi),
           NEW b, Parting(b, D, C, d, lo, hi), b.i < b.j
    PROVE  LET a == Pass(b, lo, hi, d[lo])
           IN Parting(a, D, C, d, lo, hi) /\ a.j - a.i <= b.j - b.i - 2
<1> DEFINE pv == d[lo]
           e == b.d
           m == ScanUp(b.d, b.i, hi, pv)
           n == ScanDown(b.d, b.j, lo, pv)
<1>1. /\ lo \in Nat /\ hi \in Nat /\ lo <= hi /\ lo .. hi \subseteq D
      /\ d \in [D -> C] /\ C \subseteq Cell /\ e \in [D -> C]
      /\ b.i \in lo - 1 .. hi /\ b.j \in lo .. hi + 1
  BY DEF ArrayRange, Parting
<1>2. lo \in D /\ pv \in Cell /\ Full(pv, pv) = 0
  BY <1>1, FullInt
<1>3. \A x \in lo .. hi : x \in D /\ e[x] \in C /\ Full(e[x], pv) \in Int
  <2>1. \A x \in lo .. hi : x \in D /\ e[x] \in C /\ e[x] \in Cell
    BY <1>1
  <2> QED
    BY <2>1, <1>2, FullInt
<1>4. b.i < hi /\ lo < b.j /\ -1 <= b.i
  BY <1>1 DEF Parting
<1> HIDE DEF e
<1>5. /\ m \in b.i + 1 .. hi
      /\ m = hi \/ Full(e[m], pv) >= 0
      /\ \A x \in b.i + 1 .. m - 1 : ~(Full(e[x], pv) >= 0)
  BY <1>1, <1>4, ScanUpStops DEF e
<1>6. /\ n \in lo .. b.j - 1
      /\ n = lo \/ Full(e[n], pv) <= 0
      /\ \A x \in n + 1 .. b.j - 1 : ~(Full(e[x], pv) <= 0)
  BY <1>1, <1>4, ScanDownStops DEF e
<1> HIDE DEF m, n
<1>7. m \in lo .. hi /\ n \in lo .. hi /\ m \in D /\ n \in D
  BY <1>1, <1>5, <1>6
(* What m and n stopped at, and what they passed.                          *)
<1>8. /\ m < n => Full(e[n], pv) <= 0 /\ Full(e[m], pv) >= 0
      /\ \A x \in lo .. m - 1 : Full(e[x], pv) <= 0
      /\ \A x \in n + 1 .. hi : Full(e[x], pv) >= 0
      /\ ~(m < n) => Full(e[n], pv) <= 0
      /\ lo < hi /\ ~(m < n) => n < hi
  <2>1. CASE b.i = lo - 1 \/ b.j = hi + 1
    <3>1. b.i = lo - 1 /\ b.j = hi + 1 /\ e[lo] = pv
      BY <2>1 DEF Parting, e
    <3>2. m = lo
      <4>1. CASE m > lo
        <5>1. lo \in b.i + 1 .. m - 1
          BY <1>1, <1>7, <3>1, <4>1
        <5> QED
          BY <1>2, <1>5, <3>1, <5>1
      <4> QED
        BY <1>1, <1>7, <4>1
    <3>3. \A x \in n + 1 .. hi : Full(e[x], pv) >= 0
      <4> TAKE x \in n + 1 .. hi
      <4>1. x \in lo .. hi /\ x \in n + 1 .. b.j - 1
        BY <1>1, <1>7, <3>1
      <4> QED
        BY <1>3, <1>6, <4>1
    <3> QED
      BY <1>1, <1>2, <1>6, <1>7, <3>1, <3>2, <3>3
  <2>2. CASE b.i >= lo /\ b.j <= hi
    <3>1. /\ \A x \in lo .. b.i : Full(e[x], pv) <= 0
          /\ \A x \in b.j .. hi : Full(e[x], pv) >= 0
      BY DEF Parting, e
    <3>2. b.i \in lo .. b.i /\ b.j \in b.j .. hi /\ b.i \in lo .. hi /\ b.j \in lo .. hi
      BY <1>1, <2>2
    <3>3. m <= b.j /\ Full(e[m], pv) >= 0
      <4>1. CASE m > b.j
        <5>1. b.j \in b.i + 1 .. m - 1
          BY <1>1, <1>7, <4>1
        <5> QED
          BY <1>5, <3>1, <3>2, <5>1
      <4>2. m <= b.j
        BY <1>1, <1>7, <4>1
      <4>3. CASE m = hi
        <5>1. m \in b.j .. hi
          BY <1>1, <2>2, <4>2, <4>3
        <5> QED
          BY <3>1, <4>2, <5>1
      <4> QED
        BY <1>5, <4>2, <4>3
    <3>4. n >= b.i /\ Full(e[n], pv) <= 0
      <4>1. CASE n < b.i
        <5>1. b.i \in n + 1 .. b.j - 1
          BY <1>1, <1>7, <4>1
        <5> QED
          BY <1>6, <3>1, <3>2, <5>1
      <4>2. n >= b.i
        BY <1>1, <1>7, <4>1
      <4>3. CASE n = lo
        <5>1. n \in lo .. b.i
          BY <1>1, <2>2, <4>2, <4>3
        <5> QED
          BY <3>1, <4>2, <5>1
      <4> QED
        BY <1>6, <4>2, <4>3
    <3>5. \A x \in lo .. m - 1 : Full(e[x], pv) <= 0
      <4> TAKE x \in lo .. m - 1
      <4>1. x \in lo .. hi /\ (x \in lo .. b.i \/ x \in b.i + 1 .. m - 1)
        BY <1>1, <1>7
      <4> QED
        BY <1>3, <1>5, <3>1, <4>1
    <3>6. \A x \in n + 1 .. hi : Full(e[x], pv) >= 0
      <4> TAKE x \in n + 1 .. hi
      <4>1. x \in lo .. hi /\ (x \in b.j .. hi \/ x \in n + 1 .. b.j - 1)
        BY <1>1, <1>7
      <4> QED
        BY <1>3, <1>6, <3>1, <4>1
    <3>7. n < hi
      BY <1>1, <1>6, <2>2
    <3> QED
      BY <3>3, <3>4, <3>5, <3>6, <3>7
  <2> QED
    BY <1>1, <2>1, <2>2
<1> DEFINE a == Pass(b, lo, hi, d[lo])
           w == IF m < n THEN Swapped(e, m, n) ELSE e
<1>9. a = [d |-> w, i |-> m, j |-> n]
  BY DEF Pass, e, m, n
<1>10. w \in [D -> C] /\ Rearranged(d, w, lo, hi)
  <2>1. Rearranged(d, e, lo, hi)
    BY DEF Parting, e
  <2>2. Swapped(e, m, n) \in [D -> C] /\ Rearranged(e, Swapped(e, m, n), lo, hi)
    BY <1>1, <1>7, SwapRearranges
  <2> QED
    BY <1>1, <2>1, <2>2, RearrangedTransitive
<1>11. ASSUME m < n
       PROVE  /\ \A x \in lo .. m : Full(w[x], pv) <= 0
              /\ \A x \in n .. hi : Full(w[x], pv) >= 0
  <2>0. w = Swapped(e, m, n)
    BY <1>11
  <2> HIDE DEF w
  <2>1. w[m] = e[n] /\ w[n] = e[m] /\ \A x \in D : x # m /\ x # n => w[x] = e[x]
    <3>1. /\ Swapped(e, m, n)[m] = e[n] /\ Swapped(e, m, n)[n] = e[m]
          /\ \A x \in D : x # m /\ x # n => Swapped(e, m, n)[x] = e[x]
      <4>1. /\ e \in [D -> C] /\ m \in D /\ n \in D
            /\ m \in lo .. hi /\ n \in lo .. hi
        BY <1>1, <1>7
      <4> QED
        BY <4>1 DEF Swapped
    <3> QED
      BY <2>0, <3>1
  <2>2. ASSUME NEW x \in lo .. m PROVE Full(w[x], pv) <= 0
    <3>1. x \in D /\ x # n /\ (x = m \/ x \in lo .. m - 1)
      BY <1>1, <1>7, <1>11
    <3> QED
      BY <1>8, <1>11, <2>1, <3>1
  <2>3. ASSUME NEW x \in n .. hi PROVE Full(w[x], pv) >= 0
    <3>1. x \in D /\ x # m /\ (x = n \/ x \in n + 1 .. hi)
      BY <1>1, <1>7, <1>11
    <3> QED
      BY <1>8, <1>11, <2>1, <3>1
  <2> QED
    BY <2>2, <2>3
<1>12. ASSUME ~(m < n)
       PROVE  /\ \A x \in lo .. n : Full(w[x], pv) <= 0
              /\ \A x \in n + 1 .. hi : Full(w[x], pv) >= 0
  <2>1. w = e
    BY <1>12
  <2> HIDE DEF w
  <2>2. ASSUME NEW x \in lo .. n PROVE Full(w[x], pv) <= 0
    <3>1. x = n \/ x \in lo .. m - 1
      BY <1>1, <1>7, <1>12
    <3> QED
      BY <1>8, <1>12, <2>1, <3>1
  <2> QED
    BY <1>8, <2>1, <2>2
<1>13. m # lo - 1 /\ n # hi + 1 /\ n <= hi /\ m \in lo - 1 .. hi /\ n \in lo .. hi + 1
  BY <1>1, <1>7
<1>14. n - m <= b.j - b.i - 2
  BY <1>1, <1>5, <1>6
<1>15. Parting(a, D, C, d, lo, hi)
  <2>1. a.d = w /\ a.i = m /\ a.j = n
    BY <1>9
  <2>2. a \in [d : [D -> C], i : lo - 1 .. hi, j : lo .. hi + 1]
    BY <1>9, <1>10, <1>13
  <2> HIDE DEF a, w
  <2> QED
    BY <1>8, <1>10, <1>11, <1>12, <1>13, <2>1, <2>2 DEF Parting
<1> QED
  BY <1>9, <1>14, <1>15

(* A recursion over the numbers up to N has a solution: were there a least *)
(* number up to which it has none, the one before would extend to it.      *)
IsStep(G, N, S) == \A n \in 1 .. N : \A x \in S : G[n][x] \in S
Solution(f, G, N, s, S) ==
    f \in [0 .. N -> S] /\ f[0] = s /\ \A n \in 1 .. N : f[n] = G[n][f[n - 1]]

LEMMA Recursion ==
    ASSUME NEW N \in Nat, NEW S, NEW s \in S, NEW G, IsStep(G, N, S)
    PROVE  \E f : Solution(f, G, N, s, S)
<1> DEFINE Upto(m, f) == f[0] = s /\ \A n \in 1 .. m : f[n] = G[n][f[n - 1]]
           T == {m \in 0 .. N : ~\E f \in [0 .. m -> S] : Upto(m, f)}
<1>1. 0 \notin T
  <2>1. [n \in 0 .. 0 |-> s] \in [0 .. 0 -> S] /\ Upto(0, [n \in 0 .. 0 |-> s])
    OBVIOUS
  <2> QED
    BY <2>1
<1>2. ASSUME T # {} PROVE FALSE
  <2>1. T \in SUBSET Nat
    OBVIOUS
  <2>2. PICK m \in T : \A n \in T : m <= n
    <3> HIDE DEF T
    <3> QED
      BY <1>2, <2>1, Least
  <2>3. m \in 0 .. N /\ m # 0 /\ ~\E f \in [0 .. m -> S] : Upto(m, f)
    BY <1>1
  <2>4. m \in 1 .. N /\ m - 1 \in 0 .. N /\ m - 1 \notin T
    <3>1. m \in 1 .. N /\ m - 1 \in 0 .. N
      BY <2>3
    <3> HIDE DEF T
    <3> QED
      BY <3>1, <2>2
  <2>5. PICK f \in [0 .. m - 1 -> S] : Upto(m - 1, f)
    BY <2>4
  <2> DEFINE g == [n \in 0 .. m |-> IF n = m THEN G[m][f[m - 1]] ELSE f[n]]
  <2> HIDE DEF T
  <2>6. g \in [0 .. m -> S]
    <3>1. f[m - 1] \in S
      BY <2>4, <2>5
    <3>2. G[m][f[m - 1]] \in S
      BY <3>1, <2>4 DEF IsStep
    <3>3. \A n \in 0 .. m : n # m => f[n] \in S
      BY <2>4
    <3> QED
      BY <3>2, <3>3
  <2>7. g[0] = s
    BY <2>4, <2>5
  <2>8. ASSUME NEW n \in 1 .. m PROVE g[n] = G[n][g[n - 1]]
    <3>1. n - 1 \in 0 .. m /\ n - 1 # m /\ n \in 0 .. m
      BY <2>4
    <3>2. g[n - 1] = f[n - 1]
      BY <3>1
    <3>3. CASE n = m
      BY <3>1, <3>2, <3>3
    <3>4. CASE n # m
      <4>1. n \in 1 .. m - 1
        BY <2>4, <3>4
      <4> QED
        BY <2>5, <3>1, <3>2, <3>4, <4>1
    <3> QED
      BY <3>3, <3>4
  <2> HIDE DEF g
  <2> QED
    BY <2>3, <2>6, <2>7, <2>8
<1>3. N \notin T
  BY <1>2
<1> QED
  BY <1>3 DEF Solution

(* _cx_sort parts a range: none left of the cut is behind the pivot, none  *)
(* right of it before, and of two records or more some are right of it.    *)
LEMMA PartitionParts ==
    ASSUME NEW D, NEW C, NEW d, NEW lo, NEW hi, ArrayRange(D, C, d, lo, hi)
    PROVE  LET p == Partition(d, lo, hi)
           IN /\ Rearranged(d, p.d, lo, hi)
              /\ p.d \in [D -> C]
              /\ p.j \in lo .. hi
              /\ lo < hi => p.j < hi
              /\ \A x \in lo .. p.j : Full(p.d[x], d[lo]) <= 0
              /\ \A x \in p.j + 1 .. hi : Full(p.d[x], d[lo]) >= 0
<1> DEFINE N == hi - lo + 1
           start == [d |-> d, i |-> lo - 1, j |-> hi + 1]
           Step(b) == IF b.i < b.j THEN Pass(b, lo, hi, d[lo]) ELSE b
           S == {b \in [d : [D -> C], i : lo - 1 .. hi, j : lo .. hi + 1] :
                    Parting(b, D, C, d, lo, hi)}
           Solves(f) == f = [n \in 0 .. N |-> IF n = 0 THEN start ELSE Step(f[n - 1])]
           pass == CHOOSE f : Solves(f)
<1>0. /\ lo \in Nat /\ hi \in Nat /\ lo <= hi /\ lo .. hi \subseteq D
      /\ d \in [D -> C] /\ C \subseteq Cell /\ N \in Nat \ {0}
  BY DEF ArrayRange
<1>1. start \in S
  <2>1. start \in [d : [D -> C], i : lo - 1 .. hi, j : lo .. hi + 1]
    BY <1>0
  <2>2. Rearranged(d, d, lo, hi)
    BY <1>0, RearrangedSelf
  <2>3. start.d = d /\ start.i = lo - 1 /\ start.j = hi + 1
    OBVIOUS
  <2> HIDE DEF start
  <2>4. Parting(start, D, C, d, lo, hi)
    BY <1>0, <2>1, <2>2, <2>3 DEF Parting
  <2> QED
    BY <2>1, <2>4
<1>2. ASSUME NEW b \in S
      PROVE  /\ Step(b) \in S
             /\ b.i < b.j => Step(b).j - Step(b).i <= b.j - b.i - 2
  <2>1. Parting(b, D, C, d, lo, hi)
    OBVIOUS
  <2>2. CASE b.i < b.j
    <3> DEFINE a == Pass(b, lo, hi, d[lo])
    <3>1. Parting(a, D, C, d, lo, hi) /\ a.j - a.i <= b.j - b.i - 2
      BY <2>1, <2>2, PassParts
    <3>2. Step(b) = a
      BY <2>2
    <3> HIDE DEF a, Step
    <3>3. a \in S
      BY <3>1 DEF Parting
    <3> QED
      BY <3>1, <3>2, <3>3
  <2>3. CASE ~(b.i < b.j)
    BY <2>3
  <2> QED
    BY <2>2, <2>3
<1>3. \E f : Solves(f)
  <2> DEFINE G == [n \in 1 .. N |-> [x \in S |-> Step(x)]]
  <2>1. IsStep(G, N, S)
    <3> HIDE DEF S, Step
    <3> QED
      BY <1>2 DEF IsStep
  <2>2. \A x \in S, n \in 1 .. N : G[n][x] = Step(x)
    <3> HIDE DEF S, Step
    <3> QED
      OBVIOUS
  <2> HIDE DEF G, N, S, start, Step
  <2>3. PICK f : Solution(f, G, N, start, S)
    BY <1>0, <1>1, <2>1, Recursion
  <2>4. ASSUME NEW n \in 0 .. N
        PROVE  f[n] = IF n = 0 THEN start ELSE Step(f[n - 1])
    <3>1. CASE n # 0
      <4>1. n \in 1 .. N /\ n - 1 \in 0 .. N
        BY <1>0, <3>1
      <4>2. f[n - 1] \in S
        BY <2>3, <4>1 DEF Solution
      <4> QED
        BY <2>2, <2>3, <3>1, <4>1, <4>2 DEF Solution
    <3> QED
      BY <2>3, <3>1 DEF Solution
  <2>5. f = [n \in 0 .. N |-> f[n]]
    BY <2>3 DEF Solution
  <2>6. Solves(f)
    BY <2>4, <2>5
  <2> QED
    BY <2>6
<1>4. Solves(pass)
  <2> HIDE DEF Solves
  <2> QED
    BY <1>3
<1>5. Partition(d, lo, hi) = pass[N]
  BY DEF Partition
<1> HIDE DEF pass, N, S, start, Step
<1>6. pass[0] = start /\ \A n \in 1 .. N : pass[n] = Step(pass[n - 1])
  BY <1>0, <1>4
(* Each pass brings i and j two closer.                                    *)
<1> DEFINE T == {n \in 0 .. N : /\ pass[n] \in S
                                /\ pass[n].i < pass[n].j =>
                                     pass[n].j - pass[n].i <= N + 1 - 2 * n}
<1>7. 0 \in T
  <2>1. start.j - start.i = N + 1
    BY <1>0 DEF start, N
  <2> QED
    BY <1>0, <1>1, <1>6, <2>1
<1>8. ASSUME NEW n \in 1 .. N, n - 1 \in T PROVE n \in T
  <2> DEFINE b == pass[n - 1]
             a == pass[n]
  <2>1. b \in S /\ (b.i < b.j => b.j - b.i <= N + 1 - 2 * (n - 1))
    BY <1>8
  <2>2. a = Step(b) /\ n \in 0 .. N
    BY <1>0, <1>6
  <2> HIDE DEF a, b
  <2>3. a \in S /\ (b.i < b.j => a.j - a.i <= b.j - b.i - 2)
    BY <1>2, <2>1, <2>2
  <2>4. ~(b.i < b.j) => a = b
    BY <2>2 DEF Step
  <2>5. a.i \in Int /\ a.j \in Int /\ b.i \in Int /\ b.j \in Int
    BY <1>0, <2>1, <2>3 DEF S
  <2>6. a.i < a.j => a.j - a.i <= N + 1 - 2 * n
    BY <1>0, <2>1, <2>3, <2>4, <2>5
  <2> QED
    BY <2>2, <2>3, <2>6 DEF a
<1>9. N \in T
  <2> HIDE DEF T
  <2> QED
    BY <1>0, <1>7, <1>8, Upwards
<1> DEFINE p == pass[N]
<1>10. p \in S /\ (p.i < p.j => p.j - p.i <= N + 1 - 2 * N)
  BY <1>9
<1> HIDE DEF p
<1>11. /\ Parting(p, D, C, d, lo, hi)
       /\ p \in [d : [D -> C], i : lo - 1 .. hi, j : lo .. hi + 1]
  BY <1>10 DEF S
<1>12. ~(p.i < p.j)
  BY <1>0, <1>10, <1>11
<1>13. p.j \in lo .. hi
  BY <1>0, <1>11, <1>12 DEF Parting
<1> QED
  BY <1>5, <1>11, <1>12, <1>13 DEF Parting, p

(* The ranges of arrays over D of records of C: what _cx_sort is called    *)
(* for.                                                                    *)
Ranges(D, C) == {r \in [d : [D -> C], lo : D, hi : D] : r.lo <= r.hi}

(* R orders the records of K the way the comparator does.                  *)
Orders(R, K) ==
    /\ K \subseteq Cell
    /\ \A a, b \in K : /\ Full(a, b) <= 0 => <<a, b>> \in R
                       /\ Full(a, b) >= 0 => <<b, a>> \in R
    /\ \A a, b, c \in K : <<a, b>> \in R /\ <<b, c>> \in R => <<a, c>> \in R

(* Positions lo .. hi of d are in the order R.                             *)
InOrder(R, d, lo, hi) == \A x, y \in lo .. hi : x < y => <<d[x], d[y]>> \in R

(* What is known of the sort of ranges: of those of K, up to n records, it *)
(* is known that they are put in order.                                    *)
IsSort(s, D, C) ==
    /\ s \in [Ranges(D, C) -> [D -> C]]
    /\ \A r \in Ranges(D, C) : Rearranged(r.d, s[r], r.lo, r.hi)

SortsUpTo(n, s, R, K, D, C) ==
    \A r \in Ranges(D, C) :
        r.hi - r.lo < n /\ (\A x \in r.lo .. r.hi : r.d[x] \in K)
          => InOrder(R, s[r], r.lo, r.hi)

(* If the sort of shorter ranges rearranges and orders them, so does       *)
(* _cx_sort of the range it has parted.                                    *)
LEMMA SortRangeStep ==
    ASSUME NEW N \in Nat, NEW C \in SUBSET Cell, NEW s, IsSort(s, 0 .. N, C),
           NEW r \in Ranges(0 .. N, C)
    PROVE  /\ SortRange(r, s) \in [0 .. N -> C]
           /\ Rearranged(r.d, SortRange(r, s), r.lo, r.hi)
           /\ \A R, K, n :
                 /\ Orders(R, K) /\ n \in Nat \ {0} /\ r.hi - r.lo < n
                 /\ SortsUpTo(n - 1, s, R, K, 0 .. N, C)
                 /\ \A x \in r.lo .. r.hi : r.d[x] \in K
                 => InOrder(R, SortRange(r, s), r.lo, r.hi)
<1> DEFINE D == 0 .. N
           lo == r.lo
           hi == r.hi
           pv == r.d[lo]
           p == Partition(r.d, lo, hi)
           j == p.j
           shorter == [d |-> Swapped(p.d, lo, j), lo |-> lo, hi |-> j]
           left == IF j > lo THEN s[shorter] ELSE p.d
           rest == [d |-> left, lo |-> j + 1, hi |-> hi]
           out == IF hi - j > 1 THEN s[rest] ELSE left
<1>0. out = SortRange(r, s)
  BY DEF SortRange
<1>1. /\ lo \in Nat /\ hi \in Nat /\ lo <= hi /\ lo .. hi \subseteq D
      /\ lo \in D /\ hi \in D /\ r.d \in [D -> C] /\ ArrayRange(D, C, r.d, lo, hi)
      /\ IsSort(s, D, C)
  BY DEF Ranges, ArrayRange
<1>2. /\ Rearranged(r.d, p.d, lo, hi)
      /\ p.d \in [D -> C]
      /\ j \in lo .. hi
      /\ lo < hi => j < hi
      /\ \A x \in lo .. j : Full(p.d[x], pv) <= 0
      /\ \A x \in j + 1 .. hi : Full(p.d[x], pv) >= 0
  BY <1>1, PartitionParts
<1>3. j \in Nat /\ j \in D
  BY <1>1, <1>2
<1> HIDE DEF p, j, lo, hi, D
(* The left part.                                                          *)
<1>4. /\ left \in [D -> C] /\ Rearranged(p.d, left, lo, j)
      /\ j > lo => /\ shorter \in Ranges(D, C)
                   /\ left = s[shorter]
                   /\ AllFrom(p.d, shorter.d, lo, j)
  <2>1. CASE j > lo
    <3>1. lo \in lo .. j /\ j \in lo .. j
      BY <1>1, <1>2, <1>3
    <3>2. /\ Swapped(p.d, lo, j) \in [D -> C]
          /\ Rearranged(p.d, Swapped(p.d, lo, j), lo, j)
      BY <1>1, <1>2, <1>3, <3>1, SwapRearranges
    <3> DEFINE e == Swapped(p.d, lo, j)
    <3> HIDE DEF e
    <3>a. AllFrom(p.d, e, lo, j)
      <4>1. lo .. j \subseteq D
        BY <1>1, <1>2, <1>3
      <4>2. p.d \in [D -> C] /\ e \in [D -> C] /\ Rearranged(p.d, e, lo, j)
        BY <1>2, <3>2 DEF e
      <4> QED
        BY <4>1, <4>2, RearrangedKeeps
    <3>3. shorter.d = Swapped(p.d, lo, j) /\ shorter.d = e /\ shorter.lo = lo /\ shorter.hi = j
      BY DEF e
    <3>4. shorter \in Ranges(D, C)
      BY <1>1, <1>2, <1>3, <2>1, <3>2 DEF Ranges
    <3> HIDE DEF shorter
    <3>5. left = s[shorter]
      BY <2>1
    <3> HIDE DEF left
    <3>6. left \in [D -> C] /\ Rearranged(shorter.d, left, lo, j)
      BY <3>3, <3>4, <3>5, <1>1 DEF IsSort
    <3>7. Rearranged(p.d, left, lo, j)
      BY <1>2, <3>2, <3>3, <3>6, RearrangedTransitive
    <3> QED
      BY <3>a, <3>3, <3>4, <3>5, <3>6, <3>7
  <2>2. CASE ~(j > lo)
    <3>1. left = p.d
      BY <2>2
    <3> HIDE DEF left
    <3>2. Rearranged(p.d, p.d, lo, j)
      BY <1>2, RearrangedSelf
    <3> QED
      BY <1>2, <2>2, <3>1, <3>2
  <2> QED
    BY <2>1, <2>2
<1> HIDE DEF left, shorter
(* The right part.                                                         *)
<1>5. /\ out \in [D -> C] /\ Rearranged(left, out, j + 1, hi)
      /\ hi - j > 1 => rest \in Ranges(D, C) /\ out = s[rest]
  <2>1. CASE hi - j > 1
    <3>1. j + 1 \in D /\ j + 1 <= hi
      <4>1. j + 1 \in lo .. hi
        BY <1>1, <1>2, <1>3, <2>1
      <4> QED
        BY <1>1, <4>1
    <3>2. rest \in Ranges(D, C)
      BY <1>1, <1>4, <3>1 DEF Ranges
    <3>3. rest.d = left /\ rest.lo = j + 1 /\ rest.hi = hi
      OBVIOUS
    <3> HIDE DEF rest
    <3>4. out = s[rest]
      BY <2>1
    <3> QED
      BY <1>1, <3>2, <3>3, <3>4 DEF IsSort
  <2>2. CASE ~(hi - j > 1)
    <3>1. out = left
      BY <2>2
    <3>2. Rearranged(left, left, j + 1, hi)
      BY <1>4, RearrangedSelf
    <3> QED
      BY <1>4, <2>2, <3>1, <3>2
  <2> QED
    BY <2>1, <2>2
<1>6. rest.d = left /\ rest.lo = j + 1 /\ rest.hi = hi
  OBVIOUS
<1> HIDE DEF out, rest
<1>7. Rearranged(r.d, left, lo, hi)
  <2>1. Rearranged(p.d, left, lo, hi)
    BY <1>1, <1>2, <1>3, <1>4, RearrangedWider
  <2> QED
    BY <1>1, <1>2, <2>1, RearrangedTransitive
<1>8. Rearranged(r.d, out, lo, hi)
  <2>1. Rearranged(left, out, lo, hi)
    BY <1>1, <1>2, <1>3, <1>5, RearrangedWider
  <2> QED
    BY <1>1, <1>7, <2>1, RearrangedTransitive
<1>9. ASSUME NEW R, NEW K, NEW n \in Nat \ {0}, Orders(R, K), hi - lo < n,
             SortsUpTo(n - 1, s, R, K, D, C),
             \A x \in lo .. hi : r.d[x] \in K
      PROVE  InOrder(R, out, lo, hi)
  <2>1. /\ \A x \in lo .. hi : p.d[x] \in K /\ left[x] \in K /\ out[x] \in K
        /\ pv \in K
    <3>1. AllFrom(r.d, p.d, lo, hi)
      BY <1>1, <1>2, RearrangedKeeps
    <3>2. AllFrom(r.d, left, lo, hi)
      BY <1>1, <1>7, RearrangedKeeps
    <3>3. AllFrom(r.d, out, lo, hi)
      BY <1>1, <1>8, RearrangedKeeps
    <3>4. lo \in lo .. hi
      BY <1>1
    <3> QED
      BY <1>9, <3>1, <3>2, <3>3, <3>4 DEF AllFrom
  <2>2. lo .. j \subseteq lo .. hi /\ j + 1 .. hi \subseteq lo .. hi
    BY <1>1, <1>2, <1>3
  <2>3. \A x \in lo .. j : <<p.d[x], pv>> \in R
    BY <1>2, <1>9, <2>1, <2>2 DEF Orders
  <2>4. \A x \in j + 1 .. hi : <<pv, p.d[x]>> \in R
    BY <1>2, <1>9, <2>1, <2>2 DEF Orders
  <2>5. InOrder(R, left, lo, j)
    <3>1. CASE j > lo
      <4>1. /\ shorter \in Ranges(D, C) /\ left = s[shorter]
            /\ shorter.lo = lo /\ shorter.hi = j
        BY <1>4, <3>1 DEF shorter
      <4>2. AllFrom(p.d, shorter.d, lo, j)
        BY <1>4, <3>1
      <4>3. \A x \in lo .. j : shorter.d[x] \in K
        BY <2>1, <2>2, <4>2 DEF AllFrom
      <4>4. shorter.hi - shorter.lo < n - 1
        BY <1>1, <1>2, <1>3, <1>9, <3>1, <4>1
      <4> QED
        BY <1>9, <4>1, <4>3, <4>4 DEF SortsUpTo
    <3>2. CASE ~(j > lo)
      BY <1>1, <1>2, <1>3, <3>2 DEF InOrder
    <3> QED
      BY <3>1, <3>2
  <2>6. SameOutside(p.d, left, D, lo, j) /\ AllFrom(p.d, left, lo, j)
    <3>1. lo .. j \subseteq D
      BY <1>1, <2>2
    <3>2. p.d \in [D -> C] /\ Rearranged(p.d, left, lo, j)
      BY <1>2, <1>4
    <3> DEFINE e == p.d
    <3>3. lo .. j \subseteq D /\ e \in [D -> C] /\ Rearranged(e, left, lo, j)
      BY <3>1, <3>2
    <3> HIDE DEF e
    <3>4. SameOutside(e, left, D, lo, j) /\ AllFrom(e, left, lo, j)
      BY <3>3, RearrangedKeeps
    <3> QED
      BY <3>4 DEF e
  <2>7. /\ \A x \in lo .. j : <<left[x], pv>> \in R
        /\ \A x \in j + 1 .. hi : <<pv, left[x]>> \in R
    <3>1. \A x \in j + 1 .. hi : x \in D /\ x \notin lo .. j
      BY <1>1, <1>3, <2>2
    <3> QED
      BY <2>3, <2>4, <2>6, <3>1 DEF SameOutside, AllFrom
  <2>8. /\ \A x \in lo .. j : out[x] = left[x]
        /\ \A x \in j + 1 .. hi : \E y \in j + 1 .. hi : out[x] = left[y]
    <3>1. j + 1 .. hi \subseteq D /\ \A x \in lo .. j : x \in D /\ x \notin j + 1 .. hi
      BY <1>1, <1>3, <2>2
    <3>2. SameOutside(left, out, D, j + 1, hi) /\ AllFrom(left, out, j + 1, hi)
      BY <1>4, <1>5, <3>1, RearrangedKeeps
    <3> QED
      BY <3>1, <3>2 DEF SameOutside, AllFrom
  <2>9. InOrder(R, out, j + 1, hi)
    <3>1. CASE hi - j > 1
      <4>1. /\ rest \in Ranges(D, C) /\ out = s[rest]
            /\ rest.d = left /\ rest.lo = j + 1 /\ rest.hi = hi
        BY <1>5, <1>6, <3>1
      <4>2. \A x \in j + 1 .. hi : rest.d[x] \in K
        BY <2>1, <2>2, <4>1
      <4>3. rest.hi - rest.lo < n - 1
        BY <1>1, <1>2, <1>3, <1>9, <4>1
      <4> QED
        BY <1>9, <4>1, <4>2, <4>3 DEF SortsUpTo
    <3>2. CASE ~(hi - j > 1)
      BY <1>1, <1>3, <3>2 DEF InOrder
    <3> QED
      BY <3>1, <3>2
  <2>10. ASSUME NEW x \in lo .. hi, NEW y \in lo .. hi, x < y
         PROVE  <<out[x], out[y]>> \in R
    <3>1. CASE y <= j
      <4>1. x \in lo .. j /\ y \in lo .. j
        BY <1>1, <1>3, <2>10, <3>1
      <4> QED
        BY <2>5, <2>8, <2>10, <4>1 DEF InOrder
    <3>2. CASE x > j
      <4>1. x \in j + 1 .. hi /\ y \in j + 1 .. hi
        BY <1>1, <1>3, <2>10, <3>2
      <4> QED
        BY <2>9, <2>10, <4>1 DEF InOrder
    <3>3. CASE x <= j /\ y > j
      <4>1. x \in lo .. j /\ y \in j + 1 .. hi
        BY <1>1, <1>3, <3>3
      <4>2. <<out[x], pv>> \in R /\ <<pv, out[y]>> \in R
        BY <2>7, <2>8, <4>1
      <4> QED
        BY <1>9, <2>1, <4>2 DEF Orders
    <3> QED
      BY <1>1, <1>3, <3>1, <3>2, <3>3
  <2> QED
    BY <2>10 DEF InOrder
<1> HIDE DEF pv
<1> QED
  BY <1>0, <1>5, <1>8, <1>9 DEF lo, hi, D

(* cx_sort_quick rearranges the records, and whatever transitive order     *)
(* agrees with the comparator on them is the order it leaves them in; this *)
(* for arrays of any length.                                               *)
THEOREM SortedSorts ==
    ASSUME NEW N \in Nat, NEW d \in [0 .. N -> Cell], NEW num \in 1 .. N + 1
    PROVE  /\ Rearranged(d, Sorted(d, num), 0, num - 1)
           /\ \A R, K : /\ Orders(R, K)
                        /\ \A x \in 0 .. num - 1 : d[x] \in K
                        => InOrder(R, Sorted(d, num), 0, num - 1)
<1> DEFINE D == 0 .. N
           C == Range(d)
           Rs == Ranges(D, C)
           S == {s \in [Rs -> [D -> C]] : IsSort(s, D, C)}
           start == [r \in Rs |-> r.d]
           Step(s) == [r \in Rs |-> SortRange(r, s)]
           Solves(f) == f = [n \in 0 .. num |->
                               [r \in Rs |-> IF n = 0 THEN r.d
                                             ELSE SortRange(r, f[n - 1])]]
           sort == CHOOSE f : Solves(f)
           all == [d |-> d, lo |-> 0, hi |-> num - 1]
<1>1. DOMAIN d = D /\ C \in SUBSET Cell /\ d \in [D -> C]
  BY DEF Range
<1>2. Sorted(d, num) = sort[num][all]
  <2>1. Rs = {r \in [d : [DOMAIN d -> Range(d)], lo : DOMAIN d, hi : DOMAIN d] :
                r.lo <= r.hi}
    BY <1>1 DEF Ranges
  <2> HIDE DEF Rs
  <2>2. num # 0
    OBVIOUS
  <2> QED
    BY <2>1, <2>2 DEF Sorted
<1>3. num \in Nat /\ num \in 0 .. num
  OBVIOUS
<1>4. all \in Rs /\ all.d = d /\ all.lo = 0 /\ all.hi = num - 1
  <2>1. 0 \in D /\ num - 1 \in D /\ 0 <= num - 1
    OBVIOUS
  <2> HIDE DEF D, C
  <2> QED
    BY <1>1, <2>1 DEF Ranges
<1>5. start \in S
  <2> HIDE DEF D, C
  <2>1. start \in [Rs -> [D -> C]]
    BY DEF Ranges
  <2>2. ASSUME NEW r \in Rs PROVE Rearranged(r.d, start[r], r.lo, r.hi)
    <3>1. r.d \in [D -> C] /\ start[r] = r.d
      BY DEF Ranges
    <3> QED
      BY <3>1, RearrangedSelf
  <2> HIDE DEF start
  <2>3. IsSort(start, D, C)
    BY <2>1, <2>2 DEF IsSort
  <2> QED
    BY <2>1, <2>3
<1>6. ASSUME NEW s \in S PROVE Step(s) \in S
  <2>1. IsSort(s, D, C)
    OBVIOUS
  <2>2. \A r \in Rs : /\ SortRange(r, s) \in [D -> C]
                      /\ Rearranged(r.d, SortRange(r, s), r.lo, r.hi)
    BY <1>1, <2>1, SortRangeStep
  <2> HIDE DEF D, C
  <2>3. Step(s) \in [Rs -> [D -> C]] /\ \A r \in Rs : Step(s)[r] = SortRange(r, s)
    BY <2>2
  <2> HIDE DEF Step
  <2>4. IsSort(Step(s), D, C)
    BY <2>2, <2>3 DEF IsSort
  <2> QED
    BY <2>3, <2>4
<1> HIDE DEF D, C, all
<1>7. \E f : Solves(f)
  <2> DEFINE G == [n \in 1 .. num |-> [x \in S |-> Step(x)]]
  <2>1. IsStep(G, num, S)
    <3> HIDE DEF S, Step
    <3> QED
      BY <1>6 DEF IsStep
  <2>2. \A x \in S, n \in 1 .. num : G[n][x] = Step(x)
    <3> HIDE DEF S, Step
    <3> QED
      OBVIOUS
  <2> HIDE DEF G, S
  <2>3. PICK f : Solution(f, G, num, start, S)
    BY <1>3, <1>5, <2>1, Recursion
  <2>4. ASSUME NEW n \in 0 .. num
        PROVE  f[n] = [r \in Rs |-> IF n = 0 THEN r.d ELSE SortRange(r, f[n - 1])]
    <3>1. CASE n # 0
      <4>1. n \in 1 .. num /\ n - 1 \in 0 .. num
        BY <3>1
      <4>2. f[n - 1] \in S
        BY <2>3, <4>1 DEF Solution
      <4>3. f[n] = Step(f[n - 1])
        BY <2>2, <2>3, <4>1, <4>2 DEF Solution
      <4> QED
        BY <3>1, <4>3
    <3>2. CASE n = 0
      BY <2>3, <3>2 DEF Solution
    <3> QED
      BY <3>1, <3>2
  <2>5. f = [n \in 0 .. num |-> f[n]]
    BY <2>3 DEF Solution
  <2> HIDE DEF Rs
  <2>6. Solves(f)
    BY <2>4, <2>5
  <2> QED
    BY <2>6
<1>8. Solves(sort)
  <2> HIDE DEF Solves
  <2> QED
    BY <1>7
<1> HIDE DEF sort
<1>9. sort[0] = start /\ \A n \in 1 .. num : sort[n] = Step(sort[n - 1])
  <2> HIDE DEF Rs
  <2>1. ASSUME NEW n \in 0 .. num
        PROVE  sort[n] = [r \in Rs |-> IF n = 0 THEN r.d ELSE SortRange(r, sort[n - 1])]
    BY <1>8
  <2>2. sort[0] = start
    BY <1>3, <2>1
  <2>3. ASSUME NEW n \in 1 .. num PROVE sort[n] = Step(sort[n - 1])
    <3>1. n \in 0 .. num /\ n # 0
      OBVIOUS
    <3> QED
      BY <2>1, <3>1
  <2> QED
    BY <2>2, <2>3
<1> HIDE DEF S, Step
<1> DEFINE T == {n \in 0 .. num :
                   /\ sort[n] \in S
                   /\ \A R, K : Orders(R, K) => SortsUpTo(n, sort[n], R, K, D, C)}
<1>10. 0 \in T
  <2>1. \A R, K : SortsUpTo(0, sort[0], R, K, D, C)
    <3> SUFFICES ASSUME NEW r \in Rs, r.hi - r.lo < 0 PROVE FALSE
      BY DEF SortsUpTo
    <3>1. r.lo \in D /\ r.hi \in D /\ r.lo <= r.hi
      BY DEF Ranges
    <3> QED
      BY <3>1 DEF D
  <2> QED
    BY <1>3, <1>5, <1>9, <2>1
<1>11. ASSUME NEW n \in 1 .. num, n - 1 \in T PROVE n \in T
  <2>1. sort[n - 1] \in S /\ sort[n] = Step(sort[n - 1]) /\ n \in 0 .. num
    BY <1>9, <1>11
  <2>2. IsSort(sort[n - 1], D, C) /\ n \in Nat \ {0}
    BY <2>1 DEF S
  <2>3. ASSUME NEW R, NEW K, Orders(R, K), NEW r \in Rs, r.hi - r.lo < n,
               \A x \in r.lo .. r.hi : r.d[x] \in K
        PROVE  InOrder(R, sort[n][r], r.lo, r.hi)
    <3>1. SortsUpTo(n - 1, sort[n - 1], R, K, D, C)
      BY <1>11, <2>3
    <3>2. InOrder(R, SortRange(r, sort[n - 1]), r.lo, r.hi)
      BY <1>1, <2>2, <2>3, <3>1, SortRangeStep DEF D
    <3>3. sort[n][r] = SortRange(r, sort[n - 1])
      BY <2>1, <2>3 DEF Step
    <3> QED
      BY <3>2, <3>3
  <2>4. \A R, K : Orders(R, K) => SortsUpTo(n, sort[n], R, K, D, C)
    BY <2>3 DEF SortsUpTo
  <2>5. sort[n] \in S
    BY <1>6, <2>1
  <2> QED
    BY <2>1, <2>4, <2>5
<1>12. num \in T
  <2> HIDE DEF T
  <2> QED
    BY <1>3, <1>10, <1>11, Upwards
<1>13. Rearranged(d, sort[num][all], 0, num - 1)
  <2>1. IsSort(sort[num], D, C)
    BY <1>12 DEF S
  <2> QED
    BY <1>4, <2>1 DEF IsSort
<1>14. ASSUME NEW R, NEW K, Orders(R, K), \A x \in 0 .. num - 1 : d[x] \in K
       PROVE  InOrder(R, sort[num][all], 0, num - 1)
  <2>1. SortsUpTo(num, sort[num], R, K, D, C)
    BY <1>12, <1>14
  <2>2. all.hi - all.lo < num
    BY <1>3, <1>4
  <2> QED
    BY <1>4, <1>14, <2>1, <2>2 DEF SortsUpTo
<1> QED
  BY <1>2, <1>13, <1>14

(* By partition and key alone, and with the newest of a key first.         *)
ByKey == {p \in Cell \X Cell : ~Before(p[2], p[1])}
ByAge(K) ==
    {p \in K \X K : \/ Before(p[1], p[2])
                    \/ p[1].key = p[2].key /\ p[2].ts <= p[1].ts}

(* The fields of a record are numbers.                                     *)
LEMMA CellKeys ==
    ASSUME NEW a \in Cell
    PROVE  a.key \in Nat /\ a.ts \in Nat /\ a.value \in Int /\ PartOf(a.key) \in Int
<1>1. a.key \in Nat /\ a.ts \in Nat /\ a.value \in Int
  BY DEF Cell
<1> QED
  BY <1>1, PartOfNat

(* Every comparator that breaks ties by timestamps sorts by key, however   *)
(* the differences of timestamps wrap.                                     *)
LEMMA ByKeyOrders == Orders(ByKey, Cell)
<1>1. ASSUME NEW a \in Cell, NEW b \in Cell
      PROVE  /\ Full(a, b) <= 0 => ~Before(b, a)
             /\ Full(a, b) >= 0 => ~Before(a, b)
  <2>1. a.key \in Nat /\ b.key \in Nat /\ PartOf(a.key) \in Int /\ PartOf(b.key) \in Int
    BY CellKeys
  <2>2. /\ Basic(a, b) \in {-1, 0, 1}
        /\ Basic(a, b) < 0 <=> Before(a, b)
        /\ Basic(a, b) > 0 <=> Before(b, a)
    BY <2>1, BasicOrder
  <2>3. CASE a.key = b.key
    BY <2>1, <2>3 DEF Before
  <2>4. CASE a.key # b.key
    <3>1. Full(a, b) = Basic(a, b)
      BY <2>4 DEF Full
    <3> QED
      BY <2>2, <3>1
  <2> QED
    BY <2>3, <2>4
<1>2. ASSUME NEW a \in Cell, NEW b \in Cell, NEW c \in Cell,
             ~Before(b, a), ~Before(c, b)
      PROVE  ~Before(c, a)
  <2>1. /\ a.key \in Nat /\ PartOf(a.key) \in Int
        /\ b.key \in Nat /\ PartOf(b.key) \in Int
        /\ c.key \in Nat /\ PartOf(c.key) \in Int
    BY CellKeys
  <2> QED
    BY <1>2, <2>1 DEF Before
<1>3. \A a, b \in Cell : <<a, b>> \in ByKey <=> ~Before(b, a)
  BY DEF ByKey
<1> QED
  BY <1>1, <1>2, <1>3 DEF Orders

(* Among timestamps near each other the comparator orders by key and age.  *)
LEMMA ByAgeOrders ==
    ASSUME NEW K \in SUBSET Cell, Near(K)
    PROVE  Orders(ByAge(K), K)
<1> DEFINE Sooner(a, b) == Before(a, b) \/ (a.key = b.key /\ b.ts <= a.ts)
<1>1. ASSUME NEW a \in K, NEW b \in K
      PROVE  /\ Full(a, b) <= 0 => Sooner(a, b)
             /\ Full(a, b) >= 0 => Sooner(b, a)
  <2>1. /\ a.key \in Nat /\ a.ts \in Nat /\ PartOf(a.key) \in Int
        /\ b.key \in Nat /\ b.ts \in Nat /\ PartOf(b.key) \in Int
    BY CellKeys
  <2>2. CASE a.key = b.key
    <3>1. 2 * (a.ts - b.ts) < Modulus /\ 2 * (b.ts - a.ts) < Modulus
      BY DEF Near
    <3>2. Full(a, b) = b.ts - a.ts
      BY <2>1, <2>2, <3>1, Differences DEF Full
    <3> QED
      BY <2>1, <2>2, <3>2
  <2>3. CASE a.key # b.key
    <3>1. Full(a, b) = Basic(a, b)
      BY <2>3 DEF Full
    <3>2. /\ Basic(a, b) \in {-1, 0, 1}
          /\ Basic(a, b) < 0 <=> Before(a, b)
          /\ Basic(a, b) > 0 <=> Before(b, a)
          /\ Basic(a, b) = 0 <=> a.key = b.key
      BY <2>1, BasicOrder
    <3> QED
      BY <2>3, <3>1, <3>2
  <2> QED
    BY <2>2, <2>3
<1>2. ASSUME NEW a \in K, NEW b \in K, NEW c \in K, Sooner(a, b), Sooner(b, c)
      PROVE  Sooner(a, c)
  <2>1. /\ a.key \in Nat /\ a.ts \in Nat /\ PartOf(a.key) \in Int
        /\ b.key \in Nat /\ b.ts \in Nat /\ PartOf(b.key) \in Int
        /\ c.key \in Nat /\ c.ts \in Nat /\ PartOf(c.key) \in Int
    BY CellKeys
  <2> QED
    BY <1>2, <2>1 DEF Before
<1>3. \A a, b \in K : <<a, b>> \in ByAge(K) <=> Sooner(a, b)
  BY DEF ByAge
<1> HIDE DEF Sooner
<1> QED
  BY <1>1, <1>2, <1>3 DEF Orders

-----------------------------------------------------------------------------
(* The loop of cx_sort_uniquify, over the sorted s: after record i the     *)
(* first record of each key so far has been kept, in order, and the values *)
(* of the others are freed.                                                *)
KeepsFirst(u, s, i) ==
    \A x \in 0 .. u.last : \E y \in 0 .. i :
        /\ u.d[x] = s[y]
        /\ \A z \in 0 .. i : s[z].key = s[y].key => y <= z

KeepsKeys(u, s, i) == \A y \in 0 .. i : \E x \in 0 .. u.last : u.d[x].key = s[y].key

Strictly(d, last) == \A x, y \in 0 .. last : x < y => Before(d[x], d[y])

HeapLeft(u, s, i, num) ==
    u.heap = {u.d[x].value : x \in 0 .. u.last} \cup {s[x].value : x \in i + 1 .. num - 1}

Kept(u, s, i, num, D) ==
    /\ u \in [d : [D -> Cell], last : 0 .. i, heap : SUBSET Int]
    /\ \A x \in i + 1 .. num - 1 : u.d[x] = s[x]
    /\ KeepsFirst(u, s, i)
    /\ KeepsKeys(u, s, i)
    /\ Strictly(u.d, u.last)
    /\ u.d[u.last].key = s[i].key
    /\ HeapLeft(u, s, i, num)

(* What a record that is kept, and one that is dropped, changes.           *)
LEMMA KeepRecords ==
    ASSUME NEW N \in Nat, NEW u \in [d : [0 .. N -> Cell], last : Nat, heap : SUBSET Int],
           NEW i \in 0 .. N
    PROVE  /\ Keep(u, i) = [d |-> [u.d EXCEPT ![u.last + 1] = u.d[i]],
                            last |-> u.last + 1, heap |-> u.heap]
           /\ Drop(u, i) = [d |-> [u.d EXCEPT ![i] = [u.d[i] EXCEPT !.value = 0]],
                            last |-> u.last, heap |-> u.heap \ {u.d[i].value}]
           /\ Keep(u, i) \in [d : [0 .. N -> Cell], last : Nat, heap : SUBSET Int]
           /\ Drop(u, i) \in [d : [0 .. N -> Cell], last : Nat, heap : SUBSET Int]
<1>1. u = [d |-> u.d, last |-> u.last, heap |-> u.heap]
  OBVIOUS
<1> DEFINE kept == [u.d EXCEPT ![u.last + 1] = u.d[i]]
           freed == [u.d[i] EXCEPT !.value = 0]
           dropped == [u.d EXCEPT ![i] = freed]
<1>2. Keep(u, i) = [d |-> kept, last |-> u.last + 1, heap |-> u.heap]
  <2>1. Keep(u, i) = [u EXCEPT !.last = u.last + 1, !.d = kept]
    BY DEF Keep
  <2> HIDE DEF kept
  <2> QED
    BY <1>1, <2>1
<1>3. Drop(u, i) = [d |-> dropped, last |-> u.last, heap |-> u.heap \ {u.d[i].value}]
  <2>1. Drop(u, i) = [u EXCEPT !.heap = u.heap \ {u.d[i].value},
                               !.d = [u.d EXCEPT ![i] = [u.d[i] EXCEPT !.value = 0]]]
    BY DEF Drop, Null
  <2>2. Drop(u, i) = [u EXCEPT !.heap = u.heap \ {u.d[i].value}, !.d = dropped]
    BY <2>1
  <2> HIDE DEF dropped
  <2> QED
    BY <1>1, <2>2
<1>4. [u.d EXCEPT ![u.last + 1] = u.d[i]] \in [0 .. N -> Cell]
  OBVIOUS
<1>5. [u.d[i] EXCEPT !.value = 0] \in Cell
  <2>1. u.d[i] \in Cell
    OBVIOUS
  <2> QED
    BY <2>1 DEF Cell
<1>6. [u.d EXCEPT ![i] = [u.d[i] EXCEPT !.value = 0]] \in [0 .. N -> Cell]
  BY <1>5
<1>7. u.last + 1 \in Nat
  OBVIOUS
<1> QED
  BY <1>2, <1>3, <1>4, <1>6, <1>7

(* The loop of cx_sort_uniquify keeps a record with a new key, which is    *)
(* behind all before it.                                                   *)
LEMMA KeepStep ==
    ASSUME NEW N \in Nat, NEW s \in [0 .. N -> Cell], NEW num \in 1 .. N + 1,
           InOrder(ByKey, s, 0, num - 1),
           NEW i \in 1 .. num - 1, NEW u, Kept(u, s, i - 1, num, 0 .. N),
           u.d[i].key # u.d[u.last].key
    PROVE  Kept(Keep(u, i), s, i, num, 0 .. N)
<1> DEFINE D == 0 .. N
           w == Keep(u, i)
           l == u.last
<1>1. /\ i \in D /\ i \in Nat /\ i - 1 \in D /\ i - 1 \in Nat /\ num \in Nat
      /\ u \in [d : [D -> Cell], last : Nat, heap : SUBSET Int]
      /\ l \in 0 .. i - 1 /\ l \in D /\ l + 1 \in D /\ u.d \in [D -> Cell]
  BY DEF Kept
<1>2. u.d[i] = s[i] /\ s[i] \in Cell
  <2>1. i \in (i - 1) + 1 .. num - 1
    OBVIOUS
  <2> QED
    BY <1>1, <2>1 DEF Kept
<1>3. /\ w.d = [u.d EXCEPT ![l + 1] = s[i]] /\ w.last = l + 1 /\ w.heap = u.heap
      /\ w.d \in [D -> Cell] /\ w.heap \in SUBSET Int
  <2>1. w = [d |-> [u.d EXCEPT ![l + 1] = u.d[i]], last |-> l + 1, heap |-> u.heap]
    BY <1>1, KeepRecords
  <2> HIDE DEF w
  <2>2. w.d = [u.d EXCEPT ![l + 1] = s[i]] /\ w.last = l + 1 /\ w.heap = u.heap
    BY <1>2, <2>1
  <2>3. l + 1 \in D /\ s[i] \in Cell /\ u.d \in [D -> Cell] /\ u.heap \in SUBSET Int
    BY <1>1, <1>2
  <2>4. [u.d EXCEPT ![l + 1] = s[i]] \in [D -> Cell]
    BY <2>3
  <2> QED
    BY <2>2, <2>3, <2>4
<1>4. w \in [d : [D -> Cell], last : 0 .. i, heap : SUBSET Int]
  <2>1. w = [d |-> w.d, last |-> w.last, heap |-> w.heap]
    BY <1>1, KeepRecords
  <2>2. w.last \in 0 .. i
    BY <1>1, <1>3
  <2> HIDE DEF w
  <2> QED
    BY <1>3, <2>1, <2>2
<1> HIDE DEF w
<1>5. w.d[l + 1] = s[i] /\ \A x \in D : x # l + 1 => w.d[x] = u.d[x]
  BY <1>1, <1>3
<1>6. u.d[l].key = s[i - 1].key /\ u.d[l] \in Cell /\ s[i - 1] \in Cell
  BY <1>1 DEF Kept
(* Record i comes behind all records before it.                            *)
<1>7. \A z \in 0 .. i - 1 : Before(s[z], s[i])
  <2>1. ASSUME NEW z \in 0 .. i - 1 PROVE ~Before(s[i], s[z]) /\ ~Before(s[i - 1], s[z])
    <3>1. <<s[z], s[i]>> \in ByKey
      BY <1>1 DEF InOrder
    <3>2. z = i - 1 \/ <<s[z], s[i - 1]>> \in ByKey
      BY <1>1 DEF InOrder
    <3>3. s[z] \in Cell
      BY <1>1
    <3>4. ~Before(s[i - 1], s[i - 1])
      BY <1>6, CellKeys, BasicOrder
    <3> QED
      BY <3>1, <3>2, <3>3, <3>4 DEF ByKey
  <2>2. Before(s[i - 1], s[i])
    <3>1. i - 1 \in 0 .. i - 1
      BY <1>1
    <3>2. ~Before(s[i], s[i - 1]) /\ s[i - 1].key # s[i].key
      BY <1>2, <1>6, <2>1, <3>1
    <3>3. /\ s[i].key \in Nat /\ PartOf(s[i].key) \in Int
          /\ s[i - 1].key \in Nat /\ PartOf(s[i - 1].key) \in Int
      BY <1>2, <1>6, CellKeys
    <3> QED
      BY <3>2, <3>3 DEF Before
  <2>3. ASSUME NEW z \in 0 .. i - 1 PROVE Before(s[z], s[i])
    <3>1. s[z] \in Cell
      BY <1>1
    <3>2. /\ s[i].key \in Nat /\ PartOf(s[i].key) \in Int
          /\ s[z].key \in Nat /\ PartOf(s[z].key) \in Int
          /\ s[i - 1].key \in Nat /\ PartOf(s[i - 1].key) \in Int
      BY <1>2, <1>6, <3>1, CellKeys
    <3> QED
      BY <2>1, <2>2, <3>2 DEF Before
  <2> QED
    BY <2>3
<1>8. \A z \in 0 .. i - 1 : s[z].key # s[i].key
  <2>1. ASSUME NEW z \in 0 .. i - 1 PROVE s[z].key # s[i].key
    <3>1. s[z] \in Cell
      BY <1>1
    <3>2. s[z].key \in Nat /\ PartOf(s[z].key) \in Int
      BY <3>1, CellKeys
    <3> QED
      BY <1>7, <3>2 DEF Before
  <2> QED
    BY <2>1
<1>9. \A x \in 0 .. l : x \in D /\ x # l + 1 /\ w.d[x] = u.d[x]
  BY <1>1, <1>5
<1>10. \A x \in i + 1 .. num - 1 : w.d[x] = s[x]
  <2> TAKE x \in i + 1 .. num - 1
  <2>1. x \in D /\ x # l + 1 /\ x \in (i - 1) + 1 .. num - 1
    BY <1>1
  <2> QED
    BY <1>5, <2>1 DEF Kept
<1>11. KeepsFirst(w, s, i)
  <2>1. ASSUME NEW x \in 0 .. l + 1
        PROVE  \E y \in 0 .. i : /\ w.d[x] = s[y]
                                 /\ \A z \in 0 .. i : s[z].key = s[y].key => y <= z
    <3>1. CASE x = l + 1
      <4>1. i \in 0 .. i /\ \A z \in 0 .. i : z = i \/ z \in 0 .. i - 1
        BY <1>1
      <4>2. \A z \in 0 .. i : s[z].key = s[i].key => i <= z
        BY <1>1, <1>8, <4>1
      <4> QED
        BY <1>5, <3>1, <4>1, <4>2
    <3>2. CASE x # l + 1
      <4>1. x \in 0 .. l
        BY <1>1, <3>2
      <4>2. PICK y \in 0 .. i - 1 :
               u.d[x] = s[y] /\ \A z \in 0 .. i - 1 : s[z].key = s[y].key => y <= z
        BY <4>1 DEF Kept, KeepsFirst
      <4>3. y \in 0 .. i /\ \A z \in 0 .. i : z \in 0 .. i - 1 \/ y <= z
        BY <1>1
      <4> QED
        BY <1>9, <4>1, <4>2, <4>3
    <3> QED
      BY <3>1, <3>2
  <2> QED
    BY <1>3, <2>1 DEF KeepsFirst
<1>12. KeepsKeys(w, s, i)
  <2>1. ASSUME NEW y \in 0 .. i PROVE \E x \in 0 .. l + 1 : w.d[x].key = s[y].key
    <3>1. CASE y = i
      <4>1. l + 1 \in 0 .. l + 1
        BY <1>1
      <4> QED
        BY <1>5, <3>1, <4>1
    <3>2. CASE y # i
      <4>1. y \in 0 .. i - 1
        BY <1>1, <3>2
      <4>2. PICK x \in 0 .. l : u.d[x].key = s[y].key
        BY <4>1 DEF Kept, KeepsKeys
      <4>3. x \in 0 .. l + 1
        BY <1>1
      <4> QED
        BY <1>9, <4>2, <4>3
    <3> QED
      BY <3>1, <3>2
  <2> QED
    BY <1>3, <2>1 DEF KeepsKeys
<1>13. Strictly(w.d, w.last)
  <2>1. ASSUME NEW x \in 0 .. l + 1, NEW y \in 0 .. l + 1, x < y
        PROVE  Before(w.d[x], w.d[y])
    <3>1. CASE y = l + 1
      <4>1. x \in 0 .. l
        BY <1>1, <2>1, <3>1
      <4>2. PICK z \in 0 .. i - 1 : u.d[x] = s[z]
        BY <4>1 DEF Kept, KeepsFirst
      <4> QED
        BY <1>5, <1>7, <1>9, <3>1, <4>1, <4>2
    <3>2. CASE y # l + 1
      <4>1. x \in 0 .. l /\ y \in 0 .. l
        BY <1>1, <2>1, <3>2
      <4> QED
        BY <1>9, <2>1, <4>1 DEF Kept, Strictly
    <3> QED
      BY <3>1, <3>2
  <2> QED
    BY <1>3, <2>1 DEF Strictly
<1>14. w.d[w.last].key = s[i].key
  BY <1>3, <1>5
<1>15. HeapLeft(w, s, i, num)
  <2>1. u.heap = {u.d[x].value : x \in 0 .. l} \cup {s[x].value : x \in i .. num - 1}
    <3>1. (i - 1) + 1 = i
      BY <1>1
    <3> QED
      BY <3>1 DEF Kept, HeapLeft
  <2>2. {w.d[x].value : x \in 0 .. l + 1} = {u.d[x].value : x \in 0 .. l} \cup {s[i].value}
    <3>1. \A x \in 0 .. l + 1 : x = l + 1 \/ x \in 0 .. l
      BY <1>1
    <3>2. \A x \in 0 .. l : x \in 0 .. l + 1
      BY <1>1
    <3>3. l + 1 \in 0 .. l + 1
      BY <1>1
    <3> QED
      BY <1>5, <1>9, <3>1, <3>2, <3>3
  <2>3. {s[x].value : x \in i .. num - 1} = {s[i].value} \cup {s[x].value : x \in i + 1 .. num - 1}
    <3>1. \A x \in i .. num - 1 : x = i \/ x \in i + 1 .. num - 1
      BY <1>1
    <3>2. i \in i .. num - 1 /\ \A x \in i + 1 .. num - 1 : x \in i .. num - 1
      BY <1>1
    <3> QED
      BY <3>1, <3>2
  <2> QED
    BY <1>3, <2>1, <2>2, <2>3 DEF HeapLeft
<1> QED
  BY <1>4, <1>10, <1>11, <1>12, <1>13, <1>14, <1>15 DEF Kept, w

(* The loop of cx_sort_uniquify drops a record whose key has been kept:    *)
(* its value alone is freed.                                               *)
LEMMA DropStep ==
    ASSUME NEW N \in Nat, NEW s \in [0 .. N -> Cell], NEW num \in 1 .. N + 1,
           ValuesDiffer(s, 0 .. num - 1),
           NEW i \in 1 .. num - 1, NEW u, Kept(u, s, i - 1, num, 0 .. N),
           u.d[i].key = u.d[u.last].key
    PROVE  Kept(Drop(u, i), s, i, num, 0 .. N)
<1> DEFINE D == 0 .. N
           w == Drop(u, i)
           l == u.last
<1>1. /\ i \in D /\ i \in Nat /\ i - 1 \in D /\ i - 1 \in Nat /\ num \in Nat
      /\ u \in [d : [D -> Cell], last : Nat, heap : SUBSET Int]
      /\ l \in 0 .. i - 1 /\ l \in D /\ l + 1 \in D /\ u.d \in [D -> Cell]
      /\ u.heap \in SUBSET Int
  BY DEF Kept
<1>2. u.d[i] = s[i] /\ s[i] \in Cell
  <2>1. i \in (i - 1) + 1 .. num - 1
    OBVIOUS
  <2> QED
    BY <1>1, <2>1 DEF Kept
<1> DEFINE freed == [u.d[i] EXCEPT !.value = 0]
<1>3. /\ w.d = [u.d EXCEPT ![i] = freed] /\ w.last = l
      /\ w.heap = u.heap \ {s[i].value}
      /\ w \in [d : [D -> Cell], last : Nat, heap : SUBSET Int]
  <2>1. /\ w = [d |-> [u.d EXCEPT ![i] = freed], last |-> l,
                heap |-> u.heap \ {u.d[i].value}]
        /\ w \in [d : [D -> Cell], last : Nat, heap : SUBSET Int]
    BY <1>1, KeepRecords
  <2> HIDE DEF w, freed
  <2> QED
    BY <1>1, <1>2, <2>1
<1> HIDE DEF w, freed
<1>4. w \in [d : [D -> Cell], last : 0 .. i, heap : SUBSET Int]
  <2>1. w.last \in 0 .. i
    BY <1>1, <1>3
  <2> QED
    BY <1>3, <2>1
<1>5. \A x \in D : x # i => w.d[x] = u.d[x]
  BY <1>1, <1>3
<1>6. \A x \in 0 .. l : x \in D /\ x # i /\ w.d[x] = u.d[x]
  BY <1>1, <1>5
<1>7. s[i].key = s[i - 1].key
  BY <1>2 DEF Kept
<1>8. \A x \in i + 1 .. num - 1 : w.d[x] = s[x]
  <2> TAKE x \in i + 1 .. num - 1
  <2>1. x \in D /\ x # i /\ x \in (i - 1) + 1 .. num - 1
    BY <1>1
  <2> QED
    BY <1>5, <2>1 DEF Kept
<1>9. KeepsFirst(w, s, i)
  <2>1. ASSUME NEW x \in 0 .. l
        PROVE  \E y \in 0 .. i : /\ w.d[x] = s[y]
                                 /\ \A z \in 0 .. i : s[z].key = s[y].key => y <= z
    <3>1. PICK y \in 0 .. i - 1 :
             u.d[x] = s[y] /\ \A z \in 0 .. i - 1 : s[z].key = s[y].key => y <= z
      BY DEF Kept, KeepsFirst
    <3>2. y \in 0 .. i /\ \A z \in 0 .. i : z \in 0 .. i - 1 \/ y <= z
      BY <1>1
    <3> QED
      BY <1>6, <3>1, <3>2
  <2> QED
    BY <1>3, <2>1 DEF KeepsFirst
<1>10. KeepsKeys(w, s, i)
  <2>1. ASSUME NEW y \in 0 .. i PROVE \E x \in 0 .. l : w.d[x].key = s[y].key
    <3>1. \E v \in 0 .. i - 1 : s[v].key = s[y].key
      <4>1. y \in 0 .. i - 1 \/ y = i
        BY <1>1
      <4>2. i - 1 \in 0 .. i - 1
        BY <1>1
      <4> QED
        BY <1>7, <4>1, <4>2
    <3>2. PICK v \in 0 .. i - 1 : s[v].key = s[y].key
      BY <3>1
    <3>3. PICK x \in 0 .. l : u.d[x].key = s[v].key
      BY DEF Kept, KeepsKeys
    <3> QED
      BY <1>6, <3>2, <3>3
  <2> QED
    BY <1>3, <2>1 DEF KeepsKeys
<1>11. Strictly(w.d, w.last)
  BY <1>3, <1>6 DEF Kept, Strictly
<1>12. w.d[w.last].key = s[i].key
  <2>1. l \in 0 .. l
    BY <1>1
  <2> QED
    BY <1>3, <1>6, <1>7, <2>1 DEF Kept
<1>13. HeapLeft(w, s, i, num)
  <2>1. u.heap = {u.d[x].value : x \in 0 .. l} \cup {s[x].value : x \in i .. num - 1}
    <3>1. (i - 1) + 1 = i
      BY <1>1
    <3> QED
      BY <3>1 DEF Kept, HeapLeft
  <2>2. {w.d[x].value : x \in 0 .. l} = {u.d[x].value : x \in 0 .. l}
    BY <1>6
  <2>3. {s[x].value : x \in i .. num - 1} = {s[i].value} \cup {s[x].value : x \in i + 1 .. num - 1}
    <3>1. \A x \in i .. num - 1 : x = i \/ x \in i + 1 .. num - 1
      BY <1>1
    <3>2. i \in i .. num - 1 /\ \A x \in i + 1 .. num - 1 : x \in i .. num - 1
      BY <1>1
    <3> QED
      BY <3>1, <3>2
  <2>4. s[i].value \notin {u.d[x].value : x \in 0 .. l}
    <3>1. ASSUME NEW x \in 0 .. l PROVE u.d[x].value # s[i].value
      <4>1. PICK y \in 0 .. i - 1 : u.d[x] = s[y]
        BY DEF Kept, KeepsFirst
      <4>2. y \in 0 .. num - 1 /\ i \in 0 .. num - 1 /\ y # i
        BY <1>1
      <4> QED
        BY <4>1, <4>2 DEF ValuesDiffer
    <3> QED
      BY <3>1
  <2>5. s[i].value \notin {s[x].value : x \in i + 1 .. num - 1}
    <3>1. \A x \in i + 1 .. num - 1 : x \in 0 .. num - 1 /\ i \in 0 .. num - 1 /\ x # i
      BY <1>1
    <3> QED
      BY <3>1 DEF ValuesDiffer
  <2> QED
    BY <1>3, <2>1, <2>2, <2>3, <2>4, <2>5 DEF HeapLeft
<1> QED
  BY <1>4, <1>8, <1>9, <1>10, <1>11, <1>12, <1>13 DEF Kept, w

(* cx_sort_uniquify keeps, of a sorted array, the first record of each     *)
(* key, and frees exactly the values of the others.                        *)
THEOREM UniquifiedKept ==
    ASSUME NEW N \in Nat, NEW s \in [0 .. N -> Cell], NEW num \in 1 .. N + 1,
           InOrder(ByKey, s, 0, num - 1), ValuesDiffer(s, 0 .. num - 1)
    PROVE  LET u == Uniquified(s, num, {s[x].value : x \in 0 .. num - 1})
           IN Kept(u, s, num - 1, num, 0 .. N)
<1> DEFINE M == num - 1
           S == [d : [0 .. N -> Cell], last : Nat, heap : SUBSET Int]
           values == {s[x].value : x \in 0 .. num - 1}
           start == [d |-> s, last |-> 0, heap |-> values]
           Step(b, i) == IF Basic(b.d[i], b.d[b.last]) # 0 THEN Keep(b, i) ELSE Drop(b, i)
           Solves(f) == f = [i \in 0 .. M |-> IF i = 0 THEN start ELSE Step(f[i - 1], i)]
           u == CHOOSE f : Solves(f)
<1>1. M \in Nat /\ M \in 0 .. M /\ \A i \in 1 .. M : i \in 0 .. N
  OBVIOUS
<1>2. Uniquified(s, num, values) = u[M]
  BY DEF Uniquified
<1>3. values \in SUBSET Int /\ \A x \in 0 .. M : s[x] \in Cell /\ s[x].value \in Int
  <2>1. \A x \in 0 .. num - 1 : s[x] \in Cell /\ s[x].value \in Int
    <3>1. \A x \in 0 .. num - 1 : s[x] \in Cell
      OBVIOUS
    <3> QED
      BY <3>1, CellKeys
  <2> QED
    BY <2>1
<1>4. start \in S
  BY <1>3
<1>5. \A b \in S, i \in 1 .. M : Step(b, i) \in S
  <2>1. \A b \in S, i \in 1 .. M : Keep(b, i) \in S /\ Drop(b, i) \in S
    BY <1>1, KeepRecords
  <2> HIDE DEF S
  <2> QED
    BY <2>1
<1>6. Kept(start, s, 0, num, 0 .. N)
  <2>1. start.d = s /\ start.last = 0 /\ start.heap = values
    OBVIOUS
  <2>2. start \in [d : [0 .. N -> Cell], last : 0 .. 0, heap : SUBSET Int]
    BY <1>3
  <2>3. HeapLeft(start, s, 0, num)
    <3>1. /\ \A x \in 0 .. num - 1 : x = 0 \/ x \in 0 + 1 .. num - 1
          /\ \A x \in 0 + 1 .. num - 1 : x \in 0 .. num - 1
          /\ 0 \in 0 .. num - 1
          /\ \A x : x \in 0 .. 0 <=> x = 0
      OBVIOUS
    <3>2. values = {s[x].value : x \in 0 .. 0} \cup {s[x].value : x \in 0 + 1 .. num - 1}
      BY <3>1
    <3> HIDE DEF start
    <3> QED
      BY <2>1, <3>2 DEF HeapLeft
  <2> HIDE DEF start
  <2> QED
    BY <2>1, <2>2, <2>3 DEF Kept, KeepsFirst, KeepsKeys, Strictly
<1> HIDE DEF M, S, start, values, Step
<1>7. \E f : Solves(f)
  <2> DEFINE G == [i \in 1 .. M |-> [b \in S |-> Step(b, i)]]
  <2>1. IsStep(G, M, S)
    BY <1>5 DEF IsStep
  <2>2. \A b \in S, i \in 1 .. M : G[i][b] = Step(b, i)
    OBVIOUS
  <2> HIDE DEF G
  <2>3. PICK f : Solution(f, G, M, start, S)
    BY <1>1, <1>4, <2>1, Recursion
  <2>4. ASSUME NEW i \in 0 .. M
        PROVE  f[i] = IF i = 0 THEN start ELSE Step(f[i - 1], i)
    <3>1. CASE i # 0
      <4>1. i \in 1 .. M /\ i - 1 \in 0 .. M
        BY <1>1, <3>1
      <4>2. f[i - 1] \in S
        BY <2>3, <4>1 DEF Solution
      <4> QED
        BY <2>2, <2>3, <3>1, <4>1, <4>2 DEF Solution
    <3> QED
      BY <2>3, <3>1 DEF Solution
  <2>5. f = [i \in 0 .. M |-> f[i]]
    BY <2>3 DEF Solution
  <2>6. Solves(f)
    BY <2>4, <2>5
  <2> QED
    BY <2>6
<1>8. Solves(u)
  <2> HIDE DEF Solves
  <2> QED
    BY <1>7
<1> HIDE DEF u
<1>9. u[0] = start /\ \A i \in 1 .. M : u[i] = Step(u[i - 1], i)
  BY <1>1, <1>8
<1> DEFINE T == {i \in 0 .. M : Kept(u[i], s, i, num, 0 .. N)}
<1>10. 0 \in T
  BY <1>1, <1>6, <1>9
<1>11. ASSUME NEW i \in 1 .. M, i - 1 \in T PROVE i \in T
  <2> DEFINE b == u[i - 1]
  <2>1. Kept(b, s, i - 1, num, 0 .. N) /\ i \in 0 .. M /\ i \in 1 .. num - 1
    BY <1>1, <1>11 DEF M
  <2> HIDE DEF b
  <2>2. b.d[i].key \in Nat /\ b.d[b.last].key \in Nat
    <3>1. b.d \in [0 .. N -> Cell] /\ b.last \in 0 .. i - 1
      BY <2>1 DEF Kept
    <3>2. i \in 0 .. N /\ b.last \in 0 .. N
      BY <1>1, <2>1, <3>1
    <3>3. b.d[i] \in Cell /\ b.d[b.last] \in Cell
      BY <3>1, <3>2
    <3> QED
      BY <3>3, CellKeys
  <2>3. Basic(b.d[i], b.d[b.last]) = 0 <=> b.d[i].key = b.d[b.last].key
    BY <2>2, BasicOrder
  <2>4. Kept(Step(b, i), s, i, num, 0 .. N)
    <3>1. CASE b.d[i].key = b.d[b.last].key
      <4>1. Step(b, i) = Drop(b, i)
        BY <2>3, <3>1 DEF Step
      <4> QED
        BY <2>1, <3>1, <4>1, DropStep
    <3>2. CASE b.d[i].key # b.d[b.last].key
      <4>1. Step(b, i) = Keep(b, i)
        BY <2>3, <3>2 DEF Step
      <4> QED
        BY <2>1, <3>2, <4>1, KeepStep
    <3> QED
      BY <3>1, <3>2
  <2>5. u[i] = Step(b, i)
    BY <1>9 DEF b
  <2> QED
    BY <2>1, <2>4, <2>5
<1>12. M \in T
  <2> HIDE DEF T
  <2> QED
    BY <1>1, <1>10, <1>11, Upwards
<1> QED
  BY <1>2, <1>12 DEF M, values

-----------------------------------------------------------------------------
(* cx_sort_find: what is before left is before key k, and what is behind   *)
(* right, of the num sorted records, is behind it.                         *)
Halving(b, d, k, num) ==
    /\ b \in [left : 0 .. num + 1, right : -1 .. num, found : -1 .. num]
    /\ b.left <= b.right + 1
    /\ \A x \in 0 .. num - 1 : x < b.left => Before(d[x], [key |-> k])
    /\ \A x \in 0 .. num - 1 : b.right < x => Before([key |-> k], d[x])
    /\ b.found >= 0 =>
         /\ d[b.found].key = k
         /\ b.found = num => \A x \in 0 .. num - 1 : Before(d[x], [key |-> k])

(* A step of the bisection keeps its invariant and makes the range         *)
(* shorter, or ends it.                                                    *)
LEMMA HalveHalves ==
    ASSUME NEW num \in Nat \ {0}, NEW D, 0 .. num \subseteq D, NEW d \in [D -> Cell],
           Strictly(d, num - 1), NEW k \in Nat,
           NEW b, Halving(b, d, k, num), b.left <= b.right, b.found < 0
    PROVE  LET a == Halve(d, k, b)
           IN /\ Halving(a, d, k, num)
              /\ a.found < 0 => a.right - a.left < b.right - b.left
<1> DEFINE a == Halve(d, k, b)
           mid == (b.left + b.right) \div 2
           sought == [key |-> k]
           result == Basic(d[mid], sought)
<1>1. /\ b \in [left : 0 .. num + 1, right : -1 .. num, found : -1 .. num]
      /\ b.left \in Nat /\ b.right \in Nat /\ b.right <= num /\ b.left <= num
  BY DEF Halving
<1>2. mid \in Nat /\ b.left <= mid /\ mid <= b.right
  BY <1>1
<1>3. mid = num => b.left = num /\ b.right = num
  BY <1>1
<1> HIDE DEF mid
<1>4. mid \in D /\ d[mid] \in Cell /\ \A x \in 0 .. num - 1 : d[x] \in Cell
  <2>1. mid \in 0 .. num /\ \A x \in 0 .. num - 1 : x \in 0 .. num
    BY <1>1, <1>2
  <2> QED
    BY <2>1
<1>5. sought.key = k
  OBVIOUS
<1> HIDE DEF sought
<1>6. /\ result \in {-1, 0, 1}
      /\ result < 0 <=> Before(d[mid], sought)
      /\ result = 0 <=> d[mid].key = k
      /\ result > 0 <=> Before(sought, d[mid])
  BY <1>4, <1>5, CellKeys, BasicOrder
<1> HIDE DEF result
<1>7. CASE result < 0
  <2>1. a = [b EXCEPT !.left = mid + 1]
    BY <1>6, <1>7 DEF Halve, mid, result, sought
  <2>2. a.left = mid + 1 /\ a.right = b.right /\ a.found = b.found
    BY <1>1, <2>1
  <2>3. a \in [left : 0 .. num + 1, right : -1 .. num, found : -1 .. num]
    BY <1>1, <1>2, <2>1
  <2> HIDE DEF a
  <2>4. ASSUME NEW x \in 0 .. num - 1, x < mid + 1 PROVE Before(d[x], sought)
    <3>1. CASE x = mid
      BY <1>6, <1>7, <3>1
    <3>2. CASE x < mid /\ mid < num
      <4>1. mid \in 0 .. num - 1
        BY <1>2, <3>2
      <4>2. Before(d[x], d[mid])
        BY <3>2, <4>1 DEF Strictly
      <4> QED
        BY <1>4, <1>5, <1>6, <1>7, <4>2, CellKeys, BeforeTransitive
    <3>3. CASE x < mid /\ ~(mid < num)
      <4>1. mid = num /\ x < b.left
        BY <1>1, <1>2, <1>3, <3>3
      <4> QED
        BY <4>1 DEF Halving, sought
    <3> QED
      BY <1>2, <2>4, <3>1, <3>2, <3>3
  <2> QED
    BY <1>1, <1>2, <2>2, <2>3, <2>4 DEF Halving, a, sought
<1>8. CASE result > 0
  <2>1. a = [b EXCEPT !.right = mid - 1]
    BY <1>6, <1>8 DEF Halve, mid, result, sought
  <2>2. a.left = b.left /\ a.right = mid - 1 /\ a.found = b.found
    BY <1>1, <2>1
  <2>3. a \in [left : 0 .. num + 1, right : -1 .. num, found : -1 .. num]
    BY <1>1, <1>2, <2>1
  <2> HIDE DEF a
  <2>4. ASSUME NEW x \in 0 .. num - 1, mid - 1 < x PROVE Before(sought, d[x])
    <3>1. CASE x = mid
      BY <1>6, <1>8, <3>1
    <3>2. CASE x # mid
      <4>1. mid \in 0 .. num - 1 /\ mid < x
        BY <1>2, <2>4, <3>2
      <4>2. Before(d[mid], d[x])
        BY <4>1 DEF Strictly
      <4> QED
        BY <1>4, <1>5, <1>6, <1>8, <4>2, CellKeys, BeforeTransitive
    <3> QED
      BY <3>1, <3>2
  <2> QED
    BY <1>1, <1>2, <2>2, <2>3, <2>4 DEF Halving, a, sought
<1>9. CASE result = 0
  <2>1. a = [b EXCEPT !.found = mid]
    BY <1>6, <1>9 DEF Halve, mid, result, sought
  <2>2. a.left = b.left /\ a.right = b.right /\ a.found = mid
    BY <1>1, <2>1
  <2>3. a \in [left : 0 .. num + 1, right : -1 .. num, found : -1 .. num]
    BY <1>1, <1>2, <2>1
  <2> HIDE DEF a
  <2>4. mid = num => \A x \in 0 .. num - 1 : Before(d[x], sought)
    <3>1. ASSUME mid = num, NEW x \in 0 .. num - 1 PROVE Before(d[x], sought)
      <4>1. x < b.left
        BY <1>3, <3>1
      <4> QED
        BY <4>1 DEF Halving, sought
    <3> QED
      BY <3>1
  <2> QED
    BY <1>2, <1>6, <1>9, <2>2, <2>3, <2>4 DEF Halving, a, sought
<1> QED
  BY <1>6, <1>7, <1>8, <1>9

(* All num records are before key k.                                       *)
BeforeKey(d, k, num) == \A x \in 0 .. num - 1 : Before(d[x], [key |-> k])

(* A record before or behind a key has another key.                        *)
LEMMA BeforeDiffers ==
    ASSUME NEW a \in Cell, NEW k \in Nat, Before(a, [key |-> k]) \/ Before([key |-> k], a)
    PROVE  a.key # k
<1> DEFINE sought == [key |-> k]
<1>1. a.key \in Nat /\ sought.key = k
  BY CellKeys
<1> HIDE DEF sought
<1>2. Before(a, sought) \/ Before(sought, a)
  BY DEF sought
<1> QED
  BY <1>1, <1>2, BasicOrder

(* What the position pos that a bisection ends at says.                    *)
Bisected(d, num, k, pos) ==
    /\ pos \in Int
    /\ pos >= 0 => /\ pos \in 0 .. num
                   /\ d[pos].key = k
                   /\ pos = num => BeforeKey(d, k, num)
    /\ pos < 0 => \A x \in 0 .. num - 1 : d[x].key # k

(* cx_sort_find, of sorted records: a position it gives has the key; it is *)
(* that behind the last record only if all of them are before the key; and *)
(* if it gives none, no record has the key.                                *)
THEOREM BinaryFindFinds ==
    ASSUME NEW num \in Nat \ {0}, NEW D, 0 .. num \subseteq D, NEW d \in [D -> Cell],
           Strictly(d, num - 1), NEW k \in Nat
    PROVE  Bisected(d, num, k, BinaryFind(d, num, k))
<1> DEFINE M == num + 1
           S == {b \in [left : 0 .. num + 1, right : -1 .. num, found : -1 .. num] :
                    Halving(b, d, k, num)}
           start == [left |-> 0, right |-> num, found |-> -1]
           Step(b) == IF b.left <= b.right /\ b.found < 0 THEN Halve(d, k, b) ELSE b
           Solves(f) == f = [n \in 0 .. M |-> IF n = 0 THEN start ELSE Step(f[n - 1])]
           bisect == CHOOSE f : Solves(f)
           end == bisect[M]
<1>1. M \in Nat /\ M \in 0 .. M /\ num \in Nat
  OBVIOUS
<1>2. BinaryFind(d, num, k) = IF end.found >= 0 THEN end.found ELSE - end.left - 1
  BY DEF BinaryFind
<1>3. start \in S
  <2>1. start.left = 0 /\ start.right = num /\ start.found = -1
    OBVIOUS
  <2>2. start \in [left : 0 .. num + 1, right : -1 .. num, found : -1 .. num]
    OBVIOUS
  <2> HIDE DEF start
  <2>3. Halving(start, d, k, num)
    BY <2>1, <2>2 DEF Halving
  <2> QED
    BY <2>2, <2>3
<1>4. ASSUME NEW b \in S
      PROVE  /\ Step(b) \in S
             /\ Step(b).found < 0 /\ b.found < 0 /\ b.left <= b.right
                  => Step(b).right - Step(b).left < b.right - b.left
             /\ b.found >= 0 \/ ~(b.left <= b.right) => Step(b) = b
  <2>1. Halving(b, d, k, num)
    OBVIOUS
  <2>2. CASE b.left <= b.right /\ b.found < 0
    <3> DEFINE a == Halve(d, k, b)
    <3>1. Halving(a, d, k, num) /\ (a.found < 0 => a.right - a.left < b.right - b.left)
      BY <2>1, <2>2, HalveHalves
    <3>2. Step(b) = a
      BY <2>2
    <3> HIDE DEF a, Step
    <3>3. a \in S
      BY <3>1 DEF Halving
    <3>4. b.found \in Int
      BY <2>1 DEF Halving
    <3> QED
      BY <2>2, <3>1, <3>2, <3>3, <3>4
  <2>3. CASE ~(b.left <= b.right /\ b.found < 0)
    BY <2>3
  <2>4. b.found \in Int
    BY <2>1 DEF Halving
  <2> QED
    BY <2>2, <2>3, <2>4
<1> HIDE DEF M, S, start, Step
<1>5. \E f : Solves(f)
  <2> DEFINE G == [n \in 1 .. M |-> [x \in S |-> Step(x)]]
  <2>1. IsStep(G, M, S)
    BY <1>4 DEF IsStep
  <2>2. \A x \in S, n \in 1 .. M : G[n][x] = Step(x)
    OBVIOUS
  <2> HIDE DEF G
  <2>3. PICK f : Solution(f, G, M, start, S)
    BY <1>1, <1>3, <2>1, Recursion
  <2>4. ASSUME NEW n \in 0 .. M
        PROVE  f[n] = IF n = 0 THEN start ELSE Step(f[n - 1])
    <3>1. CASE n # 0
      <4>1. n \in 1 .. M /\ n - 1 \in 0 .. M
        BY <1>1, <3>1
      <4>2. f[n - 1] \in S
        BY <2>3, <4>1 DEF Solution
      <4> QED
        BY <2>2, <2>3, <3>1, <4>1, <4>2 DEF Solution
    <3> QED
      BY <2>3, <3>1 DEF Solution
  <2>5. f = [n \in 0 .. M |-> f[n]]
    BY <2>3 DEF Solution
  <2>6. Solves(f)
    BY <2>4, <2>5
  <2> QED
    BY <2>6
<1>6. Solves(bisect)
  <2> HIDE DEF Solves
  <2> QED
    BY <1>5
<1> HIDE DEF bisect
<1>7. bisect[0] = start /\ \A n \in 1 .. M : bisect[n] = Step(bisect[n - 1])
  BY <1>1, <1>6
<1> DEFINE T == {n \in 0 .. M :
                   /\ bisect[n] \in S
                   /\ bisect[n].found < 0 /\ bisect[n].left <= bisect[n].right
                        => bisect[n].right - bisect[n].left <= num - n}
<1>8. 0 \in T
  <2>1. start.right - start.left <= num - 0
    BY DEF start
  <2> QED
    BY <1>1, <1>3, <1>7, <2>1
<1>9. ASSUME NEW n \in 1 .. M, n - 1 \in T PROVE n \in T
  <2> DEFINE b == bisect[n - 1]
             a == bisect[n]
  <2>1. /\ b \in S /\ n \in 0 .. M /\ n \in Int
        /\ b.found < 0 /\ b.left <= b.right => b.right - b.left <= num - (n - 1)
    BY <1>1, <1>9
  <2>2. a = Step(b)
    BY <1>7
  <2> HIDE DEF a, b
  <2>3. /\ a \in S
        /\ a.found < 0 /\ b.found < 0 /\ b.left <= b.right
             => a.right - a.left < b.right - b.left
        /\ b.found >= 0 \/ ~(b.left <= b.right) => a = b
    BY <1>4, <2>1, <2>2
  <2>4. /\ a.left \in Int /\ a.right \in Int /\ b.left \in Int /\ b.right \in Int
        /\ a.found \in Int /\ b.found \in Int
    BY <2>1, <2>3 DEF S
  <2>5. a.found < 0 /\ a.left <= a.right => a.right - a.left <= num - n
    BY <1>1, <2>1, <2>3, <2>4
  <2> QED
    BY <2>1, <2>3, <2>5 DEF a
<1>10. M \in T
  <2> HIDE DEF T
  <2> QED
    BY <1>1, <1>8, <1>9, Upwards
<1>11. end \in S /\ (end.found < 0 /\ end.left <= end.right => end.right - end.left <= num - M)
  BY <1>10
<1> HIDE DEF end
<1>12. /\ Halving(end, d, k, num)
       /\ end.left \in Nat /\ end.right \in Int /\ end.found \in -1 .. num
  BY <1>11 DEF S
<1>13. CASE end.found >= 0
  <2>1. BinaryFind(d, num, k) = end.found /\ end.found \in 0 .. num
    BY <1>2, <1>12, <1>13
  <2> QED
    BY <1>12, <1>13, <2>1 DEF Halving, BeforeKey, Bisected
<1>14. CASE end.found < 0
  <2>1. BinaryFind(d, num, k) = - end.left - 1 /\ - end.left - 1 < 0 /\ - end.left - 1 \in Int
    BY <1>2, <1>12, <1>14
  <2>2. end.left = end.right + 1
    BY <1>11, <1>12, <1>14 DEF M, Halving
  <2>3. ASSUME NEW x \in 0 .. num - 1 PROVE d[x].key # k
    <3>1. x < end.left \/ end.right < x
      BY <1>12, <2>2
    <3>2. Before(d[x], [key |-> k]) \/ Before([key |-> k], d[x])
      BY <1>12, <3>1 DEF Halving
    <3>3. d[x] \in Cell
      <4>1. x \in 0 .. num
        OBVIOUS
      <4> QED
        BY <4>1
    <3> QED
      BY <3>2, <3>3, BeforeDiffers
  <2> QED
    BY <2>1, <2>3 DEF Bisected
<1> QED
  BY <1>12, <1>13, <1>14

-----------------------------------------------------------------------------
(* The inductive invariant of the memtable.  The array has room for the    *)
(* records; what is behind them is anything.                               *)
ArrayInv ==
    Size \in Nat \ {0} /\ cells \in [0 .. Size - 1 -> Cell] /\ count \in 0 .. Size

(* The values of the records are allocated, each once.                     *)
ValuesInv ==
    /\ adds \in Nat
    /\ \A x \in 0 .. count - 1 : cells[x].value \in 1 .. adds
    /\ ValuesDiffer(cells, 0 .. count - 1)
    /\ heap = {cells[x].value : x \in 0 .. count - 1}

(* What is taken to be sorted is, and has no two records of a key.         *)
SortedInv == sorted => Strictly(cells, count - 1)

(* The records of a file are in order, no two of one key.                  *)
FileInv ==
    /\ file \in Seq(Cell)
    /\ \A x, y \in 1 .. Len(file) : x < y => Before(file[x], file[y])

MemtableInv == ArrayInv /\ ValuesInv /\ SortedInv /\ FileInv /\ FindExact

(* The number of cells of an array.                                        *)
LEMMA SizeOf ==
    ASSUME NEW n \in Nat \ {0}, NEW d \in [0 .. n - 1 -> Cell]
    PROVE  Cardinality(DOMAIN d) = n
<1>1. DOMAIN d = 0 .. n - 1 /\ 0 \in Int /\ n - 1 \in Int /\ ~(0 > n - 1)
  OBVIOUS
<1>2. Cardinality(0 .. n - 1) = IF 0 > n - 1 THEN 0 ELSE (n - 1) - 0 + 1
  BY <1>1, FS_Interval
<1> QED
  BY <1>1, <1>2

(* The property of the runs follows from the invariant: values are counted *)
(* by the positions that have them.                                        *)
LEMMA ValuesAreExact ==
    ASSUME ArrayInv, ValuesInv
    PROVE  ValuesExact
<1> DEFINE I == 0 .. count - 1
           f == [x \in I |-> cells[x].value]
<1>1. heap = {r.value : r \in Records}
  BY DEF ValuesInv, Records
<1>2. count \in Nat /\ IsFiniteSet(I) /\ Cardinality(I) = count
  <2>1. count \in Nat /\ 0 \in Int /\ count - 1 \in Int
    BY DEF ArrayInv
  <2>2. IsFiniteSet(I) /\ Cardinality(I) = IF 0 > count - 1 THEN 0 ELSE (count - 1) - 0 + 1
    BY <2>1, FS_Interval
  <2> HIDE DEF I
  <2> QED
    BY <2>1, <2>2
<1>3. f \in Bijection(I, heap)
  <2>1. f \in [I -> heap] /\ DOMAIN f = I
    BY DEF ValuesInv
  <2>2. \A x, y \in I : f[x] = f[y] => x = y
    BY DEF ValuesInv, ValuesDiffer
  <2>3. \A v \in heap : \E x \in I : f[x] = v
    BY DEF ValuesInv
  <2> HIDE DEF f, I
  <2> QED
    BY <2>1, <2>2, <2>3 DEF Bijection, Injection, Surjection, IsInjective
<1>4. ExistsBijection(I, heap)
  BY <1>3 DEF ExistsBijection
<1>5. Cardinality(heap) = count
  <2> HIDE DEF I
  <2> QED
    BY <1>2, <1>4, FS_Bijection
<1> QED
  BY <1>1, <1>5 DEF ValuesExact

(* memtable_preprocess: what it makes of the records.                      *)
LEMMA PreprocessedKept ==
    ASSUME ArrayInv, ValuesInv, count > 0
    PROVE  LET s == Sorted(cells, count)
           IN /\ s \in [0 .. Size - 1 -> Cell]
              /\ Kept(Preprocessed, s, count - 1, count, 0 .. Size - 1)
              /\ AllFrom(cells, s, 0, count - 1)
              /\ AllFrom(s, cells, 0, count - 1)
              /\ ValuesDiffer(s, 0 .. count - 1)
              /\ Near(Records) => InOrder(ByAge(Records), s, 0, count - 1)
<1> DEFINE N == Size - 1
           s == Sorted(cells, count)
<1>1. /\ N \in Nat /\ cells \in [0 .. N -> Cell] /\ count \in 1 .. N + 1
      /\ 0 .. count - 1 \subseteq 0 .. N
  BY DEF ArrayInv
<1> HIDE DEF N
<1>2. /\ Rearranged(cells, s, 0, count - 1)
      /\ \A R, K : /\ Orders(R, K)
                   /\ \A x \in 0 .. count - 1 : cells[x] \in K
                   => InOrder(R, s, 0, count - 1)
  BY <1>1, SortedSorts
<1> HIDE DEF s
<1>3. /\ s \in [0 .. N -> Cell]
      /\ AllFrom(cells, s, 0, count - 1) /\ AllFrom(s, cells, 0, count - 1)
  <2> DEFINE D == 0 .. N
             hi == count - 1
  <2>1. cells \in [D -> Cell] /\ 0 .. hi \subseteq D /\ Rearranged(cells, s, 0, hi)
    BY <1>1, <1>2
  <2> HIDE DEF D, hi
  <2>2. s \in [D -> Cell] /\ AllFrom(cells, s, 0, hi) /\ AllFrom(s, cells, 0, hi)
    BY <2>1, RearrangedKeeps
  <2> QED
    BY <2>2 DEF D, hi
<1>4. ValuesDiffer(s, 0 .. count - 1)
  <2> DEFINE D == 0 .. N
             hi == count - 1
  <2>1. /\ cells \in [D -> Cell] /\ 0 .. hi \subseteq D /\ Rearranged(cells, s, 0, hi)
        /\ ValuesDiffer(cells, 0 .. hi)
    BY <1>1, <1>2 DEF ValuesInv
  <2> HIDE DEF D, hi
  <2>2. ValuesDiffer(s, 0 .. hi)
    BY <2>1, RearrangedDiffer
  <2> QED
    BY <2>2 DEF hi
<1>5. InOrder(ByKey, s, 0, count - 1)
  <2>1. \A x \in 0 .. count - 1 : cells[x] \in Cell
    BY <1>1
  <2> QED
    BY <1>2, <2>1, ByKeyOrders
<1>6. Near(Records) => InOrder(ByAge(Records), s, 0, count - 1)
  <2>1. \A x \in 0 .. count - 1 : cells[x] \in Records
    BY DEF Records
  <2>2. Records \in SUBSET Cell
    BY <1>1 DEF Records
  <2> QED
    BY <1>2, <2>1, <2>2, ByAgeOrders
<1>7. heap = {s[x].value : x \in 0 .. count - 1}
  <2>1. heap = {cells[x].value : x \in 0 .. count - 1}
    BY DEF ValuesInv
  <2>2. /\ \A x \in 0 .. count - 1 : \E y \in 0 .. count - 1 : s[x] = cells[y]
        /\ \A x \in 0 .. count - 1 : \E y \in 0 .. count - 1 : cells[x] = s[y]
    BY <1>3 DEF AllFrom
  <2>3. \A x \in 0 .. count - 1 : s[x].value \in heap
    BY <2>1, <2>2
  <2>4. \A v \in heap : \E x \in 0 .. count - 1 : s[x].value = v
    BY <2>1, <2>2
  <2> QED
    BY <2>3, <2>4
<1>8. Kept(Preprocessed, s, count - 1, count, 0 .. N)
  <2>1. Preprocessed = Uniquified(s, count, {s[x].value : x \in 0 .. count - 1})
    BY <1>7 DEF Preprocessed, s
  <2> QED
    BY <1>1, <1>3, <1>4, <1>5, <2>1, UniquifiedKept
<1> QED
  BY <1>3, <1>4, <1>6, <1>8 DEF N, s

(* memtable_preprocess leaves records of the memtable only, in strict      *)
(* order, with the values that are allocated; the newest of each key if    *)
(* timestamps are near.                                                    *)
LEMMA PreprocessedInv ==
    ASSUME ArrayInv, ValuesInv, count > 0, NEW u, u = Preprocessed
    PROVE  /\ u.d \in [0 .. Size - 1 -> Cell] /\ u.last \in 0 .. Size - 1
           /\ Strictly(u.d, u.last)
           /\ ValuesDiffer(u.d, 0 .. u.last)
           /\ u.heap = {u.d[x].value : x \in 0 .. u.last}
           /\ \A x \in 0 .. u.last : u.d[x] \in Records
           /\ Near(Records) => \A x \in 0 .. u.last : Newest(Records, u.d[x])
           /\ \A r \in Records : \E x \in 0 .. u.last : u.d[x].key = r.key
<1> DEFINE D == 0 .. Size - 1
           s == Sorted(cells, count)
           h == count - 1
<1>1. /\ Size \in Nat \ {0} /\ count \in 1 .. Size /\ h \in 0 .. Size - 1 /\ h \in Nat
      /\ count = h + 1
  BY DEF ArrayInv
<1>2. /\ s \in [D -> Cell]
      /\ Kept(u, s, h, count, D)
      /\ AllFrom(cells, s, 0, h) /\ AllFrom(s, cells, 0, h)
      /\ ValuesDiffer(s, 0 .. h)
      /\ Near(Records) => InOrder(ByAge(Records), s, 0, h)
  BY PreprocessedKept
<1> HIDE DEF s, h
<1>3. u.d \in [D -> Cell] /\ u.last \in 0 .. h /\ Strictly(u.d, u.last)
  BY <1>2 DEF Kept
<1>4. u.last \in 0 .. Size - 1 /\ u.last \in Nat
  BY <1>1, <1>3
<1>5. \A y \in 0 .. h : s[y] \in Records
  BY <1>2 DEF AllFrom, Records, h
<1>6. \A x \in 0 .. u.last : u.d[x] \in Records
  BY <1>2, <1>5 DEF Kept, KeepsFirst
<1>7. ASSUME NEW r \in Records PROVE \E y \in 0 .. h : s[y] = r
  <2>1. PICK x \in 0 .. h : r = cells[x]
    BY DEF Records, h
  <2>2. PICK y \in 0 .. h : cells[x] = s[y]
    BY <1>2 DEF AllFrom
  <2> QED
    BY <2>1, <2>2
<1>8. \A r \in Records : \E x \in 0 .. u.last : u.d[x].key = r.key
  BY <1>2, <1>7 DEF Kept, KeepsKeys
<1>9. u.heap = {u.d[x].value : x \in 0 .. u.last}
  <2>1. \A x : x \notin h + 1 .. count - 1
    BY <1>1
  <2> QED
    BY <1>2, <2>1 DEF Kept, HeapLeft
<1>10. ValuesDiffer(u.d, 0 .. u.last)
  <2>1. ASSUME NEW x \in 0 .. u.last, NEW y \in 0 .. u.last, u.d[x].value = u.d[y].value
        PROVE  x = y
    <3>1. PICK v \in 0 .. h : u.d[x] = s[v]
      BY <1>2 DEF Kept, KeepsFirst
    <3>2. PICK w \in 0 .. h : u.d[y] = s[w]
      BY <1>2 DEF Kept, KeepsFirst
    <3>3. u.d[x] = u.d[y]
      BY <1>2, <2>1, <3>1, <3>2 DEF ValuesDiffer
    <3>4. u.d[x] \in Cell
      BY <1>2, <3>1, <1>1
    <3>5. ~Before(u.d[x], u.d[x])
      BY <3>4, CellKeys, BasicOrder
    <3>6. ~(x < y) /\ ~(y < x)
      BY <1>3, <3>3, <3>5 DEF Strictly
    <3> QED
      BY <1>4, <3>6
  <2> QED
    BY <2>1 DEF ValuesDiffer
<1>11. ASSUME Near(Records), NEW x \in 0 .. u.last PROVE Newest(Records, u.d[x])
  <2>1. PICK y \in 0 .. h :
           u.d[x] = s[y] /\ \A z \in 0 .. h : s[z].key = s[y].key => y <= z
    BY <1>2 DEF Kept, KeepsFirst
  <2>2. ASSUME NEW q \in Records, q.key = u.d[x].key PROVE q.ts <= u.d[x].ts
    <3>1. PICK z \in 0 .. h : s[z] = q
      BY <1>7
    <3>2. y <= z
      BY <2>1, <2>2, <3>1
    <3>3. CASE y = z
      <4>1. s[z] \in Cell
        BY <1>1, <1>2
      <4>2. s[z].ts \in Nat
        BY <4>1, CellKeys
      <4> QED
        BY <2>1, <3>1, <3>3, <4>2
    <3>4. CASE y < z
      <4>1. <<s[y], s[z]>> \in ByAge(Records)
        BY <1>2, <1>11, <3>4 DEF InOrder
      <4>2. Before(s[y], s[z]) \/ (s[y].key = s[z].key /\ s[z].ts <= s[y].ts)
        BY <4>1 DEF ByAge
      <4>3. s[y] \in Cell /\ s[z] \in Cell
        BY <1>1, <1>2
      <4>4. s[y].key = s[z].key
        BY <2>1, <2>2, <3>1
      <4>5. ~Before(s[y], s[z])
        BY <4>3, <4>4, CellKeys, BasicOrder
      <4> QED
        BY <2>1, <3>1, <4>2, <4>5
    <3> QED
      BY <1>1, <3>2, <3>3, <3>4
  <2> QED
    BY <1>6, <2>2 DEF Newest
<1> QED
  BY <1>3, <1>4, <1>6, <1>8, <1>9, <1>10, <1>11

(* What a search of the records S for key k may answer.                    *)
Right(k, S, hit) ==
    IF HasKey(k, S) THEN hit.key = k /\ Newest(S, hit) ELSE hit = NoRecord

(* Or what a bisection reads behind records that are all before k.         *)
RightOrBehind(k, S, hit, behind) ==
    Right(k, S, hit) \/ (BehindAll(k, S) /\ behind.key = k)

(* What a bisection answers: the right record, or what is read behind all  *)
(* of them.                                                                *)
LEMMA BinaryHit ==
    ASSUME NEW num \in Nat \ {0}, NEW M \in Nat, num <= M, NEW d \in [0 .. M -> Cell],
           Strictly(d, num - 1), NEW k \in Nat,
           NEW S, S = {d[x] : x \in 0 .. num - 1}
    PROVE  LET hit == Hit(d, BinaryFind(d, num, k))
           IN RightOrBehind(k, S, hit, d[num])
<1> DEFINE pos == BinaryFind(d, num, k)
           hit == Hit(d, pos)
           D == 0 .. M
<1>1. /\ pos \in Int
      /\ pos >= 0 => /\ pos \in 0 .. num
                     /\ d[pos].key = k
                     /\ pos = num => BeforeKey(d, k, num)
      /\ pos < 0 => \A x \in 0 .. num - 1 : d[x].key # k
  <2>1. /\ num \in Nat \ {0} /\ k \in Nat
        /\ 0 .. num \subseteq D /\ d \in [D -> Cell] /\ Strictly(d, num - 1)
    OBVIOUS
  <2> HIDE DEF D
  <2>2. Bisected(d, num, k, BinaryFind(d, num, k))
    BY <2>1, BinaryFindFinds
  <2> QED
    BY <2>2 DEF Bisected
<1> HIDE DEF pos
<1>2. \A x \in 0 .. num - 1 : d[x] \in Cell /\ x \in 0 .. M
  OBVIOUS
<1>3. ASSUME pos < 0 PROVE RightOrBehind(k, S, hit, d[num])
  <2>1. hit = NoRecord
    BY <1>1, <1>3 DEF Hit
  <2>2. ~HasKey(k, S)
    BY <1>1, <1>3 DEF HasKey
  <2> QED
    BY <2>1, <2>2 DEF RightOrBehind, Right
<1>4. ASSUME pos >= 0, pos < num PROVE RightOrBehind(k, S, hit, d[num])
  <2>1. pos \in 0 .. num - 1 /\ hit = d[pos]
    BY <1>1, <1>4 DEF Hit
  <2>2. hit \in S /\ hit.key = k
    BY <1>1, <1>4, <2>1
  <2>3. ASSUME NEW q \in S, q.key = k PROVE q.ts <= hit.ts
    <3>1. PICK z \in 0 .. num - 1 : q = d[z]
      OBVIOUS
    <3>2. d[z] \in Cell /\ d[pos] \in Cell
      BY <1>2, <2>1
    <3>3. /\ d[z].key \in Nat /\ d[z].ts \in Nat /\ PartOf(d[z].key) \in Int
          /\ d[pos].key \in Nat /\ PartOf(d[pos].key) \in Int
      BY <3>2, CellKeys
    <3>4. d[z].key = d[pos].key
      BY <2>1, <2>2, <2>3, <3>1
    <3>5. ~Before(d[z], d[pos]) /\ ~Before(d[pos], d[z])
      BY <3>3, <3>4 DEF Before
    <3>6. z = pos
      BY <2>1, <3>5 DEF Strictly
    <3> QED
      BY <2>1, <3>1, <3>3, <3>6
  <2> QED
    BY <2>2, <2>3 DEF RightOrBehind, Right, HasKey, Newest
<1>5. ASSUME pos = num PROVE RightOrBehind(k, S, hit, d[num])
  <2>1. d[num].key = k /\ BeforeKey(d, k, num)
    BY <1>1, <1>5
  <2>2. ASSUME NEW r \in S PROVE Basic(r, [key |-> k]) < 0
    <3>1. PICK x \in 0 .. num - 1 : r = d[x]
      OBVIOUS
    <3> DEFINE sought == [key |-> k]
    <3>2. sought.key = k
      OBVIOUS
    <3>3. Before(d[x], sought)
      BY <2>1 DEF BeforeKey
    <3> HIDE DEF sought
    <3>4. d[x].key \in Nat
      BY <1>2, CellKeys
    <3>5. Basic(d[x], sought) < 0
      BY <3>2, <3>3, <3>4, BasicOrder
    <3> QED
      BY <3>1, <3>5 DEF sought
  <2>3. S # {}
    <3>1. 0 \in 0 .. num - 1
      OBVIOUS
    <3> QED
      BY <3>1
  <2> QED
    BY <2>1, <2>2, <2>3 DEF RightOrBehind, BehindAll
<1>6. pos < 0 \/ (pos >= 0 /\ pos < num) \/ pos = num
  BY <1>1
<1>7. RightOrBehind(k, S, hit, d[num])
  <2> HIDE DEF hit
  <2> QED
    BY <1>3, <1>4, <1>5, <1>6
<1> QED
  BY <1>7 DEF pos

(* Of the records at some positions one has the highest timestamp.         *)
LEMMA HighestExists ==
    ASSUME NEW N \in Nat, NEW d \in [0 .. N -> Cell], NEW num \in 0 .. N + 1,
           NEW F \in SUBSET (0 .. num - 1), F # {}
    PROVE  \E i \in F : \A j \in F : d[j].ts <= d[i].ts
<1> DEFINE Has(G) == \E i \in G : \A j \in G : d[j].ts <= d[i].ts
           T == {n \in 0 .. num : \A G \in SUBSET (0 .. n - 1) : G # {} => Has(G)}
<1>1. 0 \in T
  <2>1. ASSUME NEW G \in SUBSET (0 .. 0 - 1) PROVE G = {}
    <3>1. \A x \in G : x \in 0 .. 0 - 1
      OBVIOUS
    <3> QED
      BY <3>1
  <2>2. 0 \in 0 .. num
    OBVIOUS
  <2> QED
    BY <2>1, <2>2
<1>2. \A x \in 0 .. num - 1 : d[x].ts \in Nat
  <2>1. \A x \in 0 .. num - 1 : d[x] \in Cell
    OBVIOUS
  <2> QED
    BY <2>1, CellKeys
<1>3. ASSUME NEW n \in 1 .. num, n - 1 \in T PROVE n \in T
  <2>1. ASSUME NEW G \in SUBSET (0 .. n - 1), G # {} PROVE Has(G)
    <3>1. G \ {n - 1} \in SUBSET (0 .. (n - 1) - 1)
      OBVIOUS
    <3>2. CASE n - 1 \notin G
      <4>1. G = G \ {n - 1}
        BY <3>2
      <4> QED
        BY <1>3, <2>1, <3>1, <4>1
    <3>3. CASE G = {n - 1}
      <4>1. d[n - 1].ts <= d[n - 1].ts
        BY <1>2
      <4> QED
        BY <3>3, <4>1
    <3>4. CASE n - 1 \in G /\ G # {n - 1}
      <4>1. G \ {n - 1} # {}
        BY <2>1, <3>4
      <4>2. Has(G \ {n - 1})
        BY <1>3, <3>1, <4>1
      <4>3. PICK i \in G \ {n - 1} : \A j \in G \ {n - 1} : d[j].ts <= d[i].ts
        BY <4>2
      <4>4. \A j \in G : d[j].ts \in Nat
        BY <1>2
      <4>5. CASE d[n - 1].ts <= d[i].ts
        BY <4>3, <4>5
      <4>6. CASE d[i].ts <= d[n - 1].ts
        <5>1. \A j \in G : d[j].ts <= d[n - 1].ts
          BY <4>3, <4>4, <4>6, <3>4
        <5> QED
          BY <3>4, <5>1
      <4>7. d[n - 1].ts <= d[i].ts \/ d[i].ts <= d[n - 1].ts
        <5> DEFINE a == d[n - 1].ts
                   b == d[i].ts
        <5>1. a \in Nat /\ b \in Nat
          BY <3>4, <4>4
        <5> HIDE DEF a, b
        <5>2. a <= b \/ b <= a
          BY <5>1
        <5> QED
          BY <5>2 DEF a, b
      <4> QED
        BY <4>5, <4>6, <4>7
    <3> QED
      BY <3>2, <3>3, <3>4
  <2> QED
    BY <2>1
<1>4. num \in T
  <2>1. num \in Nat /\ num \in 0 .. num
    OBVIOUS
  <2> HIDE DEF T
  <2> QED
    BY <1>1, <1>3, <2>1, Upwards
<1> QED
  BY <1>4

(* What the linear search of a memtable not sorted answers is right.       *)
LEMMA LinearHit ==
    ASSUME ArrayInv, NEW k \in Nat, NEW d, \A x \in 0 .. Size - 1 : d[x] = cells[x]
    PROVE  Right(k, Records, Hit(d, LinearFind(k)))
<1> DEFINE found == {i \in 0 .. count - 1 : cells[i].key = k}
           best == {i \in found : \A j \in found : cells[j].ts <= cells[i].ts}
           pos == LinearFind(k)
<1>1. pos = IF found = {} THEN -1 ELSE Min(best)
  BY DEF LinearFind
<1>2. /\ Size - 1 \in Nat /\ cells \in [0 .. Size - 1 -> Cell]
      /\ count \in 0 .. (Size - 1) + 1 /\ count \in Nat
  BY DEF ArrayInv
<1>3. CASE found = {}
  <2>1. Hit(d, pos) = NoRecord
    BY <1>1, <1>3 DEF Hit
  <2>2. ~HasKey(k, Records)
    BY <1>3 DEF HasKey, Records
  <2> QED
    BY <2>1, <2>2 DEF Right
<1>4. CASE found # {}
  <2>1. found \in SUBSET (0 .. count - 1)
    OBVIOUS
  <2>2. \E i \in found : \A j \in found : cells[j].ts <= cells[i].ts
    <3> HIDE DEF found
    <3> QED
      BY <1>2, <1>4, <2>1, HighestExists
  <2>3. best \in SUBSET Nat /\ best # {}
    BY <1>2, <2>2
  <2>4. Min(best) \in best
    <3> HIDE DEF best
    <3> QED
      BY <2>3, MinIsLeast
  <2>5. pos = Min(best)
    BY <1>1, <1>4
  <2> HIDE DEF pos
  <2>6. /\ pos \in 0 .. count - 1 /\ cells[pos].key = k
        /\ \A j \in found : cells[j].ts <= cells[pos].ts
    BY <2>4, <2>5
  <2>7. Hit(d, pos) = cells[pos]
    BY <1>2, <2>6 DEF Hit
  <2>8. cells[pos] \in Records
    BY <2>6 DEF Records
  <2>9. \A q \in Records : q.key = cells[pos].key => q.ts <= cells[pos].ts
    BY <2>6 DEF Records
  <2>10. HasKey(k, Records)
    BY <2>6, <2>8 DEF HasKey
  <2> HIDE DEF found, best
  <2> QED
    BY <2>6, <2>7, <2>8, <2>9, <2>10 DEF Right, Newest, pos
<1> QED
  BY <1>3, <1>4

(* An empty memtable satisfies the invariant.                              *)
LEMMA MemtableInitInv == MemtableInit => MemtableInv
<1> SUFFICES ASSUME MemtableInit PROVE MemtableInv
  OBVIOUS
<1>1. Capacity \in Nat \ {0} /\ Capacity - 1 \in Nat
  BY CapacityAssumption
<1>2. Zeroed \in Cell
  BY DEF Zeroed, Null, Cell
<1>3. cells \in [0 .. Capacity - 1 -> Cell]
  BY <1>2 DEF MemtableInit
<1>4. Size = Capacity
  BY <1>1, <1>3, SizeOf DEF Size
<1>5. ArrayInv
  BY <1>1, <1>3, <1>4 DEF ArrayInv, MemtableInit
<1>6. \A x : x \notin 0 .. count - 1
  BY DEF MemtableInit
<1>7. ValuesInv
  BY <1>6 DEF ValuesInv, ValuesDiffer, MemtableInit
<1>8. SortedInv /\ FindExact
  BY DEF SortedInv, FindExact, MemtableInit, NoSearch
<1>9. FileInv
  <2>1. file = <<>> /\ Len(file) = 0
    BY DEF MemtableInit
  <2> QED
    BY <2>1 DEF FileInv
<1> QED
  BY <1>5, <1>7, <1>8, <1>9 DEF MemtableInv

(* No file is a file in order.                                             *)
LEMMA EmptyFileInv ==
    ASSUME file' = <<>>
    PROVE  FileInv'
<1>1. Len(file') = 0 /\ file' \in Seq(Cell)
  OBVIOUS
<1>2. \A x : x \notin 1 .. Len(file')
  BY <1>1
<1> QED
  BY <1>1, <1>2 DEF FileInv

(* What is in memory nobody has written to has the fields of a record.     *)
LEMMA GarbageCell ==
    ASSUME NEW g \in Garbage
    PROVE  g \in Cell
<1>1. g.key \in Nat /\ g.ts = 0 /\ g.value = -1
  BY KeysAssumption DEF Garbage
<1>2. g = [key |-> g.key, ts |-> g.ts, value |-> g.value]
  BY DEF Garbage
<1> QED
  BY <1>1, <1>2 DEF Cell

(* Enlarged or not, the array has room for one more record behind the same *)
(* ones.                                                                   *)
LEMMA RoomHas ==
    ASSUME ArrayInv, NEW d \in Room
    PROVE  \E n \in Nat \ {0} : /\ d \in [0 .. n - 1 -> Cell]
                                /\ count \in 0 .. n - 1
                                /\ \A x \in 0 .. count - 1 : d[x] = cells[x]
<1>1. Size \in Nat \ {0} /\ cells \in [0 .. Size - 1 -> Cell] /\ count \in 0 .. Size
  BY DEF ArrayInv
<1>2. CASE count < Size
  <2>1. d = cells /\ count \in 0 .. Size - 1
    BY <1>1, <1>2 DEF Room
  <2> QED
    BY <1>1, <2>1
<1>3. CASE ~(count < Size)
  <2>1. PICK g \in Garbage : d = [i \in 0 .. 2 * Size - 1 |-> IF i < Size THEN cells[i] ELSE g]
    BY <1>3 DEF Room
  <2>2. g \in Cell
    BY GarbageCell
  <2> DEFINE n == 2 * Size
  <2>3. n \in Nat \ {0} /\ count \in 0 .. n - 1 /\ count = Size
    BY <1>1, <1>3
  <2>4. \A i \in 0 .. n - 1 : i < Size => i \in 0 .. Size - 1
    BY <1>1
  <2>5. d \in [0 .. n - 1 -> Cell]
    BY <1>1, <2>1, <2>2, <2>4
  <2>6. \A x \in 0 .. count - 1 : d[x] = cells[x]
    BY <1>1, <2>1, <2>3
  <2> QED
    BY <2>3, <2>5, <2>6
<1> QED
  BY <1>2, <1>3

(* memtable_add: the new value is none of those allocated.                 *)
LEMMA AddInv ==
    ASSUME MemtableInv, NEW k \in Keys, NEW t \in Timestamps, Add(k, t)
    PROVE  MemtableInv'
<1> DEFINE r == [key |-> k, ts |-> t, value |-> adds + 1]
<1>1. ArrayInv /\ ValuesInv
  BY DEF MemtableInv
<1>2. adds \in Nat /\ count \in Nat
  BY <1>1 DEF ValuesInv, ArrayInv
<1>3. r \in Cell /\ r.value = adds + 1
  BY <1>2, KeysAssumption, TimestampsAssumption DEF Cell
<1>4. PICK d \in Room : cells' = [d EXCEPT ![count] = r]
  BY DEF Add
<1> HIDE DEF r
<1>5. PICK n \in Nat \ {0} : /\ d \in [0 .. n - 1 -> Cell]
                             /\ count \in 0 .. n - 1
                             /\ \A x \in 0 .. count - 1 : d[x] = cells[x]
  BY <1>1, RoomHas
<1>6. cells' \in [0 .. n - 1 -> Cell]
  BY <1>3, <1>4, <1>5
<1>7. Size' = n
  BY <1>6, SizeOf DEF Size
<1>8. count' = count + 1 /\ adds' = adds + 1 /\ heap' = heap \cup {adds + 1}
  BY DEF Add
<1>9. ArrayInv'
  BY <1>5, <1>6, <1>7, <1>8 DEF ArrayInv
<1>10. /\ \A x \in 0 .. count - 1 : cells'[x] = cells[x]
       /\ cells'[count] = r
  BY <1>2, <1>4, <1>5
<1>11. \A x \in 0 .. count' - 1 : x \in 0 .. count - 1 \/ x = count
  BY <1>2, <1>8
<1>12. /\ \A x \in 0 .. count - 1 : cells[x].value \in 1 .. adds
       /\ ValuesDiffer(cells, 0 .. count - 1)
       /\ heap = {cells[x].value : x \in 0 .. count - 1}
  BY <1>1 DEF ValuesInv
<1>13. \A x \in 0 .. count' - 1 : cells'[x].value \in 1 .. adds'
  <2>1. ASSUME NEW x \in 0 .. count - 1 PROVE cells'[x].value \in 1 .. adds'
    BY <1>2, <1>8, <1>10, <1>12
  <2>2. cells'[count].value \in 1 .. adds'
    BY <1>2, <1>3, <1>8, <1>10
  <2> QED
    BY <1>11, <2>1, <2>2
<1>14. ASSUME NEW x \in 0 .. count' - 1, NEW y \in 0 .. count' - 1,
              cells'[x].value = cells'[y].value
       PROVE  x = y
  <2>1. \A z \in 0 .. count - 1 : cells'[z].value # adds + 1
    BY <1>2, <1>10, <1>12
  <2>2. cells'[count].value = adds + 1
    BY <1>3, <1>10
  <2> QED
    BY <1>10, <1>11, <1>12, <1>14, <2>1, <2>2 DEF ValuesDiffer
<1>15. heap' = {cells'[x].value : x \in 0 .. count' - 1}
  <2>1. \A x \in 0 .. count - 1 : x \in 0 .. count' - 1
    BY <1>2, <1>8
  <2>2. count \in 0 .. count' - 1
    BY <1>2, <1>8
  <2>3. \A x \in 0 .. count' - 1 : cells'[x].value \in heap'
    BY <1>3, <1>8, <1>10, <1>11, <1>12
  <2>4. ASSUME NEW v \in heap' PROVE \E x \in 0 .. count' - 1 : cells'[x].value = v
    <3>1. CASE v \in heap
      <4>1. PICK x \in 0 .. count - 1 : cells[x].value = v
        BY <1>12, <3>1
      <4> QED
        BY <1>10, <2>1, <4>1
    <3>2. CASE v = adds + 1
      BY <1>3, <1>10, <2>2, <3>2
    <3> QED
      BY <1>8, <3>1, <3>2
  <2> QED
    BY <2>3, <2>4
<1>16. ValuesInv'
  BY <1>2, <1>8, <1>13, <1>14, <1>15 DEF ValuesInv, ValuesDiffer
<1>17. SortedInv' /\ FindExact'
  BY DEF Add, SortedInv, FindExact, NoSearch
<1>18. FileInv'
  BY EmptyFileInv DEF Add
<1> QED
  BY <1>9, <1>16, <1>17, <1>18 DEF MemtableInv

(* A dump that fails: the memtable is left sorted, without duplicates.     *)
LEMMA DumpFailsInv ==
    ASSUME MemtableInv, DumpFails
    PROVE  MemtableInv'
<1> DEFINE u == Preprocessed
<1>1. ArrayInv /\ ValuesInv /\ FileInv /\ count > 0
  BY DEF MemtableInv, DumpFails
<1>2. /\ cells' = u.d /\ count' = u.last + 1 /\ heap' = u.heap
      /\ file' = file /\ adds' = adds /\ search' = NoSearch
  BY DEF DumpFails
<1> HIDE DEF u
<1>3. /\ u.d \in [0 .. Size - 1 -> Cell] /\ u.last \in 0 .. Size - 1
      /\ Strictly(u.d, u.last)
      /\ ValuesDiffer(u.d, 0 .. u.last)
      /\ u.heap = {u.d[x].value : x \in 0 .. u.last}
      /\ \A x \in 0 .. u.last : u.d[x] \in Records
  <2>1. u = Preprocessed
    BY DEF u
  <2> QED
    BY <1>1, <2>1, PreprocessedInv
<1>4. Size \in Nat \ {0} /\ u.last \in Nat
  BY <1>1, <1>3 DEF ArrayInv
<1>5. Size' = Size
  <2> DEFINE n == Size
  <2>1. n \in Nat \ {0} /\ u.d \in [0 .. n - 1 -> Cell]
    BY <1>3, <1>4
  <2> HIDE DEF n
  <2>2. Cardinality(DOMAIN u.d) = n
    BY <2>1, SizeOf
  <2> QED
    BY <1>2, <2>2 DEF Size, n
<1>6. ArrayInv'
  BY <1>2, <1>3, <1>4, <1>5 DEF ArrayInv
<1>7. count' - 1 = u.last
  BY <1>2, <1>4
<1>8. \A x \in 0 .. u.last : u.d[x].value \in 1 .. adds
  BY <1>1, <1>3 DEF ValuesInv, Records
<1>9. ValuesInv'
  BY <1>1, <1>2, <1>3, <1>7, <1>8 DEF ValuesInv
<1>10. SortedInv'
  BY <1>2, <1>3, <1>7 DEF SortedInv
<1>11. FileInv' /\ FindExact'
  BY <1>1, <1>2 DEF FileInv, FindExact, NoSearch
<1> QED
  BY <1>6, <1>9, <1>10, <1>11 DEF MemtableInv

(* The records of the file are those kept, in their order.                 *)
LEMMA DumpMakes ==
    ASSUME MemtableInv, Dump, NEW u, u = Preprocessed
    PROVE  /\ u.last \in Nat
           /\ file' = [i \in 1 .. u.last + 1 |-> u.d[i - 1]]
           /\ file' \in Seq(Cell) /\ Len(file') = u.last + 1
           /\ \A i \in 1 .. Len(file') : i - 1 \in 0 .. u.last /\ file'[i] = u.d[i - 1]
           /\ \A x \in 0 .. u.last : x + 1 \in 1 .. Len(file') /\ file'[x + 1] = u.d[x]
           /\ \A x, y \in 1 .. Len(file') : x < y => Before(file'[x], file'[y])
<1>1. ArrayInv /\ ValuesInv /\ count > 0
  BY DEF MemtableInv, Dump
<1>2. file' = [i \in 1 .. u.last + 1 |-> u.d[i - 1]]
  BY DEF Dump
<1>3. /\ u.d \in [0 .. Size - 1 -> Cell] /\ u.last \in 0 .. Size - 1
      /\ Strictly(u.d, u.last)
  BY <1>1, PreprocessedInv
<1>4. u.last \in Nat /\ Size \in Nat
  BY <1>1, <1>3 DEF ArrayInv
<1>5. \A i \in 1 .. u.last + 1 : i - 1 \in 0 .. u.last /\ i - 1 \in 0 .. Size - 1
  BY <1>3, <1>4
<1>6. file' \in Seq(Cell) /\ Len(file') = u.last + 1
  <2> DEFINE m == u.last + 1
  <2>1. m \in Nat
    BY <1>4
  <2>2. \A i \in 1 .. m : u.d[i - 1] \in Cell
    BY <1>3, <1>5
  <2>3. file' \in [1 .. m -> Cell]
    BY <1>2, <2>2
  <2> HIDE DEF m
  <2>4. file' \in Seq(Cell) /\ Len(file') = m
    BY <2>1, <2>3
  <2> QED
    BY <2>4 DEF m
<1>7. \A i \in 1 .. Len(file') : i - 1 \in 0 .. u.last /\ file'[i] = u.d[i - 1]
  BY <1>2, <1>5, <1>6
<1>8. \A x \in 0 .. u.last : x + 1 \in 1 .. Len(file') /\ file'[x + 1] = u.d[x]
  BY <1>2, <1>4, <1>6
<1>9. ASSUME NEW x \in 1 .. Len(file'), NEW y \in 1 .. Len(file'), x < y
      PROVE  Before(file'[x], file'[y])
  <2>1. x - 1 < y - 1
    BY <1>4, <1>6, <1>9
  <2> QED
    BY <1>3, <1>7, <2>1 DEF Strictly
<1> QED
  BY <1>2, <1>4, <1>6, <1>7, <1>8, <1>9

(* A dump: no record and no value is left.                                 *)
LEMMA DumpInv ==
    ASSUME MemtableInv, Dump
    PROVE  MemtableInv'
<1> DEFINE u == Preprocessed
<1>1. ArrayInv /\ ValuesInv /\ count > 0
  BY DEF MemtableInv, Dump
<1>2. /\ cells' = [i \in DOMAIN u.d |->
                      IF i \in 0 .. u.last THEN [u.d[i] EXCEPT !.value = Null]
                      ELSE u.d[i]]
      /\ heap' = u.heap \ {u.d[i].value : i \in 0 .. u.last}
      /\ count' = 0 /\ adds' = adds /\ search' = NoSearch
  BY DEF Dump
<1>3. u = Preprocessed
  OBVIOUS
<1> HIDE DEF u
<1>4. /\ u.d \in [0 .. Size - 1 -> Cell]
      /\ u.heap = {u.d[x].value : x \in 0 .. u.last}
  BY <1>1, <1>3, PreprocessedInv
<1>5. FileInv'
  BY <1>3, DumpMakes DEF FileInv
<1>6. Size \in Nat \ {0}
  BY <1>1 DEF ArrayInv
<1>7. cells' \in [0 .. Size - 1 -> Cell]
  <2>1. ASSUME NEW i \in 0 .. Size - 1 PROVE [u.d[i] EXCEPT !.value = Null] \in Cell
    <3>1. u.d[i] \in Cell
      BY <1>4
    <3> QED
      BY <3>1 DEF Cell, Null
  <2>2. \A i \in 0 .. Size - 1 : u.d[i] \in Cell
    BY <1>4
  <2>3. DOMAIN u.d = 0 .. Size - 1
    BY <1>4
  <2> QED
    BY <1>2, <2>1, <2>2, <2>3
<1>8. Size' = Size
  <2> DEFINE n == Size
  <2>1. n \in Nat \ {0} /\ cells' \in [0 .. n - 1 -> Cell]
    BY <1>6, <1>7
  <2> HIDE DEF n
  <2>2. Cardinality(DOMAIN cells') = n
    BY <2>1, SizeOf
  <2> QED
    BY <2>2 DEF Size, n
<1>9. ArrayInv'
  BY <1>2, <1>6, <1>7, <1>8 DEF ArrayInv
<1>10. \A x : x \notin 0 .. count' - 1
  BY <1>2
<1>11. heap' = {}
  BY <1>2, <1>4
<1>12. ValuesInv'
  BY <1>1, <1>2, <1>10, <1>11 DEF ValuesInv, ValuesDiffer
<1>13. SortedInv' /\ FindExact'
  BY <1>2, <1>10 DEF SortedInv, Strictly, FindExact, NoSearch
<1> QED
  BY <1>5, <1>9, <1>12, <1>13 DEF MemtableInv

(* memtable_find in the memtable, sorted or not.                           *)
LEMMA FindInv ==
    ASSUME MemtableInv, NEW k \in Keys, Find(k)
    PROVE  MemtableInv'
<1>1. ArrayInv /\ ValuesInv /\ SortedInv /\ FileInv
  BY DEF MemtableInv
<1>2. UNCHANGED <<cells, count, sorted, heap, adds, file>>
  BY DEF Find
<1>3. ArrayInv' /\ ValuesInv' /\ SortedInv' /\ FileInv'
  BY <1>1, <1>2 DEF ArrayInv, ValuesInv, SortedInv, FileInv, Size
<1>4. /\ Size \in Nat \ {0} /\ cells \in [0 .. Size - 1 -> Cell] /\ count \in 0 .. Size
      /\ k \in Nat
  BY <1>1, KeysAssumption DEF ArrayInv
<1>5. PICK g \in Garbage :
         LET d == [i \in 0 .. Size |-> IF i < Size THEN cells[i] ELSE g]
             pos == IF sorted THEN BinaryFind(d, count, k) ELSE LinearFind(k)
         IN search' = [key |-> k, in |-> "memtable", hit |-> Hit(d, pos)]
  BY DEF Find
<1> DEFINE d == [i \in 0 .. Size |-> IF i < Size THEN cells[i] ELSE g]
           pos == IF sorted THEN BinaryFind(d, count, k) ELSE LinearFind(k)
<1>6. search' = [key |-> k, in |-> "memtable", hit |-> Hit(d, pos)]
  BY <1>5
<1>7. d \in [0 .. Size -> Cell] /\ \A x \in 0 .. Size - 1 : d[x] = cells[x]
  BY <1>4, GarbageCell
<1> HIDE DEF d
<1>8. Searched' = Records
  BY <1>2, <1>6 DEF Searched, Records
<1>9. CASE ~sorted
  <2>1. Right(k, Records, Hit(d, LinearFind(k)))
    BY <1>1, <1>4, <1>7, LinearHit
  <2>2. RightHit'
    BY <1>6, <1>8, <1>9, <2>1 DEF RightHit, Right
  <2> QED
    BY <1>3, <2>2 DEF FindExact, MemtableInv
<1>10. CASE sorted /\ count = 0
  <2>1. BinaryFind(d, count, k) = -1
    BY <1>10 DEF BinaryFind
  <2>2. Hit(d, pos) = NoRecord
    BY <1>10, <2>1 DEF Hit
  <2>3. \A x : x \notin 0 .. count - 1
    BY <1>10
  <2>4. ~HasKey(k, Records)
    BY <2>3 DEF HasKey, Records
  <2>5. RightHit'
    BY <1>6, <1>8, <2>2, <2>4 DEF RightHit
  <2> QED
    BY <1>3, <2>5 DEF FindExact, MemtableInv
<1>11. CASE sorted /\ count # 0
  <2> DEFINE M == Size
             num == count
             S == Records
  <2>1. \A x \in 0 .. num - 1 : d[x] = cells[x]
    BY <1>4, <1>7
  <2>2. Strictly(d, num - 1)
    BY <1>1, <1>11, <2>1 DEF SortedInv, Strictly
  <2>3. S = {d[x] : x \in 0 .. num - 1}
    BY <2>1 DEF Records
  <2>4. /\ num \in Nat \ {0} /\ M \in Nat /\ num <= M
        /\ d \in [0 .. M -> Cell] /\ k \in Nat
    BY <1>4, <1>7, <1>11
  <2> HIDE DEF M, num, S
  <2>5. RightOrBehind(k, S, Hit(d, BinaryFind(d, num, k)), d[num])
    BY <2>2, <2>3, <2>4, BinaryHit
  <2>6. Right(k, Records, Hit(d, pos)) \/ BehindAll(k, Records)
    BY <1>11, <2>5 DEF num, S, RightOrBehind
  <2>7. RightHit' \/ ReadsBehind'
    <3> HIDE DEF pos
    <3>1. search'.key = k /\ search'.in = "memtable" /\ search'.hit = Hit(d, pos)
      BY <1>6
    <3> QED
      BY <1>2, <1>8, <1>11, <2>6, <3>1 DEF RightHit, Right, ReadsBehind
  <2> QED
    BY <1>3, <2>7 DEF FindExact, MemtableInv
<1> QED
  BY <1>9, <1>10, <1>11

(* No record is before key 0.                                              *)
LEMMA NothingBeforeZero ==
    ASSUME NEW r \in Cell
    PROVE  ~(Basic(r, [key |-> 0]) < 0)
<1> DEFINE zero == [key |-> 0]
<1>1. zero.key = 0 /\ r.key \in Nat
  BY CellKeys
<1> HIDE DEF zero
<1>2. PartOf(r.key) \in 0 .. Parts - 1 /\ PartOf(zero.key) = 0 /\ Parts \in Nat
  BY <1>1, PartOfNat, PartsAssumption
<1>3. ~Before(r, zero)
  BY <1>1, <1>2 DEF Before
<1>4. ~(Basic(r, zero) < 0)
  BY <1>1, <1>3, BasicOrder
<1> QED
  BY <1>4 DEF zero

(* memtable_find in a file read back: behind fewer records than the array  *)
(* had room for at first the key read is 0, which is behind none.          *)
LEMMA FindInFileInv ==
    ASSUME MemtableInv, NEW k \in Keys, FindInFile(k)
    PROVE  MemtableInv'
<1>1. ArrayInv /\ ValuesInv /\ SortedInv /\ FileInv
  BY DEF MemtableInv
<1>2. UNCHANGED <<cells, count, sorted, heap, adds, file>> /\ file # <<>>
  BY DEF FindInFile
<1>3. ArrayInv' /\ ValuesInv' /\ SortedInv' /\ FileInv'
  BY <1>1, <1>2 DEF ArrayInv, ValuesInv, SortedInv, FileInv, Size
<1> DEFINE num == Len(file)
<1>4. /\ num \in Nat \ {0} /\ k \in Nat
      /\ \A x \in 1 .. num : file[x] \in Cell
      /\ Range(file) = {file[x] : x \in 1 .. num}
      /\ \A x, y \in 1 .. num : x < y => Before(file[x], file[y])
  <2>1. file \in Seq(Cell) /\ DOMAIN file = 1 .. num
    BY <1>1 DEF FileInv
  <2> QED
    BY <1>1, <1>2, <2>1, KeysAssumption DEF FileInv, Range
<1> HIDE DEF num
<1>5. PICK g \in Garbage :
         LET d == [i \in 0 .. num |->
                       IF i < num THEN file[i + 1]
                       ELSE IF i < Capacity THEN Zeroed ELSE g]
         IN search' = [key |-> k, in |-> "file", hit |-> Hit(d, BinaryFind(d, num, k))]
  BY DEF FindInFile, num
<1> DEFINE d == [i \in 0 .. num |->
                       IF i < num THEN file[i + 1]
                       ELSE IF i < Capacity THEN Zeroed ELSE g]
           S == Range(file)
<1>6. search' = [key |-> k, in |-> "file", hit |-> Hit(d, BinaryFind(d, num, k))]
  BY <1>5
<1>7. Zeroed \in Cell /\ g \in Cell
  BY GarbageCell DEF Zeroed, Null, Cell
<1>8. \A x \in 0 .. num : x < num => x + 1 \in 1 .. num
  BY <1>4
<1>9. /\ d \in [0 .. num -> Cell]
      /\ \A x \in 0 .. num - 1 : x + 1 \in 1 .. num /\ d[x] = file[x + 1]
      /\ num < Capacity => d[num] = Zeroed
  BY <1>4, <1>7, <1>8
<1> HIDE DEF d
<1>10. Strictly(d, num - 1)
  BY <1>4, <1>9 DEF Strictly
<1>11. S = {d[x] : x \in 0 .. num - 1}
  <2>1. \A x \in 1 .. num : x - 1 \in 0 .. num - 1 /\ file[x] = d[x - 1]
    BY <1>4, <1>9
  <2>2. \A r \in S : \E x \in 0 .. num - 1 : r = d[x]
    BY <1>4, <2>1
  <2>3. \A x \in 0 .. num - 1 : d[x] \in S
    BY <1>4, <1>9
  <2> HIDE DEF S
  <2> QED
    BY <2>2, <2>3
<1>12. S # {} /\ \A r \in S : r \in Cell
  BY <1>4
<1> HIDE DEF S
<1>13. RightOrBehind(k, S, Hit(d, BinaryFind(d, num, k)), d[num])
  <2> DEFINE M == num
  <2>1. M \in Nat /\ num <= M /\ d \in [0 .. M -> Cell]
    BY <1>4, <1>9
  <2>2. d[num] = d[num] /\ num \in Nat \ {0} /\ k \in Nat
    BY <1>4
  <2> HIDE DEF M
  <2> QED
    BY <1>10, <1>11, <2>1, <2>2, BinaryHit
<1>14. ~(Capacity <= num) /\ BehindAll(k, S) => d[num].key # k
  <2>1. SUFFICES ASSUME ~(Capacity <= num), BehindAll(k, S), d[num].key = k
                 PROVE  FALSE
    OBVIOUS
  <2>2. k = 0
    BY <1>4, <1>9, <2>1, CapacityAssumption DEF Zeroed
  <2>3. PICK r \in S : r \in Cell
    BY <1>12
  <2>4. Basic(r, [key |-> 0]) < 0
    BY <2>1, <2>2, <2>3 DEF BehindAll
  <2> QED
    BY <2>3, <2>4, NothingBeforeZero
<1>15. /\ search'.key = k /\ search'.in = "file"
       /\ search'.hit = Hit(d, BinaryFind(d, num, k))
  BY <1>6
<1>16. Searched' = S
  BY <1>2, <1>15 DEF Searched, S
<1>17. RightHit' \/ ReadsBehind'
  <2>1. Right(k, S, search'.hit) => RightHit'
    BY <1>15, <1>16 DEF RightHit, Right
  <2>2. BehindAll(k, S) /\ Capacity <= num => ReadsBehind'
    BY <1>2, <1>4, <1>15, <1>16, CapacityAssumption DEF ReadsBehind, num
  <2> QED
    BY <1>13, <1>14, <1>15, <2>1, <2>2 DEF RightOrBehind
<1> QED
  BY <1>3, <1>17 DEF FindExact, MemtableInv

(* Every step keeps the invariant.                                         *)
LEMMA MemtableNextInv == MemtableInv /\ [MemtableNext]_memtableVars => MemtableInv'
<1> SUFFICES ASSUME MemtableInv, [MemtableNext]_memtableVars PROVE MemtableInv'
  OBVIOUS
<1>1. ASSUME NEW k \in Keys, NEW t \in Timestamps, Add(k, t) PROVE MemtableInv'
  BY <1>1, AddInv
<1>2. CASE DumpFails
  BY <1>2, DumpFailsInv
<1>3. CASE Dump
  BY <1>3, DumpInv
<1>4. ASSUME NEW k \in Keys, Find(k) PROVE MemtableInv'
  BY <1>4, FindInv
<1>5. ASSUME NEW k \in Keys, FindInFile(k) PROVE MemtableInv'
  BY <1>5, FindInFileInv
<1>6. CASE UNCHANGED memtableVars
  BY <1>6 DEF memtableVars, MemtableInv, ArrayInv, ValuesInv, SortedInv, FileInv, Size,
              FindExact, RightHit, ReadsBehind, Searched, Records
<1> QED
  BY <1>1, <1>2, <1>3, <1>4, <1>5, <1>6 DEF MemtableNext

(* The inductive invariant of the memtable holds always: the array is an   *)
(* array of records, values are allocated each once, and what is taken to  *)
(* be sorted has no two records of a key and is in order.                  *)
THEOREM MemtableInvariant == MemtableSpec => []MemtableInv
  BY MemtableInitInv, MemtableNextInv, PTL DEF MemtableSpec

(* However large the memtable grows, and however often it is dumped: each  *)
(* record has a value of its own that is allocated, and no other value is, *)
(* so that none is freed twice or lost (sort.c:175-193).                   *)
THEOREM ValuesExactCorrect == MemtableSpec => []ValuesExact
<1>1. MemtableInv => ValuesExact
  BY ValuesAreExact DEF MemtableInv
<1> QED
  BY <1>1, MemtableInvariant, PTL

(* A search answers the newest record of its key, or none if there is      *)
(* none, except for the read behind the records (memtable.c:263).          *)
THEOREM FindExactCorrect == MemtableSpec => []FindExact
<1>1. MemtableInv => FindExact
  BY DEF MemtableInv
<1> QED
  BY <1>1, MemtableInvariant, PTL

(* What a dump writes if the timestamps are near.                          *)
LEMMA DumpWrites ==
    ASSUME MemtableInv, Dump, Near(Records)
    PROVE  Wrote(Records, file')
<1> DEFINE u == Preprocessed
<1>1. u = Preprocessed /\ ArrayInv /\ ValuesInv /\ count > 0
  BY DEF MemtableInv, Dump
<1> HIDE DEF u
<1>2. /\ u.last \in Nat
      /\ file' \in Seq(Cell) /\ Len(file') = u.last + 1
      /\ \A i \in 1 .. Len(file') : i - 1 \in 0 .. u.last /\ file'[i] = u.d[i - 1]
      /\ \A x \in 0 .. u.last : x + 1 \in 1 .. Len(file') /\ file'[x + 1] = u.d[x]
      /\ \A x, y \in 1 .. Len(file') : x < y => Before(file'[x], file'[y])
  BY <1>1, DumpMakes
<1>3. /\ \A x \in 0 .. u.last : Newest(Records, u.d[x])
      /\ \A r \in Records : \E x \in 0 .. u.last : u.d[x].key = r.key
  BY <1>1, PreprocessedInv
<1>4. Ascending(file')
  <2>1. ASSUME NEW i \in 2 .. Len(file') PROVE Basic(file'[i - 1], file'[i]) < 0
    <3>1. i - 1 \in 1 .. Len(file') /\ i \in 1 .. Len(file') /\ i - 1 < i
      BY <1>2
    <3>2. Before(file'[i - 1], file'[i])
      BY <1>2, <3>1
    <3>3. file'[i - 1] \in Cell /\ file'[i] \in Cell
      BY <1>2, <3>1
    <3>4. file'[i - 1].key \in Nat /\ file'[i].key \in Nat
      BY <3>3, CellKeys
    <3> QED
      BY <3>2, <3>4, BasicOrder
  <2> QED
    BY <2>1 DEF Ascending
<1>5. DOMAIN file' = 1 .. Len(file')
  BY <1>2
<1>6. \A i \in DOMAIN file' : Newest(Records, file'[i])
  BY <1>2, <1>3, <1>5
<1>7. \A r \in Records : \E i \in DOMAIN file' : file'[i].key = r.key
  <2>1. ASSUME NEW r \in Records PROVE \E i \in DOMAIN file' : file'[i].key = r.key
    <3>1. PICK x \in 0 .. u.last : u.d[x].key = r.key
      BY <1>3
    <3> QED
      BY <1>2, <1>5, <3>1
  <2> QED
    BY <2>1
<1> QED
  BY <1>4, <1>6, <1>7 DEF Wrote

(* A dump writes the newest record of each key, sorted (memtable.c:188),   *)
(* if its timestamps are less than half of their range apart.              *)
THEOREM DumpExactCorrect == MemtableSpec => DumpExact
<1>1. MemtableInv /\ [MemtableNext]_memtableVars
        => [Dumps /\ Near(Records) => Wrote(Records, file')]_memtableVars
  <2> SUFFICES ASSUME MemtableInv, [MemtableNext]_memtableVars, Dumps, Near(Records)
               PROVE  Wrote(Records, file')
    OBVIOUS
  <2>1. count \in Nat /\ count > 0 /\ count' = 0
    BY DEF MemtableInv, ArrayInv, Dumps
  <2>2. ~DumpFails
    <3>1. ASSUME DumpFails PROVE count' # 0
      <4>1. Preprocessed.last \in 0 .. Size - 1
        BY <2>1, PreprocessedInv DEF MemtableInv
      <4>2. count' = Preprocessed.last + 1
        BY <3>1 DEF DumpFails
      <4> QED
        BY <4>1, <4>2
    <3> QED
      BY <2>1, <3>1
  <2>3. \A k \in Keys, t \in Timestamps : ~Add(k, t)
    BY <2>1 DEF Add
  <2>4. \A k \in Keys : ~Find(k) /\ ~FindInFile(k)
    BY <2>1 DEF Find, FindInFile
  <2>5. ~(UNCHANGED memtableVars)
    BY <2>1 DEF memtableVars
  <2>6. Dump
    BY <2>2, <2>3, <2>4, <2>5 DEF MemtableNext
  <2> QED
    BY <2>6, DumpWrites
<1> QED
  BY <1>1, MemtableInvariant, PTL DEF MemtableSpec, DumpExact
=============================================================================
