--------------------------- MODULE MemNodeProofs ---------------------------
(***************************************************************************)
(* Theorems about the handle allocator, for a table of any size, and about *)
(* MemNode, for any numbers of handles, connections, descriptors, tasks    *)
(* and workers.                                                            *)
(***************************************************************************)
EXTENDS MemNode, WellFoundedInduction, FiniteSetTheorems, TLAPS

-----------------------------------------------------------------------------
(* The handle allocator.                                                   *)

(* The fields of a table; the keys do not matter to the lemmas.            *)
IsTable(a) == a = [num |-> a.num, i2h |-> a.i2h, h2i |-> a.h2i,
                   key |-> a.key, byKey |-> a.byKey]

LEMMA SizeIsNat == MaxHandles \in Nat /\ MaxHandles > 0
BY MaxHandlesAssumption

LEMMA TableFields ==
    ASSUME NEW a, WellFormed(a)
    PROVE  /\ a.num \in 0..MaxHandles /\ a.num \in Nat
           /\ a.i2h \in [Handle -> Handle] /\ a.h2i \in [Handle -> Handle]
BY SizeIsNat DEF WellFormed

(* In a well formed table the handles in use are the first `num` entries   *)
(* of indexToHandle.                                                       *)
LEMMA InUseAreFirst ==
    ASSUME NEW a, WellFormed(a), NEW i \in Handle
    PROVE  IsValid(a, a.i2h[i]) <=> i < a.num
<1>1. a.i2h[i] \in Handle /\ a.h2i[a.i2h[i]] \in Handle
  BY DEF WellFormed
<1>2. CASE i < a.num
  BY <1>1, <1>2 DEF WellFormed, IsValid
<1>3. CASE ~(i < a.num)
  <2>1. SUFFICES ASSUME IsValid(a, a.i2h[i]) PROVE FALSE
    BY <1>3
  <2>2. a.h2i[a.i2h[i]] = i
    BY <1>1, <2>1 DEF WellFormed, IsValid
  <2> QED
    BY <1>3, <2>1, <2>2 DEF IsValid
<1> QED
  BY <1>2, <1>3

(* cx_handle_alloc: the table stays well formed.                           *)
LEMMA AllocWellFormed ==
    ASSUME NEW a, IsTable(a), WellFormed(a), ~IsFull(a)
    PROVE  WellFormed(Alloc(a))
<1> DEFINE b == Alloc(a)
           n == a.num
           h == a.i2h[n]
<1> MaxHandles \in Nat
  BY SizeIsNat
<1>0. n \in 0..MaxHandles /\ n < MaxHandles /\ a.i2h \in [Handle -> Handle]
  BY TableFields DEF IsFull
<1>1. n \in Handle /\ h \in Handle
  <2>1. n \in Handle
    BY <1>0 DEF Handle
  <2> QED
    BY <2>1, <1>0
<1>2. b.num = n + 1 /\ b.i2h = a.i2h /\ b.h2i = [a.h2i EXCEPT ![h] = n]
  BY DEF Alloc, NextOf, IsTable
<1>3. b.num \in 0..MaxHandles
  BY <1>1, <1>2 DEF Handle
<1>4. b.i2h \in [Handle -> Handle] /\ b.h2i \in [Handle -> Handle]
  BY <1>1, <1>2 DEF WellFormed
<1>5. ASSUME NEW i \in Handle, i < b.num PROVE b.h2i[b.i2h[i]] = i
  <2>1. CASE i = n
    BY <2>1, <1>1, <1>2 DEF WellFormed
  <2>2. CASE i # n
    <3>1. i < n
      BY <2>2, <1>1, <1>2, <1>5 DEF Handle
    <3>2. a.i2h[i] # h /\ a.i2h[i] \in Handle
      BY <2>2, <1>1 DEF WellFormed
    <3> QED
      BY <3>1, <3>2, <1>1, <1>2 DEF WellFormed
  <2> QED
    BY <2>1, <2>2
<1> QED
  BY <1>2, <1>3, <1>4, <1>5 DEF WellFormed

(* halloc.c:57: the handle cx_handle_alloc returns was not in use, and is  *)
(* the only one more that is in use afterwards.                            *)
THEOREM AllocFresh ==
    ASSUME NEW a, IsTable(a), WellFormed(a), ~IsFull(a)
    PROVE  /\ NextOf(a) \in Handle /\ ~IsValid(a, NextOf(a))
           /\ \A g \in Handle :
                 IsValid(Alloc(a), g) <=> IsValid(a, g) \/ g = NextOf(a)
<1> DEFINE b == Alloc(a)
           n == a.num
           h == a.i2h[n]
<1> MaxHandles \in Nat
  BY SizeIsNat
<1>0. n \in 0..MaxHandles /\ n < MaxHandles /\ a.i2h \in [Handle -> Handle]
  BY TableFields DEF IsFull
<1>1. n \in Handle /\ h \in Handle
  <2>1. n \in Handle
    BY <1>0 DEF Handle
  <2> QED
    BY <2>1, <1>0
<1>2. b.num = n + 1 /\ b.i2h = a.i2h /\ b.h2i = [a.h2i EXCEPT ![h] = n]
  BY DEF Alloc, NextOf, IsTable
<1>3. h \in Handle /\ ~IsValid(a, h)
  BY <1>1, InUseAreFirst DEF Handle
<1>4. ASSUME NEW g \in Handle
      PROVE  IsValid(b, g) <=> IsValid(a, g) \/ g = h
  <2>1. CASE g = h
    <3>1. b.h2i[h] = n /\ b.i2h[n] = h
      BY <1>1, <1>2 DEF WellFormed
    <3>2. n < b.num
      BY <1>0, <1>2
    <3> QED
      BY <2>1, <3>1, <3>2 DEF IsValid
  <2>2. CASE g # h
    <3>1. b.h2i[g] = a.h2i[g] /\ a.h2i[g] \in Handle
      BY <2>2, <1>1, <1>2 DEF WellFormed
    <3>2. ASSUME IsValid(b, g) PROVE a.h2i[g] # n
      BY <3>1, <3>2, <1>2, <2>2 DEF IsValid
    <3> QED
      BY <3>1, <3>2, <1>1, <1>2, <2>2 DEF IsValid, Handle
  <2> QED
    BY <2>1, <2>2
<1> QED
  BY <1>3, <1>4 DEF NextOf

(* What a free of a handle in use leaves.                                  *)
LEMMA FreeFields ==
    ASSUME NEW a, WellFormed(a), NEW h \in Handle, IsValid(a, h)
    PROVE  LET n == a.num - 1  i == a.h2i[h]  last == a.i2h[n]  b == Free(a, h)
           IN  /\ n \in Handle /\ i \in Handle /\ i <= n /\ last \in Handle
               /\ a.i2h[i] = h /\ a.h2i[last] = n
               /\ b.num = n
               /\ b.i2h = [a.i2h EXCEPT ![i] = last, ![n] = h]
               /\ b.h2i = [a.h2i EXCEPT ![last] = i]
<1> DEFINE n == a.num - 1
           i == a.h2i[h]
           last == a.i2h[n]
<1>1. i \in Handle /\ i < a.num /\ a.i2h[i] = h
  BY DEF WellFormed, IsValid
<1>2. n \in Handle /\ i <= n /\ n < a.num
  <2>1. a.num \in 0..MaxHandles /\ MaxHandles \in Nat /\ i \in 0..MaxHandles - 1
    BY <1>1, TableFields, SizeIsNat DEF Handle
  <2>2. /\ a.num \in Nat /\ a.num <= MaxHandles /\ i \in Nat
    BY <2>1
  <2> QED
    BY <2>2, <1>1, SizeIsNat DEF Handle
<1>3. last \in Handle /\ a.h2i[last] = n
  BY <1>2 DEF WellFormed
<1> QED
  BY <1>1, <1>2, <1>3 DEF Free

(* cx_handle_free of a handle in use: the table stays well formed.         *)
LEMMA FreeWellFormed ==
    ASSUME NEW a, WellFormed(a), NEW h \in Handle, IsValid(a, h)
    PROVE  WellFormed(Free(a, h))
<1> DEFINE b == Free(a, h)
           n == a.num - 1
           i == a.h2i[h]
           last == a.i2h[n]
<1>1. /\ n \in Handle /\ i \in Handle /\ i <= n /\ last \in Handle
      /\ a.i2h[i] = h /\ a.h2i[last] = n
      /\ b.num = n
      /\ b.i2h = [a.i2h EXCEPT ![i] = last, ![n] = h]
      /\ b.h2i = [a.h2i EXCEPT ![last] = i]
  BY FreeFields
<1>2. a.i2h \in [Handle -> Handle] /\ a.h2i \in [Handle -> Handle]
  BY DEF WellFormed
<1>3. b.num \in 0..MaxHandles
  <2>1. n \in Nat /\ n <= MaxHandles
    BY <1>1, SizeIsNat DEF Handle
  <2> QED
    BY <2>1, <1>1, SizeIsNat
<1>4. b.i2h \in [Handle -> Handle] /\ b.h2i \in [Handle -> Handle]
  BY <1>1, <1>2
<1>5. \A j \in Handle : b.i2h[j] = IF j = n THEN h
                                   ELSE IF j = i THEN last ELSE a.i2h[j]
  BY <1>1, <1>2
<1>6. ASSUME NEW j \in Handle, NEW k \in Handle, b.i2h[j] = b.i2h[k]
      PROVE  j = k
  <2>1. \A x, y \in Handle : a.i2h[x] = a.i2h[y] => x = y
    BY DEF WellFormed
  <2> QED
    BY <2>1, <1>1, <1>5, <1>6
<1>7. ASSUME NEW j \in Handle, j < b.num PROVE b.h2i[b.i2h[j]] = j
  <2>1. j # n /\ j < a.num
    BY <1>1, <1>7 DEF Handle, WellFormed
  <2>2. CASE j = i
    BY <2>1, <2>2, <1>1, <1>2, <1>5
  <2>3. CASE j # i
    <3>1. b.i2h[j] = a.i2h[j] /\ a.i2h[j] # last /\ a.i2h[j] \in Handle
      BY <2>1, <2>3, <1>1, <1>2, <1>5 DEF WellFormed
    <3> QED
      BY <2>1, <3>1, <1>1, <1>2 DEF WellFormed
  <2> QED
    BY <2>2, <2>3
<1> QED
  BY <1>3, <1>4, <1>6, <1>7 DEF WellFormed

(* halloc.c:94: cx_handle_free of a handle in use takes that handle out of *)
(* use and no other; without that assumption it does not, see the README.  *)
THEOREM FreeExact ==
    ASSUME NEW a, WellFormed(a), NEW h \in Handle, IsValid(a, h)
    PROVE  \A g \in Handle : IsValid(Free(a, h), g) <=> IsValid(a, g) /\ g # h
<1> DEFINE b == Free(a, h)
           n == a.num - 1
           i == a.h2i[h]
           last == a.i2h[n]
<1>1. /\ n \in Handle /\ i \in Handle /\ i <= n /\ last \in Handle
      /\ a.i2h[i] = h /\ a.h2i[last] = n
      /\ b.num = n
      /\ b.i2h = [a.i2h EXCEPT ![i] = last, ![n] = h]
      /\ b.h2i = [a.h2i EXCEPT ![last] = i]
  BY FreeFields
<1>2. /\ a.i2h \in [Handle -> Handle] /\ a.h2i \in [Handle -> Handle]
      /\ \A x, y \in Handle : a.i2h[x] = a.i2h[y] => x = y
      /\ a.num = n + 1
  <2>1. a.num = n + 1
    BY TableFields
  <2> QED
    BY <2>1 DEF WellFormed
<1>3. \A j \in Handle : b.i2h[j] = IF j = n THEN h
                                   ELSE IF j = i THEN last ELSE a.i2h[j]
  BY <1>1, <1>2
<1>4. \A g \in Handle : b.h2i[g] = IF g = last THEN i ELSE a.h2i[g]
  BY <1>1, <1>2
<1> SUFFICES ASSUME NEW g \in Handle
             PROVE  IsValid(b, g) <=> IsValid(a, g) /\ g # h
  OBVIOUS
<1>5. CASE g = h
  <2>1. CASE h = last
    <3>1. i = n /\ b.h2i[h] = n
      BY <2>1, <1>1, <1>4
    <3> QED
      BY <3>1, <1>5, <1>1 DEF IsValid, Handle
  <2>2. CASE h # last
    <3>1. b.h2i[h] = i /\ i # n
      BY <2>2, <1>1, <1>4
    <3>2. b.i2h[i] = last
      BY <3>1, <1>1, <1>3
    <3> QED
      BY <3>1, <3>2, <2>2, <1>5 DEF IsValid
  <2> QED
    BY <2>1, <2>2
<1>6. CASE g # h /\ g = last
  <2>1. IsValid(a, last)
    BY <1>1, <1>2 DEF IsValid, Handle
  <2>2. i # n
    BY <1>6, <1>1
  <2>3. b.h2i[last] = i /\ b.i2h[i] = last /\ i < n
    BY <2>2, <1>1, <1>3, <1>4 DEF Handle
  <2> QED
    BY <2>1, <2>3, <1>1, <1>6 DEF IsValid
<1>7. CASE g # h /\ g # last
  <2>1. b.h2i[g] = a.h2i[g] /\ a.h2i[g] \in Handle
    BY <1>7, <1>2, <1>4
  <2>2. ASSUME IsValid(a, g) PROVE IsValid(b, g)
    <3>1. a.h2i[g] # n /\ a.h2i[g] # i
      BY <2>2, <1>7, <1>1 DEF IsValid
    <3>2. a.h2i[g] < n
      BY <1>1, <1>2, <2>1, <2>2, <3>1 DEF IsValid, Handle
    <3>3. b.i2h[a.h2i[g]] = g
      BY <1>3, <2>1, <2>2, <3>1 DEF IsValid
    <3> QED
      BY <1>1, <2>1, <3>2, <3>3 DEF IsValid
  <2>3. ASSUME IsValid(b, g) PROVE IsValid(a, g)
    <3>1. a.h2i[g] # n /\ a.h2i[g] # i
      BY <2>3, <2>1, <1>7, <1>1, <1>3 DEF IsValid, Handle
    <3>2. a.i2h[a.h2i[g]] = g
      BY <3>1, <2>1, <2>3, <1>3 DEF IsValid
    <3>3. a.h2i[g] < n
      BY <2>1, <2>3, <1>1 DEF IsValid
    <3>4. n \in Int /\ a.h2i[g] \in Int
      BY <1>1, <2>1, SizeIsNat DEF Handle
    <3> QED
      BY <3>2, <3>3, <3>4, <1>2 DEF IsValid
  <2> QED
    BY <2>2, <2>3, <1>7
<1> QED
  BY <1>5, <1>6, <1>7

-----------------------------------------------------------------------------
(* The states.                                                             *)

Cid == [h : Handle, ver : Nat]
Packet == {"auth", "badauth", "req", "bad"}
Asker == 0 .. MaxConns
Fd == Fds \cup {NoFd}

Connection ==
    [st : {"none", "queued", "open", "closed"}, fd : Fd, in : Seq(Packet),
     eof : BOOLEAN, got : SUBSET Asker]

Client ==
    [ver : Nat, fd : Fd, validated : BOOLEAN, conn : Asker, out : SUBSET Asker]

Strings == {KeyString(k) : k \in Int}
KeyMap == UNION {[D -> Handle] : D \in SUBSET Strings}

Table ==
    [num : 0 .. MaxHandles, i2h : [Handle -> Handle], h2i : [Handle -> Handle],
     key : [Handle -> Int], byKey : KeyMap]

Server ==
    [conn : [Conns -> Connection], client : [Handle -> Client], ha : Table,
     twice : BOOLEAN, ub : BOOLEAN]

Task ==
    [state : {"none", "new", "running", "awaiting", "completed"},
     pc : {"idle", "run", "send"}, cid : Cid, asker : Asker]

LfsState ==
    [st : {"open", "closed", "null"}, out : SUBSET Tasks, srv : SUBSET Tasks,
     ans : SUBSET Tasks]

MainState ==
    [pc : {"poll", "flush", "abort", "last abort", "closing", "close lfs", "join",
           "done"},
     ids : [Handle -> Cid], count : 0 .. MaxHandles, todo : SUBSET Tasks,
     wrote : SUBSET Tasks]

TypeOK ==
    /\ sv \in Server
    /\ lfs \in LfsState
    /\ task \in [Tasks -> Task]
    /\ running \in BOOLEAN /\ up \in BOOLEAN
    /\ main \in MainState
    /\ lost \subseteq Tasks

-----------------------------------------------------------------------------
(* The invariant.                                                          *)

OpenConns(s) == {c \in Conns : s.conn[c].st = "open"}
Begun(s) == {c \in Conns : s.conn[c].st \in {"open", "closed"}}
Has(s, h) == s.client[h].fd # NoFd

(* Open connections have descriptors of their own, and so have clients:    *)
(* those of connections that are open.                                     *)
FdsInv(s) ==
    /\ \A c \in OpenConns(s) : s.conn[c].fd \in Fds
    /\ \A c, d \in OpenConns(s) : s.conn[c].fd = s.conn[d].fd => c = d
    /\ \A h \in Handle : Has(s, h) =>
          /\ s.client[h].conn \in OpenConns(s)
          /\ s.conn[s.client[h].conn].fd = s.client[h].fd
    /\ \A g, h \in Handle : Has(s, g) /\ s.client[g].fd = s.client[h].fd => g = h

(* The handles in use are those of the clients that have a descriptor, and *)
(* the dictionary leads from it to them.                                   *)
TableInv(s) ==
    /\ WellFormed(s.ha)
    /\ \A h \in Handle : IsValid(s.ha, h) <=> Has(s, h)
    /\ \A h \in Handle : Has(s, h) =>
          /\ s.ha.key[h] = s.client[h].fd
          /\ KeyString(s.client[h].fd) \in DOMAIN s.ha.byKey
          /\ s.ha.byKey[KeyString(s.client[h].fd)] = h
    /\ Cardinality(OpenConns(s)) = s.ha.num

(* While no version can have come round again, each connection has made    *)
(* one handle's version greater by one, and answers are where they belong. *)
FewConns == MaxConns < VersionMod

AnswersInv(s) ==
    /\ \A h \in Handle : s.client[h].ver <= Cardinality(Begun(s))
    /\ \A h \in Handle : s.client[h].out \subseteq {s.client[h].conn}
    /\ \A c \in Conns : s.conn[c].got \subseteq {c}

ServerInv(s) ==
    /\ FdsInv(s)
    /\ ~s.twice => TableInv(s)
    /\ FewConns => AnswersInv(s)

(* A task's client has had its handle since the request, or the version    *)
(* tells.                                                                  *)
Matches(s, x) ==
    /\ x.cid.ver <= s.client[x.cid.h].ver
    /\ x.cid.ver = s.client[x.cid.h].ver => x.asker = s.client[x.cid.h].conn

TasksInv == FewConns => \A t \in Tasks : Live(t) => Matches(sv, task[t])

(* Workers run tasks there are.                                            *)
RunningInv == \A t \in Tasks : Running(t) => Live(t)

(* The main thread polls, flushes and aborts while taskman runs; only the  *)
(* last abort comes after taskman has been stopped.                        *)
UpInv == main.pc \in {"poll", "flush", "abort"} => up

IInv ==
    TypeOK /\ ServerInv(sv) /\ TasksInv /\ RunningInv /\ UpInv /\ AwaitingServed

-----------------------------------------------------------------------------
(* Recursion over numbers.                                                 *)

LEMMA Least ==
    ASSUME NEW T \in SUBSET Nat, T # {}
    PROVE  \E x \in T : \A y \in T : x <= y
<1> DEFINE R == OpToRel(<, Nat)
<1>1. IsWellFoundedOn(R, Nat)
  BY NatLessThanWellFounded
<1>2. \A x, y \in Nat : x < y => <<x, y>> \in R
  BY DEF OpToRel
<1> HIDE DEF R
<1>3. PICK x \in T : \A y \in T : ~(<<y, x>> \in R)
  BY <1>1, WFMin
<1>4. x \in Nat /\ \A y \in T : y \in Nat /\ ~(y < x)
  BY <1>2, <1>3
<1> QED
  BY <1>3, <1>4

(* What each step keeps, all of them do.                                   *)
LEMMA Stays ==
    ASSUME NEW N \in Nat, NEW S, NEW f, f[0] \in S,
           \A n \in 1 .. N : f[n - 1] \in S => f[n] \in S
    PROVE  \A n \in 0 .. N : f[n] \in S
<1> DEFINE T == {n \in 0 .. N : f[n] \notin S}
<1> SUFFICES ASSUME T # {} PROVE FALSE
  OBVIOUS
<1>1. PICK m \in T : \A n \in T : m <= n
  <2>1. T \in SUBSET Nat
    OBVIOUS
  <2> HIDE DEF T
  <2> QED
    BY <2>1, Least
<1>2. m \in 1 .. N /\ m - 1 \in 0 .. N /\ f[m] \notin S
  <2>1. m \in 0 .. N /\ f[m] \notin S
    OBVIOUS
  <2>2. m # 0
    BY <2>1
  <2> QED
    BY <2>1, <2>2
<1>3. m - 1 \notin T
  <2> HIDE DEF T
  <2> QED
    BY <1>1, <1>2
<1> QED
  BY <1>2, <1>3

(* A recursion over the numbers up to N has a solution: were there a least *)
(* number up to which it has none, the one before would extend to it.      *)
IsStep(G, N, S) == \A n \in 1 .. N : \A x \in S : G[n][x] \in S
Solution(f, G, N, s, S) ==
    f \in [0 .. N -> S] /\ f[0] = s /\ \A n \in 1 .. N : f[n] = G[n][f[n - 1]]

LEMMA Recursion ==
    ASSUME NEW N \in Nat, NEW S, NEW s \in S, NEW G, IsStep(G, N, S)
    PROVE  \E f : Solution(f, G, N, s, S)
<1> DEFINE Upto(m, f) == f[0] = s /\ \A n \in 1 .. m : f[n] = G[n][f[n - 1]]
           T == {m \in 0 .. N : ~\E f \in [0 .. m -> S] : Upto(m, f)}
<1>1. 0 \notin T
  <2>1. [n \in 0 .. 0 |-> s] \in [0 .. 0 -> S] /\ Upto(0, [n \in 0 .. 0 |-> s])
    OBVIOUS
  <2> QED
    BY <2>1
<1>2. ASSUME T # {} PROVE FALSE
  <2>1. T \in SUBSET Nat
    OBVIOUS
  <2>2. PICK m \in T : \A n \in T : m <= n
    <3> HIDE DEF T
    <3> QED
      BY <1>2, <2>1, Least
  <2>3. m \in 0 .. N /\ m # 0 /\ ~\E f \in [0 .. m -> S] : Upto(m, f)
    BY <1>1
  <2>4. m \in 1 .. N /\ m - 1 \in 0 .. N /\ m - 1 \notin T
    <3>1. m \in 1 .. N /\ m - 1 \in 0 .. N
      BY <2>3
    <3> HIDE DEF T
    <3> QED
      BY <3>1, <2>2
  <2>5. PICK f \in [0 .. m - 1 -> S] : Upto(m - 1, f)
    BY <2>4
  <2> DEFINE g == [n \in 0 .. m |-> IF n = m THEN G[m][f[m - 1]] ELSE f[n]]
  <2> HIDE DEF T
  <2>6. g \in [0 .. m -> S]
    <3>1. f[m - 1] \in S
      BY <2>4, <2>5
    <3>2. G[m][f[m - 1]] \in S
      BY <3>1, <2>4 DEF IsStep
    <3>3. \A n \in 0 .. m : n # m => f[n] \in S
      BY <2>4
    <3> QED
      BY <3>2, <3>3
  <2>7. g[0] = s
    BY <2>4, <2>5
  <2>8. ASSUME NEW n \in 1 .. m PROVE g[n] = G[n][g[n - 1]]
    <3>1. n - 1 \in 0 .. m /\ n - 1 # m /\ n \in 0 .. m
      BY <2>4
    <3>2. g[n - 1] = f[n - 1]
      BY <3>1
    <3>3. CASE n = m
      BY <3>1, <3>2, <3>3
    <3>4. CASE n # m
      <4>1. n \in 1 .. m - 1
        BY <2>4, <3>4
      <4> QED
        BY <2>5, <3>1, <3>2, <3>4, <4>1
    <3> QED
      BY <3>3, <3>4
  <2> HIDE DEF g
  <2> QED
    BY <2>3, <2>6, <2>7, <2>8
<1>3. N \notin T
  BY <1>2
<1> QED
  BY <1>3 DEF Solution

LEMMA DisconnectAllIn ==
    ASSUME NEW S, NEW s \in S, NEW cids \in Seq(Cid),
           \A x \in S, cid \in Cid : Disconnect(x, cid) \in S
    PROVE  DisconnectAll(s, cids) \in S
<1> DEFINE N == Len(cids)
           Solves(f) == f = [n \in 0 .. N |-> IF n = 0 THEN s
                                              ELSE Disconnect(f[n - 1], cids[n])]
           after == CHOOSE f : Solves(f)
<1>0. N \in Nat
  OBVIOUS
<1>1. N \in Nat /\ \A n \in 1 .. N : cids[n] \in Cid
  OBVIOUS
<1>2. \E f : Solves(f)
  <2> DEFINE G == [n \in 1 .. N |-> [x \in S |-> Disconnect(x, cids[n])]]
  <2>1. IsStep(G, N, S)
    BY <1>1 DEF IsStep
  <2>2. \A x \in S, n \in 1 .. N : G[n][x] = Disconnect(x, cids[n])
    OBVIOUS
  <2> HIDE DEF G, N
  <2>3. PICK f : Solution(f, G, N, s, S)
    BY <1>0, <2>1, Recursion
  <2>4. ASSUME NEW n \in 0 .. N
        PROVE  f[n] = IF n = 0 THEN s ELSE Disconnect(f[n - 1], cids[n])
    <3>1. CASE n # 0
      <4>1. n \in 1 .. N /\ n - 1 \in 0 .. N
        BY <1>1, <3>1
      <4>2. f[n - 1] \in S
        BY <2>3, <4>1 DEF Solution
      <4> QED
        BY <2>2, <2>3, <3>1, <4>1, <4>2 DEF Solution
    <3> QED
      BY <2>3, <3>1 DEF Solution
  <2>5. f = [n \in 0 .. N |-> f[n]]
    BY <2>3 DEF Solution
  <2>6. Solves(f)
    BY <2>4, <2>5
  <2> QED
    BY <2>6
<1>3. Solves(after)
  <2> HIDE DEF Solves
  <2> QED
    BY <1>2
<1> HIDE DEF after, N
<1>4. after[0] = s /\ \A n \in 1 .. N : after[n] = Disconnect(after[n - 1], cids[n])
  BY <1>1, <1>3
<1>5. \A n \in 0 .. N : after[n] \in S
  BY <1>1, <1>4, Stays
<1>6. DisconnectAll(s, cids) = after[N]
  BY DEF DisconnectAll, after, N
<1> QED
  BY <1>1, <1>5, <1>6

LEMMA ProcessStreamIn ==
    ASSUME NEW S, [s |-> sv, task |-> task, ok |-> TRUE] \in S, NEW h,
           NEW packets \in Seq(Packet),
           \A x \in S, p \in Packet : HandlePacket(x, p, h) \in S,
           \A x \in S : HandleBadAuth(x, h) \in S
    PROVE  ProcessStream(packets, h) \in S
<1> DEFINE N == Len(packets)
           s == [s |-> sv, task |-> task, ok |-> TRUE]
           Solves(f) == f = [n \in 0 .. N |-> IF n = 0 THEN s
                                              ELSE HandlePacket(f[n - 1], packets[n], h)]
           after == CHOOSE f : Solves(f)
<1>0. N \in Nat /\ s \in S
  OBVIOUS
<1>1. N \in Nat /\ \A n \in 1 .. N : packets[n] \in Packet
  OBVIOUS
<1>2. \E f : Solves(f)
  <2> DEFINE G == [n \in 1 .. N |-> [x \in S |-> HandlePacket(x, packets[n], h)]]
  <2>1. IsStep(G, N, S)
    BY <1>1 DEF IsStep
  <2>2. \A x \in S, n \in 1 .. N : G[n][x] = HandlePacket(x, packets[n], h)
    OBVIOUS
  <2> HIDE DEF G, N, s
  <2>3. PICK f : Solution(f, G, N, s, S)
    BY <1>0, <2>1, Recursion
  <2>4. ASSUME NEW n \in 0 .. N
        PROVE  f[n] = IF n = 0 THEN s ELSE HandlePacket(f[n - 1], packets[n], h)
    <3>1. CASE n # 0
      <4>1. n \in 1 .. N /\ n - 1 \in 0 .. N
        BY <1>1, <3>1
      <4>2. f[n - 1] \in S
        BY <2>3, <4>1 DEF Solution
      <4> QED
        BY <2>2, <2>3, <3>1, <4>1, <4>2 DEF Solution
    <3> QED
      BY <2>3, <3>1 DEF Solution
  <2>5. f = [n \in 0 .. N |-> f[n]]
    BY <2>3 DEF Solution
  <2>6. Solves(f)
    BY <2>4, <2>5
  <2> QED
    BY <2>6
<1>3. Solves(after)
  <2> HIDE DEF Solves
  <2> QED
    BY <1>2
<1> HIDE DEF after, N, s
<1>4. after[0] = s /\ \A n \in 1 .. N : after[n] = HandlePacket(after[n - 1], packets[n], h)
  BY <1>1, <1>3
<1>5. \A n \in 0 .. N : after[n] \in S
  BY <1>0, <1>1, <1>4, Stays
<1>6. ProcessStream(packets, h) = IF after[N].ok THEN after[N] ELSE HandleBadAuth(after[N], h)
  BY DEF ProcessStream, after, N, s
<1> QED
  BY <1>1, <1>5, <1>6

(* The sweep's loop stays within tmpIds, as there are as many entries as   *)
(* handles.                                                                *)
NotedIds == [ids : [Handle -> Cid], front : 0 .. MaxHandles, back : 0 .. MaxHandles]

LEMMA NotedIn ==
    ASSUME NEW s, s.ha.num \in 0 .. MaxHandles,
           \A i \in 0 .. s.ha.num - 1 : CidOf(s, s.ha.i2h[i]) \in Cid,
           NEW tmpIds \in [Handle -> Cid], NEW U, NEW V
    PROVE  Noted(s, tmpIds, U, V) \in NotedIds
<1> DEFINE N == s.ha.num
           S == [ids : [Handle -> Cid], front : Nat, back : Nat]
           s0 == [ids |-> tmpIds, front |-> 0, back |-> 0]
           Next1(x, n) == Note(s, x, s.ha.i2h[n - 1], U, V)
           Solves(f) == f = [n \in 0 .. N |-> IF n = 0 THEN s0 ELSE Next1(f[n - 1], n)]
           after == CHOOSE f : Solves(f)
<1>0. N \in Nat /\ N <= MaxHandles /\ s0 \in S /\ s0.front = 0 /\ s0.back = 0
  BY SizeIsNat
<1>1. ASSUME NEW x \in S, NEW n \in 1 .. N
      PROVE  /\ Next1(x, n) \in S
             /\ Next1(x, n).front <= x.front + 1 /\ Next1(x, n).back <= x.back + 1
  <2>1. CidOf(s, s.ha.i2h[n - 1]) \in Cid
    <3>1. n - 1 \in 0 .. s.ha.num - 1
      BY <1>0
    <3> QED
      BY <3>1
  <2>2. ASSUME NEW y \in S, NEW cid \in Cid
        PROVE  /\ NoteFront(y, cid) \in S /\ NoteFront(y, cid).front = y.front + 1
               /\ NoteFront(y, cid).back = y.back
    <3> DEFINE ids2 == [y.ids EXCEPT ![y.front] = cid]
    <3>1. ids2 \in [Handle -> Cid] /\ y.front \in Nat /\ y.back \in Nat
      OBVIOUS
    <3>2. NoteFront(y, cid) = [y EXCEPT !.ids = ids2, !.front = y.front + 1]
      BY DEF NoteFront
    <3> HIDE DEF ids2
    <3>3. NoteFront(y, cid) = [ids |-> ids2, front |-> y.front + 1, back |-> y.back]
      BY <3>2
    <3> QED
      BY <3>1, <3>3
  <2>3. ASSUME NEW y \in S, NEW cid \in Cid
        PROVE  /\ NoteBack(y, cid) \in S /\ NoteBack(y, cid).back = y.back + 1
               /\ NoteBack(y, cid).front = y.front
    <3> DEFINE ids2 == [y.ids EXCEPT ![MaxHandles - 1 - y.back] = cid]
    <3>1. ids2 \in [Handle -> Cid] /\ y.front \in Nat /\ y.back \in Nat
      OBVIOUS
    <3>2. NoteBack(y, cid) = [y EXCEPT !.ids = ids2, !.back = y.back + 1]
      BY DEF NoteBack
    <3> HIDE DEF ids2
    <3>3. NoteBack(y, cid) = [ids |-> ids2, front |-> y.front, back |-> y.back + 1]
      BY <3>2
    <3> QED
      BY <3>1, <3>3
  <2>4. x.front \in Nat /\ x.back \in Nat
    OBVIOUS
  <2> HIDE DEF S
  <2> QED
    BY <2>1, <2>2, <2>3, <2>4 DEF Note
<1> HIDE DEF Next1
<1>2. \E f : Solves(f)
  <2> DEFINE G == [n \in 1 .. N |-> [x \in S |-> Next1(x, n)]]
  <2> HIDE DEF N, S, s0
  <2>1. IsStep(G, N, S)
    BY <1>1 DEF IsStep
  <2>2. \A x \in S, n \in 1 .. N : G[n][x] = Next1(x, n)
    OBVIOUS
  <2> HIDE DEF G
  <2>3. PICK f : Solution(f, G, N, s0, S)
    BY <1>0, <2>1, Recursion
  <2>4. ASSUME NEW n \in 0 .. N
        PROVE  f[n] = IF n = 0 THEN s0 ELSE Next1(f[n - 1], n)
    <3>1. CASE n # 0
      <4>1. n \in 1 .. N /\ n - 1 \in 0 .. N
        BY <1>0, <3>1
      <4>2. f[n - 1] \in S
        BY <2>3, <4>1 DEF Solution
      <4> QED
        BY <2>2, <2>3, <3>1, <4>1, <4>2 DEF Solution
    <3> QED
      BY <2>3, <3>1 DEF Solution
  <2>5. f = [n \in 0 .. N |-> f[n]]
    BY <2>3 DEF Solution
  <2>6. Solves(f)
    BY <2>4, <2>5
  <2> QED
    BY <2>6
<1>3. Solves(after)
  <2> HIDE DEF Solves
  <2> QED
    BY <1>2
<1> HIDE DEF after, N, s0, S
<1>4. after[0] = s0 /\ \A n \in 1 .. N : after[n] = Next1(after[n - 1], n)
  BY <1>0, <1>3
<1>5. \A n \in 0 .. N : after[n] \in S
  <2>1. \A n \in 1 .. N : after[n - 1] \in S => after[n] \in S
    BY <1>1, <1>4
  <2> QED
    BY <1>0, <1>4, <2>1, Stays
<1>6. after[N].front <= N /\ after[N].back <= N
  <2> DEFINE f == [n \in 0 .. N |-> IF after[n].front <= n /\ after[n].back <= n
                                    THEN 1 ELSE 0]
             One == {1}
  <2>1. f[0] \in {1}
    <3>1. 0 \in 0 .. N /\ after[0].front <= 0 /\ after[0].back <= 0
      BY <1>0, <1>4
    <3> QED
      BY <3>1
  <2>2. ASSUME NEW n \in 1 .. N, f[n - 1] \in {1} PROVE f[n] \in {1}
    <3>1. n - 1 \in 0 .. N /\ n \in 0 .. N
      BY <1>0
    <3>2. after[n - 1].front <= n - 1 /\ after[n - 1].back <= n - 1
      BY <2>2, <3>1
    <3>3. /\ after[n].front <= after[n - 1].front + 1
          /\ after[n].back <= after[n - 1].back + 1
      BY <1>1, <1>4, <1>5, <3>1
    <3>4. /\ after[n].front \in Nat /\ after[n - 1].front \in Nat
          /\ after[n].back \in Nat /\ after[n - 1].back \in Nat
      BY <1>5, <3>1 DEF S
    <3>5. after[n].front <= n /\ after[n].back <= n
      BY <3>2, <3>3, <3>4
    <3> QED
      BY <3>1, <3>5
  <2>3. f[0] \in One /\ \A n \in 1 .. N : f[n - 1] \in One => f[n] \in One
    BY <2>1, <2>2
  <2> HIDE DEF f, One
  <2>4. \A n \in 0 .. N : f[n] \in One
    BY <1>0, <2>3, Stays
  <2>5. f[N] = 1 /\ N \in 0 .. N
    BY <1>0, <2>4 DEF One
  <2> QED
    BY <2>5 DEF f
<1>7. Noted(s, tmpIds, U, V) = after[N]
  BY DEF Noted, after, N, s0, Next1
<1>8. after[N] \in S
  BY <1>0, <1>5
<1>9. after[N] \in NotedIds
  BY <1>0, <1>6, <1>8, SizeIsNat DEF NotedIds, S
<1> QED
  BY <1>7, <1>9

LEMMA FirstLast ==
    ASSUME NEW tmpIds \in [Handle -> Cid], NEW n \in 0 .. MaxHandles
    PROVE  First(tmpIds, n) \in Seq(Cid) /\ Last(tmpIds, n) \in Seq(Cid)
<1>1. n \in Nat /\ n <= MaxHandles /\ MaxHandles \in Nat
  BY SizeIsNat
<1>2. \A i \in 1 .. n : i - 1 \in Handle /\ MaxHandles - i \in Handle
  BY <1>1 DEF Handle
<1>3. First(tmpIds, n) \in [1 .. n -> Cid] /\ Last(tmpIds, n) \in [1 .. n -> Cid]
  BY <1>2 DEF First, Last
<1> QED
  BY <1>1, <1>3

LEMMA ListedIsSeq ==
    ASSUME NEW x \in NotedIds
    PROVE  Listed(x) \in Seq(Cid)
<1>1. x.ids \in [Handle -> Cid] /\ x.front \in 0 .. MaxHandles /\ x.back \in 0 .. MaxHandles
  BY DEF NotedIds
<1>2. First(x.ids, x.front) \in Seq(Cid) /\ Last(x.ids, x.back) \in Seq(Cid)
  BY <1>1, FirstLast
<1> QED
  BY <1>2 DEF Listed

-----------------------------------------------------------------------------
(* The server context.                                                     *)

LEMMA Consts ==
    /\ MaxConns \in Nat /\ MaxHandles \in Nat /\ MaxHandles > 0
    /\ NoFd \notin Fds /\ Fds \subseteq Int /\ Fd \subseteq Int
    /\ VersionMod \in Nat /\ VersionMod > 0
    /\ Conns \subseteq Asker /\ 0 \in Asker
    /\ IsFiniteSet(Conns) /\ Cardinality(Conns) = MaxConns
<1>1. IsFiniteSet(Conns) /\ Cardinality(Conns) = MaxConns
  BY ConnsAssumption, FS_Interval DEF Conns
<1>2. NoFd \notin Fds /\ Fds \subseteq Int /\ Fd \subseteq Int
  BY FdsAssumption DEF Fd, NoFd
<1>3. VersionMod \in Nat /\ VersionMod > 0
  BY VersionModAssumption
<1>4. Conns \subseteq Asker /\ 0 \in Asker
  BY ConnsAssumption DEF Conns, Asker
<1> QED
  BY <1>1, <1>2, <1>3, <1>4, SizeIsNat, ConnsAssumption

LEMMA Remainder ==
    ASSUME NEW a \in Nat, NEW b \in Nat, a < b
    PROVE  a % b = a
OBVIOUS

LEMMA ServerFields ==
    ASSUME NEW s \in Server
    PROVE  /\ s.conn \in [Conns -> Connection]
           /\ s.client \in [Handle -> Client]
           /\ s.ha \in Table /\ IsTable(s.ha) /\ s.ha.num \in Nat
           /\ s.twice \in BOOLEAN /\ s.ub \in BOOLEAN
           /\ s = [conn |-> s.conn, client |-> s.client, ha |-> s.ha,
                   twice |-> s.twice, ub |-> s.ub]
BY Consts DEF Server, Table, IsTable

LEMMA Counts ==
    ASSUME NEW s
    PROVE  /\ IsFiniteSet(OpenConns(s)) /\ Cardinality(OpenConns(s)) \in Nat
           /\ IsFiniteSet(Begun(s)) /\ Cardinality(Begun(s)) \in Nat
           /\ Cardinality(Begun(s)) <= MaxConns
<1>1. OpenConns(s) \subseteq Conns /\ Begun(s) \subseteq Conns
  BY DEF OpenConns, Begun
<1> QED
  BY <1>1, Consts, FS_Subset, FS_CardinalityType

(* A key map with a key more, or without one.                              *)
LEMMA KeyMapAdd ==
    ASSUME NEW m \in KeyMap, NEW k \in Int, NEW h \in Handle
    PROVE  [s \in DOMAIN m \cup {KeyString(k)} |->
              IF s = KeyString(k) THEN h ELSE m[s]] \in KeyMap
<1>1. PICK D \in SUBSET Strings : m \in [D -> Handle]
  BY DEF KeyMap
<1>2. DOMAIN m \cup {KeyString(k)} \in SUBSET Strings
  BY <1>1 DEF Strings
<1> DEFINE E == DOMAIN m \cup {KeyString(k)}
           f == [s \in E |-> IF s = KeyString(k) THEN h ELSE m[s]]
<1>3. f \in [E -> Handle]
  BY <1>1
<1> HIDE DEF f, E
<1>4. f \in KeyMap
  BY <1>2, <1>3 DEF KeyMap, E
<1> QED
  BY <1>4 DEF f, E

LEMMA KeyMapRemove ==
    ASSUME NEW m \in KeyMap, NEW x
    PROVE  Restrict(m, DOMAIN m \ {x}) \in KeyMap
<1>1. PICK D \in SUBSET Strings : m \in [D -> Handle]
  BY DEF KeyMap
<1> DEFINE E == DOMAIN m \ {x}
<1>2. E \in SUBSET Strings /\ Restrict(m, E) \in [E -> Handle]
  BY <1>1 DEF Restrict
<1> HIDE DEF E
<1>3. Restrict(m, E) \in KeyMap
  BY <1>2 DEF KeyMap
<1> QED
  BY <1>3 DEF E

LEMMA KeyMapValue ==
    ASSUME NEW m \in KeyMap, NEW x \in DOMAIN m
    PROVE  m[x] \in Handle
BY DEF KeyMap

(* What the server does with its clients leaves the handles of the others  *)
(* and the versions as they were.                                          *)
SameClients(s0, s) ==
    \A h \in Handle : /\ s.client[h].ver = s0.client[h].ver
                      /\ s.client[h].conn = s0.client[h].conn

Good(s0) == {s \in Server : ServerInv(s) /\ SameClients(s0, s)}

LEMMA FreeTable ==
    ASSUME NEW a \in Table, a.num # 0, NEW h \in Handle
    PROVE  Free(a, h) \in Table
<1>1. a.num - 1 \in Handle /\ a.num - 1 \in 0 .. MaxHandles
  <2>1. a.num \in 0 .. MaxHandles
    BY DEF Table
  <2> QED
    BY <2>1, Consts DEF Handle
<1>2. a.i2h[a.num - 1] \in Handle /\ a.h2i[h] \in Handle
  BY <1>1 DEF Table
<1>3. NoKey \in Int
  BY DEF NoKey
<1>4. Restrict(a.byKey, DOMAIN a.byKey \ {KeyString(a.key[h])}) \in KeyMap
  BY KeyMapRemove DEF Table
<1> QED
  BY <1>1, <1>2, <1>3, <1>4 DEF Free, Table

LEMMA AllocTable ==
    ASSUME NEW a \in Table, ~IsFull(a), NEW k \in Int
    PROVE  AllocKey(a, k) \in Table /\ NextOf(a) \in Handle
<1>1. a.num \in Handle /\ a.num + 1 \in 0 .. MaxHandles
  <2>1. a.num \in 0 .. MaxHandles
    BY DEF Table
  <2> QED
    BY <2>1, Consts DEF Handle, IsFull
<1>2. NextOf(a) \in Handle
  BY <1>1 DEF NextOf, Table
<1> DEFINE m == [s \in DOMAIN a.byKey \cup {KeyString(k)} |->
                   IF s = KeyString(k) THEN NextOf(a) ELSE a.byKey[s]]
<1>3. m \in KeyMap
  BY <1>2, KeyMapAdd DEF Table
<1>4. AllocKey(a, k) = [num |-> a.num + 1, i2h |-> a.i2h,
                        h2i |-> [a.h2i EXCEPT ![NextOf(a)] = a.num],
                        key |-> [a.key EXCEPT ![NextOf(a)] = k], byKey |-> m]
  <2>1. a = [num |-> a.num, i2h |-> a.i2h, h2i |-> a.h2i, key |-> a.key,
             byKey |-> a.byKey]
    BY DEF Table
  <2> DEFINE g == NextOf(a)
             b == Alloc(a)
             c == AllocKey(a, k)
  <2>2. b = [a EXCEPT !.num = a.num + 1, !.h2i[g] = a.num]
    BY DEF Alloc
  <2> HIDE DEF g
  <2>3. b = [num |-> a.num + 1, i2h |-> a.i2h, h2i |-> [a.h2i EXCEPT ![g] = a.num],
             key |-> a.key, byKey |-> a.byKey]
    <3> HIDE DEF b
    <3> QED
      BY <2>1, <2>2
  <2>4. c = [b EXCEPT !.key[g] = k, !.byKey = m]
    BY <2>3 DEF AllocKey, g
  <2> HIDE DEF b, m
  <2>5. c = [num |-> b.num, i2h |-> b.i2h, h2i |-> b.h2i,
             key |-> [b.key EXCEPT ![g] = k], byKey |-> m]
    <3> HIDE DEF c
    <3> QED
      BY <2>3, <2>4
  <2> QED
    BY <2>3, <2>5 DEF g
<1> HIDE DEF m
<1> QED
  BY <1>1, <1>2, <1>3, <1>4 DEF Table

(* A disconnection by handle: the connection of the client's descriptor is *)
(* closed and the client has none any more.                                *)
LEMMA CloseFields ==
    ASSUME NEW s \in Server, s.ha.num # 0, NEW h \in Handle
    PROVE  LET r == CloseClient(s, h)
               mine(c) == s.conn[c].st = "open" /\ s.conn[c].fd = s.client[h].fd
           IN  /\ r \in Server
               /\ r.ha = Free(s.ha, h) /\ r.twice = (s.twice \/ ~IsValid(s.ha, h))
               /\ \A c \in Conns :
                     /\ mine(c) => r.conn[c].st = "closed"
                     /\ ~mine(c) => r.conn[c] = s.conn[c]
                     /\ r.conn[c].got = s.conn[c].got
               /\ r.client = [s.client EXCEPT ![h].fd = NoFd]
<1> DEFINE r == CloseClient(s, h)
           cs == [c \in Conns |->
                    IF s.conn[c].st = "open" /\ s.conn[c].fd = s.client[h].fd
                    THEN [s.conn[c] EXCEPT !.st = "closed", !.fd = NoFd, !.in = <<>>]
                    ELSE s.conn[c]]
           cl == [s.client EXCEPT ![h].fd = NoFd]
           tw == s.twice \/ ~IsValid(s.ha, h)
<1>1. r = [s EXCEPT !.conn = cs, !.client = cl, !.ha = Free(s.ha, h), !.twice = tw]
  BY ServerFields DEF CloseClient
<1>2. cs \in [Conns -> Connection]
  <2>1. ASSUME NEW x \in Connection
        PROVE  [x EXCEPT !.st = "closed", !.fd = NoFd, !.in = <<>>] \in Connection
    <3>1. <<>> \in Seq(Packet) /\ NoFd \in Fd
      BY DEF Fd
    <3> HIDE DEF NoFd
    <3> QED
      BY <3>1 DEF Connection
  <2> QED
    BY <2>1, ServerFields
<1>3. cl \in [Handle -> Client]
  BY ServerFields DEF Client, Fd
<1>4. Free(s.ha, h) \in Table
  BY ServerFields, FreeTable
<1>5. /\ r \in Server
      /\ r.conn = cs /\ r.client = cl /\ r.ha = Free(s.ha, h) /\ r.twice = tw
  <2>1. tw \in BOOLEAN
    BY ServerFields
  <2> HIDE DEF r, cs, cl, tw
  <2> QED
    BY <1>1, <1>2, <1>3, <1>4, <2>1, ServerFields DEF Server
<1>6. \A c \in Conns : s.conn[c] \in Connection
  BY ServerFields
<1>7. ASSUME NEW c \in Conns
      PROVE  LET mine == s.conn[c].st = "open" /\ s.conn[c].fd = s.client[h].fd
             IN  /\ mine => cs[c].st = "closed"
                 /\ ~mine => cs[c] = s.conn[c]
                 /\ cs[c].got = s.conn[c].got
  BY <1>6 DEF Connection
<1> HIDE DEF r, cs, cl, tw
<1> QED
  BY <1>5, <1>7 DEF r, cl, tw

LEMMA CloseFds ==
    ASSUME NEW s \in Server, s.ha.num # 0, NEW h \in Handle, FdsInv(s)
    PROVE  LET r == CloseClient(s, h)
           IN  /\ FdsInv(r)
               /\ OpenConns(r) = {c \in OpenConns(s) : s.conn[c].fd # s.client[h].fd}
               /\ \A g \in Handle : Has(r, g) <=> Has(s, g) /\ g # h
<1> DEFINE r == CloseClient(s, h)
<1>1. /\ \A c \in Conns :
            /\ s.conn[c].st = "open" /\ s.conn[c].fd = s.client[h].fd
                  => r.conn[c].st = "closed"
            /\ ~(s.conn[c].st = "open" /\ s.conn[c].fd = s.client[h].fd)
                  => r.conn[c] = s.conn[c]
      /\ r.client = [s.client EXCEPT ![h].fd = NoFd]
  BY CloseFields
<1>2. \A g \in Handle : /\ r.client[g].conn = s.client[g].conn
                        /\ g # h => r.client[g].fd = s.client[g].fd
                        /\ g = h => r.client[g].fd = NoFd
  BY <1>1, ServerFields DEF Client
<1> HIDE DEF r
<1>3. OpenConns(r) = {c \in OpenConns(s) : s.conn[c].fd # s.client[h].fd}
  BY <1>1 DEF OpenConns
<1>4. \A g \in Handle : Has(r, g) <=> Has(s, g) /\ g # h
  BY <1>2 DEF Has
<1>5. \A c \in OpenConns(r) : c \in OpenConns(s) /\ r.conn[c] = s.conn[c]
  BY <1>1, <1>3 DEF OpenConns
<1>6. ASSUME NEW g \in Handle, Has(r, g)
      PROVE  /\ r.client[g].conn \in OpenConns(r)
             /\ r.conn[r.client[g].conn].fd = r.client[g].fd
  <2>1. Has(s, g) /\ g # h /\ s.client[g].fd # s.client[h].fd
    BY <1>4, <1>6 DEF FdsInv
  <2>2. s.client[g].conn \in OpenConns(s) /\ s.conn[s.client[g].conn].fd = s.client[g].fd
    BY <2>1 DEF FdsInv
  <2> QED
    BY <1>2, <1>3, <1>5, <2>1, <2>2
<1>7. ASSUME NEW g \in Handle, NEW k \in Handle, Has(r, g), r.client[g].fd = r.client[k].fd
      PROVE  g = k
  BY <1>2, <1>4, <1>7 DEF FdsInv, Has
<1>8. FdsInv(r)
  BY <1>5, <1>6, <1>7 DEF FdsInv
<1> QED
  BY <1>3, <1>4, <1>8 DEF r

LEMMA CloseTableInv ==
    ASSUME NEW s \in Server, s.ha.num # 0, NEW h \in Handle, FdsInv(s), TableInv(s),
           IsValid(s.ha, h)
    PROVE  TableInv(CloseClient(s, h))
<1> DEFINE r == CloseClient(s, h)
           k == KeyString(s.client[h].fd)
<1>1. /\ r.ha = Free(s.ha, h)
      /\ r.client = [s.client EXCEPT ![h].fd = NoFd]
  BY CloseFields
<1>2. /\ OpenConns(r) = {c \in OpenConns(s) : s.conn[c].fd # s.client[h].fd}
      /\ \A g \in Handle : Has(r, g) <=> Has(s, g) /\ g # h
  BY CloseFds
<1>3. Has(s, h) /\ WellFormed(s.ha)
  BY DEF TableInv
<1>4. WellFormed(Free(s.ha, h))
  BY <1>3, FreeWellFormed
<1>5. \A g \in Handle : IsValid(Free(s.ha, h), g) <=> Has(s, g) /\ g # h
  BY <1>3, FreeExact DEF TableInv
<1>6. ASSUME NEW g \in Handle, Has(s, g), g # h
      PROVE  LET a == Free(s.ha, h)  x == KeyString(s.client[g].fd)
             IN  a.key[g] = s.client[g].fd /\ x \in DOMAIN a.byKey /\ a.byKey[x] = g
  <2> DEFINE x == KeyString(s.client[g].fd)
  <2>1. /\ s.ha.key[g] = s.client[g].fd /\ x \in DOMAIN s.ha.byKey /\ s.ha.byKey[x] = g
        /\ s.ha.key[h] = s.client[h].fd /\ s.ha.byKey[k] = h
    BY <1>3, <1>6 DEF TableInv
  <2>2. x # k
    <3> HIDE DEF x, k
    <3> QED
      BY <1>6, <2>1
  <2>3. Free(s.ha, h).key = [s.ha.key EXCEPT ![h] = NoKey]
    BY DEF Free
  <2>4. \/ Free(s.ha, h).byKey = s.ha.byKey
        \/ Free(s.ha, h).byKey = Restrict(s.ha.byKey, DOMAIN s.ha.byKey \ {k})
    BY <2>1 DEF Free
  <2>5. s.ha.key \in [Handle -> Int]
    BY ServerFields DEF Table
  <2> HIDE DEF x, k
  <2>6. Free(s.ha, h).key[g] = s.client[g].fd
    BY <1>6, <2>1, <2>3, <2>5
  <2>7. x \in DOMAIN Free(s.ha, h).byKey /\ Free(s.ha, h).byKey[x] = g
    BY <2>1, <2>2, <2>4 DEF Restrict
  <2> QED
    BY <2>6, <2>7 DEF x
<1>7. Cardinality(OpenConns(r)) = s.ha.num - 1
  <2> DEFINE O == OpenConns(s)
             c == s.client[h].conn
  <2>1. /\ c \in O /\ s.conn[c].fd = s.client[h].fd
        /\ \A d, e \in O : s.conn[d].fd = s.conn[e].fd => d = e
    BY <1>3 DEF FdsInv
  <2>2. OpenConns(r) = O \ {c}
    BY <1>2, <2>1
  <2>3. IsFiniteSet(O) /\ Cardinality(O) = s.ha.num
    BY Counts DEF TableInv
  <2> HIDE DEF r, k, O, c
  <2>4. Cardinality(O \ {c}) = Cardinality(O) - 1
    BY <2>1, <2>3, FS_RemoveElement
  <2> QED
    BY <2>2, <2>3, <2>4
<1>8. Free(s.ha, h).num = s.ha.num - 1
  BY DEF Free
<1>9. \A g \in Handle : g # h => r.client[g].fd = s.client[g].fd
  BY <1>1, ServerFields DEF Client
<1> HIDE DEF r, k
<1>10. TableInv(r)
  BY <1>1, <1>2, <1>4, <1>5, <1>6, <1>7, <1>8, <1>9 DEF TableInv
<1> QED
  BY <1>10 DEF r

LEMMA CloseGood ==
    ASSUME NEW s0, NEW s \in Good(s0), NEW h \in Handle
    PROVE  CloseClient(s, h) \in Good(s0)
<1> DEFINE r == CloseClient(s, h)
<1>1. s \in Server /\ ServerInv(s) /\ SameClients(s0, s)
  BY DEF Good
<1>2. CASE s.ha.num = 0
  <2>1. r = [s EXCEPT !.ub = TRUE, !.twice = TRUE]
    BY <1>2 DEF CloseClient
  <2>2. r \in Server /\ r.conn = s.conn /\ r.client = s.client /\ r.twice
    BY <1>1, <2>1 DEF Server
  <2> HIDE DEF r
  <2>3. FdsInv(r) /\ (FewConns => AnswersInv(r)) /\ SameClients(s0, r)
    BY <1>1, <2>2 DEF ServerInv, FdsInv, OpenConns, Has, AnswersInv, Begun, SameClients
  <2>4. r \in Good(s0)
    BY <2>2, <2>3 DEF Good, ServerInv
  <2> QED
    BY <2>4 DEF r
<1>3. CASE s.ha.num # 0
  <2>1. /\ r \in Server
        /\ r.twice = (s.twice \/ ~IsValid(s.ha, h))
        /\ \A c \in Conns :
              /\ s.conn[c].st = "open" /\ s.conn[c].fd = s.client[h].fd
                    => r.conn[c].st = "closed"
              /\ ~(s.conn[c].st = "open" /\ s.conn[c].fd = s.client[h].fd)
                    => r.conn[c] = s.conn[c]
              /\ r.conn[c].got = s.conn[c].got
        /\ r.client = [s.client EXCEPT ![h].fd = NoFd]
    BY <1>1, <1>3, CloseFields
  <2>2. FdsInv(r)
    BY <1>1, <1>3, CloseFds DEF ServerInv
  <2>3. ~r.twice => TableInv(r)
    BY <1>1, <1>3, <2>1, CloseTableInv DEF ServerInv
  <2>4. \A g \in Handle : /\ r.client[g].ver = s.client[g].ver
                          /\ r.client[g].conn = s.client[g].conn
                          /\ r.client[g].out = s.client[g].out
    BY <1>1, <2>1, ServerFields DEF Client
  <2> HIDE DEF r
  <2>5. Begun(r) = Begun(s)
    BY <2>1 DEF Begun
  <2>6. FewConns => AnswersInv(r)
    BY <1>1, <2>1, <2>4, <2>5 DEF ServerInv, AnswersInv
  <2>7. r \in Good(s0)
    BY <1>1, <2>1, <2>2, <2>3, <2>4, <2>6 DEF Good, ServerInv, SameClients
  <2> QED
    BY <2>7 DEF r
<1> QED
  BY <1>2, <1>3

LEMMA DisconnectGood ==
    ASSUME NEW s0, NEW s \in Good(s0), NEW cid, cid.h \in Handle
    PROVE  Disconnect(s, cid) \in Good(s0)
BY CloseGood DEF Disconnect

LEMMA DisconnectAllGood ==
    ASSUME NEW s0, NEW s \in Good(s0), NEW cids \in Seq(Cid)
    PROVE  DisconnectAll(s, cids) \in Good(s0)
<1>1. \A x \in Good(s0), cid \in Cid : Disconnect(x, cid) \in Good(s0)
  BY DisconnectGood DEF Cid
<1> QED
  BY <1>1, DisconnectAllIn

LEMMA GoodSelf ==
    ASSUME NEW s \in Server, ServerInv(s)
    PROVE  s \in Good(s)
BY DEF Good, SameClients

LEMMA InUseHandles ==
    ASSUME NEW s \in Server
    PROVE  /\ s.ha.num \in 0 .. MaxHandles
           /\ \A i \in 0 .. s.ha.num - 1 : s.ha.i2h[i] \in Handle
           /\ InUse(s) \in SUBSET Handle
<1>1. s.ha.num \in 0 .. MaxHandles /\ s.ha.i2h \in [Handle -> Handle]
  BY DEF Server, Table
<1>2. s.ha.num \in Nat /\ s.ha.num <= MaxHandles
  BY <1>1, Consts
<1>3. 0 .. s.ha.num - 1 \subseteq Handle
  BY <1>2, Consts DEF Handle
<1> QED
  BY <1>1, <1>3 DEF InUse

LEMMA NotedGood ==
    ASSUME NEW s \in Server, NEW tmpIds \in [Handle -> Cid], NEW U, NEW V
    PROVE  Noted(s, tmpIds, U, V) \in NotedIds
<1>1. \A i \in 0 .. s.ha.num - 1 : CidOf(s, s.ha.i2h[i]) \in Cid
  <2> SUFFICES ASSUME NEW i \in 0 .. s.ha.num - 1
               PROVE  CidOf(s, s.ha.i2h[i]) \in Cid
    OBVIOUS
  <2>1. s.ha.i2h[i] \in Handle
    BY InUseHandles
  <2>2. s.client[s.ha.i2h[i]].ver \in Nat
    BY <2>1, ServerFields DEF Client
  <2> QED
    BY <2>1, <2>2 DEF CidOf, Cid
<1> QED
  BY <1>1, InUseHandles, NotedIn

LEMMA NoIdsType == NoIds \in [Handle -> Cid]
<1>1. 0 \in Handle
  BY Consts DEF Handle
<1> QED
  BY <1>1 DEF NoIds, Cid

(* A step that opens and closes no connection and leaves the handles.      *)
LEMMA TouchGood ==
    ASSUME NEW s0, NEW s \in Good(s0), NEW r \in Server,
           r.ha = s.ha, r.twice = s.twice,
           \A c \in Conns : /\ r.conn[c].st = "open" <=> s.conn[c].st = "open"
                            /\ s.conn[c].st = "open" => r.conn[c].fd = s.conn[c].fd
                            /\ s.conn[c].st = "closed" => r.conn[c].st = "closed",
           \A h \in Handle : /\ r.client[h].fd = s.client[h].fd
                             /\ r.client[h].ver = s.client[h].ver
                             /\ r.client[h].conn = s.client[h].conn,
           FewConns /\ AnswersInv(s) =>
              /\ \A h \in Handle : r.client[h].out \subseteq {s.client[h].conn}
              /\ \A c \in Conns : r.conn[c].got \subseteq {c}
    PROVE  r \in Good(s0)
<1>1. s \in Server /\ ServerInv(s) /\ SameClients(s0, s)
  BY DEF Good
<1>2. OpenConns(r) = OpenConns(s) /\ \A c \in OpenConns(s) : r.conn[c].fd = s.conn[c].fd
  BY DEF OpenConns
<1>3. \A h \in Handle : Has(r, h) <=> Has(s, h)
  BY DEF Has
<1>4. FdsInv(r)
  BY <1>1, <1>2, <1>3 DEF ServerInv, FdsInv
<1>5. ~r.twice => TableInv(r)
  BY <1>1, <1>2, <1>3 DEF ServerInv, TableInv
<1>6. ASSUME FewConns PROVE AnswersInv(r)
  <2>1. Begun(s) \subseteq Begun(r)
    BY DEF Begun
  <2>2. Cardinality(Begun(s)) <= Cardinality(Begun(r))
    BY <2>1, Counts, FS_Subset
  <2>3. \A h \in Handle : s.client[h].ver <= Cardinality(Begun(s)) /\ s.client[h].ver \in Nat
    BY <1>1, <1>6, ServerFields DEF ServerInv, AnswersInv, Client
  <2>4. \A h \in Handle : s.client[h].ver <= Cardinality(Begun(r))
    BY <2>2, <2>3, Counts
  <2> QED
    BY <1>1, <1>6, <2>4 DEF ServerInv, AnswersInv
<1>7. SameClients(s0, r)
  BY <1>1 DEF SameClients
<1> QED
  BY <1>4, <1>5, <1>6, <1>7 DEF Good, ServerInv

(* The answers in a client's buffer go to the connection of its            *)
(* descriptor, which is the client's own.                                  *)
LEMMA FlushGood ==
    ASSUME NEW s0, NEW s \in Good(s0), NEW H \in SUBSET Handle, NEW W \in SUBSET H
    PROVE  FlushTo(s, H, W) \in Good(s0)
<1> DEFINE r == FlushTo(s, H, W)
           out(c) == UNION {s.client[h].out :
                              h \in {g \in W : s.client[g].fd = s.conn[c].fd}}
           cl == [h \in Handle |-> IF h \in H THEN [s.client[h] EXCEPT !.out = {}]
                                   ELSE s.client[h]]
           cs == [c \in Conns |-> IF s.conn[c].st # "open" THEN s.conn[c]
                                  ELSE [s.conn[c] EXCEPT !.got = @ \cup out(c)]]
<1>1. s \in Server /\ ServerInv(s)
  BY DEF Good
<1>2. s.conn \in [Conns -> Connection] /\ s.client \in [Handle -> Client]
  BY <1>1, ServerFields
<1>3. r = [s EXCEPT !.client = cl, !.conn = cs]
  BY DEF FlushTo
<1>4. cl \in [Handle -> Client]
  BY <1>2 DEF Client
<1>5. \A c \in Conns : out(c) \in SUBSET Asker
  <2> SUFFICES ASSUME NEW c \in Conns, NEW a \in out(c) PROVE a \in Asker
    OBVIOUS
  <2>1. PICK h \in W : a \in s.client[h].out
    OBVIOUS
  <2> QED
    BY <1>2, <2>1 DEF Client
<1>6. \A c \in Conns : cs[c] = IF s.conn[c].st # "open" THEN s.conn[c]
                               ELSE [s.conn[c] EXCEPT !.got = @ \cup out(c)]
  OBVIOUS
<1>7. cs \in [Conns -> Connection]
  <2>1. ASSUME NEW x \in Connection, NEW y \in SUBSET Asker
        PROVE  [x EXCEPT !.got = @ \cup y] \in Connection
    BY DEF Connection
  <2> HIDE DEF out
  <2> QED
    BY <1>2, <1>5, <2>1
<1>8. ASSUME NEW c \in Conns, s.conn[c].st = "open", AnswersInv(s)
      PROVE  out(c) \subseteq {c}
  <2> SUFFICES ASSUME NEW a \in out(c) PROVE a = c
    OBVIOUS
  <2>1. PICK h \in W : s.client[h].fd = s.conn[c].fd /\ a \in s.client[h].out
    OBVIOUS
  <2> HIDE DEF out
  <2>2. c \in OpenConns(s) /\ s.conn[c].fd \in Fds
    BY <1>1, <1>8 DEF OpenConns, ServerInv, FdsInv
  <2>3. Has(s, h) /\ h \in Handle
    BY <2>1, <2>2, Consts DEF Has
  <2>4. s.client[h].conn = c
    BY <1>1, <2>1, <2>2, <2>3 DEF ServerInv, FdsInv
  <2> QED
    BY <1>8, <2>1, <2>3, <2>4 DEF AnswersInv
<1>9. /\ r \in Server /\ r.conn = cs /\ r.client = cl
      /\ r.ha = s.ha /\ r.twice = s.twice
  <2> HIDE DEF r, cl, cs
  <2> QED
    BY <1>1, <1>3, <1>4, <1>7 DEF Server
<1>10. \A c \in Conns : /\ cs[c].st = s.conn[c].st /\ cs[c].fd = s.conn[c].fd
                        /\ AnswersInv(s) => cs[c].got \subseteq {c}
  <2> SUFFICES ASSUME NEW c \in Conns
               PROVE  /\ cs[c].st = s.conn[c].st /\ cs[c].fd = s.conn[c].fd
                      /\ AnswersInv(s) => cs[c].got \subseteq {c}
    OBVIOUS
  <2>1. s.conn[c] \in Connection
    BY <1>2
  <2>2. AnswersInv(s) => s.conn[c].got \subseteq {c}
    BY DEF AnswersInv
  <2> HIDE DEF out, cs
  <2>3. CASE s.conn[c].st # "open"
    BY <1>6, <2>2, <2>3
  <2>4. CASE s.conn[c].st = "open"
    <3>1. cs[c] = [s.conn[c] EXCEPT !.got = @ \cup out(c)]
      BY <1>6, <2>4
    <3>2. /\ cs[c].st = s.conn[c].st /\ cs[c].fd = s.conn[c].fd
          /\ cs[c].got = s.conn[c].got \cup out(c)
      BY <2>1, <3>1 DEF Connection
    <3> QED
      BY <1>8, <2>2, <2>4, <3>2
  <2> QED
    BY <2>3, <2>4
<1>11. \A h \in Handle : /\ cl[h].fd = s.client[h].fd /\ cl[h].ver = s.client[h].ver
                         /\ cl[h].conn = s.client[h].conn
                         /\ cl[h].out = {} \/ cl[h].out = s.client[h].out
  BY <1>2 DEF Client
<1> HIDE DEF r, cl, cs
<1>12. AnswersInv(s) => \A h \in Handle : r.client[h].out \subseteq {s.client[h].conn}
  BY <1>9, <1>11 DEF AnswersInv
<1>13. r \in Good(s0)
  BY <1>9, <1>10, <1>11, <1>12, TouchGood
<1> QED
  BY <1>13 DEF r

(* A connection that is accepted: the handle it gets was not in use, and   *)
(* has a version that no request of before has.                            *)
LEMMA AcceptedFields ==
    ASSUME NEW s \in Server, NEW c \in Conns, NEW fd \in Fds, ~IsFull(s.ha)
    PROVE  LET r == Accepted(s, c, fd)  h == NextOf(s.ha)
           IN  /\ r \in Server /\ h \in Handle
               /\ r.ha = AllocKey(s.ha, fd) /\ r.twice = s.twice
               /\ r.conn[c].st = "open" /\ r.conn[c].fd = fd
               /\ r.conn[c].got = s.conn[c].got
               /\ \A d \in Conns : d # c => r.conn[d] = s.conn[d]
               /\ r.client[h].ver = (s.client[h].ver + 1) % VersionMod
               /\ r.client[h].fd = fd /\ r.client[h].conn = c /\ r.client[h].out = {}
               /\ \A g \in Handle : g # h => r.client[g] = s.client[g]
<1> DEFINE r == Accepted(s, c, fd)
           h == NextOf(s.ha)
           x == [s.conn[c] EXCEPT !.st = "open", !.fd = fd]
           y == [NoClient EXCEPT !.ver = (s.client[h].ver + 1) % VersionMod,
                                 !.fd = fd, !.conn = c]
<1>1. s.conn \in [Conns -> Connection] /\ s.client \in [Handle -> Client] /\ s.ha \in Table
  BY ServerFields
<1>2. fd \in Int /\ fd \in Fd /\ c \in Asker
  BY Consts DEF Fd
<1>3. h \in Handle /\ AllocKey(s.ha, fd) \in Table
  BY <1>1, <1>2, AllocTable
<1>4. x \in Connection /\ x.st = "open" /\ x.fd = fd /\ x.got = s.conn[c].got
  <2>1. s.conn[c] \in Connection
    BY <1>1
  <2> QED
    BY <1>2, <2>1 DEF Connection
<1>5. s.client[h].ver \in Nat
  BY <1>1, <1>3 DEF Client
<1>6. y \in Client /\ y.ver = (s.client[h].ver + 1) % VersionMod
      /\ y.fd = fd /\ y.conn = c /\ y.out = {}
  <2>1. (s.client[h].ver + 1) % VersionMod \in Nat
    BY <1>5, Consts
  <2> HIDE DEF h
  <2> QED
    BY <1>2, <2>1 DEF NoClient, Client
<1>7. r = [s EXCEPT !.ha = AllocKey(s.ha, fd),
                    !.conn = [s.conn EXCEPT ![c] = x],
                    !.client = [s.client EXCEPT ![h] = y]]
  BY <1>1 DEF Accepted
<1> HIDE DEF r, x, y, h
<1>8. /\ r \in Server
      /\ r.ha = AllocKey(s.ha, fd) /\ r.twice = s.twice
      /\ r.conn = [s.conn EXCEPT ![c] = x] /\ r.client = [s.client EXCEPT ![h] = y]
  BY <1>1, <1>3, <1>4, <1>6, <1>7 DEF Server
<1>9. /\ r.conn[c] = x /\ \A d \in Conns : d # c => r.conn[d] = s.conn[d]
      /\ r.client[h] = y /\ \A g \in Handle : g # h => r.client[g] = s.client[g]
  BY <1>1, <1>3, <1>8
<1> QED
  BY <1>3, <1>4, <1>6, <1>8, <1>9 DEF r, h

LEMMA AcceptedFds ==
    ASSUME NEW s \in Server, FdsInv(s), NEW c \in Conns, s.conn[c].st = "queued",
           NEW fd \in Fds \ OpenFds(s), ~IsFull(s.ha)
    PROVE  LET r == Accepted(s, c, fd)
           IN  /\ FdsInv(r) /\ OpenConns(r) = OpenConns(s) \cup {c}
               /\ \A g \in Handle : Has(r, g) <=> Has(s, g) \/ g = NextOf(s.ha)
<1> DEFINE r == Accepted(s, c, fd)
           h == NextOf(s.ha)
<1>1. /\ h \in Handle
      /\ r.conn[c].st = "open" /\ r.conn[c].fd = fd
      /\ \A d \in Conns : d # c => r.conn[d] = s.conn[d]
      /\ r.client[h].fd = fd /\ r.client[h].conn = c
      /\ \A g \in Handle : g # h => r.client[g] = s.client[g]
  BY AcceptedFields
<1> HIDE DEF r, h
<1>2. OpenConns(r) = OpenConns(s) \cup {c} /\ c \notin OpenConns(s)
  BY <1>1 DEF OpenConns
<1>3. fd # NoFd
  BY Consts
<1>4. \A g \in Handle : Has(r, g) <=> Has(s, g) \/ g = h
  BY <1>1, <1>3 DEF Has
<1>5. \A d \in OpenConns(s) : s.conn[d].fd # fd /\ d # c /\ r.conn[d] = s.conn[d]
  BY <1>1, <1>2 DEF OpenFds, OpenConns
<1>6. ASSUME NEW g \in Handle, Has(s, g), g # h
      PROVE  /\ r.client[g] = s.client[g] /\ r.client[g].fd # fd
             /\ r.client[g].conn \in OpenConns(s)
             /\ r.conn[r.client[g].conn].fd = r.client[g].fd
  BY <1>1, <1>5, <1>6 DEF FdsInv
<1>7. \A d \in OpenConns(r) : r.conn[d].fd \in Fds
  BY <1>1, <1>2, <1>5 DEF FdsInv
<1>8. \A d, e \in OpenConns(r) : r.conn[d].fd = r.conn[e].fd => d = e
  BY <1>1, <1>2, <1>5 DEF FdsInv
<1>9. \A g \in Handle : Has(r, g) => /\ r.client[g].conn \in OpenConns(r)
                                     /\ r.conn[r.client[g].conn].fd = r.client[g].fd
  BY <1>1, <1>2, <1>4, <1>6
<1>10. \A g, k \in Handle : Has(r, g) /\ r.client[g].fd = r.client[k].fd => g = k
  <2> SUFFICES ASSUME NEW g \in Handle, NEW k \in Handle, Has(r, g),
                      r.client[g].fd = r.client[k].fd
               PROVE  g = k
    OBVIOUS
  <2>1. Has(r, k)
    BY DEF Has
  <2>2. CASE g = h \/ k = h
    BY <1>1, <1>4, <1>6, <2>1, <2>2
  <2>3. CASE g # h /\ k # h
    BY <1>4, <1>6, <2>1, <2>3 DEF FdsInv
  <2> QED
    BY <2>2, <2>3
<1>11. FdsInv(r)
  BY <1>7, <1>8, <1>9, <1>10 DEF FdsInv
<1> QED
  BY <1>2, <1>4, <1>11 DEF r, h

LEMMA AcceptedTableInv ==
    ASSUME NEW s \in Server, FdsInv(s), TableInv(s), NEW c \in Conns,
           s.conn[c].st = "queued", NEW fd \in Fds \ OpenFds(s), ~IsFull(s.ha),
           ~ContainsKey(s.ha, fd)
    PROVE  TableInv(Accepted(s, c, fd))
<1> DEFINE r == Accepted(s, c, fd)
           h == NextOf(s.ha)
           a == s.ha
           b == AllocKey(a, fd)
<1>1. /\ h \in Handle /\ r.ha = b
      /\ r.client[h].fd = fd
      /\ \A g \in Handle : g # h => r.client[g] = s.client[g]
  BY AcceptedFields
<1>2. /\ OpenConns(r) = OpenConns(s) \cup {c}
      /\ \A g \in Handle : Has(r, g) <=> Has(s, g) \/ g = h
  BY AcceptedFds
<1>3. a \in Table /\ IsTable(a) /\ WellFormed(a)
  BY ServerFields DEF TableInv
<1>4. WellFormed(Alloc(a)) /\ \A g \in Handle : IsValid(Alloc(a), g) <=> IsValid(a, g) \/ g = h
  BY <1>3, AllocWellFormed, AllocFresh
<1>5. ~Has(s, h)
  BY <1>1, <1>3, AllocFresh DEF TableInv
<1>6. /\ b.num = Alloc(a).num /\ b.i2h = Alloc(a).i2h /\ b.h2i = Alloc(a).h2i
      /\ b.num = a.num + 1
      /\ b.key = [a.key EXCEPT ![h] = fd]
      /\ b.byKey = [x \in DOMAIN a.byKey \cup {KeyString(fd)} |->
                      IF x = KeyString(fd) THEN h ELSE a.byKey[x]]
  <2>1. a = [num |-> a.num, i2h |-> a.i2h, h2i |-> a.h2i, key |-> a.key,
             byKey |-> a.byKey]
    BY <1>3 DEF Table
  <2> DEFINE f == Alloc(a)
  <2>2. f = [a EXCEPT !.num = a.num + 1, !.h2i[h] = a.num]
    BY DEF Alloc
  <2> HIDE DEF a, h, f
  <2>3. f = [num |-> a.num + 1, i2h |-> a.i2h, h2i |-> [a.h2i EXCEPT ![h] = a.num],
             key |-> a.key, byKey |-> a.byKey]
    BY <2>1, <2>2
  <2> QED
    BY <2>3 DEF AllocKey, h, a, f
<1>7. WellFormed(b) /\ \A g \in Handle : IsValid(b, g) <=> IsValid(a, g) \/ g = h
  <2> HIDE DEF b, a, h
  <2> QED
    BY <1>4, <1>6 DEF WellFormed, IsValid
<1>8. a.key \in [Handle -> Int]
  BY <1>3 DEF Table
<1>9. KeyString(fd) \notin DOMAIN a.byKey
  BY DEF ContainsKey
<1>10. ASSUME NEW g \in Handle, Has(s, g) \/ g = h
       PROVE  LET x == KeyString(r.client[g].fd)
              IN  b.key[g] = r.client[g].fd /\ x \in DOMAIN b.byKey /\ b.byKey[x] = g
  <2>1. CASE g = h
    <3> HIDE DEF b, a, h, r
    <3> QED
      BY <1>1, <1>6, <1>8, <2>1
  <2>2. CASE g # h
    <3> DEFINE x == KeyString(s.client[g].fd)
    <3>1. a.key[g] = s.client[g].fd /\ x \in DOMAIN a.byKey /\ a.byKey[x] = g
      BY <1>10, <2>2 DEF TableInv
    <3>2. r.client[g].fd = s.client[g].fd
      BY <1>1, <2>2
    <3>3. b.key[g] = a.key[g]
      BY <1>6, <1>8, <2>2
    <3> HIDE DEF b, a, h, r, x
    <3>4. x \in DOMAIN b.byKey /\ b.byKey[x] = g
      BY <1>6, <1>9, <3>1
    <3> QED
      BY <3>1, <3>2, <3>3, <3>4 DEF x
  <2> QED
    BY <2>1, <2>2
<1>11. Cardinality(OpenConns(r)) = a.num + 1
  <2> DEFINE O == OpenConns(s)
  <2>1. IsFiniteSet(O) /\ Cardinality(O) = a.num /\ c \notin O
    BY Counts DEF TableInv, OpenConns
  <2> HIDE DEF O, a, r
  <2>2. Cardinality(O \cup {c}) = Cardinality(O) + 1
    BY <2>1, FS_AddElement
  <2> QED
    BY <1>2, <2>1, <2>2 DEF O
<1>12. \A g \in Handle : IsValid(a, g) <=> Has(s, g)
  BY DEF TableInv
<1> HIDE DEF r, a, b, h
<1>13. TableInv(r)
  BY <1>1, <1>2, <1>6, <1>7, <1>10, <1>11, <1>12 DEF TableInv
<1> QED
  BY <1>13 DEF r

LEMMA AcceptedInv ==
    ASSUME NEW s \in Server, ServerInv(s), NEW c \in Conns,
           s.conn[c].st = "queued", NEW fd \in Fds \ OpenFds(s), ~IsFull(s.ha),
           ~ContainsKey(s.ha, fd)
    PROVE  LET r == Accepted(s, c, fd)
           IN  /\ r \in Server /\ ServerInv(r)
               /\ FewConns => \A x : x.cid \in Cid /\ Matches(s, x) => Matches(r, x)
<1> DEFINE r == Accepted(s, c, fd)
           h == NextOf(s.ha)
<1>1. /\ r \in Server /\ h \in Handle /\ r.twice = s.twice
      /\ r.conn[c].st = "open" /\ r.conn[c].got = s.conn[c].got
      /\ \A d \in Conns : d # c => r.conn[d] = s.conn[d]
      /\ r.client[h].ver = (s.client[h].ver + 1) % VersionMod
      /\ r.client[h].conn = c /\ r.client[h].out = {}
      /\ \A g \in Handle : g # h => r.client[g] = s.client[g]
  BY AcceptedFields
<1>2. FdsInv(r)
  BY AcceptedFds DEF ServerInv
<1>3. ~r.twice => TableInv(r)
  BY <1>1, AcceptedTableInv DEF ServerInv
<1> HIDE DEF r, h
<1>4. Cardinality(Begun(r)) = Cardinality(Begun(s)) + 1
  <2>1. Begun(r) = Begun(s) \cup {c} /\ c \notin Begun(s)
    BY <1>1 DEF Begun
  <2> QED
    BY <2>1, Counts, FS_AddElement
<1>5. ASSUME FewConns
      PROVE  /\ r.client[h].ver = s.client[h].ver + 1
             /\ \A g \in Handle : r.client[g].ver <= Cardinality(Begun(r))
  <2>1. \A g \in Handle : s.client[g].ver <= Cardinality(Begun(s)) /\ s.client[g].ver \in Nat
    BY <1>5, ServerFields DEF ServerInv, AnswersInv, Client
  <2>2. s.client[h].ver + 1 <= Cardinality(Begun(r)) /\ s.client[h].ver + 1 \in Nat
    BY <1>1, <1>4, <2>1, Counts
  <2>3. s.client[h].ver + 1 < VersionMod
    BY <1>5, <2>2, Counts, Consts DEF FewConns
  <2>4. r.client[h].ver = s.client[h].ver + 1
    BY <1>1, <2>2, <2>3, Consts, Remainder
  <2> QED
    BY <1>1, <1>4, <2>1, <2>2, <2>4, Counts
<1>6. ASSUME FewConns PROVE AnswersInv(r)
  <2>1. \A g \in Handle : r.client[g].out \subseteq {r.client[g].conn}
    BY <1>1, <1>6 DEF ServerInv, AnswersInv
  <2>2. \A d \in Conns : r.conn[d].got \subseteq {d}
    BY <1>1, <1>6 DEF ServerInv, AnswersInv
  <2> QED
    BY <1>5, <1>6, <2>1, <2>2 DEF AnswersInv
<1>7. ASSUME FewConns, NEW x, x.cid \in Cid, Matches(s, x) PROVE Matches(r, x)
  <2>1. x.cid.h \in Handle /\ x.cid.ver \in Nat
    BY <1>7 DEF Cid
  <2>2. CASE x.cid.h = h
    <3>1. s.client[h].ver \in Nat
      BY <1>1, ServerFields DEF Client
    <3> QED
      BY <1>5, <1>7, <2>1, <2>2, <3>1 DEF Matches
  <2>3. CASE x.cid.h # h
    BY <1>1, <1>7, <2>1, <2>3 DEF Matches
  <2> QED
    BY <2>2, <2>3
<1> QED
  BY <1>1, <1>2, <1>3, <1>6, <1>7 DEF ServerInv, r

-----------------------------------------------------------------------------
(* Packets.                                                                *)

(* What the packets of a buffer may come to: clients as they were, but for *)
(* disconnections, and tasks that are new.                                 *)
Asked(x) == x.state = "new" /\ x.pc = "idle" /\ Matches(sv, x)

Handled ==
    {x \in [s : Server, task : [Tasks -> Task], ok : BOOLEAN] :
       /\ x.s \in Good(sv)
       /\ \A t \in Tasks : x.task[t] = task[t] \/ Asked(x.task[t])}

LEMMA HandledFields ==
    ASSUME NEW x \in Handled
    PROVE  /\ x.s \in Server /\ x.s \in Good(sv) /\ x.task \in [Tasks -> Task]
           /\ x.ok \in BOOLEAN
           /\ \A t \in Tasks : x.task[t] = task[t] \/ Asked(x.task[t])
           /\ x = [s |-> x.s, task |-> x.task, ok |-> x.ok]
BY DEF Handled

LEMMA BadAuthHandled ==
    ASSUME NEW x \in Handled, NEW h \in Handle
    PROVE  HandleBadAuth(x, h) \in Handled
<1> DEFINE r == Disconnect(x.s, CidOf(x.s, h))
<1>1. r \in Good(sv) /\ r \in Server
  <2>1. CidOf(x.s, h).h \in Handle
    BY DEF CidOf
  <2> QED
    BY <2>1, HandledFields, DisconnectGood DEF Good
<1>2. HandleBadAuth(x, h) = [s |-> r, task |-> x.task, ok |-> x.ok]
  <2>1. HandleBadAuth(x, h) = [x EXCEPT !.s = r]
    BY DEF HandleBadAuth
  <2> HIDE DEF r
  <2> QED
    BY <2>1, HandledFields
<1> HIDE DEF r
<1> QED
  BY <1>1, <1>2, HandledFields DEF Handled

LEMMA AuthHandled ==
    ASSUME NEW x \in Handled, NEW h \in Handle
    PROVE  HandleAuth(x, h) \in Handled
<1> DEFINE cl == [x.s.client EXCEPT ![h] = [x.s.client[h] EXCEPT !.validated = TRUE]]
           r == [x.s EXCEPT !.client = cl]
<1>1. x.s \in Server /\ x.s \in Good(sv) /\ x.s.client \in [Handle -> Client]
  BY HandledFields, ServerFields
<1>2. cl \in [Handle -> Client]
  BY <1>1 DEF Client
<1>3. \A g \in Handle : /\ cl[g].fd = x.s.client[g].fd /\ cl[g].ver = x.s.client[g].ver
                        /\ cl[g].conn = x.s.client[g].conn
                        /\ cl[g].out = x.s.client[g].out
  BY <1>1 DEF Client
<1>4. HandleAuth(x, h) = [x EXCEPT !.s = r]
  BY HandledFields DEF HandleAuth
<1> HIDE DEF cl
<1>5. /\ r \in Server /\ r.conn = x.s.conn /\ r.client = cl
      /\ r.ha = x.s.ha /\ r.twice = x.s.twice
  BY <1>1, <1>2 DEF Server
<1> HIDE DEF r
<1>6. r \in Good(sv)
  <2>1. AnswersInv(x.s) => /\ \A g \in Handle : r.client[g].out \subseteq {x.s.client[g].conn}
                           /\ \A c \in Conns : r.conn[c].got \subseteq {c}
    BY <1>3, <1>5 DEF AnswersInv
  <2>2. \A g \in Handle : /\ r.client[g].fd = x.s.client[g].fd
                          /\ r.client[g].ver = x.s.client[g].ver
                          /\ r.client[g].conn = x.s.client[g].conn
    BY <1>3, <1>5
  <2>3. \A c \in Conns : r.conn[c] = x.s.conn[c]
    BY <1>5
  <2> HIDE DEF r
  <2> QED
    BY <1>1, <1>5, <2>1, <2>2, <2>3, TouchGood
<1>7. HandleAuth(x, h) = [s |-> r, task |-> x.task, ok |-> x.ok]
  BY <1>4, HandledFields
<1> QED
  BY <1>5, <1>6, <1>7, HandledFields DEF Handled

LEMMA ReqHandled ==
    ASSUME NEW x \in Handled, NEW h \in Handle
    PROVE  HandleReq(x, h) \in Handled
<1> DEFINE free == {t \in Tasks : x.task[t].state = "none"}
           t0 == CHOOSE t \in free : TRUE
           y == [NoTask EXCEPT !.state = "new", !.cid = CidOf(x.s, h),
                               !.asker = x.s.client[h].conn]
<1>1. CASE ~up \/ free = {}
  BY <1>1 DEF HandleReq
<1>2. CASE ~(~up \/ free = {})
  <2>1. t0 \in Tasks
    BY <1>2
  <2>2. HandleReq(x, h) = [x EXCEPT !.task = [x.task EXCEPT ![t0] = y]]
    BY <1>2, HandledFields DEF HandleReq
  <2>3. /\ x.s \in Server /\ SameClients(sv, x.s) /\ x.task \in [Tasks -> Task]
        /\ x.s.client[h].ver \in Nat /\ x.s.client[h].conn \in Asker
    BY HandledFields, ServerFields DEF Good, Client
  <2> DEFINE cid == CidOf(x.s, h)
             a == x.s.client[h].conn
  <2>4. cid \in Cid /\ cid.h = h /\ cid.ver = x.s.client[h].ver
    BY <2>3 DEF CidOf, Cid
  <2> HIDE DEF cid, t0, free
  <2>5. y \in Task /\ y.state = "new" /\ y.pc = "idle" /\ y.cid = cid /\ y.asker = a
    <3>1. y = [NoTask EXCEPT !.state = "new", !.cid = cid, !.asker = a]
      BY DEF cid
    <3>2. NoTask \in [state : {"none"}, pc : {"idle"}, cid : [h : {0}, ver : {0}],
                      asker : {0}]
      BY DEF NoTask
    <3> HIDE DEF y, a
    <3>3. a \in Asker
      BY <2>3 DEF a
    <3> QED
      BY <2>4, <3>1, <3>2, <3>3 DEF Task
  <2> HIDE DEF y, a
  <2>6. Asked(y)
    BY <2>3, <2>4, <2>5 DEF Asked, Matches, SameClients, a
  <2> DEFINE tk == [x.task EXCEPT ![t0] = y]
  <2>7. tk \in [Tasks -> Task] /\ \A t \in Tasks : tk[t] = x.task[t] \/ tk[t] = y
    BY <2>1, <2>3, <2>5
  <2> HIDE DEF tk
  <2>8. \A t \in Tasks : tk[t] = task[t] \/ Asked(tk[t])
    BY <2>6, <2>7, HandledFields
  <2>9. HandleReq(x, h) = [s |-> x.s, task |-> tk, ok |-> x.ok]
    BY <2>2, HandledFields DEF tk
  <2> QED
    BY <2>3, <2>7, <2>8, <2>9, HandledFields DEF Handled
<1> QED
  BY <1>1, <1>2

LEMMA PacketHandled ==
    ASSUME NEW x \in Handled, NEW p \in Packet, NEW h \in Handle
    PROVE  HandlePacket(x, p, h) \in Handled
<1>1. [x EXCEPT !.ok = FALSE] \in Handled
  <2>1. [x EXCEPT !.ok = FALSE] = [s |-> x.s, task |-> x.task, ok |-> FALSE]
    <3>1. ASSUME NEW v
          PROVE  [x EXCEPT !.ok = v] = [s |-> x.s, task |-> x.task, ok |-> v]
      BY HandledFields
    <3> QED
      BY <3>1
  <2> QED
    BY <2>1, HandledFields DEF Handled
<1>2. CASE p = "auth"
  BY <1>2, AuthHandled DEF HandlePacket
<1>3. CASE p = "badauth"
  BY <1>3, BadAuthHandled DEF HandlePacket
<1>4. CASE p = "req" /\ x.s.client[h].validated
  BY <1>4, ReqHandled DEF HandlePacket
<1>5. CASE p \notin {"auth", "badauth"} /\ ~(p = "req" /\ x.s.client[h].validated)
  BY <1>1, <1>5 DEF HandlePacket
<1> QED
  BY <1>2, <1>3, <1>4, <1>5

LEMMA StreamHandled ==
    ASSUME TypeOK, ServerInv(sv), NEW packets \in Seq(Packet), NEW h \in Handle
    PROVE  ProcessStream(packets, h) \in Handled
<1>1. [s |-> sv, task |-> task, ok |-> TRUE] \in Handled
  BY GoodSelf DEF TypeOK, Handled
<1> QED
  BY <1>1, PacketHandled, BadAuthHandled, ProcessStreamIn

-----------------------------------------------------------------------------
(* The steps of the server and of the clients.                             *)

LEMMA ConnTouched ==
    ASSUME NEW s0, NEW s \in Good(s0), NEW c \in Conns, NEW x \in Connection,
           x.got = s.conn[c].got,
           x.st = "open" <=> s.conn[c].st = "open",
           s.conn[c].st = "open" => x.fd = s.conn[c].fd,
           s.conn[c].st = "closed" => x.st = "closed"
    PROVE  [s EXCEPT !.conn[c] = x] \in Good(s0)
<1> DEFINE r == [s EXCEPT !.conn[c] = x]
<1>1. s \in Server
  BY DEF Good
<1>2. /\ r \in Server /\ r.conn = [s.conn EXCEPT ![c] = x] /\ r.client = s.client
      /\ r.ha = s.ha /\ r.twice = s.twice
  BY <1>1 DEF Server
<1> HIDE DEF r
<1>3. r.conn[c] = x /\ \A d \in Conns : d # c => r.conn[d] = s.conn[d]
  BY <1>1, <1>2, ServerFields
<1>4. AnswersInv(s) => /\ \A h \in Handle : r.client[h].out \subseteq {s.client[h].conn}
                       /\ \A d \in Conns : r.conn[d].got \subseteq {d}
  BY <1>2, <1>3 DEF AnswersInv
<1>5. \A d \in Conns : /\ r.conn[d].st = "open" <=> s.conn[d].st = "open"
                       /\ s.conn[d].st = "open" => r.conn[d].fd = s.conn[d].fd
                       /\ s.conn[d].st = "closed" => r.conn[d].st = "closed"
  BY <1>3
<1>6. r \in Good(s0)
  BY <1>2, <1>4, <1>5, TouchGood
<1> QED
  BY <1>6 DEF r

(* A task keeps its client, or is new, or gone.                            *)
SameAskers ==
    \A t \in Tasks : Live(t)' =>
       \/ Asked(task'[t])
       \/ Live(t) /\ task'[t].cid = task[t].cid /\ task'[t].asker = task[t].asker

LEMMA TasksKept ==
    ASSUME TypeOK, TasksInv, TypeOK', SameClients(sv, sv'), SameAskers
    PROVE  TasksInv'
<1> SUFFICES ASSUME FewConns, NEW t \in Tasks, Live(t)' PROVE Matches(sv', task'[t])
  BY DEF TasksInv
<1>1. task'[t].cid.h \in Handle
  BY DEF TypeOK, Task, Cid
<1>2. /\ sv'.client[task'[t].cid.h].ver = sv.client[task'[t].cid.h].ver
      /\ sv'.client[task'[t].cid.h].conn = sv.client[task'[t].cid.h].conn
  BY <1>1 DEF SameClients
<1>3. Matches(sv, task'[t])
  <2>1. CASE Asked(task'[t])
    BY <2>1 DEF Asked
  <2>2. CASE Live(t) /\ task'[t].cid = task[t].cid /\ task'[t].asker = task[t].asker
    BY <2>2 DEF TasksInv, Matches
  <2> QED
    BY <2>1, <2>2 DEF SameAskers
<1> QED
  BY <1>2, <1>3 DEF Matches

(* Who waits, waited before, and has what it waited for.                   *)
LEMMA ServedKept ==
    ASSUME AwaitingServed, UNCHANGED <<lfs, main>>,
           \A t \in Tasks : Waiting(t)' => Waiting(t) /\ (t \in lost => t \in lost')
    PROVE  AwaitingServed'
BY DEF AwaitingServed

LEMMA GoodStep ==
    ASSUME IInv, sv' \in Good(sv), UNCHANGED <<lfs, running, up, main, lost>>,
           task' \in [Tasks -> Task],
           \A t \in Tasks : task'[t] = task[t] \/ Asked(task'[t])
    PROVE  IInv'
<1>1. TypeOK'
  BY DEF IInv, TypeOK, Good
<1>2. ServerInv(sv') /\ SameClients(sv, sv')
  BY DEF Good
<1>3. SameAskers
  BY DEF SameAskers, Live
<1>4. TasksInv'
  BY <1>1, <1>2, <1>3, TasksKept DEF IInv
<1>5. \A t \in Tasks : Waiting(t)' => Waiting(t)
  BY DEF Waiting, Asked
<1>6. AwaitingServed'
  BY <1>5, ServedKept DEF IInv
<1>7. RunningInv' /\ UpInv'
  BY DEF IInv, RunningInv, UpInv, Running, Live, Asked
<1> QED
  BY <1>1, <1>2, <1>4, <1>6, <1>7 DEF IInv

LEMMA AcceptStep ==
    ASSUME IInv, NEW c \in Conns, Accept(c)
    PROVE  IInv'
<1> DEFINE free == Fds \ OpenFds(sv)
           fd == CHOOSE f \in free : \A g \in free : f <= g
<1>1. /\ sv.conn[c].st = "queued" /\ free # {}
      /\ sv' = IF running /\ ~IsFull(sv.ha) /\ ~ContainsKey(sv.ha, fd)
               THEN Accepted(sv, c, fd) ELSE Rejected(sv, c)
      /\ UNCHANGED <<lfs, task, running, up, main, lost>>
  BY DEF Accept
<1>2. fd \in free
  <2>1. free \in SUBSET Nat
    BY FdsAssumption
  <2> HIDE DEF free
  <2>2. \E f \in free : \A g \in free : f <= g
    BY <1>1, <2>1, Least
  <2> QED
    BY <2>2
<1> HIDE DEF fd
<1>3. sv \in Server /\ ServerInv(sv) /\ sv \in Good(sv)
  BY GoodSelf DEF IInv, TypeOK
<1>4. CASE running /\ ~IsFull(sv.ha) /\ ~ContainsKey(sv.ha, fd)
  <2>1. /\ sv' \in Server /\ ServerInv(sv')
        /\ FewConns => \A x : x.cid \in Cid /\ Matches(sv, x) => Matches(sv', x)
    BY <1>1, <1>2, <1>3, <1>4, AcceptedInv
  <2>2. TypeOK'
    BY <1>1, <2>1 DEF IInv, TypeOK
  <2>3. TasksInv'
    <3>1. \A t \in Tasks : task[t].cid \in Cid
      BY DEF IInv, TypeOK, Task
    <3> QED
      BY <1>1, <2>1, <3>1 DEF IInv, TasksInv, Live
  <2>4. AwaitingServed'
    BY <1>1, ServedKept DEF IInv, Waiting
  <2>5. RunningInv' /\ UpInv'
    BY <1>1 DEF IInv, RunningInv, UpInv, Running, Live
  <2> QED
    BY <2>1, <2>2, <2>3, <2>4, <2>5 DEF IInv
<1>5. CASE ~(running /\ ~IsFull(sv.ha) /\ ~ContainsKey(sv.ha, fd))
  <2> DEFINE x == [sv.conn[c] EXCEPT !.st = "closed"]
  <2>1. sv' = [sv EXCEPT !.conn[c] = x]
    BY <1>1, <1>3, <1>5, ServerFields DEF Rejected
  <2>2. sv.conn[c] \in Connection
    BY <1>3, ServerFields
  <2>3. x \in Connection /\ x.got = sv.conn[c].got /\ x.st = "closed"
    BY <2>2 DEF Connection
  <2> HIDE DEF x
  <2>4. sv' \in Good(sv)
    BY <1>1, <1>3, <2>1, <2>3, ConnTouched
  <2> QED
    BY <1>1, <2>4, GoodStep DEF IInv, TypeOK
<1> QED
  BY <1>4, <1>5

LEMMA RecvStep ==
    ASSUME IInv, NEW fd \in Fds, Recv(fd)
    PROVE  IInv'
<1> DEFINE h == HandleGet(sv.ha, fd)
<1>1. sv \in Server /\ ServerInv(sv) /\ sv \in Good(sv) /\ TypeOK
  BY GoodSelf DEF IInv, TypeOK
<1>2. h \in Handle
  <2>1. sv.ha.byKey \in KeyMap
    BY <1>1 DEF Server, Table
  <2> QED
    BY <2>1, KeyMapValue DEF Recv, HandleGet, ContainsKey
<1>3. PICK c \in Conns :
         IF sv.conn[c].in # <<>>
         THEN /\ sv' = [ProcessStream(sv.conn[c].in, h).s EXCEPT !.conn[c].in = <<>>]
              /\ task' = ProcessStream(sv.conn[c].in, h).task
         ELSE sv' = Disconnect(sv, CidOf(sv, h)) /\ UNCHANGED task
  BY DEF Recv
<1>4. UNCHANGED <<lfs, running, up, main, lost>>
  BY DEF Recv
<1> HIDE DEF h
<1>5. CASE sv.conn[c].in # <<>>
  <2> DEFINE e == ProcessStream(sv.conn[c].in, h)
  <2>1. sv.conn[c].in \in Seq(Packet)
    BY <1>1, ServerFields DEF Connection
  <2>2. e \in Handled
    BY <1>1, <1>2, <2>1, StreamHandled
  <2>3. sv' = [e.s EXCEPT !.conn[c].in = <<>>] /\ task' = e.task
    BY <1>3, <1>5
  <2> HIDE DEF e
  <2>4. /\ e.s \in Good(sv) /\ e.s \in Server /\ e.task \in [Tasks -> Task]
        /\ \A t \in Tasks : e.task[t] = task[t] \/ Asked(e.task[t])
    BY <2>2, HandledFields
  <2> DEFINE x == [e.s.conn[c] EXCEPT !.in = <<>>]
  <2>5. sv' = [e.s EXCEPT !.conn[c] = x]
    BY <2>3, <2>4, ServerFields
  <2>6. e.s.conn[c] \in Connection /\ <<>> \in Seq(Packet)
    BY <2>4, ServerFields
  <2>7. /\ x \in Connection /\ x.got = e.s.conn[c].got /\ x.st = e.s.conn[c].st
        /\ x.fd = e.s.conn[c].fd
    BY <2>6 DEF Connection
  <2> HIDE DEF x
  <2>8. sv' \in Good(sv)
    BY <2>4, <2>5, <2>7, ConnTouched
  <2> QED
    BY <1>4, <2>3, <2>4, <2>8, GoodStep
<1>6. CASE ~(sv.conn[c].in # <<>>)
  <2>1. CidOf(sv, h).h \in Handle
    BY <1>2 DEF CidOf
  <2>2. sv' \in Good(sv) /\ UNCHANGED task
    BY <1>1, <1>3, <1>6, <2>1, DisconnectGood
  <2> QED
    BY <1>1, <1>4, <2>2, GoodStep DEF TypeOK
<1> QED
  BY <1>5, <1>6

LEMMA FlushSweepStep ==
    ASSUME IInv, Sweep \/ \E h \in Handle : Flush(h)
    PROVE  IInv'
<1>1. sv \in Server /\ ServerInv(sv) /\ sv \in Good(sv) /\ TypeOK
  BY GoodSelf DEF IInv, TypeOK
<1>2. UNCHANGED <<lfs, task, running, up, main, lost>>
  BY DEF Sweep, Flush
<1>3. sv' \in Good(sv)
  <2>1. CASE Sweep
    <3>1. PICK U, V : sv' = DisconnectAll(sv, Listed(Noted(sv, NoIds, U, V)))
      BY <2>1 DEF Sweep
    <3>2. Listed(Noted(sv, NoIds, U, V)) \in Seq(Cid)
      BY <1>1, NoIdsType, NotedGood, ListedIsSeq
    <3> QED
      BY <1>1, <3>1, <3>2, DisconnectAllGood
  <2>2. ASSUME NEW h \in Handle, Flush(h) PROVE sv' \in Good(sv)
    <3>1. PICK W \in SUBSET {h} : sv' = FlushTo(sv, {h}, W)
      BY <2>2 DEF Flush
    <3> QED
      BY <1>1, <3>1, FlushGood
  <2> QED
    BY <2>1, <2>2
<1> QED
  BY <1>1, <1>2, <1>3, GoodStep DEF TypeOK

LEMMA ClientStep ==
    ASSUME IInv, NEW c \in Conns, ClientNext(c)
    PROVE  IInv'
<1>1. sv \in Server /\ ServerInv(sv) /\ sv \in Good(sv) /\ TypeOK
      /\ sv.conn[c] \in Connection
  BY GoodSelf, ServerFields DEF IInv, TypeOK
<1>2. UNCHANGED <<lfs, task, running, up, main, lost>>
  BY DEF ClientNext, ClientConnect, ClientSend, ClientClose
<1>3. sv' \in Good(sv)
  <2>1. ASSUME NEW first \in {<<>>, <<"auth">>, <<"badauth">>}, ClientConnect(c, first)
        PROVE  sv' \in Good(sv)
    <3> DEFINE x == [sv.conn[c] EXCEPT !.st = "queued", !.in = first]
    <3>1. sv' = [sv EXCEPT !.conn[c] = x] /\ sv.conn[c].st = "none"
      BY <1>1, <2>1, ServerFields DEF ClientConnect
    <3>2. first \in Seq(Packet)
      <4>1. ASSUME NEW p \in Packet PROVE <<p>> \in Seq(Packet)
        OBVIOUS
      <4>2. "auth" \in Packet /\ "badauth" \in Packet
        BY DEF Packet
      <4>3. <<>> \in Seq(Packet) /\ <<"auth">> \in Seq(Packet) /\ <<"badauth">> \in Seq(Packet)
        BY <4>1, <4>2
      <4> QED
        BY <4>3
    <3>3. x \in Connection /\ x.got = sv.conn[c].got /\ x.st = "queued"
      BY <1>1, <3>2 DEF Connection
    <3> HIDE DEF x
    <3> QED
      BY <1>1, <3>1, <3>3, ConnTouched
  <2>2. ASSUME NEW p \in {"req", "bad"}, ClientSend(c, p)
        PROVE  sv' \in Good(sv)
    <3> DEFINE q == Append(sv.conn[c].in, p)
               x == [sv.conn[c] EXCEPT !.in = q]
    <3>1. sv' = [sv EXCEPT !.conn[c] = x]
      BY <1>1, <2>2, ServerFields DEF ClientSend
    <3>2. q \in Seq(Packet)
      BY <1>1 DEF Packet, Connection
    <3> HIDE DEF q
    <3>3. /\ x \in Connection /\ x.got = sv.conn[c].got
          /\ x.st = sv.conn[c].st /\ x.fd = sv.conn[c].fd
      BY <1>1, <3>2 DEF Connection
    <3> HIDE DEF x
    <3> QED
      BY <1>1, <3>1, <3>3, ConnTouched
  <2>3. CASE ClientClose(c)
    <3> DEFINE x == [sv.conn[c] EXCEPT !.eof = TRUE]
    <3>1. sv' = [sv EXCEPT !.conn[c] = x]
      BY <1>1, <2>3, ServerFields DEF ClientClose
    <3>2. /\ x \in Connection /\ x.got = sv.conn[c].got
          /\ x.st = sv.conn[c].st /\ x.fd = sv.conn[c].fd
      BY <1>1 DEF Connection
    <3> HIDE DEF x
    <3> QED
      BY <1>1, <3>1, <3>2, ConnTouched
  <2> QED
    BY <2>1, <2>2, <2>3 DEF ClientNext
<1> QED
  BY <1>1, <1>2, <1>3, GoodStep DEF TypeOK

-----------------------------------------------------------------------------
(* The steps of tasks and of LFS.                                          *)

LEMMA TaskStep ==
    ASSUME IInv, sv' \in Good(sv), TypeOK', SameAskers, RunningInv', UpInv',
           AwaitingServed'
    PROVE  IInv'
<1>1. ServerInv(sv') /\ SameClients(sv, sv')
  BY DEF Good
<1>2. TasksInv'
  BY <1>1, TasksKept DEF IInv
<1> QED
  BY <1>1, <1>2 DEF IInv

LEMMA SvGood ==
    ASSUME IInv
    PROVE  TypeOK /\ sv \in Server /\ ServerInv(sv) /\ sv \in Good(sv)
BY GoodSelf DEF IInv, TypeOK

LEMMA NoTaskType == NoTask \in Task /\ NoTask.state = "none" /\ NoTask.pc = "idle"
<1>1. 0 \in Handle
  BY Consts DEF Handle
<1>2. [h |-> 0, ver |-> 0] \in Cid
  BY <1>1 DEF Cid
<1> QED
  BY <1>2, Consts DEF NoTask, Task

LEMMA RespondStep ==
    ASSUME IInv, NEW t \in Tasks, Respond(t)
    PROVE  IInv'
<1> DEFINE h == task[t].cid.h
           x == [sv.client[h] EXCEPT !.out = @ \cup {task[t].asker}]
<1>1. TypeOK /\ sv \in Server /\ ServerInv(sv) /\ sv \in Good(sv)
  BY SvGood
<1>2. task[t] \in Task /\ h \in Handle /\ task[t].asker \in Asker /\ Live(t)
  BY <1>1 DEF TypeOK, Task, Cid, Respond, Live
<1>3. /\ task' = [task EXCEPT ![t] = NoTask]
      /\ UNCHANGED <<lfs, running, up, main, lost>>
  BY DEF Respond
<1>4. sv' \in Good(sv)
  <2>1. CASE ~ValidCid(sv, task[t].cid)
    BY <1>1, <2>1 DEF Respond
  <2>2. CASE ValidCid(sv, task[t].cid)
    <3>1. sv' = [sv EXCEPT !.client[h] = x]
      BY <1>1, <1>2, <2>2, ServerFields DEF Respond
    <3>2. sv.client[h] \in Client
      BY <1>1, <1>2, ServerFields
    <3>3. /\ x \in Client /\ x.fd = sv.client[h].fd /\ x.ver = sv.client[h].ver
          /\ x.conn = sv.client[h].conn
          /\ x.out = sv.client[h].out \cup {task[t].asker}
      BY <1>2, <3>2 DEF Client
    <3>4. FewConns => task[t].asker = sv.client[h].conn
      BY <1>2, <2>2 DEF IInv, TasksInv, Matches, ValidCid
    <3> HIDE DEF x, h
    <3>5. /\ sv' \in Server /\ sv'.conn = sv.conn /\ sv'.ha = sv.ha /\ sv'.twice = sv.twice
          /\ sv'.client = [sv.client EXCEPT ![h] = x]
      BY <1>1, <1>2, <3>1, <3>3 DEF Server
    <3>6. sv'.client[h] = x /\ \A g \in Handle : g # h => sv'.client[g] = sv.client[g]
      BY <1>1, <1>2, <3>5, ServerFields
    <3>7. FewConns /\ AnswersInv(sv) =>
             /\ \A g \in Handle : sv'.client[g].out \subseteq {sv.client[g].conn}
             /\ \A c \in Conns : sv'.conn[c].got \subseteq {c}
      <4> SUFFICES ASSUME FewConns, AnswersInv(sv)
                   PROVE  /\ \A g \in Handle : sv'.client[g].out \subseteq {sv.client[g].conn}
                          /\ \A c \in Conns : sv'.conn[c].got \subseteq {c}
        OBVIOUS
      <4>1. x.out \subseteq {sv.client[h].conn}
        BY <1>2, <3>3, <3>4 DEF AnswersInv
      <4> QED
        BY <3>5, <3>6, <4>1 DEF AnswersInv
    <3>8. \A g \in Handle : /\ sv'.client[g].fd = sv.client[g].fd
                            /\ sv'.client[g].ver = sv.client[g].ver
                            /\ sv'.client[g].conn = sv.client[g].conn
      BY <3>3, <3>6
    <3> QED
      BY <1>1, <3>5, <3>7, <3>8, TouchGood
  <2> QED
    BY <2>1, <2>2
<1>5. task'[t] = NoTask /\ \A u \in Tasks : u # t => task'[u] = task[u]
  BY <1>1, <1>3 DEF TypeOK
<1>6. TypeOK'
  BY <1>1, <1>3, <1>4, NoTaskType DEF TypeOK, Good
<1>7. SameAskers /\ \A u \in Tasks : Waiting(u)' => Waiting(u)
  BY <1>5, NoTaskType DEF SameAskers, Live, Waiting
<1>9. RunningInv' /\ UpInv'
  BY <1>3, <1>5, NoTaskType DEF IInv, RunningInv, UpInv, Running, Live
<1>8. AwaitingServed'
  BY <1>3, <1>7, ServedKept DEF IInv
<1> QED
  BY <1>4, <1>6, <1>7, <1>8, <1>9, TaskStep

(* What a step does to one task, which lives.                              *)
OnlyState(t) ==
    /\ Live(t)
    /\ \E st \in {"new", "running", "awaiting", "completed"}, pc \in {"idle", "run", "send"} :
          task' = [task EXCEPT ![t].state = st, ![t].pc = pc]

LEMMA OnlyStateAskers ==
    ASSUME TypeOK, NEW t \in Tasks, OnlyState(t)
    PROVE  /\ SameAskers /\ task' \in [Tasks -> Task] /\ Live(t)'
           /\ \A u \in Tasks : u # t => task'[u] = task[u]
<1>1. PICK st \in {"new", "running", "awaiting", "completed"}, pc \in {"idle", "run", "send"} :
         task' = [task EXCEPT ![t].state = st, ![t].pc = pc]
  BY DEF OnlyState
<1>2. task \in [Tasks -> Task]
  BY DEF TypeOK
<1>3. /\ task' \in [Tasks -> Task]
      /\ \A u \in Tasks : u # t => task'[u] = task[u]
      /\ task'[t].cid = task[t].cid /\ task'[t].asker = task[t].asker
      /\ Live(t)'
  BY <1>1, <1>2 DEF Task, Live
<1> QED
  BY <1>3 DEF SameAskers, OnlyState, Live

LEMMA WorkStep ==
    ASSUME IInv, NEW t \in Tasks, Work(t)
    PROVE  IInv'
<1>1. TypeOK /\ sv \in Server /\ ServerInv(sv) /\ sv \in Good(sv) /\ lost \in SUBSET Tasks
  BY SvGood DEF TypeOK
<1>2. task \in [Tasks -> Task] /\ task[t] \in Task
  BY <1>1 DEF TypeOK
<1>3. ASSUME sv' \in Good(sv), UNCHANGED <<running, up, main>>, lost' \in SUBSET Tasks,
             OnlyState(t), lost \ {t} \subseteq lost',
             \/ lfs' = lfs /\ ~Waiting(t)'
             \/ lfs' = [lfs EXCEPT !.out = @ \cup {t}]
      PROVE  IInv'
  <2>1. /\ SameAskers /\ task' \in [Tasks -> Task] /\ Live(t)'
        /\ \A u \in Tasks : u # t => task'[u] = task[u]
    BY <1>1, <1>3, OnlyStateAskers
  <2>2. TypeOK'
    <3>1. lfs' \in LfsState
      <4>1. CASE lfs' = lfs
        BY <1>1, <4>1 DEF TypeOK
      <4>2. CASE lfs' = [lfs EXCEPT !.out = @ \cup {t}]
        BY <1>1, <4>2 DEF TypeOK, LfsState
      <4> QED
        BY <1>3, <4>1, <4>2
    <3> QED
      BY <1>1, <1>3, <2>1, <3>1 DEF TypeOK, Good
  <2>3. AwaitingServed'
    <3>1. CASE lfs' = lfs /\ ~Waiting(t)'
      BY <1>3, <2>1, <3>1, ServedKept DEF IInv, Waiting
    <3>2. CASE lfs' = [lfs EXCEPT !.out = @ \cup {t}]
      <4>1. lfs'.out = lfs.out \cup {t} /\ lfs'.srv = lfs.srv /\ lfs'.ans = lfs.ans
            /\ lfs'.st = lfs.st
        BY <1>1, <3>2 DEF TypeOK, LfsState
      <4>2. \A u \in Tasks : u # t /\ Waiting(u)' => Waiting(u)
        BY <2>1 DEF Waiting
      <4> QED
        BY <1>3, <4>1, <4>2 DEF IInv, AwaitingServed
    <3> QED
      BY <1>3, <3>1, <3>2
  <2>4. RunningInv' /\ UpInv'
    BY <1>3, <2>1 DEF IInv, RunningInv, UpInv, Running, Live
  <2> QED
    BY <1>1, <1>3, <2>1, <2>2, <2>3, <2>4, TaskStep
<1>4. CASE StartLocal(t)
  <2>1. task' = [task EXCEPT ![t].state = "running", ![t].pc = "run"] /\ Live(t)
        /\ UNCHANGED <<sv, lfs, running, up, main, lost>>
    BY <1>4 DEF StartLocal, MayStart, Live
  <2>2. OnlyState(t) /\ ~Waiting(t)'
    BY <1>2, <2>1 DEF OnlyState, Waiting, Task
  <2> QED
    BY <1>1, <1>3, <2>1, <2>2
<1>5. CASE StartRequest(t)
  <2>1. task' = [task EXCEPT ![t].state = "awaiting", ![t].pc = "send"] /\ Live(t)
        /\ UNCHANGED <<sv, lfs, running, up, main, lost>>
    BY <1>5 DEF StartRequest, MayStart, Live
  <2>2. OnlyState(t) /\ ~Waiting(t)'
    BY <1>2, <2>1 DEF OnlyState, Waiting, Task
  <2> QED
    BY <1>1, <1>3, <2>1, <2>2
<1>6. CASE Send(t)
  <2>1. Live(t) /\ task[t].pc = "send" /\ UNCHANGED <<running, up, main, lost>>
    BY <1>6 DEF Send, IInv, RunningInv, Running
  <2>2. CASE lfs.st = "open"
    <3>1. lfs' = [lfs EXCEPT !.out = @ \cup {t}] /\ task' = [task EXCEPT ![t].pc = "run"]
          /\ UNCHANGED sv
      BY <1>6, <2>2 DEF Send
    <3>2. task' = [task EXCEPT ![t].state = task[t].state, ![t].pc = "run"]
      BY <1>2, <3>1 DEF Task
    <3>3. OnlyState(t)
      BY <1>2, <2>1, <3>2 DEF OnlyState, Task, Live
    <3> QED
      BY <1>1, <1>3, <2>1, <3>1, <3>3
  <2>3. CASE lfs.st = "closed"
    <3>1. task' = [task EXCEPT ![t].state = "running", ![t].pc = "run"] /\ UNCHANGED <<sv, lfs>>
      BY <1>6, <2>3 DEF Send
    <3>2. OnlyState(t) /\ ~Waiting(t)'
      BY <1>2, <2>1, <3>1 DEF OnlyState, Waiting, Task
    <3> QED
      BY <1>1, <1>3, <2>1, <3>1, <3>2
  <2>4. CASE lfs.st = "null"
    <3>1. sv' = [sv EXCEPT !.ub = TRUE] /\ UNCHANGED <<lfs, task>>
      BY <1>6, <2>4 DEF Send
    <3>2. /\ sv' \in Server /\ sv'.conn = sv.conn /\ sv'.client = sv.client
          /\ sv'.ha = sv.ha /\ sv'.twice = sv.twice
      BY <1>1, <3>1 DEF Server
    <3>3. sv' \in Good(sv)
      <4>1. AnswersInv(sv) => /\ \A h \in Handle : sv'.client[h].out \subseteq {sv.client[h].conn}
                              /\ \A c \in Conns : sv'.conn[c].got \subseteq {c}
        BY <3>2 DEF AnswersInv
      <4> QED
        BY <1>1, <3>2, <4>1, TouchGood
    <3> QED
      BY <1>2, <2>1, <3>1, <3>3, GoodStep
  <2>5. lfs.st \in {"open", "closed", "null"}
    BY <1>1 DEF TypeOK, LfsState
  <2> QED
    BY <2>2, <2>3, <2>4, <2>5
<1>7. CASE Completion(t)
  <2>1. /\ task[t].pc = "run" /\ task[t].state # "awaiting" /\ Live(t)
        /\ task' = [task EXCEPT ![t].pc = "idle",
                                ![t].state = IF up THEN "completed" ELSE task[t].state]
        /\ lost' = lost \ {t} /\ UNCHANGED <<sv, lfs, running, up, main>>
    BY <1>2, <1>7 DEF Completion, IInv, RunningInv, Running, Task
  <2> DEFINE st == IF up THEN "completed" ELSE task[t].state
  <2>2. st \in {"new", "running", "awaiting", "completed"}
    BY <1>2, <2>1 DEF Live, Task
  <2>3. task' = [task EXCEPT ![t].state = st, ![t].pc = "idle"]
    BY <1>2, <2>1 DEF Task
  <2> HIDE DEF st
  <2>4. OnlyState(t) /\ ~Waiting(t)'
    BY <1>2, <2>1, <2>2, <2>3 DEF OnlyState, Waiting, Task
  <2> QED
    BY <1>1, <1>3, <2>1, <2>4
<1> QED
  BY <1>4, <1>5, <1>6, <1>7 DEF Work

(* A step that changes only what becomes of the requests to LFS.           *)
LEMMA LfsStep ==
    ASSUME IInv, sv' \in Good(sv), TypeOK', UpInv', AwaitingServed',
           task' = task \/ \E t \in Tasks : OnlyState(t)
    PROVE  IInv'
<1>1. SameAskers /\ RunningInv'
  <2>1. CASE task' = task
    BY <2>1 DEF SameAskers, Live, IInv, RunningInv, Running
  <2>2. ASSUME NEW t \in Tasks, OnlyState(t) PROVE SameAskers /\ RunningInv'
    <3>1. SameAskers /\ Live(t)' /\ \A u \in Tasks : u # t => task'[u] = task[u]
      BY <2>2, OnlyStateAskers DEF IInv
    <3> QED
      BY <3>1 DEF IInv, RunningInv, Running, Live
  <2> QED
    BY <2>1, <2>2
<1> QED
  BY <1>1, TaskStep

(* A task that is told of its answer, or that there will be none, does not *)
(* wait any more.                                                          *)
LEMMA Woken ==
    ASSUME TypeOK, NEW t \in Tasks, Live(t),
           task' = [task EXCEPT ![t].state = "running"]
    PROVE  /\ OnlyState(t) /\ task' \in [Tasks -> Task]
           /\ \A u \in Tasks : Waiting(u)' => Waiting(u) /\ u # t
<1>1. task \in [Tasks -> Task] /\ task[t] \in Task
  BY DEF TypeOK
<1>2. task' = [task EXCEPT ![t].state = "running", ![t].pc = task[t].pc]
  BY <1>1 DEF Task
<1>3. OnlyState(t)
  BY <1>1, <1>2 DEF OnlyState, Task
<1>4. \A u \in Tasks : Waiting(u)' => Waiting(u) /\ u # t
  BY <1>1 DEF Waiting, Task
<1> QED
  BY <1>3, <1>4, OnlyStateAskers

LEMMA RecvAnswerStep ==
    ASSUME IInv, NEW t \in Tasks, RecvAnswer(t)
    PROVE  IInv'
<1>1. TypeOK /\ sv' \in Good(sv)
  BY SvGood DEF RecvAnswer
<1>2. /\ main.pc \in {"poll", "close lfs"} /\ lfs.st = "open"
      /\ lfs' = [lfs EXCEPT !.ans = @ \ {t}]
      /\ UNCHANGED <<running, up, main, lost>>
  BY DEF RecvAnswer
<1>3. /\ lfs'.out = lfs.out /\ lfs'.srv = lfs.srv /\ lfs'.ans = lfs.ans \ {t}
      /\ lfs'.st = lfs.st /\ lfs' \in LfsState
  BY <1>1, <1>2 DEF TypeOK, LfsState
<1>4. CASE up /\ Live(t)
  <2>1. task' = [task EXCEPT ![t].state = "running"]
    BY <1>4 DEF RecvAnswer
  <2>2. OnlyState(t) /\ task' \in [Tasks -> Task]
        /\ \A u \in Tasks : Waiting(u)' => Waiting(u) /\ u # t
    BY <1>1, <1>4, <2>1, Woken
  <2>3. TypeOK'
    BY <1>1, <1>2, <1>3, <2>2 DEF TypeOK, Good
  <2>4. AwaitingServed' /\ UpInv'
    BY <1>2, <1>3, <2>2 DEF IInv, AwaitingServed, UpInv
  <2> QED
    BY <1>1, <2>2, <2>3, <2>4, LfsStep
<1>5. CASE ~(up /\ Live(t))
  <2>1. UNCHANGED task
    BY <1>5 DEF RecvAnswer
  <2>2. TypeOK'
    BY <1>1, <1>2, <1>3, <2>1 DEF TypeOK, Good
  <2>3. ASSUME Waiting(t) PROVE main.pc = "close lfs"
    <3>1. Live(t)
      BY <2>3 DEF Waiting, Live
    <3> QED
      BY <1>2, <1>5, <3>1 DEF IInv, UpInv
  <2>4. AwaitingServed'
    BY <1>2, <1>3, <2>1, <2>3 DEF IInv, AwaitingServed, Waiting
  <2>5. UpInv'
    BY <1>2 DEF IInv, UpInv
  <2> QED
    BY <1>1, <2>1, <2>2, <2>4, <2>5, LfsStep
<1> QED
  BY <1>4, <1>5

LEMMA IdleType ==
    /\ Idle.pc = "poll" /\ Idle.ids = NoIds /\ Idle.count = 0
    /\ Idle.todo = {} /\ Idle.wrote = {}
    /\ Idle \in MainState
<1>1. 0 \in 0 .. MaxHandles
  BY Consts
<1> QED
  BY <1>1, NoIdsType DEF Idle, MainState

LEMMA FlushStep ==
    ASSUME IInv, FlushWrite \/ FlushReset
    PROVE  IInv'
<1>1. TypeOK /\ sv' \in Good(sv) /\ UNCHANGED <<task, running, up>>
  BY SvGood DEF FlushWrite, FlushReset
<1>2. CASE FlushWrite
  <2>1. PICK w \in SUBSET lfs.out :
           /\ main' = [main EXCEPT !.pc = "flush", !.wrote = w]
           /\ main.pc = "poll" /\ UNCHANGED <<lfs, lost>>
    BY <1>2 DEF FlushWrite, Polling
  <2>2. main' \in MainState /\ main'.pc = "flush"
    BY <1>1, <2>1 DEF TypeOK, MainState, LfsState
  <2>3. TypeOK'
    BY <1>1, <2>1, <2>2 DEF TypeOK, Good
  <2>4. AwaitingServed' /\ UpInv'
    BY <1>1, <2>1, <2>2 DEF IInv, AwaitingServed, UpInv, Waiting
  <2> QED
    BY <1>1, <2>3, <2>4, LfsStep
<1>3. CASE FlushReset
  <2>1. /\ main.pc = "flush" /\ main' = Idle /\ main'.pc = "poll"
        /\ lfs' = [lfs EXCEPT !.out = {}, !.srv = @ \cup main.wrote]
        /\ lost' = lost \cup (lfs.out \ main.wrote)
    BY <1>3 DEF FlushReset, Idle
  <2>2. /\ lfs'.out = {} /\ lfs'.srv = lfs.srv \cup main.wrote /\ lfs'.ans = lfs.ans
        /\ lfs' \in LfsState
    BY <1>1, <2>1 DEF TypeOK, LfsState, MainState
  <2>3. lost' \subseteq Tasks
    BY <1>1, <2>1 DEF TypeOK, LfsState
  <2>4. TypeOK'
    BY <1>1, <2>1, <2>2, <2>3, IdleType DEF TypeOK, Good
  <2>5. AwaitingServed' /\ UpInv'
    BY <1>1, <2>1, <2>2 DEF IInv, AwaitingServed, UpInv, Waiting
  <2> QED
    BY <1>1, <2>4, <2>5, LfsStep
<1> QED
  BY <1>2, <1>3

LEMMA LfsAnswerStep ==
    ASSUME IInv, NEW t \in Tasks, LfsAnswer(t)
    PROVE  IInv'
<1>1. /\ TypeOK /\ sv' \in Good(sv) /\ UNCHANGED <<task, running, up, main, lost>>
      /\ lfs' = [lfs EXCEPT !.srv = @ \ {t}, !.ans = @ \cup {t}]
  BY SvGood DEF LfsAnswer
<1>2. /\ lfs'.out = lfs.out /\ lfs'.srv = lfs.srv \ {t} /\ lfs'.ans = lfs.ans \cup {t}
      /\ lfs'.st = lfs.st
      /\ lfs' \in LfsState
  BY <1>1 DEF TypeOK, LfsState
<1>3. TypeOK'
  BY <1>1, <1>2 DEF TypeOK, Good
<1>4. AwaitingServed' /\ UpInv'
  BY <1>1, <1>2 DEF IInv, AwaitingServed, UpInv, Waiting
<1> QED
  BY <1>1, <1>3, <1>4, LfsStep

(* Once LFS is gone every task is going to be looked at ...                *)
LEMMA LfsDisconnectStep ==
    ASSUME IInv, LfsDisconnect
    PROVE  IInv'
<1>1. /\ TypeOK /\ sv' \in Good(sv) /\ UNCHANGED <<task, up, lost>>
      /\ lfs' = Closed(lfs) /\ running' = FALSE /\ main.pc \in {"poll", "close lfs"}
      /\ main' = [main EXCEPT !.pc = IF main.pc = "poll" THEN "abort" ELSE "last abort",
                              !.todo = Tasks]
  BY SvGood DEF LfsDisconnect
<1>2. /\ main'.pc = IF main.pc = "poll" THEN "abort" ELSE "last abort"
      /\ main'.todo = Tasks
      /\ main' \in MainState
  BY <1>1 DEF TypeOK, MainState
<1>3. Closed(lfs) \in LfsState
  BY DEF Closed, LfsState
<1>4. TypeOK'
  BY <1>1, <1>2, <1>3 DEF TypeOK, Good
<1>5. AwaitingServed'
  BY <1>2 DEF AwaitingServed
<1>6. UpInv'
  <2>1. CASE main.pc = "poll"
    BY <1>1, <2>1 DEF IInv, UpInv
  <2>2. CASE main.pc # "poll"
    BY <1>2, <2>2 DEF UpInv
  <2> QED
    BY <2>1, <2>2
<1> QED
  BY <1>1, <1>4, <1>5, <1>6, LfsStep

(* ... and who has been looked at does not wait.                           *)
LEMMA AbortTaskStep ==
    ASSUME IInv, NEW t \in Tasks, AbortTask(t)
    PROVE  IInv'
<1>1. /\ TypeOK /\ sv' \in Good(sv) /\ UNCHANGED <<lfs, running, up, lost>>
      /\ main' = [main EXCEPT !.todo = @ \ {t}]
      /\ task' = IF Aborts(t) THEN [task EXCEPT ![t].state = "running"] ELSE task
  BY SvGood DEF AbortTask
<1>2. /\ main'.pc = main.pc /\ main'.todo = main.todo \ {t}
      /\ main' \in MainState
  BY <1>1 DEF TypeOK, MainState
<1>3. /\ task' = task \/ OnlyState(t)
      /\ task' \in [Tasks -> Task]
      /\ \A u \in Tasks : Waiting(u)' => Waiting(u) /\ u # t
  <2>1. CASE Aborts(t)
    <3>1. Live(t)
      BY <2>1 DEF Aborts, Live
    <3> QED
      BY <1>1, <2>1, <3>1, Woken
  <2>2. CASE ~Aborts(t)
    BY <1>1, <2>2 DEF Aborts, Waiting, TypeOK
  <2> QED
    BY <2>1, <2>2
<1>4. TypeOK'
  BY <1>1, <1>2, <1>3 DEF TypeOK, Good
<1>5. AwaitingServed'
  BY <1>1, <1>2, <1>3 DEF IInv, AwaitingServed
<1>6. UpInv'
  BY <1>1, <1>2 DEF IInv, UpInv
<1> QED
  BY <1>1, <1>3, <1>4, <1>5, <1>6, LfsStep

(* The steps of the main thread that leave what waits for LFS as it is.    *)
LEMMA MainStepKeeps ==
    ASSUME IInv, sv' \in Good(sv), UNCHANGED <<task, lost>>,
           running' \in BOOLEAN, up' \in BOOLEAN, UpInv',
           main' \in MainState,
           lfs' \in LfsState, lfs'.out = lfs.out, lfs'.srv = lfs.srv, lfs'.ans = lfs.ans,
           main.pc \in {"abort", "last abort"} => main.todo = {},
           main.pc = "close lfs" => lfs.st = "closed"
    PROVE  IInv'
<1>1. TypeOK'
  BY DEF IInv, TypeOK, Good
<1>2. AwaitingServed'
  BY DEF IInv, AwaitingServed, Waiting
<1> QED
  BY <1>1, <1>2, LfsStep

LEMMA MainStepStep ==
    ASSUME IInv, AbortDone \/ Exit \/ LfsDestroy \/ Joined
    PROVE  IInv'
<1>1. TypeOK /\ lfs \in LfsState /\ sv' \in Good(sv) /\ UNCHANGED <<task, up, lost>>
  BY SvGood DEF TypeOK, AbortDone, Exit, LfsDestroy, Joined
<1>2. running' \in BOOLEAN /\ up' \in BOOLEAN /\ lost' \subseteq Tasks
  BY <1>1 DEF TypeOK, AbortDone, Exit, LfsDestroy, Joined
<1>3. CASE AbortDone
  <2>1. /\ main.pc \in {"abort", "last abort"} /\ main.todo = {} /\ UNCHANGED lfs
        /\ main' = [Idle EXCEPT !.pc = IF main.pc = "abort" THEN "poll" ELSE "close lfs"]
    BY <1>3 DEF AbortDone
  <2>2. /\ main' \in MainState
        /\ main'.pc = IF main.pc = "abort" THEN "poll" ELSE "close lfs"
    BY <2>1, IdleType DEF MainState
  <2>3. UpInv'
    <3>1. CASE main.pc = "abort"
      BY <1>1, <3>1 DEF IInv, UpInv
    <3>2. CASE main.pc # "abort"
      BY <2>2, <3>2 DEF UpInv
    <3> QED
      BY <3>1, <3>2
  <2> QED
    BY <1>1, <1>2, <2>1, <2>2, <2>3, MainStepKeeps
<1>4. CASE Exit
  <2>1. UNCHANGED <<main, lfs>> /\ main.pc = "poll"
    BY <1>4 DEF Exit, Polling
  <2>2. main' \in MainState /\ UpInv'
    BY <1>1, <2>1 DEF IInv, UpInv, TypeOK
  <2> QED
    BY <1>1, <1>2, <2>1, <2>2, MainStepKeeps
<1>5. CASE LfsDestroy
  <2>1. /\ main.pc = "close lfs" /\ lfs.st = "closed" /\ lfs' = [lfs EXCEPT !.st = "null"]
        /\ main' = [main EXCEPT !.pc = "join"]
    BY <1>5 DEF LfsDestroy
  <2>2. main' \in MainState /\ UpInv'
    BY <1>1, <2>1 DEF UpInv, TypeOK, MainState
  <2>3. /\ lfs' \in LfsState /\ lfs'.out = lfs.out /\ lfs'.srv = lfs.srv
        /\ lfs'.ans = lfs.ans
    BY <1>1, <2>1 DEF TypeOK, LfsState
  <2> QED
    BY <1>1, <1>2, <2>1, <2>2, <2>3, MainStepKeeps
<1>6. CASE Joined
  <2>1. main.pc = "join" /\ UNCHANGED lfs /\ main' = [main EXCEPT !.pc = "done"]
    BY <1>6 DEF Joined
  <2>2. main' \in MainState /\ UpInv'
    BY <1>1, <2>1 DEF UpInv, TypeOK, MainState
  <2> QED
    BY <1>1, <1>2, <2>1, <2>2, MainStepKeeps
<1> QED
  BY <1>3, <1>4, <1>5, <1>6

LEMMA TaskmanStopStep ==
    ASSUME IInv, TaskmanStop
    PROVE  IInv'
<1>1. TypeOK /\ lfs \in LfsState /\ sv \in Server /\ sv \in Good(sv)
  BY SvGood DEF TypeOK
<1> DEFINE ids == Noted(sv, NoIds, InUse(sv), {}).ids
           count == sv.ha.num
<1>2. /\ main.pc = "poll" /\ UNCHANGED <<lfs, task, running, lost>> /\ up' = FALSE
      /\ main' = [Idle EXCEPT !.pc = "closing", !.count = count, !.ids = ids]
      /\ \E W \in SUBSET InUse(sv) : sv' = FlushTo(sv, InUse(sv), W)
  BY DEF TaskmanStop, Polling
<1>3. sv' \in Good(sv)
  BY <1>1, <1>2, InUseHandles, FlushGood
<1>4. ids \in [Handle -> Cid] /\ count \in 0 .. MaxHandles
  BY <1>1, NoIdsType, NotedGood, InUseHandles DEF NotedIds
<1> HIDE DEF ids, count
<1>5. main' \in MainState /\ main'.pc = "closing"
  BY <1>2, <1>4, IdleType DEF MainState
<1>6. UpInv' /\ running' \in BOOLEAN /\ up' \in BOOLEAN /\ lost' \subseteq Tasks
  BY <1>1, <1>2, <1>5 DEF UpInv, TypeOK
<1> QED
  BY <1>1, <1>2, <1>3, <1>5, <1>6, MainStepKeeps

LEMMA ServerDestroyStep ==
    ASSUME IInv, ServerDestroy
    PROVE  IInv'
<1>1. TypeOK /\ lfs \in LfsState /\ sv \in Server /\ sv \in Good(sv)
  BY SvGood DEF TypeOK
<1>2. /\ main.pc = "closing" /\ UNCHANGED <<lfs, task, running, up, lost>>
      /\ main' = [Idle EXCEPT !.pc = "close lfs"]
  BY DEF ServerDestroy
<1>3. PICK U, V :
         LET x == Noted(sv, main.ids, U, V)
         IN  sv' = DisconnectAll(sv, Listed(x) \o First(x.ids, main.count))
  BY DEF ServerDestroy
<1> DEFINE x == Noted(sv, main.ids, U, V)
<1>4. main.ids \in [Handle -> Cid] /\ main.count \in 0 .. MaxHandles
  BY <1>1 DEF TypeOK, MainState
<1>5. x \in NotedIds
  BY <1>1, <1>4, NotedGood
<1> HIDE DEF x
<1>6. Listed(x) \in Seq(Cid) /\ First(x.ids, main.count) \in Seq(Cid)
  BY <1>4, <1>5, ListedIsSeq, FirstLast DEF NotedIds
<1>7. Listed(x) \o First(x.ids, main.count) \in Seq(Cid)
  BY <1>6
<1>8. sv' \in Good(sv)
  BY <1>1, <1>3, <1>7, DisconnectAllGood DEF x
<1>9. main' \in MainState /\ main'.pc = "close lfs"
  BY <1>2, IdleType DEF MainState
<1>10. UpInv' /\ running' \in BOOLEAN /\ up' \in BOOLEAN /\ lost' \subseteq Tasks
  BY <1>1, <1>2, <1>9 DEF UpInv, TypeOK
<1> QED
  BY <1>1, <1>2, <1>8, <1>9, <1>10, MainStepKeeps

-----------------------------------------------------------------------------
(* The theorems.                                                           *)

LEMMA InitIInv == Init => IInv
<1> SUFFICES ASSUME Init PROVE IInv
  OBVIOUS
<1> DEFINE s0 == [conn |-> [c \in Conns |-> NoConn], client |-> [h \in Handle |-> NoClient],
                  ha |-> FreshTable, twice |-> FALSE, ub |-> FALSE]
<1>1. /\ sv = s0 /\ lfs = [st |-> "open", out |-> {}, srv |-> {}, ans |-> {}]
      /\ task = [t \in Tasks |-> NoTask] /\ running = TRUE /\ up = TRUE
      /\ main = Idle /\ lost = {}
  BY DEF Init
<1>2. 0 \in Handle
  BY Consts DEF Handle
<1>3. FreshTable \in Table
  <2>1. [s \in {} |-> 0] \in [{} -> Handle] /\ {} \in SUBSET Strings
    OBVIOUS
  <2>2. [s \in {} |-> 0] \in KeyMap
    BY <2>1 DEF KeyMap
  <2>3. 0 \in 0 .. MaxHandles
    BY Consts
  <2> QED
    BY <1>2, <2>2, <2>3 DEF FreshTable, Table
<1>4. NoConn \in Connection /\ NoConn.st = "none" /\ NoConn.got = {}
  <2>1. <<>> \in Seq(Packet) /\ NoFd \in Fd
    BY DEF Fd
  <2> HIDE DEF NoFd
  <2> QED
    BY <2>1 DEF NoConn, Connection
<1>5. NoClient \in Client /\ NoClient.fd = NoFd /\ NoClient.ver = 0 /\ NoClient.out = {}
  BY Consts DEF NoClient, Client, Fd
<1>6. s0 \in Server
  BY <1>3, <1>4, <1>5 DEF Server
<1>7. /\ \A c \in Conns : sv.conn[c] = NoConn
      /\ \A h \in Handle : sv.client[h] = NoClient
      /\ sv.ha = FreshTable
  BY <1>1
<1> HIDE DEF s0
<1>8. OpenConns(sv) = {} /\ Begun(sv) = {} /\ \A h \in Handle : ~Has(sv, h)
  BY <1>4, <1>5, <1>7 DEF OpenConns, Begun, Has
<1>9. FdsInv(sv)
  BY <1>8 DEF FdsInv
<1>10. TableInv(sv)
  <2>1. Cardinality({}) = 0
    BY FS_EmptySet
  <2>2. FreshTable.num = 0 /\ WellFormed(FreshTable) /\ \A h \in Handle : ~IsValid(FreshTable, h)
    <3>1. /\ FreshTable.num = 0 /\ FreshTable.i2h = [i \in Handle |-> i]
          /\ FreshTable.h2i = [h \in Handle |-> 0]
      BY DEF FreshTable
    <3>2. 0 \in 0 .. MaxHandles /\ \A i \in Handle : ~(i < 0)
      BY Consts DEF Handle
    <3> QED
      BY <1>2, <3>1, <3>2 DEF WellFormed, IsValid
  <2> QED
    BY <1>7, <1>8, <2>1, <2>2 DEF TableInv
<1>11. AnswersInv(sv)
  <2>1. Cardinality(Begun(sv)) = 0
    BY <1>8, FS_EmptySet
  <2>2. \A h \in Handle : sv.client[h].ver <= Cardinality(Begun(sv))
    BY <1>5, <1>7, <2>1
  <2> QED
    BY <1>4, <1>5, <1>7, <2>2 DEF AnswersInv
<1>12. TypeOK
  <2>1. lfs \in LfsState
    BY <1>1 DEF LfsState
  <2>2. task \in [Tasks -> Task]
    BY <1>1, NoTaskType
  <2> QED
    BY <1>1, <1>6, <2>1, <2>2, IdleType DEF TypeOK
<1>13. \A t \in Tasks : task[t].state = "none" /\ task[t].pc = "idle"
  BY <1>1, NoTaskType
<1>14. TasksInv /\ RunningInv /\ UpInv /\ AwaitingServed
  BY <1>1, <1>13 DEF TasksInv, RunningInv, Live, Running, UpInv, AwaitingServed, Waiting
<1> QED
  BY <1>9, <1>10, <1>11, <1>12, <1>14 DEF IInv, ServerInv

LEMMA Inductive == IInv /\ [Next]_vars => IInv'
<1> SUFFICES ASSUME IInv, [Next]_vars PROVE IInv'
  OBVIOUS
<1>1. CASE ServerNext
  BY <1>1, AcceptStep, RecvStep, FlushSweepStep DEF ServerNext
<1>2. CASE LfsNext
  BY <1>2, FlushStep, LfsDisconnectStep, MainStepStep, RecvAnswerStep, AbortTaskStep
     DEF LfsNext
<1>3. CASE StopNext
  BY <1>3, TaskmanStopStep, ServerDestroyStep, MainStepStep DEF StopNext
<1>4. CASE Exit
  BY <1>4, MainStepStep
<1>5. CASE \E t \in Tasks : Work(t) \/ Respond(t) \/ LfsAnswer(t)
  BY <1>5, WorkStep, RespondStep, LfsAnswerStep
<1>6. CASE \E c \in Conns : ClientNext(c)
  BY <1>6, ClientStep
<1>7. CASE UNCHANGED vars
  <2>1. UNCHANGED <<sv, lfs, task, running, up, main, lost>>
    BY <1>7 DEF vars
  <2>2. sv' \in Good(sv) /\ task' \in [Tasks -> Task]
    BY <2>1, SvGood DEF TypeOK
  <2> QED
    BY <2>1, <2>2, GoodStep
<1> QED
  BY <1>1, <1>2, <1>3, <1>4, <1>5, <1>6, <1>7 DEF Next

(* mem.c, net.c, halloc.c: the invariant holds in every reachable state.   *)
THEOREM Invariant == Spec => []IInv
BY InitIInv, Inductive, PTL DEF Spec

(* halloc.c:97, net.c:560: as long as no client has been disconnected      *)
(* twice the handles in use are those of the open connections, each found  *)
(* by its descriptor.                                                      *)
THEOREM HandlesExactCorrect == Spec => []HandlesExact
<1>1. IInv => HandlesExact
  <2> SUFFICES ASSUME IInv, ~sv.twice PROVE Exact
    BY DEF HandlesExact
  <2>1. TableInv(sv) /\ FdsInv(sv)
    BY DEF IInv, ServerInv
  <2>2. Cardinality({c \in Conns : sv.conn[c].st = "open"}) = sv.ha.num
    BY <2>1 DEF TableInv, OpenConns
  <2>3. ASSUME NEW h \in ValidHandles(sv.ha)
        PROVE  LET fd == sv.client[h].fd
               IN  fd \in OpenFds(sv) /\ ContainsKey(sv.ha, fd) /\ HandleGet(sv.ha, fd) = h
    <3>1. h \in Handle /\ Has(sv, h)
      BY <2>1 DEF ValidHandles, TableInv
    <3>2. sv.client[h].fd \in OpenFds(sv)
      BY <2>1, <3>1 DEF FdsInv, OpenFds, OpenConns
    <3>3. ContainsKey(sv.ha, sv.client[h].fd) /\ HandleGet(sv.ha, sv.client[h].fd) = h
      BY <2>1, <3>1 DEF TableInv, ContainsKey, HandleGet
    <3> QED
      BY <3>2, <3>3
  <2> QED
    BY <2>1, <2>2, <2>3 DEF Exact, TableInv
<1> QED
  BY <1>1, Invariant, PTL

(* net.c:802, mem.c:782: a client only gets answers to what it has asked   *)
(* over that very connection, as long as there have been fewer connections *)
(* than a handle has versions.                                             *)
THEOREM AnswersAskerCorrect ==
    ASSUME MaxConns < VersionMod
    PROVE  Spec => []AnswersAsker
<1>1. IInv => AnswersAsker
  BY DEF IInv, ServerInv, FewConns, AnswersInv, AnswersAsker, ValidHandles
<1> QED
  BY <1>1, Invariant, PTL

(* mem_worker.c:184, mem.c:643: a worker that waits for LFS has a request  *)
(* under way or is about to be aborted, unless a flush has dropped it.     *)
THEOREM AwaitingServedCorrect == Spec => []AwaitingServed
<1>1. IInv => AwaitingServed
  BY DEF IInv
<1> QED
  BY <1>1, Invariant, PTL
=============================================================================
