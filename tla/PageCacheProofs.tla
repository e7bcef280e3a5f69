-------------------------- MODULE PageCacheProofs ---------------------------
(***************************************************************************)
(* Theorems about PageCache, for any number of tables, keys, frames and    *)
(* tasks.                                                                  *)
(***************************************************************************)
EXTENDS PageCache, SequenceTheorems, TLAPS

-----------------------------------------------------------------------------
(* Types.                                                                  *)

Slot == Frames \cup {None}

Page == [parent : Tables \cup {None}, modified : BOOLEAN, rec : Record \cup {None}]

ReadPc == {"readLock", "readPage", "touch", "asking"}
HeldPc == {"readPage", "touch", "writePage", "relist", "evict", "fill"}
WritePc == {"writeLock", "writePage", "relist", "alloc", "evict", "fill"}
Pc == Outside \cup ReadPc \cup WritePc

Task == [pc : Pc, op : {"none", "select", "insert"}, tbl : Tables \cup {None},
         key : Keys \cup {None}, ts : Timestamps \cup {0}, page : Slot,
         err : {"none", "blocked", "full"}, reply : Record \cup {None},
         floor : Timestamps \cup {0}]

Times == [Tables -> [Keys -> Timestamps \cup {0}]]

TypeOK ==
    /\ lfs \in Times /\ wire \subseteq Record
    /\ seg \in [Tables -> [Keys -> Slot]]
    /\ page \in [Frames -> Page]
    /\ count \in 0 .. FrameMax
    /\ lru \in Seq(Frames)
    /\ task \in [Tasks -> Task]
    /\ pushing \in Tasks \cup {None}
    /\ queue \in Seq(Tasks)
    /\ blocked \in BOOLEAN /\ journaling \in BOOLEAN
    /\ jpc \in {"idle", "queued", "wait", "run", "unblock", "wake"}
    /\ requests \in Nat
    /\ acked \in Times
    /\ mixed \in BOOLEAN /\ outdated \subseteq Tables \X Keys

(* What a task has to have got where it stands.                            *)
TasksInv ==
    \A w \in Tasks :
       /\ task[w].pc # "idle" => /\ task[w].op # "none"
                                 /\ task[w].tbl \in Tables /\ task[w].key \in Keys
       /\ task[w].op = "insert" \/ task[w].pc \in WritePc => task[w].ts \in Timestamps
       /\ task[w].pc \in ReadPc => task[w].op = "select"
       /\ task[w].pc \in HeldPc => task[w].page \in Frames

-----------------------------------------------------------------------------
(* Who waits, who is inside and who holds what.                            *)

NoTwice(s) == \A i, j \in DOMAIN s : s[i] = s[j] => i = j

QueueInv ==
    /\ NoTwice(queue)
    /\ \A i \in DOMAIN queue : task[queue[i]].pc \in {"pushed", "awaiting"}
    /\ pushing # None => task[pushing].pc \in {"pushed", "new"}

JournalInv ==
    /\ journaling <=> jpc # "idle"
    /\ blocked <=> jpc \in {"wait", "run", "unblock"}
    /\ jpc = "run" => Inside = {}

SegmentsHeld ==
    \A u, w \in Tasks :
       HoldsSegment(u) /\ HoldsSegment(w) /\ task[u].tbl = task[w].tbl => u = w

OneEviction == \A u, w \in Tasks : At(u, "evict") /\ At(w, "evict") => u = w

-----------------------------------------------------------------------------
(* Pages.                                                                  *)

(* Where a task is going to write, nobody else reads or writes; and the    *)
(* page it has been assigned is its own until its segment lets it go.      *)
TaskPage(w) ==
    LET p == task[w].page
    IN /\ task[w].pc \in HeldPc => p < count
       /\ task[w].pc \in {"readPage", "touch", "writePage", "relist"} => Found(w) = p
       /\ At(w, "touch") => Owned(w) /\ ~page[p].modified
       /\ At(w, "relist") => /\ Owned(w) /\ page[p].rec = Rec(w)
                             /\ page[p].modified # IsModification(w)
       /\ task[w].pc \in {"alloc", "evict"} /\ Found(w) # None =>
             page[Found(w)].parent # task[w].tbl
       /\ At(w, "fill") /\ Found(w) \notin {None, p} =>
             page[Found(w)].parent # task[w].tbl
       /\ At(w, "fill") /\ Owned(w) => page[p].modified = IsModification(w)

PagesInv ==
    /\ \A t \in Tables, k \in Keys : seg[t][k] # None =>
          seg[t][k] < count /\ page[seg[t][k]].rec # None
    /\ \A w \in Tasks : TaskPage(w)

-----------------------------------------------------------------------------
(* Records.                                                                *)

(* The page of key k in the segment of table t serves the key.             *)
Serves(t, k) ==
    /\ seg[t][k] # None
    /\ page[seg[t][k]].parent = t
    /\ \A w \in Tasks : At(w, "fill") /\ task[w].tbl = t => task[w].page # seg[t][k]

RecOf(t, k) == page[seg[t][k]].rec
Relisting(t, k) ==
    \E w \in Tasks : At(w, "relist") /\ IsModification(w) /\ task[w].page = seg[t][k]

(* It then holds the key's record, which is to be journaled, or is about   *)
(* to be, or LFS has got it; and nothing newer has been acknowledged.      *)
ServesKey(t, k) ==
    /\ RecOf(t, k).tbl = t /\ RecOf(t, k).key = k
    /\ page[seg[t][k]].modified \/ Relisting(t, k) \/ RecOf(t, k).ts <= lfs[t][k]
    /\ <<t, k>> \notin outdated => RecOf(t, k).ts >= acked[t][k]

PagesDistinct ==
    \A t \in Tables, j, k \in Keys : seg[t][j] # None /\ seg[t][j] = seg[t][k] => j = k

ServesInv ==
    PagesDistinct /\ \A t \in Tables, k \in Keys : Serves(t, k) => ServesKey(t, k)

(* In LFS, or on its way there.                                            *)
Sent(t, k, ts) ==
    \/ lfs[t][k] >= ts
    \/ \E r \in wire : r.tbl = t /\ r.key = k /\ r.ts >= ts

KeepsAcked(t, k) ==
    \/ Sent(t, k, acked[t][k])
    \/ /\ Serves(t, k) /\ page[seg[t][k]].modified
       /\ RecOf(t, k).ts >= acked[t][k]

KeptInv == \A t \in Tables, k \in Keys : KeepsAcked(t, k)

(* What a SELECT has got from LFS.                                         *)
RefillInv ==
    \A w \in Tasks : task[w].op = "select" /\ task[w].pc \in WritePc =>
       /\ task[w].ts <= lfs[task[w].tbl][task[w].key]
       /\ Item(w) \in outdated \/
             /\ task[w].ts = lfs[task[w].tbl][task[w].key]
             /\ \A r \in wire : <<r.tbl, r.key>> = Item(w) => r.ts <= task[w].ts

FloorInv ==
    \A w \in Tasks : task[w].pc # "idle" =>
       task[w].floor <= acked[task[w].tbl][task[w].key]

ReplyInv == \A w \in Tasks : task[w].pc # "done" => task[w].reply = None

AskingInv ==
    \A w \in Tasks : At(w, "asking") =>
       Sent(task[w].tbl, task[w].key, task[w].floor)

DataInv ==
    /\ RefillInv /\ FloorInv /\ ReplyInv
    /\ ~mixed => ServesInv /\ KeptInv /\ AskingInv /\ SelectExact

IInv ==
    /\ TypeOK /\ TasksInv /\ QueueInv /\ JournalInv /\ SegmentsHeld /\ OneEviction
    /\ PagesInv /\ LruExact /\ DataInv

-----------------------------------------------------------------------------
(* Sequences without repetitions.                                          *)

Members(s) == {s[i] : i \in DOMAIN s}

(* The LRU list takes a page at its head.                                  *)
LEMMA Prepended ==
    ASSUME NEW S, NEW s \in Seq(S), NEW p \in S, NoTwice(s), p \notin Members(s)
    PROVE  /\ <<p>> \o s \in Seq(S)
           /\ NoTwice(<<p>> \o s)
           /\ Members(<<p>> \o s) = Members(s) \cup {p}
<1>1. <<p>> \in Seq(S) /\ Len(<<p>>) = 1 /\ <<p>>[1] = p
  OBVIOUS
<1>2. Len(s) \in Nat /\ DOMAIN s = 1 .. Len(s)
  BY LenProperties
<1> DEFINE q == <<p>> \o s
<1>3. /\ q \in Seq(S)
      /\ Len(q) = 1 + Len(s)
      /\ \A i \in 1 .. 1 + Len(s) : q[i] = IF i <= 1 THEN p ELSE s[i - 1]
  BY <1>1, ConcatProperties
<1>4. DOMAIN q = 1 .. 1 + Len(s)
  BY <1>3, LenProperties
<1> HIDE DEF q
<1>5. NoTwice(q)
  <2>1. ASSUME NEW i \in DOMAIN q
        PROVE  (i = 1 /\ q[i] = p) \/ (i - 1 \in DOMAIN s /\ q[i] = s[i - 1])
    <3>1. i \in 1 .. 1 + Len(s)
      BY <1>4
    <3> QED
      BY <1>2, <1>3, <3>1
  <2>2. \A i \in DOMAIN s : s[i] # p
    BY DEF Members
  <2> QED
    BY <1>2, <1>4, <2>1, <2>2 DEF NoTwice
<1>6. Members(q) = Members(s) \cup {p}
  <2>1. Members(q) \subseteq Members(s) \cup {p}
    BY <1>2, <1>3, <1>4 DEF Members
  <2>2. p \in Members(q)
    BY <1>2, <1>3, <1>4 DEF Members
  <2>3. ASSUME NEW i \in DOMAIN s PROVE s[i] \in Members(q)
    <3>1. i + 1 \in DOMAIN q /\ q[i + 1] = s[i]
      BY <1>2, <1>3, <1>4
    <3> QED
      BY <3>1 DEF Members
  <2> QED
    BY <2>1, <2>2, <2>3 DEF Members
<1> QED
  BY <1>3, <1>5, <1>6 DEF q

(* ... and loses its last one.                                             *)
LEMMA Shortened ==
    ASSUME NEW S, NEW s \in Seq(S), s # <<>>, NoTwice(s)
    PROVE  /\ SubSeq(s, 1, Len(s) - 1) \in Seq(S)
           /\ NoTwice(SubSeq(s, 1, Len(s) - 1))
           /\ s[Len(s)] \in S /\ s[Len(s)] \in Members(s)
           /\ Members(SubSeq(s, 1, Len(s) - 1)) = Members(s) \ {s[Len(s)]}
<1>1. Len(s) \in Nat /\ Len(s) # 0 /\ DOMAIN s = 1 .. Len(s) /\ s \in [1 .. Len(s) -> S]
  BY LenProperties, EmptySeq
<1> DEFINE q == SubSeq(s, 1, Len(s) - 1)
<1>2. /\ q \in Seq(S)
      /\ Len(q) = Len(s) - 1
      /\ \A i \in 1 .. Len(s) - 1 : q[i] = s[i]
  <2>1. \A i \in 1 .. Len(s) - 1 : s[i] \in S
    BY <1>1
  <2>2. 1 \in Int /\ Len(s) - 1 \in Int
    BY <1>1
  <2>3. /\ q \in Seq(S)
        /\ Len(q) = IF 1 <= Len(s) - 1 THEN (Len(s) - 1) - 1 + 1 ELSE 0
        /\ \A i \in 1 .. (Len(s) - 1) - 1 + 1 : q[i] = s[1 + i - 1]
    BY <2>1, <2>2, SubSeqProperties
  <2> QED
    BY <1>1, <2>3
<1>3. DOMAIN q = 1 .. Len(s) - 1
  BY <1>2, LenProperties
<1> HIDE DEF q
<1>4. NoTwice(q)
  BY <1>1, <1>2, <1>3 DEF NoTwice
<1>5. s[Len(s)] \in S /\ s[Len(s)] \in Members(s)
  BY <1>1 DEF Members
<1>6. Members(q) = Members(s) \ {s[Len(s)]}
  <2>1. Members(q) \subseteq Members(s) \ {s[Len(s)]}
    BY <1>1, <1>2, <1>3 DEF Members, NoTwice
  <2>2. ASSUME NEW i \in DOMAIN s, s[i] # s[Len(s)] PROVE s[i] \in Members(q)
    <3>1. i \in DOMAIN q /\ q[i] = s[i]
      BY <1>1, <1>2, <1>3, <2>2
    <3> QED
      BY <3>1 DEF Members
  <2> QED
    BY <2>1, <2>2 DEF Members
<1> QED
  BY <1>2, <1>4, <1>5, <1>6 DEF q

LEMMA Removed ==
    ASSUME NEW S, NEW s \in Seq(S), NEW p \in S, NoTwice(s)
    PROVE  /\ Without(s, p) \in Seq(S)
           /\ NoTwice(Without(s, p))
           /\ Members(Without(s, p)) = Members(s) \ {p}
<1>1. Len(s) \in Nat /\ DOMAIN s = 1 .. Len(s) /\ s \in [1 .. Len(s) -> S]
  BY LenProperties
<1>2. CASE ~ \E i \in DOMAIN s : s[i] = p
  BY <1>2 DEF Without, Members
<1>3. CASE \E i \in DOMAIN s : s[i] = p
  <2> DEFINE at == CHOOSE i \in DOMAIN s : s[i] = p
             a == SubSeq(s, 1, at - 1)
             b == SubSeq(s, at + 1, Len(s))
             q == a \o b
  <2>1. at \in 1 .. Len(s) /\ s[at] = p
    BY <1>1, <1>3
  <2>2. Without(s, p) = q
    BY <1>3 DEF Without
  <2> HIDE DEF at
  <2>3. a \in Seq(S) /\ Len(a) = at - 1 /\ \A i \in 1 .. at - 1 : a[i] = s[i]
    <3>1. /\ \A i \in 1 .. at - 1 : s[i] \in S
          /\ 1 \in Int /\ at - 1 \in Int
      BY <1>1, <2>1
    <3>2. /\ a \in Seq(S)
          /\ Len(a) = IF 1 <= at - 1 THEN (at - 1) - 1 + 1 ELSE 0
          /\ \A i \in 1 .. (at - 1) - 1 + 1 : a[i] = s[1 + i - 1]
      BY <3>1, SubSeqProperties
    <3> QED
      BY <2>1, <3>2
  <2>4. /\ b \in Seq(S) /\ Len(b) = Len(s) - at
        /\ \A i \in 1 .. Len(s) - at : b[i] = s[at + i]
    <3>1. /\ \A i \in at + 1 .. Len(s) : s[i] \in S
          /\ at + 1 \in Int /\ Len(s) \in Int
      BY <1>1, <2>1
    <3>2. /\ b \in Seq(S)
          /\ Len(b) = IF at + 1 <= Len(s) THEN Len(s) - (at + 1) + 1 ELSE 0
          /\ \A i \in 1 .. Len(s) - (at + 1) + 1 : b[i] = s[(at + 1) + i - 1]
      BY <3>1, SubSeqProperties
    <3>3. at \in Int /\ Len(s) \in Int /\ at <= Len(s)
      BY <1>1, <2>1
    <3>4. Len(s) - (at + 1) + 1 = Len(s) - at /\ \A i \in Int : (at + 1) + i - 1 = at + i
      BY <3>3
    <3>5. Len(b) = Len(s) - at
      BY <3>2, <3>3
    <3>6. ASSUME NEW i \in 1 .. Len(s) - at PROVE b[i] = s[at + i]
      <4>1. b[i] = s[(at + 1) + i - 1]
        BY <3>2, <3>4
      <4> QED
        BY <3>3, <3>4, <4>1
    <3> QED
      BY <3>2, <3>5, <3>6
  <2> HIDE DEF a, b
  <2>5. /\ q \in Seq(S) /\ Len(q) = Len(s) - 1
        /\ \A i \in 1 .. Len(s) - 1 : q[i] = IF i <= at - 1 THEN s[i] ELSE s[i + 1]
    <3>1. /\ q \in Seq(S)
          /\ Len(q) = Len(a) + Len(b)
          /\ \A i \in 1 .. Len(a) + Len(b) : q[i] = IF i <= Len(a) THEN a[i] ELSE b[i - Len(a)]
      BY <2>3, <2>4, ConcatProperties
    <3>2. Len(a) + Len(b) = Len(s) - 1
      BY <1>1, <2>1, <2>3, <2>4
    <3>3. ASSUME NEW i \in 1 .. Len(s) - 1
          PROVE  q[i] = IF i <= at - 1 THEN s[i] ELSE s[i + 1]
      <4>1. CASE i <= at - 1
        BY <1>1, <2>1, <2>3, <3>1, <3>2, <4>1
      <4>2. CASE ~(i <= at - 1)
        <5>1. i - (at - 1) \in 1 .. Len(s) - at /\ at + (i - (at - 1)) = i + 1
          BY <1>1, <2>1, <4>2
        <5>2. q[i] = b[i - (at - 1)]
          BY <2>3, <3>1, <3>2, <4>2
        <5> QED
          BY <2>4, <4>2, <5>1, <5>2
      <4> QED
        BY <4>1, <4>2
    <3> QED
      BY <3>1, <3>2, <3>3
  <2>6. DOMAIN q = 1 .. Len(s) - 1
    BY <2>5, LenProperties
  <2> HIDE DEF q
  <2>7. NoTwice(q)
    <3>1. ASSUME NEW i \in DOMAIN q
          PROVE  \/ i < at /\ i \in DOMAIN s /\ q[i] = s[i]
                 \/ i >= at /\ i + 1 \in DOMAIN s /\ q[i] = s[i + 1]
      BY <1>1, <2>1, <2>5, <2>6
    <3>2. DOMAIN q \subseteq Nat /\ at \in Nat
      BY <1>1, <2>1, <2>6
    <3>3. ASSUME NEW i \in DOMAIN q, NEW j \in DOMAIN q, q[i] = q[j] PROVE i = j
      <4>1. \A a1, b1 \in DOMAIN s : s[a1] = s[b1] => a1 = b1
        BY DEF NoTwice
      <4>2. i \in Nat /\ j \in Nat
        BY <3>2
      <4>3. CASE i < at /\ j < at
        BY <3>1, <3>2, <3>3, <4>1, <4>2, <4>3
      <4>4. CASE i >= at /\ j >= at
        <5>1. i + 1 = j + 1
          BY <3>1, <3>2, <3>3, <4>1, <4>2, <4>4
        <5> QED
          BY <4>2, <5>1
      <4>5. CASE i < at /\ j >= at
        <5>1. i = j + 1
          BY <3>1, <3>2, <3>3, <4>1, <4>2, <4>5
        <5> QED
          BY <3>2, <4>2, <4>5, <5>1
      <4>6. CASE i >= at /\ j < at
        <5>1. i + 1 = j
          BY <3>1, <3>2, <3>3, <4>1, <4>2, <4>6
        <5> QED
          BY <3>2, <4>2, <4>6, <5>1
      <4> QED
        BY <3>2, <4>2, <4>3, <4>4, <4>5, <4>6
    <3> QED
      BY <3>3 DEF NoTwice
  <2>8. Members(q) \subseteq Members(s) \ {p}
    BY <1>1, <2>1, <2>5, <2>6 DEF Members, NoTwice
  <2>9. ASSUME NEW i \in DOMAIN s, s[i] # p PROVE s[i] \in Members(q)
    <3>1. CASE i < at
      <4>1. i \in DOMAIN q /\ q[i] = s[i]
        BY <1>1, <2>1, <2>5, <2>6, <3>1
      <4> QED
        BY <4>1 DEF Members
    <3>2. CASE i > at
      <4>1. i - 1 \in DOMAIN q /\ q[i - 1] = s[i]
        BY <1>1, <2>1, <2>5, <2>6, <3>2
      <4> QED
        BY <4>1 DEF Members
    <3> QED
      BY <1>1, <2>1, <2>9, <3>1, <3>2
  <2>10. Members(q) = Members(s) \ {p}
    BY <2>8, <2>9 DEF Members
  <2> QED
    BY <2>2, <2>5, <2>7, <2>10
<1> QED
  BY <1>2, <1>3

(* The blocked queue grows at its tail and is served from its head.        *)
LEMMA Enqueued ==
    ASSUME NEW S, NEW s \in Seq(S), NEW p \in S, NoTwice(s), p \notin Members(s)
    PROVE  /\ Append(s, p) \in Seq(S)
           /\ NoTwice(Append(s, p))
           /\ Members(Append(s, p)) \subseteq Members(s) \cup {p}
<1>1. Len(s) \in Nat /\ DOMAIN s = 1 .. Len(s)
  BY LenProperties
<1>2. /\ Append(s, p) \in Seq(S)
      /\ Len(Append(s, p)) = Len(s) + 1
      /\ \A i \in 1 .. Len(s) : Append(s, p)[i] = s[i]
      /\ Append(s, p)[Len(s) + 1] = p
  BY AppendProperties
<1>3. DOMAIN Append(s, p) = 1 .. Len(s) + 1
  BY <1>2, LenProperties
<1> QED
  BY <1>1, <1>2, <1>3 DEF NoTwice, Members

LEMMA Dequeued ==
    ASSUME NEW S, NEW s \in Seq(S), s # <<>>, NoTwice(s)
    PROVE  /\ Tail(s) \in Seq(S)
           /\ NoTwice(Tail(s))
           /\ Head(s) \in S /\ Head(s) \in Members(s)
           /\ Members(Tail(s)) \subseteq Members(s) \ {Head(s)}
<1>1. Len(s) \in Nat /\ Len(s) # 0 /\ DOMAIN s = 1 .. Len(s)
  BY LenProperties, EmptySeq
<1>2. /\ Head(s) \in S
      /\ Tail(s) \in Seq(S)
      /\ Len(Tail(s)) = Len(s) - 1
      /\ \A i \in 1 .. Len(Tail(s)) : Tail(s)[i] = s[i + 1]
  BY HeadTailProperties
<1>3. DOMAIN Tail(s) = 1 .. Len(s) - 1
  BY <1>2, LenProperties
<1>4. Head(s) = s[1]
  OBVIOUS
<1> QED
  BY <1>1, <1>2, <1>3, <1>4 DEF NoTwice, Members

-----------------------------------------------------------------------------
(* What the actions make of a task.                                        *)

Becomes(w, pc, ts, p, reply) ==
    /\ task' \in [Tasks -> Task]
    /\ \A u \in Tasks \ {w} : task'[u] = task[u]
    /\ task'[w].pc = pc /\ task'[w].ts = ts
    /\ task'[w].page = p /\ task'[w].reply = reply
    /\ task'[w].op = task[w].op /\ task'[w].tbl = task[w].tbl
    /\ task'[w].key = task[w].key /\ task'[w].floor = task[w].floor

Moves(w, pc) == Becomes(w, pc, task[w].ts, task[w].page, task[w].reply)

LEMMA TaskFinished ==
    ASSUME NEW v \in Task, NEW pc \in Pc, NEW reply \in Record \cup {None}
    PROVE  [v EXCEPT !.pc = pc, !.reply = reply] \in Task
  BY DEF Task

LEMMA TaskFailed ==
    ASSUME NEW v \in Task, NEW pc \in Pc, NEW err \in {"none", "blocked", "full"}
    PROVE  [v EXCEPT !.pc = pc, !.err = err] \in Task
  BY DEF Task

LEMMA GotoDoes ==
    ASSUME TypeOK, NEW w \in Tasks, NEW pc \in Pc, Goto(w, pc)
    PROVE  Moves(w, pc)
<1>1. task \in [Tasks -> Task] /\ task' = [task EXCEPT ![w].pc = pc]
  BY DEF TypeOK, Goto
<1>2. /\ task[w] \in Task
      /\ task'[w] = [task[w] EXCEPT !.pc = pc]
      /\ \A u \in Tasks \ {w} : task'[u] = task[u]
  BY <1>1
<1>3. task'[w] \in Task
  BY <1>2 DEF Task
<1>4. task' \in [Tasks -> Task]
  BY <1>1, <1>3
<1> QED
  BY <1>2, <1>4 DEF Task, Moves, Becomes

LEMMA GotoPageDoes ==
    ASSUME TypeOK, NEW w \in Tasks, NEW pc \in Pc, NEW p \in Slot, GotoPage(w, pc, p)
    PROVE  Becomes(w, pc, task[w].ts, p, task[w].reply)
<1>1. task \in [Tasks -> Task] /\ task' = [task EXCEPT ![w].pc = pc, ![w].page = p]
  BY DEF TypeOK, GotoPage
<1>2. /\ task[w] \in Task
      /\ task'[w] = [task[w] EXCEPT !.pc = pc, !.page = p]
      /\ \A u \in Tasks \ {w} : task'[u] = task[u]
  BY <1>1
<1>3. task'[w] \in Task
  BY <1>2 DEF Task
<1>4. task' \in [Tasks -> Task]
  BY <1>1, <1>3
<1> QED
  BY <1>2, <1>4 DEF Task, Becomes

LEMMA FinishDoes ==
    ASSUME TypeOK, NEW w \in Tasks, NEW reply \in Record \cup {None}, Finish(w, reply)
    PROVE  Becomes(w, "done", task[w].ts, task[w].page, reply)
<1>1. /\ task \in [Tasks -> Task] /\ "done" \in Pc
      /\ task' = [task EXCEPT ![w].pc = "done", ![w].reply = reply]
  BY DEF TypeOK, Finish, Pc, Outside
<1>2. /\ task[w] \in Task
      /\ task'[w] = [task[w] EXCEPT !.pc = "done", !.reply = reply]
      /\ \A u \in Tasks \ {w} : task'[u] = task[u]
  BY <1>1
<1>3. task'[w] \in Task
  BY <1>1, <1>2, TaskFinished
<1>4. task' \in [Tasks -> Task]
  BY <1>1, <1>3
<1> QED
  BY <1>2, <1>4 DEF Task, Becomes

LEMMA FailDoes ==
    ASSUME TypeOK, NEW w \in Tasks, NEW err \in {"blocked", "full"}, Fail(w, err)
    PROVE  Moves(w, "reschedule")
<1>1. /\ task \in [Tasks -> Task] /\ "reschedule" \in Pc
      /\ err \in {"none", "blocked", "full"}
      /\ task' = [task EXCEPT ![w].pc = "reschedule", ![w].err = err]
  BY DEF TypeOK, Fail, Pc, Outside
<1>2. /\ task[w] \in Task
      /\ task'[w] = [task[w] EXCEPT !.pc = "reschedule", !.err = err]
      /\ \A u \in Tasks \ {w} : task'[u] = task[u]
  BY <1>1
<1>3. task'[w] \in Task
  BY <1>1, <1>2, TaskFailed
<1>4. task' \in [Tasks -> Task]
  BY <1>1, <1>3
<1> QED
  BY <1>2, <1>4 DEF Task, Moves, Becomes

LEMMA DispatchDoes ==
    ASSUME TypeOK, NEW w \in Tasks, Dispatch(w)
    PROVE  Moves(w, "ready")
<1>1. /\ task \in [Tasks -> Task] /\ "ready" \in Pc
      /\ task' = [task EXCEPT ![w].pc = "ready", ![w].err = "none"]
  BY DEF TypeOK, Dispatch, Pc, Outside
<1>2. /\ task[w] \in Task
      /\ task'[w] = [task[w] EXCEPT !.pc = "ready", !.err = "none"]
      /\ \A u \in Tasks \ {w} : task'[u] = task[u]
  BY <1>1
<1>3. task'[w] \in Task
  BY <1>1, <1>2, TaskFailed
<1>4. task' \in [Tasks -> Task]
  BY <1>1, <1>3
<1> QED
  BY <1>2, <1>4 DEF Task, Moves, Becomes

LEMMA LfsSelectDoes ==
    ASSUME TypeOK, TasksInv, NEW w \in Tasks, LfsSelect(w)
    PROVE  LET ts == lfs[task[w].tbl][task[w].key]
           IN IF ts = 0 THEN Moves(w, "done")
              ELSE Becomes(w, "writeLock", ts, task[w].page, task[w].reply)
<1>1. task \in [Tasks -> Task] /\ task[w].tbl \in Tables /\ task[w].key \in Keys
  BY DEF TypeOK, TasksInv, LfsSelect, At, ReadPc
<1>2. lfs[task[w].tbl][task[w].key] \in Timestamps \cup {0}
  BY <1>1 DEF TypeOK, Times
<1> DEFINE ts == lfs[task[w].tbl][task[w].key]
<1>3. task' = IF ts = 0 THEN [task EXCEPT ![w].pc = "done"]
              ELSE [task EXCEPT ![w].pc = "writeLock", ![w].ts = ts]
  BY DEF LfsSelect
<1> HIDE DEF ts
<1>4. ts = 0 => Moves(w, "done")
  <2>1. "done" \in Pc
    BY DEF Pc, Outside
  <2> QED
    BY <1>1, <1>3, <2>1 DEF Task, Moves, Becomes
<1>5. ts # 0 => Becomes(w, "writeLock", ts, task[w].page, task[w].reply)
  <2>1. "writeLock" \in Pc /\ ts \in Timestamps \cup {0}
    BY <1>2 DEF Pc, WritePc, ts
  <2> SUFFICES ASSUME ts # 0
               PROVE  Becomes(w, "writeLock", ts, task[w].page, task[w].reply)
    OBVIOUS
  <2>2. /\ task[w] \in Task
        /\ task'[w] = [task[w] EXCEPT !.pc = "writeLock", !.ts = ts]
        /\ \A u \in Tasks \ {w} : task'[u] = task[u]
    BY <1>1, <1>3
  <2>3. task'[w] \in Task
    BY <2>1, <2>2 DEF Task
  <2>4. task' \in [Tasks -> Task]
    BY <1>1, <1>3, <2>3
  <2> QED
    BY <2>2, <2>4 DEF Task, Becomes
<1> QED
  BY <1>4, <1>5 DEF ts

LEMMA RequestDoes ==
    ASSUME TypeOK, NEW w \in Tasks, NEW op \in {"select", "insert"}, NEW t \in Tables,
           NEW k \in Keys, NEW ts \in Timestamps \cup {0}, Request(w, op, t, k, ts)
    PROVE  /\ task' \in [Tasks -> Task]
           /\ \A u \in Tasks \ {w} : task'[u] = task[u]
           /\ task'[w].pc = "new" /\ task'[w].op = op /\ task'[w].tbl = t
           /\ task'[w].key = k /\ task'[w].ts = ts /\ task'[w].reply = None
           /\ task'[w].floor = acked[t][k]
<1>1. acked[t][k] \in Timestamps \cup {0}
  BY DEF TypeOK, Times
<1> QED
  BY <1>1 DEF TypeOK, Task, Request, NoTask, Pc, Outside, Slot
LEMMA RescheduleDoes ==
    ASSUME TypeOK, TasksInv, NEW w \in Tasks, Reschedule(w)
    PROVE  Moves(w, "pushed")
<1>1. Goto(w, "pushed") /\ "pushed" \in Pc
  BY DEF Reschedule, Goto, Pc, Outside
<1> QED
  BY <1>1, GotoDoes

LEMMA ReadForeignDoes ==
    ASSUME TypeOK, TasksInv, NEW w \in Tasks, ReadForeign(w)
    PROVE  Moves(w, "asking")
  BY GotoDoes DEF ReadForeign, Pc, Outside, ReadPc, WritePc

LEMMA ReadCleanDoes ==
    ASSUME TypeOK, TasksInv, NEW w \in Tasks, ReadClean(w)
    PROVE  Moves(w, "touch")
  BY GotoDoes DEF ReadClean, Pc, Outside, ReadPc, WritePc

LEMMA WriteForeignDoes ==
    ASSUME TypeOK, TasksInv, NEW w \in Tasks, WriteForeign(w)
    PROVE  Moves(w, "alloc")
  BY GotoDoes DEF WriteForeign, Pc, Outside, ReadPc, WritePc

LEMMA WriteOtherDoes ==
    ASSUME TypeOK, TasksInv, NEW w \in Tasks, WriteOther(w)
    PROVE  Moves(w, "relist")
  BY GotoDoes DEF WriteOther, Pc, Outside, ReadPc, WritePc

LEMMA GuardBlockedDoes ==
    ASSUME TypeOK, TasksInv, NEW w \in Tasks, GuardBlocked(w)
    PROVE  Moves(w, "reschedule")
  BY FailDoes DEF GuardBlocked

LEMMA AllocFullDoes ==
    ASSUME TypeOK, TasksInv, NEW w \in Tasks, AllocFull(w)
    PROVE  Moves(w, "reschedule")
  BY FailDoes DEF AllocFull

LEMMA GuardEnterDoes ==
    ASSUME TypeOK, TasksInv, NEW w \in Tasks, GuardEnter(w)
    PROVE  /\ task[w].op = "select" => Moves(w, "readLock")
           /\ task[w].op # "select" => Moves(w, "writeLock")
  BY GotoDoes DEF GuardEnter, Pc, ReadPc, WritePc

LEMMA FoundSlot ==
    ASSUME TypeOK, NEW w \in Tasks, task[w].tbl \in Tables, task[w].key \in Keys
    PROVE  Found(w) \in Slot
  BY DEF TypeOK, Found

LEMMA Working ==
    ASSUME TypeOK, TasksInv, NEW w \in Tasks, task[w].pc \in ReadPc \cup WritePc
    PROVE  task[w].tbl \in Tables /\ task[w].key \in Keys /\ Found(w) \in Slot
           /\ task[w].op \in {"select", "insert"}
<1>1. task[w].tbl \in Tables /\ task[w].key \in Keys /\ task[w].op # "none" /\ task[w] \in Task
  BY DEF TypeOK, TasksInv, ReadPc, WritePc
<1> QED
  BY <1>1, FoundSlot DEF Task

LEMMA ReadFindDoes ==
    ASSUME TypeOK, TasksInv, NEW w \in Tasks, ReadFind(w)
    PROVE  /\ Found(w) = None => Moves(w, "asking")
           /\ Found(w) # None => Becomes(w, "readPage", task[w].ts, Found(w), task[w].reply)
<1>1. Found(w) \in Slot
  BY Working DEF ReadFind, At, ReadPc, WritePc
<1> QED
  BY <1>1, GotoDoes, GotoPageDoes DEF ReadFind, Pc, ReadPc, WritePc, Slot

LEMMA WriteFindDoes ==
    ASSUME TypeOK, TasksInv, NEW w \in Tasks, WriteFind(w)
    PROVE  /\ Found(w) = None => Becomes(w, "alloc", task[w].ts, None, task[w].reply)
           /\ Found(w) # None => Becomes(w, "writePage", task[w].ts, Found(w), task[w].reply)
<1>1. Found(w) \in Slot
  BY Working DEF WriteFind, At, ReadPc, WritePc
<1> QED
  BY <1>1, GotoDoes, GotoPageDoes DEF WriteFind, Pc, ReadPc, WritePc, Slot

(* The page a task has got, and the record it writes.                     *)
LEMMA Got ==
    ASSUME TypeOK, TasksInv, NEW w \in Tasks, task[w].pc \in HeldPc
    PROVE  /\ task[w].page \in Frames
           /\ page[task[w].page] \in Page
           /\ page[task[w].page].rec \in Record \cup {None}
           /\ page[task[w].page].modified \in BOOLEAN
<1>1. task[w].page \in Frames
  BY DEF TasksInv
<1>2. page[task[w].page] \in Page
  BY <1>1 DEF TypeOK
<1> QED
  BY <1>1, <1>2 DEF Page

LEMMA Written ==
    ASSUME TypeOK, TasksInv, NEW w \in Tasks, task[w].pc \in WritePc
    PROVE  Rec(w) \in Record
<1>1. task[w].tbl \in Tables /\ task[w].key \in Keys /\ task[w].ts \in Timestamps
  BY Working DEF TasksInv
<1> QED
  BY <1>1 DEF Rec, Record

LEMMA ReadModifiedDoes ==
    ASSUME TypeOK, TasksInv, NEW w \in Tasks, ReadModified(w)
    PROVE  Becomes(w, "done", task[w].ts, task[w].page, page[task[w].page].rec)
  BY Got, FinishDoes DEF ReadModified, At, HeldPc

LEMMA ReadTouchDoes ==
    ASSUME TypeOK, TasksInv, NEW w \in Tasks, ReadTouch(w)
    PROVE  Becomes(w, "done", task[w].ts, task[w].page, page[task[w].page].rec)
  BY Got, FinishDoes DEF ReadTouch, At, HeldPc

LEMMA WriteOlderDoes ==
    ASSUME TypeOK, TasksInv, NEW w \in Tasks, WriteOlder(w)
    PROVE  Becomes(w, "done", task[w].ts, task[w].page, page[task[w].page].rec)
  BY Got, FinishDoes DEF WriteOlder, At, HeldPc

LEMMA WriteSameDoes ==
    ASSUME TypeOK, TasksInv, NEW w \in Tasks, WriteSame(w)
    PROVE  Becomes(w, "done", task[w].ts, task[w].page, Rec(w))
  BY Written, FinishDoes DEF WriteSame, At, WritePc

LEMMA RelistDoes ==
    ASSUME TypeOK, TasksInv, NEW w \in Tasks, Relist(w)
    PROVE  Becomes(w, "done", task[w].ts, task[w].page, Rec(w))
  BY Written, FinishDoes DEF Relist, At, WritePc

LEMMA FillDoes ==
    ASSUME TypeOK, TasksInv, NEW w \in Tasks, Fill(w)
    PROVE  Becomes(w, "done", task[w].ts, task[w].page, Rec(w))
  BY Written, FinishDoes DEF Fill, At, WritePc

LEMMA AllocNewDoes ==
    ASSUME TypeOK, TasksInv, NEW w \in Tasks, AllocNew(w)
    PROVE  count \in Frames /\ Becomes(w, "fill", task[w].ts, count, task[w].reply)
<1>1. count \in Frames
  BY FrameMaxAssumption DEF TypeOK, AllocNew, Frames
<1> QED
  BY <1>1, GotoPageDoes DEF AllocNew, Assign, Pc, WritePc, Slot

LEMMA AllocEvictDoes ==
    ASSUME TypeOK, TasksInv, NEW w \in Tasks, AllocEvict(w)
    PROVE  /\ lru[Len(lru)] \in Frames
           /\ Becomes(w, "evict", task[w].ts, lru[Len(lru)], task[w].reply)
<1>1. lru[Len(lru)] \in Frames
  <2>1. Len(lru) \in Nat /\ lru \in [1 .. Len(lru) -> Frames] /\ Len(lru) # 0
    BY LenProperties, EmptySeq DEF TypeOK, AllocEvict
  <2> QED
    BY <2>1
<1> QED
  BY <1>1, GotoPageDoes DEF AllocEvict, Pc, WritePc, Slot

LEMMA EvictDoes ==
    ASSUME TypeOK, TasksInv, NEW w \in Tasks, Evict(w)
    PROVE  Becomes(w, "fill", task[w].ts, task[w].page, task[w].reply)
  BY Got, GotoPageDoes DEF Evict, Assign, At, HeldPc, Pc, WritePc, Slot

LEMMA SetAwaitingDoes ==
    ASSUME TypeOK, SetAwaiting
    PROVE  pushing \in Tasks /\ Moves(pushing, "awaiting")
<1>1. pushing \in Tasks /\ Goto(pushing, "awaiting") /\ "awaiting" \in Pc
  BY DEF TypeOK, SetAwaiting, Goto, Pc, Outside
<1> QED
  BY <1>1, GotoDoes

LEMMA JournalWakeDoes ==
    ASSUME TypeOK, JournalWake
    PROVE  Head(queue) \in Tasks /\ Moves(Head(queue), "new")
<1>1. Head(queue) \in Tasks
  BY HeadTailProperties DEF TypeOK, JournalWake
<1> QED
  BY <1>1, GotoDoes DEF JournalWake, Pc, Outside

(* What the end of a handler makes of the history of acknowledgements.     *)
LEMMA AckedDoes ==
    ASSUME TypeOK, TasksInv, NEW w \in Tasks, task[w].pc # "idle", NEW reply,
           Finish(w, reply)
    PROVE  /\ acked' \in Times
           /\ task[w].tbl \in Tables /\ task[w].key \in Keys
           /\ \A t \in Tables, k \in Keys :
                 acked'[t][k] = IF task[w].op = "insert" /\ Item(w) = <<t, k>>
                                THEN Newest(acked[t][k], task[w].ts) ELSE acked[t][k]
<1>1. /\ task[w].tbl \in Tables /\ task[w].key \in Keys
      /\ task[w].op = "insert" => task[w].ts \in Timestamps
  BY DEF TasksInv
<1>2. acked \in [Tables -> [Keys -> Timestamps \cup {0}]]
  BY DEF TypeOK, Times
<1>3. CASE task[w].op # "insert"
  BY <1>1, <1>2, <1>3 DEF Finish, Times
<1>4. CASE task[w].op = "insert"
  <2> DEFINE t0 == task[w].tbl
             k0 == task[w].key
             v == Newest(acked[t0][k0], task[w].ts)
  <2>1. v \in Timestamps \cup {0}
    BY <1>1, <1>2, <1>4 DEF Newest
  <2>2. acked' = [acked EXCEPT ![t0][k0] = v]
    BY <1>4 DEF Finish
  <2>3. \A t \in Tables, k \in Keys :
           Item(w) = <<t, k>> <=> t = t0 /\ k = k0
    BY DEF Item
  <2>4. /\ acked' \in Times
        /\ \A t \in Tables, k \in Keys :
              acked'[t][k] = IF t = t0 /\ k = k0 THEN v ELSE acked[t][k]
    <3> HIDE DEF v
    <3> QED
      BY <1>1, <1>2, <2>1, <2>2 DEF Times
  <2> QED
    BY <1>1, <1>4, <2>3, <2>4
<1> QED
  BY <1>3, <1>4

LEMMA RecordWritten ==
    ASSUME page \in [Frames -> Page], NEW p \in Frames, NEW r \in Record,
           page' = [page EXCEPT ![p].rec = r]
    PROVE  /\ page' \in [Frames -> Page]
           /\ \A f \in Frames \ {p} : page'[f] = page[f]
           /\ page'[p].rec = r /\ page'[p].parent = page[p].parent
           /\ page'[p].modified = page[p].modified
<1>1. page[p] \in Page /\ page'[p] = [page[p] EXCEPT !.rec = r]
  OBVIOUS
<1>2. page'[p] \in Page
  BY <1>1 DEF Page
<1>3. page' \in [Frames -> Page]
  BY <1>2
<1> QED
  BY <1>1, <1>3 DEF Page

LEMMA Modifies ==
    ASSUME page \in [Frames -> Page], NEW p \in Frames, NEW m \in BOOLEAN,
           page' = [page EXCEPT ![p].modified = m]
    PROVE  /\ page' \in [Frames -> Page]
           /\ \A f \in Frames \ {p} : page'[f] = page[f]
           /\ page'[p].rec = page[p].rec /\ page'[p].parent = page[p].parent
           /\ page'[p].modified = m
<1>1. page[p] \in Page /\ page'[p] = [page[p] EXCEPT !.modified = m]
  OBVIOUS
<1>2. page'[p] \in Page
  BY <1>1 DEF Page
<1>3. page' \in [Frames -> Page]
  BY <1>2
<1> QED
  BY <1>1, <1>3 DEF Page

LEMMA Assigned ==
    ASSUME page \in [Frames -> Page], NEW w \in Tasks, NEW p \in Frames, NEW rest,
           task[w].tbl \in Tables, Assign(w, p, rest)
    PROVE  /\ page' \in [Frames -> Page]
           /\ \A f \in Frames \ {p} : page'[f] = page[f]
           /\ page'[p].rec = page[p].rec /\ page'[p].parent = task[w].tbl
           /\ page'[p].modified = IsModification(w)
<1> DEFINE m == IsModification(w)
           t == task[w].tbl
<1>1. m \in BOOLEAN /\ t \in Tables
  BY DEF IsModification
<1>2. /\ page[p] \in Page /\ page'[p] = [page[p] EXCEPT !.modified = m, !.parent = t]
      /\ \A f \in Frames \ {p} : page'[f] = page[f]
      /\ page' \in [Frames -> {page'[f] : f \in Frames}]
  BY DEF Assign
<1> HIDE DEF m, t
<1>3. page'[p] \in Page
  BY <1>1, <1>2 DEF Page
<1>4. page' \in [Frames -> Page]
  BY <1>2, <1>3
<1> QED
  BY <1>2, <1>4 DEF Page, m, t

(* Each action, once.                                                      *)
LEMMA StepCases ==
    ASSUME Next
    PROVE  \/ \E w \in Tasks :
                 \/ GuardBlocked(w) \/ GuardEnter(w) \/ Dispatch(w) \/ Reschedule(w)
                 \/ ReadFind(w) \/ ReadForeign(w) \/ ReadModified(w) \/ ReadClean(w)
                 \/ ReadTouch(w) \/ LfsSelect(w) \/ WriteFind(w) \/ WriteForeign(w)
                 \/ WriteOlder(w) \/ WriteSame(w) \/ WriteOther(w) \/ Relist(w)
                 \/ AllocNew(w) \/ AllocFull(w) \/ AllocEvict(w) \/ Evict(w) \/ Fill(w)
           \/ JournalTick \/ JournalBlock \/ JournalAlone \/ JournalRun
           \/ JournalUnblock \/ JournalEnd \/ JournalWake
           \/ SetAwaiting \/ Requests \/ \E r \in wire : LfsInsert(r)
  BY DEF Next, Journal, Main, Read, Write

(* What the LRU list becomes.                                              *)
LEMMA LruList ==
    ASSUME TypeOK, LruExact
    PROVE  NoTwice(lru) /\ Listed = Members(lru) /\ lru \in Seq(Frames)
  BY DEF TypeOK, LruExact, NoTwice, Listed, Members

LEMMA TouchListed ==
    ASSUME TypeOK, TasksInv, LruExact, NEW w \in Tasks, ReadTouch(w)
    PROVE  lru' \in Seq(Frames) /\ NoTwice(lru') /\ Listed' = Listed \cup {task[w].page}
<1> DEFINE p == task[w].page
           s == Without(lru, p)
<1>1. p \in Frames
  BY Got DEF ReadTouch, At, HeldPc
<1>2. s \in Seq(Frames) /\ NoTwice(s) /\ Members(s) = Listed \ {p}
  BY <1>1, LruList, Removed
<1>3. lru' = <<p>> \o s
  BY DEF ReadTouch
<1> HIDE DEF p, s
<1>4. lru' \in Seq(Frames) /\ NoTwice(lru') /\ Members(lru') = Members(s) \cup {p}
  BY <1>1, <1>2, <1>3, Prepended
<1> QED
  BY <1>2, <1>4 DEF Listed, Members, p

LEMMA RelistListed ==
    ASSUME TypeOK, TasksInv, LruExact, PagesInv, NEW w \in Tasks, Relist(w)
    PROVE  /\ lru' \in Seq(Frames) /\ NoTwice(lru')
           /\ Listed' = IF IsModification(w) THEN Listed \ {task[w].page}
                        ELSE Listed \cup {task[w].page}
<1>1. task[w].page \in Frames
  BY Got DEF Relist, At, HeldPc
<1>4. task[w].page \in Listed <=> IsModification(w)
  <2>1. Evicting = {}
    BY DEF Relist, PagesFree, Evicting
  <2>2. task[w].page < count /\ page[task[w].page].modified # IsModification(w)
    BY DEF PagesInv, TaskPage, Relist, At, HeldPc
  <2>3. page[task[w].page].modified \in BOOLEAN /\ IsModification(w) \in BOOLEAN
    BY Got DEF Relist, At, HeldPc, IsModification
  <2>4. task[w].page \in Listed <=> ~page[task[w].page].modified
    BY <1>1, <2>1, <2>2 DEF LruExact
  <2> QED
    BY <2>2, <2>3, <2>4
<1>2. CASE IsModification(w)
  <2>1. lru' = Without(lru, task[w].page)
    BY <1>2 DEF Relist
  <2>2. lru' \in Seq(Frames) /\ NoTwice(lru') /\ Members(lru') = Listed \ {task[w].page}
    BY <1>1, <2>1, LruList, Removed
  <2> QED
    BY <1>2, <2>2 DEF Listed, Members
<1>3. CASE ~IsModification(w)
  <2>1. lru' = <<task[w].page>> \o lru
    BY <1>3 DEF Relist
  <2>2. task[w].page \notin Members(lru)
    BY <1>3, <1>4, LruList
  <2>3. /\ lru' \in Seq(Frames) /\ NoTwice(lru')
        /\ Members(lru') = Members(lru) \cup {task[w].page}
    BY <1>1, <2>1, <2>2, LruList, Prepended
  <2> QED
    BY <1>3, <2>3, LruList DEF Listed, Members
<1> QED
  BY <1>2, <1>3

LEMMA AssignListed ==
    ASSUME TypeOK, LruExact, NEW w \in Tasks, NEW p \in Frames \ Listed,
           Assign(w, p, lru)
    PROVE  /\ lru' \in Seq(Frames) /\ NoTwice(lru')
           /\ Listed' = IF IsModification(w) THEN Listed ELSE Listed \cup {p}
<1>1. NoTwice(lru) /\ Listed = Members(lru) /\ lru \in Seq(Frames)
  BY LruList
<1>2. CASE IsModification(w)
  BY <1>1, <1>2 DEF Assign, Listed
<1>3. CASE ~IsModification(w)
  <2>1. lru' = <<p>> \o lru
    BY <1>3 DEF Assign
  <2>2. lru' \in Seq(Frames) /\ NoTwice(lru') /\ Members(lru') = Members(lru) \cup {p}
    BY <1>1, <2>1, Prepended
  <2> QED
    BY <1>1, <1>3, <2>2 DEF Listed, Members
<1> QED
  BY <1>2, <1>3

LEMMA AllocNewListed ==
    ASSUME TypeOK, LruExact, NEW w \in Tasks, AllocNew(w)
    PROVE  /\ lru' \in Seq(Frames) /\ NoTwice(lru')
           /\ Listed' = IF IsModification(w) THEN Listed ELSE Listed \cup {count}
<1>1. count \in Frames \ Listed
  BY FrameMaxAssumption DEF TypeOK, LruExact, AllocNew, Frames
<1> QED
  BY <1>1, AssignListed DEF AllocNew

LEMMA EvictListed ==
    ASSUME TypeOK, TasksInv, LruExact, NEW w \in Tasks, Evict(w)
    PROVE  /\ lru' \in Seq(Frames) /\ NoTwice(lru')
           /\ Listed' = IF IsModification(w) THEN Listed ELSE Listed \cup {task[w].page}
<1>1. task[w].page \in Frames
  BY Got DEF Evict, At, HeldPc
<1>2. task[w].page \notin Listed
  BY DEF LruExact, Evicting, Evict
<1> QED
  BY <1>1, <1>2, AssignListed DEF Evict

LEMMA VictimListed ==
    ASSUME TypeOK, LruExact, NEW w \in Tasks, AllocEvict(w)
    PROVE  /\ lru' \in Seq(Frames) /\ NoTwice(lru')
           /\ lru[Len(lru)] \in Listed
           /\ Listed' = Listed \ {lru[Len(lru)]}
<1>1. /\ SubSeq(lru, 1, Len(lru) - 1) \in Seq(Frames)
      /\ NoTwice(SubSeq(lru, 1, Len(lru) - 1))
      /\ lru[Len(lru)] \in Members(lru)
      /\ Members(SubSeq(lru, 1, Len(lru) - 1)) = Members(lru) \ {lru[Len(lru)]}
  BY LruList, Shortened DEF AllocEvict
<1> QED
  BY <1>1, LruList DEF AllocEvict, Listed, Members

LEMMA JournaledRecords ==
    ASSUME TypeOK, PagesInv
    PROVE  Journaled \subseteq Record
<1> SUFFICES ASSUME NEW i \in Modified
             PROVE  [tbl |-> i[1], key |-> page[seg[i[1]][i[2]]].rec.key,
                     ts |-> page[seg[i[1]][i[2]]].rec.ts] \in Record
  BY DEF Journaled
<1>1. i[1] \in Tables /\ i[2] \in Keys /\ i = <<i[1], i[2]>>
  BY DEF Modified
<1>2. seg[i[1]][i[2]] # None /\ seg[i[1]][i[2]] \in Slot
  BY <1>1 DEF Modified, TypeOK
<1>3. page[seg[i[1]][i[2]]] \in Page
  BY <1>2 DEF TypeOK, Slot
<1>4. page[seg[i[1]][i[2]]].rec \in Record
  BY <1>1, <1>2, <1>3 DEF Page, PagesInv
<1> QED
  BY <1>1, <1>4 DEF Record

-----------------------------------------------------------------------------
(* Types.                                                                  *)

LEMMA TasksKept ==
    ASSUME TypeOK, TasksInv, NEW w \in Tasks, NEW pc \in Pc, NEW ts, NEW p, NEW reply,
           Becomes(w, pc, ts, p, reply), task[w].pc # "idle" \/ pc = "idle",
           pc \in WritePc \/ ts # task[w].ts => ts \in Timestamps,
           pc \in ReadPc => task[w].op = "select",
           pc \in HeldPc => p \in Frames
    PROVE  TasksInv'
<1> SUFFICES ASSUME NEW u \in Tasks
             PROVE  /\ task'[u].pc # "idle" =>
                          /\ task'[u].op # "none"
                          /\ task'[u].tbl \in Tables /\ task'[u].key \in Keys
                    /\ task'[u].op = "insert" \/ task'[u].pc \in WritePc =>
                          task'[u].ts \in Timestamps
                    /\ task'[u].pc \in ReadPc => task'[u].op = "select"
                    /\ task'[u].pc \in HeldPc => task'[u].page \in Frames
  BY DEF TasksInv, ReadPc, WritePc, HeldPc
<1>1. CASE u = w
  BY <1>1 DEF TasksInv, Becomes
<1>2. CASE u # w
  BY <1>2 DEF TasksInv, Becomes
<1> QED
  BY <1>1, <1>2

LEMMA TasksNext ==
    ASSUME TypeOK, TasksInv, QueueInv, Next
    PROVE  TasksInv'
<1> USE DEF Moves, Pc, Outside, ReadPc, WritePc, HeldPc
<1>1. ASSUME NEW w \in Tasks, GuardBlocked(w) PROVE TasksInv'
  BY <1>1, GuardBlockedDoes, TasksKept, Got, Working DEF GuardBlocked, At,
     TasksInv, Slot, Task
<1>2. ASSUME NEW w \in Tasks, GuardEnter(w) PROVE TasksInv'
  <2>1. task[w].op \in {"select", "insert"} /\ task[w].pc # "idle"
    <3>1. task[w] \in Task /\ task[w].pc = "ready"
      BY <1>2 DEF GuardEnter, At, TypeOK
    <3> QED
      BY <3>1 DEF TasksInv, Task
  <2>2. task[w].op # "select" => task[w].ts \in Timestamps
    BY <2>1 DEF TasksInv
  <2>3. CASE task[w].op = "select"
    BY <1>2, <2>1, <2>3, GuardEnterDoes, TasksKept
  <2>4. CASE task[w].op # "select"
    BY <1>2, <2>1, <2>2, <2>4, GuardEnterDoes, TasksKept
  <2> QED
    BY <2>3, <2>4
<1>3. ASSUME NEW w \in Tasks, Dispatch(w) PROVE TasksInv'
  BY <1>3, DispatchDoes, TasksKept, Got, Working DEF Dispatch, At, TasksInv, Slot,
     Task
<1>4. ASSUME NEW w \in Tasks, Reschedule(w) PROVE TasksInv'
  BY <1>4, RescheduleDoes, TasksKept, Got, Working DEF Reschedule, At, TasksInv,
     Slot, Task
<1>5. ASSUME NEW w \in Tasks, ReadFind(w) PROVE TasksInv'
  BY <1>5, ReadFindDoes, TasksKept, Got, Working DEF ReadFind, At, TasksInv, Slot,
     Task
<1>6. ASSUME NEW w \in Tasks, ReadForeign(w) PROVE TasksInv'
  BY <1>6, ReadForeignDoes, TasksKept, Got, Working DEF ReadForeign, At, TasksInv,
     Slot, Task
<1>7. ASSUME NEW w \in Tasks, ReadModified(w) PROVE TasksInv'
  BY <1>7, ReadModifiedDoes, TasksKept, Got, Working DEF ReadModified, At,
     TasksInv, Slot, Task
<1>8. ASSUME NEW w \in Tasks, ReadClean(w) PROVE TasksInv'
  BY <1>8, ReadCleanDoes, TasksKept, Got, Working DEF ReadClean, At, TasksInv,
     Slot, Task
<1>9. ASSUME NEW w \in Tasks, ReadTouch(w) PROVE TasksInv'
  BY <1>9, ReadTouchDoes, TasksKept, Got, Working DEF ReadTouch, At, TasksInv,
     Slot, Task
<1>10. ASSUME NEW w \in Tasks, LfsSelect(w) PROVE TasksInv'
  <2> DEFINE ts == lfs[task[w].tbl][task[w].key]
  <2>1. task[w].pc = "asking"
    BY <1>10 DEF LfsSelect, At
  <2>2. ts \in Timestamps \cup {0}
    BY <2>1, Working DEF TypeOK, Times
  <2>3. /\ ts = 0 => Moves(w, "done")
        /\ ts # 0 => Becomes(w, "writeLock", ts, task[w].page, task[w].reply)
    BY <1>10, LfsSelectDoes
  <2> HIDE DEF ts
  <2>4. CASE ts = 0
    BY <2>1, <2>3, <2>4, TasksKept
  <2>5. CASE ts # 0
    BY <2>1, <2>2, <2>3, <2>5, TasksKept
  <2> QED
    BY <2>4, <2>5
<1>11. ASSUME NEW w \in Tasks, WriteFind(w) PROVE TasksInv'
  BY <1>11, WriteFindDoes, TasksKept, Got, Working DEF WriteFind, At, TasksInv,
     Slot, Task
<1>12. ASSUME NEW w \in Tasks, WriteForeign(w) PROVE TasksInv'
  BY <1>12, WriteForeignDoes, TasksKept, Got, Working DEF WriteForeign, At,
     TasksInv, Slot, Task
<1>13. ASSUME NEW w \in Tasks, WriteOlder(w) PROVE TasksInv'
  BY <1>13, WriteOlderDoes, TasksKept, Got, Working DEF WriteOlder, At, TasksInv,
     Slot, Task
<1>14. ASSUME NEW w \in Tasks, WriteSame(w) PROVE TasksInv'
  BY <1>14, WriteSameDoes, TasksKept, Got, Working DEF WriteSame, At, TasksInv,
     Slot, Task
<1>15. ASSUME NEW w \in Tasks, WriteOther(w) PROVE TasksInv'
  BY <1>15, WriteOtherDoes, TasksKept, Got, Working DEF WriteOther, At, TasksInv,
     Slot, Task
<1>16. ASSUME NEW w \in Tasks, Relist(w) PROVE TasksInv'
  BY <1>16, RelistDoes, TasksKept, Got, Working DEF Relist, At, TasksInv, Slot, Task
<1>17. ASSUME NEW w \in Tasks, AllocNew(w) PROVE TasksInv'
  BY <1>17, AllocNewDoes, TasksKept, Got, Working DEF AllocNew, At, TasksInv,
     Slot, Task
<1>18. ASSUME NEW w \in Tasks, AllocFull(w) PROVE TasksInv'
  BY <1>18, AllocFullDoes, TasksKept, Got, Working DEF AllocFull, At, TasksInv,
     Slot, Task
<1>19. ASSUME NEW w \in Tasks, AllocEvict(w) PROVE TasksInv'
  BY <1>19, AllocEvictDoes, TasksKept, Got, Working DEF AllocEvict, At, TasksInv,
     Slot, Task
<1>20. ASSUME NEW w \in Tasks, Evict(w) PROVE TasksInv'
  BY <1>20, EvictDoes, TasksKept, Got, Working DEF Evict, At, TasksInv, Slot, Task
<1>21. ASSUME NEW w \in Tasks, Fill(w) PROVE TasksInv'
  BY <1>21, FillDoes, TasksKept, Got, Working DEF Fill, At, TasksInv, Slot, Task
<1>22. ASSUME NEW w \in Tasks, NEW t \in Tables, NEW k \in Keys,
              NEW op \in {"select", "insert"}, NEW ts \in Timestamps \cup {0},
              op = "insert" => ts \in Timestamps, Request(w, op, t, k, ts)
       PROVE  TasksInv'
  BY <1>22, RequestDoes DEF TasksInv
<1>23. CASE SetAwaiting
  <2>1. task[pushing].pc # "idle"
    BY <1>23, SetAwaitingDoes DEF QueueInv, SetAwaiting
  <2> QED
    BY <1>23, <2>1, SetAwaitingDoes, TasksKept
<1>24. CASE JournalWake
  <2>1. Head(queue) \in Members(queue)
    BY <1>24, Dequeued DEF TypeOK, QueueInv, JournalWake
  <2>2. task[Head(queue)].pc # "idle"
    BY <2>1 DEF QueueInv, Members
  <2> QED
    BY <1>24, <2>2, JournalWakeDoes, TasksKept
<1>25. CASE UNCHANGED task
  BY <1>25 DEF TasksInv
<1> QED
  <2>1. CASE Requests
    BY <1>22, <2>1, TimestampsAssumption DEF Requests, Select, Insert
  <2>2. CASE JournalTick \/ JournalBlock \/ JournalAlone \/ JournalRun \/ JournalUnblock
             \/ JournalEnd \/ \E r \in wire : LfsInsert(r)
    BY <1>25, <2>2 DEF JournalTick, JournalBlock, JournalAlone, JournalRun,
       JournalUnblock, JournalEnd, LfsInsert
  <2>3. CASE \E w \in Tasks : Main(w)
    BY <2>3, <1>1, <1>2, <1>3, <1>4 DEF Main
  <2>4. CASE \E w \in Tasks : Read(w)
    BY <2>4, <1>5, <1>6, <1>7, <1>8, <1>9, <1>10 DEF Read
  <2>5. CASE \E w \in Tasks : Write(w)
    BY <2>5, <1>11, <1>12, <1>13, <1>14, <1>15, <1>16, <1>17, <1>18, <1>19, <1>20,
       <1>21 DEF Write
  <2> QED
    BY <1>23, <1>24, <2>1, <2>2, <2>3, <2>4, <2>5 DEF Next, Journal

LEMMA TypeNext ==
    ASSUME TypeOK, TasksInv, QueueInv, PagesInv, LruExact, Next
    PROVE  TypeOK'
<1> USE DEF TypeOK, Moves, Becomes, lfsVars, memVars, journalVars, historyVars
<1>1. ASSUME NEW w \in Tasks, GuardBlocked(w) PROVE TypeOK'
  BY <1>1, GuardBlockedDoes DEF GuardBlocked
<1>2. ASSUME NEW w \in Tasks, GuardEnter(w) PROVE TypeOK'
  BY <1>2, GuardEnterDoes DEF GuardEnter
<1>3. ASSUME NEW w \in Tasks, Dispatch(w) PROVE TypeOK'
  BY <1>3, DispatchDoes DEF Dispatch
<1>4. ASSUME NEW w \in Tasks, Reschedule(w) PROVE TypeOK'
  <2>1. Append(queue, w) \in Seq(Tasks)
    BY AppendProperties
  <2> QED
    BY <1>4, <2>1, RescheduleDoes DEF Reschedule, JournalTryEnqueue
<1>5. ASSUME NEW w \in Tasks, ReadFind(w) PROVE TypeOK'
  BY <1>5, ReadFindDoes DEF ReadFind
<1>6. ASSUME NEW w \in Tasks, ReadForeign(w) PROVE TypeOK'
  BY <1>6, ReadForeignDoes DEF ReadForeign
<1>7. ASSUME NEW w \in Tasks, ReadModified(w) PROVE TypeOK'
  <2>1. acked' \in Times
    BY <1>7, AckedDoes DEF ReadModified, At
  <2> QED
    BY <1>7, <2>1, ReadModifiedDoes DEF ReadModified
<1>8. ASSUME NEW w \in Tasks, ReadClean(w) PROVE TypeOK'
  BY <1>8, ReadCleanDoes DEF ReadClean
<1>9. ASSUME NEW w \in Tasks, ReadTouch(w) PROVE TypeOK'
  <2>1. acked' \in Times
    BY <1>9, AckedDoes DEF ReadTouch, At
  <2>2. lru' \in Seq(Frames)
    BY <1>9, TouchListed
  <2> QED
    BY <1>9, <2>1, <2>2, ReadTouchDoes DEF ReadTouch
<1>10. ASSUME NEW w \in Tasks, LfsSelect(w) PROVE TypeOK'
  <2>1. Item(w) \in Tables \X Keys
    BY <1>10, Working DEF LfsSelect, At, ReadPc, Item
  <2>2. outdated' \subseteq Tables \X Keys
    BY <1>10, <2>1 DEF LfsSelect
  <2>3. task' \in [Tasks -> Task]
    BY <1>10, LfsSelectDoes
  <2> QED
    BY <1>10, <2>2, <2>3 DEF LfsSelect
<1>11. ASSUME NEW w \in Tasks, WriteFind(w) PROVE TypeOK'
  BY <1>11, WriteFindDoes DEF WriteFind
<1>12. ASSUME NEW w \in Tasks, WriteForeign(w) PROVE TypeOK'
  BY <1>12, WriteForeignDoes DEF WriteForeign
<1>13. ASSUME NEW w \in Tasks, WriteOlder(w) PROVE TypeOK'
  <2>1. acked' \in Times
    BY <1>13, AckedDoes DEF WriteOlder, At
  <2> QED
    BY <1>13, <2>1, WriteOlderDoes DEF WriteOlder
<1>14. ASSUME NEW w \in Tasks, WriteSame(w) PROVE TypeOK'
  <2>1. acked' \in Times
    BY <1>14, AckedDoes DEF WriteSame, At
  <2>2. page' \in [Frames -> Page]
    BY <1>14, Got, Written, RecordWritten DEF WriteSame, At, HeldPc, WritePc
  <2> QED
    BY <1>14, <2>1, <2>2, WriteSameDoes DEF WriteSame
<1>15. ASSUME NEW w \in Tasks, WriteOther(w) PROVE TypeOK'
  <2>1. page' \in [Frames -> Page]
    BY <1>15, Got, Written, RecordWritten DEF WriteOther, At, HeldPc, WritePc
  <2> QED
    BY <1>15, <2>1, WriteOtherDoes DEF WriteOther
<1>16. ASSUME NEW w \in Tasks, Relist(w) PROVE TypeOK'
  <2>1. acked' \in Times
    BY <1>16, AckedDoes DEF Relist, At
  <2>2. page' \in [Frames -> Page]
    <3>1. IsModification(w) \in BOOLEAN
      BY DEF IsModification
    <3> QED
      BY <1>16, <3>1, Got, Modifies DEF Relist, At, HeldPc
  <2>3. lru' \in Seq(Frames)
    BY <1>16, RelistListed
  <2> QED
    BY <1>16, <2>1, <2>2, <2>3, RelistDoes DEF Relist
<1>17. ASSUME NEW w \in Tasks, AllocNew(w) PROVE TypeOK'
  <2>1. page' \in [Frames -> Page]
    BY <1>17, AllocNewDoes, Working, Assigned DEF AllocNew, At, WritePc
  <2>2. lru' \in Seq(Frames)
    BY <1>17, AllocNewListed
  <2>3. count' \in 0 .. FrameMax
    BY <1>17, FrameMaxAssumption DEF AllocNew
  <2> QED
    BY <1>17, <2>1, <2>2, <2>3, AllocNewDoes DEF AllocNew
<1>18. ASSUME NEW w \in Tasks, AllocFull(w) PROVE TypeOK'
  BY <1>18, AllocFullDoes DEF AllocFull
<1>19. ASSUME NEW w \in Tasks, AllocEvict(w) PROVE TypeOK'
  <2>1. lru' \in Seq(Frames)
    BY <1>19, Shortened DEF AllocEvict, LruExact, NoTwice
  <2> QED
    BY <1>19, <2>1, AllocEvictDoes DEF AllocEvict
<1>20. ASSUME NEW w \in Tasks, Evict(w) PROVE TypeOK'
  <2>1. page' \in [Frames -> Page]
    BY <1>20, Got, Working, Assigned DEF Evict, At, HeldPc, WritePc
  <2>2. lru' \in Seq(Frames)
    BY <1>20, EvictListed
  <2> QED
    BY <1>20, <2>1, <2>2, EvictDoes DEF Evict
<1>21. ASSUME NEW w \in Tasks, Fill(w) PROVE TypeOK'
  <2>1. acked' \in Times
    BY <1>21, AckedDoes DEF Fill, At
  <2>2. page' \in [Frames -> Page]
    BY <1>21, Got, Written, RecordWritten DEF Fill, At, HeldPc, WritePc
  <2>3. task[w].page \in Slot /\ task[w].tbl \in Tables /\ task[w].key \in Keys
    BY <1>21, Got, Working DEF Fill, At, HeldPc, WritePc, Slot
  <2>4. seg' \in [Tables -> [Keys -> Slot]]
    BY <1>21, <2>3 DEF Fill
  <2>5. mixed' \in BOOLEAN
    BY <1>21 DEF Fill
  <2>6. outdated' \subseteq Tables \X Keys
    BY <1>21, <2>3 DEF Fill, Item
  <2> QED
    BY <1>21, <2>1, <2>2, <2>4, <2>5, <2>6, FillDoes DEF Fill
<1>22. CASE JournalTick
  BY <1>22 DEF JournalTick, JournalTryEnqueue
<1>23. CASE JournalBlock
  BY <1>23 DEF JournalBlock
<1>24. CASE JournalAlone
  BY <1>24 DEF JournalAlone
<1>25. CASE JournalRun
  <2>1. seg' \in [Tables -> [Keys -> Slot]]
    BY <1>25 DEF JournalRun, Slot
  <2>2. wire' \subseteq Record
    BY <1>25, JournaledRecords DEF JournalRun
  <2>3. lru' \in Seq(Frames) /\ count' \in 0 .. FrameMax
    BY <1>25, EmptySeq, FrameMaxAssumption DEF JournalRun
  <2> QED
    BY <1>25, <2>1, <2>2, <2>3 DEF JournalRun
<1>26. CASE JournalUnblock
  BY <1>26 DEF JournalUnblock
<1>27. CASE JournalEnd
  BY <1>27 DEF JournalEnd
<1>28. CASE JournalWake
  <2>1. Tail(queue) \in Seq(Tasks)
    BY <1>28, HeadTailProperties DEF JournalWake
  <2> QED
    BY <1>28, <2>1, JournalWakeDoes DEF JournalWake
<1>29. CASE SetAwaiting
  BY <1>29, SetAwaitingDoes DEF SetAwaiting
<1>30. ASSUME NEW r \in wire, LfsInsert(r) PROVE TypeOK'
  <2>1. /\ r.tbl \in Tables /\ r.key \in Keys
        /\ Newest(lfs[r.tbl][r.key], r.ts) \in Timestamps \cup {0}
    BY DEF Record, Newest, Times
  <2>2. lfs' \in Times
    BY <1>30, <2>1 DEF LfsInsert, Times
  <2> QED
    BY <1>30, <2>2 DEF LfsInsert
<1>31. CASE Requests
  <2>1. PICK w \in Tasks, t \in Tables, k \in Keys, op \in {"select", "insert"},
             ts \in Timestamps \cup {0} : Request(w, op, t, k, ts)
    BY <1>31 DEF Requests, Select, Insert
  <2>2. task' \in [Tasks -> Task]
    BY <2>1, RequestDoes
  <2> QED
    BY <2>1, <2>2 DEF Request
<1> QED
  BY <1>1, <1>2, <1>3, <1>4, <1>5, <1>6, <1>7, <1>8, <1>9, <1>10, <1>11, <1>12,
     <1>13, <1>14, <1>15, <1>16, <1>17, <1>18, <1>19, <1>20, <1>21, <1>22, <1>23,
     <1>24, <1>25, <1>26, <1>27, <1>28, <1>29, <1>30, <1>31, StepCases

-----------------------------------------------------------------------------
(* Who waits, who is inside and who holds what.                            *)

(* A task takes the mutex of its segment and pagesMtx when they are free.  *)
LEMMA WorkerDoes ==
    ASSUME TypeOK, TasksInv, NEW w \in Tasks, Main(w) \/ Read(w) \/ Write(w)
    PROVE  /\ \A u \in Tasks \ {w} : task'[u] = task[u]
           /\ task'[w].tbl = task[w].tbl
           /\ HoldsSegment(w)' => HoldsSegment(w) \/ SegmentFree(task[w].tbl)
           /\ At(w, "evict")' => At(w, "evict") \/ PagesFree
<1> DEFINE G == /\ \A u \in Tasks \ {w} : task'[u] = task[u]
                /\ task'[w].tbl = task[w].tbl
                /\ HoldsSegment(w)' => HoldsSegment(w) \/ SegmentFree(task[w].tbl)
                /\ At(w, "evict")' => At(w, "evict") \/ PagesFree
<1> USE DEF Moves, Becomes, At, HoldsSegment
<1>1. CASE GuardBlocked(w)
  BY <1>1, GuardBlockedDoes DEF GuardBlocked
<1>2. CASE GuardEnter(w)
  BY <1>2, GuardEnterDoes DEF GuardEnter
<1>3. CASE Dispatch(w)
  BY <1>3, DispatchDoes DEF Dispatch
<1>4. CASE Reschedule(w)
  BY <1>4, RescheduleDoes DEF Reschedule
<1>5. CASE ReadFind(w)
  BY <1>5, ReadFindDoes DEF ReadFind
<1>6. CASE ReadForeign(w)
  BY <1>6, ReadForeignDoes DEF ReadForeign
<1>7. CASE ReadModified(w)
  BY <1>7, ReadModifiedDoes DEF ReadModified
<1>8. CASE ReadClean(w)
  BY <1>8, ReadCleanDoes DEF ReadClean
<1>9. CASE ReadTouch(w)
  BY <1>9, ReadTouchDoes DEF ReadTouch
<1>10. CASE LfsSelect(w)
  BY <1>10, LfsSelectDoes DEF LfsSelect
<1>11. CASE WriteFind(w)
  BY <1>11, WriteFindDoes DEF WriteFind
<1>12. CASE WriteForeign(w)
  BY <1>12, WriteForeignDoes DEF WriteForeign
<1>13. CASE WriteOlder(w)
  BY <1>13, WriteOlderDoes DEF WriteOlder
<1>14. CASE WriteSame(w)
  BY <1>14, WriteSameDoes DEF WriteSame
<1>15. CASE WriteOther(w)
  BY <1>15, WriteOtherDoes DEF WriteOther
<1>16. CASE Relist(w)
  BY <1>16, RelistDoes DEF Relist
<1>17. CASE AllocNew(w)
  BY <1>17, AllocNewDoes DEF AllocNew
<1>18. CASE AllocFull(w)
  BY <1>18, AllocFullDoes DEF AllocFull
<1>19. CASE AllocEvict(w)
  BY <1>19, AllocEvictDoes DEF AllocEvict
<1>20. CASE Evict(w)
  BY <1>20, EvictDoes DEF Evict
<1>21. CASE Fill(w)
  BY <1>21, FillDoes DEF Fill
<1> QED
  <2> HIDE DEF G
  <2> QED
    BY <1>1, <1>2, <1>3, <1>4, <1>5, <1>6, <1>7, <1>8, <1>9, <1>10, <1>11, <1>12,
       <1>13, <1>14, <1>15, <1>16, <1>17, <1>18, <1>19, <1>20, <1>21 DEF Main,
       Read, Write

(* What a handler does, it does inside the guard, and leaves the journal   *)
(* alone.                                                                  *)
LEMMA HandlersInside ==
    ASSUME NEW w \in Tasks, Read(w) \/ Write(w)
    PROVE  /\ task[w].pc \notin Outside
           /\ UNCHANGED <<pushing, journalVars>>
<1>1. task[w].pc \notin Outside
  BY DEF Read, Write, ReadFind, ReadForeign, ReadModified, ReadClean, ReadTouch,
     LfsSelect, WriteFind, WriteForeign, WriteOlder, WriteSame, WriteOther,
     Relist, AllocNew, AllocFull, AllocEvict, Evict, Fill, At, Outside
<1>2. UNCHANGED <<pushing, journalVars>>
  BY DEF Read, Write, ReadFind, ReadForeign, ReadModified, ReadClean, ReadTouch,
     LfsSelect, WriteFind, WriteForeign, WriteOlder, WriteSame, WriteOther,
     Relist, AllocNew, AllocFull, AllocEvict, Evict, Fill, Assign
<1> QED
  BY <1>1, <1>2

LEMMA HoldersStep ==
    ASSUME TypeOK, TasksInv, QueueInv, SegmentsHeld, OneEviction, Next
    PROVE  SegmentsHeld' /\ OneEviction'
<1>1. ASSUME NEW w \in Tasks, Main(w) \/ Read(w) \/ Write(w)
      PROVE  SegmentsHeld' /\ OneEviction'
  <2>1. /\ \A u \in Tasks \ {w} : task'[u] = task[u]
        /\ task'[w].tbl = task[w].tbl
        /\ HoldsSegment(w)' => HoldsSegment(w) \/ SegmentFree(task[w].tbl)
        /\ At(w, "evict")' => At(w, "evict") \/ PagesFree
    BY <1>1, WorkerDoes
  <2>2. SegmentsHeld'
    BY <2>1 DEF SegmentsHeld, HoldsSegment, SegmentFree
  <2>3. OneEviction'
    BY <2>1 DEF OneEviction, At, PagesFree
  <2> QED
    BY <2>2, <2>3
<1>2. ASSUME NEW w \in Tasks, \A u \in Tasks \ {w} : task'[u] = task[u],
             task'[w].pc \in Outside
      PROVE  SegmentsHeld' /\ OneEviction'
  BY <1>2 DEF SegmentsHeld, OneEviction, HoldsSegment, At, Outside
<1>3. CASE Requests
  BY <1>2, <1>3, RequestDoes DEF Requests, Select, Insert, Outside
<1>4. CASE SetAwaiting \/ JournalWake
  BY <1>2, <1>4, SetAwaitingDoes, JournalWakeDoes DEF Moves, Becomes, Outside
<1>5. CASE UNCHANGED task
  BY <1>5 DEF SegmentsHeld, OneEviction, HoldsSegment, At
<1> QED
  BY <1>1, <1>3, <1>4, <1>5 DEF Next, Journal, JournalTick, JournalBlock,
     JournalAlone,
     JournalRun, JournalUnblock, JournalEnd, LfsInsert

LEMMA QueueKept ==
    ASSUME QueueInv, TypeOK, UNCHANGED <<queue, pushing>>,
           \A u \in Tasks : u \in Members(queue) \cup {pushing} => task'[u].pc = task[u].pc
    PROVE  QueueInv'
<1>1. \A i \in DOMAIN queue : queue[i] \in Tasks /\ queue[i] \in Members(queue)
  BY LenProperties DEF TypeOK, Members
<1> QED
  BY <1>1 DEF QueueInv, TypeOK

LEMMA QueueStep ==
    ASSUME TypeOK, TasksInv, QueueInv, Next
    PROVE  QueueInv'
<1>0. /\ queue \in Seq(Tasks)
      /\ \A u \in Members(queue) : u \in Tasks /\ task[u].pc \in {"pushed", "awaiting"}
      /\ pushing # None => pushing \in Tasks /\ task[pushing].pc \in {"pushed", "new"}
  BY LenProperties DEF TypeOK, QueueInv, Members
<1>1. ASSUME NEW w \in Tasks, Read(w) \/ Write(w) PROVE QueueInv'
  <2>1. \A u \in Tasks \ {w} : task'[u] = task[u]
    BY <1>1, WorkerDoes
  <2>2. w \notin Members(queue) \cup {pushing} /\ UNCHANGED <<queue, pushing>>
    BY <1>0, <1>1, HandlersInside, NoneAssumption DEF Outside, journalVars
  <2> QED
    BY <2>1, <2>2, QueueKept
<1>2. ASSUME NEW w \in Tasks, GuardBlocked(w) \/ GuardEnter(w) \/ Dispatch(w) PROVE QueueInv'
  <2>1. \A u \in Tasks \ {w} : task'[u] = task[u]
    BY <1>2, WorkerDoes DEF Main
  <2>2. w \notin Members(queue) \cup {pushing} /\ UNCHANGED <<queue, pushing>>
    BY <1>0, <1>2, NoneAssumption DEF GuardBlocked, GuardEnter, Dispatch, At,
       journalVars
  <2> QED
    BY <2>1, <2>2, QueueKept
<1>3. ASSUME NEW w \in Tasks, Reschedule(w) PROVE QueueInv'
  <2>1. /\ \A u \in Tasks \ {w} : task'[u] = task[u]
        /\ task'[w].pc = "pushed" /\ task[w].pc = "reschedule"
    BY <1>3, RescheduleDoes DEF Moves, Becomes, Reschedule, At
  <2>2. queue' = Append(queue, w) /\ pushing' = w /\ w \notin Members(queue)
    BY <1>0, <1>3, <2>1 DEF Reschedule
  <2>3. NoTwice(queue') /\ Members(queue') \subseteq Members(queue) \cup {w}
    BY <1>0, <2>2, Enqueued DEF QueueInv
  <2>4. \A i \in DOMAIN queue' : task'[queue'[i]].pc \in {"pushed", "awaiting"}
    BY <1>0, <2>1, <2>3 DEF Members
  <2> QED
    BY <2>1, <2>2, <2>3, <2>4 DEF QueueInv
<1>4. CASE Requests
  <2>1. PICK w \in Tasks, t \in Tables, k \in Keys, op \in {"select", "insert"},
             ts \in Timestamps \cup {0} : Request(w, op, t, k, ts)
    BY <1>4 DEF Requests, Select, Insert
  <2>2. \A u \in Tasks \ {w} : task'[u] = task[u]
    BY <2>1, RequestDoes
  <2>3. w \notin Members(queue) \cup {pushing} /\ UNCHANGED <<queue, pushing>>
    BY <1>0, <2>1, NoneAssumption DEF Request, journalVars
  <2> QED
    BY <2>2, <2>3, QueueKept
<1>5. CASE SetAwaiting
  <2>1. /\ \A u \in Tasks \ {pushing} : task'[u] = task[u]
        /\ task'[pushing].pc = "awaiting"
    BY <1>5, SetAwaitingDoes DEF Moves, Becomes
  <2>2. queue' = queue /\ pushing' = None
    BY <1>5 DEF SetAwaiting, journalVars
  <2>3. \A u \in Members(queue) : task'[u].pc \in {"pushed", "awaiting"}
    BY <1>0, <2>1
  <2> QED
    BY <2>2, <2>3 DEF QueueInv, Members
<1>6. CASE JournalWake
  <2> DEFINE h == Head(queue)
  <2>1. /\ h \in Tasks /\ task'[h].pc = "new"
        /\ \A u \in Tasks \ {h} : task'[u] = task[u]
    BY <1>6, JournalWakeDoes DEF Moves, Becomes
  <2>2. queue' = Tail(queue) /\ pushing' = pushing /\ queue # <<>>
    BY <1>6 DEF JournalWake
  <2>3. NoTwice(queue') /\ Members(queue') \subseteq Members(queue) \ {h}
    BY <1>0, <2>2, Dequeued DEF QueueInv
  <2>4. \A u \in Members(queue') : task'[u].pc \in {"pushed", "awaiting"}
    BY <1>0, <2>1, <2>3
  <2>5. pushing' # None => task'[pushing'].pc \in {"pushed", "new"}
    BY <1>0, <2>1, <2>2
  <2> QED
    BY <2>3, <2>4, <2>5 DEF QueueInv, Members
<1>7. CASE UNCHANGED <<task, queue, pushing>>
  BY <1>7 DEF QueueInv
<1> QED
  BY <1>1, <1>2, <1>3, <1>4, <1>5, <1>6, <1>7 DEF Next, Journal, Main, JournalTick,
     JournalBlock, JournalAlone, JournalRun, JournalUnblock, JournalEnd, LfsInsert, journalVars

LEMMA JournalStep ==
    ASSUME TypeOK, TasksInv, QueueInv, JournalInv, Next
    PROVE  JournalInv'
<1>1. ASSUME NEW w \in Tasks, Read(w) \/ Write(w) PROVE JournalInv'
  <2>1. w \in Inside /\ UNCHANGED journalVars
    BY <1>1, HandlersInside DEF Inside
  <2> QED
    BY <2>1 DEF JournalInv, journalVars
<1>2. ASSUME NEW w \in Tasks, \A u \in Tasks \ {w} : task'[u] = task[u],
             task'[w].pc \in Outside, UNCHANGED <<blocked, journaling, jpc>>
      PROVE  JournalInv'
  BY <1>2 DEF JournalInv, Inside
<1>3. ASSUME NEW w \in Tasks, GuardBlocked(w) \/ Dispatch(w) PROVE JournalInv'
  BY <1>2, <1>3, GuardBlockedDoes, DispatchDoes
     DEF Moves, Becomes, Outside, GuardBlocked, Dispatch, journalVars
<1>4. ASSUME NEW w \in Tasks, GuardEnter(w) PROVE JournalInv'
  <2>1. ~blocked /\ UNCHANGED journalVars
    BY <1>4 DEF GuardEnter
  <2> QED
    BY <2>1 DEF JournalInv, journalVars
<1>5. ASSUME NEW w \in Tasks, Reschedule(w) PROVE JournalInv'
  <2>1. /\ \A u \in Tasks \ {w} : task'[u] = task[u]
        /\ task'[w].pc = "pushed"
    BY <1>5, RescheduleDoes DEF Moves, Becomes
  <2>2. JournalTryEnqueue \/ UNCHANGED <<journaling, jpc>>
    BY <1>5 DEF Reschedule
  <2> QED
    BY <1>5, <2>1, <2>2 DEF JournalInv, JournalTryEnqueue, Reschedule, Inside,
       Outside
<1>6. CASE Requests
  <2>1. PICK w \in Tasks, t \in Tables, k \in Keys, op \in {"select", "insert"},
             ts \in Timestamps \cup {0} : Request(w, op, t, k, ts)
    BY <1>6 DEF Requests, Select, Insert
  <2> QED
    BY <1>2, <2>1, RequestDoes DEF Request, journalVars, Outside
<1>7. CASE SetAwaiting \/ JournalWake
  BY <1>2, <1>7, SetAwaitingDoes, JournalWakeDoes
     DEF Moves, Becomes, Outside, SetAwaiting, JournalWake, journalVars
<1>8. CASE JournalTick \/ JournalBlock \/ JournalAlone \/ JournalRun \/ JournalUnblock
           \/ JournalEnd
  BY <1>8 DEF JournalInv, JournalTick, JournalTryEnqueue, JournalBlock,
     JournalAlone,
     JournalRun, JournalUnblock, JournalEnd, Inside
<1>9. ASSUME NEW r \in wire, LfsInsert(r) PROVE JournalInv'
  BY <1>9 DEF LfsInsert, JournalInv, journalVars, Inside
<1> QED
  BY <1>1, <1>3, <1>4, <1>5, <1>6, <1>7, <1>8, <1>9 DEF Next, Journal, Main

-----------------------------------------------------------------------------
(* Pages.                                                                  *)

LEMMA PagesOthers ==
    ASSUME TypeOK, TasksInv, SegmentsHeld, PagesInv,
           NEW w \in Tasks, NEW u \in Tasks \ {w}, task'[u] = task[u], NEW p,
           \/ seg' = seg
           \/ HoldsSegment(w) /\ \A t \in Tables \ {task[w].tbl} : seg'[t] = seg[t],
           count' \in Nat, count <= count',
           \A f \in Frames : f < count => f = p \/ page'[f] = page[f],
           p \in Frames /\ p < count =>
              /\ \/ page'[p].parent = page[p].parent /\ page'[p].modified = page[p].modified
                 \/ HoldsSegment(w) /\ page'[p].parent = task[w].tbl
              /\ \/ CanWrite(p)
                 \/ HoldsSegment(w) /\ page[p].parent = task[w].tbl
    PROVE  TaskPage(u)'
<1> DEFINE q == task[u].page
<1>1. TaskPage(u) /\ count \in Nat
  BY DEF PagesInv, TypeOK
<1>2. task[u].pc \in HeldPc => q \in Frames /\ q < count'
  BY <1>1 DEF TaskPage, TasksInv, Frames
<1>3. HoldsSegment(u) => /\ task[u].tbl \in Tables /\ Found(u) \in Slot /\ Found(u)' = Found(u)
                         /\ (HoldsSegment(w) => task[u].tbl # task[w].tbl)
                         /\ (Found(u) # None => Found(u) \in Frames /\ Found(u) < count)
  <2> SUFFICES ASSUME HoldsSegment(u)
               PROVE  /\ task[u].tbl \in Tables /\ Found(u) \in Slot /\ Found(u)' = Found(u)
                      /\ (HoldsSegment(w) => task[u].tbl # task[w].tbl)
                      /\ (Found(u) # None => Found(u) \in Frames /\ Found(u) < count)
    OBVIOUS
  <2>1. task[u].tbl \in Tables /\ task[u].key \in Keys /\ Found(u) \in Slot
    BY Working DEF HoldsSegment, ReadPc, WritePc
  <2>2. HoldsSegment(w) => task[u].tbl # task[w].tbl
    BY DEF SegmentsHeld
  <2>3. Found(u)' = Found(u)
    BY <2>1, <2>2 DEF Found
  <2>4. Found(u) # None => Found(u) \in Frames /\ Found(u) < count
    BY <2>1 DEF Slot, PagesInv, Found
  <2> QED
    BY <2>1, <2>2, <2>3, <2>4
<1>4. task[u].pc \in {"readPage", "touch", "writePage", "relist"} => Found(u)' = q
  BY <1>1, <1>3 DEF TaskPage, HoldsSegment
<1>5. At(u, "touch") \/ At(u, "relist") => page'[q] = page[q]
  <2> SUFFICES ASSUME At(u, "touch") \/ At(u, "relist"), page'[q] # page[q] PROVE FALSE
    OBVIOUS
  <2>1. q \in Frames /\ q < count /\ Owned(u) /\ HoldsSegment(u)
    BY <1>1, <1>2 DEF TaskPage, At, HeldPc, HoldsSegment
  <2>2. q = p
    BY <2>1
  <2>3. ~CanWrite(p)
    BY <2>2 DEF CanWrite, CanRead, HoldsRead, HoldsWrite, At
  <2> QED
    BY <1>3, <2>1, <2>2, <2>3 DEF Owned
<1>6. /\ At(u, "touch") => Owned(u)' /\ ~page'[q].modified
      /\ At(u, "relist") => /\ Owned(u)' /\ page'[q].rec = Rec(u)'
                            /\ page'[q].modified # IsModification(u)'
  BY <1>1, <1>5 DEF TaskPage, Owned, Rec, IsModification
<1>7. ASSUME HoldsSegment(u), Found(u) # None, page[Found(u)].parent # task[u].tbl
      PROVE  page'[Found(u)].parent # task[u].tbl
  BY <1>3, <1>7
<1>8. At(u, "fill") /\ Owned(u)' => page'[q].modified = IsModification(u)'
  <2> SUFFICES ASSUME At(u, "fill"), page'[q].parent = task[u].tbl
               PROVE  page'[q].modified = IsModification(u)
    BY DEF Owned, IsModification
  <2>1. q \in Frames /\ q < count /\ HoldsSegment(u)
    BY <1>1, <1>2 DEF TaskPage, At, HeldPc, HoldsSegment
  <2>2. page'[q].parent = page[q].parent /\ page'[q].modified = page[q].modified
    BY <1>3, <2>1
  <2> QED
    BY <1>1, <2>2 DEF TaskPage, Owned
<1> QED
  BY <1>1, <1>2, <1>3, <1>4, <1>6, <1>7, <1>8 DEF TaskPage, At, HoldsSegment

(* Where a task stands that has nothing to do with a page.                 *)
Away == Pc \ {"readPage", "touch", "writePage", "relist", "alloc", "evict", "fill"}

LEMMA AwayPage ==
    ASSUME NEW w \in Tasks, task'[w].pc \in Away
    PROVE  TaskPage(w)'
  BY DEF Away, TaskPage, HeldPc, At

LEMMA PagesQuiet ==
    ASSUME TypeOK, TasksInv, SegmentsHeld, PagesInv, NEW w \in Tasks,
           \A u \in Tasks \ {w} : task'[u] = task[u], UNCHANGED <<seg, page, count>>,
           TaskPage(w)'
    PROVE  PagesInv'
<1>1. count \in Nat
  BY DEF TypeOK
<1>2. ASSUME NEW u \in Tasks \ {w} PROVE TaskPage(u)'
  BY <1>1, PagesOthers
<1> QED
  BY <1>2 DEF PagesInv

(* A task's own page after each of its steps.                              *)
LEMMA QuietPage ==
    ASSUME TypeOK, TasksInv, LruExact, PagesInv, NEW w \in Tasks,
           \/ ReadFind(w) \/ ReadClean(w) \/ WriteFind(w) \/ WriteForeign(w)
           \/ AllocEvict(w)
    PROVE  TaskPage(w)'
<1> USE DEF Moves, Becomes
<1>1. TaskPage(w)
  BY DEF PagesInv
<1>2. /\ task[w].tbl \in Tables /\ task[w].key \in Keys
      /\ Found(w) # None => Found(w) < count
  BY Working DEF ReadFind, ReadClean, WriteFind, WriteForeign, AllocEvict, At,
     ReadPc, WritePc,
     PagesInv, Found
<1>3. CASE ReadFind(w)
  BY <1>2, <1>3, ReadFindDoes DEF ReadFind, memVars, TaskPage, Found, At, HeldPc
<1>4. CASE ReadClean(w)
  BY <1>1, <1>2, <1>4, ReadCleanDoes DEF ReadClean, memVars, TaskPage, Found,
     Owned, At, HeldPc
<1>5. CASE WriteFind(w)
  BY <1>2, <1>5, WriteFindDoes DEF WriteFind, memVars, TaskPage, Found, At, HeldPc
<1>6. CASE WriteForeign(w)
  BY <1>1, <1>2, <1>6, WriteForeignDoes DEF WriteForeign, memVars, TaskPage,
     Found, Owned, At, HeldPc
<1>7. CASE AllocEvict(w)
  <2>1. lru[Len(lru)] < count
    BY <1>7, VictimListed DEF LruExact
  <2> QED
    BY <1>1, <2>1, <1>7, AllocEvictDoes DEF AllocEvict, TaskPage, Found, At, HeldPc
<1> QED
  BY <1>3, <1>4, <1>5, <1>6, <1>7

LEMMA QuietPages ==
    ASSUME TypeOK, TasksInv, SegmentsHeld, LruExact, PagesInv, NEW w \in Tasks,
           \/ GuardBlocked(w) \/ GuardEnter(w) \/ Dispatch(w) \/ Reschedule(w)
           \/ ReadFind(w) \/ ReadForeign(w) \/ ReadModified(w) \/ ReadClean(w)
           \/ ReadTouch(w) \/ LfsSelect(w) \/ WriteFind(w) \/ WriteForeign(w)
           \/ WriteOlder(w) \/ AllocFull(w) \/ AllocEvict(w)
    PROVE  PagesInv'
<1>1. \A u \in Tasks \ {w} : task'[u] = task[u]
  BY WorkerDoes DEF Main, Read, Write
<1>2. UNCHANGED <<seg, page, count>>
  BY DEF GuardBlocked, GuardEnter, Dispatch, Reschedule, ReadFind, ReadForeign,
     ReadModified, ReadClean, ReadTouch, LfsSelect, WriteFind, WriteForeign,
     WriteOlder, AllocFull, AllocEvict, memVars
<1>3. CASE \/ GuardBlocked(w) \/ GuardEnter(w) \/ Dispatch(w) \/ Reschedule(w)
           \/ ReadForeign(w) \/ ReadModified(w) \/ ReadTouch(w) \/ LfsSelect(w)
           \/ WriteOlder(w) \/ AllocFull(w)
  <2>1. task'[w].pc \in Away
    BY <1>3, GuardBlockedDoes, GuardEnterDoes, DispatchDoes, RescheduleDoes,
       ReadForeignDoes,
       ReadModifiedDoes, ReadTouchDoes, LfsSelectDoes, WriteOlderDoes, AllocFullDoes
       DEF Moves, Becomes, Away, Pc, Outside, ReadPc, WritePc
  <2> QED
    BY <1>1, <1>2, <2>1, AwayPage, PagesQuiet
<1>4. CASE ReadFind(w) \/ ReadClean(w) \/ WriteFind(w) \/ WriteForeign(w) \/ AllocEvict(w)
  BY <1>1, <1>2, <1>4, QuietPage, PagesQuiet
<1> QED
  BY <1>3, <1>4

(* The steps that write a page or give it to a segment.                    *)
LEMMA SegmentPages ==
    ASSUME TypeOK, PagesInv, count' \in Nat, count <= count',
           NEW p, p \in Frames => page'[p].rec = page[p].rec \/ page'[p].rec \in Record,
           \A f \in Frames : f < count => f = p \/ page'[f] = page[f],
           \A t \in Tables, k \in Keys :
              seg'[t][k] = seg[t][k] \/ (seg'[t][k] = p /\ p < count /\ p \in Frames
                                           /\ page'[p].rec \in Record)
    PROVE  \A t \in Tables, k \in Keys : seg'[t][k] # None =>
              seg'[t][k] < count' /\ page'[seg'[t][k]].rec # None
<1> SUFFICES ASSUME NEW t \in Tables, NEW k \in Keys, seg'[t][k] # None
             PROVE  seg'[t][k] < count' /\ page'[seg'[t][k]].rec # None
  OBVIOUS
<1>1. count \in Nat /\ None \notin Record
  BY NoneRecordAssumption DEF TypeOK
<1>2. CASE seg'[t][k] = seg[t][k]
  <2>1. seg[t][k] \in Frames /\ seg[t][k] < count /\ page[seg[t][k]].rec # None
    BY <1>2 DEF TypeOK, Slot, PagesInv
  <2> QED
    BY <1>1, <1>2, <2>1 DEF Frames
<1>3. CASE seg'[t][k] # seg[t][k]
  BY <1>1, <1>3 DEF Frames
<1> QED
  BY <1>2, <1>3

LEMMA RecPages ==
    ASSUME TypeOK, TasksInv, SegmentsHeld, PagesInv, NEW w \in Tasks,
           \/ WriteSame(w) \/ WriteOther(w) \/ Fill(w)
    PROVE  PagesInv'
<1> DEFINE p == task[w].page
<1>1. /\ p \in Frames /\ p < count /\ Rec(w) \in Record /\ TaskPage(w)
      /\ task[w].tbl \in Tables /\ task[w].key \in Keys
      /\ page[p].modified \in BOOLEAN /\ IsModification(w) \in BOOLEAN
      /\ count \in Nat /\ HoldsSegment(w)
  <2>1. task[w].pc \in {"writePage", "fill"}
    BY DEF WriteSame, WriteOther, Fill, At
  <2>2. p \in Frames /\ page[p].modified \in BOOLEAN /\ Rec(w) \in Record
    BY <2>1, Got, Written DEF HeldPc, WritePc
  <2>3. TaskPage(w) /\ p < count /\ HoldsSegment(w)
    BY <2>1 DEF PagesInv, TaskPage, HeldPc, HoldsSegment
  <2>4. task[w].tbl \in Tables /\ task[w].key \in Keys
    BY <2>1, Working DEF WritePc
  <2> QED
    BY <2>2, <2>3, <2>4 DEF IsModification, TypeOK
<1>2. page' = [page EXCEPT ![p].rec = Rec(w)] /\ count' = count /\ CanWrite(p)
  BY DEF WriteSame, WriteOther, Fill
<1>3. /\ \A f \in Frames \ {p} : page'[f] = page[f]
      /\ page'[p].rec = Rec(w) /\ page'[p].parent = page[p].parent
      /\ page'[p].modified = page[p].modified
  BY <1>1, <1>2, RecordWritten DEF TypeOK
<1>4. \A u \in Tasks \ {w} : task'[u] = task[u]
  BY WorkerDoes DEF Write
<1>5. seg' = seg \/ seg' = [seg EXCEPT ![task[w].tbl][task[w].key] = p]
  BY DEF WriteSame, WriteOther, Fill
<1>6. \A t \in Tables, k \in Keys :
         seg'[t][k] = seg[t][k] \/ (seg'[t][k] = p /\ t = task[w].tbl)
  <2> DEFINE t0 == task[w].tbl
             k0 == task[w].key
  <2>1. /\ seg \in [Tables -> [Keys -> Slot]] /\ t0 \in Tables /\ k0 \in Keys
        /\ seg' = seg \/ seg' = [seg EXCEPT ![t0][k0] = p]
    BY <1>1, <1>5 DEF TypeOK
  <2> HIDE DEF t0, k0, p
  <2>2. \A t \in Tables, k \in Keys :
           seg'[t][k] = seg[t][k] \/ (seg'[t][k] = p /\ t = t0)
    BY <2>1
  <2> QED
    BY <2>2 DEF t0
<1>7. seg' = seg \/ \A t \in Tables \ {task[w].tbl} : seg'[t] = seg[t]
  BY <1>5 DEF TypeOK
<1> HIDE DEF p
<1>8. \A t \in Tables, k \in Keys : seg'[t][k] # None =>
         seg'[t][k] < count' /\ page'[seg'[t][k]].rec # None
  BY <1>1, <1>2, <1>3, <1>6, SegmentPages
<1>9. ASSUME NEW u \in Tasks \ {w} PROVE TaskPage(u)'
  BY <1>1, <1>2, <1>3, <1>4, <1>7, PagesOthers
<1>10. TaskPage(w)'
  <2>1. CASE WriteSame(w) \/ Fill(w)
    <3>1. task'[w].pc \in Away
      BY <2>1, WriteSameDoes, FillDoes DEF Moves, Becomes, Away, Pc, Outside,
         ReadPc, WritePc
    <3> QED
      BY <3>1, AwayPage
  <2>2. CASE WriteOther(w)
    <3>1. /\ task'[w].pc = "relist" /\ task'[w].page = p /\ task'[w].tbl = task[w].tbl
          /\ task'[w].key = task[w].key /\ task'[w].op = task[w].op
          /\ task'[w].ts = task[w].ts /\ seg' = seg
          /\ page[p].modified # IsModification(w) /\ Owned(w) /\ task[w].pc = "writePage"
      BY <2>2, WriteOtherDoes DEF p, Moves, Becomes, WriteOther, At
    <3>2. Found(w) = p
      BY <1>1, <3>1 DEF TaskPage, p
    <3> QED
      BY <1>1, <1>2, <1>3, <3>1, <3>2 DEF TaskPage, Found, Owned, Rec,
         IsModification, At, p
  <2> QED
    BY <2>1, <2>2
<1> QED
  BY <1>8, <1>9, <1>10 DEF PagesInv

LEMMA RelistPages ==
    ASSUME TypeOK, TasksInv, SegmentsHeld, PagesInv, NEW w \in Tasks, Relist(w)
    PROVE  PagesInv'
<1> DEFINE p == task[w].page
<1>1. /\ p \in Frames /\ p < count /\ page[p].parent = task[w].tbl
      /\ IsModification(w) \in BOOLEAN /\ count \in Nat /\ HoldsSegment(w)
  BY Got DEF Relist, At, HeldPc, PagesInv, TaskPage, Owned, IsModification,
     TypeOK, HoldsSegment
<1>2. UNCHANGED <<seg, count>>
  BY DEF Relist
<1>3. /\ \A f \in Frames \ {p} : page'[f] = page[f]
      /\ page'[p].rec = page[p].rec /\ page'[p].parent = page[p].parent
  BY <1>1, Modifies DEF Relist, TypeOK
<1>4. \A u \in Tasks \ {w} : task'[u] = task[u]
  BY WorkerDoes DEF Write
<1> HIDE DEF p
<1>5. \A t \in Tables, k \in Keys : seg'[t][k] # None =>
         seg'[t][k] < count' /\ page'[seg'[t][k]].rec # None
  BY <1>1, <1>2, <1>3, SegmentPages
<1>6. ASSUME NEW u \in Tasks \ {w} PROVE TaskPage(u)'
  BY <1>1, <1>2, <1>3, <1>4, PagesOthers
<1>7. TaskPage(w)'
  <2>1. task'[w].pc \in Away
    BY RelistDoes DEF Becomes, Away, Pc, Outside, ReadPc, WritePc
  <2> QED
    BY <2>1, AwayPage
<1> QED
  BY <1>5, <1>6, <1>7 DEF PagesInv

LEMMA AssignPages ==
    ASSUME TypeOK, TasksInv, SegmentsHeld, PagesInv, NEW w \in Tasks,
           AllocNew(w) \/ Evict(w)
    PROVE  PagesInv'
<1> DEFINE p == IF AllocNew(w) THEN count ELSE task[w].page
<1>1. /\ p \in Frames /\ Becomes(w, "fill", task[w].ts, p, task[w].reply)
      /\ task[w].tbl \in Tables /\ task[w].key \in Keys /\ HoldsSegment(w)
      /\ task[w].pc \in {"alloc", "evict"}
  <2>1. CASE AllocNew(w)
    BY <2>1, AllocNewDoes, Working DEF AllocNew, At, WritePc, HoldsSegment
  <2>2. CASE ~AllocNew(w)
    BY <2>2, EvictDoes, Got, Working DEF Evict, At, WritePc, HeldPc, HoldsSegment
  <2> QED
    BY <2>1, <2>2
<1>2. /\ count \in Nat /\ count' \in Nat /\ count <= count' /\ p < count' /\ seg' = seg
      /\ p < count => CanWrite(p)
      /\ TaskPage(w)
  BY <1>1 DEF AllocNew, Evict, TypeOK, PagesInv, TaskPage, At, HeldPc
<1>3. /\ \A f \in Frames \ {p} : page'[f] = page[f]
      /\ page'[p].rec = page[p].rec /\ page'[p].parent = task[w].tbl
      /\ page'[p].modified = IsModification(w)
  <2>1. Assign(w, p, lru)
    BY DEF AllocNew, Evict
  <2> QED
    BY <1>1, <2>1, Assigned DEF TypeOK
<1>4. \A u \in Tasks \ {w} : task'[u] = task[u]
  BY WorkerDoes DEF Write
<1> HIDE DEF p
<1>5. \A t \in Tables, k \in Keys : seg'[t][k] # None =>
         seg'[t][k] < count' /\ page'[seg'[t][k]].rec # None
  BY <1>1, <1>2, <1>3, SegmentPages
<1>6. ASSUME NEW u \in Tasks \ {w} PROVE TaskPage(u)'
  BY <1>1, <1>2, <1>3, <1>4, PagesOthers
<1>7. TaskPage(w)'
  <2>1. /\ task'[w].pc = "fill" /\ task'[w].page = p /\ task'[w].tbl = task[w].tbl
        /\ task'[w].key = task[w].key /\ task'[w].op = task[w].op
    BY <1>1 DEF Becomes
  <2>2. Found(w)' = Found(w) /\ Found(w) \in Slot
    BY <1>1, <1>2, <2>1, FoundSlot DEF Found
  <2>3. Found(w) \notin {None, p} => page'[Found(w)].parent # task[w].tbl
    BY <1>1, <1>2, <1>3, <2>2 DEF TaskPage, Slot
  <2>4. page'[p].modified = IsModification(w)'
    BY <1>3, <2>1 DEF IsModification
  <2> QED
    BY <1>2, <2>1, <2>2, <2>3, <2>4 DEF TaskPage, At
<1> QED
  BY <1>5, <1>6, <1>7 DEF PagesInv

LEMMA PagesStep ==
    ASSUME TypeOK, TasksInv, QueueInv, JournalInv, SegmentsHeld, LruExact, PagesInv, Next
    PROVE  PagesInv'
<1>1. ASSUME NEW w \in Tasks, Main(w) \/ Read(w) \/ Write(w) PROVE PagesInv'
  BY <1>1, QuietPages, RecPages, RelistPages, AssignPages DEF Main, Read, Write
<1>2. ASSUME NEW w \in Tasks, \A u \in Tasks \ {w} : task'[u] = task[u],
             task'[w].pc \in Away, UNCHANGED <<seg, page, count>>
      PROVE  PagesInv'
  BY <1>2, AwayPage, PagesQuiet
<1>3. CASE Requests
  <2>1. PICK w \in Tasks, t \in Tables, k \in Keys, op \in {"select", "insert"},
             ts \in Timestamps \cup {0} : Request(w, op, t, k, ts)
    BY <1>3 DEF Requests, Select, Insert
  <2>2. task'[w].pc \in Away /\ \A u \in Tasks \ {w} : task'[u] = task[u]
    BY <2>1, RequestDoes DEF Away, Pc, Outside
  <2> QED
    BY <1>2, <2>1, <2>2 DEF Request, memVars
<1>4. CASE SetAwaiting \/ JournalWake
  BY <1>2, <1>4, SetAwaitingDoes, JournalWakeDoes
     DEF Moves, Becomes, Away, Pc, Outside, SetAwaiting, JournalWake, memVars
<1>5. CASE JournalRun
  <2>1. \A w \in Tasks : task'[w].pc \in Away
    BY <1>5 DEF JournalRun, JournalInv, Inside, Away, Pc, Outside
  <2> QED
    BY <1>5, <2>1, AwayPage DEF PagesInv, JournalRun
<1>6. CASE UNCHANGED <<task, memVars>>
  BY <1>6 DEF PagesInv, TaskPage, memVars, At, Found, Owned, Rec, IsModification
<1> QED
  BY <1>1, <1>3, <1>4, <1>5, <1>6 DEF Next, Journal, JournalTick, JournalBlock,
     JournalAlone, JournalUnblock, JournalEnd, LfsInsert

-----------------------------------------------------------------------------
(* The LRU list.                                                           *)

Clean == {f \in Frames : f < count /\ ~page[f].modified}

LEMMA LruByParts ==
    ASSUME NoTwice(lru)', Listed' \cap Evicting' = {}, Listed' \cup Evicting' = Clean'
    PROVE  LruExact'
  BY DEF LruExact, NoTwice, Clean

LEMMA LruParts ==
    ASSUME LruExact
    PROVE  NoTwice(lru) /\ Listed \cap Evicting = {} /\ Listed \cup Evicting = Clean
  BY DEF LruExact, NoTwice, Clean

LEMMA LruKept ==
    ASSUME LruExact, NEW w \in Tasks, \A u \in Tasks \ {w} : task'[u] = task[u],
           task[w].pc # "evict", task'[w].pc # "evict", UNCHANGED <<lru, count>>,
           \A f \in Frames : page'[f].modified = page[f].modified
    PROVE  LruExact'
<1>1. Evicting' = Evicting
  BY DEF Evicting, At
<1>2. Listed' = Listed /\ Clean' = Clean
  BY DEF Listed, Clean
<1> QED
  BY <1>1, <1>2, LruParts, LruByParts DEF NoTwice

LEMMA QuietLru ==
    ASSUME TypeOK, TasksInv, LruExact, NEW w \in Tasks,
           \/ GuardBlocked(w) \/ GuardEnter(w) \/ Dispatch(w) \/ Reschedule(w)
           \/ ReadFind(w) \/ ReadForeign(w) \/ ReadModified(w) \/ ReadClean(w)
           \/ LfsSelect(w) \/ WriteFind(w) \/ WriteForeign(w) \/ WriteOlder(w)
           \/ WriteSame(w) \/ WriteOther(w) \/ AllocFull(w) \/ Fill(w)
    PROVE  LruExact'
<1>1. \A u \in Tasks \ {w} : task'[u] = task[u]
  BY WorkerDoes DEF Main, Read, Write
<1>2. UNCHANGED <<lru, count>> /\ task[w].pc # "evict"
  BY DEF GuardBlocked, GuardEnter, Dispatch, Reschedule, ReadFind, ReadForeign,
     ReadModified, ReadClean, LfsSelect, WriteFind, WriteForeign, WriteOlder,
     WriteSame, WriteOther, AllocFull, Fill, memVars, At
<1>3. task'[w].pc # "evict"
  BY GuardBlockedDoes, GuardEnterDoes, DispatchDoes, RescheduleDoes, ReadFindDoes,
     ReadForeignDoes, ReadModifiedDoes, ReadCleanDoes, LfsSelectDoes,
     WriteFindDoes, WriteForeignDoes, WriteOlderDoes, WriteSameDoes,
     WriteOtherDoes, AllocFullDoes, FillDoes
     DEF Moves, Becomes
<1>4. \A f \in Frames : page'[f].modified = page[f].modified
  <2>1. CASE WriteSame(w) \/ WriteOther(w) \/ Fill(w)
    <3>1. /\ task[w].page \in Frames /\ Rec(w) \in Record
          /\ page' = [page EXCEPT ![task[w].page].rec = Rec(w)]
      BY <2>1, Got, Written DEF WriteSame, WriteOther, Fill, At, HeldPc, WritePc
    <3> QED
      BY <3>1, RecordWritten DEF TypeOK
  <2>2. CASE page' = page
    BY <2>2
  <2> QED
    BY <2>1, <2>2 DEF GuardBlocked, GuardEnter, Dispatch, Reschedule, ReadFind,
       ReadForeign, ReadModified, ReadClean, LfsSelect, WriteFind, WriteForeign,
       WriteOlder, AllocFull, memVars
<1> QED
  BY <1>1, <1>2, <1>3, <1>4, LruKept

LEMMA TouchLru ==
    ASSUME TypeOK, TasksInv, PagesInv, LruExact, NEW w \in Tasks, ReadTouch(w)
    PROVE  LruExact'
<1>1. NoTwice(lru') /\ Listed' = Listed \cup {task[w].page}
  BY TouchListed
<1>2. task[w].page \in Clean
  BY Got DEF ReadTouch, At, HeldPc, PagesInv, TaskPage, Clean
<1>3. Evicting = {} /\ Evicting' = {} /\ Clean' = Clean
  <2>1. /\ \A u \in Tasks \ {w} : task'[u] = task[u]
        /\ task'[w].pc = "done"
    BY ReadTouchDoes DEF Becomes
  <2> QED
    BY <2>1 DEF Evicting, At, ReadTouch, PagesFree, Clean
<1> QED
  BY <1>1, <1>2, <1>3, LruParts, LruByParts

LEMMA RelistLru ==
    ASSUME TypeOK, TasksInv, PagesInv, LruExact, NEW w \in Tasks, Relist(w)
    PROVE  LruExact'
<1> DEFINE p == task[w].page
<1>1. /\ NoTwice(lru')
      /\ Listed' = IF IsModification(w) THEN Listed \ {p} ELSE Listed \cup {p}
  BY RelistListed
<1>2. p \in Frames /\ p < count /\ IsModification(w) \in BOOLEAN
  BY Got DEF Relist, At, HeldPc, PagesInv, TaskPage, IsModification
<1>3. Evicting = {} /\ Evicting' = {}
  <2>1. /\ \A u \in Tasks \ {w} : task'[u] = task[u]
        /\ task'[w].pc = "done"
    BY RelistDoes DEF Becomes
  <2> QED
    BY <2>1 DEF Evicting, At, Relist, PagesFree
<1>4. Clean' = IF IsModification(w) THEN Clean \ {p} ELSE Clean \cup {p}
  <2>1. /\ \A f \in Frames \ {p} : page'[f] = page[f]
        /\ page'[p].modified = IsModification(w) /\ count' = count
    BY <1>2, Modifies DEF Relist, TypeOK
  <2> QED
    BY <1>2, <2>1 DEF Clean
<1> QED
  BY <1>1, <1>3, <1>4, LruParts, LruByParts

LEMMA AllocNewLru ==
    ASSUME TypeOK, TasksInv, LruExact, NEW w \in Tasks, AllocNew(w)
    PROVE  LruExact'
<1>1. /\ NoTwice(lru')
      /\ Listed' = IF IsModification(w) THEN Listed ELSE Listed \cup {count}
  BY AllocNewListed
<1>2. Evicting = {} /\ Evicting' = {}
  <2>1. /\ \A u \in Tasks \ {w} : task'[u] = task[u]
        /\ task'[w].pc = "fill"
    BY AllocNewDoes DEF Becomes
  <2> QED
    BY <2>1 DEF Evicting, At, AllocNew, PagesFree
<1>3. Clean' = IF IsModification(w) THEN Clean ELSE Clean \cup {count}
  <2>1. /\ count \in Frames /\ count' = count + 1 /\ count \in Nat
        /\ task[w].tbl \in Tables /\ Assign(w, count, lru)
    BY AllocNewDoes, Working DEF AllocNew, TypeOK, At, WritePc
  <2>2. /\ \A f \in Frames \ {count} : page'[f] = page[f]
        /\ page'[count].modified = IsModification(w)
    BY <2>1, Assigned DEF TypeOK
  <2>3. /\ \A f \in Frames : f < count' <=> f < count \/ f = count
        /\ ~(count < count) /\ IsModification(w) \in BOOLEAN
    BY <2>1 DEF Frames, IsModification
  <2>4. \A f \in Frames : f \in Clean' <=> f \in Clean \/ (f = count /\ ~IsModification(w))
    BY <2>2, <2>3 DEF Clean
  <2>5. Clean' \subseteq Frames /\ Clean \subseteq Frames
    BY DEF Clean
  <2> QED
    BY <2>1, <2>3, <2>4, <2>5
<1> QED
  BY <1>1, <1>2, <1>3, LruParts, LruByParts

LEMMA VictimLru ==
    ASSUME TypeOK, TasksInv, LruExact, NEW w \in Tasks, AllocEvict(w)
    PROVE  LruExact'
<1> DEFINE v == lru[Len(lru)]
<1>1. NoTwice(lru') /\ v \in Listed /\ Listed' = Listed \ {v}
  BY VictimListed
<1>2. Evicting = {} /\ Evicting' = {v} /\ Clean' = Clean
  <2>1. /\ \A u \in Tasks \ {w} : task'[u] = task[u]
        /\ task'[w].pc = "evict" /\ task'[w].page = v
    BY AllocEvictDoes DEF Becomes
  <2> HIDE DEF v
  <2> QED
    BY <2>1 DEF Evicting, At, AllocEvict, PagesFree, Clean
<1> HIDE DEF v
<1> QED
  BY <1>1, <1>2, LruParts, LruByParts

LEMMA EvictLru ==
    ASSUME TypeOK, TasksInv, PagesInv, OneEviction, LruExact, NEW w \in Tasks, Evict(w)
    PROVE  LruExact'
<1> DEFINE p == task[w].page
<1>1. /\ NoTwice(lru')
      /\ Listed' = IF IsModification(w) THEN Listed ELSE Listed \cup {p}
  BY EvictListed
<1>2. Evicting = {p} /\ Evicting' = {}
  <2>1. /\ \A u \in Tasks \ {w} : task'[u] = task[u]
        /\ task'[w].pc = "fill" /\ task[w].pc = "evict"
    BY EvictDoes DEF Becomes, Evict, At
  <2> QED
    BY <2>1 DEF Evicting, At, OneEviction
<1>3. Clean' = IF IsModification(w) THEN Clean \ {p} ELSE Clean \cup {p}
  <2>1. /\ p \in Frames /\ p < count /\ count' = count
        /\ task[w].tbl \in Tables /\ Assign(w, p, lru)
    BY Got, Working DEF Evict, At, HeldPc, WritePc, PagesInv, TaskPage
  <2>2. /\ \A f \in Frames \ {p} : page'[f] = page[f]
        /\ page'[p].modified = IsModification(w)
    BY <2>1, Assigned DEF TypeOK
  <2> HIDE DEF p
  <2> QED
    BY <2>1, <2>2 DEF Clean
<1> HIDE DEF p
<1> QED
  BY <1>1, <1>2, <1>3, LruParts, LruByParts

LEMMA LruStep ==
    ASSUME TypeOK, TasksInv, QueueInv, JournalInv, OneEviction, LruExact, PagesInv, Next
    PROVE  LruExact'
<1>1. ASSUME NEW w \in Tasks, Main(w) \/ Read(w) \/ Write(w) PROVE LruExact'
  BY <1>1, QuietLru, TouchLru, RelistLru, AllocNewLru, VictimLru, EvictLru DEF
     Main, Read, Write
<1>2. ASSUME NEW w \in Tasks, \A u \in Tasks \ {w} : task'[u] = task[u],
             task[w].pc # "evict", task'[w].pc # "evict", UNCHANGED memVars
      PROVE  LruExact'
  BY <1>2, LruKept DEF memVars
<1>3. CASE Requests
  <2>1. PICK w \in Tasks, t \in Tables, k \in Keys, op \in {"select", "insert"},
             ts \in Timestamps \cup {0} : Request(w, op, t, k, ts)
    BY <1>3 DEF Requests, Select, Insert
  <2> QED
    BY <1>2, <2>1, RequestDoes DEF Request
<1>4. CASE SetAwaiting
  <2>1. task[pushing].pc # "evict"
    BY <1>4 DEF SetAwaiting, QueueInv
  <2> QED
    BY <1>2, <1>4, <2>1, SetAwaitingDoes DEF Moves, Becomes, SetAwaiting
<1>5. CASE JournalWake
  <2>1. Head(queue) \in Members(queue)
    BY <1>5, Dequeued DEF TypeOK, QueueInv, JournalWake
  <2>2. task[Head(queue)].pc # "evict"
    BY <2>1 DEF QueueInv, Members
  <2> QED
    BY <1>2, <1>5, <2>2, JournalWakeDoes DEF Moves, Becomes, JournalWake
<1>6. CASE JournalRun
  <2>1. Evicting' = {}
    BY <1>6 DEF JournalRun, JournalInv, Inside, Outside, Evicting, At
  <2>2. lru' = <<>> /\ Listed' = {} /\ Clean' = {}
    BY <1>6, EmptySeq, LenProperties DEF JournalRun, Listed, Clean, Frames
  <2>3. NoTwice(lru')
    BY <2>2, EmptySeq, LenProperties DEF NoTwice
  <2> QED
    BY <2>1, <2>2, <2>3, LruByParts
<1>7. CASE UNCHANGED <<task, memVars>>
  BY <1>7 DEF LruExact, memVars, Evicting, Listed, At
<1> QED
  BY <1>1, <1>3, <1>4, <1>5, <1>6, <1>7 DEF Next, Journal, JournalTick,
     JournalBlock,
     JournalAlone, JournalUnblock, JournalEnd, LfsInsert

-----------------------------------------------------------------------------
(* Deadlocks.                                                              *)

(* Who waits for a segment waits for a task that waits for a page or       *)
(* pagesMtx; who waits for a page, for one that waits for pagesMtx; and    *)
(* who waits for pagesMtx, for an eviction.                                *)
LEMMA WaitsInOrder ==
    ASSUME NEW w \in Tasks, NEW u \in WaitsFor(w)
    PROVE  /\ u \in Tasks
           /\ task[w].pc \in {"readLock", "writeLock"} => HoldsSegment(u)
           /\ task[w].pc \in {"readPage", "writePage", "fill"} =>
                 task[u].pc \in {"touch", "relist"}
           /\ task[w].pc \in {"touch", "relist", "alloc"} => At(u, "evict")
           /\ At(w, "evict") => /\ task[u].pc \in {"touch", "relist"}
                                /\ task[w].page = task[u].page
           /\ task[w].pc \in {"readLock", "writeLock"} \/ HoldsSegment(w)
  BY DEF WaitsFor, HoldsSegment, HoldsRead, HoldsWrite, At

LEMMA EvictionInCircle == OnlyEvictionSticks
<1> SUFFICES ASSUME NEW S \in SUBSET Tasks, S # {}, Circular(S)
             PROVE  \E e, u \in S : /\ At(e, "evict") /\ task[u].pc \in {"touch", "relist"}
                                    /\ task[e].page = task[u].page
  BY DEF OnlyEvictionSticks
<1>1. ASSUME NEW w \in S PROVE \E u \in S : u \in WaitsFor(w)
  BY DEF Circular
<1>2. PICK h \in S : HoldsSegment(h)
  <2>1. PICK w \in S : TRUE
    OBVIOUS
  <2> QED
    BY <1>1, <2>1, WaitsInOrder
<1>3. PICK m \in S : task[m].pc \in {"touch", "relist", "alloc", "evict"}
  BY <1>1, <1>2, WaitsInOrder DEF HoldsSegment
<1>4. PICK e \in S : At(e, "evict")
  BY <1>1, <1>3, WaitsInOrder DEF At
<1>5. PICK u \in S : u \in WaitsFor(e)
  BY <1>1
<1> QED
  BY <1>4, <1>5, WaitsInOrder

-----------------------------------------------------------------------------
(* Records.                                                                *)

LEMMA TimesAreNat ==
    ASSUME TypeOK
    PROVE  /\ \A t \in Tables, k \in Keys : acked[t][k] \in Nat /\ lfs[t][k] \in Nat
           /\ \A r \in Record : r.ts \in Nat \ {0}
           /\ \A w \in Tasks : task[w].ts \in Nat /\ task[w].floor \in Nat
<1>1. \A t \in Tables, k \in Keys : /\ acked[t][k] \in Timestamps \cup {0}
                                    /\ lfs[t][k] \in Timestamps \cup {0}
  BY DEF TypeOK, Times
<1>2. \A r \in Record : r.ts \in Timestamps
  BY DEF Record
<1>3. ASSUME NEW w \in Tasks
      PROVE  task[w].ts \in Timestamps \cup {0} /\ task[w].floor \in Timestamps \cup {0}
  <2>1. task[w] \in Task
    BY DEF TypeOK
  <2> QED
    BY <2>1 DEF Task
<1>4. Timestamps \cup {0} \subseteq Nat /\ Timestamps \subseteq Nat \ {0}
  BY TimestampsAssumption
<1>5. /\ \A t \in Tables, k \in Keys : acked[t][k] \in Nat /\ lfs[t][k] \in Nat
      /\ \A w \in Tasks : task[w].ts \in Nat /\ task[w].floor \in Nat
  BY <1>1, <1>3, <1>4
<1>6. \A r \in Record : r.ts \in Nat \ {0}
  BY <1>2, <1>4
<1> QED
  BY <1>5, <1>6

(* What a worker's step does to what it serves and has acknowledged.       *)
LEMMA WorkerFrame ==
    ASSUME TypeOK, TasksInv, NEW w \in Tasks, Main(w) \/ Read(w) \/ Write(w)
    PROVE  /\ task[w].pc # "idle"
           /\ task'[w].key = task[w].key /\ task'[w].op = task[w].op
           /\ task'[w].floor = task[w].floor
           /\ UNCHANGED lfsVars
           /\ \/ task'[w].pc \in WritePc => task[w].op # "select"
              \/ task[w].pc \in WritePc /\ task'[w].ts = task[w].ts
              \/ LfsSelect(w)
           /\ At(w, "asking")' => ReadFind(w) \/ ReadForeign(w)
           /\ task[w].pc # "done"
           /\ At(w, "done")' \/ task'[w].reply = task[w].reply
<1> DEFINE G == /\ task[w].pc # "idle"
                /\ task'[w].key = task[w].key /\ task'[w].op = task[w].op
                /\ task'[w].floor = task[w].floor
                /\ UNCHANGED lfsVars
                /\ \/ task'[w].pc \in WritePc => task[w].op # "select"
                   \/ task[w].pc \in WritePc /\ task'[w].ts = task[w].ts
                   \/ LfsSelect(w)
                /\ At(w, "asking")' => ReadFind(w) \/ ReadForeign(w)
                /\ task[w].pc # "done"
                /\ At(w, "done")' \/ task'[w].reply = task[w].reply
<1> USE DEF Moves, Becomes, At, WritePc
<1>1. CASE GuardBlocked(w)
  BY <1>1, GuardBlockedDoes DEF GuardBlocked
<1>2. CASE GuardEnter(w)
  BY <1>2, GuardEnterDoes DEF GuardEnter
<1>3. CASE Dispatch(w)
  BY <1>3, DispatchDoes DEF Dispatch
<1>4. CASE Reschedule(w)
  BY <1>4, RescheduleDoes DEF Reschedule
<1>5. CASE ReadFind(w)
  BY <1>5, ReadFindDoes DEF ReadFind
<1>6. CASE ReadForeign(w)
  BY <1>6, ReadForeignDoes DEF ReadForeign
<1>7. CASE ReadModified(w)
  BY <1>7, ReadModifiedDoes DEF ReadModified
<1>8. CASE ReadClean(w)
  BY <1>8, ReadCleanDoes DEF ReadClean
<1>9. CASE ReadTouch(w)
  BY <1>9, ReadTouchDoes DEF ReadTouch
<1>10. CASE LfsSelect(w)
  BY <1>10, LfsSelectDoes DEF LfsSelect
<1>11. CASE WriteFind(w)
  BY <1>11, WriteFindDoes DEF WriteFind
<1>12. CASE WriteForeign(w)
  BY <1>12, WriteForeignDoes DEF WriteForeign
<1>13. CASE WriteOlder(w)
  BY <1>13, WriteOlderDoes DEF WriteOlder
<1>14. CASE WriteSame(w)
  BY <1>14, WriteSameDoes DEF WriteSame
<1>15. CASE WriteOther(w)
  BY <1>15, WriteOtherDoes DEF WriteOther
<1>16. CASE Relist(w)
  BY <1>16, RelistDoes DEF Relist
<1>17. CASE AllocNew(w)
  BY <1>17, AllocNewDoes DEF AllocNew
<1>18. CASE AllocFull(w)
  BY <1>18, AllocFullDoes DEF AllocFull
<1>19. CASE AllocEvict(w)
  BY <1>19, AllocEvictDoes DEF AllocEvict
<1>20. CASE Evict(w)
  BY <1>20, EvictDoes DEF Evict
<1>21. CASE Fill(w)
  BY <1>21, FillDoes DEF Fill
<1> QED
  <2> HIDE DEF G
  <2> QED
    BY <1>1, <1>2, <1>3, <1>4, <1>5, <1>6, <1>7, <1>8, <1>9, <1>10, <1>11, <1>12,
       <1>13, <1>14, <1>15, <1>16, <1>17, <1>18, <1>19, <1>20, <1>21 DEF Main,
       Read, Write

LEMMA HistoryDoes ==
    ASSUME TypeOK, TasksInv, NEW w \in Tasks, Main(w) \/ Read(w) \/ Write(w)
    PROVE  /\ mixed => mixed'
           /\ outdated \subseteq outdated'
           /\ \A t \in Tables, k \in Keys :
                 /\ acked'[t][k] \in Nat /\ acked'[t][k] >= acked[t][k]
                 /\ task[w].op # "insert" \/ Item(w) # <<t, k>> => acked'[t][k] = acked[t][k]
<1>1. (mixed => mixed') /\ outdated \subseteq outdated'
  <2>1. CASE LfsSelect(w)
    BY <2>1 DEF LfsSelect
  <2>2. CASE Fill(w)
    BY <2>2 DEF Fill
  <2>3. CASE UNCHANGED <<mixed, outdated>>
    BY <2>3
  <2>4. LfsSelect(w) \/ Fill(w) \/ UNCHANGED <<mixed, outdated>>
    BY DEF Main, Read, Write, GuardBlocked, GuardEnter, Dispatch, Reschedule,
       ReadFind, ReadForeign, ReadModified, ReadClean, ReadTouch, WriteFind,
       WriteForeign, WriteOlder, WriteSame, WriteOther, Relist, AllocNew,
       AllocFull, AllocEvict, Evict, historyVars
  <2> QED
    BY <2>1, <2>2, <2>3, <2>4
<1>2. task[w].ts \in Nat /\ \A t \in Tables, k \in Keys : acked[t][k] \in Nat
  BY TimesAreNat
<1>3. CASE acked' = acked
  BY <1>1, <1>2, <1>3
<1>4. ASSUME NEW reply, Finish(w, reply), task[w].pc # "idle"
      PROVE  \A t \in Tables, k \in Keys :
                /\ acked'[t][k] \in Nat /\ acked'[t][k] >= acked[t][k]
                /\ task[w].op # "insert" \/ Item(w) # <<t, k>> => acked'[t][k] = acked[t][k]
  BY <1>2, <1>4, AckedDoes DEF Newest
<1>5. acked' = acked \/ (task[w].pc # "idle" /\ \E reply : Finish(w, reply))
  BY DEF Main, Read, Write, GuardBlocked, GuardEnter, Dispatch, Reschedule,
     ReadFind, ReadForeign, ReadModified, ReadClean, ReadTouch, LfsSelect,
     WriteFind, WriteForeign, WriteOlder, WriteSame, WriteOther, Relist, AllocNew,
     AllocFull, AllocEvict, Evict, Fill, historyVars, At
<1> QED
  BY <1>1, <1>3, <1>4, <1>5

LEMMA OuterDoes ==
    ASSUME TypeOK, TasksInv, QueueInv, Requests \/ SetAwaiting \/ JournalWake
    PROVE  \E w \in Tasks :
              /\ \A u \in Tasks \ {w} : task'[u] = task[u]
              /\ task[w].pc \in Outside /\ task'[w].pc \in {"new", "awaiting"}
              /\ \/ /\ task'[w].tbl = task[w].tbl /\ task'[w].key = task[w].key
                    /\ task'[w].floor = task[w].floor /\ task[w].pc \notin {"idle", "done"}
                    /\ task'[w].reply = task[w].reply
                 \/ /\ task'[w].tbl \in Tables /\ task'[w].key \in Keys
                    /\ task'[w].floor = acked[task'[w].tbl][task'[w].key]
                    /\ task'[w].reply = None
              /\ UNCHANGED <<lfsVars, memVars, historyVars>>
<1>1. CASE Requests
  <2>1. PICK w \in Tasks, t \in Tables, k \in Keys, op \in {"select", "insert"},
             ts \in Timestamps \cup {0} : Request(w, op, t, k, ts)
    BY <1>1 DEF Requests, Select, Insert
  <2>2. /\ \A u \in Tasks \ {w} : task'[u] = task[u]
        /\ task'[w].pc = "new" /\ task'[w].tbl = t /\ task'[w].key = k
        /\ task'[w].floor = acked[t][k] /\ task'[w].reply = None
    BY <2>1, RequestDoes
  <2>3. task[w].pc \in Outside /\ UNCHANGED <<lfsVars, memVars, historyVars>>
    BY <2>1 DEF Request, Outside
  <2> QED
    BY <2>2, <2>3
<1>2. CASE SetAwaiting
  <2>1. task[pushing].pc \in {"pushed", "new"}
    BY <1>2 DEF SetAwaiting, QueueInv
  <2>2. pushing \in Tasks /\ Moves(pushing, "awaiting")
    BY <1>2, SetAwaitingDoes
  <2> QED
    BY <1>2, <2>1, <2>2 DEF Moves, Becomes, SetAwaiting, Outside
<1>3. CASE JournalWake
  <2>1. Head(queue) \in Members(queue)
    BY <1>3, Dequeued DEF TypeOK, QueueInv, JournalWake
  <2>2. task[Head(queue)].pc \in {"pushed", "awaiting"}
    BY <2>1 DEF QueueInv, Members
  <2>3. Head(queue) \in Tasks /\ Moves(Head(queue), "new")
    BY <1>3, JournalWakeDoes
  <2> QED
    BY <1>3, <2>2, <2>3 DEF Moves, Becomes, JournalWake, Outside
<1> QED
  BY <1>1, <1>2, <1>3

LEMMA LfsInsertDoes ==
    ASSUME TypeOK, NEW r \in wire, LfsInsert(r)
    PROVE  /\ r \in Record
           /\ \A t \in Tables, k \in Keys :
                 lfs'[t][k] = IF r.tbl = t /\ r.key = k THEN Newest(lfs[t][k], r.ts)
                              ELSE lfs[t][k]
<1>1. r \in Record /\ r.tbl \in Tables /\ r.key \in Keys
  BY DEF TypeOK, Record
<1> DEFINE v == Newest(lfs[r.tbl][r.key], r.ts)
<1>2. lfs' = [lfs EXCEPT ![r.tbl][r.key] = v] /\ lfs \in [Tables -> [Keys -> Timestamps \cup {0}]]
  BY DEF LfsInsert, TypeOK, Times
<1> HIDE DEF v
<1>3. \A t \in Tables, k \in Keys :
         lfs'[t][k] = IF r.tbl = t /\ r.key = k THEN v ELSE lfs[t][k]
  BY <1>1, <1>2
<1> QED
  BY <1>1, <1>3 DEF v

(* What is in LFS, or on its way, stays so.                                *)
LEMMA SentStays ==
    ASSUME TypeOK, NEW t \in Tables, NEW k \in Keys, NEW ts \in Nat, Sent(t, k, ts),
           \/ lfs' = lfs /\ wire \subseteq wire'
           \/ \E r \in wire : LfsInsert(r)
    PROVE  \/ lfs'[t][k] >= ts
           \/ \E r \in wire' : r.tbl = t /\ r.key = k /\ r.ts >= ts
<1>1. CASE lfs' = lfs /\ wire \subseteq wire'
  BY <1>1 DEF Sent
<1>2. CASE \E r \in wire : LfsInsert(r)
  <2>1. PICK s \in wire : LfsInsert(s)
    BY <1>2
  <2>2. /\ s.ts \in Nat /\ lfs[t][k] \in Nat /\ wire' = wire \ {s}
        /\ lfs'[t][k] = IF s.tbl = t /\ s.key = k THEN Newest(lfs[t][k], s.ts)
                        ELSE lfs[t][k]
    <3>1. s \in Record /\ wire' = wire \ {s}
      BY <2>1, LfsInsertDoes DEF LfsInsert
    <3> QED
      BY <2>1, <3>1, LfsInsertDoes, TimesAreNat
  <2>3. CASE lfs[t][k] >= ts
    BY <2>2, <2>3 DEF Newest
  <2>4. ASSUME NEW r \in wire, r.tbl = t, r.key = k, r.ts >= ts
        PROVE  \/ lfs'[t][k] >= ts
               \/ \E q \in wire' : q.tbl = t /\ q.key = k /\ q.ts >= ts
    BY <2>2, <2>4 DEF Newest
  <2> QED
    BY <2>3, <2>4 DEF Sent
<1> QED
  BY <1>1, <1>2

(* What a SELECT has got from LFS is what LFS has, until a record on its   *)
(* way overtakes it.                                                       *)
LEMMA RefillOf ==
    ASSUME NEW w \in Tasks, task[w].op = "select", task[w].pc \in WritePc, RefillInv
    PROVE  /\ task[w].ts <= lfs[task[w].tbl][task[w].key]
           /\ Item(w) \in outdated \/
                 /\ task[w].ts = lfs[task[w].tbl][task[w].key]
                 /\ \A r \in wire : <<r.tbl, r.key>> = Item(w) => r.ts <= task[w].ts
  BY DEF RefillInv

LEMMA RefillStep ==
    ASSUME TypeOK, TasksInv, QueueInv, JournalInv, RefillInv, Next
    PROVE  RefillInv'
<1>1. ASSUME NEW w \in Tasks, Main(w) \/ Read(w) \/ Write(w) PROVE RefillInv'
  <2>1. /\ \A u \in Tasks \ {w} : task'[u] = task[u]
        /\ task'[w].tbl = task[w].tbl /\ task'[w].key = task[w].key
        /\ task'[w].op = task[w].op /\ lfs' = lfs /\ wire' = wire
        /\ outdated \subseteq outdated'
        /\ \/ task'[w].pc \in WritePc => task[w].op # "select"
           \/ task[w].pc \in WritePc /\ task'[w].ts = task[w].ts
           \/ LfsSelect(w)
    BY <1>1, WorkerDoes, WorkerFrame, HistoryDoes DEF lfsVars
  <2>2. SUFFICES ASSUME NEW u \in Tasks, task'[u].op = "select", task'[u].pc \in WritePc
                 PROVE  /\ task'[u].ts <= lfs[task'[u].tbl][task'[u].key]
                        /\ Item(u)' \in outdated' \/
                              /\ task'[u].ts = lfs[task'[u].tbl][task'[u].key]
                              /\ \A r \in wire : <<r.tbl, r.key>> = Item(u)' =>
                                    r.ts <= task'[u].ts
    BY <2>1 DEF RefillInv, WritePc
  <2>3. Item(u)' = Item(u)
    BY <2>1 DEF Item
  <2>4. CASE task[u].op = "select" /\ task[u].pc \in WritePc /\ task'[u].ts = task[u].ts
    BY <2>1, <2>3, <2>4, RefillOf DEF Item
  <2>5. CASE u = w /\ LfsSelect(w)
    <3> DEFINE ts == lfs[task[w].tbl][task[w].key]
    <3>1. ts \in Nat /\ task[w].tbl \in Tables /\ task[w].key \in Keys
      BY <2>5, Working, TimesAreNat DEF LfsSelect, At, ReadPc
    <3>2. task'[w].ts = ts
      BY <2>2, <2>5, LfsSelectDoes DEF Moves, Becomes, WritePc
    <3>3. ASSUME Item(w) \notin outdated', NEW r \in wire, <<r.tbl, r.key>> = Item(w)
          PROVE  r.ts <= ts
      <4>1. ~(r.ts > lfs[r.tbl][r.key])
        BY <2>5, <3>3 DEF LfsSelect
      <4>2. r.tbl = task[w].tbl /\ r.key = task[w].key
        BY <3>3 DEF Item
      <4>3. r.ts \in Nat
        BY TimesAreNat DEF TypeOK
      <4> QED
        BY <3>1, <4>1, <4>2, <4>3
    <3> QED
      BY <2>1, <2>3, <2>5, <3>1, <3>2, <3>3
  <2> QED
    BY <2>1, <2>2, <2>4, <2>5
<1>2. CASE Requests \/ SetAwaiting \/ JournalWake
  <2>1. PICK w \in Tasks : /\ \A u \in Tasks \ {w} : task'[u] = task[u]
                           /\ task'[w].pc \in {"new", "awaiting"}
                           /\ UNCHANGED <<lfsVars, historyVars>>
    BY <1>2, OuterDoes
  <2> QED
    BY <2>1 DEF RefillInv, Item, WritePc, lfsVars, historyVars
<1>3. ASSUME NEW r \in wire, LfsInsert(r) PROVE RefillInv'
  <2> SUFFICES ASSUME NEW w \in Tasks, task[w].op = "select", task[w].pc \in WritePc
               PROVE  /\ task[w].ts <= lfs'[task[w].tbl][task[w].key]
                      /\ Item(w) \in outdated \/
                            /\ task[w].ts = lfs'[task[w].tbl][task[w].key]
                            /\ \A q \in wire' : <<q.tbl, q.key>> = Item(w) =>
                                  q.ts <= task[w].ts
    BY <1>3 DEF LfsInsert, RefillInv, Item, historyVars, WritePc
  <2>1. task[w].tbl \in Tables /\ task[w].key \in Keys
    BY Working
  <2>2. /\ r.ts \in Nat /\ lfs[task[w].tbl][task[w].key] \in Nat /\ task[w].ts \in Nat
        /\ wire' = wire \ {r}
        /\ lfs'[task[w].tbl][task[w].key] =
              IF r.tbl = task[w].tbl /\ r.key = task[w].key
              THEN Newest(lfs[task[w].tbl][task[w].key], r.ts)
              ELSE lfs[task[w].tbl][task[w].key]
    <3>1. r \in Record /\ wire' = wire \ {r}
      BY <1>3, LfsInsertDoes DEF LfsInsert
    <3> QED
      BY <1>3, <2>1, <3>1, LfsInsertDoes, TimesAreNat
  <2>3. RefillInv /\ TypeOK
    OBVIOUS
  <2> DEFINE ts == task[w].ts
             l == lfs[task[w].tbl][task[w].key]
             l2 == lfs'[task[w].tbl][task[w].key]
  <2>4. /\ ts <= l
        /\ \/ Item(w) \in outdated
           \/ /\ ts = l
              /\ \A q \in wire : <<q.tbl, q.key>> = Item(w) => q.ts <= ts
    BY <2>3, RefillOf
  <2>5. l2 = l \/ (l2 = Newest(l, r.ts) /\ <<r.tbl, r.key>> = Item(w))
    BY <2>2 DEF Item
  <2>6. wire' \subseteq wire /\ r \in wire /\ r.ts \in Nat /\ l \in Nat /\ ts \in Nat
    BY <2>2
  <2> HIDE DEF ts, l, l2
  <2>7. ts <= l2 /\ (Item(w) \in outdated \/ ts = l2)
    BY <2>4, <2>5, <2>6 DEF Newest
  <2> QED
    BY <2>4, <2>6, <2>7 DEF ts, l2
<1>4. CASE JournalRun
  BY <1>4 DEF JournalRun, JournalInv, Inside, RefillInv, Outside, WritePc
<1>5. CASE UNCHANGED <<task, lfsVars, historyVars>>
  BY <1>5 DEF RefillInv, Item, lfsVars, historyVars
<1> QED
  BY <1>1, <1>2, <1>3, <1>4, <1>5 DEF Next, Journal, JournalTick, JournalBlock,
     JournalAlone, JournalUnblock, JournalEnd

(* Acknowledgements only get newer.                                        *)
LEMMA FloorStep ==
    ASSUME TypeOK, TasksInv, QueueInv, FloorInv, Next
    PROVE  FloorInv'
<1>1. ASSUME NEW w \in Tasks, Main(w) \/ Read(w) \/ Write(w) PROVE FloorInv'
  <2>1. /\ \A u \in Tasks \ {w} : task'[u] = task[u]
        /\ task'[w].tbl = task[w].tbl /\ task'[w].key = task[w].key
        /\ task'[w].floor = task[w].floor /\ task[w].pc # "idle"
    BY <1>1, WorkerDoes, WorkerFrame
  <2> SUFFICES ASSUME NEW u \in Tasks, task'[u].pc # "idle"
               PROVE  task[u].floor <= acked'[task[u].tbl][task[u].key]
    BY <2>1 DEF FloorInv
  <2>2. task[u].pc # "idle" /\ task[u].floor <= acked[task[u].tbl][task[u].key]
    BY <2>1 DEF FloorInv
  <2>3. task[u].tbl \in Tables /\ task[u].key \in Keys /\ task[u].floor \in Nat
    BY <2>2, TimesAreNat DEF TasksInv
  <2>4. /\ acked[task[u].tbl][task[u].key] \in Nat
        /\ acked'[task[u].tbl][task[u].key] \in Nat
        /\ acked'[task[u].tbl][task[u].key] >= acked[task[u].tbl][task[u].key]
    BY <1>1, <2>3, HistoryDoes, TimesAreNat
  <2> QED
    BY <2>2, <2>3, <2>4
<1>2. CASE Requests \/ SetAwaiting \/ JournalWake
  <2>1. PICK w \in Tasks :
           /\ \A u \in Tasks \ {w} : task'[u] = task[u]
           /\ \/ /\ task'[w].tbl = task[w].tbl /\ task'[w].key = task[w].key
                 /\ task'[w].floor = task[w].floor /\ task[w].pc # "idle"
              \/ /\ task'[w].tbl \in Tables /\ task'[w].key \in Keys
                 /\ task'[w].floor = acked[task'[w].tbl][task'[w].key]
           /\ UNCHANGED historyVars
    BY <1>2, OuterDoes
  <2>2. \A t \in Tables, k \in Keys : acked[t][k] <= acked[t][k]
    BY TimesAreNat
  <2> QED
    BY <2>1, <2>2 DEF FloorInv, historyVars
<1>3. CASE UNCHANGED <<task, historyVars>>
  BY <1>3 DEF FloorInv, historyVars
<1> QED
  BY <1>1, <1>2, <1>3 DEF Next, Journal, JournalTick, JournalBlock, JournalAlone,
     JournalRun, JournalUnblock, JournalEnd, LfsInsert

(* Who serves a key: the pages of segments that hold their mutex, or not.  *)
LEMMA ServesMine ==
    ASSUME TypeOK, TasksInv, SegmentsHeld, PagesInv, NEW w \in Tasks,
           task[w].pc \in {"readPage", "touch", "writePage", "relist"}, Owned(w)
    PROVE  /\ Serves(task[w].tbl, task[w].key)
           /\ seg[task[w].tbl][task[w].key] = task[w].page
           /\ RecOf(task[w].tbl, task[w].key) = page[task[w].page].rec
           /\ task[w].tbl \in Tables /\ task[w].key \in Keys /\ task[w].page \in Frames
<1>1. /\ task[w].tbl \in Tables /\ task[w].key \in Keys /\ task[w].page \in Frames
      /\ HoldsSegment(w)
  BY Working, Got DEF ReadPc, WritePc, HeldPc, HoldsSegment
<1>2. seg[task[w].tbl][task[w].key] = task[w].page
  BY DEF PagesInv, TaskPage, Found
<1>3. \A u \in Tasks : ~(At(u, "fill") /\ task[u].tbl = task[w].tbl)
  <2> SUFFICES ASSUME NEW u \in Tasks, At(u, "fill"), task[u].tbl = task[w].tbl PROVE FALSE
    OBVIOUS
  <2>1. u = w
    BY <1>1 DEF SegmentsHeld, HoldsSegment, At
  <2> QED
    BY <2>1 DEF At
<1>4. None \notin Frames
  BY NoneAssumption DEF Frames
<1> QED
  BY <1>1, <1>2, <1>3, <1>4 DEF Serves, Owned, RecOf

(* A task about to give its key another page finds none that serves it.    *)
LEMMA NotServed ==
    ASSUME TypeOK, TasksInv, PagesInv, NEW w \in Tasks,
           \/ At(w, "fill")
           \/ At(w, "readLock") /\ Found(w) = None
           \/ At(w, "readPage") /\ ~Owned(w)
    PROVE  ~Serves(task[w].tbl, task[w].key)
<1>1. CASE At(w, "fill")
  BY <1>1 DEF PagesInv, TaskPage, Found, Serves, At
<1>2. CASE At(w, "readLock") /\ Found(w) = None
  BY <1>2 DEF Found, Serves
<1>3. CASE At(w, "readPage") /\ ~Owned(w)
  BY <1>3 DEF PagesInv, TaskPage, Found, Serves, Owned, At
<1> QED
  BY <1>1, <1>2, <1>3

(* A SELECT that asks LFS will be told of what it has to find.             *)
LEMMA AskingStep ==
    ASSUME TypeOK, TasksInv, QueueInv, JournalInv, PagesInv, FloorInv, KeptInv, AskingInv, Next
    PROVE  AskingInv'
<1>0. /\ \A u \in Tasks : At(u, "asking") =>
               task[u].tbl \in Tables /\ task[u].key \in Keys
      /\ \A u \in Tasks : task[u].floor \in Nat
  BY TimesAreNat DEF TasksInv, At
<1>1. ASSUME NEW w \in Tasks, Main(w) \/ Read(w) \/ Write(w) PROVE AskingInv'
  <2>1. /\ \A u \in Tasks \ {w} : task'[u] = task[u]
        /\ task'[w].tbl = task[w].tbl /\ task'[w].key = task[w].key
        /\ task'[w].floor = task[w].floor /\ UNCHANGED lfsVars
        /\ At(w, "asking")' => ReadFind(w) \/ ReadForeign(w)
    BY <1>1, WorkerDoes, WorkerFrame
  <2>2. ASSUME ReadFind(w) \/ ReadForeign(w), At(w, "asking")'
        PROVE  Sent(task[w].tbl, task[w].key, task[w].floor)
    <3> DEFINE t == task[w].tbl
               k == task[w].key
    <3>1. t \in Tables /\ k \in Keys /\ task[w].floor <= acked[t][k]
      BY <2>2, Working DEF ReadFind, ReadForeign, At, ReadPc, FloorInv
    <3>2. ~Serves(t, k)
      <4>1. CASE ReadFind(w)
        <5>1. Found(w) = None
          BY <2>2, <4>1, ReadFindDoes DEF Becomes, Moves, At
        <5> QED
          BY <4>1, <5>1, NotServed DEF ReadFind
      <4>2. CASE ReadForeign(w)
        BY <4>2, NotServed DEF ReadForeign
      <4> QED
        BY <2>2, <4>1, <4>2
    <3>3. Sent(t, k, acked[t][k])
      BY <3>1, <3>2 DEF KeptInv, KeepsAcked
    <3>4. /\ acked[t][k] \in Nat /\ lfs[t][k] \in Nat /\ task[w].floor \in Nat
          /\ \A r \in wire : r.ts \in Nat
      BY <3>1, TimesAreNat DEF TypeOK
    <3> HIDE DEF t, k
    <3>5. Sent(t, k, task[w].floor)
      BY <3>1, <3>3, <3>4 DEF Sent
    <3> QED
      BY <3>5 DEF t, k
  <2> QED
    BY <2>1, <2>2 DEF AskingInv, Sent, lfsVars, At
<1>2. CASE Requests \/ SetAwaiting \/ JournalWake
  <2>1. PICK w \in Tasks : /\ \A u \in Tasks \ {w} : task'[u] = task[u]
                           /\ task'[w].pc \in {"new", "awaiting"}
                           /\ UNCHANGED lfsVars
    BY <1>2, OuterDoes
  <2> QED
    BY <2>1 DEF AskingInv, Sent, lfsVars, At
<1>3. ASSUME NEW r \in wire, LfsInsert(r) PROVE AskingInv'
  <2> SUFFICES ASSUME NEW w \in Tasks, At(w, "asking")
               PROVE  \/ lfs'[task[w].tbl][task[w].key] >= task[w].floor
                      \/ \E q \in wire' : /\ q.tbl = task[w].tbl /\ q.key = task[w].key
                                         /\ q.ts >= task[w].floor
    BY <1>3 DEF LfsInsert, AskingInv, Sent, At
  <2>1. Sent(task[w].tbl, task[w].key, task[w].floor)
    BY DEF AskingInv
  <2> QED
    BY <1>0, <1>3, <2>1, SentStays
<1>4. CASE JournalRun
  BY <1>4 DEF JournalRun, JournalInv, Inside, AskingInv, Outside, At
<1>5. CASE UNCHANGED <<task, lfsVars>>
  BY <1>5 DEF AskingInv, Sent, lfsVars, At
<1> QED
  BY <1>1, <1>2, <1>3, <1>4, <1>5 DEF Next, Journal, JournalTick, JournalBlock,
     JournalAlone, JournalUnblock, JournalEnd

ItemInv(t, k) == (Serves(t, k) => ServesKey(t, k)) /\ KeepsAcked(t, k)

LEMMA ServedRec ==
    ASSUME TypeOK, PagesInv, NEW t \in Tables, NEW k \in Keys, seg[t][k] # None
    PROVE  /\ seg[t][k] \in Frames /\ seg[t][k] < count
           /\ RecOf(t, k) \in Record /\ RecOf(t, k).ts \in Nat
           /\ page[seg[t][k]].modified \in BOOLEAN
<1>1. seg[t][k] \in Frames /\ seg[t][k] < count /\ page[seg[t][k]].rec # None
  BY DEF TypeOK, Slot, PagesInv
<1>2. page[seg[t][k]] \in Page
  BY <1>1 DEF TypeOK
<1>3. RecOf(t, k) \in Record /\ page[seg[t][k]].modified \in BOOLEAN
  BY <1>1, <1>2 DEF Page, RecOf
<1> QED
  BY <1>1, <1>3, TimesAreNat

(* A key whose page and acknowledgements a step leaves as they are.        *)
LEMMA ItemKept ==
    ASSUME TypeOK, PagesInv, NEW t \in Tables, NEW k \in Keys, ItemInv(t, k),
           Serves(t, k)' \/ (Serves(t, k) /\ page[seg[t][k]].modified) =>
              /\ Serves(t, k) /\ Serves(t, k)' /\ seg'[t][k] = seg[t][k]
              /\ page'[seg[t][k]] = page[seg[t][k]]
              /\ Relisting(t, k) => Relisting(t, k)',
           acked'[t][k] = acked[t][k], outdated \subseteq outdated',
           lfs'[t][k] \in Nat, lfs'[t][k] >= lfs[t][k],
           \/ lfs' = lfs /\ wire \subseteq wire'
           \/ \E r \in wire : LfsInsert(r)
    PROVE  ItemInv(t, k)'
<1>1. lfs[t][k] \in Nat /\ acked[t][k] \in Nat
  BY TimesAreNat
<1>2. ASSUME Serves(t, k)' PROVE ServesKey(t, k)'
  <2>1. RecOf(t, k)' = RecOf(t, k) /\ seg'[t][k] = seg[t][k] /\ ServesKey(t, k) /\ Serves(t, k)
    BY <1>2 DEF RecOf, ItemInv
  <2>2. RecOf(t, k).ts \in Nat
    BY <2>1, ServedRec DEF Serves
  <2>3. \/ page'[seg'[t][k]].modified \/ Relisting(t, k)' \/ RecOf(t, k).ts <= lfs'[t][k]
    BY <1>1, <1>2, <2>1, <2>2 DEF ServesKey
  <2> QED
    BY <2>1, <2>3 DEF ServesKey
<1>3. KeepsAcked(t, k)'
  <2>1. CASE Sent(t, k, acked[t][k])
    BY <1>1, <2>1, SentStays DEF KeepsAcked, Sent
  <2>2. CASE Serves(t, k) /\ page[seg[t][k]].modified /\ RecOf(t, k).ts >= acked[t][k]
    BY <2>2 DEF KeepsAcked, RecOf
  <2> QED
    BY <2>1, <2>2 DEF ItemInv, KeepsAcked
<1> QED
  BY <1>2, <1>3 DEF ItemInv

LEMMA ItemsQuiet ==
    ASSUME TypeOK, PagesInv, ServesInv, KeptInv, NEW w \in Tasks,
           \A u \in Tasks \ {w} : task'[u] = task[u],
           task[w].pc \notin {"fill", "relist"}, task'[w].pc # "fill",
           UNCHANGED <<seg, page, acked, lfsVars>>, outdated \subseteq outdated'
    PROVE  ServesInv' /\ KeptInv'
<1>1. PagesDistinct'
  BY DEF ServesInv, PagesDistinct
<1>2. ASSUME NEW t \in Tables, NEW k \in Keys PROVE ItemInv(t, k)'
  <2>1. Serves(t, k)' => Serves(t, k)
    BY DEF Serves, At
  <2>2. Serves(t, k) => Serves(t, k)'
    BY DEF Serves, At
  <2>3. Relisting(t, k) => Relisting(t, k)'
    BY DEF Relisting, At, IsModification
  <2>4. lfs[t][k] \in Nat /\ lfs[t][k] >= lfs[t][k]
    BY TimesAreNat
  <2> QED
    BY <2>1, <2>2, <2>3, <2>4, ItemKept DEF lfsVars, ItemInv, ServesInv, KeptInv
<1> QED
  BY <1>1, <1>2 DEF ServesInv, KeptInv, ItemInv

(* The keys whose pages a step on its own page leaves alone.               *)
LEMMA ItemsOthers ==
    ASSUME TypeOK, TasksInv, SegmentsHeld, PagesInv, ServesInv, KeptInv, NEW w \in Tasks,
           \A u \in Tasks \ {w} : task'[u] = task[u],
           task[w].pc \in {"writePage", "relist"}, Owned(w), task'[w].pc # "fill",
           UNCHANGED <<seg, lfsVars>>, outdated \subseteq outdated',
           \A f \in Frames \ {task[w].page} : page'[f] = page[f],
           page'[task[w].page].parent = page[task[w].page].parent,
           NEW t \in Tables, NEW k \in Keys, Item(w) # <<t, k>>,
           acked'[t][k] = acked[t][k]
    PROVE  ItemInv(t, k)'
<1>1. /\ seg[task[w].tbl][task[w].key] = task[w].page /\ task[w].page \in Frames
      /\ task[w].tbl \in Tables /\ task[w].key \in Keys
      /\ page[task[w].page].parent = task[w].tbl
  BY ServesMine DEF Owned
<1>2. Serves(t, k)' => Serves(t, k)
  <2> SUFFICES ASSUME Serves(t, k)' PROVE Serves(t, k)
    OBVIOUS
  <2>1. seg[t][k] # None /\ page'[seg[t][k]].parent = t
    BY DEF Serves
  <2>2. seg[t][k] \in Frames /\ page[seg[t][k]].parent = t
    BY <2>1, ServedRec
  <2>3. \A u \in Tasks : At(u, "fill") /\ task[u].tbl = t => task[u].page # seg[t][k]
    BY DEF Serves, At
  <2> QED
    BY <2>1, <2>2, <2>3 DEF Serves
<1>3. Serves(t, k) => seg[t][k] \in Frames /\ seg[t][k] # task[w].page
  <2> SUFFICES ASSUME Serves(t, k), seg[t][k] = task[w].page PROVE FALSE
    BY ServedRec DEF Serves
  <2>1. t = task[w].tbl
    BY <1>1 DEF Serves
  <2>2. k = task[w].key
    BY <1>1, <2>1 DEF Serves, ServesInv, PagesDistinct
  <2> QED
    BY <2>1, <2>2 DEF Item
<1>4. Serves(t, k) => Serves(t, k)'
  BY <1>3 DEF Serves, At
<1>5. Serves(t, k) /\ Relisting(t, k) => Relisting(t, k)'
  BY <1>3 DEF Relisting, At, IsModification
<1>6. lfs[t][k] \in Nat /\ lfs[t][k] >= lfs[t][k]
  BY TimesAreNat
<1> QED
  BY <1>2, <1>3, <1>4, <1>5, <1>6, ItemKept DEF lfsVars, ItemInv, ServesInv, KeptInv

(* The key a task has written, or found written.                           *)
LEMMA ItemMine ==
    ASSUME TypeOK, TasksInv, SegmentsHeld, PagesInv, ServesInv, KeptInv, NEW w \in Tasks,
           task[w].pc \in {"writePage", "relist"}, Owned(w),
           NEW t, NEW k, t = task[w].tbl, k = task[w].key
    PROVE  /\ t \in Tables /\ k \in Keys /\ task[w].page \in Frames
           /\ seg[t][k] = task[w].page /\ seg[t][k] # None
           /\ Serves(t, k) /\ ServesKey(t, k) /\ KeepsAcked(t, k)
           /\ RecOf(t, k) = page[task[w].page].rec /\ RecOf(t, k).ts \in Nat
           /\ page[task[w].page].modified \in BOOLEAN
           /\ acked[t][k] \in Nat /\ lfs[t][k] \in Nat /\ task[w].ts \in Nat
<1>1. /\ Serves(t, k) /\ seg[t][k] = task[w].page /\ RecOf(t, k) = page[task[w].page].rec
      /\ t \in Tables /\ k \in Keys /\ task[w].page \in Frames
  BY ServesMine
<1>2. ServesKey(t, k) /\ KeepsAcked(t, k)
  BY <1>1 DEF ServesInv, KeptInv
<1>3. seg[t][k] # None
  BY <1>1 DEF Serves
<1>4. RecOf(t, k).ts \in Nat /\ page[task[w].page].modified \in BOOLEAN
  BY <1>1, <1>3, ServedRec
<1> QED
  BY <1>1, <1>2, <1>3, <1>4, TimesAreNat

(* The acknowledgements of a key when a task has done with it.             *)
LEMMA AckedMine ==
    ASSUME TypeOK, TasksInv, NEW w \in Tasks, task[w].pc # "idle", NEW reply,
           Finish(w, reply)
    PROVE  /\ task[w].op = "insert" => acked'[task[w].tbl][task[w].key] =
                 Newest(acked[task[w].tbl][task[w].key], task[w].ts)
           /\ task[w].op # "insert" => acked' = acked
<1>1. task[w].op # "insert" => acked' = acked
  BY DEF Finish
<1>2. /\ task[w].tbl \in Tables /\ task[w].key \in Keys
      /\ task[w].op = "insert" => acked'[task[w].tbl][task[w].key] =
            Newest(acked[task[w].tbl][task[w].key], task[w].ts)
  BY AckedDoes DEF Item
<1> QED
  BY <1>1, <1>2

(* What has to hold of a key whose page serves it with record r.           *)
LEMMA ItemHolds ==
    ASSUME NEW t, NEW k, Serves(t, k)', RecOf(t, k)'.tbl = t, RecOf(t, k)'.key = k,
           page'[seg'[t][k]].modified \/ Relisting(t, k)' \/ RecOf(t, k)'.ts <= lfs'[t][k],
           <<t, k>> \notin outdated' => RecOf(t, k)'.ts >= acked'[t][k],
           \/ lfs'[t][k] >= acked'[t][k]
           \/ \E r \in wire' : r.tbl = t /\ r.key = k /\ r.ts >= acked'[t][k]
           \/ page'[seg'[t][k]].modified /\ RecOf(t, k)'.ts >= acked'[t][k]
    PROVE  ItemInv(t, k)'
  BY DEF ItemInv, ServesKey, KeepsAcked, Sent

LEMMA OlderItem ==
    ASSUME TypeOK, TasksInv, SegmentsHeld, PagesInv, ServesInv, KeptInv, NEW w \in Tasks,
           NEW t, NEW k, t = task[w].tbl, k = task[w].key,
           WriteOlder(w)
    PROVE  ItemInv(t, k)'
<1> DEFINE p == task[w].page
           a == acked[t][k]
           ts == task[w].ts
           r == page[p].rec
           l == lfs[t][k]
<1>1. /\ seg[t][k] = p /\ Serves(t, k) /\ ServesKey(t, k) /\ KeepsAcked(t, k)
      /\ RecOf(t, k) = r /\ r.ts \in Nat /\ a \in Nat /\ l \in Nat /\ ts \in Nat
      /\ t \in Tables /\ k \in Keys
  BY ItemMine DEF WriteOlder, At
<1>2. /\ ts < r.ts /\ UNCHANGED <<seg, page, lfs, wire, outdated>>
      /\ task[w].pc = "writePage" /\ CanRead(p)
  BY DEF WriteOlder, lfsVars, memVars, At, CanWrite
<1>3. /\ \A u \in Tasks \ {w} : task'[u] = task[u]
      /\ task'[w].pc = "done" /\ task'[w].tbl = t /\ task'[w].key = k
  BY WriteOlderDoes DEF Becomes
<1>4. acked'[t][k] = a \/ acked'[t][k] = Newest(a, ts)
  BY <1>2, AckedMine DEF WriteOlder
<1>5. Serves(t, k)' /\ RecOf(t, k)' = r
  BY <1>1, <1>2, <1>3 DEF Serves, RecOf, At
<1>6. ~Relisting(t, k)
  BY <1>1, <1>2 DEF Relisting, CanRead, HoldsWrite
<1>7. page[p].modified \/ r.ts <= l
  BY <1>1, <1>6 DEF ServesKey
<1>8. <<t, k>> \notin outdated => r.ts >= a
  BY <1>1 DEF ServesKey
<1>9. \/ l >= a \/ \E q \in wire : q.tbl = t /\ q.key = k /\ q.ts >= a
      \/ (page[p].modified /\ r.ts >= a)
  BY <1>1 DEF KeepsAcked, Sent
<1>10. r.tbl = t /\ r.key = k
  BY <1>1 DEF ServesKey
<1> HIDE DEF p, a, ts, r, l
<1>11. <<t, k>> \notin outdated => r.ts >= acked'[t][k]
  BY <1>1, <1>2, <1>4, <1>8 DEF Newest
<1>12. \/ l >= acked'[t][k]
       \/ \E q \in wire : q.tbl = t /\ q.key = k /\ q.ts >= acked'[t][k]
       \/ (page[p].modified /\ r.ts >= acked'[t][k])
  <2>1. CASE acked'[t][k] = a
    BY <1>9, <2>1
  <2>2. CASE acked'[t][k] = ts
    BY <1>1, <1>2, <1>7, <2>2
  <2> QED
    BY <1>4, <2>1, <2>2 DEF Newest
<1> QED
  BY <1>1, <1>2, <1>5, <1>7, <1>10, <1>11, <1>12, ItemHolds DEF l, r

LEMMA SameItem ==
    ASSUME TypeOK, TasksInv, SegmentsHeld, PagesInv, RefillInv, ServesInv, KeptInv,
           NEW w \in Tasks, NEW t, NEW k, t = task[w].tbl, k = task[w].key,
           WriteSame(w)
    PROVE  ItemInv(t, k)'
<1> DEFINE p == task[w].page
           a == acked[t][k]
           ts == task[w].ts
           r == page[p].rec
           l == lfs[t][k]
<1>1. /\ seg[t][k] = p /\ Serves(t, k) /\ ServesKey(t, k) /\ KeepsAcked(t, k)
      /\ RecOf(t, k) = r /\ r.ts \in Nat /\ a \in Nat /\ l \in Nat /\ ts \in Nat
      /\ t \in Tables /\ k \in Keys /\ p \in Frames
  BY ItemMine DEF WriteSame, At
<1>2. /\ ts >= r.ts /\ UNCHANGED <<seg, lfs, wire, outdated>>
      /\ task[w].pc = "writePage" /\ page[p].modified = IsModification(w)
      /\ Rec(w) \in Record /\ page' = [page EXCEPT ![p].rec = Rec(w)]
      /\ task[w].op \in {"select", "insert"}
  BY Written, Working DEF WriteSame, lfsVars, At, WritePc
<1>3. /\ \A u \in Tasks \ {w} : task'[u] = task[u]
      /\ task'[w].pc = "done" /\ task'[w].tbl = t /\ task'[w].key = k
  BY WriteSameDoes DEF Becomes
<1>4. /\ task[w].op = "insert" => acked'[t][k] = Newest(a, ts)
      /\ task[w].op # "insert" => acked'[t][k] = a /\ ts <= l
  BY <1>2, AckedMine, RefillOf DEF WriteSame, WritePc
<1>5. /\ page'[p].rec = Rec(w) /\ page'[p].parent = page[p].parent
      /\ page'[p].modified = page[p].modified
  BY <1>1, <1>2, RecordWritten DEF TypeOK
<1>6. /\ Serves(t, k)' /\ RecOf(t, k)' = Rec(w)
      /\ Rec(w).tbl = t /\ Rec(w).key = k /\ Rec(w).ts = ts
  BY <1>1, <1>2, <1>3, <1>5 DEF Serves, RecOf, At, Rec
<1>7. <<t, k>> \notin outdated => r.ts >= a
  BY <1>1 DEF ServesKey
<1>8. \/ l >= a \/ \E q \in wire : q.tbl = t /\ q.key = k /\ q.ts >= a
      \/ (page[p].modified /\ r.ts >= a)
  BY <1>1 DEF KeepsAcked, Sent
<1>9. page'[p].modified <=> task[w].op = "insert"
  BY <1>2, <1>5 DEF IsModification
<1> HIDE DEF p, a, ts, r, l
<1>10. <<t, k>> \notin outdated => ts >= acked'[t][k]
  BY <1>1, <1>2, <1>4, <1>7 DEF Newest
<1>11. page'[p].modified \/ ts <= l
  BY <1>2, <1>4, <1>9
<1>12. \/ l >= acked'[t][k]
       \/ \E q \in wire : q.tbl = t /\ q.key = k /\ q.ts >= acked'[t][k]
       \/ (page'[p].modified /\ ts >= acked'[t][k])
  <2>1. CASE acked'[t][k] = a
    BY <1>1, <1>2, <1>5, <1>8, <2>1
  <2>2. CASE acked'[t][k] = ts /\ task[w].op = "insert"
    BY <1>1, <1>9, <2>2
  <2> QED
    BY <1>4, <2>1, <2>2 DEF Newest
<1> QED
  BY <1>1, <1>2, <1>6, <1>10, <1>11, <1>12, ItemHolds DEF l

LEMMA OtherItem ==
    ASSUME TypeOK, TasksInv, SegmentsHeld, PagesInv, ServesInv, KeptInv,
           NEW w \in Tasks, NEW t, NEW k, t = task[w].tbl, k = task[w].key,
           WriteOther(w)
    PROVE  ItemInv(t, k)'
<1> DEFINE p == task[w].page
           a == acked[t][k]
           ts == task[w].ts
           r == page[p].rec
           l == lfs[t][k]
<1>1. /\ seg[t][k] = p /\ Serves(t, k) /\ ServesKey(t, k) /\ KeepsAcked(t, k)
      /\ RecOf(t, k) = r /\ r.ts \in Nat /\ a \in Nat /\ l \in Nat /\ ts \in Nat
      /\ t \in Tables /\ k \in Keys /\ p \in Frames /\ page[p].modified \in BOOLEAN
  BY ItemMine DEF WriteOther, At
<1>2. /\ ts >= r.ts /\ UNCHANGED <<seg, lfs, wire, outdated, acked>>
      /\ task[w].pc = "writePage" /\ page[p].modified # IsModification(w)
      /\ Rec(w) \in Record /\ page' = [page EXCEPT ![p].rec = Rec(w)]
  BY Written DEF WriteOther, lfsVars, historyVars, At, WritePc
<1>3. /\ \A u \in Tasks \ {w} : task'[u] = task[u]
      /\ task'[w].pc = "relist" /\ task'[w].tbl = t /\ task'[w].key = k
      /\ task'[w].page = p /\ task'[w].op = task[w].op
  BY WriteOtherDoes DEF Moves, Becomes
<1>4. /\ page'[p].rec = Rec(w) /\ page'[p].parent = page[p].parent
      /\ page'[p].modified = page[p].modified
  BY <1>1, <1>2, RecordWritten DEF TypeOK
<1>5. /\ Serves(t, k)' /\ RecOf(t, k)' = Rec(w)
      /\ Rec(w).tbl = t /\ Rec(w).key = k /\ Rec(w).ts = ts
  BY <1>1, <1>2, <1>3, <1>4 DEF Serves, RecOf, At, Rec
<1>6. page[p].modified \/ IsModification(w)
  BY <1>1, <1>2 DEF IsModification
<1>7. page'[p].modified \/ Relisting(t, k)'
  BY <1>1, <1>2, <1>3, <1>4, <1>6 DEF Relisting, At, IsModification
<1>8. <<t, k>> \notin outdated => r.ts >= a
  BY <1>1 DEF ServesKey
<1>9. \/ l >= a \/ \E q \in wire : q.tbl = t /\ q.key = k /\ q.ts >= a
      \/ (page[p].modified /\ r.ts >= a)
  BY <1>1 DEF KeepsAcked, Sent
<1> HIDE DEF p, a, ts, r, l
<1>10. (<<t, k>> \notin outdated => ts >= a) /\ acked'[t][k] = a
  BY <1>1, <1>2, <1>8 DEF a
<1>11. \/ l >= a \/ \E q \in wire : q.tbl = t /\ q.key = k /\ q.ts >= a
       \/ (page'[p].modified /\ ts >= a)
  BY <1>1, <1>2, <1>4, <1>9
<1> QED
  BY <1>1, <1>2, <1>5, <1>7, <1>10, <1>11, ItemHolds DEF l

LEMMA RelistItem ==
    ASSUME TypeOK, TasksInv, SegmentsHeld, PagesInv, RefillInv, ServesInv, KeptInv,
           NEW w \in Tasks, NEW t, NEW k, t = task[w].tbl, k = task[w].key,
           Relist(w)
    PROVE  ItemInv(t, k)'
<1> DEFINE p == task[w].page
           a == acked[t][k]
           ts == task[w].ts
           l == lfs[t][k]
<1>1. /\ Owned(w) /\ page[p].rec = Rec(w) /\ page[p].modified # IsModification(w)
      /\ task[w].pc = "relist"
  BY DEF PagesInv, TaskPage, Relist, At
<1>2. /\ seg[t][k] = p /\ Serves(t, k) /\ ServesKey(t, k) /\ KeepsAcked(t, k)
      /\ RecOf(t, k) = Rec(w) /\ a \in Nat /\ l \in Nat /\ ts \in Nat
      /\ t \in Tables /\ k \in Keys /\ p \in Frames /\ page[p].modified \in BOOLEAN
  BY <1>1, ItemMine
<1>3. /\ UNCHANGED <<seg, lfs, wire, outdated>>
      /\ page' = [page EXCEPT ![p].modified = IsModification(w)]
      /\ IsModification(w) \in BOOLEAN /\ task[w].op \in {"select", "insert"}
  BY <1>1, Working DEF Relist, lfsVars, IsModification, WritePc
<1>4. /\ \A u \in Tasks \ {w} : task'[u] = task[u]
      /\ task'[w].pc = "done" /\ task'[w].tbl = t /\ task'[w].key = k
  BY RelistDoes DEF Becomes
<1>5. /\ task[w].op = "insert" => acked'[t][k] = Newest(a, ts)
      /\ task[w].op # "insert" => acked'[t][k] = a /\ ts <= l
  BY <1>1, <1>3, AckedMine, RefillOf DEF Relist, WritePc
<1>6. /\ page'[p].rec = page[p].rec /\ page'[p].parent = page[p].parent
      /\ page'[p].modified = IsModification(w)
  BY <1>2, <1>3, Modifies DEF TypeOK
<1>7. /\ Serves(t, k)' /\ RecOf(t, k)' = Rec(w)
      /\ Rec(w).tbl = t /\ Rec(w).key = k /\ Rec(w).ts = ts
  <2>1. seg'[t][k] = p /\ seg[t][k] # None /\ page[p].parent = t
    BY <1>2, <1>3 DEF Serves
  <2>2. \A u \in Tasks : At(u, "fill")' /\ task'[u].tbl = t => task'[u].page # p
    BY <1>2, <1>4 DEF Serves, At
  <2>3. Serves(t, k)'
    BY <1>2, <1>6, <2>1, <2>2 DEF Serves
  <2>4. RecOf(t, k)' = Rec(w)
    BY <1>1, <1>6, <2>1 DEF RecOf
  <2> QED
    BY <2>3, <2>4 DEF Rec
<1>8. <<t, k>> \notin outdated => ts >= a
  BY <1>2, <1>7 DEF ServesKey
<1>9. \/ l >= a \/ \E q \in wire : q.tbl = t /\ q.key = k /\ q.ts >= a
      \/ (page[p].modified /\ ts >= a)
  BY <1>2, <1>7 DEF KeepsAcked, Sent
<1>10. /\ page'[p].modified <=> task[w].op = "insert"
       /\ page[p].modified <=> task[w].op # "insert"
  BY <1>1, <1>2, <1>6 DEF IsModification
<1> HIDE DEF p, a, ts, l
<1>11. <<t, k>> \notin outdated => ts >= acked'[t][k]
  BY <1>2, <1>5, <1>8 DEF Newest
<1>12. page'[p].modified \/ ts <= l
  BY <1>5, <1>10
<1>13. \/ l >= acked'[t][k]
       \/ \E q \in wire : q.tbl = t /\ q.key = k /\ q.ts >= acked'[t][k]
       \/ (page'[p].modified /\ ts >= acked'[t][k])
  <2>1. CASE task[w].op # "insert"
    BY <1>2, <1>5, <1>9, <1>10, <2>1
  <2>2. CASE task[w].op = "insert" /\ acked'[t][k] = ts
    BY <1>2, <1>10, <2>2
  <2>3. CASE task[w].op = "insert" /\ acked'[t][k] = a
    BY <1>9, <1>10, <2>3
  <2> QED
    BY <1>5, <2>1, <2>2, <2>3 DEF Newest
<1> QED
  BY <1>2, <1>3, <1>7, <1>11, <1>12, <1>13, ItemHolds DEF l

LEMMA ReplyStep ==
    ASSUME TypeOK, TasksInv, QueueInv, ReplyInv, Next
    PROVE  ReplyInv'
<1>1. ASSUME NEW w \in Tasks, Main(w) \/ Read(w) \/ Write(w) PROVE ReplyInv'
  <2>1. /\ \A u \in Tasks \ {w} : task'[u] = task[u]
        /\ task[w].pc # "done" /\ (At(w, "done")' \/ task'[w].reply = task[w].reply)
    BY <1>1, WorkerDoes, WorkerFrame
  <2> QED
    BY <2>1 DEF ReplyInv, At
<1>2. CASE Requests \/ SetAwaiting \/ JournalWake
  <2>1. PICK w \in Tasks :
           /\ \A u \in Tasks \ {w} : task'[u] = task[u]
           /\ \/ task[w].pc # "done" /\ task'[w].reply = task[w].reply
              \/ task'[w].reply = None
    BY <1>2, OuterDoes
  <2> QED
    BY <2>1 DEF ReplyInv
<1>3. CASE UNCHANGED task
  BY <1>3 DEF ReplyInv
<1> QED
  BY <1>1, <1>2, <1>3 DEF Next, Journal, JournalTick, JournalBlock, JournalAlone,
     JournalRun, JournalUnblock, JournalEnd, LfsInsert

(* A task that writes its own page.                                        *)
LEMMA ItemsOwn ==
    ASSUME TypeOK, TasksInv, SegmentsHeld, PagesInv, RefillInv, ServesInv, KeptInv,
           NEW w \in Tasks,
           WriteOlder(w) \/ WriteSame(w) \/ WriteOther(w) \/ Relist(w)
    PROVE  ServesInv' /\ KeptInv'
<1> DEFINE p == task[w].page
<1>1. /\ \A u \in Tasks \ {w} : task'[u] = task[u]
      /\ task[w].pc \in {"writePage", "relist"} /\ Owned(w) /\ task'[w].pc # "fill"
  <2>1. /\ \A u \in Tasks \ {w} : task'[u] = task[u]
        /\ task'[w].pc # "fill"
    BY WriteOlderDoes, WriteSameDoes, WriteOtherDoes, RelistDoes DEF Moves, Becomes
  <2> QED
    BY <2>1 DEF WriteOlder, WriteSame, WriteOther, Relist, At, PagesInv, TaskPage
<1>2. /\ UNCHANGED <<seg, lfsVars>> /\ outdated \subseteq outdated'
      /\ \A t \in Tables, k \in Keys : Item(w) # <<t, k>> => acked'[t][k] = acked[t][k]
  <2>1. UNCHANGED <<seg, lfsVars>>
    BY DEF WriteOlder, WriteSame, WriteOther, Relist, memVars
  <2>2. Write(w)
    BY DEF Write
  <2> QED
    BY <2>1, <2>2, HistoryDoes
<1>3. /\ \A f \in Frames \ {p} : page'[f] = page[f]
      /\ page'[p].parent = page[p].parent
  <2>1. p \in Frames /\ Rec(w) \in Record /\ IsModification(w) \in BOOLEAN
    BY <1>1, Got, Written DEF HeldPc, WritePc, IsModification
  <2>2. \/ page' = page \/ page' = [page EXCEPT ![p].rec = Rec(w)]
        \/ page' = [page EXCEPT ![p].modified = IsModification(w)]
    BY DEF WriteOlder, WriteSame, WriteOther, Relist, memVars
  <2> HIDE DEF p
  <2> QED
    BY <2>1, <2>2, RecordWritten, Modifies DEF TypeOK
<1>4. ASSUME NEW t \in Tables, NEW k \in Keys PROVE ItemInv(t, k)'
  <2>1. CASE Item(w) # <<t, k>>
    BY <1>1, <1>2, <1>3, <2>1, ItemsOthers
  <2>2. CASE Item(w) = <<t, k>>
    <3>1. t = task[w].tbl /\ k = task[w].key
      BY <2>2 DEF Item
    <3> QED
      BY <3>1, OlderItem, SameItem, OtherItem, RelistItem
  <2> QED
    BY <2>1, <2>2
<1>5. PagesDistinct'
  BY <1>2 DEF ServesInv, PagesDistinct
<1> QED
  BY <1>4, <1>5 DEF ServesInv, KeptInv, ItemInv

(* A page that is given to a segment serves nobody, and what it served is  *)
(* in LFS.                                                                 *)
LEMMA ItemsAssign ==
    ASSUME TypeOK, TasksInv, LruExact, PagesInv, ServesInv, KeptInv, NEW w \in Tasks,
           AllocNew(w) \/ Evict(w)
    PROVE  ServesInv' /\ KeptInv'
<1> DEFINE p == IF AllocNew(w) THEN count ELSE task[w].page
<1>1. /\ p \in Frames /\ Becomes(w, "fill", task[w].ts, p, task[w].reply)
      /\ task[w].tbl \in Tables /\ task[w].pc \in {"alloc", "evict"}
      /\ p = count \/ ~page[p].modified
  <2>1. CASE AllocNew(w)
    BY <2>1, AllocNewDoes, Working DEF AllocNew, At, WritePc
  <2>2. CASE ~AllocNew(w)
    <3>1. /\ task[w].page \in Frames /\ task[w].tbl \in Tables /\ task[w].pc = "evict"
          /\ Becomes(w, "fill", task[w].ts, task[w].page, task[w].reply)
      BY <2>2, EvictDoes, Got, Working DEF Evict, At, WritePc, HeldPc
    <3>2. task[w].page \in Evicting
      BY <3>1 DEF Evicting, At
    <3> QED
      BY <2>2, <3>1, <3>2 DEF LruExact
  <2> QED
    BY <2>1, <2>2
<1>2. UNCHANGED <<seg, lfsVars, acked, outdated>>
  BY DEF AllocNew, Evict, historyVars
<1>3. /\ \A f \in Frames \ {p} : page'[f] = page[f]
      /\ page'[p].parent = task[w].tbl
  <2>1. Assign(w, p, lru)
    BY DEF AllocNew, Evict
  <2> QED
    BY <1>1, <2>1, Assigned DEF TypeOK
<1> HIDE DEF p
<1>4. /\ \A u \in Tasks \ {w} : task'[u] = task[u]
      /\ task'[w].pc = "fill" /\ task'[w].page = p /\ task'[w].tbl = task[w].tbl
  BY <1>1 DEF Becomes
<1>5. ASSUME NEW t \in Tables, NEW k \in Keys PROVE ItemInv(t, k)'
  <2>1. Serves(t, k)' => seg[t][k] # p
    BY <1>2, <1>3, <1>4 DEF Serves, At
  <2>2. Serves(t, k) /\ page[seg[t][k]].modified => seg[t][k] # p
    <3>1. Serves(t, k) => seg[t][k] < count /\ count \in Nat
      BY ServedRec DEF Serves, TypeOK
    <3> QED
      BY <1>1, <3>1
  <2>3. seg[t][k] # None /\ seg[t][k] # p => page'[seg[t][k]] = page[seg[t][k]]
    BY <1>3, ServedRec
  <2>4. seg[t][k] # p => (Serves(t, k) <=> Serves(t, k)')
    BY <1>1, <1>2, <1>4, <2>3 DEF Serves, At
  <2>5. Relisting(t, k) => Relisting(t, k)'
    BY <1>1, <1>2, <1>4 DEF Relisting, At, IsModification
  <2>6. lfs[t][k] \in Nat /\ lfs[t][k] >= lfs[t][k]
    BY TimesAreNat
  <2>7. ItemInv(t, k)
    BY DEF ItemInv, ServesInv, KeptInv
  <2>8. Serves(t, k)' \/ (Serves(t, k) /\ page[seg[t][k]].modified) =>
           /\ Serves(t, k) /\ Serves(t, k)' /\ seg'[t][k] = seg[t][k]
           /\ page'[seg[t][k]] = page[seg[t][k]]
    BY <1>2, <2>1, <2>2, <2>3, <2>4 DEF Serves
  <2> QED
    BY <1>2, <2>5, <2>6, <2>7, <2>8, ItemKept DEF lfsVars
<1>6. PagesDistinct'
  BY <1>2 DEF ServesInv, PagesDistinct
<1> QED
  BY <1>5, <1>6 DEF ServesInv, KeptInv, ItemInv

LEMMA ItemsJournal ==
    ASSUME TypeOK, PagesInv, ServesInv, KeptInv, JournalRun
    PROVE  ServesInv' /\ KeptInv'
<1>1. \A t \in Tables, k \in Keys : ~Serves(t, k)' /\ seg'[t][k] = None
  BY DEF JournalRun, Serves
<1>2. UNCHANGED <<lfs, acked>> /\ wire' = wire \cup Journaled
  BY DEF JournalRun, historyVars
<1>3. ASSUME NEW t \in Tables, NEW k \in Keys PROVE KeepsAcked(t, k)'
  <2>1. CASE Sent(t, k, acked[t][k])
    BY <1>2, <2>1 DEF KeepsAcked, Sent
  <2>2. CASE Serves(t, k) /\ page[seg[t][k]].modified /\ RecOf(t, k).ts >= acked[t][k]
    <3> DEFINE r == [tbl |-> t, key |-> RecOf(t, k).key, ts |-> RecOf(t, k).ts]
    <3>1. <<t, k>> \in Modified /\ RecOf(t, k).key = k
      BY <2>2 DEF Modified, Serves, ServesInv, ServesKey
    <3>2. r \in Journaled
      <4> DEFINE i == <<t, k>>
      <4>1. i[1] = t /\ i[2] = k
        OBVIOUS
      <4>2. r = [tbl |-> i[1], key |-> page[seg[i[1]][i[2]]].rec.key,
                 ts |-> page[seg[i[1]][i[2]]].rec.ts]
        BY <4>1 DEF RecOf
      <4> HIDE DEF r
      <4> QED
        BY <3>1, <4>2 DEF Journaled
    <3>3. r.tbl = t /\ r.key = k /\ r.ts >= acked[t][k]
      BY <2>2, <3>1
    <3> HIDE DEF r
    <3> QED
      BY <1>2, <3>2, <3>3 DEF KeepsAcked, Sent
  <2> QED
    BY <2>1, <2>2 DEF KeptInv, KeepsAcked
<1> QED
  BY <1>1, <1>3 DEF ServesInv, PagesDistinct, KeptInv

LEMMA ItemsLfs ==
    ASSUME TypeOK, PagesInv, ServesInv, KeptInv, NEW r \in wire, LfsInsert(r)
    PROVE  ServesInv' /\ KeptInv'
<1>1. UNCHANGED <<memVars, task, historyVars>>
  BY DEF LfsInsert
<1>2. ASSUME NEW t \in Tables, NEW k \in Keys PROVE ItemInv(t, k)'
  <2>1. lfs'[t][k] = IF r.tbl = t /\ r.key = k THEN Newest(lfs[t][k], r.ts) ELSE lfs[t][k]
    BY LfsInsertDoes
  <2>2. lfs[t][k] \in Nat /\ r.ts \in Nat
    BY LfsInsertDoes, TimesAreNat
  <2>3. lfs'[t][k] \in Nat /\ lfs'[t][k] >= lfs[t][k]
    BY <2>1, <2>2 DEF Newest
  <2>4. ItemInv(t, k) /\ (Serves(t, k)' <=> Serves(t, k)) /\ (Relisting(t, k)' <=> Relisting(t, k))
    BY <1>1 DEF ItemInv, ServesInv, KeptInv, Serves, Relisting, memVars, At,
       IsModification
  <2> QED
    BY <1>1, <2>3, <2>4, ItemKept DEF memVars, historyVars
<1>3. PagesDistinct'
  BY <1>1 DEF ServesInv, PagesDistinct, memVars
<1> QED
  BY <1>2, <1>3 DEF ServesInv, KeptInv, ItemInv

(* A page that is filled serves its key, if it has served no other of the  *)
(* segment.                                                                *)
LEMMA FillDoesMore ==
    ASSUME TypeOK, TasksInv, SegmentsHeld, PagesInv, NEW w \in Tasks, Fill(w), ~mixed',
           NEW t0, NEW k0, t0 = task[w].tbl, k0 = task[w].key, NEW p, p = task[w].page
    PROVE  /\ t0 \in Tables /\ k0 \in Keys /\ p \in Frames
           /\ page[p].parent = t0 /\ \A j \in Keys \ {k0} : seg[t0][j] # p
           /\ \A t \in Tables, k \in Keys :
                 seg'[t][k] = IF t = t0 /\ k = k0 THEN p ELSE seg[t][k]
           /\ \A f \in Frames \ {p} : page'[f] = page[f]
           /\ page'[p].rec = Rec(w) /\ page'[p].parent = t0
           /\ page'[p].modified = IsModification(w)
           /\ \A u \in Tasks \ {w} : /\ task'[u] = task[u]
                                      /\ ~(At(u, "fill") /\ task[u].tbl = t0)
           /\ task'[w].pc = "done" /\ task[w].pc = "fill"
           /\ UNCHANGED lfsVars
<1>1. t0 \in Tables /\ k0 \in Keys /\ p \in Frames /\ Rec(w) \in Record
  BY Got, Working, Written DEF Fill, At, HeldPc, WritePc
<1>2. page[p].parent = t0 /\ \A j \in Keys \ {k0} : seg[t0][j] # p
  BY DEF Fill
<1>3. page[p].modified = IsModification(w)
  BY <1>2 DEF PagesInv, TaskPage, Owned, Fill
<1>4. page' = [page EXCEPT ![p].rec = Rec(w)] /\ seg' = [seg EXCEPT ![t0][k0] = p]
  BY DEF Fill
<1>5. /\ \A f \in Frames \ {p} : page'[f] = page[f]
      /\ page'[p].rec = Rec(w) /\ page'[p].parent = page[p].parent
      /\ page'[p].modified = page[p].modified
  BY <1>1, <1>4, RecordWritten DEF TypeOK
<1>6. \A t \in Tables, k \in Keys :
         seg'[t][k] = IF t = t0 /\ k = k0 THEN p ELSE seg[t][k]
  BY <1>1, <1>4 DEF TypeOK
<1>7. \A u \in Tasks \ {w} : ~(At(u, "fill") /\ task[u].tbl = t0)
  BY DEF SegmentsHeld, HoldsSegment, Fill, At
<1>8. /\ \A u \in Tasks \ {w} : task'[u] = task[u]
      /\ task'[w].pc = "done" /\ task[w].pc = "fill" /\ UNCHANGED lfsVars
  BY FillDoes DEF Becomes, Fill, At
<1> QED
  BY <1>1, <1>2, <1>3, <1>5, <1>6, <1>7, <1>8

(* What a SELECT has got is no older than the acknowledged records that no *)
(* page keeps.                                                             *)
LEMMA RefillFresh ==
    ASSUME TypeOK, TasksInv, RefillInv, NEW w \in Tasks, task[w].op = "select",
           task[w].pc \in WritePc, Item(w) \notin outdated, NEW ts \in Nat,
           Sent(task[w].tbl, task[w].key, ts)
    PROVE  task[w].ts >= ts
<1>1. /\ task[w].ts = lfs[task[w].tbl][task[w].key] /\ task[w].ts \in Nat
      /\ \A r \in wire : <<r.tbl, r.key>> = Item(w) => r.ts <= task[w].ts
  BY RefillOf, TimesAreNat
<1>2. \A r \in wire : r.ts \in Nat
  BY TimesAreNat DEF TypeOK
<1> QED
  BY <1>1, <1>2 DEF Sent, Item

LEMMA FillItem ==
    ASSUME TypeOK, TasksInv, SegmentsHeld, PagesInv, RefillInv, ServesInv, KeptInv,
           NEW w \in Tasks, Fill(w), ~mixed',
           NEW t, NEW k, t = task[w].tbl, k = task[w].key
    PROVE  ItemInv(t, k)'
<1> DEFINE p == task[w].page
           a == acked[t][k]
           ts == task[w].ts
           l == lfs[t][k]
<1>1. /\ t \in Tables /\ k \in Keys /\ p \in Frames /\ seg'[t][k] = p
      /\ page'[p].rec = Rec(w) /\ page'[p].parent = t
      /\ page'[p].modified = IsModification(w)
      /\ \A u \in Tasks \ {w} : /\ task'[u] = task[u]
                                 /\ ~(At(u, "fill") /\ task[u].tbl = t)
      /\ task'[w].pc = "done" /\ task[w].pc = "fill" /\ lfs' = lfs /\ wire' = wire
  BY FillDoesMore DEF lfsVars
<1>2. /\ a \in Nat /\ l \in Nat /\ ts \in Nat /\ p # None
      /\ task[w].op \in {"select", "insert"}
  BY <1>1, TimesAreNat, Working, NoneAssumption DEF Frames, WritePc
<1>3. /\ Serves(t, k)' /\ RecOf(t, k)' = Rec(w)
      /\ Rec(w).tbl = t /\ Rec(w).key = k /\ Rec(w).ts = ts
  BY <1>1, <1>2 DEF Serves, RecOf, At, Rec
<1>4. Sent(t, k, a)
  BY <1>1, NotServed DEF KeptInv, KeepsAcked, At
<1>5. /\ task[w].op = "insert" => acked'[t][k] = Newest(a, ts)
      /\ task[w].op # "insert" => acked'[t][k] = a /\ ts <= l
  <2>1. task[w].pc \in WritePc /\ task[w].pc # "idle" /\ Finish(w, Rec(w))
    BY <1>1 DEF Fill, WritePc
  <2> QED
    <3>1. task[w].op = "select" => ts <= l
      BY <2>1, RefillOf
    <3>2. /\ task[w].op = "insert" => acked'[t][k] = Newest(a, ts)
          /\ task[w].op # "insert" => acked' = acked
      BY <2>1, AckedMine
    <3> QED
      BY <1>2, <3>1, <3>2
<1>6. <<t, k>> \notin outdated' => ts >= a
  <2>1. CASE task[w].op = "insert"
    BY <1>2, <2>1 DEF Fill, Item
  <2>2. CASE task[w].op = "select"
    <3>1. <<t, k>> \notin outdated' => Item(w) \notin outdated
      BY <2>2 DEF Fill, Item
    <3> QED
      BY <1>1, <1>2, <1>4, <2>2, <3>1, RefillFresh DEF WritePc
  <2> QED
    BY <1>2, <2>1, <2>2
<1>7. l >= a \/ \E q \in wire : q.tbl = t /\ q.key = k /\ q.ts >= a
  BY <1>4 DEF Sent
<1>8. page'[p].modified <=> task[w].op = "insert"
  BY <1>1 DEF IsModification
<1> HIDE DEF p, a, ts, l
<1>9. <<t, k>> \notin outdated' => ts >= acked'[t][k]
  BY <1>2, <1>5, <1>6 DEF Newest
<1>10. page'[p].modified \/ ts <= l
  BY <1>5, <1>8
<1>11. \/ l >= acked'[t][k]
       \/ \E q \in wire : q.tbl = t /\ q.key = k /\ q.ts >= acked'[t][k]
       \/ (page'[p].modified /\ ts >= acked'[t][k])
  <2>1. CASE acked'[t][k] = a
    BY <1>7, <2>1
  <2>2. CASE task[w].op = "insert" /\ acked'[t][k] = ts
    BY <1>2, <1>8, <2>2
  <2> QED
    BY <1>5, <2>1, <2>2 DEF Newest
<1> QED
  BY <1>1, <1>3, <1>9, <1>10, <1>11, ItemHolds DEF l

LEMMA ItemsFill ==
    ASSUME TypeOK, TasksInv, SegmentsHeld, PagesInv, RefillInv, ServesInv, KeptInv,
           NEW w \in Tasks, Fill(w), ~mixed'
    PROVE  ServesInv' /\ KeptInv'
<1> DEFINE t0 == task[w].tbl
           k0 == task[w].key
           p == task[w].page
<1>1. /\ t0 \in Tables /\ k0 \in Keys /\ p \in Frames
      /\ page[p].parent = t0 /\ \A j \in Keys \ {k0} : seg[t0][j] # p
      /\ \A t \in Tables, k \in Keys :
            seg'[t][k] = IF t = t0 /\ k = k0 THEN p ELSE seg[t][k]
      /\ \A f \in Frames \ {p} : page'[f] = page[f]
      /\ page'[p].parent = t0
      /\ \A u \in Tasks \ {w} : task'[u] = task[u]
      /\ task'[w].pc = "done" /\ task[w].pc = "fill" /\ task[w].page = p
      /\ lfs' = lfs /\ wire' = wire
  BY FillDoesMore DEF lfsVars
<1>2. outdated \subseteq outdated'
  BY HistoryDoes DEF Write
<1>3. ASSUME NEW t \in Tables, NEW k \in Keys, Item(w) # <<t, k>>
      PROVE  ItemInv(t, k)'
  <2>0. ~(t = t0 /\ k = k0) /\ acked'[t][k] = acked[t][k]
    BY <1>3, HistoryDoes DEF Item, Write
  <2> HIDE DEF t0, k0, p
  <2>1. seg'[t][k] = seg[t][k]
    BY <1>1, <2>0
  <2>2. seg[t][k] = p => ~Serves(t, k) /\ ~Serves(t, k)'
    BY <1>1, <2>0, <2>1 DEF Serves
  <2>3. seg[t][k] # None /\ seg[t][k] # p => page'[seg[t][k]] = page[seg[t][k]]
    BY <1>1, ServedRec
  <2>4. seg[t][k] # p => (Serves(t, k) <=> Serves(t, k)')
    BY <1>1, <2>1, <2>3 DEF Serves, At
  <2>5. Relisting(t, k) => Relisting(t, k)'
    BY <1>1, <2>1 DEF Relisting, At, IsModification
  <2>6. lfs[t][k] \in Nat /\ lfs[t][k] >= lfs[t][k]
    BY TimesAreNat
  <2>7. ItemInv(t, k)
    BY DEF ItemInv, ServesInv, KeptInv
  <2>8. Serves(t, k)' \/ (Serves(t, k) /\ page[seg[t][k]].modified) =>
           /\ Serves(t, k) /\ Serves(t, k)' /\ seg'[t][k] = seg[t][k]
           /\ page'[seg[t][k]] = page[seg[t][k]]
    BY <2>1, <2>2, <2>3, <2>4 DEF Serves
  <2> QED
    BY <1>1, <1>2, <2>0, <2>5, <2>6, <2>7, <2>8, ItemKept
<1>4. ASSUME NEW t \in Tables, NEW k \in Keys PROVE ItemInv(t, k)'
  <2>1. CASE Item(w) = <<t, k>>
    <3>1. t = task[w].tbl /\ k = task[w].key
      BY <2>1 DEF Item
    <3> QED
      BY <3>1, FillItem
  <2> QED
    BY <1>3, <2>1
<1>5. PagesDistinct'
  <2> HIDE DEF t0, k0, p
  <2> SUFFICES ASSUME NEW t \in Tables, NEW j \in Keys, NEW k \in Keys,
                      seg'[t][j] # None, seg'[t][j] = seg'[t][k]
               PROVE  j = k
    BY DEF PagesDistinct
  <2> QED
    BY <1>1 DEF ServesInv, PagesDistinct
<1> QED
  BY <1>4, <1>5 DEF ServesInv, KeptInv, ItemInv

LEMMA ItemsSame ==
    ASSUME UNCHANGED <<task, memVars, lfsVars, historyVars>>
    PROVE  /\ ServesInv => ServesInv'
           /\ KeptInv => KeptInv'
<1> USE DEF memVars, lfsVars, historyVars
<1>1. ASSUME NEW t \in Tables, NEW k \in Keys
      PROVE  /\ Serves(t, k)' <=> Serves(t, k)
             /\ ServesKey(t, k) => ServesKey(t, k)'
             /\ KeepsAcked(t, k) => KeepsAcked(t, k)'
  <2>1. Serves(t, k)' <=> Serves(t, k)
    BY DEF Serves, At
  <2>2. RecOf(t, k)' = RecOf(t, k) /\ (Relisting(t, k)' <=> Relisting(t, k))
    BY DEF RecOf, Relisting, At, IsModification
  <2>3. ServesKey(t, k) => ServesKey(t, k)'
    BY <2>2 DEF ServesKey
  <2>4. KeepsAcked(t, k) => KeepsAcked(t, k)'
    BY <2>1, <2>2 DEF KeepsAcked, Sent
  <2> QED
    BY <2>1, <2>3, <2>4
<1>2. PagesDistinct => PagesDistinct'
  BY DEF PagesDistinct
<1> QED
  BY <1>1, <1>2 DEF ServesInv, KeptInv

LEMMA ItemsStep ==
    ASSUME TypeOK, TasksInv, QueueInv, SegmentsHeld, LruExact, PagesInv, RefillInv,
           ServesInv, KeptInv, Next, ~mixed'
    PROVE  ServesInv' /\ KeptInv'
<1>1. ASSUME NEW w \in Tasks,
             \/ GuardBlocked(w) \/ GuardEnter(w) \/ Dispatch(w) \/ Reschedule(w)
             \/ ReadFind(w) \/ ReadForeign(w) \/ ReadModified(w) \/ ReadClean(w)
             \/ ReadTouch(w) \/ LfsSelect(w) \/ WriteFind(w) \/ WriteForeign(w)
             \/ AllocFull(w) \/ AllocEvict(w)
      PROVE  ServesInv' /\ KeptInv'
  <2>1. /\ \A u \in Tasks \ {w} : task'[u] = task[u]
        /\ outdated \subseteq outdated' /\ UNCHANGED lfsVars
    BY <1>1, WorkerDoes, WorkerFrame, HistoryDoes DEF Main, Read, Write
  <2>2. /\ task[w].pc \notin {"fill", "relist"} /\ UNCHANGED <<seg, page>>
    BY <1>1 DEF GuardBlocked, GuardEnter, Dispatch, Reschedule, ReadFind,
       ReadForeign, ReadModified, ReadClean, ReadTouch, LfsSelect, WriteFind,
       WriteForeign, AllocFull, AllocEvict, At, memVars
  <2>3. task'[w].pc # "fill"
    <3> USE DEF Moves, Becomes
    <3>1. GuardBlocked(w) \/ GuardEnter(w) \/ Dispatch(w) \/ Reschedule(w) =>
             task'[w].pc # "fill"
      BY GuardBlockedDoes, GuardEnterDoes, DispatchDoes, RescheduleDoes
    <3>2. (\/ ReadFind(w) \/ ReadForeign(w) \/ ReadModified(w) \/ ReadClean(w)
           \/ ReadTouch(w) \/ LfsSelect(w)) => task'[w].pc # "fill"
      BY ReadFindDoes, ReadForeignDoes, ReadModifiedDoes, ReadCleanDoes, ReadTouchDoes,
         LfsSelectDoes
    <3>3. WriteFind(w) \/ WriteForeign(w) \/ AllocFull(w) \/ AllocEvict(w) =>
             task'[w].pc # "fill"
      BY WriteFindDoes, WriteForeignDoes, AllocFullDoes, AllocEvictDoes
    <3> QED
      BY <1>1, <3>1, <3>2, <3>3
  <2>4. acked' = acked
    <3>1. CASE ReadModified(w) \/ ReadTouch(w)
      <4>1. task[w].op = "select"
        BY <3>1 DEF ReadModified, ReadTouch, TasksInv, At, ReadPc
      <4> QED
        BY <3>1, <4>1 DEF ReadModified, ReadTouch, Finish
    <3>2. CASE ~(ReadModified(w) \/ ReadTouch(w))
      BY <1>1, <3>2 DEF GuardBlocked, GuardEnter, Dispatch, Reschedule, ReadFind,
         ReadForeign, ReadClean, LfsSelect, WriteFind, WriteForeign, AllocFull,
         AllocEvict, historyVars
    <3> QED
      BY <3>1, <3>2
  <2> QED
    BY <2>1, <2>2, <2>3, <2>4, ItemsQuiet
<1>2. ASSUME NEW w \in Tasks,
             \/ WriteOlder(w) \/ WriteSame(w) \/ WriteOther(w) \/ Relist(w)
             \/ AllocNew(w) \/ Evict(w) \/ Fill(w)
      PROVE  ServesInv' /\ KeptInv'
  BY <1>2, ItemsOwn, ItemsAssign, ItemsFill
<1>3. CASE Requests \/ SetAwaiting \/ JournalWake
  <2>1. PICK w \in Tasks : /\ \A u \in Tasks \ {w} : task'[u] = task[u]
                           /\ task[w].pc \in Outside /\ task'[w].pc \in {"new", "awaiting"}
                           /\ UNCHANGED <<lfsVars, memVars, historyVars>>
    BY <1>3, OuterDoes
  <2> QED
    BY <2>1, ItemsQuiet DEF Outside, memVars, historyVars
<1>4. CASE JournalRun \/ \E r \in wire : LfsInsert(r)
  BY <1>4, ItemsJournal, ItemsLfs
<1>5. CASE UNCHANGED <<task, memVars, lfsVars, historyVars>>
  BY <1>5, ItemsSame
<1> QED
  BY <1>1, <1>2, <1>3, <1>4, <1>5 DEF Next, Main, Read, Write, Journal, JournalTick,
     JournalBlock, JournalAlone, JournalUnblock, JournalEnd

(* A page that serves the key asked for answers a SELECT ...               *)
LEMMA PageAnswers ==
    ASSUME TypeOK, TasksInv, SegmentsHeld, PagesInv, FloorInv, ServesInv,
           NEW w \in Tasks, Owned(w), Item(w) \notin outdated,
           task[w].pc \in {"readPage", "touch", "writePage", "relist"},
           NEW r, r = page[task[w].page].rec
    PROVE  /\ r # None /\ r.ts \in Nat
           /\ <<r.tbl, r.key>> = Item(w) /\ r.ts >= task[w].floor
<1> DEFINE t == task[w].tbl
           k == task[w].key
<1>1. t \in Tables /\ k \in Keys /\ Serves(t, k) /\ RecOf(t, k) = r
  BY ServesMine
<1>2. r \in Record /\ r.ts \in Nat /\ r # None
  <2>1. seg[t][k] # None
    BY <1>1 DEF Serves
  <2> QED
    BY <1>1, <2>1, ServedRec, NoneRecordAssumption
<1>3. r.tbl = t /\ r.key = k /\ r.ts >= acked[t][k]
  BY <1>1 DEF ServesInv, ServesKey, Item
<1>4. task[w].floor <= acked[t][k]
  BY DEF FloorInv
<1>5. acked[t][k] \in Nat /\ task[w].floor \in Nat
  BY <1>1, TimesAreNat
<1> QED
  BY <1>2, <1>3, <1>4, <1>5 DEF Item

(* ... and so does the record LFS has sent, once its page holds it.        *)
LEMMA RecAnswers ==
    ASSUME TypeOK, TasksInv, SegmentsHeld, PagesInv, RefillInv, FloorInv, ServesInv,
           KeptInv, NEW w \in Tasks, task[w].op = "select", Item(w) \notin outdated,
           WriteSame(w) \/ Relist(w) \/ Fill(w)
    PROVE  task[w].ts >= task[w].floor
<1>1. task[w].ts \in Nat /\ task[w].floor \in Nat
  BY TimesAreNat
<1>2. CASE WriteSame(w)
  <2>1. Owned(w) /\ task[w].ts >= page[task[w].page].rec.ts /\ task[w].pc = "writePage"
    BY <1>2 DEF WriteSame, At
  <2>2. /\ page[task[w].page].rec.ts \in Nat
        /\ page[task[w].page].rec.ts >= task[w].floor
    BY <2>1, PageAnswers
  <2> QED
    BY <1>1, <2>1, <2>2
<1>3. CASE Relist(w)
  <2>1. task[w].pc = "relist" /\ Owned(w) /\ page[task[w].page].rec = Rec(w)
    BY <1>3 DEF Relist, PagesInv, TaskPage, At
  <2>2. page[task[w].page].rec.ts >= task[w].floor
    BY <2>1, PageAnswers
  <2> QED
    BY <2>1, <2>2 DEF Rec
<1>4. CASE Fill(w)
  <2> DEFINE a == acked[task[w].tbl][task[w].key]
  <2>1. /\ At(w, "fill") /\ task[w].pc \in WritePc
        /\ task[w].tbl \in Tables /\ task[w].key \in Keys
    BY <1>4, Working DEF Fill, At, WritePc
  <2>2. a \in Nat /\ task[w].floor <= a
    BY <2>1, TimesAreNat DEF FloorInv, At
  <2>3. Sent(task[w].tbl, task[w].key, a)
    BY <2>1, NotServed DEF KeptInv, KeepsAcked
  <2>4. task[w].ts >= a
    BY <2>1, <2>2, <2>3, RefillFresh
  <2> QED
    BY <1>1, <2>2, <2>4
<1> QED
  BY <1>2, <1>3, <1>4

AnswerExact(w) ==
    IF task[w].reply = None THEN task[w].floor = 0
    ELSE /\ <<task[w].reply.tbl, task[w].reply.key>> = Item(w)
         /\ task[w].reply.ts >= task[w].floor

LEMMA SelectAnswer ==
    ASSUME TypeOK, TasksInv, SegmentsHeld, PagesInv, RefillInv, FloorInv, ReplyInv,
           ServesInv, KeptInv, AskingInv, NEW w \in Tasks, task[w].op = "select",
           Main(w) \/ Read(w) \/ Write(w), At(w, "done")', Item(w) \notin outdated'
    PROVE  AnswerExact(w)'
<1>1. /\ Item(w) \notin outdated /\ Item(w)' = Item(w) /\ task'[w].floor = task[w].floor
      /\ task[w].floor \in Nat
  BY HistoryDoes, WorkerDoes, WorkerFrame, TimesAreNat DEF Item
<1>2. CASE ReadModified(w) \/ ReadTouch(w) \/ WriteOlder(w)
  <2>1. Owned(w) /\ task[w].pc \in {"readPage", "touch", "writePage", "relist"}
    BY <1>2 DEF ReadModified, ReadTouch, WriteOlder, PagesInv, TaskPage, At
  <2>2. task'[w].reply = page[task[w].page].rec
    BY <1>2, ReadModifiedDoes, ReadTouchDoes, WriteOlderDoes DEF Becomes
  <2> DEFINE r == page[task[w].page].rec
  <2>3. r # None /\ <<r.tbl, r.key>> = Item(w) /\ r.ts >= task[w].floor
    BY <1>1, <2>1, PageAnswers
  <2> QED
    BY <1>1, <2>2, <2>3 DEF AnswerExact
<1>3. CASE WriteSame(w) \/ Relist(w) \/ Fill(w)
  <2>1. task'[w].reply = Rec(w)
    BY <1>3, WriteSameDoes, RelistDoes, FillDoes DEF Becomes
  <2>2. Rec(w) # None
    BY <1>3, Written, NoneRecordAssumption DEF WriteSame, Relist, Fill, At, WritePc
  <2>3. task[w].ts >= task[w].floor
    BY <1>1, <1>3, RecAnswers
  <2> QED
    BY <1>1, <2>1, <2>2, <2>3 DEF AnswerExact, Rec, Item
<1>4. CASE LfsSelect(w)
  <2> DEFINE t == task[w].tbl
             k == task[w].key
  <2>1. t \in Tables /\ k \in Keys /\ At(w, "asking") /\ task[w].reply = None
    BY <1>4, Working DEF LfsSelect, At, ReadPc, ReplyInv
  <2>2. lfs[t][k] = 0 /\ task'[w].reply = task[w].reply
    BY <1>4, LfsSelectDoes DEF Moves, Becomes, At
  <2>3. ~ \E r \in wire : <<r.tbl, r.key>> = Item(w) /\ r.ts > lfs[r.tbl][r.key]
    BY <1>1, <1>4 DEF LfsSelect
  <2>4. ASSUME NEW r \in wire, r.tbl = t, r.key = k, r.ts >= task[w].floor PROVE FALSE
    <3>1. r.ts \in Nat \ {0}
      BY TimesAreNat DEF TypeOK
    <3>2. <<r.tbl, r.key>> = Item(w) /\ r.ts > lfs[r.tbl][r.key]
      BY <2>2, <2>4, <3>1 DEF Item
    <3> QED
      BY <2>3, <3>2
  <2>5. Sent(t, k, task[w].floor)
    BY <2>1 DEF AskingInv
  <2>6. task[w].floor = 0
    BY <1>1, <2>2, <2>4, <2>5 DEF Sent
  <2> QED
    BY <1>1, <2>1, <2>2, <2>6 DEF AnswerExact
<1>5. CASE ~(\/ ReadModified(w) \/ ReadTouch(w) \/ WriteOlder(w) \/ WriteSame(w)
             \/ Relist(w) \/ Fill(w) \/ LfsSelect(w))
  <2> USE DEF Moves, Becomes, At
  <2>1. Main(w) => task'[w].pc # "done"
    BY GuardBlockedDoes, GuardEnterDoes, DispatchDoes, RescheduleDoes DEF Main
  <2>2. Read(w) => task'[w].pc # "done"
    BY <1>5, ReadFindDoes, ReadForeignDoes, ReadCleanDoes DEF Read
  <2>3. Write(w) => task'[w].pc # "done"
    BY <1>5, WriteFindDoes, WriteForeignDoes, WriteOtherDoes, AllocNewDoes,
       AllocFullDoes, AllocEvictDoes, EvictDoes DEF Write
  <2> QED
    BY <2>1, <2>2, <2>3
<1> QED
  BY <1>2, <1>3, <1>4, <1>5

LEMMA SelectStep ==
    ASSUME TypeOK, TasksInv, QueueInv, SegmentsHeld, PagesInv, RefillInv, FloorInv,
           ReplyInv, ServesInv, KeptInv, AskingInv, SelectExact, Next, ~mixed'
    PROVE  SelectExact'
<1>1. ASSUME NEW w \in Tasks, Main(w) \/ Read(w) \/ Write(w) PROVE SelectExact'
  <2>1. /\ \A u \in Tasks \ {w} : task'[u] = task[u]
        /\ task'[w].op = task[w].op /\ task'[w].tbl = task[w].tbl
        /\ task'[w].key = task[w].key
        /\ outdated \subseteq outdated' /\ ~mixed
    BY <1>1, WorkerDoes, WorkerFrame, HistoryDoes
  <2>2. ASSUME NEW u \in Tasks, task'[u].pc = "done", task'[u].op = "select",
               Item(u)' \notin outdated'
        PROVE  AnswerExact(u)'
    <3>1. CASE u = w
      BY <1>1, <2>1, <2>2, <3>1, SelectAnswer DEF At, Item
    <3>2. CASE u # w
      BY <2>1, <2>2, <3>2 DEF SelectExact, AnswerExact, At, Item
    <3> QED
      BY <3>1, <3>2
  <2> QED
    BY <2>2 DEF SelectExact, AnswerExact, At
<1>2. CASE Requests \/ SetAwaiting \/ JournalWake
  <2>1. PICK w \in Tasks : /\ \A u \in Tasks \ {w} : task'[u] = task[u]
                           /\ task'[w].pc \in {"new", "awaiting"}
                           /\ UNCHANGED historyVars
    BY <1>2, OuterDoes
  <2> QED
    BY <2>1 DEF SelectExact, At, Item, historyVars
<1>3. CASE UNCHANGED <<task, historyVars>>
  BY <1>3 DEF SelectExact, At, Item, historyVars
<1> QED
  BY <1>1, <1>2, <1>3 DEF Next, Journal, JournalTick, JournalBlock, JournalAlone,
     JournalRun, JournalUnblock, JournalEnd, LfsInsert

-----------------------------------------------------------------------------
(* The invariant and what follows from it.                                 *)

LEMMA InitInv == Init => IInv
<1> SUFFICES ASSUME Init PROVE IInv
  OBVIOUS
<1>1. TypeOK
  <2>1. NoTask \in Task
    BY DEF NoTask, Task, Pc, Outside, Slot
  <2>2. NoPage \in Page
    BY DEF NoPage, Page
  <2>3. 0 \in 0 .. FrameMax /\ <<>> \in Seq(Frames) /\ <<>> \in Seq(Tasks)
    BY FrameMaxAssumption
  <2> QED
    BY <2>1, <2>2, <2>3 DEF Init, TypeOK, Times, Slot
<1>2. \A w \in Tasks : task[w] = NoTask
  BY DEF Init
<1>3. lru = <<>> /\ queue = <<>> /\ DOMAIN lru = {} /\ DOMAIN queue = {}
  BY DEF Init
<1>4. TasksInv /\ QueueInv /\ JournalInv /\ SegmentsHeld /\ OneEviction
  BY <1>2, <1>3 DEF Init, TasksInv, QueueInv, JournalInv, SegmentsHeld, OneEviction,
     NoTwice, NoTask, ReadPc, WritePc, HeldPc, HoldsSegment, At
<1>5. PagesInv
  BY <1>2 DEF Init, PagesInv, TaskPage, NoTask, HeldPc, At, Found
<1>6. LruExact
  <2>1. {f \in Frames : f < count /\ ~page[f].modified} = {}
    BY DEF Init, Frames
  <2>2. Listed = {} /\ Evicting = {}
    BY <1>2, <1>3 DEF Listed, Evicting, NoTask, At
  <2> QED
    BY <1>3, <2>1, <2>2 DEF LruExact
<1>7. DataInv
  <2>1. RefillInv /\ FloorInv /\ ReplyInv /\ AskingInv /\ SelectExact
    BY <1>2 DEF RefillInv, FloorInv, ReplyInv, AskingInv, SelectExact, NoTask,
       WritePc, At
  <2>2. \A t \in Tables, k \in Keys : seg[t][k] = None
    BY DEF Init
  <2>3. \A t \in Tables, k \in Keys : lfs[t][k] >= acked[t][k]
    BY <1>1, TimesAreNat DEF Init
  <2> QED
    BY <2>1, <2>2, <2>3 DEF DataInv, ServesInv, PagesDistinct, Serves, KeptInv,
       KeepsAcked, Sent
<1> QED
  BY <1>1, <1>4, <1>5, <1>6, <1>7 DEF IInv

LEMMA NextInv == IInv /\ Next => IInv'
<1> SUFFICES ASSUME IInv, Next PROVE IInv'
  OBVIOUS
<1> USE DEF IInv, DataInv
<1>1. TypeOK' /\ TasksInv'
  BY TypeNext, TasksNext
<1>2. QueueInv' /\ JournalInv' /\ SegmentsHeld' /\ OneEviction'
  BY QueueStep, JournalStep, HoldersStep
<1>3. PagesInv' /\ LruExact'
  BY PagesStep, LruStep
<1>4. RefillInv' /\ FloorInv' /\ ReplyInv'
  BY RefillStep, FloorStep, ReplyStep
<1>5. ASSUME ~mixed' PROVE ServesInv' /\ KeptInv' /\ AskingInv' /\ SelectExact'
  <2>1. ~mixed
    <3>1. CASE \E w \in Tasks : Main(w) \/ Read(w) \/ Write(w)
      BY <1>5, <3>1, HistoryDoes
    <3>2. CASE Requests \/ SetAwaiting \/ JournalWake
      BY <1>5, <3>2, OuterDoes DEF historyVars
    <3>3. CASE UNCHANGED historyVars
      BY <1>5, <3>3 DEF historyVars
    <3> QED
      BY <3>1, <3>2, <3>3 DEF Next, Journal, JournalTick, JournalBlock,
         JournalAlone,
         JournalRun, JournalUnblock, JournalEnd, LfsInsert
  <2> QED
    BY <1>5, <2>1, ItemsStep, AskingStep, SelectStep
<1> QED
  BY <1>1, <1>2, <1>3, <1>4, <1>5

LEMMA StutterInv == IInv /\ UNCHANGED vars => IInv'
<1> SUFFICES ASSUME IInv, UNCHANGED vars PROVE IInv'
  OBVIOUS
<1> USE DEF vars, lfsVars, memVars, journalVars, historyVars, At, Item, Found
<1>1. TypeOK' /\ TasksInv' /\ QueueInv' /\ JournalInv' /\ SegmentsHeld' /\ OneEviction'
  BY DEF IInv, TypeOK, TasksInv, QueueInv, JournalInv, SegmentsHeld, OneEviction,
     Inside, HoldsSegment
<1>2. PagesInv'
  BY DEF IInv, PagesInv, TaskPage, Owned, Rec, IsModification
<1>3. LruExact'
  BY DEF IInv, LruExact, Listed, Evicting
<1>4. RefillInv' /\ FloorInv' /\ ReplyInv'
  BY DEF IInv, DataInv, RefillInv, FloorInv, ReplyInv
<1>5. (~mixed => ServesInv /\ KeptInv /\ AskingInv /\ SelectExact)'
  <2>1. (AskingInv => AskingInv') /\ (SelectExact => SelectExact')
    BY DEF AskingInv, Sent, SelectExact
  <2> QED
    BY <2>1, ItemsSame DEF IInv, DataInv
<1> QED
  BY <1>1, <1>2, <1>3, <1>4, <1>5 DEF IInv, DataInv

LEMMA Invariance == Spec => []IInv
<1>1. IInv /\ [Next]_vars => IInv'
  BY NextInv, StutterInv
<1> QED
  BY InitInv, <1>1, PTL DEF Spec

(* Every variable of the cache holds what the code gives it room for.      *)
THEOREM TypesCorrect == Spec => []TypeOK
<1>1. IInv => TypeOK
  BY DEF IInv
<1> QED
  BY Invariance, <1>1, PTL

(* The LRU list holds each page in use that may be replaced, once, and no  *)
(* other, but for the page being evicted (mm.c:230): a modified page is    *)
(* never evicted, and no page is lost to evictions.                        *)
THEOREM LruExactCorrect == Spec => []LruExact
<1>1. IInv => LruExact
  BY DEF IInv
<1> QED
  BY Invariance, <1>1, PTL

(* No acknowledged INSERT is lost through journals, refills and evictions, *)
(* as long as no page has come to serve two keys: what LFS has not got is  *)
(* on its way, or in a page that the next journal sends.                   *)
THEOREM NoInsertLostCorrect == Spec => []NoInsertLost
<1>1. IInv => NoInsertLost
  <2> SUFFICES ASSUME IInv, ~mixed, NEW t \in Tables, NEW k \in Keys
               PROVE  Kept(t, k, acked[t][k])
    BY DEF NoInsertLost
  <2>1. KeepsAcked(t, k)
    BY DEF IInv, DataInv, KeptInv
  <2>2. Serves(t, k) /\ page[seg[t][k]].modified => <<t, k>> \in Modified
    BY DEF Serves, Modified
  <2> QED
    BY <2>1, <2>2 DEF KeepsAcked, Sent, Kept, RecOf
<1> QED
  BY Invariance, <1>1, PTL

(* A SELECT answers with the key it was asked for and with nothing older   *)
(* than what had been acknowledged when it arrived, but for the three      *)
(* cases the histories `mixed` and `outdated` record.                      *)
THEOREM SelectExactCorrect == Spec => []SelectExact
<1>1. IInv => SelectExact
  <2>1. CASE mixed
    BY <2>1 DEF SelectExact
  <2>2. CASE ~mixed
    BY <2>2 DEF IInv, DataInv
  <2> QED
    BY <2>1, <2>2
<1> QED
  BY Invariance, <1>1, PTL

(* Tasks wait for each other in a circle only around an eviction: the lock *)
(* order segment, page, pagesMtx is broken by no other step.               *)
THEOREM OnlyEvictionSticksCorrect == Spec => []OnlyEvictionSticks
  BY EvictionInCircle, PTL
=============================================================================
