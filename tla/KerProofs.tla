----------------------------- MODULE KerProofs ------------------------------
(***************************************************************************)
(* Theorems about Ker, for any number of MEM nodes, task handles, worker   *)
(* threads, tables, criteria, lines and connections.                       *)
(***************************************************************************)
EXTENDS Ker, SequenceTheorems, TLAPS

-----------------------------------------------------------------------------
(* Types.                                                                  *)

Packet == [h : Handles, id : Nat]

MemNode == [conn : {"null", "connecting", "open", "closed"}, handshaking : BOOLEAN,
            available : BOOLEAN, mtx : SUBSET (Handles \cup {MainThread}),
            out : SUBSET Packet, srv : SUBSET Packet, ans : SUBSET Packet]

Pc == {"idle", "begin", "get", "req", "send", "wait", "assign", "after"}

Ops == {"none", "describe", "create", "drop", "select", "add"}

States == {"none", "new", "ready", "running", "awaiting", "reschedule", "completed"}

Errs == {"none", "failed", "unavailable"}

Task == [state : States, kind : Kinds \cup {"none"},
         pc : Pc, op : Ops, arg : Tables \cup Criteria \cup {"none"},
         got : Nodes \cup {NoNode}, memNumber : Nodes \cup {NoNode}, id : Nat,
         err : Errs, count : Nat]

Main == [pc : {"poll", "unassign", "abort", "flush", "halt", "destroy", "join", "done"},
         n : Nodes \cup {NoNode}, todo : SUBSET Handles, wrote : SUBSET Packet]

TypeOK ==
    /\ node \in [Nodes -> MemNode]
    /\ list \in [Criteria -> Seq(Nodes)]
    /\ meta \subseteq Tables
    /\ task \in [Handles -> Task]
    /\ queue \in Seq(Handles \cup {Pause, Stop})
    /\ pool \in [idle : Nat, paused : Nat, gone : Nat]
    /\ up \in BOOLEAN
    /\ main \in Main
    /\ lines \in Nat /\ opens \in Nat
    /\ lost \subseteq Nat /\ orphan \subseteq Nat /\ stray \subseteq Nat

(* What a task has to have got where its worker stands.                    *)
TaskInv(h) ==
    /\ task[h].op \in {"create", "drop", "select"} => task[h].arg \in Tables
    /\ task[h].pc \in {"get", "req", "send"} =>
          task[h].op \in {"describe", "create", "drop", "select"}
    /\ task[h].pc = "req" => task[h].got \in Nodes
    /\ task[h].pc \in {"send", "wait"} => task[h].memNumber \in Nodes
    /\ task[h].pc = "assign" => task[h].got \in Nodes /\ task[h].arg \in Criteria
    /\ task[h].pc # "idle" => task[h].state \in {"running", "awaiting"}

TasksInv == \A h \in Handles : TaskInv(h)

-----------------------------------------------------------------------------
(* The main thread and the connections.                                    *)

MainInv ==
    /\ main.pc \in {"halt", "destroy", "join", "done"} => ~up
    /\ main.pc \in {"unassign", "abort", "destroy", "flush"} => main.n \in Nodes
    /\ main.pc \in {"unassign", "abort", "destroy"} => node[main.n].conn = "closed"
    /\ main.pc = "flush" => /\ node[main.n].conn = "open"
                            /\ main.wrote \subseteq node[main.n].out

(* A node is available as long as its connection is open and greeted; and  *)
(* a packet is in one place of an open connection.                         *)
NodesInv ==
    \A n \in Nodes :
       /\ node[n].available <=> node[n].conn = "open" /\ ~node[n].handshaking
       /\ node[n].handshaking => node[n].conn \in {"connecting", "open"}
       /\ node[n].conn = "connecting" => node[n].handshaking
       /\ node[n].conn # "open" => Requests(n) = {}
       /\ node[n].out \cap node[n].srv = {}
       /\ node[n].ans \cap (node[n].out \cup node[n].srv) = {}

-----------------------------------------------------------------------------
(* Nodes and criteria.                                                     *)

Unassigning(n) == main.pc = "unassign" /\ main.n = n

(* Who holds listNodeMtx.                                                  *)
MtxInv ==
    /\ \A n \in Nodes :
          \/ node[n].mtx = {}
          \/ node[n].mtx = {MainThread} /\ Unassigning(n)
          \/ \E h \in Handles :
                node[n].mtx = {h} /\ task[h].pc = "assign" /\ task[h].got = n
    /\ \A h \in Handles : task[h].pc = "assign" => node[task[h].got].mtx = {h}

(* A worker about to assign a node has seen it available; since then only  *)
(* the main thread may have begun to take it out.                          *)
AssignInv ==
    \A h \in Handles : task[h].pc = "assign" =>
       /\ ~InList(task[h].got, task[h].arg)
       /\ node[task[h].got].available \/ Unassigning(task[h].got)

-----------------------------------------------------------------------------
(* Requests and tasks.                                                     *)

(* A handle in the pool's queue is there once, and no worker has its task. *)
QueueInv ==
    /\ \A i \in DOMAIN queue : queue[i] \in Handles =>
          task[queue[i]].pc = "idle" /\ task[queue[i]].state \in {"ready", "running"}
    /\ \A i, j \in DOMAIN queue :
          queue[i] \in Handles /\ queue[i] = queue[j] => i = j

(* Ids are given out once, and a request is sent once.                     *)
IdsInv ==
    /\ \A h \in Handles : task[h].id <= lines
    /\ \A h, k \in Handles : task[h].id = task[k].id /\ task[h].id # 0 => h = k
    /\ \A h \in Handles : task[h].pc \notin {"idle", "begin"} => task[h].id # 0
    /\ \A n \in Nodes : \A m \in Requests(n) :
          /\ m.id <= lines
          /\ task[m.h].id = m.id => task[m.h].pc \notin {"get", "req", "send"}

(* A task that was woken up before it had sent its request.                *)
StrayInv ==
    \A h \in Handles : task[h].pc \in {"get", "req", "send"} =>
       task[h].state = "awaiting" \/ task[h].id \in stray

IInv ==
    /\ TypeOK /\ TasksInv /\ MainInv /\ NodesInv /\ MtxInv /\ AssignInv /\ AssignedUsable
    /\ QueueInv /\ IdsInv /\ StrayInv /\ AnswerMatches /\ AwaitingServed /\ SendSafe


-----------------------------------------------------------------------------
(* Lists without repetitions.                                              *)

Members(s) == {s[i] : i \in DOMAIN s}

(* The members of H that the list s has, it has once.                      *)
Once(s, H) == \A i, j \in DOMAIN s : s[i] \in H /\ s[i] = s[j] => i = j

LEMMA Joint ==
    ASSUME NEW S, NEW H, NEW s \in Seq(S), NEW t \in Seq(S), Once(s, H), Once(t, H),
           Members(s) \cap Members(t) \cap H = {}
    PROVE  /\ s \o t \in Seq(S) /\ Len(s \o t) = Len(s) + Len(t)
           /\ Once(s \o t, H)
           /\ Members(s \o t) = Members(s) \cup Members(t)
<1> DEFINE q == s \o t
<1>1. /\ Len(s) \in Nat /\ DOMAIN s = 1 .. Len(s)
      /\ Len(t) \in Nat /\ DOMAIN t = 1 .. Len(t)
  BY LenProperties
<1>2. /\ q \in Seq(S) /\ Len(q) = Len(s) + Len(t)
      /\ \A i \in 1 .. Len(s) + Len(t) : q[i] = IF i <= Len(s) THEN s[i] ELSE t[i - Len(s)]
  BY ConcatProperties
<1>3. DOMAIN q = 1 .. Len(s) + Len(t)
  BY <1>2, LenProperties
<1> HIDE DEF q
<1>4. ASSUME NEW i \in DOMAIN q
      PROVE  \/ i \in DOMAIN s /\ q[i] = s[i]
             \/ i - Len(s) \in DOMAIN t /\ i - Len(s) \in Int /\ q[i] = t[i - Len(s)] /\ i > Len(s)
  BY <1>1, <1>2, <1>3
<1>5. ASSUME NEW i \in DOMAIN s PROVE i \in DOMAIN q /\ q[i] = s[i]
  BY <1>1, <1>2, <1>3
<1>6. ASSUME NEW i \in DOMAIN t PROVE i + Len(s) \in DOMAIN q /\ q[i + Len(s)] = t[i]
  BY <1>1, <1>2, <1>3
<1>7. Members(q) = Members(s) \cup Members(t)
  BY <1>4, <1>5, <1>6 DEF Members
<1>8. ASSUME NEW i \in DOMAIN q, NEW j \in DOMAIN q, q[i] \in H, q[i] = q[j]
      PROVE  i = j
  <2>1. CASE i \in DOMAIN s /\ q[i] = s[i] /\ j \in DOMAIN s /\ q[j] = s[j]
    BY <1>8, <2>1 DEF Once
  <2>2. CASE /\ i - Len(s) \in DOMAIN t /\ q[i] = t[i - Len(s)]
             /\ j - Len(s) \in DOMAIN t /\ q[j] = t[j - Len(s)]
    <3>1. i - Len(s) = j - Len(s)
      BY <1>8, <2>2 DEF Once
    <3> QED
      BY <1>1, <1>3, <3>1
  <2>3. CASE i \in DOMAIN s /\ q[i] = s[i] /\ j - Len(s) \in DOMAIN t /\ q[j] = t[j - Len(s)]
    BY <1>8, <2>3 DEF Members
  <2>4. CASE j \in DOMAIN s /\ q[j] = s[j] /\ i - Len(s) \in DOMAIN t /\ q[i] = t[i - Len(s)]
    BY <1>8, <2>4 DEF Members
  <2> QED
    BY <1>4, <2>1, <2>2, <2>3, <2>4
<1> QED
  BY <1>2, <1>7, <1>8 DEF q, Once

LEMMA Single ==
    ASSUME NEW S, NEW H, NEW x \in S
    PROVE  <<x>> \in Seq(S) /\ Len(<<x>>) = 1 /\ Once(<<x>>, H) /\ Members(<<x>>) = {x}
<1>1. <<x>> \in Seq(S) /\ Len(<<x>>) = 1 /\ DOMAIN <<x>> = {1} /\ <<x>>[1] = x
  OBVIOUS
<1> QED
  BY <1>1 DEF Once, Members

LEMMA Part ==
    ASSUME NEW S, NEW H, NEW s \in Seq(S), Once(s, H),
           NEW a \in Int, NEW b \in Int, 1 <= a, b <= Len(s)
    PROVE  /\ SubSeq(s, a, b) \in Seq(S)
           /\ Len(SubSeq(s, a, b)) = IF a <= b THEN b - a + 1 ELSE 0
           /\ Once(SubSeq(s, a, b), H)
           /\ Members(SubSeq(s, a, b)) = {s[i] : i \in a .. b}
<1> DEFINE q == SubSeq(s, a, b)
<1>1. Len(s) \in Nat /\ DOMAIN s = 1 .. Len(s) /\ s \in [1 .. Len(s) -> S]
  BY LenProperties
<1>2. \A i \in a .. b : i \in DOMAIN s /\ s[i] \in S
  BY <1>1
<1>3. /\ q \in Seq(S) /\ Len(q) = IF a <= b THEN b - a + 1 ELSE 0
      /\ \A i \in 1 .. b - a + 1 : q[i] = s[a + i - 1]
  BY <1>2, SubSeqProperties
<1>4. DOMAIN q = 1 .. b - a + 1
  BY <1>3, LenProperties
<1> HIDE DEF q
<1>5. ASSUME NEW i \in DOMAIN q PROVE a + i - 1 \in a .. b /\ q[i] = s[a + i - 1] /\ i \in Int
  BY <1>3, <1>4
<1>6. ASSUME NEW i \in a .. b PROVE i - a + 1 \in DOMAIN q /\ q[i - a + 1] = s[i]
  <2>1. i - a + 1 \in 1 .. b - a + 1 /\ a + (i - a + 1) - 1 = i
    OBVIOUS
  <2> QED
    BY <1>3, <1>4, <2>1
<1>7. Members(q) = {s[i] : i \in a .. b}
  <2>1. Members(q) \subseteq {s[i] : i \in a .. b}
    BY <1>5 DEF Members
  <2>2. ASSUME NEW i \in a .. b PROVE s[i] \in Members(q)
    BY <1>6 DEF Members
  <2> QED
    BY <2>1, <2>2
<1>8. ASSUME NEW i \in DOMAIN q, NEW j \in DOMAIN q, q[i] \in H, q[i] = q[j]
      PROVE  i = j
  <2>1. a + i - 1 = a + j - 1
    BY <1>2, <1>5, <1>8 DEF Once
  <2> QED
    BY <1>5, <2>1
<1> QED
  BY <1>3, <1>7, <1>8 DEF q, Once

(* A list loses the member n, which it has once.                           *)
LEMMA Removed ==
    ASSUME NEW S, NEW s \in Seq(S), Once(s, S), NEW n \in Members(s)
    PROVE  /\ RemoveNode(s, n) \in Seq(S) /\ Once(RemoveNode(s, n), S)
           /\ Len(RemoveNode(s, n)) = Len(s) - 1
           /\ Members(RemoveNode(s, n)) = Members(s) \ {n}
<1> DEFINE at == CHOOSE i \in DOMAIN s : s[i] = n
           a == SubSeq(s, 1, at - 1)
           b == SubSeq(s, at + 1, Len(s))
<1>1. Len(s) \in Nat /\ DOMAIN s = 1 .. Len(s) /\ s \in [1 .. Len(s) -> S]
  BY LenProperties
<1>2. at \in 1 .. Len(s) /\ s[at] = n
  BY <1>1 DEF Members
<1>3. RemoveNode(s, n) = a \o b
  BY DEF RemoveNode
<1> HIDE DEF at
<1>4. /\ a \in Seq(S) /\ Len(a) = at - 1 /\ Once(a, S) /\ Members(a) = {s[i] : i \in 1 .. at - 1}
  <2>1. 1 \in Int /\ at - 1 \in Int /\ at - 1 <= Len(s) /\ 1 <= 1 /\ at \in Nat
    BY <1>1, <1>2
  <2>2. /\ a \in Seq(S) /\ Once(a, S) /\ Members(a) = {s[i] : i \in 1 .. at - 1}
        /\ Len(a) = IF 1 <= at - 1 THEN (at - 1) - 1 + 1 ELSE 0
    BY <2>1, Part
  <2> QED
    BY <1>2, <2>2
<1>5. /\ b \in Seq(S) /\ Len(b) = Len(s) - at /\ Once(b, S)
      /\ Members(b) = {s[i] : i \in at + 1 .. Len(s)}
  <2>1. at + 1 \in Int /\ Len(s) \in Int /\ 1 <= at + 1 /\ Len(s) <= Len(s)
    BY <1>1, <1>2
  <2>2. /\ b \in Seq(S) /\ Once(b, S) /\ Members(b) = {s[i] : i \in at + 1 .. Len(s)}
        /\ Len(b) = IF at + 1 <= Len(s) THEN Len(s) - (at + 1) + 1 ELSE 0
    BY <2>1, Part
  <2> QED
    BY <1>1, <1>2, <2>2
<1> HIDE DEF a, b
<1>6. ASSUME NEW i \in 1 .. at - 1, NEW j \in at + 1 .. Len(s) PROVE s[i] # s[j]
  <2>1. i \in DOMAIN s /\ j \in DOMAIN s /\ i # j /\ s[i] \in S
    BY <1>1, <1>2
  <2> QED
    BY <2>1 DEF Once
<1>7. Members(a) \cap Members(b) \cap S = {}
  BY <1>4, <1>5, <1>6
<1>8. /\ a \o b \in Seq(S) /\ Len(a \o b) = Len(a) + Len(b) /\ Once(a \o b, S)
      /\ Members(a \o b) = Members(a) \cup Members(b)
  <2>1. a \in Seq(S) /\ b \in Seq(S) /\ Once(a, S) /\ Once(b, S)
    BY <1>4, <1>5
  <2> QED
    BY <1>7, <2>1, Joint
<1>9. Members(a) \cup Members(b) = Members(s) \ {n}
  <2>1. ASSUME NEW i \in DOMAIN s, s[i] # n PROVE i \in 1 .. at - 1 \/ i \in at + 1 .. Len(s)
    BY <1>1, <1>2, <2>1
  <2>2. ASSUME NEW i \in DOMAIN s, i # at PROVE s[i] # n
    BY <1>1, <1>2, <2>2 DEF Once
  <2>3. \A i \in 1 .. at - 1 : i \in DOMAIN s /\ i # at
    BY <1>1, <1>2
  <2>4. \A i \in at + 1 .. Len(s) : i \in DOMAIN s /\ i # at
    BY <1>1, <1>2
  <2> QED
    BY <1>4, <1>5, <2>1, <2>2, <2>3, <2>4 DEF Members
<1>10. Len(a) + Len(b) = Len(s) - 1
  BY <1>1, <1>2, <1>4, <1>5
<1> QED
  BY <1>3, <1>8, <1>9, <1>10

LEMMA Popped ==
    ASSUME NEW S, NEW H, NEW s \in Seq(S), Once(s, H), s # <<>>
    PROVE  /\ Tail(s) \in Seq(S) /\ Once(Tail(s), H) /\ Len(Tail(s)) = Len(s) - 1
           /\ Head(s) \in S /\ Head(s) \in Members(s)
           /\ Members(s) = {Head(s)} \cup Members(Tail(s))
           /\ Head(s) \in H => Head(s) \notin Members(Tail(s))
<1>1. Len(s) \in Nat \ {0} /\ DOMAIN s = 1 .. Len(s) /\ s \in [1 .. Len(s) -> S]
  BY LenProperties, EmptySeq
<1>2. Tail(s) = SubSeq(s, 2, Len(s)) /\ Head(s) = s[1]
  BY TailIsSubSeq
<1>3. 2 \in Int /\ Len(s) \in Int /\ 1 <= 2 /\ Len(s) <= Len(s)
  BY <1>1
<1>4. /\ Tail(s) \in Seq(S) /\ Once(Tail(s), H) /\ Members(Tail(s)) = {s[i] : i \in 2 .. Len(s)}
  <2>1. /\ SubSeq(s, 2, Len(s)) \in Seq(S) /\ Once(SubSeq(s, 2, Len(s)), H)
        /\ Members(SubSeq(s, 2, Len(s))) = {s[i] : i \in 2 .. Len(s)}
    BY <1>3, Part
  <2> QED
    BY <1>2, <2>1
<1>5. Len(Tail(s)) = Len(s) - 1
  BY HeadTailProperties
<1>6. 1 \in DOMAIN s /\ s[1] \in S
  BY <1>1
<1>7. \A i \in DOMAIN s : i = 1 \/ i \in 2 .. Len(s)
  BY <1>1
<1>8. \A i \in 2 .. Len(s) : i \in DOMAIN s /\ i # 1
  BY <1>1
<1> QED
  BY <1>2, <1>4, <1>5, <1>6, <1>7, <1>8 DEF Members, Once

(* The pool's queue with what it is told first.                            *)
LEMMA Padded ==
    ASSUME NEW S, NEW H, NEW s \in Seq(S), Once(s, H), NEW n \in Nat, NEW x \in S, x \notin H
    PROVE  /\ Times(n, x) \o s \in Seq(S) /\ Once(Times(n, x) \o s, H)
           /\ Members(Times(n, x) \o s) \cap H = Members(s) \cap H
<1> DEFINE t == Times(n, x)
<1>1. t = [i \in 1 .. n |-> x]
  BY DEF Times
<1>2. t \in Seq(S) /\ DOMAIN t = 1 .. n /\ \A i \in 1 .. n : t[i] = x
  BY <1>1, IsASeq
<1> HIDE DEF t
<1>3. Once(t, H) /\ Members(t) \cap H = {}
  BY <1>2 DEF Once, Members
<1>4. t \o s \in Seq(S) /\ Once(t \o s, H) /\ Members(t \o s) = Members(t) \cup Members(s)
  BY <1>2, <1>3, Joint
<1> QED
  BY <1>3, <1>4 DEF t

(* One more in front, or at the end.                                       *)
LEMMA Prepended ==
    ASSUME NEW S, NEW H, NEW s \in Seq(S), Once(s, H), NEW x \in S, x \notin Members(s)
    PROVE  /\ <<x>> \o s \in Seq(S) /\ Len(<<x>> \o s) = Len(s) + 1
           /\ Once(<<x>> \o s, H)
           /\ Members(<<x>> \o s) = Members(s) \cup {x}
<1> DEFINE u == <<x>>
<1>1. u \in Seq(S) /\ Len(u) = 1 /\ Once(u, H) /\ Members(u) = {x} /\ Len(s) \in Nat
  BY Single, LenProperties
<1> HIDE DEF u
<1>2. Members(u) \cap Members(s) \cap H = {}
  BY <1>1
<1>3. u \in Seq(S) /\ Once(u, H)
  BY <1>1
<1>4. /\ u \o s \in Seq(S) /\ Len(u \o s) = Len(u) + Len(s) /\ Once(u \o s, H)
      /\ Members(u \o s) = Members(u) \cup Members(s)
  BY <1>2, <1>3, Joint
<1>5. Len(u \o s) = Len(s) + 1 /\ Members(u \o s) = Members(s) \cup {x}
  BY <1>1, <1>4
<1> QED
  BY <1>4, <1>5 DEF u

LEMMA Appended ==
    ASSUME NEW S, NEW H, NEW s \in Seq(S), Once(s, H), NEW x \in S, x \notin Members(s)
    PROVE  /\ Append(s, x) \in Seq(S)
           /\ Once(Append(s, x), H)
           /\ Members(Append(s, x)) = Members(s) \cup {x}
<1> DEFINE u == <<x>>
<1>1. u \in Seq(S) /\ Once(u, H) /\ Members(u) = {x}
  BY Single
<1>2. Append(s, x) = s \o u
  BY AppendIsConcat
<1> HIDE DEF u
<1>3. Members(s) \cap Members(u) \cap H = {}
  BY <1>1
<1>4. u \in Seq(S) /\ Once(u, H)
  BY <1>1
<1>5. /\ s \o u \in Seq(S) /\ Once(s \o u, H)
      /\ Members(s \o u) = Members(s) \cup Members(u)
  BY <1>3, <1>4, Joint
<1> QED
  BY <1>2, <1>1, <1>5

-----------------------------------------------------------------------------
(* What the steps do to a task.                                            *)

(* Only the task of h changes.                                             *)
Only(h) == task' \in [Handles -> Task] /\ \A k \in Handles \ {h} : task'[k] = task[k]

(* ... and the worker and its request stay where they are.                 *)
SameWork(h) ==
    /\ task'[h].pc = task[h].pc /\ task'[h].op = task[h].op /\ task'[h].arg = task[h].arg
    /\ task'[h].got = task[h].got /\ task'[h].memNumber = task[h].memNumber
    /\ task'[h].id = task[h].id

SameRequest(h) ==
    task'[h].id = task[h].id /\ task'[h].memNumber = task[h].memNumber

LEMMA Words ==
    /\ {"none", "new", "ready", "running", "awaiting", "reschedule", "completed"} \subseteq States
    /\ {"none", "failed", "unavailable"} \subseteq Errs
    /\ {"none", "add"} \subseteq Ops
    /\ {"idle", "begin", "get", "req", "send", "wait", "assign", "after"} \subseteq Pc
BY DEF States, Errs, Ops, Pc

LEMMA NoTaskTyped == NoTask \in Task
BY DEF NoTask, Task, States, Errs, Ops, Pc

LEMMA TaskSet ==
    ASSUME TypeOK, NEW h \in Handles, NEW r \in Task, task' = [task EXCEPT ![h] = r]
    PROVE  Only(h) /\ task'[h] = r
BY DEF TypeOK, Only

LEMMA AbortedDoes ==
    ASSUME TypeOK, NEW h \in Handles, AbortTask(h), Aborts(h, main.n)
    PROVE  /\ Only(h)
           /\ SameWork(h)
           /\ task'[h].state = "running"
<1> DEFINE r == [task[h] EXCEPT !.state = "running", !.err = "unavailable"]
<1>1. task[h] \in Task /\ task' = [task EXCEPT ![h] = r]
  BY DEF TypeOK, AbortTask
<1>2. r \in Task
  BY <1>1, Words DEF Task
<1>3. /\ r.pc = task[h].pc /\ r.op = task[h].op /\ r.arg = task[h].arg
      /\ r.got = task[h].got /\ r.memNumber = task[h].memNumber /\ r.id = task[h].id
      /\ r.state = "running"
  BY <1>1 DEF Task
<1> HIDE DEF r
<1> QED
  BY <1>1, <1>2, <1>3, TaskSet DEF SameWork

LEMMA AnsweredDoes ==
    ASSUME TypeOK, NEW h \in Handles, NEW e \in {"none", "failed"},
           task' = [task EXCEPT ![h].state = "running", ![h].err = e]
    PROVE  /\ Only(h)
           /\ SameWork(h)
           /\ task'[h].state = "running"
<1> DEFINE r == [task[h] EXCEPT !.state = "running", !.err = e]
<1>1. task[h] \in Task /\ task' = [task EXCEPT ![h] = r]
  BY DEF TypeOK, AbortTask
<1>2. r \in Task
  BY <1>1, Words DEF Task
<1>3. /\ r.pc = task[h].pc /\ r.op = task[h].op /\ r.arg = task[h].arg
      /\ r.got = task[h].got /\ r.memNumber = task[h].memNumber /\ r.id = task[h].id
      /\ r.state = "running"
  BY <1>1 DEF Task
<1> HIDE DEF r
<1> QED
  BY <1>1, <1>2, <1>3, TaskSet DEF SameWork

LEMMA CreateDoes ==
    ASSUME TypeOK, NEW h \in Handles, NEW kind \in Kinds, CreateTask(h, kind)
    PROVE  /\ Only(h)
           /\ task'[h].state = "new" /\ task'[h].pc = "idle" /\ task'[h].op = "none" /\ task'[h].id = 0
<1> DEFINE r == [NoTask EXCEPT !.state = "new", !.kind = kind]
<1>1. task[h] \in Task /\ task' = [task EXCEPT ![h] = r]
  BY DEF TypeOK, CreateTask
<1>2. r \in Task
  BY <1>1, Words DEF NoTask, Task
<1>3. /\ r.state = "new" /\ r.pc = "idle" /\ r.op = "none" /\ r.id = 0
  BY <1>1 DEF NoTask, Task
<1> HIDE DEF r
<1> QED
  BY <1>1, <1>2, <1>3, TaskSet

LEMMA SubmitDoes ==
    ASSUME TypeOK, NEW h \in Handles, Submit(h)
    PROVE  /\ Only(h)
           /\ SameWork(h)
           /\ task'[h].state = "ready"
<1> DEFINE r == [task[h] EXCEPT !.state = "ready", !.err = "none"]
<1>1. task[h] \in Task /\ task' = [task EXCEPT ![h] = r]
  BY DEF TypeOK, Submit
<1>2. r \in Task
  BY <1>1, Words DEF Task
<1>3. /\ r.pc = task[h].pc /\ r.op = task[h].op /\ r.arg = task[h].arg
      /\ r.got = task[h].got /\ r.memNumber = task[h].memNumber /\ r.id = task[h].id
      /\ r.state = "ready"
  BY <1>1 DEF Task
<1> HIDE DEF r
<1> QED
  BY <1>1, <1>2, <1>3, TaskSet DEF SameWork

LEMMA RescheduleDoes ==
    ASSUME TypeOK, NEW h \in Handles, Reschedule(h)
    PROVE  /\ Only(h)
           /\ SameWork(h)
           /\ task'[h].state = "new"
<1> DEFINE r == [task[h] EXCEPT !.state = "new"]
<1>1. task[h] \in Task /\ task' = [task EXCEPT ![h] = r]
  BY DEF TypeOK, Reschedule
<1>2. r \in Task
  BY <1>1, Words DEF Task
<1>3. /\ r.pc = task[h].pc /\ r.op = task[h].op /\ r.arg = task[h].arg
      /\ r.got = task[h].got /\ r.memNumber = task[h].memNumber /\ r.id = task[h].id
      /\ r.state = "new"
  BY <1>1 DEF Task
<1> HIDE DEF r
<1> QED
  BY <1>1, <1>2, <1>3, TaskSet DEF SameWork

LEMMA FreeDoes ==
    ASSUME TypeOK, NEW h \in Handles, FreeCompleted(h)
    PROVE  /\ Only(h)
           /\ task'[h].state = "none" /\ task'[h].pc = "idle" /\ task'[h].op = "none" /\ task'[h].id = 0
<1> DEFINE r == NoTask
<1>1. task[h] \in Task /\ task' = [task EXCEPT ![h] = r]
  BY DEF TypeOK, FreeCompleted
<1>2. r \in Task
  BY <1>1, Words DEF NoTask, Task
<1>3. /\ r.state = "none" /\ r.pc = "idle" /\ r.op = "none" /\ r.id = 0
  BY <1>1 DEF NoTask, Task
<1> HIDE DEF r
<1> QED
  BY <1>1, <1>2, <1>3, TaskSet

LEMMA PopDoes ==
    ASSUME TypeOK, NEW h \in Handles, PopTask(h)
    PROVE  /\ Only(h)
           /\ SameRequest(h)
           /\ task'[h].op = task[h].op /\ task'[h].arg = task[h].arg
           /\ task'[h].state = "running" /\ task'[h].pc = "begin"
<1> DEFINE r == [task[h] EXCEPT !.state = "running", !.pc = "begin"]
<1>1. task[h] \in Task /\ task' = [task EXCEPT ![h] = r]
  BY DEF TypeOK, PopTask
<1>2. r \in Task
  BY <1>1, Words DEF Task
<1>3. /\ r.memNumber = task[h].memNumber /\ r.id = task[h].id
      /\ r.op = task[h].op /\ r.arg = task[h].arg
      /\ r.state = "running" /\ r.pc = "begin"
  BY <1>1 DEF Task
<1> HIDE DEF r
<1> QED
  BY <1>1, <1>2, <1>3, TaskSet DEF SameRequest

LEMMA StartDoes ==
    ASSUME TypeOK, NEW h \in Handles, NEW op \in Ops, NEW t \in Tables \cup {"none"},
           StartRequest(h, op, t)
    PROVE  /\ Only(h)
           /\ task'[h].state = "awaiting" /\ task'[h].pc = "get"
           /\ task'[h].op = op /\ task'[h].arg = t /\ task'[h].id = lines + 1
<1> DEFINE r == [task[h] EXCEPT !.pc = "get", !.state = "awaiting", !.err = "none", !.op = op,
                          !.arg = t, !.id = lines + 1]
<1>1. task[h] \in Task /\ task' = [task EXCEPT ![h] = r]
  BY DEF TypeOK, StartRequest
<1>2. lines + 1 \in Nat
  BY DEF TypeOK
<1>3. r \in Task
  BY <1>1, <1>2, Words DEF Task
<1>4. /\ r.state = "awaiting" /\ r.pc = "get" /\ r.op = op /\ r.arg = t /\ r.id = lines + 1
  BY <1>1, <1>2 DEF Task
<1> HIDE DEF r
<1> QED
  BY <1>1, <1>3, <1>4, TaskSet

LEMMA GotDoes ==
    ASSUME TypeOK, NEW h \in Handles, NEW n \in Nodes,
           task' = [task EXCEPT ![h].got = n, ![h].pc = "req"]
    PROVE  /\ Only(h)
           /\ SameRequest(h)
           /\ task'[h].op = task[h].op /\ task'[h].arg = task[h].arg
           /\ task'[h].state = task[h].state /\ task'[h].pc = "req" /\ task'[h].got = n
<1> DEFINE r == [task[h] EXCEPT !.got = n, !.pc = "req"]
<1>1. task[h] \in Task /\ task' = [task EXCEPT ![h] = r]
  BY DEF TypeOK, MempoolGet
<1>2. r \in Task
  BY <1>1, Words DEF Task
<1>3. /\ r.memNumber = task[h].memNumber /\ r.id = task[h].id
      /\ r.op = task[h].op /\ r.arg = task[h].arg
      /\ r.state = task[h].state /\ r.pc = "req" /\ r.got = n
  BY <1>1 DEF Task
<1> HIDE DEF r
<1> QED
  BY <1>1, <1>2, <1>3, TaskSet DEF SameRequest

LEMMA GetFailsDoes ==
    ASSUME TypeOK, NEW h \in Handles, MempoolGetFails(h)
    PROVE  /\ Only(h)
           /\ task'[h].op = task[h].op /\ task'[h].arg = task[h].arg
           /\ task'[h].state = "running" /\ task'[h].pc = "after" /\ task'[h].id = task[h].id
<1> DEFINE r == [task[h] EXCEPT !.pc = "after", !.state = "running", !.memNumber = NoNode,
                          !.err = "failed"]
<1>1. task[h] \in Task /\ task' = [task EXCEPT ![h] = r]
  BY DEF TypeOK, MempoolGetFails
<1>2. r \in Task
  BY <1>1, Words DEF Task
<1>3. /\ r.op = task[h].op /\ r.arg = task[h].arg
      /\ r.state = "running" /\ r.pc = "after" /\ r.id = task[h].id
  BY <1>1 DEF Task
<1> HIDE DEF r
<1> QED
  BY <1>1, <1>2, <1>3, TaskSet

LEMMA ReqDoes ==
    ASSUME TypeOK, NEW h \in Handles, NodeReq(h)
    PROVE  /\ Only(h)
           /\ task'[h].op = task[h].op /\ task'[h].arg = task[h].arg
           /\ task'[h].state = task[h].state /\ task'[h].memNumber = task[h].got
           /\ task'[h].got = task[h].got /\ task'[h].id = task[h].id
           /\ task'[h].pc = IF node[task[h].got].conn = "null" THEN "get" ELSE "send"
<1> DEFINE r == [task[h] EXCEPT !.memNumber = task[h].got,
               !.pc = IF node[task[h].got].conn = "null" THEN "get" ELSE "send"]
<1>1. task[h] \in Task /\ task' = [task EXCEPT ![h] = r]
  BY DEF TypeOK, NodeReq
<1>2. r \in Task
  BY <1>1, Words DEF Task
<1>3. /\ r.op = task[h].op /\ r.arg = task[h].arg
      /\ r.state = task[h].state /\ r.memNumber = task[h].got /\ r.got = task[h].got /\ r.id = task[h].id
      /\ r.pc = IF node[task[h].got].conn = "null" THEN "get" ELSE "send"
  BY <1>1 DEF Task
<1> HIDE DEF r
<1> QED
  BY <1>1, <1>2, <1>3, TaskSet

LEMMA MovesDoes ==
    ASSUME TypeOK, NEW h \in Handles, NEW pc \in Pc, task' = [task EXCEPT ![h].pc = pc]
    PROVE  /\ Only(h)
           /\ SameRequest(h)
           /\ task'[h].op = task[h].op /\ task'[h].arg = task[h].arg
           /\ task'[h].state = task[h].state /\ task'[h].got = task[h].got /\ task'[h].pc = pc
<1> DEFINE r == [task[h] EXCEPT !.pc = pc]
<1>1. task[h] \in Task /\ task' = [task EXCEPT ![h] = r]
  BY DEF TypeOK, Send
<1>2. r \in Task
  BY <1>1, Words DEF Task
<1>3. /\ r.memNumber = task[h].memNumber /\ r.id = task[h].id
      /\ r.op = task[h].op /\ r.arg = task[h].arg
      /\ r.state = task[h].state /\ r.got = task[h].got /\ r.pc = pc
  BY <1>1 DEF Task
<1> HIDE DEF r
<1> QED
  BY <1>1, <1>2, <1>3, TaskSet DEF SameRequest

LEMMA AssignDoes ==
    ASSUME TypeOK, NEW h \in Handles, NEW n \in Nodes, NEW c \in Criteria, Assign(h, n, c),
           node[n].available, ~InList(n, c)
    PROVE  /\ Only(h)
           /\ task'[h].state = task[h].state /\ task'[h].memNumber = task[h].memNumber
           /\ task'[h].op = "add" /\ task'[h].pc = "assign"
           /\ task'[h].arg = c /\ task'[h].got = n /\ task'[h].id = lines + 1
<1> DEFINE r == [task[h] EXCEPT !.pc = "assign", !.op = "add", !.arg = c, !.got = n, !.id = lines + 1]
<1>1. task[h] \in Task /\ task' = [task EXCEPT ![h] = r]
  BY DEF TypeOK, Assign
<1>2. lines + 1 \in Nat
  BY DEF TypeOK
<1>3. r \in Task
  <2> DEFINE q == [task[h] EXCEPT !.pc = "assign", !.op = "add"]
             i == lines + 1
  <2>1. q \in Task
    BY <1>1, Words DEF Task
  <2>2. r = [q EXCEPT !.arg = c, !.got = n, !.id = i] /\ i \in Nat
    BY <1>2
  <2> HIDE DEF r, q, i
  <2> QED
    BY <2>1, <2>2 DEF Task
<1>4. /\ r.state = task[h].state /\ r.memNumber = task[h].memNumber /\ r.op = "add"
      /\ r.pc = "assign" /\ r.arg = c /\ r.got = n /\ r.id = lines + 1
  BY <1>1, <1>2 DEF Task
<1> HIDE DEF r
<1> QED
  BY <1>1, <1>3, <1>4, TaskSet

LEMMA AssignFailsDoes ==
    ASSUME TypeOK, NEW h \in Handles, NEW n \in Nodes, NEW c \in Criteria, Assign(h, n, c),
           ~(node[n].available /\ ~InList(n, c))
    PROVE  /\ Only(h)
           /\ task'[h].state = task[h].state /\ task'[h].memNumber = task[h].memNumber
           /\ task'[h].op = "add" /\ task'[h].pc = "after" /\ task'[h].id = lines + 1
<1> DEFINE r == [task[h] EXCEPT !.pc = "after", !.op = "add", !.err = "failed", !.id = lines + 1]
<1>1. task[h] \in Task /\ task' = [task EXCEPT ![h] = r]
  BY DEF TypeOK, Assign
<1>2. lines + 1 \in Nat
  BY DEF TypeOK
<1>3. r \in Task
  <2> DEFINE q == [task[h] EXCEPT !.pc = "after", !.op = "add"]
             i == lines + 1
  <2>1. q \in Task
    BY <1>1, Words DEF Task
  <2>2. r = [q EXCEPT !.err = "failed", !.id = i] /\ i \in Nat
    BY <1>2
  <2> HIDE DEF r, q, i
  <2> QED
    BY <2>1, <2>2, Words DEF Task
<1>4. /\ r.state = task[h].state /\ r.memNumber = task[h].memNumber /\ r.op = "add"
      /\ r.pc = "after" /\ r.id = lines + 1
  BY <1>1, <1>2 DEF Task
<1> HIDE DEF r
<1> QED
  BY <1>1, <1>3, <1>4, TaskSet

LEMMA PushDoes ==
    ASSUME TypeOK, NEW h \in Handles, NEW e \in {task[h].err, "failed"},
           task' = [task EXCEPT ![h].pc = "after", ![h].err = e]
    PROVE  /\ Only(h)
           /\ SameRequest(h)
           /\ task'[h].op = task[h].op /\ task'[h].arg = task[h].arg
           /\ task'[h].state = task[h].state /\ task'[h].pc = "after"
<1> DEFINE r == [task[h] EXCEPT !.pc = "after", !.err = e]
<1>1. task[h] \in Task /\ task' = [task EXCEPT ![h] = r]
  BY DEF TypeOK, AssignPush
<1>2. r \in Task
  BY <1>1, Words DEF Task
<1>3. /\ r.memNumber = task[h].memNumber /\ r.id = task[h].id
      /\ r.op = task[h].op /\ r.arg = task[h].arg
      /\ r.state = task[h].state /\ r.pc = "after"
  BY <1>1 DEF Task
<1> HIDE DEF r
<1> QED
  BY <1>1, <1>2, <1>3, TaskSet DEF SameRequest

LEMMA FinishedTyped ==
    ASSUME TypeOK, NEW h \in Handles
    PROVE  /\ Finished(h) \in Task
           /\ Finished(h).memNumber = task[h].memNumber /\ Finished(h).id = task[h].id
           /\ Finished(h).state = task[h].state /\ Finished(h).op = "none"
<1>1. task[h] \in Task
  BY DEF TypeOK
<1>2. Finished(h) \in Task
  BY <1>1, Words DEF Finished, Task
<1> QED
  BY <1>1, <1>2 DEF Finished, Task

LEMMA LeaveDoes ==
    ASSUME TypeOK, NEW h \in Handles, NEW st \in {"completed", "reschedule", task[h].state},
           Leave(h, st)
    PROVE  /\ Only(h)
           /\ SameRequest(h)
           /\ task'[h].pc = "idle" /\ task'[h].state = st /\ task'[h].op = "none"
<1> DEFINE r == [Finished(h) EXCEPT !.state = st, !.pc = "idle", !.count = 0]
<1>1. task[h] \in Task /\ task' = [task EXCEPT ![h] = r]
  BY DEF TypeOK, Leave
<1> DEFINE f == Finished(h)
<1>2. /\ f \in Task /\ f.memNumber = task[h].memNumber /\ f.id = task[h].id
      /\ f.state = task[h].state /\ f.op = "none"
  BY FinishedTyped
<1>3. r = [f EXCEPT !.state = st, !.pc = "idle", !.count = 0]
  OBVIOUS
<1>4. st \in {"completed", "reschedule", f.state}
  BY <1>2
<1> HIDE DEF r, f
<1>5. r \in Task
  BY <1>2, <1>3, <1>4, Words DEF Task
<1>6. /\ r.memNumber = task[h].memNumber /\ r.id = task[h].id
      /\ r.pc = "idle" /\ r.state = st /\ r.op = "none"
  BY <1>2, <1>3, <1>4 DEF Task
<1> QED
  BY <1>1, <1>5, <1>6, TaskSet DEF SameRequest

LEMMA NextLineDoes ==
    ASSUME TypeOK, NEW h \in Handles,
           task' = [task EXCEPT ![h] = [Finished(h) EXCEPT !.pc = "begin", !.count = @ + 1]]
    PROVE  /\ Only(h)
           /\ SameRequest(h)
           /\ task'[h].pc = "begin" /\ task'[h].state = task[h].state /\ task'[h].op = "none"
<1> DEFINE r == [Finished(h) EXCEPT !.pc = "begin", !.count = @ + 1]
<1>1. task[h] \in Task /\ task' = [task EXCEPT ![h] = r]
  BY DEF TypeOK, Leave
<1> DEFINE f == Finished(h)
<1>2. /\ f \in Task /\ f.memNumber = task[h].memNumber /\ f.id = task[h].id
      /\ f.state = task[h].state /\ f.op = "none"
  BY FinishedTyped
<1> DEFINE i == f.count + 1
<1>3. r = [f EXCEPT !.pc = "begin", !.count = i]
  OBVIOUS
<1>4. i \in Nat
  <2> HIDE DEF f
  <2> QED
    BY <1>2 DEF Task
<1> HIDE DEF r, f, i
<1>5. r \in Task
  BY <1>2, <1>3, <1>4, Words DEF Task
<1>6. /\ r.memNumber = task[h].memNumber /\ r.id = task[h].id
      /\ r.pc = "begin" /\ r.state = task[h].state /\ r.op = "none"
  BY <1>2, <1>3 DEF Task
<1> QED
  BY <1>1, <1>5, <1>6, TaskSet DEF SameRequest

-----------------------------------------------------------------------------
(* What the steps do to a node.                                            *)

(* Only the node n changes.                                                *)
OnlyNode(n) == node' \in [Nodes -> MemNode] /\ \A k \in Nodes \ {n} : node'[k] = node[k]

SameConn(n) ==
    /\ node'[n].conn = node[n].conn /\ node'[n].handshaking = node[n].handshaking
    /\ node'[n].available = node[n].available

SameBuffers(n) ==
    node'[n].out = node[n].out /\ node'[n].srv = node[n].srv /\ node'[n].ans = node[n].ans

LEMMA NodeSet ==
    ASSUME TypeOK, NEW n \in Nodes, NEW r \in MemNode, node' = [node EXCEPT ![n] = r]
    PROVE  OnlyNode(n) /\ node'[n] = r
BY DEF TypeOK, OnlyNode

LEMMA AddDoes ==
    ASSUME TypeOK, NEW n \in Nodes,
           MempoolAdd(n)
    PROVE  /\ OnlyNode(n)
           /\ SameBuffers(n)
           /\ node'[n].mtx = node[n].mtx
           /\ node'[n].conn = "connecting" /\ node'[n].handshaking = TRUE /\ node'[n].available = node[n].available
<1> DEFINE r == [node[n] EXCEPT !.handshaking = TRUE, !.conn = "connecting"]
<1>1. node[n] \in MemNode /\ node' = [node EXCEPT ![n] = r]
  BY DEF TypeOK, MempoolAdd
<1>2. r \in MemNode
  BY <1>1 DEF MemNode
<1>3. /\ r.out = node[n].out /\ r.srv = node[n].srv /\ r.ans = node[n].ans
      /\ r.mtx = node[n].mtx
      /\ r.conn = "connecting" /\ r.handshaking = TRUE /\ r.available = node[n].available
  BY <1>1 DEF MemNode
<1> HIDE DEF r
<1> QED
  BY <1>1, <1>2, <1>3, NodeSet DEF SameBuffers

LEMMA ConnectDoes ==
    ASSUME TypeOK, NEW n \in Nodes,
           Connected(n)
    PROVE  /\ OnlyNode(n)
           /\ SameBuffers(n)
           /\ node'[n].mtx = node[n].mtx
           /\ node'[n].conn = "open" /\ node'[n].handshaking = node[n].handshaking /\ node'[n].available = node[n].available
<1> DEFINE r == [node[n] EXCEPT !.conn = "open"]
<1>1. node[n] \in MemNode /\ node' = [node EXCEPT ![n] = r]
  BY DEF TypeOK, Connected
<1>2. r \in MemNode
  BY <1>1 DEF MemNode
<1>3. /\ r.out = node[n].out /\ r.srv = node[n].srv /\ r.ans = node[n].ans
      /\ r.mtx = node[n].mtx
      /\ r.conn = "open" /\ r.handshaking = node[n].handshaking /\ r.available = node[n].available
  BY <1>1 DEF MemNode
<1> HIDE DEF r
<1> QED
  BY <1>1, <1>2, <1>3, NodeSet DEF SameBuffers

LEMMA AckDoes ==
    ASSUME TypeOK, NEW n \in Nodes,
           RecvAck(n)
    PROVE  /\ OnlyNode(n)
           /\ SameBuffers(n)
           /\ node'[n].mtx = node[n].mtx
           /\ node'[n].conn = node[n].conn /\ node'[n].handshaking = FALSE /\ node'[n].available = TRUE
<1> DEFINE r == [node[n] EXCEPT !.handshaking = FALSE, !.available = TRUE]
<1>1. node[n] \in MemNode /\ node' = [node EXCEPT ![n] = r]
  BY DEF TypeOK, RecvAck
<1>2. r \in MemNode
  BY <1>1 DEF MemNode
<1>3. /\ r.out = node[n].out /\ r.srv = node[n].srv /\ r.ans = node[n].ans
      /\ r.mtx = node[n].mtx
      /\ r.conn = node[n].conn /\ r.handshaking = FALSE /\ r.available = TRUE
  BY <1>1 DEF MemNode
<1> HIDE DEF r
<1> QED
  BY <1>1, <1>2, <1>3, NodeSet DEF SameBuffers

LEMMA ClosedDoes ==
    ASSUME TypeOK, NEW n \in Nodes,
           node' = [node EXCEPT ![n] = Closed(@)]
    PROVE  /\ OnlyNode(n)
           /\ node'[n].mtx = node[n].mtx
           /\ node'[n].conn = "closed" /\ node'[n].handshaking = FALSE
           /\ node'[n].available = IF node[n].handshaking THEN node[n].available ELSE FALSE
           /\ node'[n].out = {} /\ node'[n].srv = {} /\ node'[n].ans = {}
<1> DEFINE r == Closed(node[n])
<1>1. node[n] \in MemNode /\ node' = [node EXCEPT ![n] = r]
  BY DEF TypeOK
<1>2. r \in MemNode
  BY <1>1 DEF Closed, MemNode
<1>3. /\ r.mtx = node[n].mtx
      /\ r.conn = "closed" /\ r.handshaking = FALSE
      /\ r.available = IF node[n].handshaking THEN node[n].available ELSE FALSE
      /\ r.out = {} /\ r.srv = {} /\ r.ans = {}
  BY <1>1 DEF Closed, MemNode
<1> HIDE DEF r
<1> QED
  BY <1>1, <1>2, <1>3, NodeSet

LEMMA DestroyedDoes ==
    ASSUME TypeOK, NEW n \in Nodes,
           node' = [node EXCEPT ![n].conn = "null"]
    PROVE  /\ OnlyNode(n)
           /\ SameBuffers(n)
           /\ node'[n].mtx = node[n].mtx
           /\ node'[n].conn = "null" /\ node'[n].handshaking = node[n].handshaking /\ node'[n].available = node[n].available
<1> DEFINE r == [node[n] EXCEPT !.conn = "null"]
<1>1. node[n] \in MemNode /\ node' = [node EXCEPT ![n] = r]
  BY DEF TypeOK
<1>2. r \in MemNode
  BY <1>1 DEF MemNode
<1>3. /\ r.out = node[n].out /\ r.srv = node[n].srv /\ r.ans = node[n].ans
      /\ r.mtx = node[n].mtx
      /\ r.conn = "null" /\ r.handshaking = node[n].handshaking /\ r.available = node[n].available
  BY <1>1 DEF MemNode
<1> HIDE DEF r
<1> QED
  BY <1>1, <1>2, <1>3, NodeSet DEF SameBuffers

LEMMA LockedDoes ==
    ASSUME TypeOK, NEW n \in Nodes, NEW x \in SUBSET (Handles \cup {MainThread}),
           node' = [node EXCEPT ![n].mtx = x]
    PROVE  /\ OnlyNode(n)
           /\ SameBuffers(n)
           /\ SameConn(n)
           /\ node'[n].mtx = x
<1> DEFINE r == [node[n] EXCEPT !.mtx = x]
<1>1. node[n] \in MemNode /\ node' = [node EXCEPT ![n] = r]
  BY DEF TypeOK
<1>2. r \in MemNode
  BY <1>1 DEF MemNode
<1>3. /\ r.out = node[n].out /\ r.srv = node[n].srv /\ r.ans = node[n].ans
      /\ r.conn = node[n].conn /\ r.handshaking = node[n].handshaking /\ r.available = node[n].available
      /\ r.mtx = x
  BY <1>1 DEF MemNode
<1> HIDE DEF r
<1> QED
  BY <1>1, <1>2, <1>3, NodeSet DEF SameBuffers, SameConn

LEMMA FlushDoes ==
    ASSUME TypeOK, NEW n \in Nodes, NEW w \in SUBSET Packet,
           node' = [node EXCEPT ![n].out = {}, ![n].srv = @ \cup w]
    PROVE  /\ OnlyNode(n)
           /\ SameConn(n)
           /\ node'[n].mtx = node[n].mtx
           /\ node'[n].out = {} /\ node'[n].srv = node[n].srv \cup w /\ node'[n].ans = node[n].ans
<1> DEFINE r == [node[n] EXCEPT !.out = {}, !.srv = @ \cup w]
<1>1. node[n] \in MemNode /\ node' = [node EXCEPT ![n] = r]
  BY DEF TypeOK
<1>2. r \in MemNode
  BY <1>1 DEF MemNode
<1>3. /\ r.conn = node[n].conn /\ r.handshaking = node[n].handshaking /\ r.available = node[n].available
      /\ r.mtx = node[n].mtx
      /\ r.out = {} /\ r.srv = node[n].srv \cup w /\ r.ans = node[n].ans
  BY <1>1 DEF MemNode
<1> HIDE DEF r
<1> QED
  BY <1>1, <1>2, <1>3, NodeSet DEF SameConn

LEMMA AnswerDoes ==
    ASSUME TypeOK, NEW n \in Nodes, NEW m \in Packet,
           node' = [node EXCEPT ![n].srv = @ \ {m}, ![n].ans = @ \cup {m}]
    PROVE  /\ OnlyNode(n)
           /\ SameConn(n)
           /\ node'[n].mtx = node[n].mtx
           /\ node'[n].out = node[n].out /\ node'[n].srv = node[n].srv \ {m} /\ node'[n].ans = node[n].ans \cup {m}
<1> DEFINE r == [node[n] EXCEPT !.srv = @ \ {m}, !.ans = @ \cup {m}]
<1>1. node[n] \in MemNode /\ node' = [node EXCEPT ![n] = r]
  BY DEF TypeOK
<1>2. r \in MemNode
  BY <1>1 DEF MemNode
<1>3. /\ r.conn = node[n].conn /\ r.handshaking = node[n].handshaking /\ r.available = node[n].available
      /\ r.mtx = node[n].mtx
      /\ r.out = node[n].out /\ r.srv = node[n].srv \ {m} /\ r.ans = node[n].ans \cup {m}
  BY <1>1 DEF MemNode
<1> HIDE DEF r
<1> QED
  BY <1>1, <1>2, <1>3, NodeSet DEF SameConn

LEMMA ReceiveDoes ==
    ASSUME TypeOK, NEW n \in Nodes, NEW m \in Packet,
           node' = [node EXCEPT ![n].ans = @ \ {m}]
    PROVE  /\ OnlyNode(n)
           /\ SameConn(n)
           /\ node'[n].mtx = node[n].mtx
           /\ node'[n].out = node[n].out /\ node'[n].srv = node[n].srv /\ node'[n].ans = node[n].ans \ {m}
<1> DEFINE r == [node[n] EXCEPT !.ans = @ \ {m}]
<1>1. node[n] \in MemNode /\ node' = [node EXCEPT ![n] = r]
  BY DEF TypeOK
<1>2. r \in MemNode
  BY <1>1 DEF MemNode
<1>3. /\ r.conn = node[n].conn /\ r.handshaking = node[n].handshaking /\ r.available = node[n].available
      /\ r.mtx = node[n].mtx
      /\ r.out = node[n].out /\ r.srv = node[n].srv /\ r.ans = node[n].ans \ {m}
  BY <1>1 DEF MemNode
<1> HIDE DEF r
<1> QED
  BY <1>1, <1>2, <1>3, NodeSet DEF SameConn

LEMMA SentDoes ==
    ASSUME TypeOK, NEW n \in Nodes, NEW m \in Packet,
           node' = [node EXCEPT ![n].out = @ \cup {m}]
    PROVE  /\ OnlyNode(n)
           /\ SameConn(n)
           /\ node'[n].mtx = node[n].mtx
           /\ node'[n].out = node[n].out \cup {m} /\ node'[n].srv = node[n].srv /\ node'[n].ans = node[n].ans
<1> DEFINE r == [node[n] EXCEPT !.out = @ \cup {m}]
<1>1. node[n] \in MemNode /\ node' = [node EXCEPT ![n] = r]
  BY DEF TypeOK
<1>2. r \in MemNode
  BY <1>1 DEF MemNode
<1>3. /\ r.conn = node[n].conn /\ r.handshaking = node[n].handshaking /\ r.available = node[n].available
      /\ r.mtx = node[n].mtx
      /\ r.out = node[n].out \cup {m} /\ r.srv = node[n].srv /\ r.ans = node[n].ans
  BY <1>1 DEF MemNode
<1> HIDE DEF r
<1> QED
  BY <1>1, <1>2, <1>3, NodeSet DEF SameConn

-----------------------------------------------------------------------------
(* Every step of the system, seen from one task.                           *)

Starting == {"get", "req", "send"}

SameArg(h) == task'[h].op = task[h].op /\ task'[h].arg = task[h].arg

(* The main thread wakes it up: because its node is gone, or to answer.    *)
Wakes(h) ==
    /\ Live(h) /\ SameWork(h) /\ task'[h].state = "running"
    /\ task[h].pc \in Starting => task[h].id \in stray'
    /\ \/ main.pc = "abort" /\ AbortTask(h) /\ Aborts(h, main.n)
       \/ \E n \in Nodes : RecvAnswer(n)

(* It is in the hands of the main thread.                                  *)
Resets(h) ==
    /\ task[h].state \in {"none", "completed"}
    /\ task'[h].state \in {"none", "new"} /\ task'[h].pc = "idle" /\ task'[h].op = "none"
    /\ task'[h].id = 0

Readies(h) ==
    /\ task[h].state \in {"new", "reschedule"} /\ SameWork(h)
    /\ task'[h].state \in {"new", "ready"}

(* A worker takes it, works on it and lets it go.                          *)
Pops(h) ==
    /\ PopTask(h) /\ SameRequest(h) /\ SameArg(h)
    /\ task'[h].state = "running" /\ task'[h].pc = "begin"

Starts(h) ==
    /\ task[h].pc = "begin" /\ lines' = lines + 1
    /\ task'[h].state = "awaiting" /\ task'[h].pc = "get" /\ task'[h].id = lines + 1
    /\ task'[h].op \in {"describe", "create", "drop", "select"}
    /\ task'[h].op # "describe" => task'[h].arg \in Tables

Gets(h) ==
    /\ task[h].pc = "get" /\ SameRequest(h) /\ SameArg(h)
    /\ task'[h].state = task[h].state /\ task'[h].pc = "req" /\ task'[h].got \in Nodes

Fails(h) ==
    /\ task[h].pc = "get" /\ SameArg(h) /\ task'[h].id = task[h].id
    /\ task'[h].state = "running" /\ task'[h].pc = "after"

Asks(h) ==
    /\ NodeReq(h) /\ SameArg(h) /\ task'[h].id = task[h].id
    /\ task'[h].state = task[h].state
    /\ task'[h].memNumber = task[h].got /\ task'[h].got = task[h].got
    /\ task'[h].pc = IF node[task[h].got].conn = "null" THEN "get" ELSE "send"

Sends(h) ==
    /\ Send(h) /\ SameArg(h) /\ SameRequest(h)
    /\ task'[h].state = task[h].state
    /\ task'[h].pc = IF node[task[h].memNumber].conn = "open" THEN "wait" ELSE "get"

Locks(h) ==
    /\ task[h].pc = "begin" /\ lines' = lines + 1
    /\ task'[h].state = task[h].state /\ task'[h].op = "add" /\ task'[h].id = lines + 1
    /\ \/ /\ task'[h].pc = "assign"
          /\ task'[h].arg \in Criteria /\ task'[h].got \in Nodes
          /\ Assign(h, task'[h].got, task'[h].arg)
       \/ task'[h].pc = "after"

Pushes(h) ==
    /\ AssignPush(h) /\ SameArg(h) /\ SameRequest(h)
    /\ task'[h].state = task[h].state /\ task'[h].pc = "after"

Leaves(h) ==
    /\ task[h].pc \in {"begin", "wait", "after"} /\ ~Waiting(h)
    /\ SameRequest(h) /\ task'[h].op = "none"
    /\ task'[h].pc \in {"idle", "begin"}
    /\ task'[h].pc = "begin" => task'[h].state = task[h].state

TaskStep(h) ==
    \/ Wakes(h) \/ Resets(h) \/ Readies(h)
    \/ Pops(h) \/ Starts(h) \/ Gets(h) \/ Fails(h) \/ Asks(h) \/ Sends(h)
    \/ Locks(h) \/ Pushes(h) \/ Leaves(h)

(* One task changes, if any.                                               *)
OneTask ==
    /\ task' \in [Handles -> Task]
    /\ \/ UNCHANGED task
       \/ \E h \in Handles : TaskStep(h) /\ Only(h)

LEMMA AnswerStep ==
    ASSUME TypeOK, IdsInv, NEW n \in Nodes, RecvAnswer(n)
    PROVE  OneTask
<1>1. PICK m \in node[n].ans :
         /\ IF Live(m.h)
            THEN \E e \in {"none", "failed"} :
                    task' = [task EXCEPT ![m.h].state = "running", ![m.h].err = e]
            ELSE UNCHANGED task
         /\ stray' = IF Live(m.h) /\ task[m.h].id # m.id THEN stray \cup {task[m.h].id} ELSE stray
  BY DEF RecvAnswer
<1>2. m \in Packet /\ m \in Requests(n) /\ m.h \in Handles
  BY DEF TypeOK, MemNode, Packet, Requests
<1>3. CASE ~Live(m.h)
  BY <1>1, <1>3 DEF OneTask, TypeOK
<1>4. CASE Live(m.h)
  <2>1. Only(m.h) /\ SameWork(m.h) /\ task'[m.h].state = "running"
    BY <1>1, <1>2, <1>4, AnsweredDoes
  <2>2. task[m.h].pc \in Starting => task[m.h].id \in stray'
    BY <1>1, <1>2, <1>4 DEF IdsInv, Starting
  <2>3. Wakes(m.h)
    BY <1>4, <2>1, <2>2 DEF Wakes
  <2> QED
    BY <1>2, <2>1, <2>3 DEF OneTask, TaskStep, Only
<1> QED
  BY <1>3, <1>4

LEMMA AbortStep ==
    ASSUME TypeOK, NEW h \in Handles, AbortTask(h)
    PROVE  OneTask
<1>1. CASE Aborts(h, main.n)
  <2>1. Only(h) /\ SameWork(h) /\ task'[h].state = "running"
    BY <1>1, AbortedDoes
  <2>2. task[h].pc \in Starting => task[h].id \in stray'
    BY <1>1 DEF AbortTask, Starting
  <2>3. Wakes(h)
    BY <1>1, <2>1, <2>2 DEF Wakes, AbortTask, Aborts, Live
  <2> QED
    BY <2>1, <2>3 DEF OneTask, TaskStep, Only
<1>2. CASE ~Aborts(h, main.n)
  BY <1>2 DEF AbortTask, OneTask, TypeOK
<1> QED
  BY <1>1, <1>2

LEMMA MainTaskStep ==
    ASSUME TypeOK, TasksInv, NEW h \in Handles,
           \/ \E kind \in Kinds : CreateTask(h, kind)
           \/ Submit(h) \/ Reschedule(h) \/ FreeCompleted(h)
    PROVE  OneTask
<1>1. CASE \E kind \in Kinds : CreateTask(h, kind)
  BY <1>1, CreateDoes DEF OneTask, TaskStep, Resets, CreateTask, Live, Only
<1>2. CASE Submit(h)
  BY <1>2, SubmitDoes DEF OneTask, TaskStep, Readies, Submit, Only
<1>3. CASE Reschedule(h)
  BY <1>3, RescheduleDoes DEF OneTask, TaskStep, Readies, Reschedule, Only
<1>4. CASE FreeCompleted(h)
  BY <1>4, FreeDoes DEF OneTask, TaskStep, Resets, FreeCompleted, Only
<1> QED
  BY <1>1, <1>2, <1>3, <1>4

LEMMA StartStep ==
    ASSUME TypeOK, NEW h \in Handles, Start(h)
    PROVE  OneTask
<1>1. ASSUME NEW op \in {"create", "drop", "select"}, NEW t \in Tables, StartRequest(h, op, t)
      PROVE  OneTask
  <2>1. op \in Ops /\ t \in Tables \cup {"none"}
    BY DEF Ops
  <2>2. /\ Only(h) /\ task'[h].state = "awaiting" /\ task'[h].pc = "get"
        /\ task'[h].op = op /\ task'[h].arg = t /\ task'[h].id = lines + 1
    BY <1>1, <2>1, StartDoes
  <2>3. Starts(h)
    BY <1>1, <2>2 DEF Starts, StartRequest, MayRun
  <2> QED
    BY <2>2, <2>3 DEF OneTask, TaskStep, Only
<1>2. ASSUME StartRequest(h, "describe", "none")
      PROVE  OneTask
  <2>1. "describe" \in Ops /\ "none" \in Tables \cup {"none"}
    BY DEF Ops
  <2>2. /\ Only(h) /\ task'[h].state = "awaiting" /\ task'[h].pc = "get"
        /\ task'[h].op = "describe" /\ task'[h].id = lines + 1
    BY <1>2, <2>1, StartDoes
  <2>3. Starts(h)
    BY <1>2, <2>2 DEF Starts, StartRequest, MayRun
  <2> QED
    BY <2>2, <2>3 DEF OneTask, TaskStep, Only
<1>3. ASSUME NEW n \in Nodes, NEW c \in Criteria, Assign(h, n, c)
      PROVE  OneTask
  <2>1. task[h].pc = "begin" /\ lines' = lines + 1
    BY <1>3 DEF Assign, MayRun
  <2>2. CASE node[n].available /\ ~InList(n, c)
    <3>1. /\ Only(h)
          /\ task'[h].state = task[h].state /\ task'[h].op = "add" /\ task'[h].pc = "assign"
          /\ task'[h].arg = c /\ task'[h].got = n /\ task'[h].id = lines + 1
      BY <1>3, <2>2, AssignDoes
    <3>2. Locks(h)
      BY <1>3, <2>1, <3>1 DEF Locks
    <3> QED
      BY <3>1, <3>2 DEF OneTask, TaskStep, Only
  <2>3. CASE ~(node[n].available /\ ~InList(n, c))
    <3>1. /\ Only(h)
          /\ task'[h].state = task[h].state /\ task'[h].op = "add" /\ task'[h].pc = "after"
          /\ task'[h].id = lines + 1
      BY <1>3, <2>3, AssignFailsDoes
    <3>2. Locks(h)
      BY <2>1, <3>1 DEF Locks
    <3> QED
      BY <3>1, <3>2 DEF OneTask, TaskStep, Only
  <2> QED
    BY <2>2, <2>3
<1> QED
  BY <1>1, <1>2, <1>3 DEF Start

LEMMA LeaveStep ==
    ASSUME TypeOK, NEW h \in Handles, NEW st \in {"completed", "reschedule", task[h].state},
           Leave(h, st), task[h].pc \in {"begin", "wait", "after"}, ~Waiting(h)
    PROVE  Leaves(h) /\ Only(h)
BY LeaveDoes DEF Leaves

LEMMA AfterStep ==
    ASSUME TypeOK, NEW h \in Handles, After(h)
    PROVE  Leaves(h) /\ Only(h)
<1>1. task[h].pc \in {"begin", "wait", "after"} /\ ~Waiting(h)
  BY DEF After, Awake, Waiting
<1>2. CASE Leave(h, CompletionOf(h)) \/ Leave(h, "reschedule")
  BY <1>1, <1>2, LeaveStep DEF CompletionOf
<1>3. CASE task' = [task EXCEPT ![h] = [Finished(h) EXCEPT !.pc = "begin", !.count = @ + 1]]
  BY <1>1, <1>3, NextLineDoes DEF Leaves
<1> QED
  BY <1>2, <1>3 DEF After

LEMMA WorkStep ==
    ASSUME TypeOK, TasksInv, NEW h \in Handles, Work(h)
    PROVE  OneTask
<1>1. CASE MempoolGet(h)
  <2> DEFINE c == RouteOf(h)
  <2>1. c \in Criteria /\ list[c] \in Seq(Nodes) /\ list[c] # <<>>
    BY <1>1 DEF MempoolGet, HasNode, TypeOK
  <2>2. /\ Len(list[c]) \in Nat \ {0} /\ DOMAIN list[c] = 1 .. Len(list[c])
        /\ list[c] \in [1 .. Len(list[c]) -> Nodes]
    BY <2>1, LenProperties, EmptySeq
  <2>3. PICK i \in IF c = "SHC" THEN DOMAIN list[c] ELSE {1} :
           task' = [task EXCEPT ![h].got = list[c][i], ![h].pc = "req"]
    BY <1>1 DEF MempoolGet
  <2>4. list[c][i] \in Nodes
    BY <2>2, <2>3
  <2> HIDE DEF c
  <2>5. /\ Only(h) /\ SameRequest(h)
        /\ task'[h].op = task[h].op /\ task'[h].arg = task[h].arg
        /\ task'[h].state = task[h].state /\ task'[h].pc = "req" /\ task'[h].got \in Nodes
    BY <2>3, <2>4, GotDoes
  <2>6. Gets(h)
    BY <1>1, <2>5 DEF Gets, SameArg, MempoolGet
  <2> QED
    BY <2>5, <2>6 DEF OneTask, TaskStep, Only
<1>2. CASE MempoolGetFails(h)
  BY <1>2, GetFailsDoes DEF OneTask, TaskStep, Fails, SameArg, MempoolGetFails, Only
<1>3. CASE NodeReq(h)
  BY <1>3, ReqDoes DEF OneTask, TaskStep, Asks, SameArg, Only
<1>4. CASE Send(h)
  <2> DEFINE pc == IF node[task[h].memNumber].conn = "open" THEN "wait" ELSE "get"
  <2>1. task' = [task EXCEPT ![h].pc = pc] /\ pc \in Pc
    BY <1>4 DEF Send, Pc
  <2>2. /\ Only(h) /\ SameRequest(h)
        /\ task'[h].op = task[h].op /\ task'[h].arg = task[h].arg
        /\ task'[h].state = task[h].state /\ task'[h].pc = pc
    BY <2>1, MovesDoes
  <2>3. Sends(h)
    BY <1>4, <2>2 DEF Sends, SameArg
  <2> QED
    BY <2>2, <2>3 DEF OneTask, TaskStep, Only
<1>5. CASE AssignPush(h)
  <2>1. PICK e \in {task[h].err, "failed"} : task' = [task EXCEPT ![h].pc = "after", ![h].err = e]
    BY <1>5 DEF AssignPush, TypeOK, Task
  <2>2. /\ Only(h) /\ SameRequest(h)
        /\ task'[h].op = task[h].op /\ task'[h].arg = task[h].arg
        /\ task'[h].state = task[h].state /\ task'[h].pc = "after"
    BY <2>1, PushDoes
  <2>3. Pushes(h)
    BY <1>5, <2>2 DEF Pushes, SameArg
  <2> QED
    BY <2>2, <2>3 DEF OneTask, TaskStep, Only
<1>6. CASE After(h)
  BY <1>6, AfterStep DEF OneTask, TaskStep, Only
<1>7. CASE EndOfFile(h)
  <2>1. Leave(h, CompletionOf(h)) /\ task[h].pc = "begin" /\ ~Waiting(h)
    BY <1>7 DEF EndOfFile, Waiting
  <2>2. Leaves(h) /\ Only(h)
    BY <2>1, LeaveStep DEF CompletionOf
  <2> QED
    BY <2>2 DEF OneTask, TaskStep, Only
<1> QED
  BY <1>1, <1>2, <1>3, <1>4, <1>5, <1>6, <1>7 DEF Work

(* The steps that leave the tasks alone.                                   *)
NodeOnly(n) ==
    \/ MempoolAdd(n) \/ Connected(n) \/ RecvAck(n) \/ Disconnect(n)
    \/ PollDestroy(n) \/ FlushWrite(n) \/ Halt(n) \/ MemAnswer(n)

MainOnly ==
    \/ Unassign \/ AbortDone \/ FlushReset
    \/ TaskmanStop \/ HaltDestroy \/ PoolDestroy \/ Joined \/ PopPause \/ PopStop

LEMMA NextCases ==
    ASSUME Next
    PROVE  \/ \E n \in Nodes : NodeOnly(n) \/ RecvAnswer(n)
           \/ MainOnly
           \/ \E h \in Handles :
                 \/ AbortTask(h) \/ PopTask(h) \/ Start(h) \/ Work(h)
                 \/ \E kind \in Kinds : CreateTask(h, kind)
                 \/ Submit(h) \/ Reschedule(h) \/ FreeCompleted(h)
<1>1. CASE MainNext
  BY <1>1 DEF MainNext, NodeOnly, MainOnly
<1>2. CASE PoolNext
  BY <1>2 DEF PoolNext, MainOnly
<1> QED
  BY <1>1, <1>2 DEF Next, NodeOnly

LEMMA TaskNext ==
    ASSUME TypeOK, TasksInv, IdsInv, Next
    PROVE  OneTask
<1>1. CASE \E n \in Nodes : NodeOnly(n)
  BY <1>1 DEF NodeOnly, MempoolAdd, Connected, RecvAck, Disconnect, PollDestroy, FlushWrite,
              Halt, MemAnswer, OneTask, TypeOK
<1>2. CASE MainOnly
  BY <1>2 DEF MainOnly, Unassign, AbortDone, FlushReset, TaskmanStop, HaltDestroy,
              PoolDestroy, Joined, PopPause, PopStop, OneTask, TypeOK
<1>3. ASSUME NEW h \in Handles, PopTask(h) PROVE OneTask
  BY <1>3, PopDoes DEF OneTask, TaskStep, Pops, SameArg, Only
<1> QED
  BY <1>1, <1>2, <1>3, NextCases, AnswerStep, AbortStep, MainTaskStep, StartStep, WorkStep

-----------------------------------------------------------------------------
(* Every step of the system, seen from one node.                           *)

Opens(n) ==
    /\ MempoolAdd(n) /\ node[n].conn = "null"
    /\ node'[n].conn = "connecting" /\ node'[n].handshaking
    /\ node'[n].available = node[n].available /\ node'[n].mtx = node[n].mtx /\ SameBuffers(n)

Connects(n) ==
    /\ Connected(n) /\ node[n].conn = "connecting"
    /\ node'[n].conn = "open" /\ node'[n].handshaking = node[n].handshaking
    /\ node'[n].available = node[n].available /\ node'[n].mtx = node[n].mtx /\ SameBuffers(n)

Greets(n) ==
    /\ RecvAck(n) /\ node[n].conn = "open" /\ node[n].handshaking /\ node[n].mtx = {}
    /\ node'[n].conn = "open" /\ ~node'[n].handshaking /\ node'[n].available
    /\ node'[n].mtx = node[n].mtx /\ SameBuffers(n)

Closes(n) ==
    /\ Disconnect(n) \/ Halt(n)
    /\ node'[n].conn = "closed" /\ ~node'[n].handshaking
    /\ node'[n].available = IF node[n].handshaking THEN node[n].available ELSE FALSE
    /\ node'[n].out = {} /\ node'[n].srv = {} /\ node'[n].ans = {}
    /\ node'[n].mtx = node[n].mtx

Destroys(n) ==
    /\ \/ PollDestroy(n)
       \/ HaltDestroy /\ n = main.n
    /\ node'[n].conn = "null" /\ node'[n].handshaking = node[n].handshaking
    /\ node'[n].available = node[n].available /\ node'[n].mtx = node[n].mtx /\ SameBuffers(n)

Guards(n) ==
    /\ SameConn(n) /\ SameBuffers(n)
    /\ \/ Unassign /\ n = main.n /\ node'[n].mtx \in {{}, {MainThread}}
       \/ \E h \in Handles, c \in Criteria :
             /\ Assign(h, n, c) /\ node[n].available /\ ~InList(n, c) /\ node'[n].mtx = {h}
       \/ \E h \in Handles : AssignPush(h) /\ n = task[h].got /\ node'[n].mtx = {}

Moves(n) ==
    /\ SameConn(n) /\ node'[n].mtx = node[n].mtx
    /\ \/ /\ FlushReset /\ n = main.n
          /\ node'[n].out = {} /\ node'[n].srv = node[n].srv \cup main.wrote
          /\ node'[n].ans = node[n].ans
       \/ \E m \in node[n].srv :
             /\ MemAnswer(n)
             /\ node[n].conn = "open"
             /\ node'[n].out = node[n].out /\ node'[n].srv = node[n].srv \ {m}
             /\ node'[n].ans = node[n].ans \cup {m}
       \/ \E m \in node[n].ans :
             /\ RecvAnswer(n)
             /\ node'[n].out = node[n].out /\ node'[n].srv = node[n].srv
             /\ node'[n].ans = node[n].ans \ {m}
             /\ Live(m.h) => /\ Only(m.h) /\ SameWork(m.h) /\ task'[m.h].state = "running"
                             /\ task[m.h].id # m.id => task[m.h].id \in stray'

Loads(n) ==
    \E h \in Handles :
       /\ Send(h) /\ n = task[h].memNumber /\ node[n].conn = "open"
       /\ SameConn(n) /\ node'[n].mtx = node[n].mtx
       /\ node'[n].out = node[n].out \cup {[h |-> h, id |-> task[h].id]}
       /\ node'[n].srv = node[n].srv /\ node'[n].ans = node[n].ans

NodeStep(n) ==
    \/ Opens(n) \/ Connects(n) \/ Greets(n) \/ Closes(n) \/ Destroys(n)
    \/ Guards(n) \/ Moves(n) \/ Loads(n)

(* One node changes, if any.                                               *)
OneNode ==
    /\ node' \in [Nodes -> MemNode]
    /\ \/ UNCHANGED node
       \/ \E n \in Nodes : NodeStep(n) /\ OnlyNode(n)

LEMMA ConnStep ==
    ASSUME TypeOK, NEW n \in Nodes, NodeOnly(n)
    PROVE  OneNode
<1>1. CASE MempoolAdd(n)
  BY <1>1, AddDoes DEF OneNode, NodeStep, Opens, MempoolAdd, OnlyNode
<1>2. CASE Connected(n)
  BY <1>2, ConnectDoes DEF OneNode, NodeStep, Connects, Connected, OnlyNode
<1>3. CASE RecvAck(n)
  <2>1. node[n].conn = "open" /\ node[n].handshaking /\ node[n].mtx = {}
    BY <1>3 DEF RecvAck
  <2>2. Greets(n) /\ OnlyNode(n)
    BY <1>3, <2>1, AckDoes DEF Greets
  <2> QED
    BY <2>2 DEF OneNode, NodeStep, OnlyNode
<1>4. CASE Disconnect(n) \/ Halt(n)
  <2>1. node' = [node EXCEPT ![n] = Closed(@)]
    BY <1>4 DEF Disconnect, Halt
  <2> QED
    BY <1>4, <2>1, ClosedDoes DEF OneNode, NodeStep, Closes, OnlyNode
<1>5. CASE PollDestroy(n)
  <2>1. node' = [node EXCEPT ![n].conn = "null"]
    BY <1>5 DEF PollDestroy
  <2> QED
    BY <1>5, <2>1, DestroyedDoes DEF OneNode, NodeStep, Destroys, OnlyNode
<1>6. CASE FlushWrite(n)
  BY <1>6 DEF FlushWrite, nodeVars, OneNode, TypeOK
<1>7. CASE MemAnswer(n)
  <2>1. PICK m \in node[n].srv :
           node' = [node EXCEPT ![n].srv = @ \ {m}, ![n].ans = @ \cup {m}]
    BY <1>7 DEF MemAnswer
  <2>2. m \in Packet /\ node[n].conn = "open"
    BY <1>7 DEF TypeOK, MemNode, MemAnswer
  <2>3. /\ OnlyNode(n) /\ SameConn(n) /\ node'[n].mtx = node[n].mtx
        /\ node'[n].out = node[n].out /\ node'[n].srv = node[n].srv \ {m}
        /\ node'[n].ans = node[n].ans \cup {m}
    BY <2>1, <2>2, AnswerDoes
  <2> QED
    BY <1>7, <2>2, <2>3 DEF OneNode, NodeStep, Moves, OnlyNode
<1> QED
  BY <1>1, <1>2, <1>3, <1>4, <1>5, <1>6, <1>7 DEF NodeOnly

LEMMA ReceiveStep ==
    ASSUME TypeOK, NEW n \in Nodes, RecvAnswer(n)
    PROVE  OneNode
<1>1. PICK m \in node[n].ans :
         /\ node' = [node EXCEPT ![n].ans = @ \ {m}]
         /\ Live(m.h) => \E e \in {"none", "failed"} :
                            task' = [task EXCEPT ![m.h].state = "running", ![m.h].err = e]
         /\ Live(m.h) /\ task[m.h].id # m.id => task[m.h].id \in stray'
  BY DEF RecvAnswer
<1>2. m \in Packet /\ m.h \in Handles
  BY DEF TypeOK, MemNode, Packet
<1>3. /\ OnlyNode(n) /\ SameConn(n) /\ node'[n].mtx = node[n].mtx
      /\ node'[n].out = node[n].out /\ node'[n].srv = node[n].srv
      /\ node'[n].ans = node[n].ans \ {m}
  BY <1>1, <1>2, ReceiveDoes
<1>4. Live(m.h) => Only(m.h) /\ SameWork(m.h) /\ task'[m.h].state = "running"
  BY <1>1, <1>2, AnsweredDoes
<1>5. Moves(n)
  BY <1>1, <1>3, <1>4 DEF Moves
<1> QED
  BY <1>3, <1>5 DEF OneNode, NodeStep, OnlyNode

LEMMA MainNodeStep ==
    ASSUME TypeOK, MainInv, MainOnly
    PROVE  OneNode
<1>1. CASE Unassign
  <2> DEFINE n == main.n
  <2>1. n \in Nodes
    BY <1>1 DEF Unassign, MainInv
  <2>2. PICK x \in {{}, {MainThread}} : node' = [node EXCEPT ![n].mtx = x]
    BY <1>1 DEF Unassign
  <2>3. x \in SUBSET (Handles \cup {MainThread})
    OBVIOUS
  <2>4. OnlyNode(n) /\ SameBuffers(n) /\ SameConn(n) /\ node'[n].mtx = x
    BY <2>1, <2>2, <2>3, LockedDoes
  <2>5. Guards(n)
    BY <1>1, <2>4 DEF Guards
  <2> QED
    BY <2>1, <2>4, <2>5 DEF OneNode, NodeStep, OnlyNode
<1>2. CASE FlushReset
  <2> DEFINE n == main.n
  <2>1. n \in Nodes /\ main.wrote \in SUBSET Packet
    BY <1>2 DEF FlushReset, MainInv, TypeOK, Main
  <2>2. node' = [node EXCEPT ![n].out = {}, ![n].srv = @ \cup main.wrote]
    BY <1>2 DEF FlushReset
  <2>3. /\ OnlyNode(n) /\ SameConn(n) /\ node'[n].mtx = node[n].mtx
        /\ node'[n].out = {} /\ node'[n].srv = node[n].srv \cup main.wrote
        /\ node'[n].ans = node[n].ans
    BY <2>1, <2>2, FlushDoes
  <2>4. Moves(n)
    BY <1>2, <2>3 DEF Moves
  <2> QED
    BY <2>1, <2>3, <2>4 DEF OneNode, NodeStep, OnlyNode
<1>3. CASE HaltDestroy
  <2> DEFINE n == main.n
  <2>1. n \in Nodes /\ node' = [node EXCEPT ![n].conn = "null"]
    BY <1>3 DEF HaltDestroy, MainInv
  <2>2. /\ OnlyNode(n) /\ SameBuffers(n) /\ node'[n].mtx = node[n].mtx
        /\ node'[n].conn = "null" /\ node'[n].handshaking = node[n].handshaking
        /\ node'[n].available = node[n].available
    BY <2>1, DestroyedDoes
  <2>3. Destroys(n)
    BY <1>3, <2>2 DEF Destroys
  <2> QED
    BY <2>1, <2>2, <2>3 DEF OneNode, NodeStep, OnlyNode
<1>4. CASE AbortDone \/ TaskmanStop \/ PoolDestroy \/ Joined \/ PopPause \/ PopStop
  BY <1>4 DEF AbortDone, TaskmanStop, PoolDestroy, Joined, PopPause, PopStop, nodeVars,
              OneNode, TypeOK
<1> QED
  BY <1>1, <1>2, <1>3, <1>4 DEF MainOnly

LEMMA WorkNodeStep ==
    ASSUME TypeOK, TasksInv, NEW h \in Handles, Work(h)
    PROVE  OneNode
<1>1. CASE Send(h)
  <2> DEFINE n == task[h].memNumber
             m == [h |-> h, id |-> task[h].id]
  <2>1. n \in Nodes /\ m \in Packet
    BY <1>1 DEF Send, TasksInv, TaskInv, Packet, TypeOK, Task
  <2>2. CASE node[n].conn = "open"
    <3>1. node' = [node EXCEPT ![n].out = @ \cup {m}]
      BY <1>1, <2>2 DEF Send
    <3>2. /\ OnlyNode(n) /\ SameConn(n) /\ node'[n].mtx = node[n].mtx
          /\ node'[n].out = node[n].out \cup {m} /\ node'[n].srv = node[n].srv
          /\ node'[n].ans = node[n].ans
      BY <2>1, <3>1, SentDoes
    <3>3. Loads(n)
      BY <1>1, <2>2, <3>2 DEF Loads
    <3> QED
      BY <2>1, <3>2, <3>3 DEF OneNode, NodeStep, OnlyNode
  <2>3. CASE node[n].conn # "open"
    BY <1>1, <2>3 DEF Send, OneNode, TypeOK
  <2> QED
    BY <2>2, <2>3
<1>2. CASE AssignPush(h)
  <2> DEFINE n == task[h].got
  <2>1. n \in Nodes /\ node' = [node EXCEPT ![n].mtx = {}]
    BY <1>2 DEF AssignPush, TasksInv, TaskInv
  <2>2. OnlyNode(n) /\ SameBuffers(n) /\ SameConn(n) /\ node'[n].mtx = {}
    <3>1. {} \in SUBSET (Handles \cup {MainThread})
      OBVIOUS
    <3> QED
      BY <2>1, <3>1, LockedDoes
  <2>3. Guards(n)
    BY <1>2, <2>2 DEF Guards
  <2> QED
    BY <2>1, <2>2, <2>3 DEF OneNode, NodeStep, OnlyNode
<1>3. CASE MempoolGet(h) \/ MempoolGetFails(h) \/ NodeReq(h) \/ After(h) \/ EndOfFile(h)
  BY <1>3 DEF MempoolGet, MempoolGetFails, NodeReq, After, EndOfFile, nodeVars, OneNode, TypeOK
<1> QED
  BY <1>1, <1>2, <1>3 DEF Work

LEMMA StartNodeStep ==
    ASSUME TypeOK, NEW h \in Handles, Start(h)
    PROVE  OneNode
<1>1. ASSUME NEW n \in Nodes, NEW c \in Criteria, Assign(h, n, c)
      PROVE  OneNode
  <2>1. CASE node[n].available /\ ~InList(n, c)
    <3>1. node' = [node EXCEPT ![n].mtx = {h}] /\ {h} \in SUBSET (Handles \cup {MainThread})
      BY <1>1, <2>1 DEF Assign
    <3>2. OnlyNode(n) /\ SameBuffers(n) /\ SameConn(n) /\ node'[n].mtx = {h}
      BY <3>1, LockedDoes
    <3>3. Guards(n)
      BY <1>1, <2>1, <3>2 DEF Guards
    <3> QED
      BY <3>2, <3>3 DEF OneNode, NodeStep, OnlyNode
  <2>2. CASE ~(node[n].available /\ ~InList(n, c))
    BY <1>1, <2>2 DEF Assign, OneNode, TypeOK
  <2> QED
    BY <2>1, <2>2
<1>2. CASE UNCHANGED node
  BY <1>2 DEF OneNode, TypeOK
<1> QED
  BY <1>1, <1>2 DEF Start, StartRequest, nodeVars

LEMMA NodeNext ==
    ASSUME TypeOK, TasksInv, MainInv, Next
    PROVE  OneNode
<1>1. ASSUME NEW h \in Handles,
             \/ AbortTask(h) \/ PopTask(h)
             \/ \E kind \in Kinds : CreateTask(h, kind)
             \/ Submit(h) \/ Reschedule(h) \/ FreeCompleted(h)
      PROVE  OneNode
  BY <1>1 DEF AbortTask, PopTask, CreateTask, Submit, Reschedule, FreeCompleted, nodeVars,
              OneNode, TypeOK
<1> QED
  BY <1>1, NextCases, ConnStep, ReceiveStep, MainNodeStep, WorkNodeStep, StartNodeStep

-----------------------------------------------------------------------------
(* The lists of nodes.                                                     *)

(* What AssignedUsable says of one list, in two parts.                     *)
ListInv(c) == Once(list[c], Nodes) /\ (c = "SC" => Len(list[c]) <= 1)

Usable(n) == (node[n].conn = "open" /\ node[n].available) \/ Unassigning(n)

LEMMA UsableParts ==
    ASSUME TypeOK
    PROVE  AssignedUsable <=> \A c \in Criteria :
              ListInv(c) /\ \A n \in Members(list[c]) : Usable(n)
<1> SUFFICES ASSUME NEW c \in Criteria
             PROVE  /\ (\A i, j \in DOMAIN list[c] : i # j => list[c][i] # list[c][j])
                          <=> Once(list[c], Nodes)
                    /\ (\A i \in DOMAIN list[c] : LET n == list[c][i] IN
                           \/ node[n].conn = "open" /\ node[n].available
                           \/ main.pc = "unassign" /\ main.n = n)
                          <=> (\A n \in Members(list[c]) : Usable(n))
  BY DEF AssignedUsable, ListInv
<1>1. list[c] \in Seq(Nodes)
  BY DEF TypeOK
<1>2. \A i \in DOMAIN list[c] : list[c][i] \in Nodes
  BY <1>1, LenProperties, ElementOfSeq
<1> QED
  BY <1>2 DEF Once, Members, Usable, Unassigning

(* What a step does to the list of c: a node is added in front, or taken   *)
(* out, or the first one becomes the last.                                 *)
Gains(c, n) ==
    /\ n \in Nodes /\ n \notin Members(list[c])
    /\ list' = [list EXCEPT ![c] = <<n>> \o @]

Turns(c) ==
    /\ list[c] # <<>> /\ c \in {"EC", "NONE"}
    /\ list' = [list EXCEPT ![c] = Append(Tail(@), Head(@))]

ListStep(c) ==
    \/ \E n \in Nodes : RecvAck(n) /\ c = "NONE" /\ Gains(c, n)
    \/ Unassign /\ main.n \in Members(list[c])
                /\ list' = [list EXCEPT ![c] = RemoveNode(@, main.n)]
    \/ Turns(c)
    \/ \E h \in Handles :
          /\ AssignPush(h) /\ c = task[h].arg /\ Gains(c, task[h].got)
          /\ c = "SC" => list[c] = <<>>

LEMMA InListMembers == \A c \in Criteria : \A n : InList(n, c) <=> n \in Members(list[c])
BY DEF InList, Members

LEMMA ListNext ==
    ASSUME TypeOK, TasksInv, AssignInv, Next
    PROVE  UNCHANGED list \/ \E c \in Criteria : ListStep(c)
<1>1. ASSUME NEW n \in Nodes, RecvAck(n)
      PROVE  UNCHANGED list \/ \E c \in Criteria : ListStep(c)
  <2>1. "NONE" \in Criteria
    BY CriteriaAssumption
  <2>2. UNCHANGED list \/ Gains("NONE", n)
    BY <1>1, <2>1, InListMembers DEF RecvAck, Gains
  <2> QED
    BY <1>1, <2>1, <2>2 DEF ListStep
<1>2. ASSUME Unassign
      PROVE  UNCHANGED list \/ \E c \in Criteria : ListStep(c)
  BY <1>2, InListMembers DEF Unassign, ListStep
<1>3. ASSUME NEW h \in Handles, MempoolGet(h)
      PROVE  UNCHANGED list \/ \E c \in Criteria : ListStep(c)
  <2> DEFINE c == RouteOf(h)
  <2>1. c \in Criteria /\ list[c] # <<>>
    BY <1>3 DEF MempoolGet, HasNode
  <2>2. \/ c \in {"EC", "NONE"} /\ list' = [list EXCEPT ![c] = Append(Tail(@), Head(@))]
        \/ list' = list
    BY <1>3 DEF MempoolGet
  <2> HIDE DEF c
  <2> QED
    BY <2>1, <2>2 DEF ListStep, Turns
<1>4. ASSUME NEW h \in Handles, AssignPush(h)
      PROVE  UNCHANGED list \/ \E c \in Criteria : ListStep(c)
  <2> DEFINE c == task[h].arg
  <2>1. c \in Criteria /\ task[h].got \in Nodes /\ task[h].got \notin Members(list[c])
    BY <1>4, InListMembers DEF AssignPush, TasksInv, TaskInv, AssignInv
  <2>2. \/ list' = [list EXCEPT ![c] = <<task[h].got>> \o @] /\ (c = "SC" => list[c] = <<>>)
        \/ list' = list
    BY <1>4 DEF AssignPush
  <2> HIDE DEF c
  <2>3. UNCHANGED list \/ (Gains(c, task[h].got) /\ (c = "SC" => list[c] = <<>>))
    BY <2>1, <2>2 DEF Gains
  <2> QED
    BY <1>4, <2>1, <2>3 DEF ListStep, c
<1>5. ASSUME NEW n \in Nodes, NodeOnly(n) \/ RecvAnswer(n), ~RecvAck(n)
      PROVE  UNCHANGED list
  BY <1>5 DEF NodeOnly, MempoolAdd, Connected, Disconnect, PollDestroy, FlushWrite, Halt,
              MemAnswer, RecvAnswer, nodeVars
<1>6. ASSUME MainOnly, ~Unassign
      PROVE  UNCHANGED list
  BY <1>6 DEF MainOnly, AbortDone, FlushReset, TaskmanStop, HaltDestroy, PoolDestroy, Joined,
              PopPause, PopStop, nodeVars
<1>7. ASSUME NEW h \in Handles,
             \/ AbortTask(h) \/ PopTask(h) \/ Start(h)
             \/ \E kind \in Kinds : CreateTask(h, kind)
             \/ Submit(h) \/ Reschedule(h) \/ FreeCompleted(h)
      PROVE  UNCHANGED list
  BY <1>7 DEF AbortTask, PopTask, CreateTask, Submit, Reschedule, FreeCompleted, Start,
              StartRequest, Assign, nodeVars
<1>8. ASSUME NEW h \in Handles, Work(h), ~MempoolGet(h), ~AssignPush(h)
      PROVE  UNCHANGED list
  BY <1>8 DEF Work, MempoolGetFails, NodeReq, Send, After, EndOfFile, nodeVars
<1> QED
  BY <1>1, <1>2, <1>3, <1>4, <1>5, <1>6, <1>7, <1>8, NextCases

LEMMA GainsDoes ==
    ASSUME TypeOK, NEW c \in Criteria, NEW n \in Nodes, Gains(c, n), Once(list[c], Nodes)
    PROVE  /\ list' \in [Criteria -> Seq(Nodes)]
           /\ \A d \in Criteria \ {c} : list'[d] = list[d]
           /\ Once(list'[c], Nodes) /\ Len(list'[c]) = Len(list[c]) + 1
           /\ Members(list'[c]) = Members(list[c]) \cup {n}
<1>1. list[c] \in Seq(Nodes) /\ list \in [Criteria -> Seq(Nodes)] /\ n \notin Members(list[c])
  BY DEF TypeOK, Gains
<1> DEFINE q == <<n>> \o list[c]
<1>2. q \in Seq(Nodes) /\ Len(q) = Len(list[c]) + 1 /\ Once(q, Nodes)
      /\ Members(q) = Members(list[c]) \cup {n}
  BY <1>1, Prepended
<1>3. list' = [list EXCEPT ![c] = q]
  BY DEF Gains
<1> HIDE DEF q
<1>4. list'[c] = q
  BY <1>1, <1>3
<1> QED
  BY <1>1, <1>2, <1>3, <1>4

LEMMA LosesDoes ==
    ASSUME TypeOK, NEW c \in Criteria, NEW n \in Members(list[c]), Once(list[c], Nodes),
           list' = [list EXCEPT ![c] = RemoveNode(@, n)]
    PROVE  /\ list' \in [Criteria -> Seq(Nodes)]
           /\ \A d \in Criteria \ {c} : list'[d] = list[d]
           /\ Once(list'[c], Nodes) /\ Len(list'[c]) = Len(list[c]) - 1
           /\ Members(list'[c]) = Members(list[c]) \ {n}
<1>1. list[c] \in Seq(Nodes) /\ list \in [Criteria -> Seq(Nodes)]
  BY DEF TypeOK
<1> DEFINE q == RemoveNode(list[c], n)
<1>2. q \in Seq(Nodes) /\ Len(q) = Len(list[c]) - 1 /\ Once(q, Nodes)
      /\ Members(q) = Members(list[c]) \ {n}
  BY <1>1, Removed
<1>3. list' = [list EXCEPT ![c] = q]
  OBVIOUS
<1> HIDE DEF q
<1>4. list'[c] = q
  BY <1>1, <1>3
<1> QED
  BY <1>1, <1>2, <1>3, <1>4

LEMMA TurnsDoes ==
    ASSUME TypeOK, NEW c \in Criteria, Turns(c), Once(list[c], Nodes)
    PROVE  /\ list' \in [Criteria -> Seq(Nodes)]
           /\ \A d \in Criteria \ {c} : list'[d] = list[d]
           /\ Once(list'[c], Nodes) /\ Members(list'[c]) = Members(list[c])
<1>1. list[c] \in Seq(Nodes) /\ list \in [Criteria -> Seq(Nodes)] /\ list[c] # <<>>
  BY DEF TypeOK, Turns
<1> DEFINE t == Tail(list[c])
           x == Head(list[c])
           q == Append(t, x)
<1>2. /\ t \in Seq(Nodes) /\ Once(t, Nodes) /\ x \in Nodes
      /\ Members(list[c]) = {x} \cup Members(t) /\ x \notin Members(t)
  BY <1>1, Popped
<1>3. list' = [list EXCEPT ![c] = q]
  BY DEF Turns
<1> HIDE DEF t, x
<1>4. q \in Seq(Nodes) /\ Once(q, Nodes) /\ Members(q) = Members(t) \cup {x}
  BY <1>2, Appended
<1>5. Members(q) = Members(list[c])
  BY <1>2, <1>4
<1> HIDE DEF q
<1>6. list'[c] = q
  BY <1>1, <1>3
<1> QED
  BY <1>1, <1>3, <1>4, <1>5, <1>6

ListsOk(c) ==
    /\ list' \in [Criteria -> Seq(Nodes)]
    /\ \A d \in Criteria \ {c} : list'[d] = list[d]
    /\ ListInv(c)'
    /\ \A n \in Members(list'[c]) :
          \/ n \in Members(list[c])
          \/ RecvAck(n) /\ n \in Nodes
          \/ \E h \in Handles : AssignPush(h) /\ n = task[h].got /\ c = task[h].arg

(* The lists keep their form, and what a step adds and takes out is known. *)
LEMMA ListsStep ==
    ASSUME TypeOK, TasksInv, AssignInv, \A c \in Criteria : ListInv(c), Next
    PROVE  /\ list' \in [Criteria -> Seq(Nodes)]
           /\ \A c \in Criteria : ListInv(c)'
           /\ \A c \in Criteria : \A n \in Members(list'[c]) :
                 \/ n \in Members(list[c])
                 \/ RecvAck(n) /\ n \in Nodes
                 \/ \E h \in Handles : AssignPush(h) /\ n = task[h].got /\ c = task[h].arg
<1>1. CASE UNCHANGED list
  BY <1>1 DEF TypeOK, ListInv
<1>2. ASSUME NEW c \in Criteria, ListStep(c)
      PROVE  ListsOk(c)
  <2>0. Once(list[c], Nodes) /\ Len(list[c]) \in Nat /\ (c = "SC" => Len(list[c]) <= 1)
    BY LenProperties DEF ListInv, TypeOK
  <2>1. ASSUME NEW n \in Nodes, RecvAck(n), c = "NONE", Gains(c, n)
        PROVE  ListsOk(c)
    <3>1. c # "SC"
      BY <2>1
    <3> QED
      BY <2>0, <2>1, <3>1, GainsDoes DEF ListInv, ListsOk
  <2>2. ASSUME Unassign, main.n \in Members(list[c]),
               list' = [list EXCEPT ![c] = RemoveNode(@, main.n)]
        PROVE  ListsOk(c)
    <3>1. /\ list' \in [Criteria -> Seq(Nodes)]
          /\ \A d \in Criteria \ {c} : list'[d] = list[d]
          /\ Once(list'[c], Nodes) /\ Len(list'[c]) = Len(list[c]) - 1
          /\ Members(list'[c]) = Members(list[c]) \ {main.n}
      BY <2>0, <2>2, LosesDoes
    <3> QED
      BY <2>0, <3>1 DEF ListInv, ListsOk
  <2>3. ASSUME Turns(c) PROVE ListsOk(c)
    <3>1. c # "SC"
      BY <2>3 DEF Turns
    <3> QED
      BY <2>0, <2>3, <3>1, TurnsDoes DEF ListInv, ListsOk
  <2>4. ASSUME NEW h \in Handles, AssignPush(h), c = task[h].arg, Gains(c, task[h].got),
               c = "SC" => list[c] = <<>>
        PROVE  ListsOk(c)
    <3>1. task[h].got \in Nodes
      BY <2>4 DEF Gains
    <3>2. c = "SC" => Len(list[c]) = 0
      BY <2>4, EmptySeq
    <3>3. /\ list' \in [Criteria -> Seq(Nodes)]
          /\ \A d \in Criteria \ {c} : list'[d] = list[d]
          /\ Once(list'[c], Nodes) /\ Len(list'[c]) = Len(list[c]) + 1
          /\ Members(list'[c]) = Members(list[c]) \cup {task[h].got}
      BY <2>0, <2>4, <3>1, GainsDoes
    <3>4. ListInv(c)'
      BY <3>2, <3>3 DEF ListInv
    <3> QED
      BY <2>4, <3>3, <3>4 DEF ListsOk
  <2> QED
    BY <1>2, <2>1, <2>2, <2>3, <2>4 DEF ListStep
<1> QED
  BY <1>1, <1>2, ListNext DEF ListInv, ListsOk

-----------------------------------------------------------------------------
(* The main thread.                                                        *)

(* What a step of the main thread makes of `main`.                         *)
MainGoes ==
    \/ /\ Polling
       /\ \/ \E n \in Nodes : Disconnect(n) /\ MustUnassign(n)
                              /\ main' = [main EXCEPT !.pc = "unassign", !.n = n]
          \/ \E n \in Nodes : \E w \in SUBSET node[n].out :
                /\ FlushWrite(n) /\ node[n].conn = "open"
                /\ main' = [main EXCEPT !.pc = "flush", !.n = n, !.wrote = w]
          \/ TaskmanStop /\ ~up' /\ main' = [MainPoll EXCEPT !.pc = "halt"]
    \/ \E n \in Nodes :
          Halt(n) /\ main' = [main EXCEPT !.n = n, !.pc = IF MustUnassign(n) THEN "unassign"
                                                          ELSE "destroy"]
    \/ Unassign /\ main' = [main EXCEPT !.pc = "abort", !.todo = Handles]
                /\ \A c \in Criteria : ~InList(main.n, c)
    \/ \E h \in Handles : AbortTask(h) /\ main' = [main EXCEPT !.todo = @ \ {h}]
    \/ AbortDone /\ main' = IF up THEN MainPoll ELSE [main EXCEPT !.pc = "destroy"]
    \/ FlushReset /\ main' = MainPoll
    \/ HaltDestroy /\ main' = [MainPoll EXCEPT !.pc = "halt"]
    \/ PoolDestroy /\ main' = [MainPoll EXCEPT !.pc = "join"]
    \/ Joined /\ main' = [main EXCEPT !.pc = "done"]

LEMMA MainNextGoes ==
    ASSUME Next
    PROVE  UNCHANGED main \/ MainGoes
<1>1. ASSUME NEW n \in Nodes, NodeOnly(n) \/ RecvAnswer(n)
      PROVE  UNCHANGED main \/ MainGoes
  <2>1. CASE Disconnect(n)
    BY <2>1 DEF Disconnect, MainGoes
  <2>2. CASE FlushWrite(n)
    BY <2>2 DEF FlushWrite, MainGoes
  <2>3. CASE Halt(n)
    BY <2>3 DEF Halt, MainGoes
  <2> QED
    BY <1>1, <2>1, <2>2, <2>3 DEF NodeOnly, MempoolAdd, Connected, RecvAck, PollDestroy,
                                  MemAnswer, RecvAnswer
<1>2. ASSUME MainOnly
      PROVE  UNCHANGED main \/ MainGoes
  <2>1. CASE Unassign
    BY <2>1 DEF Unassign, MainGoes
  <2>2. CASE TaskmanStop
    BY <2>2 DEF TaskmanStop, MainGoes
  <2>3. CASE AbortDone \/ FlushReset \/ HaltDestroy \/ PoolDestroy \/ Joined
    BY <2>3 DEF AbortDone, FlushReset, HaltDestroy, PoolDestroy, Joined, MainGoes
  <2> QED
    BY <1>2, <2>1, <2>2, <2>3 DEF MainOnly, PopPause, PopStop
<1>3. ASSUME NEW h \in Handles, AbortTask(h)
      PROVE  MainGoes
  BY <1>3 DEF AbortTask, MainGoes
<1>4. ASSUME NEW h \in Handles,
             \/ PopTask(h) \/ Start(h) \/ Work(h)
             \/ \E kind \in Kinds : CreateTask(h, kind)
             \/ Submit(h) \/ Reschedule(h) \/ FreeCompleted(h)
      PROVE  UNCHANGED main
  BY <1>4 DEF PopTask, Start, StartRequest, Assign, Work, MempoolGet, MempoolGetFails, NodeReq,
              Send, AssignPush, After, EndOfFile, CreateTask, Submit, Reschedule, FreeCompleted
<1> QED
  BY <1>1, <1>2, <1>3, <1>4, NextCases

(* taskman's flag is cleared once.                                         *)
LEMMA UpNext ==
    ASSUME TypeOK, Next
    PROVE  up' \in BOOLEAN /\ (up' => up) /\ (UNCHANGED up \/ TaskmanStop)
<1>1. ASSUME NEW n \in Nodes, NodeOnly(n) \/ RecvAnswer(n)
      PROVE  UNCHANGED up
  BY <1>1 DEF NodeOnly, MempoolAdd, Connected, RecvAck, Disconnect, PollDestroy, FlushWrite,
              Halt, MemAnswer, RecvAnswer, poolVars
<1>2. ASSUME MainOnly
      PROVE  up' = up \/ (TaskmanStop /\ up' = FALSE)
  BY <1>2 DEF MainOnly, Unassign, AbortDone, FlushReset, TaskmanStop, HaltDestroy,
              PoolDestroy, Joined, PopPause, PopStop, poolVars
<1>3. ASSUME NEW h \in Handles,
             \/ AbortTask(h) \/ PopTask(h) \/ Start(h) \/ Work(h)
             \/ \E kind \in Kinds : CreateTask(h, kind)
             \/ Submit(h) \/ Reschedule(h) \/ FreeCompleted(h)
      PROVE  UNCHANGED up
  BY <1>3 DEF AbortTask, PopTask, Start, StartRequest, Assign, Work, MempoolGet,
              MempoolGetFails, NodeReq, Send, AssignPush, After, EndOfFile, CreateTask, Submit,
              Reschedule, FreeCompleted, poolVars
<1> QED
  BY <1>1, <1>2, <1>3, NextCases DEF TypeOK

LEMMA MainTyped ==
    ASSUME TypeOK, Next
    PROVE  main' \in Main
<1>0. main \in Main /\ MainPoll \in Main /\ \A n \in Nodes : node[n].out \in SUBSET Packet
  BY DEF TypeOK, Main, MainPoll, MemNode
<1>1. CASE UNCHANGED main
  BY <1>0, <1>1
<1>2. CASE MainGoes
  <2>1. CASE \E n \in Nodes : main' = [main EXCEPT !.pc = "unassign", !.n = n]
    BY <1>0, <2>1 DEF Main
  <2>2. CASE \E n \in Nodes : \E w \in SUBSET node[n].out :
                main' = [main EXCEPT !.pc = "flush", !.n = n, !.wrote = w]
    BY <1>0, <2>2 DEF Main
  <2>3. CASE \E n \in Nodes, pc \in {"unassign", "destroy"} :
                main' = [main EXCEPT !.n = n, !.pc = pc]
    BY <1>0, <2>3 DEF Main
  <2>4. CASE main' = [main EXCEPT !.pc = "abort", !.todo = Handles]
    BY <1>0, <2>4 DEF Main
  <2>5. CASE \E h \in Handles : main' = [main EXCEPT !.todo = @ \ {h}]
    BY <1>0, <2>5 DEF Main
  <2>6. CASE \E pc \in {"destroy", "done"} : main' = [main EXCEPT !.pc = pc]
    BY <1>0, <2>6 DEF Main
  <2>7. CASE main' = MainPoll \/ \E pc \in {"halt", "join"} : main' = [MainPoll EXCEPT !.pc = pc]
    BY <1>0, <2>7 DEF Main
  <2> QED
    BY <1>2, <2>1, <2>2, <2>3, <2>4, <2>5, <2>6, <2>7 DEF MainGoes
<1> QED
  BY <1>1, <1>2, MainNextGoes

-----------------------------------------------------------------------------
(* Types.                                                                  *)

(* What a step does to the queue: see QueueStep.                           *)
QueueGoes ==
    \/ UNCHANGED queue
    \/ \E h \in Handles : Submit(h) /\ (queue' = <<h>> \o queue \/ queue' = Append(queue, h))
    \/ \E x \in {Pause, Stop} : queue' = Times(Workers, x) \o queue
    \/ queue # <<>> /\ queue' = Tail(queue)
       /\ (Head(queue) \in Handles => PopTask(Head(queue)))

LEMMA QueueNext ==
    ASSUME Next
    PROVE  QueueGoes
<1>1. ASSUME NEW n \in Nodes, NodeOnly(n) \/ RecvAnswer(n)
      PROVE  UNCHANGED queue
  BY <1>1 DEF NodeOnly, MempoolAdd, Connected, RecvAck, Disconnect, PollDestroy, FlushWrite,
              Halt, MemAnswer, RecvAnswer, poolVars
<1>2. ASSUME MainOnly
      PROVE  QueueGoes
  <2>1. CASE TaskmanStop
    BY <2>1 DEF TaskmanStop, QueueGoes
  <2>2. CASE PoolDestroy
    BY <2>2 DEF PoolDestroy, QueueGoes
  <2>3. CASE PopPause \/ PopStop
    <3>1. Pause \notin Handles /\ Stop \notin Handles
      BY HandlesAssumption
    <3> QED
      BY <2>3, <3>1 DEF PopPause, PopStop, QueueGoes
  <2>4. CASE Unassign \/ AbortDone \/ FlushReset \/ HaltDestroy \/ Joined
    BY <2>4 DEF Unassign, AbortDone, FlushReset, HaltDestroy, Joined, poolVars, QueueGoes
  <2> QED
    BY <1>2, <2>1, <2>2, <2>3, <2>4 DEF MainOnly
<1>3. ASSUME NEW h \in Handles,
             \/ AbortTask(h) \/ Start(h) \/ Work(h)
             \/ \E kind \in Kinds : CreateTask(h, kind)
             \/ Reschedule(h) \/ FreeCompleted(h)
      PROVE  UNCHANGED queue
  BY <1>3 DEF AbortTask, Start, StartRequest, Assign, Work, MempoolGet,
              MempoolGetFails, NodeReq, Send, AssignPush, After, EndOfFile, CreateTask,
              Reschedule, FreeCompleted, poolVars
<1>4. ASSUME NEW h \in Handles, Submit(h)
      PROVE  QueueGoes
  BY <1>4 DEF Submit, QueueGoes
<1>5. ASSUME NEW h \in Handles, PopTask(h)
      PROVE  QueueGoes
  BY <1>5 DEF PopTask, QueueGoes
<1> QED
  BY <1>1, <1>2, <1>3, <1>4, <1>5, NextCases DEF QueueGoes

LEMMA PoolTyped ==
    ASSUME TypeOK, Next
    PROVE  pool' \in [idle : Nat, paused : Nat, gone : Nat]
<1>0. pool \in [idle : Nat, paused : Nat, gone : Nat] /\ pool.idle \in Nat
  BY DEF TypeOK
<1>1. ASSUME NEW n \in Nodes, NodeOnly(n) \/ RecvAnswer(n)
      PROVE  UNCHANGED pool
  BY <1>1 DEF NodeOnly, MempoolAdd, Connected, RecvAck, Disconnect, PollDestroy, FlushWrite,
              Halt, MemAnswer, RecvAnswer, poolVars
<1>9. pool.paused \in Nat /\ pool.gone \in Nat
  BY <1>0
<1> DEFINE i == pool.idle - 1
           p == pool.paused + 1
           g == pool.gone + 1
           j == pool.idle + pool.paused
<1>10. p \in Nat /\ g \in Nat /\ j \in Nat /\ (pool.idle > 0 => i \in Nat)
  BY <1>0, <1>9
<1>2. CASE PopPause
  <2>1. pool' = [pool EXCEPT !.idle = i, !.paused = p] /\ i \in Nat
    BY <1>2, <1>10 DEF PopPause
  <2> HIDE DEF i, p
  <2> QED
    BY <1>0, <1>10, <2>1
<1>3. CASE PopStop
  <2>1. pool' = [pool EXCEPT !.idle = i, !.gone = g] /\ i \in Nat
    BY <1>3, <1>10 DEF PopStop
  <2> HIDE DEF i, g
  <2> QED
    BY <1>0, <1>10, <2>1
<1>4. CASE PoolDestroy
  <2>1. pool' = [pool EXCEPT !.idle = j, !.paused = 0]
    BY <1>4 DEF PoolDestroy
  <2> HIDE DEF j
  <2> QED
    BY <1>0, <1>10, <2>1
<1>5. ASSUME MainOnly, ~PopPause, ~PopStop, ~PoolDestroy
      PROVE  UNCHANGED pool
  BY <1>5 DEF MainOnly, Unassign, AbortDone, FlushReset, TaskmanStop, HaltDestroy, Joined,
              poolVars
<1>6. ASSUME NEW h \in Handles, PopTask(h)
      PROVE  pool' \in [idle : Nat, paused : Nat, gone : Nat]
  BY <1>0, <1>6 DEF PopTask
<1>7. ASSUME NEW h \in Handles, After(h) \/ EndOfFile(h)
      PROVE  pool' \in [idle : Nat, paused : Nat, gone : Nat]
  <2>1. pool' = [pool EXCEPT !.idle = @ + 1] \/ UNCHANGED pool
    BY <1>7 DEF After, EndOfFile, Leave
  <2> QED
    BY <1>0, <2>1
<1>8. ASSUME NEW h \in Handles,
             \/ AbortTask(h) \/ Start(h)
             \/ Work(h) /\ ~After(h) /\ ~EndOfFile(h)
             \/ \E kind \in Kinds : CreateTask(h, kind)
             \/ Submit(h) \/ Reschedule(h) \/ FreeCompleted(h)
      PROVE  UNCHANGED pool
  BY <1>8 DEF AbortTask, Start, StartRequest, Assign, Work, MempoolGet,
              MempoolGetFails, NodeReq, Send, AssignPush, CreateTask, Submit,
              Reschedule, FreeCompleted, poolVars
<1> QED
  BY <1>0, <1>1, <1>2, <1>3, <1>4, <1>5, <1>6, <1>7, <1>8, NextCases

LEMMA MetaTyped ==
    ASSUME TypeOK, TasksInv, Next
    PROVE  meta' \subseteq Tables
<1>1. ASSUME NEW h \in Handles, After(h)
      PROVE  meta' \subseteq Tables
  <2>1. task[h].op \in {"create", "drop"} => task[h].arg \in Tables
    BY DEF TasksInv, TaskInv
  <2> QED
    BY <1>1, <2>1 DEF After, FedTables, TypeOK
<1>2. ASSUME NEW n \in Nodes, NodeOnly(n) \/ RecvAnswer(n)
      PROVE  UNCHANGED meta
  BY <1>2 DEF NodeOnly, MempoolAdd, Connected, RecvAck, Disconnect, PollDestroy, FlushWrite,
              Halt, MemAnswer, RecvAnswer
<1>3. ASSUME MainOnly
      PROVE  UNCHANGED meta
  BY <1>3 DEF MainOnly, Unassign, AbortDone, FlushReset, TaskmanStop, HaltDestroy,
              PoolDestroy, Joined, PopPause, PopStop
<1>4. ASSUME NEW h \in Handles,
             \/ AbortTask(h) \/ PopTask(h) \/ Start(h)
             \/ Work(h) /\ ~After(h)
             \/ \E kind \in Kinds : CreateTask(h, kind)
             \/ Submit(h) \/ Reschedule(h) \/ FreeCompleted(h)
      PROVE  UNCHANGED meta
  BY <1>4 DEF AbortTask, PopTask, Start, StartRequest, Assign, Work, MempoolGet,
              MempoolGetFails, NodeReq, Send, AssignPush, EndOfFile, CreateTask, Submit,
              Reschedule, FreeCompleted
<1> QED
  BY <1>1, <1>2, <1>3, <1>4, NextCases DEF TypeOK

(* Ids are given out in order, and what the history keeps of them.         *)
Counts ==
    /\ lines' \in Nat /\ opens' \in Nat /\ lines' >= lines
    /\ lost' \subseteq Nat /\ orphan' \subseteq Nat

Remembers ==
    /\ stray' \subseteq Nat /\ stray \subseteq stray'
    /\ \A x \in lost \cup orphan :
          \/ x \in lost' \cup orphan'
          \/ \E h \in Handles : After(h) /\ task[h].id = x

LEMMA HistoryNext ==
    ASSUME TypeOK, MainInv, Next
    PROVE  Counts /\ Remembers
<1>1. /\ lines \in Nat /\ opens \in Nat
      /\ lost \subseteq Nat /\ orphan \subseteq Nat /\ stray \subseteq Nat
  BY DEF TypeOK
<1>2. \A h \in Handles : task[h].id \in Nat
  BY DEF TypeOK, Task
<1>3. \A n \in Nodes : Ids(Requests(n)) \subseteq Nat /\ Ids(node[n].out) \subseteq Nat
  BY DEF TypeOK, MemNode, Packet, Requests, Ids
<1>4. ASSUME NEW n \in Nodes, NodeOnly(n) PROVE Counts /\ Remembers
  <2>1. /\ lines' = lines /\ lost' = lost /\ stray' = stray
        /\ opens' = opens \/ opens' = opens + 1
        /\ orphan' = orphan \/ orphan' = orphan \cup OrphansOf(n)
    BY <1>4 DEF NodeOnly, MempoolAdd, Connected, RecvAck, Disconnect, PollDestroy, FlushWrite,
                Halt, MemAnswer, history
  <2>2. OrphansOf(n) \subseteq Nat
    BY <1>3 DEF OrphansOf
  <2>3. orphan' \subseteq Nat /\ orphan \subseteq orphan'
    BY <1>1, <2>1, <2>2
  <2>4. opens' \in Nat
    BY <1>1, <2>1
  <2>5. Counts
    BY <1>1, <2>1, <2>3, <2>4 DEF Counts
  <2>6. Remembers
    BY <1>1, <2>1, <2>3 DEF Remembers
  <2> QED
    BY <2>5, <2>6
<1>5. ASSUME NEW n \in Nodes, RecvAnswer(n) PROVE Counts /\ Remembers
  <2>1. /\ lines' = lines /\ opens' = opens /\ lost' = lost /\ orphan' = orphan
        /\ \/ stray' = stray
           \/ \E h \in Handles : stray' = stray \cup {task[h].id}
    <3>1. \A m \in node[n].ans : m.h \in Handles
      BY DEF TypeOK, MemNode, Packet
    <3> QED
      BY <1>5, <3>1 DEF RecvAnswer
  <2>2. stray' \subseteq Nat /\ stray \subseteq stray'
    BY <1>1, <1>2, <2>1
  <2> QED
    BY <1>1, <2>1, <2>2 DEF Counts, Remembers
<1>6. ASSUME MainOnly PROVE Counts /\ Remembers
  <2>1. /\ lines' = lines /\ opens' = opens /\ orphan' = orphan /\ stray' = stray
        /\ \/ lost' = lost
           \/ main.n \in Nodes /\ lost' = lost \cup Ids(node[main.n].out \ main.wrote)
    BY <1>6 DEF MainOnly, Unassign, AbortDone, FlushReset, TaskmanStop, HaltDestroy,
                PoolDestroy, Joined, PopPause, PopStop, history, MainInv
  <2>2. main.n \in Nodes => Ids(node[main.n].out \ main.wrote) \subseteq Nat
    BY <1>3 DEF Ids
  <2>3. lost' \subseteq Nat /\ lost \subseteq lost'
    BY <1>1, <2>1, <2>2
  <2> QED
    BY <1>1, <2>1, <2>3 DEF Counts, Remembers
<1>7. ASSUME NEW h \in Handles, AbortTask(h) PROVE Counts /\ Remembers
  <2>1. /\ lines' = lines /\ opens' = opens /\ lost' = lost /\ orphan' = orphan
        /\ stray' = stray \/ stray' = stray \cup {task[h].id}
    BY <1>7 DEF AbortTask
  <2>2. stray' \subseteq Nat /\ stray \subseteq stray'
    BY <1>1, <1>2, <2>1
  <2> QED
    BY <1>1, <2>1, <2>2 DEF Counts, Remembers
<1>8. ASSUME NEW h \in Handles, Start(h) PROVE Counts /\ Remembers
  <2>1. /\ opens' = opens /\ lines' = lines + 1
        /\ lost' = lost /\ orphan' = orphan /\ stray' = stray
    BY <1>8 DEF Start, StartRequest, Assign, history
  <2> QED
    BY <1>1, <2>1 DEF Counts, Remembers
<1>9. ASSUME NEW h \in Handles, After(h) PROVE Counts /\ Remembers
  <2>1. /\ lines' = lines /\ opens' = opens /\ stray' = stray
        /\ lost' = lost \ {task[h].id} /\ orphan' = orphan \ {task[h].id}
    BY <1>9 DEF After
  <2>2. lost' \subseteq Nat /\ orphan' \subseteq Nat
    BY <1>1, <2>1
  <2>3. lines' \in Nat /\ opens' \in Nat /\ lines' >= lines
    BY <1>1, <2>1
  <2>4. Counts
    BY <2>2, <2>3 DEF Counts
  <2>5. ASSUME NEW x \in lost \cup orphan
        PROVE  x \in lost' \cup orphan' \/ \E k \in Handles : After(k) /\ task[k].id = x
    <3>1. x \in lost' \cup orphan' \/ task[h].id = x
      BY <2>1
    <3> QED
      BY <1>9, <3>1
  <2>6. stray' = stray /\ stray \subseteq Nat
    BY <1>1, <2>1
  <2>7. Remembers
    BY <2>5, <2>6 DEF Remembers
  <2> QED
    BY <2>4, <2>7
<1>10. ASSUME NEW h \in Handles,
              \/ PopTask(h)
              \/ Work(h) /\ ~After(h)
              \/ \E kind \in Kinds : CreateTask(h, kind)
              \/ Submit(h) \/ Reschedule(h) \/ FreeCompleted(h)
       PROVE  Counts /\ Remembers
  <2>1. /\ lines' = lines /\ opens' = opens
        /\ lost' = lost /\ orphan' = orphan /\ stray' = stray
    BY <1>10 DEF PopTask, Work, MempoolGet, MempoolGetFails, NodeReq, Send, AssignPush,
                 EndOfFile, CreateTask, Submit, Reschedule, FreeCompleted, history
  <2> QED
    BY <1>1, <2>1 DEF Counts, Remembers
<1> QED
  BY <1>4, <1>5, <1>6, <1>7, <1>8, <1>9, <1>10, NextCases

LEMMA QueueTyped ==
    ASSUME TypeOK, QueueInv, Next
    PROVE  queue' \in Seq(Handles \cup {Pause, Stop})
<1> DEFINE S == Handles \cup {Pause, Stop}
<1>1. queue \in Seq(S) /\ Workers \in Nat
  BY WorkersAssumption DEF TypeOK
<1>2. Once(queue, {})
  BY DEF Once
<1> HIDE DEF S
<1>3. ASSUME NEW h \in S PROVE <<h>> \o queue \in Seq(S) /\ Append(queue, h) \in Seq(S)
  <2>1. <<h>> \in Seq(S)
    BY Single
  <2> QED
    BY <1>1, <2>1, ConcatProperties, AppendProperties
<1>4. ASSUME NEW x \in S PROVE Times(Workers, x) \o queue \in Seq(S)
  BY <1>1, <1>2, Padded
<1>5. queue # <<>> => Tail(queue) \in Seq(S)
  BY <1>1, HeadTailProperties
<1> QED
  BY <1>1, <1>3, <1>4, <1>5, QueueNext DEF QueueGoes, S

(* ListsStep asks for it of each list.                                     *)
LEMMA TypeNext ==
    ASSUME IInv, Next
    PROVE  TypeOK'
<1>1. /\ TypeOK /\ TasksInv /\ IdsInv /\ MainInv /\ QueueInv /\ AssignInv
      /\ \A c \in Criteria : ListInv(c)
  BY UsableParts DEF IInv
<1> QED
  BY <1>1, NodeNext, TaskNext, ListsStep, MetaTyped, QueueTyped, PoolTyped, UpNext, MainTyped,
     HistoryNext DEF TypeOK, OneNode, OneTask, Counts, Remembers

-----------------------------------------------------------------------------
(* What follows from what a step does to one task.                         *)

LEMMA TasksStep ==
    ASSUME IInv, Next
    PROVE  TasksInv'
<1>1. TypeOK /\ TasksInv /\ IdsInv /\ OneTask
  BY TaskNext DEF IInv
<1>2. CASE UNCHANGED task
  BY <1>1, <1>2 DEF TasksInv, TaskInv
<1>3. ASSUME NEW h \in Handles, TaskStep(h) PROVE TaskInv(h)'
  <2>0. TaskInv(h)
    BY <1>1 DEF TasksInv
  <2>1. CASE Wakes(h)
    BY <2>0, <2>1 DEF TaskInv, Wakes, SameWork
  <2>2. CASE Resets(h) \/ Leaves(h)
    BY <2>0, <2>2 DEF TaskInv, Resets, Leaves
  <2>3. CASE Readies(h)
    BY <2>0, <2>3 DEF TaskInv, Readies, SameWork
  <2>4. CASE Pops(h)
    BY <2>0, <2>4 DEF TaskInv, Pops, SameArg
  <2>5. CASE Starts(h)
    BY <2>0, <2>5 DEF TaskInv, Starts
  <2>6. CASE Gets(h) \/ Fails(h)
    BY <2>0, <2>6 DEF TaskInv, Gets, Fails, SameArg
  <2>7. CASE Asks(h)
    BY <2>0, <2>7 DEF TaskInv, Asks, NodeReq, SameArg
  <2>8. CASE Sends(h)
    BY <2>0, <2>8 DEF TaskInv, Sends, Send, SameArg, SameRequest
  <2>9. CASE Locks(h)
    BY <2>0, <2>9 DEF TaskInv, Locks
  <2>10. CASE Pushes(h)
    BY <2>0, <2>10 DEF TaskInv, Pushes, AssignPush, SameArg
  <2> QED
    BY <1>3, <2>1, <2>2, <2>3, <2>4, <2>5, <2>6, <2>7, <2>8, <2>9, <2>10 DEF TaskStep
<1>4. ASSUME NEW h \in Handles, TaskStep(h), Only(h), NEW k \in Handles, k # h
      PROVE  TaskInv(k)'
  BY <1>1, <1>4 DEF Only, TasksInv, TaskInv
<1> QED
  BY <1>1, <1>2, <1>3, <1>4 DEF OneTask, TasksInv

LEMMA StrayStep ==
    ASSUME IInv, Next
    PROVE  StrayInv'
<1>1. TypeOK /\ TasksInv /\ IdsInv /\ OneTask /\ StrayInv /\ stray \subseteq stray'
  BY TaskNext, HistoryNext DEF IInv, Remembers
<1>2. CASE UNCHANGED task
  BY <1>1, <1>2 DEF StrayInv
<1>3. ASSUME NEW h \in Handles, TaskStep(h), Only(h), NEW k \in Handles, task'[k].pc \in Starting
      PROVE  task'[k].state = "awaiting" \/ task'[k].id \in stray'
  <2>1. CASE k # h
    BY <1>1, <1>3, <2>1 DEF Only, StrayInv, Starting
  <2>2. CASE k = h
    <3>1. CASE Wakes(h)
      BY <1>3, <2>2, <3>1 DEF Wakes, SameWork
    <3>2. CASE Gets(h) \/ Asks(h) \/ Sends(h)
      BY <1>1, <1>3, <2>2, <3>2 DEF Gets, Asks, Sends, NodeReq, Send, StrayInv, Starting,
                                    SameRequest
    <3>3. CASE Starts(h)
      BY <2>2, <3>3 DEF Starts
    <3>4. CASE Readies(h)
      BY <1>1, <1>3, <2>2, <3>4 DEF Readies, SameWork, TasksInv, TaskInv, Starting
    <3>5. CASE Resets(h) \/ Pops(h) \/ Fails(h) \/ Locks(h) \/ Pushes(h) \/ Leaves(h)
      BY <1>3, <2>2, <3>5 DEF Resets, Pops, Fails, Locks, Pushes, Leaves, Starting
    <3> QED
      BY <1>3, <3>1, <3>2, <3>3, <3>4, <3>5 DEF TaskStep
  <2> QED
    BY <2>1, <2>2
<1> QED
  BY <1>1, <1>2, <1>3 DEF OneTask, StrayInv, Starting

-----------------------------------------------------------------------------
(* The main thread and the connections.                                    *)

(* While the main thread is busy with one node, the connections stay.      *)
LEMMA Busy ==
    ASSUME OneNode, ~Polling, main.pc # "halt", NEW n \in Nodes
    PROVE  /\ node'[n].conn = node[n].conn \/ (HaltDestroy /\ n = main.n)
           /\ node'[n].handshaking = node[n].handshaking
           /\ node'[n].available = node[n].available
           /\ node[n].out \subseteq node'[n].out \/ FlushReset
<1>1. CASE UNCHANGED node
  BY <1>1
<1>2. ASSUME NEW k \in Nodes, NodeStep(k), OnlyNode(k)
      PROVE  /\ node'[k].conn = node[k].conn \/ (HaltDestroy /\ k = main.n)
             /\ node'[k].handshaking = node[k].handshaking
             /\ node'[k].available = node[k].available
             /\ node[k].out \subseteq node'[k].out \/ FlushReset
  <2>1. ~Opens(k) /\ ~Connects(k) /\ ~Greets(k) /\ ~Closes(k)
    BY DEF Opens, MempoolAdd, Connects, Connected, Greets, RecvAck, Closes, Disconnect, Halt
  <2>2. CASE Destroys(k)
    BY <2>2 DEF Destroys, PollDestroy, SameBuffers
  <2>3. CASE Guards(k)
    BY <2>3 DEF Guards, SameConn, SameBuffers
  <2>4. CASE Moves(k)
    BY <2>4 DEF Moves, SameConn
  <2>5. CASE Loads(k)
    BY <2>5 DEF Loads, SameConn
  <2> QED
    BY <1>2, <2>1, <2>2, <2>3, <2>4, <2>5 DEF NodeStep
<1> QED
  BY <1>1, <1>2 DEF OneNode, OnlyNode

LEMMA ClosedNow ==
    ASSUME TypeOK, NEW n \in Nodes, Disconnect(n) \/ Halt(n)
    PROVE  node'[n].conn = "closed" /\ OnlyNode(n)
<1>1. node' = [node EXCEPT ![n] = Closed(@)]
  BY DEF Disconnect, Halt
<1> QED
  BY <1>1, ClosedDoes

LEMMA MainStep ==
    ASSUME IInv, Next
    PROVE  MainInv'
<1>1. /\ TypeOK /\ MainInv /\ OneNode /\ main \in Main
      /\ up' \in BOOLEAN /\ (up' => up)
  BY NodeNext, UpNext DEF IInv, TypeOK
<1>2. CASE UNCHANGED main
  <2>1. CASE main.pc \in {"unassign", "abort", "destroy"}
    <3>1. main.n \in Nodes /\ node[main.n].conn = "closed" /\ ~Polling /\ main.pc # "halt"
      BY <1>1, <2>1 DEF MainInv, Polling
    <3>2. ~HaltDestroy
      BY <1>1, <1>2 DEF HaltDestroy, MainPoll
    <3>3. node'[main.n].conn = "closed"
      BY <1>1, <3>1, <3>2, Busy
    <3> QED
      BY <1>1, <1>2, <2>1, <3>1, <3>3 DEF MainInv
  <2>2. CASE main.pc = "flush"
    <3>1. /\ main.n \in Nodes /\ node[main.n].conn = "open" /\ ~Polling /\ main.pc # "halt"
          /\ main.wrote \subseteq node[main.n].out
      BY <1>1, <2>2 DEF MainInv, Polling
    <3>2. ~HaltDestroy /\ ~FlushReset
      BY <1>2, <2>2 DEF HaltDestroy, FlushReset, MainPoll
    <3>3. node'[main.n].conn = "open" /\ node[main.n].out \subseteq node'[main.n].out
      BY <1>1, <3>1, <3>2, Busy
    <3> QED
      BY <1>1, <1>2, <2>2, <3>1, <3>3 DEF MainInv
  <2> QED
    BY <1>1, <1>2, <2>1, <2>2 DEF MainInv
<1>3. CASE MainGoes
  <2>1. ASSUME NEW n \in Nodes, Disconnect(n), main' = [main EXCEPT !.pc = "unassign", !.n = n]
        PROVE  MainInv'
    <3>1. main'.pc = "unassign" /\ main'.n = n
      BY <1>1, <2>1 DEF Main
    <3> QED
      BY <1>1, <2>1, <3>1, ClosedNow DEF MainInv
  <2>2. ASSUME NEW n \in Nodes, NEW w \in SUBSET node[n].out, FlushWrite(n), node[n].conn = "open",
               main' = [main EXCEPT !.pc = "flush", !.n = n, !.wrote = w]
        PROVE  MainInv'
    <3>1. main'.pc = "flush" /\ main'.n = n /\ main'.wrote = w
      BY <1>1, <2>2 DEF Main
    <3>2. UNCHANGED node
      BY <2>2 DEF FlushWrite, nodeVars
    <3> QED
      BY <1>1, <2>2, <3>1, <3>2 DEF MainInv
  <2>3. ASSUME NEW n \in Nodes, Halt(n), NEW pc \in {"unassign", "destroy"},
               main' = [main EXCEPT !.n = n, !.pc = pc]
        PROVE  MainInv'
    <3>1. main'.pc = pc /\ main'.n = n
      BY <1>1, <2>3 DEF Main
    <3>2. ~up'
      BY <1>1, <2>3 DEF MainInv, Halt
    <3> QED
      BY <1>1, <2>3, <3>1, <3>2, ClosedNow DEF MainInv
  <2>4. ASSUME \/ Unassign /\ main' = [main EXCEPT !.pc = "abort", !.todo = Handles]
               \/ \E h \in Handles : AbortTask(h) /\ main' = [main EXCEPT !.todo = @ \ {h}]
               \/ AbortDone /\ ~up /\ main' = [main EXCEPT !.pc = "destroy"]
        PROVE  MainInv'
    <3>1. /\ main'.n = main.n /\ main'.pc \in {"abort", "destroy"}
          /\ main'.pc = "destroy" => ~up
          /\ main.pc \in {"unassign", "abort"}
      BY <1>1, <2>4 DEF Main, Unassign, AbortTask, AbortDone
    <3>2. main.n \in Nodes /\ node[main.n].conn = "closed" /\ ~Polling /\ main.pc # "halt"
      BY <1>1, <3>1 DEF MainInv, Polling
    <3>3. ~HaltDestroy
      BY <3>1 DEF HaltDestroy
    <3>4. node'[main.n].conn = "closed"
      BY <1>1, <3>2, <3>3, Busy
    <3> QED
      BY <1>1, <3>1, <3>2, <3>4 DEF MainInv
  <2>5. ASSUME \/ main' = MainPoll
               \/ TaskmanStop /\ ~up' /\ main' = [MainPoll EXCEPT !.pc = "halt"]
               \/ HaltDestroy /\ main' = [MainPoll EXCEPT !.pc = "halt"]
               \/ PoolDestroy /\ main' = [MainPoll EXCEPT !.pc = "join"]
        PROVE  MainInv'
    <3>1. main'.pc \in {"poll", "halt", "join"} /\ (main'.pc # "poll" => ~up')
      BY <1>1, <2>5 DEF MainPoll, MainInv, HaltDestroy, PoolDestroy
    <3> QED
      BY <3>1 DEF MainInv
  <2>6. ASSUME Joined, main' = [main EXCEPT !.pc = "done"]
        PROVE  MainInv'
    <3>1. main'.pc = "done" /\ ~up'
      BY <1>1, <2>6 DEF Main, Joined, MainInv
    <3> QED
      BY <3>1 DEF MainInv
  <2> QED
    BY <1>3, <2>1, <2>2, <2>3, <2>4, <2>5, <2>6 DEF MainGoes
<1> QED
  BY <1>2, <1>3, MainNextGoes

-----------------------------------------------------------------------------
(* The nodes.                                                              *)

NodeInv(n) ==
    /\ node[n].available <=> node[n].conn = "open" /\ ~node[n].handshaking
    /\ node[n].handshaking => node[n].conn \in {"connecting", "open"}
    /\ node[n].conn = "connecting" => node[n].handshaking
    /\ node[n].conn # "open" => Requests(n) = {}
    /\ node[n].out \cap node[n].srv = {}
    /\ node[n].ans \cap (node[n].out \cup node[n].srv) = {}

LEMMA DestroysWhen ==
    ASSUME TypeOK, MainInv, NodesInv, NEW n \in Nodes, Destroys(n)
    PROVE  node[n].conn # "open" /\ ~node[n].available
<1>1. CASE PollDestroy(n)
  BY <1>1 DEF PollDestroy, NodesInv
<1>2. CASE HaltDestroy /\ n = main.n
  BY <1>2 DEF HaltDestroy, MainInv, NodesInv
<1> QED
  BY <1>1, <1>2 DEF Destroys

LEMMA NodesStep ==
    ASSUME IInv, Next
    PROVE  NodesInv'
<1>1. /\ TypeOK /\ MainInv /\ TasksInv /\ IdsInv /\ AnswerMatches /\ OneNode
      /\ \A n \in Nodes : NodeInv(n)
  BY NodeNext DEF IInv, NodesInv, NodeInv
<1>2. CASE UNCHANGED node
  BY <1>1, <1>2 DEF NodesInv, NodeInv, Requests
<1>3. ASSUME NEW n \in Nodes, NodeStep(n) PROVE NodeInv(n)'
  <2>0. NodeInv(n)
    BY <1>1
  <2>1. CASE Opens(n)
    BY <2>0, <2>1 DEF NodeInv, Opens, SameBuffers, Requests
  <2>7. CASE Connects(n)
    BY <2>0, <2>7 DEF NodeInv, Connects, SameBuffers, Requests
  <2>8. CASE Greets(n)
    BY <2>0, <2>8 DEF NodeInv, Greets, SameBuffers, Requests
  <2>2. CASE Closes(n)
    BY <1>1, <2>2 DEF NodeInv, Closes, Requests
  <2>3. CASE Destroys(n)
    <3>1. node[n].conn # "open" /\ ~node[n].available /\ ~node[n].handshaking
      BY <1>1, <2>3, DestroysWhen DEF Destroys, PollDestroy, HaltDestroy, MainInv, NodeInv, IInv
    <3> QED
      BY <1>1, <2>3, <3>1 DEF NodeInv, Destroys, SameBuffers, Requests
  <2>4. CASE Guards(n)
    BY <1>1, <2>4 DEF NodeInv, Guards, SameConn, SameBuffers, Requests
  <2>5. CASE Moves(n)
    <3>1. node[n].conn = "open"
      BY <1>1, <2>5 DEF Moves, NodeInv, Requests, MainInv, FlushReset
    <3>2. FlushReset /\ n = main.n => main.wrote \subseteq node[n].out
      BY <1>1 DEF FlushReset, MainInv
    <3> QED
      BY <1>1, <2>5, <3>1, <3>2 DEF NodeInv, Moves, SameConn
  <2>6. CASE Loads(n)
    <3>1. PICK h \in Handles :
             /\ Send(h) /\ n = task[h].memNumber /\ node[n].conn = "open"
             /\ SameConn(n)
             /\ node'[n].out = node[n].out \cup {[h |-> h, id |-> task[h].id]}
             /\ node'[n].srv = node[n].srv /\ node'[n].ans = node[n].ans
      BY <2>6 DEF Loads
    <3>2. [h |-> h, id |-> task[h].id] \notin Requests(n)
      BY <1>1, <3>1 DEF IdsInv, Send
    <3> DEFINE m == [h |-> h, id |-> task[h].id]
    <3>3. /\ node'[n].out = node[n].out \cup {m}
          /\ node'[n].srv = node[n].srv /\ node'[n].ans = node[n].ans
          /\ m \notin Requests(n)
      BY <3>1, <3>2
    <3> HIDE DEF m
    <3>4. /\ node'[n].out \cap node'[n].srv = {}
          /\ node'[n].ans \cap (node'[n].out \cup node'[n].srv) = {}
      BY <2>0, <3>3 DEF NodeInv, Requests
    <3> QED
      BY <2>0, <3>1, <3>4 DEF NodeInv, SameConn
  <2> QED
    BY <1>3, <2>1, <2>2, <2>3, <2>4, <2>5, <2>6, <2>7, <2>8 DEF NodeStep
<1>4. ASSUME NEW n \in Nodes, OnlyNode(n), NEW k \in Nodes, k # n PROVE NodeInv(k)'
  BY <1>1, <1>4 DEF OnlyNode, NodeInv, Requests
<1> QED
  BY <1>1, <1>2, <1>3, <1>4 DEF OneNode, NodesInv, NodeInv

LEMMA Queued ==
    ASSUME TypeOK, QueueInv, queue # <<>>
    PROVE  /\ 1 \in DOMAIN queue /\ Head(queue) = queue[1]
           /\ Head(queue) \in Handles =>
                 /\ task[Head(queue)].pc = "idle"
                 /\ task[Head(queue)].state \in {"ready", "running"}
<1>1. queue \in Seq(Handles \cup {Pause, Stop})
  BY DEF TypeOK
<1>2. 1 \in DOMAIN queue /\ Head(queue) = queue[1]
  BY <1>1, LenProperties, EmptySeq
<1> QED
  BY <1>2 DEF QueueInv

-----------------------------------------------------------------------------
(* Who holds listNodeMtx.                                                  *)

(* A step that neither takes nor leaves the lock of a node.                *)
LEMMA LocksStay ==
    ASSUME IInv, Next, ~Unassign,
           ~\E h \in Handles, n \in Nodes, c \in Criteria : Assign(h, n, c),
           ~\E h \in Handles : AssignPush(h)
    PROVE  /\ \A n \in Nodes : node'[n].mtx = node[n].mtx
           /\ \A h \in Handles : task'[h].pc = "assign" <=> task[h].pc = "assign"
           /\ \A h \in Handles : task[h].pc = "assign" =>
                 task'[h].got = task[h].got /\ task'[h].arg = task[h].arg
           /\ \A n \in Nodes : Unassigning(n) => Unassigning(n)'
<1>1. TypeOK /\ TasksInv /\ OneNode /\ OneTask
  BY TaskNext, NodeNext DEF IInv
<1>2. ASSUME NEW n \in Nodes, NodeStep(n) PROVE node'[n].mtx = node[n].mtx
  BY <1>2 DEF NodeStep, Opens, Connects, Greets, Closes, Destroys, Guards, Moves, Loads
<1>3. \A n \in Nodes : node'[n].mtx = node[n].mtx
  BY <1>1, <1>2 DEF OneNode, OnlyNode
<1>4. ASSUME NEW h \in Handles, TaskStep(h)
      PROVE  /\ task'[h].pc = "assign" <=> task[h].pc = "assign"
             /\ task[h].pc = "assign" =>
                   task'[h].got = task[h].got /\ task'[h].arg = task[h].arg
  <2>1. TaskInv(h)
    BY <1>1 DEF TasksInv
  <2>2. CASE Wakes(h) \/ Readies(h)
    BY <2>2 DEF Wakes, Readies, SameWork
  <2>3. CASE Resets(h)
    BY <2>1, <2>3 DEF Resets, TaskInv
  <2>4. CASE Pops(h)
    <3>1. task[h].pc # "assign"
      BY <2>4, Queued DEF Pops, PopTask, IInv
    <3> QED
      BY <2>4, <3>1 DEF Pops
  <2>5. CASE Starts(h) \/ Gets(h) \/ Fails(h)
    BY <2>5 DEF Starts, Gets, Fails
  <2>6. CASE Asks(h)
    BY <2>6 DEF Asks, NodeReq
  <2>7. CASE Sends(h)
    BY <2>7 DEF Sends, Send
  <2>8. CASE Locks(h)
    BY <2>8 DEF Locks
  <2>9. CASE Pushes(h) \/ Leaves(h)
    BY <2>9 DEF Pushes, Leaves
  <2> QED
    BY <1>4, <2>2, <2>3, <2>4, <2>5, <2>6, <2>7, <2>8, <2>9 DEF TaskStep
<1>5. /\ \A h \in Handles : task'[h].pc = "assign" <=> task[h].pc = "assign"
      /\ \A h \in Handles : task[h].pc = "assign" =>
            task'[h].got = task[h].got /\ task'[h].arg = task[h].arg
  BY <1>1, <1>4 DEF OneTask, Only
<1>6. main.pc = "unassign" => UNCHANGED main
  BY MainNextGoes DEF MainGoes, Polling, Disconnect, FlushWrite, TaskmanStop, Halt, AbortTask,
                      AbortDone, FlushReset, HaltDestroy, PoolDestroy, Joined
<1> QED
  BY <1>3, <1>5, <1>6 DEF Unassigning

MtxOf(n) ==
    \/ node[n].mtx = {}
    \/ node[n].mtx = {MainThread} /\ Unassigning(n)
    \/ \E h \in Handles :
          node[n].mtx = {h} /\ task[h].pc = "assign" /\ task[h].got = n

HasMtx(h) == task[h].pc = "assign" => node[task[h].got].mtx = {h}

LEMMA UnassignDoes ==
    ASSUME TypeOK, MainInv, Unassign
    PROVE  /\ main.n \in Nodes /\ node[main.n].mtx \subseteq {MainThread}
           /\ OnlyNode(main.n) /\ SameConn(main.n) /\ SameBuffers(main.n)
           /\ UNCHANGED task
           /\ \/ node'[main.n].mtx = {MainThread} /\ UNCHANGED main
              \/ /\ node'[main.n].mtx = {} /\ \A c \in Criteria : ~InList(main.n, c)
                 /\ UNCHANGED list
<1> DEFINE n == main.n
<1>1. n \in Nodes /\ node[n].mtx \subseteq {MainThread} /\ UNCHANGED task
  BY DEF Unassign, MainInv
<1>2. ASSUME NEW x \in {{}, {MainThread}}, node' = [node EXCEPT ![n].mtx = x]
      PROVE  OnlyNode(n) /\ SameBuffers(n) /\ SameConn(n) /\ node'[n].mtx = x
  <2>1. x \in SUBSET (Handles \cup {MainThread})
    BY <1>2
  <2> QED
    BY <1>1, <1>2, <2>1, LockedDoes
<1> QED
  BY <1>1, <1>2 DEF Unassign

LEMMA PushLeaves ==
    ASSUME TypeOK, TasksInv, NEW h \in Handles, AssignPush(h)
    PROVE  /\ task[h].pc = "assign" /\ task[h].got \in Nodes
           /\ Only(h) /\ task'[h].pc = "after"
           /\ OnlyNode(task[h].got) /\ SameConn(task[h].got) /\ node'[task[h].got].mtx = {}
           /\ UNCHANGED main
<1>1. task[h].pc = "assign" /\ task[h].got \in Nodes /\ UNCHANGED main
  BY DEF AssignPush, TasksInv, TaskInv
<1>2. PICK e \in {task[h].err, "failed"} : task' = [task EXCEPT ![h].pc = "after", ![h].err = e]
  BY DEF AssignPush, TypeOK, Task
<1>3. Only(h) /\ task'[h].pc = "after"
  BY <1>2, PushDoes
<1>4. node' = [node EXCEPT ![task[h].got].mtx = {}] /\ {} \in SUBSET (Handles \cup {MainThread})
  BY DEF AssignPush
<1>5. OnlyNode(task[h].got) /\ SameConn(task[h].got) /\ node'[task[h].got].mtx = {}
  BY <1>1, <1>4, LockedDoes
<1> QED
  BY <1>1, <1>3, <1>5

LEMMA AssignLocks ==
    ASSUME TypeOK, NEW h \in Handles, NEW n \in Nodes, NEW c \in Criteria, Assign(h, n, c)
    PROVE  /\ task[h].pc = "begin" /\ node[n].mtx = {} /\ UNCHANGED <<main, list>>
           /\ Only(h)
           /\ \/ /\ node[n].available /\ ~InList(n, c)
                 /\ task'[h].pc = "assign" /\ task'[h].arg = c /\ task'[h].got = n
                 /\ OnlyNode(n) /\ SameConn(n) /\ node'[n].mtx = {h}
              \/ task'[h].pc = "after" /\ UNCHANGED node
<1>1. task[h].pc = "begin" /\ node[n].mtx = {} /\ UNCHANGED <<main, list>>
  BY DEF Assign, MayRun
<1>2. CASE node[n].available /\ ~InList(n, c)
  <2>1. node' = [node EXCEPT ![n].mtx = {h}] /\ {h} \in SUBSET (Handles \cup {MainThread})
    BY <1>2 DEF Assign
  <2>2. OnlyNode(n) /\ SameConn(n) /\ node'[n].mtx = {h}
    BY <2>1, LockedDoes
  <2>3. Only(h) /\ task'[h].pc = "assign" /\ task'[h].arg = c /\ task'[h].got = n
    BY <1>2, AssignDoes
  <2> QED
    BY <1>1, <1>2, <2>2, <2>3
<1>3. CASE ~(node[n].available /\ ~InList(n, c))
  <2>1. Only(h) /\ task'[h].pc = "after"
    BY <1>3, AssignFailsDoes
  <2> QED
    BY <1>1, <1>3, <2>1 DEF Assign
<1> QED
  BY <1>2, <1>3

LEMMA MtxStep ==
    ASSUME IInv, Next
    PROVE  MtxInv'
<1>1. /\ TypeOK /\ TasksInv /\ MainInv /\ MtxInv /\ MainThread \notin Handles
      /\ \A n \in Nodes : MtxOf(n)
      /\ \A h \in Handles : HasMtx(h)
      /\ \A h \in Handles : task[h].pc = "assign" => task[h].got \in Nodes
  BY HandlesAssumption DEF IInv, MtxInv, MtxOf, HasMtx, TasksInv, TaskInv
<1>2. SUFFICES (\A n \in Nodes : MtxOf(n)') /\ (\A h \in Handles : HasMtx(h)')
  BY DEF MtxInv, MtxOf, HasMtx
<1>3. CASE Unassign
  <2>0. PICK n \in Nodes : n = main.n
    BY <1>1, <1>3, UnassignDoes
  <2>1. /\ n \in Nodes /\ node[n].mtx \subseteq {MainThread} /\ OnlyNode(n) /\ UNCHANGED task
        /\ (node'[n].mtx = {MainThread} /\ UNCHANGED main) \/ node'[n].mtx = {}
    BY <1>1, <1>3, <2>0, UnassignDoes
  <2>2. main.pc = "unassign"
    BY <1>3 DEF Unassign
  <2>3. \A h \in Handles : task[h].pc = "assign" => task[h].got # n
    BY <1>1, <2>1 DEF HasMtx
  <2>4. MtxOf(n)'
    BY <2>0, <2>1, <2>2 DEF MtxOf, Unassigning
  <2>5. ASSUME NEW k \in Nodes, k # n PROVE MtxOf(k)'
    <3>1. node'[k] = node[k] /\ ~Unassigning(k)
      BY <2>0, <2>1, <2>5 DEF OnlyNode, Unassigning
    <3> QED
      BY <1>1, <2>1, <3>1 DEF MtxOf
  <2>6. ASSUME NEW h \in Handles PROVE HasMtx(h)'
    BY <1>1, <2>1, <2>3 DEF HasMtx, OnlyNode
  <2> QED
    BY <2>4, <2>5, <2>6
<1>4. ASSUME NEW h \in Handles, NEW n \in Nodes, NEW c \in Criteria, Assign(h, n, c)
      PROVE  (\A k \in Nodes : MtxOf(k)') /\ (\A k \in Handles : HasMtx(k)')
  <2>1. /\ task[h].pc = "begin" /\ node[n].mtx = {} /\ UNCHANGED main /\ Only(h)
        /\ \/ task'[h].pc = "assign" /\ task'[h].got = n
              /\ OnlyNode(n) /\ node'[n].mtx = {h}
           \/ task'[h].pc = "after" /\ UNCHANGED node
    BY <1>1, <1>4, AssignLocks
  <2>2. \A k \in Handles : task[k].pc = "assign" => task[k].got # n
    BY <1>1, <2>1 DEF HasMtx
  <2>3. ASSUME NEW k \in Nodes PROVE MtxOf(k)'
    <3>1. CASE k = n
      BY <1>1, <2>1, <3>1 DEF MtxOf
    <3>2. CASE k # n
      <4>1. node'[k] = node[k] /\ (Unassigning(k) => Unassigning(k)')
        BY <2>1, <3>2 DEF OnlyNode, Unassigning
      <4> QED
        BY <1>1, <2>1, <4>1 DEF MtxOf, Only
    <3> QED
      BY <3>1, <3>2
  <2>4. ASSUME NEW k \in Handles PROVE HasMtx(k)'
    <3>1. CASE k = h
      BY <2>1, <3>1 DEF HasMtx
    <3>2. CASE k # h
      BY <1>1, <2>1, <2>2, <3>2 DEF HasMtx, Only, OnlyNode
    <3> QED
      BY <3>1, <3>2
  <2> QED
    BY <2>3, <2>4
<1>5. ASSUME NEW h \in Handles, AssignPush(h)
      PROVE  (\A k \in Nodes : MtxOf(k)') /\ (\A k \in Handles : HasMtx(k)')
  <2>0. PICK n \in Nodes : n = task[h].got
    BY <1>1, <1>5, PushLeaves
  <2>1. /\ task[h].pc = "assign" /\ n \in Nodes /\ Only(h) /\ task'[h].pc = "after"
        /\ OnlyNode(n) /\ node'[n].mtx = {} /\ UNCHANGED main
    BY <1>1, <1>5, <2>0, PushLeaves
  <2>2. node[n].mtx = {h} /\ \A k \in Handles \ {h} : task[k].pc = "assign" => task[k].got # n
    BY <1>1, <2>0, <2>1 DEF HasMtx
  <2>3. ASSUME NEW k \in Nodes PROVE MtxOf(k)'
    <3>1. CASE k = n
      BY <2>1, <3>1 DEF MtxOf
    <3>2. CASE k # n
      <4>1. node'[k] = node[k] /\ (Unassigning(k) => Unassigning(k)')
        BY <2>1, <3>2 DEF OnlyNode, Unassigning
      <4> QED
        BY <1>1, <2>0, <2>1, <3>2, <4>1 DEF MtxOf, Only
    <3> QED
      BY <3>1, <3>2
  <2>4. ASSUME NEW k \in Handles PROVE HasMtx(k)'
    BY <1>1, <2>1, <2>2 DEF HasMtx, Only, OnlyNode
  <2> QED
    BY <2>3, <2>4
<1>6. ASSUME ~Unassign,
             ~\E h \in Handles, n \in Nodes, c \in Criteria : Assign(h, n, c),
             ~\E h \in Handles : AssignPush(h)
      PROVE  (\A k \in Nodes : MtxOf(k)') /\ (\A k \in Handles : HasMtx(k)')
  <2>1. /\ \A n \in Nodes : node'[n].mtx = node[n].mtx
        /\ \A h \in Handles : task'[h].pc = "assign" <=> task[h].pc = "assign"
        /\ \A h \in Handles : task[h].pc = "assign" => task'[h].got = task[h].got
        /\ \A n \in Nodes : Unassigning(n) => Unassigning(n)'
    BY <1>6, LocksStay
  <2> QED
    BY <1>1, <2>1 DEF MtxOf, HasMtx
<1> QED
  BY <1>3, <1>4, <1>5, <1>6

-----------------------------------------------------------------------------
(* The nodes of the lists are usable.                                      *)

(* A node that is available stays so until the main thread takes it out,   *)
(* and it takes it out of every list.                                      *)
Taken(n) == Unassign /\ n = main.n /\ UNCHANGED list /\ \A c \in Criteria : ~InList(n, c)

LEMMA StaysUsable ==
    ASSUME IInv, Next, NEW n \in Nodes, node[n].available \/ Unassigning(n)
    PROVE  (node[n].available /\ node'[n].available) \/ Unassigning(n)' \/ Taken(n)
<1>1. TypeOK /\ MainInv /\ NodesInv /\ OneNode /\ main \in Main
  BY NodeNext DEF IInv, TypeOK
<1>2. CASE Unassigning(n)
  <2>1. CASE Unassign
    BY <1>1, <1>2, <2>1, UnassignDoes DEF Unassigning, Taken
  <2>2. CASE ~Unassign
    <3>1. UNCHANGED main
      BY <1>2, <2>2, MainNextGoes DEF Unassigning, MainGoes, Polling, Halt, AbortTask,
            AbortDone, FlushReset, HaltDestroy, PoolDestroy, Joined
    <3> QED
      BY <1>2, <3>1 DEF Unassigning
  <2> QED
    BY <2>1, <2>2
<1>3. CASE node[n].available /\ ~Unassigning(n)
  <2>0. node[n].available /\ node[n].conn = "open" /\ ~node[n].handshaking /\ MustUnassign(n)
    BY <1>1, <1>3 DEF NodesInv, MustUnassign
  <2>1. CASE UNCHANGED node
    BY <2>0, <2>1
  <2>2. ASSUME NodeStep(n)
        PROVE  node'[n].available \/ Unassigning(n)'
    <3>1. CASE Opens(n) \/ Connects(n) \/ Greets(n)
      BY <2>0, <3>1 DEF Opens, Connects, Greets
    <3>2. CASE Closes(n)
      <4>1. /\ main'.pc = "unassign" /\ main'.n = n
        BY <1>1, <2>0, <3>2 DEF Closes, Disconnect, Halt, Main
      <4> QED
        BY <4>1 DEF Unassigning
    <3>3. CASE Destroys(n)
      BY <1>1, <2>0, <3>3, DestroysWhen
    <3>4. CASE Guards(n) \/ Moves(n) \/ Loads(n)
      BY <2>0, <3>4 DEF Guards, Moves, Loads, SameConn
    <3> QED
      BY <2>2, <3>1, <3>2, <3>3, <3>4 DEF NodeStep
  <2>3. ASSUME NEW k \in Nodes, OnlyNode(k), k # n
        PROVE  node'[n].available
    BY <2>0, <2>3 DEF OnlyNode
  <2> QED
    BY <1>1, <2>0, <2>1, <2>2, <2>3 DEF OneNode
<1> QED
  BY <1>2, <1>3

AssignOk(h) == task[h].pc = "assign" =>
       /\ ~InList(task[h].got, task[h].arg)
       /\ node[task[h].got].available \/ Unassigning(task[h].got)

LEMMA AssignStep ==
    ASSUME IInv, Next
    PROVE  AssignInv'
<1>1. /\ TypeOK /\ TasksInv /\ MainInv /\ MtxInv /\ AssignInv /\ OneTask
      /\ \A c \in Criteria : ListInv(c)
      /\ MainThread \notin Handles
  BY UsableParts, TaskNext, HandlesAssumption DEF IInv
<1>2. ASSUME NEW h \in Handles, NEW n \in Nodes, task[h].pc = "assign", task[h].got = n
      PROVE  node[n].mtx = {h} /\ task[h].arg \in Criteria /\ ~InList(n, task[h].arg)
             /\ (node[n].available \/ Unassigning(n))
  BY <1>1, <1>2 DEF MtxInv, AssignInv, TasksInv, TaskInv
(* A task that was about to assign a node and still is.                    *)
<1>3. ASSUME NEW h \in Handles, task[h].pc = "assign", task'[h].pc = "assign",
             task'[h].got = task[h].got, task'[h].arg = task[h].arg
      PROVE  AssignOk(h)'
  <2>1. PICK n \in Nodes, c \in Criteria : n = task[h].got /\ c = task[h].arg
    BY <1>1, <1>3 DEF TasksInv, TaskInv
  <2>2. node[n].mtx = {h} /\ ~InList(n, c) /\ (node[n].available \/ Unassigning(n))
    BY <1>2, <1>3, <2>1
  <2>3. ~Taken(n)
    BY <1>1, <2>2, UnassignDoes DEF Taken
  <2>4. node'[n].available \/ Unassigning(n)'
    BY <2>2, <2>3, StaysUsable
  <2>5. ~RecvAck(n)
    BY <2>2 DEF RecvAck
  <2>6. ASSUME NEW k \in Handles, AssignPush(k), n = task[k].got PROVE FALSE
    <3>1. task[k].pc = "assign" /\ task'[k].pc = "after"
      BY <1>1, <2>6, PushLeaves
    <3>2. node[n].mtx = {k}
      BY <1>2, <2>6, <3>1
    <3> QED
      BY <1>3, <2>2, <3>1, <3>2
  <2>7. n \notin Members(list'[c])
    BY <1>1, <2>1, <2>2, <2>5, <2>6, ListsStep, InListMembers
  <2>8. ~InList(n, c)'
    BY <2>7 DEF InList, Members
  <2> QED
    BY <1>3, <2>1, <2>4, <2>8 DEF AssignOk, InList, Unassigning
<1>4. ASSUME NEW h \in Handles, NEW n \in Nodes, NEW c \in Criteria, Assign(h, n, c),
             NEW k \in Handles
      PROVE  AssignOk(k)'
  <2>1. /\ UNCHANGED <<main, list>> /\ Only(h) /\ task[h].pc = "begin"
        /\ \/ /\ node[n].available /\ ~InList(n, c)
              /\ task'[h].pc = "assign" /\ task'[h].arg = c /\ task'[h].got = n
              /\ OnlyNode(n) /\ SameConn(n) /\ node'[n].mtx = {h}
           \/ task'[h].pc = "after" /\ UNCHANGED node
    BY <1>1, <1>4, AssignLocks
  <2>2. CASE k = h
    BY <2>1, <2>2 DEF AssignOk, SameConn, InList
  <2>3. CASE k # h
    BY <1>3, <2>1, <2>3 DEF Only, AssignOk
  <2> QED
    BY <2>2, <2>3
<1>5. ASSUME NEW h \in Handles, AssignPush(h), NEW k \in Handles
      PROVE  AssignOk(k)'
  <2>1. Only(h) /\ task'[h].pc = "after"
    BY <1>1, <1>5, PushLeaves
  <2> QED
    BY <1>3, <2>1 DEF Only, AssignOk
<1>6. ASSUME Unassign, NEW k \in Handles
      PROVE  AssignOk(k)'
  <2>1. UNCHANGED task
    BY <1>1, <1>6, UnassignDoes
  <2> QED
    BY <1>3, <2>1 DEF AssignOk
<1>7. ASSUME ~Unassign,
             ~\E h \in Handles, n \in Nodes, c \in Criteria : Assign(h, n, c),
             ~\E h \in Handles : AssignPush(h), NEW k \in Handles
      PROVE  AssignOk(k)'
  <2>1. /\ task'[k].pc = "assign" <=> task[k].pc = "assign"
        /\ task[k].pc = "assign" => task'[k].got = task[k].got /\ task'[k].arg = task[k].arg
    BY <1>7, LocksStay
  <2> QED
    BY <1>3, <2>1 DEF AssignOk
<1>8. \A k \in Handles : AssignOk(k)'
  BY <1>4, <1>5, <1>6, <1>7
<1> QED
  BY <1>8 DEF AssignInv, AssignOk

LEMMA UsableStep ==
    ASSUME IInv, Next
    PROVE  AssignedUsable'
<1>1. /\ TypeOK /\ TypeOK' /\ TasksInv /\ MainInv /\ AssignInv /\ NodesInv /\ NodesInv'
      /\ \A c \in Criteria : ListInv(c) /\ \A n \in Members(list[c]) : Usable(n)
  BY UsableParts, TypeNext, NodesStep DEF IInv
<1>2. /\ \A c \in Criteria : ListInv(c)'
      /\ \A c \in Criteria : \A n \in Members(list'[c]) :
            \/ n \in Members(list[c])
            \/ RecvAck(n) /\ n \in Nodes
            \/ \E h \in Handles : AssignPush(h) /\ n = task[h].got /\ c = task[h].arg
  BY <1>1, ListsStep
<1>3. ASSUME NEW n \in Nodes, node'[n].available \/ Unassigning(n)'
      PROVE  Usable(n)'
  BY <1>1, <1>3 DEF NodesInv, Usable, Unassigning
<1>4. ASSUME NEW c \in Criteria, NEW n \in Members(list'[c])
      PROVE  Usable(n)'
  <2>1. CASE n \in Members(list[c])
    <3>1. list[c] \in Seq(Nodes)
      BY <1>1 DEF TypeOK
    <3>2. n \in Nodes
      BY <2>1, <3>1, LenProperties, ElementOfSeq DEF Members
    <3>3. node[n].available \/ Unassigning(n)
      BY <1>1, <2>1 DEF Usable
    <3>4. ~Taken(n)
      BY <2>1, InListMembers DEF Taken
    <3> QED
      BY <1>3, <3>2, <3>3, <3>4, StaysUsable
  <2>2. CASE RecvAck(n) /\ n \in Nodes
    BY <1>1, <1>3, <2>2, AckDoes
  <2>3. ASSUME NEW h \in Handles, AssignPush(h), n = task[h].got
        PROVE  Usable(n)'
    <3>1. task[h].pc = "assign" /\ n \in Nodes /\ SameConn(n) /\ UNCHANGED main
      BY <1>1, <2>3, PushLeaves
    <3>2. node[n].available \/ Unassigning(n)
      BY <1>1, <2>3, <3>1 DEF AssignInv
    <3> QED
      BY <1>3, <3>1, <3>2 DEF SameConn, Unassigning
  <2> QED
    BY <1>2, <2>1, <2>2, <2>3
<1>5. ASSUME NEW c \in Criteria
      PROVE  /\ \A i, j \in DOMAIN list'[c] : i # j => list'[c][i] # list'[c][j]
             /\ \A i \in DOMAIN list'[c] : Usable(list[c][i])'
             /\ c = "SC" => Len(list'[c]) <= 1
  <2>1. Once(list'[c], Nodes) /\ (c = "SC" => Len(list'[c]) <= 1) /\ list'[c] \in Seq(Nodes)
    BY <1>1, <1>2 DEF ListInv, TypeOK
  <2>2. \A i \in DOMAIN list'[c] : list'[c][i] \in Nodes /\ list'[c][i] \in Members(list'[c])
    BY <2>1, LenProperties, ElementOfSeq DEF Members
  <2>3. \A i \in DOMAIN list'[c] : Usable(list[c][i])'
    BY <1>4, <2>2 DEF Usable, Unassigning
  <2> QED
    BY <2>1, <2>2, <2>3 DEF Once
<1> QED
  BY <1>5 DEF AssignedUsable, Usable, Unassigning

-----------------------------------------------------------------------------
(* The queue and the ids.                                                  *)

Resting(h) == task[h].pc = "idle" /\ task[h].state \in {"ready", "running"}

LEMMA QueueParts ==
    QueueInv <=> /\ Once(queue, Handles)
                 /\ \A h \in Members(queue) \cap Handles : Resting(h)
BY DEF QueueInv, Once, Members, Resting

LEMMA QueueStep ==
    ASSUME IInv, Next
    PROVE  QueueInv'
<1> DEFINE S == Handles \cup {Pause, Stop}
<1>1. /\ TypeOK /\ TasksInv /\ OneTask /\ queue \in Seq(S) /\ Workers \in Nat
      /\ Once(queue, Handles) /\ \A h \in Members(queue) \cap Handles : Resting(h)
  BY QueueParts, TaskNext, WorkersAssumption DEF IInv, TypeOK
<1>9. Handles \subseteq S /\ {Pause, Stop} \subseteq S
  OBVIOUS
<1> HIDE DEF S
<1> SUFFICES /\ Once(queue', Handles)
             /\ \A h \in Members(queue') \cap Handles : Resting(h)'
  BY DEF QueueInv, Once, Members, Resting
<1>2. ASSUME NEW h \in Handles, Resting(h), ~PopTask(h) PROVE Resting(h)'
  <2>1. ASSUME TaskStep(h) PROVE Resting(h)'
    <3>1. CASE Wakes(h)
      BY <1>2, <3>1 DEF Wakes, SameWork, Resting
    <3>2. ~Resets(h) /\ ~Readies(h) /\ ~Pops(h) /\ ~Starts(h) /\ ~Gets(h) /\ ~Fails(h)
      BY <1>2 DEF Resets, Readies, Pops, Starts, Gets, Fails, Resting
    <3>3. ~Asks(h) /\ ~Sends(h) /\ ~Locks(h) /\ ~Pushes(h) /\ ~Leaves(h)
      BY <1>2 DEF Asks, NodeReq, Sends, Send, Locks, Pushes, AssignPush, Leaves, Resting
    <3> QED
      BY <2>1, <3>1, <3>2, <3>3 DEF TaskStep
  <2>2. ASSUME NEW k \in Handles, k # h, Only(k) PROVE Resting(h)'
    BY <1>2, <2>2 DEF Only, Resting
  <2> QED
    BY <1>1, <1>2, <2>1, <2>2 DEF OneTask, Resting
<1>3. ASSUME NEW h \in Handles, PopTask(h)
      PROVE  /\ Once(queue', Handles)
             /\ \A k \in Members(queue') \cap Handles : Resting(k)'
  <2>1. queue # <<>> /\ Head(queue) = h /\ queue' = Tail(queue)
    BY <1>3 DEF PopTask
  <2>2. /\ Once(Tail(queue), Handles) /\ h \notin Members(Tail(queue))
        /\ Members(queue) = {h} \cup Members(Tail(queue))
    BY <1>1, <2>1, Popped
  <2>3. Only(h)
    BY <1>1, <1>3, PopDoes
  <2>4. ASSUME NEW k \in Members(queue') \cap Handles PROVE Resting(k)'
    <3>1. k # h /\ Resting(k)
      BY <1>1, <2>1, <2>2, <2>4
    <3> QED
      BY <2>3, <3>1 DEF Only, Resting
  <2> QED
    BY <2>1, <2>2, <2>4
<1>4. ASSUME ~\E h \in Handles : PopTask(h), UNCHANGED queue
      PROVE  /\ Once(queue', Handles)
             /\ \A k \in Members(queue') \cap Handles : Resting(k)'
  BY <1>1, <1>2, <1>4
<1>5. ASSUME ~\E h \in Handles : PopTask(h), queue # <<>>, queue' = Tail(queue)
      PROVE  /\ Once(queue', Handles)
             /\ \A k \in Members(queue') \cap Handles : Resting(k)'
  <2>1. Once(Tail(queue), Handles) /\ Members(Tail(queue)) \subseteq Members(queue)
    BY <1>1, <1>5, Popped
  <2> QED
    BY <1>1, <1>2, <1>5, <2>1
<1>6. ASSUME ~\E h \in Handles : PopTask(h), NEW x \in {Pause, Stop},
             queue' = Times(Workers, x) \o queue
      PROVE  /\ Once(queue', Handles)
             /\ \A k \in Members(queue') \cap Handles : Resting(k)'
  <2>1. x \notin Handles /\ x \in S
    BY <1>9, HandlesAssumption
  <2>2. /\ Once(Times(Workers, x) \o queue, Handles)
        /\ Members(Times(Workers, x) \o queue) \cap Handles = Members(queue) \cap Handles
    BY <1>1, <2>1, Padded
  <2> QED
    BY <1>1, <1>2, <1>6, <2>2
<1>7. ASSUME NEW h \in Handles, Submit(h),
             queue' = <<h>> \o queue \/ queue' = Append(queue, h)
      PROVE  /\ Once(queue', Handles)
             /\ \A k \in Members(queue') \cap Handles : Resting(k)'
  <2>1. task[h].state = "new" /\ task[h].pc = "idle"
    BY <1>1, <1>7 DEF Submit, TasksInv, TaskInv
  <2>2. h \notin Members(queue) /\ h \in S
    BY <1>1, <1>9, <2>1 DEF Resting
  <2>3. Once(queue', Handles) /\ Members(queue') = Members(queue) \cup {h}
    <3>1. /\ Once(<<h>> \o queue, Handles) /\ Once(Append(queue, h), Handles)
          /\ Members(<<h>> \o queue) = Members(queue) \cup {h}
          /\ Members(Append(queue, h)) = Members(queue) \cup {h}
      BY <1>1, <2>2, Prepended, Appended
    <3> QED
      BY <1>7, <3>1
  <2>4. Only(h) /\ Resting(h)'
    BY <1>1, <1>7, <2>1, SubmitDoes DEF SameWork, Resting
  <2>5. ASSUME NEW k \in Members(queue') \cap Handles, k # h PROVE Resting(k)'
    <3>1. Resting(k)
      BY <1>1, <2>3, <2>5
    <3> QED
      BY <2>4, <2>5, <3>1 DEF Only, Resting
  <2> QED
    BY <2>3, <2>4, <2>5
<1>8. QueueGoes
  BY QueueNext
<1> QED
  BY <1>3, <1>4, <1>5, <1>6, <1>7, <1>8 DEF QueueGoes

(* What a step does to the id of a task.                                   *)
LEMMA IdGoes ==
    ASSUME IInv, Next, NEW h \in Handles
    PROVE  /\ \/ task'[h].id = task[h].id
              \/ task'[h].id = 0
              \/ /\ task'[h].id = lines + 1 /\ lines' = lines + 1
                 /\ \A k \in Handles \ {h} : task'[k] = task[k]
           /\ task'[h].pc \notin {"idle", "begin"} =>
                 \/ task'[h].id = lines + 1
                 \/ task'[h].id = task[h].id /\ task[h].pc \notin {"idle", "begin"}
           /\ task'[h].pc \in Starting =>
                 \/ task'[h].id = lines + 1
                 \/ task'[h].id = task[h].id /\ task[h].pc \in Starting
<1>1. TypeOK /\ OneTask
  BY TaskNext DEF IInv
<1>2. CASE task'[h] = task[h]
  BY <1>2
<1>3. ASSUME TaskStep(h), Only(h)
      PROVE  /\ \/ task'[h].id = task[h].id
                \/ task'[h].id = 0
                \/ task'[h].id = lines + 1 /\ lines' = lines + 1
             /\ task'[h].pc \notin {"idle", "begin"} =>
                   \/ task'[h].id = lines + 1
                   \/ task'[h].id = task[h].id /\ task[h].pc \notin {"idle", "begin"}
             /\ task'[h].pc \in Starting =>
                   \/ task'[h].id = lines + 1
                   \/ task'[h].id = task[h].id /\ task[h].pc \in Starting
  <2>1. CASE Wakes(h) \/ Readies(h)
    BY <2>1 DEF Wakes, Readies, SameWork
  <2>2. CASE Resets(h)
    BY <2>2 DEF Resets, Starting
  <2>3. CASE Pops(h) \/ Leaves(h)
    BY <2>3 DEF Pops, Leaves, SameRequest, Starting
  <2>4. CASE Starts(h) \/ Locks(h)
    BY <2>4 DEF Starts, Locks, Starting
  <2>5. CASE Gets(h) \/ Fails(h)
    BY <2>5 DEF Gets, Fails, SameRequest, Starting
  <2>6. CASE Asks(h)
    BY <2>6 DEF Asks, NodeReq, Starting
  <2>7. CASE Sends(h)
    BY <2>7 DEF Sends, Send, SameRequest, Starting
  <2>8. CASE Pushes(h)
    BY <2>8 DEF Pushes, AssignPush, SameRequest, Starting
  <2> QED
    BY <1>3, <2>1, <2>2, <2>3, <2>4, <2>5, <2>6, <2>7, <2>8 DEF TaskStep
<1> QED
  BY <1>1, <1>2, <1>3 DEF OneTask, Only

(* What a step adds to the requests of a node.                             *)
LEMMA RequestsGo ==
    ASSUME IInv, Next, NEW n \in Nodes
    PROVE  \A m \in Requests(n)' :
              \/ m \in Requests(n)
              \/ \E h \in Handles : /\ Send(h) /\ n = task[h].memNumber /\ node[n].conn = "open"
                                    /\ m = [h |-> h, id |-> task[h].id]
<1>1. TypeOK /\ MainInv /\ OneNode
  BY NodeNext DEF IInv
<1>2. CASE node'[n] = node[n]
  BY <1>2 DEF Requests
<1>3. ASSUME NodeStep(n), NEW m \in Requests(n)', m \notin Requests(n)
      PROVE  \E h \in Handles : /\ Send(h) /\ n = task[h].memNumber /\ node[n].conn = "open"
                                /\ m = [h |-> h, id |-> task[h].id]
  <2>1. ~Opens(n) /\ ~Connects(n) /\ ~Greets(n) /\ ~Closes(n) /\ ~Destroys(n) /\ ~Guards(n)
    BY <1>3 DEF Opens, Connects, Greets, Closes, Destroys, Guards, SameBuffers, Requests
  <2>2. ~Moves(n)
    <3>1. FlushReset /\ n = main.n => main.wrote \subseteq node[n].out
      BY <1>1 DEF FlushReset, MainInv
    <3> QED
      BY <1>3, <3>1 DEF Moves, Requests
  <2>3. CASE Loads(n)
    BY <1>3, <2>3 DEF Loads, Requests
  <2> QED
    BY <1>3, <2>1, <2>2, <2>3 DEF NodeStep
<1> QED
  BY <1>1, <1>2, <1>3 DEF OneNode, OnlyNode

LEMMA IdsStep ==
    ASSUME IInv, Next
    PROVE  IdsInv'
<1>1. /\ TypeOK /\ TasksInv /\ IdsInv /\ lines \in Nat /\ lines' \in Nat /\ lines' >= lines
      /\ \A h \in Handles : task[h].id \in Nat /\ task[h].id <= lines
  BY HistoryNext DEF IInv, TypeOK, Task, Counts, IdsInv
<1>2. ASSUME NEW h \in Handles PROVE task'[h].id <= lines'
  BY <1>1, IdGoes
<1>3. ASSUME NEW h \in Handles, NEW k \in Handles, task'[h].id = task'[k].id, task'[h].id # 0
      PROVE  h = k
  <2>1. \A i, j \in Handles : task[i].id = task[j].id /\ task[i].id # 0 => i = j
    BY <1>1 DEF IdsInv
  <2>2. ASSUME task'[h].id = lines + 1, lines' = lines + 1,
               \A i \in Handles \ {h} : task'[i] = task[i], k # h
        PROVE  FALSE
    <3>1. task[k].id = lines + 1 /\ task[k].id \in Nat /\ task[k].id <= lines
      BY <1>1, <1>3, <2>2
    <3> QED
      BY <1>1, <3>1
  <2>3. ASSUME task'[k].id = lines + 1, lines' = lines + 1,
               \A i \in Handles \ {k} : task'[i] = task[i], k # h
        PROVE  FALSE
    <3>1. task[h].id = lines + 1 /\ task[h].id \in Nat /\ task[h].id <= lines
      BY <1>1, <1>3, <2>3
    <3> QED
      BY <1>1, <3>1
  <2> QED
    BY <1>3, <2>1, <2>2, <2>3, IdGoes
<1>4. ASSUME NEW h \in Handles, task'[h].pc \notin {"idle", "begin"} PROVE task'[h].id # 0
  BY <1>1, <1>4, IdGoes DEF IdsInv
<1>5. ASSUME NEW n \in Nodes, NEW m \in Requests(n)'
      PROVE  /\ m.id <= lines'
             /\ task'[m.h].id = m.id => task'[m.h].pc \notin Starting
  <2>1. CASE m \in Requests(n)
    <3>1. m.h \in Handles /\ m.id \in Nat /\ m.id <= lines
          /\ (task[m.h].id = m.id => task[m.h].pc \notin Starting)
      BY <1>1, <2>1 DEF IdsInv, TypeOK, MemNode, Packet, Requests, Starting
    <3>2. m.id # lines + 1 /\ m.id <= lines'
      BY <1>1, <3>1
    <3> QED
      BY <3>1, <3>2, IdGoes
  <2>2. ASSUME NEW h \in Handles, Send(h), n = task[h].memNumber, node[n].conn = "open",
               m = [h |-> h, id |-> task[h].id]
        PROVE  m.h = h /\ m.id <= lines' /\ task'[h].pc = "wait"
    <3>1. task' = [task EXCEPT ![h].pc = "wait"] /\ "wait" \in Pc
      BY <2>2 DEF Send, Pc
    <3>2. task'[h].pc = "wait"
      BY <1>1, <3>1, MovesDoes
    <3> QED
      BY <1>1, <2>2, <3>2
  <2> QED
    BY <2>1, <2>2, RequestsGo DEF Starting
<1> QED
  BY <1>2, <1>3, <1>4, <1>5 DEF IdsInv, Starting

-----------------------------------------------------------------------------
(* Requests and answers.                                                   *)

(* A context is destroyed when no worker is sending on it, or once taskman *)
(* has been stopped.                                                       *)
LEMMA SendStep ==
    ASSUME IInv, Next
    PROVE  SendSafe'
<1>1. /\ TypeOK /\ TasksInv /\ MainInv /\ SendSafe /\ OneTask /\ OneNode /\ (up' => up)
  BY TaskNext, NodeNext, UpNext DEF IInv
<1> SUFFICES ASSUME up, NEW n \in Nodes, NEW h \in Handles,
                    task'[h].pc = "send", task'[h].memNumber = n
             PROVE  node'[n].conn # "null"
  BY <1>1 DEF SendSafe, Readers
<1>2. ~HaltDestroy
  BY <1>1 DEF HaltDestroy, MainInv
<1>3. ASSUME NodeStep(n), node'[n].conn = "null", node[n].conn # "null"
      PROVE  Readers(n) = {}
  <2>1. Destroys(n)
    BY <1>3 DEF NodeStep, Opens, Connects, Greets, Closes, Guards, Moves, Loads, SameConn
  <2> QED
    BY <1>2, <2>1 DEF Destroys, PollDestroy
<1>4. CASE h \in Readers(n)
  <2>1. node[n].conn # "null"
    BY <1>1, <1>4 DEF SendSafe
  <2> QED
    BY <1>1, <1>3, <1>4, <2>1 DEF OneNode, OnlyNode
<1>5. ASSUME TaskStep(h), h \notin Readers(n)
      PROVE  node'[n].conn # "null"
  <2>1. ~Wakes(h) /\ ~Resets(h) /\ ~Readies(h) /\ ~Pops(h) /\ ~Starts(h) /\ ~Gets(h) /\ ~Fails(h)
    <3>1. ~Resets(h) /\ ~Pops(h) /\ ~Starts(h) /\ ~Gets(h) /\ ~Fails(h)
      BY DEF Resets, Pops, Starts, Gets, Fails
    <3>2. ~Wakes(h) /\ ~Readies(h)
      BY <1>5 DEF Wakes, Readies, SameWork, Readers
    <3> QED
      BY <3>1, <3>2
  <2>2. ~Sends(h) /\ ~Locks(h) /\ ~Pushes(h) /\ ~Leaves(h)
    BY DEF Sends, Locks, Pushes, Leaves
  <2>3. Asks(h)
    BY <1>5, <2>1, <2>2 DEF TaskStep
  <2> QED
    BY <2>3 DEF Asks, NodeReq, nodeVars
<1>6. CASE task'[h] = task[h]
  BY <1>4, <1>6 DEF Readers
<1> QED
  BY <1>1, <1>4, <1>5, <1>6 DEF OneTask, Only

(* A task that waits goes on waiting until it is woken up.                 *)
LEMMA WaitsOn ==
    ASSUME IInv, Next, NEW h \in Handles, Waiting(h)
    PROVE  task'[h] = task[h] \/ (Wakes(h) /\ Only(h))
<1>1. TypeOK /\ OneTask /\ QueueInv
  BY TaskNext DEF IInv
<1>2. ASSUME TaskStep(h) PROVE Wakes(h)
  <2>1. ~Resets(h) /\ ~Readies(h) /\ ~Starts(h) /\ ~Gets(h) /\ ~Fails(h)
    BY DEF Waiting, Resets, Readies, Starts, Gets, Fails
  <2>2. ~Asks(h) /\ ~Sends(h) /\ ~Locks(h) /\ ~Pushes(h) /\ ~Leaves(h)
    BY DEF Waiting, Asks, NodeReq, Sends, Send, Locks, Pushes, AssignPush, Leaves
  <2>3. ~Pops(h)
    BY <1>1, Queued DEF Waiting, Pops, PopTask
  <2> QED
    BY <1>2, <2>1, <2>2, <2>3 DEF TaskStep
<1> QED
  BY <1>1, <1>2 DEF OneTask, Only

(* It waits from when it has sent its request.                             *)
LEMMA WaitsFrom ==
    ASSUME IInv, Next, NEW h \in Handles, Waiting(h)'
    PROVE  \/ Waiting(h) /\ task'[h] = task[h]
           \/ /\ Send(h) /\ node[task[h].memNumber].conn = "open"
              /\ task'[h].id = task[h].id /\ task'[h].memNumber = task[h].memNumber
<1>1. TypeOK /\ OneTask
  BY TaskNext DEF IInv
<1>2. task'[h].pc = "wait" /\ task'[h].state = "awaiting"
  BY DEF Waiting
<1>3. ASSUME TaskStep(h)
      PROVE  /\ Send(h) /\ node[task[h].memNumber].conn = "open"
             /\ task'[h].id = task[h].id /\ task'[h].memNumber = task[h].memNumber
  <2>1. ~Wakes(h) /\ ~Resets(h) /\ ~Readies(h) /\ ~Pops(h) /\ ~Starts(h) /\ ~Gets(h) /\ ~Fails(h)
    BY <1>2 DEF Wakes, Resets, Readies, Pops, Starts, Gets, Fails
  <2>2. ~Asks(h) /\ ~Locks(h) /\ ~Pushes(h) /\ ~Leaves(h)
    BY <1>2 DEF Asks, Locks, Pushes, Leaves
  <2>3. Sends(h)
    BY <1>3, <2>1, <2>2 DEF TaskStep
  <2> QED
    BY <1>2, <2>3 DEF Sends, SameRequest
<1> QED
  BY <1>1, <1>2, <1>3 DEF OneTask, Only, Waiting

Matches(n, m) ==
    \/ task[m.h].id = m.id /\ task[m.h].pc = "wait"
          /\ task[m.h].state = "awaiting" /\ task[m.h].memNumber = n
    \/ m.id \in stray

LEMMA SendDoes ==
    ASSUME TypeOK, TasksInv, NEW h \in Handles, Send(h), node[task[h].memNumber].conn = "open"
    PROVE  /\ task[h].pc = "send" /\ task[h].memNumber \in Nodes
           /\ SameRequest(h) /\ task'[h].state = task[h].state /\ task'[h].pc = "wait"
           /\ OnlyNode(task[h].memNumber)
           /\ [h |-> h, id |-> task[h].id] \in node'[task[h].memNumber].out
           /\ UNCHANGED main
<1> DEFINE n == task[h].memNumber
           m == [h |-> h, id |-> task[h].id]
<1>1. task[h].pc = "send" /\ n \in Nodes /\ m \in Packet /\ UNCHANGED main
  BY DEF Send, TasksInv, TaskInv, Packet, TypeOK, Task
<1>2. task' = [task EXCEPT ![h].pc = "wait"] /\ "wait" \in Pc
  BY DEF Send, Pc
<1>3. SameRequest(h) /\ task'[h].state = task[h].state /\ task'[h].pc = "wait"
  BY <1>2, MovesDoes
<1>4. node' = [node EXCEPT ![n].out = @ \cup {m}]
  BY DEF Send
<1>5. OnlyNode(n) /\ node'[n].out = node[n].out \cup {m}
  BY <1>1, <1>4, SentDoes
<1>6. m \in node'[n].out
  BY <1>5
<1> QED
  BY <1>1, <1>3, <1>5, <1>6

(* An answer wakes up the task that waits for it, and no other, unless the *)
(* other becomes stray.                                                    *)
LEMMA MatchesStep ==
    ASSUME IInv, Next
    PROVE  AnswerMatches'
<1>1. /\ TypeOK /\ TypeOK' /\ TasksInv /\ MainInv /\ NodesInv /\ StrayInv /\ OneTask /\ OneNode
      /\ stray \subseteq stray'
      /\ \A n \in Nodes : \A m \in Requests(n) : Matches(n, m)
  BY TaskNext, NodeNext, TypeNext, HistoryNext DEF IInv, AnswerMatches, Matches, Remembers
<1>2. \A n \in Nodes : \A m \in Requests(n) : m \in Packet
  BY <1>1 DEF TypeOK, MemNode, Requests
<1> SUFFICES ASSUME NEW n \in Nodes, NEW m \in Requests(n)', m.id \notin stray'
             PROVE  task'[m.h].id = m.id /\ task'[m.h].pc = "wait"
                       /\ task'[m.h].state = "awaiting" /\ task'[m.h].memNumber = n
  BY DEF AnswerMatches
<1>3. CASE m \in Requests(n)
  <2>1. PICK h \in Handles : h = m.h
    BY <1>2, <1>3 DEF Packet
  <2>2. task[h].id = m.id /\ Waiting(h) /\ task[h].memNumber = n /\ Live(h)
    BY <1>1, <1>3, <2>1 DEF Matches, Waiting, Live
  <2>3. ~(Wakes(h) /\ Only(h))
    <3>1. ASSUME AbortTask(h), Aborts(h, main.n) PROVE FALSE
      <4>1. main.n = n /\ main.pc = "abort"
        BY <2>2, <3>1 DEF AbortTask, Aborts
      <4>2. Requests(n) = {}
        BY <1>1, <4>1 DEF MainInv, NodesInv
      <4> QED
        BY <1>3, <4>2
    <3>2. ASSUME NEW k \in Nodes, RecvAnswer(k), task'[h].state = "running"
          PROVE FALSE
      <4>1. PICK a \in node[k].ans :
               /\ node' = [node EXCEPT ![k].ans = @ \ {a}]
               /\ IF Live(a.h)
                  THEN \E e \in {"none", "failed"} :
                          task' = [task EXCEPT ![a.h].state = "running", ![a.h].err = e]
                  ELSE UNCHANGED task
               /\ Live(a.h) /\ task[a.h].id # a.id => task[a.h].id \in stray'
        BY <3>2 DEF RecvAnswer
      <4>2. a \in Packet /\ a \in Requests(k) /\ a.h \in Handles
        BY <1>2, <4>1 DEF Requests, Packet
      <4>3. Live(a.h) => Only(a.h)
        BY <1>1, <4>1, <4>2, AnsweredDoes
      <4>4. a.h = h
        BY <2>2, <3>2, <4>1, <4>2, <4>3 DEF Only, Waiting
      <4>5. a.id = m.id
        BY <2>2, <4>1, <4>4
      <4>6. k = n
        BY <1>1, <2>2, <4>2, <4>4, <4>5 DEF Matches
      <4>7. a = m
        BY <1>2, <1>3, <2>1, <4>2, <4>4, <4>5 DEF Packet
      <4>8. /\ node'[n].ans = node[n].ans \ {m}
            /\ node'[n].out = node[n].out /\ node'[n].srv = node[n].srv
        BY <1>1, <4>1, <4>2, <4>6, <4>7, ReceiveDoes DEF SameBuffers
      <4>9. m \notin node[n].out /\ m \notin node[n].srv
        BY <1>1, <4>1, <4>6, <4>7 DEF NodesInv
      <4> QED
        BY <4>8, <4>9 DEF Requests
    <3> QED
      BY <3>1, <3>2 DEF Wakes
  <2>4. task'[h] = task[h]
    BY <2>2, <2>3, WaitsOn
  <2> QED
    BY <2>1, <2>2, <2>4 DEF Waiting
<1>4. ASSUME NEW h \in Handles, Send(h), n = task[h].memNumber, node[n].conn = "open",
             m = [h |-> h, id |-> task[h].id]
      PROVE  task'[m.h].id = m.id /\ task'[m.h].pc = "wait"
                /\ task'[m.h].state = "awaiting" /\ task'[m.h].memNumber = n
  <2>1. /\ task[h].pc = "send" /\ SameRequest(h)
        /\ task'[h].state = task[h].state /\ task'[h].pc = "wait"
    BY <1>1, <1>4, SendDoes
  <2>2. task[h].state = "awaiting"
    BY <1>1, <1>4, <2>1 DEF StrayInv
  <2> QED
    BY <1>4, <2>1, <2>2 DEF SameRequest
<1> QED
  BY <1>3, <1>4, RequestsGo

(* Nobody is forgotten: an answer on its way, or the main thread's walk    *)
(* over the tasks of a node that is gone, comes to each task that waits.   *)
LEMMA ServedStep ==
    ASSUME IInv, Next
    PROVE  AwaitingServed'
<1>1. /\ TypeOK /\ TasksInv /\ MainInv /\ NodesInv /\ IdsInv /\ AwaitingServed /\ OneNode
      /\ main \in Main /\ Remembers
  BY NodeNext, HistoryNext DEF IInv, TypeOK
<1> SUFFICES ASSUME NEW h \in Handles, Waiting(h)'
             PROVE  Served(h)' \/ task'[h].id \in lost' \cup orphan'
  BY DEF AwaitingServed
<1>2. ASSUME Send(h), node[task[h].memNumber].conn = "open"
      PROVE  Served(h)'
  <2>1. PICK n \in Nodes : n = task[h].memNumber
    BY <1>1, <1>2, SendDoes
  <2>2. SameRequest(h) /\ [h |-> h, id |-> task[h].id] \in Requests(n)'
    BY <1>1, <1>2, <2>1, SendDoes DEF Requests
  <2> QED
    BY <2>1, <2>2 DEF Served, SameRequest, Requests
<1>3. ASSUME Waiting(h), task'[h] = task[h]
      PROVE  Served(h)' \/ task'[h].id \in lost' \cup orphan'
  <2>1. PICK n \in Nodes : n = task[h].memNumber
    BY <1>1, <1>3 DEF Waiting, TasksInv, TaskInv
  <2>2. task[h].id # 0 /\ task[h].id \in Nat /\ task[h].state = "awaiting"
    BY <1>1, <1>3 DEF Waiting, IdsInv, TypeOK, Task
  <2>3. CASE task[h].id \in lost \cup orphan
    <3>1. ASSUME NEW k \in Handles, After(k), task[k].id = task[h].id PROVE FALSE
      <4>1. k = h
        BY <1>1, <2>2, <3>1 DEF IdsInv
      <4> QED
        BY <1>3, <3>1, <4>1 DEF After, Awake, Waiting
    <3> QED
      BY <1>1, <1>3, <2>3, <3>1 DEF Remembers
  <2>4. ASSUME NEW m \in Requests(n), m.h = h, m.id = task[h].id
        PROVE  Served(h)' \/ task'[h].id \in lost' \cup orphan'
    <3>1. node[n].conn = "open"
      BY <1>1, <2>4 DEF NodesInv
    <3>2. CASE m \in Requests(n)'
      BY <1>3, <2>1, <2>4, <3>2 DEF Served, Requests
    <3>3. ASSUME NodeStep(n), m \notin Requests(n)'
          PROVE  Served(h)' \/ task'[h].id \in lost' \cup orphan'
      <4>1. ~Opens(n) /\ ~Connects(n) /\ ~Greets(n) /\ ~Guards(n) /\ ~Loads(n)
        BY <3>3 DEF Opens, Connects, Greets, Guards, Loads, SameBuffers, Requests
      <4>2. ~Destroys(n)
        BY <1>1, <3>1, DestroysWhen
      <4>3. CASE Closes(n) /\ node[n].handshaking
        <5>1. orphan' = orphan \cup Ids(Requests(n))
          BY <4>3 DEF Closes, Disconnect, Halt, OrphansOf
        <5> QED
          BY <1>3, <2>4, <5>1 DEF Ids
      <4>4. CASE Closes(n) /\ ~node[n].handshaking
        <5>1. MustUnassign(n)
          BY <1>1, <3>1, <4>4 DEF MustUnassign, NodesInv
        <5>2. main'.pc = "unassign" /\ main'.n = n
          BY <1>1, <4>4, <5>1 DEF Closes, Disconnect, Halt, Main
        <5> QED
          BY <1>3, <2>1, <5>2 DEF Served
      <4>5. CASE Moves(n)
        <5>1. CASE FlushReset /\ n = main.n /\ node'[n].out = {}
                   /\ node'[n].srv = node[n].srv \cup main.wrote /\ node'[n].ans = node[n].ans
          <6>1. m \in node[n].out \ main.wrote
            BY <2>4, <3>3, <5>1 DEF Requests
          <6>2. lost' = lost \cup Ids(node[n].out \ main.wrote)
            BY <5>1 DEF FlushReset
          <6> QED
            BY <1>3, <2>4, <6>1, <6>2 DEF Ids
        <5>2. ASSUME NEW a \in node[n].ans, node'[n].out = node[n].out,
                     node'[n].srv = node[n].srv, node'[n].ans = node[n].ans \ {a},
                     Live(a.h) => task'[a.h].state = "running"
              PROVE  FALSE
          <6>1. a = m
            BY <2>4, <3>3, <5>2 DEF Requests
          <6> QED
            BY <1>3, <2>2, <2>4, <5>2, <6>1 DEF Live
        <5>3. ASSUME NEW a \in node[n].srv, node'[n].out = node[n].out,
                     node'[n].srv = node[n].srv \ {a}, node'[n].ans = node[n].ans \cup {a}
              PROVE  FALSE
          BY <2>4, <3>3, <5>3 DEF Requests
        <5> QED
          BY <4>5, <5>1, <5>2, <5>3 DEF Moves
      <4> QED
        BY <3>3, <4>1, <4>2, <4>3, <4>4, <4>5 DEF NodeStep
    <3>4. CASE node'[n] = node[n]
      BY <2>4, <3>2, <3>4 DEF Requests
    <3> QED
      BY <1>1, <3>2, <3>3, <3>4 DEF OneNode, OnlyNode
  <2>5. CASE main.pc = "unassign" /\ main.n = n
    <3>1. UNCHANGED main \/ (main' = [main EXCEPT !.pc = "abort", !.todo = Handles])
      BY <2>5, MainNextGoes DEF MainGoes, Polling, Halt, AbortTask, AbortDone, FlushReset,
                                HaltDestroy, PoolDestroy, Joined
    <3>2. main'.n = n /\ (main'.pc = "unassign" \/ (main'.pc = "abort" /\ h \in main'.todo))
      BY <1>1, <2>5, <3>1 DEF Main
    <3> QED
      BY <1>3, <2>1, <3>2 DEF Served
  <2>6. CASE main.pc = "abort" /\ main.n = n /\ h \in main.todo
    <3>1. ~AbortDone
      BY <2>6 DEF AbortDone
    <3>2. ~AbortTask(h)
      <4>1. Aborts(h, main.n)
        BY <2>1, <2>2, <2>6 DEF Aborts
      <4>2. AbortTask(h) => task'[h].state = "running"
        BY <1>1, <4>1, AbortedDoes
      <4> QED
        BY <1>3, <2>2, <4>2
    <3>3. UNCHANGED main \/ \E k \in Handles \ {h} : main' = [main EXCEPT !.todo = @ \ {k}]
      BY <2>6, <3>1, <3>2, MainNextGoes DEF MainGoes, Polling, Halt, Unassign, FlushReset,
                                            HaltDestroy, PoolDestroy, Joined
    <3>4. main'.n = n /\ main'.pc = "abort" /\ h \in main'.todo
      BY <1>1, <2>6, <3>3 DEF Main
    <3> QED
      BY <1>3, <2>1, <3>4 DEF Served
  <2> QED
    BY <1>1, <1>3, <2>1, <2>3, <2>4, <2>5, <2>6 DEF AwaitingServed, Served
<1> QED
  BY <1>2, <1>3, WaitsFrom

-----------------------------------------------------------------------------
(* The theorems.                                                           *)

LEMMA InitInv ==
    ASSUME Init
    PROVE  IInv
<1>1. TypeOK
  <2>1. NewNode \in MemNode /\ NoTask \in Task /\ MainPoll \in Main
    BY NoTaskTyped DEF NewNode, MemNode, MainPoll, Main
  <2>2. Workers \in Nat
    BY WorkersAssumption
  <2> QED
    BY <2>1, <2>2 DEF Init, TypeOK
<1>2. \A n \in Nodes : node[n] = NewNode /\ Requests(n) = {}
  BY DEF Init, Requests, NewNode
<1>3. \A h \in Handles : task[h] = NoTask
  BY DEF Init
<1>4. \A c \in Criteria : list[c] = <<>>
  BY DEF Init
<1>5. TasksInv /\ StrayInv
  BY <1>3 DEF TasksInv, TaskInv, StrayInv, NoTask
<1>6. MainInv
  BY DEF Init, MainInv, MainPoll
<1>7. NodesInv
  BY <1>2 DEF NodesInv, NewNode
<1>8. MtxInv /\ AssignInv
  BY <1>2, <1>3 DEF MtxInv, AssignInv, NewNode, NoTask
<1>9. AssignedUsable
  BY <1>4 DEF AssignedUsable
<1>10. QueueInv
  BY DEF Init, QueueInv
<1>11. IdsInv
  BY <1>2, <1>3 DEF IdsInv, NoTask, Init
<1>12. AnswerMatches /\ AwaitingServed /\ SendSafe
  BY <1>2, <1>3 DEF AnswerMatches, AwaitingServed, Waiting, SendSafe, Readers, NoTask
<1> QED
  BY <1>1, <1>5, <1>6, <1>7, <1>8, <1>9, <1>10, <1>11, <1>12 DEF IInv

LEMMA NextInv ==
    ASSUME IInv, Next
    PROVE  IInv'
BY TypeNext, TasksStep, MainStep, NodesStep, MtxStep, AssignStep, UsableStep, QueueStep, IdsStep,
   StrayStep, MatchesStep, ServedStep, SendStep DEF IInv

LEMMA StutterInv ==
    ASSUME IInv, UNCHANGED vars
    PROVE  IInv'
<1>1. /\ node' = node /\ list' = list /\ meta' = meta /\ task' = task /\ queue' = queue
      /\ pool' = pool /\ up' = up /\ main' = main /\ lines' = lines /\ opens' = opens
      /\ lost' = lost /\ orphan' = orphan /\ stray' = stray
  BY DEF vars, history
<1>2. TypeOK' /\ TasksInv' /\ MainInv' /\ NodesInv' /\ MtxInv' /\ AssignInv'
  BY <1>1 DEF IInv, TypeOK, TasksInv, TaskInv, MainInv, NodesInv, MtxInv, AssignInv, Requests,
              Unassigning, InList
<1>3. AssignedUsable' /\ QueueInv' /\ IdsInv' /\ StrayInv' /\ AnswerMatches' /\ AwaitingServed'
      /\ SendSafe'
  BY <1>1 DEF IInv, AssignedUsable, QueueInv, IdsInv, StrayInv, AnswerMatches, AwaitingServed,
              Waiting, Served, SendSafe, Readers, Requests
<1> QED
  BY <1>2, <1>3 DEF IInv

LEMMA Invariance == Spec => []IInv
<1>1. IInv /\ [Next]_vars => IInv'
  BY NextInv, StutterInv
<1> QED
  BY InitInv, <1>1, PTL DEF Spec

(* Every variable keeps its type.                                          *)
THEOREM TypesCorrect == Spec => []TypeOK
<1>1. IInv => TypeOK
  BY DEF IInv
<1> QED
  BY <1>1, Invariance, PTL

(* mempool.c:684, :687 and :298: whatever workers assign and the main      *)
(* thread takes out in between, the workers route requests to nodes that   *)
(* are connected and greeted, each criterion has a node once, and SC has   *)
(* one.                                                                    *)
THEOREM AssignedUsableCorrect == Spec => []AssignedUsable
<1>1. IInv => AssignedUsable
  BY DEF IInv
<1> QED
  BY <1>1, Invariance, PTL

(* mempool.c:205 and :501: the connection a worker is sending on is not    *)
(* destroyed under it while the node runs.                                 *)
THEOREM SendSafeCorrect == Spec => []SendSafe
<1>1. IInv => SendSafe
  BY DEF IInv
<1> QED
  BY <1>1, Invariance, PTL

(* mempool.c:709 and :716: an answer finds the task that waits for it,     *)
(* though it names only a handle, which another task or another line of    *)
(* the script may have by then.                                            *)
THEOREM AnswerMatchesCorrect == Spec => []AnswerMatches
<1>1. IInv => AnswerMatches
  BY DEF IInv
<1> QED
  BY <1>1, Invariance, PTL

(* taskman.c:108, mempool.c:709: no worker waits for an answer that cannot *)
(* come.                                                                   *)
THEOREM AwaitingServedCorrect == Spec => []AwaitingServed
<1>1. IInv => AwaitingServed
  BY DEF IInv
<1> QED
  BY <1>1, Invariance, PTL

=============================================================================
