-------------------------- MODULE TableTasksProofs --------------------------
(***************************************************************************)
(* The safety of the tables and tasks, for any number of table_t, handles, *)
(* workers and requests, with CREATEs and DROPs that fail half-way.          *)
(***************************************************************************)
EXTENDS TableTasks, TLAPS

(* Where the handler of each kind of task may stand.                       *)
PcOf(kind) ==
    CASE kind = "create" -> {"add", "fill", "result"}
      [] kind = "drop" -> {"remove", "result"}
      [] kind = "use" -> {"enter", "inside", "result"}
      [] kind = "compact" -> {"block", "wait", "unblock", "drain", "result"}
      [] OTHER -> {}

(* The task's handler has come to its result.                              *)
Decided(r) ==
    \/ r.state = "completed"
    \/ r.state = "running" /\ r.pc = "result"

(* A task, by where it is in its life: its kind, and whether it names a    *)
(* table.                                                                  *)
TaskInv(r) ==
    /\ r.state = "none" <=> r.kind = "none"
    /\ r.state = "none" => r.ref = None
    /\ r.state \in {"reschedule", "awaiting"} => r.kind = "use"
    /\ r.state = "reschedule" => r.ref \in Tables
    /\ r.state = "running" => r.pc \in PcOf(r.kind)
    /\ r.state # "running" => r.pc = "idle"
    /\ r.kind \in {"free", "compact"} => r.ref \in Tables
    /\ r.kind \in {"create", "drop"} /\ r.state \in {"new", "ready"} => r.ref = None
    /\ r.state = "running" /\ r.pc \in {"add", "remove"} => r.ref = None
    /\ r.state = "running" /\ r.pc \in {"fill", "inside"} => r.ref \in Tables
    /\ Decided(r) /\ (r.kind = "drop" => r.err = "none") /\ r.kind \in {"create", "drop"} =>
          r.ref \in Tables
    /\ r.state = "running" /\ r.pc = "result" /\ r.err = "blocked" =>
          r.kind = "use" /\ r.ref \in Tables

(* The main loop's lists hold tasks in the state that got them there.      *)
ListsInv ==
    /\ \A k \in toComplete : task[k].state = "completed"
    /\ \A k \in mtQueue : task[k].kind = "free" /\ task[k].state = "ready"
    /\ pushing # None =>
          /\ task[pushing].state \in {"reschedule", "new"}
          /\ task[pushing].kind = "use"

(* Task r is the one that will free table t: by way of a FREE to come, or  *)
(* it is that FREE.                                                        *)
Claim(r, t) ==
    /\ r.ref = t
    /\ \/ r.kind = "free" /\ r.state # "completed"
       \/ r.kind = "drop" /\ r.err = "none"
       \/ r.kind = "create" /\ r.err # "none"

Compacts(r, t) == r.kind = "compact" /\ r.ref = t

FailedCreate(r, t) == r.kind = "create" /\ r.err # "none" /\ r.ref = t

Owns(r, t) ==
    /\ r.ref = t
    /\ \/ r.kind = "create"
       \/ r.kind = "compact" /\ r.pc \in {"wait", "unblock"}

(* A table nobody has allocated is named by nothing.                       *)
UnusedInv ==
    \A t \in Tables : table[t].life = "unused" =>
       map # t /\ t \notin broken /\ \A k \in Tasks : task[k].ref # t

(* What decides about a table's life: that it can be found, or the one     *)
(* task that will free it.                                                 *)
LifeInv ==
    \A t \in Tables \ broken :
       /\ map = t => table[t].life = "live" /\ \A k \in Tasks : ~Claim(task[k], t)
       /\ table[t].life = "freed" =>
             /\ map # t /\ table[t].users = {}
             /\ \A k \in Tasks : ~Claim(task[k], t)
             /\ \A k \in Tasks : task[k].kind = "compact" => task[k].ref # t
       /\ \A h, k \in Tasks : Claim(task[h], t) /\ Claim(task[k], t) => h = k

(* A table that somebody may find, under its name or as the one to be      *)
(* compacted, is not left blocked; what a failed CREATE has allocated is   *)
(* found by nobody.                                                        *)
Found(t) == map = t \/ \E k \in Tasks : Compacts(task[k], t)

OwnedInv ==
    \A t \in Tables \ broken :
       Found(t) /\ table[t].blocked => \E k \in Tasks : Owns(task[k], t)

HiddenInv ==
    \A t \in Tables \ broken : \A j, k \in Tasks :
       Compacts(task[j], t) => ~FailedCreate(task[k], t)

IInv ==
    /\ TypeOK
    /\ \A k \in Tasks : TaskInv(task[k])
    /\ ListsInv
    /\ CompactingExact
    /\ QueuedTasksWait
    /\ UnusedInv
    /\ LifeInv
    /\ OwnedInv
    /\ HiddenInv
-----------------------------------------------------------------------------
LEMMA FreeHandle ==
    ASSUME FreeHandles # {}
    PROVE  NextHandle \in Tasks /\ task[NextHandle].state = "none"
BY DEF FreeHandles, NextHandle

LEMMA InitInv == Init => IInv
<1> SUFFICES ASSUME Init
             PROVE  IInv
  OBVIOUS
<1>1. map \in Tables
  BY TablesAssumption DEF Init
<1>2. \A k \in Tasks : task[k] = NoTask
  BY DEF Init
<1>3. \A t \in Tables : table[t] = IF t = map
                                  THEN [NoTable EXCEPT !.life = "live", !.timer = TRUE]
                                  ELSE NoTable
  BY DEF Init
<1>a. \A t \in Tables :
        /\ table[t].life = IF t = map THEN "live" ELSE "unused"
        /\ table[t].compacting = FALSE /\ table[t].blocked = FALSE
        /\ table[t].queue = <<>> /\ table[t].users = {}
  <2> TAKE t \in Tables
  <2>1. CASE t = map
    BY <1>3, <2>1 DEF NoTable
  <2>2. CASE t # map
    BY <1>3, <2>2 DEF NoTable
  <2> QED
    BY <2>1, <2>2
<1>b. \A k \in Tasks : task[k].kind = "none" /\ task[k].ref = None
  BY <1>2 DEF NoTask
<1>4. TypeOK
  <2>1. NoTask \in TaskType
    BY DEF NoTask, TaskType
  <2>2. NoTable \in TableType
    BY DEF NoTable, TableType
  <2>3. [NoTable EXCEPT !.life = "live", !.timer = TRUE] \in TableType
    BY <2>2 DEF TableType
  <2>4. table \in [Tables -> TableType]
    BY <2>2, <2>3 DEF Init
  <2>5. task \in [Tasks -> TaskType]
    BY <2>1 DEF Init
  <2> QED
    BY <1>1, <2>4, <2>5, MaxRequestsAssumption DEF TypeOK, Init
<1>5. \A k \in Tasks : TaskInv(task[k])
  BY <1>2 DEF NoTask, TaskInv, Decided
<1>6. ListsInv
  BY DEF Init, ListsInv
<1>7. CompactingExact
  <2>1. \A t \in Tables : CompactionsOf(t) = {}
    BY <1>b DEF CompactionsOf
  <2> QED
    BY <2>1, <1>a DEF CompactingExact
<1>8. QueuedTasksWait
  BY <1>a DEF QueuedTasksWait
<1>9. UnusedInv /\ LifeInv
  BY <1>1, <1>a, <1>b, TablesAssumption DEF UnusedInv, LifeInv, Claim, Init
<1>10. OwnedInv /\ HiddenInv
  BY <1>a, <1>b DEF OwnedInv, HiddenInv, Compacts
<1> QED
  BY <1>4, <1>5, <1>6, <1>7, <1>8, <1>9, <1>10 DEF IInv
-----------------------------------------------------------------------------
(* Type correctness.  First the tasks, then the tables.                    *)
LEMMA TaskTyped ==
    ASSUME TypeOK, Next, \A k \in Tasks : TaskInv(task[k])
    PROVE  task' \in [Tasks -> TaskType]
<1>1. task \in [Tasks -> TaskType] /\ map \in Tables \cup {None}
  BY DEF TypeOK
<1>2. \A t \in Tables \cup {None}, kind \in Kinds : NewTask(kind, t) \in TaskType
  BY DEF NewTask, NoTask, TaskType
<1>3. NoTask \in TaskType
  BY DEF NoTask, TaskType
<1>4. ASSUME NEW kind \in Kinds, NEW t \in Tables \cup {None}, CanArrive, Arrive(kind, t)
      PROVE  task' \in [Tasks -> TaskType]
  BY <1>1, <1>2, <1>4, FreeHandle DEF CanArrive, Arrive
<1>5. CASE Events
  <2>1. ASSUME NEW kind \in {"create", "drop", "use"}, Request(kind)
        PROVE  task' \in [Tasks -> TaskType]
    BY <1>4, <2>1 DEF Request, Kinds
  <2>2. ASSUME NEW t \in Tables, CompactTick(t)
        PROVE  task' \in [Tasks -> TaskType]
    BY <1>1, <1>4, <2>2 DEF CompactTick, Kinds
  <2> QED
    BY <1>5, <2>1, <2>2 DEF Events
<1>6. ASSUME NEW S, NEW f \in [Tasks -> TaskType]
      PROVE  Activated(f, S) \in [Tasks -> TaskType]
  <2>1. \A k \in Tasks : f[k] \in TaskType
    OBVIOUS
  <2>2. \A k \in Tasks : [f[k] EXCEPT !.state = "new"] \in TaskType
    BY <2>1 DEF TaskType
  <2> QED
    BY <2>2 DEF Activated
<1>7. CASE Main
  <2>1. CASE UpdateBegin
    BY <1>1, <2>1 DEF UpdateBegin
  <2>2. CASE SetAwaiting
    BY <1>1, <2>2 DEF SetAwaiting, TaskType, TypeOK
  <2>3. ASSUME NEW k \in Tasks, task[k] \in TaskType,
               ScanNew(k) \/ FreeLater(k)
        PROVE  task' \in [Tasks -> TaskType]
    BY <1>1, <2>3 DEF ScanNew, FreeLater, TaskType
  <2>4. ASSUME NEW k \in Tasks,
               ScanReschedule(k) \/ ScanCompleted(k) \/ ScanOther(k)
        PROVE  task' \in [Tasks -> TaskType]
    BY <1>1, <2>4 DEF ScanReschedule, ScanCompleted, ScanOther
  <2>5. ASSUME NEW k \in Tasks, task[k] \in TaskType, Complete(k)
        PROVE  task' \in [Tasks -> TaskType]
    <3>1. CASE CreateSucceeded(k)
      BY <1>1, <1>3, <1>6, <3>1 DEF CreateSucceeded
    <3>2. CASE TableDone(k)
      <4>1. task[k].ref \in Tables \cup {None}
        BY <2>5 DEF TaskType
      <4>2. CASE FreeHandles = {}
        BY <1>1, <1>3, <3>2, <4>2 DEF TableDone, FreeTable
      <4>3. CASE FreeHandles # {}
        <5>1. NewTask("free", task[k].ref) \in TaskType
          BY <1>2, <4>1 DEF Kinds
        <5> QED
          BY <1>1, <1>3, <3>2, <4>3, <5>1 DEF TableDone, FreeTable
      <4> QED
        BY <4>2, <4>3
    <3>3. CASE CompactDone(k) \/ OtherDone(k)
      BY <1>1, <1>3, <3>3 DEF CompactDone, OtherDone
    <3> QED
      BY <2>5, <3>1, <3>2, <3>3 DEF Complete
  <2>6. ASSUME NEW k \in Tasks, FreeRun(k)
        PROVE  task' \in [Tasks -> TaskType]
    <3> DEFINE f == Activated(task, Woken(task[k].ref))
    <3>1. f \in [Tasks -> TaskType]
      BY <1>1, <1>6
    <3>2. f[k] \in TaskType
      BY <3>1
    <3>3. task' = [f EXCEPT ![k].state = "completed"]
      BY <2>6 DEF FreeRun
    <3> HIDE DEF f
    <3> QED
      BY <3>1, <3>2, <3>3 DEF TaskType
  <2> QED
    BY <1>1, <1>7, <2>1, <2>2, <2>3, <2>4, <2>5, <2>6 DEF Main
<1>8. ASSUME NEW k \in Tasks, task[k] \in TaskType, Start(k)
      PROVE  task' \in [Tasks -> TaskType]
  <2>1. FirstPc(task[k].kind) \in {"add", "remove", "enter", "block"}
    BY <1>8 DEF FirstPc, Start, TaskInv, TaskType, Kinds
  <2> QED
    BY <1>1, <1>8, <2>1 DEF Start, TaskType
<1>9. ASSUME NEW k \in Tasks, task[k] \in TaskType, Handler(k)
      PROVE  task' \in [Tasks -> TaskType]
  <2>1. CASE GuardMissing(k) \/ GuardBlocked(k) \/ GuardEnter(k)
    BY <1>1, <1>9, <2>1 DEF GuardMissing, GuardBlocked, GuardEnter, Goto, TaskType
  <2>2. CASE GuardEnd(k) \/ CreateFill(k) \/ CreateBreak(k)
    BY <1>1, <1>9, <2>2 DEF GuardEnd, CreateFill, CreateBreak, Goto, TaskType
  <2>3. CASE CreateAdd(k)
    <3>1. PICK t \in Tables : Goto(k, "fill", t, "none")
      BY <2>3 DEF CreateAdd
    <3> QED
      BY <1>1, <1>9, <3>1 DEF Goto, TaskType
  <2>4. CASE CreateExists(k)
    <3>1. PICK t \in Tables : Goto(k, "result", t, "generic")
      BY <2>4 DEF CreateExists
    <3> QED
      BY <1>1, <1>9, <3>1 DEF Goto, TaskType
  <2>5. CASE DropRemove(k) \/ DropBreak(k)
    BY <1>1, <1>9, <2>5 DEF DropRemove, DropBreak, Goto, TaskType
  <2>6. CASE CompactBlock(k) \/ CompactAlone(k) \/ CompactUnblock(k)
    BY <1>1, <1>9, <2>6 DEF CompactBlock, CompactAlone, CompactUnblock, TaskType
  <2>7. CASE CompactWake(k)
    <3> DEFINE h == Head(table[task[k].ref].queue)
    <3>1. task' = [task EXCEPT ![h].state = "new"]
      BY <2>7 DEF CompactWake
    <3>2. CASE h \in Tasks
      <4>1. task[h] \in TaskType
        BY <1>1, <3>2
      <4> HIDE DEF h
      <4> QED
        BY <1>1, <3>1, <3>2, <4>1 DEF TaskType
    <3>3. CASE h \notin Tasks
      BY <1>1, <3>1, <3>3
    <3> QED
      BY <3>2, <3>3
  <2>8. CASE CompactStageTwo(k)
    BY <1>1, <1>9, <2>8 DEF CompactStageTwo, TaskType
  <2>9. CASE CompactEnd(k)
    <3>1. PICK err \in {"none", "generic"} : Goto(k, "result", task[k].ref, err)
      BY <2>9 DEF CompactEnd
    <3> QED
      BY <1>1, <1>9, <3>1 DEF Goto, TaskType
  <2>10. CASE Result(k)
    BY <1>1, <1>9, <2>10 DEF Result, TaskType
  <2> QED
    BY <1>9, <2>1, <2>2, <2>3, <2>4, <2>5, <2>6, <2>7, <2>8, <2>9, <2>10 DEF Handler
<1> QED
  BY <1>1, <1>5, <1>7, <1>8, <1>9 DEF Next

(* The table a step works on is one.                                       *)
LEMMA RefKnown ==
    ASSUME IInv, NEW k \in Tasks
    PROVE  /\ task[k].state = "reschedule" => task[k].ref \in Tables
           /\ k \in toComplete =>
                 /\ task[k].state = "completed"
                 /\ task[k].kind \in {"create", "compact", "free"} => task[k].ref \in Tables
                 /\ task[k].kind = "drop" /\ task[k].err = "none" =>
                       task[k].ref \in Tables
           /\ k \in mtQueue =>
                 /\ task[k].kind = "free" /\ task[k].state = "ready"
                 /\ task[k].ref \in Tables
           /\ \A pc \in {"add", "fill"} : At(k, pc) => task[k].kind = "create"
           /\ At(k, "remove") => task[k].kind = "drop"
           /\ \A pc \in {"enter", "inside"} : At(k, pc) => task[k].kind = "use"
           /\ \A pc \in {"block", "wait", "unblock", "drain"} : At(k, pc) =>
                 task[k].kind = "compact" /\ task[k].ref \in Tables
           /\ \A pc \in {"fill", "inside"} : At(k, pc) => task[k].ref \in Tables
<1>1. TaskInv(task[k]) /\ ListsInv
  BY DEF IInv
<1>2. task[k].kind \in Kinds \cup {"none"}
  BY DEF IInv, TypeOK, TaskType
<1>3. task[k].state = "running" => task[k].pc \in PcOf(task[k].kind)
  BY <1>1 DEF TaskInv
<1>4. \A pc \in {"add", "fill"} : At(k, pc) => task[k].kind = "create"
  BY <1>2, <1>3 DEF At, PcOf, Kinds
<1>5. At(k, "remove") => task[k].kind = "drop"
  BY <1>2, <1>3 DEF At, PcOf, Kinds
<1>6. \A pc \in {"enter", "inside"} : At(k, pc) => task[k].kind = "use"
  BY <1>2, <1>3 DEF At, PcOf, Kinds
<1>7. \A pc \in {"block", "wait", "unblock", "drain"} : At(k, pc) => task[k].kind = "compact"
  BY <1>2, <1>3 DEF At, PcOf, Kinds
<1> QED
  BY <1>1, <1>4, <1>5, <1>6, <1>7 DEF TaskInv, ListsInv, At, Decided

LEMMA TableTyped ==
    ASSUME IInv, Next
    PROVE  table' \in [Tables -> TableType]
<1>1. table \in [Tables -> TableType] /\ map \in Tables \cup {None}
  BY DEF IInv, TypeOK
<1>2. \A t \in Tables : table[t] \in TableType
  BY <1>1
<1>3. \A t \in Tables : table[t].queue \in Seq(Tasks)
  BY <1>2 DEF TableType
<1>a. <<>> \in Seq(Tasks)
  OBVIOUS
<1>b. \A q \in Seq(Tasks), k \in Tasks : Append(q, k) \in Seq(Tasks)
  OBVIOUS
<1>c. \A q \in Seq(Tasks) : q # <<>> => Tail(q) \in Seq(Tasks)
  OBVIOUS
<1>4. CASE Events
  <2>1. ASSUME NEW t \in Tables, CompactTick(t)
        PROVE  table' \in [Tables -> TableType]
    <3>1. map \in Tables /\ table[map] \in TableType
      BY <1>1, <1>2, <2>1 DEF CompactTick
    <3> QED
      BY <1>1, <2>1, <3>1 DEF CompactTick, TableType
  <2> QED
    BY <1>1, <1>4, <2>1 DEF Events, Request
<1>5. CASE Main
  <2>1. ASSUME NEW k \in Tasks, ScanReschedule(k)
        PROVE  table' \in [Tables -> TableType]
    <3>1. task[k].ref \in Tables
      BY <2>1, RefKnown DEF ScanReschedule
    <3>2. Append(table[task[k].ref].queue, k) \in Seq(Tasks)
      BY <1>3, <1>b, <3>1
    <3>3. table[task[k].ref] \in TableType
      BY <1>2, <3>1
    <3> QED
      BY <1>1, <2>1, <3>2, <3>3 DEF ScanReschedule, TableType
  <2>2. ASSUME NEW k \in Tasks, Complete(k)
        PROVE  table' \in [Tables -> TableType]
    <3>1. CASE CreateSucceeded(k)
      <4>1. table[task[k].ref] \in TableType
        BY <1>2, <2>2, <3>1, RefKnown DEF Complete, CreateSucceeded
      <4> QED
        BY <1>1, <1>a, <3>1, <4>1 DEF CreateSucceeded, TableType
    <3>2. CASE CompactDone(k)
      <4>1. table[task[k].ref] \in TableType
        BY <1>2, <2>2, <3>2, RefKnown DEF Complete, CompactDone
      <4> QED
        BY <1>1, <3>2, <4>1 DEF CompactDone, TableType
    <3>3. CASE TableDone(k) \/ OtherDone(k)
      BY <1>1, <3>3 DEF TableDone, OtherDone
    <3> QED
      BY <2>2, <3>1, <3>2, <3>3 DEF Complete
  <2>3. ASSUME NEW k \in Tasks, FreeRun(k)
        PROVE  table' \in [Tables -> TableType]
    <3>1. table[task[k].ref] \in TableType
      BY <1>2, <2>3, RefKnown DEF FreeRun
    <3> QED
      BY <1>1, <1>a, <2>3, <3>1 DEF FreeRun, TableType
  <2>4. ASSUME NEW k \in Tasks,
               \/ UpdateBegin \/ SetAwaiting \/ ScanNew(k)
               \/ ScanCompleted(k) \/ ScanOther(k) \/ FreeLater(k)
        PROVE  table' = table
    BY <2>4 DEF UpdateBegin, SetAwaiting, ScanNew, ScanCompleted, ScanOther, FreeLater
  <2> QED
    BY <1>1, <1>5, <2>1, <2>2, <2>3, <2>4 DEF Main, UpdateBegin, SetAwaiting
<1>6. ASSUME NEW k \in Tasks, Handler(k)
      PROVE  table' \in [Tables -> TableType]
  <2>1. CASE GuardEnter(k)
    <3>1. map \in Tables /\ table[map] \in TableType
      BY <1>1, <1>2, <2>1 DEF GuardEnter
    <3> QED
      BY <1>1, <2>1, <3>1 DEF GuardEnter, TableType
  <2>2. CASE GuardEnd(k)
    <3>1. table[task[k].ref] \in TableType
      BY <1>2, <2>2, RefKnown DEF GuardEnd
    <3> QED
      BY <1>1, <2>2, <3>1 DEF GuardEnd, TableType
  <2>3. CASE CreateAdd(k) \/ CreateExists(k)
    <3>1. PICK t \in Tables :
             table' = [table EXCEPT ![t].life = "live", ![t].blocked = TRUE]
      BY <2>3 DEF CreateAdd, CreateExists
    <3>2. table[t] \in TableType
      BY <1>2
    <3> QED
      BY <1>1, <3>1, <3>2 DEF TableType
  <2>4. CASE CompactBlock(k) \/ CompactUnblock(k) \/ CompactWake(k)
    <3>1. task[k].ref \in Tables
      BY <2>4, RefKnown DEF CompactBlock, CompactUnblock, CompactWake
    <3>2. table[task[k].ref] \in TableType
      BY <1>2, <3>1
    <3>3. CASE CompactWake(k)
      <4>1. Tail(table[task[k].ref].queue) \in Seq(Tasks)
        BY <1>3, <1>c, <3>1, <3>3 DEF CompactWake
      <4> QED
        BY <1>1, <3>2, <3>3, <4>1 DEF CompactWake, TableType
    <3>4. CASE CompactBlock(k)
      BY <1>1, <3>2, <3>4 DEF CompactBlock, TableType
    <3>5. CASE CompactUnblock(k)
      BY <1>1, <3>2, <3>5 DEF CompactUnblock, TableType
    <3> QED
      BY <2>4, <3>3, <3>4, <3>5
  <2>5. CASE \/ GuardMissing(k) \/ GuardBlocked(k) \/ CreateFill(k) \/ CreateBreak(k)
             \/ DropRemove(k) \/ DropBreak(k) \/ CompactAlone(k) \/ CompactStageTwo(k)
             \/ CompactEnd(k) \/ Result(k)
    BY <1>1, <2>5 DEF GuardMissing, GuardBlocked, CreateFill, CreateBreak, DropRemove,
       DropBreak, CompactAlone, CompactStageTwo, CompactEnd, Result
  <2> QED
    BY <1>6, <2>1, <2>2, <2>3, <2>4, <2>5 DEF Handler
<1> QED
  BY <1>1, <1>4, <1>5, <1>6 DEF Next, Start

LEMMA TypeNext ==
    ASSUME IInv, Next
    PROVE  TypeOK'
<1>1. table' \in [Tables -> TableType] /\ task' \in [Tasks -> TaskType]
  BY TableTyped, TaskTyped DEF IInv
<1>2. CASE Events
  <2>1. toScan' = toScan /\ toComplete' = toComplete /\ mtQueue' = mtQueue
        /\ pushing' = pushing /\ map' = map /\ broken' = broken /\ leaked' = leaked
    BY <1>2 DEF Events, Request, CompactTick, Arrive, mainVars
  <2>2. requests' \in 0 .. MaxRequests
    BY <1>2, MaxRequestsAssumption
    DEF Events, Request, CompactTick, Arrive, CanArrive, IInv, TypeOK
  <2> QED
    BY <1>1, <2>1, <2>2 DEF IInv, TypeOK
<1>3. CASE Main
  <2>1. map' = map /\ broken' = broken /\ requests' = requests
    BY <1>3 DEF Main, UpdateBegin, SetAwaiting, ScanNew, ScanReschedule, ScanCompleted,
       ScanOther, Complete, FreeRun, FreeLater
  <2>2. /\ toScan' \subseteq Tasks /\ toComplete' \subseteq Tasks
        /\ mtQueue' \subseteq Tasks /\ pushing' \in Tasks \cup {None}
    BY <1>3 DEF IInv, TypeOK, Main, UpdateBegin, SetAwaiting, ScanNew, ScanReschedule,
       ScanCompleted, ScanOther, Complete, FreeRun, FreeLater
  <2>3. ASSUME NEW k \in Tasks, Complete(k)
        PROVE  leaked' \subseteq Tables
    <3>1. CASE TableDone(k)
      BY <2>3, <3>1, RefKnown DEF Complete, TableDone, FreeTable, IInv, TypeOK
    <3>2. CASE ~TableDone(k)
      BY <2>3, <3>2
      DEF Complete, CreateSucceeded, CompactDone, OtherDone, IInv, TypeOK
    <3> QED
      BY <3>1, <3>2
  <2>4. leaked' = leaked \/ \E k \in Tasks : Complete(k)
    BY <1>3 DEF Main, UpdateBegin, SetAwaiting, ScanNew, ScanReschedule, ScanCompleted,
       ScanOther, FreeRun, FreeLater
  <2>5. leaked' \subseteq Tables
    BY <2>3, <2>4 DEF IInv, TypeOK
  <2> QED
    BY <1>1, <2>1, <2>2, <2>5 DEF IInv, TypeOK
<1>4. ASSUME NEW k \in Tasks, Start(k) \/ Handler(k)
      PROVE  TypeOK'
  <2>1. toScan' = toScan /\ toComplete' = toComplete /\ mtQueue' = mtQueue
        /\ pushing' = pushing /\ requests' = requests
    BY <1>4 DEF Start, Handler, GuardMissing, GuardBlocked, GuardEnter, GuardEnd, CreateAdd,
       CreateExists, CreateFill, CreateBreak, DropRemove, DropBreak, CompactBlock,
       CompactAlone, CompactUnblock, CompactWake, CompactStageTwo, CompactEnd, Result, mainVars
  <2>2. map' \in Tables \cup {None}
    BY <1>4 DEF IInv, TypeOK, Start, Handler, GuardMissing, GuardBlocked, GuardEnter,
       GuardEnd, CreateAdd, CreateExists, CreateFill, CreateBreak, DropRemove, DropBreak,
       CompactBlock, CompactAlone, CompactUnblock, CompactWake, CompactStageTwo, CompactEnd, Result
  <2>3. broken' = broken \/ CreateBreak(k)
    BY <1>4 DEF Start, Handler, GuardMissing, GuardBlocked, GuardEnter, GuardEnd, CreateAdd,
       CreateExists, CreateFill, DropRemove, DropBreak, CompactBlock, CompactAlone,
       CompactUnblock, CompactWake, CompactStageTwo, CompactEnd, Result
  <2>4. broken' \subseteq Tables
    BY <2>3, RefKnown DEF IInv, TypeOK, CreateBreak
  <2>5. leaked' = leaked \/ DropBreak(k)
    BY <1>4 DEF Start, Handler, GuardMissing, GuardBlocked, GuardEnter, GuardEnd, CreateAdd,
       CreateExists, CreateFill, CreateBreak, DropRemove, CompactBlock, CompactAlone,
       CompactUnblock, CompactWake, CompactStageTwo, CompactEnd, Result
  <2>6. leaked' \subseteq Tables
    BY <2>5 DEF IInv, TypeOK, DropBreak
  <2> QED
    BY <1>1, <2>1, <2>2, <2>4, <2>6 DEF IInv, TypeOK
<1> QED
  BY <1>2, <1>3, <1>4 DEF Next
-----------------------------------------------------------------------------
(* The tasks.  A step changes the task it works on, and those it wakes up. *)
OnlyChanges(k) == \A j \in Tasks \ {k} : task'[j] = task[j]

LEMMA WokenUse ==
    ASSUME IInv, NEW t \in Tables, NEW h \in Woken(t)
    PROVE  h \in Tasks /\ task[h].kind = "use" /\ task[h].ref = t
           /\ task[h].state \in {"awaiting", "reschedule", "new"}
<1>1. PICK i \in DOMAIN table[t].queue : h = table[t].queue[i]
  BY DEF Woken
<1>2. h \in Tasks
  <2>1. table[t].queue \in Seq(Tasks)
    BY DEF IInv, TypeOK, TableType
  <2> QED
    BY <1>1, <2>1
<1>3. task[h].ref = t /\ (task[h].state = "awaiting" \/ pushing = h)
  BY <1>1 DEF IInv, QueuedTasksWait
<1>4. pushing = h => task[h].state \in {"reschedule", "new"} /\ task[h].kind = "use"
  BY <1>2, TablesAssumption DEF IInv, ListsInv
<1>5. task[h].state = "awaiting" => task[h].kind = "use"
  BY <1>2 DEF IInv, TaskInv
<1> QED
  BY <1>2, <1>3, <1>4, <1>5

LEMMA ScanOnly ==
    ASSUME TypeOK, NEW k \in Tasks,
           \/ ScanNew(k) \/ FreeLater(k) \/ Start(k)
           \/ Handler(k) /\ ~CompactWake(k)
    PROVE  OnlyChanges(k)
BY DEF TypeOK, OnlyChanges, ScanNew, FreeLater, Start, Handler, GuardMissing, GuardBlocked,
   GuardEnter, GuardEnd, CreateAdd, CreateExists, CreateFill, CreateBreak, DropRemove,
   DropBreak, CompactBlock, CompactAlone, CompactUnblock, CompactStageTwo, CompactEnd, Result, Goto

(* What a worker's step makes of its own task.                             *)
LEMMA HandlerInv ==
    ASSUME IInv, NEW k \in Tasks, Handler(k), ~CompactWake(k)
    PROVE  /\ TaskInv(task'[k])
           /\ task'[k].kind = task[k].kind
           /\ task'[k].state \in {"running", "completed", "reschedule"}
<1>1. task \in [Tasks -> TaskType] /\ task[k] \in TaskType /\ map \in Tables \cup {None}
  BY DEF IInv, TypeOK
<1>2. TaskInv(task[k])
  BY DEF IInv
<1>3. CASE GuardMissing(k) \/ GuardBlocked(k) \/ GuardEnter(k)
  <2>1. task[k].kind = "use" /\ task[k].state = "running"
    BY <1>3, RefKnown DEF GuardMissing, GuardBlocked, GuardEnter, At
  <2>2. CASE GuardMissing(k)
    BY <1>1, <2>1, <2>2 DEF GuardMissing, Goto, TaskType, TaskInv, PcOf, Decided
  <2>3. CASE GuardBlocked(k)
    BY <1>1, <2>1, <2>3 DEF GuardBlocked, Goto, TaskType, TaskInv, PcOf, Decided
  <2>4. CASE GuardEnter(k)
    BY <1>1, <2>1, <2>4 DEF GuardEnter, Goto, TaskType, TaskInv, PcOf, Decided
  <2> QED
    BY <1>3, <2>2, <2>3, <2>4
<1>4. CASE GuardEnd(k)
  <2>1. task[k].kind = "use" /\ task[k].state = "running" /\ task[k].ref \in Tables
    BY <1>4, RefKnown DEF GuardEnd, At
  <2> QED
    BY <1>1, <1>4, <2>1 DEF GuardEnd, Goto, TaskType, TaskInv, PcOf, Decided
<1>5. CASE CreateAdd(k) \/ CreateExists(k)
  <2>1. task[k].kind = "create" /\ task[k].state = "running"
    BY <1>5, RefKnown DEF CreateAdd, CreateExists, At
  <2>2. PICK t \in Tables : Goto(k, "fill", t, "none") \/ Goto(k, "result", t, "generic")
    BY <1>5 DEF CreateAdd, CreateExists
  <2> QED
    BY <1>1, <2>1, <2>2 DEF Goto, TaskType, TaskInv, PcOf, Decided
<1>6. CASE CreateFill(k) \/ CreateBreak(k)
  <2>1. task[k].kind = "create" /\ task[k].state = "running" /\ task[k].ref \in Tables
    BY <1>6, RefKnown DEF CreateFill, CreateBreak, At
  <2> QED
    BY <1>1, <1>6, <2>1 DEF CreateFill, CreateBreak, Goto, TaskType, TaskInv, PcOf, Decided
<1>7. CASE DropRemove(k) \/ DropBreak(k)
  <2>1. task[k].kind = "drop" /\ task[k].state = "running"
    BY <1>7, RefKnown DEF DropRemove, DropBreak, At
  <2> QED
    BY <1>1, <1>7, <2>1 DEF DropRemove, DropBreak, Goto, TaskType, TaskInv, PcOf, Decided
<1>8. CASE CompactBlock(k) \/ CompactAlone(k) \/ CompactUnblock(k)
           \/ CompactStageTwo(k) \/ CompactEnd(k)
  <2>1. task[k].kind = "compact" /\ task[k].state = "running" /\ task[k].ref \in Tables
    BY <1>8, RefKnown DEF CompactBlock, CompactAlone, CompactUnblock, CompactStageTwo,
       CompactEnd, At
  <2>2. CASE CompactBlock(k)
    BY <1>1, <2>1, <2>2 DEF CompactBlock, TaskType, TaskInv, PcOf, Decided
  <2>3. CASE CompactAlone(k)
    BY <1>1, <2>1, <2>3 DEF CompactAlone, TaskType, TaskInv, PcOf, Decided
  <2>4. CASE CompactUnblock(k)
    BY <1>1, <2>1, <2>4 DEF CompactUnblock, TaskType, TaskInv, PcOf, Decided
  <2>5. CASE CompactStageTwo(k)
    BY <1>1, <2>1, <2>5 DEF CompactStageTwo, TaskType, TaskInv, PcOf, Decided
  <2>6. CASE CompactEnd(k)
    <3>1. PICK err \in {"none", "generic"} : Goto(k, "result", task[k].ref, err)
      BY <2>6 DEF CompactEnd
    <3> QED
      BY <1>1, <2>1, <3>1 DEF Goto, TaskType, TaskInv, PcOf, Decided
  <2> QED
    BY <1>8, <2>2, <2>3, <2>4, <2>5, <2>6
<1>9. CASE Result(k)
  <2>1. task[k].state = "running" /\ task[k].pc = "result"
    BY <1>9 DEF Result, At
  <2>2. task[k].err = "blocked" => task[k].kind = "use" /\ task[k].ref \in Tables
    BY <1>2, <2>1 DEF TaskInv
  <2> QED
    BY <1>1, <1>2, <1>9, <2>1, <2>2 DEF Result, TaskType, TaskInv, PcOf, Decided
<1> QED
  BY <1>3, <1>4, <1>5, <1>6, <1>7, <1>8, <1>9 DEF Handler

(* A request or a tick: one new task, under a handle that was free.        *)
LEMMA Arrival ==
    ASSUME IInv, NEW kind \in Kinds, NEW t \in Tables \cup {None}, CanArrive,
           Arrive(kind, t), kind \in {"free", "compact"} <=> t # None
    PROVE  /\ NextHandle \in Tasks /\ task[NextHandle].state = "none"
           /\ OnlyChanges(NextHandle)
           /\ task'[NextHandle] = NewTask(kind, t)
           /\ TaskInv(task'[NextHandle])
<1>1. NextHandle \in Tasks /\ task[NextHandle].state = "none"
  BY FreeHandle DEF CanArrive
<1>2. task' = [task EXCEPT ![NextHandle] = NewTask(kind, t)]
  BY DEF Arrive
<1>3. task'[NextHandle] = NewTask(kind, t) /\ OnlyChanges(NextHandle)
  BY <1>1, <1>2 DEF IInv, TypeOK, OnlyChanges
<1>4. TaskInv(NewTask(kind, t))
  BY TablesAssumption DEF NewTask, NoTask, TaskInv, Kinds, Decided
<1> QED
  BY <1>1, <1>3, <1>4

LEMMA EventNew ==
    ASSUME IInv, Events
    PROVE  \E kind \in Kinds, t \in Tables \cup {None} :
              /\ kind # "free" /\ CanArrive /\ Arrive(kind, t)
              /\ kind \in {"free", "compact"} <=> t # None
<1>1. ASSUME NEW kind \in {"create", "drop", "use"}, Request(kind)
      PROVE  kind \in Kinds /\ CanArrive /\ Arrive(kind, None)
  BY <1>1 DEF Request, Kinds
<1>2. ASSUME NEW u \in Tables, CompactTick(u)
      PROVE  map \in Tables /\ map # None /\ CanArrive /\ Arrive("compact", map)
  BY <1>2 DEF CompactTick, IInv, TypeOK
<1> QED
  BY <1>1, <1>2 DEF Events, Kinds

(* What a completion does: its own handle is free again; a created table   *)
(* wakes up the tasks of its queue, one to be freed gets its FREE.         *)
LEMMA CompletionTasks ==
    ASSUME IInv, NEW k \in Tasks, Complete(k)
    PROVE  /\ task'[k] = NoTask
           /\ CreateSucceeded(k) => \A j \in Tasks \ {k} :
                 task'[j] = IF j \in Woken(task[k].ref)
                            THEN [task[j] EXCEPT !.state = "new"] ELSE task[j]
           /\ TableDone(k) /\ FreeHandles # {} =>
                 /\ NextHandle \in Tasks \ {k} /\ task[NextHandle].state = "none"
                 /\ task'[NextHandle] = NewTask("free", task[k].ref)
                 /\ \A j \in Tasks \ {k, NextHandle} : task'[j] = task[j]
           /\ TableDone(k) /\ FreeHandles = {} => OnlyChanges(k)
           /\ CompactDone(k) \/ OtherDone(k) => OnlyChanges(k)
<1>1. task \in [Tasks -> TaskType]
  BY DEF IInv, TypeOK
<1>2. ASSUME CreateSucceeded(k)
      PROVE  /\ task'[k] = NoTask
             /\ \A j \in Tasks \ {k} :
                   task'[j] = IF j \in Woken(task[k].ref)
                              THEN [task[j] EXCEPT !.state = "new"] ELSE task[j]
  <2> DEFINE f == Activated(task, Woken(task[k].ref))
  <2>1. task' = [f EXCEPT ![k] = NoTask]
    BY <1>2 DEF CreateSucceeded
  <2>2. f = [j \in Tasks |-> IF j \in Woken(task[k].ref)
                             THEN [task[j] EXCEPT !.state = "new"] ELSE task[j]]
    BY DEF Activated
  <2> HIDE DEF f
  <2> QED
    BY <1>2, <2>1, <2>2
<1>3. ASSUME TableDone(k), FreeHandles = {}
      PROVE  task'[k] = NoTask /\ OnlyChanges(k)
  BY <1>1, <1>3 DEF TableDone, FreeTable, OnlyChanges
<1>4. ASSUME TableDone(k), FreeHandles # {}
      PROVE  /\ task'[k] = NoTask
             /\ NextHandle \in Tasks \ {k} /\ task[NextHandle].state = "none"
             /\ task'[NextHandle] = NewTask("free", task[k].ref)
             /\ \A j \in Tasks \ {k, NextHandle} : task'[j] = task[j]
  <2>1. NextHandle \in Tasks /\ task[NextHandle].state = "none"
    BY <1>4, FreeHandle
  <2>2. task[k].state = "completed"
    BY RefKnown DEF Complete
  <2>3. task' = [task EXCEPT ![NextHandle] = NewTask("free", task[k].ref), ![k] = NoTask]
    BY <1>4 DEF TableDone, FreeTable
  <2> QED
    BY <1>1, <2>1, <2>2, <2>3
<1>5. ASSUME CompactDone(k) \/ OtherDone(k)
      PROVE  task'[k] = NoTask /\ OnlyChanges(k)
  BY <1>1, <1>5 DEF CompactDone, OtherDone, OnlyChanges
<1> QED
  BY <1>2, <1>3, <1>4, <1>5 DEF Complete

LEMMA FreeRunTasks ==
    ASSUME IInv, NEW k \in Tasks, FreeRun(k)
    PROVE  /\ task'[k].state = "completed" /\ task'[k].kind = "free"
           /\ task'[k].ref = task[k].ref /\ task'[k].pc = task[k].pc
           /\ \A j \in Tasks \ {k} :
                 task'[j] = IF j \in Woken(task[k].ref)
                            THEN [task[j] EXCEPT !.state = "new"] ELSE task[j]
<1>1. task \in [Tasks -> TaskType] /\ task[k] \in TaskType /\ task[k].kind = "free"
  BY RefKnown DEF IInv, TypeOK, FreeRun
<1> DEFINE f == Activated(task, Woken(task[k].ref))
<1>2. task' = [f EXCEPT ![k].state = "completed"]
  BY DEF FreeRun
<1>3. f = [j \in Tasks |-> IF j \in Woken(task[k].ref)
                           THEN [task[j] EXCEPT !.state = "new"] ELSE task[j]]
  BY DEF Activated
<1>4. /\ f[k].kind = "free" /\ f[k].ref = task[k].ref /\ f[k].pc = task[k].pc
      /\ f[k] \in TaskType
  BY <1>1, <1>3 DEF TaskType
<1> HIDE DEF f
<1> QED
  BY <1>2, <1>3, <1>4 DEF TaskType

(* A task that is woken up keeps all but its state.                        *)
LEMMA WokenInv ==
    ASSUME IInv, NEW t \in Tables, NEW h \in Woken(t), NEW r,
           r = [task[h] EXCEPT !.state = "new"]
    PROVE  /\ TaskInv(r) /\ r.state = "new" /\ r.kind = "use" /\ r.ref = t
           /\ task[h].kind = "use" /\ task[h].ref = t
<1>1. /\ h \in Tasks /\ task[h].kind = "use" /\ task[h].ref = t
      /\ task[h].state # "running"
  BY WokenUse
<1>2. task[h] \in TaskType /\ TaskInv(task[h])
  BY <1>1 DEF IInv, TypeOK
<1> QED
  BY <1>1, <1>2 DEF TaskType, TaskInv, Decided

LEMMA TasksNext ==
    ASSUME IInv, Next
    PROVE  \A j \in Tasks : TaskInv(task'[j])
<1>1. task \in [Tasks -> TaskType] /\ \A j \in Tasks : TaskInv(task[j])
  BY DEF IInv, TypeOK
<1>2. \A k \in Tasks : OnlyChanges(k) /\ TaskInv(task'[k]) =>
         \A j \in Tasks : TaskInv(task'[j])
  BY <1>1 DEF OnlyChanges
<1>3. TaskInv(NoTask)
  BY DEF TaskInv, NoTask, Decided
<1>4. CASE Events
  BY <1>2, <1>4, Arrival, EventNew
<1>5. CASE Main
  <2>1. CASE UpdateBegin
    BY <1>1, <2>1 DEF UpdateBegin
  <2>2. CASE SetAwaiting
    <3>1. pushing \in Tasks /\ task[pushing].kind = "use" /\ task[pushing].pc = "idle"
      BY <2>2 DEF SetAwaiting, IInv, TypeOK, ListsInv, TaskInv
    <3>2. task[pushing] \in TaskType
      BY <1>1, <3>1
    <3>3. TaskInv(task'[pushing])
      BY <1>1, <2>2, <3>1, <3>2 DEF SetAwaiting, TaskType, TaskInv, Decided
    <3>4. OnlyChanges(pushing)
      BY <1>1, <2>2, <3>1 DEF SetAwaiting, OnlyChanges
    <3> QED
      BY <1>2, <3>1, <3>3, <3>4
  <2>3. ASSUME NEW k \in Tasks, ScanNew(k) \/ FreeLater(k)
        PROVE  \A j \in Tasks : TaskInv(task'[j])
    <3>1. task[k] \in TaskType /\ TaskInv(task[k]) /\ OnlyChanges(k)
      BY <1>1, <2>3, ScanOnly DEF IInv
    <3>2. CASE ScanNew(k)
      BY <1>1, <1>2, <3>1, <3>2 DEF ScanNew, TaskType, TaskInv, Decided
    <3>3. CASE FreeLater(k)
      <4>1. task[k].kind = "free" /\ task[k].ref \in Tables /\ task[k].state = "ready"
        BY <3>3, RefKnown DEF FreeLater
      <4> QED
        BY <1>1, <1>2, <3>1, <3>3, <4>1 DEF FreeLater, TaskType, TaskInv, Decided
    <3> QED
      BY <2>3, <3>2, <3>3
  <2>4. ASSUME NEW k \in Tasks,
               ScanReschedule(k) \/ ScanCompleted(k) \/ ScanOther(k)
        PROVE  \A j \in Tasks : TaskInv(task'[j])
    BY <1>1, <2>4 DEF ScanReschedule, ScanCompleted, ScanOther
  <2>5. ASSUME NEW k \in Tasks, Complete(k)
        PROVE  \A j \in Tasks : TaskInv(task'[j])
    <3>1. CASE CreateSucceeded(k)
      <4>1. task[k].ref \in Tables
        BY <2>5, <3>1, RefKnown DEF Complete, CreateSucceeded
      <4>2. ASSUME NEW j \in Tasks \ {k}
            PROVE  TaskInv(task'[j])
        <5>1. CASE j \in Woken(task[k].ref)
          <6>1. task'[j] = [task[j] EXCEPT !.state = "new"]
            BY <2>5, <3>1, <5>1, CompletionTasks
          <6> QED
            BY <4>1, <5>1, <6>1, WokenInv
        <5>2. CASE j \notin Woken(task[k].ref)
          BY <1>1, <2>5, <3>1, <5>2, CompletionTasks
        <5> QED
          BY <5>1, <5>2
      <4> QED
        BY <1>3, <2>5, <4>2, CompletionTasks
    <3>2. CASE TableDone(k)
      <4>1. task[k].ref \in Tables
        BY <2>5, <3>2, RefKnown DEF Complete, TableDone
      <4>2. TaskInv(NewTask("free", task[k].ref))
        BY <4>1, TablesAssumption DEF NewTask, NoTask, TaskInv, Decided
      <4> QED
        BY <1>1, <1>3, <2>5, <3>2, <4>2, CompletionTasks DEF OnlyChanges
    <3>3. CASE CompactDone(k) \/ OtherDone(k)
      BY <1>1, <1>3, <2>5, <3>3, CompletionTasks DEF OnlyChanges
    <3> QED
      BY <2>5, <3>1, <3>2, <3>3 DEF Complete
  <2>6. ASSUME NEW k \in Tasks, FreeRun(k)
        PROVE  \A j \in Tasks : TaskInv(task'[j])
    <3>1. task[k].ref \in Tables /\ task[k].pc = "idle"
      BY <2>6, RefKnown DEF FreeRun, IInv, TaskInv
    <3>2. TaskInv(task'[k])
      BY <2>6, <3>1, FreeRunTasks DEF TaskInv, Decided
    <3>3. ASSUME NEW j \in Tasks \ {k}
          PROVE  TaskInv(task'[j])
      <4>1. CASE j \in Woken(task[k].ref)
        <5>1. task'[j] = [task[j] EXCEPT !.state = "new"]
          BY <2>6, <4>1, FreeRunTasks
        <5> QED
          BY <3>1, <4>1, <5>1, WokenInv
      <4>2. CASE j \notin Woken(task[k].ref)
        BY <1>1, <2>6, <4>2, FreeRunTasks
      <4> QED
        BY <4>1, <4>2
    <3> QED
      BY <3>2, <3>3
  <2> QED
    BY <1>5, <2>1, <2>2, <2>3, <2>4, <2>5, <2>6 DEF Main
<1>6. ASSUME NEW k \in Tasks, Start(k)
      PROVE  \A j \in Tasks : TaskInv(task'[j])
  <2>1. task[k] \in TaskType /\ TaskInv(task[k]) /\ OnlyChanges(k)
    BY <1>1, <1>6, ScanOnly DEF IInv
  <2>2. task[k].kind \in {"create", "drop", "use", "compact"}
    BY <1>6, <2>1 DEF Start, TaskInv, TaskType, Kinds
  <2>3. task'[k].pc = FirstPc(task[k].kind) /\ task'[k].state = "running"
        /\ task'[k].kind = task[k].kind /\ task'[k].ref = task[k].ref
    BY <1>1, <1>6, <2>1 DEF Start, TaskType
  <2>4. /\ task'[k].pc \in PcOf(task[k].kind) \ {"fill", "inside", "result"}
        /\ task'[k].pc \in {"add", "remove"} => task[k].kind \in {"create", "drop"}
    BY <2>2, <2>3 DEF FirstPc, PcOf
  <2>5. TaskInv(task'[k])
    BY <1>6, <2>1, <2>2, <2>3, <2>4 DEF TaskInv, Decided, Start
  <2> QED
    BY <1>2, <2>1, <2>5
<1>7. ASSUME NEW k \in Tasks, Handler(k), ~CompactWake(k)
      PROVE  \A j \in Tasks : TaskInv(task'[j])
  BY <1>2, <1>7, HandlerInv, ScanOnly DEF IInv
<1>8. ASSUME NEW k \in Tasks, CompactWake(k)
      PROVE  \A j \in Tasks : TaskInv(task'[j])
  <2> DEFINE h == Head(table[task[k].ref].queue)
  <2>1. task[k].ref \in Tables /\ table[task[k].ref].queue # <<>>
    BY <1>8, RefKnown DEF CompactWake
  <2>2. table[task[k].ref].queue \in Seq(Tasks)
    BY <2>1 DEF IInv, TypeOK, TableType
  <2>3. h \in Woken(task[k].ref)
    BY <2>1, <2>2 DEF Woken
  <2>4. task' = [task EXCEPT ![h].state = "new"]
    BY <1>8 DEF CompactWake
  <2> HIDE DEF h
  <2>5. h \in Tasks
    BY <2>1, <2>3, WokenUse
  <2>6. task'[h] = [task[h] EXCEPT !.state = "new"] /\ OnlyChanges(h)
    BY <1>1, <2>4, <2>5 DEF OnlyChanges
  <2> QED
    BY <1>2, <2>1, <2>3, <2>5, <2>6, WokenInv
<1> QED
  BY <1>4, <1>5, <1>6, <1>7, <1>8 DEF Next

LEMMA WakeOne ==
    ASSUME IInv, NEW k \in Tasks, CompactWake(k)
    PROVE  \E h \in Woken(task[k].ref) :
              /\ h = table[task[k].ref].queue[1] /\ h \in Tasks
              /\ task'[h] = [task[h] EXCEPT !.state = "new"]
              /\ OnlyChanges(h)
<1> DEFINE h == Head(table[task[k].ref].queue)
<1>1. task[k].ref \in Tables /\ table[task[k].ref].queue # <<>>
  BY RefKnown DEF CompactWake
<1>2. table[task[k].ref].queue \in Seq(Tasks)
  BY <1>1 DEF IInv, TypeOK, TableType
<1>3. h \in Woken(task[k].ref) /\ h = table[task[k].ref].queue[1]
  BY <1>1, <1>2 DEF Woken
<1>4. task' = [task EXCEPT ![h].state = "new"]
  BY DEF CompactWake
<1> HIDE DEF h
<1>5. h \in Tasks
  BY <1>1, <1>3, WokenUse
<1>6. task'[h] = [task[h] EXCEPT !.state = "new"] /\ OnlyChanges(h)
  BY <1>4, <1>5 DEF OnlyChanges, IInv, TypeOK
<1> QED
  BY <1>3, <1>5, <1>6

(* The lists stay right when the tasks in them are left alone, or the one  *)
(* being pushed is woken up.                                               *)
LEMMA ListsKept ==
    ASSUME IInv, toComplete' \subseteq toComplete,
           mtQueue' \subseteq mtQueue, pushing' \in {pushing, None},
           \A j \in Tasks : j \in toComplete' \cup mtQueue' => task'[j] = task[j],
           pushing' # None =>
              \/ task'[pushing] = task[pushing]
              \/ /\ task'[pushing].state \in {"reschedule", "new"}
                 /\ task'[pushing].kind = "use"
    PROVE  ListsInv'
BY DEF IInv, TypeOK, ListsInv

LEMMA ListsNext ==
    ASSUME IInv, Next
    PROVE  ListsInv'
<1>1. task \in [Tasks -> TaskType]
  BY DEF IInv, TypeOK
<1>2. \A j \in Tasks : j \in toComplete => task[j].state = "completed"
  BY RefKnown
<1>3. \A j \in Tasks : j \in mtQueue => task[j].state = "ready" /\ task[j].kind = "free"
  BY RefKnown
<1>4. pushing # None => /\ pushing \in Tasks /\ task[pushing].kind = "use"
                        /\ task[pushing].state \in {"reschedule", "new"}
  BY DEF IInv, TypeOK, ListsInv
<1>5. ASSUME NEW k \in Tasks, OnlyChanges(k), k \notin toComplete, k \notin mtQueue,
             k # pushing, UNCHANGED <<toComplete, mtQueue, pushing>>
      PROVE  ListsInv'
  BY <1>4, <1>5, ListsKept DEF OnlyChanges
<1>6. CASE Events
  <2>1. PICK kind \in Kinds, t \in Tables \cup {None} :
           /\ kind # "free" /\ CanArrive /\ Arrive(kind, t)
           /\ kind \in {"free", "compact"} <=> t # None
    BY <1>6, EventNew
  <2>2. OnlyChanges(NextHandle) /\ NextHandle \in Tasks /\ task[NextHandle].state = "none"
    BY <2>1, Arrival
  <2>3. UNCHANGED <<toComplete, mtQueue, pushing>>
    BY <2>1 DEF Arrive, mainVars
  <2>4. NextHandle \notin toComplete /\ NextHandle \notin mtQueue /\ NextHandle # pushing
    BY <1>2, <1>3, <1>4, <2>2, TablesAssumption
  <2> QED
    BY <1>5, <2>2, <2>3, <2>4
<1>7. CASE Main
  <2>1. CASE UpdateBegin
    BY <2>1 DEF UpdateBegin, IInv, ListsInv
  <2>2. CASE SetAwaiting
    <3>1. OnlyChanges(pushing)
      BY <1>1, <1>4, <2>2 DEF SetAwaiting, OnlyChanges
    <3> QED
      BY <1>2, <1>3, <1>4, <2>2, <3>1, ListsKept DEF SetAwaiting, OnlyChanges
  <2>3. ASSUME NEW k \in Tasks, ScanNew(k)
        PROVE  ListsInv'
    <3>1. OnlyChanges(k) /\ task[k] \in TaskType
      BY <1>1, <2>3, ScanOnly DEF IInv
    <3>2. task'[k].state = "ready" /\ task'[k].kind = task[k].kind
      BY <1>1, <2>3, <3>1 DEF ScanNew, TaskType
    <3> QED
      BY <1>2, <1>3, <2>3, <3>1, <3>2 DEF ScanNew, ListsInv, OnlyChanges, IInv, TypeOK
  <2>4. ASSUME NEW k \in Tasks, ScanReschedule(k)
        PROVE  ListsInv'
    <3>1. task[k].kind = "use"
      BY <2>4 DEF ScanReschedule, IInv, TaskInv
    <3> QED
      BY <1>2, <1>3, <2>4, <3>1 DEF ScanReschedule, ListsInv, IInv, TypeOK
  <2>5. ASSUME NEW k \in Tasks, ScanCompleted(k)
        PROVE  ListsInv'
    BY <1>2, <1>3, <1>4, <2>5 DEF ScanCompleted, ListsInv, IInv, TypeOK
  <2>6. ASSUME NEW k \in Tasks, ScanOther(k)
        PROVE  ListsInv'
    BY <2>6, ListsKept DEF ScanOther
  <2>7. ASSUME NEW k \in Tasks, Complete(k)
        PROVE  ListsInv'
    <3>1. toComplete' = toComplete \ {k} /\ mtQueue' = mtQueue /\ pushing' = None
          /\ pushing = None /\ task[k].state = "completed"
      BY <1>2, <2>7 DEF Complete, Scanned
    <3>2. ASSUME NEW j \in Tasks, j \in toComplete' \cup mtQueue'
          PROVE  task'[j] = task[j]
      <4>1. j # k /\ \/ task[j].state = "completed"
                     \/ task[j].state = "ready" /\ task[j].kind = "free"
        BY <1>2, <1>3, <3>1, <3>2
      <4>2. CASE CreateSucceeded(k)
        <5>1. task[k].ref \in Tables
          BY <2>7, <4>2, RefKnown DEF Complete, CreateSucceeded
        <5>2. j \notin Woken(task[k].ref)
          BY <4>1, <5>1, WokenUse
        <5> QED
          BY <2>7, <4>1, <4>2, <5>2, CompletionTasks
      <4>3. CASE TableDone(k) \/ CompactDone(k) \/ OtherDone(k)
        BY <2>7, <4>1, <4>3, CompletionTasks DEF OnlyChanges
      <4> QED
        BY <2>7, <4>2, <4>3 DEF Complete
    <3> QED
      BY <3>1, <3>2, ListsKept
  <2>8. ASSUME NEW k \in Tasks, FreeRun(k)
        PROVE  ListsInv'
    <3>1. task[k].ref \in Tables
      BY <2>8, RefKnown DEF FreeRun
    <3>2. ASSUME NEW j \in Tasks, j \in mtQueue \ {k}
          PROVE  task'[j] = task[j]
      <4>1. j \notin Woken(task[k].ref)
        BY <1>3, <3>1, <3>2, WokenUse
      <4> QED
        BY <2>8, <3>2, <4>1, FreeRunTasks
    <3> QED
      BY <2>8, <3>2, ListsKept DEF FreeRun, Scanned
  <2>9. ASSUME NEW k \in Tasks, FreeLater(k)
        PROVE  ListsInv'
    <3>1. OnlyChanges(k)
      BY <2>9, ScanOnly DEF IInv
    <3> QED
      BY <2>9, <3>1, ListsKept DEF FreeLater, OnlyChanges, Scanned
  <2> QED
    BY <1>7, <2>1, <2>2, <2>3, <2>4, <2>5, <2>6, <2>7, <2>8, <2>9 DEF Main
<1>8. ASSUME NEW k \in Tasks, Start(k) \/ (Handler(k) /\ ~CompactWake(k))
      PROVE  ListsInv'
  <2>1. OnlyChanges(k)
    BY <1>8, ScanOnly DEF IInv
  <2>2. UNCHANGED <<toComplete, mtQueue, pushing>>
    BY <1>8 DEF Start, Handler, GuardMissing, GuardBlocked, GuardEnter, GuardEnd, CreateAdd,
       CreateExists, CreateFill, CreateBreak, DropRemove, DropBreak, CompactBlock,
       CompactAlone, CompactUnblock, CompactStageTwo, CompactEnd, Result, mainVars
  <2>3. \/ task[k].state = "running"
        \/ task[k].state = "ready" /\ task[k].kind # "free"
    BY <1>8 DEF Start, Handler, GuardMissing, GuardBlocked, GuardEnter, GuardEnd, CreateAdd,
       CreateExists, CreateFill, CreateBreak, DropRemove, DropBreak, CompactBlock,
       CompactAlone, CompactUnblock, CompactStageTwo, CompactEnd, Result, At
  <2>4. k \notin toComplete /\ k \notin mtQueue /\ k # pushing
    BY <1>2, <1>3, <1>4, <2>3, TablesAssumption
  <2> QED
    BY <1>5, <2>1, <2>2, <2>4
<1>9. ASSUME NEW k \in Tasks, CompactWake(k)
      PROVE  ListsInv'
  <2>1. task[k].ref \in Tables
    BY <1>9, RefKnown DEF CompactWake
  <2>2. PICK h \in Woken(task[k].ref) :
           h \in Tasks /\ task'[h] = [task[h] EXCEPT !.state = "new"] /\ OnlyChanges(h)
    BY <1>9, WakeOne
  <2>3. task'[h].state = "new" /\ task'[h].kind = "use"
    BY <2>1, <2>2, WokenInv
  <2>4. h \notin toComplete /\ h \notin mtQueue
    BY <1>2, <1>3, <2>1, <2>2, WokenUse
  <2>5. UNCHANGED <<toComplete, mtQueue, pushing>>
    BY <1>9 DEF CompactWake, mainVars
  <2> QED
    BY <1>4, <2>2, <2>3, <2>4, <2>5, ListsKept DEF OnlyChanges
<1> QED
  BY <1>6, <1>7, <1>8, <1>9 DEF Next
-----------------------------------------------------------------------------
(* Between its arrival and its completion a task keeps its kind, and a     *)
(* compaction or a FREE the table it is for.                               *)
KindsKept ==
    \A j \in Tasks :
       /\ task'[j].kind = task[j].kind
       /\ task[j].kind \in {"compact", "free"} => task'[j].ref = task[j].ref

LEMMA WokenKept ==
    ASSUME IInv, NEW t \in Tables, NEW j \in Woken(t),
           task'[j] = [task[j] EXCEPT !.state = "new"]
    PROVE  task'[j].kind = "use" /\ task[j].kind = "use" /\ task'[j].ref = task[j].ref
BY WokenInv

LEMMA HandlerKinds ==
    ASSUME IInv, NEW k \in Tasks, Handler(k), ~CompactWake(k)
    PROVE  KindsKept
<1>1. task \in [Tasks -> TaskType]
  BY DEF IInv, TypeOK
<1>2. ASSUME OnlyChanges(k), task'[k].kind = task[k].kind,
             task[k].kind \in {"compact", "free"} => task'[k].ref = task[k].ref
      PROVE  KindsKept
  BY <1>2 DEF OnlyChanges, KindsKept
<1>3. task[k] \in TaskType /\ OnlyChanges(k) /\ task'[k].kind = task[k].kind
  BY <1>1, ScanOnly, HandlerInv DEF IInv
<1>4. CASE \/ CompactBlock(k) \/ CompactAlone(k) \/ CompactUnblock(k)
           \/ CompactStageTwo(k) \/ Result(k)
  <2>1. task'[k].ref = task[k].ref
    BY <1>1, <1>3, <1>4 DEF CompactBlock, CompactAlone, CompactUnblock, CompactStageTwo,
       Result, TaskType
  <2> QED
    BY <1>2, <1>3, <2>1
<1>5. CASE CompactEnd(k)
  <2>1. PICK err \in {"none", "generic"} : Goto(k, "result", task[k].ref, err)
    BY <1>5 DEF CompactEnd
  <2>2. task'[k].ref = task[k].ref
    BY <1>1, <1>3, <2>1 DEF Goto, TaskType
  <2> QED
    BY <1>2, <1>3, <2>2
<1>6. CASE \/ GuardMissing(k) \/ GuardBlocked(k) \/ GuardEnter(k) \/ GuardEnd(k)
           \/ CreateAdd(k) \/ CreateExists(k) \/ CreateFill(k) \/ CreateBreak(k)
           \/ DropRemove(k) \/ DropBreak(k)
  <2>1. task[k].kind \in {"use", "create", "drop"}
    BY <1>6, RefKnown DEF GuardMissing, GuardBlocked, GuardEnter, GuardEnd, CreateAdd,
       CreateExists, CreateFill, CreateBreak, DropRemove, DropBreak
  <2> QED
    BY <1>2, <1>3, <2>1
<1> QED
  BY <1>4, <1>5, <1>6 DEF Handler

LEMMA StepKinds ==
    ASSUME IInv, Next, ~Events, ~\E k \in Tasks : Complete(k)
    PROVE  KindsKept
<1>1. task \in [Tasks -> TaskType]
  BY DEF IInv, TypeOK
<1>2. ASSUME NEW k \in Tasks, OnlyChanges(k), task'[k].kind = task[k].kind,
             task[k].kind \in {"compact", "free"} => task'[k].ref = task[k].ref
      PROVE  KindsKept
  BY <1>2 DEF OnlyChanges, KindsKept
<1>3. CASE task' = task
  BY <1>3 DEF KindsKept
<1>4. CASE SetAwaiting
  <2>1. pushing \in Tasks
    BY <1>4 DEF SetAwaiting, IInv, TypeOK
  <2>2. task[pushing] \in TaskType
    BY <1>1, <2>1
  <2>3. OnlyChanges(pushing) /\ task'[pushing].kind = task[pushing].kind
        /\ task'[pushing].ref = task[pushing].ref
    BY <1>1, <1>4, <2>1, <2>2 DEF SetAwaiting, OnlyChanges, TaskType
  <2> QED
    BY <1>2, <2>1, <2>3
<1>5. ASSUME NEW k \in Tasks, ScanNew(k) \/ FreeLater(k) \/ Start(k)
      PROVE  KindsKept
  <2>1. task[k] \in TaskType /\ OnlyChanges(k)
    BY <1>1, <1>5, ScanOnly DEF IInv
  <2>2. task'[k].kind = task[k].kind /\ task'[k].ref = task[k].ref
    BY <1>1, <1>5, <2>1 DEF ScanNew, FreeLater, Start, TaskType
  <2> QED
    BY <1>2, <2>1, <2>2
<1>6. ASSUME NEW k \in Tasks, FreeRun(k)
      PROVE  KindsKept
  <2>1. task[k].ref \in Tables /\ task[k].kind = "free"
    BY <1>6, RefKnown DEF FreeRun
  <2>2. ASSUME NEW j \in Tasks \ {k}, j \in Woken(task[k].ref)
        PROVE  task'[j].kind = task[j].kind /\ task'[j].ref = task[j].ref
    <3>1. task'[j] = [task[j] EXCEPT !.state = "new"]
      BY <1>6, <2>2, FreeRunTasks
    <3> QED
      BY <2>1, <2>2, <3>1, WokenKept
  <2> QED
    BY <1>6, <2>1, <2>2, FreeRunTasks DEF KindsKept
<1>7. ASSUME NEW k \in Tasks, Handler(k), ~CompactWake(k)
      PROVE  KindsKept
  BY <1>7, HandlerKinds
<1>8. ASSUME NEW k \in Tasks, CompactWake(k)
      PROVE  KindsKept
  <2>1. task[k].ref \in Tables
    BY <1>8, RefKnown DEF CompactWake
  <2>2. PICK h \in Woken(task[k].ref) :
           h \in Tasks /\ task'[h] = [task[h] EXCEPT !.state = "new"] /\ OnlyChanges(h)
    BY <1>8, WakeOne
  <2> QED
    BY <1>2, <2>1, <2>2, WokenKept
<1> QED
  BY <1>3, <1>4, <1>5, <1>6, <1>7, <1>8
  DEF Next, Main, UpdateBegin, ScanReschedule, ScanCompleted, ScanOther
-----------------------------------------------------------------------------
(* The flag `compacting`.                                                  *)
FlagsKept == \A t \in Tables : table'[t].compacting = table[t].compacting

LEMMA CompactingKept ==
    ASSUME IInv, FlagsKept,
           \A j \in Tasks, t \in Tables : Compacts(task'[j], t) <=> Compacts(task[j], t)
    PROVE  CompactingExact'
<1>1. \A t \in Tables : CompactionsOf(t)' = CompactionsOf(t)
  BY DEF CompactionsOf, Compacts
<1> QED
  BY <1>1 DEF IInv, CompactingExact, FlagsKept

(* Only a tick raises a flag, and only the completion of a compaction      *)
(* lowers one.                                                             *)
LEMMA CompletionFlags ==
    ASSUME IInv, NEW k \in Tasks, Complete(k), ~CompactDone(k)
    PROVE  FlagsKept
<1>1. table \in [Tables -> TableType] /\ \A t \in Tables : table[t] \in TableType
  BY DEF IInv, TypeOK
<1>2. CASE CreateSucceeded(k)
  <2>1. table[task[k].ref] \in TableType
    BY <1>1, <1>2, RefKnown DEF Complete, CreateSucceeded
  <2> QED
    BY <1>1, <1>2, <2>1 DEF CreateSucceeded, FlagsKept, TableType
<1> QED
  BY <1>2 DEF Complete, TableDone, OtherDone, FlagsKept

LEMMA StepFlags ==
    ASSUME IInv, Next, ~Events, ~\E k \in Tasks : Complete(k)
    PROVE  FlagsKept
<1>1. table \in [Tables -> TableType] /\ \A t \in Tables : table[t] \in TableType
  BY DEF IInv, TypeOK
<1>2. CASE table' = table
  BY <1>2 DEF FlagsKept
<1>3. ASSUME NEW k \in Tasks, ScanReschedule(k)
      PROVE  FlagsKept
  BY <1>1, <1>3 DEF ScanReschedule, FlagsKept, TableType
<1>4. ASSUME NEW k \in Tasks, FreeRun(k)
      PROVE  FlagsKept
  BY <1>1, <1>4 DEF FreeRun, FlagsKept, TableType
<1>5. ASSUME NEW k \in Tasks, GuardEnter(k) \/ GuardEnd(k)
      PROVE  FlagsKept
  <2>1. CASE GuardEnter(k)
    BY <1>1, <2>1 DEF GuardEnter, FlagsKept, TableType
  <2>2. CASE GuardEnd(k)
    BY <1>1, <2>2 DEF GuardEnd, FlagsKept, TableType
  <2> QED
    BY <1>5, <2>1, <2>2
<1>6. ASSUME NEW k \in Tasks, CreateAdd(k) \/ CreateExists(k)
      PROVE  FlagsKept
  <2>1. PICK t \in Tables :
           table' = [table EXCEPT ![t].life = "live", ![t].blocked = TRUE]
    BY <1>6 DEF CreateAdd, CreateExists
  <2> QED
    BY <1>1, <2>1 DEF FlagsKept, TableType
<1>7. ASSUME NEW k \in Tasks, CompactBlock(k) \/ CompactUnblock(k) \/ CompactWake(k)
      PROVE  FlagsKept
  <2>1. CASE CompactBlock(k)
    BY <1>1, <2>1 DEF CompactBlock, FlagsKept, TableType
  <2>2. CASE CompactUnblock(k)
    BY <1>1, <2>2 DEF CompactUnblock, FlagsKept, TableType
  <2>3. CASE CompactWake(k)
    BY <1>1, <2>3 DEF CompactWake, FlagsKept, TableType
  <2> QED
    BY <1>7, <2>1, <2>2, <2>3
<1> QED
  BY <1>2, <1>3, <1>4, <1>5, <1>6, <1>7
  DEF Next, Main, UpdateBegin, SetAwaiting, ScanNew, ScanCompleted,
      ScanOther, FreeLater, Start, Handler, GuardMissing, GuardBlocked, CreateFill,
      CreateBreak, DropRemove, DropBreak, CompactAlone, CompactStageTwo, CompactEnd, Result

LEMMA CompactingNext ==
    ASSUME IInv, Next
    PROVE  CompactingExact'
<1>1. table \in [Tables -> TableType] /\ \A t \in Tables : table[t] \in TableType
  BY DEF IInv, TypeOK
<1>2. ASSUME NEW t \in Tables, CompactTick(t)
      PROVE  CompactingExact'
  <2>1. PICK m \in Tables : m = map /\ ~table[m].compacting
    BY <1>2 DEF CompactTick, IInv, TypeOK
  <2>2. CompactionsOf(m) = {}
    BY <2>1 DEF IInv, CompactingExact
  <2>3. /\ NextHandle \in Tasks /\ task[NextHandle].state = "none" /\ OnlyChanges(NextHandle)
        /\ task'[NextHandle] = NewTask("compact", m)
    BY <1>2, <2>1, Arrival DEF CompactTick, Kinds
  <2>4. task[NextHandle].kind = "none"
    BY <2>3 DEF IInv, TaskInv
  <2>5. Compacts(NewTask("compact", m), m)
        /\ \A u \in Tables \ {m} : ~Compacts(NewTask("compact", m), u)
    BY DEF NewTask, NoTask, Compacts
  <2>6. CompactionsOf(m)' = {NextHandle}
    BY <2>2, <2>3, <2>5 DEF CompactionsOf, Compacts, OnlyChanges
  <2>7. \A u \in Tables \ {m} : CompactionsOf(u)' = CompactionsOf(u)
    BY <2>3, <2>4, <2>5 DEF CompactionsOf, Compacts, OnlyChanges
  <2>8. /\ table'[m].compacting = TRUE
        /\ \A u \in Tables \ {m} : table'[u] = table[u]
    BY <1>1, <1>2, <2>1 DEF CompactTick, TableType
  <2> QED
    BY <2>1, <2>6, <2>7, <2>8 DEF CompactingExact, IInv
<1>3. ASSUME NEW k \in Tasks, Complete(k), CompactDone(k)
      PROVE  CompactingExact'
  <2>1. PICK t \in Tables : t = task[k].ref /\ task[k].kind = "compact"
    BY <1>3, RefKnown DEF Complete, CompactDone
  <2>2. CompactionsOf(t) = {k}
    BY <2>1 DEF IInv, CompactingExact, CompactionsOf
  <2>3. task'[k].kind = "none" /\ OnlyChanges(k)
    BY <1>3, CompletionTasks DEF NoTask
  <2>4. CompactionsOf(t)' = {}
    BY <2>2, <2>3 DEF CompactionsOf, OnlyChanges
  <2>5. \A u \in Tables \ {t} : CompactionsOf(u)' = CompactionsOf(u)
    BY <2>1, <2>3 DEF CompactionsOf, OnlyChanges
  <2>6. /\ table'[t].compacting = FALSE
        /\ \A u \in Tables \ {t} : table'[u] = table[u]
    BY <1>1, <1>3, <2>1 DEF CompactDone, TableType
  <2> QED
    BY <2>1, <2>4, <2>5, <2>6 DEF CompactingExact, IInv
<1>4. ASSUME NEW kind \in {"create", "drop", "use"}, Request(kind)
      PROVE  CompactingExact'
  <2>1. /\ NextHandle \in Tasks /\ task[NextHandle].state = "none" /\ OnlyChanges(NextHandle)
        /\ task'[NextHandle] = NewTask(kind, None)
    BY <1>4, Arrival DEF Request, Kinds
  <2>2. task[NextHandle].kind = "none" /\ task'[NextHandle].kind = kind
    BY <2>1 DEF IInv, TaskInv, NewTask, NoTask
  <2>3. FlagsKept
    BY <1>4 DEF Request, FlagsKept
  <2> QED
    BY <2>1, <2>2, <2>3, CompactingKept DEF OnlyChanges, Compacts
<1>5. ASSUME NEW k \in Tasks, Complete(k), ~CompactDone(k)
      PROVE  CompactingExact'
  <2>1. FlagsKept
    BY <1>5, CompletionFlags
  <2>2. task[k].kind # "compact"
    BY <1>5 DEF Complete, CreateSucceeded, TableDone, OtherDone
  <2>3. task'[k].kind = "none"
    BY <1>5, CompletionTasks DEF NoTask
  <2>4. CASE CreateSucceeded(k)
    <3>1. task[k].ref \in Tables
      BY <1>5, <2>4, RefKnown DEF Complete, CreateSucceeded
    <3>2. ASSUME NEW j \in Tasks \ {k}, j \in Woken(task[k].ref)
          PROVE  task'[j].kind = task[j].kind /\ task'[j].ref = task[j].ref
      <4>1. task'[j] = [task[j] EXCEPT !.state = "new"]
        BY <1>5, <2>4, <3>2, CompletionTasks
      <4> QED
        BY <3>1, <3>2, <4>1, WokenKept
    <3>3. \A j \in Tasks \ {k} : task'[j].kind = task[j].kind /\ task'[j].ref = task[j].ref
      BY <1>5, <2>4, <3>2, CompletionTasks
    <3> QED
      BY <2>1, <2>2, <2>3, <3>3, CompactingKept DEF Compacts
  <2>5. CASE TableDone(k) /\ FreeHandles # {}
    <3>1. /\ NextHandle \in Tasks \ {k} /\ task[NextHandle].state = "none"
          /\ task'[NextHandle] = NewTask("free", task[k].ref)
          /\ \A j \in Tasks \ {k, NextHandle} : task'[j] = task[j]
      BY <1>5, <2>5, CompletionTasks
    <3>2. task[NextHandle].kind = "none" /\ task'[NextHandle].kind = "free"
      BY <3>1 DEF IInv, TaskInv, NewTask, NoTask
    <3> QED
      BY <2>1, <2>2, <2>3, <3>1, <3>2, CompactingKept DEF Compacts
  <2>6. CASE OnlyChanges(k)
    BY <2>1, <2>2, <2>3, <2>6, CompactingKept DEF Compacts, OnlyChanges
  <2> QED
    BY <1>5, <2>4, <2>5, <2>6, CompletionTasks DEF Complete
<1>6. CASE ~Events /\ ~\E k \in Tasks : Complete(k)
  <2>1. KindsKept /\ FlagsKept
    BY <1>6, StepKinds, StepFlags
  <2> QED
    BY <2>1, CompactingKept DEF KindsKept, Compacts
<1> QED
  BY <1>2, <1>3, <1>4, <1>5, <1>6 DEF Events
-----------------------------------------------------------------------------
(* The blockedQueues.                                                      *)

(* What QueuedTasksWait says of one queue.                                 *)
Waits(k, t) == task[k].ref = t /\ (task[k].state = "awaiting" \/ pushing = k)

Distinct(q) == \A i, j \in DOMAIN q : q[i] = q[j] => i = j

LEMMA QueueForm ==
    /\ QueuedTasksWait <=> \A t \in Tables : /\ \A k \in Woken(t) : Waits(k, t)
                                             /\ Distinct(table[t].queue)
    /\ QueuedTasksWait' <=> \A t \in Tables : /\ \A k \in Woken(t)' : Waits(k, t)'
                                              /\ Distinct(table'[t].queue)
BY DEF QueuedTasksWait, Woken, Waits, Distinct

QueuesKept == \A t \in Tables : table'[t].queue = table[t].queue

LEMMA QueueKept ==
    ASSUME IInv, QueuesKept,
           \A t \in Tables : \A k \in Woken(t) : Waits(k, t)'
    PROVE  QueuedTasksWait'
<1>1. \A t \in Tables : Woken(t)' = Woken(t)
  BY DEF QueuesKept, Woken
<1> QED
  BY <1>1, QueueForm DEF IInv, QueuesKept

LEMMA HandlerQueues ==
    ASSUME IInv, NEW k \in Tasks, Handler(k), ~CompactWake(k)
    PROVE  QueuesKept
<1>1. table \in [Tables -> TableType] /\ \A t \in Tables : table[t] \in TableType
  BY DEF IInv, TypeOK
<1>2. CASE table' = table
  BY <1>2 DEF QueuesKept
<1>3. CASE GuardEnter(k)
  BY <1>1, <1>3 DEF GuardEnter, QueuesKept, TableType
<1>4. CASE GuardEnd(k)
  BY <1>1, <1>4 DEF GuardEnd, QueuesKept, TableType
<1>5. CASE CreateAdd(k) \/ CreateExists(k)
  <2>1. PICK t \in Tables :
           table' = [table EXCEPT ![t].life = "live", ![t].blocked = TRUE]
    BY <1>5 DEF CreateAdd, CreateExists
  <2> QED
    BY <1>1, <2>1 DEF QueuesKept, TableType
<1>6. CASE CompactBlock(k)
  BY <1>1, <1>6 DEF CompactBlock, QueuesKept, TableType
<1>7. CASE CompactUnblock(k)
  BY <1>1, <1>7 DEF CompactUnblock, QueuesKept, TableType
<1> QED
  BY <1>2, <1>3, <1>4, <1>5, <1>6, <1>7
  DEF Handler, GuardMissing, GuardBlocked, CreateFill, CreateBreak, DropRemove, DropBreak,
      CompactAlone, CompactStageTwo, CompactEnd, Result

LEMMA TailDistinct ==
    ASSUME NEW q \in Seq(Tasks), q # <<>>, Distinct(q)
    PROVE  /\ Distinct(Tail(q))
           /\ \A i \in DOMAIN Tail(q) : /\ Tail(q)[i] # q[1]
                                        /\ \E j \in DOMAIN q : Tail(q)[i] = q[j]
<1>1. \A i \in DOMAIN Tail(q) : i + 1 \in DOMAIN q /\ i + 1 # 1 /\ Tail(q)[i] = q[i + 1]
  OBVIOUS
<1>2. 1 \in DOMAIN q
  OBVIOUS
<1> QED
  BY <1>1, <1>2 DEF Distinct

(* Table t's queue is emptied, and its tasks woken up.                     *)
LEMMA QueueEmptied ==
    ASSUME IInv, NEW t \in Tables, table'[t].queue = <<>>,
           \A u \in Tables \ {t} : table'[u] = table[u],
           pushing' = pushing,
           \A u \in Tables \ {t} : \A k \in Woken(u) : k \notin Woken(t) => task'[k] = task[k]
    PROVE  QueuedTasksWait'
<1>1. Woken(t)' = {}
  BY DEF Woken
<1>2. \A u \in Tables \ {t} : Woken(u)' = Woken(u)
  BY DEF Woken
<1>3. ASSUME NEW u \in Tables \ {t}, NEW k \in Woken(u)
      PROVE  Waits(k, u)'
  <2>1. task[k].ref = u /\ k \notin Woken(t)
    BY <1>3, WokenUse
  <2>2. Waits(k, u)
    BY <1>3, QueueForm DEF IInv
  <2> QED
    BY <2>1, <2>2 DEF Waits
<1>4. Distinct(<<>>)
  BY DEF Distinct
<1> QED
  BY <1>1, <1>2, <1>3, <1>4, QueueForm DEF IInv

LEMMA QueueNext ==
    ASSUME IInv, Next
    PROVE  QueuedTasksWait'
<1>1. table \in [Tables -> TableType] /\ \A t \in Tables : table[t] \in TableType
  BY DEF IInv, TypeOK
<1>2. \A t \in Tables : table[t].queue \in Seq(Tasks)
  BY <1>1 DEF TableType
<1>3. \A t \in Tables : /\ \A k \in Woken(t) : Waits(k, t)
                        /\ Distinct(table[t].queue)
  BY QueueForm DEF IInv
<1>4. ASSUME NEW k \in Tasks, OnlyChanges(k), QueuesKept, pushing' = pushing,
             task[k].state \in {"none", "ready", "running", "completed"}
      PROVE  QueuedTasksWait'
  <2>1. \A t \in Tables : k \notin Woken(t)
    BY <1>4, WokenUse
  <2>2. \A t \in Tables : \A h \in Woken(t) : task'[h] = task[h]
    BY <1>4, <2>1, WokenUse DEF OnlyChanges
  <2> QED
    BY <1>3, <1>4, <2>2, QueueKept DEF Waits
<1>5. ASSUME task' = task, QueuesKept, pushing' = pushing
      PROVE  QueuedTasksWait'
  BY <1>3, <1>5, QueueKept DEF Waits
<1>6. CASE Events
  <2>1. PICK kind \in Kinds, t \in Tables \cup {None} :
           /\ kind # "free" /\ CanArrive /\ Arrive(kind, t)
           /\ kind \in {"free", "compact"} <=> t # None
    BY <1>6, EventNew
  <2>2. OnlyChanges(NextHandle) /\ NextHandle \in Tasks /\ task[NextHandle].state = "none"
    BY <2>1, Arrival
  <2>3. QueuesKept
    <3>1. ASSUME NEW u \in Tables, CompactTick(u)
          PROVE  QueuesKept
      BY <1>1, <3>1 DEF CompactTick, QueuesKept, TableType
    <3> QED
      BY <1>6, <3>1 DEF Events, Request, QueuesKept
  <2>4. pushing' = pushing
    BY <2>1 DEF Arrive, mainVars
  <2> QED
    BY <1>4, <2>2, <2>3, <2>4
<1>7. CASE SetAwaiting
  <2>1. pushing \in Tasks /\ task[pushing] \in TaskType
    BY <1>7 DEF SetAwaiting, IInv, TypeOK
  <2>2. /\ task'[pushing].state = "awaiting" /\ task'[pushing].ref = task[pushing].ref
        /\ OnlyChanges(pushing)
    BY <1>7, <2>1 DEF SetAwaiting, OnlyChanges, TaskType, IInv, TypeOK
  <2>3. QueuesKept
    BY <1>7 DEF SetAwaiting, QueuesKept
  <2>4. ASSUME NEW t \in Tables, NEW k \in Woken(t)
        PROVE  Waits(k, t)'
    BY <1>3, <2>2, <2>4, WokenUse DEF Waits, OnlyChanges
  <2> QED
    BY <2>3, <2>4, QueueKept
<1>8. ASSUME NEW k \in Tasks,
             \/ ScanNew(k) \/ FreeLater(k) \/ Start(k)
             \/ Handler(k) /\ ~CompactWake(k)
      PROVE  QueuedTasksWait'
  <2>1. OnlyChanges(k)
    BY <1>8, ScanOnly DEF IInv
  <2>2. QueuesKept
    <3>1. CASE ScanNew(k) \/ FreeLater(k) \/ Start(k)
      BY <3>1 DEF ScanNew, FreeLater, Start, QueuesKept
    <3>2. CASE Handler(k) /\ ~CompactWake(k)
      BY <3>2, HandlerQueues
    <3> QED
      BY <1>8, <3>1, <3>2
  <2>3. pushing' = pushing
    BY <1>8 DEF ScanNew, FreeLater, Start, Handler, GuardMissing, GuardBlocked, GuardEnter,
       GuardEnd, CreateAdd, CreateExists, CreateFill, CreateBreak, DropRemove, DropBreak,
       CompactBlock, CompactAlone, CompactUnblock, CompactStageTwo, CompactEnd, Result, mainVars
  <2>4. \A t \in Tables : k \notin Woken(t)
    <3>1. CASE ScanNew(k)
      BY <1>3, <3>1, TablesAssumption DEF ScanNew, Waits
    <3>2. CASE ~ScanNew(k)
      <4>1. task[k].state \in {"ready", "running"}
        BY <1>8, <3>2, RefKnown DEF FreeLater, Start, Handler, GuardMissing, GuardBlocked,
           GuardEnter, GuardEnd, CreateAdd, CreateExists, CreateFill, CreateBreak,
           DropRemove, DropBreak, CompactBlock, CompactAlone, CompactUnblock, CompactStageTwo, CompactEnd, Result, At
      <4> QED
        BY <4>1, WokenUse
    <3> QED
      BY <3>1, <3>2
  <2>5. \A t \in Tables : \A h \in Woken(t) : task'[h] = task[h]
    BY <2>1, <2>4, WokenUse DEF OnlyChanges
  <2> QED
    BY <1>3, <2>2, <2>3, <2>5, QueueKept DEF Waits
<1>9. ASSUME NEW k \in Tasks, ScanReschedule(k)
      PROVE  QueuedTasksWait'
  <2>1. PICK t \in Tables : t = task[k].ref
    BY <1>9, RefKnown DEF ScanReschedule
  <2>2. \A u \in Tables : k \notin Woken(u)
    BY <1>3, <1>9, TablesAssumption DEF ScanReschedule, Waits
  <2>3. /\ table'[t].queue = Append(table[t].queue, k)
        /\ \A u \in Tables \ {t} : table'[u] = table[u]
    BY <1>1, <1>9, <2>1 DEF ScanReschedule, TableType
  <2>4. Woken(t)' = Woken(t) \cup {k}
    <3>1. PICK q \in Seq(Tasks) : q = table[t].queue
      BY <1>2
    <3>2. table'[t].queue = Append(q, k)
      BY <2>3, <3>1
    <3>3. DOMAIN Append(q, k) = 1 .. Len(q) + 1 /\ DOMAIN q = 1 .. Len(q)
      BY <3>1
    <3>4. /\ \A i \in 1 .. Len(q) : Append(q, k)[i] = q[i]
          /\ Append(q, k)[Len(q) + 1] = k
      BY <3>1
    <3>5. Len(q) \in Nat
      BY <3>1
    <3>6. {Append(q, k)[i] : i \in 1 .. Len(q) + 1} = {q[i] : i \in 1 .. Len(q)} \cup {k}
      BY <3>4, <3>5
    <3> QED
      BY <3>1, <3>2, <3>3, <3>6 DEF Woken
  <2>5. Distinct(table'[t].queue)
    BY <1>2, <1>3, <2>2, <2>3 DEF Woken, Distinct
  <2>6. \A u \in Tables \ {t} : Woken(u)' = Woken(u)
    BY <2>3 DEF Woken
  <2>7. task' = task /\ pushing = None /\ pushing' = k
    BY <1>9 DEF ScanReschedule
  <2>8. \A u \in Tables : \A h \in Woken(u) : Waits(h, u)'
    BY <1>3, <2>7, WokenUse, TablesAssumption DEF Waits
  <2>9. Waits(k, t)'
    BY <2>1, <2>7 DEF Waits
  <2> QED
    BY <1>3, <2>3, <2>4, <2>5, <2>6, <2>8, <2>9, QueueForm
<1>10. ASSUME NEW k \in Tasks, Complete(k)
       PROVE  QueuedTasksWait'
  <2>1. task[k].state = "completed" /\ pushing' = pushing
    BY <1>10, RefKnown DEF Complete
  <2>2. CASE CreateSucceeded(k)
    <3>1. PICK t \in Tables : t = task[k].ref
      BY <1>10, <2>2, RefKnown DEF Complete, CreateSucceeded
    <3>2. table'[t].queue = <<>> /\ \A u \in Tables \ {t} : table'[u] = table[u]
      BY <1>1, <2>2, <3>1 DEF CreateSucceeded, TableType
    <3>3. \A u \in Tables : k \notin Woken(u)
      BY <2>1, WokenUse
    <3>4. ASSUME NEW u \in Tables \ {t}, NEW h \in Woken(u), h \notin Woken(t)
          PROVE  task'[h] = task[h]
      <4>1. h \in Tasks \ {k}
        BY <3>3, WokenUse
      <4> QED
        BY <1>10, <2>2, <3>1, <3>4, <4>1, CompletionTasks
    <3> QED
      BY <2>1, <3>2, <3>4, QueueEmptied
  <2>3. CASE ~CreateSucceeded(k)
    <3>1. QueuesKept
      <4>1. CASE CompactDone(k)
        BY <1>1, <4>1 DEF CompactDone, QueuesKept, TableType
      <4> QED
        BY <1>10, <2>3, <4>1 DEF Complete, TableDone, OtherDone, QueuesKept
    <3>2. ASSUME NEW u \in Tables, NEW h \in Woken(u)
          PROVE  task'[h] = task[h]
      <4>1. h \in Tasks \ {k} /\ task[h].state # "none"
        BY <2>1, <3>2, WokenUse
      <4>2. CASE TableDone(k) /\ FreeHandles # {}
        BY <1>10, <4>1, <4>2, CompletionTasks
      <4>3. CASE OnlyChanges(k)
        BY <4>1, <4>3 DEF OnlyChanges
      <4> QED
        BY <1>10, <2>3, <4>2, <4>3, CompletionTasks DEF Complete
    <3> QED
      BY <1>3, <2>1, <3>1, <3>2, QueueKept DEF Waits
  <2> QED
    BY <2>2, <2>3
<1>11. ASSUME NEW k \in Tasks, FreeRun(k)
       PROVE  QueuedTasksWait'
  <2>1. PICK t \in Tables : t = task[k].ref
    BY <1>11, RefKnown DEF FreeRun
  <2>2. table'[t].queue = <<>> /\ \A u \in Tables \ {t} : table'[u] = table[u]
    BY <1>1, <1>11, <2>1 DEF FreeRun, TableType
  <2>3. \A u \in Tables : k \notin Woken(u)
    BY <1>11, RefKnown, WokenUse DEF FreeRun
  <2>4. ASSUME NEW u \in Tables \ {t}, NEW h \in Woken(u), h \notin Woken(t)
        PROVE  task'[h] = task[h]
    <3>1. h \in Tasks \ {k}
      BY <2>3, WokenUse
    <3> QED
      BY <1>11, <2>1, <2>4, <3>1, FreeRunTasks
  <2>5. pushing' = pushing
    BY <1>11 DEF FreeRun
  <2> QED
    BY <2>2, <2>4, <2>5, QueueEmptied
<1>12. ASSUME NEW k \in Tasks, CompactWake(k)
       PROVE  QueuedTasksWait'
  <2>1. PICK t \in Tables : t = task[k].ref
    BY <1>12, RefKnown DEF CompactWake
  <2>2. PICK h \in Woken(t) :
           /\ h = table[t].queue[1] /\ h \in Tasks
           /\ task'[h] = [task[h] EXCEPT !.state = "new"] /\ OnlyChanges(h)
    BY <1>12, <2>1, WakeOne
  <2>3. /\ table[t].queue # <<>> /\ table'[t].queue = Tail(table[t].queue)
        /\ \A u \in Tables \ {t} : table'[u] = table[u]
    BY <1>1, <1>12, <2>1 DEF CompactWake, TableType
  <2>4. Woken(t)' \subseteq Woken(t) \ {h} /\ Distinct(table'[t].queue)
    BY <1>2, <1>3, <2>2, <2>3, TailDistinct DEF Woken
  <2>5. \A u \in Tables \ {t} : Woken(u)' = Woken(u)
    BY <2>3 DEF Woken
  <2>6. \A u \in Tables \ {t} : h \notin Woken(u)
    BY <2>2, WokenUse
  <2>7. pushing' = pushing
    BY <1>12 DEF CompactWake, mainVars
  <2>8. ASSUME NEW u \in Tables, NEW j \in Woken(u), j # h
        PROVE  Waits(j, u)'
    BY <1>3, <2>2, <2>7, <2>8, WokenUse DEF Waits, OnlyChanges
  <2> QED
    BY <1>3, <2>3, <2>4, <2>5, <2>6, <2>8, QueueForm
<1>13. CASE task' = task /\ table' = table /\ pushing' = pushing
  BY <1>5, <1>13 DEF QueuesKept
<1> QED
  BY <1>6, <1>7, <1>8, <1>9, <1>10, <1>11, <1>12, <1>13
  DEF Next, Main, UpdateBegin, ScanCompleted, ScanOther
-----------------------------------------------------------------------------
(* The life of a table.  But for an allocation and the FREE itself, a step *)
(* changes no table's life, makes no table appear under the name, takes no *)
(* claim, and lets a compaction begin for the registered table only.       *)
LivesKept == \A t \in Tables : table'[t].life = table[t].life

UsersKept == \A t \in Tables : table'[t].users \subseteq table[t].users \/ t = map

(* Where a step may find the table it writes down in a task.               *)
RefsKnown ==
    \A k \in Tasks : \/ task'[k].ref \in {None, map}
                     \/ \E j \in Tasks : task'[k].ref = task[j].ref

ClaimsKept ==
    \A k \in Tasks, t \in Tables \ broken' : Claim(task'[k], t) => Claim(task[k], t)

CompactionsKept ==
    \A k \in Tasks, t \in Tables :
       Compacts(task'[k], t) => Compacts(task[k], t) \/ t = map

BrokenKept ==
    /\ broken \subseteq broken'
    /\ \A t \in broken' : t \in broken \/ \E k \in Tasks : task[k].ref = t

Quiet ==
    /\ LivesKept /\ UsersKept /\ RefsKnown /\ ClaimsKept /\ CompactionsKept /\ BrokenKept
    /\ map' \in {map, None}

LEMMA UnusedQuiet ==
    ASSUME IInv, LivesKept, RefsKnown, BrokenKept, map' \in {map, None}
    PROVE  UnusedInv'
BY TablesAssumption DEF IInv, UnusedInv, LivesKept, RefsKnown, BrokenKept

LEMMA LifeQuiet ==
    ASSUME IInv, Quiet
    PROVE  LifeInv'
<1> SUFFICES ASSUME NEW t \in Tables \ broken'
             PROVE  /\ map' = t => /\ table'[t].life = "live"
                                   /\ \A k \in Tasks : ~Claim(task'[k], t)
                    /\ table'[t].life = "freed" =>
                          /\ map' # t /\ table'[t].users = {}
                          /\ \A k \in Tasks : ~Claim(task'[k], t)
                          /\ \A k \in Tasks : ~Compacts(task'[k], t)
                    /\ \A h, k \in Tasks : Claim(task'[h], t) /\ Claim(task'[k], t) => h = k
  BY DEF LifeInv, Compacts
<1>1. t \in Tables \ broken
  BY DEF Quiet, BrokenKept
<1>2. \A k \in Tasks : Claim(task'[k], t) => Claim(task[k], t)
  BY DEF Quiet, ClaimsKept
<1>3. table'[t].life = table[t].life
  BY DEF Quiet, LivesKept
<1>4. map' = t => map = t
  BY TablesAssumption DEF Quiet
<1>5. table[t].life = "freed" =>
         /\ map # t /\ table[t].users = {}
         /\ \A k \in Tasks : ~Claim(task[k], t) /\ ~Compacts(task[k], t)
  BY <1>1 DEF IInv, LifeInv, Compacts
<1>6. map = t => table[t].life = "live" /\ \A k \in Tasks : ~Claim(task[k], t)
  BY <1>1 DEF IInv, LifeInv
<1>7. \A h, k \in Tasks : Claim(task[h], t) /\ Claim(task[k], t) => h = k
  BY <1>1 DEF IInv, LifeInv
<1>8. table'[t].life = "freed" =>
         /\ map' # t /\ table'[t].users = {}
         /\ \A k \in Tasks : ~Claim(task'[k], t)
         /\ \A k \in Tasks : ~Compacts(task'[k], t)
  BY <1>2, <1>3, <1>4, <1>5, TablesAssumption DEF Quiet, UsersKept, CompactionsKept
<1>9. map' = t => table'[t].life = "live" /\ \A k \in Tasks : ~Claim(task'[k], t)
  BY <1>2, <1>3, <1>4, <1>6
<1> QED
  BY <1>2, <1>7, <1>8, <1>9

(* The steps that are quiet: those of the main loop but for the FREE.      *)
LEMMA QuietTask ==
    ASSUME NEW k \in Tasks, OnlyChanges(k),
           task'[k].ref \in {None, map} \/ \E j \in Tasks : task'[k].ref = task[j].ref,
           \A t \in Tables \ broken' : Claim(task'[k], t) => Claim(task[k], t),
           \A t \in Tables : Compacts(task'[k], t) => Compacts(task[k], t) \/ t = map
    PROVE  RefsKnown /\ ClaimsKept /\ CompactionsKept
BY DEF OnlyChanges, RefsKnown, ClaimsKept, CompactionsKept

LEMMA QuietTable ==
    ASSUME table' = table
    PROVE  LivesKept /\ UsersKept
BY DEF LivesKept, UsersKept

LEMMA QuietEvents ==
    ASSUME IInv, Events
    PROVE  Quiet
<1>1. PICK kind \in Kinds, t \in Tables \cup {None} :
         /\ kind # "free" /\ CanArrive /\ Arrive(kind, t)
         /\ kind \in {"free", "compact"} <=> t # None
         /\ t \in {None, map}
  <2>1. ASSUME NEW kind \in {"create", "drop", "use"}, Request(kind)
        PROVE  kind \in Kinds /\ CanArrive /\ Arrive(kind, None)
    BY <2>1 DEF Request, Kinds
  <2>2. ASSUME NEW u \in Tables, CompactTick(u)
        PROVE  map \in Tables /\ map # None /\ CanArrive /\ Arrive("compact", map)
    BY <2>2 DEF CompactTick, IInv, TypeOK
  <2> QED
    BY <2>1, <2>2 DEF Events, Kinds
<1>2. /\ OnlyChanges(NextHandle) /\ NextHandle \in Tasks
      /\ task'[NextHandle] = NewTask(kind, t)
  BY <1>1, Arrival
<1>3. /\ NewTask(kind, t).ref = t /\ NewTask(kind, t).kind = kind
      /\ NewTask(kind, t).err = "none"
  BY DEF NewTask, NoTask
<1>4. RefsKnown /\ ClaimsKept /\ CompactionsKept
  BY <1>1, <1>2, <1>3, QuietTask, TablesAssumption DEF Claim, Compacts
<1>5. LivesKept /\ UsersKept
  <2>1. ASSUME NEW u \in Tables, CompactTick(u)
        PROVE  LivesKept /\ UsersKept
    BY <2>1 DEF CompactTick, LivesKept, UsersKept, IInv, TypeOK, TableType
  <2> QED
    BY <1>1, <2>1, QuietTable DEF Request, Events
<1>6. map' = map /\ broken' = broken
  BY <1>1 DEF Arrive
<1> QED
  BY <1>4, <1>5, <1>6 DEF Quiet, BrokenKept

LEMMA QuietScan ==
    ASSUME IInv, NEW k \in Tasks,
           \/ UpdateBegin \/ SetAwaiting \/ ScanNew(k) \/ ScanReschedule(k)
           \/ ScanCompleted(k) \/ ScanOther(k) \/ FreeLater(k) \/ Start(k)
    PROVE  Quiet
<1>1. task \in [Tasks -> TaskType] /\ task[k] \in TaskType /\ TaskInv(task[k])
  BY DEF IInv, TypeOK
<1>2. map' = map /\ broken' = broken
  BY DEF UpdateBegin, SetAwaiting, ScanNew, ScanReschedule, ScanCompleted, ScanOther,
     FreeLater, Start
<1>3. LivesKept /\ UsersKept
  <2>1. CASE ScanReschedule(k)
    BY <2>1 DEF ScanReschedule, LivesKept, UsersKept, IInv, TypeOK, TableType
  <2> QED
    BY <2>1, QuietTable DEF UpdateBegin, SetAwaiting, ScanNew, ScanCompleted, ScanOther,
       FreeLater, Start
<1>4. RefsKnown /\ ClaimsKept /\ CompactionsKept
  <2>1. CASE task' = task
    BY <2>1 DEF RefsKnown, ClaimsKept, CompactionsKept
  <2>2. CASE SetAwaiting
    <3>1. pushing \in Tasks /\ task[pushing].kind = "use" /\ task[pushing] \in TaskType
      BY <2>2 DEF SetAwaiting, IInv, TypeOK, ListsInv
    <3>2. /\ OnlyChanges(pushing) /\ task'[pushing].ref = task[pushing].ref
          /\ task'[pushing].kind = "use"
      BY <1>1, <2>2, <3>1 DEF SetAwaiting, OnlyChanges, TaskType
    <3> QED
      BY <3>1, <3>2, QuietTask DEF Claim, Compacts
  <2>3. ASSUME ScanNew(k) \/ FreeLater(k) \/ Start(k)
        PROVE  RefsKnown /\ ClaimsKept /\ CompactionsKept
    <3>1. OnlyChanges(k)
      BY <2>3, ScanOnly DEF IInv
    <3>2. task'[k].ref = task[k].ref /\ task'[k].kind = task[k].kind
      BY <1>1, <2>3 DEF ScanNew, FreeLater, Start, TaskType
    <3>3. task[k].state \in {"new", "ready"} /\ (Start(k) => task[k].kind # "free")
      BY <2>3, RefKnown DEF ScanNew, FreeLater, Start
    <3>4. task[k].kind \in {"create", "drop"} => task[k].ref = None
      BY <1>1, <3>3 DEF TaskInv
    <3> QED
      BY <3>1, <3>2, <3>3, <3>4, QuietTask, TablesAssumption DEF Claim, Compacts
  <2> QED
    BY <2>1, <2>2, <2>3 DEF UpdateBegin, ScanReschedule, ScanCompleted, ScanOther
<1> QED
  BY <1>2, <1>3, <1>4 DEF Quiet, BrokenKept

LEMMA QuietHandler ==
    ASSUME IInv, NEW k \in Tasks, Handler(k),
           ~CreateAdd(k), ~CreateExists(k), ~DropRemove(k), ~DropBreak(k)
    PROVE  Quiet
<1>1. task \in [Tasks -> TaskType] /\ task[k] \in TaskType /\ TaskInv(task[k])
  BY DEF IInv, TypeOK
<1>2. table \in [Tables -> TableType] /\ \A t \in Tables : table[t] \in TableType
  BY DEF IInv, TypeOK
<1>3. CASE GuardMissing(k) \/ GuardBlocked(k) \/ GuardEnter(k) \/ GuardEnd(k)
  <2>1. task'[k].kind = "use" /\ OnlyChanges(k)
    BY <1>3, HandlerInv, ScanOnly, RefKnown
    DEF Handler, CompactWake, GuardMissing, GuardBlocked, GuardEnter, GuardEnd, At, IInv
  <2>2. task'[k].ref \in {None, map, task[k].ref}
    BY <1>1, <1>3 DEF GuardMissing, GuardBlocked, GuardEnter, GuardEnd, Goto, TaskType
  <2>3. LivesKept /\ UsersKept
    <3>1. CASE GuardEnter(k)
      BY <1>2, <3>1 DEF GuardEnter, LivesKept, UsersKept, TableType
    <3>2. CASE GuardEnd(k)
      BY <1>2, <3>2 DEF GuardEnd, LivesKept, UsersKept, TableType
    <3> QED
      BY <1>3, <3>1, <3>2, QuietTable DEF GuardMissing, GuardBlocked
  <2>4. map' = map /\ broken' = broken
    BY <1>3 DEF GuardMissing, GuardBlocked, GuardEnter, GuardEnd
  <2> QED
    BY <2>1, <2>2, <2>3, <2>4, QuietTask DEF Quiet, BrokenKept, Claim, Compacts
<1>4. CASE CreateFill(k) \/ CreateBreak(k)
  <2>1. task[k].kind = "create" /\ task[k].ref \in Tables
    BY <1>4, RefKnown DEF CreateFill, CreateBreak
  <2>2. task'[k].kind = "create" /\ OnlyChanges(k) /\ task'[k].ref = task[k].ref
    BY <1>1, <1>4, <2>1
    DEF CreateFill, CreateBreak, Goto, TaskType, OnlyChanges
  <2>3. map' = map /\ LivesKept /\ UsersKept
    BY <1>4, QuietTable DEF CreateFill, CreateBreak
  <2>4. BrokenKept
    BY <1>4 DEF CreateFill, CreateBreak, BrokenKept
  <2>5. task'[k].err = "none" \/ task[k].ref \in broken'
    BY <1>1, <1>4 DEF CreateFill, CreateBreak, Goto, TaskType
  <2> QED
    BY <2>2, <2>3, <2>4, <2>5, QuietTask DEF Quiet, Claim, Compacts
<1>5. CASE \/ CompactBlock(k) \/ CompactAlone(k) \/ CompactUnblock(k)
           \/ CompactStageTwo(k) \/ CompactEnd(k)
  <2>1. task[k].kind = "compact" /\ ~CompactWake(k)
    BY <1>5, RefKnown DEF CompactBlock, CompactAlone, CompactUnblock, CompactStageTwo,
       CompactEnd, CompactWake, At
  <2>2. KindsKept /\ OnlyChanges(k)
    BY <2>1, ScanOnly, HandlerKinds DEF IInv
  <2>3. LivesKept /\ UsersKept
    <3>1. CASE CompactBlock(k)
      BY <1>2, <3>1 DEF CompactBlock, LivesKept, UsersKept, TableType
    <3>2. CASE CompactUnblock(k)
      BY <1>2, <3>2 DEF CompactUnblock, LivesKept, UsersKept, TableType
    <3> QED
      BY <1>5, <3>1, <3>2, QuietTable DEF CompactAlone, CompactStageTwo, CompactEnd
  <2>4. map' = map /\ broken' = broken
    BY <1>5 DEF CompactBlock, CompactAlone, CompactUnblock, CompactStageTwo, CompactEnd
  <2> QED
    BY <2>1, <2>2, <2>3, <2>4, QuietTask DEF Quiet, BrokenKept, Claim, Compacts, KindsKept
<1>6. CASE Result(k)
  <2>1. /\ OnlyChanges(k) /\ task'[k].kind = task[k].kind /\ task'[k].ref = task[k].ref
        /\ task'[k].err = task[k].err
    BY <1>1, <1>6 DEF Result, OnlyChanges, TaskType
  <2>2. task[k].kind # "free"
    BY <1>1, <1>6 DEF Result, At, TaskInv, PcOf
  <2>3. LivesKept /\ UsersKept /\ map' = map /\ broken' = broken
    BY <1>6, QuietTable DEF Result
  <2> QED
    BY <2>1, <2>2, <2>3, QuietTask DEF Quiet, BrokenKept, Claim, Compacts
<1>7. CASE CompactWake(k)
  <2>1. task[k].ref \in Tables
    BY <1>7, RefKnown DEF CompactWake
  <2>2. PICK h \in Woken(task[k].ref) :
           h \in Tasks /\ task'[h] = [task[h] EXCEPT !.state = "new"] /\ OnlyChanges(h)
    BY <1>7, WakeOne
  <2>3. task'[h].kind = "use" /\ task'[h].ref = task[h].ref
    BY <2>1, <2>2, WokenKept
  <2>4. LivesKept /\ UsersKept
    BY <1>2, <1>7 DEF CompactWake, LivesKept, UsersKept, TableType
  <2>5. map' = map /\ broken' = broken
    BY <1>7 DEF CompactWake
  <2> QED
    BY <2>2, <2>3, <2>4, <2>5, QuietTask DEF Quiet, BrokenKept, Claim, Compacts
<1> QED
  BY <1>3, <1>4, <1>5, <1>6, <1>7 DEF Handler


(* A completion is quiet but for a claim that passes to a new FREE.        *)
LEMMA QuietCompletion ==
    ASSUME IInv, NEW k \in Tasks, Complete(k)
    PROVE  /\ LivesKept /\ UsersKept /\ RefsKnown /\ CompactionsKept
           /\ map' = map /\ broken' = broken
           /\ ~(TableDone(k) /\ FreeHandles # {}) => ClaimsKept
<1>1. table \in [Tables -> TableType] /\ \A t \in Tables : table[t] \in TableType
  BY DEF IInv, TypeOK
<1>2. map' = map /\ broken' = broken
  BY DEF Complete
<1>3. LivesKept /\ UsersKept
  <2>1. CASE CreateSucceeded(k)
    BY <1>1, <2>1 DEF CreateSucceeded, LivesKept, UsersKept, TableType
  <2>2. CASE CompactDone(k)
    BY <1>1, <2>2 DEF CompactDone, LivesKept, UsersKept, TableType
  <2> QED
    BY <2>1, <2>2, QuietTable DEF Complete, TableDone, OtherDone
<1>4. task'[k] = NoTask /\ NoTask.kind = "none" /\ NoTask.ref = None
  BY CompletionTasks DEF NoTask
<1>5. CASE CreateSucceeded(k)
  <2>1. task[k].ref \in Tables
    BY <1>5, RefKnown DEF Complete, CreateSucceeded
  <2>2. ASSUME NEW j \in Tasks \ {k}
        PROVE  \/ task'[j] = task[j]
               \/ task'[j].ref = task[j].ref /\ task'[j].kind = "use"
    <3>1. CASE j \in Woken(task[k].ref)
      <4>1. task'[j] = [task[j] EXCEPT !.state = "new"]
        BY <1>5, <3>1, CompletionTasks
      <4> QED
        BY <2>1, <3>1, <4>1, WokenKept
    <3> QED
      BY <1>5, <3>1, CompletionTasks
  <2>3. RefsKnown
    BY <1>4, <2>2 DEF RefsKnown
  <2>4. ClaimsKept /\ CompactionsKept
    BY <1>4, <2>2, TablesAssumption DEF ClaimsKept, CompactionsKept, Claim, Compacts
  <2> QED
    BY <1>2, <1>3, <2>3, <2>4
<1>6. CASE TableDone(k) /\ FreeHandles # {}
  <2>1. /\ NextHandle \in Tasks \ {k}
        /\ task'[NextHandle] = NewTask("free", task[k].ref)
        /\ \A j \in Tasks \ {k, NextHandle} : task'[j] = task[j]
    BY <1>6, CompletionTasks
  <2>2. NewTask("free", task[k].ref).ref = task[k].ref
        /\ NewTask("free", task[k].ref).kind = "free"
    BY DEF NewTask, NoTask
  <2>3. RefsKnown
    BY <1>4, <2>1, <2>2 DEF RefsKnown
  <2>4. CompactionsKept
    BY <1>4, <2>1, <2>2 DEF CompactionsKept, Compacts
  <2> QED
    BY <1>2, <1>3, <1>6, <2>3, <2>4
<1>7. CASE OnlyChanges(k)
  BY <1>2, <1>3, <1>4, <1>7, QuietTask, TablesAssumption DEF Claim, Compacts
<1> QED
  BY <1>5, <1>6, <1>7, CompletionTasks DEF Complete

LEMMA FreedNext ==
    ASSUME IInv, NEW k \in Tasks, Complete(k), TableDone(k), FreeHandles # {}
    PROVE  LifeInv'
<1>1. PICK d \in Tables : d = task[k].ref
  BY RefKnown DEF Complete, TableDone
<1>2. LivesKept /\ UsersKept /\ CompactionsKept /\ map' = map /\ broken' = broken
  BY QuietCompletion
<1>3. /\ NextHandle \in Tasks \ {k}
      /\ task'[NextHandle] = NewTask("free", d)
      /\ \A j \in Tasks \ {k, NextHandle} : task'[j] = task[j]
      /\ task'[k] = NoTask
  BY <1>1, CompletionTasks
<1>4. PICK n \in Tasks : n = NextHandle
  BY <1>3
<1>5. /\ NewTask("free", d).ref = d /\ NoTask.kind = "none"
  BY DEF NewTask, NoTask
<1>6. Claim(task[k], d)
  BY <1>1 DEF TableDone, Claim
<1>7. \A j \in Tasks, t \in Tables : Claim(task'[j], t) =>
         \/ j # n /\ j # k /\ Claim(task[j], t)
         \/ j = n /\ t = d
  BY <1>3, <1>4, <1>5 DEF Claim
<1> SUFFICES ASSUME NEW t \in Tables \ broken
             PROVE  /\ map = t => /\ table'[t].life = "live"
                                  /\ \A j \in Tasks : ~Claim(task'[j], t)
                    /\ table'[t].life = "freed" =>
                          /\ map # t /\ table'[t].users = {}
                          /\ \A j \in Tasks : ~Claim(task'[j], t)
                          /\ \A j \in Tasks : ~Compacts(task'[j], t)
                    /\ \A h, j \in Tasks : Claim(task'[h], t) /\ Claim(task'[j], t) => h = j
  BY <1>2 DEF LifeInv, Compacts
<1>8. /\ map = t => table[t].life = "live" /\ \A j \in Tasks : ~Claim(task[j], t)
      /\ table[t].life = "freed" =>
            /\ map # t /\ table[t].users = {}
            /\ \A j \in Tasks : ~Claim(task[j], t) /\ ~Compacts(task[j], t)
      /\ \A h, j \in Tasks : Claim(task[h], t) /\ Claim(task[j], t) => h = j
  BY DEF IInv, LifeInv, Compacts
<1>9. \/ t # d /\ \A j \in Tasks : Claim(task'[j], t) => Claim(task[j], t)
      \/ t = d /\ \A j \in Tasks : Claim(task'[j], t) => j = n
  BY <1>6, <1>7, <1>8
<1>10. /\ map = t => t # d
       /\ table[t].life = "freed" => t # d
  BY <1>6, <1>8
<1>11. table'[t].life = table[t].life
  BY <1>2 DEF LivesKept
<1>12. table[t].life = "freed" =>
          table'[t].users = {} /\ \A j \in Tasks : ~Compacts(task'[j], t)
  BY <1>2, <1>8 DEF UsersKept, CompactionsKept
<1> QED
  BY <1>8, <1>9, <1>10, <1>11, <1>12

(* TASK_MT_FREE itself.                                                    *)
LEMMA FreeRunNext ==
    ASSUME IInv, NEW k \in Tasks, FreeRun(k)
    PROVE  UnusedInv' /\ LifeInv'
<1>1. PICK d \in Tables : d = task[k].ref
  BY RefKnown DEF FreeRun
<1>2. task[k].kind = "free" /\ task[k].state = "ready"
  BY RefKnown DEF FreeRun
<1>3. /\ table'[d].life = "freed" /\ table'[d].users = {}
      /\ \A t \in Tables \ {d} : table'[t] = table[t]
  BY <1>1 DEF FreeRun, IInv, TypeOK, TableType
<1>4. map' = map /\ broken' = broken
  BY DEF FreeRun
<1>5. \A j \in Tasks \ {k} : \/ task'[j] = task[j]
                             \/ task'[j].ref = task[j].ref /\ task'[j].kind = "use"
  <2> TAKE j \in Tasks \ {k}
  <2>1. CASE j \in Woken(d)
    <3>1. task'[j] = [task[j] EXCEPT !.state = "new"]
      BY <1>1, <2>1, FreeRunTasks
    <3> QED
      BY <2>1, <3>1, WokenKept
  <2> QED
    BY <1>1, <2>1, FreeRunTasks
<1>6. task'[k].ref = task[k].ref /\ task'[k].kind = "free" /\ task'[k].state = "completed"
  BY FreeRunTasks
<1>7. UnusedInv'
  <2>1. \A j \in Tasks : task'[j].ref = task[j].ref
    BY <1>5, <1>6
  <2> QED
    BY <1>3, <1>4, <2>1 DEF IInv, UnusedInv
<1>8. Claim(task[k], d)
  BY <1>1, <1>2 DEF Claim
<1>9. \A j \in Tasks, t \in Tables :
         /\ Claim(task'[j], t) => j # k /\ Claim(task[j], t)
         /\ Compacts(task'[j], t) => Compacts(task[j], t)
  BY <1>5, <1>6 DEF Claim, Compacts
<1>10. \A j \in Tasks : ~Compacts(task[j], d)
  <2>1. ~table[d].compacting
    BY <1>1 DEF FreeRun
  <2> QED
    BY <2>1 DEF IInv, CompactingExact, CompactionsOf, Compacts
<1>11. LifeInv'
  <2> SUFFICES ASSUME NEW t \in Tables \ broken
               PROVE  /\ map = t => /\ table'[t].life = "live"
                                    /\ \A j \in Tasks : ~Claim(task'[j], t)
                      /\ table'[t].life = "freed" =>
                            /\ map # t /\ table'[t].users = {}
                            /\ \A j \in Tasks : ~Claim(task'[j], t)
                            /\ \A j \in Tasks : ~Compacts(task'[j], t)
                      /\ \A h, j \in Tasks :
                            Claim(task'[h], t) /\ Claim(task'[j], t) => h = j
    BY <1>4 DEF LifeInv, Compacts
  <2>1. /\ map = t => table[t].life = "live" /\ \A j \in Tasks : ~Claim(task[j], t)
        /\ table[t].life = "freed" =>
              /\ map # t /\ table[t].users = {}
              /\ \A j \in Tasks : ~Claim(task[j], t) /\ ~Compacts(task[j], t)
        /\ \A h, j \in Tasks : Claim(task[h], t) /\ Claim(task[j], t) => h = j
    BY DEF IInv, LifeInv, Compacts
  <2>2. CASE t = d
    <3>1. map # t
      BY <1>8, <2>1, <2>2
    <3>2. ASSUME NEW j \in Tasks, Claim(task'[j], t)
          PROVE  FALSE
      <4>1. j # k /\ Claim(task[j], t)
        BY <1>9, <3>2
      <4>2. Claim(task[k], t)
        BY <1>8, <2>2
      <4> QED
        BY <2>1, <4>1, <4>2
    <3>3. ASSUME NEW j \in Tasks, Compacts(task'[j], t)
          PROVE  FALSE
      <4>1. Compacts(task[j], t)
        BY <1>9, <3>3
      <4> QED
        BY <1>10, <2>2, <4>1
    <3>4. table'[t].users = {}
      BY <1>3, <2>2
    <3> QED
      BY <3>1, <3>2, <3>3, <3>4
  <2>3. CASE t # d
    <3>1. table'[t] = table[t]
      BY <1>3, <2>3
    <3>2. \A j \in Tasks :
             /\ Claim(task'[j], t) => Claim(task[j], t)
             /\ Compacts(task'[j], t) => Compacts(task[j], t)
      BY <1>9
    <3> QED
      <4>1. map = t => table'[t].life = "live" /\ \A j \in Tasks : ~Claim(task'[j], t)
        BY <2>1, <3>1, <3>2
      <4>2. table'[t].life = "freed" =>
               /\ map # t /\ table'[t].users = {}
               /\ \A j \in Tasks : ~Claim(task'[j], t)
               /\ \A j \in Tasks : ~Compacts(task'[j], t)
        BY <2>1, <3>1, <3>2
      <4>3. \A h, j \in Tasks : Claim(task'[h], t) /\ Claim(task'[j], t) => h = j
        BY <2>1, <3>2
      <4> QED
        BY <4>1, <4>2, <4>3
  <2> QED
    BY <2>2, <2>3
<1> QED
  BY <1>7, <1>11

(* CREATE's table_t, whether it gets into tablesMap or not.                *)
LEMMA CreateNext ==
    ASSUME IInv, NEW k \in Tasks, CreateAdd(k) \/ CreateExists(k)
    PROVE  UnusedInv' /\ LifeInv'
<1>1. PICK n \in Tables :
         /\ table[n].life = "unused"
         /\ table' = [table EXCEPT ![n].life = "live", ![n].blocked = TRUE]
         /\ \/ CreateAdd(k) /\ map = None /\ map' = n /\ Goto(k, "fill", n, "none")
            \/ CreateExists(k) /\ map' = map /\ Goto(k, "result", n, "generic")
  BY DEF CreateAdd, CreateExists
<1>2. /\ map # n /\ n \notin broken /\ \A j \in Tasks : task[j].ref # n
  BY <1>1 DEF IInv, UnusedInv
<1>3. broken' = broken
  BY DEF CreateAdd, CreateExists
<1>4. task[k].kind = "create" /\ task[k] \in TaskType /\ OnlyChanges(k)
  BY <1>1, RefKnown DEF CreateAdd, CreateExists, IInv, TypeOK, OnlyChanges, Goto
<1>5. /\ task'[k].kind = "create" /\ task'[k].ref = n
      /\ map' = map \/ task'[k].err = "none"
  BY <1>1, <1>4 DEF Goto, TaskType, IInv, TypeOK
<1>6. table'[n].life = "live" /\ \A t \in Tables \ {n} : table'[t] = table[t]
  BY <1>1 DEF IInv, TypeOK, TableType
<1>7. \A t \in Tables \ {n} : map' = t => map = t
  BY <1>1
<1>8. UnusedInv'
  BY <1>3, <1>4, <1>5, <1>6, <1>7 DEF IInv, UnusedInv, OnlyChanges
<1>9. \A j \in Tasks, t \in Tables \ {n} :
         /\ Claim(task'[j], t) => Claim(task[j], t)
         /\ Compacts(task'[j], t) => Compacts(task[j], t)
  BY <1>4, <1>5 DEF OnlyChanges, Claim, Compacts
<1>10. \A j \in Tasks : Claim(task'[j], n) => j = k /\ map' = map
  BY <1>2, <1>4, <1>5 DEF OnlyChanges, Claim
<1>11. LifeInv'
  <2> SUFFICES ASSUME NEW t \in Tables \ broken
               PROVE  /\ map' = t => /\ table'[t].life = "live"
                                     /\ \A j \in Tasks : ~Claim(task'[j], t)
                      /\ table'[t].life = "freed" =>
                            /\ map' # t /\ table'[t].users = {}
                            /\ \A j \in Tasks : ~Claim(task'[j], t)
                            /\ \A j \in Tasks : ~Compacts(task'[j], t)
                      /\ \A h, j \in Tasks :
                            Claim(task'[h], t) /\ Claim(task'[j], t) => h = j
    BY <1>3 DEF LifeInv, Compacts
  <2>1. /\ map = t => table[t].life = "live" /\ \A j \in Tasks : ~Claim(task[j], t)
        /\ table[t].life = "freed" =>
              /\ map # t /\ table[t].users = {}
              /\ \A j \in Tasks : ~Claim(task[j], t) /\ ~Compacts(task[j], t)
        /\ \A h, j \in Tasks : Claim(task[h], t) /\ Claim(task[j], t) => h = j
    BY DEF IInv, LifeInv, Compacts
  <2>2. CASE t = n
    BY <1>2, <1>6, <1>10, <2>2
  <2>3. CASE t # n
    BY <1>6, <1>7, <1>9, <2>1, <2>3
  <2> QED
    BY <2>2, <2>3
<1> QED
  BY <1>8, <1>11

(* DROP takes the table out of tablesMap, and the claim with it.           *)
LEMMA DropNext ==
    ASSUME IInv, NEW k \in Tasks, DropRemove(k) \/ DropBreak(k)
    PROVE  UnusedInv' /\ LifeInv'
<1>1. task[k].kind = "drop" /\ task[k] \in TaskType /\ OnlyChanges(k)
  BY RefKnown DEF DropRemove, DropBreak, IInv, TypeOK, OnlyChanges, Goto
<1>2. task'[k].kind = "drop" /\ task'[k].ref = map
  BY <1>1 DEF DropRemove, DropBreak, Goto, TaskType, IInv, TypeOK
<1>3. map' = None /\ table' = table /\ broken' = broken
  BY DEF DropRemove, DropBreak
<1>4. UnusedInv'
  BY <1>1, <1>2, <1>3, TablesAssumption DEF IInv, UnusedInv, OnlyChanges
<1>5. \A j \in Tasks, t \in Tables :
         /\ Claim(task'[j], t) => Claim(task[j], t) \/ (j = k /\ t = map)
         /\ Compacts(task'[j], t) => Compacts(task[j], t)
  <2> TAKE j \in Tasks, t \in Tables
  <2>1. CASE j = k
    BY <1>2, <2>1 DEF Claim, Compacts
  <2>2. CASE j # k
    BY <1>1, <2>2 DEF OnlyChanges
  <2> QED
    BY <2>1, <2>2
<1>6. LifeInv'
  <2> SUFFICES ASSUME NEW t \in Tables \ broken
               PROVE  /\ table[t].life = "freed" =>
                            /\ table[t].users = {}
                            /\ \A j \in Tasks : ~Claim(task'[j], t)
                            /\ \A j \in Tasks : ~Compacts(task'[j], t)
                      /\ \A h, j \in Tasks :
                            Claim(task'[h], t) /\ Claim(task'[j], t) => h = j
    BY <1>3, TablesAssumption DEF LifeInv, Compacts
  <2>1. /\ map = t => table[t].life = "live" /\ \A j \in Tasks : ~Claim(task[j], t)
        /\ table[t].life = "freed" =>
              /\ map # t /\ table[t].users = {}
              /\ \A j \in Tasks : ~Claim(task[j], t) /\ ~Compacts(task[j], t)
        /\ \A h, j \in Tasks : Claim(task[h], t) /\ Claim(task[j], t) => h = j
    BY DEF IInv, LifeInv, Compacts
  <2> QED
    BY <1>5, <2>1
<1> QED
  BY <1>4, <1>6

LEMMA LifeNext ==
    ASSUME IInv, Next
    PROVE  UnusedInv' /\ LifeInv'
<1>1. Quiet => UnusedInv' /\ LifeInv'
  BY UnusedQuiet, LifeQuiet DEF Quiet
<1>2. CASE Events
  BY <1>1, <1>2, QuietEvents
<1>3. CASE Main
  <2>1. ASSUME NEW k \in Tasks, Complete(k)
        PROVE  UnusedInv' /\ LifeInv'
    <3>1. /\ LivesKept /\ UsersKept /\ RefsKnown /\ CompactionsKept
          /\ map' = map /\ broken' = broken
          /\ ~(TableDone(k) /\ FreeHandles # {}) => ClaimsKept
      BY <2>1, QuietCompletion
    <3>2. BrokenKept
      BY <3>1 DEF BrokenKept
    <3>3. CASE TableDone(k) /\ FreeHandles # {}
      BY <2>1, <3>1, <3>2, <3>3, UnusedQuiet, FreedNext
    <3>4. CASE ~(TableDone(k) /\ FreeHandles # {})
      BY <1>1, <3>1, <3>2, <3>4 DEF Quiet
    <3> QED
      BY <3>3, <3>4
  <2>2. ASSUME NEW k \in Tasks, FreeRun(k)
        PROVE  UnusedInv' /\ LifeInv'
    BY <2>2, FreeRunNext
  <2>3. PICK k \in Tasks : TRUE
    <3>1. CASE UpdateBegin
      BY <3>1 DEF UpdateBegin, FreeHandles
    <3>2. CASE SetAwaiting
      BY <3>2 DEF SetAwaiting, IInv, TypeOK
    <3> QED
      BY <1>3, <3>1, <3>2 DEF Main
  <2> QED
    BY <1>1, <1>3, <2>1, <2>2, <2>3, QuietScan DEF Main
<1>4. ASSUME NEW k \in Tasks, Start(k) \/ Handler(k)
      PROVE  UnusedInv' /\ LifeInv'
  BY <1>1, <1>4, QuietScan, QuietHandler, CreateNext, DropNext
<1> QED
  BY <1>2, <1>3, <1>4 DEF Next
-----------------------------------------------------------------------------
(* Blocked tables.  A table that a step leaves blocked and to be found     *)
(* either gets an owner by the step or was so before, with its owners.     *)
OwnersKept ==
    /\ broken \subseteq broken'
    /\ \A t \in Tables \ broken' : Found(t)' /\ table'[t].blocked =>
          \/ \E k \in Tasks : Owns(task'[k], t)
          \/ /\ Found(t) /\ table[t].blocked
             /\ \A k \in Tasks : Owns(task[k], t) => Owns(task'[k], t)

BlocksKept == \A t \in Tables : table'[t].blocked = table[t].blocked

LEMMA OwnerStays ==
    ASSUME IInv, OwnersKept
    PROVE  OwnedInv'
<1>1. \A t \in Tables \ broken : Found(t) /\ table[t].blocked =>
         \E k \in Tasks : Owns(task[k], t)
  BY DEF IInv, OwnedInv
<1>2. \A t \in Tables \ broken' : Found(t)' /\ table'[t].blocked =>
         \E k \in Tasks : Owns(task'[k], t)
  BY <1>1 DEF OwnersKept
<1> QED
  BY <1>2 DEF OwnedInv

LEMMA FoundBefore ==
    ASSUME CompactionsKept, map' \in {map, None}, NEW t \in Tables, Found(t)'
    PROVE  Found(t)
BY TablesAssumption DEF CompactionsKept, Found

(* A step of one task that blocks and unblocks nothing.                    *)
LEMMA OneOwner ==
    ASSUME IInv, NEW k \in Tasks, OnlyChanges(k), BlocksKept, broken \subseteq broken',
           map' \in {map, None}, CompactionsKept,
           \A t \in Tables : Owns(task[k], t) => Owns(task'[k], t)
    PROVE  OwnedInv'
<1>1. \A j \in Tasks, t \in Tables : Owns(task[j], t) => Owns(task'[j], t)
  BY DEF OnlyChanges
<1>2. OwnersKept
  BY <1>1, FoundBefore DEF OwnersKept, BlocksKept
<1> QED
  BY <1>2, OwnerStays

LEMMA BlockedCompletion ==
    ASSUME IInv, NEW k \in Tasks, Complete(k)
    PROVE  OwnedInv'
<1>1. table \in [Tables -> TableType] /\ \A t \in Tables : table[t] \in TableType
  BY DEF IInv, TypeOK
<1>2. map' = map /\ broken' = broken /\ CompactionsKept
  BY QuietCompletion
<1>3. task[k].state = "completed" /\ task[k].pc = "idle"
  BY RefKnown DEF Complete, IInv, TaskInv
<1>4. CASE CreateSucceeded(k)
  <2>1. PICK d \in Tables : d = task[k].ref
    BY <1>4, RefKnown DEF Complete, CreateSucceeded
  <2>2. /\ table'[d].blocked = FALSE
        /\ \A t \in Tables \ {d} : table'[t].blocked = table[t].blocked
    <3>1. table' = [table EXCEPT ![d].timer = TRUE, ![d].blocked = FALSE,
                                 ![d].queue = <<>>]
      BY <1>4, <2>1 DEF CreateSucceeded
    <3> QED
      BY <1>1, <3>1 DEF TableType
  <2>3. ASSUME NEW j \in Tasks, NEW t \in Tables \ {d}, Owns(task[j], t)
        PROVE  Owns(task'[j], t)
    <3>1. j # k
      BY <2>1, <2>3 DEF Owns
    <3>2. j \notin Woken(d)
      BY <2>3, WokenUse DEF Owns
    <3>3. task'[j] = task[j]
      BY <1>4, <2>1, <3>1, <3>2, CompletionTasks
    <3> QED
      BY <2>3, <3>3
  <2>4. OwnersKept
    BY <1>2, <2>2, <2>3, FoundBefore DEF OwnersKept
  <2> QED
    BY <2>4, OwnerStays
<1>5. CASE TableDone(k)
  <2>1. PICK d \in Tables : d = task[k].ref
    BY <1>5, RefKnown DEF Complete, TableDone
  <2>2. task[k].kind = "create" /\ d \notin broken => ~Found(d)
    <3>1. Claim(task[k], d)
      BY <1>5, <2>1 DEF TableDone, Claim
    <3>2. task[k].kind = "create" => FailedCreate(task[k], d)
      BY <1>5, <2>1 DEF TableDone, FailedCreate
    <3>3. map = d => d \in broken
      BY <3>1 DEF IInv, LifeInv
    <3> QED
      BY <3>2, <3>3 DEF IInv, HiddenInv, Found
  <2>3. ASSUME NEW j \in Tasks, NEW t \in Tables, Owns(task[j], t),
               task[k].kind = "create" => t # d
        PROVE  Owns(task'[j], t)
    <3>1. j # k
      BY <1>5, <2>1, <2>3 DEF Owns, TableDone
    <3>2. task[j].state # "none"
      BY <2>3 DEF Owns, IInv, TaskInv
    <3>3. task'[j] = task[j]
      BY <1>5, <3>1, <3>2, CompletionTasks DEF OnlyChanges
    <3> QED
      BY <2>3, <3>3
  <2>4. table' = table
    BY <1>5 DEF TableDone
  <2>5. OwnersKept
    BY <1>2, <2>2, <2>3, <2>4, FoundBefore DEF OwnersKept
  <2> QED
    BY <2>5, OwnerStays
<1>6. CASE CompactDone(k) \/ OtherDone(k)
  <2>1. OnlyChanges(k)
    BY <1>6, CompletionTasks
  <2>2. BlocksKept
    BY <1>1, <1>6 DEF CompactDone, OtherDone, BlocksKept, TableType
  <2>3. \A t \in Tables : ~Owns(task[k], t)
    BY <1>3, <1>6 DEF Owns, CompactDone, OtherDone
  <2> QED
    BY <1>2, <2>1, <2>2, <2>3, OneOwner
<1> QED
  BY <1>4, <1>5, <1>6 DEF Complete

LEMMA BlockedScan ==
    ASSUME IInv, NEW k \in Tasks,
           \/ UpdateBegin \/ SetAwaiting \/ ScanNew(k) \/ ScanReschedule(k)
           \/ ScanCompleted(k) \/ ScanOther(k) \/ FreeLater(k) \/ Start(k),
           CompactionsKept
    PROVE  OwnedInv'
<1>1. task \in [Tasks -> TaskType] /\ task[k] \in TaskType /\ TaskInv(task[k])
  BY DEF IInv, TypeOK
<1>2. map' = map /\ broken' = broken
  BY DEF UpdateBegin, SetAwaiting, ScanNew, ScanReschedule, ScanCompleted, ScanOther,
     FreeLater, Start
<1>3. BlocksKept
  <2>1. CASE ScanReschedule(k)
    BY <2>1 DEF ScanReschedule, BlocksKept, IInv, TypeOK, TableType
  <2> QED
    BY <2>1 DEF BlocksKept, UpdateBegin, SetAwaiting, ScanNew, ScanCompleted, ScanOther,
       FreeLater, Start
<1>4. CASE task' = task
  BY <1>2, <1>3, <1>4, OneOwner DEF OnlyChanges
<1>5. CASE SetAwaiting
  <2>1. pushing \in Tasks /\ task[pushing].kind = "use" /\ OnlyChanges(pushing)
    BY <1>1, <1>5 DEF SetAwaiting, IInv, TypeOK, ListsInv, OnlyChanges
  <2> QED
    BY <1>2, <1>3, <2>1, OneOwner DEF Owns
<1>6. CASE ScanNew(k) \/ FreeLater(k) \/ Start(k)
  <2>1. OnlyChanges(k)
    BY <1>6, ScanOnly DEF IInv
  <2>2. task'[k].ref = task[k].ref /\ task'[k].kind = task[k].kind
    BY <1>1, <1>6 DEF ScanNew, FreeLater, Start, TaskType
  <2>3. task[k].state \in {"new", "ready"}
    BY <1>6, RefKnown DEF ScanNew, FreeLater, Start
  <2>4. task[k].pc = "idle"
    BY <1>1, <2>3 DEF TaskInv
  <2> QED
    BY <1>2, <1>3, <2>1, <2>2, <2>4, OneOwner DEF Owns
<1> QED
  BY <1>4, <1>5, <1>6 DEF UpdateBegin, ScanReschedule, ScanCompleted, ScanOther

LEMMA BlockedHandler ==
    ASSUME IInv, NEW k \in Tasks, Handler(k), CompactionsKept
    PROVE  OwnedInv'
<1>1. task \in [Tasks -> TaskType] /\ task[k] \in TaskType /\ TaskInv(task[k])
  BY DEF IInv, TypeOK
<1>2. table \in [Tables -> TableType] /\ \A t \in Tables : table[t] \in TableType
  BY DEF IInv, TypeOK
<1>3. CASE \/ GuardMissing(k) \/ GuardBlocked(k) \/ GuardEnter(k) \/ GuardEnd(k)
           \/ DropRemove(k) \/ DropBreak(k)
  <2>1. OnlyChanges(k) /\ \A t \in Tables : ~Owns(task[k], t)
    BY <1>3, ScanOnly, RefKnown
    DEF Handler, CompactWake, GuardMissing, GuardBlocked, GuardEnter, GuardEnd,
        DropRemove, DropBreak, At, IInv, Owns
  <2>2. BlocksKept
    <3>1. CASE GuardEnter(k)
      BY <1>2, <3>1 DEF GuardEnter, BlocksKept, TableType
    <3>2. CASE GuardEnd(k)
      BY <1>2, <3>2 DEF GuardEnd, BlocksKept, TableType
    <3> QED
      BY <1>3, <3>1, <3>2 DEF GuardMissing, GuardBlocked, DropRemove, DropBreak, BlocksKept
  <2>3. map' \in {map, None} /\ broken' = broken
    BY <1>3 DEF GuardMissing, GuardBlocked, GuardEnter, GuardEnd, DropRemove, DropBreak
  <2> QED
    BY <2>1, <2>2, <2>3, OneOwner
<1>4. CASE CreateAdd(k) \/ CreateExists(k)
  <2>1. PICK n \in Tables :
           /\ table' = [table EXCEPT ![n].life = "live", ![n].blocked = TRUE]
           /\ Goto(k, "fill", n, "none") \/ Goto(k, "result", n, "generic")
           /\ map' \in {map, n}
    BY <1>4 DEF CreateAdd, CreateExists
  <2>2. task[k].kind = "create" /\ task[k].ref = None
    BY <1>1, <1>4, RefKnown DEF CreateAdd, CreateExists, At, TaskInv
  <2>3. OnlyChanges(k) /\ Owns(task'[k], n) /\ task'[k].kind = "create"
    BY <1>1, <2>1, <2>2 DEF Goto, OnlyChanges, TaskType, Owns
  <2>4. broken' = broken
    BY <1>4 DEF CreateAdd, CreateExists
  <2>5. \A t \in Tables \ {n} : Found(t)' => Found(t)
    BY <2>1, <2>3 DEF Found, Compacts, OnlyChanges
  <2>6. \A t \in Tables \ {n} : table'[t] = table[t]
    BY <1>2, <2>1
  <2>7. \A j \in Tasks, t \in Tables : Owns(task[j], t) => Owns(task'[j], t)
    BY <2>2, <2>3, TablesAssumption DEF OnlyChanges, Owns
  <2>8. OwnersKept
    BY <2>3, <2>4, <2>5, <2>6, <2>7 DEF OwnersKept
  <2> QED
    BY <2>8, OwnerStays
<1>5. CASE CreateFill(k) \/ CreateBreak(k)
  <2>1. OnlyChanges(k) /\ task'[k].kind = task[k].kind /\ task'[k].ref = task[k].ref
        /\ task[k].kind = "create"
    BY <1>1, <1>5, RefKnown DEF CreateFill, CreateBreak, Goto, TaskType, OnlyChanges
  <2>2. BlocksKept /\ map' = map /\ broken \subseteq broken'
    BY <1>5 DEF CreateFill, CreateBreak, BlocksKept
  <2> QED
    BY <2>1, <2>2, OneOwner DEF Owns
<1>6. CASE CompactBlock(k) \/ CompactUnblock(k)
  <2>1. PICK d \in Tables : d = task[k].ref /\ task[k].kind = "compact"
    BY <1>6, RefKnown DEF CompactBlock, CompactUnblock
  <2>2. \A t \in Tables \ {d} : table'[t].blocked = table[t].blocked
    BY <1>2, <1>6, <2>1 DEF CompactBlock, CompactUnblock
  <2>3. OnlyChanges(k) /\ map' = map /\ broken' = broken
    BY <1>1, <1>6 DEF CompactBlock, CompactUnblock, OnlyChanges
  <2>4. \A j \in Tasks, t \in Tables \ {d} : Owns(task[j], t) => Owns(task'[j], t)
    BY <2>1, <2>3 DEF OnlyChanges, Owns
  <2>5. table'[d].blocked => Owns(task'[k], d)
    <3>1. CASE CompactBlock(k)
      BY <1>1, <2>1, <3>1 DEF CompactBlock, TaskType, Owns
    <3>2. CASE CompactUnblock(k)
      BY <1>2, <2>1, <3>2 DEF CompactUnblock, TableType
    <3> QED
      BY <1>6, <3>1, <3>2
  <2>6. OwnersKept
    BY <2>2, <2>3, <2>4, <2>5, FoundBefore DEF OwnersKept
  <2> QED
    BY <2>6, OwnerStays
<1>7. CASE CompactAlone(k) \/ CompactStageTwo(k) \/ CompactEnd(k)
  <2>1. OnlyChanges(k) /\ \A t \in Tables : Owns(task[k], t) => Owns(task'[k], t)
    <3>1. CASE CompactAlone(k)
      BY <1>1, <3>1 DEF CompactAlone, OnlyChanges, Owns, TaskType
    <3>2. CASE CompactStageTwo(k) \/ CompactEnd(k)
      BY <1>1, <3>2, RefKnown DEF CompactStageTwo, CompactEnd, Goto, OnlyChanges, Owns, At
    <3> QED
      BY <1>7, <3>1, <3>2
  <2>2. BlocksKept /\ map' = map /\ broken' = broken
    BY <1>7 DEF CompactAlone, CompactStageTwo, CompactEnd, BlocksKept
  <2> QED
    BY <2>1, <2>2, OneOwner
<1>8. CASE Result(k)
  <2>1. /\ OnlyChanges(k) /\ task'[k].kind = task[k].kind /\ task'[k].ref = task[k].ref
        /\ task[k].pc = "result"
    BY <1>1, <1>8 DEF Result, OnlyChanges, TaskType, At
  <2>2. BlocksKept /\ map' = map /\ broken' = broken
    BY <1>8 DEF Result, BlocksKept
  <2> QED
    BY <2>1, <2>2, OneOwner DEF Owns
<1>9. CASE CompactWake(k)
  <2>1. task[k].ref \in Tables
    BY <1>9, RefKnown DEF CompactWake
  <2>2. PICK h \in Woken(task[k].ref) : h \in Tasks /\ OnlyChanges(h)
    BY <1>9, WakeOne
  <2>3. task[h].kind = "use"
    BY <2>1, <2>2, WokenUse
  <2>4. BlocksKept /\ map' = map /\ broken' = broken
    BY <1>2, <1>9 DEF CompactWake, BlocksKept, TableType
  <2> QED
    BY <2>2, <2>3, <2>4, OneOwner DEF Owns
<1> QED
  BY <1>3, <1>4, <1>5, <1>6, <1>7, <1>8, <1>9 DEF Handler

LEMMA KindsStay ==
    ASSUME KindsKept
    PROVE  CompactionsKept
BY DEF KindsKept, CompactionsKept, Compacts

LEMMA BlockedNext ==
    ASSUME IInv, Next
    PROVE  OwnedInv'
<1>1. table \in [Tables -> TableType] /\ \A t \in Tables : table[t] \in TableType
  BY DEF IInv, TypeOK
<1>2. CASE Events
  <2>1. map' = map /\ broken' = broken
    BY <1>2 DEF Events, Request, CompactTick, Arrive
  <2>2. BlocksKept
    <3>1. ASSUME NEW u \in Tables, CompactTick(u)
          PROVE  BlocksKept
      BY <1>1, <3>1 DEF CompactTick, BlocksKept, TableType
    <3> QED
      BY <1>2, <3>1 DEF Events, Request, BlocksKept
  <2>3. /\ NextHandle \in Tasks /\ task[NextHandle].state = "none"
        /\ OnlyChanges(NextHandle)
    BY <1>2, EventNew, Arrival
  <2>4. task[NextHandle].kind = "none"
    BY <2>3 DEF IInv, TaskInv
  <2>5. CompactionsKept
    BY <1>2, QuietEvents DEF Quiet
  <2> QED
    BY <2>1, <2>2, <2>3, <2>4, <2>5, OneOwner DEF Owns
<1>3. CASE \E k \in Tasks : Complete(k)
  BY <1>3, BlockedCompletion
<1>4. CASE Main /\ CompactionsKept
  <2>1. ASSUME NEW k \in Tasks, FreeRun(k)
        PROVE  OwnedInv'
    <3>1. task[k].kind = "free" /\ task[k].ref \in Tables
      BY <2>1, RefKnown DEF FreeRun
    <3>2. BlocksKept /\ map' = map /\ broken' = broken
      BY <1>1, <2>1 DEF FreeRun, BlocksKept, TableType
    <3>3. ASSUME NEW j \in Tasks, NEW t \in Tables, Owns(task[j], t)
          PROVE  Owns(task'[j], t)
      <4>1. j # k
        BY <3>1, <3>3 DEF Owns
      <4>2. j \notin Woken(task[k].ref)
        BY <3>1, <3>3, WokenUse DEF Owns
      <4>3. task'[j] = task[j]
        BY <2>1, <4>1, <4>2, FreeRunTasks
      <4> QED
        BY <3>3, <4>3
    <3>4. OwnersKept
      BY <1>4, <3>2, <3>3, FoundBefore DEF OwnersKept, BlocksKept
    <3> QED
      BY <3>4, OwnerStays
  <2>2. PICK k \in Tasks : TRUE
    <3>1. CASE UpdateBegin
      BY <3>1 DEF UpdateBegin, FreeHandles
    <3>2. CASE SetAwaiting
      BY <3>2 DEF SetAwaiting, IInv, TypeOK
    <3> QED
      BY <1>3, <1>4, <3>1, <3>2 DEF Main
  <2> QED
    BY <1>3, <1>4, <2>1, <2>2, BlockedScan DEF Main
<1>5. ASSUME NEW k \in Tasks, CompactionsKept, Start(k) \/ Handler(k)
      PROVE  OwnedInv'
  BY <1>5, BlockedScan, BlockedHandler
<1>6. CASE ~Events /\ ~\E k \in Tasks : Complete(k)
  <2>1. CompactionsKept
    BY <1>6, StepKinds, KindsStay
  <2> QED
    BY <1>4, <1>5, <1>6, <2>1 DEF Next
<1> QED
  BY <1>2, <1>3, <1>6
-----------------------------------------------------------------------------
(* A table that a failed CREATE is about to give up has never been found,  *)
(* and will not be.                                                        *)
LEMMA HiddenStays ==
    ASSUME IInv, CompactionsKept, broken \subseteq broken',
           \A k \in Tasks, t \in Tables \ broken' :
              FailedCreate(task'[k], t) => FailedCreate(task[k], t)
    PROVE  HiddenInv'
<1> SUFFICES ASSUME NEW t \in Tables \ broken', NEW j \in Tasks, NEW k \in Tasks,
                    Compacts(task'[j], t), FailedCreate(task'[k], t)
             PROVE  FALSE
  BY DEF HiddenInv
<1>1. FailedCreate(task[k], t) /\ t \in Tables \ broken
  OBVIOUS
<1>2. Claim(task[k], t)
  BY <1>1 DEF FailedCreate, Claim
<1>3. map # t
  BY <1>1, <1>2 DEF IInv, LifeInv
<1>4. Compacts(task[j], t)
  BY <1>3 DEF CompactionsKept
<1> QED
  BY <1>1, <1>4 DEF IInv, HiddenInv

LEMMA HiddenQuiet ==
    ASSUME IInv, Quiet,
           \A k \in Tasks, t \in Tables : FailedCreate(task'[k], t) => task[k].kind = "create"
    PROVE  HiddenInv'
<1>1. ASSUME NEW k \in Tasks, NEW t \in Tables \ broken', FailedCreate(task'[k], t)
      PROVE  FailedCreate(task[k], t)
  <2>1. Claim(task'[k], t)
    BY <1>1 DEF FailedCreate, Claim
  <2>2. Claim(task[k], t)
    BY <2>1 DEF Quiet, ClaimsKept
  <2> QED
    BY <1>1, <2>2 DEF Claim, FailedCreate
<1> QED
  BY <1>1, HiddenStays DEF Quiet, BrokenKept

LEMMA HiddenNext ==
    ASSUME IInv, Next
    PROVE  HiddenInv'
<1>1. CASE Events
  <2>1. PICK kind \in Kinds, t \in Tables \cup {None} :
           OnlyChanges(NextHandle) /\ task'[NextHandle] = NewTask(kind, t)
    BY <1>1, EventNew, Arrival
  <2>2. NewTask(kind, t).err = "none"
    BY DEF NewTask, NoTask
  <2> QED
    BY <1>1, <2>1, <2>2, QuietEvents, HiddenQuiet DEF OnlyChanges, FailedCreate
<1>2. ASSUME NEW k \in Tasks, Complete(k)
      PROVE  HiddenInv'
  <2>1. task'[k] = NoTask /\ NoTask.kind = "none"
    BY <1>2, CompletionTasks DEF NoTask
  <2>2. NewTask("free", task[k].ref).kind = "free"
    BY DEF NewTask, NoTask
  <2>3. ASSUME NEW j \in Tasks, task'[j].kind = "create"
        PROVE  task'[j] = task[j]
    <3>1. j # k
      BY <2>1, <2>3
    <3>2. CASE CreateSucceeded(k)
      <4>1. task[k].ref \in Tables
        BY <1>2, <3>2, RefKnown DEF Complete, CreateSucceeded
      <4> QED
        BY <1>2, <2>3, <3>1, <3>2, <4>1, CompletionTasks, WokenKept
    <3>3. CASE ~CreateSucceeded(k)
      BY <1>2, <2>2, <2>3, <3>1, <3>3, CompletionTasks DEF Complete, OnlyChanges
    <3> QED
      BY <3>2, <3>3
  <2>4. \A j \in Tasks, t \in Tables : FailedCreate(task'[j], t) => FailedCreate(task[j], t)
    BY <2>3 DEF FailedCreate
  <2>5. CompactionsKept /\ broken' = broken
    BY <1>2, QuietCompletion
  <2> QED
    BY <2>4, <2>5, HiddenStays
<1>3. CASE ~Events /\ ~\E k \in Tasks : Complete(k)
  <2>1. KindsKept /\ CompactionsKept
    BY <1>3, StepKinds, KindsStay
  <2>2. \A j \in Tasks, t \in Tables : FailedCreate(task'[j], t) => task[j].kind = "create"
    BY <2>1 DEF KindsKept, FailedCreate
  <2>3. CASE Quiet
    BY <2>2, <2>3, HiddenQuiet
  <2>4. ASSUME NEW k \in Tasks, FreeRun(k)
        PROVE  HiddenInv'
    <3>1. task[k].ref \in Tables /\ task'[k].kind = "free"
      BY <2>4, RefKnown, FreeRunTasks DEF FreeRun
    <3>2. ASSUME NEW j \in Tasks, task'[j].kind = "create"
          PROVE  task'[j] = task[j]
      BY <2>4, <3>1, <3>2, FreeRunTasks, WokenKept
    <3>3. \A j \in Tasks, t \in Tables : FailedCreate(task'[j], t) => FailedCreate(task[j], t)
      BY <3>2 DEF FailedCreate
    <3>4. broken' = broken
      BY <2>4 DEF FreeRun
    <3> QED
      BY <2>1, <3>3, <3>4, HiddenStays
  <2>5. ASSUME NEW k \in Tasks, CreateAdd(k) \/ CreateExists(k)
        PROVE  HiddenInv'
    <3>1. PICK n \in Tables :
             /\ table[n].life = "unused"
             /\ Goto(k, "fill", n, "none") \/ Goto(k, "result", n, "generic")
      BY <2>5 DEF CreateAdd, CreateExists
    <3>2. task[k].kind = "create" /\ task[k] \in TaskType
      BY <2>5, RefKnown DEF CreateAdd, CreateExists, IInv, TypeOK
    <3>3. OnlyChanges(k) /\ task'[k].ref = n /\ task'[k].kind = "create"
      BY <3>1, <3>2 DEF Goto, OnlyChanges, TaskType, IInv, TypeOK
    <3>4. \A j \in Tasks : ~Compacts(task'[j], n)
      BY <3>1, <3>3 DEF IInv, UnusedInv, OnlyChanges, Compacts
    <3>5. \A j \in Tasks, t \in Tables \ {n} :
             /\ FailedCreate(task'[j], t) => FailedCreate(task[j], t)
             /\ Compacts(task'[j], t) => Compacts(task[j], t)
      BY <3>3 DEF OnlyChanges, FailedCreate, Compacts
    <3>6. broken' = broken
      BY <2>5 DEF CreateAdd, CreateExists
    <3> QED
      BY <3>4, <3>5, <3>6 DEF IInv, HiddenInv
  <2>6. ASSUME NEW k \in Tasks, DropRemove(k) \/ DropBreak(k)
        PROVE  HiddenInv'
    <3>1. task[k].kind = "drop" /\ OnlyChanges(k) /\ broken' = broken
      BY <2>6, RefKnown DEF DropRemove, DropBreak, IInv, TypeOK, OnlyChanges, Goto
    <3>2. \A j \in Tasks, t \in Tables : FailedCreate(task'[j], t) => FailedCreate(task[j], t)
      BY <2>2, <3>1 DEF OnlyChanges, FailedCreate
    <3> QED
      BY <2>1, <3>1, <3>2, HiddenStays
  <2>7. ASSUME NEW k \in Tasks, Start(k) \/ Handler(k)
        PROVE  HiddenInv'
    BY <2>3, <2>5, <2>6, <2>7, QuietScan, QuietHandler
  <2>8. CASE Main
    <3>1. PICK k \in Tasks : TRUE
      <4>1. CASE UpdateBegin
        BY <4>1 DEF UpdateBegin, FreeHandles
      <4>2. CASE SetAwaiting
        BY <4>2 DEF SetAwaiting, IInv, TypeOK
      <4> QED
        BY <2>8, <4>1, <4>2 DEF Main
    <3> QED
      BY <1>3, <2>3, <2>4, <2>8, <3>1, QuietScan DEF Main
  <2> QED
    BY <1>3, <2>7, <2>8 DEF Next
<1> QED
  BY <1>1, <1>2, <1>3
-----------------------------------------------------------------------------
LEMMA NextInv == IInv /\ [Next]_vars => IInv'
<1> SUFFICES ASSUME IInv, [Next]_vars
             PROVE  IInv'
  OBVIOUS
<1>1. CASE Next
  <2>1. \A k \in Tasks : TaskInv(task[k])'
    BY <1>1, TasksNext
  <2> QED
    BY <1>1, <2>1, TypeNext, ListsNext, CompactingNext, QueueNext, LifeNext, BlockedNext,
       HiddenNext
    DEF IInv
<1>2. CASE UNCHANGED vars
  <2>1. /\ map' = map /\ table' = table /\ task' = task /\ toScan' = toScan
        /\ toComplete' = toComplete /\ mtQueue' = mtQueue /\ pushing' = pushing
        /\ requests' = requests /\ broken' = broken /\ leaked' = leaked
    BY <1>2 DEF vars, mainVars
  <2>2. TypeOK' /\ (\A k \in Tasks : TaskInv(task[k])') /\ ListsInv'
    BY <2>1 DEF IInv, TypeOK, ListsInv
  <2>3. CompactingExact' /\ QueuedTasksWait'
    BY <2>1 DEF IInv, CompactingExact, CompactionsOf, QueuedTasksWait
  <2>4. UnusedInv' /\ LifeInv' /\ OwnedInv' /\ HiddenInv'
    BY <2>1 DEF IInv, UnusedInv, LifeInv, OwnedInv, HiddenInv, Found
  <2> QED
    BY <2>2, <2>3, <2>4 DEF IInv
<1> QED
  BY <1>1, <1>2

LEMMA Invariant == Spec => []IInv
BY InitInv, NextInv, PTL DEF Spec

(* Every variable of the tables and tasks keeps its type.                  *)
THEOREM TypeCorrect == Spec => []TypeOK
<1>1. IInv => TypeOK
  BY DEF IInv
<1> QED
  BY <1>1, Invariant, PTL

(* `compacting` is up exactly while there is a compaction of the table     *)
(* (lfs_worker.c, fs_table_free), and there is never a second one.         *)
THEOREM CompactingExactCorrect == Spec => []CompactingExact
<1>1. IInv => CompactingExact
  BY DEF IInv
<1> QED
  BY <1>1, Invariant, PTL

(* What lies in a blockedQueue awaits there, once and for that table only  *)
(* (task_reschedule and fs_table_unblock).                                 *)
THEOREM QueuedTasksWaitCorrect == Spec => []QueuedTasksWait
<1>1. IInv => QueuedTasksWait
  BY DEF IInv
<1> QED
  BY <1>1, Invariant, PTL

(* A table that can be found and is blocked has a CREATE or a compaction   *)
(* that will unblock it, unless its creation failed half-way.              *)
THEOREM BlockedHasOwnerCorrect == Spec => []BlockedHasOwner
<1>1. IInv => BlockedHasOwner
  BY DEF IInv, OwnedInv, BlockedHasOwner, Unblocks, Owns, Found
<1> QED
  BY <1>1, Invariant, PTL

(* TASK_MT_FREE destroys a table_t only when nothing can reach it any more. *)
THEOREM FreedUnreachableCorrect == Spec => []FreedUnreachable
<1>1. IInv => FreedUnreachable
  BY DEF IInv, LifeInv, FreedUnreachable
<1> QED
  BY <1>1, Invariant, PTL

(* A table_t is never destroyed twice: the DROPs and failed CREATEs that   *)
(* call fs_table_free for it come down to a single FREE.                   *)
THEOREM FreedOnceCorrect == Spec => []FreedOnce
<1>1. ASSUME IInv
      PROVE  FreedOnce
  <2>1. \A t \in Tables, k \in Tasks : k \in FreesOf(t) => Claim(task[k], t)
    BY DEF FreesOf, Claim
  <2>2. \A t \in Tables \ broken :
           /\ table[t].life = "freed" => \A k \in Tasks : ~Claim(task[k], t)
           /\ \A h, k \in Tasks : Claim(task[h], t) /\ Claim(task[k], t) => h = k
    BY <1>1 DEF IInv, LifeInv
  <2>3. \A t \in Tables : FreesOf(t) \subseteq Tasks
    BY DEF FreesOf
  <2> QED
    BY <2>1, <2>2, <2>3 DEF FreedOnce
<1>2. IInv => FreedOnce
  BY <1>1
<1> QED
  BY <1>2, Invariant, PTL

(* A compaction never blocks a table that is blocked (cx_reslock_block's   *)
(* own check, reslock.c:77), but for one that is being created, or whose   *)
(* creation failed half-way.                                               *)
THEOREM ReblockedUnderCreationCorrect == Spec => ReblockedUnderCreation
<1>1. ASSUME IInv, NEW k \in Tasks
      PROVE  BlocksOnlyUnblocked(k)
  <2> SUFFICES ASSUME task[k].pc = "block", table[task[k].ref].blocked,
                      ~UnderCreation(task[k].ref)
               PROVE  FALSE
    BY DEF BlocksOnlyUnblocked
  <2>1. TaskInv(task[k]) /\ task[k].kind \in Kinds \cup {"none"}
    BY <1>1 DEF IInv, TypeOK, TaskType
  <2>2. task[k].state = "running"
    BY <2>1 DEF TaskInv
  <2>3. task[k].kind = "compact" /\ task[k].ref \in Tables
    BY <1>1, <2>2, RefKnown DEF At
  <2>4. PICK t \in Tables \ broken : t = task[k].ref
    BY <2>3 DEF UnderCreation
  <2>5. Found(t)
    BY <2>3, <2>4 DEF Found, Compacts
  <2>6. PICK h \in Tasks : Owns(task[h], t)
    BY <1>1, <2>4, <2>5 DEF IInv, OwnedInv
  <2>7. task[h].kind = "compact" /\ task[h].ref = t /\ task[h].pc # "block"
    BY <2>4, <2>6 DEF Owns, UnderCreation
  <2>8. h = k
    BY <1>1, <2>3, <2>4, <2>7 DEF IInv, CompactingExact, CompactionsOf
  <2> QED
    BY <2>7, <2>8
<1>2. IInv /\ [Next]_vars => [\A k \in Tasks : BlocksOnlyUnblocked(k)]_vars
  BY <1>1
<1> QED
  BY <1>2, Invariant, PTL DEF Spec, ReblockedUnderCreation
=============================================================================
