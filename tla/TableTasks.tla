----------------------------- MODULE TableTasks -----------------------------
(***************************************************************************)
(* The life of the tables of one name in lfs/, and the tasks that work on  *)
(* them: the main loop (timers, requests and taskman_update), the worker   *)
(* threads of the pool, the availability guard, the queue of the tasks     *)
(* that found a table blocked, and the create / drop / compact / free      *)
(* protocol that decides when a table_t is deallocated.                    *)
(*                                                                         *)
(* A table is one table_t: dropping a table and creating it again makes    *)
(* another one.  `users` is the set of tasks inside the availability       *)
(* guard; its size is the counter of the reslock (module Reslock).  What   *)
(* the handlers do to the table's files is module LsmStore.                *)
(***************************************************************************)
EXTENDS Naturals, Sequences, FiniteSets

CONSTANTS Tables,       \* the table_t ever allocated for the name
          Tasks,        \* the task handles (MAX_TASKS of them)
          Workers,      \* number of worker threads
          MaxRequests,  \* bound: requests and timer ticks
          FilesMayFail, \* whether CREATE and DROP may fail on the table's files
          None          \* no table

ASSUME WorkersAssumption == Workers \in Nat \ {0}
ASSUME MaxRequestsAssumption == MaxRequests \in Nat
ASSUME FilesMayFailAssumption == FilesMayFail \in BOOLEAN
ASSUME TablesAssumption == Tables # {} /\ None \notin Tables \cup Tasks

VARIABLES
    map,        \* tablesMap: the table registered under the name, or None
    table,      \* table -> its table_t
    task,       \* handle -> its task_t
    toScan,     \* handles taskman_update has still to look at
    toComplete, \* auxHandles: completed tasks found, to be notified
    mtQueue,    \* main-thread tasks to be run in this update
    pushing,    \* the task between queue_push and state = AWAITING, or None
    requests,   \* requests and timer ticks so far, for the bound
    broken,     \* history: tables whose creation failed after tryadd
    leaked      \* history: tables for which no FREE task is ever made

mainVars == <<toScan, toComplete, mtQueue, pushing>>
vars == <<map, table, task, mainVars, requests, broken, leaked>>

(* A task "use" is a SELECT, an INSERT or a dump: what they have in common *)
(* is the availability guard around their work.                            *)
Kinds == {"create", "drop", "use", "compact", "free"}

(* A handle that is not in use, and a task that has just been created.     *)
NoTask == [state |-> "none", kind |-> "none", ref |-> None, err |-> "none",
           pc |-> "idle", round |-> 1]

NewTask(kind, t) ==
    [NoTask EXCEPT !.state = "new", !.kind = kind, !.ref = t]

NoTable == [life |-> "unused", blocked |-> FALSE, users |-> {}, queue |-> <<>>,
            compacting |-> FALSE, timer |-> FALSE]

FreeHandles == {k \in Tasks : task[k].state = "none"}

(* taskman_create: the handles not in use are interchangeable.             *)
NextHandle == CHOOSE k \in Tasks : k \in FreeHandles

(* Init: the table was imported by _fs_load_tables, with its timer.        *)
Init ==
    /\ map = CHOOSE t \in Tables : TRUE
    /\ table = [t \in Tables |->
                   IF t = map THEN [NoTable EXCEPT !.life = "live", !.timer = TRUE]
                   ELSE NoTable]
    /\ task = [k \in Tasks |-> NoTask]
    /\ toScan = {} /\ toComplete = {} /\ mtQueue = {}
    /\ pushing = None
    /\ requests = 0
    /\ broken = {}
    /\ leaked = {}

(* taskman_update looks at every task, then notifies the completed ones,   *)
(* then runs the main-thread tasks; between two updates come the events.   *)
Scanned == toScan = {} /\ pushing = None
BetweenUpdates == Scanned /\ toComplete = {} /\ mtQueue = {}

-----------------------------------------------------------------------------
(* Main loop: requests from clients and the console, and timer ticks.      *)

CanArrive == BetweenUpdates /\ requests < MaxRequests /\ FreeHandles # {}

Arrive(kind, t) ==
    /\ task' = [task EXCEPT ![NextHandle] = NewTask(kind, t)]
    /\ requests' = requests + 1
    /\ UNCHANGED <<map, mainVars, broken, leaked>>

(* Bound: a CREATE comes only while it will find a table_t to allocate.    *)
Unused == {t \in Tables : table[t].life = "unused"}
ToCreate == {k \in Tasks : task[k].kind = "create" /\ task[k].ref = None}

(* A request of a client or of the console, or the dump timer              *)
(* (fs_table_dump_tryenqueue makes a dump task for each table of the map). *)
Request(kind) ==
    /\ CanArrive
    /\ kind = "create" => Cardinality(Unused) > Cardinality(ToCreate)
    /\ Arrive(kind, None)
    /\ UNCHANGED table

(* Mutant of CompactTick: a table may be compacted twice at a time.        *)
CompactTickAlways(t) ==
    /\ CanArrive /\ table[t].timer
    /\ map # None
    /\ Arrive("compact", map)
    /\ table' = [table EXCEPT ![map].compacting = TRUE]

(* The compaction timer of table t goes off: the table compacted is the    *)
(* one that is registered under t's name by now.                           *)
CompactTick(t) ==
    /\ CanArrive /\ table[t].timer
    /\ map # None /\ ~table[map].compacting
    /\ Arrive("compact", map)
    /\ table' = [table EXCEPT ![map].compacting = TRUE]

-----------------------------------------------------------------------------
(* Main loop: taskman_update.                                              *)

UpdateBegin ==
    /\ BetweenUpdates
    /\ Tasks # FreeHandles
    /\ toScan' = Tasks \ FreeHandles
    /\ UNCHANGED <<map, table, task, toComplete, mtQueue, pushing, requests,
                   broken, leaked>>

(* A new task goes to the pool, or to the main thread's own queue.         *)
ScanNew(k) ==
    /\ k \in toScan /\ pushing = None
    /\ task[k].state = "new"
    /\ toScan' = toScan \ {k}
    /\ task' = [task EXCEPT ![k].state = "ready", ![k].err = "none"]
    /\ mtQueue' = IF task[k].kind = "free" THEN mtQueue \cup {k} ELSE mtQueue
    /\ UNCHANGED <<map, table, toComplete, pushing, requests, broken, leaked>>

(* task_reschedule, first half: the task enters the table's blockedQueue.  *)
ScanReschedule(k) ==
    /\ k \in toScan /\ pushing = None
    /\ task[k].state = "reschedule"
    /\ toScan' = toScan \ {k}
    /\ table' = [table EXCEPT ![task[k].ref].queue = Append(@, k)]
    /\ pushing' = k
    /\ UNCHANGED <<map, task, toComplete, mtQueue, requests, broken, leaked>>

(* task_reschedule, second half.                                           *)
SetAwaiting ==
    /\ pushing # None
    /\ task' = [task EXCEPT ![pushing].state = "awaiting"]
    /\ pushing' = None
    /\ UNCHANGED <<map, table, toScan, toComplete, mtQueue, requests,
                   broken, leaked>>

ScanCompleted(k) ==
    /\ k \in toScan /\ pushing = None
    /\ task[k].state = "completed"
    /\ toScan' = toScan \ {k}
    /\ toComplete' = toComplete \cup {k}
    /\ UNCHANGED <<map, table, task, mtQueue, pushing, requests, broken, leaked>>

ScanOther(k) ==
    /\ k \in toScan /\ pushing = None
    /\ task[k].state \in {"ready", "running", "awaiting"}
    /\ toScan' = toScan \ {k}
    /\ UNCHANGED <<map, table, task, toComplete, mtQueue, pushing,
                   requests, broken, leaked>>

(* taskman_activate for every task of a table's blockedQueue.              *)
Woken(t) == {table[t].queue[i] : i \in DOMAIN table[t].queue}

Activated(f, S) == [k \in Tasks |->
                       IF k \in S THEN [f[k] EXCEPT !.state = "new"] ELSE f[k]]

(* fs_table_free makes a FREE task, if a handle is left; the handle of the *)
(* task that has completed is given back after that.                       *)
FreeTable(k, t) ==
    \/ /\ FreeHandles = {}
       /\ task' = [task EXCEPT ![k] = NoTask]
       /\ leaked' = leaked \cup {t}
    \/ /\ FreeHandles # {}
       /\ task' = [task EXCEPT ![NextHandle] = NewTask("free", t), ![k] = NoTask]
       /\ UNCHANGED leaked

(* Mutant of CreateSucceeded: the new table is not unblocked.              *)
CreateSucceededBlocked(k) ==
    /\ task[k].kind = "create" /\ task[k].err = "none"
    /\ LET t == task[k].ref
       IN /\ table' = [table EXCEPT ![t].timer = TRUE, ![t].queue = <<>>]
          /\ task' = [Activated(task, Woken(t)) EXCEPT ![k] = NoTask]
    /\ UNCHANGED leaked

CreateSucceeded(k) ==
    /\ task[k].kind = "create" /\ task[k].err = "none"
    /\ LET t == task[k].ref
       IN /\ table' = [table EXCEPT ![t].timer = TRUE, ![t].blocked = FALSE,
                                    ![t].queue = <<>>]
          /\ task' = [Activated(task, Woken(t)) EXCEPT ![k] = NoTask]
    /\ UNCHANGED leaked

(* A failed create and a successful drop free their table.                 *)
TableDone(k) ==
    /\ \/ task[k].kind = "create" /\ task[k].err # "none"
       \/ task[k].kind = "drop" /\ task[k].err = "none"
    /\ FreeTable(k, task[k].ref)
    /\ UNCHANGED table

CompactDone(k) ==
    /\ task[k].kind = "compact"
    /\ table' = [table EXCEPT ![task[k].ref].compacting = FALSE]
    /\ task' = [task EXCEPT ![k] = NoTask]
    /\ UNCHANGED leaked

OtherDone(k) ==
    /\ \/ task[k].kind \in {"use", "free"}
       \/ task[k].kind = "drop" /\ task[k].err # "none"
    /\ task' = [task EXCEPT ![k] = NoTask]
    /\ UNCHANGED <<table, leaked>>

(* task_completed, then _taskman_free_task.                                *)
Complete(k) ==
    /\ Scanned /\ k \in toComplete
    /\ toComplete' = toComplete \ {k}
    /\ CreateSucceeded(k) \/ TableDone(k) \/ CompactDone(k) \/ OtherDone(k)
    /\ UNCHANGED <<map, toScan, mtQueue, pushing, requests, broken>>

(* Mutant of FreeRun: the table is destroyed without looking.              *)
FreeRunAtOnce(k) ==
    /\ Scanned /\ toComplete = {} /\ k \in mtQueue
    /\ LET t == task[k].ref
       IN /\ table' = [table EXCEPT ![t].life = "freed", ![t].queue = <<>>,
                                    ![t].timer = FALSE]
          /\ task' = [Activated(task, Woken(t)) EXCEPT ![k].state = "completed"]
    /\ mtQueue' = mtQueue \ {k}
    /\ UNCHANGED <<map, toScan, toComplete, pushing, requests, broken, leaked>>

(* TASK_MT_FREE: the table is unused and not being compacted; the tasks in *)
(* its blockedQueue are rescheduled and the table is destroyed.            *)
FreeRun(k) ==
    /\ Scanned /\ toComplete = {} /\ k \in mtQueue
    /\ LET t == task[k].ref
       IN /\ table[t].users = {} /\ ~table[t].compacting
          /\ table' = [table EXCEPT ![t].life = "freed", ![t].queue = <<>>,
                                    ![t].timer = FALSE]
          /\ task' = [Activated(task, Woken(t)) EXCEPT ![k].state = "completed"]
    /\ mtQueue' = mtQueue \ {k}
    /\ UNCHANGED <<map, toScan, toComplete, pushing, requests, broken, leaked>>

(* Mutant of FreeLater: the task is given up instead of tried again.       *)
FreeNever(k) ==
    /\ Scanned /\ toComplete = {} /\ k \in mtQueue
    /\ LET t == task[k].ref IN table[t].users # {} \/ table[t].compacting
    /\ task' = [task EXCEPT ![k].state = "completed"]
    /\ mtQueue' = mtQueue \ {k}
    /\ UNCHANGED <<map, table, toScan, toComplete, pushing, requests,
                   broken, leaked>>

(* The table is still in use: the task is tried again in the next update.  *)
FreeLater(k) ==
    /\ Scanned /\ toComplete = {} /\ k \in mtQueue
    /\ LET t == task[k].ref IN table[t].users # {} \/ table[t].compacting
    /\ task' = [task EXCEPT ![k].state = "new"]
    /\ mtQueue' = mtQueue \ {k}
    /\ UNCHANGED <<map, table, toScan, toComplete, pushing, requests,
                   broken, leaked>>

-----------------------------------------------------------------------------
(* Worker threads.                                                         *)

Running == {k \in Tasks : task[k].state = "running"}

FirstPc(kind) ==
    CASE kind = "create" -> "add"
      [] kind = "drop" -> "remove"
      [] kind = "use" -> "enter"
      [] kind = "compact" -> "block"

(* A worker takes a task of the pool's queue: task_run_wk.                 *)
Start(k) ==
    /\ task[k].state = "ready" /\ task[k].kind # "free"
    /\ Cardinality(Running) < Workers
    /\ task' = [task EXCEPT ![k].state = "running",
                            ![k].pc = FirstPc(task[k].kind)]
    /\ UNCHANGED <<map, table, mainVars, requests, broken, leaked>>

(* Where a task's handler stands and what it found out.                    *)
Goto(k, pc, ref, err) ==
    task' = [task EXCEPT ![k].pc = pc, ![k].ref = ref, ![k].err = err]

At(k, pc) == task[k].state = "running" /\ task[k].pc = pc

(* fs_table_avail_guard_begin, under the map's mutex.  What it reads of a  *)
(* table_t that has been freed may be anything.                            *)
GuardMissing(k) ==
    /\ At(k, "enter") /\ map = None
    /\ Goto(k, "result", None, "generic")
    /\ UNCHANGED <<map, table, mainVars, requests, broken, leaked>>

GuardBlocked(k) ==
    /\ At(k, "enter") /\ map # None
    /\ table[map].blocked \/ table[map].life = "freed"
    /\ Goto(k, "result", map, "blocked")
    /\ UNCHANGED <<map, table, mainVars, requests, broken, leaked>>

GuardEnter(k) ==
    /\ At(k, "enter") /\ map # None
    /\ ~table[map].blocked \/ table[map].life = "freed"
    /\ table' = [table EXCEPT ![map].users = @ \cup {k}]
    /\ Goto(k, "inside", map, "none")
    /\ UNCHANGED <<map, mainVars, requests, broken, leaked>>

(* The task's own work, and fs_table_avail_guard_end.          *)
GuardEnd(k) ==
    /\ At(k, "inside")
    /\ table' = [table EXCEPT ![task[k].ref].users = @ \ {k}]
    /\ Goto(k, "result", task[k].ref, "none")
    /\ UNCHANGED <<map, mainVars, requests, broken, leaked>>

(* fs_table_init, and cx_cdict_tryadd: a new table starts blocked.         *)
CreateAdd(k) ==
    /\ At(k, "add") /\ map = None
    /\ \E t \in Tables :
          /\ table[t].life = "unused"
          /\ table' = [table EXCEPT ![t].life = "live", ![t].blocked = TRUE]
          /\ map' = t
          /\ Goto(k, "fill", t, "none")
    /\ UNCHANGED <<mainVars, requests, broken, leaked>>

(* "Table already exists": the new table_t never was in the map.           *)
CreateExists(k) ==
    /\ At(k, "add") /\ map # None
    /\ \E t \in Tables :
          /\ table[t].life = "unused"
          /\ table' = [table EXCEPT ![t].life = "live", ![t].blocked = TRUE]
          /\ Goto(k, "result", t, "generic")
    /\ UNCHANGED <<map, mainVars, requests, broken, leaked>>

(* The directory, the metadata and the first block of each partition.      *)
CreateFill(k) ==
    /\ At(k, "fill")
    /\ Goto(k, "result", task[k].ref, "none")
    /\ UNCHANGED <<map, table, mainVars, requests, broken, leaked>>

(* One of them fails, and the table stays in the map.                      *)
CreateBreak(k) ==
    /\ At(k, "fill") /\ FilesMayFail
    /\ Goto(k, "result", task[k].ref, "generic")
    /\ broken' = broken \cup {task[k].ref}
    /\ UNCHANGED <<map, table, mainVars, requests, leaked>>

(* Mutant of DropRemove: the table is looked up, and stays in the map.     *)
DropGet(k) ==
    /\ At(k, "remove")
    /\ Goto(k, "result", map, IF map = None THEN "generic" ELSE "none")
    /\ UNCHANGED <<map, table, mainVars, requests, broken, leaked>>

(* cx_cdict_tryremove; the files of the table are then removed, and what   *)
(* went wrong before that is cleared (cx_file_remove, file.c:200).         *)
DropRemove(k) ==
    /\ At(k, "remove")
    /\ map' = None
    /\ Goto(k, "result", map, IF map = None THEN "generic" ELSE "none")
    /\ UNCHANGED <<table, mainVars, requests, broken, leaked>>

(* cx_file_remove fails: its error is the task's, so task_completed will   *)
(* not call fs_table_free for the table, which is out of the map already.  *)
DropBreak(k) ==
    /\ At(k, "remove") /\ map # None /\ FilesMayFail
    /\ map' = None
    /\ Goto(k, "result", map, "generic")
    /\ leaked' = leaked \cup {map}
    /\ UNCHANGED <<table, mainVars, requests, broken>>

(* worker_handle_compact blocks the table twice.                           *)
CompactBlock(k) ==
    /\ At(k, "block")
    /\ table' = [table EXCEPT ![task[k].ref].blocked = TRUE]
    /\ task' = [task EXCEPT ![k].pc = "wait"]
    /\ UNCHANGED <<map, mainVars, requests, broken, leaked>>

(* cx_reslock_wait_unused, and what the stage does to the files.           *)
CompactAlone(k) ==
    /\ At(k, "wait") /\ table[task[k].ref].users = {}
    /\ task' = [task EXCEPT ![k].pc = "unblock"]
    /\ UNCHANGED <<map, table, mainVars, requests, broken, leaked>>

CompactUnblock(k) ==
    /\ At(k, "unblock")
    /\ table' = [table EXCEPT ![task[k].ref].blocked = FALSE]
    /\ task' = [task EXCEPT ![k].pc = "drain"]
    /\ UNCHANGED <<map, mainVars, requests, broken, leaked>>

(* Mutant of CompactWake: a task is rescheduled and left in the queue.     *)
CompactWakePeek(k) ==
    /\ At(k, "drain")
    /\ table[task[k].ref].queue # <<>>
    /\ task' = [task EXCEPT ![Head(table[task[k].ref].queue)].state = "new"]
    /\ UNCHANGED <<map, table, mainVars, requests, broken, leaked>>

(* fs_table_unblock reschedules the tasks of the blockedQueue one by one.  *)
CompactWake(k) ==
    /\ At(k, "drain")
    /\ LET t == task[k].ref
       IN /\ table[t].queue # <<>>
          /\ table' = [table EXCEPT ![t].queue = Tail(@)]
          /\ task' = [task EXCEPT ![Head(table[t].queue)].state = "new"]
    /\ UNCHANGED <<map, mainVars, requests, broken, leaked>>

CompactStageTwo(k) ==
    /\ At(k, "drain") /\ table[task[k].ref].queue = <<>> /\ task[k].round = 1
    /\ task' = [task EXCEPT ![k].pc = "block", ![k].round = 2]
    /\ UNCHANGED <<map, table, mainVars, requests, broken, leaked>>

(* After stage 3, or a stage 1 or 2 that failed.                           *)
CompactEnd(k) ==
    /\ At(k, "drain") /\ table[task[k].ref].queue = <<>>
    /\ \E err \in {"none", "generic"} :
          /\ task[k].round = 1 => err = "generic"
          /\ Goto(k, "result", task[k].ref, err)
    /\ UNCHANGED <<map, table, mainVars, requests, broken, leaked>>

(* _worker_parse_result: the worker lets go of the task.                   *)
Result(k) ==
    /\ At(k, "result")
    /\ task' = [task EXCEPT
                   ![k].state = IF task[k].err = "blocked" THEN "reschedule"
                                ELSE "completed",
                   ![k].pc = "idle"]
    /\ UNCHANGED <<map, table, mainVars, requests, broken, leaked>>

-----------------------------------------------------------------------------
Main ==
    \/ UpdateBegin \/ SetAwaiting
    \/ \E k \in Tasks :
          \/ ScanNew(k) \/ ScanReschedule(k) \/ ScanCompleted(k)
          \/ ScanOther(k) \/ Complete(k) \/ FreeRun(k) \/ FreeLater(k)

Events ==
    \/ \E kind \in {"create", "drop", "use"} : Request(kind)
    \/ \E t \in Tables : CompactTick(t)

Handler(k) ==
    \/ GuardMissing(k) \/ GuardBlocked(k) \/ GuardEnter(k) \/ GuardEnd(k)
    \/ CreateAdd(k) \/ CreateExists(k) \/ CreateFill(k) \/ CreateBreak(k)
    \/ DropRemove(k) \/ DropBreak(k)
    \/ CompactBlock(k) \/ CompactAlone(k) \/ CompactUnblock(k)
    \/ CompactWake(k) \/ CompactStageTwo(k) \/ CompactEnd(k)
    \/ Result(k)

Next == Events \/ Main \/ \E k \in Tasks : Start(k) \/ Handler(k)

Spec == Init /\ [][Next]_vars

(* The main loop never stops, a worker that is free takes some task of the *)
(* pool's queue, and goes on with the handler it has begun.                *)
Fairness ==
    /\ WF_vars(Main)
    /\ WF_vars(\E k \in Tasks : Start(k))
    /\ \A k \in Tasks : WF_vars(Handler(k))

FairSpec == Spec /\ Fairness
-----------------------------------------------------------------------------
(* Type invariant.                                                         *)

TaskType == [state : {"none", "new", "ready", "running", "completed",
                      "reschedule", "awaiting"},
             kind : Kinds \cup {"none"}, ref : Tables \cup {None},
             err : {"none", "generic", "blocked"},
             pc : {"idle", "add", "fill", "remove", "enter", "inside", "block",
                   "wait", "unblock", "drain", "result"},
             round : {1, 2}]

TableType == [life : {"unused", "live", "freed"}, blocked : BOOLEAN,
              users : SUBSET Tasks, queue : Seq(Tasks),
              compacting : BOOLEAN, timer : BOOLEAN]

TypeOK ==
    /\ map \in Tables \cup {None}
    /\ table \in [Tables -> TableType]
    /\ task \in [Tasks -> TaskType]
    /\ toScan \subseteq Tasks
    /\ toComplete \subseteq Tasks
    /\ mtQueue \subseteq Tasks
    /\ pushing \in Tasks \cup {None}
    /\ requests \in 0 .. MaxRequests
    /\ broken \subseteq Tables
    /\ leaked \subseteq Tables

-----------------------------------------------------------------------------
(* Safety.                                                                 *)

(* A table_t is deallocated only when it can no longer be found and nobody *)
(* is inside its guard or compacting it ("pointer to the table being       *)
(* compacted by this task is guaranteed to be valid always",               *)
(* lfs_worker.c:185), however DROP, CREATE, timers and tasks interleave,   *)
(* provided that no creation failed half-way.                              *)
FreedUnreachable ==
    \A t \in Tables \ broken : table[t].life = "freed" =>
       /\ map # t
       /\ table[t].users = {}
       /\ \A k \in Tasks : task[k].kind = "compact" => task[k].ref # t

(* A table is destroyed once: there is never a FREE to come for a table    *)
(* that has been freed, and never two of them for one table.               *)
FreesOf(t) == {k \in Tasks : /\ task[k].kind = "free" /\ task[k].ref = t
                             /\ task[k].state # "completed"}

FreedOnce ==
    \A t \in Tables \ broken :
       /\ table[t].life = "freed" => FreesOf(t) = {}
       /\ \A h, k \in FreesOf(t) : h = k

(* The flag `compacting`, which keeps a second compaction and the FREE     *)
(* away, is up exactly while there is a compaction task for the table, and *)
(* then there is just one.                                                 *)
CompactionsOf(t) == {k \in Tasks : task[k].kind = "compact" /\ task[k].ref = t}

CompactingExact ==
    \A t \in Tables :
       /\ table[t].compacting <=> CompactionsOf(t) # {}
       /\ \A h, k \in CompactionsOf(t) : h = k

(* No table that can be found stays blocked for want of a task that will   *)
(* unblock it: its creation is still to be completed, or it is in a stage  *)
(* of a compaction that blocks it.                                         *)
Unblocks(k, t) ==
    /\ task[k].ref = t
    /\ \/ task[k].kind = "create"
       \/ task[k].kind = "compact" /\ task[k].pc \in {"wait", "unblock"}

BlockedHasOwner ==
    \A t \in Tables \ broken : map = t /\ table[t].blocked =>
       \E k \in Tasks : Unblocks(k, t)

(* A task in a blockedQueue is in no other place: it is in one queue, once *)
(* and for the table it found blocked, and neither its handle nor the task *)
(* has been used for anything else since.                                  *)
QueuedTasksWait ==
    \A t \in Tables : \A i \in DOMAIN table[t].queue :
       LET k == table[t].queue[i]
       IN /\ task[k].ref = t
          /\ task[k].state = "awaiting" \/ pushing = k
          /\ \A j \in DOMAIN table[t].queue : table[t].queue[j] = k => j = i

(* taskman.h:30: a task that awaits is in the blockedQueue of a table, so  *)
(* that "as soon as the resource is unblocked it will be moved to the main *)
(* queue".  task_reschedule (lfs.c:548) does not keep that up.             *)
AwaitingIsQueued ==
    \A k \in Tasks : task[k].state = "awaiting" =>
       \E t \in Tables : k \in Woken(t)

(* reslock.c:77: a compaction blocks a table that is not blocked, but for  *)
(* a table whose CREATE is not over (the timer of the table that was       *)
(* dropped finds it under its name) or has failed.                         *)
UnderCreation(t) ==
    t \in broken \/ \E k \in Tasks : task[k].kind = "create" /\ task[k].ref = t

BlocksOnlyUnblocked(k) ==
    LET t == task[k].ref IN
    task[k].pc = "block" /\ task'[k].pc = "wait" =>
        ~table[t].blocked \/ UnderCreation(t)

ReblockedUnderCreation == [][\A k \in Tasks : BlocksOnlyUnblocked(k)]_vars

-----------------------------------------------------------------------------
(* Liveness.                                                               *)

(* A table that has been dropped, or whose creation has failed, is freed   *)
(* in the end: the FREE is tried again in every update, and the tasks and  *)
(* the compaction it waits for come to an end.  But for two kinds, which   *)
(* stay allocated for ever: one whose DROP has taken it out of the map and  *)
(* could not remove its files, and one for whose FREE there was no handle.  *)
DroppedIsFreed ==
    \A t \in Tables :
       table[t].life = "live" /\ (map # t \/ t \in broken)
          ~> table[t].life = "freed" \/ t \in leaked
=============================================================================
