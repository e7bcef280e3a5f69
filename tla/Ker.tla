-------------------------------- MODULE Ker --------------------------------
(***************************************************************************)
(* The kernel node, ker/: the pool of MEM nodes (mempool.c) with one       *)
(* client connection per node, the criteria the nodes are assigned to, the *)
(* tasks (taskman.c) the worker threads run (ker_worker.c), one request to *)
(* a MEM node after another, and the order in which the node shuts down.   *)
(*                                                                         *)
(* The main thread is `main`, a worker thread is the pc of the task it     *)
(* runs.  A request is the pair of the handle the task has and an id; the  *)
(* code has only the handle, the id tells apart the requests of two lines  *)
(* of a script and those of two tasks that had the same handle.            *)
(*                                                                         *)
(* The buffers of a connection: `out` is cx_net's outbound buffer, `srv`   *)
(* what the MEM node is working on, `ans` the answers on their way back.   *)
(***************************************************************************)
EXTENDS Naturals, Sequences, FiniteSets

CONSTANTS Nodes,        \* numbers of the MEM nodes
          NoNode,       \* INVALID_MEM_NUMBER
          Handles,      \* task handles
          MainThread,   \* the main thread, where a task stands for a worker
          Pause, Stop,  \* CX_POOL_TASK_PAUSE and CX_POOL_TASK_SHUTDOWN
          Workers,      \* number of worker threads
          Tables,       \* table names
          Consistency,  \* table -> its consistency
          Criteria,     \* the criteria in use, "NONE" among them
          Quantum,      \* lines of a script before it is rescheduled
          MaxLines,     \* bound: queries and lines of scripts
          MaxOpens      \* bound: connections started

ASSUME NodesAssumption == NoNode \notin Nodes /\ IsFiniteSet(Nodes)
ASSUME HandlesAssumption ==
    /\ {MainThread, Pause, Stop} \cap Handles = {} /\ Pause # Stop
    /\ IsFiniteSet(Handles)
ASSUME WorkersAssumption == Workers \in Nat \ {0}
ASSUME CriteriaAssumption ==
    /\ "NONE" \in Criteria /\ Criteria \subseteq {"NONE", "SC", "SHC", "EC"}
    /\ Consistency \in [Tables -> Criteria \ {"NONE"}]
ASSUME QuantumAssumption == Quantum \in Nat \ {0}

VARIABLES
    node,   \* number -> mem_node_t and its client connection
    list,   \* criterion -> the nodes assigned to it, in the list's order
    meta,   \* tablesMap: the tables whose consistency is known
    task,   \* handle -> task_t, and the pc of the worker that runs it
    queue,  \* the pool's queue: handles, Pause and Stop
    pool,   \* how many workers wait for work, are paused, are gone
    up,     \* taskman's isRunning
    main,   \* what the main thread is doing
    lines,  \* queries and lines started: the last request id
    opens,  \* connections started, for the bound
    lost,   \* history: requests of the tasks that a flush has dropped
    orphan, \* ... and those on a connection that failed its handshake
    stray   \* history: requests woken up by something else than their answer

history == <<lost, orphan, stray>>
nodeVars == <<node, list>>
poolVars == <<queue, pool, up>>
vars == <<node, list, meta, task, queue, pool, up, main, lines, opens, history>>

Kinds == {"query", "refresh", "run"}

NewNode == [conn |-> "null", handshaking |-> FALSE, available |-> FALSE,
            mtx |-> {}, out |-> {}, srv |-> {}, ans |-> {}]

(* A handle that is not in use.                                            *)
NoTask == [state |-> "none", kind |-> "none", pc |-> "idle", op |-> "none",
           arg |-> "none", got |-> NoNode, memNumber |-> NoNode, id |-> 0,
           err |-> "none", count |-> 0]

Live(h) == task[h].state # "none"
Requests(n) == node[n].out \cup node[n].srv \cup node[n].ans
Ids(packets) == {m.id : m \in packets}
InList(n, c) == \E i \in DOMAIN list[c] : list[c][i] = n

(* cx_list_remove of the node's place in a list, where it is once.         *)
RemoveNode(s, n) ==
    LET at == CHOOSE i \in DOMAIN s : s[i] = n
    IN SubSeq(s, 1, at - 1) \o SubSeq(s, at + 1, Len(s))

(* Worker threads inside cx_net_send on the connection of n: they hold the *)
(* node's rwl for reading.                                                 *)
Readers(n) == {h \in Handles : task[h].pc = "send" /\ task[h].memNumber = n}

Polling == main.pc = "poll"
MainPoll == [pc |-> "poll", n |-> NoNode, todo |-> {}, wrote |-> {}]

Init ==
    /\ node = [n \in Nodes |-> NewNode]
    /\ list = [c \in Criteria |-> <<>>]
    /\ meta = {}
    /\ task = [h \in Handles |-> NoTask]
    /\ queue = <<>>
    /\ pool = [idle |-> Workers, paused |-> 0, gone |-> 0]
    /\ up = TRUE
    /\ main = MainPoll
    /\ lines = 0 /\ opens = 0
    /\ lost = {} /\ orphan = {} /\ stray = {}

-----------------------------------------------------------------------------
(* Connections, polled by the main thread.                                 *)

(* mempool_add, called by gossip_run and gossip's _on_disconnected.        *)
MempoolAdd(n) ==
    /\ Polling /\ opens < MaxOpens
    /\ node[n].conn = "null"
    /\ node' = [node EXCEPT ![n].handshaking = TRUE, ![n].conn = "connecting"]
    /\ opens' = opens + 1
    /\ UNCHANGED <<list, meta, task, poolVars, main, lines, history>>

(* The socket is connected; _on_connected_to_mem sends AUTH.               *)
Connected(n) ==
    /\ Polling /\ node[n].conn = "connecting"
    /\ node' = [node EXCEPT ![n].conn = "open"]
    /\ UNCHANGED <<list, meta, task, poolVars, main, lines, opens, history>>

(* ker_handle_ack; mempool_assign(n, NONE) follows in the same handler.    *)
RecvAck(n) ==
    /\ Polling /\ node[n].conn = "open" /\ node[n].handshaking
    /\ node[n].mtx = {}
    /\ node' = [node EXCEPT ![n].handshaking = FALSE, ![n].available = TRUE]
    /\ list' = IF InList(n, "NONE") THEN list
               ELSE [list EXCEPT !["NONE"] = <<n>> \o @]
    /\ UNCHANGED <<meta, task, poolVars, main, lines, opens, history>>

(* Mutant: the node stays available.                                       *)
ClosedAvailable(r) ==
    [r EXCEPT !.conn = "closed", !.handshaking = FALSE,
              !.out = {}, !.srv = {}, !.ans = {}]

(* cx_net_disconnect and the part of _on_disconnected_from_mem that runs   *)
(* before the first lock: a node that was available has to be unassigned,  *)
(* a handshake that failed only clears the flag.  What was in the buffers  *)
(* is gone.                                                                *)
Closed(r) ==
    [r EXCEPT !.conn = "closed", !.handshaking = FALSE,
              !.available = IF r.handshaking THEN @ ELSE FALSE,
              !.out = {}, !.srv = {}, !.ans = {}]

OrphansOf(n) ==
    IF node[n].handshaking THEN Ids(Requests(n)) ELSE {}

MustUnassign(n) == ~node[n].handshaking /\ node[n].available

(* The connection attempt fails, the peer closes the connection or it      *)
(* breaks.                                                                 *)
Disconnect(n) ==
    /\ Polling /\ node[n].conn \in {"connecting", "open"}
    /\ node' = [node EXCEPT ![n] = Closed(@)]
    /\ orphan' = orphan \cup OrphansOf(n)
    /\ main' = IF MustUnassign(n)
               THEN [main EXCEPT !.pc = "unassign", !.n = n] ELSE main
    /\ UNCHANGED <<list, meta, task, poolVars, lines, opens, lost, stray>>

(* One criterion of the loop of _on_disconnected_from_mem.  listNodeMtx is *)
(* held from the first to the last, the criterion's own lock for one.      *)
Unassign ==
    LET n == main.n IN
    /\ main.pc = "unassign"
    /\ node[n].mtx \subseteq {MainThread}
    /\ IF \E c \in Criteria : InList(n, c)
       THEN /\ \E c \in Criteria :
                  /\ InList(n, c)
                  /\ list' = [list EXCEPT ![c] = RemoveNode(@, n)]
            /\ node' = [node EXCEPT ![n].mtx = {MainThread}]
            /\ UNCHANGED main
       ELSE /\ node' = [node EXCEPT ![n].mtx = {}]
            /\ main' = [main EXCEPT !.pc = "abort", !.todo = Handles]
            /\ UNCHANGED list
    /\ UNCHANGED <<meta, task, poolVars, lines, opens, history>>

(* Mutant: the tasks of every node are aborted.                            *)
AbortsAll(h, n) == task[h].state = "awaiting"

(* _task_req_abort, for one task of taskman_foreach.                       *)
Aborts(h, n) == task[h].state = "awaiting" /\ task[h].memNumber = n

AbortTask(h) ==
    /\ main.pc = "abort" /\ h \in main.todo
    /\ main' = [main EXCEPT !.todo = @ \ {h}]
    /\ IF Aborts(h, main.n)
       THEN /\ task' = [task EXCEPT ![h].state = "running",
                                    ![h].err = "unavailable"]
            /\ stray' = IF task[h].pc = "wait" THEN stray
                        ELSE stray \cup {task[h].id}
       ELSE UNCHANGED <<task, stray>>
    /\ UNCHANGED <<node, list, meta, poolVars, lines, opens, lost, orphan>>

(* Mutant: the loop ends with the first task it has looked at.             *)
AbortDoneFirst ==
    /\ main.pc = "abort" /\ main.todo # Handles
    /\ main' = IF up THEN MainPoll ELSE [main EXCEPT !.pc = "destroy"]
    /\ UNCHANGED <<nodeVars, meta, task, poolVars, lines, opens, history>>

AbortDone ==
    /\ main.pc = "abort" /\ main.todo = {}
    /\ main' = IF up THEN MainPoll ELSE [main EXCEPT !.pc = "destroy"]
    /\ UNCHANGED <<nodeVars, meta, task, poolVars, lines, opens, history>>

(* Mutant: the poll does not take the node's rwl.                          *)
PollDestroyUnlocked(n) ==
    /\ Polling
    /\ node[n].conn # "null" /\ ~node[n].handshaking
    /\ node[n].conn # "open" \/ ~node[n].available
    /\ node' = [node EXCEPT ![n].conn = "null"]
    /\ UNCHANGED <<list, meta, task, poolVars, main, lines, opens, history>>

(* mempool_poll_events destroys the context of a dead connection, with the *)
(* node's rwl held for writing: no worker is inside cx_net_send.           *)
PollDestroy(n) ==
    /\ Polling
    /\ node[n].conn # "null" /\ ~node[n].handshaking
    /\ node[n].conn # "open" \/ ~node[n].available
    /\ Readers(n) = {}
    /\ node' = [node EXCEPT ![n].conn = "null"]
    /\ UNCHANGED <<list, meta, task, poolVars, main, lines, opens, history>>

(* cx_net_flush from the poll: write() takes some of the pending packets,  *)
(* all of them if the socket has room.                                     *)
FlushWrite(n) ==
    /\ Polling /\ node[n].conn = "open" /\ node[n].out # {}
    /\ \E w \in SUBSET node[n].out :
          main' = [main EXCEPT !.pc = "flush", !.n = n, !.wrote = w]
    /\ UNCHANGED <<nodeVars, meta, task, poolVars, lines, opens, history>>

(* ... and then the position goes back to 0, whatever was written and      *)
(* whatever a worker has appended since: the poll does not take ctx.c.mtx. *)
FlushReset ==
    LET n == main.n IN
    /\ main.pc = "flush"
    /\ node' = [node EXCEPT ![n].out = {}, ![n].srv = @ \cup main.wrote]
    /\ lost' = lost \cup Ids(node[n].out \ main.wrote)
    /\ main' = MainPoll
    /\ UNCHANGED <<list, meta, task, poolVars, lines, opens, orphan, stray>>

(* The MEM node answers a request (src/mem: one answer to each).  It reads *)
(* them once it has validated the connection.                              *)
MemAnswer(n) ==
    /\ node[n].conn = "open" /\ ~node[n].handshaking
    /\ \E m \in node[n].srv :
          node' = [node EXCEPT ![n].srv = @ \ {m}, ![n].ans = @ \cup {m}]
    /\ UNCHANGED <<list, meta, task, poolVars, main, lines, opens, history>>

(* ker_handle_res_*: RES_BEGIN finds the task by its handle, RES_END makes *)
(* it RUNNING whatever it was doing.                                       *)
RecvAnswer(n) ==
    /\ Polling /\ node[n].conn = "open" /\ ~node[n].handshaking
    /\ \E m \in node[n].ans :
          /\ node' = [node EXCEPT ![n].ans = @ \ {m}]
          /\ IF Live(m.h)
             THEN \E e \in {"none", "failed"} :
                     task' = [task EXCEPT ![m.h].state = "running",
                                          ![m.h].err = e]
             ELSE UNCHANGED task
          /\ stray' = IF Live(m.h) /\ task[m.h].id # m.id
                      THEN stray \cup {task[m.h].id} ELSE stray
    /\ UNCHANGED <<list, meta, poolVars, main, lines, opens, lost, orphan>>

-----------------------------------------------------------------------------
(* The main thread's side of the tasks.                                    *)

(* A command of the console, one at a time except for scripts, and the     *)
(* metadata refresh timer: taskman_create and taskman_activate.            *)
CreateTask(h, kind) ==
    /\ Polling /\ lines < MaxLines
    /\ ~Live(h)
    /\ kind = "query" => \A k \in Handles : task[k].kind # "query"
    /\ task' = [task EXCEPT ![h] = [NoTask EXCEPT !.state = "new",
                                                  !.kind = kind]]
    /\ UNCHANGED <<nodeVars, meta, poolVars, main, lines, opens, history>>

(* taskman_update, for one task.                                           *)
Submit(h) ==
    /\ Polling /\ task[h].state = "new"
    /\ task' = [task EXCEPT ![h].state = "ready", ![h].err = "none"]
    /\ queue' = IF task[h].kind = "refresh" THEN <<h>> \o queue
                ELSE Append(queue, h)
    /\ UNCHANGED <<nodeVars, meta, pool, up, main, lines, opens, history>>

Reschedule(h) ==
    /\ Polling /\ task[h].state = "reschedule"
    /\ task' = [task EXCEPT ![h].state = "new"]
    /\ UNCHANGED <<nodeVars, meta, poolVars, main, lines, opens, history>>

FreeCompleted(h) ==
    /\ Polling /\ task[h].state = "completed"
    /\ task' = [task EXCEPT ![h] = NoTask]
    /\ UNCHANGED <<nodeVars, meta, poolVars, main, lines, opens, history>>

(* QUERY_EXIT, then taskman_stop: new tasks are denied, the workers are    *)
(* told to pause before anything else in the queue.                        *)
Times(n, x) == [i \in 1..n |-> x]

TaskmanStop ==
    /\ Polling
    /\ up' = FALSE
    /\ queue' = Times(Workers, Pause) \o queue
    /\ main' = [MainPoll EXCEPT !.pc = "halt"]
    /\ UNCHANGED <<nodeVars, meta, task, pool, lines, opens, history>>

(* mempool_disconnect, for each node with a connection: cx_net_disconnect  *)
(* ...                                                                     *)
Halt(n) ==
    /\ main.pc = "halt" /\ node[n].conn # "null"
    /\ node' = [node EXCEPT ![n] = Closed(@)]
    /\ orphan' = orphan \cup OrphansOf(n)
    /\ main' = [main EXCEPT !.n = n,
                            !.pc = IF MustUnassign(n) THEN "unassign"
                                   ELSE "destroy"]
    /\ UNCHANGED <<list, meta, task, poolVars, lines, opens, lost, stray>>

(* ... and cx_net_destroy, without the rwl.                                *)
HaltDestroy ==
    /\ main.pc = "destroy"
    /\ node' = [node EXCEPT ![main.n].conn = "null"]
    /\ main' = [MainPoll EXCEPT !.pc = "halt"]
    /\ UNCHANGED <<list, meta, task, poolVars, lines, opens, history>>

(* taskman_destroy: cx_pool_destroy pushes a SHUTDOWN for each worker,     *)
(* resumes those that paused and joins them all.                           *)
PoolDestroy ==
    /\ main.pc = "halt" /\ \A n \in Nodes : node[n].conn = "null"
    /\ queue' = Times(Workers, Stop) \o queue
    /\ pool' = [pool EXCEPT !.idle = @ + pool.paused, !.paused = 0]
    /\ main' = [MainPoll EXCEPT !.pc = "join"]
    /\ UNCHANGED <<nodeVars, meta, task, up, lines, opens, history>>

Joined ==
    /\ main.pc = "join" /\ pool.gone = Workers
    /\ main' = [main EXCEPT !.pc = "done"]
    /\ UNCHANGED <<nodeVars, meta, task, poolVars, lines, opens, history>>

-----------------------------------------------------------------------------
(* The worker threads: _cx_pool_main_loop, task_run_wk, ker_worker.c.      *)

PopTask(h) ==
    /\ pool.idle > 0 /\ queue # <<>> /\ Head(queue) = h
    /\ queue' = Tail(queue)
    /\ pool' = [pool EXCEPT !.idle = @ - 1]
    /\ task' = [task EXCEPT ![h].state = "running", ![h].pc = "begin"]
    /\ UNCHANGED <<nodeVars, meta, up, main, lines, opens, history>>

PopPause ==
    /\ pool.idle > 0 /\ queue # <<>> /\ Head(queue) = Pause
    /\ queue' = Tail(queue)
    /\ pool' = [pool EXCEPT !.idle = @ - 1, !.paused = @ + 1]
    /\ UNCHANGED <<nodeVars, meta, task, up, main, lines, opens, history>>

PopStop ==
    /\ pool.idle > 0 /\ queue # <<>> /\ Head(queue) = Stop
    /\ queue' = Tail(queue)
    /\ pool' = [pool EXCEPT !.idle = @ - 1, !.gone = @ + 1]
    /\ UNCHANGED <<nodeVars, meta, task, up, main, lines, opens, history>>

(* The worker goes back to the pool, the task in state st.                 *)
Finished(h) == [task[h] EXCEPT !.op = "none", !.arg = "none", !.got = NoNode,
                               !.err = "none"]

Leave(h, st) ==
    /\ task' = [task EXCEPT ![h] = [Finished(h) EXCEPT !.state = st,
                                       !.pc = "idle", !.count = 0]]
    /\ pool' = [pool EXCEPT !.idle = @ + 1]

(* taskman_completion does nothing once taskman has been stopped.          *)
CompletionOf(h) == IF up THEN "completed" ELSE task[h].state

(* A query, or one line of a script: the handler packs the request, clears *)
(* the error and makes the task AWAITING before it looks for a node.       *)
MayRun(h, op) ==
    /\ task[h].pc = "begin" /\ lines < MaxLines
    /\ task[h].kind = "refresh" => op = "describe"

StartRequest(h, op, t) ==
    /\ MayRun(h, op)
    /\ op = "describe" => t = "none"
    /\ lines' = lines + 1
    /\ task' = [task EXCEPT ![h].pc = "get", ![h].state = "awaiting",
                            ![h].err = "none", ![h].op = op, ![h].arg = t,
                            ![h].id = lines + 1]
    /\ UNCHANGED <<nodeVars, meta, poolVars, main, opens, history>>

(* mempool_get: the list the request is routed by, and the nodes it may    *)
(* answer.  An EC or a NONE list is rotated, the key picks in an SHC list. *)
RouteOf(h) ==
    CASE task[h].op = "describe" -> "NONE"
      [] task[h].op = "create" \/ task[h].arg \in meta ->
            Consistency[task[h].arg]
      [] OTHER -> "unknown"

HasNode(c) == c \in Criteria /\ list[c] # <<>>

MempoolGet(h) ==
    LET c == RouteOf(h) IN
    /\ task[h].pc = "get" /\ HasNode(c)
    /\ \E i \in IF c = "SHC" THEN DOMAIN list[c] ELSE {1} :
          task' = [task EXCEPT ![h].got = list[c][i], ![h].pc = "req"]
    /\ list' = IF c \in {"EC", "NONE"}
               THEN [list EXCEPT ![c] = Append(Tail(@), Head(@))] ELSE list
    /\ UNCHANGED <<node, meta, poolVars, main, lines, opens, history>>

(* No table, or no node: the loop ends without a request.                  *)
MempoolGetFails(h) ==
    /\ task[h].pc = "get" /\ ~HasNode(RouteOf(h))
    /\ task' = [task EXCEPT ![h].pc = "after", ![h].state = "running",
                            ![h].memNumber = NoNode, ![h].err = "failed"]
    /\ UNCHANGED <<nodeVars, meta, poolVars, main, lines, opens, history>>

(* responseMemNumber is set; mempool_node_req takes the rwl for reading.   *)
NodeReq(h) ==
    /\ task[h].pc = "req"
    /\ task' = [task EXCEPT ![h].memNumber = task[h].got,
                            ![h].pc = IF node[task[h].got].conn = "null"
                                      THEN "get" ELSE "send"]
    /\ UNCHANGED <<nodeVars, meta, poolVars, main, lines, opens, history>>

(* cx_net_send: anything but OK and the loop looks for a node again.       *)
Send(h) ==
    LET n == task[h].memNumber IN
    /\ task[h].pc = "send"
    /\ IF node[n].conn = "open"
       THEN /\ node' = [node EXCEPT ![n].out =
                           @ \cup {[h |-> h, id |-> task[h].id]}]
            /\ task' = [task EXCEPT ![h].pc = "wait"]
       ELSE /\ task' = [task EXCEPT ![h].pc = "get"]
            /\ UNCHANGED node
    /\ UNCHANGED <<list, meta, poolVars, main, lines, opens, history>>

(* ADD: mempool_assign checks the node under its listNodeMtx ...           *)
Assign(h, n, c) ==
    /\ MayRun(h, "add") /\ node[n].mtx = {}
    /\ lines' = lines + 1
    /\ IF node[n].available /\ ~InList(n, c)
       THEN /\ node' = [node EXCEPT ![n].mtx = {h}]
            /\ task' = [task EXCEPT ![h].pc = "assign", ![h].op = "add",
                                    ![h].arg = c, ![h].got = n,
                                    ![h].id = lines + 1]
       ELSE /\ task' = [task EXCEPT ![h].pc = "after", ![h].op = "add",
                                    ![h].err = "failed", ![h].id = lines + 1]
            /\ UNCHANGED node
    /\ UNCHANGED <<list, meta, poolVars, main, opens, history>>

(* ... and the list under the criterion's lock.  The first MEM node of SC  *)
(* stays its only one; the nodes of SHC are told to journal.               *)
AssignPush(h) ==
    LET c == task[h].arg  n == task[h].got
        success == c = "SC" => list[c] = <<>>
    IN
    /\ task[h].pc = "assign"
    /\ list' = IF success THEN [list EXCEPT ![c] = <<n>> \o @] ELSE list
    /\ node' = [node EXCEPT ![n].mtx = {}]
    /\ task' = [task EXCEPT ![h].pc = "after",
                            ![h].err = IF success THEN @ ELSE "failed"]
    /\ UNCHANGED <<meta, poolVars, main, lines, opens, history>>

(* What a handler does with an answer without error: CREATE and DESCRIBE   *)
(* feed tablesMap, which is emptied first if the DESCRIBE brought several  *)
(* tables; DROP removes its table.                                         *)
FedTables(h) ==
    IF task[h].err # "none" THEN {meta}
    ELSE CASE task[h].op = "create" -> {meta \cup {task[h].arg}}
           [] task[h].op = "drop" -> {meta \ {task[h].arg}}
           [] task[h].op = "describe" ->
                {IF Cardinality(ts) > 1 THEN ts ELSE meta \cup ts :
                    ts \in SUBSET Tables}
           [] OTHER -> {meta}

(* A script goes on after a SELECT that failed and after any other line    *)
(* that did not, until its quantum is exhausted.                           *)
GoesOn(h) ==
    task[h].kind = "run" /\ (task[h].err = "none" \/ task[h].op = "select")

(* The request failed before it was sent, or was answered, or aborted.     *)
Awake(h) ==
    \/ task[h].pc = "after"
    \/ task[h].pc = "wait" /\ task[h].state # "awaiting"

After(h) ==
    /\ Awake(h) /\ meta' \in FedTables(h)
    /\ IF ~GoesOn(h)
       THEN Leave(h, CompletionOf(h))
       ELSE IF task[h].count + 1 < Quantum
       THEN /\ task' = [task EXCEPT ![h] = [Finished(h) EXCEPT !.pc = "begin",
                                              !.count = @ + 1]]
            /\ UNCHANGED pool
       ELSE Leave(h, "reschedule")
    /\ lost' = lost \ {task[h].id}
    /\ orphan' = orphan \ {task[h].id}
    /\ UNCHANGED <<nodeVars, queue, up, main, lines, opens, stray>>

(* The end of a script; and the bound on the lines.                        *)
EndOfFile(h) ==
    /\ task[h].pc = "begin"
    /\ task[h].kind = "run" \/ lines = MaxLines
    /\ Leave(h, CompletionOf(h))
    /\ UNCHANGED <<nodeVars, meta, queue, up, main, lines, opens, history>>

-----------------------------------------------------------------------------
MainNext ==
    \/ \E n \in Nodes :
          \/ MempoolAdd(n) \/ Connected(n) \/ RecvAck(n) \/ Disconnect(n)
          \/ PollDestroy(n) \/ FlushWrite(n) \/ RecvAnswer(n) \/ Halt(n)
    \/ Unassign \/ AbortDone \/ FlushReset
    \/ \E h \in Handles :
          \/ \E kind \in Kinds : CreateTask(h, kind)
          \/ Submit(h) \/ Reschedule(h) \/ FreeCompleted(h) \/ AbortTask(h)
    \/ TaskmanStop \/ HaltDestroy \/ PoolDestroy \/ Joined

Work(h) ==
    \/ MempoolGet(h) \/ MempoolGetFails(h) \/ NodeReq(h) \/ Send(h)
    \/ AssignPush(h) \/ After(h) \/ EndOfFile(h)

Start(h) ==
    \/ \E op \in {"create", "drop", "select"}, t \in Tables :
          StartRequest(h, op, t)
    \/ StartRequest(h, "describe", "none")
    \/ \E n \in Nodes, c \in Criteria : Assign(h, n, c)

PoolNext == PopPause \/ PopStop \/ \E h \in Handles : PopTask(h)

Next ==
    \/ MainNext \/ PoolNext
    \/ \E n \in Nodes : MemAnswer(n)
    \/ \E h \in Handles : Work(h) \/ Start(h)

Spec == Init /\ [][Next]_vars
-----------------------------------------------------------------------------
(* mempool.c:684, :687 and :298: a node the workers may pick for a         *)
(* criterion has a connection that was not destroyed and has passed its    *)
(* handshake, unless the main thread is just taking it out; it is there    *)
(* once, and SC has one node.  Assigning (workers, two locks) races with   *)
(* unassigning (main thread).                                              *)
AssignedUsable ==
    \A c \in Criteria :
        /\ \A i, j \in DOMAIN list[c] : i # j => list[c][i] # list[c][j]
        /\ \A i \in DOMAIN list[c] : LET n == list[c][i] IN
              \/ node[n].conn = "open" /\ node[n].available
              \/ main.pc = "unassign" /\ main.n = n
        /\ c = "SC" => Len(list[c]) <= 1

(* mempool.c:205 and :501: the context a worker is sending on is not freed *)
(* under it, as long as the node is not shutting down.                     *)
SendSafe ==
    up => \A n \in Nodes : Readers(n) # {} => node[n].conn # "null"

(* mempool.c:709 and :716: a request under way on a connection belongs to  *)
(* a task that still waits for that very request, so that its answer goes  *)
(* to nobody else, unless the task was woken up before it had sent it.     *)
AnswerMatches ==
    \A n \in Nodes : \A m \in Requests(n) :
        \/ task[m.h].id = m.id /\ task[m.h].pc = "wait"
              /\ task[m.h].state = "awaiting" /\ task[m.h].memNumber = n
        \/ m.id \in stray

Waiting(h) == task[h].pc = "wait" /\ task[h].state = "awaiting"

(* The task's request is under way, or the main thread is about to abort   *)
(* it because its node is gone.                                            *)
Served(h) ==
    LET n == task[h].memNumber IN
    \/ \E m \in Requests(n) : m.h = h /\ m.id = task[h].id
    \/ main.pc = "unassign" /\ main.n = n
    \/ main.pc = "abort" /\ main.n = n /\ h \in main.todo

(* taskman.c:108, mempool.c:709: no worker waits for an answer that cannot *)
(* come, not even while the node shuts down and joins its workers; what a  *)
(* flush has dropped and what was sent before the handshake are excepted.  *)
AwaitingServed ==
    \A h \in Handles :
        Waiting(h) => Served(h) \/ task[h].id \in lost \cup orphan

=============================================================================
