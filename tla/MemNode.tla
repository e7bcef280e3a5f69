------------------------------ MODULE MemNode ------------------------------
(***************************************************************************)
(* A MEM node between its clients and LFS: the server context of           *)
(* cx/src/net.c with its clients and their handles, the tasks that carry a *)
(* client's requests, the worker threads that forward them over the one    *)
(* client context to LFS (mem_worker.c), and the order in which the node   *)
(* shuts down (mem.c).                                                     *)
(*                                                                         *)
(* A connection of a KER node is an element of Conns, and the answer to a  *)
(* request is the connection that asked.  The server context belongs to    *)
(* the main thread: each of its steps is atomic.  Payloads, pings and the  *)
(* gossip are left out; what the pages of the node answer themselves       *)
(* (PageCache) is a request that needs no LFS.                             *)
(***************************************************************************)
EXTENDS Halloc, Sequences, FiniteSets

CONSTANTS MaxConns,    \* bound: connections that clients start
          Fds,         \* descriptors accept may return
          Tasks,       \* task handles
          Workers,     \* number of worker threads
          VersionMod,  \* versions of a client handle, 2^16 in the code
          MaxPackets   \* bound: packets the clients send after AUTH

Conns == 1..MaxConns  \* in the order in which they are started

ASSUME ConnsAssumption == MaxConns \in Nat
ASSUME FdsAssumption == Fds \subseteq Nat
ASSUME WorkersAssumption == Workers \in Nat \ {0}
ASSUME VersionModAssumption == VersionMod \in Nat \ {0, 1}

VARIABLES
    sv,       \* the server context and the connections it serves
    lfs,      \* the client context of LFS
    task,     \* handle -> task_t, and the pc of the worker that runs it
    running,  \* g_ctx.isRunning
    up,       \* taskman's isRunning
    main,     \* what the main thread is doing
    sent,     \* packets the clients have sent, for the bound
    lost      \* history: the tasks whose request a flush has dropped

vars == <<sv, lfs, task, running, up, main, sent, lost>>

NoFd == -1  \* INVALID_DESCRIPTOR

NoConn == [st |-> "none", fd |-> NoFd, in |-> <<>>, eof |-> FALSE, got |-> {}]
NoClient == [ver |-> 0, fd |-> NoFd, validated |-> FALSE, conn |-> 0,
             out |-> {}]
NoTask == [state |-> "none", pc |-> "idle", cid |-> [h |-> 0, ver |-> 0],
           asker |-> 0]

Live(t) == task[t].state # "none"
NoIds == [i \in Handle |-> [h |-> 0, ver |-> 0]]
Idle == [pc |-> "poll", ids |-> NoIds, count |-> 0, todo |-> {}, wrote |-> {}]

Init ==
    /\ sv = [conn |-> [c \in Conns |-> NoConn],
             client |-> [h \in Handle |-> NoClient],
             ha |-> FreshTable, twice |-> FALSE, ub |-> FALSE]
    /\ lfs = [st |-> "open", out |-> {}, srv |-> {}, ans |-> {}]
    /\ task = [t \in Tasks |-> NoTask]
    /\ running = TRUE /\ up = TRUE
    /\ main = Idle
    /\ sent = 0
    /\ lost = {}

-----------------------------------------------------------------------------
(* The server context.                                                     *)

CidOf(s, h) == [h |-> h, ver |-> s.client[h].ver]
OpenFds(s) == {s.conn[c].fd : c \in {d \in Conns : s.conn[d].st = "open"}}

(* CX_NET_VALID_CID compares the versions and nothing else.                *)
ValidCid(s, cid) == s.client[cid.h].ver = cid.ver

(* The end of cx_net_disconnect.  A second one of the same client frees    *)
(* its handle again: `twice`.  From a count of 0 the count wraps around to *)
(* 65535, an index outside of the arrays: undefined behaviour.             *)
CloseClient(s, h) ==
    IF s.ha.num = 0 THEN [s EXCEPT !.ub = TRUE, !.twice = TRUE]
    ELSE [s EXCEPT
            !.conn = [c \in Conns |->
                        IF @[c].st = "open" /\ @[c].fd = s.client[h].fd
                        THEN [@[c] EXCEPT !.st = "closed", !.fd = NoFd,
                                          !.in = <<>>]
                        ELSE @[c]],
            !.client[h].fd = NoFd,
            !.ha = Free(@, h),
            !.twice = @ \/ ~IsValid(s.ha, h)]

Disconnect(s, cid) == IF ValidCid(s, cid) THEN CloseClient(s, cid.h) ELSE s

(* Mutant: the version of a handle stays the same.                         *)
AcceptedSameVersion(s, c, fd) ==
    LET h == NextOf(s.ha) IN
    [s EXCEPT !.ha = AllocKey(@, fd),
              !.conn[c].st = "open", !.conn[c].fd = fd,
              !.client[h] = [NoClient EXCEPT !.ver = s.client[h].ver,
                                             !.fd = fd, !.conn = c]]

Accepted(s, c, fd) ==
    LET h == NextOf(s.ha) IN
    [s EXCEPT !.ha = AllocKey(@, fd),
              !.conn[c].st = "open", !.conn[c].fd = fd,
              !.client[h] = [NoClient EXCEPT
                               !.ver = (s.client[h].ver + 1) % VersionMod,
                               !.fd = fd, !.conn = c]]

Rejected(s, c) == [s EXCEPT !.conn[c].st = "closed"]

(* The main thread is in _cx_net_poll_events_server, from the main loop or *)
(* from cx_net_destroy.                                                    *)
Serving == ~sv.ub /\ main.pc \in {"poll", "closing"}
Polling == ~sv.ub /\ main.pc = "poll"

(* An event of the listening socket; accept takes the connection that was  *)
(* started first and returns the lowest descriptor that is free.           *)
Accept(c) ==
    LET free == Fds \ OpenFds(sv)
        fd == CHOOSE f \in free : \A g \in free : f <= g
    IN
    /\ Polling /\ sv.conn[c].st = "queued" /\ free # {}
    /\ \A d \in 1 .. c - 1 : sv.conn[d].st # "queued"
    /\ sv' = IF running /\ ~IsFull(sv.ha) /\ ~ContainsKey(sv.ha, fd)
             THEN Accepted(sv, c, fd) ELSE Rejected(sv, c)
    /\ UNCHANGED <<lfs, task, running, up, main, sent, lost>>

(* mem_handle_auth, with either password.                                  *)
HandleAuth(x, h) == [x EXCEPT !.s.client[h].validated = TRUE]
HandleBadAuth(x, h) == [x EXCEPT !.s = Disconnect(@, CidOf(@, h))]

(* mem_handle_req_*: REQ_BEGIN and REQ_END.  Without a free task handle, or *)
(* once the node stops, the request is dropped.                            *)
HandleReq(x, h) ==
    LET free == {t \in Tasks : x.task[t].state = "none"} IN
    IF ~up \/ free = {} THEN x
    ELSE [x EXCEPT !.task[CHOOSE t \in free : TRUE] =
            [NoTask EXCEPT !.state = "new", !.cid = CidOf(x.s, h),
                           !.asker = x.s.client[h].conn]]

(* _cx_net_process_stream: one packet after another, whatever becomes of   *)
(* the client; if one was invalid the connection ends.                     *)
HandlePacket(x, p, h) ==
    CASE p = "auth" -> HandleAuth(x, h)
      [] p = "badauth" -> HandleBadAuth(x, h)
      [] p = "req" /\ x.s.client[h].validated -> HandleReq(x, h)
      [] OTHER -> [x EXCEPT !.ok = FALSE]

ProcessStream(packets, h) ==
    LET after[n \in 0 .. Len(packets)] ==
          IF n = 0 THEN [s |-> sv, task |-> task, ok |-> TRUE]
          ELSE HandlePacket(after[n - 1], packets[n], h)
        end == after[Len(packets)]
    IN  IF end.ok THEN end ELSE HandleBadAuth(end, h)

(* An event of a client's descriptor: recv reads the packets that are      *)
(* there, or the end of the stream.                                        *)
Recv(fd) ==
    LET h == HandleGet(sv.ha, fd) IN
    /\ Serving /\ fd \in OpenFds(sv) /\ ContainsKey(sv.ha, fd)
    /\ \E c \in Conns :
          /\ sv.conn[c].st = "open" /\ sv.conn[c].fd = sv.client[h].fd
          /\ IF sv.conn[c].in # <<>>
             THEN LET end == ProcessStream(sv.conn[c].in, h) IN
                  /\ sv' = [end.s EXCEPT !.conn[c].in = <<>>]
                  /\ task' = end.task
             ELSE /\ sv.conn[c].eof
                  /\ sv' = Disconnect(sv, CidOf(sv, h))
                  /\ UNCHANGED task
    /\ UNCHANGED <<lfs, running, up, main, sent, lost>>

(* cx_net_flush, for clients H: write() takes what is in the buffers of W, *)
(* for their descriptors, and what it does not take is dropped.            *)
FlushTo(s, H, W) ==
    LET answers(c) == UNION {s.client[h].out :
                        h \in {g \in W : s.client[g].fd = s.conn[c].fd}}
    IN  [s EXCEPT
           !.client = [h \in Handle |->
                         IF h \in H THEN [s.client[h] EXCEPT !.out = {}]
                         ELSE s.client[h]],
           !.conn = [c \in Conns |->
                       IF s.conn[c].st # "open" THEN s.conn[c]
                       ELSE [s.conn[c] EXCEPT !.got = @ \cup answers(c)]]]

(* The handles in use, as the loops over indexToHandle find them.          *)
InUse(s) == {s.ha.i2h[i] : i \in 0 .. s.ha.num - 1}

Flush(h) ==
    /\ Serving /\ h \in InUse(sv) /\ sv.client[h].out # {}
    /\ \E W \in SUBSET {h} : sv' = FlushTo(sv, {h}, W)
    /\ UNCHANGED <<lfs, task, running, up, main, sent, lost>>

(* The sweep at the end of the poll, with the clients whose handshake took *)
(* too long and those that were silent too long: a client may be both, if  *)
(* the poll comes late.                                                    *)
Timeouts(s, unvalidated, inactive) ==
    /\ unvalidated \subseteq {h \in InUse(s) : ~s.client[h].validated}
    /\ inactive \subseteq InUse(s)

(* Client by client the sweep notes the ids in the one array tmpIds, of    *)
(* the former from its front, of the latter from its back: if there are    *)
(* more than it has entries, they write over each other.                   *)
NoteFront(x, cid) == [x EXCEPT !.ids[x.front] = cid, !.front = @ + 1]
NoteBack(x, cid) ==
    [x EXCEPT !.ids[MaxHandles - 1 - x.back] = cid, !.back = @ + 1]

Note(s, x, h, unvalidated, inactive) ==
    LET y == IF h \in unvalidated THEN NoteFront(x, CidOf(s, h)) ELSE x
    IN  IF h \in inactive THEN NoteBack(y, CidOf(s, h)) ELSE y

Noted(s, tmpIds, unvalidated, inactive) ==
    LET after[n \in 0 .. s.ha.num] ==
          IF n = 0 THEN [ids |-> tmpIds, front |-> 0, back |-> 0]
          ELSE Note(s, after[n - 1], s.ha.i2h[n - 1], unvalidated, inactive)
    IN  after[s.ha.num]

First(tmpIds, n) == [i \in 1 .. n |-> tmpIds[i - 1]]
Last(tmpIds, n) == [i \in 1 .. n |-> tmpIds[MaxHandles - i]]
Listed(x) == First(x.ids, x.front) \o Last(x.ids, x.back)

(* One client after another: each disconnection sees what those before it  *)
(* have left.                                                              *)
DisconnectAll(s, cids) ==
    LET after[n \in 0 .. Len(cids)] ==
          IF n = 0 THEN s ELSE Disconnect(after[n - 1], cids[n])
    IN  after[Len(cids)]

Sweep ==
    /\ Polling
    /\ \E unvalidated, inactive \in SUBSET Handle :
          /\ unvalidated \cup inactive # {}
          /\ Timeouts(sv, unvalidated, inactive)
          /\ LET x == Noted(sv, NoIds, unvalidated, inactive)
             IN  sv' = DisconnectAll(sv, Listed(x))
    /\ UNCHANGED <<lfs, task, running, up, main, sent, lost>>

-----------------------------------------------------------------------------
(* The tasks and the worker threads.                                       *)

Running(t) == task[t].pc # "idle"
IdleWorker == Cardinality({t \in Tasks : Running(t)}) < Workers

(* taskman_update submits a task and a worker takes it; once the pool is   *)
(* told to pause no worker takes another one.  The worker finds the answer *)
(* in the node's pages ...                                                 *)
MayStart(t) == ~sv.ub /\ up /\ task[t].state = "new" /\ IdleWorker

StartLocal(t) ==
    /\ MayStart(t)
    /\ task' = [task EXCEPT ![t].state = "running", ![t].pc = "run"]
    /\ UNCHANGED <<sv, lfs, running, up, main, sent, lost>>

(* ... or, in _worker_request_lfs, makes the task wait before its request  *)
(* is sent ...                                                             *)
StartRequest(t) ==
    /\ MayStart(t)
    /\ task' = [task EXCEPT ![t].state = "awaiting", ![t].pc = "send"]
    /\ UNCHANGED <<sv, lfs, running, up, main, sent, lost>>

(* ... cx_net_send; with the context destroyed, g_ctx.lfs is NULL or freed. *)
Send(t) ==
    /\ ~sv.ub /\ task[t].pc = "send"
    /\ CASE lfs.st = "open" ->
              /\ lfs' = [lfs EXCEPT !.out = @ \cup {t}]
              /\ task' = [task EXCEPT ![t].pc = "run"]
              /\ UNCHANGED sv
         [] lfs.st = "closed" ->
              /\ task' = [task EXCEPT ![t].state = "running", ![t].pc = "run"]
              /\ UNCHANGED <<lfs, sv>>
         [] lfs.st = "null" ->
              /\ sv' = [sv EXCEPT !.ub = TRUE]
              /\ UNCHANGED <<lfs, task>>
    /\ UNCHANGED <<running, up, main, sent, lost>>

(* The task does not wait, or not any more; taskman_completion does        *)
(* nothing once taskman has been stopped.                                  *)
Completion(t) ==
    /\ ~sv.ub /\ task[t].pc = "run" /\ task[t].state # "awaiting"
    /\ task' = [task EXCEPT ![t].pc = "idle",
                            ![t].state = IF up THEN "completed" ELSE @]
    /\ lost' = lost \ {t}
    /\ UNCHANGED <<sv, lfs, running, up, main, sent>>

(* taskman_update: api_response_* sends the answer to the task's client,   *)
(* or to nobody, and the task is freed.                                    *)
Respond(t) ==
    /\ Polling /\ task[t].state = "completed"
    /\ sv' = IF ValidCid(sv, task[t].cid)
             THEN [sv EXCEPT !.client[task[t].cid.h].out =
                                @ \cup {task[t].asker}]
             ELSE sv
    /\ task' = [task EXCEPT ![t] = NoTask]
    /\ UNCHANGED <<lfs, running, up, main, sent, lost>>

-----------------------------------------------------------------------------
(* The client context of LFS.                                              *)

(* cx_net_flush from the poll: write() takes some of the requests ...      *)
FlushWrite ==
    /\ Polling /\ lfs.st = "open" /\ lfs.out # {}
    /\ \E w \in SUBSET lfs.out :
          main' = [main EXCEPT !.pc = "flush", !.wrote = w]
    /\ UNCHANGED <<sv, lfs, task, running, up, sent, lost>>

(* ... and the position goes back to 0.                                    *)
FlushReset ==
    /\ ~sv.ub /\ main.pc = "flush"
    /\ lfs' = [lfs EXCEPT !.out = {}, !.srv = @ \cup main.wrote]
    /\ lost' = lost \cup (lfs.out \ main.wrote)
    /\ main' = Idle
    /\ UNCHANGED <<sv, task, running, up, sent>>

(* LFS answers each request once.                                          *)
LfsAnswer(t) ==
    /\ ~sv.ub /\ lfs.st = "open" /\ t \in lfs.srv
    /\ lfs' = [lfs EXCEPT !.srv = @ \ {t}, !.ans = @ \cup {t}]
    /\ UNCHANGED <<sv, task, running, up, main, sent, lost>>

(* mem_handle_res_*; taskman_get finds no task once taskman has stopped.   *)
RecvAnswer(t) ==
    /\ ~sv.ub /\ main.pc \in {"poll", "close lfs"}
    /\ lfs.st = "open" /\ t \in lfs.ans
    /\ lfs' = [lfs EXCEPT !.ans = @ \ {t}]
    /\ task' = IF up /\ Live(t)
               THEN [task EXCEPT ![t].state = "running"] ELSE task
    /\ UNCHANGED <<sv, running, up, main, sent, lost>>

(* cx_net_disconnect, then on_disconnected_from_lfs up to taskman_foreach. *)
Closed(l) == [st |-> "closed", out |-> {}, srv |-> {}, ans |-> {}]

LfsDisconnect ==
    /\ ~sv.ub /\ main.pc \in {"poll", "close lfs"} /\ lfs.st = "open"
    /\ lfs' = Closed(lfs)
    /\ running' = FALSE
    /\ main' = [main EXCEPT !.pc = IF @ = "poll" THEN "abort" ELSE "last abort",
                            !.todo = Tasks]
    /\ UNCHANGED <<sv, task, up, sent, lost>>

(* task_req_abort, for one task of taskman_foreach.                        *)
Aborts(t) == task[t].state = "awaiting"

AbortTask(t) ==
    /\ ~sv.ub /\ main.pc \in {"abort", "last abort"} /\ t \in main.todo
    /\ main' = [main EXCEPT !.todo = @ \ {t}]
    /\ task' = IF Aborts(t)
               THEN [task EXCEPT ![t].state = "running"] ELSE task
    /\ UNCHANGED <<sv, lfs, running, up, sent, lost>>

(* Mutant: the loop ends with the first task it has looked at.             *)
AbortDoneFirst ==
    /\ ~sv.ub /\ main.pc \in {"abort", "last abort"} /\ main.todo # Tasks
    /\ main' = [Idle EXCEPT !.pc = IF main.pc = "abort" THEN "poll"
                                   ELSE "close lfs"]
    /\ UNCHANGED <<sv, lfs, task, running, up, sent, lost>>

AbortDone ==
    /\ ~sv.ub /\ main.pc \in {"abort", "last abort"} /\ main.todo = {}
    /\ main' = [Idle EXCEPT !.pc = IF main.pc = "abort" THEN "poll"
                                   ELSE "close lfs"]
    /\ UNCHANGED <<sv, lfs, task, running, up, sent, lost>>

-----------------------------------------------------------------------------
(* The end of main.                                                        *)

(* QUERY_EXIT                                                              *)
Exit ==
    /\ Polling /\ running
    /\ running' = FALSE
    /\ UNCHANGED <<sv, lfs, task, up, main, sent, lost>>

(* taskman_stop, and the first loop of cx_net_destroy on the server: it    *)
(* notes the ids of its clients in tmpIds and flushes their buffers.       *)
TaskmanStop ==
    /\ Polling /\ ~running
    /\ up' = FALSE
    /\ main' = [Idle EXCEPT !.pc = "closing", !.count = sv.ha.num,
                            !.ids = Noted(sv, NoIds, InUse(sv), {}).ids]
    /\ \E W \in SUBSET InUse(sv) : sv' = FlushTo(sv, InUse(sv), W)
    /\ UNCHANGED <<lfs, task, running, sent, lost>>

(* The sweep of the last poll writes over tmpIds; then those clients are   *)
(* disconnected whose ids are where the ids had been noted.                *)
ServerDestroy ==
    /\ ~sv.ub /\ main.pc = "closing"
    /\ \E unvalidated, inactive \in SUBSET Handle :
          /\ Timeouts(sv, unvalidated, inactive)
          /\ LET x == Noted(sv, main.ids, unvalidated, inactive)
             IN  sv' = DisconnectAll(sv, Listed(x) \o First(x.ids, main.count))
    /\ main' = [Idle EXCEPT !.pc = "close lfs"]
    /\ UNCHANGED <<lfs, task, running, up, sent, lost>>

(* Mutant: the context is destroyed without a disconnection.               *)
LfsDestroyOpen ==
    /\ ~sv.ub /\ main.pc = "close lfs"
    /\ lfs' = [lfs EXCEPT !.st = "null"]
    /\ main' = [main EXCEPT !.pc = "join"]
    /\ UNCHANGED <<sv, task, running, up, sent, lost>>

(* cx_net_destroy on the client context, once it is not connected.         *)
LfsDestroy ==
    /\ ~sv.ub /\ main.pc = "close lfs" /\ lfs.st = "closed"
    /\ lfs' = [lfs EXCEPT !.st = "null"]
    /\ main' = [main EXCEPT !.pc = "join"]
    /\ UNCHANGED <<sv, task, running, up, sent, lost>>

(* taskman_destroy joins the workers.                                      *)
Joined ==
    /\ ~sv.ub /\ main.pc = "join" /\ \A t \in Tasks : ~Running(t)
    /\ main' = [main EXCEPT !.pc = "done"]
    /\ UNCHANGED <<sv, lfs, task, running, up, sent, lost>>

-----------------------------------------------------------------------------
(* The clients.                                                            *)

(* A client sends AUTH once it is connected, if it does at all; with the   *)
(* right password or not.                                                  *)
ClientConnect(c, first) ==
    /\ ~sv.ub /\ up /\ sv.conn[c].st = "none"
    /\ \A d \in 1 .. c - 1 : sv.conn[d].st # "none"
    /\ sv' = [sv EXCEPT !.conn[c].st = "queued", !.conn[c].in = first]
    /\ UNCHANGED <<lfs, task, running, up, main, sent, lost>>

ClientSend(c, p) ==
    /\ ~sv.ub /\ sv.conn[c].st = "open" /\ ~sv.conn[c].eof
    /\ sent < MaxPackets
    /\ sv' = [sv EXCEPT !.conn[c].in = Append(@, p)]
    /\ sent' = sent + 1
    /\ UNCHANGED <<lfs, task, running, up, main, lost>>

ClientClose(c) ==
    /\ ~sv.ub /\ sv.conn[c].st = "open" /\ ~sv.conn[c].eof
    /\ sv' = [sv EXCEPT !.conn[c].eof = TRUE]
    /\ UNCHANGED <<lfs, task, running, up, main, sent, lost>>

-----------------------------------------------------------------------------
ServerNext ==
    \/ \E c \in Conns : Accept(c)
    \/ \E fd \in Fds : Recv(fd)
    \/ \E h \in Handle : Flush(h)
    \/ Sweep

LfsNext ==
    \/ FlushWrite \/ FlushReset \/ LfsDisconnect \/ AbortDone
    \/ \E t \in Tasks : RecvAnswer(t) \/ AbortTask(t)

StopNext == TaskmanStop \/ ServerDestroy \/ LfsDestroy \/ Joined

Work(t) == StartLocal(t) \/ StartRequest(t) \/ Send(t) \/ Completion(t)

ClientNext(c) ==
    \/ \E first \in {<<>>, <<"auth">>, <<"badauth">>} : ClientConnect(c, first)
    \/ \E p \in {"req", "bad"} : ClientSend(c, p)
    \/ ClientClose(c)

Next ==
    \/ ServerNext \/ LfsNext \/ StopNext \/ Exit
    \/ \E t \in Tasks : Work(t) \/ Respond(t) \/ LfsAnswer(t)
    \/ \E c \in Conns : ClientNext(c)

(* The main thread goes on with what it is doing and each worker is        *)
(* scheduled.  That a client sends something, that LFS answers or goes     *)
(* away, or that somebody types EXIT need never happen.                    *)
MainStep ==
    \/ FlushReset \/ AbortDone \/ StopNext
    \/ main.pc = "close lfs" /\ LfsDisconnect
    \/ \E t \in Tasks : AbortTask(t)

Fairness == WF_vars(MainStep) /\ \A t \in Tasks : WF_vars(Work(t))

Spec == Init /\ [][Next]_vars
FairSpec == Spec /\ Fairness
-----------------------------------------------------------------------------
(* halloc.c:97, net.c:560: the handles in use are those of the connections *)
(* that are open, each found by its descriptor, as long as no client has   *)
(* been disconnected twice, which the check of net.c:24 does not prevent.  *)
Exact ==
    /\ WellFormed(sv.ha)
    /\ Cardinality({c \in Conns : sv.conn[c].st = "open"}) = sv.ha.num
    /\ \A h \in ValidHandles(sv.ha) :
          LET fd == sv.client[h].fd IN
          /\ fd \in OpenFds(sv) /\ ContainsKey(sv.ha, fd)
          /\ HandleGet(sv.ha, fd) = h

HandlesExact == ~sv.twice => Exact

(* net.c:802, mem.c:782: a client only gets answers to what it has asked   *)
(* over that very connection, whichever handle and descriptor it has.      *)
AnswersAsker ==
    /\ \A c \in Conns : sv.conn[c].got \subseteq {c}
    /\ \A h \in ValidHandles(sv.ha) : sv.client[h].out \subseteq {sv.client[h].conn}

Waiting(t) == task[t].pc = "run" /\ task[t].state = "awaiting"

(* mem_worker.c:184, mem.c:643: a worker that waits for LFS has a request  *)
(* under way or is about to be aborted, unless a flush has dropped it.     *)
AwaitingServed ==
    \A t \in Tasks : Waiting(t) =>
        \/ t \in lfs.out \cup lfs.srv \cup lfs.ans \cup lost
        \/ main.pc \in {"abort", "last abort"} /\ t \in main.todo
        \/ main.pc = "close lfs" /\ lfs.st = "open"

(* mem.c:138: once the node is told to stop it ends: no worker keeps       *)
(* taskman_destroy waiting (or it dies of undefined behaviour).            *)
Stops == ~running ~> (main.pc = "done" \/ sv.ub)
=============================================================================
