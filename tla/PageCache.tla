----------------------------- MODULE PageCache ------------------------------
(***************************************************************************)
(* The page cache of a MEM node (mem/src/mm.c): the segments and their     *)
(* pages, the frames of main memory, the LRU list, the SELECTs and INSERTs *)
(* that worker threads run over them, and the journal that writes the      *)
(* modified pages to LFS and empties the memory.                           *)
(*                                                                         *)
(* Three kinds of lock protect them: a mutex per segment (the one of its   *)
(* dictionary `pages`), a read-write lock per page, and pagesMtx for the   *)
(* frames and the LRU list.  Who holds which follows from where the tasks  *)
(* stand.  Of a record only table, key and timestamp are kept: the newest  *)
(* timestamp is the one that counts.  LFS is the map it promises to be     *)
(* (KvStore); DROP is left out, and so is the loss of LFS, after which the *)
(* node shuts down.                                                        *)
(***************************************************************************)
EXTENDS Naturals, Sequences, FiniteSets

CONSTANTS Tables, Keys,
          Timestamps,   \* timestamps an INSERT may carry
          FrameMax,     \* frames of main memory
          Tasks,        \* the tasks that carry SELECTs and INSERTs
          MaxRequests,  \* bound: requests
          None          \* no page, no task, no record

ASSUME TimestampsAssumption == Timestamps \subseteq Nat \ {0}
ASSUME FrameMaxAssumption == FrameMax \in Nat \ {0}
ASSUME MaxRequestsAssumption == MaxRequests \in Nat
ASSUME NoneAssumption == None \notin Tasks \cup Nat

Frames == 0 .. FrameMax - 1
Record == [tbl : Tables, key : Keys, ts : Timestamps]

ASSUME NoneRecordAssumption == None \notin Record \cup Tables

VARIABLES
    lfs,        \* table -> key -> newest timestamp LFS holds, or 0
    wire,       \* records sent to LFS by a journal and not yet inserted
    seg,        \* tablesMap: table -> key -> its page, or None
    page,       \* frame -> its page_t and content
    count,      \* pagesCount
    lru,        \* pagesLru, first to last
    task,       \* task -> its task_t and where its handler stands
    pushing,    \* the task between queue_push and state = AWAITING, or None
    queue,      \* blockedQueue
    blocked,    \* reslock.blocked
    journaling, \* the flag `journaling`
    jpc,        \* where the journal task stands
    requests,   \* requests so far, for the bound
    acked,      \* history: table -> key -> newest acknowledged record, or 0
    mixed,      \* history: a page has come to serve two keys, see Fill
    outdated    \* history: items whose page came to hold an outdated record

memVars == <<seg, page, count, lru>>
lfsVars == <<lfs, wire>>
journalVars == <<queue, blocked, journaling, jpc>>
historyVars == <<acked, mixed, outdated>>
vars == <<lfsVars, memVars, task, pushing, journalVars, requests, historyVars>>

Newest(a, b) == IF a > b THEN a ELSE b

(* cx_list_remove of the page's node, which is in the list once.           *)
Without(s, p) ==
    IF \E i \in DOMAIN s : s[i] = p
    THEN LET at == CHOOSE i \in DOMAIN s : s[i] = p
         IN SubSeq(s, 1, at - 1) \o SubSeq(s, at + 1, Len(s))
    ELSE s

NoTask == [pc |-> "idle", op |-> "none", tbl |-> None, key |-> None, ts |-> 0,
           page |-> None, err |-> "none", reply |-> None, floor |-> 0]

NoPage == [parent |-> None, modified |-> FALSE, rec |-> None]

Init ==
    /\ lfs \in [Tables -> [Keys -> Timestamps \cup {0}]]
    /\ wire = {}
    /\ seg = [t \in Tables |-> [k \in Keys |-> None]]
    /\ page = [f \in Frames |-> NoPage]
    /\ count = 0 /\ lru = <<>>
    /\ task = [w \in Tasks |-> NoTask]
    /\ pushing = None
    /\ queue = <<>> /\ blocked = FALSE /\ journaling = FALSE /\ jpc = "idle"
    /\ requests = 0
    /\ acked = lfs
    /\ mixed = FALSE /\ outdated = {}

-----------------------------------------------------------------------------
(* Locks.                                                                  *)

At(w, pc) == task[w].pc = pc

(* Inside the availability guard of the memory.                            *)
Outside == {"idle", "new", "ready", "reschedule", "pushed", "awaiting", "done"}
Inside == {w \in Tasks : task[w].pc \notin Outside}

(* Holding the mutex of its table's segment.                               *)
HoldsSegment(w) == task[w].pc \in {"readPage", "touch", "writePage", "relist",
                                   "alloc", "evict", "fill"}

SegmentFree(t) == \A w \in Tasks : HoldsSegment(w) => task[w].tbl # t

(* Mutant of HoldsRead: the lock of a page that turned out to belong to    *)
(* another segment is never given back.                                    *)
HoldsReadLong(w) ==
    \/ At(w, "touch")
    \/ /\ task[w].op = "select" /\ task[w].page # None
       /\ task[w].pc \in {"asking", "writeLock", "writePage"}
       /\ page[task[w].page].parent # task[w].tbl

(* Holding the read-write lock of its page, to read or to write.           *)
HoldsRead(w) == At(w, "touch")

HoldsWrite(w) == At(w, "relist")

CanRead(p) == \A w \in Tasks : HoldsWrite(w) => task[w].page # p
CanWrite(p) == CanRead(p) /\ \A w \in Tasks : HoldsRead(w) => task[w].page # p

(* Holding pagesMtx: an eviction waits for its victim's lock with it.      *)
PagesFree == \A w \in Tasks : ~At(w, "evict")

-----------------------------------------------------------------------------
(* Main thread: requests, and tasks that found the memory blocked or full. *)

Item(w) == <<task[w].tbl, task[w].key>>

Request(w, op, t, k, ts) ==
    /\ pushing = None /\ requests < MaxRequests
    /\ task[w].pc \in {"idle", "done"}
    /\ task' = [task EXCEPT ![w] = [NoTask EXCEPT
           !.pc = "new", !.op = op, !.tbl = t, !.key = k, !.ts = ts,
           !.floor = acked[t][k]]]
    /\ requests' = requests + 1
    /\ UNCHANGED <<lfsVars, memVars, pushing, journalVars, historyVars>>

Select(w, t, k) == Request(w, "select", t, k, 0)
Insert(w, t, k, ts) == Request(w, "insert", t, k, ts)

(* mm_journal_tryenqueue: the task may fail to be created for want of a    *)
(* handle.                                                                 *)
JournalTryEnqueue ==
    \/ journaling /\ UNCHANGED <<journaling, jpc>>
    \/ ~journaling /\ journaling' = TRUE /\ jpc' = "queued"
    \/ ~journaling /\ UNCHANGED <<journaling, jpc>>

(* The timer, or a request of KER.                                         *)
JournalTick ==
    /\ pushing = None /\ ~journaling
    /\ JournalTryEnqueue
    /\ UNCHANGED <<lfsVars, memVars, task, pushing, queue, blocked, requests,
                   historyVars>>

(* taskman_update hands a new task, error cleared, to the workers.         *)
Dispatch(w) ==
    /\ pushing = None /\ At(w, "new")
    /\ task' = [task EXCEPT ![w].pc = "ready", ![w].err = "none"]
    /\ UNCHANGED <<lfsVars, memVars, pushing, journalVars, requests, historyVars>>

(* mm_reschedule_task, first half: the task enters the blocked queue ...   *)
Reschedule(w) ==
    /\ pushing = None /\ At(w, "reschedule")
    /\ IF task[w].err = "full" THEN JournalTryEnqueue
       ELSE UNCHANGED <<journaling, jpc>>
    /\ queue' = Append(queue, w)
    /\ pushing' = w
    /\ task' = [task EXCEPT ![w].pc = "pushed"]
    /\ UNCHANGED <<lfsVars, memVars, blocked, requests, historyVars>>

(* ... and then its state is set, whatever it has become meanwhile.        *)
SetAwaiting ==
    /\ pushing # None
    /\ task' = [task EXCEPT ![pushing].pc = "awaiting"]
    /\ pushing' = None
    /\ UNCHANGED <<lfsVars, memVars, journalVars, requests, historyVars>>

-----------------------------------------------------------------------------
(* Workers: what every handler does.                                       *)

Goto(w, pc) == task' = [task EXCEPT ![w].pc = pc]

GotoPage(w, pc, p) == task' = [task EXCEPT ![w].pc = pc, ![w].page = p]

(* The end of a handler: its locks are released, the guard is left, and    *)
(* its result reported.                                                    *)
Finish(w, reply) ==
    /\ task' = [task EXCEPT ![w].pc = "done", ![w].reply = reply]
    /\ acked' = IF task[w].op = "insert"
                THEN [acked EXCEPT ![task[w].tbl][task[w].key] =
                         Newest(@, task[w].ts)]
                ELSE acked

Fail(w, err) == task' = [task EXCEPT ![w].pc = "reschedule", ![w].err = err]

(* The record a task writes, and whether its page is to be journaled.      *)
Rec(w) == [tbl |-> task[w].tbl, key |-> task[w].key, ts |-> task[w].ts]
IsModification(w) == task[w].op = "insert"

GuardBlocked(w) ==
    /\ At(w, "ready") /\ blocked
    /\ Fail(w, "blocked")
    /\ UNCHANGED <<lfsVars, memVars, pushing, journalVars, requests, historyVars>>

GuardEnter(w) ==
    /\ At(w, "ready") /\ ~blocked
    /\ Goto(w, IF task[w].op = "select" THEN "readLock" ELSE "writeLock")
    /\ UNCHANGED <<lfsVars, memVars, pushing, journalVars, requests, historyVars>>

-----------------------------------------------------------------------------
(* mm_page_read, and the request to LFS on a miss.                         *)

Found(w) == seg[task[w].tbl][task[w].key]

ReadFind(w) ==
    /\ At(w, "readLock") /\ SegmentFree(task[w].tbl)
    /\ IF Found(w) = None THEN Goto(w, "asking")
       ELSE GotoPage(w, "readPage", Found(w))
    /\ UNCHANGED <<lfsVars, memVars, pushing, journalVars, requests, historyVars>>

(* Mutant of Owned: a page is taken for the segment's own unseen.          *)
OwnedAlways(w) == TRUE

(* "make sure the page is still assigned to this segment"                  *)
Owned(w) == page[task[w].page].parent = task[w].tbl

ReadForeign(w) ==
    /\ At(w, "readPage") /\ CanRead(task[w].page)
    /\ ~Owned(w)
    /\ Goto(w, "asking")
    /\ UNCHANGED <<lfsVars, memVars, pushing, journalVars, requests, historyVars>>

ReadModified(w) ==
    /\ At(w, "readPage") /\ CanRead(task[w].page)
    /\ Owned(w) /\ page[task[w].page].modified
    /\ Finish(w, page[task[w].page].rec)
    /\ UNCHANGED <<lfsVars, memVars, pushing, journalVars, requests, mixed,
                   outdated>>

ReadClean(w) ==
    /\ At(w, "readPage") /\ CanRead(task[w].page)
    /\ Owned(w) /\ ~page[task[w].page].modified
    /\ Goto(w, "touch")
    /\ UNCHANGED <<lfsVars, memVars, pushing, journalVars, requests, historyVars>>

(* _mm_lru_touch, with the page locked for reading.                        *)
ReadTouch(w) ==
    /\ At(w, "touch") /\ PagesFree
    /\ lru' = <<task[w].page>> \o Without(lru, task[w].page)
    /\ Finish(w, page[task[w].page].rec)
    /\ UNCHANGED <<lfsVars, seg, page, count, pushing, journalVars, requests,
                   mixed, outdated>>

(* LFS inserts a record sent by a journal, in whatever order.              *)
LfsInsert(r) ==
    /\ r \in wire
    /\ wire' = wire \ {r}
    /\ lfs' = [lfs EXCEPT ![r.tbl][r.key] = Newest(@, r.ts)]
    /\ UNCHANGED <<memVars, task, pushing, journalVars, requests, historyVars>>

(* LFS answers a SELECT; a journaled INSERT may still be on its way.       *)
LfsSelect(w) ==
    /\ At(w, "asking")
    /\ LET ts == lfs[task[w].tbl][task[w].key]
       IN IF ts = 0
          THEN task' = [task EXCEPT ![w].pc = "done"]
          ELSE task' = [task EXCEPT ![w].pc = "writeLock", ![w].ts = ts]
    /\ outdated' = IF \E r \in wire : /\ <<r.tbl, r.key>> = Item(w)
                                      /\ r.ts > lfs[r.tbl][r.key]
                    THEN outdated \cup {Item(w)} ELSE outdated
    /\ UNCHANGED <<lfsVars, memVars, pushing, journalVars, requests, acked,
                   mixed>>

-----------------------------------------------------------------------------
(* mm_page_write and mm_page_alloc.                                        *)

WriteFind(w) ==
    /\ At(w, "writeLock") /\ SegmentFree(task[w].tbl)
    /\ IF Found(w) = None THEN GotoPage(w, "alloc", None)
       ELSE GotoPage(w, "writePage", Found(w))
    /\ UNCHANGED <<lfsVars, memVars, pushing, journalVars, requests, historyVars>>

WriteForeign(w) ==
    /\ At(w, "writePage") /\ CanWrite(task[w].page)
    /\ ~Owned(w)
    /\ Goto(w, "alloc")
    /\ UNCHANGED <<lfsVars, memVars, pushing, journalVars, requests, historyVars>>

(* The page holds a newer record: the request is given its value instead.  *)
WriteOlder(w) ==
    /\ At(w, "writePage") /\ CanWrite(task[w].page)
    /\ Owned(w) /\ task[w].ts < page[task[w].page].rec.ts
    /\ Finish(w, page[task[w].page].rec)
    /\ UNCHANGED <<lfsVars, memVars, pushing, journalVars, requests, mixed,
                   outdated>>

WriteSame(w) ==
    /\ At(w, "writePage") /\ CanWrite(task[w].page)
    /\ Owned(w) /\ task[w].ts >= page[task[w].page].rec.ts
    /\ page[task[w].page].modified = IsModification(w)
    /\ page' = [page EXCEPT ![task[w].page].rec = Rec(w)]
    /\ Finish(w, Rec(w))
    /\ UNCHANGED <<lfsVars, seg, count, lru, pushing, journalVars, requests,
                   mixed, outdated>>

(* A page that becomes modified leaves the LRU list, one that is no longer *)
(* modified enters it, with the page locked for writing.                   *)
WriteOther(w) ==
    /\ At(w, "writePage") /\ CanWrite(task[w].page)
    /\ Owned(w) /\ task[w].ts >= page[task[w].page].rec.ts
    /\ page[task[w].page].modified # IsModification(w)
    /\ page' = [page EXCEPT ![task[w].page].rec = Rec(w)]
    /\ Goto(w, "relist")
    /\ UNCHANGED <<lfsVars, seg, count, lru, pushing, journalVars, requests,
                   historyVars>>

(* Mutant of Relist: a modified page stays in the LRU list.                *)
RelistFlag(w) ==
    /\ At(w, "relist") /\ PagesFree
    /\ lru' = IF IsModification(w) THEN lru ELSE <<task[w].page>> \o lru
    /\ page' = [page EXCEPT ![task[w].page].modified = IsModification(w)]
    /\ Finish(w, Rec(w))
    /\ UNCHANGED <<lfsVars, seg, count, pushing, journalVars, requests, mixed,
                   outdated>>

Relist(w) ==
    /\ At(w, "relist") /\ PagesFree
    /\ lru' = IF IsModification(w) THEN Without(lru, task[w].page)
              ELSE <<task[w].page>> \o lru
    /\ page' = [page EXCEPT ![task[w].page].modified = IsModification(w)]
    /\ Finish(w, Rec(w))
    /\ UNCHANGED <<lfsVars, seg, count, pushing, journalVars, requests, mixed,
                   outdated>>

(* A page is given to the task's segment; if it may be replaced it enters  *)
(* the LRU list, whose rest is `rest`.                                     *)
Assign(w, p, rest) ==
    /\ page' = [page EXCEPT ![p].modified = IsModification(w),
                            ![p].parent = task[w].tbl]
    /\ lru' = IF IsModification(w) THEN rest ELSE <<p>> \o rest
    /\ GotoPage(w, "fill", p)

AllocNew(w) ==
    /\ At(w, "alloc") /\ PagesFree
    /\ count < FrameMax
    /\ Assign(w, count, lru)
    /\ count' = count + 1
    /\ UNCHANGED <<lfsVars, seg, pushing, journalVars, requests, historyVars>>

AllocFull(w) ==
    /\ At(w, "alloc") /\ PagesFree
    /\ count = FrameMax /\ lru = <<>>
    /\ Fail(w, "full")
    /\ UNCHANGED <<lfsVars, memVars, pushing, journalVars, requests, historyVars>>

(* The least recently used page is taken off the list, and then locked.    *)
AllocEvict(w) ==
    /\ At(w, "alloc") /\ PagesFree
    /\ count = FrameMax /\ lru # <<>>
    /\ lru' = SubSeq(lru, 1, Len(lru) - 1)
    /\ GotoPage(w, "evict", lru[Len(lru)])
    /\ UNCHANGED <<lfsVars, seg, page, count, pushing, journalVars, requests,
                   historyVars>>

Evict(w) ==
    /\ At(w, "evict") /\ CanWrite(task[w].page)
    /\ Assign(w, task[w].page, lru)
    /\ UNCHANGED <<lfsVars, seg, count, pushing, journalVars, requests,
                   historyVars>>

(* The record is written and the page entered into the segment.  A key     *)
(* that had the page before and belongs to the same segment still leads to *)
(* it; and the page may have been evicted again since it was assigned.     *)
(* An INSERT is not compared with what LFS has of the key.                 *)
Fill(w) ==
    LET p == task[w].page
        t == task[w].tbl
        k == task[w].key
    IN /\ At(w, "fill") /\ CanWrite(p)
       /\ page' = [page EXCEPT ![p].rec = Rec(w)]
       /\ seg' = [seg EXCEPT ![t][k] = p]
       /\ mixed' = (mixed \/ page[p].parent # t \/ \E j \in Keys \ {k} : seg[t][j] = p)
       /\ outdated' = IF task[w].op = "insert" /\ task[w].ts < acked[t][k]
                      THEN outdated \cup {Item(w)} ELSE outdated
       /\ Finish(w, Rec(w))
       /\ UNCHANGED <<lfsVars, count, lru, pushing, journalVars, requests>>

-----------------------------------------------------------------------------
(* The journal.                                                            *)

JournalBlock ==
    /\ jpc = "queued"
    /\ blocked' = TRUE
    /\ jpc' = "wait"
    /\ UNCHANGED <<lfsVars, memVars, task, pushing, queue, journaling, requests,
                   historyVars>>

(* Mutant of JournalAlone: the journal does not wait for the tasks inside. *)
JournalEager ==
    /\ jpc = "wait"
    /\ jpc' = "run"
    /\ UNCHANGED <<lfsVars, memVars, task, pushing, queue, blocked, journaling,
                   requests, historyVars>>

JournalAlone ==
    /\ jpc = "wait" /\ Inside = {}
    /\ jpc' = "run"
    /\ UNCHANGED <<lfsVars, memVars, task, pushing, queue, blocked, journaling,
                   requests, historyVars>>

(* The pages a journal sends, as INSERTs into their segment's table.       *)
Modified == {i \in Tables \X Keys :
                LET p == seg[i[1]][i[2]]
                IN p # None /\ page[p].parent = i[1] /\ page[p].modified}

Journaled == {[tbl |-> i[1], key |-> page[seg[i[1]][i[2]]].rec.key,
               ts |-> page[seg[i[1]][i[2]]].rec.ts] : i \in Modified}

(* Every modified page is sent, then the segments, the frames and the LRU  *)
(* list are cleared; no answer is awaited.                                 *)
JournalRun ==
    /\ jpc = "run"
    /\ wire' = wire \cup Journaled
    /\ seg' = [t \in Tables |-> [k \in Keys |-> None]]
    /\ count' = 0 /\ lru' = <<>>
    /\ jpc' = "unblock"
    /\ UNCHANGED <<lfs, page, task, pushing, queue, blocked, journaling, requests,
                   historyVars>>

JournalUnblock ==
    /\ jpc = "unblock"
    /\ blocked' = FALSE
    /\ jpc' = "wake"
    /\ UNCHANGED <<lfsVars, memVars, task, pushing, queue, journaling, requests,
                   historyVars>>

JournalWake ==
    /\ jpc = "wake" /\ queue # <<>>
    /\ Goto(Head(queue), "new")
    /\ queue' = Tail(queue)
    /\ UNCHANGED <<lfsVars, memVars, pushing, blocked, journaling, jpc, requests,
                   historyVars>>

(* The flag is cleared after the queue was found empty.                    *)
JournalEnd ==
    /\ jpc = "wake" /\ queue = <<>>
    /\ journaling' = FALSE
    /\ jpc' = "idle"
    /\ UNCHANGED <<lfsVars, memVars, task, pushing, queue, blocked, requests,
                   historyVars>>

-----------------------------------------------------------------------------
(* The specification.                                                      *)

Requests ==
    \E w \in Tasks, t \in Tables, k \in Keys :
        Select(w, t, k) \/ \E ts \in Timestamps : Insert(w, t, k, ts)

Main(w) == Dispatch(w) \/ Reschedule(w) \/ GuardBlocked(w) \/ GuardEnter(w)

Read(w) ==
    \/ ReadFind(w) \/ ReadForeign(w) \/ ReadModified(w) \/ ReadClean(w)
    \/ ReadTouch(w) \/ LfsSelect(w)

Write(w) ==
    \/ WriteFind(w) \/ WriteForeign(w) \/ WriteOlder(w) \/ WriteSame(w)
    \/ WriteOther(w) \/ Relist(w)
    \/ AllocNew(w) \/ AllocFull(w) \/ AllocEvict(w) \/ Evict(w) \/ Fill(w)

Journal ==
    \/ JournalBlock \/ JournalAlone \/ JournalRun \/ JournalUnblock
    \/ JournalWake \/ JournalEnd

Next ==
    \/ Requests \/ JournalTick \/ SetAwaiting \/ Journal
    \/ \E r \in wire : LfsInsert(r)
    \/ \E w \in Tasks : Main(w) \/ Read(w) \/ Write(w)

Spec == Init /\ [][Next]_vars

-----------------------------------------------------------------------------
(* Safety.                                                                 *)

(* "if the page contains modifications it means it's not in the LRU"       *)
(* (mm.c:230): the list holds each page in use that may be replaced, once, *)
(* and no other, so that an eviction never takes a record LFS has not got  *)
(* and no page is lost to evictions; but for the page being evicted.       *)
Listed == {lru[i] : i \in DOMAIN lru}
Evicting == {task[w].page : w \in {w \in Tasks : At(w, "evict")}}

LruExact ==
    /\ \A i, j \in DOMAIN lru : lru[i] = lru[j] => i = j
    /\ Listed \cap Evicting = {}
    /\ Listed \cup Evicting = {f \in Frames : f < count /\ ~page[f].modified}

(* No acknowledged INSERT is lost, through journals, refills from LFS and  *)
(* evictions, as long as no page has come to serve two keys (see Fill):    *)
(* a record as recent is in LFS, on its way there, or in a modified page   *)
(* that the next journal will send.                                        *)
Kept(t, k, ts) ==
    \/ lfs[t][k] >= ts
    \/ \E r \in wire : r.tbl = t /\ r.key = k /\ r.ts >= ts
    \/ /\ <<t, k>> \in Modified
       /\ page[seg[t][k]].rec.ts >= ts

NoInsertLost ==
    ~mixed => \A t \in Tables, k \in Keys : Kept(t, k, acked[t][k])

(* A SELECT answers with the key it was asked for, and with nothing older  *)
(* than what had been acknowledged when it arrived, unless a page serves   *)
(* two keys, LFS has answered before a journaled INSERT arrived, or an     *)
(* INSERT with an earlier time has filled the key's page after a journal.  *)
SelectExact ==
    \A w \in Tasks :
       /\ At(w, "done") /\ task[w].op = "select"
       /\ ~mixed /\ Item(w) \notin outdated
       => IF task[w].reply = None THEN task[w].floor = 0
          ELSE /\ <<task[w].reply.tbl, task[w].reply.key>> = Item(w)
               /\ task[w].reply.ts >= task[w].floor

(* A page is a record (mem.h:67), and the pages of a segment are those of  *)
(* the keys they are entered under (mem.h:63): a SELECT that finds a page  *)
(* answers with the record of its key.                                     *)
SelectKey ==
    \A w \in Tasks :
       At(w, "done") /\ task[w].op = "select" /\ task[w].reply # None =>
          <<task[w].reply.tbl, task[w].reply.key>> = Item(w)

(* Who a task waits for, itself perhaps, when it waits for a lock.         *)
WaitsFor(w) ==
    {u \in Tasks :
        \/ /\ task[w].pc \in {"readLock", "writeLock"}
           /\ HoldsSegment(u) /\ task[u].tbl = task[w].tbl
        \/ /\ task[w].pc \in {"readPage", "writePage", "evict", "fill"}
           /\ HoldsWrite(u) /\ task[u].page = task[w].page
        \/ /\ task[w].pc \in {"writePage", "evict", "fill"}
           /\ HoldsRead(u) /\ task[u].page = task[w].page
        \/ task[w].pc \in {"touch", "relist", "alloc"} /\ At(u, "evict")}

Circular(S) == \A w \in S : WaitsFor(w) \cap S # {}

(* No tasks wait for each other in a circle, but for one that has taken a  *)
(* page off the LRU list, and waits for it with pagesMtx in its hands,     *)
(* while the one using the page waits for pagesMtx.                        *)
OnlyEvictionSticks ==
    \A S \in SUBSET Tasks : S # {} /\ Circular(S) =>
       \E e, u \in S : /\ At(e, "evict") /\ task[u].pc \in {"touch", "relist"}
                      /\ task[e].page = task[u].page
=============================================================================
