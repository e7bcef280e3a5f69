# Lissandra in TLA+

Lissandra is a distributed key-value store in C. Clients type scripts and
queries into a **KER** (kernel), which spreads them over a pool of **MEM**
nodes (page caches) according to the consistency of each table; every MEM node
stands before one **LFS** (the file system), which keeps the tables in
memtables, dump files and partitions. **cx** is the library all of them are
built on (threads, locks, timers, network, containers).

This directory models the parts of that code in which order matters: modules
that follow the source handler by handler, TLC runs over small instances, and
proofs for every value of the constants where TLAPS can give them. Line
references are to `src/`; `PROJECT.json` maps every definition to the lines it
stands for, and lists the hazards the properties are for.

Modelled are, in LFS, the table storage, its behaviour under crashes, the blocks of
the file system and the life cycle of tables and tasks; in MEM, the page cache with
its journal, and the node between its clients and LFS; in KER, the pool of MEM
nodes with queries, scripts and shutdown; the gossip between all of them; and of cx
the resource lock, the handle allocator and, inside the nodes, the network
contexts and the thread pool.

## 1. The system

| Part | State | Operations | Interacts with |
|---|---|---|---|
| **LFS table storage** `lfs/src/memtable.c`, `fs.c`, `lfs_worker.c` | memtable and its mutex, `D#.tmp`, `D#.tmpc`, `P#.bin`, `P#.binc` | INSERT, SELECT, dump, compaction | workers inside the table's availability guard |
| **LFS life cycle and tasks** `lfs.c`, `fs.c`, `taskman.c` | `tablesMap`, each `table_t` (lock, `blockedQueue`, `compacting`, timer), the tasks array and its handles, the pool's queue | CREATE, DROP, FREE, timer ticks, `taskman_update`, reschedule, wake up | main thread (loop of `main`, lfs.c:102-127) and worker threads, over shared `task_t` and `table_t` |
| **LFS blocks** `fs.c` | bitmap, `#.bin` block files, metadata files naming the blocks | `fs_block_alloc/free`, `_fs_file_save/load`, `fs_file_delete` | dumps, compactions, CREATE and DROP, under `mtxBlocks` |
| **MEM page cache** `mem/src/mm.c` | segment per table, frames, LRU list, dirty marks | page read, write, alloc (evicting), segment delete | request workers, journal; rwlock per page, mutexes per segment |
| **MEM journal** `mm.c`, `mem_worker.c` | `journaling` flag, blocked queue, reslock of the memory | journal on a timer, on request, on a full memory | all requests of the node, LFS |
| **MEM node** `mem.c`, `mem_worker.c`, `mem_protocol.c`, `cx/src/net.c` | clients with handle, version and buffers; tasks; the connection to LFS | accept, AUTH, requests, answers, timeouts, loss of LFS, shutdown | clients and LFS over sockets, workers over `task_t` and the outbound buffer |
| **KER memory pool** `ker/src/mempool.c` | nodes, criteria (SC, SHC, EC), tables and their criterion | add, assign, get, journal, disconnection, abort of requests | requests under way, gossip |
| **KER node and scripts** `ker.c`, `ker_worker.c` | task queue, a script's line and quantum | RUN in slices, queries, metrics | workers wait for answers the main thread delivers |
| **Gossip** `ker/src/common/gossip.c` | list of known nodes and their stage | rounds, import, export, disconnection | MEM and KER nodes |
| **cx** | reslock, halloc, pool, mcq, timers, sort, dictionary, lists, net, files | as named | everything above |

What is hard, and where the correctness of each part lies:

* **Table storage.** Any number of INSERTs, SELECTs and dumps work on a table at
  the same time; a compaction runs beside them and shuts them out twice, to
  rename the dumps (stage 1) and to replace the partitions (stage 3). Any file it
  writes may find no blocks, after which the stage is abandoned with its files
  left where they are. *Correct when*: no acknowledged record is lost whatever
  fails, nothing is read while it is being replaced, every file stays sorted and
  free of duplicates (it is searched by bisection), a SELECT answers no less
  than what was acknowledged before it, and the table is given back.
* **Crashes.** Nothing is logged and nothing is recovered: `_fs_load_tables`
  takes the files as it finds them. *Correct when* what a completed dump wrote
  stays readable.
* **Life cycle and tasks.** A DROP takes the table out of the map while workers
  still hold its pointer; a FREE task is retried in the main thread until the
  table is unused. Timers act on table *names*, tasks on table *pointers*.
  Tasks that find a table blocked wait in a list that the main thread fills and
  a worker empties. *Correct when* a table is freed once, in the end, never under
  somebody, and no task is left waiting.
* **Resource lock.** A counter, a flag and a condition variable. *Correct when*
  the blocker is alone, always gets its turn, and the counter is exact.
* **Blocks.** *Correct when* no block has two owners and none is lost, crashes
  included.
* **Page cache, journal.** *Correct when* a read returns the last write or
  LFS's record, an eviction never takes a dirty page or one in use, a journal
  carries every dirty page to LFS once, and no locks are taken in a circle.
* **MEM node.** A worker waits on a condition variable for an answer that the main
  thread delivers; a client may be gone, and its handle and descriptor in other
  hands, when the answer to its request is sent; poll, timeouts and shutdown each
  disconnect clients. *Correct when* answers go to the connection that asked, the
  handles are those of the open connections, no worker waits for what cannot
  come, and the node ends.
* **KER.** A request has no other name than its task's handle; nodes disconnect
  between the choice of a node, the send and the answer; ADD changes the criteria
  in workers while the main thread takes dead nodes out of them. *Correct when* an
  answer wakes up the task that asked, requests are routed to nodes that are there,
  a context is not freed under a worker, and no worker waits for ever, shutdown
  included.
* **Gossip.** Each exchange is four messages over a connection of its own. *Correct
  when* whatever ends one lets the next begin, and nodes that stay up end up
  knowing each other.

## 2. Modules

| Module | What it is |
|---|---|
| `KvStore` | abstract: a table as a map from keys to newest timestamps |
| `LsmStore` | the storage of one table, every step of its four handlers |
| `LsmCrash` | `LsmStore` in a process that may die at any point and start again |
| `LsmStoreInv` | the inductive invariant of `LsmStore` |
| `LsmProofs` | theorems about `LsmStore`, then about `LsmCrash` with the same lemmas |
| `Memtable` | the array inside a memtable, with the sort and the searches of `cx/src/sort.c` |
| `TableTasks` | tables and tasks: main loop, workers, guard, CREATE/DROP/FREE |
| `TableTasksProofs` | theorems about `TableTasks` |
| `AvailGuard` | abstract: what a `cx_reslock_t` promises |
| `Reslock` | the lock itself: mutex, condition variable, counter |
| `CxProofs` | theorems about `Reslock` and `Memtable`, which stand on `cx` |
| `PageCache` | the memory of a MEM node: segments, frames, LRU, SELECT, INSERT, journal |
| `PageCacheProofs` | theorems about `PageCache` |
| `Blocks` | the bitmap, the files with the blocks they list, and who allocates and frees them |
| `BlocksProofs` | theorems about `Blocks` |
| `Ker` | the kernel: MEM nodes, criteria, tasks, workers, pool, shutdown |
| `KerProofs` | theorems about `Ker` |
| `Gossip`, `GossipProofs` | the gossip tables of MEM nodes and kernel, and the exchanges; a theorem about them |
| `Halloc` | the handle allocator as operators |
| `MemNode` | a MEM node: server context, client handles (`Halloc`), tasks, LFS connection, shutdown |
| `MemNodeProofs` | theorems about `Halloc` and `MemNode` |
| `MC*` | instances for TLC |

How they fit: `Reslock` implements `AvailGuard`, in which form (a flag and the set
of users inside, entering only when not blocked) the lock appears in `LsmStore`
and `TableTasks`. `LsmStore` models what happens to *one* table's *files* and
leaves out how tasks come to run; `TableTasks` models how tasks come to run and
reduces what they do to a table's files to being inside the guard or not. Both
follow the guard's calls of the same handlers. `Memtable` looks at the memory behind
the sets of records of `LsmStore`: its `DumpExact` is what `Preprocessed` says there, its
`FindExact` what `IsFound` says. `PageCache` stands one node
higher: LFS is to it the map that `LsmStore` is proved to implement (`KvStore`).
`Blocks` follows the same handlers as `LsmStore` and `TableTasks` once more, with the
blocks in place of the records and each file operation in its steps. `MemNode` is
the node around `PageCache`: which tasks there are, who asked and who gets the
answer; what a request finds in the pages is one bit to it (`StartLocal`,
`StartRequest`). `Ker` stands before MEM nodes that answer each request once, in any
order, or disconnect; `Gossip` is what makes both call `mempool_add`.

### LsmStore and the code

A file is the set of its records. No dump and no `.binc` is ever written empty
(memtable.c:212, lfs_worker.c:262), so the empty set is "no such file"; `gone`
holds the partitions whose `P#.bin` does not exist. One action is one stretch of
a handler between two points where another thread may be seen:

* **INSERT** (lfs_worker.c:140-156): enter the guard; `memtable_add` under the
  memtable's mutex, and leave. `acked` records what has been acknowledged.
* **Dump** (lfs_worker.c:158-171, `memtable_make_dump`): enter; then, holding the
  mutex throughout, sort and uniquify the memtable, choose the next number from
  the directory, save `D#.tmp` or fail, clear the memtable, and leave. Saving and
  clearing are two steps, because SELECTs read the directory without the mutex.
* **Compaction** (lfs_worker.c:173-328): block and wait until the table is unused,
  list the dumps (`CompactScope`), rename them one by one (`cx_file_move` refuses to overwrite a
  `D#.tmpc` left by an earlier failure, and then the compaction gives up), unblock;
  load the `D#.tmpc` into one memtable and merge it partition by partition into
  `P#.binc`; block and wait again, delete the `D#.tmpc`, replace each `P#.bin` by
  its `P#.binc` (delete, then move), unblock. A partition with nothing new to
  merge is skipped; a file that finds no blocks ends the compaction, leaving the
  `D#.tmpc` and the `P#.binc` written so far, and the next one picks them up.
  The array the dumps are listed in, `dumpNumbers`, has as many entries as the highest
  `D#.tmp` has for a number (fs.c:502), and the numbers of all `D#.tmp` *and* `D#.tmpc` are
  stored in it (lfs_worker.c:195-203). With a `D#.tmpc` left there may be more of them
  than entries (`~NumbersFit`). What is stored behind the last entry either goes into what
  `malloc` has rounded up to — glibc gives 24 bytes at least, 12 numbers — and the
  compaction goes on, or does not: `CompactOverrun`, after which the behaviour is
  undefined, and the model does nothing any more but stay there (`Overrun`).
* **SELECT** (lfs_worker.c:65-138): the partition, then the directory is opened
  (`slisted`) and each dump searched, then the memtable under its mutex; the
  record's value is copied after the mutex is released. A value that a dump has
  freed meanwhile is undefined: `sbest` then holds *some* value, or None.

Quicksort is not stable, so of two records with one key and timestamp either may
survive (`Preprocessed`), and a search may find either (`IsFound`).

What is left out of it: a file that exists and cannot be opened or read, the
blocks a file is made of (only that an allocation may fail, `AllocMayFail`), and
the life cycle of the table. A file operation is one step.

### Memtable and the code

`cells` is the whole of the array that is allocated, `count` the part of it in use. It
begins zeroed, and `realloc` doubles it with memory that may hold anything
(`Garbage`). `Sorted`, `Uniquified` and `BinaryFind` are `cx_sort_quick`, `cx_sort_uniquify`
and `cx_sort_find` with the comparators of memtable.c (`Full`, `Basic`), swap by swap
and copy by copy; `Difference` is a `uint64_t` difference kept in an `int64_t`. A
value is the number of its INSERT and `heap` the values that are allocated.
Actions: **Add** (`memtable_add`), **Dump** and **DumpFails** (`memtable_make_dump`: sort,
uniquify, save, clear or not), **Find** (`memtable_find` on the memtable, linear or by
bisection) and **FindInFile** (on a file loaded by `memtable_init_from_dump`). Each runs
under the memtable's mutex, or on a memtable nobody else sees. The table is taken
to exist: `memtable_preprocess` sorts nothing for one that has been dropped.

The wrap of timestamps and the read behind the array (section 5) are kept out of
`LsmStore`, whose timestamps are few and whose searches find records only.

### LsmCrash and the code

`Crash` takes the memtable and every task away, and keeps the files. It may come
between any two steps of `LsmStore`. `durable` holds the records that a completed
dump had taken over: only these may be expected back, as the memtable is not
logged. `torn` holds the partitions whose `P#.binc` a crash in stage 3 left behind.
`CompactionClears` speaks of a compaction that comes to its end, whatever was left
before it: more leftovers than `dumpNumbers` has room for may end the next compaction
in `CompactOverrun` instead, of which it says nothing, and which only ends with a crash.

### TableTasks and the code

A `table_t` is one element of `Tables`; dropping and creating again makes
another. A task is a record with its `state`, its kind, the table it refers to
and where its handler stands. The main thread alternates between events
(requests, the console, the compaction timers) and `taskman_update`
(taskman.c:212-280), which is modelled task by task because workers change the
tasks while it looks at them: new tasks go to the pool or the main thread's
queue, tasks to reschedule enter their table's `blockedQueue` in two halves (push,
then set the state; lfs.c:548-549), completed ones are notified afterwards, and
then the FREE tasks are tried. Workers (at most `Workers` at a time) run the
handlers: CREATE (register, fill, or break half-way), DROP (take out of the map
and create the FREE, or fail to remove the files), use (SELECT, INSERT and dump: enter the guard, leave it),
and compaction (two rounds of block, wait, unblock and drain the blocked queue).

A table whose creation fails after `cx_cdict_tryadd` (fs.c:255) is freed and
stays in the map. What its memory then holds is undefined; `broken` remembers
those tables, and the properties about freed tables except them (the hazard is
listed, at its line). A DROP whose `cx_file_remove` fails (`DropBreak`) has taken the table
out of the map and ends with that error, for which its completion makes no FREE
(lfs.c:585-591); nor is there one if no handle is left for it (fs.c:616). `leaked` holds
the tables that stay allocated for these two reasons. `FilesMayFail` says whether CREATE and
DROP may fail in these ways.

### Reslock and the code

One action per stretch under the mutex; `pthread_cond_wait` gives the mutex up,
is woken up by the broadcast of `avail_guard_end` *or on its own*, and takes the
mutex again. The counter has the width of the code's `uint16_t` through
`CounterLimit`.

### PageCache and the code

A page is a frame's `page_t` with the record in it; `seg` is each segment's
dictionary. A frame that is taken from another key or segment is *not* taken out of
the dictionary it was in; whoever finds it compares `page->parent` with his
segment. Three kinds of lock are taken inside the memory's guard, and a task holds
them by where it stands: the segment's mutex (`HoldsSegment`, mm.c:373-393 and
414-471), the page's read-write lock (`HoldsRead` while the page is moved to the
front of the LRU list, `HoldsWrite` while it enters or leaves the list), and
`pagesMtx`, which an eviction keeps while it waits for its victim's lock
(`PagesFree`, mm.c:316-332). What a task does between two waits is one action:

* **read** (`mm_page_read`): find the page under the segment's mutex, lock it,
  check its parent, move it to the front if it is clean, copy the record;
* **miss** (`LfsSelect`): LFS answers, with the segment's mutex released meanwhile,
  and the answer is written as a clean page;
* **write** (`mm_page_write`): as a read; a newer record in the page wins, else
  the page takes the request's record and its `modified` mark, and leaves or
  enters the list (`WriteOther`, `Relist`); with no page of its own the segment
  gets a new frame, or the least recently used one (`AllocNew`, `AllocEvict`,
  `Evict`), or the task is told the memory is full; the page is filled and entered
  in a step of its own (`Fill`), as its lock was released in between;
* **journal**: block, wait until nobody is inside, send every modified page, clear
  everything, unblock, wake the queue up, clear the flag. The INSERTs sent are on
  the `wire` until LFS takes them, in any order, and no answer is awaited;
* **reschedule**: the main thread pushes a task and then sets its state, as in LFS.

Of the three history variables `acked` holds the newest acknowledged record of
each key, `mixed` says that a page has come to serve two keys, and `outdated`
holds the keys whose page was filled with a record known to be older.

Left out: DROP (`mm_segment_delete` uses `table`, which it leaves NULL, where it
means `*_outTable`, mm.c:213-228: it cannot get past `cx_reslock_block`), the loss of
LFS, after which the node shuts down, and values (a record stands for its value).

### Blocks and the code

A path is a table, one of the four kinds of file and a number; a file on disk is
the set of blocks its metadata lists, or `Torn` between `cx_file_touch` and
`config_save` (fs.c:1208-1258). `fs_block_alloc` and `fs_block_free` hold `mtxBlocks` and
flush the bitmap: one step each, and a file takes its blocks one at a time
(`Alloc`). It gives them back when none is left, a dump or `.binc` also when a
block cannot be written (`AllocFails`). A file operation is as many steps as it makes changes:
`_fs_file_save` removes, touches and writes; `fs_file_delete` loads the list of
blocks, frees them, and removes the file; a DROP (fs.c:323-370) takes the table out
of the map, frees the blocks of each partition and removes the folder file by
file, up to the first that cannot be removed (`DropStops`). Neither DROP nor CREATE
takes the availability guard, so both interleave with dumps and compactions of the incarnation before. `Crash` ends every thread at
any point and loads bitmap and tables again.

Two history variables name what the code gives up. `leaked` holds the blocks that
stay marked without an owner: those of dumps and `.binc` files when a table is
dropped (fs.c:341 frees partitions only), of a `.binc` that is saved again, of a
metadata file that cannot be created (memtable.c:515-535), and of a crash. `doubtful`
holds the blocks that were freed from a list read before the file was replaced,
and those of a file that a crash left behind with its blocks freed.

### Ker and the code

A node is its number, its `available` and `handshaking` flags, its client
connection with the packets in each of its three places (`out`, `srv`, `ans`), and who
holds its `listNodeMtx`. A worker is the pc of the task it runs: `begin`, then for a
query or a line of a script `get` (`mempool_get`), `req` (`mempool_node_req`), `send`
(inside `cx_net_send`, holding the node's rwlock), `wait`, `after`. The task is made
AWAITING *before* the node is looked for (ker_worker.c:253-261), and its node is
noted before the send, which is what `_task_req_abort` goes by. The main thread is
`poll`, or in the middle of `_on_disconnected_from_mem` (`unassign`: one criterion after
the other; `abort`: one task after the other), of a flush, or of the shutdown
(`halt`, `destroy`, `join`). `cx_net_flush` is two steps, as workers append to the buffer
between its `write` and its reset of the position (net.c:488).

A packet carries, beside the handle, an id the code does not have, to tell the
requests of one handle apart. `lost` holds the requests that a flush has dropped,
`orphan` those sent on a connection that then failed its handshake, of which nobody is
told (mempool.c:662-705), and `stray` those woken up by something else than their
answer.

### Gossip and the code

`table[p]` is p's dictionary of `gossip_node_t`, `link[p][q]` the connection of p's
exchange with q and the one message on its way. `gossip_poll_events` handles what a
poll brings about in the pass over the table that follows, so the stages
ACKNOWLEDGED, DONE and FAILED are no states between two steps. A MEM node that
goes down loses its table and starts again from its seeds; its peers' connections
break. The seeds must connect every node in one direction or the other
(`SeedsAssumption`): one that greets a node becomes known to it.

### Halloc, MemNode and the code

`Halloc` gives the three arrays of `halloc.c`, and the dictionary whose keys are C
strings made of a descriptor's bytes, as a record, with one operator per function.
`MemNode` takes a client's handle from it. `sv` is the server context: `Accept`, `Recv`
(the packets of one buffer are processed one after another, also behind a packet
that has ended the connection: net.c:881-958), `Flush`, which drops what `write` does
not take (net.c:494-501), and `Sweep`, which makes the
lists of both timeouts before it disconnects anybody (net.c:850-878). Both lists are in
one array, `tmpIds`, from its two ends, and write over each other if they meet (`Note`); in
`ServerDestroy` the array also holds the ids noted before. A client id is
a handle and its version; `ValidCid` compares the versions only, as net.c:24-27 does,
so a client may be disconnected twice: `twice` remembers it. From a count of 0 the
second time is undefined behaviour (`ub`), and so is a send on the destroyed
context of LFS: nothing happens any more.

A task is a request with the client id it came from and, for the properties,
the connection that asked (`asker`). Its worker answers from the pages, or makes it
AWAITING, sends, and waits. The end of `main` (mem.c:138-159) is in the order of the
code: `TaskmanStop` (with the first loop of `cx_net_destroy` on the server),
`ServerDestroy`, `LfsDisconnect` with its aborts, `LfsDestroy`, `Joined`.

## 3. Runs

| Run | Asks | Instance |
|---|---|---|
| `lsm_store` | Is any acknowledged record lost, a dump overwritten, a file left unsearchable; does a compaction end, alone in stages 1 and 3; is a SELECT fresh unless a dump freed records beside it; does the store refine `KvStore`? | 2 keys in 2 partitions, 2 INSERTs, two dump tasks, one SELECT, 2 dump numbers, allocations may fail |
| `lsm_crash` | Does what a completed dump wrote survive crashes; does a compaction that succeeds leave no dump of before it, whatever failures and crashes left? | 2 keys in 2 partitions, 3 INSERTs, 2 crashes, allocations may fail |
| `memtable` | Does a dump write the newest record of each key, in order; is every value freed once; does a search find what is there? | 3 keys in 2 partitions, 3 timestamps modulo 8, 4 INSERTs, an array that starts with room for 2 |
| `table_tasks` | Is a table freed once, never under somebody, and in the end unless its DROP failed or found no handle for the FREE; does every blocked table have somebody to unblock it, and who blocks a blocked one? | 2 incarnations of a table, 3 handles, 2 workers, 3 requests, CREATE and DROP may fail half-way |
| `awaiting` | Is a task that awaits in the queue of the table it found blocked? (No.) | as above |
| `reslock` | Is the counter exact, the blocker alone, and its wait finite? Does the lock refine `AvailGuard`? | 4 users, 1 blocker, counter modulo 5 |
| `page_cache` | Is the LRU list exact, an acknowledged INSERT ever lost, a SELECT ever wrong or stale; who can wait for whom? | 2 tables with 1 key each, 1 frame, 2 tasks, 3 requests, 2 timestamps, any contents of LFS, any number of journals |
| `page_wrong_key` | Does a SELECT answer with the record of its key? (No.) | 1 table, 2 keys, 1 frame, 2 tasks, 3 requests, 1 timestamp |
| `blocks` | Has a block two owners, or is one lost in another way than those known? | 1 table created twice, 1 partition, 3 blocks, files of up to 2, 2 workers, 1 dump, 2 compactions, 1 crash |
| `ker` | Are requests routed to live nodes, contexts freed under a worker, answers taken by the wrong task, workers left waiting? | 2 MEM nodes, 2 handles, 2 workers, 1 table of SC, criteria NONE and SC, 2 lines, 2 connections, quantum 2 |
| `gossip` | Do exchanges and connections stay in step, and does everybody end up knowing everybody? | 2 MEM nodes and the kernel, 1 seed, 1 broken connection, 2 crashes |
| `mem_node` | Are the handles exact, do answers go to who asked, does every wait end, and the node? | 2 handles, 2 connections, 2 descriptors, 2 tasks, 1 worker, 2 packets after AUTH, versions modulo 3 |

**Bounds, and why they are enough.** `MaxDumps` bounds the dump numbers in use at
one time, not the dumps made: numbers are taken again after a compaction. Two are
what it takes for a collision between a fresh `D1.tmp` and a `D1.tmpc` that a failed
compaction left, for a conflict in the middle of stage 1, and for two dumps with
the same key. Two INSERTs give a record in a partition and a newer one in a dump or
in the memtable (`lsm_crash` has three, for one in each); two partitions let stage 2 fail after one `.binc` is
written and stage 3 be interrupted between two partitions. One value is enough
where no property tells values apart: `NoRecordInvented` tells a value from one
that was freed. The storage variables stay cyclic, so compactions are unbounded
in number. In `table_tasks` three requests make every pair of a DROP, CREATE, use
or compaction overlap with a third; three handles are two workers' tasks and the
FREE, or one that finds no handle (`FreeTable` without one is reached, and leaks the table). A
`CounterLimit` of 5 is the smallest for 4 users: with users as many as the limit
the counter would wrap, which the assumption excludes, as `MAX_TASKS` handles
exclude 65536 users in the code.

In `memtable` four INSERTs make the array grow once and be full again, give the sort
swaps and recursion on both sides of the pivot, and leave up to three records of
a key beside another key; three keys are what it takes for a bisection to go both
ways, and in two partitions their order is not that of the numbers. Of the three
timestamps two are close, and the third is more than half of the range away from
both, so that the older one wins (`Near`). A search is asked between two changes, of
the memtable or of the file of the dump just made. The real capacity is 256; nothing
depends on it but when the array grows, and which of a file's records fill it.

In the page cache one frame makes every fill evict, and two tables (or two keys)
are what it takes to find a page of somebody else; of the three requests of
`page_cache` one brings the page to a table and two then meet at it. LFS may hold anything at the start, so a request suffices to
have a clean page. Tasks and tables are symmetric (no definition chooses among
them), which `MCSymmetry` uses; no liveness is checked there.

In `blocks` three blocks and files of two make allocations fail half-way; a second
CREATE is what lets a DROP of the first incarnation run beside the second one,
and a second compaction what meets the leftovers of the first. In `ker` two
lines are two tasks that work at the same time, or two requests that share a
handle one after the other; two connections are one to each node, or one that is
lost and made again; the quantum of 2 is reached and not reached. In `gossip` the
kernel hears of b only from a, and a of b only when b greets it; the two crashes
may hit both nodes, or one twice. In `mem_node` two connections get the same handle
one after the other or two handles at a time, descriptor 512 being one whose
key is the empty string; a version modulo 3 differs for as many clients of one
handle as there are connections (the code's wraps after 65536).

**Deadlock** is checked in the storage, lock and gossip runs. In the storage runs a
compaction that has written behind its array is not taken for a deadlock: `Overrun` is
a step of `Next`. `Memtable` stops when its INSERTs are made and dumped and a search has been answered; `TableTasks` may stop,
because requests are bounded, and `PageCache` may stop because an eviction and the
user of its victim may wait for each other (`OnlyEvictionSticks`, section 5); `Blocks`
has all its operations bounded, and `Ker` and `MemNode` end. These six
have `CHECK_DEADLOCK FALSE`.

**Fairness.** A worker that has begun a handler goes on (weak fairness of each
handler's steps): threads are scheduled by the operating system and no handler
waits for anything but a lock, the guard's wait included. The main loop never
stops while the node runs, and a free worker takes *some* queued task. Nothing is
assumed of what starts by itself: requests, dump and compaction timers, INSERTs
and SELECTs may never come, or never stop coming. In `Reslock` a thread that wants
the mutex again and again gets it (strong fairness of the lock steps of those
inside, the blocker's included), which pthread mutexes give in practice and
their standard does not promise; users need not ever come. In `Gossip` the timers tick
and the main loops poll, for each of the few connections, for ever; nodes that are
down need not come back, and connections need not hold but for the bound.
In `MemNode` the main thread goes on with what it has begun (a flush, a
disconnection, the shutdown) and each worker with its request; that clients send,
that LFS answers or that it goes away is never assumed. `Ker` has no fairness:
its properties are all safety.

## 4. What is proved

TLAPS proves, for all constants that satisfy the named assumptions (any numbers
of keys, partitions, tasks, dumps and inserts; of pages, segments and timestamps; of
nodes, requests and workers):

* `LsmProofs`: `TypeCorrect`, `StagesExclusiveCorrect`,
  `DumpsNeverOverwrittenCorrect`, `NoAckedRecordLostCorrect`,
  `OverrunNeedsLeftover`, and `StoreImplemented`: `LsmStore` implements
  `KvStore` under the mapping that makes the store the set of `<<key, timestamp>>`
  pairs that some *visible* record covers. Of the files and the reads:
  `FilesSearchableCorrect`, `NoRecordInventedCorrect` and `SelectFreshCorrect`.
  Of the crashes, any number of them at any points: `DurableSurvivesCorrect`,
  `MissingPartRecoverableCorrect`, `CompactionClearsCorrect` and `CrashedTableUsable`.
* `BlocksProofs`: `NoSharedBlockCorrect` and `UsedIsOwnedCorrect`, for any numbers of
  tables, partitions, blocks and crashes, and finitely many worker threads.
* `PageCacheProofs`: `TypesCorrect`, `LruExactCorrect`, `NoInsertLostCorrect`,
  `SelectExactCorrect`, `OnlyEvictionSticksCorrect`.
* `KerProofs`: `TypesCorrect`, `AssignedUsableCorrect`, `SendSafeCorrect`,
  `AnswerMatchesCorrect`, `AwaitingServedCorrect`.
* `CxProofs`, of the lock: `TypeCorrect`, `CounterCorrect`, `AloneCorrect`,
  `GuardImplemented`: the lock implements `AvailGuard`. Of `sort.c`, for arrays of any
  length: `SortedSorts`, `UniquifiedKept`, `BinaryFindFinds`. Of the memtable, for any keys,
  parts, timestamps, capacity and number of records: `MemtableInvariant`,
  `ValuesExactCorrect`, `FindExactCorrect` and the action property `DumpExactCorrect`.
* `MemNodeProofs`: `AllocFresh`, `FreeExact`: in a table of any size, allocating adds one
  handle that was not in use to those in use, and freeing one that is in use
  takes exactly that one away; both keep the table well formed. For any numbers of handles,
  connections, descriptors, tasks and workers: `Invariant`, `HandlesExactCorrect`,
  `AwaitingServedCorrect`, and `AnswersAskerCorrect`, which supposes that fewer connections
  are ever made than a handle has versions (2^16 in the code): with more, a version may come
  round while an answer is under way, and the code has nothing to tell.
* `GossipProofs`: `ExchangeExactCorrect`, for any nodes, seeds, crashes and broken
  connections.
* `TableTasksProofs`: `TypeCorrect`, `CompactingExactCorrect`, `QueuedTasksWaitCorrect`,
  `BlockedHasOwnerCorrect`, `FreedUnreachableCorrect`, `FreedOnceCorrect` and the action
  property `ReblockedUnderCreationCorrect`, for any number of `table_t`, handles, workers
  and requests, with CREATEs and DROPs that fail.

**Argument for the storage.** `NoAckedRecordLost` is not inductive: it does not
say why a step that deletes a file loses nothing. The invariant `IInv`
(`LsmStoreInv`) adds, beside types and locks:

* `SavedInv`: a dump about to clear the memtable has it in a `D#.tmp`;
* `ScopeInv`: the compaction's `scope` holds every `D#.tmpc` there is, from before
  the rename to the last deletion;
* `MergedInv`, `BincInv`: after the load, the merged memtable covers every
  `D#.tmpc` left, and from a partition's turn on its `P#.binc` covers its part of
  the merged memtable — so in stage 3 each `D#.tmpc` is redundant;
* `ReplaceInv`: a `P#.binc`, also one left by an earlier compaction, covers the
  `P#.bin` it will replace — so replacing loses nothing;
* `GoneInv`: a `P#.bin` is missing only in the middle of its own replacement;
* `NothingNewInv`: what the compaction has in hand is covered by what is visible —
  needed for the refinement, as stage 3 makes `P#.binc` visible.

The lock part (`LockInv`: who is inside, who holds the mutex, when the table is
blocked) is what makes stages 1 and 3 steps of the compaction alone. One lemma per
action shows that it keeps `IInv`; `Inductive` puts them together, and every
theorem follows from it. The second part of `LsmProofs` adds `FilesInv` (the memtable a dump
has sorted has one record per key; the compaction holds only acknowledged
records; the record a SELECT is about to copy is still in the memtable unless a
dump freed records).

**Argument for what a SELECT answers.** A SELECT's *floor* is what had been acknowledged
when it began. `FreshInv` says of each record of its key in the floor that what the
SELECT has found covers it, or that something it has still to search does (`Ahead`: the
dumps on its list, the memtable) — unless a dump has freed records since. Until the partition
is read there is nothing to remember, as `NoAckedRecordLost` says it of every record. A
completed dump is then the only step that takes a record from what is
ahead to what is behind, and it is what `SelectFreshUnlessDumped` excepts.

**Argument for the overrun.** `OverrunNeedsLeftover` says that a compaction writes behind
`dumpNumbers` only where an earlier one has left a `D#.tmpc`. Without one, the numbers to be
stored are those of the `D#.tmp`, which are different and none above the highest: so they
are no more than the entries (`AloneFits`, by the cardinality of an interval). Where one has been left,
nothing the code does keeps the numbers within the array, and the theorems about the storage
hold in either case: up to an overrun, and beyond one as far as it changes no file.

**Argument for the crashes.** `CrashInv` is `IInv` without what a crash may end: outside
the partitions that are `torn` (died in the middle of a replacement, `P#.bin` missing)
everything is as without crashes, a `P#.binc` that a crash left is still ahead of its
`P#.bin` (`BincLeft`), and a torn partition has its `P#.binc` (`MissingInv`), which is why
`MissingPartRecoverable` is claimed. For `DurableSurvives` the same is said with the
memtable left out: the files alone (`DiskCovers`) cover each durable record, by which the
crash, that empties the memtable, takes nothing from it.

**Argument for the page cache.** Three layers. *Locks*: a page's or a table's state
is read by one that holds the segment, one eviction runs at a time, the journal
runs only while nobody is inside (`SegmentsHeld`, `OneEviction`, `JournalInv`). *Pages*: what the page in a task's hand is
to it at each point of `mm_page_alloc` — free, its own, a victim not yet locked, a
victim taken out of the list (`PagesInv`); `LruExact` follows, as a page leaves the list
exactly while it is a victim. *Records*: what a page, a reply on its way and a task
hold is covered by what was inserted, and covers what the task's floor asks (`ServesInv`,
`KeptInv`, `RefillInv`, `FloorInv`, `AskingInv`, `ReplyInv`), where needed as long as no page
has been given to a key of its own segment (`mixed`). `OnlyEvictionSticks` holds because every other wait follows
the order segment, page, `pagesMtx`: in any state some task that is not in that one
circle can go on.

**Argument for the blocks.** `BlockInv` says of one block that is not `doubtful`: one file
lists it or one task holds it, at most; its bit is set exactly if it has such an owner or has been
left behind; and what was left behind is nobody's. Each step is seen as what it does to one
block's bit, files and tasks. Freeing is the only step that could break it: it clears
the bits of the blocks that were *read*, some time before, and whoever has one of
them by then besides the file makes it doubtful (`FreeTaken`), which is the exception both
properties state. An allocation needs that the lowest free block is free, and
a dump that the number it chooses is still in the files' range: each dump that has yet to
choose adds one to the greatest number at most (`NumbersInv`, by the cardinality of `Choosing`,
for which the threads are assumed to be finitely many). That a set of numbers has a least
and, if bounded, a greatest element (`Least`, `Greatest`) is proved by least counterexample.

**Argument for the kernel.** `MainInv` and `NodesInv` say what the main thread is at and that
a node's connection, availability and handshake agree with it and with the packets on
the way, each in one place of an open connection. For `AssignedUsable`, `MtxInv` and
`AssignInv` say who holds `listNodeMtx`: a worker about to route has seen the node
available under it, and only the main thread may have begun taking the node out, which then
waits for the mutex. For `AnswerMatches`, ids are given out once (`IdsInv`, `StrayInv`), a
task is in one queue (`QueueInv`). For `AwaitingServed`, each step that takes a
request away answers it, records it as lost, or leaves the main thread at a point where it
will abort that node's tasks. Each of the many steps is seen four times: from one task
(`TaskStep`), one node (`NodeStep`), one list of a criterion (`ListStep`), and the main thread
(`MainGoes`), and each conjunct needs one or two of these views only.

Each invariant was checked by TLC on a small instance before it was proved.

**Argument for the lock.** A thread is in the body of a function exactly when it
holds the mutex; the counter equals the number of threads inside; the blocker
that is past its wait finds it 0 while the flag keeps everybody out. The
assumption that the users are fewer than the counter's limit is used exactly
once, for the increment.

**Argument for the handles.** `WellFormed` says that `indexToHandle` is a permutation
and that `handleToIndex` inverts it on the handles in use (`InUseAreFirst`: those are
its first `num` entries); `cx_handle_free` swaps the last of them into the gap. That
the handle that is freed is in use is an assumption of `FreeExact` which the code
does not check, and `MemNode` shows where it fails (`twice`).

**Argument for the MEM node.** The server context is changed by one main thread, but by
long steps: a buffer of packets, a sweep, the disconnection of all. So the invariant
about it, `ServerInv`, is stated for *a* context, and `Good` is the set of the contexts
that satisfy it and have the same clients behind the same versions: `CloseGood`,
`TouchGood` and `FlushGood` show that each operation stays in this set, and a sequence of them
does as well, because the recursive function that stands for the loop has a solution
(`Recursion`, by least counterexample; also for `Noted`, which fills `tmpIds` and stays
within it). `FdsInv`: open connections have different descriptors, and a client that has one is
that connection's. `TableInv`, unless some client was disconnected twice: the handles in use are
those clients', and the dictionary leads to them. `AnswersInv`: as each version is at most
the number of connections that have been made, no version has come round; so
the version of a task's client id, if it is still current, names the connection that asked
(`TasksInv`). `AwaitingServed` is inductive together with two facts: who runs is a task
(`RunningInv`), and taskman runs while the main thread polls, flushes or aborts, except
for the last time (`UpInv`) — otherwise an answer could be dropped while its
worker waits.

**Argument for the gossip.** `ExchangeExact` is not inductive for two reasons. A node may
be added to the table by any import, with stage NONE: so one that is not in the table
must be in no exchange (`InStep`, one conjunct about each pair). And a node that
restarts begins with a new table: so one that is down has no connections left. Every
action but the round, the crash and the restart changes one exchange, or adds nodes
to one table, which `OneExchange` and `ImportInStep` settle once for all of them.

**Argument for tables and tasks.** Each theorem is a conjunct of the invariant
`IInv`, or follows from it, and none of them is inductive alone. `TaskInv` says of every
task what its state, kind and place in the handler imply for each other: above all
that it names a table wherever a step uses the name, and that its `pc` is idle when no
worker has it, so that a compaction that is over owns no table. `ListsInv` ties the main
loop's lists to the states that got the tasks there. The heart is `LifeInv`: a table can be
found, or there is a *claim* on it, which one task at a time has — a DROP that has
taken it out of the map, a CREATE that has failed, then the FREE that either of them
makes. `FreedOnce` speaks of the FREEs only and is kept because each of them has been
handed the one claim; `FreedUnreachable` because the FREE that destroys the table
gives the claim up, `users` is empty and, by `CompactingExact`, no compaction names it.
A table nobody has allocated is named by nothing (`UnusedInv`), so a CREATE's new one has
no claim. `BlockedHasOwner` speaks of the table in the map; `ReblockedUnderCreation` needs
the same of one that has been dropped and has a compaction still (`OwnedInv`), and for
that, that no compaction names the table a failed CREATE gives up (`HiddenInv`): it has
never been in the map. Two compactions cannot meet, by `CompactingExact`. A DROP that
fails gives its claim up as well, and nobody has it any more: the table is `leaked`, and
nothing has to be shown of it but that no FREE names it. Most steps are `Quiet`: they change no table's life, make none appear under the
name and add no claim, which `LifeQuiet` settles once; the DROP, the two ends of a CREATE's
allocation, the completion that makes a FREE and the FREE itself have lemmas of
their own. Tables whose creation failed half-way (`broken`) are excepted from the
theorems as from the properties: they stay in the map and are freed nevertheless.

**Argument for the sort and the memtable.** `Partition`, `Sorted`, `Uniquified` and
`BinaryFind` are recursive functions over numbers: so many passes, levels, records or
halvings. The numbers are bounds, not the code's loops, which end when their conditions
say so; the proofs show that they have ended by then (`PassParts`: i and j come two closer with
each pass; `PartitionParts`: each part is shorter than the range; `HalveHalves`). That a
recursive function has a solution at all is `Recursion`, from the least number it has
none for, and what holds of all its values is then `Upwards`, the induction over
`0 .. N` for a set of numbers: no induction theorem with an operator parameter is needed.

`SortedSorts` says two things apart. The result is the array with its positions
permuted (`Rearranged`), whatever the comparator does; for `Full` is not an order
where timestamps lie half of their range apart or more, and nothing must be lost
then either. And the result is in *every* order that is transitive and agrees with the
comparator on the records (`Orders`). It is used twice: with `ByKey`, which agrees
with `Full` always, so records of one key always end up together (`ByKeyOrders`), which is
all that `UniquifiedKept` needs; and with `ByAge`, which agrees if timestamps are
`Near`, so that the first record of each key is its newest. The invariant of the loop of
`cx_sort_uniquify` is `Kept`: the records kept so far are the first of their keys, in strict
order; those not looked at are where they were; and the values allocated are exactly the
ones of both.

The inductive invariant of the memtable (`MemtableInv`) says that values of records are
below the next one and allocated, each at one position (`ValuesInv`); that what is taken
to be sorted is in strict order (`SortedInv`), which the bisection relies on and `Add`
gives up; the same of the file; and `FindExact`, the answer to the last search. Nothing
is known of the cells behind the records: the bisection may read one of them only when
all records are before the key (`Bisected`), which is the exception that `FindExact`
makes; and in a file of fewer records than the array had room for at first the key read
there is 0, behind which there is nothing. `Capacity` and `Parts` need to be positive
only, and `Modulus` only above all timestamps: that it is 2^64 in the code is used nowhere.

**Only model-checked**: everything temporal beyond safety (`CompactionEnds`,
`WaitEnds`, `DroppedIsFreed`, `Converges`, `Stops`): liveness under fairness is out of the
prover's reach. Every invariant and every action property of the passing runs is
a theorem.

## 5. Where code and documentation disagree

* `awaiting`: `task_reschedule` pushes a task into the blocked queue and *then*
  sets its state; a compaction that unblocks the table in between takes the task
  out, marks it new, and has the mark overwritten. The task awaits in no queue,
  against taskman.h:30.
* `page_wrong_key`: `mm_page_alloc` gives a page of a segment to another key of the
  same segment, and the former key still leads to it: the check of the parent
  (mm.c:380, 421) passes, and a SELECT of the one key answers the other's record.
  `NoInsertLost` and `SelectExact` hold as long as that has not happened (`mixed`).

Others have no run of their own; the models reach them, and a property that holds
excepts them by name:

* a SELECT opens the directory and then searches the memtable; a dump that completes in
  between moves records from the second to the first. The SELECT sees them in
  neither, and answers that an acknowledged key does not exist, or an older record
  (lfs_worker.c:93-131). `SelectFreshUnlessDumped` says that this is the only way;
* `cx_sort_find` "searches for an element [...] in the given _data array of _num
  elements" (sort.c:43) beginning with `right = _num`: for a key greater than all others
  it compares, and may return, what lies behind the last record (sort.c:56), which is
  uninitialised memory, memory outside the array, or a record that `memtable_clear`
  left there. `FindExact` holds for every other key, and for files of fewer records
  than the array has room for at first;
* the difference of two timestamps is kept in an `int64_t` (memtable.c:377): with 2^63 or
  more between them the older record is taken for the "right value" of its key
  (memtable.c:352). `DumpExact` holds for all others (`Near`);
* the timer of a dropped table, which lives until the table is freed, looks the
  table up by name and finds the one being created, which is blocked until its
  CREATE completes: `cx_reslock_block`'s check (reslock.c:77, "the resource protected is
  already blocked!") fails, and CREATE's completion unblocks the table in the middle of
  a stage (`ReblockedUnderCreation`);
* CX_NET_VALID_CID "checks whether a clientId (version+handle combination) is still
  valid or was invalidated" (net.c:24) and compares only the version, which changes
  when the handle is given out again: a client that is in both lists of a sweep, one
  that sends an invalid packet behind a refused AUTH, and at the shutdown one whose
  id is still in `tmpIds`, is disconnected twice, and its handle freed twice
  (`HandlesExact`);
* `dumpNumbers` has room for the highest `D#.tmp` (fs.c:502) and takes the numbers of every
  `D#.tmp` and `D#.tmpc` (lfs_worker.c:195-203). After a compaction that failed in
  stage 2 and left, say, `D1.tmpc` to `D3.tmpc`, the next one with a `D1.tmp` has one entry for
  four numbers; with no `D#.tmp`, none for three. `CompactionEnds` excepts it, and
  `OverrunNeedsLeftover` says that such leftovers are what it takes;
* a DROP that cannot remove the table's files (fs.c:359) ends with an error and the table
  out of the map: its completion does not free the table (lfs.c:585-591), nobody else can
  find it, and tasks in its `blockedQueue` are answered only if a compaction under way
  unblocks it. The same is left by a FREE for which no handle is free (fs.c:616). `DroppedIsFreed`
  holds for every other table;
* `cx_net_flush` drops what `write` did not take and what a worker appended meanwhile
  (net.c:488), so a request may neither be sent nor aborted (`AwaitingServed`); one that
  was sent before a handshake that fails is not aborted either;
* a DROP leaves the blocks of dumps and `.binc` files marked, and a block list that
  was read before its file was replaced frees blocks of somebody else
  (`UsedIsOwned`, `NoSharedBlock`).

The properties of `PageCache` name what the code does and no document
contradicts. An eviction waits for its victim's lock with `pagesMtx` in its hands
(mm.c:329), and a task that has the victim locked waits for `pagesMtx`: the two
wait for ever, and with them, soon, the node; `OnlyEvictionSticks` says that this is
the only circle. And a SELECT may be answered with less than was acknowledged
in two ways that `SelectExact` excepts: LFS answers it before an INSERT that a
journal has sent earlier, or an INSERT with an earlier time fills an empty memory's
page without being compared with what LFS holds.

## 6. Not modelled, and why

* Lists, dictionaries, strings, binary readers and writers: sequential utilities over
  data, which unit tests reach. Of sorting, the search for the first of equal
  elements, which only the tests use.
* epoll, partial packets, DNS, files, timers, console and watches: wrappers of the
  operating system; they are seen through what their callers rely on.
* Parsing, reports, metrics, logging, formatting: text.
* In `LsmStore`: errors of files that exist (open, read, rename failing for other
  reasons than those named), and crashes inside one file operation (`Blocks` has
  the latter, for the blocks).
* In `TableTasks`: DESCRIBE, start and shutdown, and the pointers of the unlocked linked list
  behind `blockedQueue`, whose push and pop are single steps.
* In `PageCache`: DROP, the loss of LFS, and the blocked queue's liveness: nothing but
  the next timer tick wakes up a task pushed between mm.c:593 and the clearing of
  the flag.
* In `Ker`: `mempool_journal`, metrics, and the lists of `SHC` beyond the choice of a node.
  After the shutdown has begun, `SendSafe` is not claimed: `mempool_disconnect` destroys
  the contexts without the nodes' rwlocks (mempool.c:117-131). A buffer that is full: `out`
  is unbounded, where the code has 8 KiB (`CX_NET_BUFLEN`, net.h:11) for a request of each
  waiting worker. With less room than a packet needs, the worker that sends flushes the buffer itself, inside
  `cx_net_send` (net.c:389-413), beside a flush of the main thread. `CX_NET_SEND_BUFFER_FULL`, which
  the worker would wait upon (ker_worker.c:276-277, mempool.c:512-525), is then never returned:
  whatever `write` took, the position is set to 0 (net.c:494-501). (The wait itself,
  `cx_net_wait_outboundbuff`, is empty: net.c:589-596.)
* In `MemNode`: the console's tasks (like a client's, with nobody to answer), a full
  outbound buffer (as in `Ker`), the gossip's clients (`Gossip`) and the journal.
* In `Blocks`: a CREATE that fails for other reasons than blocks (its folder or metadata
  cannot be made).

## 7. Plan

Done: storage, the memtable's array, crashes, tables and tasks, resource lock, blocks, page cache and
journal, MEM node, KER, gossip, handle allocator. What would add most from here:

1. **An abstract request**: a task asks, is answered or fails, once; `Ker` and `MemNode`
   as implementations of it, without the flush.
2. The journal of the MEM nodes of `SHC` (`mempool_journal`), which sends from the main
   thread to nodes that may be going.
