# Goods_db: TLA+ models and proofs

This directory models Goods_db (`src/goods_db`), a small relational database
server in C++: TLA+ modules translated from the source, TLC configurations that
check them on small instances, and TLAPS proofs that hold for every size.
`PROJECT.json` maps each definition to the lines it stands for and lists the
runs, mutants, hazards and theorems.

    tlc -workers 2 -config MCBufferPool.cfg MCBufferPool    # a run
    tlapm BufferPoolProofs.tla                              # a proof

## 1. The system

A client connects over TCP. The accept loop hands the connection to a thread
pool; a worker runs it to its end and calls one execution engine, shared by all
connections. The engine parses, binds and plans a statement and pulls rows
through executors, which go through the storage handler to the table heaps;
these keep their data in pages of the buffer pool, and the pool reads and writes
pages through the disk manager. Users and privileges live in system tables of
the same kind, with caches in memory.

| Component | State | Operations | What makes it correct |
|---|---|---|---|
| `DiskManager` | open files by id, next id; in each file a header, a free chain, data pages | create, open, close, delete file; read, write, allocate, deallocate page | a page in use is never handed out again, also after a crash; an id means one file |
| `BufferPoolManager` | page table, free list, frames with pin count and dirty bit, replacer | fetch, new, unpin, delete, flush | a held page stays put, no frame is lost, no write is lost |
| `ClockReplacer`, `LRUKReplacer` | evictable frames, hand and reference bits, or access history | victim, pin, unpin | the victim is evictable, is found when there is one, and is chosen by the policy |
| `Page`, page guards | latch, pin, dirty bit | latch, write, release | what was written is marked dirty |
| `TablePage`, `TableHeap`, `TableIterator` | slots and tuples; a chain of pages; a cursor that holds a page | insert, update, delete, scan | a row is found at its RID, and by every scan that could meet it |
| `BPlusTree`, `ExtendibleHashIndex` | pages of keys; directory and buckets | insert, remove, find, range scan | the index is a map from keys to RIDs |
| `ThreadPool` | queue, stop flags, workers | submit, run, shut down now or gracefully | no task is lost or run twice, no wake-up is lost, shutdown returns |
| `LockManager` | row and table locks, waiters | lock, unlock, release all | conflicting modes are never held together, no waiter is forgotten |
| `TransactionManager` | last id and its file, active transactions, one per thread, savepoints | begin, commit, roll back, savepoints | ids are unique across restarts, a thread is inside its own transaction |
| Server main, `ConnectionHandler`, `Connection`, `ExecutionEngine` | accept loop, registry, descriptors; current user, last error, affected rows, last plan | serve, authenticate, query, KILL, SHUTDOWN, signals | a reply belongs to its statement and goes to its client, sessions end |
| `AuthManager` | users and privileges in caches and system tables, block list | log in, create, drop, alter, grant, revoke, flush, reload | a reload or restart changes no password, and no right except in named cases; guessing is bounded |
| `Catalog`, `goods_handler`, executors | tables, files, rows, foreign keys | create, drop, insert, update, delete with cascade | catalog and files agree, ids are unique, no dangling reference |
| Parser, binder, planner, filter and limit executors | the plan of a statement | SELECT and the scan of UPDATE and DELETE | WHERE means what SQL says, pages of a listing tile it |
| Logs, configuration, wire formats, clients, `bustub` | | | see section 7 |

The hard behaviours: threads that write to a pinned page without the pool's mutex
while a flush copies it; disk calls that fail in the middle of an operation of
several steps; a process that dies between two writes to a file; 16-bit counters;
tables dropped, scanned and extended under their users; condition variables and
shutdown; one engine that all sessions share; a descriptor closed by two threads;
caches and tables changed one after the other.

## 2. Modules

| Module | Models | Role |
|---|---|---|
| `Replacer` | `buffer/replacer.h` | abstract: a set of evictable frames |
| `ClockPolicy` | `buffer/clock_replacer.cpp` | the clock as operators on a record, used by the next one and `BufferPool` |
| `ClockReplacer` | the same | the clock alone, under any calls; its safety, proved in `BufferPoolProofs` |
| `LRUKReplacer`, `LRUKProofs` | `buffer/lru_k_replacer.cpp` | proved to implement `Replacer` and to choose by the full history |
| `PageStore` | what the layers above rely on | abstract: pages, the clients that hold, read and write them, and nothing of the pool |
| `BufferPool`, `MCBufferPool` | `buffer/buffer_pool_manager.cpp`, `page.h`, `page_guard.cpp`, `delete_table` | shown to implement `PageStore` |
| `BufferPoolProofs` | | structure, contents, refinement and circulation of frames, and the clock, proved |
| `DiskManager`, `DiskManagerProofs` | `storage/disk/disk_manager.cpp` | files, free chain, crashes; its safety, proved |
| `ThreadPool`, `ThreadPoolProofs` | `sql/server/thread_pool.cpp` | workers, condition variable, shutdown; its safety, proved |
| `TablePage` | `storage/page/table_page.cpp` | slots, offsets and sizes as operators on a page |
| `TableHeap`, `TableHeapProofs` | `storage/table/table_heap.cpp`, `table_iterator.cpp` | writers and scans on a chain of such pages; its safety, proved |
| `BPlusTree`, `ExtendibleHash` | `storage/index/*.cpp` and the page classes | the two indexes as operators |
| `Indexes` | `storage/index/index.h` | either index under any calls, against a reference map |
| `LockManager`, `MCLockManager` | `sql/lock_manager.cpp` | row and table locks; their safety, proved in `TransactionsProofs` |
| `Transactions`, `TransactionsProofs` | `sql/transaction_manager.cpp` | ids, their file, savepoints, restarts; their safety, and that of the locks, proved |
| `Server`, `ServerProofs` | `sql/server/*.cpp`, `sql/network/connection.cpp`, the shared members of the engine | connections from accept to close; their safety, proved |
| `AuthManager` | `sql/security/auth_manager.cpp` | users, privileges, logins |
| `Tables` | `catalog/catalog.cpp`, `goods_handler.cpp`, data executors | statements on tables |
| `Values` | `type/value.h` | what an expression yields: a number, a Boolean, NULL or a crash |
| `Conditions` | `TranslateExpression`, `BindExpression`, `Evaluate` | a WHERE clause from parse tree to value |
| `Queries` | `PlanSelect`, scan, filter, projection and limit executors | a plan pulled row by row, with any predicate; its paging, proved in `CommandsProofs` |
| `Commands`, `CommandsProofs` | `ExecuteSQL`, for what changes state | composes `AuthManager` and `Tables`: one statement after another; its safety, proved |
| `Statements` | `ExecuteSQL` | adds the queries of `Queries`, with the predicates of `Conditions`, to `Commands` |

### How state and actions correspond to the code

*Buffer pool.* The variables carry the names of the members (`page_table`,
`free_list`, `pin_count`, `is_dirty`, ...); `stored`, `extent`, `allocated` and
`open` are the disk manager as the pool sees it; `pc`, `page` and `frame` are a
worker thread that fetches, latches, writes and releases a page. Each public
method holds `mutex_` throughout, so a call is one action, with one action per
outcome: `FetchHit`, `FetchMiss`, `FetchReadFails` and `FetchNoFrame` are the
returns of `FetchPage`. `GetFreeFrame(f)` says which frame is obtained and
`FreeListAfter`, `ReplacerAfter`, `PageTableAfter`, `StoredAfter` what obtaining
it has changed, the write-back of the victim included. Flushes are the
exception: `FlushWrite` and `FlushClear` are separate steps, because a thread
that has the page pinned changes it and marks it dirty without that mutex. Page
contents are a few values: a page is copied as a whole, so a torn copy is not
in the model. `Faults` names the disk calls that may fail on an open file; calls
on a closed one always fail.

*Disk manager.* A file is its size, the header's `first_free_page` and the
first two bytes of each page, which in a free page are the number of the next
one. Calls exclude each other by `mutex_`; a call with two writes is cut between
them (`op` says what is left to do) and `Crash` may come at any point. File ids
and page numbers keep their width (`FileIdLimit`, `PageLimit`; 2^16 in the
code). `owned` and `handles` are the callers: which pages and ids they believe
they have. Failing to create a file returns -1 and changes nothing, so it has no
action.

*Thread pool.* One action per critical section of `queue_mutex_`, one for each
notification, because it is sent after the unlock, and one for the end of a task.
A sleeping worker is woken by `NotifyOne`, `NotifyAll` or for no reason
(`SpuriousWakeup`).

*Table pages and heap.* A page is its links, its slots (offset and size, the
offset in 32 bits, `UINT32`) and, for each byte of the tuple area, the tuple that
last wrote it, so that overlapping tuples are seen. A heap call latches one page
at a time; each page it visits is one step (`InsertHere`, `WalkOn`, `AppendPage`,
`LinkAndInsert`), and other writers come in between. `told` is what callers know:
the RIDs they were given and what they stored there. A scan keeps its page latched
between two rows, so writers wait for it there.

*Indexes.* Each call holds the index's latch, so a call is one step, an operator
from index to index. Trees and directories are kept page by page; a fault names the
page call that fails inside the call, and the operators follow the early return.
`ref` is the map the index should be.

*Locks.* An entry is a mode and a count, as in the code; `rowHolders` and
`tableHolders` record who was granted what. Row calls run under `row_mutex_`; a row
conflict reaches `DetectDeadlock`, which locks that mutex again
(`LockRowHangs`), and from then on every row call blocks. Table requests sleep on
one condition variable, wake, or time out.

*Transactions.* The xid file is a sequence of digits in a small base, so that a
shorter number written over a longer one leaves its tail. Opening (truncating) and
writing are two steps; `Crash` and a regular `Shutdown` restart the server from
the file. `disturbed` records that the file met one of the cases the code does not
guard against: two writers at once, a failed open, a crash in between.

*Server.* `at[c]` follows connection `c` from `accept` through `HandleAuth` and
`HandleQuery` to the destructor of its handler, which lies on the stack of its worker:
`target` in `ExecuteKill` is that worker, whatever it runs by then. Descriptors are
numbers the kernel reuses (`fd_owner`); `Connection` and `Protocol` each have
a copy. `running_` is tested before `ReadPacket` (`TestStopped`), so a session that is stopped
while it reads may run one more statement. The engine's members are four shared variables.
`beside[c]` collects the clients whose statements ran during the one of `c`; `raced` marks a
KILL that met a session about to close.

*Users and privileges.* Caches and system tables are sequences of records. A deletion
runs under a scan's read latch and waits for itself unless the row is the last
live one of its page (`DeletionHangs`). `Rights` is what the best match among some records
grants, for the cache and for what a reload would make of it (`Reloaded`); `narrowed`
remembers the rows of whole databases that GRANT and REVOKE on one table deleted. Time is
`Expire`.

*Tables.* A statement of a session is cut where it lets go of the latch or mutex that
protects it: `CREATE TABLE` between file, first page, catalog and heap, `DROP TABLE`
between file and catalog, `INSERT` between the scan for the largest id and the write,
`DELETE` between two rows and two frames of the cascade. A row has an id and one
reference. A restart empties the catalog and leaves the files. `fate` ends a behaviour in
which a thread waits for itself or uses a freed `TableInfo`; `lost` and `ddl_raced` remember
the names of section 5 whose file has no table.

*Conditions and queries.* A clause is a parse tree over one nullable column `x`, an
unknown column `y`, numbers, NULL, a parameter and a CASE expression. `Translate`,
`BindExpression` and `Evaluate` are the three stages with what each drops;
`MeaningSQL` is the three-valued reference. `Queries` pulls rows through
SeqScan, Filter, Projection and Limit one `Next` at a time. It takes the predicate of a
clause and its value on a row as operator constants (`PredicateOf`, `ValueOn`), which
`MCStatements.cfg` sets to `BoundClause` and `Evaluate`; so `Queries` declares no
recursive operator and can be proved about.

*Statements.* `Issue` is `ExecuteSQL`, without queries in `Commands` and with them in
`Statements`. In each behaviour the statements are of one
family (`focus`: privileges, logins, data, queries); families share nothing but the
restart, so that their product would only repeat states.

## 3. Runs

| Run | Properties | What it shows |
|---|---|---|
| `clock` | `ClockSound`, `EveryFrameGetsItsTurn` | `size_` never drifts from the flags, a failed `Victim` succeeds when repeated, no evictable frame is passed over for ever |
| `lruk` | `ImplementsReplacer`, `VictimHasLargestDistance` | K timestamps per frame suffice to choose as over the full history |
| `pool` | `TypeOK`, `CleanPageIsStored`, `UnpinnedIsEvictable`, `ImplementsPageStore` | a page changes only by a thread that holds and writes it, and a fetch sees the last write through every eviction, failing read and `FLUSH TABLES`, for callers that pass the dirty flag themselves |
| `pool_faults` | `PageTableMatchesFrames`, `FramesAccountedFor`, `PinsCountHolders`, `HeldPageStays` | the structure survives every disk call failing at will, guards, and `DROP TABLE` under the users |
| `disk` | `FreePagesAccountedFor`, `OwnersUndisturbed` | with a crash between any two writes, the free chain is sound, a crash loses at most one page, pages in use keep their bytes and ids their file |
| `thread_pool` | `NoSleepOverWork`, `ShutdownLeavesNothing`, `OneRunPerTask`, `EveryFutureResolves`, `ShutdownReturns` | both kinds of shutdown at any moment |
| `table_heap` | `RowsAreIntact`, `LostOnlyToRaces`, `ScanComplete` | tuples never overlap and stay at their RID; rows get out of reach only when two writers append at once or a link fails; a scan misses no row that stays in reach |
| `indexes` | `HashIsSound`, `TreeIsSound`, `CallsTouchOneEntry` | the hash index is a map through all splits and doublings; the tree is one until its first split, and its leaf chain loses and copies nothing after it |
| `locks` | `LocksAreCounted`, `HoldersAreCompatible`, `NoSleepOverGrantable` | counts are the holders, X is alone, rows are shared in S only, table locks are compatible unless the entry was opened in IS, no waiter is forgotten |
| `transactions` | `CommittedXidsStayBehind`, `TransactionsAreOwned` | a committed id comes back only after one of the unguarded cases of the file; no thread is inside a transaction that has ended |
| `server` | `RegistryHoldsLive`, `StatementSeesItself`, `SocketsAreSound`, `SessionsEnd` | what a statement finds in the engine is its own or from a statement that ran beside it, never left over (a planned statement's rows and plan included); connections are counted and replies reach their client unless a KILL meets an ending session; sessions and the shutdown end |
| `statements` | `ReloadKeepsRights`, `GuessesBounded`, `KeysAreSound`, `FilesMatchCatalog`, `WhereMeansSQL`, `PagesTile` | a reload or restart changes no password, and what `CheckAccess` allows only in the four cases of section 5; a cascade is complete down to its limit and ids are unique without overlapping inserts; a name that is not being created or dropped, and on which no two sessions met to do so, is in the catalog exactly if its file is there, but for the files that a restart, a CREATE failing at its first page or a refused removal left behind; clauses of the supported forms choose what SQL says; LIMIT and OFFSET tile |

Several properties are conjunctions of named parts, which the modules state and
comment one by one (for example `RowsAreIntact` is `TypeOK`, `PagesAreSound` and
`RowAtItsRid`). All runs pass. Where the code goes wrong, the property names the exact
exception (`LostOnlyToRaces`, `CompatibleUnlessOpenedInIS`, `~disturbed`, `~raced`),
so that it shows that nothing else goes wrong; section 5 lists the exceptions. Each
property has a mutant: a plausible defect in one mapped definition that makes TLC
report it violated.

### Bounds

- `clock`: four frames; the hand, the bits and the flags take every combination.
- `lruk`: three frames, K = 2, six accesses, enough for a frame to be evicted,
  come back and collect a full history again.
- `pool`, `pool_faults`: two threads, two frames, three pages, so that a full
  pool, a miss that evicts, two holders of a page and a pool with every frame
  pinned all occur; two contents where contents matter. Pages and threads are
  interchangeable (symmetry); only safety properties are checked there.
- `disk`: two paths, three pages per file, two files opened or created, two file ids,
  one crash. `PageLimit` is 4 and `MaxPages` 3, so the count does not wrap.
- `thread_pool`: three workers, two callers, four tasks: more tasks than workers,
  a worker asleep while others work, and a caller that submits during shutdown.
- `table_heap`: two writers and a scan, three pages of eight units, three tuples of
  size 2 or 5: a tuple that does not fit next to another, growth in place and by moving, two
  appends at once, a deletion under a scan.
- `indexes`: two entries per leaf, internal page and bucket; five keys and six calls
  split an internal page; three keys in a hash index under every hash function to two
  bits, five calls: doubling, a shared bucket, a bucket that cannot be split. One call
  may fail.
- `locks`: three callers (symmetric), one row, one table, all modes; a caller asks
  for another lock while it holds one, which reaches every pair of holders with a
  third waiting.
- `transactions`: two threads, digits in base 3, ids to 5 with a write by `Begin`
  at 4 (`PersistEvery`; 1000 in the code), so that the number of digits
  changes; two savepoints, one restart.
- `server`: three clients, two workers, two statements: one client waits in the
  queue, its descriptor number may be one that was closed, and one statement is a KILL of
  another's session.
- `statements`: four statements on two accounts and three objects; three
  administrative steps between logins of two visitors with a limit of two; three
  statements of two sessions on two tables with at most one row and one foreign key each
  at the start (self-references and cycles included), a cascade limit of 2 (10 in the
  code), ids to 2; every clause with at most one connective over 23 atoms, LIMIT from
  none to 2, OFFSET from -1 to 2.

### Fairness

- `EveryFrameGetsItsTurn` (`clock`): the pool keeps asking for victims; the rest
  is up to the clock.
- `EveryFutureResolves` and `ShutdownReturns` (`thread_pool`): a thread that can
  run is scheduled (weak fairness of each worker, each pending notification and
  the joins), and a task ends. Nothing is assumed about submitting, shutting down
  or spurious wake-ups. The server's tasks are whole connections, which end when
  their client leaves: without that, `Shutdown` waits, as the code does.
- `SessionsEnd` (`server`): threads are scheduled, and a client that has a connection
  goes on talking or leaves; since statements are bounded it leaves in the end. Nothing
  is assumed of `accept`: no client need come, which is why the property allows `main`
  to stay there.

`CHECK_DEADLOCK FALSE` is used where the program really stops or the bounds are used
up: a hung or exhausted disk manager, a pool that was shut down, callers that hang in
a lock, a server that has ended, the last call of a bounded sequence.

## 4. Proofs

Everything is proved for any number of frames, pages, files, threads, workers, tasks,
locks, clients and statements and for every value of the bounds. What is assumed of the
constants is named in the modules that declare them (`PoolAssumption`,
`DiskAssumption`, `LRUKAssumption`, `ServerAssumption`, `BoundsAssumption`,
`AuthAssumption`, `TablesAssumption`, `LayoutAssumption`, `HeapAssumption`, ...): they
are well-typed and distinct, sets of threads, clients and tables are finite, a page has
room for the largest tuple, and no tuple is empty. The
proofs of the lock manager use no assumption, nor its bound `MaxLocks`. Where a theorem
needs more it is a hypothesis of that theorem: `Reliable`, `WritesBack` and `NoWrap`,
each of which excludes a defect of section 5 and is satisfied by the cfg of the run
that checks the same property.

**Structure of the buffer pool** (`BufferPoolProofs`). `StructureInv` is
inductive: the type invariant, the four properties of `pool_faults`,
`ResidentIsAllocated` (only pages in use are in the pool; without it `NewPage`
could enter a page that already has a frame) and `FlushWithinPool` (what a flush
still has to write stays in the pool while it holds the mutex). The four depend
on each other: evicting is safe because the replacer offers unheld frames only,
which needs the pin counts, which need that a held frame keeps its page. One
lemma per action; lemmas on the clock say that pinning, unpinning and sweeping
change `evictable` as expected and that the victim was evictable. Theorems
`TypeCorrect`, `PageTableCorrect`, `NoFrameLost`, `PinsCorrect`,
`HeldPagesCorrect`: no assumption on failures or on who uses guards.

**Contents and refinement** (`BufferPoolProofs`). `CleanPagesCorrect` and
`PoolImplementsPageStore` assume `Reliable`: pages are released with an explicit
dirty flag, and `FlushAllPages` meets no write failure. Neither can be dropped: see
the first two points of section 5. The invariant
`ContentInv` is weaker than the property at each moment: a page that differs from
the file is dirty, *or some holder still owes the dirty flag* (`CleanOrOwed`), and
the same for a page between the two halves of a flush (`CopiedOrOwed`). When
nobody holds the page nothing is owed, which gives `CleanPageIsStored`. The
refinement maps the threads to the clients of `PageStore`: `Content` to what a page holds
and `View` to the bytes under the `Page*` of each thread. There a page changes only by
a client that holds it and writes it, is deleted only when nobody holds it or with the
file being dropped, and a client that acquires a page sees its content. So a hit and
a miss are the same `Acquire`, whatever frame the miss evicts (`FetchMissStore`),
and a flush, a failed call or a write-back must leave `Content` and every `View`
alone (`Invisible`): an eviction that forgot its write-back would change the
content of the page it evicts in a step that may change none. The views need that a frame the
pool takes or frees has no holder (`NobodySeesFreeFrame`, `NobodysPage`), and that
two threads share a frame exactly when they share a page (`SameFrameSamePage`), which is
also why the latch of a frame is the latch of a page.

**Circulation of frames** (`BufferPoolProofs`). `UnpinnedCorrect` assumes `WritesBack`:
`EvictPage` can write its victim back and no table is dropped (third point of section
5). The property alone is not inductive: the victim leaves the replacer before the outcome of
its write is known. `EvictInv` adds the structure, from which the victim holds a page in
use, and that every file stays open, so that this write cannot fail.

**Replacers** (`BufferPoolProofs`, `LRUKProofs`). `ClockCorrect`: after a `Victim` that missed,
the reference bits of all evictable frames are clear, because one sweep visits every
frame (`HandReaches`, `OneTurn`) and clears what it passes (`SweepKeeps`); so the next
one finds a frame (`ClearedIsFound`). `size_` is the cardinality of the flags.
`LRUKImplementsReplacer` maps LRU-K to `Replacer`; it needs that `curr_size_` is the number of
evictable frames, since `Victim` gives up on `curr_size_ == 0`. `VictimCorrect` is about
what the code forgets: the list it keeps is exactly the K most recent accesses
(`MostRecent`, kept by `PushKeepsRecent`), so its last element is the K-th last of
the full history (`KthIsLast`).

**Disk manager** (`DiskManagerProofs`). `OwnersCorrect` and `FreePagesCorrect` assume
`NoWrap`: no more files are opened than there are ids, and no file reaches 2^16 pages.
`DiskInv` says of each whole file that it is `Chained`: some finite sequence without
repetition lists the free pages, each a data page that holds the number of the next, up to 0.
`WalkFollowsChain` and `ChainMembers` connect this to the recursive walk `Chain`: it visits
the listed pages and no others, and since they are distinct data pages it
reaches the end (pigeon hole). Three lemmas then say what a write does to the chain:
`ChainKept`, `ChainPop`, `ChainPush`. The rest of `DiskInv` is what the two-write calls
leave in between: the page in flight of `AllocatePage` or `DeallocatePage` is neither
owned nor free, and holds the link that the header will need; `num_pages` is ahead of the
file by the page that is about to be written; `handles` are exactly the open files.
`LostInv` counts: every step but a crash loses no page (`FileKept`), and a crash loses at
most the one in flight.

**Thread pool** (`ThreadPoolProofs`). `PoolInv` adds to the type invariant that
a queued future has its task in the queue, a running one a worker
(`FuturesAreBacked`), and what stopping leaves behind (`StopSound`: a worker
returns from an empty queue only, and a stopped queue is never filled again).
`ShutdownCorrect` and `TasksRunOnce` follow. `NoSleepCorrect` counts: a task
enters the queue together with a notification to come, and a worker sleeps only
on an empty queue.

**Lock manager** (`TransactionsProofs`). To the two maps a step is one grant, one
release or nothing (`TableSteps`, `RowSteps`); the type invariant is needed for that,
because it says that a waiter does not hold what it is granted. `CountsCorrect` is
inductive on top of it. `HoldersCorrect` needs a strengthening, since a request is
compared with the entry and not with the holders: every holder has the mode of the
entry or one compatible with it (`TableEntryFits`, `RowEntryFits`). Two modes that go
with a mode other than IS go with each other (`CompatibleTogether`), which is also
why IS is the exception. `NoSleepCorrect`: a grant changes the mode of no entry that
has holders, and a release wakes everybody.

**Transactions** (`TransactionsProofs`). `OwnershipCorrect` needs that an id being handed
out is fresh (`FreshIds`: not active, not current, not in the hands of another thread)
and that a committing thread has left `active_txns_` (`IdsBehind`).
`CommittedXidsCorrect` follows the id through the file: while nothing disturbed it there
is one writer, it writes an empty file, and no committed id is greater than what it writes
(`OneWriter`) or than what the file holds when nobody writes (`FileKeepsUp`). That a
restart reads back what was written is `ParseDigits`, for every number and base. It rests
on induction over the numbers: `NatSetInduction` is stated for a set instead of a
predicate, which the provers can instantiate, and follows from the least element of a set;
`RecursiveFunctionExists` shows that a recursive function on numbers satisfies its equation.

**Server** (`ServerProofs`). `RegistryCorrect`: a worker runs one connection and a
connection in session has one worker (`ServingInv`), the queue holds each waiting
connection once (`QueueInv`), and a handler leaves the registry before it begins to end
(`RegistryInv`). `StatementCorrect`: `StatementInv` says, point by point of
`HandleQuery`, that what the engine holds was put there by the statement or by one that ran
beside it; it needs that running statements have each other in `beside`, and that
`current_user_` is always by one of them (`EngineInv`). `SocketsCorrect`:
while no KILL has met an ending session, an open connection owns its number in the kernel
and its `Protocol` has the same number (`NumbersInv`), a KILL under way has its target to
itself and that target has not begun to close (`KillInv`), and `active_connections_` is the number of open
connections (`CountInv`); the type invariant, with a counter that never goes below
zero, is part of the result.

**Table pages and heap** (`TableHeapProofs`). The layout of a page is stated in numbers
(`Laid`: each live tuple ends before any other begins), from which the sets of bytes are
disjoint (`LaidIsSound`). For each page operation a lemma says that it keeps the
layout and which tuples it leaves unbroken: `InsertKeeps`, `MarkKeeps`, `WriteKeeps`,
`GrowKeeps`, `ApplyKeeps`. `HasRoom` guards the 32-bit subtraction of `InsertTuple`
(`RoomFits`); for a tuple that grows, `Wrap` says when the offset wraps. `ApplyDelete`
is a loop: `ApplyMoves` gives the page after the first k slots, and `MovedIsLaid` the
layout after the last, whatever the order of the tuples. `HeapInv` is the inductive
invariant. `RowAtItsRid` is kept by the page lemmas. `Fresh` says that nobody but its writer
knows of a page that is allocated and not linked yet: no page points to it, no RID and
no scan names it; `WriterInv` says that it has one writer only. `LinkInv`: a page points forward, at a page that points
back at it, and a page that was used and knows its predecessor finds that this one points
somewhere. Hence of the ancestors of a lost row the first one outside the chain has
a rival, which points back to the same page (`InvMeansRaces`). `ScanInv`: a row that a
scan has to return, and that is still in reach, was returned or lies ahead. A writer
that links its page behind a page of the chain cuts off all that came after it; the rows
cut off are no longer in reach, and the scan's own page stays in the chain if any row
ahead of it does (`ChainLinks`, `ChainShrinks`). For that, `MustInv` keeps a
dead slot from coming back to life. Each action is first shown to have one of five shapes
(`WritersHaveShapes`), and each part of `HeapInv` is proved for the shapes.

**Users and privileges** (`CommandsProofs`). `RightsSurviveReload`: `Agree` relates the
privilege cache to the two tables it is stored in. A row of a table, unless its user
was dropped, is in the cache; a cached record that grants anything is in its table, or is
in `narrowed`; and no two such records, in the cache or in one table, have the same key.
Each of the three is needed to keep the other two under GRANT, REVOKE and DROP USER. It
follows that a reload takes no record away but empty and narrowed ones and adds none. What
`CheckAccess` decides then follows from `SameDecision`: of two lists of records the one with
more decides as the other when what it has more grants nothing and no two records are equally
specific, because the best match is then one record (`BestDecides`). `GuessesAreBounded`: a wrong
password is in the count of the host or held by a visitor on its way to it (`CountInv`),
so the visitors past the test when the count reaches the limit are all that can follow.

**Tables** (`CommandsProofs`). `KeysStaySound`: while one DELETE runs alone, each
reference to a row that it deleted is a row it has found or is covered by a frame of its
stack (`Covered`), to the depth limit; when the stack is empty none is left. Ids stay
unique on tables where no INSERT raced (`IdsInv`), and what an UPDATE has collected still
has the ids it will write. `CatalogMatchesFiles`: `NameInv` says of one name what is missing
at each stop of the CREATE or DROP that works on it alone (`StageOK`), and that nothing is
when none does (`Settled`). A step of a session touches the invariant of its own name only
(`DdlMoves`), so other names may be created, dropped and fail to be at the same time.

**Queries** (`CommandsProofs`). `PagesAlwaysTile` holds for any predicate, table, LIMIT and
OFFSET, negative ones included. `Counted`: the rows skipped and returned are the chosen rows
met so far, and none is returned before the offset is skipped; hence the next chosen row has
the rank of the next to count (`NextRank`). `Returned`: what was returned are the rows met
whose rank is beyond the offset. At the end the scan has met every chosen row, or the limit
is reached and each row not met has a larger rank (`PageInvImplies`). The theorem is about
`QueriesSpec`; `Statements` takes the same steps, a SELECT only with the privilege for it.

Only model-checked:

- liveness and fairness (`EveryFrameGetsItsTurn`, `EveryFutureResolves`,
  `ShutdownReturns`, `SessionsEnd`), which this prover does not handle;
- `Conditions` and `BPlusTree`, which use RECURSIVE operators because clauses and trees
  are recursive, and with them `Indexes` and `Statements`: the prover loses its
  SMT backend there. These are `WhereMeansSQL`, `TreeIsSound`, `HashIsSound` and
  `CallsTouchOneEntry`.

The theorems of `CommandsProofs` are about `CommandsSpec` and `QueriesSpec`; the run
`statements` checks the same properties under `Statements`, which takes a step of one or of
the other.

## 5. What the models say about the code

Met while modelling. The models contain these behaviours unless a bound or a constant
named here keeps them out.

*Pages and files*

- `WritePageGuard::Drop` unpins with `IsDirty()`; a flush that just cleared the bit
  turns a late write into a clean page (`page_guard.cpp:81`). `pool` has
  `GuardThreads = {}`.
- `FlushAllPages` ignores a failed `WritePage` and clears the dirty bit
  (`buffer_pool_manager.cpp:212`). The fault `flushall` is on in `pool_faults` only.
- `TableHeap::UpdateTuple` writes a page when the new tuple outgrows its slot (the old slot is marked
  deleted, the tuple inserted) and unpins it with false (`table_heap.cpp:138-141`); it marks the page
  dirty only after fetching it again. The pool's threads tell the truth: after a
  write they pass true (`DirtyArgument`).
- A page made dirty after its table was dropped cannot be written back. `EvictPage`
  takes its frame out of the replacer before it tries
  (`buffer_pool_manager.cpp:271-286`) and does not put it back. `pool` therefore
  checks `UnpinnedIsEvictable` without failing write-backs and drops.
- `Victim` sweeps once: when every evictable frame has its reference bit set it fails,
  and the caller is told that all pages are pinned (`clock_replacer.cpp:35`).
- LRU-K evicts frames with fewer than K accesses in hash order, its header says by
  first access (`lru_k_replacer.h:20`).
- `num_pages` is a `uint16_t`: the 65536th page of a file is page 0, its header
  (`disk_manager.cpp:249`). `next_file_id_` wraps too and may take the id of an
  open table (`disk_manager.cpp:68`). `disk` stays below both.
- A crash between `ios::trunc` and the header write leaves a file without header, whose
  page 0 is then allocated (`disk_manager.cpp:225`); properties speak of `Whole` files.
- `CreateFile` of an existing path calls `OpenFile` with `mutex_` held and hangs
  (`disk_manager.cpp:38`). The catalog is not stored, so `CREATE TABLE` of a
  table from before a restart does just that; `if_not_exists` is not looked at.

*Rows and indexes*

- `TablePage::UpdateTuple` of a growing tuple inserts it and returns false, after which
  `TableHeap::UpdateTuple` moves the row once more: two copies
  (`table_page.cpp:254-263`, `table_heap.cpp:148-162`). The offset it computes may wrap
  below zero, and the write leaves the page (`crashed`). When the second
  insertion fails the row is gone.
- Two inserters at the end of the chain link a page each to the same predecessor; one
  drops out. A scan whose `FetchPage` fails ends as if the table did.
- `ApplyDelete` lets tuples overwrite each other and shifts RIDs; the server does
  not call it. `RowAtItsRid` leaves out compacted pages.
- `CreateNewRoot` overwrites the pointer to the right child (`b_plus_tree.cpp:266`):
  after its first split a tree answers true to inserts it does not find again, and
  accepts duplicates. A failing allocation in `SplitInternal` recurses for ever.
- `SplitBucket` unpins a bucket and then writes to it (`extendible_hash_index.cpp:212`);
  `RangeScan` repeats buckets that slots share; the directory outgrows its page at
  depth 9.
- No statement creates an index instance: `CREATE INDEX` only records a name.

*Locks and transactions*

- Every row conflict hangs in `DetectDeadlock` (`lock_manager.cpp:322`). An entry keeps
  the mode of its first holder, so a table first locked in IS admits S, IX and SIX
  together. `ReleaseAllLocks` releases nothing. A holder that asks for a stronger mode
  waits for itself. The server never calls the lock manager.
- `WriteXidFile` truncates first, its failures are ignored, and overlapping writers may
  store the smaller id or mix digits. A second BEGIN forgets the open transaction;
  `current_txn_` outlives the session on its worker; of two savepoints with one name
  the first is found; `SET TRANSACTION` changes the default of everybody.

*Server*

- The engine is shared without a lock. Statements without a plan reply with the row count
  that an earlier one left. The error path leaves `current_query_` set
  (`connection_handler.cpp:211-216`). `output_schema` of joins and aggregates points
  into destroyed executors.
- KILL uses its target after the registry was unlocked; two threads may close a
  connection; `Protocol` writes to a number that may be another client's. `close()` does
  not wake a blocked `read`.
- `signal()` restarts `accept`, so a shutdown waits for one more connection. SIGPIPE
  is not ignored.

*Users and privileges*

- Deleting a system row waits for the latch its own scan holds, with `mutex_`, unless
  it is the last live row of its page.
- A reload or restart changes what `CheckAccess` allows in four cases
  (`AccessSurvivesReload` names them and shows that there is no fifth). DROP USER leaves
  privilege rows that come back with a user of that name. GRANT and REVOKE on a table
  delete the stored row of its database, whose rights are lost. A record with no privilege
  left hides less specific ones but is not stored, so a reload gives back what it hid: GRANT
  and REVOKE of INSERT on one table hide a SELECT on `*.*` until FLUSH PRIVILEGES. Of
  two equally specific records the first decides, and a reload changes their order (the
  instance has no two such records; only the theorem speaks of them).
- The scores of `FindBestMatch` contradict the comment at `auth_manager.cpp:749`.
- A successful login does not reset the count, and attempts while blocked prolong
  the block. `user@%` prevents `user@host`. GRANT does not need the user to exist.
  `REGISTER_FK` is not checked against privileges.

*Tables and queries*

- CREATE that fails after its file was created (`goods_handler.cpp:45-53`: `AllocatePage`
  fails, or `FetchPage` obtains no frame, for which one vain sweep of the clock is enough)
  leaves the file and no table. `DeleteFile` ignores the result of `std::remove`
  (`disk_manager.cpp:131`). So does CREATE beside DROP of one name. The next CREATE of
  the name then hangs, as after a restart (`disk_manager.cpp:38`). `lost` and `ddl_raced`
  remember these names.
- A `TableInfo*` is used after DROP freed it; between catalog and heap a table has none.
- Two INSERTs may take one id; ids are reused and wrap at the width of the column.
- Foreign keys act on DELETE with CASCADE only, to depth 10; INSERT, UPDATE, RESTRICT and
  SET NULL do not look at them; the parent's name is put in lower case while table
  names are not. UPDATE counts rows it failed to write.
- NOT IN behaves as IN (`parser.cpp:844-864`); BETWEEN chooses nothing; a clause that
  does not bind is lost, and UPDATE or DELETE then takes every row; an unknown column inside a
  comparison is a null pointer; arguments of AND and OR that are not translated
  are dropped; a comparison with NULL is false, so its NOT is true. `WhereMeansSQL`
  covers the other forms (`Supported`, `Negates`).
- Numbers are compared as doubles (`value.cpp:213`, `234`), which is exact up to 2^53 only. The
  model compares them exactly; its instance stays far below. LIKE is not modelled.
- ORDER BY, GROUP BY, HAVING, DISTINCT and joins are parsed and bound and never planned.

## 6. Plan

Done: every component of the server that keeps state, with the exceptions of section 7,
and the proof of every safety property that the prover can reach: those of the buffer pool,
the replacers, the disk manager, the thread pool, the table heap, the lock manager, the
transactions, the server, the users and privileges, the tables
and the paging of queries. Worth doing next:

1. The hash index without RECURSIVE operators, in a module of its own, and a proof of
   `HashIsSound`.
2. The scan of a table and the statement above it in one module: the latch a scan holds
   between two rows, and a writer of the same statement (`table_iterator.cpp:85`).
3. A `TableInfo` that is freed while a statement uses it (`catalog.cpp:123`), as an object
   with a lifetime.

## 7. Not modelled

- The grammar is vendored; select lists, joins, grouping, ordering and optimizer rules
  are about nodes that no plan contains, so `advanced_executors.cpp` and the index scan are not
  reached by any statement. Their code is left out.
- SHOW statements only read. CREATE and DROP DATABASE repeat the catalog's operations one
  level up.
- `BinaryLog`: the server never writes an event, so rotation and purge meet
  empty files. Query log, error log, logger and configuration are text I/O.
- Encodings of tuples and of packets: the layers above treat a tuple as a value with
  a size, and a packet as a message.
- A page copied to disk halfway through a write: contents are one value in
  `BufferPool`.
- `goods_db_studio` and the command line tools are clients; `bustub` is third-party
  course code kept beside the program. They are most of the lines of the
  repository, and no part of the server depends on them.
- Statistics of the pools are read by nobody who acts on them.
