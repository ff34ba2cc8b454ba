----------------------------- MODULE BufferPool -----------------------------
(***************************************************************************)
(* buffer/buffer_pool_manager.cpp with the Page frames it manages, the     *)
(* ClockReplacer it asks for victims, the page guards and the disk manager *)
(* below it, used by the worker threads of the server.                     *)
(*                                                                         *)
(* Every public method of BufferPoolManager holds mutex_, so a call is one *)
(* step; the flushes are cut in two, because a thread that has the page    *)
(* pinned writes to it, and marks it dirty, without that mutex.            *)
(***************************************************************************)
EXTENDS ClockPolicy, Sequences

CONSTANTS Files,             \* file ids
          PageNos,           \* data page numbers of a file (bound on its growth)
          Data,              \* page contents
          Zero,              \* the content of a zeroed page
          Link,              \* the content of a freed page: a free chain pointer
          Threads,           \* worker threads
          GuardThreads,      \* the threads that release pages with a page guard
          INVALID_PAGE_ID,
          NoFile,
          Faults,            \* the disk calls that may fail on an open file
          Flushes            \* the flush calls made: FlushPage, FlushAllPages, delete_table

PageIds == Files \X PageNos

GetFileId(p) == p[1]

ASSUME PoolAssumption ==
  /\ Zero \in Data
  /\ Link \notin Data
  /\ INVALID_PAGE_ID \notin PageIds
  /\ NoFile \notin Files
  /\ GuardThreads \subseteq Threads
  /\ Faults \subseteq {"read", "evict", "flush", "flushall"}
  /\ Flushes \subseteq {"page", "all", "drop"}
  /\ IsFiniteSet(Threads)

VARIABLES
  page_table,   \* page_table_: the frame of a page, INVALID_FRAME_ID when absent
  free_list,    \* free_list_
  page_id,      \* per frame: Page::page_id_
  pin_count,    \* per frame: Page::pin_count_
  is_dirty,     \* the frames whose Page::is_dirty_ is set
  data,         \* per frame: Page::data_
  replacer,     \* the ClockReplacer
  stored,       \* per page: its bytes in the file
  extent,       \* the pages the files have grown to
  allocated,    \* the pages in use: grown to and not on a free chain
  open,         \* the files the disk manager has open
  flush,        \* the flush in progress, which holds mutex_
  dropping,     \* the file delete_table is dropping
  pc, page, frame   \* per thread: where it is, the page id and the Page* it holds

pool == <<page_table, free_list, page_id, pin_count, is_dirty, data, replacer>>
disk == <<stored, extent, allocated, open>>
thread == <<pc, page, frame>>
vars == <<pool, disk, flush, dropping, thread>>

Contents == Data \cup {Link}

TypeOK ==
  /\ page_table \in [PageIds -> Frames \cup {INVALID_FRAME_ID}]
  /\ free_list \in Seq(Frames)
  /\ page_id \in [Frames -> PageIds \cup {INVALID_PAGE_ID}]
  /\ pin_count \in [Frames -> Nat]
  /\ is_dirty \subseteq Frames
  /\ data \in [Frames -> Contents]
  /\ replacer \in ReplacerState
  /\ stored \in [PageIds -> Contents]
  /\ extent \subseteq PageIds
  /\ allocated \subseteq extent
  /\ open \subseteq Files
  /\ flush \in [kind : {"page", "all", "drop"},
                todo : SUBSET PageIds,
                copied : PageIds \cup {INVALID_PAGE_ID}]
  /\ dropping \in Files \cup {NoFile}
  /\ pc \in [Threads ->
               {"idle", "fresh", "pinned", "reading", "writing", "clean", "modified"}]
  /\ page \in [Threads -> PageIds \cup {INVALID_PAGE_ID}]
  /\ frame \in [Threads -> Frames \cup {INVALID_FRAME_ID}]

Init ==
  /\ page_table = [p \in PageIds |-> INVALID_FRAME_ID]
  /\ free_list = [i \in 1 .. NumFrames |-> i - 1]
  /\ page_id = [f \in Frames |-> INVALID_PAGE_ID]
  /\ pin_count = [f \in Frames |-> 0]
  /\ is_dirty = {}
  /\ data = [f \in Frames |-> Zero]
  /\ replacer = ClockEmpty
  /\ stored = [p \in PageIds |-> Zero]
  /\ extent = {}
  /\ allocated = {}
  /\ open = Files
  /\ flush = [kind |-> "all", todo |-> {}, copied |-> INVALID_PAGE_ID]
  /\ dropping = NoFile
  /\ pc = [t \in Threads |-> "idle"]
  /\ page = [t \in Threads |-> INVALID_PAGE_ID]
  /\ frame = [t \in Threads |-> INVALID_FRAME_ID]

-----------------------------------------------------------------------------
(* The disk manager as the pool sees it.  Its free chain is shown sound in *)
(* module DiskManager; here a free page of the file is taken when there is *)
(* one, and the file grows when there is none.                             *)

MutexFree == flush.todo = {}

\* ReadPage and WritePage fail when the file is closed, and may fail otherwise.
IOSucceeds(p) == GetFileId(p) \in open
IOFails(p, call) == GetFileId(p) \notin open \/ call \in Faults

FreePages(file) == {p \in extent \ allocated : GetFileId(p) = file}

\* AllocatePage: a page of the free chain first, whose bytes stay what they
\* are; a page added, zeroed, at the end of the file otherwise.
Allocatable(file) ==
  IF file \notin open THEN {}
  ELSE IF FreePages(file) # {} THEN FreePages(file)
  ELSE {p \in PageIds \ extent : GetFileId(p) = file}

-----------------------------------------------------------------------------
(* GetFreeFrame and EvictPage: a frame of free_list_, or else the victim   *)
(* of the replacer, written back first when it is dirty.                   *)

NoVictim == free_list = <<>> /\ ~VictimFound(replacer)

EvictionWriteFails ==
  /\ free_list = <<>>
  /\ VictimFound(replacer)
  /\ VictimFrame(replacer) \in is_dirty
  /\ IOFails(page_id[VictimFrame(replacer)], "evict")

\* GetFreeFrame returns frame f.
GetFreeFrame(f) ==
  \/ free_list # <<>> /\ f = Head(free_list)
  \/ /\ free_list = <<>>
     /\ VictimFound(replacer)
     /\ f = VictimFrame(replacer)
     /\ f \in is_dirty => IOSucceeds(page_id[f])

\* What GetFreeFrame has done to the pool and the disk when it returns f.
FreeListAfterKeepsHead == free_list

FreeListAfter == IF free_list # <<>> THEN Tail(free_list) ELSE free_list

ReplacerAfter == IF free_list # <<>> THEN replacer ELSE AfterVictim(replacer)

PageTableAfterKeepsVictim(f) == page_table

PageTableAfter(f) ==
  IF free_list # <<>> THEN page_table
  ELSE [page_table EXCEPT ![page_id[f]] = INVALID_FRAME_ID]

StoredAfterWithoutWriteBack(f) == stored

StoredAfter(f) ==
  IF free_list = <<>> /\ f \in is_dirty
  THEN [stored EXCEPT ![page_id[f]] = data[f]]
  ELSE stored

\* GetFreeFrame returns INVALID_FRAME_ID: the replacer has swept, or has given
\* up its victim although the page stays where it is.
NoFrameAvailable ==
  /\ NoVictim \/ EvictionWriteFails
  /\ replacer' = AfterVictim(replacer)
  /\ UNCHANGED <<page_table, free_list, page_id, pin_count, is_dirty, data>>

-----------------------------------------------------------------------------
(* FetchPage.                                                              *)

Holds(t, p, f, where) ==
  /\ pc' = [pc EXCEPT ![t] = where]
  /\ page' = [page EXCEPT ![t] = p]
  /\ frame' = [frame EXCEPT ![t] = f]

FetchHit(t, p) ==
  /\ MutexFree /\ pc[t] = "idle" /\ p \in allocated
  /\ page_table[p] # INVALID_FRAME_ID
  /\ pin_count' = [pin_count EXCEPT ![page_table[p]] = @ + 1]
  /\ replacer' = ClockPin(replacer, page_table[p])
  /\ Holds(t, p, page_table[p], "pinned")
  /\ UNCHANGED <<page_table, free_list, page_id, is_dirty, data, disk, flush, dropping>>

FetchMiss(t, p) ==
  /\ MutexFree /\ pc[t] = "idle" /\ p \in allocated
  /\ page_table[p] = INVALID_FRAME_ID
  /\ IOSucceeds(p)
  /\ \E f \in Frames :
       /\ GetFreeFrame(f)
       /\ page_table' = [PageTableAfter(f) EXCEPT ![p] = f]
       /\ replacer' = ClockPin(ReplacerAfter, f)
       /\ stored' = StoredAfter(f)
       /\ page_id' = [page_id EXCEPT ![f] = p]
       /\ pin_count' = [pin_count EXCEPT ![f] = @ + 1]
       /\ is_dirty' = is_dirty \ {f}
       /\ data' = [data EXCEPT ![f] = stored[p]]
       /\ Holds(t, p, f, "pinned")
  /\ free_list' = FreeListAfter
  /\ UNCHANGED <<extent, allocated, open, flush, dropping>>

\* ReadPage fails: the frame goes to the free list and its old page is gone from
\* the pool.  What the read left in the frame is overwritten before it is used,
\* so the bytes of a free frame are taken to be zero.
FetchReadFails(t, p) ==
  /\ MutexFree /\ pc[t] = "idle" /\ p \in allocated
  /\ page_table[p] = INVALID_FRAME_ID
  /\ IOFails(p, "read")
  /\ \E f \in Frames :
       /\ GetFreeFrame(f)
       /\ page_table' = PageTableAfter(f)
       /\ stored' = StoredAfter(f)
       /\ page_id' = [page_id EXCEPT ![f] = INVALID_PAGE_ID]
       /\ is_dirty' = is_dirty \ {f}
       /\ data' = [data EXCEPT ![f] = Zero]
       /\ free_list' = Append(FreeListAfter, f)
  /\ replacer' = ReplacerAfter
  /\ UNCHANGED <<pin_count, extent, allocated, open, flush, dropping, thread>>

FetchNoFrame(t, p) ==
  /\ MutexFree /\ pc[t] = "idle" /\ p \in allocated
  /\ page_table[p] = INVALID_FRAME_ID
  /\ NoFrameAvailable
  /\ UNCHANGED <<disk, flush, dropping, thread>>

-----------------------------------------------------------------------------
(* NewPage and DeletePage.                                                 *)

NewPage(t, file) ==
  /\ MutexFree /\ pc[t] = "idle"
  /\ \E p \in Allocatable(file), f \in Frames :
       /\ GetFreeFrame(f)
       /\ page_table' = [PageTableAfter(f) EXCEPT ![p] = f]
       /\ replacer' = ClockPin(ReplacerAfter, f)
       /\ stored' = [StoredAfter(f) EXCEPT ![p] = IF p \in extent THEN @ ELSE Zero]
       /\ extent' = extent \cup {p}
       /\ allocated' = allocated \cup {p}
       /\ page_id' = [page_id EXCEPT ![f] = p]
       /\ pin_count' = [pin_count EXCEPT ![f] = @ + 1]
       /\ is_dirty' = is_dirty \ {f}
       /\ data' = [data EXCEPT ![f] = Zero]
       /\ Holds(t, p, f, "fresh")
  /\ free_list' = FreeListAfter
  /\ UNCHANGED <<open, flush, dropping>>

\* No frame: the page just allocated is deallocated again.
NewPageNoFrame(t, file) ==
  /\ MutexFree /\ pc[t] = "idle"
  /\ \E p \in Allocatable(file) :
       /\ stored' = [stored EXCEPT ![p] = Link]
       /\ extent' = extent \cup {p}
  /\ NoFrameAvailable
  /\ UNCHANGED <<allocated, open, flush, dropping, thread>>

DeletePageIgnoringPins(p) ==
  /\ MutexFree /\ p \in allocated
  /\ LET f == page_table[p]
     IN  IF f = INVALID_FRAME_ID THEN UNCHANGED pool
         ELSE /\ page_table' = [page_table EXCEPT ![p] = INVALID_FRAME_ID]
              /\ page_id' = [page_id EXCEPT ![f] = INVALID_PAGE_ID]
              /\ is_dirty' = is_dirty \ {f}
              /\ data' = [data EXCEPT ![f] = Zero]
              /\ replacer' = ClockPin(replacer, f)
              /\ free_list' = Append(free_list, f)
              /\ UNCHANGED pin_count
  /\ allocated' = allocated \ {p}
  /\ stored' = IF GetFileId(p) \in open THEN [stored EXCEPT ![p] = Link] ELSE stored
  /\ UNCHANGED <<extent, open, flush, dropping, thread>>

\* Refused (nothing changes) while the page is pinned.  The caller owns the
\* page and gives it up: nobody fetches it again before NewPage returns it.
DeletePage(p) ==
  /\ MutexFree /\ p \in allocated
  /\ LET f == page_table[p]
     IN  IF f = INVALID_FRAME_ID THEN UNCHANGED pool
         ELSE /\ pin_count[f] = 0
              /\ page_table' = [page_table EXCEPT ![p] = INVALID_FRAME_ID]
              /\ page_id' = [page_id EXCEPT ![f] = INVALID_PAGE_ID]
              /\ is_dirty' = is_dirty \ {f}
              /\ data' = [data EXCEPT ![f] = Zero]
              /\ replacer' = ClockPin(replacer, f)
              /\ free_list' = Append(free_list, f)
              /\ UNCHANGED pin_count
  /\ allocated' = allocated \ {p}
  /\ stored' = IF GetFileId(p) \in open THEN [stored EXCEPT ![p] = Link] ELSE stored
  /\ UNCHANGED <<extent, open, flush, dropping, thread>>

-----------------------------------------------------------------------------
(* A thread at work on a page it has pinned.                               *)

\* RLatch and WLatch of the Page the thread points at.
RLatch(t) ==
  /\ pc[t] = "pinned"
  /\ \A u \in Threads : frame[u] = frame[t] => pc[u] # "writing"
  /\ pc' = [pc EXCEPT ![t] = "reading"]
  /\ UNCHANGED <<pool, disk, flush, dropping, page, frame>>

WLatch(t) ==
  /\ pc[t] = "pinned"
  /\ \A u \in Threads : frame[u] = frame[t] => pc[u] \notin {"reading", "writing"}
  /\ pc' = [pc EXCEPT ![t] = "writing"]
  /\ UNCHANGED <<pool, disk, flush, dropping, page, frame>>

\* Write the page, MarkDirty, WUnlatch.  A new page is filled the same way;
\* nobody else knows its id yet.
Modify(t, v) ==
  /\ pc[t] \in {"writing", "fresh"}
  /\ data' = [data EXCEPT ![frame[t]] = v]
  /\ is_dirty' = is_dirty \cup {frame[t]}
  /\ pc' = [pc EXCEPT ![t] = "modified"]
  /\ UNCHANGED <<page_table, free_list, page_id, pin_count, replacer,
                 disk, flush, dropping, page, frame>>

\* RUnlatch, or WUnlatch with nothing written.
Unlatch(t) ==
  /\ pc[t] \in {"reading", "writing"}
  /\ pc' = [pc EXCEPT ![t] = "clean"]
  /\ UNCHANGED <<pool, disk, flush, dropping, page, frame>>

\* The is_dirty argument of UnpinPage: a caller of the raw interface says
\* whether it wrote; WritePageGuard::Drop asks the page.  That the raw callers
\* tell the truth is assumed of them: table_heap.cpp:138-141 writes the page and
\* passes false when an update outgrows its slot.
DirtyArgumentForgotten(t) == FALSE

DirtyArgument(t) ==
  IF t \in GuardThreads THEN pc[t] = "modified" /\ frame[t] \in is_dirty
  ELSE pc[t] = "modified"

UnpinPageAlwaysReleases(t) ==
  /\ MutexFree /\ pc[t] \in {"clean", "modified"}
  /\ LET f == page_table[page[t]]
     IN  IF f # INVALID_FRAME_ID /\ pin_count[f] > 0
         THEN /\ is_dirty' = IF DirtyArgument(t) THEN is_dirty \cup {f} ELSE is_dirty
              /\ pin_count' = [pin_count EXCEPT ![f] = @ - 1]
              /\ replacer' = ClockUnpin(replacer, f)
         ELSE UNCHANGED <<is_dirty, pin_count, replacer>>
  /\ Holds(t, INVALID_PAGE_ID, INVALID_FRAME_ID, "idle")
  /\ UNCHANGED <<page_table, free_list, page_id, data, disk, flush, dropping>>

UnpinPageTestsTooEarly(t) ==
  /\ MutexFree /\ pc[t] \in {"clean", "modified"}
  /\ LET f == page_table[page[t]]
     IN  IF f # INVALID_FRAME_ID /\ pin_count[f] > 0
         THEN /\ is_dirty' = IF DirtyArgument(t) THEN is_dirty \cup {f} ELSE is_dirty
              /\ pin_count' = [pin_count EXCEPT ![f] = @ - 1]
              /\ replacer' = IF pin_count[f] = 0 THEN ClockUnpin(replacer, f) ELSE replacer
         ELSE UNCHANGED <<is_dirty, pin_count, replacer>>
  /\ Holds(t, INVALID_PAGE_ID, INVALID_FRAME_ID, "idle")
  /\ UNCHANGED <<page_table, free_list, page_id, data, disk, flush, dropping>>

UnpinPage(t) ==
  /\ MutexFree /\ pc[t] \in {"clean", "modified"}
  /\ LET f == page_table[page[t]]
     IN  IF f # INVALID_FRAME_ID /\ pin_count[f] > 0
         THEN /\ is_dirty' = IF DirtyArgument(t) THEN is_dirty \cup {f} ELSE is_dirty
              /\ pin_count' = [pin_count EXCEPT ![f] = @ - 1]
              /\ replacer' = IF pin_count[f] = 1 THEN ClockUnpin(replacer, f) ELSE replacer
         ELSE UNCHANGED <<is_dirty, pin_count, replacer>>
  /\ Holds(t, INVALID_PAGE_ID, INVALID_FRAME_ID, "idle")
  /\ UNCHANGED <<page_table, free_list, page_id, data, disk, flush, dropping>>

-----------------------------------------------------------------------------
(* The flushes: mutex_ is held from the start until todo is empty.         *)

InPool(S) == {p \in S : page_table[p] # INVALID_FRAME_ID}

FlushPage(p) ==
  /\ MutexFree /\ "page" \in Flushes
  /\ flush' = [kind |-> "page", todo |-> InPool({p}), copied |-> INVALID_PAGE_ID]
  /\ UNCHANGED <<pool, disk, dropping, thread>>

FlushAllPages ==
  /\ MutexFree /\ "all" \in Flushes
  /\ flush' = [kind |-> "all", todo |-> InPool(PageIds), copied |-> INVALID_PAGE_ID]
  /\ UNCHANGED <<pool, disk, dropping, thread>>

\* FlushFilePages, the first half of goods_handler::delete_table.
FlushFilePages(file) ==
  /\ MutexFree /\ "drop" \in Flushes /\ dropping = NoFile /\ file \in open
  /\ flush' = [kind |-> "drop",
               todo |-> InPool({p \in PageIds : GetFileId(p) = file}),
               copied |-> INVALID_PAGE_ID]
  /\ dropping' = file
  /\ UNCHANGED <<pool, disk, thread>>

\* A page that is not dirty needs nothing.
FlushSkip(p) ==
  /\ p \in flush.todo /\ flush.copied = INVALID_PAGE_ID
  /\ page_table[p] \notin is_dirty
  /\ flush' = [flush EXCEPT !.todo = @ \ {p}]
  /\ UNCHANGED <<pool, disk, dropping, thread>>

FlushWrite(p) ==
  /\ p \in flush.todo /\ flush.copied = INVALID_PAGE_ID
  /\ page_table[p] \in is_dirty
  /\ IOSucceeds(p)
  /\ stored' = [stored EXCEPT ![p] = data[page_table[p]]]
  /\ flush' = [flush EXCEPT !.copied = p]
  /\ UNCHANGED <<pool, extent, allocated, open, dropping, thread>>

\* FlushPage gives up and leaves the page dirty; FlushAllPages and
\* FlushFilePages do not look at what WritePage returns.
FlushWriteFails(p) ==
  /\ p \in flush.todo /\ flush.copied = INVALID_PAGE_ID
  /\ page_table[p] \in is_dirty
  /\ \/ /\ flush.kind = "page" /\ IOFails(p, "flush")
        /\ flush' = [flush EXCEPT !.todo = {}]
     \/ /\ flush.kind # "page" /\ IOFails(p, "flushall")
        /\ flush' = [flush EXCEPT !.copied = p]
  /\ UNCHANGED <<pool, disk, dropping, thread>>

\* ClearDirty.
FlushClear ==
  /\ flush.copied # INVALID_PAGE_ID
  /\ is_dirty' = is_dirty \ {page_table[flush.copied]}
  /\ flush' = [flush EXCEPT !.todo = @ \ {flush.copied}, !.copied = INVALID_PAGE_ID]
  /\ UNCHANGED <<page_table, free_list, page_id, pin_count, data, replacer,
                 disk, dropping, thread>>

\* The second half of delete_table: the file is closed and removed, under the
\* mutex of the disk manager only.  Nothing takes its pages out of the pool.
DeleteFile ==
  /\ dropping # NoFile
  /\ flush.kind = "drop" => flush.todo = {}
  /\ open' = open \ {dropping}
  /\ dropping' = NoFile
  /\ UNCHANGED <<pool, stored, extent, allocated, flush, thread>>

-----------------------------------------------------------------------------
Flushing ==
  \/ FlushAllPages \/ FlushClear \/ DeleteFile
  \/ \E file \in Files : FlushFilePages(file)
  \/ \E p \in PageIds : FlushPage(p) \/ FlushSkip(p) \/ FlushWrite(p) \/ FlushWriteFails(p)

ThreadStep(t) ==
  \/ \E p \in PageIds : FetchHit(t, p) \/ FetchMiss(t, p) \/ FetchReadFails(t, p) \/ FetchNoFrame(t, p)
  \/ \E file \in Files : NewPage(t, file) \/ NewPageNoFrame(t, file)
  \/ RLatch(t) \/ WLatch(t) \/ Unlatch(t) \/ UnpinPage(t)
  \/ \E v \in Data : Modify(t, v)

Next ==
  \/ Flushing
  \/ \E t \in Threads : ThreadStep(t)
  \/ \E p \in PageIds : DeletePage(p)

Spec == Init /\ [][Next]_vars

-----------------------------------------------------------------------------
(* Properties.                                                             *)

Holding(t) == pc[t] # "idle"

Holders(f) == {t \in Threads : Holding(t) /\ frame[t] = f}

\* The page table and the frames agree in both directions: no page is in two
\* frames, no frame is in the table under a page it does not hold.
PageTableMatchesFrames ==
  /\ \A p \in PageIds : page_table[p] # INVALID_FRAME_ID => page_id[page_table[p]] = p
  /\ \A f \in Frames : page_id[f] # INVALID_PAGE_ID => page_table[page_id[f]] = f

\* Every frame is either on the free list, once, or holds a page: no failure
\* path of FetchPage, NewPage or EvictPage loses a frame or frees it twice.
FramesAccountedFor ==
  /\ \A i, j \in 1 .. Len(free_list) : free_list[i] = free_list[j] => i = j
  /\ \A f \in Frames :
       page_id[f] = INVALID_PAGE_ID <=> \E i \in 1 .. Len(free_list) : free_list[i] = f

\* pin_count_ is the number of threads that hold the frame, and the replacer
\* never offers a frame that is free or held.
PinsCountHolders ==
  /\ \A f \in Frames : pin_count[f] = Cardinality(Holders(f))
  /\ \A f \in replacer.evictable : page_id[f] # INVALID_PAGE_ID /\ Holders(f) = {}

\* The Page* a thread got from FetchPage or NewPage stays the page it asked for
\* until it unpins it, whatever the other threads fetch, evict, delete or drop.
HeldPageStays ==
  \A t \in Threads :
    Holding(t) => /\ page[t] \in PageIds /\ frame[t] \in Frames
                  /\ page_id[frame[t]] = page[t]

\* A page whose bytes may be read from the file again, because its frame is
\* clean and nobody is at work on it, is the same in the file and in memory.
\* page.h:17 says of is_dirty "whether the in-memory data differs from disk".
CleanPageIsStored ==
  \A p \in allocated :
    LET f == page_table[p]
    IN  GetFileId(p) \in open /\ f # INVALID_FRAME_ID /\ pin_count[f] = 0 /\ f \notin is_dirty
          => data[f] = stored[p]

\* page.h:16 says of pin_count "0 = evictable": an unpinned page can be evicted.
\* It does not hold after EvictPage failed to write its victim back.
UnpinnedIsEvictable ==
  \A f \in Frames :
    page_id[f] # INVALID_PAGE_ID /\ pin_count[f] = 0 => f \in replacer.evictable

-----------------------------------------------------------------------------
(* The inductive invariants behind these properties.                       *)

\* Only pages in use are in the pool: NewPage never hands out a page id that
\* still has a frame.
ResidentIsAllocated ==
  \A p \in PageIds : page_table[p] # INVALID_FRAME_ID => p \in allocated

\* A flush works on pages that stay in the pool while it holds mutex_.
FlushWithinPool ==
  /\ \A p \in flush.todo : page_table[p] # INVALID_FRAME_ID
  /\ flush.copied # INVALID_PAGE_ID => flush.copied \in flush.todo

StructureInv ==
  /\ TypeOK
  /\ PageTableMatchesFrames
  /\ FramesAccountedFor
  /\ PinsCountHolders
  /\ HeldPageStays
  /\ ResidentIsAllocated
  /\ FlushWithinPool

\* A thread that has changed frame f and has yet to say so to UnpinPage.
Owed(f) == \E t \in Holders(f) : pc[t] \in {"fresh", "modified"}

\* A page that differs from the file is dirty, or will be made dirty.
CleanOrOwed ==
  \A p \in allocated :
    LET f == page_table[p]
    IN  GetFileId(p) \in open /\ f # INVALID_FRAME_ID /\ f \notin is_dirty
          => data[f] = stored[p] \/ Owed(f)

\* The page a flush has copied and is about to call clean is the copy, or was
\* changed since by a thread that will make it dirty again.
CopiedOrOwed ==
  LET p == flush.copied
  IN  p # INVALID_PAGE_ID /\ GetFileId(p) \in open
        => data[page_table[p]] = stored[p] \/ Owed(page_table[p])

\* The content of a page as the layers above see it.
Gone == Link

Content ==
  [p \in PageIds |->
     IF p \notin allocated \/ GetFileId(p) \notin open THEN Gone
     ELSE IF page_table[p] # INVALID_FRAME_ID THEN data[page_table[p]]
     ELSE stored[p]]

\* A page in use has a content: it never shows the bytes of a free chain.
LiveHasContent ==
  \A p \in allocated : GetFileId(p) \in open => Content[p] \in Data

ContentInv == CleanOrOwed /\ CopiedOrOwed /\ LiveHasContent

\* What a thread sees through the Page* it holds.
View == [t \in Threads |-> IF Holding(t) THEN data[frame[t]] ELSE Gone]

Store == INSTANCE PageStore WITH
  Clients <- Threads, NoPage <- INVALID_PAGE_ID,
  content <- Content, at <- pc, holds <- page, view <- View

\* The pool implements the page store.  Evicting, flushing, failing calls and
\* the fetch of a page that is not in the pool change no page; a thread that
\* fetches a page sees what the last writer of it wrote, and sees no page but
\* its own change under the Page* it holds.  A page changes by the thread that
\* holds it and writes it, and is gone by DeletePage when nobody holds it or by
\* the delete_table of its file.
ImplementsPageStore == Store!Spec
=============================================================================
