----------------------------- MODULE TableHeap -----------------------------
(***************************************************************************)
(* storage/table/table_heap.cpp and table_iterator.cpp: a table as a chain *)
(* of slotted pages, used by worker threads at the same time.              *)
(*                                                                         *)
(* A writer holds the latch of one page at a time and gives it back before *)
(* it goes on, so each visit to a page is one step.  A scan keeps its page *)
(* read-latched from one row to the next: writers of that page wait.       *)
(***************************************************************************)
EXTENDS TablePage

CONSTANTS Writers, Scanners,
          Sizes,             \* tuple sizes in use
          MaxPages,          \* bound: pages the file may grow to
          MaxWrites,         \* bound: tuples written
          MaxScans,          \* bound: scans begun
          Faulty             \* the page calls that may fail: "fetch", "new"

ASSUME HeapAssumption ==
  /\ Sizes \subseteq 1 .. MAX_TUPLE_SIZE /\ Sizes # {}
  /\ {MaxPages, MaxWrites, MaxScans} \subseteq Nat
  /\ MaxPages > 0
  /\ Faulty \subseteq {"fetch", "new"}

VARIABLES
  pages,      \* the pages allocated, in order of allocation; the first is first_page_id_
  pc,         \* per writer: where its call is
  job,        \* per writer: size and tag of the tuple it has to place
  cur,        \* per writer: current_page_id; the new page while it is being linked
  prev,       \* per writer: prev_page_id
  target,     \* per writer: the RID it updates
  scan,       \* per scanner: state, page, slot, RIDs returned, RIDs it must return
  writes,     \* tags used so far
  scans,      \* scans begun so far
  told,       \* the RIDs callers know, with the tag of the tuple they put there
  compacted,  \* pages on which ApplyDelete was used
  crashed     \* a write left the page: the process is gone

writer == <<pc, job, cur, prev, target>>
vars == <<pages, writer, scan, writes, scans, told, compacted, crashed>>

FirstPage == 1
PageIds == 1 .. Len(pages)
Rids == {r \in PageIds \X (1 .. PAGE_SIZE) : r[2] \in SlotsOf(pages[r[1]])}
NoRid == <<INVALID_PAGE_ID, 0>>

\* A page that a scan has read-latched cannot be write-latched.
Latched(p) == \E s \in Scanners : scan[s].state = "row" /\ scan[s].page = p

TypeOK ==
  /\ pages \in Seq([prev : 0 .. MaxPages, next : 0 .. MaxPages,
                    slots : Seq([offset : {DELETED} \cup Bytes, size : Sizes]),
                    data : [Bytes -> 0 .. MaxWrites]])
  /\ pc \in [Writers -> {"idle", "walk", "append", "link", "moving"}]
  /\ job \in [Writers -> [size : Sizes, tag : 0 .. MaxWrites]]
  /\ cur \in [Writers -> 0 .. MaxPages]
  /\ prev \in [Writers -> 0 .. MaxPages]
  /\ \A w \in Writers : target[w] = NoRid \/ pc[w] = "moving"
  /\ \A s \in Scanners : scan[s].state \in {"idle", "seek", "row", "done", "cut"}
  /\ writes \in 0 .. MaxWrites
  /\ scans \in 0 .. MaxScans
  /\ compacted \subseteq PageIds
  /\ crashed \in BOOLEAN

NoJob == [size |-> CHOOSE z \in Sizes : TRUE, tag |-> NoTag]
NoScan == [state |-> "idle", page |-> INVALID_PAGE_ID, slot |-> 0,
           seen |-> {}, must |-> {}]

\* goods_handler::create has made the first page.
Init ==
  /\ pages = <<EmptyPage(INVALID_PAGE_ID)>>
  /\ pc = [w \in Writers |-> "idle"]
  /\ job = [w \in Writers |-> NoJob]
  /\ cur = [w \in Writers |-> INVALID_PAGE_ID]
  /\ prev = [w \in Writers |-> INVALID_PAGE_ID]
  /\ target = [w \in Writers |-> NoRid]
  /\ scan = [s \in Scanners |-> NoScan]
  /\ writes = 0
  /\ scans = 0
  /\ told = <<>>
  /\ compacted = {}
  /\ crashed = FALSE

-----------------------------------------------------------------------------
(* The chain.                                                              *)

Follow(p) == IF pages[p].next = INVALID_PAGE_ID THEN {} ELSE {pages[p].next}

\* The pages a scan that starts now would visit: the smallest set that holds the
\* first page and, with each of its pages, the next one.
Chain == {p \in PageIds :
            \A S \in SUBSET PageIds :
               FirstPage \in S /\ (\A q \in S : Follow(q) \subseteq S) => p \in S}

Forget(rid) == [r \in DOMAIN told \ {rid} |-> told[r]]
Tell(rid, tag) == [r \in DOMAIN told \cup {rid} |-> IF r = rid THEN tag ELSE told[r]]

Return(w) ==
  /\ pc' = [pc EXCEPT ![w] = "idle"]
  /\ job' = [job EXCEPT ![w] = NoJob]
  /\ cur' = [cur EXCEPT ![w] = INVALID_PAGE_ID]
  /\ prev' = [prev EXCEPT ![w] = INVALID_PAGE_ID]
  /\ target' = [target EXCEPT ![w] = NoRid]

StartWalk(w, size, tag) ==
  /\ pc' = [pc EXCEPT ![w] = "walk"]
  /\ job' = [job EXCEPT ![w] = [size |-> size, tag |-> tag]]
  /\ cur' = [cur EXCEPT ![w] = FirstPage]
  /\ prev' = [prev EXCEPT ![w] = INVALID_PAGE_ID]
  /\ target' = [target EXCEPT ![w] = NoRid]

-----------------------------------------------------------------------------
(* InsertTuple                                                             *)

BeginInsert(w, size) ==
  /\ pc[w] = "idle"
  /\ writes < MaxWrites
  /\ writes' = writes + 1
  /\ StartWalk(w, size, writes + 1)
  /\ UNCHANGED <<pages, scan, scans, told, compacted, crashed>>

HasRoom(pg, size) == GetFreeSpace(pg) >= size + SLOT_SIZE

InsertHere(w) ==
  LET p == cur[w]
      pg == InsertTuple(pages[p], job[w].size, job[w].tag)
  IN /\ pc[w] = "walk"
     /\ p # INVALID_PAGE_ID
     /\ ~Latched(p)
     /\ HasRoom(pages[p], job[w].size)
     /\ pages' = [pages EXCEPT ![p] = pg]
     /\ told' = Tell(<<p, Len(pg.slots)>>, job[w].tag)
     /\ Return(w)
     /\ UNCHANGED <<scan, writes, scans, compacted, crashed>>

WalkOn(w) ==
  LET p == cur[w]
  IN /\ pc[w] = "walk"
     /\ ~Latched(p)
     /\ ~HasRoom(pages[p], job[w].size)
     /\ prev' = [prev EXCEPT ![w] = p]
     /\ cur' = [cur EXCEPT ![w] = pages[p].next]
     /\ pc' = [pc EXCEPT ![w] = IF pages[p].next = INVALID_PAGE_ID THEN "append" ELSE "walk"]
     /\ UNCHANGED <<pages, job, target, scan, writes, scans, told, compacted, crashed>>

\* AllocateNewPage
AppendPage(w) ==
  /\ pc[w] = "append"
  /\ Len(pages) < MaxPages
  /\ pages' = Append(pages, EmptyPage(prev[w]))
  /\ cur' = [cur EXCEPT ![w] = Len(pages) + 1]
  /\ pc' = [pc EXCEPT ![w] = "link"]
  /\ UNCHANGED <<job, prev, target, scan, writes, scans, told, compacted, crashed>>

\* Mutant: only the back pointer is set.
LinkBackOnly(w) ==
  /\ pc[w] = "link"
  /\ pages' = [pages EXCEPT ![cur[w]] =
                 InsertTuple(EmptyPage(prev[w]), job[w].size, job[w].tag)]
  /\ told' = Tell(<<cur[w], 1>>, job[w].tag)
  /\ Return(w)
  /\ UNCHANGED <<scan, writes, scans, compacted, crashed>>

\* The new page is initialised again, linked behind prev_page_id, whatever that
\* page points to by now, and takes the tuple.  Its own latch is held throughout.
LinkAndInsert(w) ==
  LET n == cur[w]
      p == prev[w]
  IN /\ pc[w] = "link"
     /\ ~Latched(p)
     /\ pages' = [pages EXCEPT ![n] = InsertTuple(EmptyPage(p), job[w].size, job[w].tag),
                               ![p].next = n]
     /\ told' = Tell(<<n, 1>>, job[w].tag)
     /\ Return(w)
     /\ UNCHANGED <<scan, writes, scans, compacted, crashed>>

\* The predecessor cannot be fetched: the tuple goes to a page nobody points to.
LinkFails(w) ==
  /\ pc[w] = "link"
  /\ "fetch" \in Faulty
  /\ pages' = [pages EXCEPT ![cur[w]] =
                 InsertTuple(EmptyPage(INVALID_PAGE_ID), job[w].size, job[w].tag)]
  /\ told' = Tell(<<cur[w], 1>>, job[w].tag)
  /\ Return(w)
  /\ UNCHANGED <<scan, writes, scans, compacted, crashed>>

\* A page of the walk, or the new page, cannot be had: the call returns false.
InsertFails(w) ==
  /\ \/ pc[w] \in {"walk", "link"} /\ "fetch" \in Faulty
     \/ pc[w] = "append" /\ "new" \in Faulty
  /\ Return(w)
  /\ UNCHANGED <<pages, scan, writes, scans, told, compacted, crashed>>

-----------------------------------------------------------------------------
(* UpdateTuple                                                             *)

UpdateHere(w, rid, size) ==
  LET pg == pages[rid[1]]
  IN /\ pc[w] = "idle"
     /\ writes < MaxWrites
     /\ ~Latched(rid[1])
     /\ ~IsDeleted(pg, rid[2])
     /\ UpdateInPlace(pg, rid[2], size)
     /\ writes' = writes + 1
     /\ pages' = [pages EXCEPT ![rid[1]] = WriteInPlace(pg, rid[2], size, writes + 1)]
     /\ told' = Tell(rid, writes + 1)
     /\ UNCHANGED <<writer, scan, scans, compacted, crashed>>

\* The tuple grows.  The page is unlatched and unpinned, not marked dirty, before
\* the caller goes on to move the tuple.
UpdateGrows(w, rid, size) ==
  LET pg == pages[rid[1]]
      grown == Grow(pg, rid[2], size, writes + 1)
  IN /\ pc[w] = "idle"
     /\ writes < MaxWrites
     /\ ~Latched(rid[1])
     /\ ~IsDeleted(pg, rid[2])
     /\ ~UpdateInPlace(pg, rid[2], size)
     /\ ~GrowOverruns(pg, rid[2], size)
     /\ writes' = writes + 1
     /\ \/ pages' = [pages EXCEPT ![rid[1]] = grown]
        \/ UNCHANGED pages      \* a clean frame is evicted: the change is forgotten
     /\ told' = IF grown = pg THEN told ELSE Forget(rid)
     /\ pc' = [pc EXCEPT ![w] = "moving"]
     /\ job' = [job EXCEPT ![w] = [size |-> size, tag |-> writes + 1]]
     /\ target' = [target EXCEPT ![w] = rid]
     /\ UNCHANGED <<cur, prev, scan, scans, compacted, crashed>>

\* The copy in InsertTuple starts 2^32 bytes away: the process dies.
UpdateOverruns(w, rid, size) ==
  /\ pc[w] = "idle"
  /\ ~Latched(rid[1])
  /\ ~IsDeleted(pages[rid[1]], rid[2])
  /\ ~UpdateInPlace(pages[rid[1]], rid[2], size)
  /\ GrowOverruns(pages[rid[1]], rid[2], size)
  /\ crashed' = TRUE
  /\ UNCHANGED <<pages, writer, scan, writes, scans, told, compacted>>

\* The old tuple is marked deleted and the new one inserted like any other.
MoveTuple(w) ==
  LET rid == target[w]
  IN /\ pc[w] = "moving"
     /\ ~Latched(rid[1])
     /\ pages' = [pages EXCEPT ![rid[1]] = MarkDelete(@, rid[2])]
     /\ told' = Forget(rid)
     /\ StartWalk(w, job[w].size, job[w].tag)
     /\ UNCHANGED <<scan, writes, scans, compacted, crashed>>

\* The page of the old tuple cannot be fetched again: it is left as it is.
MoveUnmarked(w) ==
  /\ pc[w] = "moving"
  /\ "fetch" \in Faulty
  /\ StartWalk(w, job[w].size, job[w].tag)
  /\ UNCHANGED <<pages, scan, writes, scans, told, compacted, crashed>>

-----------------------------------------------------------------------------
(* MarkDelete, ApplyDelete                                                 *)

DeleteMark(w, rid) ==
  /\ pc[w] = "idle"
  /\ ~Latched(rid[1])
  /\ ~IsDeleted(pages[rid[1]], rid[2])
  /\ pages' = [pages EXCEPT ![rid[1]] = MarkDelete(@, rid[2])]
  /\ told' = Forget(rid)
  /\ UNCHANGED <<writer, scan, writes, scans, compacted, crashed>>

DeleteApply(w, rid) ==
  /\ pc[w] = "idle"
  /\ ~Latched(rid[1])
  /\ ~IsDeleted(pages[rid[1]], rid[2])
  /\ pages' = [pages EXCEPT ![rid[1]] = ApplyDelete(@, rid[2])]
  /\ told' = Forget(rid)
  /\ compacted' = compacted \cup {rid[1]}
  /\ UNCHANGED <<writer, scan, writes, scans, crashed>>

-----------------------------------------------------------------------------
(* TableIterator                                                           *)

\* The RIDs that a scan of the chain as it is now finds.
Findable == {r \in DOMAIN told : r[1] \in Chain \ compacted}

BeginScan(s) ==
  /\ scan[s].state # "row" /\ scan[s].state # "seek"
  /\ scans < MaxScans
  /\ scans' = scans + 1
  /\ scan' = [scan EXCEPT ![s] = [state |-> "seek", page |-> FirstPage, slot |-> 0,
                                  seen |-> {}, must |-> Findable]]
  /\ UNCHANGED <<pages, writer, writes, told, compacted, crashed>>

NextLive(p, after) == {i \in LiveSlots(pages[p]) : i > after}

\* The position after slot `after` of page p: the next live slot, or the next page.
Advance(sc, p, after) ==
  IF NextLive(p, after) # {}
  THEN [sc EXCEPT !.state = "row", !.slot = Min(NextLive(p, after))]
  ELSE [sc EXCEPT !.state = IF pages[p].next = INVALID_PAGE_ID THEN "done" ELSE "seek",
                  !.page = pages[p].next, !.slot = 0]

\* Mutant: the first slot of a page is skipped.
SeekPastFirst(s) ==
  /\ scan[s].state = "seek"
  /\ scan' = [scan EXCEPT ![s] = Advance(@, @.page, 1)]
  /\ UNCHANGED <<pages, writer, writes, scans, told, compacted, crashed>>

SeekPage(s) ==
  /\ scan[s].state = "seek"
  /\ scan' = [scan EXCEPT ![s] = Advance(@, @.page, 0)]
  /\ UNCHANGED <<pages, writer, writes, scans, told, compacted, crashed>>

\* The page cannot be fetched: the scan ends, and looks complete to its caller.
SeekFails(s) ==
  /\ scan[s].state = "seek"
  /\ "fetch" \in Faulty
  /\ scan' = [scan EXCEPT ![s].state = "cut", ![s].page = INVALID_PAGE_ID]
  /\ UNCHANGED <<pages, writer, writes, scans, told, compacted, crashed>>

NextRow(s) ==
  LET sc == scan[s]
  IN /\ sc.state = "row"
     /\ scan' = [scan EXCEPT ![s] =
                   Advance([sc EXCEPT !.seen = @ \cup {<<sc.page, sc.slot>>}], sc.page, sc.slot)]
     /\ UNCHANGED <<pages, writer, writes, scans, told, compacted, crashed>>

\* ~TableIterator, rnd_end: the latch and the pin are given back.
EndScan(s) ==
  /\ scan[s].state \in {"row", "done", "cut"}
  /\ scan' = [scan EXCEPT ![s] = NoScan]
  /\ UNCHANGED <<pages, writer, writes, scans, told, compacted, crashed>>

-----------------------------------------------------------------------------
Write(w) ==
  \/ \E size \in Sizes : BeginInsert(w, size)
  \/ InsertHere(w) \/ WalkOn(w) \/ AppendPage(w) \/ LinkAndInsert(w)
  \/ LinkFails(w) \/ InsertFails(w) \/ MoveTuple(w) \/ MoveUnmarked(w)
  \/ \E rid \in Rids :
        \/ \E size \in Sizes :
              UpdateHere(w, rid, size) \/ UpdateGrows(w, rid, size) \/ UpdateOverruns(w, rid, size)
        \/ DeleteMark(w, rid)
        \/ DeleteApply(w, rid)

Scan(s) == BeginScan(s) \/ SeekPage(s) \/ SeekFails(s) \/ NextRow(s) \/ EndScan(s)

Next == /\ ~crashed
        /\ \/ \E w \in Writers : Write(w)
           \/ \E s \in Scanners : Scan(s)

Spec == Init /\ [][Next]_vars

-----------------------------------------------------------------------------
(* Properties                                                              *)

\* In every page the live tuples lie between the slot array and the end of the
\* page and do not overlap, whatever was inserted, moved, shrunk or compacted.
PagesAreSound == \A p \in PageIds : LayoutSound(pages[p])

\* GetTuple at a RID that InsertTuple or UpdateTuple returned gives back that very
\* tuple, unbroken, until it is deleted or updated, as long as no ApplyDelete
\* has moved slots on its page: other writers never take a slot or a byte of it.
RowAtItsRid ==
  \A r \in DOMAIN told :
     r[1] \notin compacted => GetTuple(pages[r[1]], r[2]) = {told[r]}

\* Two pages linked behind the same page.
Raced(p) == \E q \in PageIds \ {p} : pages[q].prev = pages[p].prev /\ q # FirstPage

\* The page, the page it was appended to, and so on.
Ancestors(p) == {a \in PageIds :
                   \A S \in SUBSET PageIds :
                      p \in S /\ (\A q \in S : pages[q].prev \in S \cup {INVALID_PAGE_ID})
                      => a \in S}

\* A row that callers were told of is out of reach of scans only if a page on the
\* way to it was appended by two writers at once, or never linked because its
\* predecessor could not be fetched.
LostOnlyToRaces ==
  \A r \in DOMAIN told :
     \/ r[1] \in Chain
     \/ \E p \in Ancestors(r[1]) \ {FirstPage} :
           Raced(p) \/ pages[p].prev = INVALID_PAGE_ID

\* A scan that runs to its end has returned every row that a scan would have found
\* when it began and still would at the end, whatever writers did in between.
ScanComplete ==
  \A s \in Scanners :
     scan[s].state = "done" => (scan[s].must \cap Findable) \subseteq scan[s].seen

\* Slots and tuples stay within their page and apart from each other, and the row
\* that GetTuple finds at a RID is the one InsertTuple or UpdateTuple left there.
RowsAreIntact == TypeOK /\ PagesAreSound /\ RowAtItsRid
=============================================================================
