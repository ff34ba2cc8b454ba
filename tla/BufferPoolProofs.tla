-------------------------- MODULE BufferPoolProofs --------------------------
(***************************************************************************)
(* Proofs about BufferPool, for every number of frames, pages, files,      *)
(* contents and threads, and about the ClockReplacer it asks for victims.  *)
(***************************************************************************)
EXTENDS BufferPool, ClockReplacer, TLAPS, FiniteSetTheorems, WellFoundedInduction

-----------------------------------------------------------------------------
(* The clock.                                                              *)

\* A nonempty set of frame numbers has a least element.
LEMMA LeastOffset ==
  ASSUME NEW S, S \subseteq Nat, S # {}
  PROVE  \E k \in S : \A j \in S : k <= j
<1>1. PICK k \in S : \A j \in S : ~(<<j, k>> \in OpToRel(<, Nat))
  BY WFMin, NatLessThanWellFounded
<1>2. \A j \in S : ~(j < k)
  BY <1>1 DEF OpToRel
<1> QED BY <1>2

\* The hand stays on the clock.
LEMMA SlotIsFrame ==
  ASSUME NEW n \in Nat
  PROVE  n % NumFrames \in Frames
BY NumFramesAssumption DEF Frames

\* The components of a replacer state.
LEMMA ReplacerFields ==
  ASSUME NEW r \in ReplacerState
  PROVE  /\ r.hand \in Frames
         /\ r.evictable \in SUBSET Frames
         /\ r.ref_bit \in SUBSET Frames
         /\ r.size \in Int
BY DEF ReplacerState

\* ClockPin takes the frame out of the evictable set and nothing else.
LEMMA ClockPinEffect ==
  ASSUME NEW r \in ReplacerState, NEW f \in Frames
  PROVE  /\ ClockPin(r, f) \in ReplacerState
         /\ ClockPin(r, f).evictable = r.evictable \ {f}
<1>1. /\ r.evictable \ {f} \in SUBSET Frames
      /\ r.ref_bit \cup {f} \in SUBSET Frames
      /\ r.size - 1 \in Int
  BY ReplacerFields
<1>2. ClockPin(r, f) \in ReplacerState
  BY <1>1 DEF ClockPin, ReplacerState
<1>3. ClockPin(r, f).evictable = r.evictable \ {f}
  BY DEF ClockPin, ReplacerState
<1> QED BY <1>2, <1>3

\* ClockUnpin puts the frame into the evictable set and nothing else.
LEMMA ClockUnpinEffect ==
  ASSUME NEW r \in ReplacerState, NEW f \in Frames
  PROVE  /\ ClockUnpin(r, f) \in ReplacerState
         /\ ClockUnpin(r, f).evictable = r.evictable \cup {f}
<1>1. /\ r.evictable \cup {f} \in SUBSET Frames
      /\ r.ref_bit \cup {f} \in SUBSET Frames
      /\ r.size + 1 \in Int
  BY ReplacerFields
<1>2. ClockUnpin(r, f) \in ReplacerState
  BY <1>1 DEF ClockUnpin, ReplacerState
<1>3. ClockUnpin(r, f).evictable = r.evictable \cup {f}
  BY DEF ClockUnpin, ReplacerState
<1> QED BY <1>2, <1>3

\* The victim is an evictable frame.
LEMMA VictimIsEvictable ==
  ASSUME NEW r \in ReplacerState, VictimFound(r)
  PROVE  VictimFrame(r) \in r.evictable
<1>1. EvictableOffsets(r) # {} /\ EvictableOffsets(r) \subseteq Nat
  BY NumFramesAssumption DEF VictimFound, EvictableOffsets, Frames
<1>2. \E k \in EvictableOffsets(r) : \A j \in EvictableOffsets(r) : k <= j
  BY <1>1, LeastOffset
<1>3. VictimOffset(r) \in EvictableOffsets(r)
  BY <1>2 DEF VictimOffset
<1> QED BY <1>3 DEF EvictableOffsets, VictimFrame

\* Victim takes its victim, if it has one, out of the evictable set.
LEMMA AfterVictimEffect ==
  ASSUME NEW r \in ReplacerState
  PROVE  /\ AfterVictim(r) \in ReplacerState
         /\ AfterVictim(r).evictable =
              IF VictimFound(r) THEN r.evictable \ {VictimFrame(r)} ELSE r.evictable
<1>1. CASE VictimFound(r)
  <2>1. VictimFrame(r) \in Frames
    BY <1>1, VictimIsEvictable DEF ReplacerState
  <2>2. (VictimFrame(r) + 1) % NumFrames \in Frames
    BY <2>1, SlotIsFrame, NumFramesAssumption DEF Frames
  <2>3. /\ r.evictable \ {VictimFrame(r)} \in SUBSET Frames
        /\ r.ref_bit \ Swept(r, VictimOffset(r)) \in SUBSET Frames
        /\ r.size - 1 \in Int
    BY ReplacerFields
  <2>4. AfterVictim(r) \in ReplacerState
    BY <1>1, <2>2, <2>3 DEF AfterVictim, ReplacerState
  <2>5. AfterVictim(r).evictable = r.evictable \ {VictimFrame(r)}
    BY <1>1 DEF AfterVictim, ReplacerState
  <2> QED BY <1>1, <2>4, <2>5
<1>2. CASE ~VictimFound(r)
  BY <1>2, ReplacerFields DEF AfterVictim, ReplacerState
<1> QED BY <1>1, <1>2

-----------------------------------------------------------------------------
(* GetFreeFrame.                                                           *)

\* INVALID_FRAME_ID is not a frame.
LEMMA InvalidFrame == INVALID_FRAME_ID \notin Frames
BY NumFramesAssumption DEF Frames, INVALID_FRAME_ID

\* A frame a thread holds is in the page table under the page it asked for.
LEMMA HeldFrame ==
  ASSUME StructureInv, NEW t \in Threads, Holding(t)
  PROVE  /\ page[t] \in PageIds /\ frame[t] \in Frames
         /\ page_id[frame[t]] = page[t]
         /\ page_table[page[t]] = frame[t]
BY PoolAssumption DEF StructureInv, HeldPageStays, PageTableMatchesFrames

\* A frame that holds no page is held by nobody.
LEMMA EmptyFrameIsNotHeld ==
  ASSUME StructureInv, NEW f \in Frames, page_id[f] = INVALID_PAGE_ID
  PROVE  Holders(f) = {} /\ pin_count[f] = 0 /\ f \notin replacer.evictable
<1>1. Holders(f) = {}
  BY HeldFrame, PoolAssumption DEF Holders
<1>2. pin_count[f] = 0
  BY <1>1, FS_EmptySet DEF StructureInv, PinsCountHolders
<1>3. f \notin replacer.evictable
  BY DEF StructureInv, PinsCountHolders
<1> QED BY <1>1, <1>2, <1>3

\* Taking the first frame of the free list.
LEMMA TailOfFreeList ==
  ASSUME StructureInv, free_list # <<>>
  PROVE  /\ Head(free_list) \in Frames
         /\ page_id[Head(free_list)] = INVALID_PAGE_ID
         /\ Tail(free_list) \in Seq(Frames)
         /\ \A i, j \in 1 .. Len(Tail(free_list)) :
              Tail(free_list)[i] = Tail(free_list)[j] => i = j
         /\ \A g \in Frames :
              (\E i \in 1 .. Len(Tail(free_list)) : Tail(free_list)[i] = g)
                <=> g # Head(free_list) /\ page_id[g] = INVALID_PAGE_ID
<1> DEFINE s == free_list
<1>1. /\ s \in Seq(Frames)
      /\ \A i, j \in 1 .. Len(s) : s[i] = s[j] => i = j
      /\ \A f \in Frames : page_id[f] = INVALID_PAGE_ID <=> \E i \in 1 .. Len(s) : s[i] = f
  BY DEF StructureInv, TypeOK, FramesAccountedFor
<1>2. /\ Len(s) \in Nat \ {0} /\ Head(s) = s[1]
      /\ Tail(s) \in Seq(Frames)
      /\ Len(Tail(s)) = Len(s) - 1
      /\ \A i \in 1 .. Len(Tail(s)) : Tail(s)[i] = s[i + 1]
      /\ s[1] \in Frames
  BY <1>1
<1> HIDE DEF s
<1>3. \A i \in 1 .. Len(Tail(s)) : i + 1 \in 1 .. Len(s) /\ i + 1 # 1
  BY <1>2
<1>4. \A i, j \in 1 .. Len(Tail(s)) : Tail(s)[i] = Tail(s)[j] => i = j
  BY <1>1, <1>2, <1>3
<1>5. ASSUME NEW g \in Frames
      PROVE  (\E i \in 1 .. Len(Tail(s)) : Tail(s)[i] = g) <=> g # Head(s) /\ page_id[g] = INVALID_PAGE_ID
  <2>1. ASSUME NEW i \in 1 .. Len(Tail(s)), Tail(s)[i] = g
        PROVE  g # Head(s) /\ page_id[g] = INVALID_PAGE_ID
    <3>1. i + 1 \in 1 .. Len(s) /\ s[i + 1] = g /\ i + 1 # 1 /\ 1 \in 1 .. Len(s)
      BY <2>1, <1>2, <1>3
    <3> QED BY <3>1, <1>1, <1>2
  <2>2. ASSUME g # Head(s), page_id[g] = INVALID_PAGE_ID
        PROVE  \E i \in 1 .. Len(Tail(s)) : Tail(s)[i] = g
    <3>1. PICK i \in 1 .. Len(s) : s[i] = g
      BY <2>2, <1>1
    <3>2. i # 1
      BY <3>1, <2>2, <1>2
    <3>3. i - 1 \in 1 .. Len(Tail(s)) /\ Tail(s)[i - 1] = s[(i - 1) + 1] /\ (i - 1) + 1 = i
      BY <3>1, <3>2, <1>2
    <3> QED BY <3>1, <3>3
  <2> QED BY <2>1, <2>2
<1>6. page_id[Head(s)] = INVALID_PAGE_ID
  BY <1>1, <1>2
<1> QED BY <1>2, <1>4, <1>5, <1>6 DEF s

\* What GetFreeFrame does when it returns f: f is held by nobody, leaves the
\* free list and the replacer, and the page it held leaves the page table.
LEMMA FreeFrameEffect ==
  ASSUME StructureInv, NEW f \in Frames, GetFreeFrame(f)
  PROVE  /\ pin_count[f] = 0 /\ Holders(f) = {}
         /\ ReplacerAfter \in ReplacerState
         /\ ReplacerAfter.evictable = replacer.evictable \ {f}
         /\ FreeListAfter \in Seq(Frames)
         /\ \A i, j \in 1 .. Len(FreeListAfter) : FreeListAfter[i] = FreeListAfter[j] => i = j
         /\ \A g \in Frames : (\E i \in 1 .. Len(FreeListAfter) : FreeListAfter[i] = g)
                               <=> g # f /\ page_id[g] = INVALID_PAGE_ID
         /\ PageTableAfter(f) =
              [p \in PageIds |-> IF page_table[p] = f THEN INVALID_FRAME_ID ELSE page_table[p]]
         /\ StoredAfter(f) \in [PageIds -> Contents]
<1>0. replacer \in ReplacerState /\ free_list \in Seq(Frames) /\ stored \in [PageIds -> Contents]
      /\ page_table \in [PageIds -> Frames \cup {INVALID_FRAME_ID}]
      /\ page_id \in [Frames -> PageIds \cup {INVALID_PAGE_ID}] /\ data \in [Frames -> Contents]
  BY DEF StructureInv, TypeOK
<1>1. CASE free_list # <<>>
  <2>1. f = Head(free_list)
    BY <1>1 DEF GetFreeFrame
  <2>2. page_id[f] = INVALID_PAGE_ID
    BY <1>1, <2>1, TailOfFreeList
  <2>3. pin_count[f] = 0 /\ Holders(f) = {} /\ f \notin replacer.evictable
    BY <2>2, EmptyFrameIsNotHeld
  <2>4. ReplacerAfter = replacer /\ FreeListAfter = Tail(free_list)
        /\ PageTableAfter(f) = page_table /\ StoredAfter(f) = stored
    BY <1>1 DEF ReplacerAfter, FreeListAfter, PageTableAfter, StoredAfter
  <2>5. \A p \in PageIds : page_table[p] # f
    BY <2>2, InvalidFrame, PoolAssumption DEF StructureInv, PageTableMatchesFrames
  <2>6. page_table = [p \in PageIds |-> IF page_table[p] = f THEN INVALID_FRAME_ID ELSE page_table[p]]
    BY <2>5, <1>0
  <2>7. ReplacerAfter.evictable = replacer.evictable \ {f}
    BY <2>3, <2>4
  <2> HIDE DEF GetFreeFrame
  <2> QED BY <1>0, <1>1, <2>1, <2>3, <2>4, <2>6, <2>7, TailOfFreeList
<1>2. CASE free_list = <<>>
  <2>1. VictimFound(replacer) /\ f = VictimFrame(replacer)
    BY <1>2 DEF GetFreeFrame
  <2>2. f \in replacer.evictable
    BY <2>1, <1>0, VictimIsEvictable
  <2>3. Holders(f) = {} /\ page_id[f] # INVALID_PAGE_ID
    BY <2>2 DEF StructureInv, PinsCountHolders
  <2>4. pin_count[f] = 0
    BY <2>3, FS_EmptySet DEF StructureInv, PinsCountHolders
  <2>5. ReplacerAfter = AfterVictim(replacer) /\ FreeListAfter = free_list
        /\ PageTableAfter(f) = [page_table EXCEPT ![page_id[f]] = INVALID_FRAME_ID]
    BY <1>2 DEF ReplacerAfter, FreeListAfter, PageTableAfter
  <2>6. ReplacerAfter \in ReplacerState /\ ReplacerAfter.evictable = replacer.evictable \ {f}
    BY <2>1, <2>5, <1>0, AfterVictimEffect
  <2>7. \A p \in PageIds : page_table[p] = f <=> p = page_id[f]
    BY <2>3, <1>0, InvalidFrame DEF StructureInv, PageTableMatchesFrames
  <2>8. PageTableAfter(f) =
          [p \in PageIds |-> IF page_table[p] = f THEN INVALID_FRAME_ID ELSE page_table[p]]
    BY <2>5, <2>7, <1>0
  <2>9. StoredAfter(f) \in [PageIds -> Contents]
    BY <1>0 DEF StoredAfter
  <2>10. \A g \in Frames : page_id[g] # INVALID_PAGE_ID
    BY <1>2, <1>0 DEF StructureInv, FramesAccountedFor
  <2>11. \A i \in 1 .. Len(FreeListAfter) : FALSE
    BY <1>2, <2>5
  <2> QED BY <1>0, <2>3, <2>4, <2>5, <2>6, <2>8, <2>9, <2>10, <2>11
<1> QED BY <1>1, <1>2

-----------------------------------------------------------------------------
(* Who holds what.                                                         *)

\* The holders of a frame are finitely many.
LEMMA HoldersFinite ==
  ASSUME NEW f
  PROVE  IsFiniteSet(Holders(f))
BY PoolAssumption, FS_Subset DEF Holders

\* An idle thread that gets frame f becomes one more holder of f.
LEMMA HoldersAfterTake ==
  ASSUME TypeOK, NEW t \in Threads, pc[t] = "idle",
         NEW p, NEW f \in Frames, NEW where, where # "idle", Holds(t, p, f, where)
  PROVE  /\ \A g \in Frames : Holders(g)' = IF g = f THEN Holders(g) \cup {t} ELSE Holders(g)
         /\ Cardinality(Holders(f)') = Cardinality(Holders(f)) + 1
<1>1. \A g \in Frames : Holders(g)' = IF g = f THEN Holders(g) \cup {t} ELSE Holders(g)
  BY DEF Holders, Holding, Holds, TypeOK
<1>2. t \notin Holders(f)
  BY DEF Holders, Holding
<1>3. Cardinality(Holders(f) \cup {t}) = Cardinality(Holders(f)) + 1
  BY <1>2, HoldersFinite, FS_AddElement
<1> QED BY <1>1, <1>3

\* A thread that lets go of frame h is one holder less.
LEMMA HoldersAfterRelease ==
  ASSUME TypeOK, NEW t \in Threads, Holding(t), NEW h \in Frames, frame[t] = h,
         NEW p, NEW f, Holds(t, p, f, "idle")
  PROVE  /\ \A g \in Frames : Holders(g)' = IF g = h THEN Holders(g) \ {t} ELSE Holders(g)
         /\ Cardinality(Holders(h)') = Cardinality(Holders(h)) - 1
         /\ Cardinality(Holders(h)) \in Nat \ {0}
         /\ Cardinality(Holders(h)) = 1 => Holders(h)' = {}
<1>1. \A g \in Frames : Holders(g)' = IF g = h THEN Holders(g) \ {t} ELSE Holders(g)
  BY DEF Holders, Holding, Holds, TypeOK
<1>2. t \in Holders(h)
  BY DEF Holders
<1>3. IsFiniteSet(Holders(h) \ {t}) /\ Cardinality(Holders(h) \ {t}) = Cardinality(Holders(h)) - 1
  BY <1>2, HoldersFinite, FS_RemoveElement
<1>4. Cardinality(Holders(h)) \in Nat /\ Cardinality(Holders(h)) # 0
  BY <1>2, HoldersFinite, FS_EmptySet, FS_CardinalityType
<1>5. Cardinality(Holders(h)) = 1 => Holders(h) \ {t} = {}
  BY <1>3, FS_EmptySet
<1> QED BY <1>1, <1>3, <1>4, <1>5

\* A step that leaves the page table, the free list, the pins and who holds what
\* alone, and makes no frame evictable, keeps the structure.
LEMMA StructureFrame ==
  ASSUME StructureInv, TypeOK', FlushWithinPool',
         UNCHANGED <<page_table, free_list, page_id, pin_count, allocated, page, frame>>,
         replacer'.evictable \subseteq replacer.evictable,
         \A t \in Threads : pc'[t] = "idle" <=> pc[t] = "idle"
  PROVE  StructureInv'
<1>1. \A f : Holders(f)' = Holders(f)
  BY DEF Holders, Holding
<1>2. PageTableMatchesFrames' /\ FramesAccountedFor' /\ ResidentIsAllocated'
  BY DEF StructureInv, PageTableMatchesFrames, FramesAccountedFor, ResidentIsAllocated
<1>3. PinsCountHolders'
  BY <1>1 DEF StructureInv, PinsCountHolders
<1>4. HeldPageStays'
  BY DEF StructureInv, HeldPageStays, Holding
<1> QED BY <1>2, <1>3, <1>4 DEF StructureInv

-----------------------------------------------------------------------------
(* Each operation keeps the structure.                                     *)

\* A thread that gets frame f for page p, by whatever path, keeps the pins and
\* the held pages right, if f had no holders or already had page p.
LEMMA TakeKeepsPins ==
  ASSUME StructureInv, NEW t \in Threads, pc[t] = "idle",
         NEW p \in PageIds, NEW f \in Frames, NEW where, where # "idle",
         Holds(t, p, f, where),
         pin_count' = [pin_count EXCEPT ![f] = @ + 1],
         page_id'[f] = p,
         \A g \in Frames : g # f => page_id'[g] = page_id[g],
         Holders(f) = {} \/ page_id[f] = p,
         replacer'.evictable = replacer.evictable \ {f}
  PROVE  PinsCountHolders' /\ HeldPageStays'
<1>0. TypeOK
  BY DEF StructureInv
<1>1. /\ \A g \in Frames : Holders(g)' = IF g = f THEN Holders(g) \cup {t} ELSE Holders(g)
      /\ Cardinality(Holders(f)') = Cardinality(Holders(f)) + 1
  BY <1>0, HoldersAfterTake
<1>2. \A g \in Frames : pin_count'[g] = Cardinality(Holders(g)')
  BY <1>0, <1>1 DEF StructureInv, PinsCountHolders, TypeOK
<1>3. replacer.evictable \subseteq Frames
  BY <1>0, ReplacerFields DEF TypeOK
<1>4. \A g \in replacer'.evictable : page_id'[g] # INVALID_PAGE_ID /\ Holders(g)' = {}
  BY <1>1, <1>3 DEF StructureInv, PinsCountHolders
<1>5. ASSUME NEW u \in Threads, Holding(u)'
      PROVE  page'[u] \in PageIds /\ frame'[u] \in Frames /\ page_id'[frame'[u]] = page'[u]
  <2>1. CASE u = t
    BY <2>1, <1>0 DEF Holds, TypeOK
  <2>2. CASE u # t
    <3>1. page'[u] = page[u] /\ frame'[u] = frame[u] /\ Holding(u)
      BY <2>2, <1>0, <1>5 DEF Holds, Holding, TypeOK
    <3>2. page[u] \in PageIds /\ frame[u] \in Frames /\ page_id[frame[u]] = page[u]
      BY <3>1, HeldFrame
    <3>3. frame[u] = f => Holders(f) # {}
      BY <3>1 DEF Holders
    <3> QED BY <3>1, <3>2, <3>3
  <2> QED BY <2>1, <2>2
<1>6. HeldPageStays'
  BY <1>5 DEF HeldPageStays
<1>7. PinsCountHolders'
  BY <1>2, <1>4 DEF PinsCountHolders
<1> QED BY <1>6, <1>7

\* FetchPage of a page in the pool.
LEMMA FetchHitStructure ==
  ASSUME StructureInv, NEW t \in Threads, NEW p \in PageIds, FetchHit(t, p)
  PROVE  StructureInv'
<1> DEFINE f == page_table[p]
<1>0. TypeOK /\ f \in Frames /\ page_id[f] = p
  BY DEF StructureInv, TypeOK, FetchHit, PageTableMatchesFrames
<1>1. replacer' \in ReplacerState /\ replacer'.evictable = replacer.evictable \ {f}
  BY <1>0, ClockPinEffect DEF FetchHit, TypeOK
<1>2. TypeOK'
  BY <1>0, <1>1 DEF TypeOK, FetchHit, Holds, disk
<1>3. PageTableMatchesFrames' /\ FramesAccountedFor' /\ ResidentIsAllocated' /\ FlushWithinPool'
  BY DEF FetchHit, disk, StructureInv, PageTableMatchesFrames, FramesAccountedFor,
         ResidentIsAllocated, FlushWithinPool
<1>4. PinsCountHolders' /\ HeldPageStays'
  <2>1. /\ pc[t] = "idle" /\ Holds(t, p, f, "pinned")
        /\ pin_count' = [pin_count EXCEPT ![f] = @ + 1] /\ page_id' = page_id
    BY DEF FetchHit
  <2> HIDE DEF f
  <2> QED BY <1>0, <1>1, <2>1, TakeKeepsPins
<1> QED BY <1>2, <1>3, <1>4 DEF StructureInv

\* A thread gets page p in frame f, taken from the free list or from its victim:
\* the part FetchMiss and NewPage share.
LEMMA LoadStructure ==
  ASSUME StructureInv, NEW t \in Threads, pc[t] = "idle", MutexFree,
         NEW p \in PageIds, page_table[p] = INVALID_FRAME_ID,
         NEW f \in Frames, GetFreeFrame(f), NEW where, where # "idle",
         TypeOK', UNCHANGED flush,
         p \in allocated', allocated \subseteq allocated',
         page_table' = [PageTableAfter(f) EXCEPT ![p] = f],
         free_list' = FreeListAfter,
         replacer' = ClockPin(ReplacerAfter, f),
         page_id' = [page_id EXCEPT ![f] = p],
         pin_count' = [pin_count EXCEPT ![f] = @ + 1],
         Holds(t, p, f, where)
  PROVE  StructureInv'
<1>0. TypeOK /\ INVALID_FRAME_ID \notin Frames /\ INVALID_PAGE_ID \notin PageIds
  BY InvalidFrame, PoolAssumption DEF StructureInv
<1>1. \A q \in PageIds :
        page_table'[q] = IF q = p THEN f
                         ELSE IF page_table[q] = f THEN INVALID_FRAME_ID ELSE page_table[q]
  BY <1>0, FreeFrameEffect
<1>2. \A g \in Frames : page_id'[g] = IF g = f THEN p ELSE page_id[g]
  BY <1>0 DEF TypeOK
<1>3. PageTableMatchesFrames'
  <2>1. ASSUME NEW q \in PageIds, page_table'[q] # INVALID_FRAME_ID
        PROVE  page_id'[page_table'[q]] = q
    <3>1. CASE q = p
      BY <3>1, <1>0, <1>1, <1>2
    <3>2. CASE q # p
      <4>1. page_table'[q] = page_table[q] /\ page_table[q] # f /\ page_table[q] \in Frames
        BY <3>2, <2>1, <1>0, <1>1 DEF TypeOK
      <4>2. page_id[page_table[q]] = q
        BY <4>1, <1>0 DEF StructureInv, PageTableMatchesFrames
      <4> QED BY <4>1, <4>2, <1>2
    <3> QED BY <3>1, <3>2
  <2>2. ASSUME NEW g \in Frames, page_id'[g] # INVALID_PAGE_ID
        PROVE  page_table'[page_id'[g]] = g
    <3>1. CASE g = f
      BY <3>1, <1>0, <1>1, <1>2
    <3>2. CASE g # f
      <4>1. page_id'[g] = page_id[g] /\ page_id[g] \in PageIds
        BY <3>2, <2>2, <1>0, <1>2 DEF TypeOK
      <4>2. page_table[page_id[g]] = g
        BY <4>1, <2>2 DEF StructureInv, PageTableMatchesFrames
      <4> QED BY <3>2, <4>1, <4>2, <1>0, <1>1
    <3> QED BY <3>1, <3>2
  <2> QED BY <2>1, <2>2 DEF PageTableMatchesFrames
<1>4. FramesAccountedFor'
  <2>1. \A g \in Frames : page_id'[g] = INVALID_PAGE_ID <=> g # f /\ page_id[g] = INVALID_PAGE_ID
    BY <1>0, <1>2
  <2>2. /\ \A i, j \in 1 .. Len(free_list') : free_list'[i] = free_list'[j] => i = j
        /\ \A g \in Frames : (\E i \in 1 .. Len(free_list') : free_list'[i] = g)
                              <=> g # f /\ page_id[g] = INVALID_PAGE_ID
    BY FreeFrameEffect
  <2> QED BY <2>1, <2>2 DEF FramesAccountedFor
<1>5. ResidentIsAllocated'
  BY <1>0, <1>1 DEF StructureInv, ResidentIsAllocated
<1>6. FlushWithinPool'
  BY DEF StructureInv, FlushWithinPool, MutexFree
<1>7. replacer'.evictable = replacer.evictable \ {f}
  BY FreeFrameEffect, ClockPinEffect
<1>8. Holders(f) = {} /\ page_id'[f] = p
  BY <1>2, FreeFrameEffect
<1>9. PinsCountHolders' /\ HeldPageStays'
  BY <1>2, <1>7, <1>8, TakeKeepsPins
<1> QED BY <1>3, <1>4, <1>5, <1>6, <1>9 DEF StructureInv

\* FetchPage that reads the page from the file.
LEMMA FetchMissStructure ==
  ASSUME StructureInv, NEW t \in Threads, NEW p \in PageIds, FetchMiss(t, p)
  PROVE  StructureInv'
<1>0. TypeOK
  BY DEF StructureInv
<1>1. PICK f \in Frames :
        /\ GetFreeFrame(f)
        /\ page_table' = [PageTableAfter(f) EXCEPT ![p] = f]
        /\ replacer' = ClockPin(ReplacerAfter, f)
        /\ stored' = StoredAfter(f)
        /\ page_id' = [page_id EXCEPT ![f] = p]
        /\ pin_count' = [pin_count EXCEPT ![f] = @ + 1]
        /\ is_dirty' = is_dirty \ {f}
        /\ data' = [data EXCEPT ![f] = stored[p]]
        /\ Holds(t, p, f, "pinned")
  BY DEF FetchMiss
<1>2. /\ MutexFree /\ pc[t] = "idle" /\ page_table[p] = INVALID_FRAME_ID /\ p \in allocated
      /\ free_list' = FreeListAfter
      /\ UNCHANGED <<extent, allocated, open, flush, dropping>>
  BY DEF FetchMiss
<1>3. page_table' \in [PageIds -> Frames \cup {INVALID_FRAME_ID}]
  BY <1>0, <1>1, FreeFrameEffect DEF TypeOK
<1>4. replacer' \in ReplacerState /\ stored' \in [PageIds -> Contents] /\ free_list' \in Seq(Frames)
  BY <1>1, <1>2, FreeFrameEffect, ClockPinEffect
<1>5. TypeOK'
  BY <1>0, <1>1, <1>2, <1>3, <1>4 DEF TypeOK, Holds
<1> QED BY <1>1, <1>2, <1>5, LoadStructure

\* NewPage with a frame to be had.
LEMMA NewPageStructure ==
  ASSUME StructureInv, NEW t \in Threads, NEW file \in Files, NewPage(t, file)
  PROVE  StructureInv'
<1>0. TypeOK
  BY DEF StructureInv
<1>1. PICK p \in Allocatable(file), f \in Frames :
        /\ GetFreeFrame(f)
        /\ page_table' = [PageTableAfter(f) EXCEPT ![p] = f]
        /\ replacer' = ClockPin(ReplacerAfter, f)
        /\ stored' = [StoredAfter(f) EXCEPT ![p] = IF p \in extent THEN @ ELSE Zero]
        /\ extent' = extent \cup {p}
        /\ allocated' = allocated \cup {p}
        /\ page_id' = [page_id EXCEPT ![f] = p]
        /\ pin_count' = [pin_count EXCEPT ![f] = @ + 1]
        /\ is_dirty' = is_dirty \ {f}
        /\ data' = [data EXCEPT ![f] = Zero]
        /\ Holds(t, p, f, "fresh")
  BY DEF NewPage
<1>2. /\ MutexFree /\ pc[t] = "idle" /\ free_list' = FreeListAfter
      /\ UNCHANGED <<open, flush, dropping>>
  BY DEF NewPage
<1>3. p \in PageIds /\ p \notin allocated /\ page_table[p] = INVALID_FRAME_ID
  BY <1>0 DEF Allocatable, FreePages, TypeOK, StructureInv, ResidentIsAllocated
<1>4. page_table' \in [PageIds -> Frames \cup {INVALID_FRAME_ID}]
  BY <1>0, <1>1, <1>3, FreeFrameEffect DEF TypeOK
<1>5. replacer' \in ReplacerState /\ stored' \in [PageIds -> Contents] /\ free_list' \in Seq(Frames)
  BY <1>1, <1>2, <1>3, FreeFrameEffect, ClockPinEffect, PoolAssumption DEF Contents
<1>6. TypeOK'
  BY <1>0, <1>1, <1>2, <1>3, <1>4, <1>5, PoolAssumption DEF TypeOK, Holds, Contents
<1> QED BY <1>1, <1>2, <1>3, <1>6, LoadStructure

\* The free list after frame f, which is not on it, is put at its end.
LEMMA AppendToFreeList ==
  ASSUME NEW s \in Seq(Frames), NEW f \in Frames,
         \A i, j \in 1 .. Len(s) : s[i] = s[j] => i = j,
         \A i \in 1 .. Len(s) : s[i] # f
  PROVE  /\ Append(s, f) \in Seq(Frames)
         /\ \A i, j \in 1 .. Len(Append(s, f)) : Append(s, f)[i] = Append(s, f)[j] => i = j
         /\ \A g : (\E i \in 1 .. Len(Append(s, f)) : Append(s, f)[i] = g)
                    <=> g = f \/ \E i \in 1 .. Len(s) : s[i] = g
<1> DEFINE a == Append(s, f)
<1>1. /\ a \in Seq(Frames) /\ Len(s) \in Nat /\ Len(a) = Len(s) + 1
      /\ \A i \in 1 .. Len(s) : a[i] = s[i]
      /\ a[Len(s) + 1] = f
  OBVIOUS
<1> HIDE DEF a
<1>2. \A i \in 1 .. Len(a) : i \in 1 .. Len(s) \/ i = Len(s) + 1
  BY <1>1
<1>3. \A i, j \in 1 .. Len(a) : a[i] = a[j] => i = j
  BY <1>1, <1>2
<1>4. ASSUME NEW g
      PROVE  (\E i \in 1 .. Len(a) : a[i] = g) <=> g = f \/ \E i \in 1 .. Len(s) : s[i] = g
  <2>1. Len(s) + 1 \in 1 .. Len(a) /\ \A i \in 1 .. Len(s) : i \in 1 .. Len(a)
    BY <1>1
  <2> QED BY <1>1, <1>2, <2>1
<1> QED BY <1>1, <1>3, <1>4 DEF a

\* Frame f, held by nobody, loses its page and goes to the end of the free
\* list s: the part FetchReadFails and DeletePage share.
LEMMA ReleaseStructure ==
  ASSUME StructureInv, NEW f \in Frames, Holders(f) = {}, pin_count[f] = 0, TypeOK',
         MutexFree, UNCHANGED <<flush, pin_count, pc, page, frame>>,
         NEW s \in Seq(Frames),
         \A i, j \in 1 .. Len(s) : s[i] = s[j] => i = j,
         \A g \in Frames : (\E i \in 1 .. Len(s) : s[i] = g) <=> g # f /\ page_id[g] = INVALID_PAGE_ID,
         free_list' = Append(s, f),
         replacer'.evictable = replacer.evictable \ {f},
         page_id' = [page_id EXCEPT ![f] = INVALID_PAGE_ID],
         \A p \in PageIds : page_table'[p] = IF page_table[p] = f THEN INVALID_FRAME_ID ELSE page_table[p],
         \A p \in allocated : page_table'[p] # INVALID_FRAME_ID => p \in allocated'
  PROVE  StructureInv'
<1>0. TypeOK /\ INVALID_FRAME_ID \notin Frames /\ INVALID_PAGE_ID \notin PageIds
  BY InvalidFrame, PoolAssumption DEF StructureInv
<1>1. \A g \in Frames : page_id'[g] = IF g = f THEN INVALID_PAGE_ID ELSE page_id[g]
  BY <1>0 DEF TypeOK
<1>2. PageTableMatchesFrames'
  <2>1. ASSUME NEW q \in PageIds, page_table'[q] # INVALID_FRAME_ID
        PROVE  page_id'[page_table'[q]] = q
    <3>1. page_table'[q] = page_table[q] /\ page_table[q] # f /\ page_table[q] \in Frames
      BY <2>1, <1>0 DEF TypeOK
    <3>2. page_id[page_table[q]] = q
      BY <3>1, <1>0 DEF StructureInv, PageTableMatchesFrames
    <3> QED BY <3>1, <3>2, <1>1
  <2>2. ASSUME NEW g \in Frames, page_id'[g] # INVALID_PAGE_ID
        PROVE  page_table'[page_id'[g]] = g
    <3>1. g # f /\ page_id'[g] = page_id[g] /\ page_id[g] \in PageIds
      BY <2>2, <1>0, <1>1 DEF TypeOK
    <3>2. page_table[page_id[g]] = g
      BY <3>1, <1>0 DEF StructureInv, PageTableMatchesFrames
    <3> QED BY <3>1, <3>2
  <2> QED BY <2>1, <2>2 DEF PageTableMatchesFrames
<1>3. FramesAccountedFor'
  <2>1. \A i \in 1 .. Len(s) : s[i] \in Frames
    OBVIOUS
  <2>2. \A i \in 1 .. Len(s) : s[i] # f
    BY <2>1
  <2>3. /\ \A i, j \in 1 .. Len(free_list') : free_list'[i] = free_list'[j] => i = j
        /\ \A g : (\E i \in 1 .. Len(free_list') : free_list'[i] = g)
                   <=> g = f \/ \E i \in 1 .. Len(s) : s[i] = g
    BY <2>2, AppendToFreeList
  <2>4. \A g \in Frames : page_id'[g] = INVALID_PAGE_ID <=> g = f \/ page_id[g] = INVALID_PAGE_ID
    BY <1>1
  <2> QED BY <2>3, <2>4 DEF FramesAccountedFor
<1>4. \A g \in Frames : Holders(g)' = Holders(g)
  BY DEF Holders, Holding
<1>5. PinsCountHolders'
  <2>1. replacer.evictable \subseteq Frames
    BY <1>0, ReplacerFields DEF TypeOK
  <2> QED BY <2>1, <1>1, <1>4 DEF StructureInv, PinsCountHolders
<1>6. HeldPageStays'
  <2>1. ASSUME NEW t \in Threads, Holding(t)
        PROVE  page[t] \in PageIds /\ frame[t] \in Frames /\ page_id'[frame[t]] = page[t]
    <3>1. page[t] \in PageIds /\ frame[t] \in Frames /\ page_id[frame[t]] = page[t]
      BY <2>1, HeldFrame
    <3>2. frame[t] # f
      BY <2>1 DEF Holders
    <3> QED BY <3>1, <3>2, <1>1
  <2> QED BY <2>1 DEF HeldPageStays, Holding
<1>7. ResidentIsAllocated'
  BY <1>0 DEF StructureInv, ResidentIsAllocated
<1>8. FlushWithinPool'
  BY DEF StructureInv, FlushWithinPool, MutexFree
<1> QED BY <1>2, <1>3, <1>5, <1>6, <1>7, <1>8 DEF StructureInv

\* FetchPage whose ReadPage failed: the frame is on the free list again.
LEMMA FetchReadFailsStructure ==
  ASSUME StructureInv, NEW t \in Threads, NEW p \in PageIds, FetchReadFails(t, p)
  PROVE  StructureInv'
<1>0. TypeOK
  BY DEF StructureInv
<1>1. PICK f \in Frames :
        /\ GetFreeFrame(f)
        /\ page_table' = PageTableAfter(f)
        /\ stored' = StoredAfter(f)
        /\ page_id' = [page_id EXCEPT ![f] = INVALID_PAGE_ID]
        /\ is_dirty' = is_dirty \ {f}
        /\ data' = [data EXCEPT ![f] = Zero]
        /\ free_list' = Append(FreeListAfter, f)
  BY DEF FetchReadFails
<1>2. /\ MutexFree /\ replacer' = ReplacerAfter
      /\ UNCHANGED <<pin_count, extent, allocated, open, flush, dropping, pc, page, frame>>
  BY DEF FetchReadFails, thread
<1>3. page_table' = [q \in PageIds |-> IF page_table[q] = f THEN INVALID_FRAME_ID ELSE page_table[q]]
  BY <1>1, FreeFrameEffect
<1>4. page_table' \in [PageIds -> Frames \cup {INVALID_FRAME_ID}]
  BY <1>0, <1>3 DEF TypeOK
<1>5. /\ replacer' \in ReplacerState /\ stored' \in [PageIds -> Contents]
      /\ FreeListAfter \in Seq(Frames) /\ free_list' \in Seq(Frames)
  BY <1>1, <1>2, FreeFrameEffect
<1>6. TypeOK'
  BY <1>0, <1>1, <1>2, <1>4, <1>5, PoolAssumption DEF TypeOK, Contents
<1>7. \A q \in PageIds : page_table'[q] = IF page_table[q] = f THEN INVALID_FRAME_ID ELSE page_table[q]
  BY <1>3
<1>8. /\ Holders(f) = {} /\ pin_count[f] = 0 /\ replacer'.evictable = replacer.evictable \ {f}
      /\ \A i, j \in 1 .. Len(FreeListAfter) : FreeListAfter[i] = FreeListAfter[j] => i = j
      /\ \A g \in Frames : (\E i \in 1 .. Len(FreeListAfter) : FreeListAfter[i] = g)
                            <=> g # f /\ page_id[g] = INVALID_PAGE_ID
  BY <1>1, <1>2, FreeFrameEffect
<1> QED BY <1>1, <1>2, <1>5, <1>6, <1>7, <1>8, ReleaseStructure

\* DeletePage of an unpinned page.
LEMMA DeletePageStructure ==
  ASSUME StructureInv, NEW p \in PageIds, DeletePage(p)
  PROVE  StructureInv'
<1> DEFINE f == page_table[p]
<1>0. TypeOK /\ INVALID_FRAME_ID \notin Frames /\ INVALID_PAGE_ID \notin PageIds
  BY InvalidFrame, PoolAssumption DEF StructureInv
<1>1. /\ MutexFree /\ p \in allocated /\ allocated' = allocated \ {p}
      /\ stored' = IF GetFileId(p) \in open THEN [stored EXCEPT ![p] = Link] ELSE stored
      /\ UNCHANGED <<extent, open, flush, dropping, pc, page, frame>>
  BY DEF DeletePage, thread
<1>2. stored' \in [PageIds -> Contents]
  BY <1>0, <1>1 DEF TypeOK, Contents
<1>3. CASE f = INVALID_FRAME_ID
  <2>1. UNCHANGED <<page_table, free_list, page_id, pin_count, is_dirty, data, replacer>>
    BY <1>3 DEF DeletePage, pool
  <2>2. TypeOK'
    BY <1>0, <1>1, <1>2, <2>1 DEF TypeOK
  <2>3. \A g : Holders(g)' = Holders(g)
    BY <1>1 DEF Holders, Holding
  <2>4. PageTableMatchesFrames' /\ FramesAccountedFor' /\ HeldPageStays' /\ FlushWithinPool'
    BY <1>1, <2>1 DEF StructureInv, PageTableMatchesFrames, FramesAccountedFor, HeldPageStays,
       Holding, FlushWithinPool
  <2>5. PinsCountHolders'
    BY <2>1, <2>3 DEF StructureInv, PinsCountHolders
  <2>6. ResidentIsAllocated'
    BY <1>1, <1>3, <2>1 DEF StructureInv, ResidentIsAllocated
  <2> QED BY <2>2, <2>4, <2>5, <2>6 DEF StructureInv
<1>4. CASE f # INVALID_FRAME_ID
  <2>1. f \in Frames /\ page_id[f] = p
    BY <1>0, <1>4 DEF TypeOK, StructureInv, PageTableMatchesFrames
  <2>2. /\ pin_count[f] = 0
        /\ page_table' = [page_table EXCEPT ![p] = INVALID_FRAME_ID]
        /\ page_id' = [page_id EXCEPT ![f] = INVALID_PAGE_ID]
        /\ is_dirty' = is_dirty \ {f}
        /\ data' = [data EXCEPT ![f] = Zero]
        /\ replacer' = ClockPin(replacer, f)
        /\ free_list' = Append(free_list, f)
        /\ UNCHANGED pin_count
    BY <1>4 DEF DeletePage
  <2> HIDE DEF f
  <2>3. Holders(f) = {}
    BY <2>1, <2>2, HoldersFinite, FS_EmptySet DEF StructureInv, PinsCountHolders
  <2>4. replacer' \in ReplacerState /\ replacer'.evictable = replacer.evictable \ {f}
    BY <1>0, <2>1, <2>2, ClockPinEffect DEF TypeOK
  <2>5. free_list \in Seq(Frames) /\ free_list' \in Seq(Frames)
    BY <1>0, <2>1, <2>2 DEF TypeOK
  <2>6. TypeOK'
    BY <1>0, <1>1, <1>2, <2>1, <2>2, <2>4, <2>5, PoolAssumption DEF TypeOK, Contents
  <2>7. \A q \in PageIds : page_table'[q] = IF page_table[q] = f THEN INVALID_FRAME_ID ELSE page_table[q]
    BY <1>0, <2>1, <2>2 DEF TypeOK, StructureInv, PageTableMatchesFrames, f
  <2>8. /\ \A i, j \in 1 .. Len(free_list) : free_list[i] = free_list[j] => i = j
        /\ \A g \in Frames : (\E i \in 1 .. Len(free_list) : free_list[i] = g)
                              <=> g # f /\ page_id[g] = INVALID_PAGE_ID
    BY <1>0, <2>1 DEF StructureInv, FramesAccountedFor
  <2>9. \A q \in allocated : page_table'[q] # INVALID_FRAME_ID => q \in allocated'
    BY <1>0, <1>1, <2>2 DEF TypeOK
  <2> QED BY <1>1, <2>1, <2>2, <2>3, <2>4, <2>5, <2>6, <2>7, <2>8, <2>9, ReleaseStructure
<1> QED BY <1>3, <1>4

\* GetFreeFrame without a frame: only the replacer has moved.
LEMMA NoFrameStructure ==
  ASSUME StructureInv, NoFrameAvailable,
         UNCHANGED <<allocated, open, flush, dropping, pc, page, frame>>,
         extent' \in SUBSET PageIds, extent \subseteq extent', stored' \in [PageIds -> Contents]
  PROVE  StructureInv'
<1>0. TypeOK
  BY DEF StructureInv
<1>1. /\ replacer' = AfterVictim(replacer)
      /\ UNCHANGED <<page_table, free_list, page_id, pin_count, is_dirty, data>>
  BY DEF NoFrameAvailable
<1>2. replacer' \in ReplacerState /\ replacer'.evictable \subseteq replacer.evictable
  BY <1>0, <1>1, AfterVictimEffect DEF TypeOK
<1>3. TypeOK'
  BY <1>0, <1>1, <1>2 DEF TypeOK
<1>4. FlushWithinPool'
  BY <1>1 DEF StructureInv, FlushWithinPool
<1> QED BY <1>1, <1>2, <1>3, <1>4, StructureFrame

\* FetchPage without a frame.
LEMMA FetchNoFrameStructure ==
  ASSUME StructureInv, NEW t \in Threads, NEW p \in PageIds, FetchNoFrame(t, p)
  PROVE  StructureInv'
<1>1. /\ NoFrameAvailable
      /\ UNCHANGED <<allocated, open, flush, dropping, pc, page, frame, extent, stored>>
  BY DEF FetchNoFrame, disk, thread
<1>2. extent' \in SUBSET PageIds /\ extent \subseteq extent' /\ stored' \in [PageIds -> Contents]
  BY <1>1 DEF StructureInv, TypeOK
<1> QED BY <1>1, <1>2, NoFrameStructure

\* NewPage without a frame: the page id is given back.
LEMMA NewPageNoFrameStructure ==
  ASSUME StructureInv, NEW t \in Threads, NEW file \in Files, NewPageNoFrame(t, file)
  PROVE  StructureInv'
<1>1. /\ NoFrameAvailable
      /\ UNCHANGED <<allocated, open, flush, dropping, pc, page, frame>>
  BY DEF NewPageNoFrame, thread
<1>2. PICK p \in Allocatable(file) : stored' = [stored EXCEPT ![p] = Link] /\ extent' = extent \cup {p}
  BY DEF NewPageNoFrame
<1>3. p \in PageIds
  BY DEF Allocatable, FreePages, StructureInv, TypeOK
<1>4. extent' \in SUBSET PageIds /\ extent \subseteq extent' /\ stored' \in [PageIds -> Contents]
  BY <1>2, <1>3 DEF StructureInv, TypeOK, Contents
<1> QED BY <1>1, <1>4, NoFrameStructure

\* Taking and giving back a latch, and writing to a page, move no pin.
LEMMA ThreadStructure ==
  ASSUME StructureInv, NEW t \in Threads,
         \/ RLatch(t) \/ WLatch(t) \/ Unlatch(t)
         \/ \E v \in Data : Modify(t, v)
  PROVE  StructureInv'
<1>0. TypeOK
  BY DEF StructureInv
<1>1. /\ UNCHANGED <<page_table, free_list, page_id, pin_count, replacer,
                      stored, extent, allocated, open, flush, dropping, page, frame>>
      /\ \E w \in {"reading", "writing", "clean", "modified"} : pc' = [pc EXCEPT ![t] = w]
      /\ pc[t] # "idle"
      /\ \/ UNCHANGED <<is_dirty, data>>
         \/ \E v \in Data : /\ data' = [data EXCEPT ![frame[t]] = v]
                              /\ is_dirty' = is_dirty \cup {frame[t]}
  BY DEF RLatch, WLatch, Unlatch, Modify, pool, disk
<1>2. frame[t] \in Frames
  BY <1>1, HeldFrame DEF Holding
<1>3. TypeOK'
  BY <1>0, <1>1, <1>2 DEF TypeOK, Contents
<1>4. \A u \in Threads : pc'[u] = "idle" <=> pc[u] = "idle"
  BY <1>0, <1>1 DEF TypeOK
<1>5. FlushWithinPool'
  BY <1>1 DEF StructureInv, FlushWithinPool
<1> QED BY <1>1, <1>3, <1>4, <1>5, StructureFrame

\* UnpinPage of a page the thread holds.
LEMMA UnpinPageStructure ==
  ASSUME StructureInv, NEW t \in Threads, UnpinPage(t)
  PROVE  StructureInv'
<1>0. TypeOK /\ INVALID_FRAME_ID \notin Frames
  BY InvalidFrame DEF StructureInv
<1>1. Holding(t)
  BY DEF UnpinPage, Holding
<1>2. PICK h \in Frames : frame[t] = h /\ page_table[page[t]] = h /\ page[t] \in PageIds /\ page_id[h] = page[t]
  BY <1>1, HeldFrame
<1>3. Holds(t, INVALID_PAGE_ID, INVALID_FRAME_ID, "idle")
  BY DEF UnpinPage
<1>4. /\ \A g \in Frames : Holders(g)' = IF g = h THEN Holders(g) \ {t} ELSE Holders(g)
      /\ Cardinality(Holders(h)') = Cardinality(Holders(h)) - 1
      /\ Cardinality(Holders(h)) \in Nat \ {0}
      /\ Cardinality(Holders(h)) = 1 => Holders(h)' = {}
  BY <1>0, <1>1, <1>2, <1>3, HoldersAfterRelease
<1>5. pin_count[h] = Cardinality(Holders(h)) /\ pin_count[h] > 0
  BY <1>4 DEF StructureInv, PinsCountHolders
<1>6. /\ is_dirty' = IF DirtyArgument(t) THEN is_dirty \cup {h} ELSE is_dirty
      /\ pin_count' = [pin_count EXCEPT ![h] = @ - 1]
      /\ replacer' = IF pin_count[h] = 1 THEN ClockUnpin(replacer, h) ELSE replacer
  BY <1>0, <1>2, <1>5 DEF UnpinPage
<1>7. UNCHANGED <<page_table, free_list, page_id, data, stored, extent, allocated, open, flush, dropping>>
  BY DEF UnpinPage, disk
<1>8. /\ replacer' \in ReplacerState
      /\ replacer'.evictable = IF pin_count[h] = 1 THEN replacer.evictable \cup {h} ELSE replacer.evictable
  BY <1>0, <1>6, ClockUnpinEffect DEF TypeOK
<1>9. TypeOK'
  <2>1. is_dirty' \subseteq Frames /\ pin_count' \in [Frames -> Nat]
    BY <1>0, <1>4, <1>5, <1>6 DEF TypeOK
  <2> QED BY <1>0, <1>3, <1>7, <1>8, <2>1 DEF TypeOK, Holds
<1>10. PageTableMatchesFrames' /\ FramesAccountedFor' /\ ResidentIsAllocated' /\ FlushWithinPool'
  BY <1>7 DEF StructureInv, PageTableMatchesFrames, FramesAccountedFor, ResidentIsAllocated, FlushWithinPool
<1>11. PinsCountHolders'
  <2>1. \A g \in Frames : pin_count'[g] = Cardinality(Holders(g)')
    BY <1>0, <1>4, <1>5, <1>6 DEF StructureInv, PinsCountHolders, TypeOK
  <2>2. replacer.evictable \subseteq Frames
    BY <1>0, ReplacerFields DEF TypeOK
  <2>3. page_id[h] # INVALID_PAGE_ID
    BY <1>2, PoolAssumption
  <2>4. \A g \in replacer.evictable : page_id'[g] # INVALID_PAGE_ID /\ Holders(g)' = {}
    BY <1>4, <1>7, <2>2 DEF StructureInv, PinsCountHolders
  <2>5. pin_count[h] = 1 => page_id'[h] # INVALID_PAGE_ID /\ Holders(h)' = {}
    BY <1>4, <1>5, <1>7, <2>3
  <2>6. \A g \in replacer'.evictable : page_id'[g] # INVALID_PAGE_ID /\ Holders(g)' = {}
    BY <1>8, <2>4, <2>5
  <2> QED BY <2>1, <2>6 DEF PinsCountHolders
<1>12. HeldPageStays'
  BY <1>0, <1>3, <1>7 DEF StructureInv, HeldPageStays, Holding, Holds, TypeOK
<1> QED BY <1>9, <1>10, <1>11, <1>12 DEF StructureInv

\* The flushes move nothing but dirty bits and bytes of the file.
LEMMA FlushingStructure ==
  ASSUME StructureInv, Flushing
  PROVE  StructureInv'
<1>0. TypeOK
  BY DEF StructureInv
<1>1. /\ UNCHANGED <<page_table, free_list, page_id, pin_count, replacer, data,
                      extent, allocated, pc, page, frame>>
  BY DEF Flushing, FlushAllPages, FlushClear, DeleteFile, FlushFilePages, FlushPage, FlushSkip,
         FlushWrite, FlushWriteFails, pool, disk, thread
<1>2. /\ is_dirty' \subseteq is_dirty
      /\ open' \subseteq open
      /\ dropping' \in Files \cup {NoFile}
      /\ stored' \in [PageIds -> Contents]
  <2>1. CASE \E p \in PageIds : FlushWrite(p)
    <3>1. PICK p \in PageIds : FlushWrite(p)
      BY <2>1
    <3>2. page_table[p] \in Frames
      BY <1>0, <3>1 DEF FlushWrite, TypeOK
    <3> QED BY <1>0, <3>1, <3>2 DEF FlushWrite, TypeOK, pool
  <2>2. CASE FlushClear \/ DeleteFile \/ FlushAllPages
    BY <2>2, <1>0 DEF FlushClear, DeleteFile, FlushAllPages, TypeOK, pool, disk
  <2>3. CASE \/ \E file \in Files : FlushFilePages(file)
             \/ \E p \in PageIds : FlushPage(p) \/ FlushSkip(p) \/ FlushWriteFails(p)
    BY <2>3, <1>0 DEF FlushFilePages, FlushPage, FlushSkip, FlushWriteFails, TypeOK, pool, disk
  <2> QED BY <2>1, <2>2, <2>3 DEF Flushing
<1> DEFINE FlushType(x) == x \in [kind : {"page", "all", "drop"}, todo : SUBSET PageIds,
                                  copied : PageIds \cup {INVALID_PAGE_ID}]
<1>3. FlushType(flush') /\ FlushWithinPool'
  <2>0. FlushType(flush) /\ flush.todo \subseteq PageIds /\ page_table' = page_table
    BY <1>0, <1>1 DEF TypeOK
  <2>1. CASE \/ FlushAllPages
             \/ \E file \in Files : FlushFilePages(file)
             \/ \E p \in PageIds : FlushPage(p)
    <3>1. PICK k \in {"page", "all", "drop"}, S \in SUBSET PageIds :
            flush' = [kind |-> k, todo |-> InPool(S), copied |-> INVALID_PAGE_ID]
      <4>1. CASE FlushAllPages
        BY <4>1 DEF FlushAllPages
      <4>2. ASSUME NEW file \in Files, FlushFilePages(file)
            PROVE  \E k \in {"page", "all", "drop"}, S \in SUBSET PageIds :
                     flush' = [kind |-> k, todo |-> InPool(S), copied |-> INVALID_PAGE_ID]
        BY <4>2 DEF FlushFilePages
      <4>3. ASSUME NEW p \in PageIds, FlushPage(p)
            PROVE  \E k \in {"page", "all", "drop"}, S \in SUBSET PageIds :
                     flush' = [kind |-> k, todo |-> InPool(S), copied |-> INVALID_PAGE_ID]
        BY <4>3 DEF FlushPage
      <4> QED BY <2>1, <4>1, <4>2, <4>3
    <3>2. InPool(S) \in SUBSET PageIds /\ \A p \in InPool(S) : page_table[p] # INVALID_FRAME_ID
      BY DEF InPool
    <3> QED BY <2>0, <3>1, <3>2 DEF FlushWithinPool
  <2>2. CASE DeleteFile
    BY <2>0, <2>2 DEF DeleteFile, StructureInv, FlushWithinPool
  <2>3. CASE FlushClear
    <3>1. flush' = [flush EXCEPT !.todo = @ \ {flush.copied}, !.copied = INVALID_PAGE_ID]
      BY <2>3 DEF FlushClear
    <3>2. flush.todo \ {flush.copied} \in SUBSET PageIds
      BY <2>0
    <3>3. FlushType(flush') /\ flush'.todo = flush.todo \ {flush.copied} /\ flush'.copied = INVALID_PAGE_ID
      BY <2>0, <3>1, <3>2
    <3> QED BY <2>0, <3>3 DEF StructureInv, FlushWithinPool
  <2>4. ASSUME NEW p \in PageIds, FlushSkip(p) \/ FlushWrite(p) \/ FlushWriteFails(p)
        PROVE  FlushType(flush') /\ FlushWithinPool'
    <3>1. /\ p \in flush.todo /\ flush.copied = INVALID_PAGE_ID
          /\ \/ \E T \in SUBSET flush.todo : flush' = [flush EXCEPT !.todo = T]
             \/ flush' = [flush EXCEPT !.copied = p]
      BY <2>4 DEF FlushSkip, FlushWrite, FlushWriteFails
    <3>2. CASE \E T \in SUBSET flush.todo : flush' = [flush EXCEPT !.todo = T]
      <4>1. PICK T \in SUBSET flush.todo : flush' = [flush EXCEPT !.todo = T]
        BY <3>2
      <4>2. T \in SUBSET PageIds
        BY <2>0
      <4>3. FlushType(flush') /\ flush'.todo = T /\ flush'.copied = INVALID_PAGE_ID
        BY <2>0, <3>1, <4>1, <4>2
      <4> QED BY <2>0, <4>3 DEF StructureInv, FlushWithinPool
    <3>3. CASE flush' = [flush EXCEPT !.copied = p]
      <4>1. FlushType(flush') /\ flush'.todo = flush.todo /\ flush'.copied = p
        BY <2>0, <3>3
      <4> QED BY <2>0, <3>1, <4>1 DEF StructureInv, FlushWithinPool
    <3> QED BY <3>1, <3>2, <3>3
  <2> HIDE DEF FlushType
  <2>5. CASE \E p \in PageIds : FlushSkip(p) \/ FlushWrite(p) \/ FlushWriteFails(p)
    BY <2>4, <2>5
  <2> QED BY <2>1, <2>2, <2>3, <2>5 DEF Flushing
<1>4. TypeOK'
  BY <1>0, <1>1, <1>2, <1>3 DEF TypeOK
<1> QED BY <1>1, <1>3, <1>4, StructureFrame

-----------------------------------------------------------------------------
(* The structure holds in every reachable state.                           *)

\* A new pool: every frame is on the free list.
LEMMA InitStructure == Init => StructureInv
<1> SUFFICES ASSUME Init PROVE StructureInv
  OBVIOUS
<1> USE NumFramesAssumption, PoolAssumption
<1>1. 0 \in Frames /\ INVALID_FRAME_ID \notin Frames
  BY DEF Frames, INVALID_FRAME_ID
<1>2. free_list \in Seq(Frames) /\ Len(free_list) = NumFrames
      /\ \A i \in 1 .. NumFrames : free_list[i] = i - 1
  <2>1. \A i \in 1 .. NumFrames : i - 1 \in Frames
    BY DEF Frames
  <2> QED BY <2>1 DEF Init
<1>3. TypeOK
  BY <1>1, <1>2 DEF Init, TypeOK, ClockEmpty, ReplacerState, Contents
<1>4. PageTableMatchesFrames /\ ResidentIsAllocated /\ FlushWithinPool /\ HeldPageStays
  BY DEF Init, PageTableMatchesFrames, ResidentIsAllocated, FlushWithinPool, HeldPageStays, Holding
<1>5. FramesAccountedFor
  <2>1. \A f \in Frames : f + 1 \in 1 .. NumFrames /\ free_list[f + 1] = f
    BY <1>2 DEF Frames
  <2>2. \A f \in Frames : page_id[f] = INVALID_PAGE_ID
    BY DEF Init
  <2>3. \A i, j \in 1 .. Len(free_list) : free_list[i] = free_list[j] => i = j
    BY <1>2
  <2>4. \A f \in Frames : \E i \in 1 .. Len(free_list) : free_list[i] = f
    BY <1>2, <2>1
  <2> QED BY <2>2, <2>3, <2>4 DEF FramesAccountedFor
<1>6. PinsCountHolders
  <2>1. \A f \in Frames : Holders(f) = {}
    BY DEF Init, Holders, Holding
  <2> QED BY <2>1, FS_EmptySet DEF Init, PinsCountHolders, ClockEmpty
<1> QED BY <1>3, <1>4, <1>5, <1>6 DEF StructureInv

\* Every step of every thread, flush and drop keeps the structure.
LEMMA NextStructure == StructureInv /\ [Next]_vars => StructureInv'
<1> SUFFICES ASSUME StructureInv, [Next]_vars PROVE StructureInv'
  OBVIOUS
<1>1. ASSUME NEW t \in Threads, NEW p \in PageIds,
             FetchHit(t, p) \/ FetchMiss(t, p) \/ FetchReadFails(t, p) \/ FetchNoFrame(t, p)
      PROVE  StructureInv'
  BY <1>1, FetchHitStructure, FetchMissStructure, FetchReadFailsStructure, FetchNoFrameStructure
<1>2. ASSUME NEW t \in Threads, NEW file \in Files, NewPage(t, file) \/ NewPageNoFrame(t, file)
      PROVE  StructureInv'
  BY <1>2, NewPageStructure, NewPageNoFrameStructure
<1>3. ASSUME NEW t \in Threads,
             \/ RLatch(t) \/ WLatch(t) \/ Unlatch(t)
             \/ \E v \in Data : Modify(t, v)
      PROVE  StructureInv'
  BY <1>3, ThreadStructure
<1>4. ASSUME NEW t \in Threads, UnpinPage(t)
      PROVE  StructureInv'
  BY <1>4, UnpinPageStructure
<1>5. ASSUME NEW p \in PageIds, DeletePage(p)
      PROVE  StructureInv'
  BY <1>5, DeletePageStructure
<1>6. CASE Flushing
  BY <1>6, FlushingStructure
<1>7. CASE UNCHANGED vars
  <2>1. UNCHANGED <<page_table, free_list, page_id, pin_count, is_dirty, data, replacer, stored,
                    extent, allocated, open, flush, dropping, pc, page, frame>>
    BY <1>7 DEF vars, pool, disk, thread
  <2>2. TypeOK' /\ FlushWithinPool'
    BY <2>1 DEF StructureInv, TypeOK, FlushWithinPool
  <2> QED BY <2>1, <2>2, StructureFrame
<1> QED BY <1>1, <1>2, <1>3, <1>4, <1>5, <1>6, <1>7 DEF Next, ThreadStep

\* The structure of the pool survives every operation and every failure of the
\* disk, for any number of frames, pages, files and threads.
THEOREM StructureHolds == Spec => []StructureInv
<1>1. Init => StructureInv
  BY InitStructure
<1>2. StructureInv /\ [Next]_vars => StructureInv'
  BY NextStructure
<1> QED BY <1>1, <1>2, PTL DEF Spec

\* Every variable keeps its type; in particular no index leaves its array.
THEOREM TypeCorrect == Spec => []TypeOK
<1>1. StructureInv => TypeOK
  BY DEF StructureInv
<1> QED BY <1>1, StructureHolds, PTL

\* BufferPoolManager's page_table_ and pages_ never disagree.
THEOREM PageTableCorrect == Spec => []PageTableMatchesFrames
<1>1. StructureInv => PageTableMatchesFrames
  BY DEF StructureInv
<1> QED BY <1>1, StructureHolds, PTL

\* No frame of pages_ is lost or freed twice by FetchPage, NewPage, EvictPage or
\* DeletePage, whichever disk call fails.
THEOREM NoFrameLost == Spec => []FramesAccountedFor
<1>1. StructureInv => FramesAccountedFor
  BY DEF StructureInv
<1> QED BY <1>1, StructureHolds, PTL

\* pin_count_ is exactly the number of threads at work on the frame, and Victim
\* is never offered one of their frames.
THEOREM PinsCorrect == Spec => []PinsCountHolders
<1>1. StructureInv => PinsCountHolders
  BY DEF StructureInv
<1> QED BY <1>1, StructureHolds, PTL

\* A Page* stays valid from FetchPage or NewPage to UnpinPage.
THEOREM HeldPagesCorrect == Spec => []HeldPageStays
<1>1. StructureInv => HeldPageStays
  BY DEF StructureInv
<1> QED BY <1>1, StructureHolds, PTL

-----------------------------------------------------------------------------
(* The buffer pool loses no write: it implements PageStore.  Two things    *)
(* the code does not guarantee are assumed: that pages are released with   *)
(* UnpinPage(page_id, true) after a write rather than by WritePageGuard,   *)
(* and that WritePage does not fail under FlushAllPages.                   *)

\* What the callers and the disk must grant.
Reliable == GuardThreads = {} /\ "flushall" \notin Faults

BothInv == StructureInv /\ ContentInv

\* Whether page p exists for the layers above.
Live(p) == p \in allocated /\ GetFileId(p) \in open

-----------------------------------------------------------------------------
(* Reading Content.                                                        *)

\* The content of one page.
LEMMA ContentOf ==
  ASSUME NEW p \in PageIds
  PROVE  Content[p] = IF ~Live(p) THEN Gone
                      ELSE IF page_table[p] # INVALID_FRAME_ID THEN data[page_table[p]]
                      ELSE stored[p]
BY DEF Content, Live

\* The content of one page after a step.
LEMMA ContentOfPrimed ==
  ASSUME NEW p \in PageIds
  PROVE  Content'[p] = IF ~Live(p)' THEN Gone
                       ELSE IF page_table'[p] # INVALID_FRAME_ID THEN data'[page_table'[p]]
                       ELSE stored'[p]
BY DEF Content, Live, Gone

\* Contents that agree on every page are equal.
LEMMA ContentEqual ==
  ASSUME \A p \in PageIds : Content'[p] = Content[p]
  PROVE  Content' = Content
<1>1. Content = [p \in PageIds |-> Content[p]] /\ Content' = [p \in PageIds |-> Content'[p]]
  BY DEF Content
<1> QED BY <1>1

\* With the mutex free no flush has a page in its hands.
LEMMA NothingCopied ==
  ASSUME StructureInv, MutexFree, UNCHANGED flush
  PROVE  CopiedOrOwed'
BY DEF StructureInv, FlushWithinPool, MutexFree, CopiedOrOwed

\* What GetFreeFrame wrote back.
LEMMA StoredAfterEffect ==
  ASSUME StructureInv, NEW f \in Frames, GetFreeFrame(f)
  PROVE  \A q \in PageIds :
           StoredAfter(f)[q] = IF page_table[q] = f /\ f \in is_dirty THEN data[f] ELSE stored[q]
<1>0. TypeOK /\ INVALID_FRAME_ID \notin Frames /\ INVALID_PAGE_ID \notin PageIds
  BY InvalidFrame, PoolAssumption DEF StructureInv
<1>1. CASE free_list # <<>>
  <2>1. f = Head(free_list)
    BY <1>1 DEF GetFreeFrame
  <2>2. page_id[f] = INVALID_PAGE_ID
    BY <1>1, <2>1, TailOfFreeList
  <2>3. \A q \in PageIds : page_table[q] # f
    BY <1>0, <2>2 DEF StructureInv, PageTableMatchesFrames
  <2> QED BY <1>1, <2>3 DEF StoredAfter
<1>2. CASE free_list = <<>>
  <2>1. VictimFound(replacer) /\ f = VictimFrame(replacer)
    BY <1>2 DEF GetFreeFrame
  <2>2. f \in replacer.evictable
    BY <2>1, <1>0, VictimIsEvictable DEF TypeOK
  <2>3. page_id[f] # INVALID_PAGE_ID
    BY <2>2 DEF StructureInv, PinsCountHolders
  <2>4. \A q \in PageIds : page_table[q] = f <=> q = page_id[f]
    BY <2>3, <1>0 DEF StructureInv, PageTableMatchesFrames, TypeOK
  <2> QED BY <1>0, <1>2, <2>4 DEF StoredAfter, TypeOK
<1> QED BY <1>1, <1>2

\* An evicted page is in the file as it was in memory.
LEMMA EvictedIsStored ==
  ASSUME BothInv, NEW f \in Frames, GetFreeFrame(f), NEW q \in PageIds, page_table[q] = f, Live(q)
  PROVE  StoredAfter(f)[q] = data[f]
<1>1. Holders(f) = {}
  BY FreeFrameEffect DEF BothInv
<1>2. ~Owed(f)
  BY <1>1 DEF Owed
<1>3. f \notin is_dirty => data[f] = stored[q]
  BY <1>2, InvalidFrame DEF BothInv, ContentInv, CleanOrOwed, Live
<1> QED BY <1>3, StoredAfterEffect DEF BothInv

-----------------------------------------------------------------------------
(* The invariants page by page.                                            *)

\* A thread has changed page p and has yet to say so to UnpinPage.
Owing(p) == \E t \in Threads : pc[t] \in {"fresh", "modified"} /\ page[t] = p

CleanAt(p) ==
  Live(p) /\ page_table[p] # INVALID_FRAME_ID /\ page_table[p] \notin is_dirty
    => data[page_table[p]] = stored[p] \/ Owing(p)

CopiedAt(p) ==
  flush.copied = p /\ GetFileId(p) \in open
    => data[page_table[p]] = stored[p] \/ Owing(p)

\* The holders of a frame are the threads that asked for its page.
LEMMA OwedIsOwing ==
  ASSUME StructureInv
  PROVE  \A p \in PageIds : page_table[p] # INVALID_FRAME_ID =>
           (Owed(page_table[p]) <=> Owing(p))
<1> SUFFICES ASSUME NEW p \in PageIds, page_table[p] # INVALID_FRAME_ID
             PROVE  Owed(page_table[p]) <=> Owing(p)
  OBVIOUS
<1>1. page_id[page_table[p]] = p
  BY DEF StructureInv, PageTableMatchesFrames
<1>2. \A t \in Threads : Holding(t) => (frame[t] = page_table[p] <=> page[t] = p)
  BY <1>1, HeldFrame
<1>3. \A t \in Threads : pc[t] \in {"fresh", "modified"} => Holding(t)
  BY DEF Holding
<1> QED BY <1>2, <1>3 DEF Owed, Owing, Holders

\* ContentInv in this form.
LEMMA PageByPage ==
  ASSUME StructureInv
  PROVE  /\ CleanOrOwed <=> \A p \in PageIds : CleanAt(p)
         /\ CopiedOrOwed <=> \A p \in PageIds : CopiedAt(p)
         /\ LiveHasContent <=> \A p \in PageIds : Live(p) => Content[p] \in Data
<1>1. allocated \subseteq PageIds /\ flush.copied \in PageIds \cup {INVALID_PAGE_ID}
  BY DEF StructureInv, TypeOK
<1>2. flush.copied # INVALID_PAGE_ID => page_table[flush.copied] # INVALID_FRAME_ID
  BY DEF StructureInv, FlushWithinPool
<1>3. CleanOrOwed <=> \A p \in PageIds : CleanAt(p)
  BY <1>1, OwedIsOwing DEF CleanOrOwed, CleanAt, Live
<1>4. CopiedOrOwed <=> \A p \in PageIds : CopiedAt(p)
  BY <1>1, <1>2, OwedIsOwing, PoolAssumption DEF CopiedOrOwed, CopiedAt
<1>5. LiveHasContent <=> \A p \in PageIds : Live(p) => Content[p] \in Data
  BY <1>1 DEF LiveHasContent, Live
<1> QED BY <1>3, <1>4, <1>5

\* The same after a step.
LEMMA PageByPagePrimed ==
  ASSUME StructureInv'
  PROVE  /\ CleanOrOwed' <=> \A p \in PageIds : CleanAt(p)'
         /\ CopiedOrOwed' <=> \A p \in PageIds : CopiedAt(p)'
         /\ LiveHasContent' <=> \A p \in PageIds : Live(p)' => Content'[p] \in Data
<1>1. (/\ CleanOrOwed <=> \A p \in PageIds : CleanAt(p)
       /\ CopiedOrOwed <=> \A p \in PageIds : CopiedAt(p)
       /\ LiveHasContent <=> \A p \in PageIds : Live(p) => Content[p] \in Data)'
  BY PageByPage, PTL
<1> QED BY <1>1

\* The two invariants before a step, in the form the proofs below use.
LEMMA Before ==
  ASSUME BothInv
  PROVE  /\ TypeOK /\ StructureInv
         /\ INVALID_FRAME_ID \notin Frames /\ INVALID_PAGE_ID \notin PageIds
         /\ \A p \in PageIds : CleanAt(p) /\ CopiedAt(p)
         /\ \A p \in PageIds : Live(p) => Content[p] \in Data
         /\ \A p \in PageIds : page_table[p] \in Frames \cup {INVALID_FRAME_ID}
         /\ \A p, q \in PageIds :
              page_table[p] = page_table[q] /\ page_table[p] # INVALID_FRAME_ID => p = q
<1>1. TypeOK /\ StructureInv /\ CleanOrOwed /\ CopiedOrOwed /\ LiveHasContent
  BY DEF BothInv, StructureInv, ContentInv
<1>2. \A p \in PageIds : page_table[p] \in Frames \cup {INVALID_FRAME_ID}
  BY <1>1 DEF TypeOK
<1>3. \A p, q \in PageIds :
        page_table[p] = page_table[q] /\ page_table[p] # INVALID_FRAME_ID => p = q
  BY <1>1 DEF StructureInv, PageTableMatchesFrames
<1> QED BY <1>1, <1>2, <1>3, PageByPage, InvalidFrame, PoolAssumption

\* The two invariants after a step.
LEMMA After ==
  ASSUME StructureInv', CopiedOrOwed',
         \A p \in PageIds : CleanAt(p)',
         \A p \in PageIds : Live(p)' => Content'[p] \in Data
  PROVE  ContentInv'
BY PageByPagePrimed DEF ContentInv

\* A step of t that writes nothing cancels nobody's debt.
LEMMA OwingStays ==
  ASSUME NEW t \in Threads, pc[t] \notin {"fresh", "modified"},
         \A u \in Threads : u # t => pc'[u] = pc[u] /\ page'[u] = page[u]
  PROVE  \A q \in PageIds : Owing(q) => Owing(q)'
BY DEF Owing

-----------------------------------------------------------------------------
(* Steps that change no page.                                              *)

\* Memory and file stay as they are, and a page whose writer leaves is dirty.
LEMMA QuietStep ==
  ASSUME BothInv, StructureInv', CopiedOrOwed',
         UNCHANGED <<page_table, data, stored, allocated, open>>,
         is_dirty \subseteq is_dirty',
         \A q \in PageIds : Owing(q) => Owing(q)' \/ page_table[q] \in is_dirty'
  PROVE  ContentInv' /\ Content' = Content
<1>1. Content' = Content
  BY DEF Content
<1>2. \A q \in PageIds : Live(q)' <=> Live(q)
  BY DEF Live
<1>3. \A q \in PageIds : CleanAt(q)'
  BY <1>2, Before DEF CleanAt
<1> QED BY <1>1, <1>2, <1>3, Before, After

\* FetchPage of a page in the pool.
LEMMA FetchHitContent ==
  ASSUME BothInv, StructureInv', NEW t \in Threads, NEW p \in PageIds, FetchHit(t, p)
  PROVE  ContentInv' /\ Content' = Content
<1>1. CopiedOrOwed'
  BY NothingCopied DEF BothInv, FetchHit
<1>2. TypeOK /\ pc[t] = "idle" /\ Holds(t, p, page_table[p], "pinned")
  BY Before DEF FetchHit
<1>3. \A q \in PageIds : Owing(q) => Owing(q)'
  BY <1>2, OwingStays DEF Holds, TypeOK
<1> QED BY <1>1, <1>3, QuietStep DEF FetchHit, disk

\* FetchPage when no frame can be had.
LEMMA FetchNoFrameContent ==
  ASSUME BothInv, StructureInv', NEW t \in Threads, NEW p \in PageIds, FetchNoFrame(t, p)
  PROVE  ContentInv' /\ Content' = Content
<1>1. CopiedOrOwed'
  BY NothingCopied DEF BothInv, FetchNoFrame
<1>2. \A q \in PageIds : Owing(q) => Owing(q)'
  BY DEF Owing, FetchNoFrame, thread
<1> QED BY <1>1, <1>2, QuietStep DEF FetchNoFrame, NoFrameAvailable, disk

\* RLatch, WLatch and Unlatch, also while a flush is under way.
LEMMA LatchContent ==
  ASSUME BothInv, StructureInv', NEW t \in Threads, RLatch(t) \/ WLatch(t) \/ Unlatch(t)
  PROVE  ContentInv' /\ Content' = Content
<1>1. /\ pc[t] \in {"pinned", "reading", "writing"}
      /\ UNCHANGED <<pool, disk, flush, page>>
      /\ \A u \in Threads : u # t => pc'[u] = pc[u] /\ page'[u] = page[u]
  BY Before DEF RLatch, WLatch, Unlatch, TypeOK
<1>2. \A q \in PageIds : Owing(q) => Owing(q)'
  BY <1>1, OwingStays
<1>3. \A q \in PageIds : CopiedAt(q)'
  BY <1>1, <1>2, Before DEF CopiedAt, pool, disk
<1> QED BY <1>1, <1>2, <1>3, QuietStep, PageByPagePrimed DEF pool, disk

\* UnpinPage: the writer leaves and the page is dirty.
LEMMA UnpinPageContent ==
  ASSUME BothInv, StructureInv', Reliable, NEW t \in Threads, UnpinPage(t)
  PROVE  ContentInv' /\ Content' = Content
<1>1. CopiedOrOwed'
  BY NothingCopied DEF BothInv, UnpinPage
<1>2. /\ TypeOK /\ StructureInv /\ Holding(t)
      /\ page[t] \in PageIds /\ frame[t] \in Frames /\ page_table[page[t]] = frame[t]
  BY Before, HeldFrame DEF UnpinPage, Holding
<1>3. pin_count[frame[t]] > 0
  <2>1. t \in Holders(frame[t])
    BY <1>2 DEF Holders
  <2>2. pin_count[frame[t]] = Cardinality(Holders(frame[t])) /\ IsFiniteSet(Holders(frame[t]))
    BY <1>2, HoldersFinite DEF StructureInv, PinsCountHolders
  <2>3. Cardinality(Holders(frame[t])) # 0 /\ Cardinality(Holders(frame[t])) \in Nat
    BY <2>1, <2>2, FS_EmptySet, FS_CardinalityType
  <2> QED BY <2>2, <2>3
<1>4. is_dirty' = IF DirtyArgument(t) THEN is_dirty \cup {frame[t]} ELSE is_dirty
  BY <1>2, <1>3, InvalidFrame DEF UnpinPage
<1>5. pc[t] = "modified" => frame[t] \in is_dirty'
  BY <1>4 DEF DirtyArgument, Reliable
<1>6. pc[t] \in {"clean", "modified"} /\ \A u \in Threads : u # t => pc'[u] = pc[u] /\ page'[u] = page[u]
  BY <1>2 DEF UnpinPage, Holds, TypeOK
<1>7. ASSUME NEW q \in PageIds, Owing(q)
      PROVE  Owing(q)' \/ page_table[q] \in is_dirty'
  <2>1. PICK u \in Threads : pc[u] \in {"fresh", "modified"} /\ page[u] = q
    BY <1>7 DEF Owing
  <2>2. CASE u = t
    BY <1>2, <1>5, <1>6, <2>1, <2>2
  <2>3. CASE u # t
    BY <1>6, <2>1, <2>3 DEF Owing
  <2> QED BY <2>2, <2>3
<1> QED BY <1>1, <1>4, <1>7, QuietStep DEF UnpinPage, disk

\* The steps of the flushes other than ClearDirty.
LEMMA FlushContent ==
  ASSUME BothInv, StructureInv', Reliable,
         \/ FlushAllPages
         \/ \E file \in Files : FlushFilePages(file)
         \/ \E p \in PageIds : FlushPage(p) \/ FlushSkip(p) \/ FlushWriteFails(p)
  PROVE  ContentInv' /\ Content' = Content
<1>1. UNCHANGED <<pool, disk, thread>>
  BY DEF FlushAllPages, FlushFilePages, FlushPage, FlushSkip, FlushWriteFails
<1>2. flush'.copied = flush.copied \/ flush'.copied = INVALID_PAGE_ID
      \/ GetFileId(flush'.copied) \notin open
  <2>0. flush \in [kind : {"page", "all", "drop"}, todo : SUBSET PageIds,
                   copied : PageIds \cup {INVALID_PAGE_ID}]
    BY Before DEF TypeOK
  <2>1. CASE FlushAllPages
    BY <2>1 DEF FlushAllPages
  <2>2. CASE \E file \in Files : FlushFilePages(file)
    BY <2>2 DEF FlushFilePages
  <2>3. ASSUME NEW p \in PageIds, FlushPage(p)
        PROVE  flush'.copied = INVALID_PAGE_ID
    BY <2>3 DEF FlushPage
  <2>4. ASSUME NEW p \in PageIds, FlushSkip(p)
        PROVE  flush'.copied = flush.copied
    BY <2>0, <2>4 DEF FlushSkip
  <2>5. ASSUME NEW p \in PageIds, FlushWriteFails(p)
        PROVE  flush'.copied = flush.copied \/ GetFileId(flush'.copied) \notin open
    BY <2>0, <2>5 DEF FlushWriteFails, IOFails, Reliable
  <2> QED BY <2>1, <2>2, <2>3, <2>4, <2>5
<1>3. \A q \in PageIds : Owing(q) => Owing(q)'
  BY <1>1 DEF Owing, thread
<1>4. \A q \in PageIds : CopiedAt(q)'
  BY <1>1, <1>2, <1>3, Before DEF CopiedAt, pool, disk
<1> QED BY <1>1, <1>3, <1>4, QuietStep, PageByPagePrimed DEF pool, disk

\* WritePage of a flush: the file catches up with the frame.
LEMMA FlushWriteContent ==
  ASSUME BothInv, StructureInv', NEW p \in PageIds, FlushWrite(p)
  PROVE  ContentInv' /\ Content' = Content
<1>0. /\ p \in flush.todo /\ page_table[p] # INVALID_FRAME_ID
      /\ UNCHANGED <<page_table, data, is_dirty, allocated, open, pc, page>>
      /\ flush'.copied = p
      /\ stored' = [stored EXCEPT ![p] = data[page_table[p]]]
      /\ stored \in [PageIds -> Contents]
  BY Before DEF FlushWrite, StructureInv, FlushWithinPool, TypeOK, pool, thread
<1>1. \A q \in PageIds : (Owing(q)' <=> Owing(q)) /\ (Live(q)' <=> Live(q))
  BY <1>0 DEF Owing, Live
<1>2. \A q \in PageIds : CleanAt(q)' /\ CopiedAt(q)'
  BY <1>0, <1>1, Before DEF CleanAt, CopiedAt
<1>3. \A q \in PageIds : Content'[q] = Content[q]
  BY <1>0, <1>1, ContentOf, ContentOfPrimed
<1> QED BY <1>1, <1>2, <1>3, ContentEqual, Before, After, PageByPagePrimed

\* ClearDirty of a flush: what was copied is still there, or its writer will
\* make it dirty again.
LEMMA FlushClearContent ==
  ASSUME BothInv, StructureInv', FlushClear
  PROVE  ContentInv' /\ Content' = Content
<1> DEFINE c == flush.copied
<1>0. /\ UNCHANGED <<page_table, data, stored, allocated, open, pc, page>>
      /\ flush'.copied = INVALID_PAGE_ID
      /\ c \in PageIds /\ page_table[c] # INVALID_FRAME_ID
      /\ is_dirty' = is_dirty \ {page_table[c]}
  BY Before DEF FlushClear, StructureInv, FlushWithinPool, TypeOK, disk, thread
<1>1. \A q \in PageIds : (Owing(q)' <=> Owing(q)) /\ (Live(q)' <=> Live(q))
  BY <1>0 DEF Owing, Live
<1>2. CopiedOrOwed'
  BY <1>0 DEF CopiedOrOwed
<1>3. \A q \in PageIds : CleanAt(q)'
  <2> SUFFICES ASSUME NEW q \in PageIds PROVE CleanAt(q)'
    OBVIOUS
  <2>1. CASE q = c
    BY <1>0, <1>1, <2>1, Before DEF CleanAt, CopiedAt, Live
  <2>2. CASE q # c
    BY <1>0, <1>1, <2>2, Before DEF CleanAt
  <2> QED BY <2>1, <2>2
<1>4. Content' = Content
  BY <1>0 DEF Content
<1> QED BY <1>1, <1>2, <1>3, <1>4, Before, After

-----------------------------------------------------------------------------
(* Writing a page, and dropping a file.                                    *)

\* MarkDirty after a write, also between the two halves of a flush.
LEMMA ModifyContent ==
  ASSUME BothInv, StructureInv', NEW t \in Threads, NEW v \in Data, Modify(t, v)
  PROVE  /\ ContentInv'
         /\ \A q \in PageIds :
              Content'[q] = IF q = page[t] /\ Content[q] # Gone THEN v ELSE Content[q]
<1> DEFINE p == page[t]
           f == frame[t]
<1>0. /\ TypeOK /\ StructureInv /\ Holding(t)
      /\ p \in PageIds /\ f \in Frames /\ page_table[p] = f
  BY Before, HeldFrame DEF Modify, Holding
<1>1. /\ UNCHANGED <<page_table, stored, allocated, open, flush, page>>
      /\ data' = [data EXCEPT ![f] = v] /\ data \in [Frames -> Contents]
      /\ is_dirty' = is_dirty \cup {f}
      /\ pc' = [pc EXCEPT ![t] = "modified"]
  BY <1>0 DEF Modify, disk, TypeOK
<1>2. pc'[t] = "modified" /\ \A u \in Threads : u # t => pc'[u] = pc[u]
  BY <1>0, <1>1 DEF TypeOK
<1>3. \A q \in PageIds : Live(q)' <=> Live(q)
  BY <1>1 DEF Live
<1>4. \A q \in PageIds : Owing(q) => Owing(q)'
  BY <1>1, <1>2 DEF Owing
<1>5. \A q \in PageIds : q = p => Owing(q)'
  BY <1>1, <1>2 DEF Owing
<1>6. \A q \in PageIds : q # p /\ page_table[q] # INVALID_FRAME_ID
                           => page_table[q] # f /\ data'[page_table[q]] = data[page_table[q]]
  BY <1>0, <1>1, Before
<1>7. \A q \in PageIds : CleanAt(q)'
  BY <1>0, <1>1, <1>3, <1>4, <1>6, Before DEF CleanAt
<1>8. \A q \in PageIds : CopiedAt(q)'
  <2> SUFFICES ASSUME NEW q \in PageIds PROVE CopiedAt(q)'
    OBVIOUS
  <2>1. CASE q = p
    BY <1>5, <2>1 DEF CopiedAt
  <2>2. CASE q # p
    <3>1. flush.copied = q => page_table[q] # INVALID_FRAME_ID
      BY <1>0, Before DEF StructureInv, FlushWithinPool
    <3> QED BY <3>1, <1>1, <1>4, <1>6, <2>2, Before DEF CopiedAt
  <2> QED BY <2>1, <2>2
<1>9. \A q \in PageIds : q # p => Content'[q] = Content[q]
  BY <1>1, <1>3, <1>6, ContentOf, ContentOfPrimed
<1>10. Content'[p] = IF Live(p) THEN v ELSE Gone
  BY <1>0, <1>1, <1>3, InvalidFrame, ContentOfPrimed
<1>11. Content[p] \in Data \/ ~Live(p)
  BY <1>0, Before
<1>12. CASE Live(p)
  <2>1. Content[p] # Gone
    BY <1>11, <1>12, PoolAssumption DEF Gone
  <2> QED BY <1>0, <1>3, <1>7, <1>8, <1>9, <1>10, <1>12, <2>1, Before, After, PageByPagePrimed
<1>13. CASE ~Live(p)
  <2>1. Content[p] = Gone
    BY <1>0, <1>13, ContentOf
  <2> QED BY <1>0, <1>3, <1>7, <1>8, <1>9, <1>10, <1>13, <2>1, Before, After, PageByPagePrimed
<1> QED BY <1>12, <1>13

\* The end of delete_table: the pages of the file are gone, no other changes.
LEMMA DeleteFileContent ==
  ASSUME BothInv, StructureInv', DeleteFile
  PROVE  /\ ContentInv'
         /\ Content' = [p \in PageIds |-> IF p[1] = dropping THEN Gone ELSE Content[p]]
<1>0. /\ UNCHANGED <<page_table, data, stored, is_dirty, allocated, flush, pc, page>>
      /\ open' = open \ {dropping}
  BY DEF DeleteFile, pool, thread
<1> DEFINE S == {p \in PageIds : GetFileId(p) = dropping}
<1>1. \A q \in PageIds : (Owing(q)' <=> Owing(q)) /\ (Live(q)' <=> Live(q) /\ q \notin S)
  BY <1>0 DEF Owing, Live
<1>2. \A q \in PageIds : CleanAt(q)'
  BY <1>0, <1>1, Before DEF CleanAt
<1>3. \A q \in PageIds : CopiedAt(q)'
  BY <1>0, <1>1, Before DEF CopiedAt
<1>4. \A q \in PageIds : Content'[q] = IF q \in S THEN Gone ELSE Content[q]
  BY <1>0, <1>1, ContentOf, ContentOfPrimed
<1>5. Content' = [q \in PageIds |-> Content'[q]]
  BY DEF Content
<1>6. Content' = [p \in PageIds |-> IF p[1] = dropping THEN Gone ELSE Content[p]]
  BY <1>4, <1>5 DEF GetFileId
<1> QED BY <1>1, <1>2, <1>3, <1>4, <1>6, Before, After, PageByPagePrimed

-----------------------------------------------------------------------------
(* Pages entering and leaving the pool.                                    *)

\* Frame f is taken from the page it held, if any: no content changes for the
\* pages that are not p.
LEMMA LoadContent ==
  ASSUME BothInv, NEW p \in PageIds, NEW f \in Frames, GetFreeFrame(f), UNCHANGED open,
         \A q \in PageIds : q # p => page_table'[q] = PageTableAfter(f)[q],
         is_dirty' = is_dirty \ {f},
         \A g \in Frames : g # f => data'[g] = data[g],
         \A q \in PageIds : q # p => stored'[q] = StoredAfter(f)[q],
         \A q \in PageIds : q # p => (q \in allocated' <=> q \in allocated),
         \A q \in PageIds : Owing(q) => Owing(q)'
  PROVE  \A q \in PageIds : q # p =>
           Content'[q] = Content[q] /\ CleanAt(q)' /\ (Live(q)' <=> Live(q))
<1>0. /\ TypeOK /\ StructureInv
      /\ INVALID_FRAME_ID \notin Frames
      /\ \A q \in PageIds : CleanAt(q)
      /\ \A q \in PageIds : page_table[q] \in Frames \cup {INVALID_FRAME_ID}
  BY Before
<1> SUFFICES ASSUME NEW q \in PageIds, q # p
             PROVE  Content'[q] = Content[q] /\ CleanAt(q)' /\ (Live(q)' <=> Live(q))
  OBVIOUS
<1>1. page_table'[q] = IF page_table[q] = f THEN INVALID_FRAME_ID ELSE page_table[q]
  BY <1>0, FreeFrameEffect
<1>2. Live(q)' <=> Live(q)
  BY DEF Live
<1>3. CASE page_table[q] = f
  <2>1. page_table'[q] = INVALID_FRAME_ID
    BY <1>1, <1>3
  <2>2. Live(q) => stored'[q] = data[f]
    BY <1>3, EvictedIsStored
  <2>3. CleanAt(q)'
    BY <2>1 DEF CleanAt
  <2>4. Content'[q] = IF ~Live(q) THEN Gone ELSE stored'[q]
    BY <1>2, <2>1, ContentOfPrimed
  <2>5. Content[q] = IF ~Live(q) THEN Gone ELSE data[f]
    BY <1>0, <1>3, ContentOf
  <2> QED BY <1>2, <2>2, <2>3, <2>4, <2>5
<1>4. CASE page_table[q] # f
  <2>1. page_table'[q] = page_table[q] /\ stored'[q] = stored[q]
    BY <1>0, <1>1, <1>4, StoredAfterEffect
  <2>2. page_table[q] # INVALID_FRAME_ID => data'[page_table[q]] = data[page_table[q]]
    BY <1>0, <1>4
  <2>3. Content'[q] = Content[q]
    BY <1>2, <2>1, <2>2, ContentOf, ContentOfPrimed
  <2>4. CleanAt(q)'
    BY <1>0, <1>2, <1>4, <2>1, <2>2 DEF CleanAt
  <2> QED BY <1>2, <2>3, <2>4
<1> QED BY <1>3, <1>4

\* FetchPage of a page that is not in the pool.
LEMMA FetchMissContent ==
  ASSUME BothInv, StructureInv', NEW t \in Threads, NEW p \in PageIds, FetchMiss(t, p)
  PROVE  ContentInv' /\ Content' = Content
<1>1. PICK f \in Frames :
        /\ GetFreeFrame(f)
        /\ page_table' = [PageTableAfter(f) EXCEPT ![p] = f]
        /\ stored' = StoredAfter(f)
        /\ is_dirty' = is_dirty \ {f}
        /\ data' = [data EXCEPT ![f] = stored[p]]
        /\ Holds(t, p, f, "pinned")
  BY DEF FetchMiss
<1>2. /\ TypeOK /\ StructureInv /\ pc[t] = "idle" /\ UNCHANGED <<allocated, open>>
      /\ page_table[p] = INVALID_FRAME_ID
  BY Before DEF FetchMiss
<1>3. CopiedOrOwed'
  BY NothingCopied DEF BothInv, FetchMiss
<1>4. \A q \in PageIds : Owing(q) => Owing(q)'
  BY <1>1, <1>2, OwingStays DEF Holds, TypeOK
<1>5. /\ page_table'[p] = f
      /\ \A q \in PageIds : q # p => page_table'[q] = PageTableAfter(f)[q]
  BY <1>1, <1>2, FreeFrameEffect
<1>6. data'[f] = stored[p] /\ \A g \in Frames : g # f => data'[g] = data[g]
  BY <1>1, <1>2 DEF TypeOK
<1>7. \A q \in PageIds : q # p =>
        Content'[q] = Content[q] /\ CleanAt(q)' /\ (Live(q)' <=> Live(q))
  BY <1>1, <1>2, <1>4, <1>5, <1>6, LoadContent
<1>8. stored'[p] = stored[p]
  BY <1>1, <1>2, StoredAfterEffect, InvalidFrame
<1>9. (Live(p)' <=> Live(p)) /\ Content'[p] = Content[p] /\ CleanAt(p)'
  BY <1>2, <1>5, <1>6, <1>8, InvalidFrame, ContentOf, ContentOfPrimed DEF CleanAt, Live
<1> QED BY <1>3, <1>7, <1>9, ContentEqual, Before, After

\* FetchPage whose ReadPage failed: the page it evicted is in the file.
LEMMA FetchReadFailsContent ==
  ASSUME BothInv, StructureInv', NEW t \in Threads, NEW p \in PageIds, FetchReadFails(t, p)
  PROVE  ContentInv' /\ Content' = Content
<1>1. PICK f \in Frames :
        /\ GetFreeFrame(f)
        /\ page_table' = PageTableAfter(f)
        /\ stored' = StoredAfter(f)
        /\ is_dirty' = is_dirty \ {f}
        /\ data' = [data EXCEPT ![f] = Zero]
  BY DEF FetchReadFails
<1>2. /\ TypeOK /\ StructureInv /\ UNCHANGED <<allocated, open, pc, page>>
      /\ page_table[p] = INVALID_FRAME_ID
  BY Before DEF FetchReadFails, thread
<1>3. CopiedOrOwed'
  BY NothingCopied DEF BothInv, FetchReadFails
<1>4. \A q \in PageIds : Owing(q) => Owing(q)'
  BY <1>2 DEF Owing
<1>5. \A g \in Frames : g # f => data'[g] = data[g]
  BY <1>1, <1>2 DEF TypeOK
<1>6. \A q \in PageIds : q # p =>
        Content'[q] = Content[q] /\ CleanAt(q)' /\ (Live(q)' <=> Live(q))
  BY <1>1, <1>2, <1>4, <1>5, LoadContent
<1>7. page_table'[p] = INVALID_FRAME_ID /\ stored'[p] = stored[p]
  BY <1>1, <1>2, FreeFrameEffect, StoredAfterEffect, InvalidFrame
<1>8. (Live(p)' <=> Live(p)) /\ Content'[p] = Content[p] /\ CleanAt(p)'
  BY <1>2, <1>7, ContentOf, ContentOfPrimed DEF CleanAt, Live
<1> QED BY <1>3, <1>6, <1>8, ContentEqual, Before, After

\* NewPage: one page appears, zeroed, whatever its bytes in the file are.
LEMMA NewPageContent ==
  ASSUME BothInv, StructureInv', NEW t \in Threads, NEW file \in Files, NewPage(t, file)
  PROVE  /\ ContentInv'
         /\ \E p \in PageIds \ allocated, f \in Frames :
              /\ GetFreeFrame(f) /\ Holds(t, p, f, "fresh") /\ data' = [data EXCEPT ![f] = Zero]
              /\ Content[p] = Gone /\ Content' = [Content EXCEPT ![p] = Zero]
<1>1. PICK p \in Allocatable(file), f \in Frames :
        /\ GetFreeFrame(f)
        /\ page_table' = [PageTableAfter(f) EXCEPT ![p] = f]
        /\ stored' = [StoredAfter(f) EXCEPT ![p] = IF p \in extent THEN @ ELSE Zero]
        /\ allocated' = allocated \cup {p}
        /\ is_dirty' = is_dirty \ {f}
        /\ data' = [data EXCEPT ![f] = Zero]
        /\ Holds(t, p, f, "fresh")
  BY DEF NewPage
<1>2. /\ TypeOK /\ StructureInv /\ pc[t] = "idle" /\ UNCHANGED open
  BY Before DEF NewPage
<1>3. p \in PageIds /\ p \notin allocated /\ GetFileId(p) \in open
  BY <1>2 DEF Allocatable, FreePages, TypeOK
<1>4. CopiedOrOwed'
  BY NothingCopied DEF BothInv, NewPage
<1>5. \A q \in PageIds : Owing(q) => Owing(q)'
  BY <1>1, <1>2, OwingStays DEF Holds, TypeOK
<1>6. Owing(p)'
  <2>1. pc'[t] = "fresh" /\ page'[t] = p
    BY <1>1, <1>2 DEF Holds, TypeOK
  <2> QED BY <2>1 DEF Owing
<1>7. /\ page_table'[p] = f
      /\ \A q \in PageIds : q # p => page_table'[q] = PageTableAfter(f)[q]
      /\ \A q \in PageIds : q # p => stored'[q] = StoredAfter(f)[q]
  BY <1>1, <1>2, <1>3, FreeFrameEffect
<1>8. data'[f] = Zero /\ \A g \in Frames : g # f => data'[g] = data[g]
  BY <1>1, <1>2 DEF TypeOK
<1>9. \A q \in PageIds : q # p =>
        Content'[q] = Content[q] /\ CleanAt(q)' /\ (Live(q)' <=> Live(q))
  BY <1>1, <1>2, <1>3, <1>5, <1>7, <1>8, LoadContent
<1>10. Live(p)' /\ CleanAt(p)' /\ ~Live(p)
  BY <1>1, <1>2, <1>3, <1>6 DEF CleanAt, Live
<1>11. Content[p] = Gone /\ Content'[p] = Zero
  BY <1>3, <1>7, <1>8, <1>10, InvalidFrame, ContentOf, ContentOfPrimed
<1>12. Content = [q \in PageIds |-> Content[q]] /\ Content' = [q \in PageIds |-> Content'[q]]
  BY DEF Content
<1>13. Content' = [Content EXCEPT ![p] = Zero]
  BY <1>3, <1>9, <1>11, <1>12
<1>14. \A q \in PageIds : Live(q)' => Content'[q] \in Data
  BY <1>9, <1>11, Before, PoolAssumption
<1> QED BY <1>1, <1>3, <1>4, <1>9, <1>10, <1>11, <1>13, <1>14, After

\* NewPage without a frame: the page goes to the free chain and is nobody's.
LEMMA NewPageNoFrameContent ==
  ASSUME BothInv, StructureInv', NEW t \in Threads, NEW file \in Files, NewPageNoFrame(t, file)
  PROVE  ContentInv' /\ Content' = Content
<1>1. PICK p \in Allocatable(file) : stored' = [stored EXCEPT ![p] = Link]
  BY DEF NewPageNoFrame
<1>2. /\ TypeOK /\ StructureInv
      /\ UNCHANGED <<page_table, is_dirty, data, allocated, open, pc, page>>
  BY Before DEF NewPageNoFrame, NoFrameAvailable, thread
<1>3. p \in PageIds /\ ~Live(p)
  BY <1>2 DEF Allocatable, FreePages, TypeOK, Live
<1>4. CopiedOrOwed'
  BY NothingCopied DEF BothInv, NewPageNoFrame
<1>5. \A q \in PageIds : (Live(q)' <=> Live(q)) /\ (Owing(q) => Owing(q)')
  BY <1>2 DEF Live, Owing
<1>6. \A q \in PageIds : q # p => stored'[q] = stored[q]
  BY <1>1, <1>2 DEF TypeOK
<1>7. \A q \in PageIds : CleanAt(q)'
  BY <1>2, <1>3, <1>5, <1>6, Before DEF CleanAt
<1>8. \A q \in PageIds : Content'[q] = Content[q]
  BY <1>2, <1>3, <1>5, <1>6, ContentOf, ContentOfPrimed
<1> QED BY <1>4, <1>5, <1>7, <1>8, ContentEqual, Before, After

\* DeletePage: the page is gone and no other changes.
LEMMA DeletePageContent ==
  ASSUME BothInv, StructureInv', NEW p \in PageIds, DeletePage(p)
  PROVE  ContentInv' /\ Content' = [Content EXCEPT ![p] = Gone]
<1>0. /\ TypeOK /\ StructureInv /\ allocated' = allocated \ {p}
      /\ UNCHANGED <<open, pc, page>>
      /\ \A q \in PageIds : q # p => stored'[q] = stored[q]
  BY Before DEF DeletePage, thread, TypeOK
<1>1. CopiedOrOwed'
  BY NothingCopied DEF BothInv, DeletePage
<1>2. \A q \in PageIds : (Live(q)' <=> Live(q) /\ q # p) /\ (Owing(q) => Owing(q)')
  BY <1>0 DEF Live, Owing
<1>3. \A q \in PageIds : q # p =>
        /\ page_table'[q] = page_table[q]
        /\ page_table[q] # INVALID_FRAME_ID =>
             /\ data'[page_table[q]] = data[page_table[q]]
             /\ page_table[q] \in is_dirty' <=> page_table[q] \in is_dirty
  <2>1. CASE page_table[p] = INVALID_FRAME_ID
    BY <2>1 DEF DeletePage, pool
  <2>2. CASE page_table[p] # INVALID_FRAME_ID
    <3>1. /\ page_table' = [page_table EXCEPT ![p] = INVALID_FRAME_ID]
          /\ is_dirty' = is_dirty \ {page_table[p]}
          /\ data' = [data EXCEPT ![page_table[p]] = Zero]
      BY <2>2 DEF DeletePage
    <3> QED BY <1>0, <2>2, <3>1, Before DEF TypeOK
  <2> QED BY <2>1, <2>2
<1>4. \A q \in PageIds : CleanAt(q)'
  BY <1>0, <1>2, <1>3, Before DEF CleanAt
<1>5. \A q \in PageIds : Content'[q] = IF q = p THEN Gone ELSE Content[q]
  BY <1>0, <1>2, <1>3, ContentOf, ContentOfPrimed
<1>6. Content = [q \in PageIds |-> Content[q]] /\ Content' = [q \in PageIds |-> Content'[q]]
  BY DEF Content
<1>7. Content' = [Content EXCEPT ![p] = Gone]
  BY <1>5, <1>6
<1> QED BY <1>1, <1>2, <1>4, <1>5, <1>7, Before, After

-----------------------------------------------------------------------------
(* What the threads see of it: the steps as PageStore's clients take them. *)

\* A thread that holds nothing has no page.
IdleHoldsNothing == \A t \in Threads : pc[t] = "idle" => page[t] = INVALID_PAGE_ID

\* A frame the pool takes has nobody looking at it.
LEMMA NobodySeesFreeFrame ==
  ASSUME StructureInv, NEW f \in Frames, GetFreeFrame(f)
  PROVE  \A u \in Threads : Holding(u) => frame[u] # f
BY FreeFrameEffect DEF Holders

\* Two threads have the same frame when they have the same page.
LEMMA SameFrameSamePage ==
  ASSUME StructureInv, IdleHoldsNothing, NEW t \in Threads, Holding(t), NEW u \in Threads
  PROVE  page[u] = page[t] <=> Holding(u) /\ frame[u] = frame[t]
<1>1. page[t] \in PageIds /\ page_id[frame[t]] = page[t] /\ page_table[page[t]] = frame[t]
  BY HeldFrame
<1>2. CASE Holding(u)
  BY <1>1, <1>2, HeldFrame
<1>3. CASE ~Holding(u)
  BY <1>1, <1>3, PoolAssumption DEF IdleHoldsNothing, Holding
<1> QED BY <1>2, <1>3

\* A page that is not in the pool, or whose frame nobody holds, is nobody's.
LEMMA NobodysPage ==
  ASSUME StructureInv, IdleHoldsNothing, NEW p \in PageIds,
         page_table[p] = INVALID_FRAME_ID \/ Holders(page_table[p]) = {}
  PROVE  \A u \in Threads : page[u] # p
<1> SUFFICES ASSUME NEW u \in Threads, page[u] = p
             PROVE  FALSE
  OBVIOUS
<1>1. Holding(u)
  BY PoolAssumption DEF IdleHoldsNothing, Holding
<1>2. frame[u] \in Frames /\ page_table[p] = frame[u]
  BY <1>1, HeldFrame
<1> QED BY <1>1, <1>2, InvalidFrame DEF Holders

\* No thread comes or goes, and the frames the threads hold keep their bytes.
LEMMA ViewKept ==
  ASSUME UNCHANGED frame,
         \A u \in Threads : pc'[u] = "idle" <=> pc[u] = "idle",
         \A u \in Threads : Holding(u) => data'[frame[u]] = data[frame[u]]
  PROVE  View' = View
BY DEF View, Holding, Gone

\* A thread comes to hold frame f and sees its bytes; the others see what they saw.
LEMMA ViewTaken ==
  ASSUME TypeOK, NEW t \in Threads, pc[t] = "idle", NEW p, NEW f, NEW where, where # "idle",
         Holds(t, p, f, where),
         \A u \in Threads : Holding(u) => data'[frame[u]] = data[frame[u]]
  PROVE  View' = [View EXCEPT ![t] = data'[f]]
<1>1. \A u \in Threads : View'[u] = IF u = t THEN data'[f] ELSE View[u]
  BY DEF View, Holding, Holds, TypeOK, Gone
<1>2. View = [u \in Threads |-> View[u]] /\ View' = [u \in Threads |-> View'[u]]
  BY DEF View
<1> QED BY <1>1, <1>2

\* A thread lets go of its frame.
LEMMA ViewReleased ==
  ASSUME TypeOK, NEW t \in Threads, Holds(t, INVALID_PAGE_ID, INVALID_FRAME_ID, "idle"),
         UNCHANGED data
  PROVE  View' = [View EXCEPT ![t] = Gone]
<1>1. \A u \in Threads : View'[u] = IF u = t THEN Gone ELSE View[u]
  BY DEF View, Holding, Holds, TypeOK, Gone
<1>2. View = [u \in Threads |-> View[u]] /\ View' = [u \in Threads |-> View'[u]]
  BY DEF View
<1> QED BY <1>1, <1>2

\* A step that changes no page, moves no thread and touches no held frame is
\* invisible.
LEMMA Invisible ==
  ASSUME Content' = Content, UNCHANGED <<thread, dropping>>,
         \A u \in Threads : Holding(u) => data'[frame[u]] = data[frame[u]]
  PROVE  UNCHANGED Store!vars
<1>1. UNCHANGED <<pc, page, frame, dropping>>
  BY DEF thread
<1>2. View' = View
  BY <1>1, ViewKept
<1> QED BY <1>1, <1>2 DEF Store!vars

\* FetchPage of a page in the pool: the thread sees what was written to it.
LEMMA FetchHitStore ==
  ASSUME BothInv, StructureInv', NEW t \in Threads, NEW p \in PageIds, FetchHit(t, p)
  PROVE  Store!Acquire(t, p)
<1> DEFINE f == page_table[p]
<1>0. /\ TypeOK /\ pc[t] = "idle" /\ f \in Frames /\ f # INVALID_FRAME_ID
      /\ Holds(t, p, f, "pinned") /\ UNCHANGED <<data, dropping>>
  BY Before DEF FetchHit
<1>1. Content' = Content
  BY FetchHitContent
<1>2. View' = [View EXCEPT ![t] = data[f]]
  BY <1>0, ViewTaken
<1>3. data[f] \in Data \cup {Gone}
  BY <1>0 DEF TypeOK, Contents, Gone
<1>4. Content[p] # Gone => data[f] = Content[p]
  BY <1>0, ContentOf
<1> QED BY <1>0, <1>1, <1>2, <1>3, <1>4 DEF Store!Acquire, Store!Take, Holds

\* FetchPage of a page that is not in the pool: the thread sees what was
\* written to it before it was evicted.
LEMMA FetchMissStore ==
  ASSUME BothInv, StructureInv', NEW t \in Threads, NEW p \in PageIds, FetchMiss(t, p)
  PROVE  Store!Acquire(t, p)
<1>1. PICK f \in Frames :
        /\ GetFreeFrame(f)
        /\ data' = [data EXCEPT ![f] = stored[p]]
        /\ Holds(t, p, f, "pinned")
  BY DEF FetchMiss
<1>2. /\ TypeOK /\ StructureInv /\ pc[t] = "idle" /\ UNCHANGED dropping
      /\ page_table[p] = INVALID_FRAME_ID
  BY Before DEF FetchMiss
<1>3. Content' = Content
  BY FetchMissContent
<1>4. data'[f] = stored[p] /\ \A u \in Threads : Holding(u) => data'[frame[u]] = data[frame[u]]
  BY <1>1, <1>2, NobodySeesFreeFrame, HeldFrame DEF TypeOK
<1>5. View' = [View EXCEPT ![t] = stored[p]]
  BY <1>1, <1>2, <1>4, ViewTaken
<1>6. stored[p] \in Data \cup {Gone}
  BY <1>2 DEF TypeOK, Contents, Gone
<1>7. Content[p] # Gone => stored[p] = Content[p]
  BY <1>2, ContentOf
<1> QED BY <1>1, <1>2, <1>3, <1>5, <1>6, <1>7 DEF Store!Acquire, Store!Take, Holds

\* FetchPage that fails, also after it evicted a page.
LEMMA FetchFailsStore ==
  ASSUME BothInv, StructureInv', NEW t \in Threads, NEW p \in PageIds,
         FetchReadFails(t, p) \/ FetchNoFrame(t, p)
  PROVE  UNCHANGED Store!vars
<1>1. Content' = Content /\ UNCHANGED <<thread, dropping>>
  BY FetchReadFailsContent, FetchNoFrameContent DEF FetchReadFails, FetchNoFrame
<1>2. CASE FetchReadFails(t, p)
  <2>1. PICK f \in Frames : GetFreeFrame(f) /\ data' = [data EXCEPT ![f] = Zero]
    BY <1>2 DEF FetchReadFails
  <2>2. \A u \in Threads : Holding(u) => data'[frame[u]] = data[frame[u]]
    BY <2>1, NobodySeesFreeFrame, HeldFrame, Before DEF TypeOK
  <2> QED BY <1>1, <2>2, Invisible
<1>3. CASE FetchNoFrame(t, p)
  BY <1>1, <1>3, Invisible DEF FetchNoFrame, NoFrameAvailable
<1> QED BY <1>2, <1>3

\* NewPage: the thread gets a zeroed page nobody held.
LEMMA NewPageStore ==
  ASSUME BothInv, IdleHoldsNothing, StructureInv',
         NEW t \in Threads, NEW file \in Files, NewPage(t, file)
  PROVE  \E p \in PageIds : Store!Create(t, p)
<1>1. PICK p \in PageIds \ allocated, f \in Frames :
        /\ GetFreeFrame(f) /\ Holds(t, p, f, "fresh") /\ data' = [data EXCEPT ![f] = Zero]
        /\ Content[p] = Gone /\ Content' = [Content EXCEPT ![p] = Zero]
  BY NewPageContent
<1>2. TypeOK /\ StructureInv /\ pc[t] = "idle" /\ UNCHANGED dropping
  BY Before DEF NewPage
<1>3. data'[f] = Zero /\ \A u \in Threads : Holding(u) => data'[frame[u]] = data[frame[u]]
  BY <1>1, <1>2, NobodySeesFreeFrame, HeldFrame DEF TypeOK
<1>4. View' = [View EXCEPT ![t] = Zero]
  BY <1>1, <1>2, <1>3, ViewTaken
<1>5. page_table[p] = INVALID_FRAME_ID
  BY <1>1, <1>2 DEF StructureInv, ResidentIsAllocated
<1>6. \A u \in Threads : page[u] # p
  BY <1>2, <1>5, NobodysPage
<1>7. Store!Create(t, p)
  BY <1>1, <1>2, <1>4, <1>6 DEF Store!Create, Store!Take, Holds
<1> QED BY <1>7

\* NewPage without a frame.
LEMMA NewPageFailsStore ==
  ASSUME BothInv, StructureInv', NEW t \in Threads, NEW file \in Files, NewPageNoFrame(t, file)
  PROVE  UNCHANGED Store!vars
BY NewPageNoFrameContent, Invisible DEF NewPageNoFrame, NoFrameAvailable

\* The latches of a page are the latches of its frame.
LEMMA LatchStore ==
  ASSUME BothInv, IdleHoldsNothing, StructureInv', NEW t \in Threads,
         RLatch(t) \/ WLatch(t) \/ Unlatch(t)
  PROVE  Store!ReadLatch(t) \/ Store!WriteLatch(t) \/ Store!Unlatch(t)
<1>0. TypeOK /\ StructureInv /\ Holding(t)
  BY Before DEF RLatch, WLatch, Unlatch, Holding
<1>1. Content' = Content /\ UNCHANGED <<data, page, frame, dropping>>
  BY LatchContent DEF RLatch, WLatch, Unlatch, pool
<1>2. \A u \in Threads : pc'[u] = "idle" <=> pc[u] = "idle"
  BY <1>0 DEF RLatch, WLatch, Unlatch, TypeOK, Holding
<1>3. View' = View
  BY <1>1, <1>2, ViewKept
<1>4. \A u \in Threads : page[u] = page[t] <=> Holding(u) /\ frame[u] = frame[t]
  BY <1>0, SameFrameSamePage
<1>5. CASE RLatch(t)
  BY <1>1, <1>3, <1>4, <1>5 DEF RLatch, Store!ReadLatch
<1>6. CASE WLatch(t)
  BY <1>1, <1>3, <1>4, <1>6 DEF WLatch, Store!WriteLatch
<1>7. CASE Unlatch(t)
  BY <1>1, <1>3, <1>7 DEF Unlatch, Store!Unlatch
<1> QED BY <1>5, <1>6, <1>7

\* UnpinPage.
LEMMA UnpinPageStore ==
  ASSUME BothInv, StructureInv', Reliable, NEW t \in Threads, UnpinPage(t)
  PROVE  Store!Release(t)
<1>1. /\ TypeOK /\ UNCHANGED <<data, dropping>> /\ pc[t] \in {"clean", "modified"}
      /\ Holds(t, INVALID_PAGE_ID, INVALID_FRAME_ID, "idle")
  BY Before DEF UnpinPage
<1>2. Content' = Content
  BY UnpinPageContent
<1>3. View' = [View EXCEPT ![t] = Gone]
  BY <1>1, ViewReleased
<1> QED BY <1>1, <1>2, <1>3 DEF Store!Release, Holds

\* A write changes its page and what the holders of that page see.
LEMMA ModifyStore ==
  ASSUME BothInv, IdleHoldsNothing, StructureInv',
         NEW t \in Threads, NEW v \in Data, Modify(t, v)
  PROVE  Store!Write(t, v)
<1>1. /\ TypeOK /\ StructureInv /\ Holding(t) /\ frame[t] \in Frames
      /\ data' = [data EXCEPT ![frame[t]] = v] /\ pc' = [pc EXCEPT ![t] = "modified"]
      /\ pc[t] \in {"writing", "fresh"} /\ UNCHANGED <<page, frame, dropping>>
  BY Before, HeldFrame DEF Modify, Holding
<1>2. \A q \in PageIds :
        Content'[q] = IF q = page[t] /\ Content[q] # Gone THEN v ELSE Content[q]
  BY ModifyContent
<1>3. Content' = [q \in PageIds |-> Content'[q]]
  BY DEF Content
<1>4. Content' = [q \in PageIds |-> IF q = page[t] /\ Content[q] # Gone THEN v ELSE Content[q]]
  BY <1>2, <1>3
<1>5. \A u \in Threads : Holding(u)' <=> Holding(u)
  BY <1>1 DEF Holding, TypeOK
<1>6. \A u \in Threads : Holding(u) => frame[u] \in Frames
  BY <1>1, HeldFrame
<1>7. \A u \in Threads : View'[u] = IF Holding(u) /\ frame[u] = frame[t] THEN v ELSE View[u]
  BY <1>1, <1>5, <1>6 DEF View, TypeOK, Gone
<1>8. \A u \in Threads : View'[u] = IF page[u] = page[t] THEN v ELSE View[u]
  BY <1>1, <1>7, SameFrameSamePage
<1>9. View' = [u \in Threads |-> View'[u]]
  BY DEF View
<1>10. View' = [u \in Threads |-> IF page[u] = page[t] THEN v ELSE View[u]]
  BY <1>8, <1>9
<1> QED BY <1>1, <1>4, <1>10 DEF Store!Write, Store!PageIds, PageIds

\* DeletePage: nobody holds the page that goes.
LEMMA DeletePageStore ==
  ASSUME BothInv, IdleHoldsNothing, StructureInv', NEW p \in PageIds, DeletePage(p)
  PROVE  Store!Delete(p)
<1>0. TypeOK /\ StructureInv /\ UNCHANGED <<pc, page, frame, dropping>>
  BY Before DEF DeletePage, thread
<1>1. Content' = [Content EXCEPT ![p] = Gone]
  BY DeletePageContent
<1>2. page_table[p] # INVALID_FRAME_ID => Holders(page_table[p]) = {}
  <2> SUFFICES ASSUME page_table[p] # INVALID_FRAME_ID
               PROVE  Holders(page_table[p]) = {}
    OBVIOUS
  <2>1. page_table[p] \in Frames /\ pin_count[page_table[p]] = 0
    BY <1>0 DEF DeletePage, TypeOK
  <2> QED BY <1>0, <2>1, HoldersFinite, FS_EmptySet DEF StructureInv, PinsCountHolders
<1>3. \A u \in Threads : page[u] # p
  BY <1>0, <1>2, NobodysPage
<1>4. \A u \in Threads : Holding(u) => data'[frame[u]] = data[frame[u]]
  <2>1. CASE page_table[p] = INVALID_FRAME_ID
    BY <2>1 DEF DeletePage, pool
  <2>2. CASE page_table[p] # INVALID_FRAME_ID
    <3>1. data' = [data EXCEPT ![page_table[p]] = Zero]
      BY <2>2 DEF DeletePage
    <3>2. \A u \in Threads : Holding(u) => frame[u] # page_table[p]
      BY <1>2, <2>2 DEF Holders
    <3> QED BY <1>0, <3>1, <3>2 DEF TypeOK
  <2> QED BY <2>1, <2>2
<1>5. View' = View
  BY <1>0, <1>4, ViewKept
<1> QED BY <1>0, <1>1, <1>3, <1>5 DEF Store!Delete

\* The flushes are invisible; delete_table begins and ends.
LEMMA FlushingStore ==
  ASSUME BothInv, StructureInv', Reliable, Flushing
  PROVE  \/ UNCHANGED Store!vars
         \/ \E file \in Files : Store!BeginDrop(file)
         \/ Store!EndDrop
<1>0. UNCHANGED <<data, thread>>
  BY DEF Flushing, FlushAllPages, FlushClear, DeleteFile, FlushFilePages, FlushPage, FlushSkip,
         FlushWrite, FlushWriteFails, pool
<1>1. UNCHANGED <<pc, page, frame>> /\ View' = View
  BY <1>0, ViewKept DEF thread
<1>2. CASE DeleteFile
  <2>1. Content' = [p \in PageIds |-> IF p[1] = dropping THEN Gone ELSE Content[p]]
    BY <1>2, DeleteFileContent
  <2> QED BY <1>1, <1>2, <2>1 DEF DeleteFile, Store!EndDrop, Store!PageIds, PageIds
<1>3. ASSUME NEW file \in Files, FlushFilePages(file)
      PROVE  Store!BeginDrop(file)
  <2>1. Content' = Content
    BY <1>3, FlushContent
  <2> QED BY <1>1, <1>3, <2>1 DEF FlushFilePages, Store!BeginDrop
<1>4. CASE \/ FlushAllPages \/ FlushClear
           \/ \E p \in PageIds : FlushPage(p) \/ FlushSkip(p) \/ FlushWrite(p) \/ FlushWriteFails(p)
  <2>1. Content' = Content
    BY <1>4, FlushContent, FlushClearContent, FlushWriteContent
  <2>2. UNCHANGED dropping
    BY <1>4 DEF FlushAllPages, FlushClear, FlushPage, FlushSkip, FlushWrite, FlushWriteFails
  <2> QED BY <1>0, <2>1, <2>2, Invisible
<1> QED BY <1>2, <1>3, <1>4 DEF Flushing

\* Only UnpinPage makes a thread idle, and it takes its page away.
LEMMA IdleStep ==
  ASSUME TypeOK, IdleHoldsNothing, [Next]_vars
  PROVE  IdleHoldsNothing'
<1>1. ASSUME NEW t \in Threads, NEW p, NEW f, NEW where,
             Holds(t, p, f, where), where = "idle" => p = INVALID_PAGE_ID
      PROVE  IdleHoldsNothing'
  BY <1>1 DEF IdleHoldsNothing, Holds, TypeOK
<1>2. ASSUME UNCHANGED page, \A u \in Threads : pc'[u] = "idle" => pc[u] = "idle"
      PROVE  IdleHoldsNothing'
  BY <1>2 DEF IdleHoldsNothing
<1>3. ASSUME NEW t \in Threads, NEW p \in PageIds,
             FetchHit(t, p) \/ FetchMiss(t, p) \/ FetchReadFails(t, p) \/ FetchNoFrame(t, p)
      PROVE  IdleHoldsNothing'
  BY <1>1, <1>2, <1>3 DEF FetchHit, FetchMiss, FetchReadFails, FetchNoFrame, thread
<1>4. ASSUME NEW t \in Threads, NEW file \in Files, NewPage(t, file) \/ NewPageNoFrame(t, file)
      PROVE  IdleHoldsNothing'
  BY <1>1, <1>2, <1>4 DEF NewPage, NewPageNoFrame, thread
<1>5. ASSUME NEW t \in Threads, UnpinPage(t)
      PROVE  IdleHoldsNothing'
  BY <1>1, <1>5 DEF UnpinPage
<1>6. ASSUME NEW t \in Threads,
             RLatch(t) \/ WLatch(t) \/ Unlatch(t) \/ \E v \in Data : Modify(t, v)
      PROVE  IdleHoldsNothing'
  <2>1. UNCHANGED page /\ \A u \in Threads : pc'[u] = "idle" => pc[u] = "idle"
    BY <1>6 DEF RLatch, WLatch, Unlatch, Modify, TypeOK
  <2> QED BY <1>2, <2>1
<1>7. ASSUME UNCHANGED thread
      PROVE  IdleHoldsNothing'
  BY <1>2, <1>7 DEF thread
<1>8. (\E p \in PageIds : DeletePage(p)) \/ Flushing \/ UNCHANGED vars => UNCHANGED thread
  BY DEF DeletePage, Flushing, FlushAllPages, FlushClear, DeleteFile, FlushFilePages, FlushPage,
         FlushSkip, FlushWrite, FlushWriteFails, vars
<1> QED BY <1>3, <1>4, <1>5, <1>6, <1>7, <1>8 DEF Next, ThreadStep

-----------------------------------------------------------------------------
(* The theorems.                                                           *)

\* An empty pool over empty files is an empty store.
LEMMA InitContent ==
  ASSUME Init
  PROVE  ContentInv /\ Store!Init
<1>1. allocated = {} /\ flush.copied = INVALID_PAGE_ID
  BY DEF Init
<1>2. ContentInv
  BY <1>1 DEF ContentInv, CleanOrOwed, CopiedOrOwed, LiveHasContent
<1>3. Content = [p \in PageIds |-> Gone]
  BY <1>1 DEF Content
<1>4. View = [t \in Threads |-> Gone]
  BY DEF Init, View, Holding
<1> QED BY <1>2, <1>3, <1>4 DEF Init, Store!Init, Store!PageIds, PageIds

\* Every step keeps the structural and the content invariant.
LEMMA NextContent ==
  ASSUME Reliable, BothInv, [Next]_vars
  PROVE  BothInv'
<1>0. StructureInv /\ StructureInv'
  BY NextStructure DEF BothInv
<1> SUFFICES ContentInv'
  BY <1>0 DEF BothInv
<1>1. ASSUME NEW t \in Threads, NEW p \in PageIds,
             FetchHit(t, p) \/ FetchMiss(t, p) \/ FetchReadFails(t, p) \/ FetchNoFrame(t, p)
      PROVE  ContentInv'
  BY <1>0, <1>1, FetchHitContent, FetchMissContent, FetchReadFailsContent, FetchNoFrameContent
<1>2. ASSUME NEW t \in Threads, NEW file \in Files, NewPage(t, file) \/ NewPageNoFrame(t, file)
      PROVE  ContentInv'
  BY <1>0, <1>2, NewPageContent, NewPageNoFrameContent
<1>3. ASSUME NEW t \in Threads, RLatch(t) \/ WLatch(t) \/ Unlatch(t) \/ UnpinPage(t)
      PROVE  ContentInv'
  BY <1>0, <1>3, LatchContent, UnpinPageContent
<1>4. ASSUME NEW t \in Threads, NEW v \in Data, Modify(t, v)
      PROVE  ContentInv'
  BY <1>0, <1>4, ModifyContent
<1>5. ASSUME NEW p \in PageIds, DeletePage(p)
      PROVE  ContentInv'
  BY <1>0, <1>5, DeletePageContent
<1>6. CASE Flushing
  <2>1. ASSUME NEW p \in PageIds, FlushWrite(p)
        PROVE  ContentInv'
    BY <1>0, <2>1, FlushWriteContent
  <2>2. CASE \/ FlushAllPages
             \/ \E file \in Files : FlushFilePages(file)
             \/ \E p \in PageIds : FlushPage(p) \/ FlushSkip(p) \/ FlushWriteFails(p)
    BY <1>0, <2>2, FlushContent
  <2>3. CASE FlushClear \/ DeleteFile
    BY <1>0, <2>3, FlushClearContent, DeleteFileContent
  <2> QED BY <1>6, <2>1, <2>2, <2>3 DEF Flushing
<1>7. CASE UNCHANGED vars
  <2>1. UNCHANGED <<page_table, data, stored, allocated, open, is_dirty, flush, pc, page>>
    BY <1>7 DEF vars, pool, disk, thread
  <2>2. \A q \in PageIds : Owing(q) => Owing(q)'
    BY <2>1 DEF Owing
  <2>3. \A q \in PageIds : CopiedAt(q)'
    BY <2>1, <2>2, Before DEF CopiedAt
  <2> QED BY <1>0, <2>1, <2>2, <2>3, QuietStep, PageByPagePrimed
<1> QED BY <1>1, <1>2, <1>3, <1>4, <1>5, <1>6, <1>7 DEF Next, ThreadStep

\* One step of the pool is a step of one client of the page store, the drop of
\* a file, or shows nothing.
LEMMA NextStore ==
  ASSUME Reliable, BothInv, BothInv', IdleHoldsNothing, [Next]_vars
  PROVE  [Store!Next]_(Store!vars)
<1>0. StructureInv'
  BY DEF BothInv
<1> DEFINE Goal == Store!Next \/ UNCHANGED Store!vars
<1> SUFFICES Goal
  OBVIOUS
<1>1. ASSUME NEW t \in Threads, NEW p \in PageIds,
             FetchHit(t, p) \/ FetchMiss(t, p) \/ FetchReadFails(t, p) \/ FetchNoFrame(t, p)
      PROVE  Goal
  BY <1>0, <1>1, FetchHitStore, FetchMissStore, FetchFailsStore
     DEF Store!Next, Store!ClientStep, Store!PageIds, PageIds
<1>2. ASSUME NEW t \in Threads, NEW file \in Files, NewPage(t, file) \/ NewPageNoFrame(t, file)
      PROVE  Goal
  BY <1>0, <1>2, NewPageStore, NewPageFailsStore
     DEF Store!Next, Store!ClientStep, Store!PageIds, PageIds
<1>3. ASSUME NEW t \in Threads, RLatch(t) \/ WLatch(t) \/ Unlatch(t) \/ UnpinPage(t)
      PROVE  Goal
  BY <1>0, <1>3, LatchStore, UnpinPageStore DEF Store!Next, Store!ClientStep
<1>4. ASSUME NEW t \in Threads, NEW v \in Data, Modify(t, v)
      PROVE  Goal
  BY <1>0, <1>4, ModifyStore DEF Store!Next, Store!ClientStep
<1>5. ASSUME NEW p \in PageIds, DeletePage(p)
      PROVE  Goal
  BY <1>0, <1>5, DeletePageStore DEF Store!Next, Store!PageIds, PageIds
<1>6. CASE Flushing
  BY <1>0, <1>6, FlushingStore DEF Store!Next
<1>7. CASE UNCHANGED vars
  <2>1. Content' = Content /\ View' = View /\ UNCHANGED <<pc, page, dropping>>
    BY <1>7 DEF vars, pool, disk, thread, Content, View, Holding, Gone
  <2> QED BY <2>1 DEF Store!vars
<1> QED BY <1>1, <1>2, <1>3, <1>4, <1>5, <1>6, <1>7 DEF Next, ThreadStep

\* The structural and the content invariant hold together.
THEOREM ContentHolds ==
  ASSUME Reliable
  PROVE  Spec => []BothInv
<1>1. Init => BothInv
  BY InitStructure, InitContent DEF BothInv
<1>2. BothInv /\ [Next]_vars => BothInv'
  BY NextContent
<1> QED BY <1>1, <1>2, PTL DEF Spec

\* page.h:17 for every pool size, file, page and number of threads: a clean
\* page that nobody holds is the same in memory and in the file.
THEOREM CleanPagesCorrect ==
  ASSUME Reliable
  PROVE  Spec => []CleanPageIsStored
<1>1. BothInv => CleanPageIsStored
  <2> SUFFICES ASSUME BothInv, NEW p \in allocated, GetFileId(p) \in open,
                      page_table[p] # INVALID_FRAME_ID,
                      pin_count[page_table[p]] = 0, page_table[p] \notin is_dirty
               PROVE  data[page_table[p]] = stored[p]
    BY DEF CleanPageIsStored
  <2>1. TypeOK /\ StructureInv /\ p \in PageIds /\ page_table[p] \in Frames
    BY Before DEF TypeOK
  <2>2. Holders(page_table[p]) = {}
    BY <2>1, HoldersFinite, FS_EmptySet DEF StructureInv, PinsCountHolders
  <2>3. ~Owed(page_table[p])
    BY <2>2 DEF Owed
  <2> QED BY <2>3 DEF BothInv, ContentInv, CleanOrOwed
<1> QED BY <1>1, ContentHolds, PTL

\* BufferPoolManager implements the page store for every pool size: whatever is
\* evicted, flushed or failing in between, a thread that fetches a page sees what
\* the last writer of it wrote, no step but a write changes a page, and only
\* DeletePage and delete_table end one.
THEOREM PoolImplementsPageStore ==
  ASSUME Reliable
  PROVE  Spec => ImplementsPageStore
<1>1. Init => Store!Init /\ TypeOK /\ IdleHoldsNothing
  BY InitContent, InitStructure DEF StructureInv, Init, IdleHoldsNothing
<1>2. BothInv => TypeOK
  BY Before
<1>3. TypeOK /\ IdleHoldsNothing /\ [Next]_vars => IdleHoldsNothing'
  BY IdleStep
<1>4. Spec => []IdleHoldsNothing
  BY <1>1, <1>2, <1>3, ContentHolds, PTL DEF Spec
<1>5. BothInv /\ BothInv' /\ IdleHoldsNothing /\ [Next]_vars => [Store!Next]_(Store!vars)
  BY NextStore
<1> QED BY <1>1, <1>4, <1>5, ContentHolds, PTL DEF Spec, ImplementsPageStore, Store!Spec

-----------------------------------------------------------------------------
(* An unpinned page can be evicted, as page.h:16 says.  It is assumed that *)
(* EvictPage can write its victim back: WritePage does not fail under it,  *)
(* and no file is dropped whose pages are still in the pool.               *)

\* EvictPage can write its victim back.
WritesBack == "evict" \notin Faults /\ "drop" \notin Flushes

EvictInv == /\ StructureInv
            /\ UnpinnedIsEvictable
            /\ open = Files /\ dropping = NoFile

\* With every file open and no fault, the victim of EvictPage is written back.
LEMMA EvictionSucceeds ==
  ASSUME WritesBack, EvictInv
  PROVE  ~EvictionWriteFails
<1> SUFFICES ASSUME EvictionWriteFails
             PROVE  FALSE
  OBVIOUS
<1> DEFINE v == VictimFrame(replacer)
<1>1. VictimFound(replacer) /\ replacer \in ReplacerState
  BY DEF EvictionWriteFails, EvictInv, StructureInv, TypeOK
<1>2. v \in replacer.evictable /\ v \in Frames
  BY <1>1, VictimIsEvictable, ReplacerFields
<1>3. page_id[v] \in PageIds
  BY <1>2 DEF EvictInv, StructureInv, TypeOK, PinsCountHolders
<1>4. GetFileId(page_id[v]) \in open
  BY <1>3 DEF EvictInv, PageIds, GetFileId
<1> QED BY <1>4 DEF EvictionWriteFails, IOFails, WritesBack

\* A step that changes pins, pages and the replacer only at frame f, where it leaves a
\* pin, no page or an evictable page, keeps unpinned pages evictable.
LEMMA EvictableElsewhere ==
  ASSUME UnpinnedIsEvictable, NEW f,
         \A g \in Frames \ {f} :
            /\ page_id'[g] = page_id[g] /\ pin_count'[g] = pin_count[g]
            /\ g \in replacer.evictable => g \in replacer'.evictable,
         f \in Frames => \/ page_id'[f] = INVALID_PAGE_ID
                         \/ pin_count'[f] # 0
                         \/ f \in replacer'.evictable
  PROVE  UnpinnedIsEvictable'
BY DEF UnpinnedIsEvictable

\* GetFreeFrame that finds no frame takes none from the replacer either.
LEMMA NoFrameEvictable ==
  ASSUME WritesBack, EvictInv, NoFrameAvailable
  PROVE  UnpinnedIsEvictable'
<1>1. ~VictimFound(replacer) /\ replacer \in ReplacerState
  BY EvictionSucceeds DEF NoFrameAvailable, NoVictim, EvictInv, StructureInv, TypeOK
<1>2. replacer'.evictable = replacer.evictable
  BY <1>1, AfterVictimEffect DEF NoFrameAvailable
<1> QED BY <1>2 DEF NoFrameAvailable, EvictInv, UnpinnedIsEvictable

\* A frame that GetFreeFrame returned and that is pinned, or left without a page, takes
\* no other frame from the replacer.
LEMMA LoadEvictable ==
  ASSUME EvictInv, NEW f \in Frames, GetFreeFrame(f), NEW p,
         page_id' = [page_id EXCEPT ![f] = p],
         \/ /\ replacer' = ClockPin(ReplacerAfter, f)
            /\ pin_count' = [pin_count EXCEPT ![f] = @ + 1]
         \/ /\ replacer' = ReplacerAfter
            /\ p = INVALID_PAGE_ID /\ pin_count' = pin_count
  PROVE  UnpinnedIsEvictable'
<1>0. pin_count \in [Frames -> Nat] /\ page_id \in [Frames -> PageIds \cup {INVALID_PAGE_ID}]
  BY DEF EvictInv, StructureInv, TypeOK
<1>1. ReplacerAfter \in ReplacerState /\ ReplacerAfter.evictable = replacer.evictable \ {f}
  BY FreeFrameEffect DEF EvictInv
<1>2. replacer'.evictable = replacer.evictable \ {f}
  BY <1>1, ClockPinEffect
<1>3. page_id'[f] = INVALID_PAGE_ID \/ pin_count'[f] # 0
  BY <1>0
<1>4. \A g \in Frames \ {f} :
        /\ page_id'[g] = page_id[g] /\ pin_count'[g] = pin_count[g]
        /\ g \in replacer.evictable => g \in replacer'.evictable
  BY <1>0, <1>2
<1> QED BY <1>3, <1>4, EvictableElsewhere DEF EvictInv

\* UnpinPage hands the frame to the replacer with the last pin.
LEMMA UnpinEvictable ==
  ASSUME EvictInv, NEW t \in Threads, UnpinPage(t)
  PROVE  UnpinnedIsEvictable'
<1> DEFINE f == page_table[page[t]]
<1>0. /\ pin_count \in [Frames -> Nat] /\ replacer \in ReplacerState
      /\ page_id' = page_id /\ UnpinnedIsEvictable
  BY DEF EvictInv, StructureInv, TypeOK, UnpinPage
<1>1. CASE f # INVALID_FRAME_ID /\ pin_count[f] > 0
  <2>1. Holding(t)
    BY DEF UnpinPage, Holding
  <2>2. f \in Frames
    BY <2>1, HeldFrame DEF EvictInv
  <2>3. /\ pin_count' = [pin_count EXCEPT ![f] = @ - 1]
        /\ replacer' = IF pin_count[f] = 1 THEN ClockUnpin(replacer, f) ELSE replacer
    BY <1>1 DEF UnpinPage
  <2> HIDE DEF f
  <2>4. replacer'.evictable = IF pin_count[f] = 1 THEN replacer.evictable \cup {f}
                                                  ELSE replacer.evictable
    BY <2>2, <2>3, <1>0, ClockUnpinEffect
  <2>5. pin_count'[f] # 0 \/ f \in replacer'.evictable
    BY <1>0, <1>1, <2>2, <2>3, <2>4
  <2>6. \A g \in Frames \ {f} : pin_count'[g] = pin_count[g]
    BY <1>0, <2>2, <2>3
  <2> QED BY <1>0, <2>4, <2>5, <2>6, EvictableElsewhere
<1>2. CASE ~(f # INVALID_FRAME_ID /\ pin_count[f] > 0)
  <2>1. pin_count' = pin_count /\ replacer' = replacer
    BY <1>2 DEF UnpinPage
  <2> QED BY <1>0, <2>1 DEF UnpinnedIsEvictable
<1> QED BY <1>1, <1>2

\* Every step keeps unpinned pages evictable.
LEMMA NextEvictable ==
  ASSUME WritesBack, EvictInv, [Next]_vars
  PROVE  EvictInv'
<1>0. StructureInv'
  BY NextStructure DEF EvictInv
<1>1. open' = Files /\ dropping' = NoFile
  <2>1. ASSUME NEW t \in Threads, ThreadStep(t)
        PROVE  open' = open /\ dropping' = dropping
    BY <2>1 DEF ThreadStep, FetchHit, FetchMiss, FetchReadFails, FetchNoFrame, NewPage,
       NewPageNoFrame, RLatch, WLatch, Unlatch, UnpinPage, Modify, disk
  <2>2. ASSUME NEW p \in PageIds, DeletePage(p)
        PROVE  open' = open /\ dropping' = dropping
    BY <2>2 DEF DeletePage
  <2>3. ASSUME Flushing
        PROVE  open' = open /\ dropping' = dropping
    BY <2>3 DEF Flushing, FlushAllPages, FlushClear, DeleteFile, FlushFilePages, FlushPage,
       FlushSkip, FlushWrite, FlushWriteFails, disk, WritesBack, EvictInv
  <2>4. ASSUME UNCHANGED vars
        PROVE  open' = open /\ dropping' = dropping
    BY <2>4 DEF vars, disk
  <2> QED BY <2>1, <2>2, <2>3, <2>4 DEF Next, EvictInv
<1>2. UnpinnedIsEvictable'
  <2>0. /\ UnpinnedIsEvictable /\ TypeOK
        /\ UNCHANGED <<page_id, pin_count, replacer>> => UnpinnedIsEvictable'
    BY DEF EvictInv, StructureInv, UnpinnedIsEvictable
  <2>1. ASSUME NEW t \in Threads, NEW p \in PageIds, FetchHit(t, p)
        PROVE  UnpinnedIsEvictable'
    <3> DEFINE f == page_table[p]
    <3>1. /\ f \in Frames /\ replacer \in ReplacerState /\ pin_count \in [Frames -> Nat]
          /\ page_id' = page_id
      BY <2>1, <2>0 DEF FetchHit, TypeOK
    <3>2. replacer' = ClockPin(replacer, f) /\ pin_count' = [pin_count EXCEPT ![f] = @ + 1]
      BY <2>1 DEF FetchHit
    <3> HIDE DEF f
    <3>3. replacer'.evictable = replacer.evictable \ {f}
      BY <3>1, <3>2, ClockPinEffect
    <3>4. pin_count'[f] # 0 /\ \A g \in Frames \ {f} : pin_count'[g] = pin_count[g]
      BY <3>1, <3>2
    <3> QED BY <2>0, <3>1, <3>3, <3>4, EvictableElsewhere
  <2>2. ASSUME NEW t \in Threads, NEW p \in PageIds, FetchMiss(t, p) \/ FetchReadFails(t, p)
        PROVE  UnpinnedIsEvictable'
    <3>1. PICK f \in Frames : GetFreeFrame(f) /\ \E q \in PageIds \cup {INVALID_PAGE_ID} :
            /\ page_id' = [page_id EXCEPT ![f] = q]
            /\ \/ /\ replacer' = ClockPin(ReplacerAfter, f)
                  /\ pin_count' = [pin_count EXCEPT ![f] = @ + 1]
               \/ /\ replacer' = ReplacerAfter
                  /\ q = INVALID_PAGE_ID /\ pin_count' = pin_count
      BY <2>2 DEF FetchMiss, FetchReadFails
    <3> QED BY <3>1, LoadEvictable
  <2>3. ASSUME NEW t \in Threads, NEW file \in Files, NewPage(t, file)
        PROVE  UnpinnedIsEvictable'
    <3>1. PICK p \in Allocatable(file), f \in Frames :
            /\ GetFreeFrame(f)
            /\ page_id' = [page_id EXCEPT ![f] = p]
            /\ replacer' = ClockPin(ReplacerAfter, f)
            /\ pin_count' = [pin_count EXCEPT ![f] = @ + 1]
      BY <2>3 DEF NewPage
    <3> QED BY <3>1, LoadEvictable
  <2>4. ASSUME NEW t \in Threads,
               \/ \E p \in PageIds : FetchNoFrame(t, p)
               \/ \E file \in Files : NewPageNoFrame(t, file)
        PROVE  UnpinnedIsEvictable'
    <3>1. NoFrameAvailable
      BY <2>4 DEF FetchNoFrame, NewPageNoFrame
    <3> QED BY <3>1, NoFrameEvictable
  <2>5. ASSUME NEW t \in Threads,
               RLatch(t) \/ WLatch(t) \/ Unlatch(t) \/ \E v \in Data : Modify(t, v)
        PROVE  UnpinnedIsEvictable'
    BY <2>5, <2>0 DEF RLatch, WLatch, Unlatch, Modify, pool
  <2>6. ASSUME NEW p \in PageIds, DeletePage(p)
        PROVE  UnpinnedIsEvictable'
    <3> DEFINE f == page_table[p]
    <3>1. CASE f = INVALID_FRAME_ID
      BY <2>6, <3>1, <2>0 DEF DeletePage, pool
    <3>2. CASE f # INVALID_FRAME_ID
      <4>1. f \in Frames /\ replacer \in ReplacerState
            /\ page_id \in [Frames -> PageIds \cup {INVALID_PAGE_ID}]
        BY <3>2, <2>0 DEF TypeOK
      <4>2. /\ page_id' = [page_id EXCEPT ![f] = INVALID_PAGE_ID]
            /\ replacer' = ClockPin(replacer, f)
            /\ pin_count' = pin_count
        BY <2>6, <3>2 DEF DeletePage
      <4> HIDE DEF f
      <4>3. replacer'.evictable = replacer.evictable \ {f}
        BY <4>1, <4>2, ClockPinEffect
      <4> QED BY <2>0, <4>1, <4>2, <4>3, EvictableElsewhere
    <3> QED BY <3>1, <3>2
  <2>7. ASSUME Flushing
        PROVE  UnpinnedIsEvictable'
    BY <2>7, <2>0 DEF Flushing, FlushAllPages, FlushClear, DeleteFile, FlushFilePages,
       FlushPage, FlushSkip, FlushWrite, FlushWriteFails, pool
  <2>8. ASSUME UNCHANGED vars
        PROVE  UnpinnedIsEvictable'
    BY <2>8, <2>0 DEF vars, pool
  <2> QED BY <2>1, <2>2, <2>3, <2>4, <2>5, <2>6, <2>7, <2>8, UnpinEvictable DEF Next, ThreadStep
<1> QED BY <1>0, <1>1, <1>2 DEF EvictInv

\* page.h:16 "0 = evictable", for every pool size, file, page and number of threads: a
\* page whose pin count is 0 is offered to Victim, as long as EvictPage can write back.
THEOREM UnpinnedCorrect ==
  ASSUME WritesBack
  PROVE  Spec => []UnpinnedIsEvictable
<1>1. Init => EvictInv
  BY InitStructure DEF Init, EvictInv, UnpinnedIsEvictable
<1>2. EvictInv /\ [Next]_vars => EvictInv'
  BY NextEvictable
<1>3. EvictInv => UnpinnedIsEvictable
  BY DEF EvictInv
<1> QED BY <1>1, <1>2, <1>3, PTL DEF Spec

-----------------------------------------------------------------------------
(* The ClockReplacer as a component of its own. *)

\* The inductive invariant: after a Victim that missed, the reference bits of all
\* evictable frames are cleared.
ClockInv ==
  /\ ClockTypeOK
  /\ clock.size = Cardinality(clock.evictable)
  /\ missed => /\ clock.evictable # {}
               /\ clock.evictable \cap clock.ref_bit = {}

\* One turn of the hand reaches every frame: a number below two turns, less a whole
\* turn where there is one, is its frame.
LEMMA OneTurn ==
  ASSUME NEW a \in Nat, a < 2 * NumFrames
  PROVE  a % NumFrames = IF a < NumFrames THEN a ELSE a - NumFrames
<1> DEFINE q == a \div NumFrames
           r == a % NumFrames
<1>1. NumFrames \in Nat /\ NumFrames > 0
  BY NumFramesAssumption
<1>2. q \in Nat /\ r \in 0 .. NumFrames - 1 /\ a = NumFrames * q + r
  BY <1>1
<1> HIDE DEF q, r
<1>3. q >= 2 => NumFrames * q >= 2 * NumFrames
  BY <1>1, <1>2
<1>4. q = 0 \/ q = 1
  BY <1>1, <1>2, <1>3
<1>5. CASE q = 0
  <2>1. NumFrames * q = 0
    BY <1>5, <1>1
  <2> QED BY <2>1, <1>1, <1>2 DEF r
<1>6. CASE q = 1
  <2>1. NumFrames * q = NumFrames
    BY <1>6, <1>1
  <2> QED BY <2>1, <1>1, <1>2 DEF r
<1> QED BY <1>4, <1>5, <1>6

\* Wherever the hand stands, some number of moves below a whole turn puts it on f.
LEMMA HandReaches ==
  ASSUME NEW r \in ReplacerState, NEW f \in Frames
  PROVE  \E k \in Frames : Slot(r, k) = f
<1> DEFINE k == IF r.hand <= f THEN f - r.hand ELSE f - r.hand + NumFrames
<1>1. NumFrames \in Nat /\ NumFrames > 0 /\ r.hand \in 0 .. NumFrames - 1 /\ f \in 0 .. NumFrames - 1
  BY NumFramesAssumption DEF ReplacerState, Frames
<1>2. k \in Frames
  BY <1>1 DEF Frames
<1>3. r.hand + k \in Nat /\ r.hand + k < 2 * NumFrames
  BY <1>1
<1>4. (r.hand + k) % NumFrames = f
  BY <1>1, <1>3, OneTurn
<1> QED BY <1>2, <1>4 DEF Slot

\* The components of a state of the clock; its sets of frames are finite.
LEMMA ClockFields ==
  ASSUME NEW r \in ReplacerState
  PROVE  /\ r.hand \in Frames
         /\ r.evictable \in SUBSET Frames
         /\ r.ref_bit \in SUBSET Frames
         /\ r.size \in Int
         /\ IsFiniteSet(r.evictable)
<1>1. IsFiniteSet(Frames)
  BY FS_Interval, NumFramesAssumption DEF Frames
<1>2. r.evictable \in SUBSET Frames
  BY DEF ReplacerState
<1>3. IsFiniteSet(r.evictable)
  BY <1>1, <1>2, FS_Subset
<1> QED BY <1>2, <1>3 DEF ReplacerState

\* Pin keeps the count.
LEMMA ClockPinKeeps ==
  ASSUME NEW r \in ReplacerState, NEW f \in Frames,
         r.size = Cardinality(r.evictable)
  PROVE  /\ ClockPin(r, f) \in ReplacerState
         /\ ClockPin(r, f).size = Cardinality(ClockPin(r, f).evictable)
<1>1. CASE f \in r.evictable
  <2> DEFINE e == r.evictable \ {f}
             b == r.ref_bit \cup {f}
  <2>1. e \in SUBSET Frames /\ b \in SUBSET Frames /\ r.size - 1 \in Int
    BY ClockFields
  <2>2. r.size - 1 = Cardinality(e)
    <3>1. IsFiniteSet(r.evictable)
      BY ClockFields
    <3> QED BY <1>1, <3>1, FS_RemoveElement
  <2>3. ClockPin(r, f) = [r EXCEPT !.evictable = e, !.ref_bit = b, !.size = r.size - 1]
    BY <1>1 DEF ClockPin, ReplacerState
  <2> HIDE DEF e, b
  <2> QED BY <2>1, <2>2, <2>3 DEF ReplacerState
<1>2. CASE f \notin r.evictable
  BY <1>2 DEF ClockPin
<1> QED BY <1>1, <1>2

\* Unpin keeps the count.
LEMMA ClockUnpinKeeps ==
  ASSUME NEW r \in ReplacerState, NEW f \in Frames,
         r.size = Cardinality(r.evictable)
  PROVE  /\ ClockUnpin(r, f) \in ReplacerState
         /\ ClockUnpin(r, f).size = Cardinality(ClockUnpin(r, f).evictable)
<1>1. CASE f \notin r.evictable
  <2> DEFINE e == r.evictable \cup {f}
             b == r.ref_bit \cup {f}
  <2>1. e \in SUBSET Frames /\ b \in SUBSET Frames /\ r.size + 1 \in Int
    BY ClockFields
  <2>2. r.size + 1 = Cardinality(e)
    BY <1>1, ClockFields, FS_AddElement
  <2>3. ClockUnpin(r, f) = [r EXCEPT !.evictable = e, !.ref_bit = b, !.size = r.size + 1]
    BY <1>1 DEF ClockUnpin, ReplacerState
  <2> HIDE DEF e, b
  <2> QED BY <2>1, <2>2, <2>3 DEF ReplacerState
<1>2. CASE f \in r.evictable
  BY <1>2 DEF ClockUnpin
<1> QED BY <1>1, <1>2

\* Victim keeps the count; a sweep that found none although frames were evictable has
\* cleared all their reference bits.
LEMMA SweepKeeps ==
  ASSUME NEW r \in ReplacerState, r.size = Cardinality(r.evictable)
  PROVE  LET a == AfterVictim(r)
         IN  /\ a \in ReplacerState
             /\ a.size = Cardinality(a.evictable)
             /\ ~VictimFound(r) /\ r.evictable # {} =>
                   a.evictable # {} /\ a.evictable \cap a.ref_bit = {}
<1>1. CASE VictimFound(r)
  <2> DEFINE v == VictimFrame(r)
             e == r.evictable \ {v}
             b == r.ref_bit \ Swept(r, VictimOffset(r))
             h == (v + 1) % NumFrames
  <2>0. v \in r.evictable /\ v \in Frames
    BY <1>1, VictimIsEvictable, ClockFields
  <2>1. e \in SUBSET Frames /\ b \in SUBSET Frames /\ r.size - 1 \in Int
    BY ClockFields
  <2>2. r.size - 1 = Cardinality(e)
    <3>1. IsFiniteSet(r.evictable)
      BY ClockFields
    <3> HIDE DEF v
    <3> QED BY <2>0, <3>1, FS_RemoveElement
  <2>3. AfterVictim(r) =
          [r EXCEPT !.hand = h, !.evictable = e, !.ref_bit = b, !.size = r.size - 1]
    BY <1>1 DEF AfterVictim, ReplacerState
  <2>4. h \in Frames
    BY <2>0, NumFramesAssumption DEF Frames
  <2> HIDE DEF e, b, h
  <2> QED BY <1>1, <2>1, <2>2, <2>3, <2>4 DEF ReplacerState
<1>2. CASE ~VictimFound(r) /\ r.size = 0
  <2>1. r.evictable = {}
    BY <1>2, ClockFields, FS_EmptySet
  <2>2. AfterVictim(r) = r
    BY <1>2 DEF AfterVictim
  <2> QED BY <2>1, <2>2
<1>3. CASE ~VictimFound(r) /\ r.size # 0
  <2> DEFINE b == r.ref_bit \ r.evictable
  <2>1. AfterVictim(r) = [r EXCEPT !.ref_bit = b]
    BY <1>3 DEF AfterVictim, ReplacerState
  <2>2. b \in SUBSET Frames /\ r.evictable \cap b = {}
    BY ClockFields
  <2> HIDE DEF b
  <2> QED BY <2>1, <2>2 DEF ReplacerState
<1> QED BY <1>1, <1>2, <1>3

\* A clock whose evictable frames have all lost their reference bit finds a victim
\* in its next sweep.
LEMMA ClearedIsFound ==
  ASSUME NEW r \in ReplacerState, r.size = Cardinality(r.evictable),
         r.evictable # {}, r.evictable \cap r.ref_bit = {}
  PROVE  VictimFound(r)
<1>1. PICK f \in r.evictable : f \in Frames
  BY ClockFields
<1>2. PICK k \in Frames : Slot(r, k) = f
  BY <1>1, HandReaches
<1>3. k \in EvictableOffsets(r)
  BY <1>1, <1>2 DEF EvictableOffsets
<1>4. r.size # 0
  BY ClockFields, FS_EmptySet
<1> QED BY <1>3, <1>4 DEF VictimFound

\* clock_replacer.cpp: size_ is the number of evictable frames after any sequence of
\* calls, and a Victim that returned false although frames were evictable succeeds when
\* it is called again.
THEOREM ClockCorrect == ClockSpec => []ClockSound
<1>1. ClockInit => ClockInv
  <2> SUFFICES ASSUME ClockInit
               PROVE  ClockInv
    OBVIOUS
  <2>1. 0 \in Frames /\ {} \in SUBSET Frames /\ Cardinality({}) = 0
    BY NumFramesAssumption, FS_EmptySet DEF Frames
  <2>2. clock \in ReplacerState /\ clock.size = Cardinality(clock.evictable)
    BY <2>1 DEF ClockInit, ClockEmpty, ReplacerState
  <2> QED BY <2>2 DEF ClockInit, ClockTypeOK, ClockInv
<1>2. ClockInv /\ [ClockNext]_clock_vars => ClockInv'
  <2> SUFFICES ASSUME ClockInv, [ClockNext]_clock_vars
               PROVE  ClockInv'
    OBVIOUS
  <2>0. clock \in ReplacerState /\ clock.size = Cardinality(clock.evictable)
    BY DEF ClockInv, ClockTypeOK
  <2>1. CASE Victim
    <3>1. /\ clock' \in ReplacerState
          /\ clock'.size = Cardinality(clock'.evictable)
          /\ ~VictimFound(clock) /\ clock.evictable # {} =>
                clock'.evictable # {} /\ clock'.evictable \cap clock'.ref_bit = {}
      BY <2>0, <2>1, SweepKeeps DEF Victim
    <3>2. answer' \in Frames \cup {INVALID_FRAME_ID}
      <4>1. CASE VictimFound(clock)
        <5>1. VictimFrame(clock) \in Frames
          BY <4>1, <2>0, VictimIsEvictable, ClockFields
        <5> QED BY <4>1, <5>1, <2>1 DEF Victim
      <4>2. CASE ~VictimFound(clock)
        BY <4>2, <2>1 DEF Victim
      <4> QED BY <4>1, <4>2
    <3>3. missed' \in BOOLEAN
      BY <2>1 DEF Victim
    <3>4. missed' => ~VictimFound(clock) /\ clock.evictable # {}
      BY <2>1 DEF Victim
    <3> QED BY <3>1, <3>2, <3>3, <3>4 DEF ClockInv, ClockTypeOK
  <2>2. ASSUME NEW f \in Frames, Pin(f) \/ Unpin(f)
        PROVE  ClockInv'
    <3>1. /\ clock' \in ReplacerState
          /\ clock'.size = Cardinality(clock'.evictable)
      BY <2>0, <2>2, ClockPinKeeps, ClockUnpinKeeps DEF Pin, Unpin
    <3>2. missed' = FALSE /\ answer' = answer
      BY <2>2 DEF Pin, Unpin
    <3> QED BY <3>1, <3>2 DEF ClockInv, ClockTypeOK
  <2>3. CASE UNCHANGED clock_vars
    BY <2>3 DEF clock_vars, ClockInv, ClockTypeOK
  <2> QED BY <2>1, <2>2, <2>3 DEF ClockNext
<1>3. ClockInv => ClockSound
  <2> SUFFICES ASSUME ClockInv
               PROVE  ClockSound
    OBVIOUS
  <2>1. clock \in ReplacerState /\ clock.size = Cardinality(clock.evictable)
    BY DEF ClockInv, ClockTypeOK
  <2>2. ClockTypeOK
    BY DEF ClockInv
  <2>3. SizeCountsEvictable
    BY <2>1 DEF SizeCountsEvictable
  <2>4. OneRetryIsEnough
    BY <2>1, ClearedIsFound DEF ClockInv, OneRetryIsEnough
  <2> QED BY <2>2, <2>3, <2>4 DEF ClockSound
<1> QED BY <1>1, <1>2, <1>3, PTL DEF ClockSpec
=============================================================================
