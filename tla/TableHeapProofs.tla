--------------------------- MODULE TableHeapProofs ---------------------------
(***************************************************************************)
(* Proofs about the table heap, for any page layout, any number of         *)
(* writers, scanners, pages, tuples and scans, and any faults.             *)
(***************************************************************************)
EXTENDS TableHeap, SequenceTheorems, WellFoundedInduction, TLAPS

-----------------------------------------------------------------------------
(* Numbers.                                                                *)

\* A nonempty set of numbers has a least element.
LEMMA SomeLeast ==
  ASSUME NEW S, S \subseteq Nat, S # {}
  PROVE  \E k \in S : \A j \in S : k <= j
<1>1. PICK k \in S : \A j \in S : ~(<<j, k>> \in OpToRel(<, Nat))
  BY WFMin, NatLessThanWellFounded
<1>2. \A j \in S : ~(j < k)
  BY <1>1 DEF OpToRel
<1> QED BY <1>2

\* Min is the least element of a set of numbers.
LEMMA MinIsLeast ==
  ASSUME NEW S, S \subseteq Nat, S # {}
  PROVE  Min(S) \in S /\ \A j \in S : Min(S) <= j
BY SomeLeast DEF Min

\* Induction up to a number.
LEMMA UpTo ==
  ASSUME NEW n \in Nat, NEW S, 0 \in S, \A m \in 0 .. n - 1 : m \in S => m + 1 \in S
  PROVE  \A m \in 0 .. n : m \in S
<1> DEFINE Missing == {m \in 0 .. n : m \notin S}
<1>1. ASSUME Missing # {} PROVE FALSE
  <2>1. PICK k \in Missing : \A j \in Missing : k <= j
    <3>1. Missing \subseteq Nat
      OBVIOUS
    <3> HIDE DEF Missing
    <3> QED BY <1>1, <3>1, SomeLeast
  <2>2. k - 1 \in 0 .. n - 1 /\ k - 1 \in 0 .. n /\ ~(k <= k - 1)
    BY <2>1
  <2>3. k - 1 \in S
    BY <2>1, <2>2
  <2>4. (k - 1) + 1 \in S
    BY <2>2, <2>3
  <2> QED BY <2>1, <2>2, <2>4
<1> QED BY <1>1

\* The layout's constants are numbers, tuples have bytes, and a page has room for one.
LEMMA Constants ==
  /\ PAGE_SIZE \in Nat /\ TABLE_PAGE_HEADER_SIZE \in Nat /\ SLOT_SIZE \in Nat
  /\ MAX_TUPLE_SIZE \in Nat /\ UINT32 \in Nat
  /\ SLOT_SIZE > 0
  /\ TABLE_PAGE_HEADER_SIZE + SLOT_SIZE + MAX_TUPLE_SIZE <= PAGE_SIZE
  /\ UINT32 > 2 * PAGE_SIZE
  /\ MaxPages \in Nat /\ MaxPages > 0 /\ MaxWrites \in Nat /\ MaxScans \in Nat
  /\ Sizes # {}
  /\ \A z \in Sizes : z \in Nat /\ z > 0 /\ z <= MAX_TUPLE_SIZE
BY LayoutAssumption, HeapAssumption

\* The slot array grows by the size of a slot.
LEMMA SlotArrayGrows ==
  ASSUME NEW n \in Nat
  PROVE  /\ SlotArrayEnd(n) \in Nat
         /\ SlotArrayEnd(n + 1) = SlotArrayEnd(n) + SLOT_SIZE
<1>1. n * SLOT_SIZE \in Nat /\ (n + 1) * SLOT_SIZE = n * SLOT_SIZE + SLOT_SIZE
  BY Constants
<1> QED BY <1>1, Constants DEF SlotArrayEnd

\* Two intervals that are not empty have no number in common if one ends before the
\* other begins.
LEMMA Apart ==
  ASSUME NEW a \in Int, NEW b \in Int, NEW s \in Nat, NEW t \in Nat, s > 0, t > 0
  PROVE  (a .. a + s - 1) \cap (b .. b + t - 1) = {} <=> (a + s <= b \/ b + t <= a)
<1>1. ASSUME (a .. a + s - 1) \cap (b .. b + t - 1) = {}, a < b + t, b < a + s
      PROVE  FALSE
  <2>1. CASE a <= b
    BY <1>1, <2>1
  <2>2. CASE b <= a
    BY <1>1, <2>2
  <2> QED BY <2>1, <2>2
<1> QED BY <1>1

\* Subtraction in 32 bits, when the difference is not negative and when it is.
LEMMA Wrap ==
  ASSUME NEW a \in Nat, NEW z \in Nat, a < UINT32, z < UINT32
  PROVE  (a - z + UINT32) % UINT32 = IF z <= a THEN a - z ELSE a - z + UINT32
<1>1. UINT32 \in Nat /\ UINT32 > 0
  BY Constants
<1>2. CASE z <= a
  <2>1. a - z \in Nat /\ a - z < UINT32
    BY <1>1, <1>2
  <2>2. PICK x \in Nat : x = a - z
    BY <2>1
  <2>3. (x + UINT32) % UINT32 = x
    BY <2>1, <2>2, <1>1
  <2> QED BY <1>2, <2>2, <2>3
<1>3. CASE ~(z <= a)
  <2>1. PICK x \in Nat : x = a - z + UINT32
    BY <1>1, <1>3
  <2>2. x < UINT32
    BY <1>1, <1>3, <2>1
  <2>3. x % UINT32 = x
    BY <2>2, <1>1
  <2> QED BY <1>3, <2>1, <2>3
<1> QED BY <1>2, <1>3

-----------------------------------------------------------------------------
(* One page.                                                               *)

PageType == [prev : 0 .. MaxPages, next : 0 .. MaxPages,
             slots : Seq([offset : {DELETED} \cup Bytes, size : Sizes]),
             data : [Bytes -> 0 .. MaxWrites]]

SlotType == [offset : {DELETED} \cup Bytes, size : Sizes]

\* The layout in numbers
Laid(pg) ==
  /\ \A i \in LiveSlots(pg) :
        /\ SlotArrayEnd(Len(pg.slots)) <= pg.slots[i].offset
        /\ pg.slots[i].offset + pg.slots[i].size <= PAGE_SIZE
  /\ \A i, j \in LiveSlots(pg) : i # j =>
        \/ pg.slots[i].offset + pg.slots[i].size <= pg.slots[j].offset
        \/ pg.slots[j].offset + pg.slots[j].size <= pg.slots[i].offset

PageOK(pg) == pg \in PageType /\ Laid(pg)

\* The parts of a page
LEMMA PageParts ==
  ASSUME NEW pg \in PageType
  PROVE  /\ pg.prev \in 0 .. MaxPages /\ pg.next \in 0 .. MaxPages
         /\ pg.slots \in Seq(SlotType)
         /\ pg.data \in [Bytes -> 0 .. MaxWrites]
         /\ Len(pg.slots) \in Nat
         /\ SlotsOf(pg) = 1 .. Len(pg.slots)
         /\ LiveSlots(pg) \subseteq 1 .. Len(pg.slots)
         /\ \A i \in 1 .. Len(pg.slots) :
               /\ pg.slots[i] \in SlotType
               /\ pg.slots[i].offset \in Int /\ pg.slots[i].offset <= PAGE_SIZE
               /\ pg.slots[i].size \in Nat /\ pg.slots[i].size > 0 /\ pg.slots[i].size \in Sizes
               /\ IsDeleted(pg, i) \/ pg.slots[i].offset \in Bytes
<1>1. /\ pg.prev \in 0 .. MaxPages /\ pg.next \in 0 .. MaxPages
      /\ pg.slots \in Seq(SlotType)
      /\ pg.data \in [Bytes -> 0 .. MaxWrites]
  BY DEF PageType, SlotType
<1>2. Len(pg.slots) \in Nat /\ DOMAIN pg.slots = 1 .. Len(pg.slots)
  BY <1>1
<1>3. ASSUME NEW i \in 1 .. Len(pg.slots)
      PROVE  /\ pg.slots[i] \in SlotType
             /\ pg.slots[i].offset \in Int /\ pg.slots[i].offset <= PAGE_SIZE
             /\ pg.slots[i].size \in Nat /\ pg.slots[i].size > 0 /\ pg.slots[i].size \in Sizes
             /\ IsDeleted(pg, i) \/ pg.slots[i].offset \in Bytes
  <2>1. pg.slots[i] \in SlotType
    BY <1>1
  <2>2. pg.slots[i].offset \in {DELETED} \cup Bytes /\ pg.slots[i].size \in Sizes
    BY <2>1 DEF SlotType
  <2> QED BY <2>1, <2>2, Constants DEF IsDeleted, DELETED, Bytes
<1> QED BY <1>1, <1>2, <1>3 DEF SlotsOf, LiveSlots

\* The layout in numbers is the layout.
LEMMA LaidIsSound ==
  ASSUME NEW pg \in PageType
  PROVE  Laid(pg) <=> LayoutSound(pg)
<1>1. ASSUME NEW i \in LiveSlots(pg), NEW j \in LiveSlots(pg)
      PROVE  Extent(pg, i) \cap Extent(pg, j) = {} <=>
                \/ pg.slots[i].offset + pg.slots[i].size <= pg.slots[j].offset
                \/ pg.slots[j].offset + pg.slots[j].size <= pg.slots[i].offset
  <2>1. /\ pg.slots[i].offset \in Int /\ pg.slots[j].offset \in Int
        /\ pg.slots[i].size \in Nat /\ pg.slots[i].size > 0
        /\ pg.slots[j].size \in Nat /\ pg.slots[j].size > 0
    BY PageParts
  <2> QED BY <2>1, Apart DEF Extent
<1> QED BY <1>1 DEF Laid, LayoutSound

\* Where the lowest tuple starts
LEMMA Lowest ==
  ASSUME NEW pg, PageOK(pg)
  PROVE  /\ LowestTuple(pg) \in 0 .. PAGE_SIZE
         /\ \A i \in LiveSlots(pg) : LowestTuple(pg) <= pg.slots[i].offset
<1> DEFINE S == {PAGE_SIZE} \cup {pg.slots[i].offset : i \in LiveSlots(pg)}
<1>1. \A i \in LiveSlots(pg) : pg.slots[i].offset \in Bytes
  BY PageParts DEF PageOK, LiveSlots
<1>2. S \subseteq 0 .. PAGE_SIZE /\ S \subseteq Nat /\ S # {}
  BY <1>1, Constants DEF Bytes
<1>3. LowestTuple(pg) = Min(S)
  BY DEF LowestTuple
<1>4. \A i \in LiveSlots(pg) : pg.slots[i].offset \in S
  OBVIOUS
<1> HIDE DEF S
<1>5. Min(S) \in S /\ \A j \in S : Min(S) <= j
  BY <1>2, MinIsLeast
<1> QED BY <1>2, <1>3, <1>4, <1>5

\* The pages that a tuple is added to: its offset is known.
Fits(pg, size, off) ==
  /\ off \in Bytes
  /\ off = NewTupleOffset(pg, size)
  /\ SlotArrayEnd(Len(pg.slots) + 1) <= off
  /\ off + size <= LowestTuple(pg)

\* InsertTuple of the heap asks for room first.
LEMMA RoomFits ==
  ASSUME NEW pg, PageOK(pg), NEW size \in Sizes, HasRoom(pg, size)
  PROVE  \E off : Fits(pg, size, off)
<1>1. PICK low \in 0 .. PAGE_SIZE : low = LowestTuple(pg)
  BY Lowest
<1>2. PICK n \in Nat : n = Len(pg.slots)
  BY PageParts DEF PageOK
<1>3. PICK end \in Nat : end = SlotArrayEnd(n)
  BY SlotArrayGrows
<1>4. SlotArrayEnd(n + 1) = end + SLOT_SIZE
  BY <1>3, SlotArrayGrows
<1>5. Max({0, low - end}) \in {0, low - end}
  <2>1. \E x \in {0, low - end} : \A y \in {0, low - end} : x >= y
    BY <1>1, <1>3, Constants
  <2> QED BY <2>1 DEF Max
<1>6. Max({0, low - end}) >= size + SLOT_SIZE
  BY <1>1, <1>2, <1>3 DEF HasRoom, GetFreeSpace
<1>7. low - end >= size + SLOT_SIZE
  BY <1>1, <1>3, <1>5, <1>6, Constants
<1>8. low - size \in Bytes /\ end + SLOT_SIZE <= low - size /\ size <= low
  BY <1>1, <1>3, <1>7, Constants DEF Bytes
<1>9. low < UINT32 /\ size < UINT32
  BY <1>1, <1>8, Constants
<1>10. (low - size + UINT32) % UINT32 = IF size <= low THEN low - size ELSE low - size + UINT32
  BY <1>1, <1>9, Wrap, Constants
<1>11. Fits(pg, size, low - size)
  BY <1>1, <1>2, <1>4, <1>8, <1>10, Constants DEF Fits, NewTupleOffset
<1> QED BY <1>11

\* A tuple that InsertTuple of the page accepts, and that does not leave the page
LEMMA AcceptedFits ==
  ASSUME NEW pg, PageOK(pg), NEW size \in Sizes,
         InsertAccepts(pg, size), ~InsertOverruns(pg, size)
  PROVE  \E off : Fits(pg, size, off)
<1>1. PICK low \in 0 .. PAGE_SIZE : low = LowestTuple(pg)
  BY Lowest
<1>2. PICK n \in Nat : n = Len(pg.slots)
  BY PageParts DEF PageOK
<1>3. PICK end \in Nat : end = SlotArrayEnd(n + 1)
  BY SlotArrayGrows
<1>4. low < UINT32 /\ size < UINT32
  BY <1>1, Constants
<1>5. (low - size + UINT32) % UINT32 = IF size <= low THEN low - size ELSE low - size + UINT32
  BY <1>1, <1>4, Wrap, Constants
<1>6. end <= (low - size + UINT32) % UINT32 /\ ~((low - size + UINT32) % UINT32 > PAGE_SIZE)
  BY <1>1, <1>2, <1>3 DEF InsertAccepts, InsertOverruns, NewTupleOffset
<1>7. size <= low
  BY <1>1, <1>5, <1>6, Constants
<1>8. low - size \in Bytes /\ end <= low - size
  BY <1>1, <1>3, <1>5, <1>6, <1>7, Constants DEF Bytes
<1>9. Fits(pg, size, low - size)
  BY <1>1, <1>2, <1>3, <1>5, <1>7, <1>8, Constants DEF Fits, NewTupleOffset
<1> QED BY <1>9

\* A slot that keeps its place and its bytes holds the same tuple.
LEMMA SameTuple ==
  ASSUME NEW pg, NEW new, NEW i, i \in SlotsOf(pg), i \in SlotsOf(new),
         new.slots[i] = pg.slots[i],
         ~IsDeleted(pg, i) => \A b \in Extent(pg, i) : new.data[b] = pg.data[b]
  PROVE  GetTuple(new, i) = GetTuple(pg, i)
<1>1. IsDeleted(new, i) = IsDeleted(pg, i) /\ Extent(new, i) = Extent(pg, i)
  BY DEF IsDeleted, Extent
<1> QED BY <1>1 DEF GetTuple, InRange

\* The bytes of live slots are bytes of the page.
LEMMA ExtentInPage ==
  ASSUME NEW pg, PageOK(pg), NEW i \in LiveSlots(pg)
  PROVE  Extent(pg, i) \subseteq Bytes /\ pg.slots[i].offset \in Extent(pg, i)
<1>1. /\ pg.slots[i].offset \in Bytes /\ pg.slots[i].size \in Nat /\ pg.slots[i].size > 0
      /\ pg.slots[i].offset + pg.slots[i].size <= PAGE_SIZE
  BY PageParts DEF PageOK, LiveSlots, Laid
<1> QED BY <1>1, Constants DEF Extent, Bytes

\* What Fill leaves in the bytes of a page
LEMMA FillBytes ==
  ASSUME NEW data \in [Bytes -> 0 .. MaxWrites], NEW from \in Int, NEW size \in Nat,
         NEW tag \in 0 .. MaxWrites
  PROVE  /\ Fill(data, from, size, tag) \in [Bytes -> 0 .. MaxWrites]
         /\ \A b \in Bytes : Fill(data, from, size, tag)[b] =
                               IF from <= b /\ b < from + size THEN tag ELSE data[b]
BY DEF Fill

\* InsertTuple: the page stays sound, the tuples it had stay where they are, and the
\* new one is in the slot after them.
LEMMA InsertKeeps ==
  ASSUME NEW pg, PageOK(pg), NEW size \in Sizes, NEW tag \in 0 .. MaxWrites,
         NEW off, Fits(pg, size, off), NEW new, new = InsertTuple(pg, size, tag)
  PROVE  /\ PageOK(new)
         /\ new.prev = pg.prev /\ new.next = pg.next
         /\ Len(new.slots) = Len(pg.slots) + 1
         /\ LiveSlots(new) = LiveSlots(pg) \cup {Len(pg.slots) + 1}
         /\ \A i \in 1 .. Len(pg.slots) : GetTuple(new, i) = GetTuple(pg, i)
         /\ GetTuple(new, Len(pg.slots) + 1) = {tag}
<1> DEFINE n == Len(pg.slots)
           slot == [offset |-> off, size |-> size]
<1>0. /\ pg \in PageType /\ Laid(pg) /\ n \in Nat /\ pg.slots \in Seq(SlotType)
      /\ off \in Int /\ off >= 0 /\ off \in Bytes /\ size \in Nat /\ size > 0
  BY PageParts, Constants DEF PageOK, Fits, Bytes
<1>1. /\ new = [pg EXCEPT !.data = Fill(pg.data, off, size, tag), !.slots = Append(pg.slots, slot)]
      /\ slot \in SlotType
  BY <1>0 DEF InsertTuple, Fits, SlotType
<1>2. /\ new.prev = pg.prev /\ new.next = pg.next
      /\ new.slots = Append(pg.slots, slot)
      /\ new.data = Fill(pg.data, off, size, tag)
      /\ new.data \in [Bytes -> 0 .. MaxWrites]
  <2>1. pg.data \in [Bytes -> 0 .. MaxWrites]
    BY <1>0, PageParts
  <2>2. Fill(pg.data, off, size, tag) \in [Bytes -> 0 .. MaxWrites]
    BY <1>0, <2>1, FillBytes
  <2> QED BY <1>0, <1>1, <2>2 DEF PageType
<1>3. /\ new.slots \in Seq(SlotType) /\ Len(new.slots) = n + 1
      /\ \A i \in 1 .. n : new.slots[i] = pg.slots[i]
      /\ new.slots[n + 1] = slot
  BY <1>0, <1>1, <1>2
<1>4. new \in PageType
  BY <1>0, <1>1, <1>2, <1>3 DEF PageType, SlotType
<1>5. SlotsOf(new) = 1 .. n + 1 /\ SlotsOf(pg) = 1 .. n
  BY <1>0, <1>3, <1>4, PageParts
<1>6. off # DELETED
  BY <1>0 DEF DELETED
<1>7. LiveSlots(new) = LiveSlots(pg) \cup {n + 1}
  <2>1. \A i \in 1 .. n : IsDeleted(new, i) = IsDeleted(pg, i)
    BY <1>3 DEF IsDeleted
  <2>2. ~IsDeleted(new, n + 1)
    BY <1>3, <1>6 DEF IsDeleted
  <2> HIDE DEF n
  <2> QED BY <1>0, <1>5, <2>1, <2>2 DEF LiveSlots
<1>8. \A i \in LiveSlots(pg) : /\ i \in 1 .. n /\ i # n + 1
                               /\ off + size <= pg.slots[i].offset
                               /\ pg.slots[i].offset \in Int /\ pg.slots[i].size \in Nat
  <2>1. PICK low \in Int : low = LowestTuple(pg)
    BY Lowest
  <2>2. \A i \in LiveSlots(pg) : low <= pg.slots[i].offset
    BY <2>1, Lowest
  <2>3. off + size <= low
    BY <2>1 DEF Fits
  <2>4. \A i \in LiveSlots(pg) : i \in 1 .. n /\ i # n + 1 /\ pg.slots[i].offset \in Int
                                 /\ pg.slots[i].size \in Nat
    BY <1>0, PageParts
  <2> QED BY <1>0, <2>1, <2>2, <2>3, <2>4
<1>9. Laid(new)
  <2>1. PICK end \in Int : end = SlotArrayEnd(n + 1) /\ SlotArrayEnd(n) <= end /\ end <= off
    <3>1. SlotArrayEnd(n) \in Nat /\ SlotArrayEnd(n + 1) = SlotArrayEnd(n) + SLOT_SIZE
      BY <1>0, SlotArrayGrows
    <3>2. SlotArrayEnd(n + 1) <= off
      BY DEF Fits
    <3> HIDE DEF n
    <3> QED BY <3>1, <3>2, Constants
  <2>2. off + size <= PAGE_SIZE
    BY <1>0, Lowest, Constants DEF Fits
  <2>3. ASSUME NEW i \in LiveSlots(new)
        PROVE  SlotArrayEnd(Len(new.slots)) <= new.slots[i].offset
               /\ new.slots[i].offset + new.slots[i].size <= PAGE_SIZE
    <3>1. CASE i = n + 1
      BY <1>3, <2>1, <2>2, <3>1
    <3>2. CASE i # n + 1
      <4>1. i \in LiveSlots(pg) /\ new.slots[i] = pg.slots[i]
        BY <1>3, <1>7, <1>8, <3>2
      <4>2. pg.slots[i].offset + pg.slots[i].size <= PAGE_SIZE
        BY <1>0, <4>1 DEF Laid
      <4> QED BY <1>0, <1>3, <1>8, <2>1, <4>1, <4>2
    <3> QED BY <3>1, <3>2
  <2>4. ASSUME NEW i \in LiveSlots(new), NEW j \in LiveSlots(new), i # j
        PROVE  \/ new.slots[i].offset + new.slots[i].size <= new.slots[j].offset
               \/ new.slots[j].offset + new.slots[j].size <= new.slots[i].offset
    <3>1. CASE i = n + 1
      <4>1. j \in LiveSlots(pg) /\ new.slots[j] = pg.slots[j]
        BY <1>3, <1>7, <1>8, <2>4, <3>1
      <4> QED BY <1>3, <1>8, <3>1, <4>1
    <3>2. CASE j = n + 1
      <4>1. i \in LiveSlots(pg) /\ new.slots[i] = pg.slots[i]
        BY <1>3, <1>7, <1>8, <2>4, <3>2
      <4>2. new.slots[j].offset = off /\ new.slots[j].size = size
        BY <1>3, <3>2
      <4> QED BY <1>8, <4>1, <4>2
    <3>3. CASE i # n + 1 /\ j # n + 1
      <4>1. /\ i \in LiveSlots(pg) /\ new.slots[i] = pg.slots[i]
            /\ j \in LiveSlots(pg) /\ new.slots[j] = pg.slots[j]
        BY <1>3, <1>7, <1>8, <3>3
      <4> QED BY <1>0, <2>4, <4>1 DEF Laid
    <3> QED BY <3>1, <3>2, <3>3
  <2> QED BY <2>3, <2>4 DEF Laid
<1>10. \A b \in Bytes : new.data[b] = IF off <= b /\ b < off + size THEN tag ELSE pg.data[b]
  <2>1. pg.data \in [Bytes -> 0 .. MaxWrites]
    BY <1>0, PageParts
  <2>2. off \in Int /\ size \in Nat /\ new.data = Fill(pg.data, off, size, tag)
    BY <1>0, <1>2
  <2>3. \A b \in Bytes : Fill(pg.data, off, size, tag)[b] =
                           IF off <= b /\ b < off + size THEN tag ELSE pg.data[b]
    BY <2>1, <2>2, FillBytes
  <2> QED BY <2>2, <2>3
<1>11. ASSUME NEW i \in 1 .. n PROVE GetTuple(new, i) = GetTuple(pg, i)
  <2>1. ASSUME ~IsDeleted(pg, i), NEW b \in Extent(pg, i) PROVE new.data[b] = pg.data[b]
    <3>1. i \in LiveSlots(pg)
      BY <1>5, <2>1 DEF LiveSlots
    <3>2. b \in Bytes /\ b >= pg.slots[i].offset
      BY <1>8, <2>1, <3>1, ExtentInPage DEF Extent
    <3>3. ~(b < off + size)
      BY <1>0, <1>8, <3>1, <3>2, Constants DEF Bytes
    <3> QED BY <1>10, <3>2, <3>3
  <2>2. i \in SlotsOf(pg) /\ i \in SlotsOf(new) /\ new.slots[i] = pg.slots[i]
    BY <1>0, <1>3, <1>5
  <2> QED BY <2>1, <2>2, SameTuple
<1>12. GetTuple(new, n + 1) = {tag}
  <2>1. n + 1 \in SlotsOf(new) /\ ~IsDeleted(new, n + 1)
    BY <1>0, <1>5, <1>3, <1>6 DEF IsDeleted
  <2>2. Extent(new, n + 1) = off .. off + size - 1
    BY <1>3 DEF Extent
  <2>3. \A b \in off .. off + size - 1 : new.data[b] = tag
    <3>1. n + 1 \in LiveSlots(new)
      BY <1>7
    <3>2. Extent(new, n + 1) \subseteq Bytes
      BY <1>4, <1>9, <3>1, ExtentInPage DEF PageOK
    <3> QED BY <1>0, <1>10, <2>2, <3>2
  <2>4. off \in off .. off + size - 1
    BY <1>0
  <2>5. {new.data[b] : b \in off .. off + size - 1} = {tag}
    BY <2>3, <2>4
  <2> QED BY <2>1, <2>2, <2>5 DEF GetTuple, InRange
<1> QED BY <1>2, <1>3, <1>4, <1>7, <1>9, <1>11, <1>12 DEF PageOK

\* MarkDelete: the slot is dead, the others are untouched.
LEMMA MarkKeeps ==
  ASSUME NEW pg, PageOK(pg), NEW d, NEW new, new = MarkDelete(pg, d)
  PROVE  /\ PageOK(new)
         /\ new.prev = pg.prev /\ new.next = pg.next
         /\ Len(new.slots) = Len(pg.slots)
         /\ LiveSlots(new) = LiveSlots(pg) \ {d}
         /\ \A i \in 1 .. Len(pg.slots) : i # d => GetTuple(new, i) = GetTuple(pg, i)
<1>0. /\ pg \in PageType /\ Laid(pg) /\ Len(pg.slots) \in Nat /\ pg.slots \in Seq(SlotType)
      /\ SlotsOf(pg) = 1 .. Len(pg.slots) /\ LiveSlots(pg) \subseteq 1 .. Len(pg.slots)
  BY PageParts DEF PageOK
<1>1. CASE d \notin SlotsOf(pg)
  <2>1. new = pg
    BY <1>1 DEF MarkDelete, InRange
  <2>2. d \notin LiveSlots(pg)
    BY <1>1 DEF LiveSlots
  <2> QED BY <1>0, <2>1, <2>2
<1>2. CASE d \in SlotsOf(pg)
  <2>1. PICK slot : slot = [pg.slots[d] EXCEPT !.offset = DELETED]
    OBVIOUS
  <2>2. d \in 1 .. Len(pg.slots) /\ pg.slots[d] \in SlotType
    BY <1>0, <1>2, PageParts
  <2>3. slot \in SlotType /\ slot.offset = DELETED
    BY <2>1, <2>2 DEF SlotType
  <2>4. new = [pg EXCEPT !.slots = [pg.slots EXCEPT ![d] = slot]]
    BY <1>2, <2>1 DEF MarkDelete, InRange
  <2>5. /\ new.prev = pg.prev /\ new.next = pg.next /\ new.data = pg.data
        /\ new.slots = [pg.slots EXCEPT ![d] = slot]
    BY <1>0, <2>4 DEF PageType
  <2>6. /\ new.slots \in Seq(SlotType) /\ Len(new.slots) = Len(pg.slots)
        /\ new.slots[d] = slot
        /\ \A i \in 1 .. Len(pg.slots) : i # d => new.slots[i] = pg.slots[i]
    BY <1>0, <2>2, <2>3, <2>5
  <2>7. new \in PageType
    BY <1>0, <2>4, <2>6 DEF PageType, SlotType
  <2>8. SlotsOf(new) = 1 .. Len(pg.slots)
    BY <2>6, <2>7, PageParts
  <2>9. LiveSlots(new) = LiveSlots(pg) \ {d}
    <3>1. IsDeleted(new, d)
      BY <2>3, <2>6 DEF IsDeleted
    <3>2. \A i \in 1 .. Len(pg.slots) : i # d => IsDeleted(new, i) = IsDeleted(pg, i)
      BY <2>6 DEF IsDeleted
    <3> QED BY <1>0, <2>8, <3>1, <3>2 DEF LiveSlots
  <2>10. \A i \in LiveSlots(new) : i \in LiveSlots(pg) /\ new.slots[i] = pg.slots[i]
    BY <1>0, <2>6, <2>9
  <2>11. Laid(new)
    BY <1>0, <2>6, <2>10 DEF Laid
  <2>12. ASSUME NEW i \in 1 .. Len(pg.slots), i # d PROVE GetTuple(new, i) = GetTuple(pg, i)
    <3>1. i \in SlotsOf(pg) /\ i \in SlotsOf(new) /\ new.slots[i] = pg.slots[i]
      BY <1>0, <2>6, <2>8, <2>12
    <3>2. \A b \in Extent(pg, i) : new.data[b] = pg.data[b]
      BY <2>5
    <3> QED BY <3>1, <3>2, SameTuple
  <2> QED BY <2>5, <2>6, <2>7, <2>9, <2>11, <2>12 DEF PageOK
<1> QED BY <1>1, <1>2

\* UpdateTuple in place: the slot holds the new tuple, the others are untouched.
LEMMA WriteKeeps ==
  ASSUME NEW pg, PageOK(pg), NEW d \in LiveSlots(pg), NEW size \in Sizes,
         NEW tag \in 0 .. MaxWrites, UpdateInPlace(pg, d, size),
         NEW new, new = WriteInPlace(pg, d, size, tag)
  PROVE  /\ PageOK(new)
         /\ new.prev = pg.prev /\ new.next = pg.next
         /\ Len(new.slots) = Len(pg.slots)
         /\ LiveSlots(new) = LiveSlots(pg)
         /\ \A i \in 1 .. Len(pg.slots) : i # d => GetTuple(new, i) = GetTuple(pg, i)
         /\ GetTuple(new, d) = {tag}
<1>0. /\ pg \in PageType /\ Laid(pg) /\ Len(pg.slots) \in Nat /\ pg.slots \in Seq(SlotType)
      /\ pg.data \in [Bytes -> 0 .. MaxWrites]
      /\ SlotsOf(pg) = 1 .. Len(pg.slots) /\ LiveSlots(pg) \subseteq 1 .. Len(pg.slots)
      /\ size \in Nat /\ size > 0 /\ NoTag \in 0 .. MaxWrites
  BY PageParts, Constants DEF PageOK, NoTag
<1>1. PICK off \in Bytes : off = pg.slots[d].offset
  BY <1>0, PageParts DEF LiveSlots
<1>2. PICK old \in Nat : old = pg.slots[d].size
  BY <1>0, PageParts
<1>3. size <= old /\ off \in Int /\ old > 0
  BY <1>0, <1>1, <1>2, PageParts DEF UpdateInPlace, Bytes
<1>4. PICK slot : slot = [offset |-> off, size |-> size]
  OBVIOUS
<1>5. slot \in SlotType
  BY <1>1, <1>4 DEF SlotType
<1>6. PICK blank : blank = Fill(pg.data, off, old, NoTag)
  OBVIOUS
<1>7. PICK data : data = Fill(blank, off, size, tag)
  OBVIOUS
<1>8. /\ data \in [Bytes -> 0 .. MaxWrites]
      /\ \A b \in Bytes : off <= b /\ b < off + size => data[b] = tag
      /\ \A b \in Bytes : ~(off <= b /\ b < off + old) => data[b] = pg.data[b]
  <2>1. /\ blank \in [Bytes -> 0 .. MaxWrites]
        /\ \A b \in Bytes : blank[b] = IF off <= b /\ b < off + old THEN NoTag ELSE pg.data[b]
    <3>1. pg.data \in [Bytes -> 0 .. MaxWrites] /\ off \in Int /\ NoTag \in 0 .. MaxWrites
      BY <1>0, <1>3
    <3>2. /\ Fill(pg.data, off, old, NoTag) \in [Bytes -> 0 .. MaxWrites]
          /\ \A b \in Bytes : Fill(pg.data, off, old, NoTag)[b] =
                               IF off <= b /\ b < off + old THEN NoTag ELSE pg.data[b]
      BY <3>1, FillBytes
    <3> QED BY <1>6, <3>2
  <2>2. /\ data \in [Bytes -> 0 .. MaxWrites]
        /\ \A b \in Bytes : data[b] = IF off <= b /\ b < off + size THEN tag ELSE blank[b]
    <3>1. off \in Int /\ size \in Nat /\ blank \in [Bytes -> 0 .. MaxWrites]
      BY <1>0, <1>3, <2>1
    <3>2. /\ Fill(blank, off, size, tag) \in [Bytes -> 0 .. MaxWrites]
          /\ \A b \in Bytes : Fill(blank, off, size, tag)[b] =
                               IF off <= b /\ b < off + size THEN tag ELSE blank[b]
      BY <3>1, FillBytes
    <3> QED BY <1>7, <3>2
  <2>3. \A b \in Bytes : b \in Int
    BY DEF Bytes
  <2>4. \A b \in Bytes : off <= b /\ b < off + size => off <= b /\ b < off + old
    BY <1>0, <1>3, <2>3
  <2> QED BY <2>1, <2>2, <2>4
<1>9. new = [pg EXCEPT !.slots = [pg.slots EXCEPT ![d] = slot], !.data = data]
  <2>1. new = [[pg EXCEPT !.slots = [pg.slots EXCEPT ![d] = slot]] EXCEPT
                 !.data = Fill(Fill([pg EXCEPT !.slots = [pg.slots EXCEPT ![d] = slot]].data,
                                    off, old, NoTag), off, size, tag)]
    BY <1>1, <1>2, <1>4 DEF WriteInPlace, SetSlotInfo
  <2>2. [pg EXCEPT !.slots = [pg.slots EXCEPT ![d] = slot]].data = pg.data
    BY <1>0 DEF PageType
  <2>3. new = [[pg EXCEPT !.slots = [pg.slots EXCEPT ![d] = slot]] EXCEPT !.data = data]
    BY <1>6, <1>7, <2>1, <2>2
  <2> QED BY <2>3
<1>10. /\ new.prev = pg.prev /\ new.next = pg.next /\ new.data = data
       /\ new.slots = [pg.slots EXCEPT ![d] = slot]
  BY <1>0, <1>9 DEF PageType
<1>11. /\ new.slots \in Seq(SlotType) /\ Len(new.slots) = Len(pg.slots)
       /\ new.slots[d] = slot
       /\ \A i \in 1 .. Len(pg.slots) : i # d => new.slots[i] = pg.slots[i]
  BY <1>0, <1>5, <1>10
<1>12. new \in PageType
  BY <1>0, <1>8, <1>9, <1>11 DEF PageType, SlotType
<1>13. SlotsOf(new) = 1 .. Len(pg.slots)
  BY <1>11, <1>12, PageParts
<1>14. LiveSlots(new) = LiveSlots(pg)
  <2>1. new.slots[d].offset = pg.slots[d].offset
    BY <1>1, <1>4, <1>11
  <2>2. \A i \in 1 .. Len(pg.slots) : IsDeleted(new, i) = IsDeleted(pg, i)
    BY <1>11, <2>1 DEF IsDeleted
  <2> QED BY <1>0, <1>13, <2>2 DEF LiveSlots
<1>15. \A i \in LiveSlots(pg) : /\ new.slots[i].offset = pg.slots[i].offset
                                /\ new.slots[i].size <= pg.slots[i].size
                                /\ new.slots[i].size \in Nat /\ pg.slots[i].size \in Nat
                                /\ pg.slots[i].offset \in Int
  <2>1. ASSUME NEW i \in LiveSlots(pg)
        PROVE  /\ i \in 1 .. Len(pg.slots)
               /\ pg.slots[i].size \in Nat /\ pg.slots[i].offset \in Int
    BY <1>0, PageParts
  <2>2. new.slots[d].offset = off /\ new.slots[d].size = size
    BY <1>4, <1>11
  <2>3. ASSUME NEW i \in LiveSlots(pg), i # d PROVE new.slots[i] = pg.slots[i]
    BY <1>11, <2>1, <2>3
  <2> QED BY <1>0, <1>1, <1>2, <1>3, <2>1, <2>2, <2>3
<1>16. Laid(new)
  <2>1. ASSUME NEW i \in LiveSlots(pg)
        PROVE  /\ SlotArrayEnd(Len(new.slots)) <= new.slots[i].offset
               /\ new.slots[i].offset + new.slots[i].size <= PAGE_SIZE
    <3>1. /\ SlotArrayEnd(Len(pg.slots)) <= pg.slots[i].offset
          /\ pg.slots[i].offset + pg.slots[i].size <= PAGE_SIZE
      BY <1>0 DEF Laid
    <3>2. SlotArrayEnd(Len(new.slots)) = SlotArrayEnd(Len(pg.slots))
      BY <1>11
    <3>3. new.slots[i].offset + new.slots[i].size <= PAGE_SIZE
      BY <1>15, <3>1, Constants
    <3> QED BY <1>15, <3>1, <3>2, <3>3
  <2>2. ASSUME NEW i \in LiveSlots(pg), NEW j \in LiveSlots(pg), i # j
        PROVE  \/ new.slots[i].offset + new.slots[i].size <= new.slots[j].offset
               \/ new.slots[j].offset + new.slots[j].size <= new.slots[i].offset
    <3>1. \/ pg.slots[i].offset + pg.slots[i].size <= pg.slots[j].offset
          \/ pg.slots[j].offset + pg.slots[j].size <= pg.slots[i].offset
      BY <1>0, <2>2 DEF Laid
    <3> QED BY <1>15, <3>1
  <2> QED BY <1>14, <2>1, <2>2 DEF Laid
<1>17. ASSUME NEW i \in 1 .. Len(pg.slots), i # d PROVE GetTuple(new, i) = GetTuple(pg, i)
  <2>1. i \in SlotsOf(pg) /\ i \in SlotsOf(new) /\ new.slots[i] = pg.slots[i]
    BY <1>0, <1>11, <1>13, <1>17
  <2>2. ASSUME ~IsDeleted(pg, i), NEW b \in Extent(pg, i) PROVE new.data[b] = pg.data[b]
    <3>1. i \in LiveSlots(pg)
      BY <2>1, <2>2 DEF LiveSlots
    <3>2. Extent(pg, i) \cap Extent(pg, d) = {}
      BY <1>0, <1>17, <3>1, LaidIsSound DEF LayoutSound
    <3>3. b \in Bytes /\ b \in Int
      BY <2>2, <3>1, ExtentInPage DEF Bytes
    <3>4. b \notin off .. off + old - 1
      BY <1>1, <1>2, <2>2, <3>2 DEF Extent
    <3>5. ~(off <= b /\ b < off + old)
      BY <1>3, <3>3, <3>4
    <3> QED BY <1>8, <1>10, <3>3, <3>5
  <2> QED BY <2>1, <2>2, SameTuple
<1>18. GetTuple(new, d) = {tag}
  <2>1. d \in SlotsOf(new) /\ ~IsDeleted(new, d) /\ d \in LiveSlots(new)
    BY <1>14 DEF LiveSlots
  <2>2. Extent(new, d) = off .. off + size - 1 /\ Extent(new, d) \subseteq Bytes
    BY <1>4, <1>11, <1>12, <1>16, <2>1, ExtentInPage DEF Extent, PageOK
  <2>3. \A b \in off .. off + size - 1 : new.data[b] = tag
    BY <1>0, <1>3, <1>8, <1>10, <2>2
  <2>4. off \in off .. off + size - 1
    BY <1>0, <1>3
  <2>5. {new.data[b] : b \in off .. off + size - 1} = {tag}
    BY <2>3, <2>4
  <2> QED BY <2>1, <2>2, <2>5 DEF GetTuple, InRange
<1> QED BY <1>10, <1>11, <1>12, <1>14, <1>16, <1>17, <1>18 DEF PageOK

\* UpdateTuple with a tuple that grows: the old one is dead if the new one fits, and
\* the other tuples are untouched.
LEMMA GrowKeeps ==
  ASSUME NEW pg, PageOK(pg), NEW d \in LiveSlots(pg), NEW size \in Sizes,
         NEW tag \in 0 .. MaxWrites, ~GrowOverruns(pg, d, size),
         NEW new, new = Grow(pg, d, size, tag)
  PROVE  /\ PageOK(new)
         /\ new.prev = pg.prev /\ new.next = pg.next
         /\ Len(pg.slots) <= Len(new.slots)
         /\ \A i \in 1 .. Len(pg.slots) : i \in LiveSlots(new) => i \in LiveSlots(pg)
         /\ \A i \in 1 .. Len(pg.slots) : i # d => GetTuple(new, i) = GetTuple(pg, i)
<1>1. PICK marked : marked = MarkDelete(pg, d)
  OBVIOUS
<1>2. /\ PageOK(marked)
      /\ marked.prev = pg.prev /\ marked.next = pg.next
      /\ Len(marked.slots) = Len(pg.slots)
      /\ LiveSlots(marked) = LiveSlots(pg) \ {d}
      /\ \A i \in 1 .. Len(pg.slots) : i # d => GetTuple(marked, i) = GetTuple(pg, i)
  BY <1>1, MarkKeeps
<1>3. Len(pg.slots) \in Nat
  BY PageParts DEF PageOK
<1>4. CASE InsertAccepts(marked, size)
  <2>1. new = InsertTuple(marked, size, tag) /\ ~InsertOverruns(marked, size)
    BY <1>1, <1>4 DEF Grow, GrowOverruns
  <2>2. PICK off : Fits(marked, size, off)
    BY <1>2, <1>4, <2>1, AcceptedFits
  <2>3. /\ PageOK(new)
        /\ new.prev = marked.prev /\ new.next = marked.next
        /\ Len(new.slots) = Len(marked.slots) + 1
        /\ LiveSlots(new) = LiveSlots(marked) \cup {Len(marked.slots) + 1}
        /\ \A i \in 1 .. Len(marked.slots) : GetTuple(new, i) = GetTuple(marked, i)
    BY <1>2, <2>1, <2>2, InsertKeeps
  <2>4. \A i \in 1 .. Len(pg.slots) : i # Len(pg.slots) + 1
    BY <1>3
  <2>5. Len(pg.slots) <= Len(new.slots)
    BY <1>2, <1>3, <2>3
  <2> QED BY <1>2, <2>3, <2>4, <2>5
<1>5. CASE ~InsertAccepts(marked, size)
  <2>1. new = pg
    BY <1>1, <1>5 DEF Grow
  <2> QED BY <1>3, <2>1
<1> QED BY <1>4, <1>5

\* The page that is being linked takes its first tuple.
LEMMA EmptyPageTakes ==
  ASSUME NEW p \in 0 .. MaxPages, NEW size \in Sizes, NEW tag \in 0 .. MaxWrites,
         NEW new, new = InsertTuple(EmptyPage(p), size, tag)
  PROVE  /\ PageOK(EmptyPage(p))
         /\ PageOK(new)
         /\ new.prev = p /\ new.next = INVALID_PAGE_ID
         /\ Len(new.slots) = 1 /\ LiveSlots(new) = {1}
         /\ GetTuple(new, 1) = {tag}
<1>1. PICK pg : pg = EmptyPage(p)
  OBVIOUS
<1>2. /\ pg.slots = <<>> /\ pg.prev = p /\ pg.next = INVALID_PAGE_ID
      /\ Len(pg.slots) = 0 /\ LiveSlots(pg) = {}
  BY <1>1 DEF EmptyPage, LiveSlots, SlotsOf
<1>3. pg \in PageType
  BY <1>1, Constants DEF PageType, EmptyPage, INVALID_PAGE_ID, NoTag
<1>4. PageOK(pg)
  BY <1>2, <1>3 DEF PageOK, Laid
<1>5. HasRoom(pg, size)
  <2>1. LowestTuple(pg) = PAGE_SIZE
    <3>1. {PAGE_SIZE} \cup {pg.slots[i].offset : i \in LiveSlots(pg)} = {PAGE_SIZE}
      BY <1>2
    <3>2. Min({PAGE_SIZE}) \in {PAGE_SIZE}
      BY Constants, MinIsLeast
    <3> QED BY <3>1, <3>2 DEF LowestTuple
  <2>2. SlotArrayEnd(0) = TABLE_PAGE_HEADER_SIZE
    BY Constants DEF SlotArrayEnd
  <2>3. PICK room \in Nat : room = PAGE_SIZE - TABLE_PAGE_HEADER_SIZE
    BY Constants
  <2>4. Max({0, room}) = room
    <3>1. \A x \in {0, room} : room >= x
      BY <2>3
    <3>2. \A y \in {0, room} : y >= room => y = room
      BY <2>3
    <3> QED BY <3>1, <3>2 DEF Max
  <2>5. GetFreeSpace(pg) = room
    BY <1>2, <2>1, <2>2, <2>3, <2>4 DEF GetFreeSpace
  <2>6. room >= size + SLOT_SIZE
    BY <2>3, Constants
  <2> QED BY <2>5, <2>6 DEF HasRoom
<1>6. PICK off : Fits(pg, size, off)
  BY <1>4, <1>5, RoomFits
<1>7. new = InsertTuple(pg, size, tag)
  BY <1>1
<1>8. /\ PageOK(new)
      /\ new.prev = pg.prev /\ new.next = pg.next
      /\ Len(new.slots) = Len(pg.slots) + 1
      /\ LiveSlots(new) = LiveSlots(pg) \cup {Len(pg.slots) + 1}
      /\ \A i \in 1 .. Len(pg.slots) : GetTuple(new, i) = GetTuple(pg, i)
      /\ GetTuple(new, Len(pg.slots) + 1) = {tag}
  BY <1>4, <1>6, <1>7, InsertKeeps
<1> QED BY <1>1, <1>2, <1>4, <1>8

-----------------------------------------------------------------------------
(* ApplyDelete: the tuples above the deleted one move down, slot by slot.   *)

MoveStep(pg, d, q, i) ==
  IF i # d /\ ~IsDeleted(q, i) /\ q.slots[i].offset > pg.slots[d].offset
  THEN MoveDown(q, i, pg.slots[d].size) ELSE q

Moves(m, pg, d, n) ==
  m = [i \in 0 .. n |-> IF i = 0 THEN pg ELSE MoveStep(pg, d, m[i - 1], i)]

\* The recursive function of ApplyDelete exists.
LEMMA MovesExist ==
  ASSUME NEW pg, NEW d, NEW n \in Nat
  PROVE  \E m : Moves(m, pg, d, n)
<1> DEFINE S == {k \in 0 .. n : \E m : Moves(m, pg, d, k)}
<1>1. 0 \in S
  <2>1. Moves([i \in 0 .. 0 |-> pg], pg, d, 0)
    BY DEF Moves
  <2> QED BY <2>1
<1>2. ASSUME NEW k \in 0 .. n - 1, k \in S PROVE k + 1 \in S
  <2>1. PICK g : Moves(g, pg, d, k)
    BY <1>2
  <2>2. PICK top : top = MoveStep(pg, d, g[k], k + 1)
    OBVIOUS
  <2> DEFINE f == [i \in 0 .. k + 1 |-> IF i = k + 1 THEN top ELSE g[i]]
             F(i) == IF i = 0 THEN pg ELSE MoveStep(pg, d, f[i - 1], i)
  <2>3. ASSUME NEW i \in 0 .. k + 1 PROVE f[i] = F(i)
    <3>1. CASE i = k + 1
      <4>1. i - 1 = k /\ i # 0 /\ f[i - 1] = g[k] /\ f[i] = top
        BY <3>1
      <4> HIDE DEF f
      <4> QED BY <2>2, <3>1, <4>1
    <3>2. CASE i # k + 1
      <4>1. i \in 0 .. k /\ f[i] = g[i]
        BY <3>2
      <4>2. i # 0 => f[i - 1] = g[i - 1]
        BY <4>1
      <4>3. g[i] = IF i = 0 THEN pg ELSE MoveStep(pg, d, g[i - 1], i)
        BY <2>1, <4>1 DEF Moves
      <4> HIDE DEF f
      <4> QED BY <4>1, <4>2, <4>3
    <3> QED BY <3>1, <3>2
  <2>4. f = [i \in 0 .. k + 1 |-> F(i)]
    <3>1. f = [i \in 0 .. k + 1 |-> f[i]]
      OBVIOUS
    <3> HIDE DEF f, F
    <3> QED BY <2>3, <3>1
  <2>5. Moves(f, pg, d, k + 1)
    BY <2>4 DEF Moves
  <2> QED BY <2>5
<1>3. n \in S
  <2> HIDE DEF S
  <2> QED BY <1>1, <1>2, UpTo
<1> QED BY <1>3

\* The live tuples that lie above tuple d, and the page after the first k slots
Above(pg, d) == {i \in LiveSlots(pg) : pg.slots[i].offset > pg.slots[d].offset}

Lowered(pg, d, i) ==
  [offset |-> pg.slots[i].offset - pg.slots[d].size, size |-> pg.slots[i].size]

MovedTo(q, pg, d, k) ==
  /\ q \in PageType
  /\ q.prev = pg.prev /\ q.next = pg.next
  /\ Len(q.slots) = Len(pg.slots)
  /\ \A i \in 1 .. Len(pg.slots) :
        q.slots[i] = IF i <= k /\ i \in Above(pg, d) THEN Lowered(pg, d, i) ELSE pg.slots[i]

\* A tuple above the deleted one starts behind its end.
LEMMA AboveIsBehind ==
  ASSUME NEW pg, PageOK(pg), NEW d \in LiveSlots(pg), NEW i \in Above(pg, d)
  PROVE  /\ i # d /\ i \in LiveSlots(pg) /\ i \in 1 .. Len(pg.slots)
         /\ pg.slots[d].offset \in Bytes /\ pg.slots[d].size \in Nat /\ pg.slots[d].size > 0
         /\ pg.slots[i].offset \in Bytes /\ pg.slots[i].size \in Nat /\ pg.slots[i].size > 0
         /\ pg.slots[i].offset + pg.slots[i].size <= PAGE_SIZE
         /\ pg.slots[d].offset + pg.slots[d].size <= pg.slots[i].offset
<1>1. /\ i \in LiveSlots(pg) /\ pg.slots[i].offset > pg.slots[d].offset
      /\ i \in 1 .. Len(pg.slots)
  BY PageParts DEF Above, PageOK
<1>2. /\ pg.slots[d].offset \in Bytes /\ pg.slots[d].size \in Nat /\ pg.slots[d].size > 0
      /\ pg.slots[i].offset \in Bytes /\ pg.slots[i].size \in Nat /\ pg.slots[i].size > 0
  BY <1>1, PageParts DEF PageOK, LiveSlots
<1>3. pg.slots[i].offset \in Int /\ pg.slots[d].offset \in Int
  BY <1>2 DEF Bytes
<1>4. i # d
  BY <1>1, <1>3
<1>5. /\ pg.slots[i].offset + pg.slots[i].size <= PAGE_SIZE
      /\ \/ pg.slots[i].offset + pg.slots[i].size <= pg.slots[d].offset
         \/ pg.slots[d].offset + pg.slots[d].size <= pg.slots[i].offset
  BY <1>1, <1>4 DEF PageOK, Laid
<1>6. pg.slots[d].offset + pg.slots[d].size <= pg.slots[i].offset
  BY <1>1, <1>2, <1>3, <1>5
<1> QED BY <1>1, <1>2, <1>4, <1>5, <1>6

\* One more slot
LEMMA MoveOne ==
  ASSUME NEW pg, PageOK(pg), NEW d \in LiveSlots(pg), NEW k \in 1 .. Len(pg.slots),
         NEW q, MovedTo(q, pg, d, k - 1), NEW new, new = MoveStep(pg, d, q, k)
  PROVE  MovedTo(new, pg, d, k)
<1>0. /\ pg \in PageType /\ Len(pg.slots) \in Nat /\ SlotsOf(pg) = 1 .. Len(pg.slots)
      /\ k \in Int /\ ~(k <= k - 1)
      /\ q \in PageType /\ Len(q.slots) = Len(pg.slots)
  BY PageParts DEF PageOK, MovedTo
<1>1. q.slots[k] = pg.slots[k]
  BY <1>0 DEF MovedTo
<1>2. IsDeleted(q, k) = IsDeleted(pg, k)
  BY <1>1 DEF IsDeleted
<1>3. CASE k \in Above(pg, d)
  <2>1. /\ k # d /\ pg.slots[k].offset > pg.slots[d].offset /\ ~IsDeleted(pg, k)
    BY <1>3, AboveIsBehind DEF Above, LiveSlots
  <2>2. new = MoveDown(q, k, pg.slots[d].size)
    BY <1>1, <1>2, <2>1 DEF MoveStep
  <2>3. PICK by \in Nat : by = pg.slots[d].size
    BY <1>3, AboveIsBehind
  <2>4. PICK off \in Bytes : off = pg.slots[k].offset
    BY <1>3, AboveIsBehind
  <2>5. PICK size \in Nat : size = pg.slots[k].size
    BY <1>3, AboveIsBehind
  <2>6. /\ off \in Int /\ off + size <= PAGE_SIZE
        /\ off - by \in Bytes /\ size \in Sizes
    <3>1. /\ pg.slots[d].offset \in Bytes
          /\ pg.slots[k].offset + pg.slots[k].size <= PAGE_SIZE
          /\ pg.slots[d].offset + pg.slots[d].size <= pg.slots[k].offset
      BY <1>3, AboveIsBehind
    <3>2. size \in Sizes
      BY <1>0, <2>5, PageParts
    <3>3. PICK low \in Bytes : low = pg.slots[d].offset
      BY <3>1
    <3>4. low + by <= off /\ off + size <= PAGE_SIZE
      BY <2>3, <2>4, <2>5, <3>1, <3>3
    <3>5. off \in Int /\ off - by \in Bytes
      BY <3>4, Constants DEF Bytes
    <3> QED BY <3>2, <3>4, <3>5
  <2>7. PICK data : data = [b \in Bytes |-> IF off - by <= b /\ b < off - by + size
                                            THEN q.data[b + by] ELSE q.data[b]]
    OBVIOUS
  <2>8. data \in [Bytes -> 0 .. MaxWrites]
    <3>1. q.data \in [Bytes -> 0 .. MaxWrites]
      BY <1>0, PageParts
    <3>2. ASSUME NEW b \in Bytes, off - by <= b /\ b < off - by + size PROVE b + by \in Bytes
      <4>1. off + size <= PAGE_SIZE /\ b + by < off + size
        BY <2>6, <3>2 DEF Bytes
      <4> QED BY <4>1, <2>6, Constants DEF Bytes
    <3>3. \A b \in Bytes : data[b] \in 0 .. MaxWrites
      BY <2>7, <3>1, <3>2
    <3> QED BY <2>7, <3>3
  <2>9. Lowered(pg, d, k) = [offset |-> off - by, size |-> size] /\ Lowered(pg, d, k) \in SlotType
    BY <2>3, <2>4, <2>5, <2>6 DEF Lowered, SlotType
  <2>10. new = [[q EXCEPT !.slots = [q.slots EXCEPT ![k] = Lowered(pg, d, k)]] EXCEPT !.data = data]
    BY <1>1, <2>2, <2>3, <2>4, <2>5, <2>7, <2>9 DEF MoveDown, SetSlotInfo
  <2>11. /\ new.prev = q.prev /\ new.next = q.next
         /\ new.slots = [q.slots EXCEPT ![k] = Lowered(pg, d, k)]
    BY <1>0, <2>10 DEF PageType
  <2>12. /\ new.slots \in Seq(SlotType) /\ Len(new.slots) = Len(pg.slots)
         /\ new.slots[k] = Lowered(pg, d, k)
         /\ \A i \in 1 .. Len(pg.slots) : i # k => new.slots[i] = q.slots[i]
    <3>1. q.slots \in Seq(SlotType)
      BY <1>0, PageParts
    <3> QED BY <1>0, <2>9, <2>11, <3>1
  <2>13. new \in PageType
    BY <1>0, <2>8, <2>10, <2>12 DEF PageType, SlotType
  <2>14. ASSUME NEW i \in 1 .. Len(pg.slots)
         PROVE  new.slots[i] = IF i <= k /\ i \in Above(pg, d) THEN Lowered(pg, d, i)
                               ELSE pg.slots[i]
    <3>1. CASE i = k
      BY <1>0, <1>3, <2>12, <3>1
    <3>2. CASE i # k
      <4>1. i <= k <=> i <= k - 1
        BY <1>0, <3>2
      <4> QED BY <2>12, <3>2, <4>1 DEF MovedTo
    <3> QED BY <3>1, <3>2
  <2> QED BY <2>11, <2>12, <2>13, <2>14 DEF MovedTo
<1>4. CASE k \notin Above(pg, d)
  <2>1. ~(k # d /\ ~IsDeleted(q, k) /\ q.slots[k].offset > pg.slots[d].offset)
    BY <1>0, <1>1, <1>2, <1>4 DEF Above, LiveSlots
  <2>2. new = q
    BY <2>1 DEF MoveStep
  <2>3. ASSUME NEW i \in 1 .. Len(pg.slots)
        PROVE  q.slots[i] = IF i <= k /\ i \in Above(pg, d) THEN Lowered(pg, d, i)
                            ELSE pg.slots[i]
    <3>1. CASE i = k
      BY <1>1, <1>4, <3>1
    <3>2. CASE i # k
      <4>1. i <= k <=> i <= k - 1
        BY <1>0, <3>2
      <4> QED BY <4>1 DEF MovedTo
    <3> QED BY <3>1, <3>2
  <2> QED BY <2>2, <2>3 DEF MovedTo
<1> QED BY <1>3, <1>4

\* What ApplyDelete returns: the page after all slots, with the slots closed up
LEMMA ApplyMoves ==
  ASSUME NEW pg, PageOK(pg), NEW d \in LiveSlots(pg)
  PROVE  \E q : /\ MovedTo(q, pg, d, Len(pg.slots))
                /\ ApplyDelete(pg, d) = [q EXCEPT !.slots = RemoveAt(q.slots, d)]
<1>0. pg \in PageType /\ Len(pg.slots) \in Nat
  BY PageParts DEF PageOK
<1> DEFINE n == Len(pg.slots)
           c == CHOOSE m : Moves(m, pg, d, n)
<1>1. Moves(c, pg, d, n)
  BY <1>0, MovesExist
<1>2. ApplyDelete(pg, d) = [c[n] EXCEPT !.slots = RemoveAt(c[n].slots, d)]
  BY DEF ApplyDelete, Moves, MoveStep
<1> DEFINE S == {k \in 0 .. n : MovedTo(c[k], pg, d, k)}
<1> HIDE DEF c
<1>3. 0 \in S
  <2>1. c[0] = pg
    BY <1>0, <1>1 DEF Moves
  <2>2. \A i \in 1 .. n : ~(i <= 0)
    BY <1>0
  <2>3. MovedTo(pg, pg, d, 0)
    BY <1>0, <2>2 DEF MovedTo
  <2> QED BY <1>0, <2>1, <2>3
<1>4. ASSUME NEW k \in 0 .. n - 1, k \in S PROVE k + 1 \in S
  <2>1. k + 1 \in 1 .. n /\ k + 1 \in 0 .. n /\ (k + 1) - 1 = k /\ k + 1 # 0
    BY <1>0
  <2>2. c[k + 1] = MoveStep(pg, d, c[k], k + 1)
    BY <1>1, <2>1 DEF Moves
  <2>3. MovedTo(c[k], pg, d, (k + 1) - 1)
    BY <1>4, <2>1
  <2>4. MovedTo(c[k + 1], pg, d, k + 1)
    BY <2>1, <2>2, <2>3, MoveOne
  <2> QED BY <2>1, <2>4
<1>5. n \in S
  <2> HIDE DEF S
  <2>1. \A m \in 0 .. n : m \in S
    BY <1>0, <1>3, <1>4, UpTo
  <2> QED BY <1>0, <2>1
<1> QED BY <1>2, <1>5

\* The tuples but the deleted one are still apart after they moved.
LEMMA MovedIsLaid ==
  ASSUME NEW pg, PageOK(pg), NEW d \in LiveSlots(pg), NEW q, MovedTo(q, pg, d, Len(pg.slots))
  PROVE  /\ LiveSlots(q) = LiveSlots(pg)
         /\ \A i \in LiveSlots(pg) \ {d} :
               /\ SlotArrayEnd(Len(pg.slots)) <= q.slots[i].offset
               /\ q.slots[i].offset + q.slots[i].size <= PAGE_SIZE
         /\ \A i, j \in LiveSlots(pg) \ {d} : i # j =>
               \/ q.slots[i].offset + q.slots[i].size <= q.slots[j].offset
               \/ q.slots[j].offset + q.slots[j].size <= q.slots[i].offset
<1>0. /\ pg \in PageType /\ Laid(pg) /\ Len(pg.slots) \in Nat /\ SlotsOf(pg) = 1 .. Len(pg.slots)
      /\ q \in PageType /\ Len(q.slots) = Len(pg.slots) /\ SlotsOf(q) = 1 .. Len(pg.slots)
  BY PageParts DEF PageOK, MovedTo
<1>1. PICK low \in Int : low = pg.slots[d].offset
  BY <1>0, PageParts
<1>2. PICK by \in Nat : by = pg.slots[d].size
  BY <1>0, PageParts
<1>3. PICK end \in Nat : end = SlotArrayEnd(Len(pg.slots))
  BY <1>0, SlotArrayGrows
<1>4. end <= low /\ by > 0
  BY <1>0, <1>1, <1>2, <1>3, PageParts DEF Laid
<1>5. \A i \in 1 .. Len(pg.slots) :
         q.slots[i] = IF i \in Above(pg, d) THEN Lowered(pg, d, i) ELSE pg.slots[i]
  BY <1>0 DEF MovedTo
<1>6. ASSUME NEW i \in Above(pg, d)
      PROVE  /\ i \in 1 .. Len(pg.slots) /\ i \in LiveSlots(pg)
             /\ pg.slots[i].offset \in Int /\ pg.slots[i].size \in Nat
             /\ low + by <= pg.slots[i].offset
             /\ q.slots[i].offset = pg.slots[i].offset - by
             /\ q.slots[i].size = pg.slots[i].size
  <2>1. /\ i \in 1 .. Len(pg.slots) /\ i \in LiveSlots(pg)
        /\ pg.slots[i].offset \in Bytes /\ pg.slots[i].size \in Nat
        /\ pg.slots[d].offset + pg.slots[d].size <= pg.slots[i].offset
    BY AboveIsBehind
  <2>2. q.slots[i] = Lowered(pg, d, i)
    BY <1>5, <2>1
  <2> QED BY <1>1, <1>2, <2>1, <2>2 DEF Lowered, Bytes
<1>7. ASSUME NEW i \in LiveSlots(pg) \ {d}, i \notin Above(pg, d)
      PROVE  /\ q.slots[i] = pg.slots[i]
             /\ pg.slots[i].offset \in Int /\ pg.slots[i].size \in Nat
             /\ pg.slots[i].offset + pg.slots[i].size <= low
  <2>1. /\ i \in 1 .. Len(pg.slots) /\ q.slots[i] = pg.slots[i]
        /\ pg.slots[i].offset \in Int /\ pg.slots[i].size \in Nat
    BY <1>0, <1>5, <1>7, PageParts
  <2>2. ~(pg.slots[i].offset > low)
    BY <1>1, <1>7 DEF Above
  <2>3. \/ pg.slots[i].offset + pg.slots[i].size <= low
        \/ low + by <= pg.slots[i].offset
    BY <1>0, <1>1, <1>2, <1>7 DEF Laid
  <2> QED BY <1>1, <1>2, <1>4, <2>1, <2>2, <2>3
<1>8. LiveSlots(q) = LiveSlots(pg)
  <2>1. ASSUME NEW i \in 1 .. Len(pg.slots) PROVE IsDeleted(q, i) <=> IsDeleted(pg, i)
    <3>1. CASE i \in Above(pg, d)
      <4>1. ~IsDeleted(pg, i)
        BY <1>6, <3>1 DEF LiveSlots
      <4>2. q.slots[i].offset \in Int /\ q.slots[i].offset >= 0
        <5>1. PICK off \in Int : off = pg.slots[i].offset
          BY <1>6, <3>1
        <5>2. q.slots[i].offset = off - by /\ low + by <= off
          BY <1>6, <3>1, <5>1
        <5> QED BY <1>3, <1>4, <5>2
      <4>3. ~IsDeleted(q, i)
        BY <4>2 DEF IsDeleted, DELETED
      <4> QED BY <4>1, <4>3
    <3>2. CASE i \notin Above(pg, d)
      BY <1>5, <3>2 DEF IsDeleted
    <3> QED BY <3>1, <3>2
  <2> QED BY <1>0, <2>1 DEF LiveSlots
<1>9. ASSUME NEW i \in LiveSlots(pg) \ {d}
      PROVE  /\ SlotArrayEnd(Len(pg.slots)) <= q.slots[i].offset
             /\ q.slots[i].offset + q.slots[i].size <= PAGE_SIZE
  <2>1. /\ end <= pg.slots[i].offset
        /\ pg.slots[i].offset + pg.slots[i].size <= PAGE_SIZE
    BY <1>0, <1>3 DEF Laid
  <2>2. CASE i \in Above(pg, d)
    <3>1. PICK off \in Int, size \in Nat : off = pg.slots[i].offset /\ size = pg.slots[i].size
      BY <1>6, <2>2
    <3>2. q.slots[i].offset = off - by /\ q.slots[i].size = size /\ low + by <= off
      BY <1>6, <2>2, <3>1
    <3>3. end <= off - by
      BY <1>3, <1>4, <3>2
    <3>4. off + size <= PAGE_SIZE
      BY <2>1, <3>1
    <3>5. off - by + size <= PAGE_SIZE
      BY <3>4, Constants
    <3> QED BY <1>3, <3>2, <3>3, <3>5
  <2>3. CASE i \notin Above(pg, d)
    <3>1. q.slots[i] = pg.slots[i]
      BY <1>7, <2>3
    <3> QED BY <1>3, <2>1, <3>1
  <2> QED BY <2>2, <2>3
<1>10. ASSUME NEW i \in LiveSlots(pg) \ {d}, NEW j \in LiveSlots(pg) \ {d}, i # j
       PROVE  \/ q.slots[i].offset + q.slots[i].size <= q.slots[j].offset
              \/ q.slots[j].offset + q.slots[j].size <= q.slots[i].offset
  <2>1. \/ pg.slots[i].offset + pg.slots[i].size <= pg.slots[j].offset
        \/ pg.slots[j].offset + pg.slots[j].size <= pg.slots[i].offset
    BY <1>0, <1>10 DEF Laid
  <2>2. CASE i \in Above(pg, d) /\ j \in Above(pg, d)
    <3>1. PICK a \in Int, y \in Nat : a = pg.slots[i].offset /\ y = pg.slots[i].size
      BY <1>6, <2>2
    <3>2. PICK b \in Int, z \in Nat : b = pg.slots[j].offset /\ z = pg.slots[j].size
      BY <1>6, <2>2
    <3>3. a + y <= b \/ b + z <= a
      BY <2>1, <3>1, <3>2
    <3>4. (a - by) + y <= b - by \/ (b - by) + z <= a - by
      BY <3>3
    <3>5. /\ q.slots[i].offset = a - by /\ q.slots[i].size = y
          /\ q.slots[j].offset = b - by /\ q.slots[j].size = z
      BY <1>6, <2>2, <3>1, <3>2
    <3> QED BY <3>4, <3>5
  <2>3. CASE i \in Above(pg, d) /\ j \notin Above(pg, d)
    <3>1. q.slots[j].offset + q.slots[j].size <= low
      BY <1>7, <2>3
    <3>2. low <= q.slots[i].offset
      BY <1>6, <2>3
    <3>3. /\ q.slots[i].offset \in Int /\ q.slots[j].offset \in Int /\ q.slots[j].size \in Nat
      BY <1>6, <1>7, <2>3
    <3> QED BY <3>1, <3>2, <3>3
  <2>4. CASE i \notin Above(pg, d) /\ j \in Above(pg, d)
    <3>1. q.slots[i].offset + q.slots[i].size <= low
      BY <1>7, <2>4
    <3>2. low <= q.slots[j].offset
      BY <1>6, <2>4
    <3>3. /\ q.slots[j].offset \in Int /\ q.slots[i].offset \in Int /\ q.slots[i].size \in Nat
      BY <1>6, <1>7, <2>4
    <3> QED BY <3>1, <3>2, <3>3
  <2>5. CASE i \notin Above(pg, d) /\ j \notin Above(pg, d)
    BY <1>7, <2>1, <2>5
  <2> QED BY <2>2, <2>3, <2>4, <2>5
<1> QED BY <1>8, <1>9, <1>10

\* The slots but one, in order
LEMMA RemoveSlot ==
  ASSUME NEW s \in Seq(SlotType), NEW d \in 1 .. Len(s)
  PROVE  /\ RemoveAt(s, d) \in Seq(SlotType)
         /\ Len(RemoveAt(s, d)) = Len(s) - 1
         /\ \A i \in 1 .. Len(s) - 1 : RemoveAt(s, d)[i] = s[IF i < d THEN i ELSE i + 1]
<1>0. Len(s) \in Nat /\ d \in Nat /\ d >= 1 /\ d <= Len(s)
  OBVIOUS
<1>1. PICK a : a = SubSeq(s, 1, d - 1)
  OBVIOUS
<1>2. PICK b : b = SubSeq(s, d + 1, Len(s))
  OBVIOUS
<1>3. /\ a \in Seq(SlotType) /\ b \in Seq(SlotType)
      /\ Len(a) = d - 1 /\ Len(b) = Len(s) - d
      /\ \A i \in 1 .. d - 1 : a[i] = s[i]
      /\ \A i \in 1 .. Len(s) - d : b[i] = s[d + i]
  <2>1. /\ SubSeq(s, 1, d - 1) \in Seq(SlotType)
        /\ Len(SubSeq(s, 1, d - 1)) = IF 1 <= d - 1 THEN (d - 1) - 1 + 1 ELSE 0
        /\ \A i \in 1 .. (d - 1) - 1 + 1 : SubSeq(s, 1, d - 1)[i] = s[1 + i - 1]
    <3>1. 1 \in 1 .. Len(s) + 1 /\ d - 1 \in 1 - 1 .. Len(s)
      BY <1>0
    <3> QED BY <3>1, SubSeqProperties
  <2>2. /\ SubSeq(s, d + 1, Len(s)) \in Seq(SlotType)
        /\ Len(SubSeq(s, d + 1, Len(s))) = IF d + 1 <= Len(s) THEN Len(s) - (d + 1) + 1 ELSE 0
        /\ \A i \in 1 .. Len(s) - (d + 1) + 1 : SubSeq(s, d + 1, Len(s))[i] = s[(d + 1) + i - 1]
    <3>1. d + 1 \in 1 .. Len(s) + 1 /\ Len(s) \in (d + 1) - 1 .. Len(s)
      BY <1>0
    <3> QED BY <3>1, SubSeqProperties
  <2>3. \A i \in 1 .. d - 1 : i \in 1 .. (d - 1) - 1 + 1 /\ 1 + i - 1 = i
    BY <1>0
  <2>4. \A i \in 1 .. Len(s) - d : i \in 1 .. Len(s) - (d + 1) + 1 /\ (d + 1) + i - 1 = d + i
    BY <1>0
  <2>5. Len(a) = d - 1 /\ Len(b) = Len(s) - d
    BY <1>0, <1>1, <1>2, <2>1, <2>2
  <2> QED BY <1>1, <1>2, <2>1, <2>2, <2>3, <2>4, <2>5
<1>4. RemoveAt(s, d) = a \o b
  BY <1>1, <1>2 DEF RemoveAt
<1>5. /\ a \o b \in Seq(SlotType) /\ Len(a \o b) = Len(s) - 1
      /\ \A i \in 1 .. Len(s) - 1 : (a \o b)[i] = IF i <= Len(a) THEN a[i] ELSE b[i - Len(a)]
  <2>1. /\ a \o b \in Seq(SlotType) /\ Len(a \o b) = Len(a) + Len(b)
        /\ \A i \in 1 .. Len(a) + Len(b) :
               (a \o b)[i] = IF i <= Len(a) THEN a[i] ELSE b[i - Len(a)]
    BY <1>3, ConcatProperties
  <2>2. Len(a) + Len(b) = Len(s) - 1
    BY <1>0, <1>3
  <2> QED BY <2>1, <2>2
<1>6. ASSUME NEW i \in 1 .. Len(s) - 1 PROVE (a \o b)[i] = s[IF i < d THEN i ELSE i + 1]
  <2>1. CASE i < d
    BY <1>3, <1>5, <2>1
  <2>2. CASE ~(i < d)
    <3>1. i - (d - 1) \in 1 .. Len(s) - d /\ d + (i - (d - 1)) = i + 1
      BY <2>2
    <3> QED BY <1>3, <1>5, <2>2, <3>1
  <2> QED BY <2>1, <2>2
<1> QED BY <1>4, <1>5, <1>6

\* ApplyDelete: the page stays sound and linked as it was.
LEMMA ApplyKeeps ==
  ASSUME NEW pg, PageOK(pg), NEW d \in LiveSlots(pg), NEW new, new = ApplyDelete(pg, d)
  PROVE  PageOK(new) /\ new.prev = pg.prev /\ new.next = pg.next
<1>1. PICK q : /\ MovedTo(q, pg, d, Len(pg.slots))
               /\ new = [q EXCEPT !.slots = RemoveAt(q.slots, d)]
  BY ApplyMoves
<1>2. PICK n \in Nat : n = Len(pg.slots)
  BY PageParts DEF PageOK
<1>3. /\ q \in PageType /\ q.prev = pg.prev /\ q.next = pg.next
      /\ q.slots \in Seq(SlotType) /\ Len(q.slots) = n
      /\ d \in 1 .. n
  BY <1>1, <1>2, PageParts DEF MovedTo, PageOK
<1>4. PICK slots : slots = RemoveAt(q.slots, d)
  OBVIOUS
<1>5. /\ slots \in Seq(SlotType) /\ Len(slots) = n - 1
      /\ \A i \in 1 .. n - 1 : slots[i] = q.slots[IF i < d THEN i ELSE i + 1]
  BY <1>3, <1>4, RemoveSlot
<1>6. /\ new \in PageType /\ new.prev = pg.prev /\ new.next = pg.next /\ new.slots = slots
  BY <1>1, <1>3, <1>4, <1>5 DEF PageType, SlotType
<1> DEFINE was(i) == IF i < d THEN i ELSE i + 1
<1>7. ASSUME NEW i \in LiveSlots(new)
      PROVE  /\ was(i) \in LiveSlots(pg) \ {d}
             /\ new.slots[i] = q.slots[was(i)]
             /\ i \in 1 .. n - 1
  <2>1. i \in 1 .. n - 1 /\ ~IsDeleted(new, i)
    BY <1>5, <1>6 DEF LiveSlots, SlotsOf
  <2>2. new.slots[i] = q.slots[was(i)] /\ was(i) \in 1 .. n /\ was(i) # d
    BY <1>3, <1>5, <1>6, <2>1
  <2>3. ~IsDeleted(q, was(i))
    BY <2>1, <2>2 DEF IsDeleted
  <2>4. was(i) \in LiveSlots(q)
    BY <1>3, <2>2, <2>3 DEF LiveSlots, SlotsOf
  <2>5. LiveSlots(q) = LiveSlots(pg)
    BY <1>1, MovedIsLaid
  <2> HIDE DEF was
  <2> QED BY <2>1, <2>2, <2>4, <2>5
<1>8. ASSUME NEW i \in LiveSlots(new), NEW j \in LiveSlots(new), i # j PROVE was(i) # was(j)
  BY <1>3, <1>7, <1>8
<1>9. SlotArrayEnd(n - 1) \in Nat /\ SlotArrayEnd(n - 1) <= SlotArrayEnd(n)
  <2>1. n - 1 \in Nat /\ (n - 1) + 1 = n
    BY <1>3
  <2>2. /\ SlotArrayEnd(n - 1) \in Nat
        /\ SlotArrayEnd((n - 1) + 1) = SlotArrayEnd(n - 1) + SLOT_SIZE
    BY <2>1, SlotArrayGrows
  <2> QED BY <2>1, <2>2, Constants
<1> HIDE DEF was
<1>10. \A i \in LiveSlots(pg) \ {d} :
           /\ SlotArrayEnd(n) <= q.slots[i].offset /\ q.slots[i].offset \in Int
           /\ q.slots[i].offset + q.slots[i].size <= PAGE_SIZE
  <2>1. \A i \in LiveSlots(pg) : i \in 1 .. n
    BY <1>2, PageParts DEF PageOK
  <2>2. \A i \in LiveSlots(pg) : q.slots[i].offset \in Int
    BY <1>3, <2>1, PageParts
  <2> QED BY <1>1, <1>2, <2>2, MovedIsLaid
<1>11. Laid(new)
  <2>1. ASSUME NEW i \in LiveSlots(new)
        PROVE  /\ SlotArrayEnd(Len(new.slots)) <= new.slots[i].offset
               /\ new.slots[i].offset + new.slots[i].size <= PAGE_SIZE
    <3>1. PICK end \in Int : end = SlotArrayEnd(n)
      BY <1>2, SlotArrayGrows
    <3>2. PICK less \in Int : less = SlotArrayEnd(n - 1)
      BY <1>9
    <3>3. less <= end /\ SlotArrayEnd(Len(new.slots)) = less
      BY <1>5, <1>6, <1>9, <3>1, <3>2
    <3>4. new.slots[i] = q.slots[was(i)] /\ was(i) \in LiveSlots(pg) \ {d}
      BY <1>7
    <3>5. end <= q.slots[was(i)].offset /\ q.slots[was(i)].offset \in Int
      BY <1>10, <3>1, <3>4
    <3>6. less <= q.slots[was(i)].offset
      BY <3>3, <3>5
    <3> QED BY <1>10, <3>3, <3>4, <3>6
  <2>2. ASSUME NEW i \in LiveSlots(new), NEW j \in LiveSlots(new), i # j
        PROVE  \/ new.slots[i].offset + new.slots[i].size <= new.slots[j].offset
               \/ new.slots[j].offset + new.slots[j].size <= new.slots[i].offset
    <3>1. /\ new.slots[i] = q.slots[was(i)] /\ was(i) \in LiveSlots(pg) \ {d}
          /\ new.slots[j] = q.slots[was(j)] /\ was(j) \in LiveSlots(pg) \ {d}
          /\ was(i) # was(j)
      BY <1>7, <1>8, <2>2
    <3>2. \/ q.slots[was(i)].offset + q.slots[was(i)].size <= q.slots[was(j)].offset
          \/ q.slots[was(j)].offset + q.slots[was(j)].size <= q.slots[was(i)].offset
      BY <1>1, <3>1, MovedIsLaid
    <3> QED BY <3>1, <3>2
  <2> QED BY <2>1, <2>2 DEF Laid
<1> QED BY <1>6, <1>11 DEF PageOK

-----------------------------------------------------------------------------
(* The chain.                                                              *)

\* Sets of pages that a scan from the first page cannot leave
ClosedIn(ps, S) == FirstPage \in S /\ \A q \in S : ps[q].next = INVALID_PAGE_ID \/ ps[q].next \in S

ChainOf(ps) == {p \in 1 .. Len(ps) : \A S \in SUBSET (1 .. Len(ps)) : ClosedIn(ps, S) => p \in S}

Forward(ps) ==
  /\ Len(ps) \in Nat /\ Len(ps) > 0
  /\ \A x \in 1 .. Len(ps) : ps[x].next # INVALID_PAGE_ID =>
        ps[x].next \in 1 .. Len(ps) /\ ps[x].next > x

\* The chain of the heap is that of its pages.
LEMMA ChainIs == Chain = ChainOf(pages)
BY DEF Chain, ChainOf, ClosedIn, PageIds, Follow

\* So is the chain after a step.
LEMMA ChainIsNext == Chain' = ChainOf(pages')
BY DEF Chain, ChainOf, ClosedIn, PageIds, Follow

\* The chain starts at the first page and is closed.
LEMMA ChainCloses ==
  ASSUME NEW ps, Forward(ps)
  PROVE  /\ ChainOf(ps) \subseteq 1 .. Len(ps)
         /\ FirstPage \in ChainOf(ps)
         /\ \A q \in ChainOf(ps) : ps[q].next # INVALID_PAGE_ID => ps[q].next \in ChainOf(ps)
         /\ ClosedIn(ps, ChainOf(ps))
<1>1. FirstPage \in ChainOf(ps)
  BY DEF ChainOf, ClosedIn, Forward, FirstPage
<1>2. ASSUME NEW q \in ChainOf(ps), ps[q].next # INVALID_PAGE_ID PROVE ps[q].next \in ChainOf(ps)
  <2>1. ps[q].next \in 1 .. Len(ps)
    BY <1>2 DEF ChainOf, Forward
  <2>2. ASSUME NEW S \in SUBSET (1 .. Len(ps)), ClosedIn(ps, S) PROVE ps[q].next \in S
    <3>1. q \in S
      BY <2>2 DEF ChainOf
    <3> QED BY <1>2, <2>2, <3>1 DEF ClosedIn
  <2> QED BY <2>1, <2>2 DEF ChainOf
<1>3. ClosedIn(ps, ChainOf(ps))
  BY <1>1, <1>2 DEF ClosedIn
<1> QED BY <1>1, <1>2, <1>3 DEF ChainOf

\* It is the smallest closed set.
LEMMA ChainIsLeast ==
  ASSUME NEW ps, NEW S \in SUBSET (1 .. Len(ps)), ClosedIn(ps, S)
  PROVE  ChainOf(ps) \subseteq S
BY DEF ChainOf

\* It passes no page by: between a page of the chain and the next one there is none.
LEMMA ChainIsOrdered ==
  ASSUME NEW ps, Forward(ps), NEW p \in ChainOf(ps), NEW x \in ChainOf(ps), x < p
  PROVE  ps[x].next # INVALID_PAGE_ID /\ ps[x].next <= p
<1> DEFINE G == {y \in ChainOf(ps) : \A z \in ChainOf(ps) :
                   z < y => ps[z].next # INVALID_PAGE_ID /\ ps[z].next <= y}
<1>0. /\ ChainOf(ps) \subseteq 1 .. Len(ps) /\ FirstPage \in ChainOf(ps)
      /\ \A q \in ChainOf(ps) : ps[q].next # INVALID_PAGE_ID =>
            ps[q].next \in ChainOf(ps) /\ ps[q].next > q
      /\ \A q \in ChainOf(ps) : q \in Int /\ q >= 1
  BY ChainCloses DEF Forward
<1>1. FirstPage \in G
  BY <1>0 DEF FirstPage
<1>2. ASSUME NEW y \in G, ps[y].next # INVALID_PAGE_ID PROVE ps[y].next \in G
  <2>1. PICK n \in ChainOf(ps) : n = ps[y].next
    BY <1>0, <1>2
  <2>2. y \in ChainOf(ps) /\ y \in Int /\ n \in Int /\ n > y
    BY <1>0, <1>2, <2>1
  <2> DEFINE U == {z \in ChainOf(ps) : z <= y \/ n <= z}
  <2>3. ClosedIn(ps, U)
    <3>1. FirstPage \in U
      BY <1>0, <2>2 DEF FirstPage
    <3>2. ASSUME NEW z \in U, ps[z].next # INVALID_PAGE_ID PROVE ps[z].next \in U
      <4>1. z \in ChainOf(ps) /\ ps[z].next \in ChainOf(ps) /\ ps[z].next > z /\ z \in Int
            /\ ps[z].next \in Int
        BY <1>0, <3>2
      <4>2. CASE z < y
        BY <1>2, <4>1, <4>2
      <4>3. CASE z = y
        BY <2>1, <2>2, <4>1, <4>3
      <4>4. CASE z > y
        <5>1. n <= z
          BY <2>2, <4>1, <4>4
        <5> QED BY <2>2, <4>1, <5>1
      <4> QED BY <2>2, <4>1, <4>2, <4>3, <4>4
    <3> QED BY <3>1, <3>2 DEF ClosedIn
  <2>4. ChainOf(ps) \subseteq U
    <3>1. U \in SUBSET (1 .. Len(ps))
      BY <1>0
    <3> HIDE DEF U
    <3> QED BY <2>3, <3>1, ChainIsLeast
  <2>5. ASSUME NEW z \in ChainOf(ps), z < n PROVE ps[z].next # INVALID_PAGE_ID /\ ps[z].next <= n
    <3>1. z \in Int /\ z <= y
      BY <1>0, <2>2, <2>4, <2>5
    <3>2. CASE z = y
      BY <1>2, <2>1, <2>2, <3>2
    <3>3. CASE z # y
      <4>1. ps[z].next # INVALID_PAGE_ID /\ ps[z].next <= y
        BY <1>2, <2>2, <3>1, <3>3
      <4>2. ps[z].next \in Int
        BY <1>0, <4>1
      <4> QED BY <2>2, <4>1, <4>2
    <3> QED BY <3>2, <3>3
  <2> QED BY <2>1, <2>5
<1>3. ChainOf(ps) \subseteq G
  <2>1. ClosedIn(ps, G)
    BY <1>1, <1>2 DEF ClosedIn
  <2>2. G \in SUBSET (1 .. Len(ps))
    BY <1>0
  <2> HIDE DEF G
  <2> QED BY <2>1, <2>2, ChainIsLeast
<1> QED BY <1>3

\* Pages that are added, and changes other than of next_page_id_, leave it as it is.
LEMMA ChainStays ==
  ASSUME NEW ps, NEW qs, Forward(ps), Forward(qs), Len(ps) <= Len(qs),
         \A x \in 1 .. Len(ps) : qs[x].next = ps[x].next
  PROVE  ChainOf(qs) = ChainOf(ps)
<1>0. Len(ps) \in Nat /\ Len(qs) \in Nat /\ 1 .. Len(ps) \subseteq 1 .. Len(qs)
  BY DEF Forward
<1>1. ChainOf(qs) \subseteq ChainOf(ps)
  <2>1. \A q \in ChainOf(ps) : qs[q].next # INVALID_PAGE_ID => qs[q].next \in ChainOf(ps)
    BY ChainCloses
  <2>2. FirstPage \in ChainOf(ps) /\ ChainOf(ps) \in SUBSET (1 .. Len(qs))
    BY <1>0, ChainCloses
  <2>3. ClosedIn(qs, ChainOf(ps))
    BY <2>1, <2>2 DEF ClosedIn
  <2> QED BY <2>2, <2>3, ChainIsLeast
<1>2. ChainOf(ps) \subseteq ChainOf(qs)
  <2> DEFINE S == ChainOf(qs) \cap (1 .. Len(ps))
  <2>1. FirstPage \in S
    BY <1>0, ChainCloses DEF FirstPage, Forward
  <2>2. ASSUME NEW q \in S, ps[q].next # INVALID_PAGE_ID PROVE ps[q].next \in S
    <3>1. ps[q].next = qs[q].next /\ ps[q].next \in 1 .. Len(ps)
      BY <2>2 DEF Forward
    <3>2. qs[q].next \in ChainOf(qs)
      BY <2>2, <3>1, ChainCloses
    <3> QED BY <3>1, <3>2
  <2>3. ClosedIn(ps, S) /\ S \in SUBSET (1 .. Len(ps))
    BY <2>1, <2>2 DEF ClosedIn
  <2> HIDE DEF S
  <2>4. ChainOf(ps) \subseteq S
    BY <2>3, ChainIsLeast
  <2> QED BY <2>4 DEF S
<1> QED BY <1>1, <1>2

\* A page n that is linked behind p cuts off what came after p, if p is in the chain.
LEMMA ChainLinks ==
  ASSUME NEW ps, NEW qs, Forward(ps), Forward(qs), Len(qs) = Len(ps),
         NEW p \in 1 .. Len(ps), NEW n \in 1 .. Len(ps), n # FirstPage,
         qs[p].next = n, qs[n].next = INVALID_PAGE_ID,
         \A x \in 1 .. Len(ps) : x # p /\ x # n => qs[x].next = ps[x].next,
         \A x \in 1 .. Len(ps) : ps[x].next # n
  PROVE  /\ \A x \in ChainOf(qs) : x = n \/ (x \in ChainOf(ps) /\ (p \in ChainOf(ps) => x <= p))
         /\ \A x \in ChainOf(ps) : (p \in ChainOf(ps) => x <= p) => x \in ChainOf(qs)
<1>0. /\ ChainOf(ps) \subseteq 1 .. Len(ps) /\ FirstPage \in ChainOf(ps)
      /\ \A q \in ChainOf(ps) : ps[q].next # INVALID_PAGE_ID =>
            ps[q].next \in ChainOf(ps) /\ ps[q].next > q
      /\ \A q \in 1 .. Len(ps) : q \in Int /\ q >= 1
      /\ FirstPage \in ChainOf(qs) /\ p # n
  BY ChainCloses DEF Forward
<1>1. n \notin ChainOf(ps)
  <2> DEFINE S == ChainOf(ps) \ {n}
  <2>1. ClosedIn(ps, S)
    BY <1>0 DEF ClosedIn
  <2>2. S \in SUBSET (1 .. Len(ps))
    BY <1>0
  <2> HIDE DEF S
  <2>3. ChainOf(ps) \subseteq S
    BY <2>1, <2>2, ChainIsLeast
  <2> QED BY <2>3 DEF S
<1>2. \A x \in ChainOf(qs) : x = n \/ (x \in ChainOf(ps) /\ (p \in ChainOf(ps) => x <= p))
  <2> DEFINE S == {x \in ChainOf(ps) : p \in ChainOf(ps) => x <= p} \cup {n}
  <2>1. FirstPage \in S
    BY <1>0 DEF FirstPage
  <2>2. ASSUME NEW x \in S, qs[x].next # INVALID_PAGE_ID PROVE qs[x].next \in S
    <3>1. CASE x = p
      BY <3>1
    <3>2. CASE x # p
      <4>1. x # n /\ x \in ChainOf(ps) /\ x \in 1 .. Len(ps) /\ (p \in ChainOf(ps) => x <= p)
        BY <1>0, <2>2
      <4>2. qs[x].next = ps[x].next /\ ps[x].next \in ChainOf(ps)
        BY <1>0, <2>2, <3>2, <4>1
      <4>3. p \in ChainOf(ps) => x < p
        BY <1>0, <3>2, <4>1
      <4>4. p \in ChainOf(ps) => ps[x].next <= p
        BY <4>1, <4>3, ChainIsOrdered
      <4> QED BY <4>2, <4>4
    <3> QED BY <3>1, <3>2
  <2>3. ClosedIn(qs, S) /\ S \in SUBSET (1 .. Len(qs))
    BY <1>0, <2>1, <2>2 DEF ClosedIn
  <2> HIDE DEF S
  <2>4. ChainOf(qs) \subseteq S
    BY <2>3, ChainIsLeast
  <2> QED BY <2>4 DEF S
<1>3. \A x \in ChainOf(ps) : (p \in ChainOf(ps) => x <= p) => x \in ChainOf(qs)
  <2> DEFINE S == {x \in ChainOf(ps) : (p \in ChainOf(ps) => x <= p) => x \in ChainOf(qs)}
  <2>1. FirstPage \in S
    BY <1>0
  <2>2. ASSUME NEW x \in S, ps[x].next # INVALID_PAGE_ID PROVE ps[x].next \in S
    <3>1. x \in ChainOf(ps) /\ x \in 1 .. Len(ps) /\ ps[x].next \in ChainOf(ps) /\ ps[x].next > x
          /\ x \in Int /\ ps[x].next \in Int /\ p \in Int /\ x # n
      BY <1>0, <1>1, <2>2
    <3>2. ASSUME p \in ChainOf(ps) => ps[x].next <= p PROVE ps[x].next \in ChainOf(qs)
      <4>1. x # p /\ (p \in ChainOf(ps) => x <= p)
        BY <3>1, <3>2
      <4>2. x \in ChainOf(qs) /\ qs[x].next = ps[x].next
        BY <2>2, <3>1, <4>1
      <4> QED BY <2>2, <4>2, ChainCloses
    <3> QED BY <3>1, <3>2
  <2>3. ClosedIn(ps, S) /\ S \in SUBSET (1 .. Len(ps))
    BY <1>0, <2>1, <2>2 DEF ClosedIn
  <2> HIDE DEF S
  <2>4. ChainOf(ps) \subseteq S
    BY <2>3, ChainIsLeast
  <2> QED BY <2>4 DEF S
<1> QED BY <1>2, <1>3

-----------------------------------------------------------------------------
(* The inductive invariant.                                                *)

ScanType == [state : {"idle", "seek", "row", "done", "cut"}, page : Nat, slot : Nat,
             seen : SUBSET (Nat \X Nat), must : SUBSET (Nat \X Nat)]

PagesInv ==
  /\ pages \in Seq(PageType)
  /\ Len(pages) \in 1 .. MaxPages
  /\ \A p \in PageIds : PageOK(pages[p])

WriterType ==
  /\ pc \in [Writers -> {"idle", "walk", "append", "link", "moving"}]
  /\ job \in [Writers -> [size : Sizes, tag : 0 .. MaxWrites]]
  /\ cur \in [Writers -> 0 .. Len(pages)]
  /\ prev \in [Writers -> 0 .. Len(pages)]
  /\ target \in [Writers -> (0 .. Len(pages)) \X Nat]
  /\ \A w \in Writers : target[w] = NoRid \/ pc[w] = "moving"

RestType ==
  /\ scan \in [Scanners -> ScanType]
  /\ writes \in 0 .. MaxWrites
  /\ scans \in 0 .. MaxScans
  /\ DOMAIN told \subseteq PageIds \X Nat
  /\ compacted \subseteq PageIds
  /\ crashed \in BOOLEAN

\* Page x was allocated, and nobody but the writer that links it knows of it.
Fresh(x) ==
  /\ pages[x].slots = <<>>
  /\ pages[x].next = INVALID_PAGE_ID
  /\ \A q \in PageIds : pages[q].next # x /\ pages[q].prev # x
  /\ \A w \in Writers : /\ prev[w] # x
                        /\ target[w][1] # x
                        /\ cur[w] = x => pc[w] = "link"
  /\ \A r \in DOMAIN told : r[1] # x
  /\ \A s \in Scanners : \A r \in scan[s].must : r[1] # x

\* Writers are on pages of the file, and the page that a writer links is its own.
WriterInv ==
  \A w \in Writers :
     /\ pc[w] = "walk" => cur[w] # INVALID_PAGE_ID
     /\ pc[w] = "append" => prev[w] # INVALID_PAGE_ID
     /\ pc[w] = "moving" => target[w][1] # INVALID_PAGE_ID
     /\ pc[w] = "link" => /\ cur[w] \in PageIds
                          /\ prev[w] \in PageIds
                          /\ Fresh(cur[w])
                          /\ pages[cur[w]].prev = prev[w]
                          /\ \A v \in Writers : pc[v] = "link" /\ cur[v] = cur[w] => v = w

\* A page points forward, at a page that points back at it.  A page in use whose
\* predecessor it knows was linked behind it, or another one has been since.
LinkInv ==
  \A x \in PageIds :
     /\ pages[x].prev < x
     /\ pages[x].next # INVALID_PAGE_ID =>
           /\ pages[x].next \in PageIds
           /\ pages[x].next > x
           /\ pages[pages[x].next].prev = x
     /\ \/ x = FirstPage \/ Fresh(x)
        \/ pages[x].prev = INVALID_PAGE_ID
        \/ pages[pages[x].prev].next # INVALID_PAGE_ID

\* The rows that a scan has to return were on pages in use, in slots that are there
\* still unless ApplyDelete closed them up.
MustInv ==
  \A s \in Scanners :
     /\ scan[s].state \in {"seek", "row"} => scan[s].page \in PageIds
     /\ scan[s].state = "done" => scan[s].page = INVALID_PAGE_ID
     /\ \A r \in scan[s].must :
           /\ r[1] \in PageIds
           /\ r[1] \notin compacted => r[2] \in SlotsOf(pages[r[1]])

\* The rows that are still there, in reach of a new scan, were seen or are ahead.
ScanInv ==
  \A s \in Scanners : scan[s].state \in {"seek", "row", "done"} =>
     \A r \in scan[s].must \ scan[s].seen :
        r[1] \in Chain \ compacted /\ r[2] \in LiveSlots(pages[r[1]]) =>
           /\ scan[s].page \in Chain
           /\ \/ r[1] > scan[s].page
              \/ r[1] = scan[s].page /\ r[2] >= scan[s].slot

HeapInv ==
  /\ PagesInv /\ WriterType /\ RestType
  /\ RowAtItsRid /\ WriterInv /\ LinkInv /\ MustInv /\ ScanInv

-----------------------------------------------------------------------------
(* What the invariant says.                                                *)

\* Facts about pages that most steps need
LEMMA PageFacts ==
  ASSUME PagesInv
  PROVE  /\ Len(pages) \in Nat /\ Len(pages) > 0 /\ Len(pages) <= MaxPages
         /\ PageIds = 1 .. Len(pages) /\ DOMAIN pages = PageIds
         /\ FirstPage \in PageIds
         /\ \A p \in PageIds : /\ p \in Nat /\ p > 0
                               /\ pages[p] \in PageType /\ PageOK(pages[p])
                               /\ pages[p].prev \in Nat /\ pages[p].next \in Nat
<1>1. /\ Len(pages) \in Nat /\ Len(pages) > 0 /\ Len(pages) <= MaxPages
      /\ PageIds = 1 .. Len(pages) /\ DOMAIN pages = PageIds
  BY Constants DEF PagesInv, PageIds
<1>2. \A p \in PageIds : pages[p] \in PageType /\ PageOK(pages[p])
  BY DEF PagesInv, PageOK
<1>3. \A p \in PageIds : pages[p].prev \in 0 .. MaxPages /\ pages[p].next \in 0 .. MaxPages
  BY <1>2, PageParts
<1> QED BY <1>1, <1>2, <1>3, Constants DEF FirstPage

\* The pages point forward.
LEMMA PagesAreForward ==
  ASSUME PagesInv, LinkInv
  PROVE  Forward(pages)
BY PageFacts DEF Forward, LinkInv, PageIds

\* A row that callers were told of is in a live slot unless slots were closed up.
LEMMA ToldIsLive ==
  ASSUME PagesInv, RestType, RowAtItsRid, NEW r \in DOMAIN told, r[1] \notin compacted
  PROVE  /\ r[1] \in PageIds
         /\ r[2] \in LiveSlots(pages[r[1]])
         /\ GetTuple(pages[r[1]], r[2]) = {told[r]}
<1>1. r[1] \in PageIds /\ GetTuple(pages[r[1]], r[2]) = {told[r]}
  BY DEF RestType, RowAtItsRid
<1>2. {told[r]} # {}
  OBVIOUS
<1> QED BY <1>1, <1>2 DEF GetTuple, InRange, LiveSlots

\* The invariant implies that rows are intact.
LEMMA InvMeansIntact ==
  ASSUME HeapInv
  PROVE  RowsAreIntact
<1>1. TypeOK
  <2>1. /\ cur \in [Writers -> 0 .. MaxPages] /\ prev \in [Writers -> 0 .. MaxPages]
    <3>1. 0 .. Len(pages) \subseteq 0 .. MaxPages
      BY PageFacts, Constants DEF HeapInv
    <3>2. cur \in [Writers -> 0 .. Len(pages)] /\ prev \in [Writers -> 0 .. Len(pages)]
      BY DEF HeapInv, WriterType
    <3> QED BY <3>1, <3>2
  <2>2. pages \in Seq(PageType)
    BY DEF HeapInv, PagesInv
  <2>3. \A s \in Scanners : scan[s].state \in {"idle", "seek", "row", "done", "cut"}
    BY DEF HeapInv, RestType, ScanType
  <2> QED BY <2>1, <2>2, <2>3 DEF TypeOK, HeapInv, WriterType, RestType, PageType
<1>2. PagesAreSound
  <2>1. \A p \in PageIds : pages[p] \in PageType /\ Laid(pages[p])
    BY DEF HeapInv, PagesInv, PageOK
  <2> QED BY <2>1, LaidIsSound DEF PagesAreSound
<1> QED BY <1>1, <1>2 DEF HeapInv, RowsAreIntact

\* The ancestors of a page are the smallest set that holds it and is closed under prev.
LEMMA AncestorsClose ==
  ASSUME PagesInv, LinkInv, NEW p \in PageIds
  PROVE  /\ Ancestors(p) \subseteq PageIds /\ p \in Ancestors(p)
         /\ \A a \in Ancestors(p) : pages[a].prev = INVALID_PAGE_ID \/ pages[a].prev \in Ancestors(p)
<1>1. p \in Ancestors(p)
  BY DEF Ancestors
<1>2. ASSUME NEW a \in Ancestors(p), pages[a].prev # INVALID_PAGE_ID
      PROVE  pages[a].prev \in Ancestors(p)
  <2>1. a \in PageIds
    BY DEF Ancestors
  <2>2. pages[a].prev < a
    BY <2>1 DEF LinkInv
  <2>3. pages[a].prev \in PageIds
    BY <1>2, <2>1, <2>2, PageFacts DEF INVALID_PAGE_ID
  <2>4. ASSUME NEW S \in SUBSET PageIds, p \in S,
               \A q \in S : pages[q].prev \in S \cup {INVALID_PAGE_ID}
        PROVE  pages[a].prev \in S
    <3>1. a \in S
      BY <2>4 DEF Ancestors
    <3> QED BY <1>2, <2>4, <3>1
  <2> QED BY <2>3, <2>4 DEF Ancestors
<1> QED BY <1>1, <1>2 DEF Ancestors

\* A page that was used has only ancestors that were.
LEMMA AncestorsAreUsed ==
  ASSUME PagesInv, LinkInv, NEW p \in PageIds, ~Fresh(p), NEW a \in Ancestors(p)
  PROVE  ~Fresh(a)
<1> DEFINE S == {q \in PageIds : ~Fresh(q)}
<1>1. p \in S /\ S \in SUBSET PageIds
  OBVIOUS
<1>2. ASSUME NEW q \in S PROVE pages[q].prev \in S \cup {INVALID_PAGE_ID}
  <2>1. CASE pages[q].prev = INVALID_PAGE_ID
    BY <2>1
  <2>2. CASE pages[q].prev # INVALID_PAGE_ID
    <3>1. pages[q].prev < q
      BY DEF LinkInv
    <3>2. pages[q].prev \in PageIds
      BY <2>2, <3>1, PageFacts DEF INVALID_PAGE_ID
    <3>3. ~Fresh(pages[q].prev)
      BY DEF Fresh
    <3> QED BY <3>2, <3>3
  <2> QED BY <2>1, <2>2
<1> HIDE DEF S
<1>3. a \in S
  BY <1>1, <1>2 DEF Ancestors
<1> QED BY <1>3 DEF S

\* The invariant implies that rows are lost in two ways only: of the ancestors of a
\* page with a row, those that the chain does not hold have a least one.
LEMMA InvMeansRaces ==
  ASSUME HeapInv
  PROVE  LostOnlyToRaces
<1> SUFFICES ASSUME NEW r \in DOMAIN told, r[1] \notin Chain,
                    \A p \in Ancestors(r[1]) \ {FirstPage} :
                       ~(Raced(p) \/ pages[p].prev = INVALID_PAGE_ID)
             PROVE  FALSE
  BY DEF LostOnlyToRaces
<1>0. PagesInv /\ LinkInv /\ Forward(pages)
  BY PagesAreForward DEF HeapInv
<1>1. r[1] \in PageIds /\ ~Fresh(r[1])
  BY DEF HeapInv, RestType, Fresh
<1> DEFINE Lost == Ancestors(r[1]) \ Chain
<1>2. PICK y \in Lost : \A z \in Lost : y <= z
  <2>1. Lost \subseteq Nat /\ Lost # {}
    BY <1>0, <1>1, AncestorsClose, PageFacts
  <2> HIDE DEF Lost
  <2> QED BY <2>1, SomeLeast
<1>3. y \in PageIds /\ ~Fresh(y) /\ y # FirstPage
  BY <1>0, <1>1, AncestorsClose, AncestorsAreUsed, ChainCloses, ChainIs
<1>4. ~Raced(y) /\ pages[y].prev # INVALID_PAGE_ID
  BY <1>2, <1>3
<1>5. pages[y].prev < y /\ pages[pages[y].prev].next # INVALID_PAGE_ID
  BY <1>0, <1>3, <1>4 DEF LinkInv
<1>6. pages[y].prev \in PageIds /\ pages[y].prev \in Ancestors(r[1])
  BY <1>0, <1>1, <1>3, <1>4, <1>5, AncestorsClose
<1>7. pages[y].prev \in Chain
  <2>1. ~(y <= pages[y].prev)
    BY <1>0, <1>3, <1>5, PageFacts
  <2>2. pages[y].prev \notin Lost
    BY <1>2, <2>1
  <2> QED BY <1>6, <2>2
<1>8. PICK z \in PageIds : z = pages[pages[y].prev].next
  BY <1>0, <1>5, <1>6 DEF LinkInv
<1>9. pages[z].prev = pages[y].prev /\ z > pages[y].prev
  BY <1>0, <1>5, <1>6, <1>8 DEF LinkInv
<1>10. z # FirstPage
  BY <1>0, <1>6, <1>8, <1>9, PageFacts DEF FirstPage
<1>11. z = y
  BY <1>3, <1>4, <1>9, <1>10 DEF Raced
<1>12. z \in Chain
  BY <1>0, <1>5, <1>7, <1>8, ChainCloses, ChainIs
<1> QED BY <1>2, <1>11, <1>12

\* The invariant implies that scans are complete: nothing lies ahead of one at its end.
LEMMA InvMeansComplete ==
  ASSUME HeapInv
  PROVE  ScanComplete
<1> SUFFICES ASSUME NEW s \in Scanners, scan[s].state = "done",
                    NEW r \in scan[s].must \cap Findable, r \notin scan[s].seen
             PROVE  FALSE
  BY DEF ScanComplete
<1>1. PagesInv /\ LinkInv /\ Forward(pages)
  BY PagesAreForward DEF HeapInv
<1>2. r \in DOMAIN told /\ r[1] \in Chain \ compacted
  BY DEF Findable
<1>3. r[2] \in LiveSlots(pages[r[1]])
  BY <1>2, ToldIsLive DEF HeapInv
<1>4. scan[s].page \in Chain
  BY <1>2, <1>3 DEF HeapInv, ScanInv
<1>5. scan[s].page = INVALID_PAGE_ID
  BY DEF HeapInv, MustInv
<1> QED BY <1>1, <1>4, <1>5, ChainIs, ChainCloses DEF INVALID_PAGE_ID, Forward

-----------------------------------------------------------------------------
(* The shapes of a step: what the writer does with its variables, and what  *)
(* happens to the pages.                                                    *)

Goes(w, a, j, c, p, t) ==
  /\ pc' = [pc EXCEPT ![w] = a]
  /\ job' = [job EXCEPT ![w] = j]
  /\ cur' = [cur EXCEPT ![w] = c]
  /\ prev' = [prev EXCEPT ![w] = p]
  /\ target' = [target EXCEPT ![w] = t]

\* Writer w goes to pages in use.
MayGo(a, j, c, p, t) ==
  /\ a \in {"idle", "walk", "append", "moving"}
  /\ j \in [size : Sizes, tag : 0 .. MaxWrites]
  /\ c \in 0 .. Len(pages) /\ p \in 0 .. Len(pages) /\ t \in (0 .. Len(pages)) \X Nat
  /\ t = NoRid \/ a = "moving"
  /\ a = "walk" => c # INVALID_PAGE_ID
  /\ a = "append" => p # INVALID_PAGE_ID
  /\ a = "moving" => t[1] # INVALID_PAGE_ID
  /\ \A x \in PageIds \ {FirstPage} : Fresh(x) => c # x /\ p # x /\ t[1] # x

Settles(w) == \E a, j, c, p, t : Goes(w, a, j, c, p, t) /\ MayGo(a, j, c, p, t)

Bystanders ==
  scan' = scan /\ scans' = scans /\ writes' \in 0 .. MaxWrites /\ crashed' \in BOOLEAN

Calm == pages' = pages /\ told' = told /\ compacted' = compacted

\* Page p gets other slots or bytes: none that was dead comes back, and callers are
\* told nothing that it does not hold, unless its slots are closed up.
Rewrites(p, pg) ==
  /\ p \in PageIds /\ ~Fresh(p)
  /\ PageOK(pg) /\ pg.prev = pages[p].prev /\ pg.next = pages[p].next
  /\ pages' = [pages EXCEPT ![p] = pg]
  /\ compacted' \in {compacted, compacted \cup {p}}
  /\ p \notin compacted' =>
        /\ Len(pages[p].slots) <= Len(pg.slots)
        /\ \A i \in 1 .. Len(pages[p].slots) : i \in LiveSlots(pg) => i \in LiveSlots(pages[p])
  /\ \A r \in DOMAIN told' :
        /\ r \in PageIds \X Nat
        /\ \/ /\ r \in DOMAIN told /\ told'[r] = told[r]
              /\ r[1] = p /\ p \notin compacted' => GetTuple(pg, r[2]) = GetTuple(pages[p], r[2])
           \/ /\ r[1] = p
              /\ p \notin compacted' => GetTuple(pg, r[2]) = {told'[r]}

\* The page that w allocated takes its first tuple.
Takes(w, pg) ==
  /\ pc[w] = "link"
  /\ PageOK(pg) /\ pg.next = INVALID_PAGE_ID
  /\ Len(pg.slots) = 1 /\ LiveSlots(pg) = {1} /\ GetTuple(pg, 1) = {job[w].tag}
  /\ told' = Tell(<<cur[w], 1>>, job[w].tag)
  /\ compacted' = compacted

Links(w, pg) ==
  /\ Takes(w, pg)
  /\ pg.prev = prev[w]
  /\ pages' = [pages EXCEPT ![cur[w]] = pg, ![prev[w]].next = cur[w]]

Orphans(w, pg) ==
  /\ Takes(w, pg)
  /\ pg.prev = INVALID_PAGE_ID
  /\ pages' = [pages EXCEPT ![cur[w]] = pg]

Appends(w) ==
  /\ pc[w] = "append"
  /\ Len(pages) < MaxPages
  /\ pages' = Append(pages, EmptyPage(prev[w]))
  /\ Goes(w, "link", job[w], Len(pages) + 1, prev[w], target[w])
  /\ told' = told /\ compacted' = compacted

Shapes(w) ==
  /\ Bystanders
  /\ \/ /\ Settles(w)
        /\ \/ Calm
           \/ \E p, pg : Rewrites(p, pg)
           \/ \E pg : Links(w, pg) \/ Orphans(w, pg)
     \/ Appends(w)

-----------------------------------------------------------------------------
(* Every operation of a writer has one of the shapes.                      *)

\* What a writer holds between two calls
LEMMA NoJobs ==
  /\ NoJob \in [size : Sizes, tag : 0 .. MaxWrites]
  /\ NoRid = <<0, 0>> /\ NoRid[1] = INVALID_PAGE_ID
<1>1. (CHOOSE z \in Sizes : TRUE) \in Sizes
  BY Constants
<1> QED BY <1>1, Constants DEF NoJob, NoTag, NoRid, INVALID_PAGE_ID

\* A call that returns leaves its writer idle.
LEMMA ReturnSettles ==
  ASSUME HeapInv, NEW w \in Writers, Return(w)
  PROVE  Settles(w)
<1>1. Goes(w, "idle", NoJob, INVALID_PAGE_ID, INVALID_PAGE_ID, NoRid)
  BY DEF Return, Goes
<1>2. MayGo("idle", NoJob, INVALID_PAGE_ID, INVALID_PAGE_ID, NoRid)
  <2>1. Len(pages) \in Nat /\ \A x \in PageIds : x # 0
    BY PageFacts DEF HeapInv
  <2> QED BY <2>1, NoJobs DEF MayGo, INVALID_PAGE_ID
<1> QED BY <1>1, <1>2 DEF Settles

\* A call that starts its walk goes to the first page.
LEMMA StartSettles ==
  ASSUME HeapInv, NEW w \in Writers, NEW size \in Sizes, NEW tag \in 0 .. MaxWrites,
         StartWalk(w, size, tag)
  PROVE  Settles(w)
<1> DEFINE j == [size |-> size, tag |-> tag]
<1>1. Goes(w, "walk", j, FirstPage, INVALID_PAGE_ID, NoRid)
  BY DEF StartWalk, Goes
<1>2. MayGo("walk", j, FirstPage, INVALID_PAGE_ID, NoRid)
  <2>1. Len(pages) \in Nat /\ Len(pages) > 0 /\ \A x \in PageIds : x # 0
    BY PageFacts DEF HeapInv
  <2>2. j \in [size : Sizes, tag : 0 .. MaxWrites]
    OBVIOUS
  <2> QED BY <2>1, <2>2, NoJobs DEF MayGo, INVALID_PAGE_ID, FirstPage
<1> QED BY <1>1, <1>2 DEF Settles

\* A call of one step leaves its writer as it was.
LEMMA IdleSettles ==
  ASSUME HeapInv, NEW w \in Writers, pc[w] = "idle", UNCHANGED writer
  PROVE  Settles(w)
<1>0. /\ pc \in [Writers -> {"idle", "walk", "append", "link", "moving"}]
      /\ job \in [Writers -> [size : Sizes, tag : 0 .. MaxWrites]]
      /\ cur \in [Writers -> 0 .. Len(pages)]
      /\ prev \in [Writers -> 0 .. Len(pages)]
      /\ target \in [Writers -> (0 .. Len(pages)) \X Nat]
      /\ target[w] = NoRid
  BY DEF HeapInv, WriterType
<1>1. Goes(w, pc[w], job[w], cur[w], prev[w], target[w])
  BY <1>0 DEF Goes, writer
<1>2. MayGo(pc[w], job[w], cur[w], prev[w], target[w])
  BY <1>0 DEF MayGo, Fresh
<1> QED BY <1>1, <1>2 DEF Settles

\* What a RID of the file is: a slot of a page that was used.
LEMMA RidsAreUsed ==
  ASSUME HeapInv, NEW rid \in Rids
  PROVE  /\ rid[1] \in PageIds /\ rid[2] \in SlotsOf(pages[rid[1]])
         /\ rid[2] \in 1 .. Len(pages[rid[1]].slots)
         /\ rid \in PageIds \X Nat /\ rid = <<rid[1], rid[2]>>
         /\ PageOK(pages[rid[1]]) /\ pages[rid[1]] \in PageType
         /\ ~Fresh(rid[1])
         /\ ~IsDeleted(pages[rid[1]], rid[2]) => rid[2] \in LiveSlots(pages[rid[1]])
<1>1. rid \in PageIds \X (1 .. PAGE_SIZE) /\ rid[2] \in SlotsOf(pages[rid[1]])
  BY DEF Rids
<1>2. rid[1] \in PageIds /\ rid[2] \in Nat /\ rid = <<rid[1], rid[2]>> /\ rid \in PageIds \X Nat
  BY <1>1, Constants
<1>3. PageOK(pages[rid[1]]) /\ pages[rid[1]] \in PageType
  BY <1>2, PageFacts DEF HeapInv
<1>4. SlotsOf(pages[rid[1]]) = 1 .. Len(pages[rid[1]].slots)
  BY <1>3, PageParts
<1>5. ~Fresh(rid[1])
  <2>1. ASSUME pages[rid[1]].slots = <<>> PROVE FALSE
    BY <1>1, <2>1 DEF SlotsOf
  <2> QED BY <2>1 DEF Fresh
<1> QED BY <1>1, <1>2, <1>3, <1>4, <1>5 DEF LiveSlots

\* InsertTuple is called: no page changes.
LEMMA BeginInsertShape ==
  ASSUME HeapInv, NEW w \in Writers, NEW size \in Sizes, BeginInsert(w, size)
  PROVE  Shapes(w)
<1>1. writes + 1 \in 0 .. MaxWrites
  BY Constants DEF BeginInsert, HeapInv, RestType
<1>2. Settles(w)
  BY <1>1, StartSettles DEF BeginInsert
<1>3. Bystanders /\ Calm
  BY <1>1 DEF BeginInsert, Bystanders, Calm, HeapInv, RestType
<1> QED BY <1>2, <1>3 DEF Shapes

\* Nothing but the writer's own variables changes.
LEMMA QuietShape ==
  ASSUME HeapInv, NEW w \in Writers, Settles(w), crashed' \in BOOLEAN,
         UNCHANGED <<pages, scan, writes, scans, told, compacted>>
  PROVE  Shapes(w)
<1>1. Bystanders /\ Calm
  BY DEF Bystanders, Calm, HeapInv, RestType
<1> QED BY <1>1 DEF Shapes

\* InsertTuple finds room: the page is rewritten with one tuple more.
LEMMA InsertHereShape ==
  ASSUME HeapInv, NEW w \in Writers, InsertHere(w)
  PROVE  Shapes(w)
<1>1. PICK p : p = cur[w]
  OBVIOUS
<1>2. /\ pc[w] = "walk" /\ p \in PageIds /\ ~Fresh(p) /\ p \in Nat
      /\ job[w].size \in Sizes /\ job[w].tag \in 0 .. MaxWrites
  <2>1. cur[w] \in 0 .. Len(pages) /\ job[w] \in [size : Sizes, tag : 0 .. MaxWrites]
    BY DEF HeapInv, WriterType
  <2>2. pc[w] = "walk" /\ cur[w] # INVALID_PAGE_ID
    BY DEF InsertHere
  <2> QED BY <1>1, <2>1, <2>2, PageFacts DEF HeapInv, Fresh, INVALID_PAGE_ID
<1>3. PageOK(pages[p]) /\ HasRoom(pages[p], job[w].size)
  BY <1>1, <1>2, PageFacts DEF HeapInv, InsertHere
<1>4. PICK off : Fits(pages[p], job[w].size, off)
  BY <1>2, <1>3, RoomFits
<1>5. PICK pg : pg = InsertTuple(pages[p], job[w].size, job[w].tag)
  OBVIOUS
<1>6. PICK n \in Nat : n = Len(pages[p].slots)
  BY <1>3, PageParts DEF PageOK
<1>7. /\ PageOK(pg)
      /\ pg.prev = pages[p].prev /\ pg.next = pages[p].next
      /\ Len(pg.slots) = n + 1
      /\ LiveSlots(pg) = LiveSlots(pages[p]) \cup {n + 1}
      /\ \A i \in 1 .. n : GetTuple(pg, i) = GetTuple(pages[p], i)
      /\ GetTuple(pg, n + 1) = {job[w].tag}
  <2>1. PICK old : old = pages[p]
    OBVIOUS
  <2>2. PICK size \in Sizes, tag \in 0 .. MaxWrites : size = job[w].size /\ tag = job[w].tag
    BY <1>2
  <2>3. PageOK(old) /\ Fits(old, size, off) /\ pg = InsertTuple(old, size, tag)
    BY <1>3, <1>4, <1>5, <2>1, <2>2
  <2>4. /\ PageOK(pg)
        /\ pg.prev = old.prev /\ pg.next = old.next
        /\ Len(pg.slots) = Len(old.slots) + 1
        /\ LiveSlots(pg) = LiveSlots(old) \cup {Len(old.slots) + 1}
        /\ \A i \in 1 .. Len(old.slots) : GetTuple(pg, i) = GetTuple(old, i)
        /\ GetTuple(pg, Len(old.slots) + 1) = {tag}
    BY <2>3, InsertKeeps, SMTT(30)
  <2> QED BY <1>6, <2>1, <2>2, <2>4
<1>8. /\ pages' = [pages EXCEPT ![p] = pg]
      /\ told' = Tell(<<p, n + 1>>, job[w].tag)
      /\ Return(w) /\ UNCHANGED <<scan, writes, scans, compacted, crashed>>
  BY <1>1, <1>5, <1>7 DEF InsertHere
<1>9. ASSUME NEW r \in DOMAIN told'
      PROVE  /\ r \in PageIds \X Nat
             /\ \/ /\ r \in DOMAIN told /\ told'[r] = told[r]
                   /\ r[1] = p /\ p \notin compacted' => GetTuple(pg, r[2]) = GetTuple(pages[p], r[2])
                \/ /\ r[1] = p
                   /\ p \notin compacted' => GetTuple(pg, r[2]) = {told'[r]}
  <2>1. CASE r = <<p, n + 1>>
    <3>1. told'[r] = job[w].tag
      BY <1>8, <2>1 DEF Tell
    <3> QED BY <1>2, <1>7, <2>1, <3>1
  <2>2. CASE r # <<p, n + 1>>
    <3>1. r \in DOMAIN told /\ told'[r] = told[r]
      BY <1>8, <2>2 DEF Tell
    <3>2. r \in PageIds \X Nat
      BY <3>1 DEF HeapInv, RestType
    <3>3. ASSUME r[1] = p, p \notin compacted'
          PROVE  GetTuple(pg, r[2]) = GetTuple(pages[p], r[2])
      <4>1. r[2] \in LiveSlots(pages[p])
        BY <1>8, <3>1, <3>3, ToldIsLive DEF HeapInv
      <4>2. r[2] \in 1 .. n
        BY <1>3, <1>6, <4>1, PageParts DEF PageOK
      <4> QED BY <1>7, <4>2
    <3> QED BY <3>1, <3>2, <3>3
  <2> QED BY <2>1, <2>2
<1>10. Len(pages[p].slots) <= Len(pg.slots)
       /\ \A i \in 1 .. Len(pages[p].slots) : i \in LiveSlots(pg) => i \in LiveSlots(pages[p])
  <2>1. \A i \in 1 .. n : i # n + 1
    OBVIOUS
  <2> QED BY <1>6, <1>7, <2>1
<1>11. Rewrites(p, pg)
  BY <1>2, <1>7, <1>8, <1>9, <1>10 DEF Rewrites
<1>12. Settles(w) /\ Bystanders
  BY <1>8, ReturnSettles DEF Bystanders, HeapInv, RestType
<1> QED BY <1>11, <1>12 DEF Shapes

\* InsertTuple goes on to the next page: no page changes.
LEMMA WalkOnShape ==
  ASSUME HeapInv, NEW w \in Writers, WalkOn(w)
  PROVE  Shapes(w)
<1>1. /\ pc[w] = "walk" /\ cur[w] \in PageIds /\ ~Fresh(cur[w])
      /\ target[w] = NoRid /\ job[w] \in [size : Sizes, tag : 0 .. MaxWrites]
  <2>1. /\ cur[w] \in 0 .. Len(pages) /\ job[w] \in [size : Sizes, tag : 0 .. MaxWrites]
        /\ target[w] = NoRid \/ pc[w] = "moving"
    BY DEF HeapInv, WriterType
  <2>2. pc[w] = "walk" /\ cur[w] # INVALID_PAGE_ID
    BY DEF WalkOn, HeapInv, WriterInv
  <2> QED BY <2>1, <2>2, PageFacts DEF HeapInv, Fresh, INVALID_PAGE_ID
<1> DEFINE nx == pages[cur[w]].next
           a == IF nx = INVALID_PAGE_ID THEN "append" ELSE "walk"
<1>2. nx \in 0 .. Len(pages) /\ \A x \in PageIds : Fresh(x) => nx # x /\ cur[w] # x
  <2>1. nx = INVALID_PAGE_ID \/ nx \in PageIds
    BY <1>1 DEF HeapInv, LinkInv
  <2> QED BY <1>1, <2>1, PageFacts DEF HeapInv, Fresh, INVALID_PAGE_ID
<1>3. Goes(w, a, job[w], nx, cur[w], target[w])
  <2>1. job' = [job EXCEPT ![w] = job[w]] /\ target' = [target EXCEPT ![w] = target[w]]
    BY DEF WalkOn, HeapInv, WriterType
  <2> QED BY <2>1 DEF WalkOn, Goes
<1>4. MayGo(a, job[w], nx, cur[w], target[w])
  <2>1. /\ cur[w] \in 0 .. Len(pages) /\ cur[w] # INVALID_PAGE_ID
        /\ target[w] \in (0 .. Len(pages)) \X Nat
        /\ \A x \in PageIds : x # 0
    BY <1>1, PageFacts DEF HeapInv, WriterType, INVALID_PAGE_ID
  <2>2. a \in {"idle", "walk", "append", "moving"} /\ (a = "walk" => nx # INVALID_PAGE_ID)
        /\ a # "moving"
    OBVIOUS
  <2> HIDE DEF a, nx
  <2> QED BY <1>1, <1>2, <2>1, <2>2, NoJobs DEF MayGo, INVALID_PAGE_ID
<1>5. Settles(w)
  BY <1>3, <1>4 DEF Settles
<1> QED BY <1>5, QuietShape DEF WalkOn, HeapInv, RestType

\* AllocateNewPage adds a page.
LEMMA AppendShape ==
  ASSUME HeapInv, NEW w \in Writers, AppendPage(w)
  PROVE  Shapes(w)
<1>1. /\ job' = [job EXCEPT ![w] = job[w]] /\ target' = [target EXCEPT ![w] = target[w]]
      /\ prev' = [prev EXCEPT ![w] = prev[w]]
  BY DEF AppendPage, HeapInv, WriterType
<1>2. Appends(w)
  BY <1>1 DEF AppendPage, Appends, Goes
<1>3. Bystanders
  BY DEF AppendPage, Bystanders, HeapInv, RestType
<1> QED BY <1>2, <1>3 DEF Shapes

\* What a writer that links its page knows
LEMMA LinkKnows ==
  ASSUME HeapInv, NEW w \in Writers, pc[w] = "link"
  PROVE  /\ cur[w] \in PageIds /\ prev[w] \in PageIds /\ prev[w] < cur[w] /\ cur[w] # FirstPage
         /\ cur[w] \in Nat /\ prev[w] \in Nat
         /\ Fresh(cur[w]) /\ pages[cur[w]].prev = prev[w]
         /\ \A v \in Writers : pc[v] = "link" /\ cur[v] = cur[w] => v = w
         /\ prev[w] \in 0 .. MaxPages
         /\ job[w].size \in Sizes /\ job[w].tag \in 0 .. MaxWrites
<1>1. /\ cur[w] \in PageIds /\ prev[w] \in PageIds /\ Fresh(cur[w]) /\ pages[cur[w]].prev = prev[w]
      /\ \A v \in Writers : pc[v] = "link" /\ cur[v] = cur[w] => v = w
  BY DEF HeapInv, WriterInv
<1>2. prev[w] < cur[w]
  BY <1>1 DEF HeapInv, LinkInv
<1>3. /\ cur[w] \in Nat /\ prev[w] \in Nat /\ prev[w] > 0 /\ prev[w] \in 0 .. MaxPages
  BY <1>1, PageFacts, Constants DEF HeapInv
<1>4. job[w] \in [size : Sizes, tag : 0 .. MaxWrites]
  BY DEF HeapInv, WriterType
<1> QED BY <1>1, <1>2, <1>3, <1>4 DEF FirstPage

\* The new page is linked and takes the tuple.
LEMMA LinkShape ==
  ASSUME HeapInv, NEW w \in Writers, LinkAndInsert(w)
  PROVE  Shapes(w)
<1>1. PICK pg : pg = InsertTuple(EmptyPage(prev[w]), job[w].size, job[w].tag)
  OBVIOUS
<1>2. pc[w] = "link"
  BY DEF LinkAndInsert
<1>3. /\ PageOK(pg) /\ pg.prev = prev[w] /\ pg.next = INVALID_PAGE_ID
      /\ Len(pg.slots) = 1 /\ LiveSlots(pg) = {1} /\ GetTuple(pg, 1) = {job[w].tag}
  BY <1>1, <1>2, LinkKnows, EmptyPageTakes
<1>4. /\ pages' = [pages EXCEPT ![cur[w]] = pg, ![prev[w]].next = cur[w]]
      /\ told' = Tell(<<cur[w], 1>>, job[w].tag)
      /\ Return(w) /\ UNCHANGED <<scan, writes, scans, compacted, crashed>>
  BY <1>1 DEF LinkAndInsert
<1>5. Links(w, pg)
  BY <1>2, <1>3, <1>4 DEF Links, Takes
<1>6. Settles(w) /\ Bystanders
  BY <1>4, ReturnSettles DEF Bystanders, HeapInv, RestType
<1> QED BY <1>5, <1>6 DEF Shapes

\* The new page takes the tuple and stays without a predecessor.
LEMMA LinkFailsShape ==
  ASSUME HeapInv, NEW w \in Writers, LinkFails(w)
  PROVE  Shapes(w)
<1>1. PICK pg : pg = InsertTuple(EmptyPage(INVALID_PAGE_ID), job[w].size, job[w].tag)
  OBVIOUS
<1>2. pc[w] = "link" /\ INVALID_PAGE_ID \in 0 .. MaxPages
  BY Constants DEF LinkFails, INVALID_PAGE_ID
<1>3. /\ PageOK(pg) /\ pg.prev = INVALID_PAGE_ID /\ pg.next = INVALID_PAGE_ID
      /\ Len(pg.slots) = 1 /\ LiveSlots(pg) = {1} /\ GetTuple(pg, 1) = {job[w].tag}
  BY <1>1, <1>2, LinkKnows, EmptyPageTakes
<1>4. /\ pages' = [pages EXCEPT ![cur[w]] = pg]
      /\ told' = Tell(<<cur[w], 1>>, job[w].tag)
      /\ Return(w) /\ UNCHANGED <<scan, writes, scans, compacted, crashed>>
  BY <1>1 DEF LinkFails
<1>5. Orphans(w, pg)
  BY <1>2, <1>3, <1>4 DEF Orphans, Takes
<1>6. Settles(w) /\ Bystanders
  BY <1>4, ReturnSettles DEF Bystanders, HeapInv, RestType
<1> QED BY <1>5, <1>6 DEF Shapes

\* InsertTuple gives up: no page changes.
LEMMA InsertFailsShape ==
  ASSUME HeapInv, NEW w \in Writers, InsertFails(w)
  PROVE  Shapes(w)
<1>1. Settles(w)
  BY ReturnSettles DEF InsertFails
<1> QED BY <1>1, QuietShape DEF InsertFails, HeapInv, RestType

\* UpdateTuple inserts the new tuple without marking the old one: no page changes.
LEMMA MoveUnmarkedShape ==
  ASSUME HeapInv, NEW w \in Writers, MoveUnmarked(w)
  PROVE  Shapes(w)
<1>1. job[w] \in [size : Sizes, tag : 0 .. MaxWrites]
  BY DEF HeapInv, WriterType
<1>2. Settles(w)
  BY <1>1, StartSettles DEF MoveUnmarked
<1> QED BY <1>2, QuietShape DEF MoveUnmarked, HeapInv, RestType

\* The process dies: no page that anybody reads again changes.
LEMMA UpdateOverrunsShape ==
  ASSUME HeapInv, NEW w \in Writers, NEW rid, NEW size, UpdateOverruns(w, rid, size)
  PROVE  Shapes(w)
<1>1. Settles(w)
  BY IdleSettles DEF UpdateOverruns
<1> QED BY <1>1, QuietShape DEF UpdateOverruns

\* A page on which one slot may have changed, of which callers forget or learn the tuple
LEMMA OneSlot ==
  ASSUME HeapInv, NEW p \in PageIds, ~Fresh(p), NEW d \in Nat, NEW pg,
         PageOK(pg), pg.prev = pages[p].prev, pg.next = pages[p].next,
         Len(pages[p].slots) <= Len(pg.slots),
         \A i \in 1 .. Len(pages[p].slots) : i \in LiveSlots(pg) => i \in LiveSlots(pages[p]),
         \A i \in 1 .. Len(pages[p].slots) : i # d => GetTuple(pg, i) = GetTuple(pages[p], i),
         pages' = [pages EXCEPT ![p] = pg],
         compacted' = compacted,
         \/ told' = Forget(<<p, d>>)
         \/ \E tag : told' = Tell(<<p, d>>, tag) /\ GetTuple(pg, d) = {tag}
  PROVE  Rewrites(p, pg)
<1>1. ASSUME NEW r \in DOMAIN told'
      PROVE  /\ r \in PageIds \X Nat
             /\ \/ /\ r \in DOMAIN told /\ told'[r] = told[r]
                   /\ r[1] = p /\ p \notin compacted' => GetTuple(pg, r[2]) = GetTuple(pages[p], r[2])
                \/ /\ r[1] = p
                   /\ p \notin compacted' => GetTuple(pg, r[2]) = {told'[r]}
  <2>1. CASE r = <<p, d>>
    <3>1. ~(told' = Forget(<<p, d>>))
      BY <2>1 DEF Forget
    <3>2. PICK tag : told' = Tell(<<p, d>>, tag) /\ GetTuple(pg, d) = {tag}
      BY <3>1
    <3>3. told'[r] = tag
      BY <2>1, <3>2 DEF Tell
    <3> QED BY <2>1, <3>2, <3>3
  <2>2. CASE r # <<p, d>>
    <3>1. r \in DOMAIN told /\ told'[r] = told[r]
      BY <2>2 DEF Forget, Tell
    <3>2. r \in PageIds \X Nat
      BY <3>1 DEF HeapInv, RestType
    <3>3. ASSUME r[1] = p, p \notin compacted'
          PROVE  GetTuple(pg, r[2]) = GetTuple(pages[p], r[2])
      <4>1. r[2] # d
        BY <2>2, <3>2, <3>3
      <4>2. r[2] \in LiveSlots(pages[p])
        BY <3>1, <3>3, ToldIsLive DEF HeapInv
      <4>3. pages[p] \in PageType
        BY PageFacts DEF HeapInv
      <4>4. r[2] \in 1 .. Len(pages[p].slots)
        BY <4>2, <4>3, PageParts
      <4> QED BY <4>1, <4>4
    <3> QED BY <3>1, <3>2, <3>3
  <2> QED BY <2>1, <2>2
<1> QED BY <1>1 DEF Rewrites

\* MarkDelete in the middle of a call
LEMMA MarkRewrites ==
  ASSUME HeapInv, NEW p \in PageIds, ~Fresh(p), NEW d \in Nat,
         pages' = [pages EXCEPT ![p] = MarkDelete(pages[p], d)],
         compacted' = compacted,
         told' = Forget(<<p, d>>)
  PROVE  \E pg : Rewrites(p, pg)
<1>1. PICK old : old = pages[p]
  OBVIOUS
<1>2. PageOK(old) /\ Len(old.slots) \in Nat
  BY <1>1, PageFacts, PageParts DEF HeapInv
<1>3. PICK pg : pg = MarkDelete(old, d)
  OBVIOUS
<1>4. /\ PageOK(pg)
      /\ pg.prev = old.prev /\ pg.next = old.next
      /\ Len(pg.slots) = Len(old.slots)
      /\ LiveSlots(pg) = LiveSlots(old) \ {d}
      /\ \A i \in 1 .. Len(old.slots) : i # d => GetTuple(pg, i) = GetTuple(old, i)
  BY <1>2, <1>3, MarkKeeps
<1>5. Len(old.slots) <= Len(pg.slots)
  BY <1>2, <1>4
<1>6. pages' = [pages EXCEPT ![p] = pg]
  BY <1>1, <1>3
<1>7. Rewrites(p, pg)
  BY <1>1, <1>4, <1>5, <1>6, OneSlot
<1> QED BY <1>7

\* MarkDelete rewrites the page, and the caller forgets the row.
LEMMA DeleteMarkShape ==
  ASSUME HeapInv, NEW w \in Writers, NEW rid \in Rids, DeleteMark(w, rid)
  PROVE  Shapes(w)
<1>1. rid[1] \in PageIds /\ ~Fresh(rid[1]) /\ rid[2] \in Nat /\ rid = <<rid[1], rid[2]>>
  BY RidsAreUsed
<1>2. /\ pages' = [pages EXCEPT ![rid[1]] = MarkDelete(pages[rid[1]], rid[2])]
      /\ told' = Forget(<<rid[1], rid[2]>>)
      /\ pc[w] = "idle" /\ UNCHANGED <<writer, scan, writes, scans, compacted, crashed>>
  BY <1>1 DEF DeleteMark
<1>3. \E pg : Rewrites(rid[1], pg)
  BY <1>1, <1>2, MarkRewrites
<1>4. Settles(w) /\ Bystanders
  BY <1>2, IdleSettles DEF Bystanders, HeapInv, RestType
<1> QED BY <1>3, <1>4 DEF Shapes

\* UpdateTuple marks the old tuple and starts to insert the new one.
LEMMA MoveTupleShape ==
  ASSUME HeapInv, NEW w \in Writers, MoveTuple(w)
  PROVE  Shapes(w)
<1>1. /\ target[w] \in (0 .. Len(pages)) \X Nat /\ target[w][1] # INVALID_PAGE_ID
      /\ job[w] \in [size : Sizes, tag : 0 .. MaxWrites]
  BY DEF MoveTuple, HeapInv, WriterType, WriterInv
<1>2. PICK p, d : p = target[w][1] /\ d = target[w][2]
  OBVIOUS
<1>3. p \in PageIds /\ d \in Nat /\ target[w] = <<p, d>> /\ ~Fresh(p)
  BY <1>1, <1>2, PageFacts DEF HeapInv, Fresh, INVALID_PAGE_ID
<1>4. /\ pages' = [pages EXCEPT ![p] = MarkDelete(pages[p], d)]
      /\ told' = Forget(<<p, d>>)
      /\ StartWalk(w, job[w].size, job[w].tag)
      /\ UNCHANGED <<scan, writes, scans, compacted, crashed>>
  BY <1>2, <1>3 DEF MoveTuple
<1>5. \E pg : Rewrites(p, pg)
  BY <1>3, <1>4, MarkRewrites
<1>6. Settles(w)
  BY <1>1, <1>4, StartSettles
<1>7. Bystanders
  BY <1>4 DEF Bystanders, HeapInv, RestType
<1> QED BY <1>5, <1>6, <1>7 DEF Shapes

\* UpdateTuple writes over a tuple that does not grow.
LEMMA UpdateHereShape ==
  ASSUME HeapInv, NEW w \in Writers, NEW rid \in Rids, NEW size \in Sizes,
         UpdateHere(w, rid, size)
  PROVE  Shapes(w)
<1>1. PICK p, d : p = rid[1] /\ d = rid[2]
  OBVIOUS
<1>2. PICK old : old = pages[p]
  OBVIOUS
<1>3. PICK tag : tag = writes + 1
  OBVIOUS
<1>4. /\ p \in PageIds /\ ~Fresh(p) /\ d \in Nat /\ rid = <<p, d>>
      /\ PageOK(old) /\ d \in LiveSlots(old) /\ UpdateInPlace(old, d, size)
      /\ tag \in 0 .. MaxWrites
  <2>1. ~IsDeleted(pages[rid[1]], rid[2]) /\ UpdateInPlace(pages[rid[1]], rid[2], size)
    BY DEF UpdateHere
  <2>2. tag \in 0 .. MaxWrites
    BY <1>3, Constants DEF UpdateHere, HeapInv, RestType
  <2> QED BY <1>1, <1>2, <2>1, <2>2, RidsAreUsed
<1>5. PICK pg : pg = WriteInPlace(old, d, size, tag)
  OBVIOUS
<1>6. /\ PageOK(pg)
      /\ pg.prev = old.prev /\ pg.next = old.next
      /\ Len(pg.slots) = Len(old.slots)
      /\ LiveSlots(pg) = LiveSlots(old)
      /\ \A i \in 1 .. Len(old.slots) : i # d => GetTuple(pg, i) = GetTuple(old, i)
      /\ GetTuple(pg, d) = {tag}
  BY <1>4, <1>5, WriteKeeps
<1>7. Len(old.slots) <= Len(pg.slots)
  <2>1. Len(old.slots) \in Nat
    BY <1>4, PageParts DEF PageOK
  <2> QED BY <1>6, <2>1
<1>8. /\ pages' = [pages EXCEPT ![p] = pg]
      /\ told' = Tell(<<p, d>>, tag)
      /\ writes' = tag
      /\ pc[w] = "idle" /\ UNCHANGED <<writer, scan, scans, compacted, crashed>>
  BY <1>1, <1>2, <1>3, <1>4, <1>5 DEF UpdateHere
<1>9. Rewrites(p, pg)
  BY <1>2, <1>4, <1>6, <1>7, <1>8, OneSlot
<1>10. Settles(w) /\ Bystanders
  BY <1>4, <1>8, IdleSettles DEF Bystanders, HeapInv, RestType
<1> QED BY <1>9, <1>10 DEF Shapes

\* A tuple that grows: the page is rewritten, or its change is forgotten.
LEMMA UpdateGrowsShape ==
  ASSUME HeapInv, NEW w \in Writers, NEW rid \in Rids, NEW size \in Sizes,
         UpdateGrows(w, rid, size)
  PROVE  Shapes(w)
<1>1. PICK p, d : p = rid[1] /\ d = rid[2]
  OBVIOUS
<1>2. PICK old : old = pages[p]
  OBVIOUS
<1>3. PICK tag : tag = writes + 1
  OBVIOUS
<1>4. /\ p \in PageIds /\ ~Fresh(p) /\ d \in Nat /\ rid = <<p, d>>
      /\ PageOK(old) /\ d \in LiveSlots(old) /\ ~GrowOverruns(old, d, size)
      /\ tag \in 0 .. MaxWrites /\ Len(old.slots) \in Nat
  <2>1. ~IsDeleted(pages[rid[1]], rid[2]) /\ ~GrowOverruns(pages[rid[1]], rid[2], size)
    BY DEF UpdateGrows
  <2>2. tag \in 0 .. MaxWrites
    BY <1>3, Constants DEF UpdateGrows, HeapInv, RestType
  <2>3. p \in PageIds /\ ~Fresh(p) /\ d \in Nat /\ rid = <<p, d>> /\ PageOK(old)
        /\ d \in LiveSlots(old)
    BY <1>1, <1>2, <2>1, RidsAreUsed
  <2> QED BY <1>1, <1>2, <2>1, <2>2, <2>3, PageParts DEF PageOK
<1>5. PICK grown : grown = Grow(old, d, size, tag)
  OBVIOUS
<1>6. /\ PageOK(grown)
      /\ grown.prev = old.prev /\ grown.next = old.next
      /\ Len(old.slots) <= Len(grown.slots)
      /\ \A i \in 1 .. Len(old.slots) : i \in LiveSlots(grown) => i \in LiveSlots(old)
      /\ \A i \in 1 .. Len(old.slots) : i # d => GetTuple(grown, i) = GetTuple(old, i)
  BY <1>4, <1>5, GrowKeeps
<1> DEFINE j == [size |-> size, tag |-> tag]
<1>7. /\ pages' = [pages EXCEPT ![p] = grown] \/ pages' = pages
      /\ told' = IF grown = old THEN told ELSE Forget(<<p, d>>)
      /\ pc[w] = "idle" /\ writes' = tag
      /\ pc' = [pc EXCEPT ![w] = "moving"]
      /\ job' = [job EXCEPT ![w] = j]
      /\ target' = [target EXCEPT ![w] = rid]
      /\ UNCHANGED <<cur, prev, scan, scans, compacted, crashed>>
  BY <1>1, <1>2, <1>3, <1>4, <1>5 DEF UpdateGrows
<1>8. Settles(w)
  <2>1. Goes(w, "moving", j, cur[w], prev[w], rid)
    <3>1. cur' = [cur EXCEPT ![w] = cur[w]] /\ prev' = [prev EXCEPT ![w] = prev[w]]
      BY <1>7 DEF HeapInv, WriterType
    <3> QED BY <1>7, <3>1 DEF Goes
  <2>2. MayGo("moving", j, cur[w], prev[w], rid)
    <3>1. cur[w] \in 0 .. Len(pages) /\ prev[w] \in 0 .. Len(pages)
      BY DEF HeapInv, WriterType
    <3>2. rid \in (0 .. Len(pages)) \X Nat /\ rid[1] # INVALID_PAGE_ID
      BY <1>1, <1>4, PageFacts DEF HeapInv, INVALID_PAGE_ID
    <3>3. \A x \in PageIds \ {FirstPage} : Fresh(x) => cur[w] # x /\ prev[w] # x /\ rid[1] # x
      BY <1>1, <1>4, <1>7 DEF Fresh
    <3>4. j \in [size : Sizes, tag : 0 .. MaxWrites]
      BY <1>4
    <3> HIDE DEF j
    <3> QED BY <3>1, <3>2, <3>3, <3>4 DEF MayGo
  <2> QED BY <2>1, <2>2 DEF Settles
<1>9. Bystanders
  BY <1>4, <1>7 DEF Bystanders, HeapInv, RestType
<1>10. Calm \/ \E pg : Rewrites(p, pg)
  <2>1. CASE grown = old
    <3>1. pages' = pages
      BY <1>2, <1>4, <1>7, <2>1, PageFacts DEF HeapInv, PagesInv
    <3> QED BY <1>7, <2>1, <3>1 DEF Calm
  <2>2. CASE grown # old /\ pages' = [pages EXCEPT ![p] = grown]
    <3>1. Rewrites(p, grown)
      BY <1>2, <1>4, <1>6, <1>7, <2>2, OneSlot
    <3> QED BY <3>1
  <2>3. CASE grown # old /\ pages' = pages
    <3>1. pages' = [pages EXCEPT ![p] = old]
      BY <1>2, <1>4, <2>3, PageFacts DEF HeapInv, PagesInv
    <3>2. Len(old.slots) <= Len(old.slots)
      BY <1>4
    <3>3. told' = Forget(<<p, d>>) /\ compacted' = compacted
      BY <1>7, <2>3
    <3>4. Rewrites(p, old)
      BY <1>2, <1>4, <3>1, <3>2, <3>3, OneSlot
    <3> QED BY <3>4
  <2> QED BY <1>7, <2>1, <2>2, <2>3
<1> QED BY <1>8, <1>9, <1>10 DEF Shapes

\* ApplyDelete compacts the page.
LEMMA DeleteApplyShape ==
  ASSUME HeapInv, NEW w \in Writers, NEW rid \in Rids, DeleteApply(w, rid)
  PROVE  Shapes(w)
<1>1. PICK p, d : p = rid[1] /\ d = rid[2]
  OBVIOUS
<1>2. PICK old : old = pages[p]
  OBVIOUS
<1>3. p \in PageIds /\ ~Fresh(p) /\ PageOK(old) /\ d \in LiveSlots(old)
  <2>1. ~IsDeleted(pages[rid[1]], rid[2])
    BY DEF DeleteApply
  <2> QED BY <1>1, <1>2, <2>1, RidsAreUsed
<1>4. PICK pg : pg = ApplyDelete(old, d)
  OBVIOUS
<1>5. PageOK(pg) /\ pg.prev = old.prev /\ pg.next = old.next
  BY <1>3, <1>4, ApplyKeeps
<1>6. /\ pages' = [pages EXCEPT ![p] = pg]
      /\ told' = Forget(rid) /\ compacted' = compacted \cup {p}
      /\ pc[w] = "idle" /\ UNCHANGED <<writer, scan, writes, scans, crashed>>
  BY <1>1, <1>2, <1>4 DEF DeleteApply
<1>7. \A r \in DOMAIN told' : /\ r \in PageIds \X Nat
                              /\ r \in DOMAIN told /\ told'[r] = told[r]
  <2>1. \A r \in DOMAIN told' : r \in DOMAIN told /\ told'[r] = told[r]
    BY <1>6 DEF Forget
  <2> QED BY <2>1 DEF HeapInv, RestType
<1>8. Rewrites(p, pg)
  BY <1>2, <1>3, <1>5, <1>6, <1>7 DEF Rewrites
<1>9. Settles(w) /\ Bystanders
  BY <1>6, IdleSettles DEF Bystanders, HeapInv, RestType
<1> QED BY <1>8, <1>9 DEF Shapes

\* Every step of a writer
LEMMA WritersHaveShapes ==
  ASSUME HeapInv, NEW w \in Writers, Write(w)
  PROVE  Shapes(w)
<1>1. \/ \E size \in Sizes : BeginInsert(w, size)
      \/ InsertHere(w) \/ WalkOn(w) \/ AppendPage(w) \/ LinkAndInsert(w)
      \/ LinkFails(w) \/ InsertFails(w) \/ MoveTuple(w) \/ MoveUnmarked(w)
      \/ \E rid \in Rids, size \in Sizes :
            UpdateHere(w, rid, size) \/ UpdateGrows(w, rid, size) \/ UpdateOverruns(w, rid, size)
      \/ \E rid \in Rids : DeleteMark(w, rid) \/ DeleteApply(w, rid)
  BY DEF Write
<1> QED BY <1>1, BeginInsertShape, InsertHereShape, WalkOnShape, AppendShape, LinkShape,
           LinkFailsShape, InsertFailsShape, MoveTupleShape, MoveUnmarkedShape, UpdateHereShape,
           UpdateGrowsShape, UpdateOverrunsShape, DeleteMarkShape, DeleteApplyShape

-----------------------------------------------------------------------------
(* What a step leaves of the pages.                                        *)

\* A page that points elsewhere
LEMMA NextKeeps ==
  ASSUME NEW pg, PageOK(pg), NEW n \in 0 .. MaxPages, NEW new, new = [pg EXCEPT !.next = n]
  PROVE  /\ PageOK(new)
         /\ new.prev = pg.prev /\ new.next = n /\ new.slots = pg.slots
         /\ LiveSlots(new) = LiveSlots(pg)
         /\ \A i : GetTuple(new, i) = GetTuple(pg, i)
<1>1. /\ new \in PageType
      /\ new.prev = pg.prev /\ new.next = n /\ new.slots = pg.slots /\ new.data = pg.data
  BY DEF PageOK, PageType
<1>2. LiveSlots(new) = LiveSlots(pg)
  BY <1>1 DEF LiveSlots, SlotsOf, IsDeleted
<1>3. \A i : GetTuple(new, i) = GetTuple(pg, i)
  BY <1>1 DEF GetTuple, InRange, SlotsOf, IsDeleted, Extent
<1>4. Laid(new)
  BY <1>1, <1>2 DEF PageOK, Laid
<1> QED BY <1>1, <1>2, <1>3, <1>4 DEF PageOK

\* One page is replaced.
LEMMA ReplaceKeeps ==
  ASSUME PagesInv, NEW p \in PageIds, NEW pg, PageOK(pg), pages' = [pages EXCEPT ![p] = pg]
  PROVE  /\ PagesInv' /\ Len(pages') = Len(pages) /\ PageIds' = PageIds
         /\ pages'[p] = pg
         /\ \A x \in PageIds : x # p => pages'[x] = pages[x]
<1>1. pages \in Seq(PageType) /\ p \in 1 .. Len(pages) /\ pg \in PageType
  BY DEF PagesInv, PageIds, PageOK
<1>2. /\ pages' \in Seq(PageType) /\ Len(pages') = Len(pages)
      /\ pages'[p] = pg
      /\ \A x \in 1 .. Len(pages) : x # p => pages'[x] = pages[x]
  BY <1>1
<1>3. PageIds' = PageIds
  BY <1>2 DEF PageIds
<1>4. \A x \in PageIds : PageOK(pages'[x])
  BY <1>2 DEF PagesInv, PageIds
<1> QED BY <1>2, <1>3, <1>4 DEF PagesInv, PageIds

\* A page is replaced and another one made to point at it.
Linked(n, p, pg) == pages' = [pages EXCEPT ![n] = pg, ![p].next = n]

\* The other page keeps its slots and tuples.
LEMMA LinkKeeps ==
  ASSUME PagesInv, NEW n \in PageIds, NEW p \in PageIds, n # p, NEW pg, PageOK(pg),
         Linked(n, p, pg)
  PROVE  /\ PagesInv' /\ Len(pages') = Len(pages) /\ PageIds' = PageIds
         /\ pages'[n] = pg
         /\ pages'[p].prev = pages[p].prev /\ pages'[p].next = n
         /\ pages'[p].slots = pages[p].slots
         /\ LiveSlots(pages'[p]) = LiveSlots(pages[p])
         /\ \A i : GetTuple(pages'[p], i) = GetTuple(pages[p], i)
         /\ \A x \in PageIds : x # p /\ x # n => pages'[x] = pages[x]
<1>1. PICK link : link = [pages[p] EXCEPT !.next = n]
  OBVIOUS
<1>2. PICK old : old = pages[p]
  OBVIOUS
<1>3. PageOK(old) /\ n \in 0 .. MaxPages
  BY <1>2, PageFacts, Constants
<1>4. /\ PageOK(link)
      /\ link.prev = old.prev /\ link.next = n /\ link.slots = old.slots
      /\ LiveSlots(link) = LiveSlots(old)
      /\ \A i : GetTuple(link, i) = GetTuple(old, i)
  BY <1>1, <1>2, <1>3, NextKeeps
<1>5. /\ pages \in Seq(PageType) /\ p \in 1 .. Len(pages) /\ n \in 1 .. Len(pages)
      /\ pg \in PageType /\ link \in PageType
  BY <1>4 DEF PagesInv, PageIds, PageOK
<1>6. pages' = [[pages EXCEPT ![n] = pg] EXCEPT ![p] = link]
  <2>1. [pages EXCEPT ![n] = pg][p] = pages[p]
    BY <1>5
  <2> QED BY <1>1, <2>1 DEF Linked
<1>7. /\ pages' \in Seq(PageType) /\ Len(pages') = Len(pages)
      /\ pages'[n] = pg /\ pages'[p] = link
      /\ \A x \in 1 .. Len(pages) : x # p /\ x # n => pages'[x] = pages[x]
  BY <1>5, <1>6
<1>8. PageIds' = PageIds
  BY <1>7 DEF PageIds
<1>9. \A x \in PageIds : PageOK(pages'[x])
  BY <1>4, <1>7 DEF PagesInv, PageIds
<1> QED BY <1>2, <1>4, <1>7, <1>8, <1>9 DEF PagesInv, PageIds

\* A page is added.
LEMMA AppendKeeps ==
  ASSUME PagesInv, NEW pg, PageOK(pg), Len(pages) < MaxPages, pages' = Append(pages, pg)
  PROVE  /\ PagesInv' /\ Len(pages') = Len(pages) + 1
         /\ PageIds' = PageIds \cup {Len(pages) + 1}
         /\ Len(pages) + 1 \notin PageIds
         /\ pages'[Len(pages) + 1] = pg
         /\ \A x \in PageIds : pages'[x] = pages[x]
<1>1. pages \in Seq(PageType) /\ pg \in PageType /\ Len(pages) \in Nat
  BY DEF PagesInv, PageOK
<1>2. /\ pages' \in Seq(PageType) /\ Len(pages') = Len(pages) + 1
      /\ pages'[Len(pages) + 1] = pg
      /\ \A x \in 1 .. Len(pages) : pages'[x] = pages[x]
  BY <1>1
<1>3. PageIds' = PageIds \cup {Len(pages) + 1} /\ Len(pages) + 1 \notin PageIds
  BY <1>1, <1>2 DEF PageIds
<1>4. \A x \in PageIds' : PageOK(pages'[x])
  BY <1>2, <1>3 DEF PagesInv, PageIds
<1> QED BY <1>1, <1>2, <1>3, <1>4, Constants DEF PagesInv, PageIds

-----------------------------------------------------------------------------
(* The types are kept.                                                     *)

\* The pages are still sound, there are no fewer, and callers know pages of the file.
PagesGrow ==
  /\ PagesInv' /\ Len(pages') >= Len(pages) /\ Len(pages') \in Nat /\ Len(pages) \in Nat
  /\ PageIds \subseteq PageIds'
  /\ DOMAIN told' \subseteq PageIds' \X Nat /\ compacted' \subseteq PageIds'

\* Every shape keeps the types.
LEMMA TypesKept ==
  ASSUME HeapInv, NEW w \in Writers, Shapes(w)
  PROVE  PagesInv' /\ WriterType' /\ RestType' /\ Len(pages') >= Len(pages)
<1>0. PagesGrow
  <2>0. /\ PagesInv /\ Len(pages) \in Nat /\ DOMAIN told \subseteq PageIds \X Nat
        /\ compacted \subseteq PageIds
    BY PageFacts DEF HeapInv, RestType
  <2>1. CASE Calm
    BY <2>0, <2>1 DEF Calm, PagesInv, PageIds, PagesGrow
  <2>2. ASSUME NEW p, NEW pg, Rewrites(p, pg) PROVE PagesGrow
    <3>1. /\ p \in PageIds /\ PageOK(pg) /\ pages' = [pages EXCEPT ![p] = pg]
          /\ DOMAIN told' \subseteq PageIds \X Nat
          /\ compacted' \subseteq PageIds
      BY <2>0, <2>2 DEF Rewrites
    <3>2. PagesInv' /\ Len(pages') = Len(pages) /\ PageIds' = PageIds
      BY <2>0, <3>1, ReplaceKeeps
    <3> QED BY <2>0, <3>1, <3>2 DEF PagesGrow
  <2>3. ASSUME NEW pg, Takes(w, pg)
        PROVE  DOMAIN told' \subseteq PageIds \X Nat /\ compacted' \subseteq PageIds
    <3>1. cur[w] \in PageIds
      BY <2>3, LinkKnows DEF Takes
    <3> QED BY <2>0, <2>3, <3>1 DEF Takes, Tell
  <2>4. ASSUME NEW pg, Links(w, pg) PROVE PagesGrow
    <3>1. cur[w] \in PageIds /\ prev[w] \in PageIds /\ cur[w] # prev[w]
      BY <2>4, LinkKnows DEF Links, Takes
    <3>2. PageOK(pg) /\ Linked(cur[w], prev[w], pg)
      BY <2>4 DEF Links, Takes, Linked
    <3>3. PagesInv' /\ Len(pages') = Len(pages) /\ PageIds' = PageIds
      BY <2>0, <3>1, <3>2, LinkKeeps
    <3> QED BY <2>0, <2>3, <2>4, <3>3 DEF Links, PagesGrow
  <2>5. ASSUME NEW pg, Orphans(w, pg) PROVE PagesGrow
    <3>1. cur[w] \in PageIds
      BY <2>5, LinkKnows DEF Orphans, Takes
    <3>2. PageOK(pg) /\ pages' = [pages EXCEPT ![cur[w]] = pg]
      BY <2>5 DEF Orphans, Takes
    <3>3. PagesInv' /\ Len(pages') = Len(pages) /\ PageIds' = PageIds
      BY <2>0, <3>1, <3>2, ReplaceKeeps
    <3> QED BY <2>0, <2>3, <2>5, <3>3 DEF Orphans, PagesGrow
  <2>6. CASE Appends(w)
    <3>1. prev[w] \in 0 .. MaxPages
      <4>1. prev[w] \in 0 .. Len(pages) /\ Len(pages) <= MaxPages
        BY PageFacts DEF HeapInv, WriterType
      <4> QED BY <2>0, <4>1, Constants
    <3>2. PageOK(EmptyPage(prev[w]))
      <4>1. PICK size \in Sizes : TRUE
        BY Constants
      <4>2. PICK p \in 0 .. MaxPages : p = prev[w]
        BY <3>1
      <4>3. 0 \in 0 .. MaxWrites
        BY Constants
      <4>4. PICK new : new = InsertTuple(EmptyPage(p), size, 0)
        OBVIOUS
      <4> QED BY <4>2, <4>3, <4>4, EmptyPageTakes
    <3>3. /\ PagesInv' /\ Len(pages') = Len(pages) + 1
          /\ PageIds' = PageIds \cup {Len(pages) + 1}
      BY <2>0, <2>6, <3>2, AppendKeeps DEF Appends
    <3>4. DOMAIN told' \subseteq PageIds' \X Nat /\ compacted' \subseteq PageIds'
      BY <2>0, <2>6, <3>3 DEF Appends
    <3> QED BY <2>0, <3>3, <3>4 DEF PagesGrow
  <2> QED BY <2>1, <2>2, <2>4, <2>5, <2>6 DEF Shapes
<1>1. /\ PagesInv' /\ Len(pages') >= Len(pages) /\ Len(pages') \in Nat /\ Len(pages) \in Nat
      /\ PageIds \subseteq PageIds'
      /\ DOMAIN told' \subseteq PageIds' \X Nat /\ compacted' \subseteq PageIds'
  BY <1>0 DEF PagesGrow
<1>2. WriterType'
  <2>0. /\ 0 .. Len(pages) \subseteq 0 .. Len(pages')
        /\ pc \in [Writers -> {"idle", "walk", "append", "link", "moving"}]
        /\ job \in [Writers -> [size : Sizes, tag : 0 .. MaxWrites]]
        /\ cur \in [Writers -> 0 .. Len(pages)]
        /\ prev \in [Writers -> 0 .. Len(pages)]
        /\ target \in [Writers -> (0 .. Len(pages)) \X Nat]
        /\ \A v \in Writers : target[v] = NoRid \/ pc[v] = "moving"
    BY <1>1 DEF HeapInv, WriterType
  <2>1. ASSUME NEW a, NEW j, NEW c, NEW p, NEW t, Goes(w, a, j, c, p, t),
               a \in {"idle", "walk", "append", "link", "moving"},
               j \in [size : Sizes, tag : 0 .. MaxWrites],
               c \in 0 .. Len(pages'), p \in 0 .. Len(pages'), t \in (0 .. Len(pages')) \X Nat,
               t = NoRid \/ a = "moving"
        PROVE  WriterType'
    <3>1. /\ cur \in [Writers -> 0 .. Len(pages')]
          /\ prev \in [Writers -> 0 .. Len(pages')]
          /\ target \in [Writers -> (0 .. Len(pages')) \X Nat]
      BY <2>0
    <3>2. /\ pc' \in [Writers -> {"idle", "walk", "append", "link", "moving"}]
          /\ job' \in [Writers -> [size : Sizes, tag : 0 .. MaxWrites]]
          /\ cur' \in [Writers -> 0 .. Len(pages')]
          /\ prev' \in [Writers -> 0 .. Len(pages')]
          /\ target' \in [Writers -> (0 .. Len(pages')) \X Nat]
      BY <2>0, <2>1, <3>1 DEF Goes
    <3>3. \A v \in Writers : target'[v] = NoRid \/ pc'[v] = "moving"
      BY <2>0, <2>1 DEF Goes
    <3> QED BY <3>2, <3>3 DEF WriterType, NoRid, INVALID_PAGE_ID
  <2>2. CASE Settles(w)
    <3>1. PICK a, j, c, p, t : Goes(w, a, j, c, p, t) /\ MayGo(a, j, c, p, t)
      BY <2>2 DEF Settles
    <3>2. /\ a \in {"idle", "walk", "append", "link", "moving"}
          /\ j \in [size : Sizes, tag : 0 .. MaxWrites]
          /\ c \in 0 .. Len(pages') /\ p \in 0 .. Len(pages') /\ t \in (0 .. Len(pages')) \X Nat
          /\ t = NoRid \/ a = "moving"
      BY <2>0, <3>1 DEF MayGo
    <3> QED BY <2>1, <3>1, <3>2
  <2>3. CASE Appends(w)
    <3>1. Goes(w, "link", job[w], Len(pages) + 1, prev[w], target[w]) /\ pc[w] = "append"
      BY <2>3 DEF Appends
    <3>2. Len(pages') = Len(pages) + 1
      BY <2>3 DEF Appends, HeapInv, PagesInv
    <3>3. /\ job[w] \in [size : Sizes, tag : 0 .. MaxWrites]
          /\ Len(pages) + 1 \in 0 .. Len(pages') /\ prev[w] \in 0 .. Len(pages')
          /\ target[w] \in (0 .. Len(pages')) \X Nat /\ target[w] = NoRid
      BY <1>1, <2>0, <3>1, <3>2
    <3> QED BY <2>1, <3>1, <3>3
  <2> QED BY <2>2, <2>3 DEF Shapes
<1>3. RestType'
  BY <1>1 DEF Shapes, Bystanders, HeapInv, RestType
<1> QED BY <1>1, <1>2, <1>3

-----------------------------------------------------------------------------
(* What the shapes have in common.                                         *)

\* Page x, not the one that takes its first tuple: it points where it did unless the
\* new page n was linked behind it, and no slot of it is gone or comes back to life.
Remains(w, n, x) ==
  /\ pages'[x].prev = pages[x].prev
  /\ Fresh(x) => pages'[x] = pages[x]
  /\ \/ pages'[x].next = pages[x].next
     \/ n # INVALID_PAGE_ID /\ x = prev[w] /\ pages'[x].next = n /\ pages'[n].prev = x
  /\ x \notin compacted' =>
        \A i \in SlotsOf(pages[x]) :
           i \in SlotsOf(pages'[x]) /\ (i \in LiveSlots(pages'[x]) => i \in LiveSlots(pages[x]))

\* A step of w, where n is the page that takes its first tuple, if there is one
Effect(w, n) ==
  /\ n \in PageIds \cup {INVALID_PAGE_ID}
  /\ n # INVALID_PAGE_ID =>
        /\ pc[w] = "link" /\ cur[w] = n /\ Settles(w)
        /\ pages'[n].next = INVALID_PAGE_ID
        /\ \/ pages'[n].prev = INVALID_PAGE_ID
           \/ pages'[n].prev = prev[w] /\ pages'[prev[w]].next = n
  /\ \A x \in PageIds : x # n => Remains(w, n, x)
  /\ PageIds' = PageIds \/ Appends(w)
  /\ \A r \in DOMAIN told' : r \in DOMAIN told \/ r[1] = n \/ (r[1] \in PageIds /\ ~Fresh(r[1]))
  /\ compacted \subseteq compacted'

\* A page that does not change
LEMMA SamePage ==
  ASSUME PagesInv, NEW w, NEW n, NEW x \in PageIds, pages'[x] = pages[x]
  PROVE  Remains(w, n, x)
BY DEF Remains

\* A step that changes no page
LEMMA CalmEffect ==
  ASSUME HeapInv, NEW w \in Writers, Settles(w), Calm
  PROVE  Effect(w, INVALID_PAGE_ID)
<1>1. \A x \in PageIds : Remains(w, INVALID_PAGE_ID, x)
  BY SamePage DEF Calm, HeapInv
<1> QED BY <1>1 DEF Effect, Calm, PageIds

\* A step that rewrites a page in use
LEMMA RewriteEffect ==
  ASSUME HeapInv, NEW w \in Writers, NEW p, NEW pg, Rewrites(p, pg)
  PROVE  Effect(w, INVALID_PAGE_ID)
<1>1. /\ p \in PageIds /\ ~Fresh(p) /\ PageOK(pg) /\ pages' = [pages EXCEPT ![p] = pg]
      /\ pg.prev = pages[p].prev /\ pg.next = pages[p].next
      /\ compacted \subseteq compacted'
  BY DEF Rewrites
<1>2. /\ PageIds' = PageIds /\ pages'[p] = pg
      /\ \A x \in PageIds : x # p => pages'[x] = pages[x]
  BY <1>1, ReplaceKeeps DEF HeapInv
<1>3. Remains(w, INVALID_PAGE_ID, p)
  <2>1. ASSUME p \notin compacted', NEW i \in SlotsOf(pages[p])
        PROVE  i \in SlotsOf(pg) /\ (i \in LiveSlots(pg) => i \in LiveSlots(pages[p]))
    <3>1. /\ i \in 1 .. Len(pages[p].slots) /\ Len(pages[p].slots) \in Nat
          /\ Len(pg.slots) \in Nat /\ SlotsOf(pg) = 1 .. Len(pg.slots)
      BY <1>1, <2>1, PageFacts, PageParts DEF HeapInv, PageOK
    <3>2. /\ Len(pages[p].slots) <= Len(pg.slots)
          /\ i \in LiveSlots(pg) => i \in LiveSlots(pages[p])
      BY <2>1, <3>1 DEF Rewrites
    <3> QED BY <3>1, <3>2
  <2> QED BY <1>1, <1>2, <2>1 DEF Remains
<1>4. \A x \in PageIds : Remains(w, INVALID_PAGE_ID, x)
  BY <1>2, <1>3, SamePage DEF HeapInv
<1>5. \A r \in DOMAIN told' : r \in DOMAIN told \/ (r[1] \in PageIds /\ ~Fresh(r[1]))
  BY <1>1 DEF Rewrites
<1> QED BY <1>1, <1>2, <1>4, <1>5 DEF Effect

\* What callers know after a page took its first tuple
LEMMA TakesTells ==
  ASSUME HeapInv, NEW w \in Writers, NEW pg, Takes(w, pg)
  PROVE  /\ \A r \in DOMAIN told' : \/ r = <<cur[w], 1>> /\ told'[r] = job[w].tag
                                    \/ r \in DOMAIN told /\ told'[r] = told[r]
         /\ compacted' = compacted
BY DEF Takes, Tell

\* The pages after a page was linked
LEMMA LinkChanges ==
  ASSUME HeapInv, NEW w \in Writers, NEW pg, Links(w, pg)
  PROVE  /\ cur[w] \in PageIds /\ prev[w] \in PageIds /\ cur[w] # prev[w]
         /\ PageIds' = PageIds
         /\ pages'[cur[w]] = pg
         /\ pages'[prev[w]].prev = pages[prev[w]].prev /\ pages'[prev[w]].next = cur[w]
         /\ pages'[prev[w]].slots = pages[prev[w]].slots
         /\ LiveSlots(pages'[prev[w]]) = LiveSlots(pages[prev[w]])
         /\ \A x \in PageIds : x # prev[w] /\ x # cur[w] => pages'[x] = pages[x]
         /\ \A x \in PageIds : x # cur[w] => \A i : GetTuple(pages'[x], i) = GetTuple(pages[x], i)
<1>1. /\ Takes(w, pg) /\ pc[w] = "link" /\ PageOK(pg)
      /\ pages' = [pages EXCEPT ![cur[w]] = pg, ![prev[w]].next = cur[w]]
  BY DEF Links, Takes
<1>2. PICK n \in PageIds, p \in PageIds : n = cur[w] /\ p = prev[w] /\ p < n /\ n \in Nat /\ p \in Nat
  BY <1>1, LinkKnows
<1>3. PagesInv /\ n # p /\ Linked(n, p, pg)
  BY <1>1, <1>2 DEF HeapInv, Linked
<1>4. /\ PagesInv' /\ Len(pages') = Len(pages) /\ PageIds' = PageIds
      /\ pages'[n] = pg
      /\ pages'[p].prev = pages[p].prev /\ pages'[p].next = n
      /\ pages'[p].slots = pages[p].slots
      /\ LiveSlots(pages'[p]) = LiveSlots(pages[p])
      /\ \A i : GetTuple(pages'[p], i) = GetTuple(pages[p], i)
      /\ \A x \in PageIds : x # p /\ x # n => pages'[x] = pages[x]
  BY <1>1, <1>3, LinkKeeps
<1> QED BY <1>2, <1>3, <1>4

\* A step that links a page
LEMMA LinkEffect ==
  ASSUME HeapInv, NEW w \in Writers, Settles(w), NEW pg, Links(w, pg)
  PROVE  Effect(w, cur[w])
<1>1. /\ Takes(w, pg) /\ pc[w] = "link" /\ pg.next = INVALID_PAGE_ID /\ pg.prev = prev[w]
  BY DEF Links, Takes
<1>2. PICK n \in PageIds, p \in PageIds : n = cur[w] /\ p = prev[w]
  BY <1>1, LinkKnows
<1>3. PagesInv /\ n # INVALID_PAGE_ID
  BY PageFacts DEF HeapInv, INVALID_PAGE_ID
<1>4. /\ PageIds' = PageIds /\ pages'[n] = pg /\ n # p
      /\ pages'[p].prev = pages[p].prev /\ pages'[p].next = n
      /\ pages'[p].slots = pages[p].slots
      /\ LiveSlots(pages'[p]) = LiveSlots(pages[p])
      /\ \A x \in PageIds : x # p /\ x # n => pages'[x] = pages[x]
  BY <1>2, LinkChanges
<1>5. ~Fresh(p)
  BY <1>2 DEF Fresh
<1>6. Remains(w, n, p)
  BY <1>1, <1>2, <1>3, <1>4, <1>5 DEF Remains, SlotsOf
<1>7. \A x \in PageIds : x # n => Remains(w, n, x)
  BY <1>3, <1>4, <1>6, SamePage
<1>8. /\ \A r \in DOMAIN told' : r \in DOMAIN told \/ r[1] = n
      /\ compacted' = compacted
  BY <1>1, <1>2, TakesTells
<1>9. Effect(w, n)
  BY <1>1, <1>2, <1>4, <1>7, <1>8 DEF Effect
<1> QED BY <1>2, <1>9

\* A step that fills a page nobody points to
LEMMA OrphanEffect ==
  ASSUME HeapInv, NEW w \in Writers, Settles(w), NEW pg, Orphans(w, pg)
  PROVE  Effect(w, cur[w])
<1>1. /\ Takes(w, pg) /\ pc[w] = "link" /\ PageOK(pg) /\ pg.next = INVALID_PAGE_ID
      /\ pg.prev = INVALID_PAGE_ID
      /\ pages' = [pages EXCEPT ![cur[w]] = pg]
  BY DEF Orphans, Takes
<1>2. PICK n \in PageIds : n = cur[w]
  BY <1>1, LinkKnows
<1>3. PagesInv /\ pages' = [pages EXCEPT ![n] = pg]
  BY <1>1, <1>2 DEF HeapInv
<1>4. /\ PageIds' = PageIds /\ pages'[n] = pg
      /\ \A x \in PageIds : x # n => pages'[x] = pages[x]
  BY <1>1, <1>3, ReplaceKeeps
<1>5. \A x \in PageIds : x # n => Remains(w, n, x)
  BY <1>3, <1>4, SamePage
<1>6. /\ \A r \in DOMAIN told' : r \in DOMAIN told \/ r[1] = n
      /\ compacted' = compacted
  BY <1>1, <1>2, TakesTells
<1>7. Effect(w, n)
  BY <1>1, <1>2, <1>4, <1>5, <1>6 DEF Effect
<1> QED BY <1>2, <1>7

\* The page that a writer allocates
LEMMA AppendKnows ==
  ASSUME HeapInv, NEW w \in Writers, Appends(w)
  PROVE  /\ PageIds' = PageIds \cup {Len(pages) + 1}
         /\ Len(pages) + 1 \notin PageIds
         /\ pages'[Len(pages) + 1] = EmptyPage(prev[w])
         /\ \A x \in PageIds : pages'[x] = pages[x]
         /\ prev[w] \in PageIds
<1>1. PagesInv
  BY DEF HeapInv
<1>2. pages \in Seq(PageType) /\ Len(pages) \in Nat
  BY <1>1, PageFacts DEF PagesInv
<1>3. PICK pg : pg = EmptyPage(prev[w])
  OBVIOUS
<1>4. pages' = Append(pages, pg)
  BY <1>3 DEF Appends
<1>5. /\ Len(pages') = Len(pages) + 1 /\ pages'[Len(pages) + 1] = pg
      /\ \A x \in 1 .. Len(pages) : pages'[x] = pages[x]
  BY <1>2, <1>4
<1>6. prev[w] \in 0 .. Len(pages) /\ prev[w] # 0
  BY DEF HeapInv, WriterType, WriterInv, Appends, INVALID_PAGE_ID
<1> QED BY <1>2, <1>3, <1>5, <1>6 DEF PageIds

\* A step that allocates a page
LEMMA AppendEffect ==
  ASSUME HeapInv, NEW w \in Writers, Appends(w)
  PROVE  Effect(w, INVALID_PAGE_ID)
<1>1. \A x \in PageIds : Remains(w, INVALID_PAGE_ID, x)
  BY AppendKnows, SamePage DEF HeapInv
<1> QED BY <1>1 DEF Effect, Appends

\* Every step of a writer
LEMMA Effects ==
  ASSUME HeapInv, NEW w \in Writers, Shapes(w)
  PROVE  \E n : Effect(w, n)
<1>1. \/ /\ Settles(w)
         /\ \/ Calm
            \/ \E p, pg : Rewrites(p, pg)
            \/ \E pg : Links(w, pg) \/ Orphans(w, pg)
      \/ Appends(w)
  BY DEF Shapes
<1> QED BY <1>1, CalmEffect, RewriteEffect, LinkEffect, OrphanEffect, AppendEffect

-----------------------------------------------------------------------------
(* Pages nobody knows of, the writers, the links and what scans rely on.   *)

\* What the page that takes its first tuple was
LEMMA TakenPage ==
  ASSUME HeapInv, NEW w \in Writers, NEW n, Effect(w, n), n # INVALID_PAGE_ID
  PROVE  /\ n \in PageIds /\ n # FirstPage /\ Fresh(n) /\ n \in Nat
         /\ prev[w] \in PageIds /\ prev[w] < n /\ prev[w] \in Nat
         /\ pc[w] = "link" /\ cur[w] = n /\ Settles(w)
         /\ \A v \in Writers : pc[v] = "link" /\ cur[v] = n => v = w
<1>1. pc[w] = "link" /\ cur[w] = n /\ Settles(w)
  BY DEF Effect
<1> QED BY <1>1, LinkKnows

\* Where the other writers are, and where w goes
LEMMA WritersMove ==
  ASSUME HeapInv, NEW w \in Writers, Shapes(w)
  PROVE  /\ \A v \in Writers \ {w} :
               /\ pc'[v] = pc[v] /\ cur'[v] = cur[v] /\ prev'[v] = prev[v]
               /\ target'[v] = target[v]
         /\ \/ /\ Settles(w)
               /\ MayGo(pc'[w], job'[w], cur'[w], prev'[w], target'[w])
            \/ /\ Appends(w)
               /\ pc'[w] = "link" /\ cur'[w] = Len(pages) + 1 /\ prev'[w] = prev[w]
               /\ target'[w] = target[w]
<1>0. /\ pc \in [Writers -> {"idle", "walk", "append", "link", "moving"}]
      /\ job \in [Writers -> [size : Sizes, tag : 0 .. MaxWrites]]
      /\ cur \in [Writers -> 0 .. Len(pages)]
      /\ prev \in [Writers -> 0 .. Len(pages)]
      /\ target \in [Writers -> (0 .. Len(pages)) \X Nat]
  BY DEF HeapInv, WriterType
<1>1. ASSUME NEW a, NEW j, NEW c, NEW p, NEW t, Goes(w, a, j, c, p, t)
      PROVE  /\ \A v \in Writers \ {w} :
                   /\ pc'[v] = pc[v] /\ cur'[v] = cur[v] /\ prev'[v] = prev[v]
                   /\ target'[v] = target[v]
             /\ pc'[w] = a /\ job'[w] = j /\ cur'[w] = c /\ prev'[w] = p /\ target'[w] = t
  BY <1>0, <1>1 DEF Goes
<1>2. CASE Settles(w)
  <2>1. PICK a, j, c, p, t : Goes(w, a, j, c, p, t) /\ MayGo(a, j, c, p, t)
    BY <1>2 DEF Settles
  <2> QED BY <1>1, <1>2, <2>1
<1>3. CASE Appends(w)
  <2>1. Goes(w, "link", job[w], Len(pages) + 1, prev[w], target[w])
    BY <1>3 DEF Appends
  <2> QED BY <1>1, <1>3, <2>1
<1> QED BY <1>2, <1>3 DEF Shapes

\* Where a page points after the step
LEMMA Pointers ==
  ASSUME HeapInv, NEW w \in Writers, NEW n, Effect(w, n), NEW q \in PageIds'
  PROVE  \/ /\ q \in PageIds /\ q # n /\ pages'[q].prev = pages[q].prev
            /\ \/ pages'[q].next = pages[q].next
               \/ n # INVALID_PAGE_ID /\ q = prev[w] /\ pages'[q].next = n /\ pages'[n].prev = q
         \/ /\ q = n /\ n # INVALID_PAGE_ID /\ pages'[n].next = INVALID_PAGE_ID
            /\ \/ pages'[n].prev = INVALID_PAGE_ID
               \/ pages'[n].prev = prev[w] /\ pages'[prev[w]].next = n
         \/ /\ Appends(w) /\ q = Len(pages) + 1 /\ q \notin PageIds
            /\ pages'[q].next = INVALID_PAGE_ID /\ pages'[q].prev = prev[w]
            /\ pages'[q].slots = <<>>
<1>1. CASE q \in PageIds /\ q # n
  <2>1. Remains(w, n, q)
    BY <1>1 DEF Effect
  <2> QED BY <1>1, <2>1 DEF Remains
<1>2. CASE q \in PageIds /\ q = n
  <2>1. n # INVALID_PAGE_ID
    BY <1>2, PageFacts DEF HeapInv, INVALID_PAGE_ID
  <2> QED BY <1>2, <2>1 DEF Effect
<1>3. CASE q \notin PageIds
  <2>1. Appends(w)
    BY <1>3 DEF Effect
  <2>2. q = Len(pages) + 1 /\ pages'[q] = EmptyPage(prev[w])
    BY <1>3, <2>1, AppendKnows
  <2> QED BY <1>3, <2>1, <2>2 DEF EmptyPage
<1> QED BY <1>1, <1>2, <1>3

\* Nobody learns of a page that nobody knows of.
LEMMA FreshStays ==
  ASSUME HeapInv, NEW w \in Writers, Shapes(w), NEW n, Effect(w, n),
         NEW x \in PageIds, x # FirstPage, x # n, Fresh(x)
  PROVE  Fresh(x)'
<1>0. x # INVALID_PAGE_ID /\ x # Len(pages) + 1 /\ x \in Nat
  BY PageFacts DEF HeapInv, INVALID_PAGE_ID
<1>1. pages'[x].slots = <<>> /\ pages'[x].next = INVALID_PAGE_ID
  <2>1. Remains(w, n, x)
    BY DEF Effect
  <2> QED BY <2>1 DEF Remains, Fresh
<1>2. ASSUME NEW q \in PageIds' PROVE pages'[q].next # x /\ pages'[q].prev # x
  <2>1. prev[w] # x
    BY DEF Fresh
  <2>2. q \in PageIds => pages[q].next # x /\ pages[q].prev # x
    BY DEF Fresh
  <2> QED BY <1>0, <2>1, <2>2, Pointers
<1>3. ASSUME NEW v \in Writers
      PROVE  prev'[v] # x /\ target'[v][1] # x /\ (cur'[v] = x => pc'[v] = "link")
  <2>1. prev[v] # x /\ target[v][1] # x /\ (cur[v] = x => pc[v] = "link")
    BY DEF Fresh
  <2>2. CASE v # w
    BY <2>1, <2>2, WritersMove
  <2>3. CASE v = w
    <3>1. CASE MayGo(pc'[w], job'[w], cur'[w], prev'[w], target'[w])
      BY <2>3, <3>1 DEF MayGo
    <3> QED BY <1>0, <2>1, <2>3, <3>1, WritersMove
  <2> QED BY <2>2, <2>3
<1>4. \A r \in DOMAIN told' : r[1] # x
  BY DEF Effect, Fresh
<1>5. \A s \in Scanners : \A r \in scan'[s].must : r[1] # x
  BY DEF Fresh, Shapes, Bystanders
<1> QED BY <1>1, <1>2, <1>3, <1>4, <1>5 DEF Fresh

\* Nobody knows of a page that was just allocated.
LEMMA NewIsFresh ==
  ASSUME HeapInv, NEW w \in Writers, Shapes(w), Appends(w), NEW x, x = Len(pages) + 1
  PROVE  Fresh(x)' /\ x \in PageIds'
<1>0. /\ x \in PageIds' /\ x \notin PageIds /\ x # INVALID_PAGE_ID
      /\ pages'[x] = EmptyPage(prev[w]) /\ Effect(w, INVALID_PAGE_ID)
      /\ prev[w] \in PageIds /\ prev[w] # x
      /\ \A y \in 0 .. Len(pages) : y # x
  BY AppendKnows, AppendEffect, PageFacts DEF HeapInv, INVALID_PAGE_ID
<1>1. pages'[x].slots = <<>> /\ pages'[x].next = INVALID_PAGE_ID /\ pages'[x].prev = prev[w]
  BY <1>0 DEF EmptyPage
<1>2. ASSUME NEW q \in PageIds' PROVE pages'[q].next # x /\ pages'[q].prev # x
  <2>1. CASE q = x
    BY <1>0, <1>1, <2>1
  <2>2. CASE q # x
    <3>1. q \in PageIds /\ pages'[q] = pages[q]
      BY <2>2, AppendKnows
    <3>2. pages[q].prev < q /\ pages[q].prev \in Nat /\ q <= Len(pages) /\ q \in Nat /\ Len(pages) \in Nat
      BY <3>1, PageFacts DEF HeapInv, LinkInv
    <3>3. pages[q].prev # x
      BY <3>2
    <3>4. pages[q].next # x
      BY <1>0, <3>1 DEF HeapInv, LinkInv
    <3> QED BY <3>1, <3>3, <3>4
  <2> QED BY <2>1, <2>2
<1>3. ASSUME NEW v \in Writers
      PROVE  prev'[v] # x /\ target'[v][1] # x /\ (cur'[v] = x => pc'[v] = "link")
  <2>1. prev[v] \in 0 .. Len(pages) /\ cur[v] \in 0 .. Len(pages) /\ target[v] \in (0 .. Len(pages)) \X Nat
    BY DEF HeapInv, WriterType
  <2>2. prev[v] # x /\ cur[v] # x /\ target[v][1] # x
    BY <1>0, <2>1
  <2>3. CASE v # w
    BY <2>2, <2>3, WritersMove
  <2>4. CASE v = w
    <3>1. CASE MayGo(pc'[w], job'[w], cur'[w], prev'[w], target'[w])
      <4>1. /\ prev'[w] \in 0 .. Len(pages) /\ cur'[w] \in 0 .. Len(pages)
            /\ target'[w] \in (0 .. Len(pages)) \X Nat
        BY <3>1 DEF MayGo
      <4> QED BY <1>0, <2>4, <4>1
    <3> QED BY <2>2, <2>4, <3>1, WritersMove
  <2> QED BY <2>3, <2>4
<1>4. \A r \in DOMAIN told' : r[1] # x
  <2>1. told' = told /\ DOMAIN told \subseteq PageIds \X Nat
    BY DEF Appends, HeapInv, RestType
  <2> QED BY <1>0, <2>1
<1>5. \A s \in Scanners : \A r \in scan'[s].must : r[1] # x
  BY <1>0 DEF HeapInv, MustInv, Shapes, Bystanders
<1> QED BY <1>0, <1>1, <1>2, <1>3, <1>4, <1>5 DEF Fresh

\* A page that a writer links stays its own while others move on.
LEMMA WriterKept ==
  ASSUME HeapInv, NEW w \in Writers, Shapes(w), NEW n, Effect(w, n)
  PROVE  WriterInv'
<1> SUFFICES ASSUME NEW v \in Writers
             PROVE  /\ pc'[v] = "walk" => cur'[v] # INVALID_PAGE_ID
                    /\ pc'[v] = "append" => prev'[v] # INVALID_PAGE_ID
                    /\ pc'[v] = "moving" => target'[v][1] # INVALID_PAGE_ID
                    /\ pc'[v] = "link" =>
                          /\ cur'[v] \in PageIds'
                          /\ prev'[v] \in PageIds'
                          /\ Fresh(cur[v])'
                          /\ pages'[cur'[v]].prev = prev'[v]
                          /\ \A u \in Writers : pc'[u] = "link" /\ cur'[u] = cur'[v] => u = v
  BY DEF WriterInv
<1>0. PageIds \subseteq PageIds'
  BY AppendKnows DEF Effect
<1>1. CASE v # w
  <2>1. /\ pc'[v] = pc[v] /\ cur'[v] = cur[v] /\ prev'[v] = prev[v] /\ target'[v] = target[v]
    BY <1>1, WritersMove
  <2>2. /\ pc[v] = "walk" => cur[v] # INVALID_PAGE_ID
        /\ pc[v] = "append" => prev[v] # INVALID_PAGE_ID
        /\ pc[v] = "moving" => target[v][1] # INVALID_PAGE_ID
    BY DEF HeapInv, WriterInv
  <2>3. ASSUME pc[v] = "link"
        PROVE  /\ cur'[v] \in PageIds'
               /\ prev'[v] \in PageIds'
               /\ Fresh(cur[v])'
               /\ pages'[cur'[v]].prev = prev'[v]
               /\ \A u \in Writers : pc'[u] = "link" /\ cur'[u] = cur'[v] => u = v
    <3>1. PICK x \in PageIds : x = cur[v] /\ x # FirstPage /\ Fresh(x) /\ pages[x].prev = prev[v]
                               /\ prev[v] \in PageIds
                               /\ \A u \in Writers : pc[u] = "link" /\ cur[u] = x => u = v
      BY <2>3, LinkKnows
    <3>2. x # n
      <4>1. CASE n = INVALID_PAGE_ID
        BY <4>1, PageFacts DEF HeapInv, INVALID_PAGE_ID
      <4>2. CASE n # INVALID_PAGE_ID
        BY <1>1, <3>1, <4>2, TakenPage
      <4> QED BY <4>1, <4>2
    <3>3. Fresh(x)'
      BY <3>1, <3>2, FreshStays
    <3>4. pages'[x].prev = pages[x].prev
      BY <3>2 DEF Effect, Remains
    <3>5. ASSUME NEW u \in Writers, pc'[u] = "link", cur'[u] = x PROVE u = v
      <4>1. CASE u # w
        BY <3>1, <3>5, <4>1, WritersMove
      <4>2. CASE u = w
        <5>1. pc'[w] = "link"
          BY <3>5, <4>2
        <5>2. ~MayGo(pc'[w], job'[w], cur'[w], prev'[w], target'[w])
          BY <5>1 DEF MayGo
        <5>3. Appends(w) /\ cur'[w] = Len(pages) + 1
          BY <5>2, WritersMove
        <5> QED BY <3>1, <3>5, <4>2, <5>3, AppendKnows
      <4> QED BY <4>1, <4>2
    <3>6. cur'[v] = x /\ prev'[v] = prev[v]
      BY <2>1, <3>1
    <3>7. Fresh(cur[v])'
      BY <3>3, <3>6 DEF Fresh
    <3> QED BY <1>0, <3>1, <3>4, <3>5, <3>6, <3>7
  <2> QED BY <2>1, <2>2, <2>3
<1>2. CASE v = w
  <2>1. CASE MayGo(pc'[w], job'[w], cur'[w], prev'[w], target'[w])
    BY <1>2, <2>1 DEF MayGo
  <2>2. CASE ~MayGo(pc'[w], job'[w], cur'[w], prev'[w], target'[w])
    <3>1. /\ Appends(w) /\ pc'[w] = "link" /\ cur'[w] = Len(pages) + 1 /\ prev'[w] = prev[w]
      BY <2>2, WritersMove
    <3>2. PICK x : x = Len(pages) + 1
      OBVIOUS
    <3>3. Fresh(x)' /\ x \in PageIds'
      BY <3>1, <3>2, NewIsFresh
    <3>4. pages'[x].prev = prev[w] /\ prev[w] \in PageIds
      <4>1. pages'[x] = EmptyPage(prev[w]) /\ prev[w] \in PageIds
        BY <3>1, <3>2, AppendKnows
      <4> QED BY <4>1 DEF EmptyPage
    <3>5. ASSUME NEW u \in Writers, cur'[u] = x PROVE u = w
      <4>1. ASSUME u # w PROVE FALSE
        <5>1. cur[u] = x
          BY <3>5, <4>1, WritersMove
        <5>2. cur[u] \in 0 .. Len(pages) /\ Len(pages) \in Nat
          BY PageFacts DEF HeapInv, WriterType
        <5> QED BY <3>2, <5>1, <5>2
      <4> QED BY <4>1
    <3>6. Fresh(cur[w])'
      BY <3>1, <3>2, <3>3 DEF Fresh
    <3> QED BY <1>0, <1>2, <3>1, <3>2, <3>3, <3>4, <3>5, <3>6
  <2> QED BY <2>1, <2>2
<1> QED BY <1>1, <1>2

\* Pages still point forward, at pages that point back at them.
LEMMA LinkKept ==
  ASSUME HeapInv, NEW w \in Writers, Shapes(w), NEW n, Effect(w, n)
  PROVE  LinkInv'
<1>0. /\ PageIds \subseteq PageIds' /\ Len(pages) \in Nat
      /\ \A x \in PageIds : x \in Nat /\ x # INVALID_PAGE_ID /\ x <= Len(pages)
      /\ \A x \in PageIds : pages[x].prev \in Nat /\ pages[x].next \in Nat
  BY AppendKnows, PageFacts DEF Effect, HeapInv, INVALID_PAGE_ID
<1>1. ASSUME NEW x \in PageIds, x # n
      PROVE  /\ pages'[x].prev < x
             /\ pages'[x].next # INVALID_PAGE_ID =>
                   /\ pages'[x].next \in PageIds'
                   /\ pages'[x].next > x
                   /\ pages'[pages'[x].next].prev = x
             /\ \/ x = FirstPage \/ Fresh(x)'
                \/ pages'[x].prev = INVALID_PAGE_ID
                \/ pages'[pages'[x].prev].next # INVALID_PAGE_ID
  <2>0. /\ pages[x].prev < x
        /\ pages[x].next # INVALID_PAGE_ID =>
              /\ pages[x].next \in PageIds
              /\ pages[x].next > x
              /\ pages[pages[x].next].prev = x
        /\ \/ x = FirstPage \/ Fresh(x)
           \/ pages[x].prev = INVALID_PAGE_ID
           \/ pages[pages[x].prev].next # INVALID_PAGE_ID
    BY DEF HeapInv, LinkInv
  <2>1. /\ pages'[x].prev = pages[x].prev
        /\ \/ pages'[x].next = pages[x].next
           \/ n # INVALID_PAGE_ID /\ x = prev[w] /\ pages'[x].next = n /\ pages'[n].prev = x
    BY <1>1 DEF Effect, Remains
  <2>2. n # INVALID_PAGE_ID => /\ n \in PageIds /\ Fresh(n) /\ n \in Nat /\ prev[w] < n
    BY TakenPage
  <2>3. ASSUME pages[x].next # INVALID_PAGE_ID
        PROVE  pages'[pages[x].next].prev = x
    <3>1. PICK y \in PageIds : y = pages[x].next /\ pages[y].prev = x
      BY <2>0, <2>3
    <3>2. y # n
      BY <1>0, <2>2, <3>1 DEF Fresh
    <3>3. pages'[y].prev = pages[y].prev
      BY <3>2 DEF Effect, Remains
    <3> QED BY <3>1, <3>3
  <2>4. ASSUME pages[x].prev # INVALID_PAGE_ID, pages[pages[x].prev].next # INVALID_PAGE_ID
        PROVE  pages'[pages[x].prev].next # INVALID_PAGE_ID
    <3>1. pages[x].prev \in PageIds
      BY <1>0, <2>0, <2>4 DEF PageIds, INVALID_PAGE_ID
    <3>2. PICK y \in PageIds : y = pages[x].prev /\ pages[y].next # INVALID_PAGE_ID
      BY <2>4, <3>1
    <3>3. y # n
      BY <1>0, <2>2, <3>2 DEF Fresh
    <3>4. Remains(w, n, y)
      BY <3>3 DEF Effect
    <3> QED BY <3>2, <3>4 DEF Remains
  <2>5. x = FirstPage \/ Fresh(x)' \/ ~Fresh(x)
    BY <1>1, FreshStays
  <2>6. /\ pages'[x].prev < x
        /\ \/ x = FirstPage \/ Fresh(x)'
           \/ pages'[x].prev = INVALID_PAGE_ID
           \/ pages'[pages'[x].prev].next # INVALID_PAGE_ID
    BY <2>0, <2>1, <2>4, <2>5
  <2>7. pages'[x].next # INVALID_PAGE_ID =>
                   /\ pages'[x].next \in PageIds'
                   /\ pages'[x].next > x
                   /\ pages'[pages'[x].next].prev = x
    BY <1>0, <2>0, <2>1, <2>2, <2>3
  <2> QED BY <2>6, <2>7
<1>2. ASSUME n # INVALID_PAGE_ID
      PROVE  /\ pages'[n].prev < n
             /\ pages'[n].next = INVALID_PAGE_ID
             /\ \/ pages'[n].prev = INVALID_PAGE_ID
                \/ pages'[pages'[n].prev].next # INVALID_PAGE_ID
  <2>1. /\ n \in Nat /\ prev[w] < n /\ prev[w] \in Nat /\ n > 0
    BY <1>2, TakenPage DEF INVALID_PAGE_ID
  <2>2. /\ pages'[n].next = INVALID_PAGE_ID
        /\ \/ pages'[n].prev = INVALID_PAGE_ID
           \/ pages'[n].prev = prev[w] /\ pages'[prev[w]].next = n
    BY <1>2 DEF Effect
  <2> QED BY <1>2, <2>1, <2>2 DEF INVALID_PAGE_ID
<1>3. ASSUME NEW x \in PageIds', x \notin PageIds
      PROVE  pages'[x].prev < x /\ pages'[x].next = INVALID_PAGE_ID /\ Fresh(x)'
  <2>1. Appends(w) /\ x = Len(pages) + 1
    BY <1>3, AppendKnows DEF Effect
  <2>2. pages'[x].next = INVALID_PAGE_ID /\ pages'[x].prev = prev[w] /\ prev[w] \in PageIds
    <3>1. pages'[x] = EmptyPage(prev[w]) /\ prev[w] \in PageIds
      BY <2>1, AppendKnows
    <3> QED BY <3>1 DEF EmptyPage
  <2>3. prev[w] \in Nat /\ prev[w] <= Len(pages)
    BY <1>0, <2>2
  <2> QED BY <1>0, <2>1, <2>2, <2>3, NewIsFresh
<1>4. ASSUME NEW x \in PageIds'
      PROVE  /\ pages'[x].prev < x
             /\ pages'[x].next # INVALID_PAGE_ID =>
                   /\ pages'[x].next \in PageIds'
                   /\ pages'[x].next > x
                   /\ pages'[pages'[x].next].prev = x
             /\ \/ x = FirstPage \/ Fresh(x)'
                \/ pages'[x].prev = INVALID_PAGE_ID
                \/ pages'[pages'[x].prev].next # INVALID_PAGE_ID
  <2>1. CASE x \in PageIds /\ x # n
    BY <1>1, <2>1
  <2>2. CASE x \in PageIds /\ x = n
    BY <1>0, <1>2, <2>2
  <2>3. CASE x \notin PageIds
    BY <1>3, <2>3
  <2> QED BY <2>1, <2>2, <2>3
<1> QED BY <1>4 DEF LinkInv

\* The slots of the rows that scans must return stay.
LEMMA MustKept ==
  ASSUME HeapInv, NEW w \in Writers, Shapes(w), NEW n, Effect(w, n)
  PROVE  MustInv'
<1>1. PageIds \subseteq PageIds' /\ scan' = scan /\ compacted \subseteq compacted'
  BY AppendKnows DEF Effect, Shapes, Bystanders
<1>2. ASSUME NEW s \in Scanners, NEW r \in scan[s].must, r[1] \notin compacted'
      PROVE  r[1] \in PageIds' /\ r[2] \in SlotsOf(pages'[r[1]])
  <2>1. PICK p \in PageIds : p = r[1] /\ r[2] \in SlotsOf(pages[p])
    BY <1>1, <1>2 DEF HeapInv, MustInv
  <2>2. p # n
    <3>1. CASE n = INVALID_PAGE_ID
      BY <3>1, PageFacts DEF HeapInv, INVALID_PAGE_ID
    <3>2. CASE n # INVALID_PAGE_ID
      BY <2>1, <3>2, TakenPage DEF Fresh
    <3> QED BY <3>1, <3>2
  <2>3. Remains(w, n, p)
    BY <2>2 DEF Effect
  <2> QED BY <1>1, <1>2, <2>1, <2>3 DEF Remains
<1>3. \A s \in Scanners :
         /\ scan[s].state \in {"seek", "row"} => scan[s].page \in PageIds
         /\ scan[s].state = "done" => scan[s].page = INVALID_PAGE_ID
         /\ \A r \in scan[s].must : r[1] \in PageIds
  BY DEF HeapInv, MustInv
<1>4. \A s \in Scanners :
         /\ scan'[s].state \in {"seek", "row"} => scan'[s].page \in PageIds'
         /\ scan'[s].state = "done" => scan'[s].page = INVALID_PAGE_ID
         /\ \A r \in scan'[s].must :
               /\ r[1] \in PageIds'
               /\ r[1] \notin compacted' => r[2] \in SlotsOf(pages'[r[1]])
  BY <1>1, <1>2, <1>3
<1> QED BY <1>4 DEF MustInv, SlotsOf

-----------------------------------------------------------------------------
(* The rows that callers know of, the chain and the scans.                 *)

\* What callers know of is still at its RID.
LEMMA RowsKept ==
  ASSUME HeapInv, NEW w \in Writers, Shapes(w)
  PROVE  RowAtItsRid'
<1>0. /\ PagesInv /\ DOMAIN told \subseteq PageIds \X Nat
      /\ \A r \in DOMAIN told : r[1] \notin compacted => GetTuple(pages[r[1]], r[2]) = {told[r]}
  BY DEF HeapInv, RestType, RowAtItsRid
<1>1. CASE Calm
  BY <1>0, <1>1 DEF Calm, RowAtItsRid
<1>2. ASSUME NEW p, NEW pg, Rewrites(p, pg) PROVE RowAtItsRid'
  <2>1. /\ p \in PageIds /\ PageOK(pg) /\ pages' = [pages EXCEPT ![p] = pg]
        /\ compacted \subseteq compacted'
    BY <1>2 DEF Rewrites
  <2>2. pages'[p] = pg /\ \A x \in PageIds : x # p => pages'[x] = pages[x]
    BY <1>0, <2>1, ReplaceKeeps
  <2>3. ASSUME NEW r \in DOMAIN told', r[1] \notin compacted'
        PROVE  GetTuple(pages'[r[1]], r[2]) = {told'[r]}
    <3>1. CASE /\ r \in DOMAIN told /\ told'[r] = told[r]
               /\ r[1] = p /\ p \notin compacted' => GetTuple(pg, r[2]) = GetTuple(pages[p], r[2])
      <4>1. r[1] \in PageIds /\ r[1] \notin compacted
        BY <1>0, <2>1, <2>3, <3>1
      <4> QED BY <1>0, <2>2, <2>3, <3>1, <4>1
    <3>2. CASE /\ r[1] = p
               /\ p \notin compacted' => GetTuple(pg, r[2]) = {told'[r]}
      BY <2>2, <2>3, <3>2
    <3> QED BY <1>2, <3>1, <3>2 DEF Rewrites
  <2> QED BY <2>3 DEF RowAtItsRid
<1>3. ASSUME NEW pg, Takes(w, pg), pages'[cur[w]] = pg,
             \A x \in PageIds : x # cur[w] =>
                \A i : GetTuple(pages'[x], i) = GetTuple(pages[x], i)
      PROVE  RowAtItsRid'
  <2>1. GetTuple(pg, 1) = {job[w].tag} /\ pc[w] = "link"
    BY <1>3 DEF Takes
  <2>2. ASSUME NEW r \in DOMAIN told', r[1] \notin compacted'
        PROVE  GetTuple(pages'[r[1]], r[2]) = {told'[r]}
    <3>1. CASE r = <<cur[w], 1>> /\ told'[r] = job[w].tag
      BY <1>3, <2>1, <3>1
    <3>2. CASE r \in DOMAIN told /\ told'[r] = told[r]
      <4>1. r[1] # cur[w] /\ r[1] \in PageIds
        BY <1>0, <2>1, <3>2, LinkKnows DEF Fresh
      <4>2. r[1] \notin compacted
        BY <1>3, <2>2, TakesTells
      <4> QED BY <1>0, <1>3, <3>2, <4>1, <4>2
    <3> QED BY <1>3, <3>1, <3>2, TakesTells
  <2> QED BY <2>2 DEF RowAtItsRid
<1>4. ASSUME NEW pg, Links(w, pg) PROVE RowAtItsRid'
  <2>1. Takes(w, pg)
    BY <1>4 DEF Links
  <2> QED BY <1>3, <1>4, <2>1, LinkChanges
<1>5. ASSUME NEW pg, Orphans(w, pg) PROVE RowAtItsRid'
  <2>1. /\ Takes(w, pg) /\ pc[w] = "link" /\ PageOK(pg) /\ pages' = [pages EXCEPT ![cur[w]] = pg]
    BY <1>5 DEF Orphans, Takes
  <2>2. cur[w] \in PageIds
    BY <2>1, LinkKnows
  <2>3. /\ pages'[cur[w]] = pg
        /\ \A x \in PageIds : x # cur[w] => pages'[x] = pages[x]
    BY <1>0, <2>1, <2>2, ReplaceKeeps
  <2> QED BY <1>3, <2>1, <2>3
<1>6. CASE Appends(w)
  <2>1. told' = told /\ compacted' = compacted /\ \A x \in PageIds : pages'[x] = pages[x]
    BY <1>6, AppendKnows DEF Appends
  <2>2. \A r \in DOMAIN told : r[1] \in PageIds
    BY <1>0
  <2> QED BY <1>0, <2>1, <2>2 DEF RowAtItsRid
<1> QED BY <1>1, <1>2, <1>4, <1>5, <1>6 DEF Shapes

\* A step takes pages out of the chain only behind all those it leaves in it.
LEMMA ChainShrinks ==
  ASSUME HeapInv, NEW w \in Writers, Shapes(w), NEW n, Effect(w, n)
  PROVE  \A x \in Chain' : x # n => x \in Chain /\ \A y \in Chain : y <= x => y \in Chain'
<1>0. /\ PagesInv /\ Forward(pages) /\ PageIds = 1 .. Len(pages) /\ PageIds' = 1 .. Len(pages')
      /\ Len(pages) \in Nat
  BY PagesAreForward, PageFacts DEF HeapInv, PageIds
<1>1. PICK ps : ps = pages
  OBVIOUS
<1>2. PICK qs : qs = pages'
  OBVIOUS
<1>3. Chain = ChainOf(ps) /\ Chain' = ChainOf(qs)
  BY <1>1, <1>2, ChainIs, ChainIsNext
<1>4. Forward(ps) /\ Forward(qs) /\ Len(ps) <= Len(qs) /\ PageIds = 1 .. Len(ps) /\ Len(ps) \in Nat
  <2>1. PagesInv' /\ LinkInv' /\ Len(pages') >= Len(pages)
    BY TypesKept, LinkKept
  <2>2. Forward(pages)'
    BY <2>1, PagesAreForward, PTL
  <2>3. Forward(qs)
    BY <1>2, <2>2 DEF Forward
  <2>4. Len(qs) \in Nat
    BY <2>3 DEF Forward
  <2> QED BY <1>0, <1>1, <1>2, <2>1, <2>3, <2>4
<1>5. CASE \A x \in PageIds : qs[x].next = ps[x].next
  <2>1. ChainOf(qs) = ChainOf(ps)
    BY <1>4, <1>5, ChainStays
  <2> QED BY <1>3, <2>1
<1>6. CASE ~(\A x \in PageIds : qs[x].next = ps[x].next)
  <2>1. PICK p \in PageIds : qs[p].next # ps[p].next
    BY <1>6
  <2>2. ASSUME n = INVALID_PAGE_ID PROVE FALSE
    <3>1. p # n
      BY <2>2, PageFacts DEF HeapInv, INVALID_PAGE_ID
    <3> QED BY <1>1, <1>2, <2>1, <2>2, <3>1 DEF Effect, Remains
  <2>3. /\ n \in PageIds /\ n # FirstPage /\ Fresh(n) /\ pc[w] = "link"
        /\ qs[n].next = INVALID_PAGE_ID
    BY <1>2, <2>2, TakenPage DEF Effect
  <2>4. ps[n].next = INVALID_PAGE_ID /\ \A x \in PageIds : ps[x].next # n
    BY <1>1, <2>3 DEF Fresh
  <2>5. p # n /\ p = prev[w] /\ qs[p].next = n
    BY <1>1, <1>2, <2>1, <2>3, <2>4 DEF Effect, Remains
  <2>6. \A x \in PageIds : x # p /\ x # n => qs[x].next = ps[x].next
    BY <1>1, <1>2, <2>5 DEF Effect, Remains
  <2>7. Len(qs) = Len(ps)
    <3>1. ~Appends(w)
      BY <2>3 DEF Appends
    <3>2. PageIds' = PageIds
      BY <3>1 DEF Effect
    <3>3. 1 .. Len(qs) = 1 .. Len(ps) /\ Len(qs) \in Nat /\ Len(ps) \in Nat
      BY <1>0, <1>1, <1>2, <1>4, <3>2 DEF Forward
    <3>4. Len(qs) \in 1 .. Len(qs)
      BY <1>4, <3>3 DEF Forward
    <3> QED BY <1>4, <3>3, <3>4
  <2>8. /\ \A x \in ChainOf(qs) : x = n \/ (x \in ChainOf(ps) /\ (p \in ChainOf(ps) => x <= p))
        /\ \A x \in ChainOf(ps) : (p \in ChainOf(ps) => x <= p) => x \in ChainOf(qs)
    <3>1. p \in 1 .. Len(ps) /\ n \in 1 .. Len(ps) /\ qs[p].next = n /\ qs[n].next = INVALID_PAGE_ID
          /\ (\A x \in 1 .. Len(ps) : x # p /\ x # n => qs[x].next = ps[x].next)
          /\ (\A x \in 1 .. Len(ps) : ps[x].next # n)
      BY <1>4, <2>1, <2>3, <2>4, <2>5, <2>6
    <3> QED BY <1>4, <2>3, <2>7, <3>1, ChainLinks
  <2>9. ASSUME NEW x \in ChainOf(qs), x # n, NEW y \in ChainOf(ps), y <= x PROVE y \in ChainOf(qs)
    <3>1. x \in ChainOf(ps) /\ (p \in ChainOf(ps) => x <= p)
      BY <2>8, <2>9
    <3>2. x \in Int /\ y \in Int /\ p \in Int
      BY <1>4, <2>1, <3>1, ChainCloses
    <3>3. p \in ChainOf(ps) => y <= p
      BY <2>9, <3>1, <3>2
    <3> QED BY <2>8, <3>3
  <2> QED BY <1>3, <2>8, <2>9
<1> QED BY <1>5, <1>6

\* No row that a scan has to return falls behind it: a page that is cut off takes all
\* those after it along.
LEMMA ScanKept ==
  ASSUME HeapInv, NEW w \in Writers, Shapes(w), NEW n, Effect(w, n)
  PROVE  ScanInv'
<1>1. scan' = scan /\ compacted \subseteq compacted'
  BY DEF Effect, Shapes, Bystanders
<1>2. ASSUME NEW s \in Scanners, scan[s].state \in {"seek", "row", "done"},
             NEW r \in scan[s].must \ scan[s].seen,
             r[1] \in Chain' \ compacted', r[2] \in LiveSlots(pages'[r[1]])
      PROVE  /\ scan[s].page \in Chain'
             /\ \/ r[1] > scan[s].page
                \/ r[1] = scan[s].page /\ r[2] >= scan[s].slot
  <2>1. PICK p \in PageIds : p = r[1] /\ r[2] \in SlotsOf(pages[p])
    BY <1>1, <1>2 DEF HeapInv, MustInv
  <2>2. p # n
    <3>1. CASE n = INVALID_PAGE_ID
      BY <3>1, PageFacts DEF HeapInv, INVALID_PAGE_ID
    <3>2. CASE n # INVALID_PAGE_ID
      BY <2>1, <3>2, TakenPage DEF Fresh
    <3> QED BY <3>1, <3>2
  <2>3. Remains(w, n, p)
    BY <2>2 DEF Effect
  <2>4. r[2] \in LiveSlots(pages[p])
    BY <1>2, <2>1, <2>3 DEF Remains
  <2>5. p \in Chain /\ \A y \in Chain : y <= p => y \in Chain'
    BY <1>2, <2>1, <2>2, ChainShrinks
  <2>6. /\ scan[s].page \in Chain
        /\ \/ p > scan[s].page
           \/ p = scan[s].page /\ r[2] >= scan[s].slot
    BY <1>1, <1>2, <2>1, <2>4, <2>5 DEF HeapInv, ScanInv
  <2>7. scan[s].page <= p
    <3>1. scan[s].page \in Int /\ p \in Int
      BY <2>6, PageFacts DEF Chain, HeapInv
    <3> QED BY <2>6, <3>1
  <2> QED BY <2>1, <2>5, <2>6, <2>7
<1>3. \A s \in Scanners : scan'[s].state \in {"seek", "row", "done"} =>
         \A r \in scan'[s].must \ scan'[s].seen :
            r[1] \in Chain' \ compacted' /\ r[2] \in LiveSlots(pages'[r[1]]) =>
               /\ scan'[s].page \in Chain'
               /\ \/ r[1] > scan'[s].page
                  \/ r[1] = scan'[s].page /\ r[2] >= scan'[s].slot
  BY <1>1, <1>2
<1> QED BY <1>3 DEF ScanInv, LiveSlots, SlotsOf, IsDeleted

\* No step of a writer breaks the invariant.
LEMMA WritersKeep ==
  ASSUME HeapInv, NEW w \in Writers, Write(w)
  PROVE  HeapInv'
<1>1. Shapes(w)
  BY WritersHaveShapes
<1>2. PICK n : Effect(w, n)
  BY <1>1, Effects
<1>3. PagesInv' /\ WriterType' /\ RestType'
  BY <1>1, TypesKept
<1>4. RowAtItsRid' /\ WriterInv' /\ LinkInv' /\ MustInv' /\ ScanInv'
  BY <1>1, <1>2, RowsKept, WriterKept, LinkKept, MustKept, ScanKept
<1> QED BY <1>3, <1>4 DEF HeapInv

-----------------------------------------------------------------------------
(* The steps of a scan.                                                    *)

\* The rows that sc has to return and are still there were returned or are ahead.
Ahead(sc) ==
  sc.state \in {"seek", "row", "done"} =>
     \A r \in sc.must \ sc.seen :
        r[1] \in Chain \ compacted /\ r[2] \in LiveSlots(pages[r[1]]) =>
           /\ sc.page \in Chain
           /\ \/ r[1] > sc.page
              \/ r[1] = sc.page /\ r[2] >= sc.slot

\* What the invariant asks of the scan that s goes on with
GoodScan(s, sc) ==
  /\ sc \in ScanType
  /\ \A r \in sc.must : r \in scan[s].must \/ r \in Findable
  /\ sc.state \in {"seek", "row"} => sc.page \in PageIds
  /\ sc.state = "done" => sc.page = INVALID_PAGE_ID
  /\ Ahead(sc)

Scans(s, sc) ==
  /\ scan' = [scan EXCEPT ![s] = sc]
  /\ scans' \in 0 .. MaxScans
  /\ UNCHANGED <<pages, writer, writes, told, compacted, crashed>>

\* A scan that goes on to a good position keeps the invariant: it changes no page.
LEMMA ScanStepKeeps ==
  ASSUME HeapInv, NEW s \in Scanners, NEW sc, GoodScan(s, sc), Scans(s, sc)
  PROVE  HeapInv'
<1>0. /\ pages' = pages /\ pc' = pc /\ job' = job /\ cur' = cur /\ prev' = prev /\ target' = target
      /\ writes' = writes /\ told' = told /\ compacted' = compacted /\ crashed' = crashed
  BY DEF Scans, writer
<1>1. scan \in [Scanners -> ScanType] /\ scan' = [scan EXCEPT ![s] = sc] /\ sc \in ScanType
  BY DEF HeapInv, RestType, Scans, GoodScan
<1>2. scan'[s] = sc /\ \A t \in Scanners : t # s => scan'[t] = scan[t]
  BY <1>1
<1>3. PagesInv' /\ WriterType' /\ RowAtItsRid'
  BY <1>0 DEF HeapInv, PagesInv, PageIds, WriterType, RowAtItsRid
<1>4. RestType'
  <2>1. scan' \in [Scanners -> ScanType]
    BY <1>1
  <2> QED BY <1>0, <2>1 DEF HeapInv, RestType, Scans, PageIds
<1>5. PageIds' = PageIds /\ Chain' = Chain
  BY <1>0, ChainIs, ChainIsNext DEF PageIds
<1>6. ASSUME NEW t \in Scanners, NEW r \in scan'[t].must
      PROVE  (\E u \in Scanners : r \in scan[u].must) \/ r \in Findable
  BY <1>2 DEF GoodScan
<1>7. ASSUME NEW x, Fresh(x) PROVE Fresh(x)'
  <2>1. \A t \in Scanners : \A r \in scan'[t].must : r[1] # x
    BY <1>6, <1>7 DEF Fresh, Findable
  <2> QED BY <1>0, <1>5, <1>7, <2>1 DEF Fresh
<1>8. WriterInv'
  <2>1. ASSUME NEW w \in Writers, pc[w] = "link" PROVE Fresh(cur[w])'
    <3>1. PICK x : x = cur[w]
      OBVIOUS
    <3>2. Fresh(x)
      BY <2>1, <3>1, LinkKnows
    <3>3. Fresh(x)'
      BY <1>7, <3>2
    <3> QED BY <1>0, <3>1, <3>3 DEF Fresh
  <2>2. \A w \in Writers : pc[w] = "link" => Fresh(cur[w])'
    BY <2>1
  <2>3. \A w \in Writers :
           /\ pc'[w] = "walk" => cur'[w] # INVALID_PAGE_ID
           /\ pc'[w] = "append" => prev'[w] # INVALID_PAGE_ID
           /\ pc'[w] = "moving" => target'[w][1] # INVALID_PAGE_ID
           /\ pc'[w] = "link" => /\ cur'[w] \in PageIds'
                                 /\ prev'[w] \in PageIds'
                                 /\ pages'[cur'[w]].prev = prev'[w]
                                 /\ \A v \in Writers : pc'[v] = "link" /\ cur'[v] = cur'[w] => v = w
    BY <1>0, <1>5 DEF HeapInv, WriterInv
  <2>4. \A w \in Writers : pc'[w] = "link" => Fresh(cur[w])'
    BY <1>0, <2>2
  <2> QED BY <2>3, <2>4 DEF WriterInv
<1>9. LinkInv'
  <2>1. \A x \in PageIds : Fresh(x) => Fresh(x)'
    BY <1>7
  <2> QED BY <1>0, <1>5, <2>1 DEF HeapInv, LinkInv
<1>10. MustInv'
  <2>1. ASSUME NEW r \in Findable
        PROVE  r[1] \in PageIds /\ r[2] \in SlotsOf(pages[r[1]])
    BY ToldIsLive DEF Findable, HeapInv, LiveSlots
  <2>2. ASSUME NEW t \in Scanners, NEW r \in scan'[t].must
        PROVE  /\ r[1] \in PageIds
               /\ r[1] \notin compacted => r[2] \in SlotsOf(pages[r[1]])
    BY <1>6, <2>1, <2>2 DEF HeapInv, MustInv
  <2>3. ASSUME NEW t \in Scanners
        PROVE  /\ scan'[t].state \in {"seek", "row"} => scan'[t].page \in PageIds
               /\ scan'[t].state = "done" => scan'[t].page = INVALID_PAGE_ID
    BY <1>2 DEF GoodScan, HeapInv, MustInv
  <2> QED BY <1>0, <1>5, <2>2, <2>3 DEF MustInv, SlotsOf
<1>11. ScanInv'
  <2>1. \A t \in Scanners : Ahead(scan'[t])
    <3>1. \A t \in Scanners : Ahead(scan[t])
      BY DEF HeapInv, ScanInv, Ahead
    <3> QED BY <1>2, <3>1 DEF GoodScan
  <2> QED BY <1>0, <1>5, <2>1 DEF ScanInv, Ahead, LiveSlots, SlotsOf, IsDeleted
<1> QED BY <1>3, <1>4, <1>8, <1>9, <1>10, <1>11 DEF HeapInv

\* A row ahead of slot `after` of page p is not behind the position that comes next.
LEMMA AdvanceIsGood ==
  ASSUME HeapInv, NEW s \in Scanners, NEW sc \in ScanType, NEW p, p = sc.page, p \in PageIds,
         NEW after \in Nat, sc.must = scan[s].must, sc.state \in {"seek", "row"},
         \A r \in sc.must \ sc.seen :
            r[1] \in Chain \ compacted /\ r[2] \in LiveSlots(pages[r[1]]) =>
               p \in Chain /\ (r[1] > p \/ (r[1] = p /\ r[2] > after))
  PROVE  GoodScan(s, Advance(sc, p, after))
<1>0. /\ PagesInv /\ LinkInv /\ Forward(pages)
      /\ p \in Nat /\ p # INVALID_PAGE_ID /\ pages[p].next \in Nat
      /\ \A x \in PageIds : LiveSlots(pages[x]) \subseteq Nat \ {0}
  <2>1. PagesInv /\ LinkInv /\ Forward(pages)
    BY PagesAreForward DEF HeapInv
  <2>2. \A x \in PageIds : LiveSlots(pages[x]) \subseteq 1 .. Len(pages[x].slots)
    BY <2>1, PageFacts, PageParts
  <2> QED BY <2>1, <2>2, PageFacts DEF INVALID_PAGE_ID
<1>1. PICK new : new = Advance(sc, p, after)
  OBVIOUS
<1>2. CASE NextLive(p, after) # {}
  <2>1. NextLive(p, after) \subseteq Nat
    BY <1>0 DEF NextLive
  <2>2. PICK m \in NextLive(p, after) : m = Min(NextLive(p, after)) /\ \A j \in NextLive(p, after) : m <= j
    BY <1>2, <2>1, MinIsLeast
  <2>3. new = [sc EXCEPT !.state = "row", !.slot = m]
    BY <1>1, <1>2, <2>2 DEF Advance
  <2>4. /\ new \in ScanType /\ new.state = "row" /\ new.slot = m /\ new.page = p
        /\ new.must = sc.must /\ new.seen = sc.seen
    BY <2>1, <2>2, <2>3 DEF ScanType
  <2>5. ASSUME NEW r \in new.must \ new.seen, r[1] \in Chain \ compacted,
               r[2] \in LiveSlots(pages[r[1]])
        PROVE  p \in Chain /\ (r[1] > p \/ (r[1] = p /\ r[2] >= m))
    <3>1. p \in Chain /\ (r[1] > p \/ (r[1] = p /\ r[2] > after))
      BY <2>4, <2>5
    <3>2. ASSUME r[1] = p, r[2] > after PROVE r[2] >= m
      <4>1. r[2] \in NextLive(p, after)
        BY <2>5, <3>2 DEF NextLive
      <4>2. m \in Nat /\ r[2] \in Nat /\ m <= r[2]
        BY <2>1, <2>2, <4>1
      <4> QED BY <4>2
    <3> QED BY <3>1, <3>2
  <2> QED BY <1>1, <2>4, <2>5 DEF GoodScan, Ahead
<1>3. CASE NextLive(p, after) = {}
  <2>1. PICK n \in Nat : n = pages[p].next
    BY <1>0
  <2>2. new = [sc EXCEPT !.state = IF n = INVALID_PAGE_ID THEN "done" ELSE "seek",
                         !.page = n, !.slot = 0]
    BY <1>1, <1>3, <2>1 DEF Advance
  <2>3. /\ new \in ScanType /\ new.state = (IF n = INVALID_PAGE_ID THEN "done" ELSE "seek")
        /\ new.slot = 0 /\ new.page = n
        /\ new.must = sc.must /\ new.seen = sc.seen
    BY <2>1, <2>2 DEF ScanType
  <2>4. n # INVALID_PAGE_ID => n \in PageIds
    BY <1>0, <2>1 DEF LinkInv
  <2>5. ASSUME NEW r \in new.must \ new.seen, r[1] \in Chain \ compacted,
               r[2] \in LiveSlots(pages[r[1]])
        PROVE  n \in Chain /\ (r[1] > n \/ (r[1] = n /\ r[2] >= 0))
    <3>1. p \in Chain /\ (r[1] > p \/ (r[1] = p /\ r[2] > after))
      BY <2>3, <2>5
    <3>2. r[1] > p
      <4>1. ASSUME r[1] = p, r[2] > after PROVE FALSE
        BY <1>3, <2>5, <4>1 DEF NextLive
      <4> QED BY <3>1, <4>1
    <3>3. r[1] \in PageIds /\ r[1] \in Nat /\ r[2] \in Nat
      BY <1>0, <2>5, PageFacts DEF Chain
    <3>4. p < r[1] /\ p \in ChainOf(pages) /\ r[1] \in ChainOf(pages)
      BY <1>0, <2>5, <3>1, <3>2, <3>3, ChainIs
    <3>5. n # INVALID_PAGE_ID /\ n <= r[1]
      BY <1>0, <2>1, <3>4, ChainIsOrdered
    <3>6. n \in Chain
      BY <1>0, <2>1, <3>4, <3>5, ChainCloses, ChainIs
    <3> QED BY <2>1, <3>3, <3>5, <3>6
  <2> QED BY <1>1, <2>3, <2>4, <2>5 DEF GoodScan, Ahead
<1> QED BY <1>2, <1>3

\* The type of a scan, and what the invariant says of its rows
LEMMA ScanFacts ==
  ASSUME HeapInv, NEW s \in Scanners
  PROVE  /\ scan \in [Scanners -> ScanType] /\ scan[s] \in ScanType
         /\ scan[s].slot \in Nat /\ scan[s].page \in Nat
         /\ scan[s].state \in {"seek", "row"} => scan[s].page \in PageIds
         /\ Ahead(scan[s])
<1>1. scan \in [Scanners -> ScanType] /\ scan[s] \in ScanType
  BY DEF HeapInv, RestType
<1>2. scan[s].slot \in Nat /\ scan[s].page \in Nat
  BY <1>1 DEF ScanType
<1> QED BY <1>1, <1>2 DEF HeapInv, MustInv, ScanInv, Ahead

\* A scan begins before every row that it has to return.
LEMMA BeginScanKeeps ==
  ASSUME HeapInv, NEW s \in Scanners, BeginScan(s)
  PROVE  HeapInv'
<1>1. PICK sc : sc = [state |-> "seek", page |-> FirstPage, slot |-> 0,
                      seen |-> {}, must |-> Findable]
  OBVIOUS
<1>2. /\ PagesInv /\ LinkInv /\ Forward(pages) /\ FirstPage \in PageIds
      /\ \A x \in PageIds : x \in Nat /\ x > 0 /\ LiveSlots(pages[x]) \subseteq 1 .. Len(pages[x].slots)
  <2>1. PagesInv /\ LinkInv /\ Forward(pages)
    BY PagesAreForward DEF HeapInv
  <2> QED BY <2>1, PageFacts, PageParts
<1>3. FirstPage \in Chain /\ Chain \subseteq PageIds
  BY <1>2, ChainCloses, ChainIs DEF PageIds
<1>4. Findable \in SUBSET (Nat \X Nat)
  BY <1>2 DEF Findable, HeapInv, RestType
<1>5. sc \in ScanType
  BY <1>1, <1>4 DEF ScanType, FirstPage
<1>6. Ahead(sc)
  <2>1. ASSUME NEW r, r[1] \in Chain, r[2] \in LiveSlots(pages[r[1]])
        PROVE  r[1] > FirstPage \/ (r[1] = FirstPage /\ r[2] >= 0)
    <3>1. r[1] \in Nat /\ r[1] > 0 /\ r[2] \in Nat
      BY <1>2, <1>3, <2>1
    <3> QED BY <3>1 DEF FirstPage
  <2> QED BY <1>1, <1>3, <2>1 DEF Ahead
<1>7. GoodScan(s, sc)
  BY <1>1, <1>2, <1>5, <1>6 DEF GoodScan
<1>8. scans' \in 0 .. MaxScans
  BY Constants DEF BeginScan, HeapInv, RestType
<1>9. Scans(s, sc)
  BY <1>1, <1>8 DEF BeginScan, Scans
<1> QED BY <1>7, <1>9, ScanStepKeeps

\* It looks for the first live slot of a page.
LEMMA SeekPageKeeps ==
  ASSUME HeapInv, NEW s \in Scanners, SeekPage(s)
  PROVE  HeapInv'
<1>1. PICK sc : sc = scan[s]
  OBVIOUS
<1>2. sc \in ScanType /\ sc.state = "seek" /\ sc.page \in PageIds /\ Ahead(sc) /\ sc.page \in Nat
  BY <1>1, ScanFacts DEF SeekPage
<1>3. \A x \in PageIds : LiveSlots(pages[x]) \subseteq Nat \ {0}
  <2>1. \A x \in PageIds : /\ LiveSlots(pages[x]) \subseteq 1 .. Len(pages[x].slots)
                          /\ Len(pages[x].slots) \in Nat
    BY PageFacts, PageParts DEF HeapInv
  <2> QED BY <2>1
<1>4. ASSUME NEW r \in sc.must \ sc.seen, r[1] \in Chain \ compacted, r[2] \in LiveSlots(pages[r[1]])
      PROVE  sc.page \in Chain /\ (r[1] > sc.page \/ (r[1] = sc.page /\ r[2] > 0))
  <2>1. sc.page \in Chain /\ (r[1] > sc.page \/ r[1] = sc.page)
    BY <1>2, <1>4 DEF Ahead
  <2>2. r[1] \in PageIds
    BY <1>4 DEF Chain
  <2>3. r[2] > 0
    BY <1>3, <1>4, <2>2
  <2> QED BY <2>1, <2>3
<1>5. GoodScan(s, Advance(sc, sc.page, 0))
  BY <1>1, <1>2, <1>4, AdvanceIsGood
<1>6. Scans(s, Advance(sc, sc.page, 0))
  BY <1>1 DEF SeekPage, Scans, HeapInv, RestType
<1> QED BY <1>5, <1>6, ScanStepKeeps

\* It returns a row and goes on behind it.
LEMMA NextRowKeeps ==
  ASSUME HeapInv, NEW s \in Scanners, NextRow(s)
  PROVE  HeapInv'
<1>1. PICK sc : sc = [scan[s] EXCEPT !.seen = @ \cup {<<scan[s].page, scan[s].slot>>}]
  OBVIOUS
<1>2. /\ scan[s] \in ScanType /\ scan[s].state = "row" /\ scan[s].page \in PageIds
      /\ Ahead(scan[s]) /\ scan[s].page \in Nat /\ scan[s].slot \in Nat
  BY ScanFacts DEF NextRow
<1>3. /\ sc.state = "row" /\ sc.page = scan[s].page /\ sc.slot = scan[s].slot
      /\ sc.must = scan[s].must /\ sc.must \in SUBSET (Nat \X Nat)
      /\ sc.seen = scan[s].seen \cup {<<scan[s].page, scan[s].slot>>}
      /\ sc \in ScanType
  BY <1>1, <1>2 DEF ScanType
<1>4. ASSUME NEW r \in sc.must \ sc.seen, r[1] \in Chain \ compacted, r[2] \in LiveSlots(pages[r[1]])
      PROVE  sc.page \in Chain /\ (r[1] > sc.page \/ (r[1] = sc.page /\ r[2] > sc.slot))
  <2>1. /\ scan[s].page \in Chain
        /\ \/ r[1] > scan[s].page
           \/ r[1] = scan[s].page /\ r[2] >= scan[s].slot
    BY <1>2, <1>3, <1>4 DEF Ahead
  <2>2. r = <<r[1], r[2]>> /\ r[2] \in Nat /\ r # <<scan[s].page, scan[s].slot>>
    BY <1>3, <1>4
  <2>3. r[1] = scan[s].page => r[2] # scan[s].slot
    BY <2>2
  <2>4. r[2] >= scan[s].slot /\ r[2] # scan[s].slot => r[2] > scan[s].slot
    BY <1>2, <2>2
  <2> QED BY <1>3, <2>1, <2>3, <2>4
<1>5. GoodScan(s, Advance(sc, sc.page, sc.slot))
  BY <1>2, <1>3, <1>4, AdvanceIsGood
<1>6. Scans(s, Advance(sc, sc.page, sc.slot))
  BY <1>1, <1>3 DEF NextRow, Scans, HeapInv, RestType
<1> QED BY <1>5, <1>6, ScanStepKeeps

\* It is cut short: nothing is promised of it any more.
LEMMA SeekFailsKeeps ==
  ASSUME HeapInv, NEW s \in Scanners, SeekFails(s)
  PROVE  HeapInv'
<1>1. PICK sc : sc = [scan[s] EXCEPT !.state = "cut", !.page = INVALID_PAGE_ID]
  OBVIOUS
<1>2. scan[s] \in ScanType /\ scan \in [Scanners -> ScanType]
  BY ScanFacts
<1>3. sc \in ScanType /\ sc.state = "cut" /\ sc.must = scan[s].must
  BY <1>1, <1>2 DEF ScanType, INVALID_PAGE_ID
<1>4. GoodScan(s, sc)
  BY <1>3 DEF GoodScan, Ahead
<1>5. scan' = [scan EXCEPT ![s] = sc]
  BY <1>1, <1>2 DEF SeekFails
<1>6. Scans(s, sc)
  BY <1>5 DEF SeekFails, Scans, HeapInv, RestType
<1> QED BY <1>4, <1>6, ScanStepKeeps

\* It is closed.
LEMMA EndScanKeeps ==
  ASSUME HeapInv, NEW s \in Scanners, EndScan(s)
  PROVE  HeapInv'
<1>1. PICK sc : sc = NoScan
  OBVIOUS
<1>2. sc \in ScanType /\ sc.state = "idle" /\ sc.must = {}
  BY <1>1 DEF NoScan, ScanType, INVALID_PAGE_ID
<1>3. GoodScan(s, sc)
  BY <1>2 DEF GoodScan, Ahead
<1>4. Scans(s, sc)
  BY <1>1 DEF EndScan, Scans, HeapInv, RestType
<1> QED BY <1>3, <1>4, ScanStepKeeps

-----------------------------------------------------------------------------
(* The theorems.                                                           *)

\* At first there is one empty page, and nobody does anything.
LEMMA InitHolds == Init => HeapInv
<1> SUFFICES ASSUME Init PROVE HeapInv
  OBVIOUS
<1>1. PICK pg : pg = EmptyPage(INVALID_PAGE_ID)
  OBVIOUS
<1>2. pages = <<pg>> /\ pg.prev = INVALID_PAGE_ID /\ pg.next = INVALID_PAGE_ID
  BY <1>1 DEF Init, EmptyPage
<1>3. PageOK(pg)
  <2>1. PICK size \in Sizes : TRUE
    BY Constants
  <2>2. 0 \in 0 .. MaxWrites /\ INVALID_PAGE_ID \in 0 .. MaxPages
    BY Constants DEF INVALID_PAGE_ID
  <2>3. PICK p \in 0 .. MaxPages : p = INVALID_PAGE_ID
    BY <2>2
  <2>4. PICK new : new = InsertTuple(EmptyPage(p), size, 0)
    OBVIOUS
  <2> QED BY <1>1, <2>2, <2>3, <2>4, EmptyPageTakes
<1>4. Len(pages) = 1 /\ PageIds = {1} /\ pages[1] = pg /\ pages \in Seq(PageType)
  <2>1. pg \in PageType
    BY <1>3 DEF PageOK
  <2> QED BY <1>2, <2>1 DEF PageIds
<1>5. PagesInv
  BY <1>3, <1>4, Constants DEF PagesInv
<1>6. WriterType
  <2>1. INVALID_PAGE_ID \in 0 .. Len(pages) /\ NoRid \in (0 .. Len(pages)) \X Nat
    BY <1>4, NoJobs DEF INVALID_PAGE_ID
  <2> QED BY <2>1, NoJobs DEF Init, WriterType
<1>7. NoScan \in ScanType
  BY DEF NoScan, ScanType, INVALID_PAGE_ID
<1>8. DOMAIN told = {}
  BY DEF Init
<1>9. RestType
  <2>1. scan \in [Scanners -> ScanType]
    BY <1>7 DEF Init
  <2>2. writes \in 0 .. MaxWrites /\ scans \in 0 .. MaxScans
    BY Constants DEF Init
  <2> QED BY <1>8, <2>1, <2>2 DEF Init, RestType
<1>10. RowAtItsRid /\ WriterInv
  BY <1>8 DEF Init, RowAtItsRid, WriterInv
<1>11. LinkInv
  BY <1>2, <1>4 DEF LinkInv, FirstPage, INVALID_PAGE_ID
<1>12. MustInv /\ ScanInv
  BY DEF Init, NoScan, MustInv, ScanInv
<1> QED BY <1>5, <1>6, <1>9, <1>10, <1>11, <1>12 DEF HeapInv

\* Every step keeps the invariant, whichever thread takes it.
LEMMA StepKeeps ==
  ASSUME HeapInv, [Next]_vars
  PROVE  HeapInv'
<1>1. CASE UNCHANGED vars
  <2>1. /\ pages' = pages /\ pc' = pc /\ job' = job /\ cur' = cur /\ prev' = prev
        /\ target' = target /\ scan' = scan /\ scans' = scans
        /\ writes' = writes /\ told' = told /\ compacted' = compacted /\ crashed' = crashed
    BY <1>1 DEF vars, writer
  <2>2. PagesInv' /\ WriterType' /\ RestType' /\ RowAtItsRid' /\ MustInv'
    BY <2>1 DEF HeapInv, PagesInv, PageIds, WriterType, RestType, RowAtItsRid, MustInv, SlotsOf
  <2>3. WriterInv' /\ LinkInv'
    BY <2>1 DEF HeapInv, WriterInv, LinkInv, Fresh, PageIds
  <2>4. ScanInv'
    <3>1. Chain' = Chain
      BY <2>1, ChainIs, ChainIsNext
    <3> QED BY <2>1, <3>1 DEF HeapInv, ScanInv, LiveSlots, SlotsOf, IsDeleted
  <2> QED BY <2>2, <2>3, <2>4 DEF HeapInv
<1>2. CASE \E w \in Writers : Write(w)
  BY <1>2, WritersKeep
<1>3. CASE \E s \in Scanners : Scan(s)
  BY <1>3, BeginScanKeeps, SeekPageKeeps, SeekFailsKeeps, NextRowKeeps, EndScanKeeps DEF Scan
<1> QED BY <1>1, <1>2, <1>3 DEF Next

\* The inductive invariant holds in every state.
LEMMA HeapInvariant == Spec => []HeapInv
<1>1. HeapInv /\ [Next]_vars => HeapInv'
  BY StepKeeps
<1> QED BY <1>1, InitHolds, PTL DEF Spec

\* Whatever writers insert, move, shrink, mark and compact at the same time, the live
\* tuples of a page lie between its slot array and its end and do not overlap, and
\* TableHeap::GetTuple at a RID that InsertTuple or UpdateTuple returned reads that
\* very tuple, until it is deleted or updated or ApplyDelete moves slots on its page.
THEOREM RowsStayIntact == Spec => []RowsAreIntact
<1>1. HeapInv => RowsAreIntact
  BY InvMeansIntact
<1> QED BY <1>1, HeapInvariant, PTL

\* A row that InsertTuple or UpdateTuple has acknowledged is out of reach of scans only
\* if a page on the way to it was appended by two writers at once, both behind the same
\* predecessor, or was never linked because its predecessor could not be fetched.
THEOREM RowsLostOnlyToRaces == Spec => []LostOnlyToRaces
<1>1. HeapInv => LostOnlyToRaces
  BY InvMeansRaces
<1> QED BY <1>1, HeapInvariant, PTL

\* A TableIterator that has come to the end has returned every row that was in reach
\* when it began and still is, whatever writers did to the pages in between.
THEOREM ScansAreComplete == Spec => []ScanComplete
<1>1. HeapInv => ScanComplete
  BY InvMeansComplete
<1> QED BY <1>1, HeapInvariant, PTL
=============================================================================
