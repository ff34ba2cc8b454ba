----------------------------- MODULE TablePage -----------------------------
(***************************************************************************)
(* storage/page/table_page.cpp: a slotted page, as operators on a record.  *)
(* Slots grow up from the header, tuples grow down from the end of the     *)
(* page.  Slot i of the code is slots[i + 1] here.  The bytes of the page  *)
(* are kept, with the tag of the write that put each one there, because    *)
(* tuples are moved and overwritten.                                       *)
(***************************************************************************)
EXTENDS Naturals, Integers, Sequences, FiniteSetsExt, SequencesExt

CONSTANTS PAGE_SIZE,
          TABLE_PAGE_HEADER_SIZE,
          SLOT_SIZE,
          MAX_TUPLE_SIZE,
          UINT32                  \* 2^32: the offsets are uint32_t

ASSUME LayoutAssumption ==
  /\ {PAGE_SIZE, TABLE_PAGE_HEADER_SIZE, SLOT_SIZE, MAX_TUPLE_SIZE, UINT32} \subseteq Nat
  /\ SLOT_SIZE > 0
  /\ TABLE_PAGE_HEADER_SIZE + SLOT_SIZE + MAX_TUPLE_SIZE <= PAGE_SIZE
  /\ UINT32 > 2 * PAGE_SIZE

INVALID_PAGE_ID == 0
DELETED == -1               \* the offset 0xFFFF of a deleted slot
Bytes == 0 .. PAGE_SIZE - 1
NoTag == 0                  \* a zero byte

\* A page right after Init.
EmptyPage(prev) ==
  [prev |-> prev, next |-> INVALID_PAGE_ID, slots |-> <<>>, data |-> [b \in Bytes |-> NoTag]]

IsDeleted(pg, i) == pg.slots[i].offset = DELETED
SlotsOf(pg) == DOMAIN pg.slots
LiveSlots(pg) == {i \in SlotsOf(pg) : ~IsDeleted(pg, i)}

\* GetSlotOffset: where slot n + 1 would start, so where n slots end.
SlotArrayEnd(n) == TABLE_PAGE_HEADER_SIZE + n * SLOT_SIZE

LowestTuple(pg) == Min({PAGE_SIZE} \cup {pg.slots[i].offset : i \in LiveSlots(pg)})

GetFreeSpace(pg) == Max({0, LowestTuple(pg) - SlotArrayEnd(Len(pg.slots))})

\* The bytes of slot i.
Extent(pg, i) == pg.slots[i].offset .. pg.slots[i].offset + pg.slots[i].size - 1

Fill(data, from, size, tag) ==
  [b \in DOMAIN data |-> IF from <= b /\ b < from + size THEN tag ELSE data[b]]

SetSlotInfo(pg, i, offset, size) ==
  [pg EXCEPT !.slots[i] = [offset |-> offset, size |-> size]]

-----------------------------------------------------------------------------
(* InsertTuple computes lowest_tuple - size without checking it first: the  *)
(* difference wraps, and the comparison with the slot array then succeeds.  *)

NewTupleOffset(pg, size) == (LowestTuple(pg) - size + UINT32) % UINT32

InsertAccepts(pg, size) ==
  /\ size > 0
  /\ size <= MAX_TUPLE_SIZE
  /\ SlotArrayEnd(Len(pg.slots) + 1) <= NewTupleOffset(pg, size)

\* The copy of an accepted tuple ends outside the page.
InsertOverruns(pg, size) == InsertAccepts(pg, size) /\ NewTupleOffset(pg, size) > PAGE_SIZE

InsertTuple(pg, size, tag) ==
  LET off == NewTupleOffset(pg, size)
  IN [pg EXCEPT !.data = Fill(@, off, size, tag),
                !.slots = Append(@, [offset |-> off, size |-> size])]

InRange(pg, i) == i \in SlotsOf(pg)

\* GetTuple: the tags of the bytes read, none when the slot is free or unknown.
GetTuple(pg, i) ==
  IF InRange(pg, i) /\ ~IsDeleted(pg, i)
  THEN {pg.data[b] : b \in Extent(pg, i)}
  ELSE {}

MarkDelete(pg, i) ==
  IF InRange(pg, i) THEN [pg EXCEPT !.slots[i].offset = DELETED] ELSE pg

-----------------------------------------------------------------------------
(* ApplyDelete: every tuple above the deleted one moves down by its size,   *)
(* one slot after the other in slot order, then the slots close up.         *)

MoveDown(pg, i, by) ==
  LET s == pg.slots[i]
      to == s.offset - by
  IN [SetSlotInfo(pg, i, to, s.size) EXCEPT
        !.data = [b \in Bytes |-> IF to <= b /\ b < to + s.size THEN pg.data[b + by]
                                  ELSE pg.data[b]]]

ApplyDelete(pg, d) ==
  LET gone == pg.slots[d]
      moved[i \in 0 .. Len(pg.slots)] ==
        IF i = 0 THEN pg
        ELSE LET p == moved[i - 1]
             IN IF i # d /\ ~IsDeleted(p, i) /\ p.slots[i].offset > gone.offset
                THEN MoveDown(p, i, gone.size) ELSE p
  IN [moved[Len(pg.slots)] EXCEPT !.slots = RemoveAt(@, d)]

-----------------------------------------------------------------------------
(* UpdateTuple: in place when the tuple does not grow.  A tuple that grows  *)
(* is inserted again in the same page if it fits there, and the answer is   *)
(* false in either case.                                                    *)

UpdateInPlace(pg, i, size) == size <= pg.slots[i].size

\* Mutant: the slot keeps the old size, so a tuple that shrank ends in zeros.
WriteInPlaceKeepsSize(pg, i, size, tag) ==
  LET s == pg.slots[i]
  IN [pg EXCEPT !.data = Fill(Fill(@, s.offset, s.size, NoTag), s.offset, size, tag)]

WriteInPlace(pg, i, size, tag) ==
  LET off == pg.slots[i].offset
      old == pg.slots[i].size
  IN [SetSlotInfo(pg, i, off, size) EXCEPT
        !.data = Fill(Fill(@, off, old, NoTag), off, size, tag)]

GrowOverruns(pg, i, size) == InsertOverruns(MarkDelete(pg, i), size)

Grow(pg, i, size, tag) ==
  LET marked == MarkDelete(pg, i)
  IN IF InsertAccepts(marked, size) THEN InsertTuple(marked, size, tag) ELSE pg

-----------------------------------------------------------------------------
(* What a page must look like: live tuples lie between the slot array and   *)
(* the end of the page and do not overlap.                                  *)

LayoutSound(pg) ==
  /\ \A i \in LiveSlots(pg) :
        /\ SlotArrayEnd(Len(pg.slots)) <= pg.slots[i].offset
        /\ pg.slots[i].offset + pg.slots[i].size <= PAGE_SIZE
  /\ \A i, j \in LiveSlots(pg) : i # j => Extent(pg, i) \cap Extent(pg, j) = {}
=============================================================================
