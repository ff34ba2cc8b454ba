----------------------------- MODULE BPlusTree -----------------------------
(***************************************************************************)
(* storage/index/b_plus_tree.cpp and its page classes, as operators on a   *)
(* tree: the pages in order of allocation, the root and size_.  Every      *)
(* public method holds mutex_ from beginning to end, so each is one step.  *)
(*                                                                         *)
(* `fails` is the set of page calls that fail in a call: "leaf" in         *)
(* SplitLeaf, "root" in CreateNewRoot and for the first leaf, "parent" in  *)
(* InsertIntoParent, "retry" after the split.  When SplitInternal cannot   *)
(* allocate, InsertIntoParent calls it again until it can, so that failure *)
(* is not among them.                                                      *)
(***************************************************************************)
EXTENDS Naturals, Integers, Sequences, SequencesExt, FiniteSetsExt

CONSTANTS LeafMax, InternalMax     \* GetMaxKeys of the two page classes

ASSUME TreeAssumption == {LeafMax, InternalMax} \subseteq Nat \ {0, 1}

NoPage == 0                        \* INVALID_PAGE_ID
NotFound == -1

NewNode(leaf) == [leaf |-> leaf, parent |-> NoPage, next |-> NoPage, entries |-> <<>>]
EmptyTree == [root |-> NoPage, pages |-> <<>>, size |-> 0]

-----------------------------------------------------------------------------
(* Pages: entries in key order, of a key and a RID or a child.              *)

\* Lookup of the leaf page: one of the entries with this key, by bisection.
RECURSIVE Bisect(_, _, _, _)
Bisect(entries, key, left, right) ==
  LET mid == left + (right - left) \div 2
  IN IF left > right THEN NotFound
     ELSE IF entries[mid].key = key THEN mid
     ELSE IF key < entries[mid].key THEN Bisect(entries, key, left, mid - 1)
     ELSE Bisect(entries, key, mid + 1, right)

LeafLookup(node, key) == Bisect(node.entries, key, 1, Len(node.entries))

LowerBound(node, key) ==
  Min({Len(node.entries) + 1} \cup {i \in DOMAIN node.entries : node.entries[i].key >= key})

\* Mutant: a key goes in front of its equals and of the next smaller one.
PutOnePlaceEarly(entries, key, value) ==
  InsertAt(entries, Max({1, Min({Len(entries) + 1} \cup {i \in DOMAIN entries : key < entries[i].key}) - 1}),
           [key |-> key, value |-> value])

\* Insert of both page classes, behind the keys that are not larger.
Put(entries, key, value) ==
  InsertAt(entries, Min({Len(entries) + 1} \cup {i \in DOMAIN entries : key < entries[i].key}),
           [key |-> key, value |-> value])

\* Lookup of the internal page: the child of the first key that is not smaller,
\* or else the last child.
ChildFor(node, key) ==
  LET n == Len(node.entries)
      at == {i \in 1 .. n : key <= node.entries[i].key}
  IN IF n = 0 THEN NoPage ELSE node.entries[Min({n} \cup at)].value

-----------------------------------------------------------------------------
RECURSIVE Descend(_, _, _)
Descend(t, id, key) ==
  IF id = NoPage \/ t.pages[id].leaf THEN id
  ELSE Descend(t, ChildFor(t.pages[id], key), key)

FindLeaf(t, key) == Descend(t, t.root, key)

SetParent(t, child, parent) == [t EXCEPT !.pages[child].parent = parent]

\* The new root gets one entry, whose child is then overwritten with the left one.
CreateNewRoot(t, left, key, right, fails) ==
  LET id == Len(t.pages) + 1
      root == [NewNode(FALSE) EXCEPT !.entries = <<[key |-> key, value |-> left]>>]
  IN IF "root" \in fails THEN t
     ELSE SetParent(SetParent([t EXCEPT !.pages = Append(@, root), !.root = id], left, id),
                    right, id)

\* MoveHalfTo: the upper half of a page goes to a new one.
UpperHalf(t, id) ==
  LET n == Len(t.pages[id].entries) IN SubSeq(t.pages[id].entries, n \div 2 + 1, n)
LowerHalf(t, id) ==
  SubSeq(t.pages[id].entries, 1, Len(t.pages[id].entries) \div 2)

\* The children that move keep their parent pointers.
SplitInternalPages(t, id) ==
  [t EXCEPT !.pages[id].entries = LowerHalf(t, id),
            !.pages = Append(@, [NewNode(FALSE) EXCEPT !.entries = UpperHalf(t, id)])]

RECURSIVE InsertIntoParent(_, _, _, _, _)
InsertIntoParent(t, left, key, right, fails) ==
  LET parent == t.pages[left].parent
  IN IF "parent" \in fails THEN t
     ELSE IF parent = NoPage THEN CreateNewRoot(t, left, key, right, fails)
     ELSE IF Len(t.pages[parent].entries) < InternalMax
     THEN SetParent(SetParent([t EXCEPT !.pages[parent].entries = Put(@, key, right)],
                              left, parent), right, parent)
     ELSE LET split == SplitInternalPages(t, parent)
              mid == UpperHalf(t, parent)[1].key
              linked == InsertIntoParent(split, parent, mid, Len(split.pages), fails)
          IN InsertIntoParent(linked, left, key, right, fails)

\* Mutant: the new leaf is not put into the sibling list.
SplitLeafUnlinked(t, id, fails) ==
  LET new == Len(t.pages) + 1
      upper == UpperHalf(t, id)
      moved == [t EXCEPT
                  !.pages[id].entries = LowerHalf(t, id),
                  !.pages = Append(@, [NewNode(TRUE) EXCEPT !.entries = upper])]
  IN IF "leaf" \in fails THEN t ELSE InsertIntoParent(moved, id, upper[1].key, new, fails)

SplitLeaf(t, id, fails) ==
  LET new == Len(t.pages) + 1
      upper == UpperHalf(t, id)
      moved == [t EXCEPT
                  !.pages[id].entries = LowerHalf(t, id),
                  !.pages[id].next = new,
                  !.pages = Append(@, [NewNode(TRUE) EXCEPT !.entries = upper,
                                                            !.next = t.pages[id].next])]
  IN IF "leaf" \in fails THEN t ELSE InsertIntoParent(moved, id, upper[1].key, new, fails)

-----------------------------------------------------------------------------
(* The methods of the index: the answer and the tree after the call.        *)

FirstLeaf(t, key, rid) ==
  [root |-> 1, size |-> t.size + 1,
   pages |-> <<[NewNode(TRUE) EXCEPT !.entries = <<[key |-> key, value |-> rid]>>]>>]

\* The insertion after a split: its result is not looked at.
PutIfRoom(t, id, key, rid) ==
  [t EXCEPT !.size = @ + 1,
            !.pages[id].entries = IF Len(@) < LeafMax THEN Put(@, key, rid) ELSE @]

TreeInsert(t, key, rid, fails) ==
  LET id == FindLeaf(t, key)
      split == SplitLeaf(t, id, fails)
  IN IF t.root = NoPage
     THEN IF "root" \in fails THEN [done |-> FALSE, index |-> t]
          ELSE [done |-> TRUE, index |-> FirstLeaf(t, key, rid)]
     ELSE IF LeafLookup(t.pages[id], key) # NotFound THEN [done |-> FALSE, index |-> t]
     ELSE IF Len(t.pages[id].entries) < LeafMax
     THEN [done |-> TRUE, index |-> PutIfRoom(t, id, key, rid)]
     ELSE IF "retry" \in fails THEN [done |-> FALSE, index |-> split]
     ELSE [done |-> TRUE, index |-> PutIfRoom(split, FindLeaf(split, key), key, rid)]

TreeGetValue(t, key) ==
  LET id == FindLeaf(t, key)
      at == LeafLookup(t.pages[id], key)
  IN IF id = NoPage \/ at = NotFound THEN <<>> ELSE <<t.pages[id].entries[at].value>>

\* HandleUnderflow leaves the page as it is, and AdjustRoot never finds an
\* internal root without entries.  A root leaf that is emptied is forgotten.
TreeRemove(t, key) ==
  LET id == FindLeaf(t, key)
      at == LeafLookup(t.pages[id], key)
      left == RemoveAt(t.pages[id].entries, at)
  IN IF id = NoPage \/ at = NotFound THEN [done |-> FALSE, index |-> t]
     ELSE [done |-> TRUE,
           index |-> IF id = t.root /\ left = <<>> THEN [EmptyTree EXCEPT !.size = t.size - 1]
                     ELSE [t EXCEPT !.pages[id].entries = left, !.size = @ - 1]]

\* RangeScan: from the leaf of the first key along the siblings, up to the first
\* key behind the range.
RECURSIVE ScanFrom(_, _, _, _)
ScanFrom(t, id, from, to) ==
  IF id = NoPage THEN <<>>
  ELSE LET node == t.pages[id]
           rest == SubSeq(node.entries, LowerBound(node, from), Len(node.entries))
           beyond == {i \in DOMAIN rest : rest[i].key > to}
       IN IF beyond # {} THEN SubSeq(rest, 1, Min(beyond) - 1)
          ELSE rest \o ScanFrom(t, node.next, from, to)

TreeRangeScan(t, from, to) == ScanFrom(t, FindLeaf(t, from), from, to)
=============================================================================
