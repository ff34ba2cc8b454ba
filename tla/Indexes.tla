------------------------------ MODULE Indexes ------------------------------
(***************************************************************************)
(* storage/index/index.h: a secondary index under every sequence of Insert *)
(* and Remove.  The index is a B+ tree or an extendible hash index, as its *)
(* creator chose; what an index of either kind promises is a map from keys *)
(* to the RIDs that were put under them.                                   *)
(***************************************************************************)
EXTENDS BPlusTree, ExtendibleHash, FiniteSets

CONSTANTS TreeKeys, HashKeys,
          HashBits,      \* bound: bits in which hashes differ
          MaxTreeOps,    \* bound: Insert and Remove calls on a tree
          MaxHashOps,    \* bound: the same, on a hash index
          MaxFaults,     \* bound: calls in which a page call fails
          Kinds,         \* the kinds of index in the run
          Faults         \* the page calls that may fail

ASSUME IndexAssumption ==
  /\ TreeKeys \cup HashKeys \subseteq Int
  /\ {HashBits, MaxTreeOps, MaxHashOps, MaxFaults} \subseteq Nat
  /\ Kinds \subseteq {"tree", "hash"}
  /\ Faults \subseteq {"leaf", "root", "parent", "retry", "dir", "split", "fetch", "evict"}

VARIABLES kind,     \* CreateIndex picks the kind
          index,    \* the tree or the hash index
          ref,      \* what was inserted, answered with true and not removed, per key
          torn,     \* a page call failed in a way that loses entries
          ops,      \* calls so far; the row of the n-th call has RID n
          faults    \* failed page calls so far

vars == <<kind, index, ref, torn, ops, faults>>

Keys == IF kind = "tree" THEN TreeKeys ELSE HashKeys
MaxOps == IF kind = "tree" THEN MaxTreeOps ELSE MaxHashOps

\* HashKey mixes the bits of the key: any distribution may occur.  The keys are
\* numbered so that their hashes do not decrease.
Hashes == {h \in [HashKeys -> 0 .. 2 ^ HashBits - 1] : \A j, k \in HashKeys : j < k => h[j] <= h[k]}

Init ==
  /\ kind \in Kinds
  /\ IF kind = "tree" THEN index = EmptyTree
     ELSE index \in {EmptyHash(h) : h \in Hashes}
  /\ ref = [k \in Keys |-> <<>>]
  /\ torn = FALSE
  /\ ops = 0
  /\ faults = 0

\* The faults after which a tree cannot find, or a hash index has lost, an entry.
Losing(fails) == fails \cap {"evict", "leaf", "parent", "root"} # {}

InsertEntry(key, fails) ==
  LET rid == ops + 1
      answer == IF kind = "tree" THEN TreeInsert(index, key, rid, fails)
                ELSE HashInsert(index, key, rid, fails)
  IN /\ ops < MaxOps
     /\ faults + Cardinality(fails) <= MaxFaults
     /\ faults' = faults + Cardinality(fails)
     /\ ops' = ops + 1
     /\ index' = answer.index
     /\ ref' = IF answer.done THEN [ref EXCEPT ![key] = Append(@, rid)] ELSE ref
     /\ torn' = (torn \/ (Losing(fails) /\ index' # index))
     /\ UNCHANGED kind

RemoveEntry(key) ==
  LET answer == IF kind = "tree" THEN TreeRemove(index, key) ELSE HashRemove(index, key)
  IN /\ ops < MaxOps
     /\ ops' = ops + 1
     /\ index' = answer.index
     /\ ref' = IF answer.done /\ ref[key] # <<>> THEN [ref EXCEPT ![key] = Tail(@)] ELSE ref
     /\ UNCHANGED <<kind, torn, faults>>

Next ==
  \E key \in Keys :
     \/ InsertEntry(key, {})
     \/ \E f \in Faults : InsertEntry(key, {f})
     \/ RemoveEntry(key)

Spec == Init /\ [][Next]_vars

GetValue(key) == IF kind = "tree" THEN TreeGetValue(index, key) ELSE HashGetValue(index, key)
RangeScan(from, to) ==
  IF kind = "tree" THEN TreeRangeScan(index, from, to) ELSE HashRangeScan(index, from, to)

-----------------------------------------------------------------------------
(* Properties                                                              *)

\* Page ids, sizes and depths stay in their ranges: a leaf or bucket is never
\* overfull, and no bucket is deeper than the directory.
TypeOK ==
  /\ ops \in 0 .. MaxOps
  /\ index.size \in 0 .. MaxOps
  /\ kind = "tree" =>
        /\ index.root \in 0 .. Len(index.pages)
        /\ \A p \in DOMAIN index.pages :
              Len(index.pages[p].entries) <= IF index.pages[p].leaf THEN LeafMax ELSE InternalMax
  /\ kind = "hash" =>
        /\ \A b \in DOMAIN index.buckets :
              /\ Len(index.buckets[b].entries) <= MAX_BUCKET_SIZE
              /\ index.buckets[b].depth <= index.depth
        /\ index.dir # NoDirectory =>
              index.dir \in [0 .. 2 ^ index.depth - 1 -> DOMAIN index.buckets]

\* What a key finds, and what a scan of everything returns, in a hash index that
\* lost no page: the RIDs put under the key and not removed, the oldest first, through
\* any splits and doublings, also after inserts that were refused.
HashIsAMap ==
  (kind = "hash" /\ ~torn) =>
     /\ \A k \in Keys : GetValue(k) = IF ref[k] = <<>> THEN <<>> ELSE <<ref[k][1]>>
     /\ ToSet(RangeScan(Min(Keys), Max(Keys))) =
           UNION {{[key |-> k, value |-> r] : r \in ToSet(ref[k])} : k \in Keys}
     /\ index.size = MapThenSumSet(LAMBDA k : Len(ref[k]), Keys)

\* A bucket of depth d is in the directory at all places that agree with its
\* keys in d bits, and only there.
DirectorySharesBuckets ==
  (kind = "hash" /\ index.dir # NoDirectory) =>
     \A i, j \in DOMAIN index.dir :
        LET d == index.buckets[index.dir[i]].depth
        IN index.dir[i] = index.dir[j] <=> i % 2 ^ d = j % 2 ^ d

\* The keys of every page are in order, so that the bisections of Lookup and
\* LowerBound look in the right half, though splits send keys to odd leaves.
PagesInOrder ==
  kind = "tree" =>
     \A p \in DOMAIN index.pages :
        LET e == index.pages[p].entries
        IN \A i, j \in DOMAIN e : i < j => e[i].key <= e[j].key

\* What a scan of all keys returns that starts at the first leaf.
ChainEntries ==
  IF index.root = NoPage THEN <<>> ELSE ScanFrom(index, 1, Min(TreeKeys), Max(TreeKeys))

NoCopies == Len(ChainEntries) = Cardinality(ToSet(ChainEntries))

\* A call changes at most one entry of the leaves along the sibling list: an insert
\* adds its own, a removal takes one with its key, and splits move entries without
\* dropping or copying any, as long as no page call fails.
CallsTouchOneEntry ==
  [][(kind = "tree" /\ ~torn') =>
       LET old == ToSet(ChainEntries)
           new == ToSet(ChainEntries)'
       IN Cardinality((old \ new) \cup (new \ old)) <= 1 /\ NoCopies']_vars

\* As long as the root is a leaf, a tree is a map with one RID per key, and a scan
\* returns the keys in order.
TreeIsAMapUntilItSplits ==
  (kind = "tree" /\ ~torn /\ index.root # NoPage /\ index.pages[index.root].leaf) =>
     /\ \A k \in Keys : GetValue(k) = ref[k]
     /\ \A from, to \in Keys :
           LET scan == RangeScan(from, to)
           IN /\ {<<e.key, <<e.value>>>> : e \in ToSet(scan)} =
                    {<<k, ref[k]>> : k \in {j \in from .. to : j \in Keys /\ ref[j] # <<>>}}
              /\ \A i, j \in DOMAIN scan : i < j => scan[i].key < scan[j].key

\* ExtendibleHashIndex: the directory entries of a bucket agree in its local depth,
\* so that every key that was inserted is found, and no other.
HashIsSound == HashIsAMap /\ DirectorySharesBuckets

\* BPlusTree: every page is in order, and until the first split the tree holds
\* exactly what was inserted and not removed.
TreeIsSound == TypeOK /\ PagesInOrder /\ TreeIsAMapUntilItSplits
=============================================================================
