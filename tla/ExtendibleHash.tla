--------------------------- MODULE ExtendibleHash ---------------------------
(***************************************************************************)
(* storage/index/extendible_hash_index.cpp, as operators on an index: the  *)
(* directory (a function from 0 .. 2^depth - 1 to buckets), the buckets in *)
(* order of allocation, size_ and the hash of every key.  The methods hold *)
(* mutex_ throughout.                                                      *)
(*                                                                         *)
(* `fails` holds what goes wrong in a call: "dir" and "split" are          *)
(* allocations, "fetch" is the first access to the bucket, "evict" another *)
(* thread that takes the frame of the new bucket, which SplitBucket unpins *)
(* before it writes the entries there.                                     *)
(***************************************************************************)
EXTENDS Naturals, Integers, Sequences, SequencesExt

CONSTANT MAX_BUCKET_SIZE

ASSUME BucketAssumption == MAX_BUCKET_SIZE \in Nat \ {0}

NoDirectory == <<>>
EmptyHash(hash) ==
  [hash |-> hash, depth |-> 0, dir |-> NoDirectory, buckets |-> <<>>, size |-> 0]

NewBucket(depth) == [depth |-> depth, entries |-> <<>>]

\* GetBucketPageId: the low bits of the hash.
BucketOf(x, key) == x.dir[x.hash[key] % 2 ^ x.depth]

\* The directory and its first two buckets; buckets that were allocated before an
\* allocation failed are lost to the index and not kept here.
FirstDirectory(x) ==
  [x EXCEPT !.depth = 1,
            !.dir = [i \in {0, 1} |-> i + 1],
            !.buckets = <<NewBucket(1), NewBucket(1)>>]

BucketFull(x, b) == Len(x.buckets[b].entries) >= MAX_BUCKET_SIZE

DoubleDirectory(x) ==
  LET n == 2 ^ x.depth
  IN [x EXCEPT !.depth = @ + 1,
               !.dir = [i \in 0 .. 2 * n - 1 |-> x.dir[i % n]]]

\* The directory entries of bucket b with the next bit set go to the new bucket;
\* the entries follow the directory, in their old order.
SplitShallow(x, b, fails) ==
  LET bit == x.buckets[b].depth
      new == Len(x.buckets) + 1
      dir == [i \in DOMAIN x.dir |->
                IF x.dir[i] = b /\ (i \div 2 ^ bit) % 2 = 1 THEN new ELSE x.dir[i]]
      Stays(e) == dir[x.hash[e.key] % 2 ^ x.depth] = b
      Moves(e) == ~Stays(e)
      moved == IF "evict" \in fails THEN <<>> ELSE SelectSeq(x.buckets[b].entries, Moves)
  IN [x EXCEPT !.dir = dir,
               !.buckets = Append([x.buckets EXCEPT ![b] =
                                     [depth |-> bit + 1,
                                      entries |-> SelectSeq(x.buckets[b].entries, Stays)]],
                                  [depth |-> bit + 1, entries |-> moved])]

SplitBucket(x, b, fails) ==
  LET deep == IF x.buckets[b].depth < x.depth THEN x ELSE DoubleDirectory(x)
  IN IF "split" \in fails THEN deep ELSE SplitShallow(deep, b, fails)

-----------------------------------------------------------------------------
(* The methods of the index: the answer and the index after the call.       *)

PutInBucket(x, key, rid) ==
  [x EXCEPT !.buckets[BucketOf(x, key)].entries = Append(@, [key |-> key, value |-> rid]),
            !.size = @ + 1]

\* One split and one retry: keys that agree in one more bit are refused.
HashInsert(x0, key, rid, fails) ==
  LET x == IF x0.dir = NoDirectory THEN FirstDirectory(x0) ELSE x0
      split == SplitBucket(x, BucketOf(x, key), fails)
  IN IF x0.dir = NoDirectory /\ "dir" \in fails
     THEN [done |-> FALSE, index |-> x0]
     ELSE IF ~BucketFull(x, BucketOf(x, key)) /\ "fetch" \notin fails
     THEN [done |-> TRUE, index |-> PutInBucket(x, key, rid)]
     ELSE IF BucketFull(split, BucketOf(split, key))
     THEN [done |-> FALSE, index |-> split]
     ELSE [done |-> TRUE, index |-> PutInBucket(split, key, rid)]

\* The places of a key in its bucket.
PlacesOf(x, key) ==
  IF x.dir = NoDirectory THEN {}
  ELSE LET entries == x.buckets[BucketOf(x, key)].entries
       IN {i \in DOMAIN entries : entries[i].key = key}

HashGetValue(x, key) ==
  IF PlacesOf(x, key) = {} THEN <<>>
  ELSE <<x.buckets[BucketOf(x, key)].entries[Min(PlacesOf(x, key))].value>>

\* Mutant: the last entry of the key goes, not the first.
HashRemoveLast(x, key) ==
  IF PlacesOf(x, key) = {} THEN [done |-> FALSE, index |-> x]
  ELSE [done |-> TRUE,
        index |-> [x EXCEPT !.buckets[BucketOf(x, key)].entries = RemoveAt(@, Max(PlacesOf(x, key))),
                            !.size = @ - 1]]

HashRemove(x, key) ==
  IF PlacesOf(x, key) = {} THEN [done |-> FALSE, index |-> x]
  ELSE [done |-> TRUE,
        index |-> [x EXCEPT !.buckets[BucketOf(x, key)].entries = RemoveAt(@, Min(PlacesOf(x, key))),
                            !.size = @ - 1]]

\* RangeScan: every directory entry's bucket, shared buckets again and again.
HashRangeScan(x, from, to) ==
  LET InRange(e) == from <= e.key /\ e.key <= to
      scan[i \in 0 .. 2 ^ x.depth] ==
        IF i = 0 THEN <<>>
        ELSE scan[i - 1] \o SelectSeq(x.buckets[x.dir[i - 1]].entries, InRange)
  IN IF x.dir = NoDirectory THEN <<>> ELSE scan[2 ^ x.depth]
=============================================================================
