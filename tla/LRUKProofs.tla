----------------------------- MODULE LRUKProofs -----------------------------
(***************************************************************************)
(* Proofs about LRUKReplacer, for any number of frames and any K: it keeps *)
(* the promise of the interface, and the victim it chooses has the largest *)
(* K-distance over the whole access sequence.                              *)
(***************************************************************************)
EXTENDS LRUKReplacer, FiniteSetTheorems, SequenceTheorems, TLAPS

-----------------------------------------------------------------------------
(* LRU-K and the interface: curr_size_ counts evictable_. *)

SizeInv ==
  /\ evictable \in SUBSET Frames
  /\ IsFiniteSet(evictable)
  /\ curr_size = Cardinality(evictable)

\* curr_size_ is 0 exactly when nothing is evictable.
LEMMA SizeZero == SizeInv => curr_size \in Nat /\ (curr_size = 0 <=> evictable = {})
BY FS_EmptySet, FS_CardinalityType DEF SizeInv

\* Every call keeps the count.
LEMMA NextSize == SizeInv /\ [Next]_vars => SizeInv'
<1> SUFFICES ASSUME SizeInv, [Next]_vars
             PROVE  SizeInv'
  OBVIOUS
<1>1. CASE VictimEmptyHanded \/ UNCHANGED vars
  BY <1>1 DEF VictimEmptyHanded, vars, SizeInv
<1>2. ASSUME NEW f \in Frames, VictimChooses(f)
      PROVE  SizeInv'
  <2>1. f \in evictable
    BY <1>2 DEF VictimChooses, Candidates
  <2> QED BY <1>2, <2>1, FS_RemoveElement DEF VictimChooses, SizeInv
<1>3. ASSUME NEW f \in Frames, Pin(f)
      PROVE  SizeInv'
  BY <1>3, FS_RemoveElement DEF Pin, SizeInv
<1>4. ASSUME NEW f \in Frames, Unpin(f)
      PROVE  SizeInv'
  BY <1>4, FS_AddElement DEF Unpin, SizeInv
<1> QED BY <1>1, <1>2, <1>3, <1>4 DEF Next

\* Nothing is evictable at first.
LEMMA InitSize == Init => SizeInv
BY FS_EmptySet DEF Init, SizeInv

\* Every call of LRUKReplacer is a call the interface allows: Victim returns an
\* evictable frame whenever there is one, and reports none only when there is none.
THEOREM LRUKImplementsReplacer == Spec => ImplementsReplacer
<1>1. Init => Promise!Init
  BY DEF Init, Promise!Init, NO_ANSWER, Promise!NO_ANSWER
<1>2. SizeInv /\ [Next]_vars => [Promise!Next]_<<evictable, answer>>
  <2> SUFFICES ASSUME SizeInv, [Next]_vars
               PROVE  [Promise!Next]_<<evictable, answer>>
    OBVIOUS
  <2>1. CASE VictimEmptyHanded
    <3>1. evictable = {}
      BY <2>1, SizeZero DEF VictimEmptyHanded
    <3> QED BY <2>1, <3>1 DEF VictimEmptyHanded, Promise!Next, Promise!Victim,
               INVALID_FRAME_ID, Promise!INVALID_FRAME_ID
  <2>2. ASSUME NEW f \in Frames, VictimChooses(f)
        PROVE  Promise!Next
    BY <2>2 DEF VictimChooses, Candidates, Promise!Next, Promise!Victim
  <2>3. ASSUME NEW f \in Frames, Pin(f)
        PROVE  Promise!Next
    BY <2>3 DEF Pin, Promise!Next, Promise!Pin, Frames, Promise!Frames, NO_ANSWER, Promise!NO_ANSWER
  <2>4. ASSUME NEW f \in Frames, Unpin(f)
        PROVE  Promise!Next
    BY <2>4 DEF Unpin, Promise!Next, Promise!Unpin, Frames, Promise!Frames, NO_ANSWER, Promise!NO_ANSWER
  <2>5. CASE UNCHANGED vars
    BY <2>5 DEF vars
  <2> QED BY <2>1, <2>2, <2>3, <2>4, <2>5 DEF Next
<1> QED BY <1>1, <1>2, InitSize, NextSize, PTL DEF Spec, ImplementsReplacer, Promise!Spec

-----------------------------------------------------------------------------
(* LRU-K and the whole access sequence: the timestamps kept for a frame are *)
(* the last K, newest first, or all of them while there are fewer.          *)

\* h holds the K most recent members of the set A of accesses, newest first.
MostRecent(h, A) ==
  /\ h \in Seq(Nat)
  /\ Len(h) <= K
  /\ \A i \in 1 .. Len(h) : h[i] \in A
  /\ \A i, j \in 1 .. Len(h) : i < j => h[j] < h[i]
  /\ \A u \in A : \/ \E i \in 1 .. Len(h) : h[i] = u
                  \/ Len(h) = K /\ u < h[K]

HistoryInv ==
  /\ curr_timestamp \in 0 .. MaxAccesses
  /\ evictable \in SUBSET Frames
  /\ accesses \in [Frames -> SUBSET (1 .. curr_timestamp)]
  /\ access_history \in [Frames -> Seq(Nat)]
  /\ \A f \in Frames : MostRecent(access_history[f], accesses[f])

\* Pushing a newer timestamp in front and cutting to K keeps the most recent ones.
LEMMA PushKeepsRecent ==
  ASSUME NEW n \in Nat, NEW A \in SUBSET (1 .. n), NEW h, MostRecent(h, A)
  PROVE  LET pushed == <<n + 1>> \o h
         IN  MostRecent(SubSeq(pushed, 1, IF Len(pushed) > K THEN K ELSE Len(pushed)),
                        A \cup {n + 1})
<1> DEFINE pushed == <<n + 1>> \o h
           m == IF Len(pushed) > K THEN K ELSE Len(pushed)
           new == SubSeq(pushed, 1, m)
<1>0. K \in Nat /\ K > 0 /\ Len(h) \in Nat /\ h \in Seq(Nat) /\ Len(h) <= K
  BY LRUKAssumption DEF MostRecent
<1>1. /\ pushed \in Seq(Nat)
      /\ Len(pushed) = Len(h) + 1
      /\ \A i \in 1 .. Len(h) + 1 : pushed[i] = IF i = 1 THEN n + 1 ELSE h[i - 1]
  <2>1. <<n + 1>> \in Seq(Nat) /\ Len(<<n + 1>>) = 1 /\ <<n + 1>>[1] = n + 1
    OBVIOUS
  <2>2. /\ pushed \in Seq(Nat)
        /\ Len(pushed) = 1 + Len(h)
        /\ \A i \in 1 .. 1 + Len(h) : pushed[i] = IF i <= 1 THEN <<n + 1>>[i] ELSE h[i - 1]
    BY <2>1, <1>0, ConcatProperties
  <2> HIDE DEF pushed
  <2> QED BY <2>1, <2>2, <1>0
<1>2. m \in 1 .. K /\ m <= Len(h) + 1 /\ (m < K => m = Len(h) + 1)
  BY <1>0, <1>1
<1> HIDE DEF pushed, m
<1>3. /\ new \in Seq(Nat)
      /\ Len(new) = m
      /\ \A i \in 1 .. m : new[i] = IF i = 1 THEN n + 1 ELSE h[i - 1]
  <2>1. \A i \in 1 .. m : pushed[i] \in Nat
    BY <1>1, <1>2, <1>0
  <2>2. /\ new \in Seq(Nat)
        /\ Len(new) = IF 1 <= m THEN m - 1 + 1 ELSE 0
        /\ \A i \in 1 .. m - 1 + 1 : new[i] = pushed[1 + i - 1]
    BY <2>1, <1>2, <1>0, SubSeqProperties
  <2>3. \A i \in 1 .. m : new[i] = pushed[i]
    BY <2>2, <1>2, <1>0
  <2> HIDE DEF new
  <2> QED BY <2>2, <2>3, <1>1, <1>2, <1>0
<1> HIDE DEF new
<1>4. \A i \in 1 .. Len(h) : h[i] \in A /\ h[i] \in 1 .. n
  BY DEF MostRecent
<1>5. \A i \in 1 .. m : i # 1 => i - 1 \in 1 .. Len(h)
  BY <1>2, <1>0
<1>6. \A i \in 1 .. m : new[i] \in A \cup {n + 1}
  BY <1>3, <1>4, <1>5
<1>7. ASSUME NEW i \in 1 .. m, NEW j \in 1 .. m, i < j
      PROVE  new[j] < new[i]
  <2>1. j - 1 \in 1 .. Len(h) /\ new[j] = h[j - 1]
    BY <1>7, <1>3, <1>5, <1>2, <1>0
  <2>2. CASE i = 1
    BY <2>1, <2>2, <1>3, <1>4
  <2>3. CASE i # 1
    <3>1. i - 1 \in 1 .. Len(h) /\ new[i] = h[i - 1]
      BY <2>3, <1>3, <1>5
    <3>2. i - 1 < j - 1
      BY <1>7, <1>2
    <3> QED BY <2>1, <3>1, <3>2 DEF MostRecent
  <2> QED BY <2>2, <2>3
<1>8. ASSUME NEW u \in A \cup {n + 1}
      PROVE  (\E i \in 1 .. m : new[i] = u) \/ (m = K /\ u < new[K])
  <2>1. CASE u = n + 1
    <3>1. 1 \in 1 .. m /\ new[1] = n + 1
      BY <1>2, <1>3, <1>0
    <3> QED BY <2>1, <3>1
  <2>2. CASE u \in A /\ \E i \in 1 .. Len(h) : h[i] = u
    <3>1. PICK i \in 1 .. Len(h) : h[i] = u
      BY <2>2
    <3>2. CASE i + 1 <= m
      <4>1. i + 1 \in 1 .. m /\ new[i + 1] = u
        BY <3>1, <3>2, <1>2, <1>3, <1>0
      <4> QED BY <4>1
    <3>3. CASE ~(i + 1 <= m)
      <4>1. m = K /\ i = K /\ i = Len(h)
        BY <3>3, <1>2, <1>0
      <4>2. new[K] = IF K = 1 THEN n + 1 ELSE h[K - 1]
        BY <4>1, <1>3, <1>2
      <4>3. CASE K = 1
        <5>1. new[K] = n + 1 /\ u < n + 1
          BY <4>2, <4>3, <2>2
        <5> QED BY <4>1, <5>1
      <4>4. CASE K # 1
        <5>1. K - 1 \in 1 .. Len(h) /\ K - 1 < i
          BY <4>1, <4>4, <1>0
        <5>2. h[i] < h[K - 1]
          BY <5>1 DEF MostRecent
        <5> QED BY <4>1, <4>2, <4>4, <5>2, <3>1
      <4> QED BY <4>3, <4>4
    <3> QED BY <3>2, <3>3
  <2>3. CASE u \in A /\ Len(h) = K /\ u < h[K]
    <3>1. m = K
      BY <2>3, <1>2, <1>0
    <3>2. new[K] = IF K = 1 THEN n + 1 ELSE h[K - 1]
      BY <3>1, <1>3, <1>2
    <3>3. CASE K = 1
      BY <2>3, <3>1, <3>2, <3>3
    <3>4. CASE K # 1
      <4>1. K - 1 \in 1 .. Len(h) /\ K \in 1 .. Len(h) /\ K - 1 < K
        BY <2>3, <3>4, <1>0
      <4>2. h[K] < h[K - 1] /\ h[K] \in Nat /\ h[K - 1] \in Nat /\ u \in Nat
        BY <4>1, <1>4 DEF MostRecent
      <4> QED BY <2>3, <3>1, <3>2, <3>4, <4>2
    <3> QED BY <3>3, <3>4
  <2> QED BY <2>1, <2>2, <2>3 DEF MostRecent
<1>9. MostRecent(new, A \cup {n + 1})
  BY <1>2, <1>3, <1>6, <1>7, <1>8, <1>0 DEF MostRecent
<1> QED BY <1>9 DEF new, m, pushed

\* A set of timestamps is finite.
LEMMA FiniteAccesses ==
  ASSUME NEW n \in Nat, NEW A \in SUBSET (1 .. n)
  PROVE  IsFiniteSet(A) /\ Cardinality(A) \in Nat
<1>1. IsFiniteSet(1 .. n)
  BY FS_Interval
<1>2. IsFiniteSet(A)
  BY <1>1, FS_Subset
<1> QED BY <1>2, FS_CardinalityType

\* The number of timestamps kept tells whether there were K accesses, and the last one
\* kept is the K-th most recent access.
LEMMA KthIsLast ==
  ASSUME NEW n \in Nat, NEW A \in SUBSET (1 .. n), NEW h, MostRecent(h, A)
  PROVE  /\ Len(h) < K <=> Cardinality(A) < K
         /\ Len(h) = K => h[K] = CHOOSE t \in A : Cardinality({u \in A : u >= t}) = K
<1> DEFINE R == {h[i] : i \in 1 .. Len(h)}
           From(t) == {u \in A : u >= t}
<1>0. K \in Nat /\ K > 0 /\ Len(h) \in Nat /\ h \in Seq(Nat) /\ Len(h) <= K /\ A \subseteq Nat
  BY LRUKAssumption DEF MostRecent
<1>1. IsFiniteSet(A) /\ Cardinality(A) \in Nat
  BY FiniteAccesses
<1>2. Cardinality(R) = Len(h) /\ R \subseteq A
  <2> DEFINE g == [i \in 1 .. Len(h) |-> h[i]]
  <2>1. g \in Bijection(1 .. Len(h), R)
    <3>1. g \in Surjection(1 .. Len(h), R)
      BY DEF Surjection
    <3>2. ASSUME NEW i \in 1 .. Len(h), NEW j \in 1 .. Len(h), g[i] = g[j]
          PROVE  i = j
      <4>1. h[i] = h[j] /\ h[i] \in Nat /\ h[j] \in Nat
        BY <3>2, <1>0
      <4>2. ~(i < j) /\ ~(j < i)
        BY <4>1 DEF MostRecent
      <4> QED BY <4>2, <1>0
    <3>3. g \in Injection(1 .. Len(h), R)
      BY <3>2 DEF Injection, IsInjective
    <3> QED BY <3>1, <3>3 DEF Bijection
  <2>2. ExistsBijection(1 .. Len(h), R)
    BY <2>1 DEF ExistsBijection
  <2>3. Cardinality(R) = Len(h)
    <3> HIDE DEF R, g
    <3> QED BY <2>2, <1>0, FS_CountingElements
  <2> QED BY <2>3 DEF MostRecent
<1>3. ASSUME Len(h) < K
      PROVE  A = R
  <2>1. \A u \in A : \E i \in 1 .. Len(h) : h[i] = u
    BY <1>3, <1>0 DEF MostRecent
  <2> QED BY <2>1, <1>2
<1>4. Len(h) = K => ~(Cardinality(A) < K)
  <2> HIDE DEF R
  <2>1. Cardinality(R) <= Cardinality(A)
    BY <1>1, <1>2, FS_Subset
  <2> QED BY <2>1, <1>2, <1>0, <1>1
<1>5. Len(h) < K <=> Cardinality(A) < K
  <2> HIDE DEF R
  <2> QED BY <1>0, <1>2, <1>3, <1>4
<1>6. ASSUME Len(h) = K
      PROVE  h[K] = CHOOSE t \in A : Cardinality(From(t)) = K
  <2>0. K \in 1 .. Len(h) /\ h[K] \in R /\ h[K] \in A /\ h[K] \in Nat
    BY <1>6, <1>0, <1>2
  <2>1. From(h[K]) = R
    <3>1. ASSUME NEW i \in 1 .. Len(h) PROVE h[i] \in From(h[K])
      <4>1. h[i] \in A /\ h[i] \in Nat /\ (i = K \/ i < K)
        BY <1>6, <1>0, <1>2
      <4>2. i < K => h[K] < h[i]
        BY <2>0 DEF MostRecent
      <4> QED BY <4>1, <4>2, <2>0
    <3>2. ASSUME NEW u \in From(h[K]) PROVE u \in R
      <4>1. u \in A /\ ~(u < h[K])
        BY <2>0, <1>0
      <4> QED BY <4>1 DEF MostRecent
    <3> HIDE DEF From
    <3> QED BY <3>1, <3>2
  <2>2. Cardinality(From(h[K])) = K
    BY <2>1, <1>2, <1>6
  <2>3. ASSUME NEW t \in A, Cardinality(From(t)) = K
        PROVE  t = h[K]
    <3>0. t \in Nat /\ From(t) \subseteq A /\ IsFiniteSet(From(t)) /\ IsFiniteSet(R)
      BY <1>0, <1>1, <1>2, FS_Subset
    <3>1. CASE t < h[K]
      <4>1. R \subseteq From(t)
        BY <2>1, <3>1, <3>0, <2>0, <1>0
      <4>2. t \in From(t) /\ t \notin R
        BY <2>1, <3>1, <3>0, <2>0
      <4> HIDE DEF R, From
      <4>3. Cardinality(R) = Cardinality(From(t))
        BY <1>2, <1>6, <2>3
      <4>4. R = From(t)
        BY <3>0, <4>1, <4>3, FS_Subset
      <4> QED BY <4>2, <4>4
    <3>2. CASE h[K] < t
      <4>1. From(t) \subseteq R
        <5>1. ASSUME NEW u \in From(t) PROVE u \in From(h[K])
          BY <3>2, <3>0, <2>0, <1>0
        <5> HIDE DEF R, From
        <5> QED BY <5>1, <2>1
      <4>2. h[K] \in R /\ h[K] \notin From(t)
        BY <3>2, <3>0, <2>0
      <4> HIDE DEF R, From
      <4>3. Cardinality(R) = Cardinality(From(t))
        BY <1>2, <1>6, <2>3
      <4>4. R = From(t)
        BY <3>0, <4>1, <4>3, FS_Subset
      <4> QED BY <4>2, <4>4
    <3> QED BY <3>0, <2>0, <3>1, <3>2
  <2> HIDE DEF From
  <2> QED BY <2>0, <2>2, <2>3
<1> QED BY <1>5, <1>6

\* Recording an access keeps what is known of every history.
LEMMA RecordAccessHistory ==
  ASSUME HistoryInv, NEW f \in Frames, RecordAccess(f), evictable' \in SUBSET Frames
  PROVE  HistoryInv'
<1> DEFINE n == curr_timestamp
           pushed(h) == <<n + 1>> \o h
           cut(h) == SubSeq(pushed(h), 1, IF Len(pushed(h)) > K THEN K ELSE Len(pushed(h)))
<1>1. n \in Nat /\ curr_timestamp' = n + 1 /\ curr_timestamp' \in 0 .. MaxAccesses
  BY LRUKAssumption DEF HistoryInv, RecordAccess
<1>2. accesses' = [accesses EXCEPT ![f] = accesses[f] \cup {n + 1}]
  BY DEF RecordAccess, HistoryInv
<1>3. access_history' = [access_history EXCEPT ![f] = cut(access_history[f])]
  BY DEF RecordAccess, HistoryInv
<1>4. accesses[f] \in SUBSET (1 .. n) /\ MostRecent(access_history[f], accesses[f])
  BY DEF HistoryInv
<1>5. MostRecent(cut(access_history[f]), accesses[f] \cup {n + 1})
  BY <1>1, <1>4, PushKeepsRecent
<1> HIDE DEF cut
<1>6. accesses' \in [Frames -> SUBSET (1 .. curr_timestamp')]
  BY <1>1, <1>2 DEF HistoryInv
<1>7. access_history' \in [Frames -> Seq(Nat)]
  BY <1>3, <1>5 DEF HistoryInv, MostRecent
<1>8. ASSUME NEW g \in Frames
      PROVE  MostRecent(access_history'[g], accesses'[g])
  <2>1. CASE g = f
    BY <2>1, <1>2, <1>3, <1>5 DEF HistoryInv
  <2>2. CASE g # f
    BY <2>2, <1>2, <1>3 DEF HistoryInv
  <2> QED BY <2>1, <2>2
<1> QED BY <1>1, <1>6, <1>7, <1>8 DEF HistoryInv

\* Every call keeps HistoryInv; the victim starts with an empty history.
LEMMA NextHistory == HistoryInv /\ [Next]_vars => HistoryInv'
<1> SUFFICES ASSUME HistoryInv, [Next]_vars
             PROVE  HistoryInv'
  OBVIOUS
<1>1. CASE VictimEmptyHanded \/ UNCHANGED vars
  BY <1>1 DEF VictimEmptyHanded, vars, HistoryInv
<1>2. ASSUME NEW f \in Frames, VictimChooses(f)
      PROVE  HistoryInv'
  <2>1. <<>> \in Seq(Nat) /\ MostRecent(<<>>, {})
    BY LRUKAssumption DEF MostRecent
  <2>2. /\ access_history' = [access_history EXCEPT ![f] = <<>>]
        /\ accesses' = [accesses EXCEPT ![f] = {}]
        /\ evictable' \in SUBSET Frames
        /\ curr_timestamp' = curr_timestamp
    BY <1>2 DEF VictimChooses, HistoryInv
  <2>3. ASSUME NEW g \in Frames
        PROVE  MostRecent(access_history'[g], accesses'[g])
    BY <2>1, <2>2 DEF HistoryInv
  <2>4. access_history' \in [Frames -> Seq(Nat)] /\ accesses' \in [Frames -> SUBSET (1 .. curr_timestamp')]
    BY <2>1, <2>2 DEF HistoryInv
  <2> QED BY <2>2, <2>3, <2>4 DEF HistoryInv
<1>3. ASSUME NEW f \in Frames, Pin(f) \/ Unpin(f)
      PROVE  HistoryInv'
  <2>1. RecordAccess(f) /\ evictable' \in SUBSET Frames
    BY <1>3 DEF Pin, Unpin, HistoryInv
  <2> QED BY <2>1, RecordAccessHistory
<1> QED BY <1>1, <1>2, <1>3 DEF Next

\* The victim has the largest backward K-distance of all evictable frames over the
\* whole access sequence, though lru_k_replacer.cpp keeps at most K timestamps of a
\* frame and forgets those of a victim.
THEOREM VictimCorrect == Spec => VictimHasLargestDistance
<1>1. Init => HistoryInv
  <2> SUFFICES ASSUME Init
               PROVE  HistoryInv
    OBVIOUS
  <2>1. <<>> \in Seq(Nat) /\ MostRecent(<<>>, {})
    BY LRUKAssumption DEF MostRecent
  <2>2. curr_timestamp \in 0 .. MaxAccesses /\ evictable \in SUBSET Frames
    BY LRUKAssumption DEF Init
  <2> QED BY <2>1, <2>2 DEF Init, HistoryInv
<1>2. HistoryInv => \A f \in Frames : VictimChooses(f) => \A g \in evictable : Precedes(f, g)
  <2> SUFFICES ASSUME HistoryInv, NEW f \in Frames, VictimChooses(f), NEW g \in evictable
               PROVE  Precedes(f, g)
    OBVIOUS
  <2> DEFINE n == curr_timestamp
             hf == access_history[f]
             hg == access_history[g]
  <2>1. /\ n \in Nat /\ n <= MaxAccesses /\ g \in Frames
        /\ K \in Nat /\ K > 0 /\ MaxAccesses \in Nat
    BY LRUKAssumption DEF HistoryInv
  <2>2. /\ accesses[f] \in SUBSET (1 .. n) /\ MostRecent(hf, accesses[f])
        /\ accesses[g] \in SUBSET (1 .. n) /\ MostRecent(hg, accesses[g])
    BY <2>1 DEF HistoryInv
  <2>3. /\ Len(hf) < K <=> Cardinality(accesses[f]) < K
        /\ Len(hf) = K => hf[K] = KthRecent(f)
    BY <2>1, <2>2, KthIsLast DEF KthRecent
  <2>4. /\ Len(hg) < K <=> Cardinality(accesses[g]) < K
        /\ Len(hg) = K => hg[K] = KthRecent(g)
    BY <2>1, <2>2, KthIsLast DEF KthRecent
  <2>5. /\ Len(hf) \in Nat /\ Len(hf) <= K /\ Len(hg) \in Nat /\ Len(hg) <= K
        /\ Len(hf) = K => hf[K] \in 1 .. n
        /\ Len(hg) = K => hg[K] \in 1 .. n
    <3>1. hf \in Seq(Nat) /\ hg \in Seq(Nat) /\ Len(hf) <= K /\ Len(hg) <= K
      BY <2>2 DEF MostRecent
    <3>2. Len(hf) = K => K \in 1 .. Len(hf)
      BY <2>1
    <3>3. Len(hg) = K => K \in 1 .. Len(hg)
      BY <2>1
    <3> QED BY <3>1, <3>2, <3>3, <2>2 DEF MostRecent
  <2>6. GetKDistance(g) <= GetKDistance(f)
    BY DEF VictimChooses, Candidates
  <2>7. CASE Len(hf) < K
    BY <2>3, <2>7 DEF Precedes
  <2>8. CASE Len(hf) = K
    <3>1. GetKDistance(f) = n - hf[K] /\ n - hf[K] < Infinity
      BY <2>1, <2>5, <2>8 DEF GetKDistance, Infinity
    <3>2. Len(hg) = K
      BY <2>1, <2>5, <2>6, <2>8, <3>1 DEF GetKDistance, Infinity
    <3>3. GetKDistance(g) = n - hg[K]
      BY <3>2, <2>1 DEF GetKDistance
    <3>4. hf[K] <= hg[K]
      BY <3>1, <3>2, <3>3, <2>1, <2>5, <2>6, <2>8
    <3>5. Cardinality(accesses[g]) \in Nat
      BY <2>1, <2>2, FiniteAccesses
    <3> HIDE DEF hf, hg
    <3>6. Cardinality(accesses[g]) >= K /\ KthRecent(f) <= KthRecent(g)
      BY <3>2, <3>4, <3>5, <2>1, <2>3, <2>4, <2>8
    <3> QED BY <3>6 DEF Precedes
  <2> QED BY <2>5, <2>7, <2>8, <2>1
<1> QED BY <1>1, <1>2, NextHistory, PTL DEF Spec, VictimHasLargestDistance
=============================================================================
