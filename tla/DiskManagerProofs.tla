------------------------- MODULE DiskManagerProofs -------------------------
(***************************************************************************)
(* Proofs about DiskManager, for any paths, page contents, page and file   *)
(* id widths and bounds, while neither counter wraps (NoWrap): the free    *)
(* chain and the pages in use part the pages of a file, a crash takes at   *)
(* most one page out of both, and a file id leads to the file it was got   *)
(* for.                                                                    *)
(***************************************************************************)
EXTENDS DiskManager, FiniteSetTheorems, WellFoundedInduction, TLAPS

\* Fewer files are opened than there are file ids and no file reaches 2^16 pages:
\* beyond that next_file_id_ and num_pages start again from 0.
NoWrap == MaxOpens <= FileIdLimit /\ MaxPages < PageLimit

-----------------------------------------------------------------------------
(* The free chain of one file image r.                                     *)

\* Chain, of a file image
ChainFrom(r) ==
  LET at[i \in 0 .. PageLimit] ==
        IF i = 0 THEN r.first_free
        ELSE IF at[i - 1] = 0 THEN 0 ELSE r.body[at[i - 1]]
  IN  at

FreeIn(r) == {ChainFrom(r)[i] : i \in 0 .. PageLimit} \ {0}

\* s lists the n free pages of r in the order of the chain, and then the 0 that ends it.
ChainOf(r, n, s) ==
  /\ s \in [0 .. n -> PageNo]
  /\ s[0] = r.first_free
  /\ s[n] = 0
  /\ \A i \in 0 .. n - 1 : s[i] \in 1 .. r.size - 1 /\ s[i + 1] = r.body[s[i]]
  /\ \A i, j \in 0 .. n - 1 : s[i] = s[j] => i = j

Chained(r) == \E n \in Nat : \E s \in [0 .. n -> PageNo] : ChainOf(r, n, s)

\* The free pages that s lists
Listed(n, s) == {s[i] : i \in 0 .. n - 1}

\* A chain shows that the file is chained.
LEMMA ChainShows ==
  ASSUME NEW r, NEW n \in Nat, NEW s, ChainOf(r, n, s)
  PROVE  Chained(r)
BY DEF Chained, ChainOf

\* A nonempty set of natural numbers has a least element.
LEMMA LeastNumber ==
  ASSUME NEW T \in SUBSET Nat, T # {}
  PROVE  \E x \in T : \A y \in T : x <= y
<1>1. IsWellFoundedOn(OpToRel(<, Nat), Nat)
  BY NatLessThanWellFounded
<1>2. PICK x \in T : \A y \in T : ~ (<<y, x>> \in OpToRel(<, Nat))
  BY <1>1, WFMin
<1>3. ASSUME NEW y \in T PROVE x <= y
  <2>1. ~ (y < x)
    BY <1>2 DEF OpToRel
  <2> QED BY <2>1
<1> QED BY <1>3

\* What the walk of the free list meets, step by step: the pages that s lists, then 0.
LEMMA WalkFollowsChain ==
  ASSUME NEW r, NEW n \in Nat, NEW s, ChainOf(r, n, s)
  PROVE  \A i \in 0 .. PageLimit : ChainFrom(r)[i] = IF i <= n THEN s[i] ELSE 0
<1> DEFINE Eq(k) == [i \in 0 .. PageLimit |->
                       IF i = 0 THEN r.first_free
                       ELSE IF k[i - 1] = 0 THEN 0 ELSE r.body[k[i - 1]]]
           h == [i \in 0 .. PageLimit |-> IF i <= n THEN s[i] ELSE 0]
           c == CHOOSE k : k = Eq(k)
<1>0. PageLimit \in Nat /\ PageNo = 0 .. PageLimit - 1
  BY DiskAssumption DEF PageNo
<1>1. \A i \in 0 .. PageLimit :
        h[i] = IF i = 0 THEN r.first_free ELSE IF h[i - 1] = 0 THEN 0 ELSE r.body[h[i - 1]]
  <2> SUFFICES ASSUME NEW i \in 0 .. PageLimit
               PROVE  h[i] = IF i = 0 THEN r.first_free
                             ELSE IF h[i - 1] = 0 THEN 0 ELSE r.body[h[i - 1]]
    OBVIOUS
  <2>1. CASE i = 0
    BY <2>1, <1>0 DEF ChainOf
  <2>2. CASE i # 0 /\ i <= n
    <3>1. i - 1 \in 0 .. n - 1 /\ i - 1 \in 0 .. PageLimit /\ (i - 1) + 1 = i
      BY <2>2, <1>0
    <3>2. s[i - 1] \in 1 .. r.size - 1 /\ s[(i - 1) + 1] = r.body[s[i - 1]]
      BY <3>1 DEF ChainOf
    <3>3. h[i - 1] = s[i - 1] /\ h[i] = s[i]
      BY <2>2, <3>1
    <3>4. s[i - 1] # 0
      BY <3>2
    <3> HIDE DEF h
    <3> QED BY <2>2, <3>1, <3>2, <3>3, <3>4
  <2>3. CASE i # 0 /\ i > n
    <3>1. i - 1 \in 0 .. PageLimit /\ h[i] = 0
      BY <2>3, <1>0
    <3>2. h[i - 1] = 0
      BY <2>3, <3>1 DEF ChainOf
    <3> HIDE DEF h
    <3> QED BY <2>3, <3>1, <3>2
  <2> QED BY <2>1, <2>2, <2>3
<1>2. h = Eq(h)
  <2>1. h = [i \in 0 .. PageLimit |-> h[i]]
    OBVIOUS
  <2> HIDE DEF h
  <2> QED BY <1>1, <2>1
<1>3. c = Eq(c)
  <2> HIDE DEF Eq, h
  <2> QED BY <1>2
<1>4. ChainFrom(r) = c
  BY DEF ChainFrom
<1>5. \A i \in 0 .. PageLimit :
        c[i] = IF i = 0 THEN r.first_free ELSE IF c[i - 1] = 0 THEN 0 ELSE r.body[c[i - 1]]
  <2> HIDE DEF c
  <2> QED BY <1>3
<1>6. \A i \in 0 .. PageLimit : c[i] = h[i]
  <2> HIDE DEF c, h
  <2> DEFINE T == {i \in 0 .. PageLimit : c[i] # h[i]}
  <2> SUFFICES ASSUME T # {}
               PROVE  FALSE
    OBVIOUS
  <2>1. PICK i \in T : \A j \in T : i <= j
    <3>1. T \subseteq Nat
      BY <1>0
    <3> HIDE DEF T
    <3> QED BY <3>1, LeastNumber
  <2>2. i \in 0 .. PageLimit /\ c[i] # h[i]
    OBVIOUS
  <2>3. CASE i = 0
    BY <2>2, <2>3, <1>1, <1>5
  <2>4. CASE i # 0
    <3>1. i - 1 \in 0 .. PageLimit /\ i - 1 < i
      BY <2>2, <2>4, <1>0
    <3>2. c[i - 1] = h[i - 1]
      BY <2>1, <3>1
    <3>3. c[i] = IF i = 0 THEN r.first_free ELSE IF c[i - 1] = 0 THEN 0 ELSE r.body[c[i - 1]]
      BY <2>2, <1>5
    <3>4. h[i] = IF i = 0 THEN r.first_free ELSE IF h[i - 1] = 0 THEN 0 ELSE r.body[h[i - 1]]
      BY <2>2, <1>1
    <3> HIDE DEF T
    <3> QED BY <2>2, <2>4, <3>2, <3>3, <3>4
  <2> QED BY <2>3, <2>4
<1>7. \A i \in 0 .. PageLimit : h[i] = IF i <= n THEN s[i] ELSE 0
  OBVIOUS
<1> QED BY <1>4, <1>6, <1>7

\* The free pages of a chained file are those that s lists, and the walk is long
\* enough to reach the end of the chain.
LEMMA ChainMembers ==
  ASSUME NEW r, NEW n \in Nat, NEW s, ChainOf(r, n, s), r.size \in 0 .. PageLimit
  PROVE  /\ ChainFrom(r)[PageLimit] = 0
         /\ FreeIn(r) = Listed(n, s)
<1>0. PageLimit \in Nat /\ r.size \in Nat
  BY DiskAssumption
<1>1. n <= PageLimit
  <2> DEFINE t == [i \in 0 .. n - 1 |-> s[i]]
  <2>1. t \in Injection(0 .. n - 1, 1 .. r.size - 1)
    <3>1. t \in [0 .. n - 1 -> 1 .. r.size - 1]
      BY DEF ChainOf
    <3>2. \A i, j \in 0 .. n - 1 : t[i] = t[j] => i = j
      BY DEF ChainOf
    <3> QED BY <3>1, <3>2 DEF Injection, IsInjective
  <2>2. /\ IsFiniteSet(1 .. r.size - 1)
        /\ Cardinality(1 .. r.size - 1) <= r.size
        /\ Cardinality(1 .. r.size - 1) \in Nat
    <3>1. 1 \in Int /\ r.size - 1 \in Int
      BY <1>0
    <3>2. /\ IsFiniteSet(1 .. r.size - 1)
          /\ Cardinality(1 .. r.size - 1) = IF 1 > r.size - 1 THEN 0 ELSE (r.size - 1) - 1 + 1
      BY <3>1, FS_Interval
    <3> QED BY <3>2, <1>0
  <2>3. Cardinality(0 .. n - 1) = n
    <3>1. 0 \in Int /\ n - 1 \in Int
      OBVIOUS
    <3> QED BY <3>1, FS_Interval
  <2>4. Cardinality(0 .. n - 1) <= Cardinality(1 .. r.size - 1)
    <3> HIDE DEF t
    <3> QED BY <2>1, <2>2, FS_Injection
  <2> QED BY <2>2, <2>3, <2>4, <1>0
<1>2. \A i \in 0 .. PageLimit : ChainFrom(r)[i] = IF i <= n THEN s[i] ELSE 0
  BY WalkFollowsChain
<1>3. s[n] = 0 /\ \A i \in 0 .. n - 1 : s[i] # 0
  BY DEF ChainOf
<1>4. ChainFrom(r)[PageLimit] = 0
  <2>1. PageLimit \in 0 .. PageLimit
    BY <1>0
  <2>2. ChainFrom(r)[PageLimit] = IF PageLimit <= n THEN s[PageLimit] ELSE 0
    BY <2>1, <1>2
  <2>3. PageLimit <= n => PageLimit = n
    BY <1>0, <1>1
  <2> QED BY <2>2, <2>3, <1>3
<1>5. ASSUME NEW p, p \in FreeIn(r) PROVE p \in Listed(n, s)
  <2>1. PICK i \in 0 .. PageLimit : p = ChainFrom(r)[i] /\ p # 0
    BY <1>5 DEF FreeIn
  <2>2. p = IF i <= n THEN s[i] ELSE 0
    BY <2>1, <1>2
  <2>3. i <= n /\ i # n /\ p = s[i]
    BY <2>1, <2>2, <1>3
  <2>4. i \in 0 .. n - 1
    BY <2>3
  <2> QED BY <2>3, <2>4 DEF Listed
<1>6. ASSUME NEW i \in 0 .. n - 1 PROVE s[i] \in FreeIn(r)
  <2>1. i \in 0 .. PageLimit /\ i <= n
    BY <1>0, <1>1
  <2>2. ChainFrom(r)[i] = s[i]
    BY <2>1, <1>2
  <2> QED BY <2>1, <2>2, <1>3 DEF FreeIn
<1> QED BY <1>4, <1>5, <1>6 DEF Listed

\* The chain of a chained file ends and stays on its data pages.
LEMMA ChainEnds ==
  ASSUME NEW r, Chained(r), r.size \in 0 .. PageLimit
  PROVE  ChainFrom(r)[PageLimit] = 0 /\ FreeIn(r) \subseteq 1 .. r.size - 1
<1>1. PICK n \in Nat : \E s \in [0 .. n -> PageNo] : ChainOf(r, n, s)
  BY DEF Chained
<1>2. PICK s \in [0 .. n -> PageNo] : ChainOf(r, n, s)
  BY <1>1
<1>3. ChainFrom(r)[PageLimit] = 0 /\ FreeIn(r) = Listed(n, s)
  BY <1>2, ChainMembers
<1>4. \A i \in 0 .. n - 1 : s[i] \in 1 .. r.size - 1
  BY <1>2 DEF ChainOf
<1> QED BY <1>3, <1>4 DEF Listed

\* A file whose header names no free page has none.
LEMMA ChainEmpty ==
  ASSUME NEW r, r.first_free = 0, r.size \in 0 .. PageLimit
  PROVE  Chained(r) /\ FreeIn(r) = {}
<1> DEFINE s == [i \in 0 .. 0 |-> 0]
<1>0. 0 \in PageNo
  BY DiskAssumption DEF PageNo
<1>1. ChainOf(r, 0, s)
  BY <1>0 DEF ChainOf
<1>2. s \in [0 .. 0 -> PageNo]
  BY <1>0
<1> HIDE DEF s
<1>3. FreeIn(r) = Listed(0, s)
  BY <1>1, ChainMembers
<1>4. Chained(r)
  BY <1>1, ChainShows
<1> QED BY <1>3, <1>4 DEF Listed

\* Writing pages that are not free, and growing the file, leaves the chain alone.
LEMMA ChainKept ==
  ASSUME NEW r, NEW q, Chained(r), r.size \in 0 .. PageLimit, q.size \in 0 .. PageLimit,
         r.size <= q.size, q.first_free = r.first_free,
         \A p \in FreeIn(r) : q.body[p] = r.body[p]
  PROVE  Chained(q) /\ FreeIn(q) = FreeIn(r)
<1>1. PICK n \in Nat : \E s \in [0 .. n -> PageNo] : ChainOf(r, n, s)
  BY DEF Chained
<1>2. PICK s \in [0 .. n -> PageNo] : ChainOf(r, n, s)
  BY <1>1
<1>3. FreeIn(r) = Listed(n, s)
  BY <1>2, ChainMembers
<1>4. ChainOf(q, n, s)
  <2>1. ASSUME NEW i \in 0 .. n - 1
        PROVE  s[i] \in 1 .. q.size - 1 /\ s[i + 1] = q.body[s[i]]
    <3>1. s[i] \in 1 .. r.size - 1 /\ s[i + 1] = r.body[s[i]]
      BY <1>2 DEF ChainOf
    <3>2. q.body[s[i]] = r.body[s[i]]
      BY <1>3 DEF Listed
    <3>3. s[i] \in 1 .. q.size - 1
      BY <3>1, DiskAssumption
    <3> QED BY <3>1, <3>2, <3>3
  <2> QED BY <1>2, <2>1 DEF ChainOf
<1>5. FreeIn(q) = Listed(n, s)
  BY <1>4, ChainMembers
<1> QED BY <1>3, <1>4, <1>5 DEF Chained

\* AllocatePage takes the first page off the chain.
LEMMA ChainPop ==
  ASSUME NEW r, NEW q, Chained(r), r.size \in 0 .. PageLimit, r.first_free # 0,
         q.size = r.size, q.body = r.body, q.first_free = r.body[r.first_free]
  PROVE  /\ Chained(q)
         /\ r.first_free \in FreeIn(r)
         /\ FreeIn(q) = FreeIn(r) \ {r.first_free}
<1>1. PICK n \in Nat : \E s \in [0 .. n -> PageNo] : ChainOf(r, n, s)
  BY DEF Chained
<1>2. PICK s \in [0 .. n -> PageNo] : ChainOf(r, n, s)
  BY <1>1
<1>3. FreeIn(r) = Listed(n, s)
  BY <1>2, ChainMembers
<1>4. n # 0 /\ n - 1 \in Nat /\ 0 \in 0 .. n - 1 /\ s[0] = r.first_free
  BY <1>2 DEF ChainOf
<1> DEFINE m == n - 1
           t == [i \in 0 .. m |-> s[i + 1]]
<1>5. ChainOf(q, m, t)
  <2>1. t \in [0 .. m -> PageNo]
    BY <1>4
  <2>2. t[0] = q.first_free
    <3>1. s[0 + 1] = r.body[s[0]]
      BY <1>2, <1>4 DEF ChainOf
    <3> QED BY <3>1, <1>4
  <2>3. t[m] = 0
    <3>1. m + 1 = n /\ m \in 0 .. m
      BY <1>4
    <3> QED BY <3>1, <1>2 DEF ChainOf
  <2>4. ASSUME NEW i \in 0 .. m - 1
        PROVE  t[i] \in 1 .. q.size - 1 /\ t[i + 1] = q.body[t[i]]
    <3>1. i + 1 \in 0 .. n - 1 /\ i \in 0 .. m /\ i + 1 \in 0 .. m
      BY <1>4
    <3>2. s[i + 1] \in 1 .. r.size - 1 /\ s[(i + 1) + 1] = r.body[s[i + 1]]
      BY <3>1, <1>2 DEF ChainOf
    <3> QED BY <3>1, <3>2
  <2>5. ASSUME NEW i \in 0 .. m - 1, NEW j \in 0 .. m - 1, t[i] = t[j]
        PROVE  i = j
    <3>1. i + 1 \in 0 .. n - 1 /\ j + 1 \in 0 .. n - 1 /\ i \in 0 .. m /\ j \in 0 .. m
      BY <1>4
    <3>2. s[i + 1] = s[j + 1]
      BY <2>5, <3>1
    <3>3. i + 1 = j + 1
      BY <3>1, <3>2, <1>2 DEF ChainOf
    <3> QED BY <3>3
  <2> HIDE DEF t, m
  <2> QED BY <2>1, <2>2, <2>3, <2>4, <2>5 DEF ChainOf
<1>6. FreeIn(q) = Listed(m, t)
  <2> HIDE DEF t
  <2> QED BY <1>4, <1>5, ChainMembers
<1>7. Chained(q)
  <2>1. t \in [0 .. m -> PageNo] /\ m \in Nat
    BY <1>4
  <2> HIDE DEF t, m
  <2> QED BY <2>1, <1>5 DEF Chained
<1>8. ASSUME NEW p PROVE p \in FreeIn(q) <=> p \in FreeIn(r) \ {r.first_free}
  <2>1. ASSUME p \in FreeIn(q) PROVE p \in FreeIn(r) \ {r.first_free}
    <3>1. PICK i \in 0 .. m - 1 : p = t[i]
      BY <1>6, <2>1 DEF Listed
    <3>2. i + 1 \in 0 .. n - 1 /\ i \in 0 .. m
      BY <1>4
    <3>3. p = s[i + 1]
      BY <3>1, <3>2
    <3>4. s[i + 1] # s[0]
      BY <3>2, <1>4, <1>2 DEF ChainOf
    <3> QED BY <3>2, <3>3, <3>4, <1>3, <1>4 DEF Listed
  <2>2. ASSUME p \in FreeIn(r) \ {r.first_free} PROVE p \in FreeIn(q)
    <3>1. PICK i \in 0 .. n - 1 : p = s[i]
      BY <1>3, <2>2 DEF Listed
    <3>2. i # 0
      BY <3>1, <2>2, <1>4
    <3>3. i - 1 \in 0 .. m - 1 /\ i - 1 \in 0 .. m /\ (i - 1) + 1 = i
      BY <3>2, <1>4
    <3>4. t[i - 1] = p
      BY <3>1, <3>3
    <3> QED BY <3>3, <3>4, <1>6 DEF Listed
  <2> QED BY <2>1, <2>2
<1> QED BY <1>3, <1>4, <1>7, <1>8 DEF Listed

\* DeallocatePage puts a page in front of the chain.
LEMMA ChainPush ==
  ASSUME NEW r, NEW q, NEW p, Chained(r), r.size \in 0 .. PageLimit,
         p \in PageNo, p \in 1 .. r.size - 1, p \notin FreeIn(r), r.body[p] = r.first_free,
         q.size = r.size, q.body = r.body, q.first_free = p
  PROVE  Chained(q) /\ FreeIn(q) = FreeIn(r) \cup {p}
<1>1. PICK n \in Nat : \E s \in [0 .. n -> PageNo] : ChainOf(r, n, s)
  BY DEF Chained
<1>2. PICK s \in [0 .. n -> PageNo] : ChainOf(r, n, s)
  BY <1>1
<1>3. FreeIn(r) = Listed(n, s)
  BY <1>2, ChainMembers
<1> DEFINE m == n + 1
           t == [i \in 0 .. m |-> IF i = 0 THEN p ELSE s[i - 1]]
<1>4. m \in Nat /\ 0 \in 0 .. m /\ 0 \in 0 .. m - 1
  OBVIOUS
<1>5. \A i \in 0 .. n : i + 1 \in 0 .. m /\ t[i + 1] = s[i]
  OBVIOUS
<1>6. t[0] = p
  BY <1>4
<1>7. ChainOf(q, m, t)
  <2>1. t \in [0 .. m -> PageNo]
    <3>1. ASSUME NEW i \in 0 .. m PROVE (IF i = 0 THEN p ELSE s[i - 1]) \in PageNo
      <4>1. i # 0 => i - 1 \in 0 .. n
        OBVIOUS
      <4> QED BY <4>1
    <3> QED BY <3>1
  <2> HIDE DEF t
  <2>2. t[m] = 0
    <3>1. n \in 0 .. n
      OBVIOUS
    <3> QED BY <3>1, <1>5, <1>2 DEF ChainOf
  <2>3. ASSUME NEW i \in 0 .. m - 1
        PROVE  t[i] \in 1 .. q.size - 1 /\ t[i + 1] = q.body[t[i]]
    <3>1. CASE i = 0
      <4>1. 0 \in 0 .. n /\ t[0 + 1] = s[0]
        BY <1>5
      <4>2. s[0] = r.first_free
        BY <1>2 DEF ChainOf
      <4> QED BY <3>1, <4>1, <4>2, <1>6
    <3>2. CASE i # 0
      <4>1. i - 1 \in 0 .. n - 1 /\ i - 1 \in 0 .. n /\ i \in 0 .. n /\ (i - 1) + 1 = i
        BY <3>2
      <4>2. t[i] = s[i - 1] /\ t[i + 1] = s[i]
        BY <4>1, <1>5
      <4>3. s[i - 1] \in 1 .. r.size - 1 /\ s[(i - 1) + 1] = r.body[s[i - 1]]
        BY <4>1, <1>2 DEF ChainOf
      <4> QED BY <4>1, <4>2, <4>3
    <3> QED BY <3>1, <3>2
  <2>4. ASSUME NEW i \in 0 .. m - 1, NEW j \in 0 .. m - 1, t[i] = t[j]
        PROVE  i = j
    <3>1. \A k \in 0 .. m - 1 : k # 0 => k - 1 \in 0 .. n - 1 /\ t[k] = s[k - 1]
      <4> SUFFICES ASSUME NEW k \in 0 .. m - 1, k # 0
                   PROVE  k - 1 \in 0 .. n - 1 /\ t[k] = s[k - 1]
        OBVIOUS
      <4>1. k - 1 \in 0 .. n - 1 /\ k - 1 \in 0 .. n /\ (k - 1) + 1 = k
        OBVIOUS
      <4> QED BY <4>1, <1>5
    <3>2. \A k \in 0 .. m - 1 : k # 0 => t[k] # p
      BY <3>1, <1>3 DEF Listed
    <3>3. CASE i = 0 \/ j = 0
      BY <3>2, <3>3, <2>4, <1>6
    <3>4. CASE i # 0 /\ j # 0
      <4>1. i - 1 \in 0 .. n - 1 /\ j - 1 \in 0 .. n - 1 /\ s[i - 1] = s[j - 1]
        BY <3>1, <3>4, <2>4
      <4>2. i - 1 = j - 1
        BY <4>1, <1>2 DEF ChainOf
      <4> QED BY <4>2
    <3> QED BY <3>3, <3>4
  <2> HIDE DEF m
  <2> QED BY <2>1, <2>2, <2>3, <2>4, <1>6 DEF ChainOf
<1>8. t \in [0 .. m -> PageNo]
  BY <1>7 DEF ChainOf
<1> HIDE DEF t
<1>9. FreeIn(q) = Listed(m, t)
  <2> HIDE DEF m
  <2> QED BY <1>4, <1>7, ChainMembers
<1>10. ASSUME NEW k PROVE k \in FreeIn(q) <=> k \in FreeIn(r) \cup {p}
  <2>1. ASSUME k \in FreeIn(q) PROVE k \in FreeIn(r) \cup {p}
    <3>1. PICK i \in 0 .. m - 1 : k = t[i]
      BY <1>9, <2>1 DEF Listed
    <3>2. CASE i = 0
      BY <3>1, <3>2, <1>6
    <3>3. CASE i # 0
      <4>1. i - 1 \in 0 .. n - 1 /\ i - 1 \in 0 .. n /\ (i - 1) + 1 = i
        BY <3>3
      <4>2. t[i] = s[i - 1]
        BY <4>1, <1>5
      <4> QED BY <3>1, <4>1, <4>2, <1>3 DEF Listed
    <3> QED BY <3>2, <3>3
  <2>2. ASSUME k \in FreeIn(r) PROVE k \in FreeIn(q)
    <3>1. PICK i \in 0 .. n - 1 : k = s[i]
      BY <1>3, <2>2 DEF Listed
    <3>2. i \in 0 .. n /\ i + 1 \in 0 .. m - 1
      OBVIOUS
    <3>3. t[i + 1] = k
      BY <3>1, <3>2, <1>5
    <3> QED BY <3>2, <3>3, <1>9 DEF Listed
  <2>3. p \in FreeIn(q)
    BY <1>4, <1>6, <1>9 DEF Listed
  <2> QED BY <2>1, <2>2, <2>3
<1>11. Chained(q)
  <2> HIDE DEF m
  <2> QED BY <1>4, <1>7, <1>8 DEF Chained
<1> QED BY <1>10, <1>11

-----------------------------------------------------------------------------
(* The inductive invariant.                                                *)

\* The call that holds mutex_ is at the step named call, on path x.
Doing(call, x) == op.call = call /\ op.path = x

\* Every handle is the id of the open file it was got for, a path is open once,
\* an open file exists, and the next file id is not in use.
HandleInv ==
  /\ handles = {<<i, files[i].path>> : i \in DOMAIN files}
  /\ \A i, j \in DOMAIN files : files[i].path = files[j].path => i = j
  /\ \A i \in DOMAIN files : disk[files[i].path] # NoFile
  /\ opens < MaxOpens => /\ next_file_id <= opens
                         /\ \A i \in DOMAIN files : i < next_file_id

\* The call that holds mutex_ works for the path it works on, which exists, and is
\* not open while it is being created; a path without a file owns no page.
CallInv ==
  /\ op # Idle => disk[op.path] # NoFile
  /\ op.call \in {"extend", "return"} => op.for = op.path
  /\ op.call = "create" => opens < MaxOpens /\ \A i \in DOMAIN files : files[i].path # op.path
  /\ \A x \in Paths : disk[x] = NoFile => DOMAIN owned[x] = {}

\* What holds of a file that was created whole.
FileSound(x) ==
  /\ disk[x].size <= MaxPages
  /\ disk[x].size = 0 <=> Doing("create", x)
  /\ Chained(disk[x])
  /\ \A p \in DOMAIN owned[x] : /\ p \in 1 .. disk[x].size - 1
                                /\ disk[x].body[p] = owned[x][p]
                                /\ p \notin FreeIn(disk[x])
  /\ Doing("return", x) \/ Doing("header", x)
       => /\ op.page \in 1 .. disk[x].size - 1
          /\ op.page \notin DOMAIN owned[x]
          /\ op.page \notin FreeIn(disk[x])
  /\ Doing("header", x) => disk[x].body[op.page] = disk[x].first_free
  /\ Doing("extend", x) => op.page = disk[x].size /\ disk[x].size < MaxPages
  /\ \A i \in DOMAIN files : files[i].path = x =>
       files[i].num_pages = IF Doing("extend", x) THEN disk[x].size + 1 ELSE disk[x].size

DiskInv == TypeOK /\ HandleInv /\ CallInv /\ \A x \in Whole : FileSound(x)

-----------------------------------------------------------------------------
(* The writes, by what they change of one file.                            *)

Disks == [Paths -> DbFile \cup {NoFile}]

\* Of the disk d only the file y is changed, into one of that size, first free page
\* and contents.
Becomes(d, e, y, size, first_free, body) ==
  /\ e \in Disks
  /\ e[y] \in DbFile
  /\ e[y].size = size
  /\ e[y].first_free = first_free
  /\ e[y].body = body
  /\ \A x \in Paths \ {y} : e[x] = d[x]

\* A file image is not NoFile.
LEMMA ImageExists ==
  /\ \A r \in DbFile : r # NoFile
  /\ NoFile \notin DbFile
<1>1. \A r \in DbFile : r.size \in 0 .. PageLimit
  BY DEF DbFile
<1>2. NoFile.size = -1 /\ -1 \notin 0 .. PageLimit
  BY DEF NoFile
<1> QED BY <1>1, <1>2

\* The fields of a file image.
LEMMA ImageFields ==
  ASSUME NEW r \in DbFile
  PROVE  /\ r.size \in 0 .. PageLimit /\ r.size \in Nat
         /\ r.first_free \in PageNo /\ r.first_free \in Nat
         /\ r.body \in [PageNo -> PageNo]
         /\ PageLimit \in Nat
BY DiskAssumption DEF DbFile, PageNo

\* A page is written, and the file grows to hold it.
LEMMA PageWritten ==
  ASSUME NEW d \in Disks, NEW y \in Paths, d[y] \in DbFile, NEW p \in PageNo, NEW v \in PageNo,
         NEW e, e = [d EXCEPT ![y].body[p] = v,
                              ![y].first_free = IF p = 0 THEN v ELSE @,
                              ![y].size = IF @ > p THEN @ ELSE p + 1]
  PROVE  Becomes(d, e, y, IF d[y].size > p THEN d[y].size ELSE p + 1,
                 IF p = 0 THEN v ELSE d[y].first_free, [d[y].body EXCEPT ![p] = v])
<1>0. p \in Nat /\ p + 1 \in 0 .. PageLimit /\ PageLimit \in Nat
  BY DiskAssumption DEF PageNo
<1> DEFINE r == d[y]
           q == [size |-> IF r.size > p THEN r.size ELSE p + 1,
                 first_free |-> IF p = 0 THEN v ELSE r.first_free,
                 body |-> [r.body EXCEPT ![p] = v]]
<1>1. q \in DbFile
  <2>1. [r.body EXCEPT ![p] = v] \in [PageNo -> PageNo]
    BY ImageFields
  <2>2. (IF r.size > p THEN r.size ELSE p + 1) \in 0 .. PageLimit
    BY ImageFields, <1>0
  <2>3. (IF p = 0 THEN v ELSE r.first_free) \in PageNo
    BY ImageFields
  <2> QED BY <2>1, <2>2, <2>3 DEF DbFile
<1>2. e = [d EXCEPT ![y] = q]
  <2>0. ASSUME NEW a, NEW b
        PROVE  [size |-> a, first_free |-> b, body |-> [r.body EXCEPT ![p] = v]]
                 = [r EXCEPT !.body[p] = v, !.first_free = b, !.size = a]
    <3>1. [r EXCEPT !.body[p] = v]
            = [size |-> r.size, first_free |-> r.first_free, body |-> [r.body EXCEPT ![p] = v]]
      BY DEF DbFile
    <3>2. ASSUME NEW z, NEW f, NEW g, NEW k, z = [size |-> f, first_free |-> g, body |-> k]
          PROVE  /\ [z EXCEPT !.first_free = b] = [size |-> f, first_free |-> b, body |-> k]
                 /\ [z EXCEPT !.size = a] = [size |-> a, first_free |-> g, body |-> k]
      BY <3>2
    <3>3. [[[r EXCEPT !.body[p] = v] EXCEPT !.first_free = b] EXCEPT !.size = a]
            = [size |-> a, first_free |-> b, body |-> [r.body EXCEPT ![p] = v]]
      <4> DEFINE z == [r EXCEPT !.body[p] = v]
                 k == [r.body EXCEPT ![p] = v]
                 w == [z EXCEPT !.first_free = b]
      <4>1. z = [size |-> r.size, first_free |-> r.first_free, body |-> k]
        BY <3>1
      <4> HIDE DEF z, k
      <4>2. w = [size |-> r.size, first_free |-> b, body |-> k]
        BY <4>1, <3>2
      <4> HIDE DEF w
      <4>3. [w EXCEPT !.size = a] = [size |-> a, first_free |-> b, body |-> k]
        BY <4>2, <3>2
      <4> QED BY <4>3 DEF z, k, w
    <3>4. [[[r EXCEPT !.body[p] = v] EXCEPT !.first_free = b] EXCEPT !.size = a]
            = [r EXCEPT !.body[p] = v, !.first_free = b, !.size = a]
      OBVIOUS
    <3> QED BY <3>3, <3>4
  <2>1. q = [r EXCEPT !.body[p] = v, !.first_free = IF p = 0 THEN v ELSE r.first_free,
                      !.size = IF r.size > p THEN r.size ELSE p + 1]
    BY <2>0
  <2>2. e = [d EXCEPT ![y] = [r EXCEPT !.body[p] = v, !.first_free = IF p = 0 THEN v ELSE @,
                    !.size = IF @ > p THEN @ ELSE p + 1]]
    BY DEF Disks
  <2> QED BY <2>1, <2>2
<1> HIDE DEF q
<1>3. e \in Disks /\ e[y] = q /\ \A x \in Paths \ {y} : e[x] = d[x]
  BY <1>1, <1>2 DEF Disks
<1>4. /\ q.size = IF r.size > p THEN r.size ELSE p + 1
      /\ q.first_free = IF p = 0 THEN v ELSE r.first_free
      /\ q.body = [r.body EXCEPT ![p] = v]
  BY DEF q
<1> QED BY <1>1, <1>3, <1>4 DEF Becomes

\* The bytes of a page that the file has are replaced.
LEMMA BytesWritten ==
  ASSUME NEW d \in Disks, NEW y \in Paths, d[y] \in DbFile, NEW p \in PageNo, NEW v \in PageNo,
         NEW e, e = [d EXCEPT ![y].body[p] = v]
  PROVE  Becomes(d, e, y, d[y].size, d[y].first_free, [d[y].body EXCEPT ![p] = v])
<1> DEFINE r == d[y]
           q == [size |-> r.size, first_free |-> r.first_free, body |-> [r.body EXCEPT ![p] = v]]
<1>1. q \in DbFile
  <2>1. [r.body EXCEPT ![p] = v] \in [PageNo -> PageNo]
    BY ImageFields
  <2> QED BY <2>1, ImageFields DEF DbFile
<1>2. e = [d EXCEPT ![y] = q]
  <2>1. q = [r EXCEPT !.body[p] = v]
    BY DEF DbFile
  <2>2. e = [d EXCEPT ![y] = [r EXCEPT !.body[p] = v]]
    BY DEF Disks
  <2> QED BY <2>1, <2>2
<1> HIDE DEF q
<1>3. e \in Disks /\ e[y] = q /\ \A x \in Paths \ {y} : e[x] = d[x]
  BY <1>1, <1>2 DEF Disks
<1>4. q.size = r.size /\ q.first_free = r.first_free /\ q.body = [r.body EXCEPT ![p] = v]
  BY DEF q
<1> QED BY <1>1, <1>3, <1>4 DEF Becomes

\* The first free page of the header is replaced.
LEMMA FirstFreeWritten ==
  ASSUME NEW d \in Disks, NEW y \in Paths, d[y] \in DbFile, NEW v \in PageNo,
         NEW e, e = [d EXCEPT ![y].first_free = v]
  PROVE  Becomes(d, e, y, d[y].size, v, d[y].body)
<1> DEFINE r == d[y]
           q == [size |-> r.size, first_free |-> v, body |-> r.body]
<1>1. q \in DbFile
  BY ImageFields DEF DbFile
<1>2. e = [d EXCEPT ![y] = q]
  <2>1. q = [r EXCEPT !.first_free = v]
    BY DEF DbFile
  <2>2. e = [d EXCEPT ![y] = [r EXCEPT !.first_free = v]]
    BY DEF Disks
  <2> QED BY <2>1, <2>2
<1> HIDE DEF q
<1>3. e \in Disks /\ e[y] = q /\ \A x \in Paths \ {y} : e[x] = d[x]
  BY <1>1, <1>2 DEF Disks
<1>4. q.size = r.size /\ q.first_free = v /\ q.body = r.body
  BY DEF q
<1> QED BY <1>1, <1>3, <1>4 DEF Becomes

\* The header of an empty file is written.
LEMMA HeaderWritten ==
  ASSUME NEW d \in Disks, NEW y \in Paths, d[y] \in DbFile,
         NEW e, e = [d EXCEPT ![y].size = 1]
  PROVE  Becomes(d, e, y, 1, d[y].first_free, d[y].body)
<1> DEFINE r == d[y]
           q == [size |-> 1, first_free |-> r.first_free, body |-> r.body]
<1>1. q \in DbFile
  BY ImageFields, DiskAssumption DEF DbFile
<1>2. e = [d EXCEPT ![y] = q]
  <2>1. q = [r EXCEPT !.size = 1]
    BY DEF DbFile
  <2>2. e = [d EXCEPT ![y] = [r EXCEPT !.size = 1]]
    BY DEF Disks
  <2> QED BY <2>1, <2>2
<1> HIDE DEF q
<1>3. e \in Disks /\ e[y] = q /\ \A x \in Paths \ {y} : e[x] = d[x]
  BY <1>1, <1>2 DEF Disks
<1>4. q.size = 1 /\ q.first_free = r.first_free /\ q.body = r.body
  BY DEF q
<1> QED BY <1>1, <1>3, <1>4 DEF Becomes

-----------------------------------------------------------------------------
(* What each call writes.                                                  *)

\* The step of the call that holds mutex_, if there is one.
LEMMA OpFields ==
  ASSUME TypeOK
  PROVE  /\ op.call = "none" <=> op = Idle
         /\ op # Idle => op.path \in Paths /\ op.page \in PageNo
         /\ op # Idle => op.call \in {"create", "header", "extend", "return"}
         /\ op.call \in {"extend", "return"}
              => op \in [call : {"extend", "return"}, path : Paths, page : PageNo, for : Paths]
BY DEF TypeOK, Idle

\* The parts of the type invariant, one by one.
LEMMA Parts ==
  ASSUME TypeOK
  PROVE  /\ disk \in Disks
         /\ \A x \in Paths : disk[x] # NoFile => disk[x] \in DbFile
         /\ \A i \in DOMAIN files : i \in FileId /\ files[i].path \in Paths /\ files[i].num_pages \in PageNo
         /\ \A x \in Paths : DOMAIN owned[x] \subseteq PageNo /\ owned[x] \in [DOMAIN owned[x] -> PageNo]
BY DEF TypeOK, Disks, FileEntry

\* A handle of the table layer leads to its own file, which exists.
LEMMA HandleFacts ==
  ASSUME TypeOK, HandleInv, NEW h \in handles
  PROVE  /\ h[1] \in DOMAIN files /\ h[1] \in FileId
         /\ h[2] = files[h[1]].path
         /\ h = <<h[1], h[2]>>
         /\ h[2] \in Paths /\ disk[h[2]] # NoFile /\ disk[h[2]] \in DbFile
         /\ files[h[1]].num_pages \in PageNo
         /\ Image(h) = disk[h[2]]
<1>1. PICK i \in DOMAIN files : h = <<i, files[i].path>>
  BY DEF HandleInv
<1>2. h[1] = i /\ h[2] = files[i].path
  BY <1>1
<1>3. disk[files[i].path] # NoFile
  BY DEF HandleInv
<1> QED BY <1>1, <1>2, <1>3, Parts DEF Image

\* CreateFile makes an empty file.
LEMMA CreateFileWrites ==
  ASSUME TypeOK, NEW y \in Paths, CreateFile(y)
  PROVE  Becomes(disk, disk', y, 0, 0, [p \in PageNo |-> 0])
<1> DEFINE q == [size |-> 0, first_free |-> 0, body |-> [p \in PageNo |-> 0]]
<1>1. q \in DbFile
  <2>1. 0 \in PageNo /\ 0 \in 0 .. PageLimit
    BY DiskAssumption DEF PageNo
  <2>2. [p \in PageNo |-> 0] \in [PageNo -> PageNo]
    BY <2>1
  <2> QED BY <2>1, <2>2 DEF DbFile
<1>2. q.size = 0 /\ q.first_free = 0 /\ q.body = [p \in PageNo |-> 0]
  OBVIOUS
<1>3. disk' = [disk EXCEPT ![y] = q]
  BY DEF CreateFile
<1> HIDE DEF q
<1>4. disk' \in Disks /\ disk'[y] = q /\ \A x \in Paths \ {y} : disk'[x] = disk[x]
  BY <1>1, <1>3, Parts DEF Disks
<1> QED BY <1>1, <1>2, <1>4 DEF Becomes

\* The second write of CreateFile is the header.
LEMMA CreateHeaderWrites ==
  ASSUME TypeOK, CallInv, CreateHeader
  PROVE  /\ op.path \in Paths /\ op # Idle /\ disk[op.path] \in DbFile
         /\ Becomes(disk, disk', op.path, 1, disk[op.path].first_free, disk[op.path].body)
<1>1. op # Idle /\ op.path \in Paths
  BY OpFields DEF CreateHeader, Idle
<1>2. disk[op.path] \in DbFile
  BY <1>1, Parts DEF CallInv
<1>3. disk' = [disk EXCEPT ![op.path].size = 1]
  BY DEF CreateHeader
<1> QED BY <1>1, <1>2, <1>3, Parts, HeaderWritten

\* WritePage writes a page.
LEMMA WritePageWrites ==
  ASSUME TypeOK, HandleInv, NEW h \in handles, NEW p \in PageNo, NEW v \in Bytes, WritePage(h, p, v)
  PROVE  Becomes(disk, disk', h[2], IF disk[h[2]].size > p THEN disk[h[2]].size ELSE p + 1,
                 IF p = 0 THEN v ELSE disk[h[2]].first_free, [disk[h[2]].body EXCEPT ![p] = v])
<1>1. v \in PageNo
  BY DiskAssumption DEF PageNo
<1>2. disk' = [disk EXCEPT ![h[2]].body[p] = v,
                           ![h[2]].first_free = IF p = 0 THEN v ELSE @,
                           ![h[2]].size = IF @ > p THEN @ ELSE p + 1]
  BY HandleFacts DEF WritePage
<1>3. h[2] \in Paths /\ disk[h[2]] \in DbFile /\ disk \in Disks
  BY HandleFacts, Parts
<1> QED BY <1>1, <1>2, <1>3, PageWritten

\* AllocatePage with a free page writes the header.
LEMMA AllocateReuseWrites ==
  ASSUME TypeOK, HandleInv, NEW h \in handles, AllocateReuse(h)
  PROVE  Becomes(disk, disk', h[2], disk[h[2]].size, disk[h[2]].body[disk[h[2]].first_free], disk[h[2]].body)
<1>1. h[2] \in Paths /\ disk[h[2]] \in DbFile /\ disk \in Disks
  BY HandleFacts, Parts
<1> DEFINE v == disk[h[2]].body[disk[h[2]].first_free]
<1>2. v \in PageNo
  BY <1>1, ImageFields
<1>3. disk' = [disk EXCEPT ![h[2]].first_free = v]
  BY HandleFacts DEF AllocateReuse
<1> HIDE DEF v
<1>4. Becomes(disk, disk', h[2], disk[h[2]].size, v, disk[h[2]].body)
  BY <1>1, <1>2, <1>3, FirstFreeWritten
<1> QED BY <1>4 DEF v

\* AllocatePage without one writes a zeroed page.
LEMMA AllocateExtendWrites ==
  ASSUME TypeOK, CallInv, AllocateExtend
  PROVE  /\ op.path \in Paths /\ op # Idle /\ disk[op.path] \in DbFile /\ op.page \in PageNo
         /\ Becomes(disk, disk', op.path,
                    IF disk[op.path].size > op.page THEN disk[op.path].size ELSE op.page + 1,
                    IF op.page = 0 THEN 0 ELSE disk[op.path].first_free,
                    [disk[op.path].body EXCEPT ![op.page] = 0])
<1>1. op # Idle /\ op.path \in Paths /\ op.page \in PageNo
  BY OpFields DEF AllocateExtend, Idle
<1>2. disk[op.path] \in DbFile /\ disk \in Disks
  BY <1>1, Parts DEF CallInv
<1>3. 0 \in PageNo
  BY DiskAssumption DEF PageNo
<1>4. disk' = [disk EXCEPT ![op.path].body[op.page] = 0,
                           ![op.path].first_free = IF op.page = 0 THEN 0 ELSE @,
                           ![op.path].size = IF @ > op.page THEN @ ELSE op.page + 1]
  BY DEF AllocateExtend
<1> QED BY <1>1, <1>2, <1>3, <1>4, PageWritten

\* DeallocatePage writes the link into the page, ...
LEMMA DeallocatePageWrites ==
  ASSUME TypeOK, HandleInv, NEW h \in handles, NEW p \in PageNo, DeallocatePage(h, p)
  PROVE  Becomes(disk, disk', h[2], disk[h[2]].size, disk[h[2]].first_free,
                 [disk[h[2]].body EXCEPT ![p] = disk[h[2]].first_free])
<1>1. h[2] \in Paths /\ disk[h[2]] \in DbFile /\ disk \in Disks
  BY HandleFacts, Parts
<1> DEFINE v == disk[h[2]].first_free
<1>2. v \in PageNo
  BY <1>1, ImageFields
<1>3. disk' = [disk EXCEPT ![h[2]].body[p] = v]
  BY HandleFacts DEF DeallocatePage
<1>4. Becomes(disk, disk', h[2], disk[h[2]].size, disk[h[2]].first_free, [disk[h[2]].body EXCEPT ![p] = v])
  <2> HIDE DEF v
  <2> QED BY <1>1, <1>2, <1>3, BytesWritten
<1> QED BY <1>4

\* ... then the page into the header.
LEMMA DeallocateHeaderWrites ==
  ASSUME TypeOK, CallInv, DeallocateHeader
  PROVE  /\ op.path \in Paths /\ op # Idle /\ disk[op.path] \in DbFile /\ op.page \in PageNo
         /\ Becomes(disk, disk', op.path, disk[op.path].size, op.page, disk[op.path].body)
<1>1. op # Idle /\ op.path \in Paths /\ op.page \in PageNo
  BY OpFields DEF DeallocateHeader, Idle
<1>2. disk[op.path] \in DbFile /\ disk \in Disks
  BY <1>1, Parts DEF CallInv
<1>3. disk' = [disk EXCEPT ![op.path].first_free = op.page]
  BY DEF DeallocateHeader
<1> QED BY <1>1, <1>2, <1>3, FirstFreeWritten

-----------------------------------------------------------------------------
(* Types, handles and the call in progress.                                *)

\* Opening a file keeps the table of open files typed.
LEMMA RegisterTypes ==
  ASSUME TypeOK, NEW y \in Paths, NEW n \in PageNo, Register(y, n)
  PROVE  /\ DOMAIN files' \subseteq FileId /\ \A i \in DOMAIN files' : files'[i] \in FileEntry
         /\ next_file_id' \in FileId
         /\ handles' \subseteq FileId \X Paths
         /\ opens' \in 0 .. MaxOpens
<1>1. next_file_id \in FileId /\ [path |-> y, num_pages |-> n] \in FileEntry
  BY DEF TypeOK, FileEntry
<1>2. DOMAIN files' = DOMAIN files \cup {next_file_id}
  BY DEF Register, With
<1>3. \A i \in DOMAIN files' : files'[i] = IF i = next_file_id THEN [path |-> y, num_pages |-> n] ELSE files[i]
  BY DEF Register, With
<1>4. next_file_id' \in FileId
  <2>1. next_file_id \in Nat /\ FileIdLimit \in Nat \ {0}
    BY <1>1, DiskAssumption DEF FileId
  <2>2. (next_file_id + 1) % FileIdLimit \in 0 .. FileIdLimit - 1
    BY <2>1
  <2> QED BY <2>2 DEF Register, FileId
<1>5. opens' \in 0 .. MaxOpens
  BY DiskAssumption DEF Register, TypeOK
<1>6. handles' \subseteq FileId \X Paths
  BY <1>1 DEF Register, TypeOK
<1>7. \A i \in DOMAIN files' : i \in FileId /\ files'[i] \in FileEntry
  BY <1>1, <1>2, <1>3 DEF TypeOK
<1> QED BY <1>4, <1>5, <1>6, <1>7

\* Every step keeps the types.
LEMMA TypesKept ==
  ASSUME DiskInv, [Next]_vars
  PROVE  TypeOK'
<1> USE DEF DiskInv
<1>0. 0 \in PageNo /\ PageLimit \in Nat \ {0, 1}
  BY DiskAssumption DEF PageNo
<1>1. ASSUME NEW y \in Paths, CreateFile(y) PROVE TypeOK'
  <2>1. disk' \in Disks
    BY <1>1, CreateFileWrites DEF Becomes
  <2>2. op' \in [call : {"create", "header"}, path : Paths, page : PageNo]
    BY <1>0, <1>1 DEF CreateFile
  <2> QED BY <1>1, <2>1, <2>2 DEF CreateFile, TypeOK, Disks
<1>2. ASSUME NEW y \in Paths, CreateFileExists(y) PROVE TypeOK'
  BY <1>2 DEF CreateFileExists, TypeOK
<1>3. CASE CreateHeader
  <2>1. disk' \in Disks /\ op.path \in Paths
    BY <1>3, CreateHeaderWrites DEF Becomes
  <2>2. 1 \in PageNo /\ Register(op.path, 1)
    BY <1>3, <1>0 DEF CreateHeader, PageNo
  <2>3. /\ DOMAIN files' \subseteq FileId /\ \A i \in DOMAIN files' : files'[i] \in FileEntry
        /\ next_file_id' \in FileId
        /\ handles' \subseteq FileId \X Paths
        /\ opens' \in 0 .. MaxOpens
    BY <2>1, <2>2, RegisterTypes
  <2> QED BY <1>3, <2>1, <2>3 DEF CreateHeader, TypeOK, Disks
<1>4. ASSUME NEW y \in Paths, OpenFile(y) PROVE TypeOK'
  <2>1. disk[y] \in DbFile
    BY <1>4, Parts DEF OpenFile
  <2>2. disk[y].size % PageLimit \in PageNo
    <3>1. disk[y].size \in Nat
      BY <2>1, ImageFields
    <3>2. disk[y].size % PageLimit \in 0 .. PageLimit - 1
      BY <3>1, <1>0
    <3> QED BY <3>2 DEF PageNo
  <2>3. /\ DOMAIN files' \subseteq FileId /\ \A i \in DOMAIN files' : files'[i] \in FileEntry
        /\ next_file_id' \in FileId
        /\ handles' \subseteq FileId \X Paths
        /\ opens' \in 0 .. MaxOpens
    BY <1>4, <2>2, RegisterTypes DEF OpenFile
  <2> QED BY <1>4, <2>3 DEF OpenFile, TypeOK
<1>5. ASSUME NEW y \in Paths, OpenFileAgain(y) PROVE TypeOK'
  <2>1. handles' \subseteq FileId \X Paths
    BY <1>5 DEF OpenFileAgain, TypeOK
  <2> QED BY <1>5, <2>1 DEF OpenFileAgain, TypeOK
<1>6. ASSUME NEW h \in handles, CloseFile(h) PROVE TypeOK'
  <2>1. /\ DOMAIN files' = DOMAIN files \ {h[1]}
        /\ \A i \in DOMAIN files' : files'[i] = files[i]
        /\ handles' \subseteq handles
    BY <1>6 DEF CloseFile, Without
  <2>2. DOMAIN files' \subseteq FileId /\ \A i \in DOMAIN files' : files'[i] \in FileEntry
    BY <2>1 DEF TypeOK
  <2> QED BY <1>6, <2>1, <2>2 DEF CloseFile, TypeOK
<1>7. ASSUME NEW h \in handles, DeleteFile(h) PROVE TypeOK'
  <2>1. /\ DOMAIN files' = DOMAIN files \ {h[1]}
        /\ \A i \in DOMAIN files' : files'[i] = files[i]
        /\ handles' \subseteq handles
        /\ torn' \subseteq torn
    BY <1>7 DEF DeleteFile, Without
  <2>2. DOMAIN files' \subseteq FileId /\ \A i \in DOMAIN files' : files'[i] \in FileEntry
    BY <2>1 DEF TypeOK
  <2>3. disk' \in [Paths -> DbFile \cup {NoFile}]
    BY <1>7 DEF DeleteFile, TypeOK
  <2>4. owned' \in [Paths -> UNION {[S -> PageNo] : S \in SUBSET PageNo}]
    <3>1. NoPages \in [{} -> PageNo] /\ {} \in SUBSET PageNo
      BY DEF NoPages
    <3>2. NoPages \in UNION {[S -> PageNo] : S \in SUBSET PageNo}
      BY <3>1
    <3> QED BY <1>7, <3>2 DEF DeleteFile, TypeOK
  <2> QED BY <1>7, <2>1, <2>2, <2>3, <2>4 DEF DeleteFile, TypeOK
<1>8. ASSUME NEW h \in handles, AllocateReuse(h) PROVE TypeOK'
  <2>1. disk' \in Disks
    BY <1>8, AllocateReuseWrites DEF Becomes
  <2>2. op' \in [call : {"extend", "return"}, path : Paths, page : PageNo, for : Paths]
    <3>1. Image(h).first_free \in PageNo /\ files[h[1]].path \in Paths /\ h[2] \in Paths
      BY HandleFacts, ImageFields
    <3> QED BY <1>8, <3>1 DEF AllocateReuse
  <2> QED BY <1>8, <2>1, <2>2 DEF AllocateReuse, TypeOK, Disks
<1>9. ASSUME NEW h \in handles, NEW f, f = [files EXCEPT ![h[1]].num_pages = (@ + 1) % PageLimit]
      PROVE  DOMAIN f \subseteq FileId /\ \A i \in DOMAIN f : f[i] \in FileEntry
  <2>1. h[1] \in DOMAIN files /\ files[h[1]] \in FileEntry /\ files[h[1]].num_pages \in Nat
    BY HandleFacts DEF TypeOK, PageNo
  <2>2. (files[h[1]].num_pages + 1) % PageLimit \in PageNo
    <3>1. (files[h[1]].num_pages + 1) % PageLimit \in 0 .. PageLimit - 1
      BY <2>1, <1>0
    <3> QED BY <3>1 DEF PageNo
  <2>3. DOMAIN f = DOMAIN files /\ \A i \in DOMAIN f : i # h[1] => f[i] = files[i]
    BY <1>9
  <2>4. f[h[1]] = [files[h[1]] EXCEPT !.num_pages = (files[h[1]].num_pages + 1) % PageLimit]
    BY <1>9, <2>1
  <2>5. f[h[1]] \in FileEntry
    BY <2>1, <2>2, <2>4 DEF FileEntry
  <2> QED BY <2>3, <2>5 DEF TypeOK
<1>10. ASSUME NEW h \in handles, AllocateGrow(h) PROVE TypeOK'
  <2>1. DOMAIN files' \subseteq FileId /\ \A i \in DOMAIN files' : files'[i] \in FileEntry
    BY <1>9, <1>10 DEF AllocateGrow
  <2>2. op' \in [call : {"extend", "return"}, path : Paths, page : PageNo, for : Paths]
    <3>1. files[h[1]].num_pages \in PageNo /\ files[h[1]].path \in Paths /\ h[2] \in Paths
      BY HandleFacts
    <3> QED BY <1>10, <3>1 DEF AllocateGrow
  <2> QED BY <1>10, <2>1, <2>2 DEF AllocateGrow, TypeOK
<1>11. ASSUME NEW h \in handles, AllocateNoHeader(h) PROVE TypeOK'
  <2>1. PICK g \in Garbage :
          LET grows == g = 0 /\ files[h[1]].num_pages < MaxPages
          IN  /\ op' = [call |-> "return", path |-> files[h[1]].path, for |-> h[2],
                        page |-> IF grows THEN files[h[1]].num_pages ELSE g]
              /\ files' = IF grows
                          THEN [files EXCEPT ![h[1]].num_pages = (@ + 1) % PageLimit]
                          ELSE files
    BY <1>11 DEF AllocateNoHeader
  <2>2. DOMAIN files' \subseteq FileId /\ \A i \in DOMAIN files' : files'[i] \in FileEntry
    <3>1. CASE g = 0 /\ files[h[1]].num_pages < MaxPages
      BY <1>9, <2>1, <3>1
    <3>2. CASE ~ (g = 0 /\ files[h[1]].num_pages < MaxPages)
      BY <2>1, <3>2 DEF TypeOK
    <3> QED BY <3>1, <3>2
  <2>3. op' \in [call : {"extend", "return"}, path : Paths, page : PageNo, for : Paths]
    <3>1. files[h[1]].num_pages \in PageNo /\ files[h[1]].path \in Paths /\ h[2] \in Paths
      BY HandleFacts
    <3>2. g \in PageNo
      BY DiskAssumption DEF PageNo
    <3> QED BY <2>1, <3>1, <3>2
  <2> QED BY <1>11, <2>2, <2>3 DEF AllocateNoHeader, TypeOK
<1>12. ASSUME NEW h \in handles, NEW p \in PageNo, DeallocatePage(h, p) PROVE TypeOK'
  <2>1. disk' \in Disks
    BY <1>12, DeallocatePageWrites DEF Becomes
  <2>2. h[2] \in Paths /\ files[h[1]].path \in Paths
    BY HandleFacts
  <2>3. owned' \in [Paths -> UNION {[S -> PageNo] : S \in SUBSET PageNo}]
    <3>1. Without(owned[h[2]], p) \in [DOMAIN owned[h[2]] \ {p} -> PageNo]
      BY <2>2, Parts DEF Without
    <3>2. DOMAIN owned[h[2]] \ {p} \in SUBSET PageNo
      BY <2>2, Parts
    <3>3. Without(owned[h[2]], p) \in UNION {[S -> PageNo] : S \in SUBSET PageNo}
      BY <3>1, <3>2
    <3> QED BY <1>12, <2>2, <3>3 DEF DeallocatePage, TypeOK
  <2>4. op' \in [call : {"create", "header"}, path : Paths, page : PageNo]
    BY <1>12, <2>2 DEF DeallocatePage
  <2> QED BY <1>12, <2>1, <2>3, <2>4 DEF DeallocatePage, TypeOK, Disks
<1>13. ASSUME NEW h \in handles, NEW p \in PageNo, NEW v \in Bytes, WritePage(h, p, v) PROVE TypeOK'
  <2>1. disk' \in Disks
    BY <1>13, WritePageWrites DEF Becomes
  <2>2. h[2] \in Paths /\ v \in PageNo
    BY HandleFacts, DiskAssumption DEF PageNo
  <2>3. owned' \in [Paths -> UNION {[S -> PageNo] : S \in SUBSET PageNo}]
    <3>1. [owned[h[2]] EXCEPT ![p] = v] \in [DOMAIN owned[h[2]] -> PageNo]
      BY <2>2, Parts
    <3>2. DOMAIN owned[h[2]] \in SUBSET PageNo
      BY <2>2, Parts
    <3>3. [owned[h[2]] EXCEPT ![p] = v] \in UNION {[S -> PageNo] : S \in SUBSET PageNo}
      BY <3>1, <3>2
    <3>4. owned' = [owned EXCEPT ![h[2]] = [owned[h[2]] EXCEPT ![p] = v]]
      BY <1>13 DEF WritePage
    <3> QED BY <2>2, <3>3, <3>4 DEF TypeOK
  <2> QED BY <1>13, <2>1, <2>3 DEF WritePage, TypeOK, Disks
<1>14. CASE AllocateExtend
  <2>1. disk' \in Disks
    BY <1>14, AllocateExtendWrites DEF Becomes
  <2>2. op' \in [call : {"extend", "return"}, path : Paths, page : PageNo, for : Paths]
    BY <1>14, OpFields DEF AllocateExtend
  <2> QED BY <1>14, <2>1, <2>2 DEF AllocateExtend, TypeOK, Disks
<1>15. CASE AllocateReturn
  <2>1. op \in [call : {"extend", "return"}, path : Paths, page : PageNo, for : Paths] /\ op # Idle
    BY <1>15, OpFields DEF AllocateReturn, Idle
  <2>2. disk[op.path].body[op.page] \in PageNo
    BY <2>1, Parts, ImageFields DEF CallInv
  <2> DEFINE v == disk[op.path].body[op.page]
  <2>3. owned' \in [Paths -> UNION {[S -> PageNo] : S \in SUBSET PageNo}]
    <3>1. With(owned[op.for], op.page, v) \in [DOMAIN owned[op.for] \cup {op.page} -> PageNo]
      BY <2>1, <2>2, Parts DEF With
    <3>2. DOMAIN owned[op.for] \cup {op.page} \in SUBSET PageNo
      BY <2>1, Parts
    <3>3. With(owned[op.for], op.page, v) \in UNION {[S -> PageNo] : S \in SUBSET PageNo}
      BY <3>1, <3>2
    <3>4. owned' = [owned EXCEPT ![op.for] = With(owned[op.for], op.page, v)]
      BY <1>15 DEF AllocateReturn
    <3> HIDE DEF v
    <3> QED BY <2>1, <3>3, <3>4 DEF TypeOK
  <2> QED BY <1>15, <2>3 DEF AllocateReturn, TypeOK
<1>16. CASE DeallocateHeader
  <2>1. disk' \in Disks
    BY <1>16, DeallocateHeaderWrites DEF Becomes
  <2> QED BY <1>16, <2>1 DEF DeallocateHeader, TypeOK, Disks
<1>17. CASE Crash
  <2>1. torn' \subseteq Paths
    <3>1. op.call = "create" => op.path \in Paths
      BY OpFields DEF Idle
    <3> QED BY <1>17, <3>1 DEF Crash, TypeOK
  <2>2. DOMAIN files' = {} /\ next_file_id' \in FileId /\ crashes' \in 0 .. MaxCrashes
    BY <1>17, DiskAssumption DEF Crash, TypeOK, FileId
  <2> QED BY <1>17, <2>1, <2>2 DEF Crash, TypeOK
<1>18. CASE UNCHANGED vars
  BY <1>18 DEF vars, TypeOK
<1> QED BY <1>1, <1>2, <1>3, <1>4, <1>5, <1>6, <1>7, <1>8, <1>10, <1>11, <1>12, <1>13,
            <1>14, <1>15, <1>16, <1>17, <1>18 DEF Next

\* A file is opened once, under an id that is not in use.
LEMMA RegisterKeepsHandles ==
  ASSUME TypeOK, HandleInv, NoWrap, NEW y \in Paths, NEW n, Register(y, n),
         \A i \in DOMAIN files : files[i].path # y,
         disk'[y] # NoFile, \A x \in Paths : disk[x] # NoFile => disk'[x] # NoFile
  PROVE  HandleInv'
<1> DEFINE k == next_file_id
<1>1. DOMAIN files' = DOMAIN files \cup {k} /\ files'[k] = [path |-> y, num_pages |-> n]
  BY DEF Register, With
<1>2. files'[k].path = y
  BY <1>1
<1>3. k \notin DOMAIN files
  <2>1. \A i \in DOMAIN files : i < k /\ i \in Int
    BY DEF HandleInv, Register, TypeOK, FileId
  <2> QED BY <2>1
<1>4. \A i \in DOMAIN files : files'[i] = files[i]
  BY <1>1, <1>3 DEF Register, With
<1>5. handles' = {<<i, files'[i].path>> : i \in DOMAIN files'}
  <2>1. handles' = handles \cup {<<k, y>>}
    BY DEF Register
  <2>2. handles = {<<i, files[i].path>> : i \in DOMAIN files}
    BY DEF HandleInv
  <2> HIDE DEF k
  <2> QED BY <2>1, <2>2, <1>1, <1>2, <1>4
<1>6. \A i, j \in DOMAIN files' : files'[i].path = files'[j].path => i = j
  <2> HIDE DEF k
  <2> QED BY <1>1, <1>2, <1>4 DEF HandleInv
<1>7. \A i \in DOMAIN files' : disk'[files'[i].path] # NoFile
  <2>1. \A i \in DOMAIN files : files[i].path \in Paths /\ disk[files[i].path] # NoFile
    BY Parts DEF HandleInv
  <2> HIDE DEF k
  <2> QED BY <2>1, <1>1, <1>2, <1>4
<1>8. opens' < MaxOpens => next_file_id' <= opens' /\ \A i \in DOMAIN files' : i < next_file_id'
  <2> SUFFICES ASSUME opens' < MaxOpens
               PROVE  next_file_id' <= opens' /\ \A i \in DOMAIN files' : i < next_file_id'
    OBVIOUS
  <2>1. k \in Nat /\ opens \in Nat /\ opens' = opens + 1 /\ k <= opens /\ MaxOpens \in Nat /\ FileIdLimit \in Nat
    BY DiskAssumption DEF Register, HandleInv, TypeOK, FileId
  <2>2. k + 1 < FileIdLimit
    BY <2>1 DEF NoWrap
  <2>3. next_file_id' = k + 1
    <3>1. (k + 1) % FileIdLimit = k + 1
      BY <2>1, <2>2
    <3> QED BY <3>1 DEF Register
  <2>4. \A i \in DOMAIN files : i < k /\ i \in Int
    BY DEF HandleInv, Register, TypeOK, FileId
  <2> HIDE DEF k
  <2> QED BY <2>1, <2>3, <2>4, <1>1
<1> QED BY <1>5, <1>6, <1>7, <1>8 DEF HandleInv

\* Closing gives up the handle and the file.
LEMMA ClosingKeepsHandles ==
  ASSUME TypeOK, HandleInv, NEW h \in handles,
         files' = Without(files, h[1]), handles' = handles \ {h},
         UNCHANGED <<next_file_id, opens>>,
         \A x \in Paths \ {h[2]} : disk'[x] = disk[x]
  PROVE  HandleInv'
<1>1. h[1] \in DOMAIN files /\ h[2] = files[h[1]].path /\ h = <<h[1], h[2]>>
  BY HandleFacts
<1>2. DOMAIN files' = DOMAIN files \ {h[1]} /\ \A i \in DOMAIN files' : files'[i] = files[i]
  BY DEF Without
<1>3. handles' = {<<i, files'[i].path>> : i \in DOMAIN files'}
  <2>1. handles = {<<i, files[i].path>> : i \in DOMAIN files}
    BY DEF HandleInv
  <2>2. ASSUME NEW k PROVE k \in handles' <=> k \in {<<i, files'[i].path>> : i \in DOMAIN files'}
    <3>1. ASSUME k \in handles' PROVE k \in {<<i, files'[i].path>> : i \in DOMAIN files'}
      <4>1. PICK i \in DOMAIN files : k = <<i, files[i].path>>
        BY <3>1, <2>1
      <4>2. i # h[1]
        BY <3>1, <4>1, <1>1
      <4> QED BY <4>1, <4>2, <1>2
    <3>2. ASSUME k \in {<<i, files'[i].path>> : i \in DOMAIN files'} PROVE k \in handles'
      <4>1. PICK i \in DOMAIN files' : k = <<i, files'[i].path>>
        BY <3>2
      <4>2. k \in handles /\ k[1] = i /\ i # h[1]
        BY <4>1, <1>2, <2>1
      <4> QED BY <4>2
    <3> QED BY <3>1, <3>2
  <2> QED BY <2>2
<1>4. \A i, j \in DOMAIN files' : files'[i].path = files'[j].path => i = j
  BY <1>2 DEF HandleInv
<1>5. \A i \in DOMAIN files' : disk'[files'[i].path] # NoFile
  <2> SUFFICES ASSUME NEW i \in DOMAIN files'
               PROVE  disk'[files'[i].path] # NoFile
    OBVIOUS
  <2>1. i \in DOMAIN files /\ i # h[1] /\ files'[i] = files[i]
    BY <1>2
  <2>2. files[i].path # h[2] /\ files[i].path \in Paths /\ disk[files[i].path] # NoFile
    BY <2>1, <1>1, Parts DEF HandleInv
  <2> QED BY <2>1, <2>2
<1>6. opens' < MaxOpens => next_file_id' <= opens' /\ \A i \in DOMAIN files' : i < next_file_id'
  BY <1>2 DEF HandleInv
<1> QED BY <1>3, <1>4, <1>5, <1>6 DEF HandleInv

\* A step that opens and closes nothing keeps the handles.
LEMMA HandlesFrame ==
  ASSUME TypeOK, HandleInv, DOMAIN files' = DOMAIN files,
         \A i \in DOMAIN files : files'[i].path = files[i].path,
         UNCHANGED <<handles, next_file_id, opens>>,
         \A x \in Paths : disk[x] # NoFile => disk'[x] # NoFile
  PROVE  HandleInv'
<1>1. \A i \in DOMAIN files : files[i].path \in Paths
  BY Parts
<1>2. handles' = {<<i, files'[i].path>> : i \in DOMAIN files'}
  BY DEF HandleInv
<1> QED BY <1>1, <1>2 DEF HandleInv

\* A write leaves the files there that are there.
LEMMA BecomesExists ==
  ASSUME NEW d, NEW e, NEW y, NEW size, NEW first_free, NEW body,
         Becomes(d, e, y, size, first_free, body)
  PROVE  e[y] # NoFile /\ \A x \in Paths : d[x] # NoFile => e[x] # NoFile
BY ImageExists DEF Becomes

\* AllocatePage counts a page in the entry of its file and changes nothing else there.
LEMMA GrowEntries ==
  ASSUME TypeOK, HandleInv, NEW h \in handles,
         NEW f, f = [files EXCEPT ![h[1]].num_pages = (@ + 1) % PageLimit]
  PROVE  /\ DOMAIN f = DOMAIN files
         /\ \A i \in DOMAIN files : f[i].path = files[i].path
         /\ \A i \in DOMAIN files : i # h[1] => f[i] = files[i]
         /\ f[h[1]].num_pages = (files[h[1]].num_pages + 1) % PageLimit
<1>1. h[1] \in DOMAIN files /\ files[h[1]] \in FileEntry
  BY HandleFacts DEF TypeOK
<1>2. DOMAIN f = DOMAIN files /\ \A i \in DOMAIN f : i # h[1] => f[i] = files[i]
  OBVIOUS
<1>3. f[h[1]] = [files[h[1]] EXCEPT !.num_pages = (files[h[1]].num_pages + 1) % PageLimit]
  BY <1>1
<1>4. f[h[1]].path = files[h[1]].path /\ f[h[1]].num_pages = (files[h[1]].num_pages + 1) % PageLimit
  BY <1>1, <1>3 DEF FileEntry
<1> QED BY <1>2, <1>4

\* Every step keeps the handles.
LEMMA HandlesKept ==
  ASSUME DiskInv, NoWrap, [Next]_vars
  PROVE  HandleInv'
<1> USE DEF DiskInv
<1>1. ASSUME NEW y \in Paths, CreateFile(y) PROVE HandleInv'
  BY <1>1, CreateFileWrites, BecomesExists, HandlesFrame DEF CreateFile
<1>2. ASSUME NEW y \in Paths, CreateFileExists(y) PROVE HandleInv'
  BY <1>2, HandlesFrame DEF CreateFileExists
<1>3. CASE CreateHeader
  <2>1. op.path \in Paths /\ disk'[op.path] # NoFile /\ \A x \in Paths : disk[x] # NoFile => disk'[x] # NoFile
    BY <1>3, CreateHeaderWrites, BecomesExists
  <2>2. Register(op.path, 1) /\ \A i \in DOMAIN files : files[i].path # op.path
    BY <1>3 DEF CreateHeader, CallInv
  <2> QED BY <2>1, <2>2, RegisterKeepsHandles
<1>4. ASSUME NEW y \in Paths, OpenFile(y) PROVE HandleInv'
  BY <1>4, RegisterKeepsHandles DEF OpenFile
<1>5. ASSUME NEW y \in Paths, OpenFileAgain(y) PROVE HandleInv'
  <2>1. handles' = handles
    BY <1>5 DEF OpenFileAgain, HandleInv
  <2> QED BY <1>5, <2>1, HandlesFrame DEF OpenFileAgain
<1>6. ASSUME NEW h \in handles, CloseFile(h) PROVE HandleInv'
  BY <1>6, ClosingKeepsHandles DEF CloseFile
<1>7. ASSUME NEW h \in handles, DeleteFile(h) PROVE HandleInv'
  <2>1. \A x \in Paths \ {h[2]} : disk'[x] = disk[x]
    BY <1>7 DEF DeleteFile, TypeOK
  <2> QED BY <1>7, <2>1, ClosingKeepsHandles DEF DeleteFile
<1>8. ASSUME NEW h \in handles, AllocateReuse(h) PROVE HandleInv'
  BY <1>8, AllocateReuseWrites, BecomesExists, HandlesFrame DEF AllocateReuse
<1>10. ASSUME NEW h \in handles, AllocateGrow(h) PROVE HandleInv'
  <2>1. DOMAIN files' = DOMAIN files /\ \A i \in DOMAIN files : files'[i].path = files[i].path
    BY <1>10, GrowEntries DEF AllocateGrow
  <2> QED BY <1>10, <2>1, HandlesFrame DEF AllocateGrow
<1>11. ASSUME NEW h \in handles, AllocateNoHeader(h) PROVE HandleInv'
  <2>1. files' = files \/ files' = [files EXCEPT ![h[1]].num_pages = (@ + 1) % PageLimit]
    BY <1>11 DEF AllocateNoHeader
  <2>2. DOMAIN files' = DOMAIN files /\ \A i \in DOMAIN files : files'[i].path = files[i].path
    BY <2>1, GrowEntries
  <2> QED BY <1>11, <2>2, HandlesFrame DEF AllocateNoHeader
<1>12. ASSUME NEW h \in handles, NEW p \in PageNo, DeallocatePage(h, p) PROVE HandleInv'
  BY <1>12, DeallocatePageWrites, BecomesExists, HandlesFrame DEF DeallocatePage
<1>13. ASSUME NEW h \in handles, NEW p \in PageNo, NEW v \in Bytes, WritePage(h, p, v) PROVE HandleInv'
  <2>1. \A x \in Paths : disk[x] # NoFile => disk'[x] # NoFile
    BY <1>13, WritePageWrites, ImageExists DEF Becomes
  <2>2. UNCHANGED <<files, handles, next_file_id, opens>>
    BY <1>13 DEF WritePage
  <2> QED BY <2>1, <2>2, HandlesFrame
<1>14. CASE AllocateExtend
  <2>1. \A x \in Paths : disk[x] # NoFile => disk'[x] # NoFile
    BY <1>14, AllocateExtendWrites, ImageExists DEF Becomes
  <2>2. UNCHANGED <<files, handles, next_file_id, opens>>
    BY <1>14 DEF AllocateExtend
  <2> QED BY <2>1, <2>2, HandlesFrame
<1>15. CASE AllocateReturn
  BY <1>15, HandlesFrame DEF AllocateReturn
<1>16. CASE DeallocateHeader
  BY <1>16, DeallocateHeaderWrites, BecomesExists, HandlesFrame DEF DeallocateHeader
<1>17. CASE Crash
  <2>1. DOMAIN files' = {} /\ handles' = {} /\ next_file_id' = 0 /\ opens' \in Nat
    BY <1>17 DEF Crash, TypeOK
  <2> QED BY <2>1 DEF HandleInv
<1>18. CASE UNCHANGED vars
  BY <1>18, HandlesFrame DEF vars
<1> QED BY <1>1, <1>2, <1>3, <1>4, <1>5, <1>6, <1>7, <1>8, <1>10, <1>11, <1>12, <1>13,
            <1>14, <1>15, <1>16, <1>17, <1>18 DEF Next

\* Every step keeps what is said of the call in progress.
LEMMA CallKept ==
  ASSUME DiskInv, [Next]_vars
  PROVE  CallInv'
<1> USE DEF DiskInv
<1>0. op = Idle => op.call = "none"
  BY DEF Idle
<1>1. ASSUME NEW y \in Paths, CreateFile(y) PROVE CallInv'
  <2>1. disk'[y] # NoFile /\ \A x \in Paths \ {y} : disk'[x] = disk[x]
    BY <1>1, CreateFileWrites, BecomesExists DEF Becomes
  <2>2. \A i \in DOMAIN files : files[i].path # y
    BY <1>1 DEF CreateFile, HandleInv
  <2>3. op'.call = "create" /\ op'.path = y
    BY <1>1 DEF CreateFile
  <2> QED BY <1>1, <2>1, <2>2, <2>3 DEF CreateFile, CallInv
<1>2. ASSUME NEW y \in Paths, CreateFileExists(y) PROVE CallInv'
  BY <1>2 DEF CreateFileExists, CallInv
<1>3. CASE CreateHeader
  <2>1. op' = Idle /\ op'.call = "none" /\ owned' = owned
    BY <1>3 DEF CreateHeader, Idle
  <2>2. \A x \in Paths : disk[x] # NoFile => disk'[x] # NoFile
    BY <1>3, CreateHeaderWrites, BecomesExists
  <2> QED BY <2>1, <2>2 DEF CallInv
<1>4. ASSUME NEW y \in Paths, OpenFile(y) PROVE CallInv'
  BY <1>4, <1>0 DEF OpenFile, MutexFree, CallInv
<1>5. ASSUME NEW y \in Paths, OpenFileAgain(y) PROVE CallInv'
  BY <1>5 DEF OpenFileAgain, CallInv
<1>6. ASSUME NEW h \in handles, CloseFile(h) PROVE CallInv'
  BY <1>6, <1>0 DEF CloseFile, MutexFree, CallInv
<1>7. ASSUME NEW h \in handles, DeleteFile(h) PROVE CallInv'
  <2>1. op' = Idle /\ op'.call = "none"
    BY <1>7 DEF DeleteFile, MutexFree, Idle
  <2>2. DOMAIN NoPages = {}
    BY DEF NoPages
  <2>3. \A x \in Paths : disk'[x] = NoFile => DOMAIN owned'[x] = {}
    BY <1>7, <2>2 DEF DeleteFile, TypeOK, CallInv
  <2> QED BY <2>1, <2>3 DEF CallInv
<1>8. ASSUME NEW h \in handles, AllocateReuse(h) PROVE CallInv'
  <2>1. \A x \in Paths : disk[x] # NoFile => disk'[x] # NoFile
    BY <1>8, AllocateReuseWrites, BecomesExists
  <2>2. op'.call = "return" /\ op'.path = h[2] /\ op'.for = h[2] /\ h[2] \in Paths /\ disk[h[2]] # NoFile
    BY <1>8, HandleFacts DEF AllocateReuse
  <2> QED BY <1>8, <2>1, <2>2 DEF AllocateReuse, CallInv
<1>10. ASSUME NEW h \in handles, AllocateGrow(h) PROVE CallInv'
  <2>2. op'.call = "extend" /\ op'.path = h[2] /\ op'.for = h[2] /\ h[2] \in Paths /\ disk[h[2]] # NoFile
    BY <1>10, HandleFacts DEF AllocateGrow
  <2> QED BY <1>10, <2>2 DEF AllocateGrow, CallInv
<1>11. ASSUME NEW h \in handles, AllocateNoHeader(h) PROVE CallInv'
  <2>2. op'.call = "return" /\ op'.path = h[2] /\ op'.for = h[2] /\ h[2] \in Paths /\ disk[h[2]] # NoFile
    BY <1>11, HandleFacts DEF AllocateNoHeader
  <2> QED BY <1>11, <2>2 DEF AllocateNoHeader, CallInv
<1>12. ASSUME NEW h \in handles, NEW p \in PageNo, DeallocatePage(h, p) PROVE CallInv'
  <2>1. \A x \in Paths : disk[x] # NoFile => disk'[x] # NoFile
    BY <1>12, DeallocatePageWrites, ImageExists DEF Becomes
  <2>2. op'.call = "header" /\ op'.path = h[2] /\ h[2] \in Paths /\ disk[h[2]] # NoFile
    BY <1>12, HandleFacts DEF DeallocatePage
  <2>3. \A x \in Paths \ {h[2]} : owned'[x] = owned[x]
    BY <1>12 DEF DeallocatePage, TypeOK
  <2> QED BY <1>12, <2>1, <2>2, <2>3 DEF DeallocatePage, CallInv
<1>13. ASSUME NEW h \in handles, NEW p \in PageNo, NEW v \in Bytes, WritePage(h, p, v) PROVE CallInv'
  <2>1. \A x \in Paths : disk[x] # NoFile => disk'[x] # NoFile
    BY <1>13, WritePageWrites, ImageExists DEF Becomes
  <2>2. op' = Idle /\ op'.call = "none" /\ h[2] \in Paths /\ disk[h[2]] # NoFile
    BY <1>13, HandleFacts DEF WritePage, IsOpen, MutexFree, Idle
  <2>3. \A x \in Paths \ {h[2]} : owned'[x] = owned[x]
    BY <1>13 DEF WritePage, TypeOK
  <2> QED BY <2>1, <2>2, <2>3 DEF CallInv
<1>14. CASE AllocateExtend
  <2>1. op.path \in Paths /\ \A x \in Paths : disk[x] # NoFile => disk'[x] # NoFile
    BY <1>14, AllocateExtendWrites, BecomesExists
  <2>2. op \in [call : {"extend", "return"}, path : Paths, page : PageNo, for : Paths] /\ op # Idle
    BY <1>14, OpFields DEF AllocateExtend, Idle
  <2>3. op'.call = "return" /\ op'.path = op.path /\ op'.for = op.for
    BY <1>14, <2>2 DEF AllocateExtend
  <2> QED BY <1>14, <2>1, <2>2, <2>3 DEF AllocateExtend, CallInv
<1>15. CASE AllocateReturn
  <2>1. op \in [call : {"extend", "return"}, path : Paths, page : PageNo, for : Paths] /\ op # Idle
    BY <1>15, OpFields DEF AllocateReturn, Idle
  <2>2. op' = Idle /\ op'.call = "none" /\ disk[op.for] # NoFile
    BY <1>15, <2>1 DEF AllocateReturn, Idle, CallInv
  <2>3. \A x \in Paths \ {op.for} : owned'[x] = owned[x]
    BY <1>15 DEF AllocateReturn, TypeOK
  <2> QED BY <1>15, <2>1, <2>2, <2>3 DEF AllocateReturn, CallInv
<1>16. CASE DeallocateHeader
  <2>1. \A x \in Paths : disk[x] # NoFile => disk'[x] # NoFile
    BY <1>16, DeallocateHeaderWrites, BecomesExists
  <2>2. op' = Idle /\ op'.call = "none"
    BY <1>16 DEF DeallocateHeader, Idle
  <2> QED BY <1>16, <2>1, <2>2 DEF DeallocateHeader, CallInv
<1>17. CASE Crash
  BY <1>17 DEF Crash, CallInv, Idle
<1>18. CASE UNCHANGED vars
  BY <1>18 DEF vars, CallInv
<1> QED BY <1>1, <1>2, <1>3, <1>4, <1>5, <1>6, <1>7, <1>8, <1>10, <1>11, <1>12, <1>13,
            <1>14, <1>15, <1>16, <1>17, <1>18 DEF Next

-----------------------------------------------------------------------------
(* One file: its chain, its owners and the pages lost, step by step.       *)

\* The step keeps the file sound and loses no page of it.
FileKept(x) ==
  /\ FileSound(x)'
  /\ Lost(x)' = {} \/ (x \in Whole /\ Lost(x)' \subseteq Lost(x))

\* The walks of DiskManager, by the image of the file.
LEMMA FreeListIs ==
  ASSUME NEW x
  PROVE  /\ Chain(x) = ChainFrom(disk[x]) /\ Chain(x)' = ChainFrom(disk'[x])
         /\ FreeList(x) = FreeIn(disk[x]) /\ FreeList(x)' = FreeIn(disk'[x])
<1>1. Chain(x) = ChainFrom(disk[x]) /\ Chain(x)' = ChainFrom(disk'[x])
  BY DEF Chain, ChainFrom
<1> QED BY <1>1 DEF FreeList, FreeIn

\* Lost, by the image of the file.
LEMMA LostIs ==
  ASSUME NEW x
  PROVE  /\ Lost(x) = (1 .. disk[x].size - 1) \ (DOMAIN owned[x] \cup FreeIn(disk[x]) \cup InFlight(x))
         /\ Lost(x)' = (1 .. disk'[x].size - 1) \ (DOMAIN owned'[x] \cup FreeIn(disk'[x]) \cup InFlight(x)')
BY FreeListIs DEF Lost

\* A whole file has an image.
LEMMA WholeFacts ==
  ASSUME TypeOK, NEW x \in Whole
  PROVE  /\ x \in Paths /\ x \notin torn /\ disk[x] # NoFile /\ disk[x] \in DbFile
         /\ disk[x].size \in 0 .. PageLimit /\ disk[x].size \in Nat
         /\ disk[x].first_free \in PageNo
         /\ disk[x].body \in [PageNo -> PageNo]
<1>1. x \in Paths /\ x \notin torn /\ disk[x] # NoFile
  BY DEF Whole
<1>2. disk[x] \in DbFile
  BY <1>1, Parts
<1> QED BY <1>1, <1>2, ImageFields

\* Between calls the entry of an open file has the number of its pages.
LEMMA EntryCounts ==
  ASSUME NEW x, FileSound(x), op = Idle \/ op.path # x
  PROVE  /\ \A i \in DOMAIN files : files[i].path = x => files[i].num_pages = disk[x].size
         /\ \A c \in {"create", "header", "extend", "return"} : ~ Doing(c, x)
         /\ InFlight(x) = {}
<1>1. \A c \in {"create", "header", "extend", "return"} : ~ Doing(c, x)
  BY DEF Doing, Idle
<1> QED BY <1>1 DEF FileSound, InFlight, Doing

\* A step that does not touch a file keeps it.
LEMMA FileFrame ==
  ASSUME NEW x \in Whole, FileSound(x), disk'[x] = disk[x], owned'[x] = owned[x],
         op = Idle \/ op.path # x, op' = Idle \/ op'.path # x,
         \A i \in DOMAIN files' : files'[i].path = x => files'[i].num_pages = disk[x].size
  PROVE  FileKept(x)
<1>1. \A c \in {"create", "header", "extend", "return"} : ~ Doing(c, x) /\ ~ Doing(c, x)'
  BY DEF Doing, Idle
<1>2. InFlight(x) = {} /\ InFlight(x)' = {}
  BY <1>1 DEF InFlight, Doing
<1>3. Lost(x)' = Lost(x)
  BY <1>2, LostIs
<1>4. FileSound(x)'
  BY <1>1 DEF FileSound
<1> QED BY <1>3, <1>4 DEF FileKept

\* Every file that a step leaves alone is kept.
LEMMA OthersKept ==
  ASSUME DiskInv, NEW y, torn \subseteq torn' \cup {y},
         op = Idle \/ op.path = y, op' = Idle \/ op'.path = y,
         \A x \in Paths \ {y} : disk'[x] = disk[x] /\ owned'[x] = owned[x],
         \A i \in DOMAIN files' : files'[i].path # y => i \in DOMAIN files /\ files'[i] = files[i],
         NEW x \in Whole', x # y
  PROVE  FileKept(x)
<1>1. x \in Paths /\ x \notin torn' /\ disk'[x] # NoFile
  BY DEF Whole
<1>2. x \in Whole
  BY <1>1 DEF Whole
<1>3. FileSound(x)
  BY <1>2 DEF DiskInv
<1>4. op = Idle \/ op.path # x
  OBVIOUS
<1>5. \A i \in DOMAIN files : files[i].path = x => files[i].num_pages = disk[x].size
  BY <1>3, <1>4, EntryCounts
<1>6. \A i \in DOMAIN files' : files'[i].path = x => files'[i].num_pages = disk[x].size
  BY <1>5
<1>7. op' = Idle \/ op'.path # x
  OBVIOUS
<1>8. disk'[x] = disk[x] /\ owned'[x] = owned[x]
  BY <1>1
<1> QED BY <1>2, <1>3, <1>4, <1>6, <1>7, <1>8, FileFrame

\* CreateFile: the empty file has no page to lose.
LEMMA CreateFileKeeps ==
  ASSUME DiskInv, NEW y \in Paths, CreateFile(y), NEW x \in Whole'
  PROVE  FileKept(x)
<1> USE DEF DiskInv
<1>1. Becomes(disk, disk', y, 0, 0, [p \in PageNo |-> 0])
  BY CreateFileWrites
<1>2. op = Idle /\ op'.call = "create" /\ op'.path = y /\ owned' = owned /\ files' = files /\ torn' = torn
  BY DEF CreateFile, MutexFree
<1>3. CASE x # y
  <2>1. \A z \in Paths \ {y} : disk'[z] = disk[z] /\ owned'[z] = owned[z]
    BY <1>1, <1>2 DEF Becomes
  <2> QED BY <1>2, <1>3, <2>1, OthersKept
<1>4. CASE x = y
  <2>1. disk'[y].size = 0 /\ disk'[y].first_free = 0 /\ 0 \in 0 .. PageLimit
    BY <1>1, DiskAssumption DEF Becomes
  <2>2. Chained(disk'[y])
    BY <2>1, ChainEmpty
  <2>3. DOMAIN owned'[y] = {}
    BY <1>2 DEF CreateFile, CallInv
  <2>4. \A i \in DOMAIN files' : files'[i].path # y
    BY <1>2 DEF CreateFile, HandleInv
  <2>5. FileSound(y)'
    BY <1>2, <2>1, <2>2, <2>3, <2>4, DiskAssumption DEF FileSound, Doing
  <2>6. Lost(y)' = {}
    <3>1. 1 .. disk'[y].size - 1 = {}
      BY <2>1
    <3> QED BY <3>1, LostIs
  <2> QED BY <1>4, <2>5, <2>6 DEF FileKept
<1> QED BY <1>3, <1>4

\* The header makes it a file of one page, which nobody owns and no chain holds.
LEMMA CreateHeaderKeeps ==
  ASSUME DiskInv, NoWrap, CreateHeader, NEW x \in Whole'
  PROVE  FileKept(x)
<1> USE DEF DiskInv
<1>0. PICK y \in Paths : y = op.path
  BY CreateHeaderWrites
<1>1. Becomes(disk, disk', y, 1, disk[y].first_free, disk[y].body) /\ disk[y] \in DbFile
  BY <1>0, CreateHeaderWrites
<1>2. op' = Idle /\ owned' = owned /\ torn' = torn /\ op.call = "create"
  BY DEF CreateHeader
<1>3. /\ \A i \in DOMAIN files' : i # next_file_id => i \in DOMAIN files /\ files'[i] = files[i]
      /\ files'[next_file_id] = [path |-> y, num_pages |-> 1]
  BY <1>0 DEF CreateHeader, Register, With
<1>4. files'[next_file_id].path = y /\ files'[next_file_id].num_pages = 1
  BY <1>3
<1>5. CASE x # y
  <2>1. \A z \in Paths \ {y} : disk'[z] = disk[z] /\ owned'[z] = owned[z]
    BY <1>1, <1>2 DEF Becomes
  <2>2. \A i \in DOMAIN files' : files'[i].path # y => i \in DOMAIN files /\ files'[i] = files[i]
    BY <1>3, <1>4
  <2> QED BY <1>0, <1>2, <1>5, <2>1, <2>2, OthersKept
<1>6. CASE x = y
  <2>1. y \in Whole
    BY <1>1, <1>2, <1>6, ImageExists DEF Whole
  <2>2. FileSound(y) /\ disk[y].size = 0
    BY <1>0, <2>1, <1>2 DEF FileSound, Doing
  <2>3. disk'[y].size = 1 /\ disk'[y].first_free = disk[y].first_free /\ disk'[y].body = disk[y].body
    BY <1>1 DEF Becomes
  <2>4. Chained(disk[y]) /\ 0 \in 0 .. PageLimit /\ 1 \in 0 .. PageLimit
    BY <2>2, DiskAssumption DEF FileSound
  <2>5. Chained(disk'[y])
    BY <2>2, <2>3, <2>4, ChainKept
  <2>6. DOMAIN owned'[y] = {}
    BY <1>2, <2>2 DEF FileSound
  <2>7. \A i \in DOMAIN files' : files'[i].path = y => files'[i].num_pages = 1
    BY <1>0, <1>2, <1>3, <1>4 DEF CallInv
  <2>8. FileSound(y)'
    BY <1>2, <2>3, <2>5, <2>6, <2>7, DiskAssumption DEF FileSound, Doing, Idle
  <2>9. Lost(y)' = {}
    <3>1. 1 .. disk'[y].size - 1 = {}
      BY <2>3
    <3> QED BY <3>1, LostIs
  <2> QED BY <1>6, <2>8, <2>9 DEF FileKept
<1> QED BY <1>5, <1>6

\* OpenFile counts the pages of the file.
LEMMA OpenFileKeeps ==
  ASSUME DiskInv, NoWrap, NEW y \in Paths, OpenFile(y), NEW x \in Whole'
  PROVE  FileKept(x)
<1> USE DEF DiskInv
<1>1. op = Idle /\ op' = Idle /\ UNCHANGED <<disk, owned, torn>>
  BY DEF OpenFile, MutexFree
<1>2. /\ \A i \in DOMAIN files' : i # next_file_id => i \in DOMAIN files /\ files'[i] = files[i]
      /\ files'[next_file_id] = [path |-> y, num_pages |-> disk[y].size % PageLimit]
  BY DEF OpenFile, Register, With
<1>3. files'[next_file_id].path = y /\ files'[next_file_id].num_pages = disk[y].size % PageLimit
  BY <1>2
<1>4. CASE x # y
  <2>1. \A i \in DOMAIN files' : files'[i].path # y => i \in DOMAIN files /\ files'[i] = files[i]
    BY <1>2, <1>3
  <2> QED BY <1>1, <1>4, <2>1, OthersKept
<1>5. CASE x = y
  <2>1. x \in Whole
    BY <1>1 DEF Whole
  <2>2. FileSound(x) /\ disk[x].size \in Nat
    BY <2>1, WholeFacts
  <2>3. disk[x].size % PageLimit = disk[x].size
    <3>1. disk[x].size < PageLimit /\ PageLimit \in Nat
      BY <2>2, DiskAssumption DEF FileSound, NoWrap
    <3> QED BY <2>2, <3>1
  <2>4. \A i \in DOMAIN files' : files'[i].path = x => files'[i].num_pages = disk[x].size
    BY <1>2, <1>3, <1>5, <2>3 DEF OpenFile
  <2> QED BY <1>1, <2>1, <2>2, <2>4, FileFrame
<1> QED BY <1>4, <1>5

\* DeleteFile takes its file away and leaves the others.
LEMMA DeleteFileKeeps ==
  ASSUME DiskInv, NEW h \in handles, DeleteFile(h), NEW x \in Whole'
  PROVE  FileKept(x)
<1> USE DEF DiskInv
<1>1. op = Idle /\ op' = Idle /\ torn' = torn \ {h[2]}
  BY DEF DeleteFile, MutexFree
<1>2. h[2] \in Paths
  BY HandleFacts
<1>3. disk'[h[2]] = NoFile /\ \A z \in Paths \ {h[2]} : disk'[z] = disk[z] /\ owned'[z] = owned[z]
  BY <1>2 DEF DeleteFile, TypeOK
<1>4. x # h[2]
  BY <1>3 DEF Whole
<1>5. \A i \in DOMAIN files' : i \in DOMAIN files /\ files'[i] = files[i]
  BY DEF DeleteFile, Without
<1> QED BY <1>1, <1>3, <1>4, <1>5, OthersKept

\* A file is left alone by CreateFile on a path that exists, by OpenFile on an open
\* path, by CloseFile and by a step that changes nothing it reads.
LEMMA QuietKeeps ==
  ASSUME DiskInv, op = Idle, UNCHANGED <<disk, owned, torn, op>>,
         \A i \in DOMAIN files' : i \in DOMAIN files /\ files'[i] = files[i],
         NEW x \in Whole'
  PROVE  FileKept(x)
<1> USE DEF DiskInv
<1>1. x \in Whole
  BY DEF Whole
<1>2. FileSound(x)
  BY <1>1
<1>3. \A i \in DOMAIN files' : files'[i].path = x => files'[i].num_pages = disk[x].size
  BY <1>2, EntryCounts
<1> QED BY <1>1, <1>2, <1>3, FileFrame

\* The file of a handle between calls, when it is whole.
LEMMA HandleFile ==
  ASSUME DiskInv, NEW h \in handles, op = Idle, h[2] \in Whole
  PROVE  /\ FileSound(h[2])
         /\ disk[h[2]].size \in 1 .. MaxPages
         /\ disk[h[2]].size \in 0 .. PageLimit
         /\ InFlight(h[2]) = {}
         /\ \A i \in DOMAIN files : files[i].path = h[2] => i = h[1]
         /\ files[h[1]].num_pages = disk[h[2]].size
<1> USE DEF DiskInv
<1>1. FileSound(h[2]) /\ disk[h[2]].size \in 0 .. PageLimit /\ disk[h[2]].size \in Nat
  BY WholeFacts
<1>2. \A c \in {"create", "header", "extend", "return"} : ~ Doing(c, h[2])
  BY <1>1, EntryCounts
<1>3. disk[h[2]].size # 0 /\ disk[h[2]].size <= MaxPages
  BY <1>1, <1>2 DEF FileSound
<1>4. disk[h[2]].size \in 1 .. MaxPages
  BY <1>1, <1>3, DiskAssumption
<1>5. InFlight(h[2]) = {} /\ files[h[1]].num_pages = disk[h[2]].size
  BY <1>1, EntryCounts, HandleFacts
<1>6. \A i \in DOMAIN files : files[i].path = h[2] => i = h[1]
  BY HandleFacts DEF HandleInv
<1> QED BY <1>1, <1>4, <1>5, <1>6

\* AllocatePage takes a page off the chain and has it in flight.
LEMMA AllocateReuseKeeps ==
  ASSUME DiskInv, NEW h \in handles, AllocateReuse(h), NEW x \in Whole'
  PROVE  FileKept(x)
<1> USE DEF DiskInv
<1>0. PICK y \in Paths : y = h[2]
  BY HandleFacts
<1>1. Becomes(disk, disk', y, disk[y].size, disk[y].body[disk[y].first_free], disk[y].body)
  BY <1>0, AllocateReuseWrites
<1>2. /\ op = Idle /\ op'.call = "return" /\ op'.path = y /\ op'.page = disk[y].first_free
      /\ UNCHANGED <<files, owned, torn>> /\ disk[y].first_free # 0 /\ disk[y] # NoFile
  BY <1>0, HandleFacts DEF AllocateReuse, HasHeader, IsOpen, MutexFree
<1>3. CASE x # y
  <2>1. \A z \in Paths \ {y} : disk'[z] = disk[z] /\ owned'[z] = owned[z]
    BY <1>1, <1>2 DEF Becomes
  <2> QED BY <1>2, <1>3, <2>1, OthersKept
<1>4. CASE x = y
  <2>1. y \in Whole
    BY <1>2, <1>4 DEF Whole
  <2>2. FileSound(y) /\ disk[y].size \in 0 .. PageLimit /\ disk[y].size \in 1 .. MaxPages /\ InFlight(y) = {}
    BY <1>0, <1>2, <2>1, HandleFile
  <2>3. /\ disk'[y].size = disk[y].size /\ disk'[y].body = disk[y].body
        /\ disk'[y].first_free = disk[y].body[disk[y].first_free]
    BY <1>1 DEF Becomes
  <2>4. /\ Chained(disk'[y])
        /\ disk[y].first_free \in FreeIn(disk[y])
        /\ FreeIn(disk'[y]) = FreeIn(disk[y]) \ {disk[y].first_free}
    <3>1. Chained(disk[y])
      BY <2>2 DEF FileSound
    <3> QED BY <1>2, <2>2, <2>3, <3>1, ChainPop
  <2>5. disk[y].first_free \in 1 .. disk[y].size - 1
    BY <2>2, <2>4, ChainEnds DEF FileSound
  <2>6. disk[y].first_free \notin DOMAIN owned[y]
    BY <2>2, <2>4 DEF FileSound
  <2>7. \A i \in DOMAIN files : files[i].path = y => files[i].num_pages = disk[y].size
    BY <1>2, <2>2, EntryCounts
  <2>8. FileSound(y)'
    BY <1>2, <2>2, <2>3, <2>4, <2>5, <2>6, <2>7 DEF FileSound, Doing
  <2>9. InFlight(y)' = {disk[y].first_free}
    BY <1>2 DEF InFlight
  <2>10. Lost(y)' \subseteq Lost(y)
    BY <1>2, <2>2, <2>3, <2>4, <2>9, LostIs
  <2> QED BY <1>4, <2>1, <2>8, <2>10 DEF FileKept
<1> QED BY <1>3, <1>4

\* AllocatePage counts a page that the file does not have yet.
LEMMA AllocateGrowKeeps ==
  ASSUME DiskInv, NoWrap, NEW h \in handles, AllocateGrow(h), NEW x \in Whole'
  PROVE  FileKept(x)
<1> USE DEF DiskInv
<1>0. PICK y \in Paths : y = h[2]
  BY HandleFacts
<1>1. /\ op = Idle /\ op'.call = "extend" /\ op'.path = y /\ op'.page = files[h[1]].num_pages
      /\ UNCHANGED <<disk, owned, torn>> /\ disk[y] # NoFile /\ files[h[1]].num_pages < MaxPages
  BY <1>0, HandleFacts DEF AllocateGrow, HasHeader, IsOpen, MutexFree
<1>2. /\ DOMAIN files' = DOMAIN files
      /\ \A i \in DOMAIN files : files'[i].path = files[i].path
      /\ \A i \in DOMAIN files : i # h[1] => files'[i] = files[i]
      /\ files'[h[1]].num_pages = (files[h[1]].num_pages + 1) % PageLimit
  BY GrowEntries DEF AllocateGrow
<1>3. CASE x # y
  <2>1. \A i \in DOMAIN files' : files'[i].path # y => i \in DOMAIN files /\ files'[i] = files[i]
    BY <1>0, <1>2, HandleFacts
  <2> QED BY <1>1, <1>3, <2>1, OthersKept
<1>4. CASE x = y
  <2>1. y \in Whole
    BY <1>1, <1>4 DEF Whole
  <2>2. /\ FileSound(y) /\ disk[y].size \in 1 .. MaxPages /\ InFlight(y) = {}
        /\ files[h[1]].num_pages = disk[y].size
        /\ \A i \in DOMAIN files : files[i].path = y => i = h[1]
    BY <1>0, <1>1, <2>1, HandleFile
  <2>3. (disk[y].size + 1) % PageLimit = disk[y].size + 1
    <3>1. disk[y].size + 1 < PageLimit /\ PageLimit \in Nat /\ disk[y].size + 1 \in Nat
      BY <1>1, <2>2, DiskAssumption DEF NoWrap
    <3> QED BY <3>1
  <2>4. \A i \in DOMAIN files' : files'[i].path = y => files'[i].num_pages = disk[y].size + 1
    BY <1>2, <2>2, <2>3
  <2>5. FileSound(y)'
    BY <1>1, <2>2, <2>4 DEF FileSound, Doing
  <2>6. InFlight(y)' = {}
    BY <1>1 DEF InFlight
  <2>7. Lost(y)' = Lost(y)
    BY <1>1, <2>2, <2>6, LostIs
  <2> QED BY <1>4, <2>1, <2>5, <2>7 DEF FileKept
<1> QED BY <1>3, <1>4

\* A file without a header was not created whole.
LEMMA AllocateNoHeaderKeeps ==
  ASSUME DiskInv, NEW h \in handles, AllocateNoHeader(h), NEW x \in Whole'
  PROVE  FileKept(x)
<1> USE DEF DiskInv
<1>0. PICK y \in Paths : y = h[2]
  BY HandleFacts
<1>1. op = Idle /\ op'.path = y /\ UNCHANGED <<disk, owned, torn>> /\ disk[y].size = 0
  BY <1>0, HandleFacts DEF AllocateNoHeader, IsOpen, MutexFree
<1>2. x # y
  <2>1. x \in Whole
    BY <1>1 DEF Whole
  <2>2. x = y => disk[x].size \in 1 .. MaxPages
    BY <1>0, <1>1, <2>1, HandleFile
  <2> QED BY <1>1, <2>2
<1>3. files' = files \/ files' = [files EXCEPT ![h[1]].num_pages = (@ + 1) % PageLimit]
  BY DEF AllocateNoHeader
<1>4. \A i \in DOMAIN files' : files'[i].path # y => i \in DOMAIN files /\ files'[i] = files[i]
  BY <1>0, <1>3, GrowEntries, HandleFacts
<1> QED BY <1>1, <1>2, <1>4, OthersKept

\* DeallocatePage: the page leaves its owner, and the chain does not pass through it yet.
LEMMA DeallocatePageKeeps ==
  ASSUME DiskInv, NEW h \in handles, NEW p \in PageNo, DeallocatePage(h, p), NEW x \in Whole'
  PROVE  FileKept(x)
<1> USE DEF DiskInv
<1>0. PICK y \in Paths : y = h[2]
  BY HandleFacts
<1>1. Becomes(disk, disk', y, disk[y].size, disk[y].first_free, [disk[y].body EXCEPT ![p] = disk[y].first_free])
  BY <1>0, DeallocatePageWrites
<1>2. /\ op = Idle /\ op'.call = "header" /\ op'.path = y /\ op'.page = p
      /\ UNCHANGED <<files, torn>> /\ disk[y] # NoFile /\ p \in DOMAIN owned[y]
  BY <1>0, HandleFacts DEF DeallocatePage, HasHeader, IsOpen, MutexFree
<1>3. /\ \A z \in Paths \ {y} : owned'[z] = owned[z]
      /\ owned'[y] = Without(owned[y], p)
  BY <1>0 DEF DeallocatePage, TypeOK
<1>4. CASE x # y
  <2>1. \A z \in Paths \ {y} : disk'[z] = disk[z] /\ owned'[z] = owned[z]
    BY <1>1, <1>3 DEF Becomes
  <2> QED BY <1>2, <1>4, <2>1, OthersKept
<1>5. CASE x = y
  <2>1. y \in Whole
    BY <1>2, <1>5 DEF Whole
  <2>2. FileSound(y) /\ disk[y].size \in 0 .. PageLimit /\ disk[y].size \in 1 .. MaxPages /\ InFlight(y) = {}
    BY <1>0, <1>2, <2>1, HandleFile
  <2>3. /\ disk'[y].size = disk[y].size /\ disk'[y].first_free = disk[y].first_free
        /\ disk'[y].body = [disk[y].body EXCEPT ![p] = disk[y].first_free]
    BY <1>1 DEF Becomes
  <2>4. /\ disk'[y].body[p] = disk[y].first_free
        /\ \A k \in PageNo \ {p} : disk'[y].body[k] = disk[y].body[k]
    BY <2>1, <2>3, WholeFacts
  <2>5. DOMAIN owned'[y] = DOMAIN owned[y] \ {p} /\ \A k \in DOMAIN owned'[y] : owned'[y][k] = owned[y][k]
    BY <1>3 DEF Without
  <2>6. DOMAIN owned[y] \subseteq PageNo
    BY Parts
  <2>7. Chained(disk[y]) /\ p \in 1 .. disk[y].size - 1 /\ p \notin FreeIn(disk[y])
    BY <1>2, <2>2 DEF FileSound
  <2>8. FreeIn(disk[y]) \subseteq PageNo \ {p}
    <3>1. FreeIn(disk[y]) \subseteq 1 .. disk[y].size - 1
      BY <2>2, <2>7, ChainEnds
    <3> QED BY <3>1, <2>2, <2>7, DiskAssumption DEF PageNo
  <2>9. Chained(disk'[y]) /\ FreeIn(disk'[y]) = FreeIn(disk[y])
    <3>1. \A k \in FreeIn(disk[y]) : disk'[y].body[k] = disk[y].body[k]
      BY <2>4, <2>8
    <3>2. disk[y].size <= disk'[y].size
      BY <2>2, <2>3
    <3> QED BY <2>2, <2>3, <2>7, <3>1, <3>2, ChainKept
  <2>10. \A i \in DOMAIN files : files[i].path = y => files[i].num_pages = disk[y].size
    BY <1>2, <2>2, EntryCounts
  <2>11. \A k \in DOMAIN owned'[y] : /\ k \in 1 .. disk'[y].size - 1
                                     /\ disk'[y].body[k] = owned'[y][k]
                                     /\ k \notin FreeIn(disk'[y])
    BY <2>2, <2>3, <2>4, <2>5, <2>6, <2>9 DEF FileSound
  <2>12. FileSound(y)'
    BY <1>2, <2>2, <2>3, <2>4, <2>5, <2>7, <2>9, <2>10, <2>11 DEF FileSound, Doing
  <2>13. InFlight(y)' = {p}
    BY <1>2 DEF InFlight
  <2>14. Lost(y)' \subseteq Lost(y)
    BY <2>2, <2>3, <2>5, <2>9, <2>13, LostIs
  <2> QED BY <1>5, <2>1, <2>12, <2>14 DEF FileKept
<1> QED BY <1>4, <1>5

\* WritePage writes a page that is on no chain.
LEMMA WritePageKeeps ==
  ASSUME DiskInv, NEW h \in handles, NEW p \in PageNo, NEW v \in Bytes, WritePage(h, p, v), NEW x \in Whole'
  PROVE  FileKept(x)
<1> USE DEF DiskInv
<1>0. PICK y \in Paths : y = h[2]
  BY HandleFacts
<1>1. Becomes(disk, disk', y, IF disk[y].size > p THEN disk[y].size ELSE p + 1,
              IF p = 0 THEN v ELSE disk[y].first_free, [disk[y].body EXCEPT ![p] = v])
  BY <1>0, WritePageWrites
<1>2. op = Idle /\ op' = Idle /\ UNCHANGED <<files, torn>> /\ disk[y] # NoFile /\ p \in DOMAIN owned[y]
  BY <1>0, HandleFacts DEF WritePage, IsOpen, MutexFree
<1>3. /\ \A z \in Paths \ {y} : owned'[z] = owned[z]
      /\ owned'[y] = [owned[y] EXCEPT ![p] = v]
  BY <1>0 DEF WritePage, TypeOK
<1>4. CASE x # y
  <2>1. \A z \in Paths \ {y} : disk'[z] = disk[z] /\ owned'[z] = owned[z]
    BY <1>1, <1>3 DEF Becomes
  <2> QED BY <1>2, <1>4, <2>1, OthersKept
<1>5. CASE x = y
  <2>1. y \in Whole
    BY <1>2, <1>5 DEF Whole
  <2>2. FileSound(y) /\ disk[y].size \in 0 .. PageLimit /\ disk[y].size \in 1 .. MaxPages /\ InFlight(y) = {}
    BY <1>0, <1>2, <2>1, HandleFile
  <2>3. Chained(disk[y]) /\ p \in 1 .. disk[y].size - 1 /\ p \notin FreeIn(disk[y])
    BY <1>2, <2>2 DEF FileSound
  <2>4. disk[y].size > p /\ p # 0
    BY <2>2, <2>3
  <2>5. /\ disk'[y].size = disk[y].size /\ disk'[y].first_free = disk[y].first_free
        /\ disk'[y].body = [disk[y].body EXCEPT ![p] = v]
    BY <1>1, <2>4 DEF Becomes
  <2>6. /\ disk'[y].body[p] = v
        /\ \A k \in PageNo \ {p} : disk'[y].body[k] = disk[y].body[k]
    BY <2>1, <2>5, WholeFacts
  <2>7. /\ DOMAIN owned'[y] = DOMAIN owned[y] /\ owned'[y][p] = v
        /\ \A k \in DOMAIN owned[y] \ {p} : owned'[y][k] = owned[y][k]
    BY <1>2, <1>3
  <2>8. DOMAIN owned[y] \subseteq PageNo
    BY Parts
  <2>9. FreeIn(disk[y]) \subseteq PageNo \ {p}
    <3>1. FreeIn(disk[y]) \subseteq 1 .. disk[y].size - 1
      BY <2>2, <2>3, ChainEnds
    <3> QED BY <3>1, <2>2, <2>3, DiskAssumption DEF PageNo
  <2>10. Chained(disk'[y]) /\ FreeIn(disk'[y]) = FreeIn(disk[y])
    <3>1. \A k \in FreeIn(disk[y]) : disk'[y].body[k] = disk[y].body[k]
      BY <2>6, <2>9
    <3>2. disk[y].size <= disk'[y].size
      BY <2>2, <2>5
    <3> QED BY <2>2, <2>5, <2>3, <3>1, <3>2, ChainKept
  <2>11. \A i \in DOMAIN files : files[i].path = y => files[i].num_pages = disk[y].size
    BY <1>2, <2>2, EntryCounts
  <2>12. \A k \in DOMAIN owned'[y] : /\ k \in 1 .. disk'[y].size - 1
                                     /\ disk'[y].body[k] = owned'[y][k]
                                     /\ k \notin FreeIn(disk'[y])
    BY <2>2, <2>5, <2>6, <2>7, <2>8, <2>10 DEF FileSound
  <2>13. \A c \in {"create", "header", "extend", "return"} : ~ Doing(c, y)'
    BY <1>2 DEF Doing, Idle
  <2>14. FileSound(y)'
    BY <1>2, <2>2, <2>5, <2>10, <2>11, <2>12, <2>13 DEF FileSound
  <2>15. InFlight(y)' = {}
    BY <1>2 DEF InFlight, Idle
  <2>16. Lost(y)' \subseteq Lost(y)
    BY <2>2, <2>5, <2>7, <2>10, <2>15, LostIs
  <2> QED BY <1>5, <2>1, <2>14, <2>16 DEF FileKept
<1> QED BY <1>4, <1>5

\* AllocatePage: the file grows by the page in flight.
LEMMA AllocateExtendKeeps ==
  ASSUME DiskInv, AllocateExtend, NEW x \in Whole'
  PROVE  FileKept(x)
<1> USE DEF DiskInv
<1>0. PICK y \in Paths, p \in PageNo : y = op.path /\ p = op.page
  BY AllocateExtendWrites
<1>1. /\ Becomes(disk, disk', y, IF disk[y].size > p THEN disk[y].size ELSE p + 1,
                 IF p = 0 THEN 0 ELSE disk[y].first_free, [disk[y].body EXCEPT ![p] = 0])
      /\ disk[y] \in DbFile
  BY <1>0, AllocateExtendWrites
<1>2. /\ op.call = "extend" /\ op'.call = "return" /\ op'.path = y /\ op'.page = p
      /\ UNCHANGED <<files, owned, torn>> /\ disk[y] # NoFile
  <2>1. op \in [call : {"extend", "return"}, path : Paths, page : PageNo, for : Paths]
    BY OpFields DEF AllocateExtend
  <2> QED BY <1>0, <1>1, <2>1, ImageExists DEF AllocateExtend
<1>3. CASE x # y
  <2>1. \A z \in Paths \ {y} : disk'[z] = disk[z] /\ owned'[z] = owned[z]
    BY <1>1, <1>2 DEF Becomes
  <2> QED BY <1>0, <1>2, <1>3, <2>1, OthersKept
<1>4. CASE x = y
  <2>1. y \in Whole
    BY <1>2, <1>4 DEF Whole
  <2>2. /\ FileSound(y) /\ disk[y].size \in 0 .. PageLimit /\ disk[y].size \in Nat
        /\ disk[y].body \in [PageNo -> PageNo]
    BY <2>1, WholeFacts
  <2>3. Doing("extend", y) /\ ~ Doing("create", y)
    BY <1>0, <1>2 DEF Doing
  <2>4. disk[y].size # 0 /\ p = disk[y].size /\ disk[y].size < MaxPages /\ Chained(disk[y])
    BY <1>0, <2>2, <2>3 DEF FileSound
  <2>5. /\ disk'[y].size = disk[y].size + 1 /\ disk'[y].first_free = disk[y].first_free
        /\ disk'[y].body = [disk[y].body EXCEPT ![p] = 0]
    BY <1>1, <2>2, <2>4 DEF Becomes
  <2>6. \A k \in PageNo \ {p} : disk'[y].body[k] = disk[y].body[k]
    BY <2>2, <2>5
  <2>7. FreeIn(disk[y]) \subseteq 1 .. disk[y].size - 1 /\ DOMAIN owned[y] \subseteq 1 .. disk[y].size - 1
    BY <2>2, <2>4, ChainEnds DEF FileSound
  <2>8. 1 .. disk[y].size - 1 \subseteq PageNo \ {p}
    BY <2>2, <2>4, DiskAssumption DEF PageNo
  <2>9. disk'[y].size \in 0 .. PageLimit /\ disk'[y].size \in Nat /\ disk[y].size <= disk'[y].size /\ disk'[y].size <= MaxPages
    BY <2>2, <2>4, <2>5, DiskAssumption
  <2>10. Chained(disk'[y]) /\ FreeIn(disk'[y]) = FreeIn(disk[y])
    <3>1. \A k \in FreeIn(disk[y]) : disk'[y].body[k] = disk[y].body[k]
      BY <2>6, <2>7, <2>8
    <3> QED BY <2>2, <2>4, <2>5, <2>9, <3>1, ChainKept
  <2>11. p \in 1 .. disk'[y].size - 1 /\ p \notin DOMAIN owned[y] /\ p \notin FreeIn(disk[y])
    BY <2>2, <2>4, <2>5, <2>7, <2>8
  <2>12. \A i \in DOMAIN files : files[i].path = y => files[i].num_pages = disk'[y].size
    BY <2>2, <2>3, <2>5 DEF FileSound
  <2>13. \A k \in DOMAIN owned[y] : /\ k \in 1 .. disk'[y].size - 1
                                    /\ disk'[y].body[k] = owned[y][k]
                                    /\ k \notin FreeIn(disk'[y])
    <3> SUFFICES ASSUME NEW k \in DOMAIN owned[y]
                 PROVE  /\ k \in 1 .. disk'[y].size - 1
                        /\ disk'[y].body[k] = owned[y][k]
                        /\ k \notin FreeIn(disk'[y])
      OBVIOUS
    <3>1. k \in 1 .. disk[y].size - 1 /\ disk[y].body[k] = owned[y][k] /\ k \notin FreeIn(disk[y])
      BY <2>2 DEF FileSound
    <3>2. k \in 1 .. disk'[y].size - 1
      BY <3>1, <2>2, <2>5
    <3>3. disk'[y].body[k] = disk[y].body[k]
      BY <3>1, <2>6, <2>8
    <3> QED BY <3>1, <3>2, <3>3, <2>10
  <2>14. disk'[y].size # 0
    BY <2>2, <2>5
  <2>15. FileSound(y)'
    BY <1>2, <2>9, <2>10, <2>11, <2>12, <2>13, <2>14 DEF FileSound, Doing
  <2>16. InFlight(y)' = {p} /\ InFlight(y) = {}
    BY <1>2 DEF InFlight
  <2>17. 1 .. disk'[y].size - 1 = (1 .. disk[y].size - 1) \cup {p}
    BY <2>2, <2>4, <2>5
  <2>18. Lost(y)' \subseteq Lost(y)
    BY <1>2, <2>10, <2>16, <2>17, LostIs
  <2> QED BY <1>4, <2>1, <2>15, <2>18 DEF FileKept
<1> QED BY <1>3, <1>4

\* AllocatePage returns: the page in flight has an owner.
LEMMA AllocateReturnKeeps ==
  ASSUME DiskInv, AllocateReturn, NEW x \in Whole'
  PROVE  FileKept(x)
<1> USE DEF DiskInv
<1>a. op \in [call : {"extend", "return"}, path : Paths, page : PageNo, for : Paths] /\ op # Idle
  BY OpFields DEF AllocateReturn, Idle
<1>0. PICK y \in Paths, p \in PageNo : y = op.path /\ p = op.page /\ y = op.for
  BY <1>a DEF AllocateReturn, CallInv
<1>1. op.call = "return" /\ op' = Idle /\ UNCHANGED <<disk, files, torn>>
  BY DEF AllocateReturn
<1>2. /\ \A z \in Paths \ {y} : owned'[z] = owned[z]
      /\ owned'[y] = With(owned[y], p, disk[y].body[p])
  BY <1>0 DEF AllocateReturn, TypeOK
<1>3. CASE x # y
  <2>1. \A z \in Paths \ {y} : disk'[z] = disk[z] /\ owned'[z] = owned[z]
    BY <1>1, <1>2
  <2> QED BY <1>0, <1>1, <1>3, <2>1, OthersKept
<1>4. CASE x = y
  <2>1. y \in Whole
    BY <1>1, <1>4 DEF Whole
  <2>2. FileSound(y)
    BY <2>1
  <2>3. Doing("return", y) /\ ~ Doing("create", y) /\ ~ Doing("extend", y)
    BY <1>0, <1>1 DEF Doing
  <2>4. p \in 1 .. disk[y].size - 1 /\ p \notin DOMAIN owned[y] /\ p \notin FreeIn(disk[y])
    BY <1>0, <2>2, <2>3 DEF FileSound
  <2>5. /\ DOMAIN owned'[y] = DOMAIN owned[y] \cup {p} /\ owned'[y][p] = disk[y].body[p]
        /\ \A k \in DOMAIN owned[y] : owned'[y][k] = IF k = p THEN disk[y].body[p] ELSE owned[y][k]
    BY <1>2 DEF With
  <2>6. \A k \in DOMAIN owned'[y] : /\ k \in 1 .. disk[y].size - 1
                                    /\ disk[y].body[k] = owned'[y][k]
                                    /\ k \notin FreeIn(disk[y])
    BY <2>2, <2>4, <2>5 DEF FileSound
  <2>7. \A i \in DOMAIN files : files[i].path = y => files[i].num_pages = disk[y].size
    BY <2>2, <2>3 DEF FileSound
  <2>8. \A c \in {"create", "header", "extend", "return"} : ~ Doing(c, y)'
    BY <1>1 DEF Doing, Idle
  <2>9. disk[y].size # 0 /\ disk[y].size <= MaxPages /\ Chained(disk[y])
    BY <2>2, <2>3 DEF FileSound
  <2>10. FileSound(y)'
    BY <1>1, <2>6, <2>7, <2>8, <2>9 DEF FileSound
  <2>11. InFlight(y)' = {} /\ InFlight(y) = {p}
    BY <1>0, <1>1 DEF InFlight, Idle
  <2>12. Lost(y)' \subseteq Lost(y)
    BY <1>1, <2>5, <2>11, LostIs
  <2> QED BY <1>4, <2>1, <2>10, <2>12 DEF FileKept
<1> QED BY <1>3, <1>4

\* DeallocatePage: the header names the page in flight, which links to the rest.
LEMMA DeallocateHeaderKeeps ==
  ASSUME DiskInv, DeallocateHeader, NEW x \in Whole'
  PROVE  FileKept(x)
<1> USE DEF DiskInv
<1>0. PICK y \in Paths, p \in PageNo : y = op.path /\ p = op.page
  BY DeallocateHeaderWrites
<1>1. Becomes(disk, disk', y, disk[y].size, p, disk[y].body) /\ disk[y] \in DbFile
  BY <1>0, DeallocateHeaderWrites
<1>2. op.call = "header" /\ op' = Idle /\ UNCHANGED <<files, owned, torn>> /\ disk[y] # NoFile
  BY <1>1, ImageExists DEF DeallocateHeader
<1>3. CASE x # y
  <2>1. \A z \in Paths \ {y} : disk'[z] = disk[z] /\ owned'[z] = owned[z]
    BY <1>1, <1>2 DEF Becomes
  <2> QED BY <1>0, <1>2, <1>3, <2>1, OthersKept
<1>4. CASE x = y
  <2>1. y \in Whole
    BY <1>2, <1>4 DEF Whole
  <2>2. FileSound(y) /\ disk[y].size \in 0 .. PageLimit
    BY <2>1, WholeFacts
  <2>3. Doing("header", y) /\ ~ Doing("create", y) /\ ~ Doing("extend", y)
    BY <1>0, <1>2 DEF Doing
  <2>4. /\ p \in 1 .. disk[y].size - 1 /\ p \notin DOMAIN owned[y] /\ p \notin FreeIn(disk[y])
        /\ disk[y].body[p] = disk[y].first_free /\ Chained(disk[y])
    BY <1>0, <2>2, <2>3 DEF FileSound
  <2>5. disk'[y].size = disk[y].size /\ disk'[y].first_free = p /\ disk'[y].body = disk[y].body
    BY <1>1 DEF Becomes
  <2>6. Chained(disk'[y]) /\ FreeIn(disk'[y]) = FreeIn(disk[y]) \cup {p}
    BY <2>2, <2>4, <2>5, ChainPush
  <2>7. \A i \in DOMAIN files : files[i].path = y => files[i].num_pages = disk[y].size
    BY <2>2, <2>3 DEF FileSound
  <2>8. \A c \in {"create", "header", "extend", "return"} : ~ Doing(c, y)'
    BY <1>2 DEF Doing, Idle
  <2>9. disk[y].size # 0 /\ disk[y].size <= MaxPages
    BY <2>2, <2>3 DEF FileSound
  <2>10. \A k \in DOMAIN owned[y] : /\ k \in 1 .. disk'[y].size - 1
                                    /\ disk'[y].body[k] = owned[y][k]
                                    /\ k \notin FreeIn(disk'[y])
    BY <2>2, <2>4, <2>5, <2>6 DEF FileSound
  <2>11. FileSound(y)'
    BY <1>2, <2>5, <2>6, <2>7, <2>8, <2>9, <2>10 DEF FileSound
  <2>12. InFlight(y)' = {} /\ InFlight(y) = {p}
    BY <1>0, <1>2 DEF InFlight, Idle
  <2>13. Lost(y)' \subseteq Lost(y)
    BY <1>2, <2>5, <2>6, <2>12, LostIs
  <2> QED BY <1>4, <2>1, <2>11, <2>13 DEF FileKept
<1> QED BY <1>3, <1>4

\* A crash leaves every whole file sound, and loses no more than the page in flight.
LEMMA CrashKeeps ==
  ASSUME DiskInv, Crash, NEW x \in Whole'
  PROVE  x \in Whole /\ FileSound(x)' /\ Lost(x)' \subseteq Lost(x) \cup InFlight(x)
<1> USE DEF DiskInv
<1>1. UNCHANGED <<disk, owned>> /\ op' = Idle /\ DOMAIN files' = {} /\ torn \subseteq torn'
  BY DEF Crash
<1>2. x \in Whole
  BY <1>1 DEF Whole
<1>3. FileSound(x) /\ disk[x].size \in Nat
  BY <1>2, WholeFacts
<1>4. ~ Doing("create", x)
  BY DEF Crash, Whole, Doing
<1>5. \A c \in {"create", "header", "extend", "return"} : ~ Doing(c, x)'
  BY <1>1 DEF Doing, Idle
<1>6. FileSound(x)'
  BY <1>1, <1>3, <1>4, <1>5 DEF FileSound
<1>7. Lost(x)' \subseteq Lost(x) \cup InFlight(x)
  BY <1>1, LostIs
<1> QED BY <1>2, <1>6, <1>7

\* Every step but a crash keeps every file.
LEMMA FilesKept ==
  ASSUME DiskInv, NoWrap, [Next]_vars, ~ Crash, NEW x \in Whole'
  PROVE  FileKept(x)
<1>1. ASSUME NEW y \in Paths, CreateFileExists(y) PROVE FileKept(x)
  BY <1>1, QuietKeeps DEF CreateFileExists, MutexFree
<1>2. ASSUME NEW y \in Paths, OpenFileAgain(y) PROVE FileKept(x)
  BY <1>2, QuietKeeps DEF OpenFileAgain, MutexFree
<1>3. ASSUME NEW h \in handles, CloseFile(h) PROVE FileKept(x)
  BY <1>3, QuietKeeps DEF CloseFile, MutexFree, Without
<1>4. CASE UNCHANGED vars
  <2>1. x \in Whole /\ FileSound(x)
    BY <1>4 DEF vars, Whole, DiskInv
  <2>2. FileSound(x)'
    BY <1>4, <2>1 DEF vars, FileSound, Doing
  <2>3. InFlight(x)' = InFlight(x)
    BY <1>4 DEF vars, InFlight
  <2>4. Lost(x)' = Lost(x)
    BY <1>4, <2>3, LostIs DEF vars
  <2> QED BY <2>1, <2>2, <2>4 DEF FileKept
<1> QED BY <1>1, <1>2, <1>3, <1>4, CreateFileKeeps, CreateHeaderKeeps, OpenFileKeeps, DeleteFileKeeps,
           AllocateReuseKeeps, AllocateGrowKeeps, AllocateNoHeaderKeeps, DeallocatePageKeeps,
           WritePageKeeps, AllocateExtendKeeps, AllocateReturnKeeps, DeallocateHeaderKeeps DEF Next

-----------------------------------------------------------------------------
(* The theorems.                                                           *)

\* No path has a file at the start.
LEMMA DiskInvInit == Init => DiskInv
<1> SUFFICES ASSUME Init
             PROVE  DiskInv
  OBVIOUS
<1>1. DOMAIN files = {} /\ DOMAIN NoPages = {} /\ Whole = {} /\ op.call = "none"
  BY DEF Init, NoPages, Whole, Idle
<1>2. TypeOK
  <2>1. NoPages \in [{} -> PageNo]
    BY DEF NoPages
  <2>2. NoPages \in UNION {[S -> PageNo] : S \in SUBSET PageNo}
    BY <2>1
  <2>3. owned \in [Paths -> UNION {[S -> PageNo] : S \in SUBSET PageNo}]
    <3>1. owned = [x \in Paths |-> NoPages]
      BY DEF Init
    <3> QED BY <2>2, <3>1
  <2>4. disk \in [Paths -> DbFile \cup {NoFile}]
    BY DEF Init
  <2>5. next_file_id \in FileId /\ opens \in 0 .. MaxOpens /\ crashes \in 0 .. MaxCrashes
    BY DiskAssumption DEF Init, FileId
  <2>6. op = Idle /\ hung \in BOOLEAN /\ handles = {} /\ torn = {}
    BY DEF Init
  <2> QED BY <1>1, <2>3, <2>4, <2>5, <2>6 DEF TypeOK
<1>3. HandleInv
  BY <1>1 DEF Init, HandleInv
<1>4. CallInv
  BY <1>1 DEF Init, CallInv
<1> QED BY <1>1, <1>2, <1>3, <1>4 DEF DiskInv

\* Every step keeps the invariant.
LEMMA DiskInvNext ==
  ASSUME DiskInv, NoWrap, [Next]_vars
  PROVE  DiskInv'
<1>1. TypeOK' /\ HandleInv' /\ CallInv'
  BY TypesKept, HandlesKept, CallKept
<1>2. ASSUME NEW x \in Whole' PROVE FileSound(x)'
  <2>1. CASE Crash
    BY <2>1, CrashKeeps
  <2>2. CASE ~ Crash
    BY <2>2, FilesKept DEF FileKept
  <2> QED BY <2>1, <2>2
<1> QED BY <1>1, <1>2 DEF DiskInv

\* No call of DiskManager changes a page that it was not given, and a file id leads
\* to the file it was got for, as long as neither counter wraps.
THEOREM OwnersCorrect ==
  ASSUME NoWrap
  PROVE  Spec => []OwnersUndisturbed
<1>1. DiskInv /\ [Next]_vars => DiskInv'
  BY DiskInvNext
<1>2. DiskInv => OwnersUndisturbed
  <2> SUFFICES ASSUME DiskInv
               PROVE  OwnersUndisturbed
    OBVIOUS
  <2>1. OwnedPagesIntact
    BY DEF DiskInv, FileSound, OwnedPagesIntact
  <2>2. HandlesStayValid
    BY HandleFacts DEF DiskInv, HandlesStayValid
  <2> QED BY <2>1, <2>2 DEF OwnersUndisturbed
<1> QED BY <1>1, <1>2, DiskInvInit, PTL DEF Spec

\* The pages that neither have an owner nor are on the chain nor in flight
LostPages == UNION {{<<x, p>> : p \in Lost(x)} : x \in Whole}

\* One page is lost by one crash.
LostInv == IsFiniteSet(LostPages) /\ Cardinality(LostPages) <= crashes

\* A page is in LostPages when it is lost to its whole file.
LEMMA LostMember ==
  ASSUME NEW z
  PROVE  /\ z \in LostPages <=> \E x \in Whole : \E p \in Lost(x) : z = <<x, p>>
         /\ z \in LostPages' <=> \E x \in Whole' : \E p \in Lost(x)' : z = <<x, p>>
BY DEF LostPages

\* Only a crash adds to the lost pages, and it adds one at most.
LEMMA LostInvNext ==
  ASSUME DiskInv, NoWrap, LostInv, [Next]_vars
  PROVE  LostInv'
<1>0. crashes \in Nat
  BY DEF DiskInv, TypeOK
<1>1. CASE ~ Crash
  <2>1. LostPages' \subseteq LostPages
    <3> SUFFICES ASSUME NEW z, z \in LostPages'
                 PROVE  z \in LostPages
      OBVIOUS
    <3>1. PICK x \in Whole' : \E p \in Lost(x)' : z = <<x, p>>
      BY LostMember
    <3>2. FileKept(x)
      BY <1>1, FilesKept
    <3>3. x \in Whole /\ Lost(x)' \subseteq Lost(x)
      BY <3>1, <3>2 DEF FileKept
    <3> QED BY <3>1, <3>3, LostMember
  <2>2. crashes' = crashes
    BY <1>1 DEF Next, CreateFile, CreateFileExists, OpenFile, OpenFileAgain, CloseFile, DeleteFile,
                AllocateReuse, AllocateGrow, AllocateNoHeader, DeallocatePage, WritePage, CreateHeader,
                AllocateExtend, AllocateReturn, DeallocateHeader, vars
  <2>3. IsFiniteSet(LostPages') /\ Cardinality(LostPages') <= Cardinality(LostPages)
    BY <2>1, FS_Subset DEF LostInv
  <2>4. Cardinality(LostPages) \in Nat /\ Cardinality(LostPages') \in Nat
    BY <2>3, FS_CardinalityType DEF LostInv
  <2> QED BY <1>0, <2>2, <2>3, <2>4 DEF LostInv
<1>2. CASE Crash
  <2> DEFINE one == <<op.path, op.page>>
  <2>1. LostPages' \subseteq LostPages \cup {one}
    <3> SUFFICES ASSUME NEW z, z \in LostPages'
                 PROVE  z \in LostPages \cup {one}
      OBVIOUS
    <3>1. PICK x \in Whole' : \E p \in Lost(x)' : z = <<x, p>>
      BY LostMember
    <3>2. PICK p \in Lost(x)' : z = <<x, p>>
      BY <3>1
    <3>3. x \in Whole /\ (p \in Lost(x) \/ p \in InFlight(x))
      BY <1>2, CrashKeeps
    <3>4. p \in InFlight(x) => x = op.path /\ p = op.page
      BY DEF InFlight
    <3> QED BY <3>2, <3>3, <3>4, LostMember
  <2>2. crashes' = crashes + 1
    BY <1>2 DEF Crash
  <2> HIDE DEF one
  <2>3. IsFiniteSet(LostPages)
    BY DEF LostInv
  <2>4. /\ IsFiniteSet(LostPages \cup {one})
        /\ Cardinality(LostPages \cup {one}) = IF one \in LostPages THEN Cardinality(LostPages)
                                                                   ELSE Cardinality(LostPages) + 1
    BY <2>3, FS_AddElement
  <2>5. IsFiniteSet(LostPages') /\ Cardinality(LostPages') <= Cardinality(LostPages \cup {one})
    BY <2>1, <2>4, FS_Subset
  <2>6. Cardinality(LostPages) \in Nat /\ Cardinality(LostPages') \in Nat
    BY <2>3, <2>5, FS_CardinalityType
  <2> QED BY <1>0, <2>2, <2>4, <2>5, <2>6 DEF LostInv
<1> QED BY <1>1, <1>2

\* The free chain of every whole file ends, stays in the file and meets no page in
\* use, and a page is lost by a crash only, one by each, as long as neither counter
\* wraps.
THEOREM FreePagesCorrect ==
  ASSUME NoWrap
  PROVE  Spec => []FreePagesAccountedFor
<1>1. Init => LostInv
  <2> SUFFICES ASSUME Init
               PROVE  LostInv
    OBVIOUS
  <2>1. LostPages = {} /\ crashes = 0
    BY DEF Init, LostPages, Whole
  <2> QED BY <2>1, FS_EmptySet DEF LostInv
<1>2. DiskInv /\ LostInv /\ [Next]_vars => DiskInv' /\ LostInv'
  BY DiskInvNext, LostInvNext
<1>3. DiskInv /\ LostInv => FreePagesAccountedFor
  <2> SUFFICES ASSUME DiskInv, LostInv
               PROVE  FreePagesAccountedFor
    OBVIOUS
  <2>1. ASSUME NEW x \in Whole
        PROVE  /\ Chain(x)[PageLimit] = 0
               /\ \A p \in FreeList(x) : p < disk[x].size /\ p \notin DOMAIN owned[x]
    <3>1. FileSound(x) /\ disk[x].size \in 0 .. PageLimit /\ disk[x].size \in Nat
      BY WholeFacts DEF DiskInv
    <3>2. ChainFrom(disk[x])[PageLimit] = 0 /\ FreeIn(disk[x]) \subseteq 1 .. disk[x].size - 1
      BY <3>1, ChainEnds DEF FileSound
    <3>3. \A p \in FreeIn(disk[x]) : p < disk[x].size
      BY <3>1, <3>2
    <3>4. \A p \in FreeIn(disk[x]) : p \notin DOMAIN owned[x]
      BY <3>1 DEF FileSound
    <3> QED BY <3>2, <3>3, <3>4, FreeListIs
  <2>2. FreeChainSound
    BY <2>1 DEF FreeChainSound
  <2>3. CrashLosesOnePage
    BY DEF LostInv, LostPages, CrashLosesOnePage
  <2> QED BY <2>2, <2>3 DEF FreePagesAccountedFor, DiskInv
<1> QED BY <1>1, <1>2, <1>3, DiskInvInit, PTL DEF Spec
=============================================================================
