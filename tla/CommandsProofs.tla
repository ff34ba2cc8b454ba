---------------------------- MODULE CommandsProofs ----------------------------
(***************************************************************************)
(* Proofs about the statements that change users, privileges and tables,   *)
(* for any accounts, objects, tables, sessions and visitors, any limits    *)
(* and any number of statements.                                           *)
(***************************************************************************)
EXTENDS Commands, Queries, FiniteSetTheorems, SequenceTheorems, WellFoundedInduction, TLAPS

-----------------------------------------------------------------------------
(* Numbers and induction.                                                  *)

\* A nonempty set of numbers has a least element.
LEMMA SomeLeast ==
  ASSUME NEW S, S \subseteq Nat, S # {}
  PROVE  \E k \in S : \A j \in S : k <= j
<1>1. PICK k \in S : \A j \in S : ~(<<j, k>> \in OpToRel(<, Nat))
  BY WFMin, NatLessThanWellFounded
<1>2. \A j \in S : ~(j < k)
  BY <1>1 DEF OpToRel
<1> QED BY <1>2

\* Induction up to a number: a set that holds 0, and the next number after each of its
\* numbers, holds all of 0 .. n.
LEMMA UpTo ==
  ASSUME NEW n \in Nat, NEW S, 0 \in S, \A m \in 0 .. n - 1 : m \in S => m + 1 \in S
  PROVE  \A m \in 0 .. n : m \in S
<1> DEFINE Missing == {m \in 0 .. n : m \notin S}
<1>1. ASSUME Missing # {} PROVE FALSE
  <2>0. Missing \subseteq Nat
    OBVIOUS
  <2>1. PICK k \in Missing : \A j \in Missing : k <= j
    <3> HIDE DEF Missing
    <3> QED BY <1>1, <2>0, SomeLeast
  <2>2. k \in 0 .. n /\ k \notin S /\ k # 0
    BY <2>1
  <2>3. k - 1 \in 0 .. n - 1 /\ k - 1 \in 0 .. n /\ ~(k <= k - 1)
    BY <2>2
  <2>4. k - 1 \notin Missing
    BY <2>1, <2>3
  <2>5. k - 1 \in S
    BY <2>3, <2>4
  <2>6. (k - 1) + 1 \in S
    BY <2>3, <2>5
  <2> QED BY <2>2, <2>6
<1> QED BY <1>1

-----------------------------------------------------------------------------
(* Sequences of rows.                                                      *)

IsRows(s) == s \in Seq(ToSet(s))

\* What a sequence over any set is.
LEMMA RowsOf ==
  ASSUME NEW S, NEW s \in Seq(S)
  PROVE  /\ IsRows(s)
         /\ ToSet(s) \subseteq S
         /\ DOMAIN s = 1 .. Len(s) /\ Len(s) \in Nat
         /\ \A i \in DOMAIN s : s[i] \in ToSet(s)
<1>1. DOMAIN s = 1 .. Len(s) /\ Len(s) \in Nat /\ s = [i \in 1 .. Len(s) |-> s[i]]
  OBVIOUS
<1>2. \A i \in DOMAIN s : s[i] \in ToSet(s)
  BY DEF ToSet
<1>3. s \in Seq(ToSet(s))
  BY <1>1, <1>2, SeqDef
<1>4. ToSet(s) \subseteq S
  BY <1>1 DEF ToSet
<1> QED BY <1>1, <1>2, <1>3, <1>4 DEF IsRows

\* Appending a row
LEMMA AppendRows ==
  ASSUME NEW s, IsRows(s), NEW r
  PROVE  /\ IsRows(Append(s, r))
         /\ ToSet(Append(s, r)) = ToSet(s) \cup {r}
         /\ DOMAIN Append(s, r) = 1 .. Len(s) + 1
         /\ \A i \in DOMAIN s : Append(s, r)[i] = s[i]
         /\ Append(s, r)[Len(s) + 1] = r
<1> DEFINE S == ToSet(s) \cup {r}
           t == Append(s, r)
<1>1. s \in Seq(S) /\ r \in S
  <2>1. s \in Seq(ToSet(s)) /\ ToSet(s) \subseteq S
    BY DEF IsRows
  <2> HIDE DEF S
  <2>2. s \in Seq(S)
    BY <2>1
  <2> QED BY <2>2 DEF S
<1>2. /\ t \in Seq(S) /\ Len(s) \in Nat /\ DOMAIN s = 1 .. Len(s)
      /\ DOMAIN t = 1 .. Len(s) + 1 /\ Len(t) = Len(s) + 1
      /\ \A i \in 1 .. Len(s) : t[i] = s[i]
      /\ t[Len(s) + 1] = r
  <2> HIDE DEF S
  <2> QED BY <1>1
<1> HIDE DEF t
<1>3. IsRows(t) /\ ToSet(t) \subseteq S
  BY <1>2, RowsOf
<1>4. S \subseteq ToSet(t)
  <2>1. \A i \in DOMAIN s : s[i] \in ToSet(t)
    BY <1>2 DEF ToSet
  <2>2. r \in ToSet(t)
    BY <1>2 DEF ToSet
  <2> QED BY <2>1, <2>2 DEF ToSet
<1> QED BY <1>2, <1>3, <1>4 DEF t

\* Replacing a row
LEMMA ReplaceRow ==
  ASSUME NEW s, IsRows(s), NEW i \in DOMAIN s, NEW r
  PROVE  /\ IsRows([s EXCEPT ![i] = r])
         /\ DOMAIN [s EXCEPT ![i] = r] = DOMAIN s
         /\ [s EXCEPT ![i] = r][i] = r
         /\ \A j \in DOMAIN s : j # i => [s EXCEPT ![i] = r][j] = s[j]
         /\ \A q \in ToSet([s EXCEPT ![i] = r]) : q = r \/ \E j \in DOMAIN s : j # i /\ q = s[j]
<1> DEFINE S == ToSet(s) \cup {r}
           t == [s EXCEPT ![i] = r]
<1>1. s \in Seq(S) /\ r \in S
  <2>1. s \in Seq(ToSet(s)) /\ ToSet(s) \subseteq S
    BY DEF IsRows
  <2> HIDE DEF S
  <2>2. s \in Seq(S)
    BY <2>1
  <2> QED BY <2>2 DEF S
<1>2. t \in Seq(S) /\ DOMAIN t = DOMAIN s /\ t[i] = r /\ \A j \in DOMAIN s : j # i => t[j] = s[j]
  <2> HIDE DEF S
  <2> QED BY <1>1
<1> HIDE DEF t
<1>3. IsRows(t)
  BY <1>2, RowsOf
<1>4. \A q \in ToSet(t) : q = r \/ \E j \in DOMAIN s : j # i /\ q = s[j]
  BY <1>2 DEF ToSet
<1> QED BY <1>2, <1>3, <1>4 DEF t

-----------------------------------------------------------------------------
(* Deleting rows.                                                          *)

\* f is what the recursion of Delete computes, up to row n.
Deletes(f, rws, gone, n) ==
  f = [m \in 0 .. n |-> IF m = 0 THEN <<>>
                        ELSE IF rws[m] \in gone THEN f[m - 1] ELSE Append(f[m - 1], rws[m])]

\* The recursion has a solution.
LEMMA DeletesExists ==
  ASSUME NEW rws, NEW gone, NEW n \in Nat
  PROVE  \E f : Deletes(f, rws, gone, n)
<1> DEFINE S == {m \in Nat : \E f : Deletes(f, rws, gone, m)}
<1>1. 0 \in S
  <2> DEFINE f == [m \in 0 .. 0 |-> <<>>]
  <2>1. f = [m \in 0 .. 0 |-> IF m = 0 THEN <<>>
                             ELSE IF rws[m] \in gone THEN f[m - 1] ELSE Append(f[m - 1], rws[m])]
    OBVIOUS
  <2>2. Deletes(f, rws, gone, 0)
    BY <2>1 DEF Deletes
  <2> QED BY <2>2
<1>2. ASSUME NEW k \in 0 .. n - 1, k \in S
      PROVE  k + 1 \in S
  <2>1. PICK g : Deletes(g, rws, gone, k)
    BY <1>2
  <2> DEFINE top == IF rws[k + 1] \in gone THEN g[k] ELSE Append(g[k], rws[k + 1])
             f == [m \in 0 .. k + 1 |-> IF m = k + 1 THEN top ELSE g[m]]
             F(m) == IF m = 0 THEN <<>>
                     ELSE IF rws[m] \in gone THEN f[m - 1] ELSE Append(f[m - 1], rws[m])
  <2>2. ASSUME NEW m \in 0 .. k + 1
        PROVE  f[m] = F(m)
    <3>1. CASE m = k + 1
      <4>1. m - 1 = k /\ m # 0 /\ f[m - 1] = g[k] /\ f[m] = top
        BY <3>1
      <4> HIDE DEF f
      <4> QED BY <3>1, <4>1
    <3>2. CASE m # k + 1
      <4>1. m \in 0 .. k /\ f[m] = g[m]
        BY <3>2
      <4>2. m # 0 => m - 1 \in 0 .. k + 1 /\ m - 1 # k + 1 /\ f[m - 1] = g[m - 1]
        BY <4>1
      <4>3. g[m] = IF m = 0 THEN <<>>
                   ELSE IF rws[m] \in gone THEN g[m - 1] ELSE Append(g[m - 1], rws[m])
        BY <2>1, <4>1 DEF Deletes
      <4> HIDE DEF f
      <4> QED BY <4>1, <4>2, <4>3
    <3> QED BY <3>1, <3>2
  <2>3. f = [m \in 0 .. k + 1 |-> F(m)]
    <3>1. f = [m \in 0 .. k + 1 |-> f[m]]
      OBVIOUS
    <3> HIDE DEF f, F
    <3> QED BY <2>2, <3>1
  <2>4. Deletes(f, rws, gone, k + 1)
    BY <2>3 DEF Deletes
  <2> QED BY <2>4
<1>3. n \in S
  <2> HIDE DEF S
  <2> QED BY <1>1, <1>2, UpTo
<1> QED BY <1>3

\* What it computes, row after row: the rows kept so far, none twice, and all of them
\* when none is gone.
DeletesSoFar(d, rws, gone, n) ==
  /\ d \in Seq(ToSet(rws))
  /\ \A i \in DOMAIN d : \E k \in 1 .. n : d[i] = rws[k] /\ rws[k] \notin gone
  /\ \A k \in 1 .. n : rws[k] \notin gone => \E i \in DOMAIN d : d[i] = rws[k]
  /\ \A i, j \in DOMAIN d : i # j => \E k, l \in 1 .. n : k # l /\ d[i] = rws[k] /\ d[j] = rws[l]
  /\ (\A k \in 1 .. n : rws[k] \notin gone) => d = SubSeq(rws, 1, n)

\* One more row
LEMMA DeletesStep ==
  ASSUME NEW rws, IsRows(rws), NEW gone, NEW d, NEW n \in Nat, n + 1 \in DOMAIN rws,
         DeletesSoFar(d, rws, gone, n)
  PROVE  DeletesSoFar(IF rws[n + 1] \in gone THEN d ELSE Append(d, rws[n + 1]), rws, gone, n + 1)
<1> DEFINE r == rws[n + 1]
           S == ToSet(rws)
<1>0. d \in Seq(S) /\ rws \in Seq(S) /\ r \in S /\ Len(d) \in Nat /\ DOMAIN d = 1 .. Len(d)
  BY DEF DeletesSoFar, IsRows, ToSet
<1>1. CASE r \in gone
  BY <1>1 DEF DeletesSoFar
<1>2. CASE r \notin gone
  <2> DEFINE e == Append(d, r)
  <2>1. /\ e \in Seq(S) /\ DOMAIN e = 1 .. Len(d) + 1
        /\ \A i \in DOMAIN d : e[i] = d[i]
        /\ e[Len(d) + 1] = r
    <3> HIDE DEF S, r
    <3> QED BY <1>0
  <2> HIDE DEF e
  <2>2. ASSUME NEW i \in DOMAIN e
        PROVE  \E k \in 1 .. n + 1 : e[i] = rws[k] /\ rws[k] \notin gone
    <3>1. CASE i \in DOMAIN d
      <4>1. PICK k \in 1 .. n : d[i] = rws[k] /\ rws[k] \notin gone
        BY <3>1 DEF DeletesSoFar
      <4> QED BY <4>1, <2>1, <3>1
    <3>2. CASE i = Len(d) + 1
      BY <1>2, <2>1, <3>2
    <3> QED BY <1>0, <2>1, <3>1, <3>2
  <2>3. ASSUME NEW k \in 1 .. n + 1, rws[k] \notin gone
        PROVE  \E i \in DOMAIN e : e[i] = rws[k]
    <3>1. CASE k \in 1 .. n
      <4>1. PICK i \in DOMAIN d : d[i] = rws[k]
        BY <2>3, <3>1 DEF DeletesSoFar
      <4> QED BY <4>1, <1>0, <2>1
    <3>2. CASE k = n + 1
      BY <2>1, <3>2, <1>0
    <3> QED BY <3>1, <3>2
  <2>4. ASSUME NEW i \in DOMAIN e, NEW j \in DOMAIN e, i # j
        PROVE  \E k, l \in 1 .. n + 1 : k # l /\ e[i] = rws[k] /\ e[j] = rws[l]
    <3>1. CASE i \in DOMAIN d /\ j \in DOMAIN d
      <4>1. PICK k \in 1 .. n, l \in 1 .. n : k # l /\ d[i] = rws[k] /\ d[j] = rws[l]
        BY <2>4, <3>1 DEF DeletesSoFar
      <4> QED BY <4>1, <2>1, <3>1
    <3>2. CASE i \in DOMAIN d /\ j = Len(d) + 1
      <4>1. PICK k \in 1 .. n : d[i] = rws[k]
        BY <3>2 DEF DeletesSoFar
      <4> QED BY <4>1, <2>1, <3>2
    <3>3. CASE j \in DOMAIN d /\ i = Len(d) + 1
      <4>1. PICK k \in 1 .. n : d[j] = rws[k]
        BY <3>3 DEF DeletesSoFar
      <4>2. k \in 1 .. n + 1 /\ n + 1 \in 1 .. n + 1 /\ n + 1 # k
        OBVIOUS
      <4> QED BY <4>1, <4>2, <2>1, <3>3
    <3> QED BY <1>0, <2>1, <2>4, <3>1, <3>2, <3>3
  <2>5. ASSUME \A k \in 1 .. n + 1 : rws[k] \notin gone
        PROVE  e = SubSeq(rws, 1, n + 1)
    <3>0. \A k \in 1 .. n : rws[k] \notin gone
      BY <2>5
    <3>1. d = SubSeq(rws, 1, n)
      BY <3>0, Zenon DEF DeletesSoFar
    <3>2. n + 1 \in 1 .. Len(rws) /\ Len(rws) \in Nat
      BY <1>0
    <3>3. Append(SubSeq(rws, 1, n), rws[n + 1]) = SubSeq(rws, 1, n + 1)
      <4> HIDE DEF S, r
      <4> QED BY <1>0, <3>2
    <3> QED BY <3>1, <3>3 DEF e
  <2>6. DeletesSoFar(e, rws, gone, n + 1)
    BY <2>1, <2>2, <2>3, <2>4, <2>5, Zenon DEF DeletesSoFar, S
  <2> QED BY <1>2, <2>6 DEF e
<1> QED BY <1>1, <1>2

\* Delete: the rows that are not gone stay, each once; only the last row of a table can
\* be deleted without hanging, and then the others stay as they are.
LEMMA DeleteRows ==
  ASSUME NEW rws, IsRows(rws), NEW gone
  PROVE  /\ IsRows(Delete(rws, gone))
         /\ DeletesSoFar(Delete(rws, gone), rws, gone, Len(rws))
         /\ ~DeletionHangs(rws, gone) /\ rws # <<>> /\ rws[Len(rws)] \in gone =>
               Delete(rws, gone) = SubSeq(rws, 1, Len(rws) - 1)
<1> DEFINE N == Len(rws)
           Eq(k) == [m \in 0 .. N |-> IF m = 0 THEN <<>>
                        ELSE IF rws[m] \in gone THEN k[m - 1] ELSE Append(k[m - 1], rws[m])]
           c == CHOOSE k : k = Eq(k)
<1>0. N \in Nat /\ DOMAIN rws = 1 .. N /\ rws \in Seq(ToSet(rws))
  BY DEF IsRows
<1>1. Delete(rws, gone) = c[N]
  BY DEF Delete
<1>2. c = Eq(c)
  <2>1. PICK k : Deletes(k, rws, gone, N)
    BY <1>0, DeletesExists
  <2>2. k = Eq(k)
    BY <2>1 DEF Deletes
  <2> HIDE DEF Eq
  <2> QED BY <2>2
<1> HIDE DEF c
<1>3. c[0] = <<>>
  BY <1>0, <1>2
<1>4. \A m \in 0 .. N - 1 : c[m + 1] = IF rws[m + 1] \in gone THEN c[m] ELSE Append(c[m], rws[m + 1])
  <2> SUFFICES ASSUME NEW m \in 0 .. N - 1
               PROVE  c[m + 1] = IF rws[m + 1] \in gone THEN c[m] ELSE Append(c[m], rws[m + 1])
    OBVIOUS
  <2>1. m + 1 \in 0 .. N /\ m + 1 # 0 /\ (m + 1) - 1 = m
    BY <1>0
  <2> QED BY <1>2, <2>1
<1> HIDE DEF Eq
<1> DEFINE S == {m \in Nat : DeletesSoFar(c[m], rws, gone, m)}
<1>5. 0 \in S
  <2>1. <<>> \in Seq(ToSet(rws)) /\ DOMAIN <<>> = {} /\ <<>> = SubSeq(rws, 1, 0)
    BY <1>0
  <2>2. DeletesSoFar(<<>>, rws, gone, 0)
    BY <2>1 DEF DeletesSoFar
  <2> QED BY <1>3, <2>2
<1>6. ASSUME NEW m \in 0 .. N - 1, m \in S PROVE m + 1 \in S
  <2>1. m + 1 \in DOMAIN rws /\ m \in Nat
    BY <1>0
  <2>2. DeletesSoFar(c[m], rws, gone, m)
    BY <1>6
  <2>3. DeletesSoFar(c[m + 1], rws, gone, m + 1)
    BY <1>4, <2>1, <2>2, DeletesStep
  <2> QED BY <2>3
<1>7. \A m \in 0 .. N : DeletesSoFar(c[m], rws, gone, m)
  <2> HIDE DEF S
  <2>1. \A m \in 0 .. N : m \in S
    BY <1>0, <1>5, <1>6, UpTo
  <2> QED BY <2>1 DEF S
<1>8. DeletesSoFar(c[N], rws, gone, N) /\ IsRows(c[N])
  <2>1. DeletesSoFar(c[N], rws, gone, N)
    BY <1>0, <1>7
  <2> QED BY <2>1, RowsOf DEF DeletesSoFar
<1>9. ASSUME ~DeletionHangs(rws, gone), rws # <<>>, rws[N] \in gone
      PROVE  c[N] = SubSeq(rws, 1, N - 1)
  <2>1. N - 1 \in 0 .. N - 1 /\ N # 0
    BY <1>0, <1>9
  <2>2. \A k \in 1 .. N - 1 : rws[k] \notin gone
    BY <1>0, <1>9 DEF DeletionHangs
  <2>3. c[N - 1] = SubSeq(rws, 1, N - 1)
    <3>1. N - 1 \in 0 .. N
      BY <1>0, <2>1
    <3>2. DeletesSoFar(c[N - 1], rws, gone, N - 1)
      BY <1>7, <3>1
    <3> QED BY <2>2, <3>2, Zenon DEF DeletesSoFar
  <2>4. c[N] = c[N - 1]
    BY <1>0, <1>4, <1>9, <2>1
  <2> QED BY <2>3, <2>4
<1> QED BY <1>1, <1>8, <1>9

-----------------------------------------------------------------------------
(* The privileges in memory and those in the system tables.                *)

KeyOf(r) == <<r.user, r.host, r.db, r.table>>
Lives(r, gone) == <<r.user, r.host>> \notin gone

IsPriv(r) ==
  r = Priv(r.user, r.host, r.db, r.table, r.privileges) /\ r.privileges \subseteq ALL

\* An account that was never dropped has at most one record of a key.
OneEach(s, gone) ==
  \A i, j \in DOMAIN s : Lives(s[i], gone) /\ KeyOf(s[i]) = KeyOf(s[j]) => i = j

\* How the cache, db_rows in __sys_db and table_rows in __sys_tables_priv belong
\* together, when the accounts in gone have been dropped and the rows in lost_rows went with a
\* GRANT or REVOKE on one table.
Agree(cache, db_rows, table_rows, gone, lost_rows) ==
  /\ IsRows(cache) /\ IsRows(db_rows) /\ IsRows(table_rows)
  /\ \A r \in ToSet(cache) \cup ToSet(db_rows) \cup ToSet(table_rows) : IsPriv(r)
  /\ \A r \in ToSet(db_rows) : r.table = "*"
  /\ \A r \in ToSet(table_rows) : r.table # "*"
  /\ \A r \in ToSet(db_rows) \cup ToSet(table_rows) : Lives(r, gone) => r \in ToSet(cache)
  /\ \A r \in ToSet(cache) : Lives(r, gone) /\ r.privileges # {} =>
        r \in IF r.table = "*" THEN ToSet(db_rows) \cup lost_rows ELSE ToSet(table_rows)
  /\ OneEach(cache, gone)
  /\ OneEach(db_rows, gone)
  /\ OneEach(table_rows, gone)

\* A record is appended whose key no living record has.
LEMMA OneEachAppend ==
  ASSUME NEW s, IsRows(s), NEW gone, NEW rec, OneEach(s, gone),
         \A i \in DOMAIN s : Lives(s[i], gone) => KeyOf(s[i]) # KeyOf(rec)
  PROVE  OneEach(Append(s, rec), gone)
<1> DEFINE t == Append(s, rec)
<1>1. /\ DOMAIN s = 1 .. Len(s) /\ Len(s) \in Nat /\ DOMAIN t = 1 .. Len(s) + 1
      /\ \A i \in DOMAIN s : t[i] = s[i]
      /\ t[Len(s) + 1] = rec
  BY AppendRows DEF IsRows
<1> HIDE DEF t
<1>2. ASSUME NEW i \in DOMAIN t, NEW j \in DOMAIN t,
             Lives(t[i], gone), KeyOf(t[i]) = KeyOf(t[j])
      PROVE  i = j
  <2>0. Lives(t[j], gone)
    BY <1>2 DEF KeyOf, Lives
  <2>1. CASE i \in DOMAIN s /\ j \in DOMAIN s
    BY <1>1, <1>2, <2>1 DEF OneEach
  <2>2. CASE i = Len(s) + 1 /\ j \in DOMAIN s
    BY <1>1, <1>2, <2>0, <2>2
  <2>3. CASE i \in DOMAIN s /\ j = Len(s) + 1
    BY <1>1, <1>2, <2>3
  <2> QED BY <1>1, <2>1, <2>2, <2>3
<1>3. OneEach(t, gone)
  BY <1>2 DEF OneEach
<1> QED BY <1>3 DEF t

\* Rows are deleted.
LEMMA OneEachDelete ==
  ASSUME NEW s, IsRows(s), NEW gone, NEW rws, OneEach(s, gone)
  PROVE  OneEach(Delete(s, rws), gone)
<1> DEFINE t == Delete(s, rws)
<1>1. DeletesSoFar(t, s, rws, Len(s)) /\ DOMAIN s = 1 .. Len(s)
  BY DeleteRows DEF IsRows
<1> HIDE DEF t
<1>2. ASSUME NEW i \in DOMAIN t, NEW j \in DOMAIN t,
             Lives(t[i], gone), KeyOf(t[i]) = KeyOf(t[j]), i # j
      PROVE  FALSE
  <2>1. PICK k \in 1 .. Len(s), l \in 1 .. Len(s) : k # l /\ t[i] = s[k] /\ t[j] = s[l]
    BY <1>1, <1>2, Zenon DEF DeletesSoFar
  <2> QED BY <1>1, <1>2, <2>1 DEF OneEach
<1>3. OneEach(t, gone)
  BY <1>2 DEF OneEach
<1> QED BY <1>3 DEF t

\* A record is replaced by one with its key.
LEMMA OneEachReplace ==
  ASSUME NEW s, IsRows(s), NEW gone, NEW i \in DOMAIN s, NEW rec, OneEach(s, gone),
         KeyOf(rec) = KeyOf(s[i])
  PROVE  OneEach([s EXCEPT ![i] = rec], gone)
<1> DEFINE t == [s EXCEPT ![i] = rec]
<1>1. /\ DOMAIN t = DOMAIN s /\ t[i] = rec
      /\ \A j \in DOMAIN s : j # i => t[j] = s[j]
  BY ReplaceRow
<1> HIDE DEF t
<1>2. \A j \in DOMAIN s : /\ KeyOf(t[j]) = KeyOf(s[j])
                          /\ Lives(t[j], gone) <=> Lives(s[j], gone)
  BY <1>1 DEF KeyOf, Lives
<1>3. OneEach(t, gone)
  BY <1>1, <1>2 DEF OneEach
<1> QED BY <1>3 DEF t

\* What Delete leaves, as a set
LEMMA DeleteSet ==
  ASSUME NEW s, IsRows(s), NEW rws
  PROVE  IsRows(Delete(s, rws)) /\ ToSet(Delete(s, rws)) = ToSet(s) \ rws
<1> DEFINE t == Delete(s, rws)
<1>1. IsRows(t) /\ DeletesSoFar(t, s, rws, Len(s)) /\ DOMAIN s = 1 .. Len(s)
  BY DeleteRows DEF IsRows
<1> HIDE DEF t
<1>2. ToSet(t) \subseteq ToSet(s) \ rws
  BY <1>1 DEF DeletesSoFar, ToSet
<1>3. ASSUME NEW r \in ToSet(s) \ rws
      PROVE  r \in ToSet(t)
  <2>1. PICK k \in DOMAIN s : r = s[k]
    BY DEF ToSet
  <2>2. \E i \in DOMAIN t : t[i] = s[k]
    BY <1>1, <1>3, <2>1 DEF DeletesSoFar
  <2> QED BY <2>1, <2>2 DEF ToSet
<1> QED BY <1>1, <1>2, <1>3 DEF t

\* GRANT on something the account has no record of
LEMMA AgreeAppend ==
  ASSUME NEW c, NEW d, NEW t, NEW gone, NEW lost_rows, Agree(c, d, t, gone, lost_rows), NEW rec, IsPriv(rec),
         \A i \in DOMAIN c : KeyOf(c[i]) # KeyOf(rec)
  PROVE  /\ rec.table = "*" => Agree(Append(c, rec), Append(d, rec), t, gone, lost_rows)
         /\ rec.table # "*" => Agree(Append(c, rec), d, Append(t, rec), gone, lost_rows)
<1>0. IsRows(c) /\ IsRows(d) /\ IsRows(t)
  BY DEF Agree
<1>1. IsRows(Append(c, rec)) /\ ToSet(Append(c, rec)) = ToSet(c) \cup {rec}
  BY <1>0, AppendRows
<1>2. OneEach(Append(c, rec), gone)
  BY <1>0, OneEachAppend DEF Agree
\* The rows of living accounts are in the cache, so none has the new key.
<1>3. ASSUME NEW q, q \in {d, t}, NEW i \in DOMAIN q, Lives(q[i], gone)
      PROVE  KeyOf(q[i]) # KeyOf(rec)
  <2>1. q[i] \in ToSet(c)
    BY <1>3 DEF Agree, ToSet
  <2> QED BY <2>1 DEF ToSet
<1>4. CASE rec.table = "*"
  <2>1. IsRows(Append(d, rec)) /\ ToSet(Append(d, rec)) = ToSet(d) \cup {rec}
    BY <1>0, AppendRows
  <2>2. OneEach(Append(d, rec), gone)
    BY <1>0, <1>3, OneEachAppend DEF Agree
  <2> QED BY <1>1, <1>2, <1>4, <2>1, <2>2 DEF Agree
<1>5. CASE rec.table # "*"
  <2>1. IsRows(Append(t, rec)) /\ ToSet(Append(t, rec)) = ToSet(t) \cup {rec}
    BY <1>0, AppendRows
  <2>2. OneEach(Append(t, rec), gone)
    BY <1>0, <1>3, OneEachAppend DEF Agree
  <2> QED BY <1>1, <1>2, <1>5, <2>1, <2>2 DEF Agree
<1> QED BY <1>4, <1>5

\* GRANT and REVOKE on something the account has a record of: the rows of the key go,
\* those of the whole database with them, and the new record is stored unless nothing is
\* left of it.
LEMMA AgreeReplace ==
  ASSUME NEW c, NEW d, NEW t, NEW gone, NEW lost_rows, Agree(c, d, t, gone, lost_rows), NEW rec, IsPriv(rec),
         NEW i \in DOMAIN c, KeyOf(rec) = KeyOf(c[i]),
         NEW gd, \A r \in ToSet(d) : r \in gd <=>
                    r.user = rec.user /\ r.host = rec.host /\ r.db = rec.db,
         NEW gt, \A r \in ToSet(t) : r \in gt <=> KeyOf(r) = KeyOf(rec),
         NEW lost_rows1, lost_rows1 = IF rec.table = "*" THEN lost_rows ELSE lost_rows \cup gd
  PROVE  LET c1 == [c EXCEPT ![i] = rec]
             d1 == Delete(d, gd)
             t1 == Delete(t, gt)
         IN  /\ rec.privileges = {} => Agree(c1, d1, t1, gone, lost_rows1)
             /\ rec.table = "*" => Agree(c1, Append(d1, rec), t1, gone, lost_rows1)
             /\ rec.table # "*" => Agree(c1, d1, Append(t1, rec), gone, lost_rows1)
<1> DEFINE c1 == [c EXCEPT ![i] = rec]
           d1 == Delete(d, gd)
           t1 == Delete(t, gt)
<1>0. IsRows(c) /\ IsRows(d) /\ IsRows(t)
  BY DEF Agree
<1>1. /\ IsRows(c1) /\ DOMAIN c1 = DOMAIN c /\ c1[i] = rec
      /\ \A j \in DOMAIN c : j # i => c1[j] = c[j]
      /\ \A q \in ToSet(c1) : q = rec \/ \E j \in DOMAIN c : j # i /\ q = c[j]
  BY <1>0, ReplaceRow
<1>2. OneEach(c1, gone)
  BY <1>0, OneEachReplace DEF Agree
<1>3. IsRows(d1) /\ ToSet(d1) = ToSet(d) \ gd /\ OneEach(d1, gone)
  BY <1>0, DeleteSet, OneEachDelete DEF Agree
<1>4. IsRows(t1) /\ ToSet(t1) = ToSet(t) \ gt /\ OneEach(t1, gone)
  BY <1>0, DeleteSet, OneEachDelete DEF Agree
<1> HIDE DEF c1, d1, t1
<1>5. rec \in ToSet(c1)
  BY <1>1 DEF ToSet
<1>6. \A r \in ToSet(c1) : IsPriv(r)
  BY <1>1 DEF Agree, ToSet
\* What is left in the tables was, and is, in the cache: the record that was replaced
\* has been deleted.
<1>7. ASSUME NEW r \in ToSet(d1) \cup ToSet(t1), Lives(r, gone)
      PROVE  r \in ToSet(c1)
  <2>1. r \in ToSet(c)
    BY <1>3, <1>4, <1>7 DEF Agree
  <2>2. PICK j \in DOMAIN c : r = c[j]
    BY <2>1 DEF ToSet
  <2>3. j # i
    BY <1>3, <1>4, <2>2 DEF KeyOf
  <2> QED BY <1>1, <2>2, <2>3 DEF ToSet
\* What is left of the cache is left in the tables, since it has another key, or has
\* gone with the rows of the database.
<1>8. ASSUME NEW r \in ToSet(c1), r # rec, Lives(r, gone), r.privileges # {}
      PROVE  r \in IF r.table = "*" THEN ToSet(d1) \cup lost_rows1 ELSE ToSet(t1)
  <2>1. PICK j \in DOMAIN c : j # i /\ r = c[j]
    BY <1>1, <1>8
  <2>2. r \in IF r.table = "*" THEN ToSet(d) \cup lost_rows ELSE ToSet(t)
    BY <1>8, <2>1 DEF Agree, ToSet
  <2>3. KeyOf(r) # KeyOf(rec)
    BY <1>8, <2>1 DEF Agree, OneEach
  <2>4. CASE r.table = "*" /\ r \in gd /\ r \in ToSet(d)
    <3>1. rec.table # "*"
      BY <2>3, <2>4 DEF KeyOf
    <3> QED BY <2>4, <3>1
  <2>5. CASE ~(r.table = "*" /\ r \in gd /\ r \in ToSet(d))
    BY <1>3, <1>4, <2>2, <2>3, <2>5
  <2> QED BY <2>4, <2>5
<1>9. /\ \A r \in ToSet(d1) \cup ToSet(t1) : IsPriv(r)
      /\ \A r \in ToSet(d1) : r.table = "*"
      /\ \A r \in ToSet(t1) : r.table # "*"
  BY <1>3, <1>4 DEF Agree
<1>10. ASSUME rec.privileges = {} PROVE Agree(c1, d1, t1, gone, lost_rows1)
  BY <1>1, <1>2, <1>3, <1>4, <1>6, <1>7, <1>8, <1>9, <1>10 DEF Agree
<1>11. ASSUME rec.table = "*" PROVE Agree(c1, Append(d1, rec), t1, gone, lost_rows1)
  <2>1. IsRows(Append(d1, rec)) /\ ToSet(Append(d1, rec)) = ToSet(d1) \cup {rec}
    BY <1>3, AppendRows
  <2>2. \A j \in DOMAIN d1 : KeyOf(d1[j]) # KeyOf(rec)
    BY <1>3 DEF ToSet, KeyOf
  <2>3. OneEach(Append(d1, rec), gone)
    BY <1>3, <2>2, OneEachAppend
  <2> QED BY <1>1, <1>2, <1>3, <1>4, <1>5, <1>6, <1>7, <1>8, <1>9, <1>11, <2>1, <2>3 DEF Agree
<1>12. ASSUME rec.table # "*" PROVE Agree(c1, d1, Append(t1, rec), gone, lost_rows1)
  <2>1. IsRows(Append(t1, rec)) /\ ToSet(Append(t1, rec)) = ToSet(t1) \cup {rec}
    BY <1>4, AppendRows
  <2>2. \A j \in DOMAIN t1 : Lives(t1[j], gone) => KeyOf(t1[j]) # KeyOf(rec)
    BY <1>4 DEF ToSet
  <2>3. OneEach(Append(t1, rec), gone)
    BY <1>4, <2>2, OneEachAppend
  <2> QED BY <1>1, <1>2, <1>3, <1>4, <1>5, <1>6, <1>7, <1>8, <1>9, <1>12, <2>1, <2>3 DEF Agree
<1> QED BY <1>10, <1>11, <1>12 DEF c1, d1, t1

\* Two lists of rows, one behind the other
LEMMA ConcatRows ==
  ASSUME NEW d, NEW t, IsRows(d), IsRows(t)
  PROVE  ToSet(d \o t) \subseteq ToSet(d) \cup ToSet(t)
<1> DEFINE S == ToSet(d) \cup ToSet(t)
<1>1. d \in Seq(S) /\ t \in Seq(S)
  <2>1. d \in Seq(ToSet(d)) /\ t \in Seq(ToSet(t)) /\ ToSet(d) \subseteq S /\ ToSet(t) \subseteq S
    BY DEF IsRows
  <2> HIDE DEF S
  <2> QED BY <2>1
<1>2. d \o t \in Seq(S)
  <2> HIDE DEF S
  <2> QED BY <1>1
<1> HIDE DEF S
<1>3. ToSet(d \o t) \subseteq S
  BY <1>2, RowsOf
<1> QED BY <1>3 DEF S

\* A reload makes the cache what the tables hold.
LEMMA AgreeLoad ==
  ASSUME NEW c, NEW d, NEW t, NEW gone, NEW lost_rows, Agree(c, d, t, gone, lost_rows)
  PROVE  Agree(d \o t, d, t, gone, {})
<1> DEFINE S == ToSet(d) \cup ToSet(t)
           a == d \o t
<1>0. IsRows(d) /\ IsRows(t)
  BY DEF Agree
<1>1. d \in Seq(S) /\ t \in Seq(S)
  <2>1. d \in Seq(ToSet(d)) /\ t \in Seq(ToSet(t)) /\ ToSet(d) \subseteq S /\ ToSet(t) \subseteq S
    BY <1>0 DEF IsRows
  <2> HIDE DEF S
  <2> QED BY <2>1
<1>2. /\ a \in Seq(S) /\ Len(d) \in Nat /\ Len(t) \in Nat /\ DOMAIN a = 1 .. Len(d) + Len(t)
      /\ DOMAIN d = 1 .. Len(d) /\ DOMAIN t = 1 .. Len(t)
      /\ \A i \in 1 .. Len(d) : a[i] = d[i]
      /\ \A i \in 1 .. Len(t) : a[Len(d) + i] = t[i]
  <2> HIDE DEF S
  <2> QED BY <1>1
<1> HIDE DEF a
<1>3. ASSUME NEW i \in DOMAIN a
      PROVE  \/ i \in DOMAIN d /\ a[i] = d[i]
             \/ i - Len(d) \in DOMAIN t /\ a[i] = t[i - Len(d)]
  <2>1. CASE i \in 1 .. Len(d)
    BY <1>2, <2>1
  <2>2. CASE i \notin 1 .. Len(d)
    <3>1. i - Len(d) \in 1 .. Len(t) /\ Len(d) + (i - Len(d)) = i
      BY <1>2, <2>2
    <3> QED BY <1>2, <3>1
  <2> QED BY <2>1, <2>2
<1>4. IsRows(a) /\ ToSet(a) \subseteq S
  BY <1>2, RowsOf
<1>5. S \subseteq ToSet(a)
  <2>1. \A i \in DOMAIN d : d[i] \in ToSet(a)
    BY <1>2 DEF ToSet
  <2>2. ASSUME NEW i \in DOMAIN t PROVE t[i] \in ToSet(a)
    <3>1. Len(d) + i \in DOMAIN a
      BY <1>2
    <3> QED BY <1>2, <3>1 DEF ToSet
  <2> QED BY <2>1, <2>2 DEF ToSet
<1>6. OneEach(a, gone)
  <2>1. ASSUME NEW i \in DOMAIN a, NEW j \in DOMAIN a,
               Lives(a[i], gone), KeyOf(a[i]) = KeyOf(a[j])
        PROVE  i = j
    <3>1. (\A k \in DOMAIN d : d[k].table = "*") /\ (\A k \in DOMAIN t : t[k].table # "*")
      BY DEF Agree, ToSet
    <3>2. a[i].table = a[j].table
      BY <2>1 DEF KeyOf
    <3>3. CASE a[i].table = "*"
      <4>1. /\ i \in DOMAIN d /\ a[i] = d[i]
            /\ j \in DOMAIN d /\ a[j] = d[j]
        BY <1>3, <2>1, <3>1, <3>2, <3>3
      <4> QED BY <2>1, <4>1 DEF Agree, OneEach
    <3>4. CASE a[i].table # "*"
      <4>1. /\ i - Len(d) \in DOMAIN t /\ a[i] = t[i - Len(d)]
            /\ j - Len(d) \in DOMAIN t /\ a[j] = t[j - Len(d)]
        BY <1>3, <2>1, <3>1, <3>2, <3>4
      <4>2. i - Len(d) = j - Len(d)
        BY <2>1, <4>1 DEF Agree, OneEach
      <4> QED BY <1>2, <4>2
    <3> QED BY <3>3, <3>4
  <2> QED BY <2>1 DEF OneEach
<1>7. Agree(a, d, t, gone, {})
  BY <1>4, <1>5, <1>6 DEF Agree
<1> QED BY <1>7 DEF a

\* DROP USER: the cache loses every record of the account, the tables some of its rows.
LEMMA AgreeDrop ==
  ASSUME NEW c, NEW d, NEW t, NEW gone, NEW lost_rows, Agree(c, d, t, gone, lost_rows), NEW u, NEW h,
         NEW gc, \A r \in ToSet(c) : r \in gc <=> SameAccount(r, u, h),
         NEW gd, \A r \in ToSet(d) : r \in gd => SameAccount(r, u, h),
         NEW gt, \A r \in ToSet(t) : r \in gt => SameAccount(r, u, h)
  PROVE  Agree(Delete(c, gc), Delete(d, gd), Delete(t, gt), gone \cup {<<u, h>>}, lost_rows)
<1> DEFINE c1 == Delete(c, gc)
           d1 == Delete(d, gd)
           t1 == Delete(t, gt)
           gone1 == gone \cup {<<u, h>>}
<1>0. IsRows(c) /\ IsRows(d) /\ IsRows(t)
  BY DEF Agree
<1>1. IsRows(c1) /\ ToSet(c1) = ToSet(c) \ gc /\ OneEach(c1, gone)
  BY <1>0, DeleteSet, OneEachDelete DEF Agree
<1>2. IsRows(d1) /\ ToSet(d1) = ToSet(d) \ gd /\ OneEach(d1, gone)
  BY <1>0, DeleteSet, OneEachDelete DEF Agree
<1>3. IsRows(t1) /\ ToSet(t1) = ToSet(t) \ gt /\ OneEach(t1, gone)
  BY <1>0, DeleteSet, OneEachDelete DEF Agree
<1> HIDE DEF c1, d1, t1
<1>4. \A r : Lives(r, gone1) <=> Lives(r, gone) /\ ~SameAccount(r, u, h)
  BY DEF Lives, SameAccount
<1> HIDE DEF gone1
<1>5. OneEach(c1, gone1) /\ OneEach(d1, gone1) /\ OneEach(t1, gone1)
  BY <1>1, <1>2, <1>3, <1>4 DEF OneEach
<1>6. \A r \in ToSet(d1) \cup ToSet(t1) : Lives(r, gone1) => r \in ToSet(c1)
  BY <1>1, <1>2, <1>3, <1>4 DEF Agree
<1>7. \A r \in ToSet(c1) : Lives(r, gone1) /\ r.privileges # {} =>
         r \in IF r.table = "*" THEN ToSet(d1) \cup lost_rows ELSE ToSet(t1)
  BY <1>1, <1>2, <1>3, <1>4 DEF Agree
<1>8. Agree(c1, d1, t1, gone1, lost_rows)
  BY <1>1, <1>2, <1>3, <1>5, <1>6, <1>7 DEF Agree
<1> QED BY <1>8 DEF c1, d1, t1, gone1

-----------------------------------------------------------------------------
(* The invariant of the AuthManager.                                       *)

IsUser(r) == r = User(r.user, r.host, r.password)

UsersInv ==
  /\ IsRows(user_table)
  /\ \A r \in ToSet(user_table) : IsUser(r)
  /\ user_cache = user_table

PrivsInv == Agree(priv_cache, db_table, tables_priv, dropped, narrowed)

Pending == {v \in Visitors : attempt[v] # "away"}
Wrong == {v \in Visitors : attempt[v] = "wrong"}

\* A password found wrong is in the count of the host or will be; the visitors that are
\* past the test are those who can still add to a count that has reached the limit.
CountInv ==
  /\ failure_count \in Nat /\ guesses \in Nat
  /\ expired \in BOOLEAN /\ hung \in BOOLEAN
  /\ attempt \in [Visitors -> {"away", "wrong", "blocked"}]
  /\ failure_count + Cardinality(Pending) <= MaxFailures + Cardinality(Visitors)
  /\ guesses <= (IF expired THEN 0 ELSE failure_count) + Cardinality(Wrong)
  /\ guesses < kMaxAuthFailures + Cardinality(Visitors)

AuthInv == UsersInv /\ PrivsInv /\ CountInv

\* The best match decides, and there is no other.
LEMMA BestDecides ==
  ASSUME NEW s, IsRows(s), NEW u, NEW h, NEW d, NEW t,
         NEW i \in DOMAIN s, Applies(s[i], u, h, d, t),
         \A r \in ToSet(s) : Applies(r, u, h, d, t) /\ r # s[i] =>
            Score(s[i], h, d, t) > Score(r, h, d, t),
         \A j \in DOMAIN s : s[j] = s[i] => i = j
  PROVE  Rights(s, u, h, d, t) = s[i].privileges
<1>1. \A r : Score(r, h, d, t) \in Int
  BY DEF Score
<1>2. DOMAIN s = 1 .. Len(s) /\ Len(s) \in Nat /\ \A j \in DOMAIN s : s[j] \in ToSet(s)
  BY DEF IsRows, ToSet
<1>3. \A j \in DOMAIN s : Applies(s[j], u, h, d, t) /\ j # i =>
         Score(s[i], h, d, t) > Score(s[j], h, d, t)
  BY <1>2
<1>4. IsBestMatch(s, i, u, h, d, t)
  BY <1>2, <1>3 DEF IsBestMatch
<1>5. ASSUME NEW k \in DOMAIN s, IsBestMatch(s, k, u, h, d, t)
      PROVE  k = i
  <2>1. Applies(s[k], u, h, d, t) /\ ~(Score(s[i], h, d, t) > Score(s[k], h, d, t))
    BY <1>1, <1>5 DEF IsBestMatch
  <2> QED BY <1>3, <2>1
<1> QED BY <1>4, <1>5 DEF Rights

\* Only a record that applies gives a right, and it is the most specific one.
LEMMA RightsComeFrom ==
  ASSUME NEW s, IsRows(s), NEW u, NEW h, NEW d, NEW t, NEW p \in Rights(s, u, h, d, t)
  PROVE  \E i \in DOMAIN s : /\ Applies(s[i], u, h, d, t) /\ p \in s[i].privileges
                            /\ \A r \in ToSet(s) : Applies(r, u, h, d, t) =>
                                  Score(s[i], h, d, t) >= Score(r, h, d, t)
<1>1. \A r : Score(r, h, d, t) \in Int
  BY DEF Score
<1>2. PICK i \in DOMAIN s : IsBestMatch(s, i, u, h, d, t) /\ p \in s[i].privileges
  BY DEF Rights
<1>3. ASSUME NEW r \in ToSet(s), Applies(r, u, h, d, t)
      PROVE  Score(s[i], h, d, t) >= Score(r, h, d, t)
  <2>1. PICK j \in DOMAIN s : s[j] = r
    BY DEF ToSet
  <2> QED BY <1>1, <1>2, <1>3, <2>1 DEF IsBestMatch
<1> QED BY <1>2, <1>3 DEF IsBestMatch

\* Two lists of records with no key twice, of which one holds what the other grants: the
\* one that has more decides alike, if no two records are equally specific.
LEMMA SameDecision ==
  ASSUME NEW s, NEW q, IsRows(s), IsRows(q), NEW gone, OneEach(q, gone),
         NEW u, NEW h, NEW d, NEW t,
         \A r \in ToSet(q) : Applies(r, u, h, d, t) => r \in ToSet(s) /\ Lives(r, gone),
         \A r \in ToSet(s) : Applies(r, u, h, d, t) /\ r.privileges # {} => r \in ToSet(q),
         \A r, v \in ToSet(s) : /\ Applies(r, u, h, d, t) /\ Applies(v, u, h, d, t)
                               /\ Score(r, h, d, t) = Score(v, h, d, t) => r = v
  PROVE  Rights(s, u, h, d, t) \subseteq Rights(q, u, h, d, t)
<1> SUFFICES ASSUME NEW p \in Rights(s, u, h, d, t)
             PROVE  p \in Rights(q, u, h, d, t)
  OBVIOUS
<1>1. \A r : Score(r, h, d, t) \in Int
  BY DEF Score
<1>2. PICK i \in DOMAIN s : /\ Applies(s[i], u, h, d, t) /\ p \in s[i].privileges
                            /\ \A r \in ToSet(s) : Applies(r, u, h, d, t) =>
                                  Score(s[i], h, d, t) >= Score(r, h, d, t)
  BY RightsComeFrom
<1>3. s[i] \in ToSet(s)
  BY DEF ToSet
<1>4. PICK k \in DOMAIN q : q[k] = s[i]
  BY <1>2, <1>3 DEF ToSet
<1>5. q[k] \in ToSet(q) /\ Applies(q[k], u, h, d, t) /\ Lives(q[k], gone)
  BY <1>2, <1>4 DEF ToSet
<1>6. ASSUME NEW r \in ToSet(q), Applies(r, u, h, d, t), r # q[k]
      PROVE  Score(q[k], h, d, t) > Score(r, h, d, t)
  <2>1. r \in ToSet(s) /\ Score(s[i], h, d, t) >= Score(r, h, d, t)
    BY <1>2, <1>6
  <2>2. Score(s[i], h, d, t) # Score(r, h, d, t)
    BY <1>2, <1>3, <1>4, <1>6, <2>1
  <2> QED BY <1>1, <1>4, <2>1, <2>2
<1>7. \A j \in DOMAIN q : q[j] = q[k] => k = j
  BY <1>5 DEF OneEach
<1>8. Rights(q, u, h, d, t) = q[k].privileges
  BY <1>5, <1>6, <1>7, BestDecides
<1> QED BY <1>2, <1>4, <1>8

\* What the records have in common decides what the accounts may do.
LEMMA AccessAgrees == PrivsInv => AccessSurvivesReload
<1> SUFFICES ASSUME PrivsInv, NEW a \in Accounts, NEW o \in Objects,
                    \A b \in dropped : b[1] # a[1]
             PROVE  LET now == Rights(priv_cache, a[1], Address, o[1], o[2])
                        later == Rights(Reloaded, a[1], Address, o[1], o[2])
                        known == {r \in ToSet(priv_cache) : Applies(r, a[1], Address, o[1], o[2])}
                    IN  /\ later \subseteq UNION {r.privileges : r \in known}
                        /\ /\ \A q, r \in known :
                                  Score(q, Address, o[1], o[2]) = Score(r, Address, o[1], o[2]) => q = r
                           /\ known \cap narrowed \subseteq ToSet(db_table)
                           => /\ now \subseteq later
                              /\ (\A r \in known : r.privileges # {}) => later \subseteq now
  BY DEF AccessSurvivesReload
<1> DEFINE u == a[1]
           d == o[1]
           t == o[2]
           h == Address
           now == Rights(priv_cache, u, h, d, t)
           later == Rights(Reloaded, u, h, d, t)
           known == {r \in ToSet(priv_cache) : Applies(r, u, h, d, t)}
<1>0. \A r : Applies(r, u, h, d, t) => Lives(r, dropped)
  BY DEF Applies, Lives
<1> HIDE DEF u, d, t, h
<1>1. Agree(priv_cache, db_table, tables_priv, dropped, narrowed)
  BY DEF PrivsInv
<1>2. Agree(Reloaded, db_table, tables_priv, dropped, {})
  BY <1>1, AgreeLoad DEF Reloaded
<1>3. IsRows(priv_cache) /\ IsRows(Reloaded) /\ OneEach(priv_cache, dropped) /\ OneEach(Reloaded, dropped)
  BY <1>1, <1>2 DEF Agree
<1>4. \A r \in ToSet(db_table) \cup ToSet(tables_priv) : Lives(r, dropped) => r \in ToSet(Reloaded)
  BY <1>2 DEF Agree
\* No record is new.
<1>5. ToSet(Reloaded) \subseteq ToSet(db_table) \cup ToSet(tables_priv)
  <2>1. IsRows(db_table) /\ IsRows(tables_priv)
    BY <1>1 DEF Agree
  <2> QED BY <2>1, ConcatRows DEF Reloaded
<1>6. \A r \in ToSet(Reloaded) : Applies(r, u, h, d, t) => r \in known /\ Lives(r, dropped)
  BY <1>0, <1>1, <1>5 DEF Agree
<1>7. later \subseteq UNION {r.privileges : r \in known}
  <2> SUFFICES ASSUME NEW p \in later
               PROVE  p \in UNION {r.privileges : r \in known}
    OBVIOUS
  <2>1. PICK i \in DOMAIN Reloaded : Applies(Reloaded[i], u, h, d, t) /\ p \in Reloaded[i].privileges
    BY <1>3, RightsComeFrom
  <2>2. Reloaded[i] \in known
    BY <1>6, <2>1 DEF ToSet
  <2> QED BY <2>1, <2>2
<1>8. ASSUME \A q, r \in known : Score(q, h, d, t) = Score(r, h, d, t) => q = r,
             known \cap narrowed \subseteq ToSet(db_table)
      PROVE  now \subseteq later /\ ((\A r \in known : r.privileges # {}) => later \subseteq now)
  <2>1. ASSUME NEW r \in known, r.privileges # {}
        PROVE  r \in ToSet(Reloaded)
    <3>1. r \in ToSet(db_table) \cup narrowed \cup ToSet(tables_priv)
      BY <1>0, <1>1, <2>1 DEF Agree
    <3> QED BY <1>0, <1>4, <1>8, <2>1, <3>1
  <2>2. now \subseteq later
    BY <1>3, <1>6, <1>8, <2>1, SameDecision
  <2>3. ASSUME \A r \in known : r.privileges # {}
        PROVE  later \subseteq now
    BY <1>0, <1>3, <1>6, <1>8, <2>1, <2>3, SameDecision
  <2> QED BY <2>2, <2>3
<1> QED BY <1>7, <1>8 DEF u, d, t, h

\* The invariant is stronger than the properties.
LEMMA AuthInvImplies == AuthInv => ReloadKeepsRights /\ GuessesBounded
<1> SUFFICES ASSUME AuthInv PROVE ReloadKeepsRights /\ GuessesBounded
  OBVIOUS
<1>0. IsFiniteSet(Visitors) /\ Cardinality(Visitors) \in Nat /\ MaxFailures \in Nat
  BY AuthAssumption, FS_CardinalityType
<1>1. IsFiniteSet(Pending) /\ Cardinality(Pending) \in Nat
  BY <1>0, FS_Subset, FS_CardinalityType DEF Pending
<1>2. GuessesBounded
  BY DEF AuthInv, CountInv, GuessesBounded
<1>3. failure_count \in 0 .. MaxFailures + Cardinality(Visitors)
  BY <1>0, <1>1 DEF AuthInv, CountInv
<1>4. AuthTypeOK
  BY <1>3 DEF AuthInv, CountInv, UsersInv, PrivsInv, Agree, AuthTypeOK, IsUser, IsPriv, Persisted
<1>5. UsersArePersisted
  BY DEF AuthInv, UsersInv, UsersArePersisted
<1>6. RowsAreCached
  BY DEF AuthInv, PrivsInv, Agree, RowsAreCached, Persisted, Kept, Lives
<1>7. RecordsAreStored
  BY DEF AuthInv, PrivsInv, Agree, RecordsAreStored, Persisted, Kept, Lives
<1>8. AccessSurvivesReload
  BY AccessAgrees DEF AuthInv
<1> QED BY <1>2, <1>4, <1>5, <1>6, <1>7, <1>8 DEF ReloadKeepsRights

\* No visitor, no failure
LEMMA NobodyPending ==
  ASSUME \A v \in Visitors : attempt[v] = "away"
  PROVE  Pending = {} /\ Wrong = {} /\ Cardinality({}) = 0
BY FS_EmptySet DEF Pending, Wrong

\* The first start
LEMMA AuthInit == Initialize => AuthInv
<1> SUFFICES ASSUME Initialize PROVE AuthInv
  OBVIOUS
<1>1. UsersInv
  <2> DEFINE S == {User("root", "localhost", ""), User("root", "%", ""),
                   User("admin", "localhost", "12345"), User("guest", "localhost", "")}
  <2>1. DefaultUsers \in Seq(S)
    BY DEF DefaultUsers
  <2>2. \A r \in S : IsUser(r)
    <3>1. \A u, h, p : IsUser(User(u, h, p))
      BY DEF IsUser, User
    <3> QED BY <3>1
  <2> HIDE DEF S
  <2>3. IsRows(DefaultUsers) /\ ToSet(DefaultUsers) \subseteq S
    BY <2>1, RowsOf
  <2> QED BY <2>2, <2>3 DEF Initialize, UsersInv
<1>2. PrivsInv
  <2> DEFINE S == {Priv("root", "%", "*", "*", ALL), Priv("admin", "localhost", "*", "*", ALL),
                   Priv("guest", "localhost", "*", "*", {"SELECT"})}
  <2>1. DefaultPrivs \in Seq(S)
    BY DEF DefaultPrivs
  <2>2. \A r \in S : IsPriv(r) /\ r.table = "*"
    BY DEF IsPriv, Priv, ALL
  <2> HIDE DEF S
  <2>3. IsRows(DefaultPrivs) /\ ToSet(DefaultPrivs) \subseteq S
    BY <2>1, RowsOf
  <2>4. IsRows(<<>>) /\ ToSet(<<>>) = {}
    BY DEF IsRows, ToSet
  <2>5. DOMAIN DefaultPrivs = 1 .. 3 /\ DOMAIN <<>> = {}
    BY DEF DefaultPrivs
  <2>6. OneEach(DefaultPrivs, {}) /\ OneEach(<<>>, {})
    <3>1. /\ DefaultPrivs[1].user = "root" /\ DefaultPrivs[2].user = "admin"
          /\ DefaultPrivs[3].user = "guest"
      BY DEF DefaultPrivs, Priv
    <3>2. \A i, j \in 1 .. 3 : DefaultPrivs[i].user = DefaultPrivs[j].user => i = j
      BY <3>1
    <3> QED BY <2>5, <3>2 DEF OneEach, KeyOf
  <2>7. Agree(DefaultPrivs, DefaultPrivs, <<>>, {}, {})
    BY <2>2, <2>3, <2>4, <2>6 DEF Agree
  <2> QED BY <2>7 DEF Initialize, PrivsInv
<1>3. CountInv
  <2>1. Pending = {} /\ Wrong = {} /\ Cardinality({}) = 0
    BY NobodyPending DEF Initialize
  <2>2. Cardinality(Visitors) \in Nat /\ MaxFailures \in Nat /\ kMaxAuthFailures \in Nat \ {0}
    BY AuthAssumption, FS_CardinalityType
  <2>3. /\ failure_count \in Nat /\ guesses \in Nat
        /\ expired \in BOOLEAN /\ hung \in BOOLEAN
        /\ attempt \in [Visitors -> {"away", "wrong", "blocked"}]
    BY DEF Initialize
  <2>4. failure_count = 0 /\ guesses = 0 /\ ~expired
    BY DEF Initialize
  <2>5. failure_count + Cardinality(Pending) <= MaxFailures + Cardinality(Visitors)
    BY <2>1, <2>2, <2>4
  <2>6. guesses <= (IF expired THEN 0 ELSE failure_count) + Cardinality(Wrong)
    BY <2>1, <2>4
  <2>7. guesses < kMaxAuthFailures + Cardinality(Visitors)
    BY <2>2, <2>4
  <2> QED BY <2>3, <2>5, <2>6, <2>7 DEF CountInv
<1> QED BY <1>1, <1>2, <1>3 DEF AuthInv

\* The parts of the invariant that an action leaves alone
LEMMA UsersSame == UsersInv /\ UNCHANGED <<user_cache, user_table>> => UsersInv'
BY DEF UsersInv

\* Steps that leave the privilege cache, its tables and the catalog alone
LEMMA PrivsSame == PrivsInv /\ UNCHANGED <<priv_cache, db_table, tables_priv, past>> => PrivsInv'
BY DEF PrivsInv, past

\* Steps that leave the counters and attempts alone
LEMMA CountSame ==
  CountInv /\ UNCHANGED <<failure_count, expired, guesses, attempt>> /\ hung' \in BOOLEAN => CountInv'
BY DEF CountInv, Pending, Wrong

\* A statement that hangs changes nothing else.
LEMMA HangAuth == AuthInv /\ Hang => AuthInv'
<1> SUFFICES ASSUME AuthInv, Hang PROVE AuthInv'
  OBVIOUS
<1>1. /\ UNCHANGED <<user_cache, user_table>> /\ UNCHANGED <<priv_cache, db_table, tables_priv, past>>
      /\ UNCHANGED <<failure_count, expired, guesses, attempt>> /\ hung' \in BOOLEAN
  BY DEF Hang, caches, tables, block_list
<1> QED BY <1>1, UsersSame, PrivsSame, CountSame DEF AuthInv

\* CREATE USER
LEMMA CreateUserAuth ==
  ASSUME AuthInv, NEW u, NEW h, NEW p, CreateUser(u, h, p)
  PROVE  AuthInv'
<1>1. UsersInv'
  <2>1. IsUser(User(u, h, p))
    BY DEF IsUser, User
  <2>2. user_cache' = user_table' /\ user_table' = Append(user_table, User(u, h, p))
    BY DEF CreateUser, AuthInv, UsersInv
  <2>3. IsRows(user_table') /\ ToSet(user_table') = ToSet(user_table) \cup {User(u, h, p)}
    BY <2>2, AppendRows DEF AuthInv, UsersInv
  <2> QED BY <2>1, <2>2, <2>3 DEF AuthInv, UsersInv
<1>2. /\ UNCHANGED <<priv_cache, db_table, tables_priv, past>>
      /\ UNCHANGED <<failure_count, expired, guesses, attempt>> /\ hung' \in BOOLEAN
  BY DEF CreateUser, block_list, AuthInv, CountInv
<1> QED BY <1>1, <1>2, PrivsSame, CountSame DEF AuthInv

\* DROP USER
LEMMA DropUserAuth ==
  ASSUME AuthInv, NEW u, NEW h, DropUser(u, h)
  PROVE  AuthInv'
<1>1. CASE RemoveUserHangs(u, h) \/ RemovePrivHangs(u, h, "*", "*")
  <2>1. Hang
    BY <1>1 DEF DropUser
  <2> QED BY <2>1, HangAuth
<1>2. CASE ~(RemoveUserHangs(u, h) \/ RemovePrivHangs(u, h, "*", "*"))
  <2>0. /\ user_cache' = Delete(user_cache, AccountRows(user_cache, u, h))
        /\ priv_cache' = Delete(priv_cache, AccountRows(priv_cache, u, h))
        /\ user_table' = Delete(user_table, AccountRows(user_table, u, h))
        /\ db_table' = Delete(db_table, DatabaseRows(u, h, "*"))
        /\ tables_priv' = Delete(tables_priv, TableRows(u, h, "*", "*"))
        /\ dropped' = dropped \cup {<<u, h>>}
        /\ UNCHANGED <<failure_count, expired, guesses, attempt>> /\ hung' \in BOOLEAN
        /\ narrowed' = narrowed
    BY <1>2 DEF DropUser, RemoveUserFromTable, RemoveDbPriv, RemoveTablePriv, block_list, AuthInv, CountInv
  <2>1. UsersInv'
    <3>1. user_cache' = user_table'
      BY <2>0 DEF AuthInv, UsersInv
    <3>2. IsRows(user_table') /\ ToSet(user_table') \subseteq ToSet(user_table)
      BY <2>0, DeleteSet DEF AuthInv, UsersInv
    <3> QED BY <3>1, <3>2 DEF AuthInv, UsersInv
  <2>2. PrivsInv'
    <3>1. Agree(priv_cache, db_table, tables_priv, dropped, narrowed)
      BY DEF AuthInv, PrivsInv
    <3>2. \A r \in ToSet(priv_cache) : r \in AccountRows(priv_cache, u, h) <=> SameAccount(r, u, h)
      BY DEF AccountRows
    <3>3. \A r \in ToSet(db_table) : r \in DatabaseRows(u, h, "*") => SameAccount(r, u, h)
      BY DEF DatabaseRows, AccountRows
    <3>4. \A r \in ToSet(tables_priv) : r \in TableRows(u, h, "*", "*") => SameAccount(r, u, h)
      BY DEF TableRows, SameKey
    <3> QED BY <2>0, <3>1, <3>2, <3>3, <3>4, AgreeDrop DEF PrivsInv
  <2> QED BY <2>0, <2>1, <2>2, CountSame DEF AuthInv
<1> QED BY <1>1, <1>2

\* ALTER USER and SET PASSWORD: when the deletion does not hang the row was the last.
LEMMA SetPasswordAuth ==
  ASSUME AuthInv, NEW u, NEW h, NEW p, SetPassword(u, h, p)
  PROVE  AuthInv'
<1>1. CASE RemoveUserHangs(u, h)
  <2>1. Hang
    BY <1>1 DEF SetPassword
  <2> QED BY <2>1, HangAuth
<1>2. CASE ~RemoveUserHangs(u, h)
  <2> DEFINE gone == AccountRows(user_table, u, h)
             N == Len(user_table)
             new == User(u, h, p)
  <2>0. PICK i \in DOMAIN user_cache :
          /\ SameAccount(user_cache[i], u, h)
          /\ user_cache' = [user_cache EXCEPT ![i] = new]
          /\ user_table' = Append(Delete(user_table, gone), new)
          /\ UNCHANGED <<priv_cache, db_table, tables_priv, past>>
          /\ UNCHANGED <<failure_count, expired, guesses, attempt>> /\ hung' \in BOOLEAN
    BY <1>2 DEF SetPassword, RemoveUserFromTable, block_list, AuthInv, CountInv
  <2>1. /\ user_cache = user_table /\ IsRows(user_table)
        /\ N \in Nat /\ DOMAIN user_table = 1 .. N /\ i \in 1 .. N
        /\ user_table \in Seq(ToSet(user_table))
    BY DEF AuthInv, UsersInv, IsRows
  <2>2. user_table[i] \in gone
    BY <2>0, <2>1 DEF AccountRows, ToSet
  <2>3. ~DeletionHangs(user_table, gone) /\ user_table # <<>> /\ i = N /\ user_table[N] \in gone
    BY <1>2, <2>1, <2>2 DEF RemoveUserHangs, DeletionHangs
  <2>4. Delete(user_table, gone) = SubSeq(user_table, 1, N - 1)
    BY <2>1, <2>3, DeleteRows
  <2> HIDE DEF gone
  <2>5. IsUser(new)
    BY DEF IsUser, User
  <2> HIDE DEF new
  <2>6. Append(SubSeq(user_table, 1, N - 1), new) = [user_table EXCEPT ![N] = new]
    BY <2>1
  <2>7. user_cache' = user_table'
    BY <2>0, <2>1, <2>3, <2>4, <2>6
  <2>8. IsRows(user_table') /\ \A r \in ToSet(user_table') : IsUser(r)
    <3>1. user_table' = [user_table EXCEPT ![i] = new]
      BY <2>0, <2>1, <2>7
    <3>2. IsRows(user_table')
      BY <2>1, <3>1, ReplaceRow
    <3>3. \A q \in ToSet(user_table') : q = new \/ \E j \in DOMAIN user_table : j # i /\ q = user_table[j]
      BY <2>1, <3>1, ReplaceRow
    <3> QED BY <2>5, <3>2, <3>3 DEF AuthInv, UsersInv, ToSet
  <2>9. UsersInv'
    BY <2>7, <2>8 DEF UsersInv
  <2> QED BY <2>0, <2>9, PrivsSame, CountSame DEF AuthInv
<1> QED BY <1>1, <1>2

\* The record that GRANT and REVOKE find has the key, and none has it if they find none.
LEMMA FirstOfKey ==
  ASSUME NEW u, NEW h, NEW d, NEW t, IsRows(priv_cache)
  PROVE  /\ FirstOf(u, h, d, t) = 0 =>
              \A i \in DOMAIN priv_cache : KeyOf(priv_cache[i]) # <<u, h, d, t>>
         /\ FirstOf(u, h, d, t) # 0 =>
              /\ FirstOf(u, h, d, t) \in DOMAIN priv_cache
              /\ KeyOf(priv_cache[FirstOf(u, h, d, t)]) = <<u, h, d, t>>
<1> DEFINE I == {i \in 1 .. Len(priv_cache) : SameKey(priv_cache[i], u, h, d, t)}
<1>0. Len(priv_cache) \in Nat /\ DOMAIN priv_cache = 1 .. Len(priv_cache)
  BY DEF IsRows
<1>1. FirstOf(u, h, d, t) = IF I # {} THEN Min(I) ELSE 0
  BY DEF FirstOf, SelectInSeq
<1>2. I # {} => Min(I) \in I
  <2> SUFFICES ASSUME I # {} PROVE Min(I) \in I
    OBVIOUS
  <2>1. I \subseteq Nat
    OBVIOUS
  <2> HIDE DEF I
  <2>2. \E k \in I : \A j \in I : k <= j
    BY <2>1, SomeLeast
  <2> QED BY <2>2 DEF Min
<1>3. \A i \in 1 .. Len(priv_cache) :
         SameKey(priv_cache[i], u, h, d, t) <=> KeyOf(priv_cache[i]) = <<u, h, d, t>>
  BY DEF SameKey, SameAccount, KeyOf
<1>4. CASE I = {}
  BY <1>0, <1>1, <1>3, <1>4
<1>5. CASE I # {}
  <2>1. Min(I) \in 1 .. Len(priv_cache) /\ SameKey(priv_cache[Min(I)], u, h, d, t)
    BY <1>2, <1>5
  <2>2. Min(I) # 0 /\ FirstOf(u, h, d, t) = Min(I)
    BY <1>1, <1>5, <2>1
  <2> HIDE DEF I
  <2> QED BY <1>0, <1>3, <2>1, <2>2
<1> QED BY <1>4, <1>5

\* What GRANT and REVOKE leave alone
LEMMA UsersAndCountSame ==
  ASSUME AuthInv, PrivsInv', hung' \in BOOLEAN,
         UNCHANGED <<user_cache, user_table, block_list, attempt, dropped>>
  PROVE  AuthInv'
<1>1. UNCHANGED <<user_cache, user_table>> /\ UNCHANGED <<failure_count, expired, guesses, attempt>>
  BY DEF block_list
<1> QED BY <1>1, UsersSame, CountSame DEF AuthInv

\* The rows that RemovePrivFromTable deletes
LEMMA RowsOfKey ==
  ASSUME NEW u, NEW h, NEW d, NEW t, NEW b
  PROVE  /\ \A r \in ToSet(db_table) : r \in DatabaseRows(u, h, d) <=>
              LET rec == Priv(u, h, d, t, b)
              IN  r.user = rec.user /\ r.host = rec.host /\ r.db = rec.db
         /\ \A r \in ToSet(tables_priv) :
              r \in TableRows(u, h, d, t) <=> KeyOf(r) = KeyOf(Priv(u, h, d, t, b))
BY DEF DatabaseRows, AccountRows, TableRows, SameKey, SameAccount, Priv, KeyOf

\* GRANT
LEMMA GrantAuth ==
  ASSUME AuthInv, NEW u, NEW h, NEW d, NEW t, NEW bits \in Bits,
         GrantPrivilege(u, h, d, t, bits)
  PROVE  AuthInv'
<1> DEFINE i == FirstOf(u, h, d, t)
<1>0. /\ Agree(priv_cache, db_table, tables_priv, dropped, narrowed) /\ IsRows(priv_cache)
      /\ hung \in BOOLEAN /\ bits \subseteq ALL /\ dropped' = dropped
  BY AuthAssumption DEF AuthInv, PrivsInv, Agree, CountInv, GrantPrivilege
<1>1. \A b : b \subseteq ALL => IsPriv(Priv(u, h, d, t, b)) /\ KeyOf(Priv(u, h, d, t, b)) = <<u, h, d, t>>
  BY DEF IsPriv, Priv, KeyOf
<1>2. CASE i = 0
  <2> DEFINE rec == Priv(u, h, d, t, bits)
  <2>1. /\ priv_cache' = Append(priv_cache, rec)
        /\ rec.table = "*" => db_table' = Append(db_table, rec) /\ tables_priv' = tables_priv
        /\ rec.table # "*" => db_table' = db_table /\ tables_priv' = Append(tables_priv, rec)
        /\ hung' = hung /\ narrowed' = narrowed
    BY <1>2 DEF GrantPrivilege, PersistPriv
  <2>2. \A j \in DOMAIN priv_cache : KeyOf(priv_cache[j]) # KeyOf(rec)
    BY <1>0, <1>1, <1>2, FirstOfKey
  <2>3. IsPriv(rec)
    BY <1>0, <1>1
  <2> HIDE DEF rec
  <2>4. PrivsInv'
    <3>1. /\ rec.table = "*" =>
               Agree(Append(priv_cache, rec), Append(db_table, rec), tables_priv, dropped, narrowed)
          /\ rec.table # "*" =>
               Agree(Append(priv_cache, rec), db_table, Append(tables_priv, rec), dropped, narrowed)
      BY <1>0, <2>2, <2>3, AgreeAppend
    <3> QED BY <1>0, <2>1, <3>1 DEF PrivsInv
  <2>5. hung' \in BOOLEAN /\ UNCHANGED <<user_cache, user_table, block_list, attempt, dropped>>
    BY <1>0, <2>1 DEF GrantPrivilege
  <2> QED BY <2>4, <2>5, UsersAndCountSame
<1>3. CASE i # 0 /\ RemovePrivHangs(u, h, d, t)
  <2>1. hung' = TRUE /\ UNCHANGED <<priv_cache, db_table, tables_priv, narrowed>>
    BY <1>3 DEF GrantPrivilege
  <2>2. PrivsInv'
    BY <1>0, <2>1 DEF PrivsInv
  <2>3. hung' \in BOOLEAN /\ UNCHANGED <<user_cache, user_table, block_list, attempt, dropped>>
    BY <2>1 DEF GrantPrivilege
  <2> QED BY <2>2, <2>3, UsersAndCountSame
<1>4. CASE i # 0 /\ ~RemovePrivHangs(u, h, d, t)
  <2> DEFINE b == priv_cache[i].privileges \cup bits
             rec == Priv(u, h, d, t, b)
             d1 == Delete(db_table, DatabaseRows(u, h, d))
             t1 == Delete(tables_priv, TableRows(u, h, d, t))
             lost1 == IF t = "*" THEN narrowed ELSE narrowed \cup DatabaseRows(u, h, d)
  <2>1. /\ priv_cache' = [priv_cache EXCEPT ![i] = rec]
        /\ rec.table = "*" => db_table' = Append(d1, rec) /\ tables_priv' = t1
        /\ rec.table # "*" => db_table' = d1 /\ tables_priv' = Append(t1, rec)
        /\ hung' = hung /\ narrowed' = lost1
    BY <1>4 DEF GrantPrivilege, PersistPriv, RemoveDbPriv, RemoveTablePriv, Narrow
  <2>2. i \in DOMAIN priv_cache /\ KeyOf(priv_cache[i]) = <<u, h, d, t>>
    BY <1>0, <1>4, FirstOfKey
  <2>3. b \subseteq ALL
    BY <1>0, <2>2 DEF Agree, IsPriv, ToSet
  <2> HIDE DEF b, i
  <2>4. IsPriv(rec) /\ KeyOf(rec) = KeyOf(priv_cache[i])
    BY <1>1, <2>2, <2>3
  <2>5. /\ \A r \in ToSet(db_table) : r \in DatabaseRows(u, h, d) <=>
              r.user = rec.user /\ r.host = rec.host /\ r.db = rec.db
        /\ \A r \in ToSet(tables_priv) : r \in TableRows(u, h, d, t) <=> KeyOf(r) = KeyOf(rec)
    BY RowsOfKey
  <2>9. rec.table = t
    BY DEF Priv
  <2>10. lost1 = IF rec.table = "*" THEN narrowed ELSE narrowed \cup DatabaseRows(u, h, d)
    BY <2>9
  <2> HIDE DEF rec, lost1
  <2>6. LET c1 == [priv_cache EXCEPT ![i] = rec]
        IN  /\ rec.table = "*" => Agree(c1, Append(d1, rec), t1, dropped, lost1)
            /\ rec.table # "*" => Agree(c1, d1, Append(t1, rec), dropped, lost1)
    BY <1>0, <2>2, <2>4, <2>5, <2>10, AgreeReplace
  <2>7. PrivsInv'
    BY <1>0, <2>1, <2>6 DEF PrivsInv
  <2>8. hung' \in BOOLEAN /\ UNCHANGED <<user_cache, user_table, block_list, attempt, dropped>>
    BY <1>0, <2>1 DEF GrantPrivilege
  <2> QED BY <2>7, <2>8, UsersAndCountSame
<1> QED BY <1>2, <1>3, <1>4

\* REVOKE
LEMMA RevokeAuth ==
  ASSUME AuthInv, NEW u, NEW h, NEW d, NEW t, NEW bits, RevokePrivilege(u, h, d, t, bits)
  PROVE  AuthInv'
<1> DEFINE i == FirstOf(u, h, d, t)
<1>0. /\ Agree(priv_cache, db_table, tables_priv, dropped, narrowed) /\ IsRows(priv_cache)
      /\ hung \in BOOLEAN /\ dropped' = dropped /\ i # 0
  BY DEF AuthInv, PrivsInv, Agree, CountInv, RevokePrivilege
<1>1. \A b : b \subseteq ALL => IsPriv(Priv(u, h, d, t, b)) /\ KeyOf(Priv(u, h, d, t, b)) = <<u, h, d, t>>
  BY DEF IsPriv, Priv, KeyOf
<1>2. CASE RemovePrivHangs(u, h, d, t)
  <2>1. hung' = TRUE /\ UNCHANGED <<priv_cache, db_table, tables_priv, narrowed>>
    BY <1>2 DEF RevokePrivilege
  <2>2. PrivsInv'
    BY <1>0, <2>1 DEF PrivsInv
  <2>3. hung' \in BOOLEAN /\ UNCHANGED <<user_cache, user_table, block_list, attempt, dropped>>
    BY <2>1 DEF RevokePrivilege
  <2> QED BY <2>2, <2>3, UsersAndCountSame
<1>3. CASE ~RemovePrivHangs(u, h, d, t)
  <2> DEFINE b == priv_cache[i].privileges \ bits
             rec == Priv(u, h, d, t, b)
             d1 == Delete(db_table, DatabaseRows(u, h, d))
             t1 == Delete(tables_priv, TableRows(u, h, d, t))
             lost1 == IF t = "*" THEN narrowed ELSE narrowed \cup DatabaseRows(u, h, d)
  <2>1. /\ priv_cache' = [priv_cache EXCEPT ![i] = rec]
        /\ rec.privileges = {} => db_table' = d1 /\ tables_priv' = t1
        /\ rec.privileges # {} /\ rec.table = "*" => db_table' = Append(d1, rec) /\ tables_priv' = t1
        /\ rec.privileges # {} /\ rec.table # "*" => db_table' = d1 /\ tables_priv' = Append(t1, rec)
        /\ hung' = hung /\ narrowed' = lost1
    BY <1>3 DEF RevokePrivilege, PersistPriv, RemoveDbPriv, RemoveTablePriv, Narrow
  <2>2. i \in DOMAIN priv_cache /\ KeyOf(priv_cache[i]) = <<u, h, d, t>>
    BY <1>0, FirstOfKey
  <2>3. b \subseteq ALL
    BY <1>0, <2>2 DEF Agree, IsPriv, ToSet
  <2> HIDE DEF b, i
  <2>4. IsPriv(rec) /\ KeyOf(rec) = KeyOf(priv_cache[i])
    BY <1>1, <2>2, <2>3
  <2>5. /\ \A r \in ToSet(db_table) : r \in DatabaseRows(u, h, d) <=>
              r.user = rec.user /\ r.host = rec.host /\ r.db = rec.db
        /\ \A r \in ToSet(tables_priv) : r \in TableRows(u, h, d, t) <=> KeyOf(r) = KeyOf(rec)
    BY RowsOfKey
  <2>9. rec.table = t
    BY DEF Priv
  <2>10. lost1 = IF rec.table = "*" THEN narrowed ELSE narrowed \cup DatabaseRows(u, h, d)
    BY <2>9
  <2> HIDE DEF rec, lost1
  <2>6. LET c1 == [priv_cache EXCEPT ![i] = rec]
        IN  /\ rec.privileges = {} => Agree(c1, d1, t1, dropped, lost1)
            /\ rec.table = "*" => Agree(c1, Append(d1, rec), t1, dropped, lost1)
            /\ rec.table # "*" => Agree(c1, d1, Append(t1, rec), dropped, lost1)
    BY <1>0, <2>2, <2>4, <2>5, <2>10, AgreeReplace
  <2>7. PrivsInv'
    BY <1>0, <2>1, <2>6 DEF PrivsInv
  <2>8. hung' \in BOOLEAN /\ UNCHANGED <<user_cache, user_table, block_list, attempt, dropped>>
    BY <1>0, <2>1 DEF RevokePrivilege
  <2> QED BY <2>7, <2>8, UsersAndCountSame
<1> QED BY <1>2, <1>3

\* The counts when the entry of the host is thrown away: those past the test remain.
LEMMA CountCleared ==
  ASSUME CountInv, failure_count' = 0, expired' = FALSE, guesses' = 0, UNCHANGED <<attempt, hung>>
  PROVE  CountInv'
<1>1. /\ IsFiniteSet(Visitors) /\ Cardinality(Visitors) \in Nat /\ MaxFailures \in Nat
      /\ kMaxAuthFailures \in Nat \ {0}
  BY AuthAssumption, FS_CardinalityType
<1>2. Pending' = Pending /\ Wrong' = Wrong
  BY DEF Pending, Wrong
<1>3. /\ IsFiniteSet(Pending) /\ Cardinality(Pending) \in Nat
      /\ Cardinality(Pending) <= Cardinality(Visitors)
      /\ IsFiniteSet(Wrong) /\ Cardinality(Wrong) \in Nat
  BY <1>1, FS_Subset, FS_CardinalityType DEF Pending, Wrong
<1>4. (failure_count + Cardinality(Pending) <= MaxFailures + Cardinality(Visitors))'
  BY <1>1, <1>2, <1>3
<1>5. (guesses <= (IF expired THEN 0 ELSE failure_count) + Cardinality(Wrong))'
  BY <1>2, <1>3
<1>6. (guesses < kMaxAuthFailures + Cardinality(Visitors))'
  BY <1>1
<1>7. /\ (failure_count \in Nat /\ guesses \in Nat)'
      /\ (expired \in BOOLEAN /\ hung \in BOOLEAN)'
      /\ (attempt \in [Visitors -> {"away", "wrong", "blocked"}])'
  BY DEF CountInv
<1> QED BY <1>4, <1>5, <1>6, <1>7 DEF CountInv

\* The reload of both caches
LEMMA LoadAuth ==
  ASSUME AuthInv, Load, UNCHANGED <<tables, dropped>>
  PROVE  UsersInv' /\ PrivsInv'
<1>1. /\ user_cache' = user_table /\ user_table' = user_table
      /\ priv_cache' = db_table \o tables_priv /\ narrowed' = {}
      /\ UNCHANGED <<db_table, tables_priv, dropped>>
  BY DEF Load, Reloaded, tables
<1>2. UsersInv'
  BY <1>1 DEF AuthInv, UsersInv
<1>3. Agree(db_table \o tables_priv, db_table, tables_priv, dropped, {})
  BY AgreeLoad DEF AuthInv, PrivsInv
<1> QED BY <1>1, <1>2, <1>3 DEF PrivsInv

\* FLUSH PRIVILEGES
LEMMA FlushAuth == ASSUME AuthInv, FlushPrivileges PROVE AuthInv'
<1>1. Load /\ UNCHANGED <<tables, dropped>>
  BY DEF FlushPrivileges
<1>2. UNCHANGED <<failure_count, expired, guesses, attempt>> /\ hung' \in BOOLEAN
  BY DEF FlushPrivileges, block_list, AuthInv, CountInv
<1> QED BY <1>1, <1>2, LoadAuth, CountSame DEF AuthInv

\* A restart
LEMMA RestartAuth == ASSUME AuthInv, Restart PROVE AuthInv'
<1>1. Load /\ UNCHANGED <<tables, dropped>>
  BY DEF Restart
<1>2. CountInv'
  BY CountCleared DEF Restart, AuthInv
<1> QED BY <1>1, <1>2, LoadAuth DEF AuthInv

\* What HandleAuth and FLUSH HOSTS leave alone
LEMMA CachesSame ==
  ASSUME AuthInv, CountInv', UNCHANGED <<caches, tables, past>>
  PROVE  AuthInv'
BY UsersSame, PrivsSame DEF AuthInv, caches, tables

\* FLUSH HOSTS
LEMMA ClearAuth == ASSUME AuthInv, ClearBlockList PROVE AuthInv'
<1>1. CountInv' /\ UNCHANGED <<caches, tables, past>>
  BY CountCleared DEF ClearBlockList, AuthInv
<1> QED BY <1>1, CachesSame

\* The visitors that wait to be counted, when one joins them and when one leaves them
LEMMA PendingChanges ==
  ASSUME NEW v \in Visitors, CountInv, NEW a,
         attempt' = [attempt EXCEPT ![v] = a]
  PROVE  /\ Pending' = IF a = "away" THEN Pending \ {v} ELSE Pending \cup {v}
         /\ Wrong' = IF a = "wrong" THEN Wrong \cup {v} ELSE Wrong \ {v}
         /\ v \in Pending <=> attempt[v] # "away"
         /\ v \in Wrong <=> attempt[v] = "wrong"
         /\ IsFiniteSet(Pending) /\ IsFiniteSet(Wrong) /\ IsFiniteSet(Pending') /\ IsFiniteSet(Wrong')
         /\ Cardinality(Pending) \in Nat /\ Cardinality(Wrong) \in Nat
         /\ Cardinality(Pending') \in Nat /\ Cardinality(Wrong') \in Nat
         /\ Cardinality(Visitors) \in Nat
         /\ Cardinality(Pending) <= Cardinality(Visitors) /\ Cardinality(Pending') <= Cardinality(Visitors)
         /\ Cardinality(Wrong) <= Cardinality(Visitors) /\ Cardinality(Wrong') <= Cardinality(Visitors)
<1>1. /\ \A w \in Visitors : attempt'[w] = IF w = v THEN a ELSE attempt[w]
  BY DEF CountInv
<1>2. IsFiniteSet(Visitors)
  BY AuthAssumption
<1>3. \A S : S \subseteq Visitors =>
         IsFiniteSet(S) /\ Cardinality(S) \in Nat /\ Cardinality(S) <= Cardinality(Visitors)
  BY <1>2, FS_Subset, FS_CardinalityType
<1>4. Pending \subseteq Visitors /\ Wrong \subseteq Visitors /\ Pending' \subseteq Visitors /\ Wrong' \subseteq Visitors
  BY DEF Pending, Wrong
<1>5. /\ Pending' = IF a = "away" THEN Pending \ {v} ELSE Pending \cup {v}
      /\ Wrong' = IF a = "wrong" THEN Wrong \cup {v} ELSE Wrong \ {v}
      /\ v \in Pending <=> attempt[v] # "away"
      /\ v \in Wrong <=> attempt[v] = "wrong"
  BY <1>1 DEF Pending, Wrong
<1>6. Cardinality(Visitors) \in Nat
  BY <1>2, FS_CardinalityType
<1> QED BY <1>3, <1>4, <1>5, <1>6

\* The first critical section of HandleAuth
LEMMA CheckAuth ==
  ASSUME AuthInv, NEW v \in Visitors, NEW user, NEW password, CheckConnection(v, user, password)
  PROVE  AuthInv'
<1>0. CountInv /\ UNCHANGED <<caches, tables, past>> /\ UNCHANGED <<failure_count, expired, hung>>
  BY DEF AuthInv, CheckConnection
<1>1. attempt[v] = "away" /\ failure_count < MaxFailures
  BY DEF CheckConnection
<1>2. MaxFailures \in Nat /\ kMaxAuthFailures \in Nat \ {0} /\ failure_count \in Nat /\ guesses \in Nat
  BY AuthAssumption, <1>0 DEF CountInv
<1>3. CASE IsHostBlocked
  <2>1. attempt' = [attempt EXCEPT ![v] = "blocked"] /\ guesses' = guesses
    BY <1>3 DEF CheckConnection
  <2>2. /\ Wrong' = Wrong
        /\ failure_count + Cardinality(Pending') <= MaxFailures + Cardinality(Visitors)
    <3>1. /\ Wrong' = IF "blocked" = "wrong" THEN Wrong \cup {v} ELSE Wrong \ {v}
          /\ v \in Wrong <=> attempt[v] = "wrong"
      BY <1>0, <2>1, PendingChanges
    <3>2. Wrong' = Wrong
      BY <1>1, <3>1
    <3>3. /\ Cardinality(Pending') \in Nat /\ Cardinality(Visitors) \in Nat
          /\ Cardinality(Pending') <= Cardinality(Visitors)
      BY <1>0, <2>1, PendingChanges
    <3> QED BY <1>1, <1>2, <3>2, <3>3
  <2>3. attempt' \in [Visitors -> {"away", "wrong", "blocked"}]
    BY <1>0, <2>1 DEF CountInv
  <2>4. CountInv'
    BY <1>0, <2>1, <2>2, <2>3 DEF CountInv
  <2> QED BY <1>0, <2>4, CachesSame
<1>4. CASE ~IsHostBlocked
  <2>1. attempt' = [attempt EXCEPT ![v] = "wrong"] /\ guesses' = guesses + 1
    BY <1>4 DEF CheckConnection
  <2>2. failure_count + Cardinality(Pending') <= MaxFailures + Cardinality(Visitors)
    <3>1. /\ Cardinality(Pending') \in Nat /\ Cardinality(Visitors) \in Nat
          /\ Cardinality(Pending') <= Cardinality(Visitors)
      BY <1>0, <2>1, PendingChanges
    <3> QED BY <1>1, <1>2, <3>1
  <2>3. attempt' \in [Visitors -> {"away", "wrong", "blocked"}]
    BY <1>0, <2>1 DEF CountInv
  <2>4. Cardinality(Wrong') = Cardinality(Wrong) + 1 /\ Cardinality(Wrong) \in Nat
    <3>1. Wrong' = Wrong \cup {v} /\ v \notin Wrong /\ IsFiniteSet(Wrong) /\ Cardinality(Wrong) \in Nat
      BY <1>0, <1>1, <2>1, PendingChanges
    <3> QED BY <3>1, FS_AddElement
  <2>5. guesses' <= (IF expired' THEN 0 ELSE failure_count') + Cardinality(Wrong')
    <3>1. guesses <= (IF expired THEN 0 ELSE failure_count) + Cardinality(Wrong)
      BY <1>0 DEF CountInv
    <3> QED BY <1>0, <1>2, <2>1, <2>4, <3>1
  <2>6. guesses' < kMaxAuthFailures + Cardinality(Visitors)
    <3>1. (IF expired' THEN 0 ELSE failure_count') < kMaxAuthFailures
      BY <1>0, <1>2, <1>4 DEF IsHostBlocked
    <3>2. /\ Cardinality(Wrong') <= Cardinality(Visitors) /\ Cardinality(Visitors) \in Nat
          /\ Cardinality(Wrong') \in Nat
      BY <1>0, <2>1, PendingChanges
    <3> QED BY <1>0, <1>2, <2>1, <2>5, <3>1, <3>2
  <2>7. guesses' \in Nat
    BY <1>2, <2>1
  <2>8. CountInv'
    BY <1>0, <2>2, <2>3, <2>5, <2>6, <2>7 DEF CountInv
  <2> QED BY <1>0, <2>8, CachesSame
<1> QED BY <1>3, <1>4

\* The second critical section
LEMMA RecordAuth ==
  ASSUME AuthInv, NEW v \in Visitors, RecordAuthFailure(v)
  PROVE  AuthInv'
<1> DEFINE count == IF expired THEN 0 ELSE failure_count
<1>0. /\ CountInv /\ UNCHANGED <<caches, tables, past>> /\ UNCHANGED <<guesses, hung>>
      /\ attempt[v] # "away" /\ attempt' = [attempt EXCEPT ![v] = "away"]
      /\ failure_count' = count + 1 /\ ~expired'
      /\ expired' \in BOOLEAN
  BY DEF AuthInv, RecordAuthFailure
<1>1. /\ MaxFailures \in Nat /\ failure_count \in Nat /\ guesses \in Nat
      /\ count \in Nat /\ count <= failure_count
  BY AuthAssumption, <1>0 DEF CountInv
<1>2. Cardinality(Pending') = Cardinality(Pending) - 1
  <2>1. Pending' = Pending \ {v} /\ v \in Pending /\ IsFiniteSet(Pending)
    BY <1>0, PendingChanges
  <2> QED BY <2>1, FS_RemoveElement
<1>3. Cardinality(Wrong') >= Cardinality(Wrong) - 1
  <2>1. Wrong' = Wrong \ {v} /\ IsFiniteSet(Wrong) /\ Cardinality(Wrong) \in Nat
    BY <1>0, PendingChanges
  <2>2. CASE v \in Wrong
    BY <2>1, <2>2, FS_RemoveElement
  <2>3. CASE v \notin Wrong
    BY <2>1, <2>3
  <2> QED BY <2>2, <2>3
<1>4. /\ Cardinality(Pending) \in Nat /\ Cardinality(Wrong) \in Nat
      /\ Cardinality(Wrong') \in Nat /\ Cardinality(Visitors) \in Nat
  BY <1>0, PendingChanges
<1>5. failure_count' + Cardinality(Pending') <= MaxFailures + Cardinality(Visitors)
  <2>1. failure_count + Cardinality(Pending) <= MaxFailures + Cardinality(Visitors)
    BY <1>0 DEF CountInv
  <2> QED BY <1>0, <1>1, <1>2, <1>4, <2>1
<1>6. guesses' <= (IF expired' THEN 0 ELSE failure_count') + Cardinality(Wrong')
  <2>1. guesses <= count + Cardinality(Wrong)
    BY <1>0 DEF CountInv
  <2> HIDE DEF count
  <2> QED BY <1>0, <1>1, <1>3, <1>4, <2>1
<1>7. failure_count' \in Nat
  BY <1>0, <1>1
<1>8. attempt' \in [Visitors -> {"away", "wrong", "blocked"}]
  BY <1>0 DEF CountInv
<1>9. CountInv'
  BY <1>0, <1>5, <1>6, <1>7, <1>8 DEF CountInv
<1> QED BY <1>0, <1>9, CachesSame

\* The block expires.
LEMMA ExpireAuth == ASSUME AuthInv, Expire PROVE AuthInv'
<1>0. /\ CountInv /\ UNCHANGED <<caches, tables, past>> /\ UNCHANGED <<failure_count, attempt, hung>>
      /\ expired' /\ guesses' = 0 /\ expired' \in BOOLEAN
  BY DEF AuthInv, Expire
<1>1. /\ IsFiniteSet(Visitors) /\ Cardinality(Visitors) \in Nat /\ kMaxAuthFailures \in Nat \ {0}
  BY AuthAssumption, FS_CardinalityType
<1>2. Pending' = Pending /\ Wrong' = Wrong /\ IsFiniteSet(Wrong) /\ Cardinality(Wrong) \in Nat
  BY <1>0, <1>1, FS_Subset, FS_CardinalityType DEF Pending, Wrong
<1>3. guesses' <= (IF expired' THEN 0 ELSE failure_count') + Cardinality(Wrong')
  BY <1>0, <1>2
<1>4. guesses' < kMaxAuthFailures + Cardinality(Visitors) /\ guesses' \in Nat
  BY <1>0, <1>1
<1>5. CountInv'
  BY <1>0, <1>2, <1>3, <1>4 DEF CountInv
<1> QED BY <1>0, <1>5, CachesSame

\* Everything else leaves the AuthManager alone.
LEMMA StutterAuth == ASSUME AuthInv, UNCHANGED auth_vars PROVE AuthInv'
<1>1. /\ UNCHANGED <<caches, tables, past>>
      /\ UNCHANGED <<failure_count, expired, guesses, attempt>> /\ hung' = hung
  BY DEF auth_vars, block_list
<1>2. CountInv'
  BY <1>1, CountSame DEF AuthInv, CountInv
<1> QED BY <1>1, <1>2, CachesSame

\* One step of the statements, the logins and the restart, as the AuthManager sees it
LEMMA AuthStep == AuthInv /\ [CommandsNext]_command_vars => AuthInv'
<1> SUFFICES ASSUME AuthInv, [CommandsNext]_command_vars PROVE AuthInv'
  OBVIOUS
<1>1. ASSUME AuthStatement PROVE AuthInv'
  BY <1>1, CreateUserAuth, SetPasswordAuth, DropUserAuth, GrantAuth, RevokeAuth, FlushAuth
  DEF AuthStatement
<1>2. ASSUME Login PROVE AuthInv'
  BY <1>2, CheckAuth, RecordAuth, ExpireAuth DEF Login
<1>3. CASE Issue
  BY <1>1, <1>3, ClearAuth, RestartAuth, StutterAuth DEF Issue
<1>4. CASE UNCHANGED command_vars
  BY <1>4, StutterAuth DEF command_vars
<1>5. CASE CommandsNext /\ ~Issue
  BY <1>2, <1>5, StutterAuth DEF CommandsNext
<1> QED BY <1>3, <1>4, <1>5

\* The inductive invariant of the AuthManager holds in every state.
LEMMA AuthAlways == CommandsSpec => []AuthInv
<1>1. CommandsInit => AuthInv
  BY AuthInit DEF CommandsInit
<1> QED BY <1>1, AuthStep, PTL DEF CommandsSpec

\* For any accounts, objects, privilege lists and statements: what the AuthManager holds
\* in memory and what a restart would read back from __sys_user, __sys_db and
\* __sys_tables_priv are the same users in the same order; the records of the tables are
\* in the cache, and those of the cache that grant something are in the tables unless a
\* GRANT or REVOKE on one table deleted them.  CheckAccess decides from a reloaded cache as
\* it did before, but for the four cases that AccessSurvivesReload names, and never gives a
\* right that no record in the cache had.
THEOREM RightsSurviveReload == CommandsSpec => []ReloadKeepsRights
<1>1. AuthInv => ReloadKeepsRights
  BY AuthInvImplies
<1> QED BY <1>1, AuthAlways, PTL

\* For any limit and any number of connections: HandleAuth tests the block and counts
\* the failure in two critical sections, and still no more passwords are compared
\* than the limit and the connections that were past the test.
THEOREM GuessesAreBounded == CommandsSpec => []GuessesBounded
<1>1. AuthInv => GuessesBounded
  BY AuthInvImplies
<1> QED BY <1>1, AuthAlways, PTL

-----------------------------------------------------------------------------
(* Tables: the types.                                                      *)

Row == [rid : Nat \ {0}, id : (-MaxId - 1) .. MaxId, ref : Refs]
ForeignKey == [child : Names, on_delete : Actions]
Frame == [table : Names, ids : SUBSET Int, depth : Nat, child : SUBSET Names]
Deleted == [table : Names, id : Int, depth : Nat]

Places == {"idle", "first_page", "register", "store_heap", "drop",
           "scan", "write", "update", "delete", "cascade"}
Statement == [at : Places, table : Names, id : (-MaxId - 1) .. MaxId, ref : 0 .. MaxRefs,
              info : 0 .. 2, found : SUBSET Row, frames : Seq(Frame),
              gone : SUBSET Deleted, overlapped : BOOLEAN]

CatalogType ==
  /\ info \in [Names -> 0 .. 2] /\ has_heap \in [Names -> BOOLEAN]
  /\ files \subseteq Names /\ lost \subseteq Names
  /\ ddl_raced \subseteq Names /\ fate \in {"up", "hung", "crashed"}

RowsType ==
  /\ rows \in [Names -> SUBSET Row] /\ fks \in [Names -> SUBSET ForeignKey]
  /\ ids_raced \subseteq Names

RunType == run \in [Runners -> Statement]

Numbered(R) == \A q, r \in R : q.rid = r.rid => q = r
Bounded(R) == \E b \in Nat : \A r \in R : r.rid <= b

RowsInv ==
  \A n \in Names : /\ Numbered(rows[n]) /\ Bounded(rows[n]) /\ IsFiniteSet(fks[n])
                   /\ info[n] = 0 => rows[n] = {} /\ fks[n] = {} /\ ~has_heap[n]

\* What a statement keeps from one step to the next
SessionOK(st) ==
  /\ st.at \in {"scan", "write"} => st.ref \in Refs
  /\ st.at \in {"scan", "write", "update", "delete"} => st.info # 0
  /\ st.at = "delete" => /\ st.frames # <<>>
                         /\ Head(st.frames).table = st.table
                         /\ \A f \in st.found : f.id \in Head(st.frames).ids
                         /\ Head(st.frames).child = {}

SessionsInv == \A s \in Runners : SessionOK(run[s])

\* Two statements under way overlap.
OverlapInv ==
  \A q, r \in Runners : q # r /\ Busy(q) /\ Busy(r) => run[q].overlapped

\* A table without its heap is being created.
HeapInv ==
  \A n \in Names : info[n] # 0 /\ ~has_heap[n] =>
    \E s \in Runners : run[s].at = "store_heap" /\ run[s].table = n

\* The ids of a table no INSERT raced on, and those that an UPDATE will write again
Unique(R) == \A q, r \in R : q.id = r.id /\ q.id > 0 => q = r
Writes(st, n, R) ==
  st.at = "update" /\ st.table = n => \A f \in st.found, r \in R : r.rid = f.rid => r.id = f.id

IdsInv ==
  \A n \in Names \ ids_raced :
    Unique(rows[n]) /\ \A s \in Runners : Writes(run[s], n, rows[n])

\* The rest of the cascade: a reference to a row that is gone is followed by a frame of
\* the stack, or is one of the rows found.
Follows(f, g, k) ==
  f.table = g.table /\ g.id \in f.ids /\ f.depth = g.depth /\ f.child \in {{}, {k.child}}

Covered(st, fk, rws) ==
  \A g \in st.gone : g.depth <= CascadeLimit =>
    \A k \in fk[g.table] : k.on_delete = "CASCADE" =>
      \A r \in rws[k.child] : r.ref = g.id =>
        \/ \E i \in DOMAIN st.frames : Follows(st.frames[i], g, k)
        \/ st.at = "delete" /\ st.table = k.child /\ r \in st.found

\* What a statement that has the tables for itself can rely on
Alone(st, fk, rws) ==
  ~st.overlapped =>
    /\ st.at = "write" => \A r \in rws[st.table] : r.id = st.id => st.id <= 0
    /\ st.at \in {"delete", "cascade"} => Covered(st, fk, rws)

AloneInv == \A s \in Runners : Alone(run[s], fks, rows)

KeysInv ==
  CatalogType /\ RowsType /\ RunType /\ RowsInv /\ SessionsInv /\ OverlapInv /\ HeapInv
  /\ IdsInv /\ AloneInv

\* The name of a table between statements, and while one session creates or drops it
HasFile(n) == n \in files \ lost
Settled(n) == (HasFile(n) <=> info[n] # 0) /\ (info[n] # 0 => has_heap[n])

StageOK(n, at) ==
  /\ at \in {"first_page", "register"} => HasFile(n) /\ info[n] = 0
  /\ at = "store_heap" => HasFile(n) /\ info[n] # 0
  /\ at = "drop" => ~HasFile(n) /\ (info[n] # 0 => has_heap[n])

NameInv(n) ==
  /\ n \in lost => n \in files
  /\ \A q, r \in Runners : DdlOn(q, n) /\ DdlOn(r, n) => q = r
  /\ (\A s \in Runners : ~DdlOn(s, n)) => Settled(n)
  /\ \A s \in Runners : DdlOn(s, n) => StageOK(n, run[s].at)

DdlInv == \A n \in Names \ ddl_raced : NameInv(n)

-----------------------------------------------------------------------------
(* Operators of the tables.                                                *)

\* The largest of some numbers that are not all numbers
LEMMA MaxOf ==
  ASSUME NEW S, S \subseteq Int, S # {}, NEW b \in Int, \A x \in S : x <= b
  PROVE  Max(S) \in S /\ \A x \in S : Max(S) >= x
<1> DEFINE D == {b - x : x \in S}
<1>1. D \subseteq Nat /\ D # {}
  <2>1. \A x \in S : b - x \in Nat
    OBVIOUS
  <2>2. D # {}
    OBVIOUS
  <2> QED BY <2>1, <2>2
<1>2. PICK k \in D : \A j \in D : k <= j
  <2> HIDE DEF D
  <2> QED BY <1>1, SomeLeast
<1>3. PICK x \in S : k = b - x
  BY <1>2
<1>4. \A y \in S : x >= y
  BY <1>2, <1>3
<1> QED BY <1>4 DEF Max

\* SetToSeq lists every element of a finite set.
LEMMA ListOfSet ==
  ASSUME NEW S, IsFiniteSet(S)
  PROVE  /\ SetToSeq(S) \in Seq(S)
         /\ \A x \in S : \E i \in DOMAIN SetToSeq(S) : SetToSeq(S)[i] = x
<1> DEFINE n == Cardinality(S)
           g == SetToSeq(S)
<1>1. n \in Nat /\ ExistsBijection(1 .. n, S)
  BY FS_CardinalityType
<1>2. \E f \in [1 .. n -> S] : IsInjective(f)
  BY <1>1 DEF ExistsBijection, Bijection, Injection
<1>3. g \in [1 .. n -> S] /\ IsInjective(g)
  BY <1>2 DEF SetToSeq
<1> HIDE DEF g
<1>4. g \in Injection(1 .. n, S)
  BY <1>3 DEF Injection
<1>5. IsFiniteSet(1 .. n) /\ Cardinality(1 .. n) = n
  BY <1>1, FS_Interval
<1>6. g \in Surjection(1 .. n, S)
  BY <1>4, <1>5, FS_Injection
<1>7. \A x \in S : \E i \in 1 .. n : g[i] = x
  BY <1>6 DEF Surjection
<1>8. g \in Seq(S) /\ DOMAIN g = 1 .. n
  BY <1>1, <1>3, SeqDef
<1> QED BY <1>7, <1>8 DEF g

-----------------------------------------------------------------------------
(* The steps of one session, as the others see them.                       *)

Same(x, y) ==
  /\ x.at = y.at /\ x.table = y.table /\ x.id = y.id /\ x.ref = y.ref /\ x.info = y.info
  /\ x.found = y.found /\ x.frames = y.frames /\ x.gone = y.gone

Moves(s) ==
  /\ RunType' /\ OverlapInv'
  /\ \A r \in Runners \ {s} : Same(run[r], run'[r]) /\ (Busy(r) => run'[r].overlapped)

\* A session between two statements
LEMMA IdleType == Idle \in Statement /\ Idle.at = "idle"
<1>1. \E n \in Names : TRUE
  BY TablesAssumption
<1>2. (CHOOSE n \in Names : TRUE) \in Names
  BY <1>1
<1>3. <<>> \in Seq(Frame)
  OBVIOUS
<1>4. 0 \in (-MaxId - 1) .. MaxId /\ 0 \in 0 .. MaxRefs
  BY TablesAssumption
<1> QED BY <1>2, <1>3, <1>4 DEF Idle, Statement, Places

\* A statement begins.
LEMMA BeginMoves ==
  ASSUME RunType, NEW s \in Runners, ~Busy(s), NEW st \in Statement, Begin(s, st)
  PROVE  Moves(s) /\ Same(st, run'[s])
<1> DEFINE other == \E q \in Runners \ {s} : Busy(q)
           st1 == [st EXCEPT !.overlapped = st # Idle /\ other]
           old(r) == [run[r] EXCEPT !.overlapped = @ \/ Busy(r)]
<1>1. /\ st1 \in Statement /\ Same(st, st1) /\ (st1.overlapped <=> st # Idle /\ other)
  <2>1. (st # Idle /\ other) \in BOOLEAN
    OBVIOUS
  <2> HIDE DEF other
  <2> QED BY <2>1 DEF Statement, Same
<1>2. ASSUME NEW r \in Runners
      PROVE  /\ old(r) \in Statement /\ Same(run[r], old(r))
             /\ old(r).overlapped <=> run[r].overlapped \/ Busy(r)
  <2>1. run[r] \in Statement /\ (run[r].overlapped \/ Busy(r)) \in BOOLEAN
    BY DEF RunType
  <2> HIDE DEF Busy
  <2> QED BY <2>1 DEF Statement, Same
<1>3. \A r \in Runners : run'[r] = IF r = s THEN st1 ELSE old(r)
  BY DEF Begin
<1>4. run' = [r \in Runners |-> IF r = s THEN st1 ELSE old(r)]
  BY DEF Begin
<1> HIDE DEF st1, old
<1>5. RunType'
  BY <1>1, <1>2, <1>4 DEF RunType
<1>6. \A r \in Runners \ {s} : Same(run[r], run'[r]) /\ (Busy(r) => run'[r].overlapped)
  BY <1>2, <1>3
<1>7. Same(st, run'[s]) /\ (run'[s].overlapped <=> st # Idle /\ other)
  BY <1>1, <1>3
<1>8. \A r \in Runners \ {s} : Busy(r)' <=> Busy(r)
  BY <1>6 DEF Same, Busy
<1>9. Busy(s)' => st # Idle
  BY <1>7, IdleType DEF Same, Busy
<1>10. OverlapInv'
  BY <1>6, <1>7, <1>8, <1>9 DEF OverlapInv
<1> QED BY <1>5, <1>6, <1>7, <1>10 DEF Moves

\* A statement goes on.
LEMMA StepMoves ==
  ASSUME RunType, OverlapInv, NEW s \in Runners, Busy(s), NEW st \in Statement,
         st.at = "idle" \/ st.overlapped = run[s].overlapped, Step(s, st)
  PROVE  Moves(s) /\ run'[s] = st
<1>1. \A r \in Runners : run'[r] = IF r = s THEN st ELSE run[r]
  BY DEF Step, RunType
<1>2. RunType' /\ run'[s] = st
  BY DEF Step, RunType
<1>3. \A r \in Runners \ {s} : run'[r] = run[r] /\ (Busy(r)' <=> Busy(r))
  BY <1>1 DEF Busy
<1>4. OverlapInv'
  BY <1>2, <1>3 DEF OverlapInv, Busy
<1>5. \A r \in Runners \ {s} : Same(run[r], run'[r]) /\ (Busy(r) => run'[r].overlapped)
  BY <1>3 DEF OverlapInv, Same
<1> QED BY <1>2, <1>4, <1>5 DEF Moves

\* What the other sessions rely on
LEMMA OthersKeep ==
  ASSUME KeysInv, NEW s \in Runners, Moves(s), NEW r \in Runners \ {s}
  PROVE  SessionOK(run'[r]) /\ Alone(run'[r], fks', rows')
<1>1. SessionOK(run[r]) /\ Same(run[r], run'[r]) /\ (Busy(r) => run'[r].overlapped)
  BY DEF KeysInv, SessionsInv, Moves
<1>2. SessionOK(run'[r])
  BY <1>1 DEF SessionOK, Same
<1>3. Alone(run'[r], fks', rows')
  BY <1>1 DEF Alone, Same, Busy
<1> QED BY <1>2, <1>3

\* A step of one session keeps the invariant if it does so for that session and for the
\* tables: the others are independent of it.
LEMMA Conclude ==
  ASSUME KeysInv, NEW s \in Runners, Moves(s), CatalogType', RowsType', RowsInv',
         HeapInv', IdsInv', SessionOK(run'[s]), Alone(run'[s], fks', rows')
  PROVE  KeysInv'
<1>1. SessionsInv'
  BY OthersKeep DEF SessionsInv
<1>2. AloneInv'
  BY OthersKeep DEF AloneInv
<1> QED BY <1>1, <1>2 DEF KeysInv, Moves

\* No heap goes missing when a session that stores none moves.
LEMMA HeapKeeps ==
  ASSUME HeapInv, NEW s \in Runners, Moves(s), run[s].at # "store_heap",
         UNCHANGED <<info, has_heap>>
  PROVE  HeapInv'
BY DEF HeapInv, Moves, Same

\* A step that only looks at the tables
LEMMA ReadsOnly ==
  ASSUME KeysInv, NEW s \in Runners, Moves(s), run[s].at # "store_heap",
         UNCHANGED <<info, has_heap, rows, fks, ids_raced>>, CatalogType',
         SessionOK(run'[s]), Alone(run'[s], fks, rows),
         \A n \in Names \ ids_raced : Writes(run'[s], n, rows[n])
  PROVE  KeysInv'
<1>1. RowsType' /\ RowsInv'
  BY DEF KeysInv, RowsType, RowsInv
<1>2. HeapInv'
  BY HeapKeeps DEF KeysInv
<1>3. IdsInv'
  <2>1. \A n \in Names \ ids_raced, r \in Runners \ {s} : Writes(run'[r], n, rows[n])
    BY DEF KeysInv, IdsInv, Moves, Same, Writes
  <2> QED BY <2>1 DEF KeysInv, IdsInv
<1>4. Alone(run'[s], fks', rows')
  OBVIOUS
<1> QED BY <1>1, <1>2, <1>3, <1>4, Conclude

\* The server hangs or crashes.
LEMMA FateKeeps ==
  ASSUME KeysInv, UNCHANGED <<info, has_heap, files, rows, fks, run, history>>,
         fate' \in {"up", "hung", "crashed"}
  PROVE  KeysInv'
BY DEF KeysInv, history, CatalogType, RowsType, RunType, RowsInv, SessionsInv, OverlapInv, Busy,
       HeapInv, IdsInv, AloneInv

\* A statement that has nothing open relies on nothing.
LEMMA Harmless ==
  ASSUME NEW st, st.at \in {"idle", "first_page", "register", "store_heap", "drop"}, NEW fk, NEW rws
  PROVE  SessionOK(st) /\ Alone(st, fk, rws) /\ \A n, R : Writes(st, n, R)
BY DEF SessionOK, Alone, Writes

\* The names that two sessions created or dropped at once
LEMMA DdlRacedType ==
  ASSUME CatalogType, NEW s, NEW n \in Names, DdlBeside(s, n)
  PROVE  ddl_raced' \subseteq Names
BY DEF CatalogType, DdlBeside

\* CREATE TABLE: the file
LEMMA CreateKeys ==
  ASSUME KeysInv, NEW s \in Runners, NEW n \in Names, Create(s, n)
  PROVE  KeysInv'
<1>1. CASE n \in files
  <2>1. UNCHANGED <<info, has_heap, files, rows, fks, run, history>> /\ fate' = "hung"
    BY <1>1 DEF Create, history
  <2> QED BY <2>1, FateKeeps
<1>2. CASE n \notin files
  <2> DEFINE st == [Idle EXCEPT !.at = "first_page", !.table = n]
  <2>1. /\ ~Busy(s) /\ files' = files \cup {n} /\ Begin(s, st) /\ DdlBeside(s, n)
        /\ UNCHANGED <<info, has_heap, rows, fks, ids_raced>> /\ UNCHANGED <<lost, fate>>
    BY <1>2 DEF Create, Can, Busy
  <2>2. st \in Statement /\ st.at = "first_page"
    BY IdleType DEF Statement, Places
  <2> HIDE DEF st
  <2>3. Moves(s) /\ run'[s].at = "first_page"
    BY <2>1, <2>2, BeginMoves DEF KeysInv, Same
  <2>4. CatalogType'
    BY <2>1, DdlRacedType DEF KeysInv, CatalogType
  <2> QED BY <2>1, <2>3, <2>4, Harmless, ReadsOnly DEF Busy
<1> QED BY <1>1, <1>2

\* CREATE TABLE: the first page, or the end of the statement
LEMMA FirstPageKeys ==
  ASSUME KeysInv, NEW s \in Runners, FirstPage(s)
  PROVE  KeysInv'
<1> DEFINE st == [run[s] EXCEPT !.at = "register"]
<1>0. /\ run[s].at = "first_page" /\ run[s] \in Statement /\ run[s].table \in Names /\ Busy(s)
      /\ UNCHANGED <<info, has_heap, rows, fks, ids_raced>> /\ UNCHANGED <<files, fate, ddl_raced>>
      /\ lost' \subseteq lost \cup {run[s].table}
      /\ Step(s, st) \/ Step(s, Idle)
  BY DEF FirstPage, Can, KeysInv, RunType, Statement, Busy
<1>1. st \in Statement /\ st.at = "register" /\ st.overlapped = run[s].overlapped
  BY <1>0 DEF Statement, Places
<1> HIDE DEF st
<1>2. Moves(s) /\ run'[s].at \in {"idle", "register"}
  BY <1>0, <1>1, IdleType, StepMoves DEF KeysInv
<1>3. CatalogType'
  BY <1>0 DEF KeysInv, CatalogType
<1>4. SessionOK(run'[s]) /\ Alone(run'[s], fks, rows) /\ \A n, R : Writes(run'[s], n, R)
  BY <1>2, Harmless
<1> QED BY <1>0, <1>2, <1>3, <1>4, ReadsOnly

\* DROP TABLE: the file
LEMMA DropKeys ==
  ASSUME KeysInv, NEW s \in Runners, NEW n \in Names, Drop(s, n)
  PROVE  KeysInv'
<1> DEFINE st == [Idle EXCEPT !.at = "drop", !.table = n]
<1>1. /\ ~Busy(s) /\ files' \subseteq files /\ lost' \subseteq lost \cup {n}
      /\ Begin(s, st) /\ DdlBeside(s, n)
      /\ UNCHANGED <<info, has_heap, rows, fks, ids_raced>> /\ UNCHANGED fate
  BY DEF Drop, Can, Busy
<1>2. st \in Statement /\ st.at = "drop"
  BY IdleType DEF Statement, Places
<1> HIDE DEF st
<1>3. Moves(s) /\ run'[s].at = "drop"
  BY <1>1, <1>2, BeginMoves DEF KeysInv, Same
<1>4. CatalogType'
  BY <1>1, DdlRacedType DEF KeysInv, CatalogType
<1> QED BY <1>1, <1>3, <1>4, Harmless, ReadsOnly DEF Busy

\* A session ends its statement without having changed anything in this step.
LEMMA EndsKeys ==
  ASSUME KeysInv, NEW s \in Runners, Busy(s), run[s].at # "store_heap", Step(s, Idle),
         UNCHANGED <<info, has_heap, rows, fks, ids_raced>>, UNCHANGED <<files, fate, ddl_raced, lost>>
  PROVE  KeysInv'
<1>1. Moves(s) /\ run'[s].at = "idle"
  BY IdleType, StepMoves DEF KeysInv
<1>2. CatalogType'
  BY DEF KeysInv, CatalogType
<1>3. SessionOK(run'[s]) /\ Alone(run'[s], fks, rows) /\ \A n, R : Writes(run'[s], n, R)
  BY <1>1, Harmless
<1> QED BY <1>1, <1>2, <1>3, ReadsOnly

\* INSERT opens the table.
LEMMA InsertOpensKeys ==
  ASSUME KeysInv, NEW s \in Runners, NEW n \in Names, NEW ref \in Refs, InsertOpens(s, n, ref)
  PROVE  KeysInv'
<1> DEFINE st == [Idle EXCEPT !.at = "scan", !.table = n, !.ref = ref, !.info = info[n]]
<1>1. /\ ~Busy(s) /\ info[n] # 0 /\ Begin(s, st)
      /\ UNCHANGED <<info, has_heap, rows, fks, ids_raced>> /\ UNCHANGED <<files, fate, ddl_raced, lost>>
  BY DEF InsertOpens, Can, Busy, CanOpen, history
<1>2. info[n] \in 0 .. 2 /\ ref \in 0 .. MaxRefs
  BY TablesAssumption DEF KeysInv, CatalogType, Refs
<1>3. st \in Statement /\ st.at = "scan" /\ st.ref = ref /\ st.info = info[n]
  BY <1>2, IdleType DEF Statement, Places
<1> HIDE DEF st
<1>4. Moves(s) /\ run'[s].at = "scan" /\ run'[s].ref = ref /\ run'[s].info = info[n]
  BY <1>1, <1>3, BeginMoves DEF KeysInv, Same
<1>5. CatalogType'
  BY <1>1 DEF KeysInv, CatalogType
<1>6. SessionOK(run'[s]) /\ Alone(run'[s], fks, rows) /\ \A m, R : Writes(run'[s], m, R)
  BY <1>1, <1>4 DEF SessionOK, Alone, Writes
<1> QED BY <1>1, <1>4, <1>5, <1>6, ReadsOnly DEF Busy

\* The id that get_next_id gives is new, or is not positive.
LEMMA NextIdIsNew ==
  ASSUME NEW n \in Names, RowsType
  PROVE  /\ NextId(n) \in (-MaxId - 1) .. MaxId
         /\ \A r \in rows[n] : r.id = NextId(n) => NextId(n) <= 0
<1> DEFINE S == {r.id : r \in rows[n]} \cup {0}
<1>0. MaxId \in Nat
  BY TablesAssumption
<1>1. \A r \in rows[n] : r.id \in (-MaxId - 1) .. MaxId
  BY DEF RowsType, Row
<1>2. S \subseteq Int /\ S # {} /\ \A x \in S : x <= MaxId
  BY <1>0, <1>1
<1>3. 0 \in S /\ \A r \in rows[n] : r.id \in S
  OBVIOUS
<1> HIDE DEF S
<1>4. Max(S) \in S /\ \A x \in S : Max(S) >= x
  <2>1. MaxId \in Int
    BY <1>0
  <2> QED BY <1>2, <2>1, MaxOf, Zenon
<1>5. Max(S) \in 0 .. MaxId /\ \A r \in rows[n] : r.id <= Max(S)
  <2>1. Max(S) \in Int /\ Max(S) >= 0 /\ Max(S) <= MaxId
    BY <1>2, <1>3, <1>4
  <2>2. \A r \in rows[n] : r.id \in Int /\ Max(S) >= r.id
    BY <1>2, <1>3, <1>4
  <2> QED BY <1>0, <2>1, <2>2
<1>6. NextId(n) = ToIdType(Max(S) + 1)
  BY DEF NextId, S
<1>7. CASE Max(S) = MaxId
  BY <1>0, <1>5, <1>6, <1>7 DEF ToIdType
<1>8. CASE Max(S) # MaxId
  <2>1. NextId(n) = Max(S) + 1
    BY <1>0, <1>5, <1>6, <1>8 DEF ToIdType
  <2> QED BY <1>0, <1>1, <1>5, <1>8, <2>1
<1> QED BY <1>7, <1>8

\* INSERT scans for the next id.
LEMMA InsertScansKeys ==
  ASSUME KeysInv, NEW s \in Runners, InsertScans(s)
  PROVE  KeysInv'
<1> DEFINE n == run[s].table
           st == [run[s] EXCEPT !.at = "write", !.id = NextId(n)]
<1>0. run[s] \in Statement /\ run[s].at = "scan" /\ n \in Names /\ Busy(s)
  BY DEF InsertScans, Can, KeysInv, RunType, Statement, Busy
<1>1. CASE info[n] # run[s].info
  <2>1. UNCHANGED <<info, has_heap, files, rows, fks, run, history>> /\ fate' = "crashed"
    BY <1>1 DEF InsertScans, OnTable
  <2> QED BY <2>1, FateKeeps
<1>2. CASE info[n] = run[s].info
  <2>1. /\ Step(s, st)
        /\ UNCHANGED <<info, has_heap, rows, fks, ids_raced>> /\ UNCHANGED <<files, fate, ddl_raced, lost>>
    BY <1>2 DEF InsertScans, OnTable, history
  <2>2. /\ NextId(n) \in (-MaxId - 1) .. MaxId
        /\ \A r \in rows[n] : r.id = NextId(n) => NextId(n) <= 0
    BY <1>0, NextIdIsNew DEF KeysInv
  <2>3. /\ st \in Statement /\ st.at = "write" /\ st.overlapped = run[s].overlapped
        /\ st.ref = run[s].ref /\ st.info = run[s].info /\ st.table = n /\ st.id = NextId(n)
    BY <1>0, <2>2 DEF Statement, Places
  <2>4. SessionOK(run[s])
    BY DEF KeysInv, SessionsInv
  <2> HIDE DEF st
  <2>5. SessionOK(st) /\ Alone(st, fks, rows) /\ \A m, R : Writes(st, m, R)
    BY <1>0, <2>2, <2>3, <2>4 DEF SessionOK, Alone, Writes
  <2>6. Moves(s) /\ run'[s] = st
    BY <1>0, <2>1, <2>3, StepMoves DEF KeysInv
  <2>7. CatalogType'
    BY <2>1 DEF KeysInv, CatalogType
  <2> QED BY <1>0, <2>1, <2>5, <2>6, <2>7, ReadsOnly
<1> QED BY <1>1, <1>2

\* UPDATE collects rows.
LEMMA UpdateCollectsKeys ==
  ASSUME KeysInv, NEW s \in Runners, NEW n \in Names, NEW id, NEW ref \in Refs,
         UpdateCollects(s, n, id, ref)
  PROVE  KeysInv'
<1> DEFINE new(r) == [r EXCEPT !.ref = ref]
           F == {new(r) : r \in {q \in rows[n] : q.id = id}}
           st == [Idle EXCEPT !.at = "update", !.table = n, !.info = info[n], !.found = F]
<1>1. /\ ~Busy(s) /\ info[n] # 0 /\ Begin(s, st)
      /\ UNCHANGED <<info, has_heap, rows, fks, ids_raced>> /\ UNCHANGED <<files, fate, ddl_raced, lost>>
  BY DEF UpdateCollects, Can, Busy, CanOpen, history
<1>2. ASSUME NEW r \in rows[n]
      PROVE  new(r) \in Row /\ new(r).rid = r.rid /\ new(r).id = r.id
  <2>1. r \in Row
    BY DEF KeysInv, RowsType
  <2> QED BY <2>1 DEF Row
<1>3. F \subseteq Row /\ \A f \in F : \E r \in rows[n] : f.rid = r.rid /\ f.id = r.id
  <2> HIDE DEF new
  <2> QED BY <1>2
<1> HIDE DEF F
<1>4. info[n] \in 0 .. 2
  BY DEF KeysInv, CatalogType
<1>5. st \in Statement /\ st.at = "update" /\ st.info = info[n] /\ st.table = n /\ st.found = F
  BY <1>3, <1>4, IdleType DEF Statement, Places
<1> HIDE DEF st
<1>6. Moves(s) /\ Same(st, run'[s])
  BY <1>1, <1>5, BeginMoves DEF KeysInv
<1>7. CatalogType'
  BY <1>1 DEF KeysInv, CatalogType
<1>8. SessionOK(run'[s]) /\ Alone(run'[s], fks, rows)
  BY <1>1, <1>5, <1>6 DEF SessionOK, Alone, Same
<1>9. \A m \in Names \ ids_raced : Writes(run'[s], m, rows[m])
  <2>1. Numbered(rows[n])
    BY DEF KeysInv, RowsInv
  <2>2. \A f \in F, r \in rows[n] : r.rid = f.rid => r.id = f.id
    BY <1>3, <2>1 DEF Numbered
  <2> QED BY <1>5, <1>6, <2>2 DEF Writes, Same
<1> QED BY <1>1, <1>6, <1>7, <1>8, <1>9, ReadsOnly DEF Busy

\* DELETE collects rows.
LEMMA DeleteCollectsKeys ==
  ASSUME KeysInv, NEW s \in Runners, NEW n \in Names, NEW id \in 1 .. MaxId, DeleteCollects(s, n, id)
  PROVE  KeysInv'
<1> DEFINE F == {r \in rows[n] : r.id = id}
           c == Call(n, {id}, 1)
           st == [Idle EXCEPT !.at = "delete", !.table = n, !.info = info[n],
                              !.found = F, !.frames = <<c>>]
<1>1. /\ ~Busy(s) /\ info[n] # 0 /\ Begin(s, st)
      /\ UNCHANGED <<info, has_heap, rows, fks, ids_raced>> /\ UNCHANGED <<files, fate, ddl_raced, lost>>
  BY DEF DeleteCollects, Can, Busy, CanOpen, history
<1>2. F \subseteq Row /\ \A f \in F : f.id = id
  BY DEF KeysInv, RowsType
<1>3. info[n] \in 0 .. 2
  BY DEF KeysInv, CatalogType
<1>4. c \in Frame /\ c.table = n /\ c.ids = {id} /\ c.child = {}
  BY DEF Call, Frame
<1> HIDE DEF F, c
<1>5. <<c>> \in Seq(Frame) /\ <<c>> # <<>> /\ Head(<<c>>) = c
  BY <1>4
<1>6. /\ st \in Statement /\ st.at = "delete" /\ st.info = info[n] /\ st.table = n /\ st.found = F
      /\ st.frames = <<c>> /\ st.gone = {}
  <2>1. Idle.gone = {}
    BY DEF Idle
  <2> QED BY <1>2, <1>3, <1>5, <2>1, IdleType DEF Statement, Places
<1> HIDE DEF st
<1>7. Moves(s) /\ Same(st, run'[s])
  BY <1>1, <1>6, BeginMoves DEF KeysInv
<1>8. CatalogType'
  BY <1>1 DEF KeysInv, CatalogType
<1>9. SessionOK(run'[s])
  BY <1>1, <1>2, <1>4, <1>5, <1>6, <1>7 DEF SessionOK, Same
<1>10. Alone(run'[s], fks, rows) /\ \A m, R : Writes(run'[s], m, R)
  BY <1>6, <1>7 DEF Alone, Covered, Writes, Same
<1> QED BY <1>1, <1>7, <1>8, <1>9, <1>10, ReadsOnly DEF Busy

-----------------------------------------------------------------------------
(* The cascade.                                                            *)

\* t is the stack st with the frames L in place of the top one.
OnTop(t, L, st) == t = L \o Tail(st)

\* What a stack holds after its top was replaced by other frames
LEMMA Pushed ==
  ASSUME NEW S, NEW st \in Seq(S), st # <<>>, NEW L \in Seq(S), NEW t, OnTop(t, L, st)
  PROVE  /\ t \in Seq(S)
         /\ \A i \in DOMAIN st : i = 1 \/ \E j \in DOMAIN t : t[j] = st[i]
         /\ \A i \in DOMAIN L : i \in DOMAIN t /\ t[i] = L[i]
<1>1. /\ Tail(st) \in Seq(S) /\ Len(Tail(st)) = Len(st) - 1 /\ Len(st) \in Nat /\ Len(L) \in Nat
      /\ \A i \in 1 .. Len(st) - 1 : Tail(st)[i] = st[i + 1]
      /\ DOMAIN st = 1 .. Len(st) /\ DOMAIN L = 1 .. Len(L)
  OBVIOUS
<1>2. /\ t \in Seq(S) /\ DOMAIN t = 1 .. Len(L) + (Len(st) - 1)
      /\ \A i \in 1 .. Len(L) : t[i] = L[i]
      /\ \A i \in 1 .. Len(st) - 1 : t[Len(L) + i] = Tail(st)[i]
  BY <1>1 DEF OnTop
<1>3. ASSUME NEW i \in DOMAIN st, i # 1
      PROVE  \E j \in DOMAIN t : t[j] = st[i]
  <2>1. i - 1 \in 1 .. Len(st) - 1 /\ (i - 1) + 1 = i
    BY <1>1, <1>3
  <2>2. t[Len(L) + (i - 1)] = st[i]
    BY <1>1, <1>2, <2>1
  <2>3. Len(L) + (i - 1) \in DOMAIN t
    BY <1>1, <1>2, <2>1
  <2> QED BY <2>2, <2>3
<1>4. \A i \in DOMAIN L : i \in DOMAIN t /\ t[i] = L[i]
  BY <1>1, <1>2
<1> QED BY <1>2, <1>3, <1>4

\* A call is replaced by a frame for each foreign key to follow.
LEMMA ChildFramesList ==
  ASSUME RowsType, RowsInv, NEW f \in Frame
  PROVE  /\ ChildFrames(f) \in Seq(Frame)
         /\ f.depth <= CascadeLimit =>
              \A k \in fks[f.table] : k.on_delete = "CASCADE" =>
                \E i \in DOMAIN ChildFrames(f) : ChildFrames(f)[i] = [f EXCEPT !.child = {k.child}]
<1> DEFINE K == {g \in fks[f.table] : g.on_delete = "CASCADE"}
           fr(k) == [f EXCEPT !.child = {k.child}]
           S == {fr(k) : k \in K}
           fn == [k \in K |-> fr(k)]
<1>1. f.table \in Names /\ fks[f.table] \subseteq ForeignKey /\ IsFiniteSet(fks[f.table])
  BY DEF Frame, RowsType, RowsInv
<1>2. IsFiniteSet(K)
  BY <1>1, FS_Subset
<1>3. \A k \in K : fr(k) \in Frame
  BY <1>1 DEF ForeignKey, Frame
<1> HIDE DEF fr
<1>4. fn \in Surjection(K, S)
  BY DEF Surjection
<1>5. IsFiniteSet(S)
  <2> HIDE DEF S, K, fn
  <2> QED BY <1>2, <1>4, FS_Surjection
<1>6. S \subseteq Frame
  BY <1>3
<1>7. SetToSeq(S) \in Seq(S) /\ \A x \in S : \E i \in DOMAIN SetToSeq(S) : SetToSeq(S)[i] = x
  <2> HIDE DEF S
  <2> QED BY <1>5, ListOfSet
<1>8. SetToSeq(S) \in Seq(Frame)
  <2> HIDE DEF S
  <2> QED BY <1>6, <1>7
<1>9. f.depth <= CascadeLimit => ChildFrames(f) = SetToSeq(S)
  <2>1. f.depth \in Nat /\ CascadeLimit \in Nat
    BY TablesAssumption DEF Frame
  <2> QED BY <2>1 DEF ChildFrames, fr
<1>10. ~(f.depth <= CascadeLimit) => ChildFrames(f) = <<>>
  <2>1. f.depth \in Nat /\ CascadeLimit \in Nat
    BY TablesAssumption DEF Frame
  <2> QED BY <2>1 DEF ChildFrames
<1>11. <<>> \in Seq(Frame)
  OBVIOUS
<1>12. ChildFrames(f) \in Seq(Frame)
  BY <1>8, <1>9, <1>10, <1>11
<1>13. ASSUME f.depth <= CascadeLimit, NEW k \in fks[f.table], k.on_delete = "CASCADE"
       PROVE  \E i \in DOMAIN ChildFrames(f) : ChildFrames(f)[i] = fr(k)
  <2>1. fr(k) \in S
    BY <1>13
  <2> QED BY <1>7, <1>9, <1>13, <2>1
<1> QED BY <1>12, <1>13 DEF fr

\* A statement that is alone finds every table of the catalog with its heap.
LEMMA AloneCanOpen ==
  ASSUME KeysInv, NEW s \in Runners, Busy(s), run[s].at # "store_heap", ~run[s].overlapped,
         NEW n \in Names, rows[n] # {}
  PROVE  CanOpen(n)
<1>1. info[n] # 0
  BY DEF KeysInv, RowsInv
<1>2. ASSUME ~has_heap[n] PROVE FALSE
  <2>1. PICK q \in Runners : run[q].at = "store_heap"
    BY <1>1, <1>2 DEF KeysInv, HeapInv
  <2>2. q # s /\ Busy(q)
    BY <2>1 DEF Busy
  <2> QED BY <2>2 DEF KeysInv, OverlapInv
<1> QED BY <1>1, <1>2 DEF CanOpen

\* The top frame is a call: the foreign keys it follows cover what it covered.
LEMMA CascadeCalls ==
  ASSUME KeysInv, NEW s \in Runners, run[s].at = "cascade", run[s].frames # <<>>,
         NEW f, f = Head(run[s].frames), f.child = {},
         NEW L, OnTop(L, ChildFrames(f), run[s].frames),
         NEW st, st = [run[s] EXCEPT !.frames = L]
  PROVE  /\ st \in Statement /\ st.at = "cascade" /\ st.overlapped = run[s].overlapped
         /\ Alone(st, fks, rows)
<1> DEFINE old == run[s].frames
<1>0. run[s] \in Statement /\ old \in Seq(Frame) /\ old # <<>>
  BY DEF KeysInv, RunType, Statement
<1>1. f \in Frame /\ old[1] = f /\ RowsType /\ RowsInv
  BY <1>0 DEF KeysInv
<1>2. ChildFrames(f) \in Seq(Frame)
  BY <1>1, ChildFramesList
<1> HIDE DEF old
<1>3. /\ L \in Seq(Frame)
      /\ \A i \in DOMAIN old : i = 1 \/ \E j \in DOMAIN L : L[j] = old[i]
      /\ \A i \in DOMAIN ChildFrames(f) : i \in DOMAIN L /\ L[i] = ChildFrames(f)[i]
  <2>1. OnTop(L, ChildFrames(f), old)
    BY DEF old
  <2> QED BY <1>0, <1>2, <2>1, Pushed
<1>4. /\ st \in Statement /\ st.at = "cascade" /\ st.overlapped = run[s].overlapped
      /\ st.frames = L /\ st.gone = run[s].gone
  BY <1>0, <1>3 DEF Statement
<1>5. ASSUME ~run[s].overlapped,
             NEW g \in run[s].gone, g.depth <= CascadeLimit, NEW k \in fks[g.table],
             k.on_delete = "CASCADE", NEW r \in rows[k.child], r.ref = g.id
      PROVE  \E i \in DOMAIN L : Follows(L[i], g, k)
  <2>1. Covered(run[s], fks, rows)
    BY <1>5 DEF KeysInv, AloneInv, Alone
  <2>2. PICK i \in DOMAIN old : Follows(old[i], g, k)
    BY <1>5, <2>1 DEF Covered, old
  <2>3. CASE i # 1
    BY <1>3, <2>2, <2>3
  <2>4. CASE i = 1
    <3>1. Follows(f, g, k)
      BY <1>1, <2>2, <2>4
    <3>2. PICK j \in DOMAIN ChildFrames(f) : ChildFrames(f)[j] = [f EXCEPT !.child = {k.child}]
      BY <1>1, <1>5, <3>1, ChildFramesList DEF Follows
    <3>3. Follows([f EXCEPT !.child = {k.child}], g, k)
      BY <1>1, <3>1 DEF Follows, Frame
    <3>4. j \in DOMAIN L /\ L[j] = [f EXCEPT !.child = {k.child}]
      BY <1>3, <3>2, Zenon
    <3>5. Follows(L[j], g, k)
      BY <3>3, <3>4, Zenon
    <3> QED BY <3>4, <3>5, Zenon
  <2> QED BY <2>3, <2>4
<1>6. Alone(st, fks, rows)
  BY <1>4, <1>5 DEF Alone, Covered
<1> QED BY <1>4, <1>6

\* The top frame is a foreign key: what it covered is what it finds in the child.
LEMMA CascadeFollows ==
  ASSUME KeysInv, NEW s \in Runners, run[s].at = "cascade", run[s].frames # <<>>,
         NEW f, f = Head(run[s].frames), f.child # {}, ~run[s].overlapped,
         NEW g \in run[s].gone, g.depth <= CascadeLimit, NEW k \in fks[g.table],
         k.on_delete = "CASCADE", NEW r \in rows[k.child], r.ref = g.id
  PROVE  \/ \E i \in DOMAIN run[s].frames : i # 1 /\ Follows(run[s].frames[i], g, k)
         \/ f.child = {k.child} /\ r.ref \in f.ids
<1>0. run[s] \in Statement /\ run[s].frames \in Seq(Frame)
  BY DEF KeysInv, RunType, Statement
<1>1. run[s].frames[1] = f
  BY <1>0
<1>2. Covered(run[s], fks, rows)
  BY DEF KeysInv, AloneInv, Alone
<1>3. PICK i \in DOMAIN run[s].frames : Follows(run[s].frames[i], g, k)
  BY <1>2 DEF Covered
<1>4. CASE i = 1
  <2>1. f.child = {k.child} /\ g.id \in f.ids
    BY <1>1, <1>3, <1>4 DEF Follows
  <2> QED BY <2>1
<1> QED BY <1>3, <1>4

\* CascadeDelete
LEMMA CascadeKeys ==
  ASSUME KeysInv, NEW s \in Runners, Cascade(s)
  PROVE  KeysInv'
<1>f. PICK f : f = Head(run[s].frames)
  OBVIOUS
<1>r. PICK rest : rest = Tail(run[s].frames)
  OBVIOUS
<1>n. PICK n : n = CHOOSE c \in f.child : TRUE
  OBVIOUS
<1> DEFINE F == {r \in rows[n] : r.ref \in f.ids}
<1>0. /\ run[s].at = "cascade" /\ run[s].frames # <<>> /\ run[s] \in Statement /\ Busy(s)
      /\ run[s].frames \in Seq(Frame) /\ f \in Frame /\ rest \in Seq(Frame)
      /\ UNCHANGED <<info, has_heap, rows, fks, ids_raced>> /\ UNCHANGED <<files, fate, ddl_raced, lost>>
  BY <1>f, <1>r DEF Cascade, Can, Busy, KeysInv, RunType, Statement, history
<1>1. CatalogType'
  BY <1>0 DEF KeysInv, CatalogType
<1>2. ASSUME NEW st \in Statement, Step(s, st), st.overlapped = run[s].overlapped,
             st.at # "update", SessionOK(st), Alone(st, fks, rows)
      PROVE  KeysInv'
  <2>1. Moves(s) /\ run'[s] = st
    BY <1>0, <1>2, StepMoves DEF KeysInv
  <2>2. \A m, R : Writes(st, m, R)
    BY <1>2 DEF Writes
  <2> QED BY <1>0, <1>1, <1>2, <2>1, <2>2, ReadsOnly
<1>3. CASE f.child = {}
  <2>0. PICK L : OnTop(L, ChildFrames(f), run[s].frames)
    BY DEF OnTop
  <2> DEFINE st == [run[s] EXCEPT !.frames = L]
  <2>1. Step(s, st)
    BY <1>f, <1>r, <1>3, <2>0 DEF Cascade, OnTop
  <2>2. /\ st \in Statement /\ st.at = "cascade" /\ st.overlapped = run[s].overlapped
        /\ Alone(st, fks, rows)
    BY <1>f, <1>0, <1>3, <2>0, CascadeCalls
  <2> HIDE DEF st
  <2>3. SessionOK(st)
    BY <2>2 DEF SessionOK
  <2> QED BY <1>2, <2>1, <2>2, <2>3
<1>4. CASE f.child # {} /\ (~CanOpen(n) \/ F = {})
  <2> DEFINE st == [run[s] EXCEPT !.frames = rest]
  <2>1. Step(s, st)
    BY <1>f, <1>r, <1>n, <1>4 DEF Cascade
  <2>2. /\ st \in Statement /\ st.at = "cascade" /\ st.overlapped = run[s].overlapped
        /\ st.frames = rest /\ st.gone = run[s].gone
    BY <1>0 DEF Statement
  <2> HIDE DEF st
  <2>3. SessionOK(st)
    BY <2>2 DEF SessionOK
  <2>4. ASSUME ~run[s].overlapped,
               NEW g \in run[s].gone, g.depth <= CascadeLimit, NEW k \in fks[g.table],
               k.on_delete = "CASCADE", NEW r \in rows[k.child], r.ref = g.id
        PROVE  \E i \in DOMAIN rest : Follows(rest[i], g, k)
    <3>1. \/ \E i \in DOMAIN run[s].frames : i # 1 /\ Follows(run[s].frames[i], g, k)
          \/ n = k.child /\ r.ref \in f.ids
      <4>1. \/ \E i \in DOMAIN run[s].frames : i # 1 /\ Follows(run[s].frames[i], g, k)
            \/ f.child = {k.child} /\ r.ref \in f.ids
        BY <1>f, <1>0, <1>4, <2>4, CascadeFollows
      <4> QED BY <1>n, <4>1
    <3>2. ASSUME n = k.child, r.ref \in f.ids PROVE FALSE
      <4>1. r \in F /\ rows[n] # {} /\ n \in Names
        BY <1>n, <1>0, <1>4, <3>2 DEF Frame
      <4>2. CanOpen(n)
        BY <1>0, <2>4, <4>1, AloneCanOpen
      <4> QED BY <1>4, <4>1, <4>2
    <3>3. PICK i \in DOMAIN run[s].frames : i # 1 /\ Follows(run[s].frames[i], g, k)
      BY <3>1, <3>2
    <3>4. i - 1 \in DOMAIN rest /\ rest[i - 1] = run[s].frames[i]
      BY <1>r, <1>0, <3>3
    <3> QED BY <3>3, <3>4
  <2>5. Alone(st, fks, rows)
    BY <2>2, <2>4 DEF Alone, Covered
  <2> QED BY <1>2, <2>1, <2>2, <2>3, <2>5
<1>5. CASE f.child # {} /\ CanOpen(n) /\ F # {}
  <2> DEFINE c == Call(n, {r.id : r \in F}, f.depth + 1)
             L == <<c>> \o rest
             st == [run[s] EXCEPT !.at = "delete", !.table = n, !.info = info[n],
                                  !.found = F, !.frames = L]
  <2>1. Step(s, st)
    BY <1>f, <1>r, <1>n, <1>5 DEF Cascade
  <2>2. n \in Names /\ info[n] \in 0 .. 2 /\ info[n] # 0
    BY <1>n, <1>0, <1>5 DEF Frame, KeysInv, CatalogType, CanOpen
  <2>3. F \subseteq Row
    BY <2>2 DEF KeysInv, RowsType
  <2>4. c \in Frame /\ c.table = n /\ c.child = {} /\ \A r \in F : r.id \in c.ids
    <3>1. {r.id : r \in F} \subseteq Int
      BY <2>3 DEF Row
    <3>2. f.depth + 1 \in Nat
      BY <1>0 DEF Frame
    <3> QED BY <2>2, <3>1, <3>2 DEF Call, Frame
  <2> HIDE DEF c, F
  <2>5. <<c>> \in Seq(Frame)
    BY <2>4
  <2>6. /\ L \in Seq(Frame) /\ L # <<>> /\ Head(L) = c
        /\ \A i \in DOMAIN run[s].frames : i = 1 \/ \E j \in DOMAIN L : L[j] = run[s].frames[i]
    <3>1. L # <<>> /\ Head(L) = c
      BY <1>0, <2>5
    <3>2. OnTop(L, <<c>>, run[s].frames)
      BY <1>r DEF OnTop
    <3>3. PICK one : one = <<c>>
      OBVIOUS
    <3>4. OnTop(L, one, run[s].frames) /\ one \in Seq(Frame)
      BY <2>5, <3>2, <3>3
    <3> HIDE DEF L
    <3> QED BY <1>0, <3>1, <3>4, Pushed
  <2> HIDE DEF L
  <2>7. /\ st \in Statement /\ st.at = "delete" /\ st.overlapped = run[s].overlapped
        /\ st.table = n /\ st.info = info[n] /\ st.found = F
        /\ st.frames = L /\ st.gone = run[s].gone
    BY <1>0, <2>2, <2>3, <2>6 DEF Statement, Places
  <2> HIDE DEF st
  <2>8. SessionOK(st)
    BY <2>2, <2>4, <2>6, <2>7 DEF SessionOK
  <2>9. ASSUME ~run[s].overlapped,
               NEW g \in run[s].gone, g.depth <= CascadeLimit, NEW k \in fks[g.table],
               k.on_delete = "CASCADE", NEW r \in rows[k.child], r.ref = g.id
        PROVE  \/ \E i \in DOMAIN L : Follows(L[i], g, k)
               \/ n = k.child /\ r \in F
    <3>1. \/ \E i \in DOMAIN run[s].frames : i # 1 /\ Follows(run[s].frames[i], g, k)
          \/ n = k.child /\ r.ref \in f.ids
      <4>1. \/ \E i \in DOMAIN run[s].frames : i # 1 /\ Follows(run[s].frames[i], g, k)
            \/ f.child = {k.child} /\ r.ref \in f.ids
        BY <1>f, <1>0, <1>5, <2>9, CascadeFollows
      <4> QED BY <1>n, <4>1
    <3>2. n = k.child /\ r.ref \in f.ids => r \in F
      BY DEF F
    <3> QED BY <2>6, <3>1, <3>2
  <2>10. Alone(st, fks, rows)
    BY <2>7, <2>9 DEF Alone, Covered
  <2> QED BY <1>2, <2>1, <2>7, <2>8, <2>10
<1> QED BY <1>3, <1>4, <1>5

-----------------------------------------------------------------------------
(* The steps that change tables.                                           *)

\* A session that finds its table freed stops the server.
LEMMA FreedKeys ==
  ASSUME KeysInv, NEW s, NEW A, OnTable(s, A), info[run[s].table] # run[s].info
  PROVE  KeysInv'
<1>1. UNCHANGED <<info, has_heap, files, rows, fks, run, history>> /\ fate' = "crashed"
  BY DEF OnTable
<1> QED BY <1>1, FateKeeps

\* The ids when only table n is changed
LEMMA IdsKeep ==
  ASSUME KeysInv, NEW s \in Runners, Moves(s), NEW n \in Names, ids_raced \subseteq ids_raced',
         \A m \in Names \ {n} : rows'[m] = rows[m],
         n \notin ids_raced' =>
            Unique(rows'[n]) /\ \A r \in Runners \ {s} : Writes(run[r], n, rows'[n]),
         \A m \in Names \ ids_raced' : Writes(run'[s], m, rows'[m])
  PROVE  IdsInv'
<1> SUFFICES ASSUME NEW m \in Names \ ids_raced'
             PROVE  Unique(rows'[m]) /\ \A r \in Runners : Writes(run'[r], m, rows'[m])
  BY DEF IdsInv
<1>1. Unique(rows'[m]) /\ \A r \in Runners \ {s} : Writes(run[r], m, rows'[m])
  BY DEF KeysInv, IdsInv
<1>2. \A r \in Runners \ {s} : Same(run[r], run'[r])
  BY DEF Moves
<1>3. \A r \in Runners \ {s} : Writes(run'[r], m, rows'[m])
  BY <1>1, <1>2 DEF Same, Writes
<1> QED BY <1>1, <1>3

\* A table is created or dropped: it has no rows and no foreign keys.
Clears(n, x) ==
  /\ info' = [info EXCEPT ![n] = x] /\ has_heap' = [has_heap EXCEPT ![n] = FALSE]
  /\ rows' = [rows EXCEPT ![n] = {}] /\ fks' = [fks EXCEPT ![n] = {}]

\* A table that is created or dropped begins or ends without rows and keys.
LEMMA ClearedKeys ==
  ASSUME KeysInv, NEW s \in Runners, Moves(s), NEW n \in Names, NEW x \in 0 .. 2,
         run[s].at # "store_heap", run'[s].at \in {"idle", "store_heap"},
         Clears(n, x), UNCHANGED <<files, fate, history>>,
         x # 0 => run'[s].at = "store_heap" /\ run'[s].table = n
  PROVE  KeysInv'
<1>1. /\ CatalogType /\ RowsType /\ RowsInv /\ HeapInv
      /\ UNCHANGED ids_raced /\ UNCHANGED <<files, fate, ddl_raced, lost>>
  BY DEF KeysInv, history
<1>2. CatalogType'
  BY <1>1 DEF CatalogType, Clears
<1>3. RowsType'
  BY <1>1 DEF RowsType, Clears
<1>4. /\ rows'[n] = {} /\ fks'[n] = {} /\ has_heap'[n] = FALSE /\ info'[n] = x
      /\ \A m \in Names \ {n} : /\ rows'[m] = rows[m] /\ fks'[m] = fks[m]
                                /\ has_heap'[m] = has_heap[m] /\ info'[m] = info[m]
  BY <1>1 DEF RowsType, CatalogType, Clears
<1>5. RowsInv'
  <2>1. Numbered({}) /\ Bounded({}) /\ IsFiniteSet({})
    BY FS_EmptySet DEF Numbered, Bounded
  <2> QED BY <1>1, <1>4, <2>1 DEF RowsInv
<1>6. HeapInv'
  BY <1>1, <1>4 DEF HeapInv, Moves, Same
<1>7. SessionOK(run'[s]) /\ Alone(run'[s], fks', rows') /\ \A m, R : Writes(run'[s], m, R)
  BY Harmless
<1>8. IdsInv'
  <2>1. Unique(rows'[n]) /\ \A r : Writes(run[r], n, rows'[n])
    BY <1>4 DEF Unique, Writes
  <2> QED BY <1>1, <1>4, <1>7, <2>1, IdsKeep
<1> QED BY <1>2, <1>3, <1>5, <1>6, <1>7, <1>8, Conclude

\* CREATE TABLE: the catalog
LEMMA RegisterKeys ==
  ASSUME KeysInv, NEW s \in Runners, Register(s)
  PROVE  KeysInv'
<1>0. /\ run[s].at = "register" /\ run[s] \in Statement /\ run[s].table \in Names /\ Busy(s)
      /\ UNCHANGED <<files, fate, history>>
  BY DEF Register, Can, KeysInv, RunType, Statement, Busy
<1>1. CASE info[run[s].table] # 0
  <2>1. /\ Step(s, Idle) /\ UNCHANGED <<info, has_heap, rows, fks, ids_raced>>
        /\ UNCHANGED <<files, fate, ddl_raced, lost>>
    BY <1>1 DEF Register, history
  <2> QED BY <1>0, <2>1, EndsKeys
<1>2. CASE info[run[s].table] = 0
  <2> DEFINE st == [run[s] EXCEPT !.at = "store_heap"]
  <2>n. PICK n \in Names : n = run[s].table
    BY <1>0
  <2>1. Step(s, st) /\ Clears(n, 2)
    BY <1>2, <2>n DEF Register, Clears
  <2>2. st \in Statement /\ st.at = "store_heap" /\ st.table = n /\ st.overlapped = run[s].overlapped
    BY <1>0, <2>n DEF Statement, Places
  <2> HIDE DEF st
  <2>3. Moves(s) /\ run'[s] = st
    BY <1>0, <2>1, <2>2, StepMoves DEF KeysInv
  <2> QED BY <1>0, <2>1, <2>2, <2>3, ClearedKeys
<1> QED BY <1>1, <1>2

\* DROP TABLE: the catalog
LEMMA DropFromCatalogKeys ==
  ASSUME KeysInv, NEW s \in Runners, DropFromCatalog(s)
  PROVE  KeysInv'
<1>0. /\ run[s].at = "drop" /\ run[s] \in Statement /\ run[s].table \in Names /\ Busy(s)
      /\ UNCHANGED <<files, fate, history>>
  BY DEF DropFromCatalog, Can, KeysInv, RunType, Statement, Busy
<1>n. PICK n \in Names : n = run[s].table
  BY <1>0
<1>1. Step(s, Idle) /\ Clears(n, 0)
  BY <1>n DEF DropFromCatalog, Clears
<1>2. Moves(s) /\ run'[s].at = "idle"
  BY <1>0, <1>1, IdleType, StepMoves DEF KeysInv
<1> QED BY <1>0, <1>1, <1>2, ClearedKeys

\* CREATE TABLE: the heap
LEMMA StoreHeapKeys ==
  ASSUME KeysInv, NEW s \in Runners, StoreHeap(s)
  PROVE  KeysInv'
<1>0. /\ run[s].at = "store_heap" /\ run[s] \in Statement /\ run[s].table \in Names /\ Busy(s)
      /\ UNCHANGED <<info, rows, fks, ids_raced>> /\ UNCHANGED <<files, fate, ddl_raced, lost>>
      /\ Step(s, Idle)
  BY DEF StoreHeap, Can, KeysInv, RunType, Statement, Busy, history
<1>n. PICK n \in Names : n = run[s].table
  BY <1>0
<1>1. Moves(s) /\ run'[s].at = "idle"
  BY <1>0, IdleType, StepMoves DEF KeysInv
<1>2. has_heap \in [Names -> BOOLEAN] /\ info \in [Names -> 0 .. 2]
  BY DEF KeysInv, CatalogType
<1>3. /\ has_heap' \in [Names -> BOOLEAN]
      /\ has_heap'[n] <=> has_heap[n] \/ info[n] # 0
      /\ \A m \in Names \ {n} : has_heap'[m] = has_heap[m]
  <2>1. has_heap' = [has_heap EXCEPT ![n] = (has_heap[n] \/ info[n] # 0)]
    BY <1>n DEF StoreHeap
  <2>2. (has_heap[n] \/ info[n] # 0) \in BOOLEAN
    OBVIOUS
  <2> QED BY <1>2, <2>1, <2>2
<1>4. CatalogType' /\ RowsType'
  BY <1>0, <1>3 DEF KeysInv, CatalogType, RowsType
<1>5. RowsInv'
  BY <1>0, <1>3 DEF KeysInv, RowsInv
<1>6. HeapInv'
  <2> SUFFICES ASSUME NEW m \in Names, info'[m] # 0, ~has_heap'[m]
               PROVE  \E r \in Runners : run'[r].at = "store_heap" /\ run'[r].table = m
    BY DEF HeapInv
  <2>1. m # n /\ info[m] # 0 /\ ~has_heap[m]
    BY <1>0, <1>3
  <2>2. PICK r \in Runners : run[r].at = "store_heap" /\ run[r].table = m
    BY <2>1 DEF KeysInv, HeapInv
  <2>3. r # s
    BY <1>n, <2>1, <2>2
  <2> QED BY <1>1, <2>2, <2>3 DEF Moves, Same
<1>7. SessionOK(run'[s]) /\ Alone(run'[s], fks', rows') /\ \A m, R : Writes(run'[s], m, R)
  BY <1>1, Harmless
<1>8. IdsInv'
  <2>1. n \notin ids_raced => Unique(rows'[n]) /\ \A r \in Runners \ {s} : Writes(run[r], n, rows'[n])
    BY <1>0 DEF KeysInv, IdsInv
  <2> QED BY <1>0, <1>1, <1>7, <2>1, IdsKeep
<1> QED BY <1>1, <1>4, <1>5, <1>6, <1>7, <1>8, Conclude

\* The RID of a new row is larger than those of the rows there are.
LEMMA NewRidIsNew ==
  ASSUME NEW n \in Names, RowsType, RowsInv
  PROVE  NewRid(n) \in Nat \ {0} /\ \A r \in rows[n] : r.rid < NewRid(n)
<1> DEFINE S == {r.rid : r \in rows[n]} \cup {0}
<1>1. \A r \in rows[n] : r.rid \in Nat
  BY DEF RowsType, Row
<1>2. PICK b \in Nat : \A r \in rows[n] : r.rid <= b
  BY DEF RowsInv, Bounded
<1>3. S \subseteq Int /\ S # {} /\ \A x \in S : x <= b
  BY <1>1, <1>2
<1>4. 0 \in S /\ \A r \in rows[n] : r.rid \in S
  OBVIOUS
<1> HIDE DEF S
<1>5. Max(S) \in S /\ \A x \in S : Max(S) >= x
  <2>1. b \in Int
    OBVIOUS
  <2> QED BY <1>3, <2>1, MaxOf, Zenon
<1>6. Max(S) \in Nat
  <2>1. Max(S) \in Int /\ Max(S) >= 0
    BY <1>3, <1>4, <1>5
  <2> QED BY <2>1
<1>7. \A r \in rows[n] : Max(S) >= r.rid
  BY <1>4, <1>5
<1>8. NewRid(n) = Max(S) + 1
  BY DEF NewRid, S
<1> QED BY <1>1, <1>6, <1>7, <1>8

\* INSERT writes its row.
LEMMA InsertWritesKeys ==
  ASSUME KeysInv, NEW s \in Runners, InsertWrites(s)
  PROVE  KeysInv'
<1>0. /\ run[s].at = "write" /\ run[s] \in Statement /\ run[s].table \in Names /\ Busy(s)
  BY DEF InsertWrites, Can, KeysInv, RunType, Statement, Busy
<1>n. PICK n \in Names : n = run[s].table
  BY <1>0
<1>1. CASE info[n] # run[s].info
  BY <1>n, <1>1, FreedKeys DEF InsertWrites
<1>2. CASE info[n] = run[s].info
  <2> DEFINE new == [rid |-> NewRid(n), id |-> run[s].id, ref |-> run[s].ref]
  <2>1. /\ rows' = [rows EXCEPT ![n] = @ \cup {new}]
        /\ ids_raced' = IF run[s].overlapped THEN ids_raced \cup {n} ELSE ids_raced
        /\ Step(s, Idle)
        /\ UNCHANGED <<info, has_heap, fks>> /\ UNCHANGED <<files, fate, ddl_raced, lost>>
    BY <1>2, <1>n DEF InsertWrites, OnTable
  <2>2. SessionOK(run[s]) /\ RowsType /\ RowsInv /\ Alone(run[s], fks, rows)
    BY DEF KeysInv, SessionsInv, AloneInv
  <2>3. info[n] # 0 /\ run[s].ref \in Refs
    BY <1>0, <1>2, <2>2 DEF SessionOK
  <2>4. /\ new \in Row /\ new.id = run[s].id /\ new.rid = NewRid(n)
        /\ \A r \in rows[n] : r.rid < new.rid
    BY <1>0, <2>2, <2>3, NewRidIsNew DEF Row, Statement
  <2> HIDE DEF new
  <2>5. Moves(s) /\ run'[s].at = "idle"
    BY <1>0, <2>1, IdleType, StepMoves DEF KeysInv
  <2>6. CatalogType' /\ HeapInv'
    <3>1. CatalogType'
      BY <2>1 DEF KeysInv, CatalogType
    <3> QED BY <1>0, <2>1, <2>5, <3>1, HeapKeeps DEF KeysInv
  <2>7. rows'[n] = rows[n] \cup {new} /\ \A m \in Names \ {n} : rows'[m] = rows[m]
    BY <2>1, <2>2 DEF RowsType
  <2>8. RowsType'
    <3>1. rows' \in [Names -> SUBSET Row]
      BY <2>1, <2>2, <2>4 DEF RowsType
    <3> QED BY <2>1, <2>2, <3>1 DEF RowsType
  <2>9. RowsInv'
    <3>1. \A r \in rows[n] : r.rid \in Nat
      BY <2>2 DEF RowsType, Row
    <3>2. new.rid \in Nat
      BY <2>4 DEF Row
    <3>3. Numbered(rows'[n])
      BY <2>2, <2>4, <2>7, <3>1, <3>2 DEF RowsInv, Numbered
    <3>4. Bounded(rows'[n])
      BY <2>4, <2>7, <3>1, <3>2 DEF Bounded
    <3> QED BY <2>1, <2>2, <2>3, <2>7, <3>3, <3>4 DEF RowsInv
  <2>10. SessionOK(run'[s]) /\ Alone(run'[s], fks', rows') /\ \A m, R : Writes(run'[s], m, R)
    BY <2>5, Harmless
  <2>11. ASSUME n \notin ids_raced'
         PROVE  Unique(rows'[n]) /\ \A r \in Runners \ {s} : Writes(run[r], n, rows'[n])
    <3>1. ~run[s].overlapped /\ n \notin ids_raced
      BY <2>1, <2>11
    <3>2. \A r \in rows[n] : r.id = new.id => ~(new.id > 0)
      <4>1. \A r \in rows[n] : r.id = new.id => new.id <= 0
        BY <1>0, <1>n, <2>2, <2>4, <3>1 DEF Alone
      <4>2. new.id \in Int
        BY <2>4 DEF Row
      <4> QED BY <4>1, <4>2
    <3>3. Unique(rows[n])
      BY <3>1 DEF KeysInv, IdsInv
    <3>4. Unique(rows'[n])
      BY <2>7, <3>2, <3>3 DEF Unique
    <3>5. \A r \in Runners \ {s} : ~Busy(r)
      BY <1>0, <3>1 DEF KeysInv, OverlapInv
    <3> QED BY <3>4, <3>5 DEF Writes, Busy
  <2>12. IdsInv'
    <3>1. ids_raced \subseteq ids_raced'
      BY <2>1
    <3> QED BY <2>5, <2>7, <2>10, <2>11, <3>1, IdsKeep
  <2> QED BY <2>5, <2>6, <2>8, <2>9, <2>10, <2>12, Conclude
<1> QED BY <1>1, <1>2

\* UPDATE writes a row.
LEMMA UpdateAppliesKeys ==
  ASSUME KeysInv, NEW s \in Runners, UpdateApplies(s)
  PROVE  KeysInv'
<1>0. /\ run[s].at = "update" /\ run[s] \in Statement /\ run[s].table \in Names /\ Busy(s)
  BY DEF UpdateApplies, Can, KeysInv, RunType, Statement, Busy
<1>n. PICK n \in Names : n = run[s].table
  BY <1>0
<1>1. CASE info[n] # run[s].info
  BY <1>n, <1>1, FreedKeys DEF UpdateApplies
<1>2. CASE info[n] = run[s].info /\ run[s].found = {}
  <2>1. /\ Step(s, Idle) /\ UNCHANGED <<info, has_heap, rows, fks, ids_raced>>
        /\ UNCHANGED <<files, fate, ddl_raced, lost>>
    BY <1>2, <1>n DEF UpdateApplies, OnTable, history
  <2> QED BY <1>0, <2>1, EndsKeys
<1>3. CASE info[n] = run[s].info /\ run[s].found # {}
  <2>new. PICK new : new = CHOOSE r \in run[s].found : TRUE
    OBVIOUS
  <2> DEFINE up(r) == IF r.rid = new.rid THEN new ELSE r
             st == [run[s] EXCEPT !.found = @ \ {new}]
  <2>1. /\ rows' = [rows EXCEPT ![n] = {up(r) : r \in @}]
        /\ Step(s, st)
        /\ UNCHANGED <<info, has_heap, fks, ids_raced>> /\ UNCHANGED <<files, fate, ddl_raced, lost>>
    BY <1>3, <1>n, <2>new DEF UpdateApplies, OnTable, history
  <2>2. new \in run[s].found /\ new \in Row
    BY <1>0, <1>3, <2>new DEF Statement
  <2>3. /\ st \in Statement /\ st.at = "update" /\ st.overlapped = run[s].overlapped
        /\ st.table = n /\ st.info = run[s].info /\ st.found = run[s].found \ {new}
    BY <1>0, <1>n DEF Statement
  <2> HIDE DEF st
  <2>4. Moves(s) /\ run'[s] = st
    BY <1>0, <2>1, <2>3, StepMoves DEF KeysInv
  <2>5. CatalogType' /\ HeapInv'
    <3>1. CatalogType'
      BY <2>1 DEF KeysInv, CatalogType
    <3> QED BY <1>0, <2>1, <2>4, <3>1, HeapKeeps DEF KeysInv
  <2>6. RowsType /\ RowsInv /\ SessionOK(run[s])
    BY DEF KeysInv, SessionsInv
  <2>7. rows'[n] = {up(r) : r \in rows[n]} /\ \A m \in Names \ {n} : rows'[m] = rows[m]
    BY <2>1, <2>6 DEF RowsType
  <2>8. \A r \in rows[n] : up(r) \in Row /\ up(r).rid = r.rid
    BY <2>2, <2>6 DEF RowsType
  <2>9. n \notin ids_raced => \A r \in rows[n] : up(r).id = r.id
    <3>1. n \notin ids_raced => Writes(run[s], n, rows[n])
      BY DEF KeysInv, IdsInv
    <3> QED BY <1>0, <1>n, <2>2, <3>1 DEF Writes
  <2>10. RowsType'
    <3>1. rows' \in [Names -> SUBSET Row]
      <4>1. {up(r) : r \in rows[n]} \subseteq Row
        BY <2>8
      <4> QED BY <2>1, <2>6, <4>1 DEF RowsType
    <3> QED BY <2>1, <2>6, <3>1 DEF RowsType
  <2> HIDE DEF up
  <2>11. \A q \in rows'[n] : \E r \in rows[n] : q = up(r)
    BY <2>7
  <2>12. RowsInv'
    <3>1. Numbered(rows[n]) /\ Bounded(rows[n]) /\ info[n] # 0
      BY <1>0, <1>3, <2>6 DEF RowsInv, SessionOK
    <3>2. Numbered(rows'[n])
      <4> SUFFICES ASSUME NEW q \in rows'[n], NEW r \in rows'[n], q.rid = r.rid
                   PROVE  q = r
        BY DEF Numbered
      <4>1. PICK q0 \in rows[n] : q = up(q0)
        BY <2>11
      <4>2. PICK r0 \in rows[n] : r = up(r0)
        BY <2>11
      <4>3. q0 = r0
        BY <2>8, <3>1, <4>1, <4>2 DEF Numbered
      <4> QED BY <4>1, <4>2, <4>3
    <3>3. Bounded(rows'[n])
      <4>1. PICK b \in Nat : \A r \in rows[n] : r.rid <= b
        BY <3>1 DEF Bounded
      <4>2. \A q \in rows'[n] : q.rid <= b
        BY <2>8, <2>11, <4>1
      <4> QED BY <4>2 DEF Bounded
    <3> QED BY <2>1, <2>6, <2>7, <3>1, <3>2, <3>3 DEF RowsInv
  <2>13. SessionOK(st) /\ Alone(st, fks', rows')
    BY <1>0, <2>3, <2>6 DEF SessionOK, Alone
  <2>14. ASSUME n \notin ids_raced
         PROVE  Unique(rows'[n]) /\ \A r \in Runners : Writes(run[r], n, rows'[n])
    <3>1. Unique(rows[n]) /\ \A r \in Runners : Writes(run[r], n, rows[n])
      BY <2>14 DEF KeysInv, IdsInv
    <3>2. Unique(rows'[n])
      <4> SUFFICES ASSUME NEW q \in rows'[n], NEW r \in rows'[n], q.id = r.id, q.id > 0
                   PROVE  q = r
        BY DEF Unique
      <4>1. PICK q0 \in rows[n] : q = up(q0)
        BY <2>11
      <4>2. PICK r0 \in rows[n] : r = up(r0)
        BY <2>11
      <4>3. q0 = r0
        BY <2>9, <2>14, <3>1, <4>1, <4>2 DEF Unique
      <4> QED BY <4>1, <4>2, <4>3
    <3>3. \A q \in rows'[n] : \E r \in rows[n] : q.rid = r.rid /\ q.id = r.id
      BY <2>8, <2>9, <2>11, <2>14
    <3>4. \A r \in Runners : Writes(run[r], n, rows'[n])
      BY <3>1, <3>3 DEF Writes
    <3> QED BY <3>2, <3>4
  <2>15. \A m \in Names \ ids_raced : Writes(st, m, rows'[m])
    BY <1>0, <1>n, <2>3, <2>14 DEF Writes
  <2>16. IdsInv'
    BY <2>1, <2>4, <2>7, <2>14, <2>15, IdsKeep
  <2> QED BY <2>4, <2>5, <2>10, <2>12, <2>13, <2>16, Conclude
<1> QED BY <1>1, <1>2, <1>3

\* DELETE deletes a row: the rows that refer to it are left to the frame on top.
LEMMA DeleteRowKeys ==
  ASSUME KeysInv, NEW s \in Runners, DeleteRow(s)
  PROVE  KeysInv'
<1>0. /\ run[s].at = "delete" /\ run[s] \in Statement /\ run[s].table \in Names /\ Busy(s)
      /\ SessionOK(run[s]) /\ RowsType /\ RowsInv /\ Alone(run[s], fks, rows)
  BY DEF DeleteRow, Can, KeysInv, RunType, Statement, Busy, SessionsInv, AloneInv
<1>n. PICK n \in Names : n = run[s].table
  BY <1>0
<1>1. CASE info[n] # run[s].info
  BY <1>n, <1>1, FreedKeys DEF DeleteRow
<1>2. CASE info[n] = run[s].info /\ run[s].found = {}
  <2> DEFINE st == [run[s] EXCEPT !.at = "cascade"]
  <2>1. /\ Step(s, st) /\ UNCHANGED <<info, has_heap, rows, fks, ids_raced>>
        /\ UNCHANGED <<files, fate, ddl_raced, lost>>
    BY <1>2, <1>n DEF DeleteRow, OnTable, history
  <2>2. /\ st \in Statement /\ st.at = "cascade" /\ st.overlapped = run[s].overlapped
        /\ st.frames = run[s].frames /\ st.gone = run[s].gone
    BY <1>0 DEF Statement, Places
  <2> HIDE DEF st
  <2>3. Moves(s) /\ run'[s] = st
    BY <1>0, <2>1, <2>2, StepMoves DEF KeysInv
  <2>4. CatalogType'
    BY <2>1 DEF KeysInv, CatalogType
  <2>5. SessionOK(st) /\ \A m, R : Writes(st, m, R)
    BY <2>2 DEF SessionOK, Writes
  <2>6. Alone(st, fks, rows)
    BY <1>0, <1>2, <2>2 DEF Alone, Covered
  <2> QED BY <1>0, <2>1, <2>3, <2>4, <2>5, <2>6, ReadsOnly
<1>3. CASE info[n] = run[s].info /\ run[s].found # {}
  <2>old. PICK old : old = CHOOSE r \in run[s].found : TRUE
    OBVIOUS
  <2>f. PICK f : f = Head(run[s].frames)
    OBVIOUS
  <2> DEFINE g1 == [table |-> n, id |-> old.id, depth |-> f.depth]
             st == [run[s] EXCEPT !.found = @ \ {old}, !.gone = @ \cup {g1}]
  <2>1. /\ rows' = [rows EXCEPT ![n] = {r \in @ : r.rid # old.rid}]
        /\ Step(s, st)
        /\ UNCHANGED <<info, has_heap, fks, ids_raced>> /\ UNCHANGED <<files, fate, ddl_raced, lost>>
    BY <1>3, <1>n, <2>old, <2>f DEF DeleteRow, OnTable, history
  <2>2. old \in run[s].found /\ old \in Row
    BY <1>0, <1>3, <2>old DEF Statement
  <2>3. /\ run[s].frames \in Seq(Frame) /\ run[s].frames # <<>>
        /\ f \in Frame /\ 1 \in DOMAIN run[s].frames /\ run[s].frames[1] = f
        /\ f.table = n /\ f.child = {} /\ old.id \in f.ids
    <3>1. run[s].frames \in Seq(Frame) /\ run[s].frames # <<>>
      BY <1>0 DEF Statement, SessionOK
    <3>2. f \in Frame /\ 1 \in DOMAIN run[s].frames /\ run[s].frames[1] = f
      BY <2>f, <3>1
    <3>3. f.table = n /\ f.child = {} /\ old.id \in f.ids
      BY <1>0, <1>n, <2>2, <2>f DEF SessionOK
    <3> QED BY <3>1, <3>2, <3>3
  <2>4. g1 \in Deleted /\ g1.table = n /\ g1.id = old.id /\ g1.depth = f.depth
    BY <2>2, <2>3 DEF Row, Frame, Deleted
  <2> HIDE DEF g1
  <2>5. /\ st \in Statement /\ st.at = "delete" /\ st.overlapped = run[s].overlapped
        /\ st.table = n /\ st.info = run[s].info /\ st.found = run[s].found \ {old}
        /\ st.gone = run[s].gone \cup {g1} /\ st.frames = run[s].frames
    BY <1>0, <1>n, <2>4 DEF Statement
  <2> HIDE DEF st
  <2>6. Moves(s) /\ run'[s] = st
    BY <1>0, <2>1, <2>5, StepMoves DEF KeysInv
  <2>7. CatalogType' /\ HeapInv'
    <3>1. CatalogType'
      BY <2>1 DEF KeysInv, CatalogType
    <3> QED BY <1>0, <2>1, <2>6, <3>1, HeapKeeps DEF KeysInv
  <2>8. /\ \A m \in Names \ {n} : rows'[m] = rows[m]
        /\ rows'[n] = {r \in rows[n] : r.rid # old.rid}
    BY <1>0, <2>1 DEF RowsType
  <2>9. /\ \A m \in Names : rows'[m] \subseteq rows[m]
        /\ \A r \in rows'[n] : r # old
    BY <2>8
  <2>10. RowsType'
    <3>1. {r \in rows[n] : r.rid # old.rid} \subseteq Row
      BY <1>0 DEF RowsType
    <3>2. rows' \in [Names -> SUBSET Row]
      BY <1>0, <2>1, <3>1 DEF RowsType
    <3> QED BY <1>0, <2>1, <3>2 DEF RowsType
  <2>11. RowsInv'
    BY <1>0, <2>1, <2>9 DEF RowsInv, Numbered, Bounded
  <2>12. SessionOK(st)
    BY <1>0, <2>5, <1>n DEF SessionOK
  <2>13. ASSUME ~run[s].overlapped
         PROVE  Covered(st, fks, rows')
    <3> SUFFICES ASSUME NEW g \in st.gone, g.depth <= CascadeLimit, NEW k \in fks[g.table],
                        k.on_delete = "CASCADE", NEW r \in rows'[k.child], r.ref = g.id
                 PROVE  \/ \E i \in DOMAIN st.frames : Follows(st.frames[i], g, k)
                        \/ st.at = "delete" /\ st.table = k.child /\ r \in st.found
      BY DEF Covered
    <3>1. CASE g = g1
      <4>1. Follows(f, g, k)
        BY <2>3, <2>4, <3>1 DEF Follows
      <4> QED BY <2>3, <2>5, <4>1
    <3>2. CASE g # g1
      <4>0. k.child \in Names
        <5>1. g \in Deleted
          BY <2>5 DEF Statement
        <5>2. k \in ForeignKey
          BY <1>0, <5>1 DEF RowsType, Deleted
        <5> QED BY <5>2 DEF ForeignKey
      <4>1. g \in run[s].gone /\ r \in rows[k.child]
        BY <2>5, <2>9, <3>2, <4>0
      <4>2. \/ \E i \in DOMAIN run[s].frames : Follows(run[s].frames[i], g, k)
            \/ run[s].table = k.child /\ r \in run[s].found
        BY <1>0, <2>13, <4>1 DEF Alone, Covered
      <4>3. run[s].table = k.child => r # old
        BY <1>n, <2>9
      <4> QED BY <1>n, <2>5, <4>2, <4>3
    <3> QED BY <3>1, <3>2
  <2>14. Alone(st, fks', rows')
    BY <2>1, <2>5, <2>13 DEF Alone
  <2>15. IdsInv'
    <3>1. n \notin ids_raced => Unique(rows'[n]) /\ \A r \in Runners \ {s} : Writes(run[r], n, rows'[n])
      BY <2>9 DEF KeysInv, IdsInv, Unique, Writes
    <3>2. \A m, R : Writes(st, m, R)
      BY <2>5 DEF Writes
    <3> QED BY <2>1, <2>6, <2>8, <3>1, <3>2, IdsKeep
  <2> QED BY <2>6, <2>7, <2>10, <2>11, <2>12, <2>14, <2>15, Conclude
<1> QED BY <1>1, <1>2, <1>3

\* REGISTER_FK
LEMMA RegisterForeignKeyKeys ==
  ASSUME KeysInv, NEW s \in Runners, NEW n \in Names, NEW c \in Names, NEW a \in Actions,
         RegisterForeignKey(s, n, c, a)
  PROVE  KeysInv'
<1> DEFINE k == [child |-> c, on_delete |-> a]
<1>1. /\ ~Busy(s) /\ info[n] # 0 /\ fks' = [fks EXCEPT ![n] = @ \cup {k}]
      /\ Begin(s, Idle)
      /\ UNCHANGED <<info, has_heap, rows, ids_raced>> /\ UNCHANGED <<files, fate, ddl_raced, lost>>
  BY DEF RegisterForeignKey, Can, Busy, history
<1>2. k \in ForeignKey
  BY DEF ForeignKey
<1> HIDE DEF k
<1>3. Moves(s) /\ run'[s].at = "idle"
  BY <1>1, IdleType, BeginMoves DEF KeysInv, Same
<1>4. RowsType /\ RowsInv
  BY DEF KeysInv
<1>5. CatalogType' /\ HeapInv'
  <2>1. CatalogType'
    BY <1>1 DEF KeysInv, CatalogType
  <2> QED BY <1>1, <1>3, <2>1, HeapKeeps DEF KeysInv, Busy
<1>6. RowsType'
  BY <1>1, <1>2, <1>4 DEF RowsType
<1>7. fks'[n] = fks[n] \cup {k} /\ \A m \in Names \ {n} : fks'[m] = fks[m]
  BY <1>1, <1>4 DEF RowsType
<1>8. RowsInv'
  <2>1. IsFiniteSet(fks'[n])
    <3>1. IsFiniteSet(fks[n])
      BY <1>4 DEF RowsInv
    <3>2. IsFiniteSet(fks[n] \cup {k})
      BY <3>1, FS_AddElement
    <3> QED BY <1>7, <3>2
  <2> QED BY <1>1, <1>4, <1>7, <2>1 DEF RowsInv
<1>9. SessionOK(run'[s]) /\ Alone(run'[s], fks', rows') /\ \A m, R : Writes(run'[s], m, R)
  BY <1>3, Harmless
<1>10. IdsInv'
  <2>1. n \notin ids_raced => Unique(rows'[n]) /\ \A r \in Runners \ {s} : Writes(run[r], n, rows'[n])
    BY <1>1 DEF KeysInv, IdsInv
  <2> QED BY <1>1, <1>3, <1>9, <2>1, IdsKeep
<1> QED BY <1>3, <1>5, <1>6, <1>8, <1>9, <1>10, Conclude

\* A restart
LEMMA ForgetKeys ==
  ASSUME KeysInv, ForgetTables
  PROVE  KeysInv'
<1>1. /\ \A s \in Runners : run[s].at = "idle"
      /\ info' = [n \in Names |-> 0] /\ has_heap' = [n \in Names |-> FALSE]
      /\ rows' = [n \in Names |-> {}] /\ fks' = [n \in Names |-> {}]
      /\ lost' = files /\ ddl_raced' = {} /\ UNCHANGED <<files, run, fate, ids_raced>>
  BY DEF ForgetTables, Busy
<1>2. CatalogType' /\ RowsType' /\ RunType'
  BY <1>1 DEF KeysInv, CatalogType, RowsType, RunType
<1>3. RowsInv'
  <2>1. Numbered({}) /\ Bounded({}) /\ IsFiniteSet({})
    BY FS_EmptySet DEF Numbered, Bounded
  <2> QED BY <1>1, <2>1 DEF RowsInv
<1>4. \A s \in Runners : SessionOK(run'[s]) /\ Alone(run'[s], fks', rows') /\ \A m, R : Writes(run'[s], m, R)
  BY <1>1, Harmless
<1>5. SessionsInv' /\ AloneInv' /\ OverlapInv' /\ HeapInv'
  BY <1>1, <1>4 DEF SessionsInv, AloneInv, OverlapInv, Busy, HeapInv
<1>6. IdsInv'
  BY <1>1, <1>4 DEF IdsInv, Unique
<1> QED BY <1>2, <1>3, <1>5, <1>6 DEF KeysInv

\* A small database
LEMMA TablesInitKeys == TablesInit => KeysInv
<1> SUFFICES ASSUME TablesInit PROVE KeysInv
  OBVIOUS
<1>1. CatalogType /\ RunType /\ ids_raced = {}
  <2>1. /\ info = [n \in Names |-> 1] /\ has_heap = [n \in Names |-> TRUE]
        /\ files = Names /\ run = [s \in Runners |-> Idle] /\ fate = "up"
        /\ ids_raced = {} /\ ddl_raced = {} /\ lost = {}
    BY DEF TablesInit
  <2>2. CatalogType
    <3>1. info \in [Names -> 0 .. 2]
      BY <2>1
    <3>2. has_heap \in [Names -> BOOLEAN] /\ ddl_raced \subseteq Names
      BY <2>1
    <3> QED BY <2>1, <3>1, <3>2, Zenon DEF CatalogType
  <2>3. RunType
    BY <2>1, IdleType DEF RunType
  <2> QED BY <2>1, <2>2, <2>3
<1>2. PICK refs \in [Names -> SeqOf(Refs, MaxInitRows)] :
        rows = [n \in Names |->
                  {[rid |-> i, id |-> i, ref |-> refs[n][i]] : i \in DOMAIN refs[n]}]
  BY DEF TablesInit
<1>3. ASSUME NEW n \in Names
      PROVE  rows[n] \subseteq Row /\ Numbered(rows[n]) /\ Bounded(rows[n]) /\ Unique(rows[n])
  <2>0. refs[n] \in UNION {[1 .. m -> Refs] : m \in 0 .. MaxInitRows}
    BY <1>3 DEF SeqOf
  <2>1. PICK m \in 0 .. MaxInitRows : refs[n] \in [1 .. m -> Refs]
    BY <2>0
  <2>2. MaxInitRows \in Nat /\ MaxId \in Nat /\ MaxInitRows <= MaxId
    BY TablesAssumption
  <2> DEFINE new(i) == [rid |-> i, id |-> i, ref |-> refs[n][i]]
  <2>3. rows[n] = {new(i) : i \in 1 .. m}
    BY <1>2, <1>3, <2>1
  <2>4. \A i \in 1 .. m : new(i) \in Row /\ new(i).rid = i /\ new(i).id = i
    BY <2>1, <2>2 DEF Row
  <2> HIDE DEF new
  <2>5. \A r \in rows[n] : \E i \in 1 .. m : r = new(i)
    BY <2>3
  <2>6. \A r \in rows[n] : r \in Row /\ r.rid \in 1 .. m /\ r.id = r.rid /\ r = new(r.rid)
    BY <2>4, <2>5
  <2>7. Numbered(rows[n]) /\ Unique(rows[n])
    BY <2>6 DEF Numbered, Unique
  <2>8. Bounded(rows[n])
    BY <2>2, <2>6 DEF Bounded
  <2> QED BY <2>6, <2>7, <2>8
<1>4. PICK child \in [Names -> SUBSET Names] :
        fks = [n \in Names |-> {[child |-> c, on_delete |-> "CASCADE"] : c \in child[n]}]
  BY DEF TablesInit
<1>5. ASSUME NEW n \in Names
      PROVE  fks[n] \subseteq ForeignKey /\ IsFiniteSet(fks[n])
  <2> DEFINE key(c) == [child |-> c, on_delete |-> "CASCADE"]
             S == {key(c) : c \in child[n]}
             fn == [c \in child[n] |-> key(c)]
  <2>1. IsFiniteSet(child[n])
    BY <1>4, <1>5, TablesAssumption, FS_Subset
  <2>2. fks[n] = S
    BY <1>4, <1>5
  <2>3. \A c \in child[n] : key(c) \in ForeignKey
    BY <1>4, <1>5 DEF ForeignKey, Actions
  <2> HIDE DEF key
  <2>4. fn \in Surjection(child[n], S)
    BY DEF Surjection
  <2>5. S \subseteq ForeignKey
    BY <2>3
  <2> HIDE DEF S, fn
  <2>6. IsFiniteSet(S)
    BY <2>1, <2>4, FS_Surjection
  <2> QED BY <2>2, <2>5, <2>6
<1>6. RowsType
  <2>1. DOMAIN rows = Names /\ DOMAIN fks = Names
    BY <1>2, <1>4
  <2>2. rows = [n \in Names |-> rows[n]] /\ fks = [n \in Names |-> fks[n]]
    BY <1>2, <1>4
  <2> QED BY <1>1, <1>3, <1>5, <2>2 DEF RowsType
<1>7. RowsInv
  <2>1. \A n \in Names : info[n] = 1
    BY DEF TablesInit
  <2> QED BY <1>3, <1>5, <2>1 DEF RowsInv
<1>8. \A s \in Runners : run[s].at = "idle"
  BY IdleType DEF TablesInit
<1>9. \A s \in Runners : SessionOK(run[s]) /\ Alone(run[s], fks, rows) /\ \A m, R : Writes(run[s], m, R)
  BY <1>8, Harmless
<1>10. HeapInv
  BY DEF TablesInit, HeapInv
<1>11. SessionsInv /\ AloneInv /\ OverlapInv
  BY <1>8, <1>9 DEF SessionsInv, AloneInv, OverlapInv, Busy
<1>12. IdsInv
  BY <1>3, <1>9 DEF IdsInv
<1> QED BY <1>1, <1>6, <1>7, <1>10, <1>11, <1>12 DEF KeysInv

\* One step of the statements, the logins and the restart, as the tables see it
LEMMA StutterKeys == ASSUME KeysInv, UNCHANGED table_vars PROVE KeysInv'
<1>1. UNCHANGED <<info, has_heap, files, rows, fks, run, history>> /\ fate' = fate
  BY DEF table_vars
<1> QED BY <1>1, FateKeeps DEF KeysInv, CatalogType

\* A DELETE that ends changes no table.
LEMMA DeleteEndsKeys == ASSUME KeysInv, NEW s \in Runners, DeleteEnds(s) PROVE KeysInv'
<1>1. /\ Busy(s) /\ run[s].at # "store_heap" /\ Step(s, Idle)
      /\ UNCHANGED <<info, has_heap, rows, fks, ids_raced>> /\ UNCHANGED <<files, fate, ddl_raced, lost>>
  BY DEF DeleteEnds, Can, Busy, history
<1> QED BY <1>1, EndsKeys

\* Every step keeps the invariant of rows and keys.
LEMMA KeysStep == KeysInv /\ [CommandsNext]_command_vars => KeysInv'
<1> SUFFICES ASSUME KeysInv, [CommandsNext]_command_vars PROVE KeysInv'
  OBVIOUS
<1>1. ASSUME NEW s \in Runners, DataStatement(s) PROVE KeysInv'
  BY <1>1, CreateKeys, DropKeys, RegisterForeignKeyKeys, InsertOpensKeys, UpdateCollectsKeys,
     DeleteCollectsKeys DEF DataStatement
<1>2. ASSUME NEW s \in Runners, DataStatementGoesOn(s) PROVE KeysInv'
  BY <1>2, FirstPageKeys, RegisterKeys, StoreHeapKeys, DropFromCatalogKeys, InsertScansKeys, InsertWritesKeys,
     UpdateAppliesKeys, DeleteRowKeys, CascadeKeys, DeleteEndsKeys DEF DataStatementGoesOn
<1>3. CASE Issue
  BY <1>1, <1>3, ForgetKeys, StutterKeys DEF Issue
<1>4. CASE UNCHANGED command_vars
  BY <1>4, StutterKeys DEF command_vars
<1>5. CASE CommandsNext /\ ~Issue
  BY <1>2, <1>5, StutterKeys DEF CommandsNext
<1> QED BY <1>3, <1>4, <1>5

\* It holds in every state.
LEMMA KeysAlways == CommandsSpec => []KeysInv
<1>1. CommandsInit => KeysInv
  BY TablesInitKeys DEF CommandsInit
<1> QED BY <1>1, KeysStep, PTL DEF CommandsSpec

\* It implies that keys are sound.
LEMMA KeysInvImplies == KeysInv => KeysAreSound
<1> SUFFICES ASSUME KeysInv PROVE KeysAreSound
  OBVIOUS
<1>1. TablesTypeOK
  <2>1. \A n \in Names : \A r \in rows[n] : r \in Row
    BY DEF KeysInv, RowsType
  <2>2. \A n \in Names : \A r \in rows[n] : /\ r.id \in (-MaxId - 1) .. MaxId
                                            /\ r.ref \in Refs /\ r.rid > 0
    <3>1. \A r \in Row : r.id \in (-MaxId - 1) .. MaxId /\ r.ref \in Refs /\ r.rid > 0
      BY DEF Row
    <3> QED BY <2>1, <3>1
  <2>3. \A n \in Names : \A k \in fks[n] : k.child \in Names /\ k.on_delete \in Actions
    BY DEF KeysInv, RowsType, ForeignKey
  <2>4. \A n \in Names : /\ \A q, r \in rows[n] : q.rid = r.rid => q = r
                         /\ info[n] = 0 => rows[n] = {} /\ fks[n] = {} /\ ~has_heap[n]
    BY DEF KeysInv, RowsInv, Numbered
  <2>5. \A s \in Runners : run[s].table \in Names /\ run[s].info \in 0 .. 2
    BY DEF KeysInv, RunType, Statement
  <2>6. /\ info \in [Names -> 0 .. 2] /\ has_heap \in [Names -> BOOLEAN] /\ files \subseteq Names
        /\ fate \in {"up", "hung", "crashed"}
        /\ ids_raced \subseteq Names /\ ddl_raced \subseteq Names /\ lost \subseteq Names
    BY DEF KeysInv, CatalogType, RowsType
  <2> QED BY <2>2, <2>3, <2>4, <2>5, <2>6 DEF TablesTypeOK
<1>2. CascadeIsComplete
  <2> SUFFICES ASSUME NEW s \in Runners, run[s].at = "cascade", run[s].frames = <<>>,
                      ~run[s].overlapped, NEW g \in run[s].gone, g.depth <= CascadeLimit,
                      NEW k \in fks[g.table], k.on_delete = "CASCADE",
                      NEW r \in rows[k.child], r.ref = g.id
               PROVE  FALSE
    BY DEF CascadeIsComplete
  <2>1. Covered(run[s], fks, rows)
    BY DEF KeysInv, AloneInv, Alone
  <2>2. \E i \in DOMAIN run[s].frames : Follows(run[s].frames[i], g, k)
    BY <2>1 DEF Covered
  <2> QED BY <2>2
<1>3. IdsAreUnique
  BY DEF KeysInv, IdsInv, Unique, IdsAreUnique
<1> QED BY <1>1, <1>2, <1>3 DEF KeysAreSound

\* For any tables, sessions, foreign keys and statements, and any depth limit: a DELETE
\* that ran alone leaves no row behind that refers to one it deleted within the limit,
\* whatever the shape of the foreign keys, and the ids that get_next_id gives out stay
\* unique in every table on which no INSERT overlapped with another statement.
THEOREM KeysStaySound == CommandsSpec => []KeysAreSound
BY KeysAlways, KeysInvImplies, PTL

-----------------------------------------------------------------------------
(* CREATE TABLE and DROP TABLE: the files and the catalog.                 *)

\* Nothing happens to a name.
LEMMA NameQuiet ==
  ASSUME NEW n, NameInv(n),
         \A r \in Runners : DdlOn(r, n)' <=> DdlOn(r, n),
         \A r \in Runners : DdlOn(r, n) => run'[r].at = run[r].at,
         info'[n] = info[n], has_heap'[n] = has_heap[n],
         (n \in files' <=> n \in files), (n \in lost' <=> n \in lost)
  PROVE  NameInv(n)'
<1>1. (HasFile(n)' <=> HasFile(n)) /\ (Settled(n)' <=> Settled(n))
  BY DEF HasFile, Settled
<1>2. \A s \in Runners : DdlOn(s, n)' => StageOK(n, run[s].at)'
  BY <1>1 DEF NameInv, StageOK
<1> QED BY <1>1, <1>2 DEF NameInv

\* A step in which no CREATE or DROP moves
LEMMA DdlQuiet ==
  ASSUME DdlInv, NEW s \in Runners, ~Ddl(s), ~Ddl(s)',
         \A r \in Runners \ {s} : run'[r].at = run[r].at /\ run'[r].table = run[r].table,
         UNCHANGED <<info, has_heap, files, lost, ddl_raced>>
  PROVE  DdlInv'
<1> SUFFICES ASSUME NEW n \in Names, n \notin ddl_raced'
             PROVE  NameInv(n)'
  BY DEF DdlInv
<1>1. \A r \in Runners : DdlOn(r, n)' <=> DdlOn(r, n)
  BY DEF DdlOn, Ddl
<1>2. \A r \in Runners : DdlOn(r, n) => run'[r].at = run[r].at
  BY DEF DdlOn
<1>3. NameInv(n)
  BY DEF DdlInv
<1> QED BY <1>1, <1>2, <1>3, NameQuiet

\* A step of a session that creates or drops n: other names are not its business, and n
\* is only the business of others if two ever worked on it at once.
LEMMA DdlMoves ==
  ASSUME DdlInv, NEW s \in Runners, NEW n \in Names,
         \A r \in Runners \ {s} : run'[r].at = run[r].at /\ run'[r].table = run[r].table,
         Ddl(s) => run[s].table = n, Ddl(s)' => run'[s].table = n,
         \A m \in Names \ {n} :
           /\ info'[m] = info[m] /\ has_heap'[m] = has_heap[m]
           /\ (m \in files' <=> m \in files) /\ (m \in lost' <=> m \in lost),
         ddl_raced \subseteq ddl_raced',
         n \notin ddl_raced' =>
           /\ \A r \in Runners \ {s} : ~DdlOn(r, n)
           /\ (n \in lost' => n \in files')
           /\ IF Ddl(s)' THEN StageOK(n, run[s].at)' ELSE Settled(n)'
  PROVE  DdlInv'
<1>1. ASSUME NEW m \in Names \ {n}, m \notin ddl_raced' PROVE NameInv(m)'
  <2>1. NameInv(m)
    BY <1>1 DEF DdlInv
  <2>2. \A r \in Runners : DdlOn(r, m)' <=> DdlOn(r, m)
    BY <1>1 DEF DdlOn, Ddl
  <2>3. \A r \in Runners : DdlOn(r, m) => run'[r].at = run[r].at
    BY <1>1 DEF DdlOn
  <2> QED BY <1>1, <2>1, <2>2, <2>3, NameQuiet
<1>2. ASSUME n \notin ddl_raced' PROVE NameInv(n)'
  <2>1. \A r \in Runners \ {s} : ~DdlOn(r, n)'
    BY <1>2 DEF DdlOn, Ddl
  <2>2. DdlOn(s, n)' <=> Ddl(s)'
    BY DEF DdlOn
  <2> QED BY <1>2, <2>1, <2>2 DEF NameInv
<1> QED BY <1>1, <1>2 DEF DdlInv

\* What the other sessions see of a statement that begins, or goes on
LEMMA BeginAt ==
  ASSUME RunType, NEW s \in Runners, ~Busy(s), NEW st \in Statement, Begin(s, st)
  PROVE  /\ run'[s].at = st.at /\ run'[s].table = st.table
         /\ \A r \in Runners \ {s} : run'[r].at = run[r].at /\ run'[r].table = run[r].table
BY BeginMoves DEF Moves, Same

\* Where the sessions are after a step of one of them
LEMMA StepAt ==
  ASSUME RunType, NEW s \in Runners, NEW st, Step(s, st)
  PROVE  run'[s] = st /\ \A r \in Runners \ {s} : run'[r] = run[r]
BY DEF RunType, Step

\* INSERT, UPDATE, DELETE and REGISTER_FK
LEMMA BeginsDdl ==
  ASSUME KeysInv, DdlInv, NEW s \in Runners, ~Busy(s), NEW st \in Statement,
         st.at \notin {"first_page", "register", "store_heap", "drop"}, Begin(s, st),
         UNCHANGED <<info, has_heap, files, lost, ddl_raced>>
  PROVE  DdlInv'
<1>1. /\ run'[s].at = st.at
      /\ \A r \in Runners \ {s} : run'[r].at = run[r].at /\ run'[r].table = run[r].table
  BY BeginAt DEF KeysInv
<1>2. ~Ddl(s) /\ ~Ddl(s)'
  BY <1>1 DEF Busy, Ddl
<1> QED BY <1>1, <1>2, DdlQuiet

\* Statements on data do not touch the catalog or the files.
LEMMA GoesOnDdl ==
  ASSUME KeysInv, DdlInv, NEW s \in Runners, ~Ddl(s), NEW st,
         st.at \notin {"first_page", "register", "store_heap", "drop"}, Step(s, st),
         UNCHANGED <<info, has_heap, files, lost, ddl_raced>>
  PROVE  DdlInv'
<1>1. run'[s] = st /\ \A r \in Runners \ {s} : run'[r] = run[r]
  BY StepAt DEF KeysInv
<1>2. ~Ddl(s)'
  BY <1>1 DEF Ddl
<1> QED BY <1>1, <1>2, DdlQuiet

\* Steps that leave the catalog, the files and the sessions alone
LEMMA SameDdl ==
  ASSUME DdlInv, UNCHANGED <<info, has_heap, files, lost, ddl_raced, run>>
  PROVE  DdlInv'
BY DEF DdlInv, NameInv, Settled, StageOK, HasFile, DdlOn, Ddl

\* Statements on data begin without touching the catalog or the files.
LEMMA DataBeginsDdl ==
  ASSUME KeysInv, DdlInv, NEW s \in Runners, NEW n \in Names,
         \/ \E c \in Names, a \in Actions : RegisterForeignKey(s, n, c, a)
         \/ \E ref \in Refs : InsertOpens(s, n, ref)
         \/ \E id \in 1 .. MaxId, ref \in Refs : UpdateCollects(s, n, id, ref)
         \/ \E id \in 1 .. MaxId : DeleteCollects(s, n, id)
  PROVE  DdlInv'
<1>1. CASE \E c \in Names, a \in Actions : RegisterForeignKey(s, n, c, a)
  <2>1. ~Busy(s) /\ Begin(s, Idle) /\ UNCHANGED <<info, has_heap, files, lost, ddl_raced>>
    BY <1>1 DEF RegisterForeignKey, Can, Busy, history
  <2> QED BY <2>1, IdleType, BeginsDdl
<1>2. ASSUME NEW ref \in Refs, InsertOpens(s, n, ref) PROVE DdlInv'
  <2> DEFINE st == [Idle EXCEPT !.at = "scan", !.table = n, !.ref = ref, !.info = info[n]]
  <2>1. ~Busy(s) /\ Begin(s, st) /\ UNCHANGED <<info, has_heap, files, lost, ddl_raced>>
    BY <1>2 DEF InsertOpens, Can, Busy, history
  <2>2. info[n] \in 0 .. 2 /\ ref \in 0 .. MaxRefs
    BY TablesAssumption DEF KeysInv, CatalogType, Refs
  <2>3. st \in Statement /\ st.at = "scan"
    BY <2>2, IdleType DEF Statement, Places
  <2> HIDE DEF st
  <2> QED BY <2>1, <2>3, BeginsDdl
<1>3. ASSUME NEW id \in 1 .. MaxId, NEW ref \in Refs, UpdateCollects(s, n, id, ref) PROVE DdlInv'
  <2> DEFINE new(r) == [r EXCEPT !.ref = ref]
             F == {new(r) : r \in {q \in rows[n] : q.id = id}}
             st == [Idle EXCEPT !.at = "update", !.table = n, !.info = info[n], !.found = F]
  <2>1. ~Busy(s) /\ Begin(s, st) /\ UNCHANGED <<info, has_heap, files, lost, ddl_raced>>
    BY <1>3 DEF UpdateCollects, Can, Busy, history
  <2>2. info[n] \in 0 .. 2
    BY DEF KeysInv, CatalogType
  <2>3. F \subseteq Row
    <3>1. \A r \in rows[n] : new(r) \in Row
      BY DEF KeysInv, RowsType, Row
    <3> HIDE DEF new
    <3> QED BY <3>1
  <2> HIDE DEF F
  <2>4. st \in Statement /\ st.at = "update"
    BY <2>2, <2>3, IdleType DEF Statement, Places
  <2> HIDE DEF st
  <2> QED BY <2>1, <2>4, BeginsDdl
<1>4. ASSUME NEW id \in 1 .. MaxId, DeleteCollects(s, n, id) PROVE DdlInv'
  <2> DEFINE F == {r \in rows[n] : r.id = id}
             c == Call(n, {id}, 1)
             st == [Idle EXCEPT !.at = "delete", !.table = n, !.info = info[n],
                                !.found = F, !.frames = <<c>>]
  <2>1. ~Busy(s) /\ Begin(s, st) /\ UNCHANGED <<info, has_heap, files, lost, ddl_raced>>
    BY <1>4 DEF DeleteCollects, Can, Busy, history
  <2>2. info[n] \in 0 .. 2 /\ F \subseteq Row /\ c \in Frame
    BY DEF KeysInv, CatalogType, RowsType, Call, Frame
  <2> HIDE DEF F, c
  <2>3. <<c>> \in Seq(Frame)
    BY <2>2
  <2>4. st \in Statement /\ st.at = "delete"
    BY <2>2, <2>3, IdleType DEF Statement, Places
  <2> HIDE DEF st
  <2> QED BY <2>1, <2>4, BeginsDdl
<1> QED BY <1>1, <1>2, <1>3, <1>4

\* The later steps of INSERT, UPDATE and DELETE
LEMMA DataGoesOnDdl ==
  ASSUME KeysInv, DdlInv, NEW s \in Runners,
         \/ InsertScans(s) \/ InsertWrites(s) \/ UpdateApplies(s)
         \/ DeleteRow(s) \/ Cascade(s) \/ DeleteEnds(s)
  PROVE  DdlInv'
<1>0. run[s] \in Statement /\ Idle.at = "idle"
  BY IdleType DEF KeysInv, RunType
<1>1. ASSUME NEW A, OnTable(s, A), info[run[s].table] # run[s].info PROVE DdlInv'
  <2>1. UNCHANGED <<info, has_heap, files, lost, ddl_raced, run>>
    BY <1>1 DEF OnTable, history
  <2> QED BY <2>1, SameDdl
<1>2. CASE InsertScans(s)
  <2>1. CASE info[run[s].table] # run[s].info
    BY <1>1, <1>2, <2>1 DEF InsertScans
  <2>2. CASE info[run[s].table] = run[s].info
    <3> DEFINE st == [run[s] EXCEPT !.at = "write", !.id = NextId(run[s].table)]
    <3>1. ~Ddl(s) /\ Step(s, st) /\ UNCHANGED <<info, has_heap, files, lost, ddl_raced>>
      BY <1>2, <2>2 DEF InsertScans, OnTable, Can, Ddl, history
    <3>2. st.at = "write"
      BY <1>0 DEF Statement
    <3> HIDE DEF st
    <3> QED BY <3>1, <3>2, GoesOnDdl
  <2> QED BY <2>1, <2>2
<1>3. CASE InsertWrites(s)
  <2>1. CASE info[run[s].table] # run[s].info
    BY <1>1, <1>3, <2>1 DEF InsertWrites
  <2>2. CASE info[run[s].table] = run[s].info
    <3>1. ~Ddl(s) /\ Step(s, Idle) /\ UNCHANGED <<info, has_heap, files, lost, ddl_raced>>
      BY <1>3, <2>2 DEF InsertWrites, OnTable, Can, Ddl
    <3> QED BY <1>0, <3>1, GoesOnDdl
  <2> QED BY <2>1, <2>2
<1>4. CASE UpdateApplies(s)
  <2>1. CASE info[run[s].table] # run[s].info
    BY <1>1, <1>4, <2>1 DEF UpdateApplies
  <2>2. CASE info[run[s].table] = run[s].info
    <3> DEFINE st(r) == [run[s] EXCEPT !.found = @ \ {r}]
    <3>1. /\ run[s].at = "update" /\ UNCHANGED <<info, has_heap, files, lost, ddl_raced>>
          /\ Step(s, Idle) \/ \E r : Step(s, st(r))
      BY <1>4, <2>2 DEF UpdateApplies, OnTable, Can, history
    <3>2. ~Ddl(s) /\ \A r : st(r).at = "update"
      BY <1>0, <3>1 DEF Statement, Ddl
    <3> HIDE DEF st
    <3> QED BY <1>0, <3>1, <3>2, GoesOnDdl
  <2> QED BY <2>1, <2>2
<1>5. CASE DeleteRow(s)
  <2>1. CASE info[run[s].table] # run[s].info
    BY <1>1, <1>5, <2>1 DEF DeleteRow
  <2>2. CASE info[run[s].table] = run[s].info
    <3> DEFINE st(r, g) == [run[s] EXCEPT !.found = @ \ {r}, !.gone = @ \cup {g}]
               ca == [run[s] EXCEPT !.at = "cascade"]
    <3>1. /\ run[s].at = "delete" /\ UNCHANGED <<info, has_heap, files, lost, ddl_raced>>
          /\ Step(s, ca) \/ \E r, g : Step(s, st(r, g))
      BY <1>5, <2>2 DEF DeleteRow, OnTable, Can, history
    <3>2. ~Ddl(s) /\ ca.at = "cascade" /\ \A r, g : st(r, g).at = "delete"
      BY <1>0, <3>1 DEF Statement, Ddl
    <3> HIDE DEF st, ca
    <3> QED BY <1>0, <3>1, <3>2, GoesOnDdl
  <2> QED BY <2>1, <2>2
<1>6. CASE Cascade(s)
  <2> DEFINE st(L) == [run[s] EXCEPT !.frames = L]
             de(n, i, F, L) == [run[s] EXCEPT !.at = "delete", !.table = n, !.info = i,
                                              !.found = F, !.frames = L]
  <2>1. /\ run[s].at = "cascade" /\ UNCHANGED <<info, has_heap, files, lost, ddl_raced>>
        /\ (\E L : Step(s, st(L))) \/ \E n, i, F, L : Step(s, de(n, i, F, L))
    BY <1>6 DEF Cascade, Can, history
  <2>2. ~Ddl(s) /\ (\A L : st(L).at = "cascade") /\ \A n, i, F, L : de(n, i, F, L).at = "delete"
    BY <1>0, <2>1 DEF Statement, Ddl
  <2> HIDE DEF st, de
  <2> QED BY <1>0, <2>1, <2>2, GoesOnDdl
<1>7. CASE DeleteEnds(s)
  <2>1. ~Ddl(s) /\ Step(s, Idle) /\ UNCHANGED <<info, has_heap, files, lost, ddl_raced>>
    BY <1>7 DEF DeleteEnds, Can, Ddl, history
  <2> QED BY <1>0, <2>1, GoesOnDdl
<1> QED BY <1>2, <1>3, <1>4, <1>5, <1>6, <1>7

\* What holds when a CREATE or DROP of n begins
LEMMA BeginsOn ==
  ASSUME DdlInv, NEW s \in Runners, NEW n \in Names, ~Busy(s), DdlBeside(s, n)
  PROVE  /\ ddl_raced \subseteq ddl_raced'
         /\ n \notin ddl_raced' => /\ \A r \in Runners \ {s} : ~DdlOn(r, n)
                                  /\ Settled(n) /\ (n \in lost => n \in files)
<1>1. ddl_raced \subseteq ddl_raced'
  BY DEF DdlBeside
<1>2. n \notin ddl_raced' => \A r \in Runners \ {s} : ~DdlOn(r, n)
  BY DEF DdlBeside
<1>3. ~DdlOn(s, n)
  BY DEF DdlOn, Ddl, Busy
<1> QED BY <1>1, <1>2, <1>3 DEF DdlInv, NameInv

\* What holds while it goes on
LEMMA GoesOnWith ==
  ASSUME DdlInv, NEW s \in Runners, NEW n \in Names, DdlOn(s, n), n \notin ddl_raced
  PROVE  /\ \A r \in Runners \ {s} : ~DdlOn(r, n)
         /\ n \in lost => n \in files
         /\ StageOK(n, run[s].at)
BY DEF DdlInv, NameInv

\* CREATE TABLE makes the file.
LEMMA CreateDdl ==
  ASSUME KeysInv, DdlInv, NEW s \in Runners, NEW n \in Names, Create(s, n)
  PROVE  DdlInv'
<1>1. CASE n \in files
  <2>1. UNCHANGED <<info, has_heap, files, lost, ddl_raced, run>>
    BY <1>1 DEF Create
  <2> QED BY <2>1, SameDdl
<1>2. CASE n \notin files
  <2> DEFINE st == [Idle EXCEPT !.at = "first_page", !.table = n]
  <2>1. /\ ~Busy(s) /\ files' = files \cup {n} /\ Begin(s, st) /\ DdlBeside(s, n)
        /\ UNCHANGED <<info, has_heap, lost>>
    BY <1>2 DEF Create, Can, Busy
  <2>2. st \in Statement /\ st.at = "first_page" /\ st.table = n
    BY IdleType DEF Statement, Places
  <2> HIDE DEF st
  <2>3. /\ run'[s].at = "first_page" /\ run'[s].table = n
        /\ \A r \in Runners \ {s} : run'[r].at = run[r].at /\ run'[r].table = run[r].table
    BY <2>1, <2>2, BeginAt DEF KeysInv
  <2>4. ~Ddl(s) /\ Ddl(s)'
    BY <2>1, <2>3 DEF Busy, Ddl
  <2>5. /\ ddl_raced \subseteq ddl_raced'
        /\ n \notin ddl_raced' => /\ \A r \in Runners \ {s} : ~DdlOn(r, n)
                                 /\ Settled(n) /\ (n \in lost => n \in files)
    BY <2>1, BeginsOn
  <2>6. n \notin ddl_raced' => (n \in lost' => n \in files') /\ StageOK(n, run[s].at)'
    BY <1>2, <2>1, <2>3, <2>5 DEF Settled, StageOK, HasFile
  <2> QED BY <2>1, <2>3, <2>4, <2>5, <2>6, DdlMoves
<1> QED BY <1>1, <1>2

\* CREATE TABLE makes the first page, or fails.
LEMMA FirstPageDdl ==
  ASSUME KeysInv, DdlInv, NEW s \in Runners, FirstPage(s)
  PROVE  DdlInv'
<1>0. /\ run[s].at = "first_page" /\ run[s] \in Statement
      /\ UNCHANGED <<info, has_heap, files>> /\ UNCHANGED ddl_raced
  BY DEF FirstPage, Can, KeysInv, RunType
<1>n. PICK n \in Names : n = run[s].table
  BY <1>0 DEF Statement
<1>1. n \notin ddl_raced => /\ \A r \in Runners \ {s} : ~DdlOn(r, n)
                            /\ n \in lost => n \in files
                            /\ HasFile(n) /\ info[n] = 0
  BY <1>0, <1>n, GoesOnWith DEF DdlOn, Ddl, StageOK
<1>2. CASE Step(s, [run[s] EXCEPT !.at = "register"]) /\ UNCHANGED lost
  <2>1. run'[s].at = "register" /\ run'[s].table = n /\ \A r \in Runners \ {s} : run'[r] = run[r]
    BY <1>0, <1>n, <1>2, StepAt DEF KeysInv, Statement
  <2>2. Ddl(s)'
    BY <2>1 DEF Ddl
  <2>3. n \notin ddl_raced' => (n \in lost' => n \in files') /\ StageOK(n, run[s].at)'
    BY <1>0, <1>1, <1>2, <2>1 DEF StageOK, HasFile
  <2> QED BY <1>0, <1>n, <1>1, <1>2, <2>1, <2>2, <2>3, DdlMoves
<1>3. CASE Step(s, Idle) /\ lost' = lost \cup {run[s].table}
  <2>1. run'[s].at = "idle" /\ \A r \in Runners \ {s} : run'[r] = run[r]
    BY <1>3, IdleType, StepAt DEF KeysInv
  <2>2. ~Ddl(s)'
    BY <2>1 DEF Ddl
  <2>3. n \notin ddl_raced' => (n \in lost' => n \in files') /\ Settled(n)'
    BY <1>0, <1>1, <1>n, <1>3 DEF Settled, HasFile
  <2> QED BY <1>0, <1>n, <1>1, <1>3, <2>1, <2>2, <2>3, DdlMoves
<1> QED BY <1>2, <1>3 DEF FirstPage

\* DROP TABLE deletes the file.
LEMMA DropDdl ==
  ASSUME KeysInv, DdlInv, NEW s \in Runners, NEW n \in Names, Drop(s, n)
  PROVE  DdlInv'
<1> DEFINE st == [Idle EXCEPT !.at = "drop", !.table = n]
<1>1. /\ ~Busy(s) /\ Begin(s, st) /\ DdlBeside(s, n) /\ UNCHANGED <<info, has_heap>>
      /\ \A m \in Names \ {n} : (m \in files' <=> m \in files) /\ (m \in lost' <=> m \in lost)
  BY DEF Drop, Can, Busy
<1>2. st \in Statement /\ st.at = "drop" /\ st.table = n
  BY IdleType DEF Statement, Places
<1> HIDE DEF st
<1>3. /\ run'[s].at = "drop" /\ run'[s].table = n
      /\ \A r \in Runners \ {s} : run'[r].at = run[r].at /\ run'[r].table = run[r].table
  BY <1>1, <1>2, BeginAt DEF KeysInv
<1>4. ~Ddl(s) /\ Ddl(s)'
  BY <1>1, <1>3 DEF Busy, Ddl
<1>5. /\ ddl_raced \subseteq ddl_raced'
      /\ n \notin ddl_raced' => /\ \A r \in Runners \ {s} : ~DdlOn(r, n)
                               /\ Settled(n) /\ (n \in lost => n \in files)
  BY <1>1, BeginsOn
<1>6. ASSUME n \notin ddl_raced' PROVE (n \in lost' => n \in files') /\ StageOK(n, run[s].at)'
  <2>1. /\ \/ info[n] = 0 /\ UNCHANGED <<files, lost>>
           \/ info[n] # 0 /\ files' = files \ {n} /\ lost' = lost \ {n}
           \/ info[n] # 0 /\ n \in files /\ lost' = lost \cup {n} /\ UNCHANGED files
    BY DEF Drop
  <2> QED BY <1>1, <1>3, <1>5, <1>6, <2>1 DEF Settled, StageOK, HasFile
<1> QED BY <1>1, <1>3, <1>4, <1>5, <1>6, DdlMoves

\* CREATE TABLE puts the table into the catalog.
LEMMA RegisterDdl ==
  ASSUME KeysInv, DdlInv, NEW s \in Runners, Register(s)
  PROVE  DdlInv'
<1>0. /\ run[s].at = "register" /\ run[s] \in Statement
      /\ UNCHANGED <<files, lost>> /\ UNCHANGED ddl_raced
  BY DEF Register, Can, KeysInv, RunType, history
<1>n. PICK n \in Names : n = run[s].table
  BY <1>0 DEF Statement
<1>1. n \notin ddl_raced => /\ \A r \in Runners \ {s} : ~DdlOn(r, n)
                            /\ n \in lost => n \in files
                            /\ HasFile(n) /\ info[n] = 0
  BY <1>0, <1>n, GoesOnWith DEF DdlOn, Ddl, StageOK
<1>2. CASE info[n] # 0
  <2>1. Step(s, Idle) /\ UNCHANGED <<info, has_heap>>
    BY <1>n, <1>2 DEF Register
  <2>2. run'[s].at = "idle" /\ \A r \in Runners \ {s} : run'[r] = run[r]
    BY <2>1, IdleType, StepAt DEF KeysInv
  <2>3. ~Ddl(s)'
    BY <2>2 DEF Ddl
  <2> QED BY <1>0, <1>n, <1>1, <1>2, <2>1, <2>2, <2>3, DdlMoves
<1>3. CASE info[n] = 0
  <2>1. /\ Step(s, [run[s] EXCEPT !.at = "store_heap"])
        /\ info' = [info EXCEPT ![n] = 2] /\ has_heap' = [has_heap EXCEPT ![n] = FALSE]
    BY <1>n, <1>3 DEF Register
  <2>2. run'[s].at = "store_heap" /\ run'[s].table = n /\ \A r \in Runners \ {s} : run'[r] = run[r]
    BY <1>0, <1>n, <2>1, StepAt DEF KeysInv, Statement
  <2>3. Ddl(s)'
    BY <2>2 DEF Ddl
  <2>4. /\ info'[n] = 2
        /\ \A m \in Names \ {n} : info'[m] = info[m] /\ has_heap'[m] = has_heap[m]
    BY <2>1 DEF KeysInv, CatalogType
  <2>5. n \notin ddl_raced' => (n \in lost' => n \in files') /\ StageOK(n, run[s].at)'
    BY <1>0, <1>1, <2>2, <2>4 DEF StageOK, HasFile
  <2> QED BY <1>0, <1>n, <1>1, <2>2, <2>3, <2>4, <2>5, DdlMoves
<1> QED BY <1>2, <1>3

\* CREATE TABLE stores the heap.
LEMMA StoreHeapDdl ==
  ASSUME KeysInv, DdlInv, NEW s \in Runners, StoreHeap(s)
  PROVE  DdlInv'
<1>0. /\ run[s].at = "store_heap" /\ run[s] \in Statement /\ Step(s, Idle)
      /\ UNCHANGED <<files, lost, info>> /\ UNCHANGED ddl_raced
  BY DEF StoreHeap, Can, KeysInv, RunType, history
<1>n. PICK n \in Names : n = run[s].table
  BY <1>0 DEF Statement
<1>1. n \notin ddl_raced => /\ \A r \in Runners \ {s} : ~DdlOn(r, n)
                            /\ n \in lost => n \in files
                            /\ HasFile(n) /\ info[n] # 0
  BY <1>0, <1>n, GoesOnWith DEF DdlOn, Ddl, StageOK
<1>2. has_heap' = [has_heap EXCEPT ![n] = (has_heap[n] \/ info[n] # 0)]
  BY <1>n DEF StoreHeap
<1>3. /\ info[n] # 0 => has_heap'[n]
      /\ \A m \in Names \ {n} : has_heap'[m] = has_heap[m]
  BY <1>2 DEF KeysInv, CatalogType
<1>4. run'[s].at = "idle" /\ \A r \in Runners \ {s} : run'[r] = run[r]
  BY <1>0, IdleType, StepAt DEF KeysInv
<1>5. ~Ddl(s)'
  BY <1>4 DEF Ddl
<1>6. n \notin ddl_raced' => (n \in lost' => n \in files') /\ Settled(n)'
  BY <1>0, <1>1, <1>3 DEF Settled, HasFile
<1> QED BY <1>0, <1>n, <1>1, <1>3, <1>4, <1>5, <1>6, DdlMoves

\* DROP TABLE takes the table out of the catalog.
LEMMA DropFromCatalogDdl ==
  ASSUME KeysInv, DdlInv, NEW s \in Runners, DropFromCatalog(s)
  PROVE  DdlInv'
<1>0. /\ run[s].at = "drop" /\ run[s] \in Statement /\ Step(s, Idle)
      /\ UNCHANGED <<files, lost>> /\ UNCHANGED ddl_raced
  BY DEF DropFromCatalog, Can, KeysInv, RunType, history
<1>n. PICK n \in Names : n = run[s].table
  BY <1>0 DEF Statement
<1>1. n \notin ddl_raced => /\ \A r \in Runners \ {s} : ~DdlOn(r, n)
                            /\ n \in lost => n \in files
                            /\ ~HasFile(n)
  BY <1>0, <1>n, GoesOnWith DEF DdlOn, Ddl, StageOK
<1>2. info' = [info EXCEPT ![n] = 0] /\ has_heap' = [has_heap EXCEPT ![n] = FALSE]
  BY <1>n DEF DropFromCatalog
<1>3. /\ info'[n] = 0
      /\ \A m \in Names \ {n} : info'[m] = info[m] /\ has_heap'[m] = has_heap[m]
  BY <1>2 DEF KeysInv, CatalogType
<1>4. run'[s].at = "idle" /\ \A r \in Runners \ {s} : run'[r] = run[r]
  BY <1>0, IdleType, StepAt DEF KeysInv
<1>5. ~Ddl(s)'
  BY <1>4 DEF Ddl
<1>6. n \notin ddl_raced' => (n \in lost' => n \in files') /\ Settled(n)'
  BY <1>0, <1>1, <1>3 DEF Settled, HasFile
<1> QED BY <1>0, <1>n, <1>1, <1>3, <1>4, <1>5, <1>6, DdlMoves

\* A restart: every file is lost, and no name is in the catalog.
LEMMA ForgetDdl ==
  ASSUME ForgetTables
  PROVE  DdlInv'
<1>1. /\ \A s \in Runners : run'[s].at = "idle"
      /\ info' = [n \in Names |-> 0] /\ lost' = files /\ files' = files
  BY DEF ForgetTables, Busy
<1>2. \A n : \A s \in Runners : ~DdlOn(s, n)'
  BY <1>1 DEF DdlOn, Ddl
<1>3. \A n \in Names : Settled(n)' /\ (n \in lost' => n \in files')
  BY <1>1 DEF Settled, HasFile
<1> QED BY <1>2, <1>3 DEF DdlInv, NameInv

\* One step, as the files see it
LEMMA DdlStep == KeysInv /\ DdlInv /\ [CommandsNext]_command_vars => DdlInv'
<1> SUFFICES ASSUME KeysInv, DdlInv, [CommandsNext]_command_vars PROVE DdlInv'
  OBVIOUS
<1>1. ASSUME NEW s \in Runners, DataStatement(s) PROVE DdlInv'
  BY <1>1, CreateDdl, DropDdl, DataBeginsDdl DEF DataStatement
<1>2. ASSUME NEW s \in Runners, DataStatementGoesOn(s) PROVE DdlInv'
  BY <1>2, FirstPageDdl, RegisterDdl, StoreHeapDdl, DropFromCatalogDdl, DataGoesOnDdl
  DEF DataStatementGoesOn
<1>3. ASSUME UNCHANGED table_vars PROVE DdlInv'
  BY <1>3, SameDdl DEF table_vars, history
<1>4. CASE Issue
  BY <1>1, <1>3, <1>4, ForgetDdl DEF Issue
<1>5. CASE UNCHANGED command_vars
  BY <1>3, <1>5 DEF command_vars
<1>6. CASE CommandsNext /\ ~Issue
  BY <1>2, <1>3, <1>6 DEF CommandsNext
<1> QED BY <1>4, <1>5, <1>6

\* For any tables and sessions and any sequence of CREATE, DROP and restart, failing ones
\* included: a name on which no two of them ever overlapped is, when none is under way on
\* it, in the catalog exactly if its file is on disk and not lost, and has its heap, whatever
\* the other sessions do to other names.
THEOREM CatalogMatchesFiles == CommandsSpec => []FilesMatchCatalog
<1>1. CommandsInit => DdlInv
  <2> SUFFICES ASSUME TablesInit PROVE DdlInv
    BY DEF CommandsInit
  <2>1. /\ info = [n \in Names |-> 1] /\ has_heap = [n \in Names |-> TRUE]
        /\ files = Names /\ run = [s \in Runners |-> Idle] /\ lost = {}
    BY DEF TablesInit
  <2>2. \A n \in Names : Settled(n) /\ (n \in lost => n \in files)
    BY <2>1 DEF Settled, HasFile
  <2>3. \A n : \A s \in Runners : ~DdlOn(s, n)
    BY <2>1, IdleType DEF DdlOn, Ddl
  <2> QED BY <2>2, <2>3 DEF DdlInv, NameInv
<1>2. DdlInv => FilesMatchCatalog
  BY DEF DdlInv, NameInv, Settled, HasFile, FilesMatchCatalog
<1> QED BY <1>1, <1>2, DdlStep, KeysAlways, PTL DEF CommandsSpec

-----------------------------------------------------------------------------
(* SELECT: the scan counts what it has met.                                *)

\* The chosen rows before row p
ChosenBefore(p) == {i \in Chosen : i < p}
Met == ChosenBefore(exec.pos)

\* No SELECT returns more than the limit, and none before the offset is skipped.
Counted ==
  /\ exec.skipped <= Before
  /\ exec.returned > 0 => exec.skipped = Before
  /\ query.limit >= 0 => exec.returned <= query.limit
  /\ exec.skipped + exec.returned = Cardinality(Met)

\* What was returned are the chosen rows met after the offset, in order.
Returned ==
  /\ ToSet(exec.out) = {i \in Met : Rank(i) > Before}
  /\ \A m, n \in DOMAIN exec.out : m < n => exec.out[m] < exec.out[n]

QueryTypes ==
  /\ sheet \in Seq({Null} \cup {Number(n) : n \in Numbers})
  /\ query.limit \in Int /\ query.offset \in Int
  /\ exec \in [at : {"idle", "next", "done", "crashed"}, predicate : {exec.predicate},
               pos : 1 .. Len(sheet) + 1, skipped : Nat, returned : Nat, out : Seq(DOMAIN sheet)]
  /\ exec.returned = Len(exec.out)

PageInv ==
  /\ QueryTypes
  /\ exec.at = "idle" => exec = NoPlan
  /\ exec.at # "idle" => Counted /\ Returned
  /\ exec.at = "done" => exec.pos > Len(sheet) \/ (exec.skipped = Before /\ Full)

\* The rows a scan chooses are finitely many.
LEMMA ChosenFinite ==
  ASSUME QueryTypes
  PROVE  /\ Chosen \subseteq 1 .. Len(sheet) /\ Len(sheet) \in Nat
         /\ \A S \in SUBSET Chosen : IsFiniteSet(S) /\ Cardinality(S) \in Nat
<1>1. DOMAIN sheet = 1 .. Len(sheet) /\ Len(sheet) \in Nat
  BY DEF QueryTypes
<1>2. Chosen \subseteq 1 .. Len(sheet)
  BY <1>1 DEF Chosen
<1>3. IsFiniteSet(1 .. Len(sheet))
  BY <1>1, FS_Interval
<1>4. \A S \in SUBSET Chosen : IsFiniteSet(S)
  BY <1>2, <1>3, FS_Subset
<1> QED BY <1>1, <1>2, <1>4, FS_CardinalityType

\* A larger set of chosen rows has no fewer of them.
LEMMA ChosenGrows ==
  ASSUME QueryTypes, NEW T \in SUBSET Chosen, NEW S \in SUBSET T
  PROVE  Cardinality(S) <= Cardinality(T)
<1>1. IsFiniteSet(T)
  BY ChosenFinite
<1> QED BY <1>1, FS_Subset

\* A chosen row at the scan's position is the next to be counted.
LEMMA NextRank ==
  ASSUME QueryTypes, NEW p \in Chosen
  PROVE  /\ ChosenBefore(p + 1) = ChosenBefore(p) \cup {p}
         /\ Rank(p) = Cardinality(ChosenBefore(p)) + 1
         /\ Cardinality(ChosenBefore(p + 1)) = Cardinality(ChosenBefore(p)) + 1
<1>1. Chosen \subseteq Nat /\ p \in Nat
  BY ChosenFinite
<1>0. \A i \in Chosen : (i < p + 1 <=> i < p \/ i = p) /\ (i <= p <=> i < p \/ i = p)
  BY <1>1
<1>5. ~(p < p)
  BY <1>1
<1>2. ChosenBefore(p + 1) = ChosenBefore(p) \cup {p} /\ p \notin ChosenBefore(p)
  BY <1>0, <1>5 DEF ChosenBefore
<1>3. {j \in Chosen : j <= p} = ChosenBefore(p) \cup {p}
  BY <1>0 DEF ChosenBefore
<1>4. IsFiniteSet(ChosenBefore(p))
  BY ChosenFinite DEF ChosenBefore
<1> QED BY <1>2, <1>3, <1>4, FS_AddElement DEF Rank

\* A row that is not chosen is not counted.
LEMMA NotCounted ==
  ASSUME QueryTypes, NEW p \in Nat, p \notin Chosen
  PROVE  ChosenBefore(p + 1) = ChosenBefore(p)
<1>1. Chosen \subseteq Nat
  BY ChosenFinite
<1>2. \A i \in Chosen : i < p + 1 <=> i < p
  BY <1>1
<1> QED BY <1>2 DEF ChosenBefore

\* A step of a plan leaves the plan and the chosen rows.
LEMMA SamePlan ==
  ASSUME UNCHANGED <<sheet, query>>, exec'.predicate = exec.predicate
  PROVE  /\ Chosen' = Chosen /\ Before' = Before /\ Filters' = Filters
         /\ \A i : Rank(i)' = Rank(i)
         /\ Met' = ChosenBefore(exec'.pos)
<1>1. Chosen' = Chosen /\ Before' = Before /\ Filters' = Filters
  BY DEF Chosen, Filters, Before
<1> QED BY <1>1 DEF Rank, Met, ChosenBefore

\* The types of a step that pulls a row
LEMMA StepTypes ==
  ASSUME QueryTypes, exec.pos \in 1 .. Len(sheet), UNCHANGED <<sheet, query>>,
         NEW skipped \in Nat, NEW returned \in Nat, NEW out \in Seq(DOMAIN sheet), returned = Len(out),
         exec' = [exec EXCEPT !.pos = exec.pos + 1, !.skipped = skipped, !.returned = returned, !.out = out]
  PROVE  /\ QueryTypes'
         /\ exec'.at = exec.at /\ exec'.predicate = exec.predicate /\ exec'.pos = exec.pos + 1
         /\ exec'.skipped = skipped /\ exec'.returned = returned /\ exec'.out = out
<1> DEFINE Of(S) == [at : {"idle", "next", "done", "crashed"}, predicate : {exec.predicate},
                     pos : 1 .. Len(sheet) + 1, skipped : Nat, returned : Nat, out : S]
<1>1. exec \in Of(Seq(DOMAIN sheet)) /\ Len(sheet) \in Nat
  BY DEF QueryTypes
<1>2. exec.pos + 1 \in 1 .. Len(sheet) + 1
  BY <1>1
<1>3. /\ exec' \in Of(Seq(DOMAIN sheet))
      /\ exec'.at = exec.at /\ exec'.predicate = exec.predicate /\ exec'.pos = exec.pos + 1
      /\ exec'.skipped = skipped /\ exec'.returned = returned /\ exec'.out = out
  <2> DEFINE Outs == Seq(DOMAIN sheet)
  <2>1. exec \in Of(Outs) /\ out \in Outs
    BY <1>1
  <2> HIDE DEF Outs
  <2> SUFFICES exec' \in Of(Outs) /\ exec'.at = exec.at /\ exec'.predicate = exec.predicate
               /\ exec'.pos = exec.pos + 1 /\ exec'.skipped = skipped
               /\ exec'.returned = returned /\ exec'.out = out
    BY DEF Outs
  <2> QED BY <2>1, <1>2
<1> QED BY <1>3 DEF QueryTypes

\* A scan that pulls a row has not passed the last one, and its plan runs.
LEMMA PullsPage ==
  ASSUME PageInv, NEW val, Pulls(val)
  PROVE  /\ Counted /\ Returned /\ exec.at = "next"
         /\ exec.pos \in 1 .. Len(sheet) /\ exec.pos \in DOMAIN sheet /\ exec.pos \in Nat
         /\ exec.skipped \in Nat /\ exec.returned \in Nat /\ Before \in Nat
         /\ DOMAIN sheet = 1 .. Len(sheet) /\ Len(sheet) \in Nat
         /\ UNCHANGED <<sheet, query>>
         /\ exec.pos \in Chosen <=> IsTrue(val)
<1>1. /\ exec.at = "next" /\ exec.pos <= Len(sheet) /\ UNCHANGED <<sheet, query>>
      /\ val = IF Filters THEN ValueOn(exec.predicate, sheet[exec.pos]) ELSE Bool(TRUE)
  BY DEF Pulls
<1>2. DOMAIN sheet = 1 .. Len(sheet) /\ Len(sheet) \in Nat
  BY DEF PageInv, QueryTypes
<1>3. exec.pos \in 1 .. Len(sheet) + 1 /\ exec.skipped \in Nat /\ exec.returned \in Nat /\ query.offset \in Int
  BY DEF PageInv, QueryTypes
<1>4. exec.pos \in 1 .. Len(sheet) /\ exec.pos \in Nat /\ Before \in Nat
  BY <1>1, <1>2, <1>3 DEF Before
<1>5. exec.pos \in Chosen <=> IsTrue(val)
  BY <1>1, <1>2, <1>4 DEF Chosen, IsTrue
<1> QED BY <1>1, <1>2, <1>3, <1>4, <1>5 DEF PageInv

\* Only a row with a true predicate is not passed over.
LEMMA OtherValues ==
  ASSUME NEW val \in {Null, Bool(FALSE)} \cup {Number(n) : n \in Numbers} \cup {Crash}
  PROVE  ~IsTrue(val)
BY DEF IsTrue, Null, Bool, Number, Crash

\* A row that the filter takes out changes no counter.
LEMMA PassesPage ==
  ASSUME PageInv, Passes
  PROVE  PageInv'
<1>1. PICK val \in {Null, Bool(FALSE)} \cup {Number(n) : n \in Numbers} : Pulls(val)
  BY DEF Passes
<1>2. exec' = [exec EXCEPT !.pos = @ + 1]
  BY DEF Passes
<1>3. /\ Counted /\ Returned /\ exec.at = "next" /\ UNCHANGED <<sheet, query>>
      /\ exec.pos \in 1 .. Len(sheet) /\ exec.pos \in Nat /\ Len(sheet) \in Nat
      /\ exec.pos \notin Chosen
  BY <1>1, PullsPage, OtherValues
<1>4. QueryTypes
  BY DEF PageInv
<1>5. /\ exec' = [exec EXCEPT !.pos = exec.pos + 1, !.skipped = exec.skipped,
                            !.returned = exec.returned, !.out = exec.out]
      /\ exec.skipped \in Nat /\ exec.returned \in Nat
      /\ exec.out \in Seq(DOMAIN sheet) /\ exec.returned = Len(exec.out)
  BY <1>2, <1>4 DEF QueryTypes
<1>6. /\ QueryTypes'
      /\ exec'.at = exec.at /\ exec'.predicate = exec.predicate /\ exec'.pos = exec.pos + 1
      /\ exec'.skipped = exec.skipped /\ exec'.returned = exec.returned /\ exec'.out = exec.out
  BY <1>3, <1>4, <1>5, StepTypes
<1>7. Met' = Met
  BY <1>3, <1>4, <1>6, SamePlan, NotCounted DEF Met
<1>8. Counted' /\ Returned'
  BY <1>3, <1>6, <1>7, SamePlan DEF Counted, Returned
<1> QED BY <1>3, <1>6, <1>8 DEF PageInv

\* A row skipped for the offset is counted, and is before the page.
LEMMA SkipsPage ==
  ASSUME PageInv, Skips
  PROVE  PageInv'
<1>1. Pulls(Bool(TRUE)) /\ exec.skipped < query.offset
  BY DEF Skips, Skipping
<1>2. exec' = [exec EXCEPT !.pos = @ + 1, !.skipped = @ + 1]
  BY DEF Skips
<1>3. /\ Counted /\ Returned /\ exec.at = "next" /\ UNCHANGED <<sheet, query>>
      /\ exec.pos \in 1 .. Len(sheet) /\ exec.skipped \in Nat /\ exec.returned \in Nat /\ Before \in Nat
      /\ exec.pos \in Chosen
  BY <1>1, PullsPage DEF IsTrue
<1>4. QueryTypes
  BY DEF PageInv
<1>5. /\ exec' = [exec EXCEPT !.pos = exec.pos + 1, !.skipped = exec.skipped + 1,
                            !.returned = exec.returned, !.out = exec.out]
      /\ exec.skipped + 1 \in Nat
      /\ exec.out \in Seq(DOMAIN sheet) /\ exec.returned = Len(exec.out)
  <2>1. exec.out \in Seq(DOMAIN sheet) /\ exec.returned = Len(exec.out)
    BY <1>4 DEF QueryTypes
  <2>2. exec' = [exec EXCEPT !.pos = exec.pos + 1, !.skipped = exec.skipped + 1,
                             !.returned = exec.returned, !.out = exec.out]
    BY <1>2, <1>4 DEF QueryTypes
  <2> QED BY <1>3, <2>1, <2>2
<1>6. /\ QueryTypes'
      /\ exec'.at = exec.at /\ exec'.predicate = exec.predicate /\ exec'.pos = exec.pos + 1
      /\ exec'.skipped = exec.skipped + 1 /\ exec'.returned = exec.returned /\ exec'.out = exec.out
  BY <1>3, <1>4, <1>5, StepTypes
<1>7. /\ Met' = Met \cup {exec.pos}
      /\ Rank(exec.pos) = Cardinality(Met) + 1 /\ Cardinality(Met') = Cardinality(Met) + 1
  BY <1>3, <1>4, <1>6, SamePlan, NextRank DEF Met
<1>8. exec.skipped < Before /\ exec.returned = 0
  BY <1>1, <1>3, <1>4 DEF Counted, Before, QueryTypes
<1>9. Cardinality(Met) = exec.skipped
  BY <1>3, <1>8 DEF Counted
<1>10. Counted'
  BY <1>3, <1>6, <1>7, <1>8, <1>9, SamePlan DEF Counted
<1>11. ~(Rank(exec.pos) > Before)
  BY <1>3, <1>7, <1>8, <1>9
<1>12. Returned'
  BY <1>3, <1>6, <1>7, <1>11, SamePlan DEF Returned
<1> QED BY <1>3, <1>6, <1>10, <1>12 DEF PageInv

\* What a sequence has after one more element
LEMMA OneMore ==
  ASSUME NEW S, NEW s \in Seq(S), NEW e \in S
  PROVE  /\ Append(s, e) \in Seq(S) /\ Len(Append(s, e)) = Len(s) + 1
         /\ ToSet(Append(s, e)) = ToSet(s) \cup {e}
         /\ DOMAIN Append(s, e) = 1 .. Len(s) + 1 /\ DOMAIN s = 1 .. Len(s)
         /\ \A m \in DOMAIN Append(s, e) : Append(s, e)[m] = IF m = Len(s) + 1 THEN e ELSE s[m]
<1>1. /\ Append(s, e) \in Seq(S) /\ Len(Append(s, e)) = Len(s) + 1 /\ Len(s) \in Nat
      /\ DOMAIN Append(s, e) = 1 .. Len(s) + 1 /\ DOMAIN s = 1 .. Len(s)
      /\ \A m \in DOMAIN Append(s, e) : Append(s, e)[m] = IF m = Len(s) + 1 THEN e ELSE s[m]
  OBVIOUS
<1>2. \A m \in 1 .. Len(s) + 1 : m = Len(s) + 1 \/ m \in 1 .. Len(s)
  BY <1>1
<1>3. \A m \in 1 .. Len(s) : m \in 1 .. Len(s) + 1 /\ m # Len(s) + 1
  BY <1>1
<1>4. Len(s) + 1 \in 1 .. Len(s) + 1
  BY <1>1
<1>5. ToSet(Append(s, e)) \subseteq ToSet(s) \cup {e}
  BY <1>1, <1>2 DEF ToSet
<1>6. ToSet(s) \cup {e} \subseteq ToSet(Append(s, e))
  BY <1>1, <1>3, <1>4 DEF ToSet
<1> QED BY <1>1, <1>5, <1>6

\* A row that is returned is the next of the page, and comes after those returned.
LEMMA ReturnsPage ==
  ASSUME PageInv, Returns
  PROVE  PageInv'
<1>1. Pulls(Bool(TRUE)) /\ ~(exec.skipped < query.offset) /\ ~Full
  BY DEF Returns, Skipping, Pulls
<1>2. exec' = [exec EXCEPT !.pos = @ + 1, !.returned = @ + 1, !.out = Append(@, exec.pos)]
  BY DEF Returns
<1>3. /\ Counted /\ Returned /\ exec.at = "next" /\ UNCHANGED <<sheet, query>>
      /\ exec.pos \in 1 .. Len(sheet) /\ exec.pos \in DOMAIN sheet /\ exec.pos \in Nat
      /\ exec.skipped \in Nat /\ exec.returned \in Nat /\ Before \in Nat
      /\ exec.pos \in Chosen /\ DOMAIN sheet = 1 .. Len(sheet)
  BY <1>1, PullsPage DEF IsTrue
<1>4. QueryTypes /\ exec.out \in Seq(DOMAIN sheet) /\ exec.returned = Len(exec.out)
      /\ query.limit \in Int /\ query.offset \in Int
  BY DEF PageInv, QueryTypes
<1> DEFINE out == Append(exec.out, exec.pos)
<1>5. /\ out \in Seq(DOMAIN sheet) /\ Len(out) = exec.returned + 1
      /\ ToSet(out) = ToSet(exec.out) \cup {exec.pos}
      /\ \A m \in DOMAIN out : out[m] = IF m = exec.returned + 1 THEN exec.pos ELSE exec.out[m]
      /\ DOMAIN out = 1 .. exec.returned + 1 /\ DOMAIN exec.out = 1 .. exec.returned
  <2>1. exec.out \in Seq(DOMAIN sheet) /\ exec.pos \in DOMAIN sheet
    BY <1>3, <1>4
  <2> QED BY <1>4, <2>1, OneMore
<1>6. exec' = [exec EXCEPT !.pos = exec.pos + 1, !.skipped = exec.skipped,
                         !.returned = exec.returned + 1, !.out = out]
  BY <1>2, <1>4 DEF QueryTypes
<1> HIDE DEF out
<1>7. /\ QueryTypes'
      /\ exec'.at = exec.at /\ exec'.predicate = exec.predicate /\ exec'.pos = exec.pos + 1
      /\ exec'.skipped = exec.skipped /\ exec'.returned = exec.returned + 1 /\ exec'.out = out
  <2>1. exec.returned + 1 \in Nat /\ exec.returned + 1 = Len(out) /\ out \in Seq(DOMAIN sheet)
    BY <1>3, <1>5
  <2>2. QueryTypes /\ exec.pos \in 1 .. Len(sheet) /\ UNCHANGED <<sheet, query>> /\ exec.skipped \in Nat
    BY <1>3, <1>4
  <2> QED BY <2>1, <2>2, <1>6, StepTypes
<1>8. /\ Met' = Met \cup {exec.pos}
      /\ Rank(exec.pos) = Cardinality(Met) + 1 /\ Cardinality(Met') = Cardinality(Met) + 1
  BY <1>3, <1>4, <1>7, SamePlan, NextRank DEF Met
<1>9. exec.skipped = Before
  BY <1>1, <1>3, <1>4 DEF Counted, Before
<1>10. query.limit >= 0 => exec.returned + 1 <= query.limit
  BY <1>1, <1>3, <1>4 DEF Full
<1>11. Counted'
  BY <1>3, <1>7, <1>8, <1>9, <1>10, SamePlan DEF Counted
<1>12. Rank(exec.pos) > Before
  BY <1>3, <1>8, <1>9 DEF Counted
<1>13. ToSet(out) = {i \in Met \cup {exec.pos} : Rank(i) > Before}
  BY <1>3, <1>5, <1>12 DEF Returned
<1>14. ASSUME NEW m \in DOMAIN out, NEW n \in DOMAIN out, m < n PROVE out[m] < out[n]
  <2>1. m \in 1 .. exec.returned /\ m \in DOMAIN exec.out /\ out[m] = exec.out[m]
    BY <1>3, <1>5, <1>14
  <2>2. exec.out[m] \in Met
    BY <1>3, <2>1 DEF Returned, ToSet
  <2>3. exec.out[m] < exec.pos
    BY <2>2 DEF Met, ChosenBefore
  <2>4. CASE n = exec.returned + 1
    BY <1>5, <2>1, <2>3, <2>4
  <2>5. CASE n # exec.returned + 1
    <3>1. n \in DOMAIN exec.out /\ out[n] = exec.out[n]
      BY <1>3, <1>5, <2>5
    <3> QED BY <1>3, <1>14, <2>1, <3>1 DEF Returned
  <2> QED BY <2>4, <2>5
<1>15. Returned'
  BY <1>3, <1>7, <1>8, <1>13, <1>14, SamePlan DEF Returned
<1> QED BY <1>3, <1>7, <1>11, <1>15 DEF PageInv

\* The end of a scan and a crash leave the counters.
LEMMA EndsPage ==
  ASSUME PageInv, Ends \/ Fails
  PROVE  PageInv'
<1>1. PICK at \in {"done", "crashed"} :
         /\ exec' = [exec EXCEPT !.at = at]
         /\ exec.at = "next" /\ UNCHANGED <<sheet, query>>
         /\ at = "done" => exec.pos > Len(sheet) \/ (~Skipping /\ Full)
  BY DEF Ends, Fails, Pulls
<1>2. QueryTypes /\ Counted /\ Returned
  BY <1>1 DEF PageInv
<1>3. /\ exec'.at = at /\ exec'.predicate = exec.predicate /\ exec'.pos = exec.pos
      /\ exec'.skipped = exec.skipped /\ exec'.returned = exec.returned /\ exec'.out = exec.out
  BY <1>1, <1>2 DEF QueryTypes
<1>4. QueryTypes'
  BY <1>1, <1>2, <1>3 DEF QueryTypes
<1>5. Met' = Met /\ (Full' <=> Full) /\ Before' = Before
  BY <1>1, <1>3, SamePlan DEF Met, Full
<1>6. Counted' /\ Returned'
  BY <1>1, <1>2, <1>3, <1>5, SamePlan DEF Counted, Returned
<1>7. ~Skipping => exec.skipped = Before
  BY <1>2 DEF Skipping, Counted, Before, QueryTypes
<1>8. at = "done" => exec'.pos > Len(sheet)' \/ (exec'.skipped = Before' /\ Full')
  BY <1>1, <1>3, <1>5, <1>7
<1> QED BY <1>1, <1>3, <1>4, <1>6, <1>8 DEF PageInv

\* A plan starts at the first row with its counters at zero.
LEMMA SelectsPage ==
  ASSUME PageInv, QuerySelects
  PROVE  PageInv'
<1>1. PICK clause \in Clauses, limit \in Limits, offset \in Offsets : Select(clause, limit, offset)
  BY DEF QuerySelects
<1>2. /\ query' = [where |-> clause, limit |-> limit, offset |-> offset] /\ sheet' = sheet
      /\ exec' = [NoPlan EXCEPT !.at = "next", !.predicate = PredicateOf(clause)]
  BY <1>1 DEF Select
<1>3. query'.limit \in Int /\ query'.offset \in Int
  BY <1>2, NumbersAssumption
<1>4. /\ exec' = [at |-> "next", predicate |-> PredicateOf(clause),
                  pos |-> 1, skipped |-> 0, returned |-> 0, out |-> <<>>]
      /\ exec'.at = "next" /\ exec'.pos = 1 /\ exec'.skipped = 0 /\ exec'.returned = 0 /\ exec'.out = <<>>
  BY <1>2 DEF NoPlan
<1>5. QueryTypes'
  <2>1. sheet \in Seq({Null} \cup {Number(n) : n \in Numbers}) /\ Len(sheet) \in Nat
    BY DEF PageInv, QueryTypes
  <2>2. 1 \in 1 .. Len(sheet) + 1 /\ <<>> \in Seq(DOMAIN sheet) /\ Len(<<>>) = 0
    BY <2>1
  <2> DEFINE Outs == Seq(DOMAIN sheet)
             Positions == 1 .. Len(sheet) + 1
  <2>3. <<>> \in Outs /\ 1 \in Positions
    BY <2>2
  <2> HIDE DEF Outs, Positions
  <2>4. exec' \in [at : {"idle", "next", "done", "crashed"}, predicate : {exec'.predicate},
                  pos : Positions, skipped : Nat, returned : Nat, out : Outs]
    BY <1>4, <2>3
  <2>5. sheet' = sheet /\ exec'.returned = Len(exec'.out)
    BY <1>2, <1>4, <2>2
  <2> QED BY <1>3, <2>1, <2>4, <2>5 DEF QueryTypes, Outs, Positions
<1>6. Met' = {}
  <2>1. \A i \in DOMAIN sheet : ~(i < 1)
    BY DEF PageInv, QueryTypes
  <2>2. Chosen' \subseteq DOMAIN sheet
    BY <1>2 DEF Chosen
  <2>3. Met' = {i \in Chosen' : i < 1}
    BY <1>4 DEF Met, ChosenBefore
  <2> QED BY <2>1, <2>2, <2>3
<1>7. Before' \in Nat
  BY <1>3 DEF Before
<1>8. Counted'
  BY <1>3, <1>4, <1>6, <1>7, FS_EmptySet DEF Counted
<1>9. Returned'
  BY <1>4, <1>6 DEF Returned, ToSet
<1> QED BY <1>4, <1>5, <1>8, <1>9 DEF PageInv

\* A finished plan has returned its page.
LEMMA PageInvImplies ==
  ASSUME PageInv
  PROVE  PagesTile
<1> SUFFICES ASSUME exec.at = "done"
             PROVE  ToSet(exec.out) = {i \in Chosen : OnPage(Rank(i))}
  BY DEF PageInv, Returned, PagesTile
<1>1. QueryTypes /\ Counted /\ Returned /\ (exec.pos > Len(sheet) \/ (exec.skipped = Before /\ Full))
  BY DEF PageInv
<1>2. /\ exec.pos \in Nat /\ exec.skipped \in Nat /\ exec.returned \in Nat
      /\ query.limit \in Int /\ query.offset \in Int /\ Before \in Nat
  BY <1>1 DEF QueryTypes, Before
<1>3. Chosen \subseteq Nat /\ Met \in SUBSET Chosen /\ Cardinality(Met) \in Nat
      /\ \A i \in Chosen : Rank(i) \in Nat
  BY <1>1, ChosenFinite DEF Met, ChosenBefore, Rank
<1>4. ASSUME NEW i \in Met PROVE query.limit >= 0 => Rank(i) <= Before + query.limit
  <2>0. i \in Chosen /\ i < exec.pos
    BY <1>4 DEF Met, ChosenBefore
  <2>3. \A j \in Chosen : j <= i => j < exec.pos
    BY <1>2, <1>3, <2>0
  <2>1. {j \in Chosen : j <= i} \in SUBSET Met /\ i \in Chosen
    BY <2>0, <2>3 DEF Met, ChosenBefore
  <2>2. Rank(i) <= Cardinality(Met)
    BY <1>1, <1>3, <2>1, ChosenGrows DEF Rank
  <2> QED BY <1>1, <1>2, <1>3, <2>1, <2>2 DEF Counted
<1>5. ASSUME NEW i \in Chosen, i \notin Met PROVE ~OnPage(Rank(i))
  <2>1. i >= exec.pos
    BY <1>2, <1>3, <1>5 DEF Met, ChosenBefore
  <2>2. exec.skipped = Before /\ query.limit >= 0 /\ exec.returned >= query.limit
    <3>1. Chosen \subseteq 1 .. Len(sheet) /\ Len(sheet) \in Nat
      BY <1>1, ChosenFinite
    <3> QED BY <1>1, <1>2, <1>5, <2>1, <3>1 DEF Full
  <2>3. Met \in SUBSET ChosenBefore(i) /\ ChosenBefore(i) \in SUBSET Chosen
    <3>1. \A j \in Chosen : j < exec.pos => j < i
      BY <1>2, <1>3, <2>1
    <3> QED BY <3>1 DEF Met, ChosenBefore
  <2>4. Cardinality(Met) <= Cardinality(ChosenBefore(i)) /\ Cardinality(ChosenBefore(i)) \in Nat
    BY <1>1, <2>3, ChosenGrows, ChosenFinite
  <2>5. Rank(i) = Cardinality(ChosenBefore(i)) + 1
    BY <1>1, NextRank
  <2>6. Rank(i) > Before + query.limit
    BY <1>1, <1>2, <1>3, <2>2, <2>4, <2>5 DEF Counted
  <2> QED BY <1>2, <1>3, <2>2, <2>6 DEF OnPage
<1> QED BY <1>1, <1>3, <1>4, <1>5 DEF Returned, OnPage

\* For any table, any predicate and any LIMIT and OFFSET, also negative ones: a SELECT
\* returns the chosen rows from the offset on, as many as the limit allows, each once
\* and in the order of the scan.
THEOREM PagesAlwaysTile == QueriesSpec => []PagesTile
<1>1. QueriesInit => PageInv
  BY SheetsAssumption DEF QueriesInit, NoPlan, PageInv, QueryTypes
<1>2. PageInv /\ [QuerySelects \/ QueryNext]_query_vars => PageInv'
  <2> SUFFICES ASSUME PageInv, [QuerySelects \/ QueryNext]_query_vars PROVE PageInv'
    OBVIOUS
  <2>1. CASE UNCHANGED query_vars
    <3>1. UNCHANGED <<sheet, query, exec>> /\ exec'.predicate = exec.predicate /\ (Full' <=> Full)
      BY <2>1 DEF query_vars, Full
    <3>2. Met' = Met /\ Before' = Before /\ QueryTypes'
      BY <3>1, SamePlan DEF Met, QueryTypes, PageInv
    <3> QED BY <3>1, <3>2, SamePlan DEF PageInv, Counted, Returned, NoPlan
  <2> QED BY <2>1, SelectsPage, PassesPage, SkipsPage, ReturnsPage, EndsPage DEF QueryNext
<1> QED BY <1>1, <1>2, PageInvImplies, PTL DEF QueriesSpec
=============================================================================
