------------------------- MODULE TransactionsProofs -------------------------
(***************************************************************************)
(* Proofs about Transactions, for any number of threads, any base of the   *)
(* digits and any bounds.  Two things are shown: what Begin, Commit and    *)
(* Rollback do to the ids in memory (TransactionsAreOwned), and that what  *)
(* the file keeps is enough after a restart (CommittedXidsStayBehind).     *)
(* At the end, the safety of the lock manager the transactions were meant  *)
(* to use, for every number of callers, rows and tables.                   *)
(***************************************************************************)
EXTENDS Transactions, LockManager, FiniteSetTheorems, SequenceTheorems,
        WellFoundedInduction, TLAPS

\* Between AllocateXid and the insertion into active_txns_
HandedOut(t) == pc[t] \in {"begin_open", "begin_write", "begin_push"}

\* Between leaving active_txns_ and the end of Commit
Committing(t) == pc[t] \in {"commit_load", "commit_open", "commit_write"}

\* WriteXidFile has opened the file and not yet written it
Writing(t) == pc[t] \in {"begin_write", "commit_write"}

\* An id that is being handed out belongs to nobody yet: it is not active, it is not
\* current, and no other thread is about to hand it out.
FreshIds ==
    \A t \in Threads : HandedOut(t) =>
        /\ value[t] \in 1 .. last_xid
        /\ value[t] \notin active_txns
        /\ \A u \in Threads : current_txn[u] # value[t]
        /\ \A u \in Threads : u # t /\ HandedOut(u) => value[u] # value[t]

\* Ids are at most last_xid_, and a transaction that is being committed is current
\* and no longer active.
IdsBehind ==
    /\ \A x \in active_txns : x <= last_xid
    /\ \A t \in Threads : current_txn[t] # NoTxn => current_txn[t] <= last_xid
    /\ \A t \in Threads : Committing(t) => /\ current_txn[t] # NoTxn
                                           /\ current_txn[t] \notin active_txns

\* A file that is being written exists.
OpenedFileExists == \A t \in Threads : Writing(t) => file # NoFile

OwnInv == TypeOK /\ ActiveIsCurrentOrDropped /\ FreshIds /\ IdsBehind /\ OpenedFileExists

\* While nothing disturbed the writing of the file: there is one writer, it writes an
\* empty file, and what it will write is behind no committed id.
OneWriter ==
    /\ \A t, u \in Threads : Writes(t) /\ Writes(u) => t = u
    /\ \A t \in Threads : Writing(t) => file = <<>>
    /\ \A t \in Threads : Writes(t) => \A x \in committed : x <= value[t]
    /\ \A t \in Threads : pc[t] \in {"commit_open", "commit_write"} => current_txn[t] <= value[t]

\* A committed id is at most last_xid_ and belongs to nobody.
CommittedIsOver ==
    \A x \in committed : /\ x <= last_xid
                         /\ x \notin active_txns
                         /\ \A t \in Threads : current_txn[t] # x
                         /\ \A t \in Threads : HandedOut(t) => value[t] # x

\* A file that nobody is writing is behind no committed id.
FileKeepsUp ==
    committed # {} /\ (\A t \in Threads : ~Writing(t))
        => file # NoFile /\ \A x \in committed : x <= Parse(file)

FileInv == OwnInv /\ (~disturbed => OneWriter /\ CommittedIsOver /\ FileKeepsUp)
-----------------------------------------------------------------------------
(* Induction and recursion over the natural numbers in a form the provers  *)
(* can instantiate: the parameters are sets and functions, never           *)
(* operators.  Everything follows from the fact that a nonempty set of     *)
(* natural numbers has a least element.  A recursive function is defined   *)
(* by CHOOSE; RecursiveFunctionExists shows that what is chosen satisfies  *)
(* its equation.                                                           *)


\* A nonempty set of natural numbers has a least element.
LEMMA LeastNumber ==
  ASSUME NEW T \in SUBSET Nat, T # {}
  PROVE  \E x \in T : \A y \in T : x <= y
<1> DEFINE R == {p \in Nat \X Nat : p[1] < p[2]}
<1>1. IsWellFoundedOn(R, Nat)
  <2>1. R = OpToRel(<, Nat)
    BY DEF OpToRel
  <2> QED BY <2>1, NatLessThanWellFounded
<1>2. PICK x \in T : \A y \in T : ~ (<<y, x>> \in R)
  <2> HIDE DEF R
  <2> QED BY <1>1, WFMin
<1>3. \A y \in T : x <= y
  <2> SUFFICES ASSUME NEW y \in T, y < x
               PROVE  FALSE
    OBVIOUS
  <2>1. <<y, x>> \in Nat \X Nat /\ <<y, x>>[1] < <<y, x>>[2]
    OBVIOUS
  <2>2. <<y, x>> \in R
    BY <2>1
  <2> QED BY <1>2, <2>2
<1> QED BY <1>3

\* Induction: a set that contains a number whenever it contains all smaller ones
\* contains every number.
LEMMA NatSetInduction ==
  ASSUME NEW S, \A n \in Nat : (\A m \in 0 .. n - 1 : m \in S) => n \in S
  PROVE  Nat \subseteq S
<1> SUFFICES ASSUME Nat \ S # {}
             PROVE  FALSE
  OBVIOUS
<1>1. PICK n \in Nat \ S : \A m \in Nat \ S : n <= m
  BY LeastNumber
<1>2. \A m \in 0 .. n - 1 : m \in S
  BY <1>1
<1> QED BY <1>1, <1>2

-----------------------------------------------------------------------------
\* h solves, on 0 .. n, the equations h[m] = b[m] for the numbers m in stop and
\* h[m] = g[m, h[p[m]]] for the others.
Solves(h, n, V, stop, b, p, g) ==
  /\ h \in [0 .. n -> V]
  /\ \A m \in 0 .. n : h[m] = IF m \in stop THEN b[m] ELSE g[<<m, h[p[m]]>>]

\* What a recursion needs: values in V, and a predecessor that is smaller.
Descends(V, stop, b, p, g) ==
  /\ b \in [Nat -> V]
  /\ p \in [Nat -> Nat]
  /\ g \in [Nat \X V -> V]
  /\ \A m \in Nat \ stop : p[m] < m

\* Two solutions agree wherever both are defined.
LEMMA SolutionsAgree ==
  ASSUME NEW V, NEW stop, NEW b, NEW p, NEW g, Descends(V, stop, b, p, g),
         NEW n \in Nat, NEW k \in Nat, NEW h, NEW i,
         Solves(h, n, V, stop, b, p, g), Solves(i, k, V, stop, b, p, g)
  PROVE  \A m \in (0 .. n) \cap (0 .. k) : h[m] = i[m]
<1> DEFINE S == {m \in Nat : m <= n /\ m <= k => h[m] = i[m]}
<1>1. ASSUME NEW m \in Nat, \A l \in 0 .. m - 1 : l \in S
      PROVE  m \in S
  <2> SUFFICES ASSUME m <= n, m <= k
               PROVE  h[m] = i[m]
    OBVIOUS
  <2>0. m \in 0 .. n /\ m \in 0 .. k
    OBVIOUS
  <2>a. h[m] = IF m \in stop THEN b[m] ELSE g[<<m, h[p[m]]>>]
    BY <2>0 DEF Solves
  <2>b. i[m] = IF m \in stop THEN b[m] ELSE g[<<m, i[p[m]]>>]
    BY <2>0 DEF Solves
  <2>1. CASE m \in stop
    BY <2>1, <2>a, <2>b
  <2>2. CASE m \notin stop
    <3>1. p[m] \in 0 .. m - 1
      BY <2>2 DEF Descends
    <3>2. h[p[m]] = i[p[m]]
      BY <3>1, <1>1
    <3> QED BY <2>2, <3>2, <2>a, <2>b
  <2> QED BY <2>1, <2>2
<1>2. Nat \subseteq S
  <2> HIDE DEF S
  <2> QED BY <1>1, NatSetInduction
<1> QED BY <1>2

\* There is a solution on every initial segment.
LEMMA SolutionsExist ==
  ASSUME NEW V, NEW stop, NEW b, NEW p, NEW g, Descends(V, stop, b, p, g)
  PROVE  \A n \in Nat : \E h : Solves(h, n, V, stop, b, p, g)
<1> DEFINE S == {n \in Nat : \E h : Solves(h, n, V, stop, b, p, g)}
<1>1. ASSUME NEW n \in Nat, \A m \in 0 .. n - 1 : m \in S
      PROVE  n \in S
  <2>1. CASE n \in stop
    <3>1. CASE n = 0
      <4> DEFINE h == [m \in 0 .. 0 |-> b[0]]
      <4>1. Solves(h, 0, V, stop, b, p, g)
        BY <2>1, <3>1 DEF Solves, Descends
      <4> QED BY <3>1, <4>1
    <3>2. CASE n # 0
      <4>1. PICK i : Solves(i, n - 1, V, stop, b, p, g)
        BY <3>2, <1>1
      <4> DEFINE h == [m \in 0 .. n |-> IF m < n THEN i[m] ELSE b[n]]
      <4>2. h \in [0 .. n -> V]
        BY <4>1, <3>2 DEF Solves, Descends
      <4>3. ASSUME NEW m \in 0 .. n
            PROVE  h[m] = IF m \in stop THEN b[m] ELSE g[<<m, h[p[m]]>>]
        <5>1. CASE m = n
          BY <5>1, <2>1
        <5>2. CASE m # n
          <6>1. m \in 0 .. n - 1
            BY <5>2
          <6>2. h[m] = i[m]
            BY <6>1
          <6>3. ASSUME m \notin stop
                PROVE  p[m] \in 0 .. n - 1 /\ h[p[m]] = i[p[m]]
            <7>1. p[m] \in 0 .. m - 1
              BY <6>3 DEF Descends
            <7> QED BY <7>1, <6>1
          <6> HIDE DEF h
          <6> QED BY <4>1, <6>1, <6>2, <6>3 DEF Solves
        <5> QED BY <5>1, <5>2
      <4>4. Solves(h, n, V, stop, b, p, g)
        BY <4>2, <4>3 DEF Solves
      <4> QED BY <4>4
    <3> QED BY <3>1, <3>2
  <2>2. CASE n \notin stop
    <3>1. n # 0 /\ p[n] \in 0 .. n - 1
      BY <2>2 DEF Descends
    <3>2. PICK i : Solves(i, n - 1, V, stop, b, p, g)
      BY <3>1, <1>1
    <3> DEFINE h == [m \in 0 .. n |-> IF m < n THEN i[m] ELSE g[<<n, i[p[n]]>>]]
    <3>3. h \in [0 .. n -> V]
      <4>1. i[p[n]] \in V
        BY <3>1, <3>2 DEF Solves
      <4>2. g[<<n, i[p[n]]>>] \in V
        BY <4>1 DEF Descends
      <4>3. ASSUME NEW m \in 0 .. n, m < n PROVE i[m] \in V
        BY <4>3, <3>2 DEF Solves
      <4> QED BY <4>2, <4>3
    <3>4. ASSUME NEW m \in 0 .. n
          PROVE  h[m] = IF m \in stop THEN b[m] ELSE g[<<m, h[p[m]]>>]
      <4>1. CASE m = n
        BY <4>1, <2>2, <3>1
      <4>2. CASE m # n
        <5>1. m \in 0 .. n - 1
          BY <4>2
        <5>2. h[m] = i[m]
          BY <5>1
        <5>3. ASSUME m \notin stop
              PROVE  p[m] \in 0 .. n - 1 /\ h[p[m]] = i[p[m]]
          <6>1. p[m] \in 0 .. m - 1
            BY <5>3 DEF Descends
          <6> QED BY <6>1, <5>1
        <5> HIDE DEF h
        <5> QED BY <3>2, <5>1, <5>2, <5>3 DEF Solves
      <4> QED BY <4>1, <4>2
    <3>5. Solves(h, n, V, stop, b, p, g)
      BY <3>3, <3>4 DEF Solves
    <3> QED BY <3>5
  <2> QED BY <2>1, <2>2
<1>2. Nat \subseteq S
  <2> HIDE DEF S
  <2> QED BY <1>1, NatSetInduction
<1> QED BY <1>2

\* The function a recursive definition over Nat means exists: its value is b[n] on
\* the numbers in stop, and is computed from the value at the smaller p[n] elsewhere.
LEMMA RecursiveFunctionExists ==
  ASSUME NEW V, NEW stop, NEW b, NEW p, NEW g, Descends(V, stop, b, p, g)
  PROVE  \E f \in [Nat -> V] :
            \A n \in Nat : f[n] = IF n \in stop THEN b[n] ELSE g[<<n, f[p[n]]>>]
<1> DEFINE sol(n) == CHOOSE h : Solves(h, n, V, stop, b, p, g)
<1>1. \A n \in Nat : Solves(sol(n), n, V, stop, b, p, g)
  BY SolutionsExist
<1> DEFINE f == [n \in Nat |-> sol(n)[n]]
<1> HIDE DEF sol
<1>2. f \in [Nat -> V]
  BY <1>1 DEF Solves
<1>3. ASSUME NEW n \in Nat
      PROVE  f[n] = IF n \in stop THEN b[n] ELSE g[<<n, f[p[n]]>>]
  <2>0. sol(n)[n] = IF n \in stop THEN b[n] ELSE g[<<n, sol(n)[p[n]]>>]
    <3>1. n \in 0 .. n
      OBVIOUS
    <3> QED BY <3>1, <1>1 DEF Solves
  <2>1. CASE n \in stop
    BY <2>0, <2>1
  <2>2. CASE n \notin stop
    <3>1. p[n] \in 0 .. n /\ p[n] \in Nat
      BY <2>2 DEF Descends
    <3>2. sol(p[n])[p[n]] = sol(n)[p[n]]
      <4>1. Solves(sol(p[n]), p[n], V, stop, b, p, g) /\ Solves(sol(n), n, V, stop, b, p, g)
        BY <1>1, <3>1
      <4>2. p[n] \in (0 .. p[n]) \cap (0 .. n)
        BY <3>1
      <4> QED BY <4>1, <4>2, <3>1, SolutionsAgree
    <3>3. f[n] = sol(n)[n] /\ f[p[n]] = sol(p[n])[p[n]]
      BY <3>1
    <3>4. sol(n)[n] = g[<<n, sol(n)[p[n]]>>]
      BY <2>0, <2>2
    <3> QED BY <2>2, <3>2, <3>3, <3>4
  <2> QED BY <2>1, <2>2
<1> HIDE DEF f
<1> QED BY <1>2, <1>3

-----------------------------------------------------------------------------
(* The file: the digits of a number are read back as that number. *)

Digit == 0 .. Base - 1

\* Division with remainder by the base, and that it makes a number smaller.
LEMMA DivisionByBase ==
  ASSUME NEW n \in Nat
  PROVE  /\ n \div Base \in Nat
         /\ n % Base \in Digit
         /\ n = (n \div Base) * Base + (n % Base)
         /\ n >= Base => n \div Base < n
<1>1. n \div Base \in Nat /\ n % Base \in Digit /\ n = Base * (n \div Base) + (n % Base)
  BY BoundsAssumption DEF Digit
<1> DEFINE q == n \div Base
<1>2. q \in Nat /\ q * Base = Base * q
  BY <1>1, BoundsAssumption
<1>3. q > 0 => Base * q >= 2 * q
  BY <1>2, BoundsAssumption
<1> HIDE DEF q
<1>4. n >= Base => q < n
  BY <1>1, <1>2, <1>3, BoundsAssumption DEF Digit, q
<1> QED BY <1>1, <1>2, <1>4 DEF q

\* A number below the base is one digit.
LEMMA OneDigit ==
  ASSUME NEW n \in Nat, n < Base
  PROVE  <<n>> \in Seq(Digit)
<1>1. n \in Digit
  BY BoundsAssumption DEF Digit
<1> QED BY <1>1

\* The recursive function of operator<< exists and yields digits.
LEMMA DigitsEquation ==
  /\ digits \in [Nat -> Seq(Digit)]
  /\ \A n \in Nat : digits[n] = IF n < Base THEN <<n>> ELSE Append(digits[n \div Base], n % Base)
<1> DEFINE V == Seq(Digit)
           stop == {n \in Nat : n < Base}
           b == [n \in Nat |-> IF n < Base THEN <<n>> ELSE <<>>]
           p == [n \in Nat |-> n \div Base]
           g == [x \in Nat \X V |-> Append(x[2], x[1] % Base)]
           Eq(f) == [n \in Nat |-> IF n < Base THEN <<n>> ELSE Append(f[n \div Base], n % Base)]
<1>1. Descends(V, stop, b, p, g)
  <2>1. b \in [Nat -> V]
    <3>1. ASSUME NEW n \in Nat, n < Base PROVE <<n>> \in V
      BY <3>1, OneDigit
    <3> QED BY <3>1
  <2>2. p \in [Nat -> Nat]
    BY DivisionByBase
  <2>3. g \in [Nat \X V -> V]
    <3>1. ASSUME NEW x \in Nat \X V PROVE Append(x[2], x[1] % Base) \in V
      <4>1. x[1] \in Nat /\ x[2] \in V
        OBVIOUS
      <4>2. x[1] % Base \in Digit
        BY <4>1, DivisionByBase
      <4> QED BY <4>1, <4>2
    <3> QED BY <3>1
  <2>4. ASSUME NEW m \in Nat \ stop
        PROVE  p[m] < m
    <3>1. m >= Base
      BY BoundsAssumption
    <3>2. m \div Base < m
      BY <3>1, DivisionByBase
    <3> QED BY <3>2
  <2> HIDE DEF V, stop, b, p, g
  <2> QED BY <2>1, <2>2, <2>3, <2>4 DEF Descends
<1>2. PICK f \in [Nat -> V] :
        \A n \in Nat : f[n] = IF n \in stop THEN b[n] ELSE g[<<n, f[p[n]]>>]
  <2> HIDE DEF V, stop, b, p, g
  <2> QED BY <1>1, RecursiveFunctionExists
<1>3. f = Eq(f)
  <2>1. \A n \in Nat : f[n] = IF n < Base THEN <<n>> ELSE Append(f[n \div Base], n % Base)
    <3> SUFFICES ASSUME NEW n \in Nat
                 PROVE  f[n] = IF n < Base THEN <<n>> ELSE Append(f[n \div Base], n % Base)
      OBVIOUS
    <3>1. f[n \div Base] \in V
      BY DivisionByBase
    <3>2. f[n] = IF n \in stop THEN b[n] ELSE g[<<n, f[p[n]]>>]
      BY <1>2
    <3>3. g[<<n, f[p[n]]>>] = Append(f[n \div Base], n % Base)
      BY <3>1
    <3> HIDE DEF g, V, p
    <3> QED BY <3>2, <3>3
  <2> QED BY <2>1
<1>4. digits = Eq(digits)
  <2>1. digits = CHOOSE h : h = Eq(h)
    BY DEF digits
  <2> HIDE DEF Eq
  <2> QED BY <1>3, <2>1
<1>5. \A n \in Nat : digits[n] = IF n < Base THEN <<n>> ELSE Append(digits[n \div Base], n % Base)
  BY <1>4
<1>6. digits \in [Nat -> V]
  <2> DEFINE S == {n \in Nat : digits[n] \in V}
  <2>1. ASSUME NEW n \in Nat, \A m \in 0 .. n - 1 : m \in S
        PROVE  n \in S
    <3>1. CASE n < Base
      <4>1. digits[n] = <<n>>
        BY <3>1, <1>5
      <4> QED BY <3>1, <4>1, OneDigit
    <3>2. CASE ~(n < Base)
      <4>1. n >= Base
        BY <3>2, BoundsAssumption
      <4>2. n \div Base \in Nat /\ n \div Base < n /\ n % Base \in Digit
        BY <4>1, DivisionByBase
      <4>3. digits[n \div Base] \in V
        BY <4>2, <2>1
      <4>4. digits[n] = Append(digits[n \div Base], n % Base)
        BY <3>2, <1>5
      <4>5. Append(digits[n \div Base], n % Base) \in V
        BY <4>2, <4>3, AppendProperties
      <4> QED BY <4>4, <4>5
    <3> QED BY <3>1, <3>2
  <2>2. Nat \subseteq S
    <3> HIDE DEF S
    <3> QED BY <2>1, NatSetInduction
  <2>3. digits = [n \in Nat |-> digits[n]]
    BY <1>4
  <2> QED BY <2>2, <2>3
<1> QED BY <1>5, <1>6

\* h lists the numbers that the first 0, 1, ... digits of f stand for.
DigitPrefixes(f, h) ==
  /\ h \in [0 .. Len(f) -> Nat]
  /\ h[0] = 0
  /\ \A i \in 1 .. Len(f) : h[i] = h[i - 1] * Base + f[i]

\* operator>> reads the last of them.
LEMMA ParseByPrefixes ==
  ASSUME NEW f \in Seq(Nat), NEW h, DigitPrefixes(f, h)
  PROVE  Parse(f) = h[Len(f)]
<1> DEFINE Eq(k) == [i \in 0 .. Len(f) |-> IF i = 0 THEN 0 ELSE k[i - 1] * Base + f[i]]
           c == CHOOSE k : k = Eq(k)
<1>0. Len(f) \in Nat
  OBVIOUS
<1>1. h = Eq(h)
  <2>1. \A i \in 0 .. Len(f) : h[i] = IF i = 0 THEN 0 ELSE h[i - 1] * Base + f[i]
    BY <1>0 DEF DigitPrefixes
  <2> QED BY <2>1 DEF DigitPrefixes
<1>2. c = Eq(c)
  <2> HIDE DEF Eq
  <2> QED BY <1>1
<1>3. Parse(f) = c[Len(f)]
  BY DEF Parse
<1>4. \A i \in 0 .. Len(f) : c[i] = IF i = 0 THEN 0 ELSE c[i - 1] * Base + f[i]
  <2> HIDE DEF c
  <2> QED BY <1>2
<1> HIDE DEF c
<1> DEFINE S == {i \in Nat : i <= Len(f) => c[i] = h[i]}
<1>5. ASSUME NEW i \in Nat, \A m \in 0 .. i - 1 : m \in S
      PROVE  i \in S
  <2> SUFFICES ASSUME i <= Len(f)
               PROVE  c[i] = h[i]
    OBVIOUS
  <2>1. CASE i = 0
    BY <2>1, <1>4, <1>0 DEF DigitPrefixes
  <2>2. CASE i # 0
    <3>1. i - 1 \in S /\ i - 1 <= Len(f) /\ i \in 1 .. Len(f) /\ i \in 0 .. Len(f)
      BY <2>2, <1>5, <1>0
    <3>2. c[i - 1] = h[i - 1]
      BY <3>1
    <3>3. c[i] = c[i - 1] * Base + f[i]
      BY <3>1, <2>2, <1>4
    <3>4. h[i] = h[i - 1] * Base + f[i]
      BY <3>1 DEF DigitPrefixes
    <3> QED BY <3>2, <3>3, <3>4
  <2> QED BY <2>1, <2>2
<1>6. Nat \subseteq S
  <2> HIDE DEF S
  <2> QED BY <1>5, NatSetInduction
<1> QED BY <1>0, <1>3, <1>6

\* There are such numbers for every file of digits.
LEMMA PrefixesExist ==
  ASSUME NEW f \in Seq(Nat)
  PROVE  \E h : DigitPrefixes(f, h)
<1> DEFINE stop == {0}
           b == [n \in Nat |-> 0]
           p == [n \in Nat |-> IF n = 0 THEN 0 ELSE n - 1]
           d(n) == IF n \in 1 .. Len(f) THEN f[n] ELSE 0
           g == [x \in Nat \X Nat |-> x[2] * Base + d(x[1])]
<1>1. \A n \in Nat : d(n) \in Nat
  OBVIOUS
<1> HIDE DEF d
<1>2. Descends(Nat, stop, b, p, g)
  <2>1. g \in [Nat \X Nat -> Nat]
    <3>1. ASSUME NEW x \in Nat \X Nat PROVE x[2] * Base + d(x[1]) \in Nat
      <4>1. x[1] \in Nat /\ x[2] \in Nat /\ d(x[1]) \in Nat /\ Base \in Nat
        BY <1>1, BoundsAssumption
      <4> QED BY <4>1
    <3> QED BY <3>1
  <2>2. b \in [Nat -> Nat] /\ p \in [Nat -> Nat] /\ \A m \in Nat \ stop : p[m] < m
    OBVIOUS
  <2> HIDE DEF stop, b, p, g
  <2> QED BY <2>1, <2>2 DEF Descends
<1>3. PICK F \in [Nat -> Nat] :
        \A n \in Nat : F[n] = IF n \in stop THEN b[n] ELSE g[<<n, F[p[n]]>>]
  <2> HIDE DEF stop, b, p, g
  <2> QED BY <1>2, RecursiveFunctionExists
<1> DEFINE h == [i \in 0 .. Len(f) |-> F[i]]
<1>4. Len(f) \in Nat
  OBVIOUS
<1>5. h \in [0 .. Len(f) -> Nat] /\ h[0] = 0
  <2>1. 0 \in stop /\ b[0] = 0 /\ 0 \in 0 .. Len(f)
    BY <1>4
  <2>2. F[0] = 0
    <3> HIDE DEF stop, b, p, g
    <3> QED BY <2>1, <1>3
  <2> QED BY <2>1, <2>2, <1>4
<1>6. ASSUME NEW i \in 1 .. Len(f)
      PROVE  h[i] = h[i - 1] * Base + f[i]
  <2>1. i \in Nat /\ i \notin stop /\ i - 1 \in Nat /\ p[i] = i - 1 /\ d(i) = f[i]
    BY <1>4 DEF d
  <2>2. F[i] = g[<<i, F[i - 1]>>]
    BY <1>3, <2>1
  <2>3. <<i, F[i - 1]>> \in Nat \X Nat
    BY <2>1
  <2>4. g[<<i, F[i - 1]>>] = F[i - 1] * Base + d(i)
    BY <2>3
  <2>5. h[i] = F[i] /\ h[i - 1] = F[i - 1]
    BY <2>1, <1>4
  <2> QED BY <2>1, <2>2, <2>4, <2>5
<1> HIDE DEF h
<1> QED BY <1>5, <1>6 DEF DigitPrefixes

\* Reading a file yields a number; an empty file yields 0; and one more digit
\* multiplies what was there by the base.
LEMMA ParseSteps ==
  ASSUME NEW f \in Seq(Nat), NEW n \in Nat
  PROVE  /\ Parse(f) \in Nat
         /\ Parse(<<>>) = 0
         /\ Parse(Append(f, n)) = Parse(f) * Base + n
<1>1. PICK h : DigitPrefixes(f, h)
  BY PrefixesExist
<1>2. Len(f) \in Nat /\ Parse(f) = h[Len(f)]
  BY <1>1, ParseByPrefixes
<1>3. Parse(f) \in Nat
  BY <1>1, <1>2 DEF DigitPrefixes
<1>4. Parse(<<>>) = 0
  <2> DEFINE z == [i \in 0 .. Len(<<>>) |-> 0]
  <2>1. <<>> \in Seq(Nat) /\ Len(<<>>) = 0
    OBVIOUS
  <2>2. DigitPrefixes(<<>>, z)
    BY <2>1 DEF DigitPrefixes
  <2>3. Parse(<<>>) = z[Len(<<>>)]
    <3> HIDE DEF z
    <3> QED BY <2>1, <2>2, ParseByPrefixes
  <2> QED BY <2>1, <2>3
<1>5. Parse(Append(f, n)) = Parse(f) * Base + n
  <2> DEFINE a == Append(f, n)
             k == [i \in 0 .. Len(f) + 1 |-> IF i <= Len(f) THEN h[i] ELSE h[Len(f)] * Base + n]
  <2>1. a \in Seq(Nat) /\ Len(a) = Len(f) + 1 /\ a[Len(f) + 1] = n
        /\ \A i \in 1 .. Len(f) : a[i] = f[i]
    BY AppendProperties
  <2>2. h[Len(f)] * Base + n \in Nat
    BY <1>2, <1>3, BoundsAssumption
  <2>3. k \in [0 .. Len(f) + 1 -> Nat] /\ k[0] = 0
    BY <1>1, <1>2, <2>2 DEF DigitPrefixes
  <2>4. ASSUME NEW i \in 1 .. Len(f) + 1
        PROVE  k[i] = k[i - 1] * Base + a[i]
    <3>1. CASE i = Len(f) + 1
      <4>1. k[i] = h[Len(f)] * Base + n /\ k[i - 1] = h[Len(f)]
        BY <3>1, <1>2
      <4> QED BY <3>1, <4>1, <2>1
    <3>2. CASE i # Len(f) + 1
      <4>1. i \in 1 .. Len(f) /\ k[i] = h[i] /\ k[i - 1] = h[i - 1]
        BY <3>2, <1>2
      <4>2. h[i] = h[i - 1] * Base + f[i]
        BY <4>1, <1>1 DEF DigitPrefixes
      <4> QED BY <4>1, <4>2, <2>1
    <3> QED BY <3>1, <3>2
  <2>5. k[Len(f) + 1] = h[Len(f)] * Base + n
    BY <1>2
  <2> HIDE DEF a, k
  <2>6. DigitPrefixes(a, k)
    BY <2>1, <2>3, <2>4 DEF DigitPrefixes
  <2>7. Parse(a) = k[Len(a)]
    BY <2>1, <2>6, ParseByPrefixes
  <2> QED BY <2>1, <2>5, <2>7, <1>2 DEF a
<1> QED BY <1>3, <1>4, <1>5

\* What WriteXidFile writes, LoadXid reads back.
LEMMA ParseDigits ==
  ASSUME NEW n \in Nat
  PROVE  Digits(n) \in Seq(Digit) /\ Parse(Digits(n)) = n
<1> DEFINE S == {m \in Nat : Parse(digits[m]) = m}
<1>0. Base \in Nat /\ \A m \in Nat : digits[m] \in Seq(Digit) /\ digits[m] \in Seq(Nat)
  <2>1. Digit \subseteq Nat
    BY BoundsAssumption DEF Digit
  <2>2. ASSUME NEW s \in Seq(Digit) PROVE s \in Seq(Nat)
    BY <2>1, SeqMonotonic
  <2> QED BY <2>2, DigitsEquation, BoundsAssumption
<1>1. ASSUME NEW m \in Nat, \A k \in 0 .. m - 1 : k \in S
      PROVE  m \in S
  <2>1. CASE m < Base
    <3>1. digits[m] = <<m>> /\ <<m>> = Append(<<>>, m) /\ <<>> \in Seq(Nat)
      BY <2>1, DigitsEquation
    <3>2. Parse(Append(<<>>, m)) = Parse(<<>>) * Base + m /\ Parse(<<>>) = 0
      BY <3>1, ParseSteps
    <3> QED BY <3>1, <3>2, <1>0
  <2>2. CASE ~(m < Base)
    <3> DEFINE q == m \div Base
               r == m % Base
    <3>1. q \in Nat /\ r \in Nat /\ q < m /\ m = q * Base + r
      BY <2>2, DivisionByBase, <1>0 DEF Digit
    <3>2. digits[m] = Append(digits[q], r)
      BY <2>2, DigitsEquation
    <3> HIDE DEF q, r
    <3>3. Parse(digits[q]) = q
      BY <3>1, <1>1
    <3>4. Parse(Append(digits[q], r)) = Parse(digits[q]) * Base + r
      BY <3>1, <1>0, ParseSteps
    <3> QED BY <3>1, <3>2, <3>3, <3>4
  <2> QED BY <2>1, <2>2
<1>2. Nat \subseteq S
  <2> HIDE DEF S
  <2> QED BY <1>1, NatSetInduction
<1> QED BY <1>0, <1>2 DEF Digits

\* A restart reads a positive number, at least what the file stands for.
LEMMA LoadXidFact ==
  ASSUME NEW f, f # NoFile => f \in Seq(Digit)
  PROVE  /\ LoadXid(f) \in Nat \ {0}
         /\ f # NoFile => Parse(f) \in Nat /\ Parse(f) <= LoadXid(f)
<1>1. CASE f = NoFile
  BY <1>1 DEF LoadXid
<1>2. CASE f # NoFile
  <2>1. Parse(f) \in Nat
    <3>1. Digit \subseteq Nat
      BY BoundsAssumption DEF Digit
    <3>2. f \in Seq(Nat)
      BY <1>2, <3>1, SeqMonotonic
    <3> QED BY <3>2, ParseSteps
  <2> QED BY <1>2, <2>1 DEF LoadXid
<1> QED BY <1>1, <1>2

\* Writing at offset 0 leaves digits, and exactly the number when the file was empty.
LEMMA OverwriteFact ==
  ASSUME NEW f \in Seq(Digit), NEW n \in Nat
  PROVE  /\ Overwrite(f, n) \in Seq(Digit)
         /\ f = <<>> => Parse(Overwrite(f, n)) = n
<1> DEFINE d == Digits(n)
           tail == SubSeq(f, Len(d) + 1, Len(f))
<1>1. d \in Seq(Digit) /\ Parse(d) = n
  BY ParseDigits
<1> HIDE DEF d
<1>2. tail \in Seq(Digit)
  <2>1. Len(d) \in Nat /\ Len(f) \in Nat
    BY <1>1
  <2>2. \A i \in Len(d) + 1 .. Len(f) : f[i] \in Digit
    BY <2>1
  <2> QED BY <2>1, <2>2, SubSeqProperties
<1>3. Overwrite(f, n) = d \o tail
  BY DEF Overwrite, d
<1>4. f = <<>> => tail = <<>>
  BY <1>1
<1> HIDE DEF tail
<1>5. d \o tail \in Seq(Digit)
  BY <1>1, <1>2
<1>6. f = <<>> => d \o tail = d
  BY <1>1, <1>4, ConcatEmptySeq
<1> QED BY <1>1, <1>3, <1>5, <1>6

-----------------------------------------------------------------------------
(* The ids in memory: TransactionsAreOwned.  One lemma per action. *)

\* No savepoints is a sequence of names.
LEMMA NoSavepoints == <<>> \in Seq(Names) /\ <<>> \in Seq(Digit) /\ <<>> # NoFile
<1>1. <<>> \in Seq(Names) /\ <<>> \in Seq(Digit) /\ <<>> \in Seq(Nat)
  OBVIOUS
<1> QED BY <1>1, BoundsAssumption

\* AllocateXid: the counter goes up, so the new id is one that nobody has.
LEMMA BeginOwn ==
  ASSUME OwnInv, NEW t \in Threads, Begin(t)
  PROVE  OwnInv'
<1>1. TypeOK'
  <2>1. last_xid + 1 \in Nat \ {0}
    BY DEF OwnInv, TypeOK
  <2>2. CASE (last_xid + 1) % PersistEvery = 0
    BY <2>1, <2>2 DEF OwnInv, TypeOK, PCs, Begin
  <2>3. CASE (last_xid + 1) % PersistEvery # 0
    BY <2>1, <2>3 DEF OwnInv, TypeOK, PCs, Begin
  <2> QED BY <2>2, <2>3
<1>2. ActiveIsCurrentOrDropped'
  BY BoundsAssumption DEF OwnInv, TypeOK, ActiveIsCurrentOrDropped, FreshIds, IdsBehind, HandedOut, Committing, Begin
<1>3. FreshIds'
  <2>1. HandedOut(t)' /\ value'[t] = last_xid + 1 /\ ~HandedOut(t)
    BY DEF OwnInv, TypeOK, HandedOut, Begin
  <2>2. \A u \in Threads : u # t => value'[u] = value[u] /\ (HandedOut(u)' <=> HandedOut(u))
    BY DEF OwnInv, TypeOK, HandedOut, Begin
  <2>3. last_xid' = last_xid + 1 /\ last_xid \in Nat
        /\ UNCHANGED <<active_txns, current_txn>>
    BY DEF OwnInv, TypeOK, Begin
  <2>4. last_xid + 1 \notin active_txns /\ \A u \in Threads : current_txn[u] # last_xid + 1
    BY <2>3, BoundsAssumption DEF OwnInv, TypeOK, IdsBehind
  <2> QED BY <2>1, <2>2, <2>3, <2>4 DEF OwnInv, FreshIds
<1>4. IdsBehind'
  BY BoundsAssumption DEF OwnInv, TypeOK, ActiveIsCurrentOrDropped, FreshIds, IdsBehind, HandedOut, Committing, Begin
<1>5. OpenedFileExists'
  BY BoundsAssumption DEF OwnInv, TypeOK, OpenedFileExists, Writing, Begin
<1> QED BY <1>1, <1>2, <1>3, <1>4, <1>5 DEF OwnInv

\* The new transaction becomes active and current; the one before it is dropped.
LEMMA BeginPushOwn ==
  ASSUME OwnInv, NEW t \in Threads, BeginPush(t)
  PROVE  OwnInv'
<1>1. TypeOK'
  BY NoSavepoints, BoundsAssumption DEF OwnInv, TypeOK, PCs, BeginPush
<1>2. ActiveIsCurrentOrDropped'
  BY BoundsAssumption DEF OwnInv, TypeOK, ActiveIsCurrentOrDropped, FreshIds, IdsBehind, HandedOut, Committing, BeginPush
<1>3. FreshIds'
  BY BoundsAssumption DEF OwnInv, TypeOK, ActiveIsCurrentOrDropped, FreshIds, IdsBehind, HandedOut, Committing, BeginPush
<1>4. IdsBehind'
  BY BoundsAssumption DEF OwnInv, TypeOK, ActiveIsCurrentOrDropped, FreshIds, IdsBehind, HandedOut, Committing, BeginPush
<1>5. OpenedFileExists'
  BY BoundsAssumption DEF OwnInv, TypeOK, OpenedFileExists, Writing, BeginPush
<1> QED BY <1>1, <1>2, <1>3, <1>4, <1>5 DEF OwnInv

\* Commit takes the current transaction out of active_txns_.
LEMMA CommitOwn ==
  ASSUME OwnInv, NEW t \in Threads, Commit(t)
  PROVE  OwnInv'
<1>1. TypeOK'
  BY BoundsAssumption DEF OwnInv, TypeOK, PCs, Commit
<1>2. ActiveIsCurrentOrDropped'
  BY BoundsAssumption DEF OwnInv, TypeOK, ActiveIsCurrentOrDropped, FreshIds, IdsBehind, HandedOut, Committing, Commit
<1>3. FreshIds'
  BY BoundsAssumption DEF OwnInv, TypeOK, ActiveIsCurrentOrDropped, FreshIds, IdsBehind, HandedOut, Committing, Commit
<1>4. IdsBehind'
  BY BoundsAssumption DEF OwnInv, TypeOK, ActiveIsCurrentOrDropped, FreshIds, IdsBehind, HandedOut, Committing, Commit
<1>5. OpenedFileExists'
  BY BoundsAssumption DEF OwnInv, TypeOK, OpenedFileExists, Writing, Commit
<1> QED BY <1>1, <1>2, <1>3, <1>4, <1>5 DEF OwnInv

\* PersistXid reads the counter.
LEMMA PersistXidOwn ==
  ASSUME OwnInv, NEW t \in Threads, PersistXid(t)
  PROVE  OwnInv'
<1>1. TypeOK'
  BY BoundsAssumption DEF OwnInv, TypeOK, PCs, PersistXid
<1>2. ActiveIsCurrentOrDropped'
  BY BoundsAssumption DEF OwnInv, TypeOK, ActiveIsCurrentOrDropped, FreshIds, IdsBehind, HandedOut, Committing, PersistXid
<1>3. FreshIds'
  BY BoundsAssumption DEF OwnInv, TypeOK, ActiveIsCurrentOrDropped, FreshIds, IdsBehind, HandedOut, Committing, PersistXid
<1>4. IdsBehind'
  BY BoundsAssumption DEF OwnInv, TypeOK, ActiveIsCurrentOrDropped, FreshIds, IdsBehind, HandedOut, Committing, PersistXid
<1>5. OpenedFileExists'
  BY BoundsAssumption DEF OwnInv, TypeOK, OpenedFileExists, Writing, PersistXid
<1> QED BY <1>1, <1>2, <1>3, <1>4, <1>5 DEF OwnInv

\* Opening the file changes no id.
LEMMA OpenXidFileOwn ==
  ASSUME OwnInv, NEW t \in Threads, OpenXidFile(t)
  PROVE  OwnInv'
<1>1. TypeOK'
  BY NoSavepoints DEF OwnInv, TypeOK, PCs, OpenXidFile, Digit
<1>2. ActiveIsCurrentOrDropped'
  BY BoundsAssumption DEF OwnInv, TypeOK, ActiveIsCurrentOrDropped, FreshIds, IdsBehind, HandedOut, Committing, OpenXidFile
<1>3. FreshIds'
  BY BoundsAssumption DEF OwnInv, TypeOK, ActiveIsCurrentOrDropped, FreshIds, IdsBehind, HandedOut, Committing, OpenXidFile
<1>4. IdsBehind'
  BY BoundsAssumption DEF OwnInv, TypeOK, ActiveIsCurrentOrDropped, FreshIds, IdsBehind, HandedOut, Committing, OpenXidFile
<1>5. OpenedFileExists'
  BY NoSavepoints DEF OwnInv, OpenedFileExists, OpenXidFile
<1> QED BY <1>1, <1>2, <1>3, <1>4, <1>5 DEF OwnInv

\* What becomes of the file when a thread is done with it: digits, and no thread that
\* still has it open loses it.
FileTypeKept ==
    /\ file' # NoFile => file' \in Seq(Digit)
    /\ file # NoFile => file' # NoFile
    /\ disturbed' \in BOOLEAN

\* The end of Commit: the thread has no transaction any more.
LEMMA EndOfCommitOwn ==
  ASSUME OwnInv, NEW t \in Threads, pc[t] \in {"commit_open", "commit_write"},
         pc' = [pc EXCEPT ![t] = "idle"], Committed(t), FileTypeKept,
         UNCHANGED <<last_xid, active_txns, restarts, dropped>>
  PROVE  OwnInv'
<1>1. current_txn[t] \in Nat
  BY DEF OwnInv, TypeOK, IdsBehind, Committing
<1>2. TypeOK'
  BY <1>1, NoSavepoints DEF OwnInv, TypeOK, PCs, Committed, FileTypeKept, Digit
<1>3. ActiveIsCurrentOrDropped'
  <2>1. current_txn[t] \notin active_txns
    BY DEF OwnInv, IdsBehind, Committing
  <2> QED BY <2>1 DEF OwnInv, TypeOK, ActiveIsCurrentOrDropped, Committed
<1>4. FreshIds'
  BY BoundsAssumption DEF OwnInv, TypeOK, FreshIds, HandedOut, Committed
<1>5. IdsBehind'
  BY DEF OwnInv, TypeOK, IdsBehind, Committing, Committed
<1>6. OpenedFileExists'
  BY DEF OwnInv, TypeOK, OpenedFileExists, Writing, FileTypeKept
<1> QED BY <1>2, <1>3, <1>4, <1>5, <1>6 DEF OwnInv

\* Begin goes on after the file was written or not: it still holds the same fresh id.
LEMMA BeginGoesOnOwn ==
  ASSUME OwnInv, NEW t \in Threads, pc[t] \in {"begin_open", "begin_write"},
         pc' = [pc EXCEPT ![t] = "begin_push"], FileTypeKept,
         UNCHANGED <<last_xid, active_txns, current_txn, savepoints, value, restarts,
                     committed, dropped>>
  PROVE  OwnInv'
<1>1. TypeOK'
  BY DEF OwnInv, TypeOK, PCs, FileTypeKept, Digit
<1>2. ActiveIsCurrentOrDropped'
  BY DEF OwnInv, TypeOK, ActiveIsCurrentOrDropped
<1>3. FreshIds'
  BY DEF OwnInv, TypeOK, FreshIds, HandedOut
<1>4. IdsBehind'
  BY DEF OwnInv, TypeOK, IdsBehind, Committing
<1>5. OpenedFileExists'
  BY DEF OwnInv, TypeOK, OpenedFileExists, Writing, FileTypeKept
<1> QED BY <1>1, <1>2, <1>3, <1>4, <1>5 DEF OwnInv

\* A file that does not open: Begin or Commit goes on.
LEMMA OpenXidFileFailsOwn ==
  ASSUME OwnInv, NEW t \in Threads, OpenXidFileFails(t)
  PROVE  OwnInv'
<1>1. FileTypeKept
  BY DEF OwnInv, TypeOK, OpenXidFileFails, FileTypeKept, Digit
<1>2. CASE pc[t] = "begin_open"
  BY <1>1, <1>2, BeginGoesOnOwn DEF OpenXidFileFails
<1>3. CASE pc[t] = "commit_open"
  BY <1>1, <1>3, EndOfCommitOwn DEF OpenXidFileFails
<1> QED BY <1>2, <1>3 DEF OpenXidFileFails

\* What a thread writes is digits.
LEMMA WriteXidFileFile ==
  ASSUME OwnInv, NEW t \in Threads, WriteXidFile(t)
  PROVE  /\ FileTypeKept
         /\ file = <<>> => Parse(file') = value[t]
<1>1. file \in Seq(Digit) /\ value[t] \in Nat
  BY DEF OwnInv, TypeOK, OpenedFileExists, Writing, WriteXidFile, Digit
<1>2. file' \in Seq(Digit) /\ (file = <<>> => Parse(file') = value[t])
  BY <1>1, OverwriteFact DEF WriteXidFile
<1>3. file' # NoFile
  <2>1. Digit \subseteq Nat
    BY BoundsAssumption DEF Digit
  <2>2. file' \in Seq(Nat)
    BY <1>2, <2>1, SeqMonotonic
  <2> QED BY <2>2, BoundsAssumption
<1> QED BY <1>2, <1>3 DEF OwnInv, TypeOK, WriteXidFile, FileTypeKept

\* The file is written: the end of Commit, or Begin goes on.
LEMMA WriteXidFileOwn ==
  ASSUME OwnInv, NEW t \in Threads, WriteXidFile(t)
  PROVE  OwnInv'
<1>1. FileTypeKept
  BY WriteXidFileFile
<1>2. CASE pc[t] = "begin_write"
  BY <1>1, <1>2, BeginGoesOnOwn DEF WriteXidFile
<1>3. CASE pc[t] = "commit_write"
  BY <1>1, <1>3, EndOfCommitOwn DEF WriteXidFile
<1> QED BY <1>2, <1>3 DEF WriteXidFile

\* Rollback ends the current transaction at once.
LEMMA RollbackOwn ==
  ASSUME OwnInv, NEW t \in Threads, Rollback(t)
  PROVE  OwnInv'
<1>1. TypeOK'
  BY NoSavepoints, BoundsAssumption DEF OwnInv, TypeOK, PCs, Rollback
<1>2. ActiveIsCurrentOrDropped'
  BY BoundsAssumption DEF OwnInv, TypeOK, ActiveIsCurrentOrDropped, FreshIds, IdsBehind, HandedOut, Committing, Rollback
<1>3. FreshIds'
  BY BoundsAssumption DEF OwnInv, TypeOK, ActiveIsCurrentOrDropped, FreshIds, IdsBehind, HandedOut, Committing, Rollback
<1>4. IdsBehind'
  BY BoundsAssumption DEF OwnInv, TypeOK, ActiveIsCurrentOrDropped, FreshIds, IdsBehind, HandedOut, Committing, Rollback
<1>5. OpenedFileExists'
  BY BoundsAssumption DEF OwnInv, TypeOK, OpenedFileExists, Writing, Rollback
<1> QED BY <1>1, <1>2, <1>3, <1>4, <1>5 DEF OwnInv

\* The first savepoint of a name that occurs is at a position of the sequence.
LEMMA FirstPosition ==
  ASSUME TypeOK, NEW t \in Threads, NEW name, Positions(t, name) # {}
  PROVE  Min(Positions(t, name)) \in 1 .. Len(savepoints[t])
<1>1. Positions(t, name) \subseteq 1 .. Len(savepoints[t]) /\ Len(savepoints[t]) \in Nat
  BY DEF TypeOK, Positions
<1>2. PICK x \in Positions(t, name) : \A y \in Positions(t, name) : x <= y
  BY <1>1, LeastNumber
<1> QED BY <1>1, <1>2 DEF Min

\* The savepoint statements change nothing but the savepoints.
LEMMA SavepointOwn ==
  ASSUME OwnInv, NEW t \in Threads, NEW new \in Seq(Names), SavepointStep(t, new)
  PROVE  OwnInv'
<1>1. TypeOK'
  BY DEF OwnInv, TypeOK, SavepointStep
<1>2. ActiveIsCurrentOrDropped'
  BY DEF OwnInv, ActiveIsCurrentOrDropped, SavepointStep
<1>3. FreshIds' /\ IdsBehind' /\ OpenedFileExists'
  BY DEF OwnInv, FreshIds, IdsBehind, OpenedFileExists, HandedOut, Committing, Writing, SavepointStep
<1> QED BY <1>1, <1>2, <1>3 DEF OwnInv

\* What each of them leaves is again a sequence of names.
LEMMA SavepointsOwn ==
  ASSUME OwnInv, NEW t \in Threads, NEW name \in Names,
         \/ CreateSavepoint(t, name) \/ ReleaseSavepoint(t, name) \/ RollbackToSavepoint(t, name)
  PROVE  \E new \in Seq(Names) : SavepointStep(t, new)
<1> DEFINE s == savepoints[t]
           m == Min(Positions(t, name))
<1>1. s \in Seq(Names) /\ Len(s) \in Nat
  BY DEF OwnInv, TypeOK
<1>2. CASE CreateSavepoint(t, name)
  <2>1. Append(s, name) \in Seq(Names)
    BY <1>1
  <2> QED BY <1>2, <2>1 DEF CreateSavepoint
<1>3. CASE ReleaseSavepoint(t, name)
  <2>1. m \in 1 .. Len(s)
    BY <1>3, FirstPosition DEF OwnInv, ReleaseSavepoint
  <2> HIDE DEF m
  <2>2. SubSeq(s, 1, m - 1) \in Seq(Names) /\ SubSeq(s, m + 1, Len(s)) \in Seq(Names)
    <3>1. \A i \in 1 .. Len(s) : s[i] \in Names
      BY <1>1
    <3>2. (\A i \in 1 .. m - 1 : s[i] \in Names) /\ (\A i \in m + 1 .. Len(s) : s[i] \in Names)
      BY <1>1, <2>1, <3>1
    <3> HIDE DEF s
    <3> QED BY <1>1, <2>1, <3>2, SubSeqProperties
  <2>3. RemoveAt(s, m) \in Seq(Names)
    BY <2>2 DEF RemoveAt
  <2> QED BY <1>3, <2>3 DEF ReleaseSavepoint, m
<1>4. CASE RollbackToSavepoint(t, name)
  <2>1. m \in 1 .. Len(s)
    BY <1>4, FirstPosition DEF OwnInv, RollbackToSavepoint
  <2> HIDE DEF m
  <2>2. SubSeq(s, 1, m) \in Seq(Names)
    <3>1. \A i \in 1 .. m : s[i] \in Names
      BY <1>1, <2>1
    <3> HIDE DEF s
    <3> QED BY <1>1, <2>1, <3>1, SubSeqProperties
  <2> QED BY <1>4, <2>2 DEF RollbackToSavepoint, m
<1> QED BY <1>2, <1>3, <1>4

\* A restart begins with no transaction at all.
LEMMA RestartOwn ==
  ASSUME OwnInv, NEW f, f # NoFile => f \in Seq(Digit), Restart(f), disturbed' \in BOOLEAN
  PROVE  OwnInv'
<1>1. LoadXid(f) \in Nat \ {0}
  BY LoadXidFact
<1>2. TypeOK'
  BY <1>1, NoSavepoints, BoundsAssumption DEF OwnInv, TypeOK, PCs, Restart, Digit
<1>3. ActiveIsCurrentOrDropped'
  BY DEF ActiveIsCurrentOrDropped, Restart
<1>4. FreshIds' /\ IdsBehind' /\ OpenedFileExists'
  BY DEF FreshIds, IdsBehind, OpenedFileExists, HandedOut, Committing, Writing, Restart
<1> QED BY <1>2, <1>3, <1>4 DEF OwnInv

\* What a restart finds in the file.
LEMMA RestartFile ==
  ASSUME OwnInv, NEW torn \in BOOLEAN
  PROVE  /\ file # NoFile => file \in Seq(Digit)
         /\ (IF torn THEN <<>> ELSE Digits(last_xid)) \in Seq(Digit)
         /\ Parse(Digits(last_xid)) = last_xid
         /\ Digits(last_xid) # NoFile
<1>1. last_xid \in Nat
  BY DEF OwnInv, TypeOK
<1>2. Digits(last_xid) \in Seq(Digit) /\ Parse(Digits(last_xid)) = last_xid
  BY <1>1, ParseDigits
<1>3. Digits(last_xid) \in Seq(Nat)
  <2>1. Digit \subseteq Nat
    BY BoundsAssumption DEF Digit
  <2> QED BY <1>2, <2>1, SeqMonotonic
<1> QED BY <1>2, <1>3, NoSavepoints, BoundsAssumption DEF OwnInv, TypeOK, Digit

\* Every step keeps OwnInv.
LEMMA NextOwn == OwnInv /\ [Next]_vars => OwnInv'
<1> SUFFICES ASSUME OwnInv, [Next]_vars
             PROVE  OwnInv'
  OBVIOUS
<1>1. ASSUME NEW t \in Threads,
             \/ Begin(t) \/ BeginPush(t) \/ Commit(t) \/ PersistXid(t) \/ OpenXidFile(t)
             \/ OpenXidFileFails(t) \/ WriteXidFile(t) \/ Rollback(t)
      PROVE  OwnInv'
  BY <1>1, BeginOwn, BeginPushOwn, CommitOwn, PersistXidOwn, OpenXidFileOwn, OpenXidFileFailsOwn,
     WriteXidFileOwn, RollbackOwn
<1>2. ASSUME NEW t \in Threads, NEW name \in Names,
             \/ CreateSavepoint(t, name) \/ ReleaseSavepoint(t, name)
             \/ RollbackToSavepoint(t, name)
      PROVE  OwnInv'
  BY <1>2, SavepointsOwn, SavepointOwn
<1>3. CASE Crash
  <2>1. Restart(file) /\ disturbed' \in BOOLEAN
    BY <1>3 DEF Crash
  <2> QED BY <2>1, RestartFile, RestartOwn
<1>4. ASSUME NEW torn \in BOOLEAN, Shutdown(torn)
      PROVE  OwnInv'
  <2> DEFINE f == IF torn THEN <<>> ELSE Digits(last_xid)
  <2>1. Restart(f) /\ disturbed' \in BOOLEAN
    BY <1>4 DEF Shutdown, OwnInv, TypeOK
  <2>2. f \in Seq(Digit)
    BY RestartFile
  <2> HIDE DEF f
  <2> QED BY <2>1, <2>2, RestartOwn
<1>5. CASE UNCHANGED vars
  BY <1>5 DEF OwnInv, vars, TypeOK, ActiveIsCurrentOrDropped, FreshIds, IdsBehind, OpenedFileExists,
     HandedOut, Committing, Writing
<1> QED BY <1>1, <1>2, <1>3, <1>4, <1>5 DEF Next, NoTransaction

\* The first start of the server.
LEMMA InitOwn == Init => OwnInv
<1> SUFFICES ASSUME Init
             PROVE  OwnInv
  OBVIOUS
<1>1. TypeOK
  <2>1. LoadXid(NoFile) = 1
    BY DEF LoadXid
  <2>2. savepoints \in [Threads -> Seq(Names)] /\ pc \in [Threads -> PCs]
    BY NoSavepoints DEF Init, PCs
  <2>3. restarts \in 0 .. MaxRestarts
    BY BoundsAssumption DEF Init
  <2>4. last_xid \in Nat \ {0}
    BY <2>1 DEF Init
  <2>7. disturbed \in BOOLEAN
    BY DEF Init
  <2>8. active_txns \in SUBSET Nat /\ committed \in SUBSET Nat /\ dropped \in SUBSET Nat
    BY DEF Init
  <2>5. current_txn \in [Threads -> Nat \cup {NoTxn}] /\ value \in [Threads -> Nat]
    BY DEF Init
  <2>6. file = NoFile
    BY DEF Init
  <2> QED BY <2>2, <2>3, <2>4, <2>5, <2>6, <2>7, <2>8 DEF TypeOK
<1>2. ActiveIsCurrentOrDropped /\ FreshIds /\ IdsBehind /\ OpenedFileExists
  BY DEF Init, ActiveIsCurrentOrDropped, FreshIds, IdsBehind, OpenedFileExists, HandedOut,
     Committing, Writing
<1> QED BY <1>1, <1>2 DEF OwnInv

\* However the threads interleave, an active transaction is the current one of exactly
\* one thread or was dropped by a second BEGIN, and no thread is inside a transaction
\* that has ended (transaction_manager.cpp keeps both facts under no common lock).
THEOREM OwnershipCorrect == Spec => []TransactionsAreOwned
<1>1. OwnInv => TransactionsAreOwned
  BY DEF OwnInv, TransactionsAreOwned
<1> QED BY <1>1, InitOwn, NextOwn, PTL DEF Spec

-----------------------------------------------------------------------------
(* The file: CommittedXidsStayBehind.  Only the steps that do not set disturbed *)
(* have to keep FilePart. *)

FilePart == OneWriter /\ CommittedIsOver /\ FileKeepsUp

\* A step of a thread that neither touches the file nor moves a thread in or out of
\* WriteXidFile: what is left to show is that a committed id stays over.
LEMMA QuietFile ==
  ASSUME FilePart, CommittedIsOver',
         UNCHANGED <<file, committed>>,
         \A u \in Threads : /\ Writes(u)' <=> Writes(u)
                            /\ Writing(u)' <=> Writing(u)
                            /\ pc'[u] \in {"commit_open", "commit_write"}
                                 <=> pc[u] \in {"commit_open", "commit_write"}
                            /\ Writes(u) => value'[u] = value[u] /\ current_txn'[u] = current_txn[u]
  PROVE  FilePart'
<1>1. OneWriter'
  <2>1. \A u \in Threads : pc[u] \in {"commit_open", "commit_write"} => Writes(u)
    BY DEF Writes
  <2> QED BY <2>1 DEF FilePart, OneWriter
<1>2. FileKeepsUp'
  BY DEF FilePart, FileKeepsUp, Parse
<1> QED BY <1>1, <1>2 DEF FilePart

\* AllocateXid: the new id is beyond every committed one, and its writer is alone.
LEMMA BeginFile ==
  ASSUME OwnInv, FilePart, NEW t \in Threads, Begin(t), ~disturbed'
  PROVE  FilePart'
<1>1. /\ pc[t] = "idle"
      /\ pc'[t] \in {"begin_open", "begin_push"}
      /\ pc'[t] = "begin_open" => \A u \in Threads : ~Writes(u)
      /\ value'[t] = last_xid + 1
      /\ last_xid' = last_xid + 1
      /\ \A u \in Threads : u # t => pc'[u] = pc[u] /\ value'[u] = value[u]
      /\ UNCHANGED <<active_txns, current_txn, file, committed>>
      /\ last_xid \in Nat /\ committed \in SUBSET Nat
  BY DEF Begin, OwnInv, TypeOK
<1>2. OneWriter'
  BY <1>1 DEF FilePart, OneWriter, CommittedIsOver, Writes, Writing
<1>3. CommittedIsOver'
  BY <1>1 DEF FilePart, CommittedIsOver, HandedOut
<1>4. FileKeepsUp'
  <2>1. \A u \in Threads : Writing(u)' <=> Writing(u)
    BY <1>1 DEF Writing
  <2> QED BY <1>1, <2>1 DEF FilePart, FileKeepsUp, Parse
<1> QED BY <1>2, <1>3, <1>4 DEF FilePart

\* Insertion into active_txns_: a fresh id is not a committed one.
LEMMA BeginPushFile ==
  ASSUME OwnInv, FilePart, NEW t \in Threads, BeginPush(t)
  PROVE  FilePart'
<1>1. CommittedIsOver'
  BY DEF BeginPush, OwnInv, TypeOK, FilePart, CommittedIsOver, HandedOut
<1>2. \A u \in Threads : /\ Writes(u)' <=> Writes(u)
                         /\ Writing(u)' <=> Writing(u)
                         /\ pc'[u] \in {"commit_open", "commit_write"}
                              <=> pc[u] \in {"commit_open", "commit_write"}
                         /\ Writes(u) => value'[u] = value[u] /\ current_txn'[u] = current_txn[u]
  BY DEF BeginPush, OwnInv, TypeOK, Writes, Writing
<1> QED BY <1>1, <1>2, QuietFile DEF BeginPush

\* The first half of Commit, and Rollback.
LEMMA CommitRollbackFile ==
  ASSUME OwnInv, FilePart, NEW t \in Threads, Commit(t) \/ Rollback(t)
  PROVE  FilePart'
<1>0. /\ UNCHANGED <<last_xid, committed, value>>
      /\ active_txns' \subseteq active_txns
      /\ \A u \in Threads : HandedOut(u)' <=> HandedOut(u)
      /\ \A u \in Threads : current_txn'[u] \in {current_txn[u], NoTxn}
      /\ committed \in SUBSET Nat
  BY DEF Commit, Rollback, OwnInv, TypeOK, HandedOut
<1>1. CommittedIsOver'
  BY <1>0, BoundsAssumption DEF FilePart, CommittedIsOver
<1>2. \A u \in Threads : /\ Writes(u)' <=> Writes(u)
                         /\ Writing(u)' <=> Writing(u)
                         /\ pc'[u] \in {"commit_open", "commit_write"}
                              <=> pc[u] \in {"commit_open", "commit_write"}
                         /\ Writes(u) => value'[u] = value[u] /\ current_txn'[u] = current_txn[u]
  BY DEF Commit, Rollback, OwnInv, TypeOK, Writes, Writing
<1> QED BY <1>1, <1>2, QuietFile DEF Commit, Rollback

\* PersistXid reads last_xid_, which is behind no committed id, and its thread is now
\* the only one that writes.
LEMMA PersistXidFile ==
  ASSUME OwnInv, FilePart, NEW t \in Threads, PersistXid(t), ~disturbed'
  PROVE  FilePart'
<1>1. /\ pc[t] = "commit_load" /\ pc'[t] = "commit_open" /\ value'[t] = last_xid
      /\ \A u \in Threads : ~Writes(u)
      /\ \A u \in Threads : u # t => pc'[u] = pc[u] /\ value'[u] = value[u]
      /\ UNCHANGED <<last_xid, active_txns, current_txn, file, committed>>
  BY DEF PersistXid, OwnInv, TypeOK
<1>2. current_txn[t] <= last_xid
  BY <1>1 DEF OwnInv, IdsBehind, Committing
<1>3. OneWriter'
  BY <1>1, <1>2 DEF FilePart, OneWriter, CommittedIsOver, Writes, Writing
<1>4. CommittedIsOver'
  BY <1>1 DEF FilePart, CommittedIsOver, HandedOut
<1>5. FileKeepsUp'
  <2>1. \A u \in Threads : Writing(u)' <=> Writing(u)
    BY <1>1 DEF Writing
  <2> QED BY <1>1, <2>1 DEF FilePart, FileKeepsUp, Parse
<1> QED BY <1>3, <1>4, <1>5 DEF FilePart

\* Opening empties the file; until it is written, its one writer owes the number.
LEMMA OpenXidFileFile ==
  ASSUME OwnInv, FilePart, NEW t \in Threads, OpenXidFile(t)
  PROVE  FilePart'
<1>1. /\ pc[t] \in {"begin_open", "commit_open"} /\ Writes(t)
      /\ pc'[t] = IF pc[t] = "begin_open" THEN "begin_write" ELSE "commit_write"
      /\ file' = <<>>
      /\ \A u \in Threads : u # t => pc'[u] = pc[u]
      /\ UNCHANGED <<last_xid, active_txns, current_txn, value, committed>>
  BY DEF OpenXidFile, OwnInv, TypeOK, Writes
<1>2. OneWriter'
  BY <1>1 DEF FilePart, OneWriter, Writes, Writing
<1>3. CommittedIsOver'
  BY <1>1 DEF FilePart, CommittedIsOver, HandedOut
<1>4. FileKeepsUp'
  BY <1>1 DEF FileKeepsUp, Writing
<1> QED BY <1>2, <1>3, <1>4 DEF FilePart

\* The one writer writes an empty file: the file now stands for a number that is
\* behind no committed id, the one just committed included.
LEMMA WriteXidFileKeepsUp ==
  ASSUME OwnInv, FilePart, NEW t \in Threads, WriteXidFile(t)
  PROVE  FilePart'
<1>1. /\ Writing(t) /\ Writes(t)
      /\ file = <<>>
      /\ Parse(file') = value[t]
      /\ file' # NoFile
  <2>1. Writing(t) /\ Writes(t) /\ file = <<>>
    BY DEF WriteXidFile, Writing, Writes, FilePart, OneWriter
  <2> QED BY <2>1, WriteXidFileFile DEF FileTypeKept, OwnInv, OpenedFileExists
<1>2. \A x \in committed : x <= value[t]
  BY <1>1 DEF FilePart, OneWriter
<1>3. \A u \in Threads : ~Writes(u)' /\ ~Writing(u)'
  BY <1>1 DEF WriteXidFile, OwnInv, TypeOK, FilePart, OneWriter, Writes, Writing
<1>4. CASE pc[t] = "begin_write"
  <2>1. /\ UNCHANGED <<committed, last_xid, active_txns, current_txn, value>>
        /\ \A u \in Threads : HandedOut(u)' <=> HandedOut(u)
    BY <1>4 DEF WriteXidFile, OwnInv, TypeOK, HandedOut
  <2>2. CommittedIsOver'
    BY <2>1 DEF FilePart, CommittedIsOver
  <2>3. FileKeepsUp'
    BY <1>1, <1>2, <2>1 DEF FileKeepsUp
  <2>4. OneWriter'
    BY <1>3 DEF OneWriter, Writes
  <2> QED BY <2>2, <2>3, <2>4 DEF FilePart
<1>5. CASE pc[t] = "commit_write"
  <2>1. /\ committed' = committed \cup {current_txn[t]}
        /\ UNCHANGED <<last_xid, active_txns>>
        /\ current_txn' = [current_txn EXCEPT ![t] = NoTxn]
        /\ \A u \in Threads : u # t => value'[u] = value[u]
        /\ \A u \in Threads : HandedOut(u)' <=> HandedOut(u) /\ u # t
    BY <1>5 DEF WriteXidFile, Committed, OwnInv, TypeOK, HandedOut
  <2>2. current_txn[t] <= value[t]
    BY <1>5 DEF FilePart, OneWriter
  <2>3. /\ current_txn[t] \in Nat /\ current_txn[t] <= last_xid
        /\ current_txn[t] \notin active_txns
        /\ \A u \in Threads : u # t => current_txn[u] # current_txn[t]
        /\ \A u \in Threads : HandedOut(u) => value[u] # current_txn[t]
    BY <1>5 DEF OwnInv, TypeOK, IdsBehind, Committing, ActiveIsCurrentOrDropped, FreshIds
  <2>4. CommittedIsOver'
    BY <2>1, <2>3, BoundsAssumption DEF OwnInv, TypeOK, FilePart, CommittedIsOver
  <2>5. FileKeepsUp'
    BY <1>1, <1>2, <2>1, <2>2 DEF FileKeepsUp
  <2>6. OneWriter'
    BY <1>3 DEF OneWriter, Writes
  <2> QED BY <2>4, <2>5, <2>6 DEF FilePart
<1> QED BY <1>4, <1>5 DEF WriteXidFile

\* The savepoint statements touch nothing of this.
LEMMA SavepointFile ==
  ASSUME FilePart, NEW t \in Threads, NEW new, SavepointStep(t, new)
  PROVE  FilePart'
BY DEF SavepointStep, FilePart, OneWriter, CommittedIsOver, FileKeepsUp, Writes, Writing,
       HandedOut, Parse

\* After a restart with a file that is behind no committed id.
LEMMA RestartKeepsUp ==
  ASSUME OwnInv, NEW f, f # NoFile => f \in Seq(Digit), Restart(f),
         committed # {} => f # NoFile /\ \A x \in committed : x <= Parse(f)
  PROVE  FilePart'
<1>1. OneWriter'
  BY DEF OneWriter, Writes, Writing, Restart
<1>2. FileKeepsUp'
  BY DEF FileKeepsUp, Restart
<1>3. CommittedIsOver'
  <2> SUFFICES ASSUME NEW x \in committed
               PROVE  /\ x <= LoadXid(f)
                      /\ x # NoTxn
    BY DEF CommittedIsOver, Restart, HandedOut
  <2>1. x \in Nat /\ LoadXid(f) \in Nat /\ Parse(f) \in Nat /\ Parse(f) <= LoadXid(f)
    BY LoadXidFact DEF OwnInv, TypeOK
  <2>2. x <= Parse(f)
    OBVIOUS
  <2> QED BY <2>1, <2>2, BoundsAssumption
<1> QED BY <1>1, <1>2, <1>3 DEF FilePart

\* A crash that does not hit a file that is being written, and a shutdown that does
\* not tear it.
LEMMA EndOfProcessFile ==
  ASSUME OwnInv, FilePart, ~disturbed', Crash \/ \E torn \in BOOLEAN : Shutdown(torn)
  PROVE  FilePart'
<1>1. CASE Crash
  <2>1. Restart(file) /\ \A t \in Threads : ~Writing(t)
    BY <1>1 DEF Crash, Writing
  <2> QED BY <2>1, RestartFile, RestartKeepsUp DEF FilePart, FileKeepsUp
<1>2. ASSUME NEW torn \in BOOLEAN, Shutdown(torn)
      PROVE  FilePart'
  <2>1. Restart(Digits(last_xid))
    BY <1>2 DEF Shutdown
  <2>2. /\ Digits(last_xid) \in Seq(Digit)
        /\ Parse(Digits(last_xid)) = last_xid
        /\ Digits(last_xid) # NoFile
    BY RestartFile
  <2>3. \A x \in committed : x <= last_xid
    BY DEF FilePart, CommittedIsOver
  <2> QED BY <2>1, <2>2, <2>3, RestartKeepsUp
<1> QED BY <1>1, <1>2

\* Every step keeps FileInv.
LEMMA NextFile == FileInv /\ [Next]_vars => FileInv'
<1> SUFFICES ASSUME FileInv, [Next]_vars, ~disturbed'
             PROVE  FilePart'
  BY NextOwn DEF FileInv, FilePart
<1>1. OwnInv /\ ~disturbed /\ FilePart
  <2>1. ~disturbed
    BY DEF FileInv, OwnInv, TypeOK, Next, vars, Begin, BeginPush, Commit, PersistXid, OpenXidFile,
       OpenXidFileFails, WriteXidFile, Rollback, NoTransaction, CreateSavepoint, ReleaseSavepoint,
       RollbackToSavepoint, SavepointStep, Crash, Shutdown
  <2> QED BY <2>1 DEF FileInv, FilePart
<1>2. ASSUME NEW t \in Threads,
             \/ Begin(t) \/ BeginPush(t) \/ Commit(t) \/ PersistXid(t) \/ OpenXidFile(t)
             \/ WriteXidFile(t) \/ Rollback(t)
      PROVE  FilePart'
  BY <1>1, <1>2, BeginFile, BeginPushFile, CommitRollbackFile, PersistXidFile, OpenXidFileFile,
     WriteXidFileKeepsUp
<1>3. ASSUME NEW t \in Threads, OpenXidFileFails(t)
      PROVE  FilePart'
  BY <1>3 DEF OpenXidFileFails
<1>4. ASSUME NEW t \in Threads, NEW name \in Names,
             \/ CreateSavepoint(t, name) \/ ReleaseSavepoint(t, name)
             \/ RollbackToSavepoint(t, name)
      PROVE  FilePart'
  BY <1>1, <1>4, SavepointsOwn, SavepointFile
<1>5. CASE Crash \/ \E torn \in BOOLEAN : Shutdown(torn)
  BY <1>1, <1>5, EndOfProcessFile
<1>6. CASE UNCHANGED vars
  BY <1>1, <1>6 DEF vars, FilePart, OneWriter, CommittedIsOver, FileKeepsUp, Writes, Writing,
     HandedOut, Parse
<1> QED BY <1>2, <1>3, <1>4, <1>5, <1>6 DEF Next, NoTransaction

\* A committed xid is never handed out again, in this process or in one that starts
\* from the file it left, unless the writing of the file met one of the cases that
\* WriteXidFile does not guard against.
THEOREM CommittedXidsCorrect == Spec => []CommittedXidsStayBehind
<1>1. Init => FileInv
  <2> SUFFICES ASSUME Init
               PROVE  FileInv
    OBVIOUS
  <2>1. OneWriter /\ CommittedIsOver /\ FileKeepsUp
    BY DEF Init, OneWriter, CommittedIsOver, FileKeepsUp, Writes, Writing
  <2> QED BY <2>1, InitOwn DEF FileInv
<1>2. FileInv => CommittedXidsStayBehind
  BY DEF FileInv, CommittedIsOver, CommittedXidsStayBehind, HandedOut
<1> QED BY <1>1, <1>2, NextFile, PTL DEF Spec

-----------------------------------------------------------------------------
(* The lock manager.  To its maps every call is one of three steps:        *)
(* nothing, one grant or one release.  The entry remembers only the mode   *)
(* of its first holder; what that says of the other holders is             *)
(* TableEntryFits and RowEntryFits, which strengthen the properties of the *)
(* holders into an inductive invariant.                                    *)

\* Every holder has the mode of the entry or one compatible with it.
TableEntryFits ==
    \A t \in Tables : \A h \in tableHolders[t] :
        h[2] = table_locks[t].mode \/ ModesCompatible(table_locks[t].mode, h[2])

\* Every holder of a row has the mode of the entry.
RowEntryFits == \A r \in Rows : \A h \in rowHolders[r] : h[2] = row_locks[r].mode

TableInv == CompatibleUnlessOpenedInIS /\ TableEntryFits
RowInv == RowsSharedOnlyInS /\ RowEntryFits

\* The three things a step does to a map of entries and its holders.
Granting(locks, holders, locksNext, holdersNext, c, x, m) ==
    /\ <<c, m>> \notin holders[x]
    /\ locksNext = [locks EXCEPT ![x] = Grant(@, m)]
    /\ holdersNext = [holders EXCEPT ![x] = @ \cup {<<c, m>>}]

Releasing(locks, holders, locksNext, holdersNext, c, x, m) ==
    /\ <<c, m>> \in holders[x]
    /\ locksNext = [locks EXCEPT ![x] = Release(@)]
    /\ holdersNext = [holders EXCEPT ![x] = @ \ {<<c, m>>}]

TableGrant(c, t, m) ==
    /\ TableGrantable(table_locks[t], m)
    /\ Granting(table_locks, tableHolders, table_locks', tableHolders', c, t, m)
TableRelease(c, t, m) == Releasing(table_locks, tableHolders, table_locks', tableHolders', c, t, m)

RowGrant(c, r, m) ==
    /\ RowGrantable(row_locks[r], m)
    /\ Granting(row_locks, rowHolders, row_locks', rowHolders', c, r, m)
RowRelease(c, r, m) == Releasing(row_locks, rowHolders, row_locks', rowHolders', c, r, m)
-----------------------------------------------------------------------------
(* Entries *)

\* Grant adds one holder, and sets the mode of an entry that had none.
LEMMA GrantFacts ==
    ASSUME NEW e \in Entries, NEW m \in Modes
    PROVE  /\ Grant(e, m) \in Entries
           /\ Grant(e, m).count = e.count + 1
           /\ Grant(e, m).mode = IF e.count = 0 THEN m ELSE e.mode
BY DEF Grant, Entries

\* Release takes one holder, and erases the entry with the last one.
LEMMA ReleaseFacts ==
    ASSUME NEW e \in Entries
    PROVE  /\ Release(e) \in Entries
           /\ e.count # 0 => Release(e).count = e.count - 1
           /\ e.count > 1 => Release(e).mode = e.mode
BY DEF Release, Entries, NoEntry, Modes

\* Where a caller is decides what its state is.
LEMMA CallerFacts ==
    ASSUME LocksTypeOK, NEW c \in Callers
    PROVE  /\ caller[c] = Running => ~InLockTable(c)
           /\ InLockTable(c) => caller[c] \in Requests
           /\ caller[c].at = "asleep" => InLockTable(c)
           /\ caller[c].at = "woken" => InLockTable(c)
<1>1. caller[c] \in {Running, Hangs} \cup Requests
  BY DEF LocksTypeOK
<1>2. Running.at = "running" /\ Hangs.at = "hangs"
  BY DEF Running, Hangs
<1> QED BY <1>1, <1>2 DEF InLockTable
-----------------------------------------------------------------------------
(* Every step keeps the types; what it does to the two maps *)

TableStep ==
    \/ UNCHANGED <<table_locks, tableHolders>>
    \/ \E c \in Callers, t \in Tables, m \in Modes : TableGrant(c, t, m) \/ TableRelease(c, t, m)

RowStep ==
    \/ UNCHANGED <<row_locks, rowHolders>>
    \/ \E c \in Callers, r \in Rows, m \in Modes : RowGrant(c, r, m) \/ RowRelease(c, r, m)

\* A caller that is granted the table lock it waits for does not hold it yet.
LEMMA WaiterGrant ==
    ASSUME LocksTypeOK, NEW c \in Callers, InLockTable(c),
           TableGrantable(table_locks[caller[c].table], caller[c].mode),
           GrantTable(c, caller[c].table, caller[c].mode)
    PROVE  /\ caller[c].table \in Tables /\ caller[c].mode \in Modes
           /\ TableGrant(c, caller[c].table, caller[c].mode)
<1>1. caller[c] \in Requests
  BY CallerFacts
<1>2. <<c, caller[c].mode>> \notin tableHolders[caller[c].table]
  BY DEF LocksTypeOK
<1> QED BY <1>1, <1>2 DEF Requests, TableGrant, Granting, GrantTable

\* A step changes the table locks by one grant, by one release or not at all.
LEMMA TableSteps == LocksTypeOK /\ [LocksNext]_lock_vars => TableStep
<1> SUFFICES ASSUME LocksTypeOK, [LocksNext]_lock_vars PROVE TableStep
  OBVIOUS
<1>1. ASSUME NEW c \in Callers, NEW r \in Rows, NEW m \in Modes,
             LockRow(c, r, m) \/ LockRowHangs(c, r, m) \/ UnlockRow(c, r, m)
      PROVE  TableStep
  BY <1>1 DEF TableStep, LockRow, LockRowHangs, UnlockRow
<1>2. ASSUME NEW c \in Callers, RowCallBlocks(c) \/ ReleaseAllLocks(c) PROVE TableStep
  BY <1>2 DEF TableStep, RowCallBlocks, ReleaseAllLocks
<1>3. ASSUME NEW c \in Callers, NEW t \in Tables, NEW m \in Modes, LockTable(c, t, m)
      PROVE  TableStep
  BY <1>3 DEF TableStep, LockTable, GrantTable, TableGrant, Granting
<1>4. ASSUME NEW c \in Callers, NEW t \in Tables, NEW m \in Modes, NEW timed \in BOOLEAN,
             LockTableWaits(c, t, m, timed)
      PROVE  TableStep
  BY <1>4 DEF TableStep, LockTableWaits
<1>5. ASSUME NEW c \in Callers, NEW t \in Tables, NEW m \in Modes, UnlockTable(c, t, m)
      PROVE  TableStep
  BY <1>5 DEF TableStep, UnlockTable, TableRelease, Releasing
<1>6. ASSUME NEW c \in Callers, LockTableWakes(c) PROVE TableStep
  <2>1. InLockTable(c)
    BY <1>6, CallerFacts DEF LockTableWakes
  <2>2. CASE TableGrantable(table_locks[caller[c].table], caller[c].mode)
    BY <1>6, <2>1, <2>2, WaiterGrant DEF TableStep, LockTableWakes
  <2>3. CASE ~TableGrantable(table_locks[caller[c].table], caller[c].mode)
    BY <1>6, <2>3 DEF TableStep, LockTableWakes
  <2> QED BY <2>2, <2>3
<1>7. ASSUME NEW c \in Callers, LockTableTimesOut(c) PROVE TableStep
  <2>1. CASE TableGrantable(table_locks[caller[c].table], caller[c].mode)
    BY <1>7, <2>1, WaiterGrant DEF TableStep, LockTableTimesOut
  <2>2. CASE ~TableGrantable(table_locks[caller[c].table], caller[c].mode)
    BY <1>7, <2>2 DEF TableStep, LockTableTimesOut
  <2> QED BY <2>1, <2>2
<1>8. CASE UNCHANGED lock_vars
  BY <1>8 DEF TableStep, lock_vars
<1> QED BY <1>1, <1>2, <1>3, <1>4, <1>5, <1>6, <1>7, <1>8 DEF LocksNext

\* The same for the row locks.
LEMMA RowSteps == LocksTypeOK /\ [LocksNext]_lock_vars => RowStep
<1> SUFFICES ASSUME LocksTypeOK, [LocksNext]_lock_vars PROVE RowStep
  OBVIOUS
<1>1. ASSUME NEW c \in Callers, NEW r \in Rows, NEW m \in Modes, LockRow(c, r, m)
      PROVE  RowStep
  BY <1>1 DEF RowStep, LockRow, RowGrant, Granting
<1>2. ASSUME NEW c \in Callers, NEW r \in Rows, NEW m \in Modes, UnlockRow(c, r, m)
      PROVE  RowStep
  BY <1>2 DEF RowStep, UnlockRow, RowRelease, Releasing
<1>3. ASSUME NEW c \in Callers, NEW r \in Rows, NEW m \in Modes, LockRowHangs(c, r, m)
      PROVE  RowStep
  BY <1>3 DEF RowStep, LockRowHangs
<1>4. ASSUME NEW c \in Callers, NEW t \in Tables, NEW m \in Modes,
             \/ LockTable(c, t, m) \/ UnlockTable(c, t, m)
             \/ \E timed \in BOOLEAN : LockTableWaits(c, t, m, timed)
      PROVE  RowStep
  BY <1>4 DEF RowStep, LockTable, GrantTable, UnlockTable, LockTableWaits
<1>5. ASSUME NEW c \in Callers,
             \/ RowCallBlocks(c) \/ ReleaseAllLocks(c)
             \/ LockTableWakes(c) \/ LockTableTimesOut(c)
      PROVE  RowStep
  BY <1>5 DEF RowStep, RowCallBlocks, ReleaseAllLocks, LockTableWakes, LockTableTimesOut, GrantTable
<1>6. CASE UNCHANGED lock_vars
  BY <1>6 DEF RowStep, lock_vars
<1> QED BY <1>1, <1>2, <1>3, <1>4, <1>5, <1>6 DEF LocksNext
-----------------------------------------------------------------------------
(* Types *)

\* A grant or a release keeps the types of a map and of its holders.
LEMMA EntriesTyped ==
    ASSUME NEW Things, NEW locks \in [Things -> Entries],
           NEW holders \in [Things -> SUBSET (Callers \X Modes)],
           NEW locksNext, NEW holdersNext,
           NEW c \in Callers, NEW x \in Things, NEW m \in Modes,
           \/ Granting(locks, holders, locksNext, holdersNext, c, x, m)
           \/ Releasing(locks, holders, locksNext, holdersNext, c, x, m)
    PROVE  /\ locksNext \in [Things -> Entries]
           /\ holdersNext \in [Things -> SUBSET (Callers \X Modes)]
<1>1. Grant(locks[x], m) \in Entries /\ Release(locks[x]) \in Entries
  BY GrantFacts, ReleaseFacts
<1> QED BY <1>1 DEF Granting, Releasing

\* What notify_all does to a caller.
LEMMA NotifyFacts ==
    ASSUME LocksTypeOK
    PROVE  /\ NotifyAll \in [Callers -> {Running, Hangs} \cup Requests]
           /\ \A c \in Callers : /\ NotifyAll[c].at # "asleep"
                                 /\ NotifyAll[c].at = "woken" =>
                                      /\ InLockTable(c)
                                      /\ NotifyAll[c].table = caller[c].table
                                      /\ NotifyAll[c].mode = caller[c].mode
<1>1. ASSUME NEW c \in Callers, caller[c].at = "asleep"
      PROVE  /\ [caller[c] EXCEPT !.at = "woken"] \in Requests
             /\ [caller[c] EXCEPT !.at = "woken"].at = "woken"
             /\ [caller[c] EXCEPT !.at = "woken"].table = caller[c].table
             /\ [caller[c] EXCEPT !.at = "woken"].mode = caller[c].mode
  <2>1. caller[c] \in Requests
    BY <1>1, CallerFacts
  <2> QED BY <2>1 DEF Requests
<1>2. ASSUME NEW c \in Callers, caller[c].at = "woken" PROVE InLockTable(c)
  BY <1>2, CallerFacts
<1>3. ASSUME NEW c \in Callers, caller[c].at = "asleep" PROVE InLockTable(c)
  BY <1>3, CallerFacts
<1>4. \A c \in Callers : caller[c] \in {Running, Hangs} \cup Requests
  BY DEF LocksTypeOK
<1> QED BY <1>1, <1>2, <1>3, <1>4 DEF NotifyAll

\* The part of LocksTypeOK that a step changes with the callers.
WaitersHoldNot ==
    \A c \in Callers : InLockTable(c) => <<c, caller[c].mode>> \notin tableHolders[caller[c].table]

CallersTyped == caller \in [Callers -> {Running, Hangs} \cup Requests]

\* The step of a caller that is not in LockTable afterwards leaves the other
\* callers' waits alone.
LEMMA OtherWaiters ==
    ASSUME LocksTypeOK, NEW c \in Callers, caller' \in [Callers -> {Running, Hangs} \cup Requests],
           ~InLockTable(c)',
           \A d \in Callers \ {c} : caller'[d] = caller[d],
           \A t \in Tables : \A d \in Callers \ {c}, n \in Modes :
               <<d, n>> \in tableHolders'[t] => <<d, n>> \in tableHolders[t]
    PROVE  WaitersHoldNot'
<1> SUFFICES ASSUME NEW d \in Callers, InLockTable(d)'
             PROVE  <<d, caller'[d].mode>> \notin tableHolders'[caller'[d].table]
  BY DEF WaitersHoldNot
<1>1. d # c /\ caller'[d] = caller[d] /\ InLockTable(d)
  BY DEF InLockTable
<1>2. caller[d] \in Requests
  BY <1>1, CallerFacts
<1>3. caller[d].table \in Tables /\ caller[d].mode \in Modes
  BY <1>2 DEF Requests
<1> QED BY <1>1, <1>3 DEF LocksTypeOK

\* Every step of a caller keeps the types of the callers, and a caller that waits
\* does not hold what it waits for.
LEMMA CallersStep == LocksTypeOK /\ [LocksNext]_lock_vars => CallersTyped' /\ WaitersHoldNot'
<1> SUFFICES ASSUME LocksTypeOK, [LocksNext]_lock_vars PROVE CallersTyped' /\ WaitersHoldNot'
  OBVIOUS
<1>a. /\ CallersTyped /\ WaitersHoldNot
      /\ tableHolders \in [Tables -> SUBSET (Callers \X Modes)]
  BY DEF LocksTypeOK, CallersTyped, WaitersHoldNot
<1>b. Running.at = "running" /\ Hangs.at = "hangs"
  BY DEF Running, Hangs
<1>1. ASSUME UNCHANGED <<caller, tableHolders>> PROVE CallersTyped' /\ WaitersHoldNot'
  BY <1>1, <1>a DEF CallersTyped, WaitersHoldNot, InLockTable
<1>2. ASSUME NEW c \in Callers, NEW s \in {Running, Hangs}, caller' = [caller EXCEPT ![c] = s],
             UNCHANGED tableHolders
      PROVE  CallersTyped' /\ WaitersHoldNot'
  <2>1. CallersTyped' /\ ~InLockTable(c)' /\ \A d \in Callers \ {c} : caller'[d] = caller[d]
    BY <1>2, <1>a, <1>b DEF CallersTyped, InLockTable
  <2> QED BY <2>1, <1>2, OtherWaiters DEF CallersTyped
<1>3. ASSUME NEW c \in Callers, NEW r \in Rows, NEW m \in Modes,
             LockRow(c, r, m) \/ LockRowHangs(c, r, m) \/ UnlockRow(c, r, m)
      PROVE  CallersTyped' /\ WaitersHoldNot'
  BY <1>1, <1>2, <1>3 DEF LockRow, LockRowHangs, UnlockRow
<1>4. ASSUME NEW c \in Callers, NEW t \in Tables, NEW m \in Modes, LockTable(c, t, m)
      PROVE  CallersTyped' /\ WaitersHoldNot'
  <2>1. caller' = caller /\ ~InLockTable(c)
    BY <1>4, CallerFacts DEF LockTable, MayAsk
  <2>2. CallersTyped' /\ ~InLockTable(c)'
    BY <2>1, <1>a DEF CallersTyped, InLockTable
  <2>3. \A u \in Tables : \A d \in Callers \ {c}, n \in Modes :
            <<d, n>> \in tableHolders'[u] => <<d, n>> \in tableHolders[u]
    BY <1>4, <1>a DEF LockTable, GrantTable
  <2> QED BY <2>1, <2>2, <2>3, OtherWaiters DEF CallersTyped
<1>5. ASSUME NEW c \in Callers, NEW t \in Tables, NEW m \in Modes, NEW timed \in BOOLEAN,
             LockTableWaits(c, t, m, timed)
      PROVE  CallersTyped' /\ WaitersHoldNot'
  <2> DEFINE s == Sleeping(t, m, timed)
  <2>1. s \in Requests /\ s.table = t /\ s.mode = m
    BY DEF Sleeping, Requests
  <2>2. caller' = [caller EXCEPT ![c] = s] /\ tableHolders' = tableHolders
    BY <1>5 DEF LockTableWaits
  <2>3. <<c, m>> \notin tableHolders[t]
    BY <1>5 DEF LockTableWaits
  <2> HIDE DEF s
  <2> QED BY <2>1, <2>2, <2>3, <1>a DEF CallersTyped, WaitersHoldNot, InLockTable
<1>6. ASSUME caller' = NotifyAll, \A u \in Tables : tableHolders'[u] \subseteq tableHolders[u]
      PROVE  CallersTyped' /\ WaitersHoldNot'
  <2>3. CallersTyped'
    BY <1>6, NotifyFacts DEF CallersTyped
  <2>4. ASSUME NEW d \in Callers, InLockTable(d)'
        PROVE  <<d, caller'[d].mode>> \notin tableHolders'[caller'[d].table]
    <3>1. InLockTable(d) /\ caller'[d].table = caller[d].table /\ caller'[d].mode = caller[d].mode
      BY <1>6, <2>4, NotifyFacts DEF InLockTable
    <3>2. caller[d].table \in Tables
      BY <3>1, CallerFacts DEF Requests
    <3> QED BY <3>1, <3>2, <1>6, <1>a DEF WaitersHoldNot
  <2> QED BY <2>3, <2>4 DEF WaitersHoldNot
<1>7. ASSUME NEW c \in Callers, LockTableWakes(c) \/ LockTableTimesOut(c), caller'[c] = Running,
             caller' = [caller EXCEPT ![c] = Running]
      PROVE  CallersTyped' /\ WaitersHoldNot'
  <2>1. CallersTyped' /\ ~InLockTable(c)' /\ \A d \in Callers \ {c} : caller'[d] = caller[d]
    BY <1>7, <1>a, <1>b DEF CallersTyped, InLockTable
  <2>2. caller[c].table \in Tables
    BY <1>7, CallerFacts DEF LockTableWakes, LockTableTimesOut, Requests
  <2>3. \/ tableHolders' = tableHolders
        \/ GrantTable(c, caller[c].table, caller[c].mode)
    BY <1>7 DEF LockTableWakes, LockTableTimesOut
  <2>4. \A u \in Tables : \A d \in Callers \ {c}, n \in Modes :
            <<d, n>> \in tableHolders'[u] => <<d, n>> \in tableHolders[u]
    BY <2>2, <2>3, <1>a DEF GrantTable
  <2> QED BY <2>1, <2>4, OtherWaiters DEF CallersTyped
<1>8. ASSUME NEW c \in Callers, LockTableWakes(c),
             ~TableGrantable(table_locks[caller[c].table], caller[c].mode)
      PROVE  CallersTyped' /\ WaitersHoldNot'
  <2> DEFINE s == [caller[c] EXCEPT !.at = "asleep"]
  <2>1. caller[c] \in Requests /\ InLockTable(c)
    BY <1>8, CallerFacts DEF LockTableWakes
  <2>2. s \in Requests /\ s.table = caller[c].table /\ s.mode = caller[c].mode
    BY <2>1 DEF Requests
  <2>3. caller' = [caller EXCEPT ![c] = s] /\ tableHolders' = tableHolders
    BY <1>8 DEF LockTableWakes
  <2> HIDE DEF s
  <2> QED BY <2>1, <2>2, <2>3, <1>a DEF CallersTyped, WaitersHoldNot, InLockTable
<1>9. ASSUME NEW c \in Callers, LockTableWakes(c) \/ LockTableTimesOut(c)
      PROVE  CallersTyped' /\ WaitersHoldNot'
  <2>1. CASE caller' = [caller EXCEPT ![c] = Running]
    BY <1>7, <1>9, <2>1, <1>a DEF CallersTyped
  <2>2. CASE caller' # [caller EXCEPT ![c] = Running]
    BY <1>8, <1>9, <2>2 DEF LockTableWakes, LockTableTimesOut
  <2> QED BY <2>1, <2>2
<1>10. CASE UNCHANGED lock_vars
  BY <1>1, <1>10 DEF lock_vars
<1>11. ASSUME NEW c \in Callers, RowCallBlocks(c) PROVE CallersTyped' /\ WaitersHoldNot'
  BY <1>2, <1>11 DEF RowCallBlocks
<1>12. ASSUME NEW c \in Callers, ReleaseAllLocks(c) PROVE CallersTyped' /\ WaitersHoldNot'
  BY <1>6, <1>12 DEF ReleaseAllLocks
<1>13. ASSUME NEW c \in Callers, NEW t \in Tables, NEW m \in Modes, UnlockTable(c, t, m)
       PROVE  CallersTyped' /\ WaitersHoldNot'
  BY <1>6, <1>13, <1>a DEF UnlockTable
<1> QED BY <1>3, <1>4, <1>5, <1>9, <1>10, <1>11, <1>12, <1>13 DEF LocksNext

\* Every step keeps the types.
LEMMA TypeStep == LocksTypeOK /\ [LocksNext]_lock_vars => LocksTypeOK'
<1> SUFFICES ASSUME LocksTypeOK, [LocksNext]_lock_vars PROVE LocksTypeOK'
  OBVIOUS
<1>1. /\ table_locks' \in [Tables -> Entries]
      /\ tableHolders' \in [Tables -> SUBSET (Callers \X Modes)]
  BY TableSteps, EntriesTyped DEF TableStep, TableGrant, TableRelease, LocksTypeOK
<1>2. /\ row_locks' \in [Rows -> Entries]
      /\ rowHolders' \in [Rows -> SUBSET (Callers \X Modes)]
  BY RowSteps, EntriesTyped DEF RowStep, RowGrant, RowRelease, LocksTypeOK
<1>3. row_mutex' \in Callers \cup {NoCaller}
  <2>1. ASSUME NEW c \in Callers, NEW r \in Rows, NEW m \in Modes,
               LockRow(c, r, m) \/ LockRowHangs(c, r, m) \/ UnlockRow(c, r, m)
        PROVE  row_mutex' \in {row_mutex, c}
    BY <2>1 DEF LockRow, LockRowHangs, UnlockRow
  <2>2. ASSUME NEW c \in Callers, NEW t \in Tables, NEW m \in Modes,
               \/ LockTable(c, t, m) \/ UnlockTable(c, t, m)
               \/ \E timed \in BOOLEAN : LockTableWaits(c, t, m, timed)
        PROVE  row_mutex' = row_mutex
    BY <2>2 DEF LockTable, GrantTable, UnlockTable, LockTableWaits
  <2>3. ASSUME NEW c \in Callers, \/ RowCallBlocks(c) \/ ReleaseAllLocks(c)
                                  \/ LockTableWakes(c) \/ LockTableTimesOut(c)
        PROVE  row_mutex' = row_mutex
    BY <2>3 DEF RowCallBlocks, ReleaseAllLocks, LockTableWakes, LockTableTimesOut, GrantTable
  <2>4. CASE UNCHANGED lock_vars
    BY <2>4 DEF lock_vars, LocksTypeOK
  <2>5. row_mutex \in Callers \cup {NoCaller}
    BY DEF LocksTypeOK
  <2> QED BY <2>1, <2>2, <2>3, <2>4, <2>5 DEF LocksNext
<1> QED BY <1>1, <1>2, <1>3, CallersStep DEF LocksTypeOK, CallersTyped, WaitersHoldNot

\* The initial state has the types.
LEMMA TypeInit == LocksInit => LocksTypeOK
<1> SUFFICES ASSUME LocksInit PROVE LocksTypeOK
  OBVIOUS
<1>1. NoEntry \in Entries
  BY DEF NoEntry, Entries, Modes
<1>2. ASSUME NEW c \in Callers PROVE ~InLockTable(c)
  BY DEF LocksInit, Running, InLockTable
<1> QED BY <1>1, <1>2 DEF LocksInit, LocksTypeOK

\* The variables always have their types.
LEMMA TypeInvariant == LocksSpec => []LocksTypeOK
BY TypeInit, TypeStep, PTL DEF LocksSpec
-----------------------------------------------------------------------------
(* Counts *)

\* The counts of a map are the numbers of its holders.
Counted(Things, locks, holders) ==
    \A x \in Things : IsFiniteSet(holders[x]) /\ locks[x].count = Cardinality(holders[x])

\* They stay so under a grant and under a release.
LEMMA CountedStep ==
    ASSUME NEW Things, NEW locks \in [Things -> Entries],
           NEW holders \in [Things -> SUBSET (Callers \X Modes)],
           NEW locksNext, NEW holdersNext,
           NEW c \in Callers, NEW x \in Things, NEW m \in Modes,
           Counted(Things, locks, holders),
           \/ Granting(locks, holders, locksNext, holdersNext, c, x, m)
           \/ Releasing(locks, holders, locksNext, holdersNext, c, x, m)
    PROVE  Counted(Things, locksNext, holdersNext)
<1> SUFFICES ASSUME NEW y \in Things
             PROVE  IsFiniteSet(holdersNext[y]) /\ locksNext[y].count = Cardinality(holdersNext[y])
  BY DEF Counted
<1>1. IsFiniteSet(holders[y]) /\ locks[y].count = Cardinality(holders[y])
  BY DEF Counted
<1>2. CASE y # x
  <2>1. locksNext[y] = locks[y] /\ holdersNext[y] = holders[y]
    BY <1>2 DEF Granting, Releasing
  <2> QED BY <2>1, <1>1
<1>3. CASE y = x /\ Granting(locks, holders, locksNext, holdersNext, c, x, m)
  <2>1. /\ locksNext[y] = Grant(locks[y], m)
        /\ holdersNext[y] = holders[y] \cup {<<c, m>>} /\ <<c, m>> \notin holders[y]
    BY <1>3 DEF Granting
  <2>2. /\ IsFiniteSet(holders[y] \cup {<<c, m>>})
        /\ Cardinality(holders[y] \cup {<<c, m>>}) = Cardinality(holders[y]) + 1
    BY <2>1, <1>1, FS_AddElement
  <2>3. Grant(locks[y], m).count = locks[y].count + 1
    BY GrantFacts
  <2> QED BY <2>1, <2>2, <2>3, <1>1
<1>4. CASE y = x /\ Releasing(locks, holders, locksNext, holdersNext, c, x, m)
  <2>1. /\ locksNext[y] = Release(locks[y])
        /\ holdersNext[y] = holders[y] \ {<<c, m>>} /\ <<c, m>> \in holders[y]
    BY <1>4 DEF Releasing
  <2>2. locks[y].count # 0
    BY <2>1, <1>1, FS_EmptySet
  <2>3. /\ IsFiniteSet(holders[y] \ {<<c, m>>})
        /\ Cardinality(holders[y] \ {<<c, m>>}) = Cardinality(holders[y]) - 1
    BY <2>1, <1>1, FS_RemoveElement
  <2>4. Release(locks[y]).count = locks[y].count - 1
    BY <2>2, ReleaseFacts
  <2> QED BY <2>1, <2>3, <2>4, <1>1
<1> QED BY <1>2, <1>3, <1>4

\* Every step keeps the counts of both maps.
LEMMA CountsStep == LocksTypeOK /\ EntriesCountHolders /\ [LocksNext]_lock_vars => EntriesCountHolders'
<1> SUFFICES ASSUME LocksTypeOK, EntriesCountHolders, [LocksNext]_lock_vars PROVE EntriesCountHolders'
  OBVIOUS
<1>1. Counted(Rows, row_locks, rowHolders) /\ Counted(Tables, table_locks, tableHolders)
  BY DEF EntriesCountHolders, Counted
<1>2. Counted(Tables, table_locks', tableHolders')
  <2>1. CASE UNCHANGED <<table_locks, tableHolders>>
    BY <2>1, <1>1
  <2>2. ASSUME NEW c \in Callers, NEW t \in Tables, NEW m \in Modes,
               TableGrant(c, t, m) \/ TableRelease(c, t, m)
        PROVE  Counted(Tables, table_locks', tableHolders')
    BY <2>2, <1>1, CountedStep DEF TableGrant, TableRelease, LocksTypeOK
  <2> QED BY <2>1, <2>2, TableSteps DEF TableStep
<1>3. Counted(Rows, row_locks', rowHolders')
  <2>1. CASE UNCHANGED <<row_locks, rowHolders>>
    BY <2>1, <1>1
  <2>2. ASSUME NEW c \in Callers, NEW r \in Rows, NEW m \in Modes,
               RowGrant(c, r, m) \/ RowRelease(c, r, m)
        PROVE  Counted(Rows, row_locks', rowHolders')
    BY <2>2, <1>1, CountedStep DEF RowGrant, RowRelease, LocksTypeOK
  <2> QED BY <2>1, <2>2, RowSteps DEF RowStep
<1> QED BY <1>2, <1>3 DEF EntriesCountHolders, Counted

\* At first nobody holds anything.
LEMMA CountsInit == LocksInit => EntriesCountHolders
BY FS_EmptySet DEF LocksInit, EntriesCountHolders, NoEntry

\* Whatever callers lock, unlock, wait for and give up, the count of every entry is
\* the number of its holders.
THEOREM CountsCorrect == LocksSpec => []LocksAreCounted
<1>1. LocksInit => LocksAreCounted
  BY TypeInit, CountsInit DEF LocksAreCounted
<1>2. LocksAreCounted /\ [LocksNext]_lock_vars => LocksAreCounted'
  BY TypeStep, CountsStep DEF LocksAreCounted
<1> QED BY <1>1, <1>2, PTL DEF LocksSpec
-----------------------------------------------------------------------------
(* Modes *)

\* After a grant an entry has the mode of before, if it had holders, and the new mode
\* if it had none.
LEMMA GrantedTable ==
    ASSUME LocksTypeOK, EntriesCountHolders, NEW c \in Callers, NEW t \in Tables, NEW m \in Modes,
           TableGrant(c, t, m)
    PROVE  /\ table_locks' = [table_locks EXCEPT ![t] = Grant(@, m)]
           /\ tableHolders' = [tableHolders EXCEPT ![t] = @ \cup {<<c, m>>}]
           /\ \/ tableHolders[t] = {} /\ Grant(table_locks[t], m).mode = m
              \/ /\ Grant(table_locks[t], m).mode = table_locks[t].mode
                 /\ ModesCompatible(table_locks[t].mode, m)
<1>1. table_locks[t] \in Entries
  BY DEF LocksTypeOK
<1>2. table_locks[t].count = 0 => tableHolders[t] = {}
  BY FS_EmptySet DEF EntriesCountHolders
<1>3. Grant(table_locks[t], m).mode = IF table_locks[t].count = 0 THEN m ELSE table_locks[t].mode
  BY <1>1, GrantFacts
<1> QED BY <1>2, <1>3 DEF TableGrant, Granting, TableGrantable

\* After a release an entry has the mode of before, unless nobody holds it any more.
LEMMA Released ==
    ASSUME NEW e \in Entries, NEW S, NEW h \in S, IsFiniteSet(S), e.count = Cardinality(S)
    PROVE  S \ {h} = {} \/ Release(e).mode = e.mode
<1>1. IsFiniteSet(S \ {h}) /\ Cardinality(S \ {h}) = Cardinality(S) - 1
  BY FS_RemoveElement
<1>2. Cardinality(S \ {h}) \in Nat /\ e.count \in Nat
  BY <1>1, FS_CardinalityType DEF Entries
<1>3. CASE e.count <= 1
  <2>1. Cardinality(S \ {h}) = 0
    BY <1>1, <1>2, <1>3
  <2> QED BY <1>1, <2>1, FS_EmptySet
<1>4. CASE e.count > 1
  BY <1>4, ReleaseFacts
<1> QED BY <1>2, <1>3, <1>4

\* Two modes that both go with the mode e, other than IS, go with each other.
LEMMA CompatibleTogether ==
    ASSUME NEW e \in Modes \ {"IS"}, NEW a \in Modes, NEW m \in Modes,
           a = e \/ ModesCompatible(e, a), ModesCompatible(e, m)
    PROVE  ModesCompatible(a, m) /\ ModesCompatible(m, a)
BY DEF Modes, ModesCompatible

\* The modes of the holders of a table stay related to the mode of its entry.
LEMMA TableInvStep ==
    LocksTypeOK /\ EntriesCountHolders /\ TableInv /\ [LocksNext]_lock_vars => TableInv'
<1> SUFFICES ASSUME LocksTypeOK, EntriesCountHolders, TableInv, [LocksNext]_lock_vars PROVE TableInv'
  OBVIOUS
<1>a. /\ table_locks \in [Tables -> Entries]
      /\ tableHolders \in [Tables -> SUBSET (Callers \X Modes)]
  BY DEF LocksTypeOK
<1> DEFINE Fits(e, H) ==
      /\ \A h \in H : h[2] = e \/ ModesCompatible(e, h[2])
      /\ e # "IS" => \A g, h \in H : g # h => ModesCompatible(g[2], h[2])
<1>b. \A t \in Tables : Fits(table_locks[t].mode, tableHolders[t])
  BY DEF TableInv, TableEntryFits, CompatibleUnlessOpenedInIS
<1>c. SUFFICES \A t \in Tables : Fits(table_locks'[t].mode, tableHolders'[t])
  BY DEF TableInv, TableEntryFits, CompatibleUnlessOpenedInIS
<1>1. CASE UNCHANGED <<table_locks, tableHolders>>
  BY <1>1, <1>b
<1>2. ASSUME NEW c \in Callers, NEW t \in Tables, NEW m \in Modes, TableGrant(c, t, m),
             NEW u \in Tables
      PROVE  Fits(table_locks'[u].mode, tableHolders'[u])
  <2>1. CASE u # t
    <3>1. table_locks'[u] = table_locks[u] /\ tableHolders'[u] = tableHolders[u]
      BY <1>2, <2>1, <1>a, GrantedTable
    <3> QED BY <3>1, <1>b
  <2>2. CASE u = t
    <3> DEFINE e == table_locks[t].mode
               H == tableHolders[t]
    <3>1. table_locks'[t].mode = Grant(table_locks[t], m).mode /\ tableHolders'[t] = H \cup {<<c, m>>}
      BY <1>2, <1>a, GrantedTable
    <3>2. CASE H = {} /\ Grant(table_locks[t], m).mode = m
      BY <2>2, <3>1, <3>2
    <3>3. CASE Grant(table_locks[t], m).mode = e /\ ModesCompatible(e, m)
      <4>1. e \in Modes /\ \A h \in H : h[2] \in Modes
        BY <1>a DEF Entries
      <4>2. Fits(e, H)
        BY <1>b
      <4>3. e # "IS" => \A h \in H : ModesCompatible(h[2], m) /\ ModesCompatible(m, h[2])
        BY <4>1, <4>2, <3>3, CompatibleTogether
      <4> HIDE DEF e, H
      <4>4. Fits(e, H \cup {<<c, m>>})
        BY <4>2, <4>3, <3>3
      <4> QED BY <2>2, <3>1, <3>3, <4>4
    <3> QED BY <3>2, <3>3, <1>2, GrantedTable
  <2> QED BY <2>1, <2>2
<1>3. ASSUME NEW c \in Callers, NEW t \in Tables, NEW m \in Modes, TableRelease(c, t, m),
             NEW u \in Tables
      PROVE  Fits(table_locks'[u].mode, tableHolders'[u])
  <2>1. CASE u # t
    <3>1. table_locks'[u] = table_locks[u] /\ tableHolders'[u] = tableHolders[u]
      BY <1>3, <2>1, <1>a DEF TableRelease, Releasing
    <3> QED BY <3>1, <1>b
  <2>2. CASE u = t
    <3>1. /\ table_locks'[t] = Release(table_locks[t])
          /\ tableHolders'[t] = tableHolders[t] \ {<<c, m>>} /\ <<c, m>> \in tableHolders[t]
      BY <1>3, <1>a DEF TableRelease, Releasing
    <3>2. tableHolders'[t] = {} \/ table_locks'[t].mode = table_locks[t].mode
      BY <3>1, <1>a, Released DEF EntriesCountHolders
    <3> QED BY <2>2, <3>1, <3>2, <1>b
  <2> QED BY <2>1, <2>2
<1> QED BY <1>1, <1>2, <1>3, TableSteps DEF TableStep

\* The holders of a row stay in the mode of its entry, and more than one only in S.
LEMMA RowInvStep == LocksTypeOK /\ EntriesCountHolders /\ RowInv /\ [LocksNext]_lock_vars => RowInv'
<1> SUFFICES ASSUME LocksTypeOK, EntriesCountHolders, RowInv, [LocksNext]_lock_vars PROVE RowInv'
  OBVIOUS
<1>a. /\ row_locks \in [Rows -> Entries]
      /\ rowHolders \in [Rows -> SUBSET (Callers \X Modes)]
  BY DEF LocksTypeOK
<1> DEFINE Fits(e, H) ==
      /\ \A h \in H : h[2] = e
      /\ \A g, h \in H : g # h => g[2] = "S" /\ h[2] = "S"
<1>b. \A r \in Rows : Fits(row_locks[r].mode, rowHolders[r])
  BY DEF RowInv, RowEntryFits, RowsSharedOnlyInS
<1>c. SUFFICES \A r \in Rows : Fits(row_locks'[r].mode, rowHolders'[r])
  BY DEF RowInv, RowEntryFits, RowsSharedOnlyInS
<1>1. CASE UNCHANGED <<row_locks, rowHolders>>
  BY <1>1, <1>b
<1>2. ASSUME NEW c \in Callers, NEW r \in Rows, NEW m \in Modes, RowGrant(c, r, m), NEW q \in Rows
      PROVE  Fits(row_locks'[q].mode, rowHolders'[q])
  <2>1. CASE q # r
    <3>1. row_locks'[q] = row_locks[q] /\ rowHolders'[q] = rowHolders[q]
      BY <1>2, <2>1, <1>a DEF RowGrant, Granting
    <3> QED BY <3>1, <1>b
  <2>2. CASE q = r
    <3>1. /\ row_locks'[r] = Grant(row_locks[r], m)
          /\ rowHolders'[r] = rowHolders[r] \cup {<<c, m>>}
      BY <1>2, <1>a DEF RowGrant, Granting
    <3>2. row_locks'[r].mode = IF row_locks[r].count = 0 THEN m ELSE row_locks[r].mode
      BY <3>1, <1>a, GrantFacts
    <3>3. row_locks[r].count = 0 => rowHolders[r] = {}
      BY FS_EmptySet DEF EntriesCountHolders
    <3>4. row_locks[r].count = 0 \/ (m = "S" /\ row_locks[r].mode = "S")
      BY <1>2 DEF RowGrant, RowGrantable
    <3> QED BY <2>2, <3>1, <3>2, <3>3, <3>4, <1>b
  <2> QED BY <2>1, <2>2
<1>3. ASSUME NEW c \in Callers, NEW r \in Rows, NEW m \in Modes, RowRelease(c, r, m), NEW q \in Rows
      PROVE  Fits(row_locks'[q].mode, rowHolders'[q])
  <2>1. CASE q # r
    <3>1. row_locks'[q] = row_locks[q] /\ rowHolders'[q] = rowHolders[q]
      BY <1>3, <2>1, <1>a DEF RowRelease, Releasing
    <3> QED BY <3>1, <1>b
  <2>2. CASE q = r
    <3>1. /\ row_locks'[r] = Release(row_locks[r])
          /\ rowHolders'[r] = rowHolders[r] \ {<<c, m>>} /\ <<c, m>> \in rowHolders[r]
      BY <1>3, <1>a DEF RowRelease, Releasing
    <3>2. rowHolders'[r] = {} \/ row_locks'[r].mode = row_locks[r].mode
      BY <3>1, <1>a, Released DEF EntriesCountHolders
    <3> QED BY <2>2, <3>1, <3>2, <1>b
  <2> QED BY <2>1, <2>2
<1> QED BY <1>1, <1>2, <1>3, RowSteps DEF RowStep

\* An X lock has no neighbour: no entry of another mode lets it in, and one of mode X
\* lets nothing in.
LEMMA XIsAlone == LocksTypeOK /\ TableInv => ExclusiveIsAlone
<1> SUFFICES ASSUME LocksTypeOK, TableInv, NEW t \in Tables, NEW h \in Callers \X Modes,
                    h \in tableHolders[t], h[2] = "X"
             PROVE  tableHolders[t] = {h}
  BY DEF ExclusiveIsAlone
<1>1. table_locks[t].mode \in Modes /\ \A g \in tableHolders[t] : g[2] \in Modes
  BY DEF LocksTypeOK, Entries
<1>2. \A a \in Modes : ~ModesCompatible(a, "X") /\ ~ModesCompatible("X", a)
  BY DEF Modes, ModesCompatible
<1>3. table_locks[t].mode = "X"
  BY <1>1, <1>2 DEF TableInv, TableEntryFits
<1>4. \A g \in tableHolders[t] : g = h
  BY <1>1, <1>2, <1>3 DEF TableInv, CompatibleUnlessOpenedInIS
<1> QED BY <1>4

\* Whatever callers do, holders of a table are compatible unless its entry was opened in
\* IS, X is alone, and a row is shared in S only, although an entry knows neither its
\* holders nor their modes.
THEOREM HoldersCorrect == LocksSpec => []HoldersAreCompatible
<1>1. LocksInit => TableInv /\ RowInv
  BY DEF LocksInit, TableInv, TableEntryFits, CompatibleUnlessOpenedInIS, RowInv, RowEntryFits, RowsSharedOnlyInS
<1>2. LocksAreCounted /\ TableInv /\ RowInv /\ [LocksNext]_lock_vars => (TableInv /\ RowInv)'
  BY TableInvStep, RowInvStep DEF LocksAreCounted
<1>3. LocksSpec => [](TableInv /\ RowInv)
  BY <1>1, <1>2, CountsCorrect, PTL DEF LocksSpec
<1>4. LocksAreCounted /\ TableInv /\ RowInv => HoldersAreCompatible
  BY XIsAlone DEF LocksAreCounted, TableInv, RowInv, HoldersAreCompatible
<1> QED BY <1>3, <1>4, CountsCorrect, PTL
-----------------------------------------------------------------------------
(* Waiting *)

\* A request that is not granted stays so until a release: a grant changes the mode
\* of no entry that has holders.
LEMMA StaysRefused ==
    ASSUME LocksTypeOK, NEW c \in Callers, NEW t \in Tables, NEW m \in Modes, TableGrant(c, t, m),
           NEW u \in Tables, NEW n \in Modes, ~TableGrantable(table_locks[u], n)
    PROVE  ~TableGrantable(table_locks'[u], n)
<1>1. table_locks' = [table_locks EXCEPT ![t] = Grant(@, m)] /\ table_locks \in [Tables -> Entries]
  BY DEF TableGrant, Granting, LocksTypeOK
<1>2. CASE u # t
  BY <1>1, <1>2
<1>3. CASE u = t
  <2>1. table_locks[t] \in Entries /\ table_locks'[t] = Grant(table_locks[t], m)
    BY <1>1
  <2>2. table_locks[t].count \in Nat /\ table_locks[t].count # 0
    BY <2>1, <1>3 DEF TableGrantable, Entries
  <2>3. table_locks'[t].mode = table_locks[t].mode /\ table_locks'[t].count # 0
    BY <2>1, <2>2, GrantFacts
  <2> QED BY <2>3, <1>3 DEF TableGrantable
<1> QED BY <1>2, <1>3

\* No step leaves a caller asleep over a lock it could be granted.
LEMMA NoSleepStep == LocksTypeOK /\ NoSleepOverGrantable /\ [LocksNext]_lock_vars => NoSleepOverGrantable'
<1> SUFFICES ASSUME LocksTypeOK, NoSleepOverGrantable, [LocksNext]_lock_vars,
                    NEW d \in Callers, caller'[d].at = "asleep"
             PROVE  ~TableGrantable(table_locks'[caller'[d].table], caller'[d].mode)
  BY DEF NoSleepOverGrantable
<1>a. caller \in [Callers -> {Running, Hangs} \cup Requests]
  BY DEF LocksTypeOK
<1>b. Running.at # "asleep" /\ Hangs.at # "asleep"
  BY DEF Running, Hangs
<1>1. ASSUME caller'[d] = caller[d],
             \/ table_locks' = table_locks
             \/ \E c \in Callers, t \in Tables, m \in Modes : TableGrant(c, t, m)
      PROVE  ~TableGrantable(table_locks'[caller'[d].table], caller'[d].mode)
  <2>1. caller[d].at = "asleep" /\ caller[d] \in Requests
    BY <1>1, CallerFacts
  <2>2. caller[d].table \in Tables /\ caller[d].mode \in Modes
    BY <2>1 DEF Requests
  <2>3. ~TableGrantable(table_locks[caller[d].table], caller[d].mode)
    BY <2>1 DEF NoSleepOverGrantable
  <2> QED BY <1>1, <2>2, <2>3, StaysRefused
<1>2. ASSUME caller' = NotifyAll PROVE FALSE
  BY <1>2, NotifyFacts
<1>3. ASSUME NEW c \in Callers, NEW r \in Rows, NEW m \in Modes,
             LockRow(c, r, m) \/ LockRowHangs(c, r, m) \/ UnlockRow(c, r, m)
      PROVE  ~TableGrantable(table_locks'[caller'[d].table], caller'[d].mode)
  <2>1. table_locks' = table_locks /\ (caller' = caller \/ caller' = [caller EXCEPT ![c] = Hangs])
    BY <1>3 DEF LockRow, LockRowHangs, UnlockRow
  <2>2. caller'[d] = caller[d]
    BY <2>1, <1>a, <1>b
  <2> QED BY <2>1, <2>2, <1>1
<1>4. ASSUME NEW c \in Callers, RowCallBlocks(c)
      PROVE  ~TableGrantable(table_locks'[caller'[d].table], caller'[d].mode)
  <2>1. table_locks' = table_locks /\ caller' = [caller EXCEPT ![c] = Hangs]
    BY <1>4 DEF RowCallBlocks
  <2>2. caller'[d] = caller[d]
    BY <2>1, <1>a, <1>b
  <2> QED BY <2>1, <2>2, <1>1
<1>5. ASSUME NEW c \in Callers, NEW t \in Tables, NEW m \in Modes, LockTable(c, t, m)
      PROVE  ~TableGrantable(table_locks'[caller'[d].table], caller'[d].mode)
  BY <1>1, <1>5 DEF LockTable, GrantTable, TableGrant, Granting
<1>6. ASSUME NEW c \in Callers, NEW t \in Tables, NEW m \in Modes, NEW timed \in BOOLEAN,
             LockTableWaits(c, t, m, timed)
      PROVE  ~TableGrantable(table_locks'[caller'[d].table], caller'[d].mode)
  <2> DEFINE s == Sleeping(t, m, timed)
  <2>1. s.table = t /\ s.mode = m
    BY DEF Sleeping
  <2>2. /\ caller' = [caller EXCEPT ![c] = s] /\ table_locks' = table_locks
        /\ ~TableGrantable(table_locks[t], m)
    BY <1>6 DEF LockTableWaits
  <2> HIDE DEF s
  <2>3. CASE d = c
    BY <2>1, <2>2, <2>3, <1>a
  <2>4. CASE d # c
    BY <2>2, <2>4, <1>a, <1>1
  <2> QED BY <2>3, <2>4
<1>7. ASSUME NEW c \in Callers, LockTableWakes(c) \/ LockTableTimesOut(c)
      PROVE  ~TableGrantable(table_locks'[caller'[d].table], caller'[d].mode)
  <2>1. InLockTable(c) /\ caller[c] \in Requests
    BY <1>7, CallerFacts DEF LockTableWakes, LockTableTimesOut
  <2>2. \/ table_locks' = table_locks
        \/ \E t \in Tables, m \in Modes : TableGrant(c, t, m)
    <3>1. CASE TableGrantable(table_locks[caller[c].table], caller[c].mode)
      BY <1>7, <2>1, <3>1, WaiterGrant DEF LockTableWakes, LockTableTimesOut
    <3>2. CASE ~TableGrantable(table_locks[caller[c].table], caller[c].mode)
      BY <1>7, <3>2 DEF LockTableWakes, LockTableTimesOut
    <3> QED BY <3>1, <3>2
  <2>3. CASE caller' = [caller EXCEPT ![c] = Running]
    <3>1. caller'[d] = caller[d]
      BY <2>3, <1>a, <1>b
    <3> QED BY <3>1, <2>2, <1>1
  <2>4. CASE caller' # [caller EXCEPT ![c] = Running]
    <3> DEFINE s == [caller[c] EXCEPT !.at = "asleep"]
    <3>1. /\ caller' = [caller EXCEPT ![c] = s] /\ table_locks' = table_locks
          /\ ~TableGrantable(table_locks[caller[c].table], caller[c].mode)
      BY <1>7, <2>4 DEF LockTableWakes, LockTableTimesOut
    <3>2. s.table = caller[c].table /\ s.mode = caller[c].mode
      BY <2>1 DEF Requests
    <3> HIDE DEF s
    <3>3. CASE d = c
      BY <3>1, <3>2, <3>3, <1>a
    <3>4. CASE d # c
      BY <3>1, <3>4, <1>a, <1>1
    <3> QED BY <3>3, <3>4
  <2> QED BY <2>3, <2>4
<1>8. ASSUME NEW c \in Callers, NEW t \in Tables, NEW m \in Modes, UnlockTable(c, t, m) PROVE FALSE
  BY <1>2, <1>8 DEF UnlockTable
<1>9. ASSUME NEW c \in Callers, ReleaseAllLocks(c) PROVE FALSE
  BY <1>2, <1>9 DEF ReleaseAllLocks
<1>10. CASE UNCHANGED lock_vars
  BY <1>1, <1>10 DEF lock_vars
<1> QED BY <1>3, <1>4, <1>5, <1>6, <1>7, <1>8, <1>9, <1>10 DEF LocksNext

\* No caller sleeps over a table lock it could be granted: only a release makes a
\* refused request grantable, and a release wakes every sleeper.
THEOREM NoSleepCorrect == LocksSpec => []NoSleepOverGrantable
<1>1. LocksInit => NoSleepOverGrantable
  BY DEF LocksInit, NoSleepOverGrantable, Running
<1> QED BY <1>1, NoSleepStep, TypeInvariant, PTL DEF LocksSpec
=============================================================================
