-------------------------- MODULE TableRowsProofs --------------------------
(***************************************************************************)
(* Proofs about the rows of TableHeap's tables, for any tables, values,    *)
(* widths and page size and any number of statements: a scan finds the     *)
(* rows that the statements asked for, each as often as they did, the      *)
(* index of a table leads to the pages where its rows are, and a lookup    *)
(* through it answers what a scan would.                                   *)
(*                                                                         *)
(* The invariant (IRight) adds to the spines of TableHeapProofs that a     *)
(* table no statement mangled has the rows asked for, in pages without     *)
(* gaps, and that its index has under each key what a scan finds of it.    *)
(* Rows are counted, not listed: what a statement does to a table is said  *)
(* of the count of every set of rows (Hits).  Most of the module is about  *)
(* UPDATE, which goes through the pages it changes while it changes them.  *)
(***************************************************************************)
EXTENDS TableHeapProofs

-----------------------------------------------------------------------------
(* A record in the place of another.                                       *)

\* A place among others is a number.
LEMMA PlaceIsNat ==
    ASSUME NEW n, NEW k \in 1 .. n
    PROVE  k \in Nat
  OBVIOUS

\* It is one among more of them, too.
LEMMA PlaceFurther ==
    ASSUME NEW n \in Nat, NEW m \in Nat, n <= m, NEW k \in 1 .. n
    PROVE  k \in 1 .. m
  OBVIOUS

\* A sequence with another element at one place.
Replaced(c, i, e) == SubSeq(c, 1, i - 1) \o <<e>> \o SubSeq(c, i + 1, Len(c))

SameBut(y, c, i, e) ==
    Len(y) = Len(c) /\ \A j \in 1 .. Len(c) : y[j] = IF j = i THEN e ELSE c[j]

\* That is what putting an element in the place of another does.
LEMMA ReplacedIs ==
    ASSUME NEW V, NEW c \in Seq(V), NEW i \in 1 .. Len(c), NEW e \in V,
           NEW y, y = Replaced(c, i, e)
    PROVE  y \in Seq(V) /\ SameBut(y, c, i, e)
  <1> DEFINE n == Len(c)
             b == SubSeq(c, 1, i - 1)
             x == b \o <<e>>
             a == SubSeq(c, i + 1, n)
  <1>1. n \in Nat /\ i \in Nat /\ i >= 1 /\ i <= n
    OBVIOUS
  <1>2. b \in Seq(V) /\ Len(b) = i - 1 /\ \A k \in 1 .. i - 1 : b[k] = c[k]
    BY <1>1
  <1>3. a \in Seq(V) /\ Len(a) = n - i /\ \A k \in 1 .. n - i : a[k] = c[i + k]
    BY <1>1
  <1>4. x = Append(b, e)
    <2> HIDE DEF b
    <2> QED
      BY <1>2
  <1>5. y = x \o a
    BY DEF Replaced
  <1> HIDE DEF a, x, b, n
  <1>6. x \in Seq(V) /\ Len(x) = i /\ x[i] = e /\ \A k \in 1 .. i - 1 : x[k] = c[k]
    <2>1. /\ x \in Seq(V) /\ Len(x) = (i - 1) + 1 /\ x[(i - 1) + 1] = e
          /\ \A k \in 1 .. i - 1 : x[k] = b[k]
      BY <1>2, <1>4, AppendFacts
    <2>2. (i - 1) + 1 = i
      BY <1>1
    <2> QED
      BY <1>2, <2>1, <2>2
  <1>7. /\ y \in Seq(V) /\ Len(y) = i + (n - i) /\ \A k \in 1 .. i : y[k] = x[k]
        /\ \A k \in 1 .. n - i : y[i + k] = a[k]
    <2>1. /\ x \o a \in Seq(V) /\ Len(x \o a) = Len(x) + Len(a)
          /\ \A k \in 1 .. Len(x) : (x \o a)[k] = x[k]
      BY <1>3, <1>6, ConcatFacts, ZenonT(30)
    <2>2. \A k \in 1 .. Len(a) : (x \o a)[Len(x) + k] = a[k]
      BY <1>3, <1>6, ConcatFacts
    <2> QED
      BY <1>3, <1>5, <1>6, <2>1, <2>2
  <1>8. ASSUME NEW j \in 1 .. n
        PROVE  y[j] = IF j = i THEN e ELSE c[j]
    <2>1. CASE j <= i
      BY <1>1, <1>6, <1>7, <2>1
    <2>2. CASE j > i
      <3> DEFINE k == j - i
      <3>1. k \in 1 .. n - i /\ j = i + k /\ j # i
        BY <1>1, <2>2
      <3> HIDE DEF k
      <3> QED
        BY <1>3, <1>7, <3>1
    <2> QED
      BY <1>1, <2>1, <2>2
  <1>9. Len(y) = n
    BY <1>1, <1>7
  <1> QED
    BY <1>7, <1>8, <1>9 DEF n, SameBut

\* It differs from the sequence in that element.
LEMMA HitsReplaced ==
    ASSUME NEW V, NEW c \in Seq(V), NEW i \in 1 .. Len(c), NEW e, NEW S,
           NEW y, SameBut(y, c, i, e)
    PROVE  Hits(y, S) + One(c[i] \in S) = Hits(c, S) + One(e \in S)
  <1> DEFINE n == Len(c)
             g == [k \in 1 .. n |-> One(c[k] \in S)]
             f == [k \in 1 .. n |-> One(y[k] \in S)]
             h == [k \in 0 .. n |-> UpTo(c, S, k)]
             u == [k \in 0 .. n |-> UpTo(y, S, k)]
  <1>1. n \in Nat
    OBVIOUS
  <1>2. \A k \in 1 .. n : g[k] \in Nat /\ f[k] \in Nat
    BY DEF One
  <1>3. \A s : UpTo(s, S, 0) = 0
               /\ \A k \in 1 .. n : UpTo(s, S, k) = UpTo(s, S, k - 1) + One(s[k] \in S)
    <2> TAKE s
    <2>1. ASSUME NEW k \in 1 .. n
          PROVE  UpTo(s, S, k) = UpTo(s, S, k - 1) + One(s[k] \in S)
      <3>1. k - 1 \in Nat /\ (k - 1) + 1 = k
        BY <1>1
      <3>2. UpTo(s, S, (k - 1) + 1) = UpTo(s, S, k - 1) + One(s[(k - 1) + 1] \in S)
        BY <3>1, UpToFacts
      <3> QED
        BY <3>1, <3>2
    <2> QED
      BY <2>1, UpToFacts
  <1>4. /\ 0 \in 0 .. n /\ n \in 0 .. n
        /\ \A k \in 1 .. n : k \in 0 .. n /\ k - 1 \in 0 .. n
    BY <1>1
  <1>5. Adds(h, g, n) /\ Adds(u, f, n)
    BY <1>3, <1>4 DEF Adds
  <1>6. \A k \in 1 .. n : k # i => f[k] = g[k]
    BY DEF SameBut
  <1>7. /\ h[n] = Hits(c, S) /\ u[n] = Hits(y, S)
        /\ g[i] = One(c[i] \in S) /\ f[i] = One(e \in S) /\ i \in 1 .. n
    BY <1>4 DEF Hits, SameBut
  <1> HIDE DEF n, g, f, h, u
  <1>8. u[n] + g[i] = h[n] + f[i]
    <2>1. (\A k \in 1 .. n : g[k] \in Nat) /\ (\A k \in 1 .. n : f[k] \in Nat) /\ i \in 1 .. n
      BY <1>2, <1>7
    <2>2. Adds(h, g, n) /\ Adds(u, f, n)
      BY <1>5
    <2> QED
      BY SMTT(90), <1>1, <1>6, <2>1, <2>2, <2>2, AddsDiffer
  <1> QED
    BY <1>7, <1>8

-----------------------------------------------------------------------------
(* Sums over a set.                                                        *)

\* A sum, one member after the other.
LEMMA TotalSteps ==
    ASSUME NEW S, IsFiniteSet(S), NEW c, \A x \in S : c[x] \in Nat
    PROVE  \E g : /\ \A s \in SUBSET S : g[s] \in Nat
                  /\ \A s \in SUBSET S :
                        g[s] = IF s = {} THEN 0 ELSE c[Some(s)] + g[s \ {Some(s)}]
                  /\ Total(c, S) = g[S]
  <1> DEFINE Iter(f) == f = [s \in SUBSET S |->
                               IF s = {} THEN 0
                               ELSE c[CHOOSE x \in s : TRUE] + f[s \ {CHOOSE x \in s : TRUE}]]
             g == CHOOSE f : Iter(f)
             F == [x \in S \X Nat |-> c[x[1]] + x[2]]
             T == {s \in SUBSET S : g[s] \in Nat}
  <1>1. Total(c, S) = g[S]
    BY DEF Total, MapThenSumSet, MapThenFoldSet
  <1>2. \E f : Iter(f)
    <2>1. \A x \in S, z \in Nat : F[<<x, z>>] = c[x] + z
      OBVIOUS
    <2> HIDE DEF F
    <2>2. PICK f : FoldingSet(f, S, Nat, 0, F)
      <3>1. ASSUME NEW x \in S, NEW z \in Nat
            PROVE  F[<<x, z>>] \in Nat
        <4>1. F[<<x, z>>] = c[x] + z /\ c[x] \in Nat
          BY <2>1
        <4> QED
          BY <4>1
      <3>2. 0 \in Nat
        OBVIOUS
      <3> QED
        BY <3>1, <3>2, SetFoldIsThere
    <2>3. ASSUME NEW s \in SUBSET S, s # {}
          PROVE  F[<<Some(s), f[s \ {Some(s)}]>>] = c[Some(s)] + f[s \ {Some(s)}]
      <3>1. Some(s) \in S
        BY <2>3 DEF Some
      <3>2. f[s \ {Some(s)}] \in Nat
        BY <2>2 DEF FoldingSet
      <3> QED
        BY <3>1, <3>2, <2>1
    <2>4. f = [s \in SUBSET S |-> IF s = {} THEN 0 ELSE c[Some(s)] + f[s \ {Some(s)}]]
      BY <2>2, <2>3 DEF FoldingSet
    <2>5. Iter(f)
      BY <2>4 DEF Some
    <2> HIDE DEF Iter
    <2> QED
      BY <2>5
  <1>3. Iter(g)
    <2> HIDE DEF Iter
    <2> QED
      BY <1>2
  <1> HIDE DEF g
  <1>4. \A s \in SUBSET S : g[s] = IF s = {} THEN 0 ELSE c[Some(s)] + g[s \ {Some(s)}]
    BY <1>3 DEF Some
  <1> HIDE DEF Iter
  <1>5. ASSUME NEW U \in SUBSET S
        PROVE  g[U] \in Nat
    <2>1. IsFiniteSet(U)
      BY FS_Subset
    <2>2. {} \in T
      <3>1. {} \in SUBSET S
        OBVIOUS
      <3>2. \A s \in SUBSET S : s = {} => g[s] = 0
        BY <1>4
      <3>3. g[{}] = 0
        BY <3>1, <3>2
      <3> QED
        BY <3>1, <3>3
    <2>3. ASSUME NEW s \in SUBSET U, s # {}, s \ {Some(s)} \in T
          PROVE  s \in T
      <3>1. Some(s) \in S /\ s \in SUBSET S
        BY <2>3 DEF Some
      <3>2. g[s] = c[Some(s)] + g[s \ {Some(s)}] /\ c[Some(s)] \in Nat
        BY <3>1, <1>4, <2>3
      <3> QED
        BY <3>1, <3>2, <2>3
    <2> HIDE DEF T
    <2>4. U \in T
      BY <2>1, <2>2, <2>3, SetInduction
    <2> QED
      BY <2>4 DEF T
  <1> QED
    BY <1>1, <1>4, <1>5

\* One number more is counted once, if its place is in the set.
LEMMA TotalBump ==
    ASSUME NEW S, IsFiniteSet(S), NEW c, NEW b, NEW y, NEW a \in Nat,
           \A x \in S : c[x] \in Nat,
           \A x \in S : b[x] = IF x = y THEN c[x] + a ELSE c[x]
    PROVE  Total(b, S) = Total(c, S) + (IF y \in S THEN a ELSE 0)
  <1>1. \A x \in S : b[x] \in Nat
    OBVIOUS
  <1>2. PICK g : /\ \A s \in SUBSET S : g[s] \in Nat
                 /\ \A s \in SUBSET S :
                       g[s] = IF s = {} THEN 0 ELSE c[Some(s)] + g[s \ {Some(s)}]
                 /\ Total(c, S) = g[S]
    BY TotalSteps
  <1>3. PICK h : /\ \A s \in SUBSET S : h[s] \in Nat
                 /\ \A s \in SUBSET S :
                       h[s] = IF s = {} THEN 0 ELSE b[Some(s)] + h[s \ {Some(s)}]
                 /\ Total(b, S) = h[S]
    BY <1>1, TotalSteps
  <1> DEFINE T == {s \in SUBSET S : h[s] = g[s] + (IF y \in s THEN a ELSE 0)}
  <1>4. {} \in T
    <2>1. {} \in SUBSET S /\ y \notin {}
      OBVIOUS
    <2>2. \A s \in SUBSET S : s = {} => g[s] = 0 /\ h[s] = 0
      BY <1>2, <1>3
    <2>3. g[{}] = 0 /\ h[{}] = 0
      BY <2>1, <2>2
    <2> QED
      BY <2>1, <2>3
  <1>5. ASSUME NEW s \in SUBSET S, s # {}, s \ {Some(s)} \in T
        PROVE  s \in T
    <2> DEFINE x == Some(s)
               r == s \ {x}
    <2>1. x \in s /\ x \in S /\ r \in SUBSET S
      BY <1>5 DEF Some
    <2>2. /\ g[s] = c[x] + g[r] /\ h[s] = b[x] + h[r]
          /\ g[r] \in Nat /\ h[r] \in Nat /\ c[x] \in Nat
      BY <1>2, <1>3, <1>5, <2>1
    <2>3. h[r] = g[r] + (IF y \in r THEN a ELSE 0)
      BY <1>5
    <2>4. y \in s <=> x = y \/ y \in r
      BY <2>1
    <2>5. x # y \/ y \notin r
      OBVIOUS
    <2>6. b[x] = IF x = y THEN c[x] + a ELSE c[x]
      BY <2>1
    <2> HIDE DEF x, r
    <2>7. h[s] = g[s] + (IF y \in s THEN a ELSE 0)
      BY <2>2, <2>3, <2>4, <2>5, <2>6
    <2> QED
      BY <2>7
  <1> HIDE DEF T
  <1>6. S \in T
    BY <1>4, <1>5, SetInduction
  <1> QED
    BY <1>2, <1>3, <1>6 DEF T

\* The sum of nothing.
LEMMA TotalZero ==
    ASSUME NEW S, IsFiniteSet(S), NEW c, \A x \in S : c[x] = 0
    PROVE  Total(c, S) = 0
  <1>1. \A x \in S : c[x] \in Nat
    OBVIOUS
  <1>2. PICK g : /\ \A s \in SUBSET S : g[s] \in Nat
                 /\ \A s \in SUBSET S :
                       g[s] = IF s = {} THEN 0 ELSE c[Some(s)] + g[s \ {Some(s)}]
                 /\ Total(c, S) = g[S]
    BY <1>1, TotalSteps
  <1> DEFINE T == {s \in SUBSET S : g[s] = 0}
  <1>3. {} \in T
    <2>1. {} \in SUBSET S
      OBVIOUS
    <2>2. \A s \in SUBSET S : s = {} => g[s] = 0
      BY <1>2
    <2>3. g[{}] = 0
      BY <2>1, <2>2
    <2> QED
      BY <2>1, <2>3
  <1>4. ASSUME NEW s \in SUBSET S, s # {}, s \ {Some(s)} \in T
        PROVE  s \in T
    <2>1. Some(s) \in S
      BY <1>4 DEF Some
    <2>2. g[s] = c[Some(s)] + g[s \ {Some(s)}]
      BY <1>2, <1>4
    <2> QED
      BY <2>1, <2>2, <1>4
  <1> HIDE DEF T
  <1>5. S \in T
    BY <1>3, <1>4, SetInduction
  <1> QED
    BY <1>2, <1>5 DEF T

\* The sum of one number.
LEMMA TotalOne ==
    ASSUME NEW S, IsFiniteSet(S), NEW c, NEW y \in S, c[y] \in Nat,
           \A x \in S : x # y => c[x] = 0
    PROVE  Total(c, S) = c[y]
  <1> DEFINE z == [x \in S |-> 0]
             a == c[y]
  <1>1. a \in Nat
    OBVIOUS
  <1>2. Total(z, S) = 0
    BY TotalZero
  <1>3. \A x \in S : z[x] \in Nat /\ c[x] = IF x = y THEN z[x] + a ELSE z[x]
    OBVIOUS
  <1> HIDE DEF z, a
  <1>4. Total(c, S) = Total(z, S) + (IF y \in S THEN a ELSE 0)
    BY <1>1, <1>3, TotalBump
  <1> QED
    BY <1>1, <1>2, <1>4 DEF a

-----------------------------------------------------------------------------
(* How often each row is found.                                            *)

CountOf(s) ==
    FoldLeft(LAMBDA f, r : [f EXCEPT ![r] = @ + 1], [r \in Rows |-> 0], s)

\* What Scanned counts.
LEMMA CountIs ==
    ASSUME NEW s \in Seq(Rows)
    PROVE  CountOf(s) = [r \in Rows |-> Hits(s, {r})]
  <1> DEFINE n == Len(s)
             base == [r \in Rows |-> 0]
             Add(z, k) == [z EXCEPT ![s[k]] = @ + 1]
             Iter(f) == f = [q \in SUBSET (DOMAIN s) |->
                               IF q = {} THEN base
                               ELSE [f[q \ {Max(q)}] EXCEPT ![s[Max(q)]] = @ + 1]]
             g == CHOOSE f : Iter(f)
             F == [x \in Column \X (1 .. n) |-> Add(x[1], x[2])]
             H(k) == [r \in Rows |-> UpTo(s, {r}, k)]
             T == {k \in 0 .. n : g[1 .. k] = H(k)}
  <1>1. n \in Nat /\ DOMAIN s = 1 .. n /\ \A k \in 1 .. n : s[k] \in Rows
    OBVIOUS
  <1>2. CountOf(s) = g[DOMAIN s]
    BY DEF CountOf, FoldLeft, MapThenFoldSet
  <1>3. base \in Column
    BY DEF Column
  <1>4. ASSUME NEW k \in 1 .. n, NEW z \in Column
        PROVE  Add(z, k) \in Column
    BY <1>1 DEF Column
  <1>5. \A k \in 1 .. n : \A z \in Column : F[<<z, k>>] = Add(z, k)
    OBVIOUS
  <1> HIDE DEF Add, F, n, base
  <1>6. \E f : Iter(f)
    <2>1. \A k \in 1 .. n : \A z \in Column : F[<<z, k>>] \in Column
      BY <1>4, <1>5
    <2>2. PICK f : FoldIn(f, n, Column, base, F)
      BY <2>1, <1>1, <1>3, FoldGraph
    <2>3. ASSUME NEW q \in SUBSET (1 .. n), q # {}
          PROVE  F[<<f[q \ {Max(q)}], Max(q)>>] = Add(f[q \ {Max(q)}], Max(q))
      <3>1. Max(q) \in 1 .. n
        BY <1>1, <2>3, MaxIn
      <3>2. f[q \ {Max(q)}] \in Column
        BY <2>2 DEF FoldIn
      <3> QED
        BY <3>1, <3>2, <1>5
    <2>4. Iter(f)
      BY <2>2, <2>3, <1>1 DEF Add, FoldIn
    <2> HIDE DEF Iter
    <2> QED
      BY <2>4
  <1>7. Iter(g)
    <2> HIDE DEF Iter
    <2> QED
      BY <1>6
  <1> HIDE DEF g
  <1>8. \A q \in SUBSET (1 .. n) :
           g[q] = IF q = {} THEN base ELSE Add(g[q \ {Max(q)}], Max(q))
    BY <1>1, <1>7 DEF Add
  <1> HIDE DEF Iter
  <1>9. 0 \in T
    <2>1. g[1 .. 0] = base
      BY <1>1, <1>8, FoldPath
    <2>2. H(0) = base
      BY UpToFacts DEF base
    <2> HIDE DEF H
    <2> QED
      BY <1>1, <2>1, <2>2
  <1>10. ASSUME NEW k \in 0 .. n, k \in T, k < n
         PROVE  k + 1 \in T
    <2>1. k + 1 \in 1 .. n /\ (k + 1) - 1 = k /\ k + 1 \in 0 .. n /\ k \in Nat
      BY <1>1, <1>10
    <2>2. /\ 1 .. k + 1 \in SUBSET (1 .. n) /\ 1 .. k + 1 # {} /\ Max(1 .. k + 1) = k + 1
          /\ (1 .. k + 1) \ {k + 1} = 1 .. k
      BY <1>1, <2>1, FoldPath
    <2>3. g[1 .. k + 1] = Add(g[1 .. k], k + 1)
      BY <2>2, <1>8
    <2>4. g[1 .. k] = H(k)
      BY <1>10
    <2>5. \A r \in Rows : /\ UpTo(s, {r}, k + 1) = UpTo(s, {r}, k) + One(s[k + 1] \in {r})
                          /\ UpTo(s, {r}, k) \in Nat
      BY <2>1, UpToFacts
    <2>6. Add(H(k), k + 1) = H(k + 1)
      <3> DEFINE y == s[k + 1]
      <3>1. y \in Rows
        BY <1>1, <2>1
      <3>2. \A r \in Rows : H(k)[r] \in Nat /\ H(k + 1)[r] = IF r = y THEN H(k)[r] + 1 ELSE H(k)[r]
        BY <2>5 DEF One
      <3>3. H(k) = [r \in Rows |-> H(k)[r]] /\ H(k + 1) = [r \in Rows |-> H(k + 1)[r]]
        OBVIOUS
      <3>4. Add(H(k), k + 1) = [H(k) EXCEPT ![y] = @ + 1]
        BY DEF Add
      <3> HIDE DEF H, y
      <3> QED
        BY <3>1, <3>2, <3>3, <3>4
    <2> HIDE DEF H
    <2> QED
      BY <2>1, <2>3, <2>4, <2>6
  <1> HIDE DEF T, H
  <1>11. 0 .. n \subseteq T
    BY <1>1, <1>9, <1>10, InductionUpTo
  <1>12. n \in T
    BY <1>1, <1>11
  <1> QED
    BY <1>1, <1>2, <1>12 DEF T, H, Hits, n

\* The rows of a set are found as often as each of them together.
LEMMA TotalHits ==
    ASSUME NEW s \in Seq(Rows), NEW S \in SUBSET Rows
    PROVE  Total([r \in Rows |-> Hits(s, {r})], S) = Hits(s, S)
  <1> DEFINE n == Len(s)
             H(k) == [r \in Rows |-> UpTo(s, {r}, k)]
             T == {k \in 0 .. n : Total(H(k), S) = UpTo(s, S, k)}
  <1>1. n \in Nat /\ \A k \in 1 .. n : s[k] \in Rows
    OBVIOUS
  <1>2. IsFiniteSet(S)
    BY RowsFinite, FS_Subset
  <1> HIDE DEF n
  <1>3. 0 \in T
    <2> DEFINE c == H(0)
    <2>1. \A r \in S : c[r] = 0
      BY UpToFacts
    <2> HIDE DEF c
    <2>2. Total(c, S) = 0
      BY <1>2, <2>1, TotalZero
    <2> QED
      BY <1>1, <2>2, UpToFacts DEF c
  <1>4. ASSUME NEW k \in 0 .. n, k \in T, k < n
        PROVE  k + 1 \in T
    <2> DEFINE c == H(k)
               b == H(k + 1)
               y == s[k + 1]
    <2>1. k + 1 \in 0 .. n /\ k \in Nat /\ k + 1 \in 1 .. n
      BY <1>1, <1>4
    <2>2. \A r \in Rows : /\ UpTo(s, {r}, k + 1) = UpTo(s, {r}, k) + One(s[k + 1] \in {r})
                          /\ UpTo(s, {r}, k) \in Nat
      BY <2>1, UpToFacts
    <2>3. \A r \in S : c[r] \in Nat
      BY <2>2
    <2>4. \A r \in S : b[r] = IF r = y THEN c[r] + 1 ELSE c[r]
      BY <2>2 DEF One
    <2>5. Total(c, S) = UpTo(s, S, k)
      BY <1>4
    <2>6. UpTo(s, S, k + 1) = UpTo(s, S, k) + One(y \in S)
      BY <2>1, UpToFacts
    <2> HIDE DEF c, b, y
    <2>7. Total(b, S) = Total(c, S) + (IF y \in S THEN 1 ELSE 0)
      BY <1>2, <2>3, <2>4, TotalBump
    <2> QED
      BY <2>1, <2>5, <2>6, <2>7 DEF One, b
  <1> HIDE DEF T
  <1>5. 0 .. n \subseteq T
    BY <1>1, <1>3, <1>4, InductionUpTo
  <1>6. n \in T
    BY <1>1, <1>5
  <1> QED
    BY <1>6 DEF T, Hits, n

-----------------------------------------------------------------------------
(* An index that is right: under each key the rows that a scan finds.      *)

\* How many entries of a key delete takes away: as many as the scan finds, if
\* that is at most one.
LEMMA Removals ==
    ASSUME NEW d, NEW s, Good(d, s), NEW t \in Names, s[t] # <<>>, Tidied(d, s[t]),
           NEW where, NEW m,
           \A p \in m : \E k \in 1 .. Len(s[t]) : p = s[t][k],
           \A k \in 1 .. Len(s[t]) :
              s[t][k] \in m <=> Hits(d.pages[s[t][k]].cells, Taken(where)) # 0,
           NEW key \in Keys,
           NEW n, n = Hits(Scan(d, t), Keyed(key) \cap Taken(where)), n <= 1
    PROVE  Total(GoneWith(d, where, m, key), m) = n
  <1> DEFINE K == Keyed(key) \cap Taken(where)
             g == GoneWith(d, where, m, key)
             h(k) == Hits(d.pages[s[t][k]].cells, K)
  <1>1. /\ n = 0 <=> \A k \in 1 .. Len(s[t]) : h(k) = 0
        /\ \A k \in 1 .. Len(s[t]) : h(k) <= n
        /\ \A k, l \in 1 .. Len(s[t]) : k # l => h(k) + h(l) <= n
        /\ \A k \in 1 .. Len(s[t]) : h(k) \in Nat
        /\ n \in Nat
    <2>1. n = Hits(Scan(d, t), K)
      OBVIOUS
    <2> HIDE DEF K
    <2>2. FewIn(d, s[t], K, n)
      BY <2>1, ScanFew
    <2> QED
      BY <2>2 DEF FewIn
  <1>2. ASSUME NEW k \in 1 .. Len(s[t])
        PROVE  /\ s[t][k] \in m => g[s[t][k]] = h(k)
               /\ h(k) # 0 => s[t][k] \in m
    <2> DEFINE p == s[t][k]
               page == d.pages[p]
               c == Gone(d, p, where)
    <2>1. page.cells \in Seq(Cell(t)) /\ Tidy(page)
      BY DEF Good, Spine, Tidied
    <2>2. c = Only(Records(page), Matching(Records(page), where))
      BY DEF Gone
    <2>3. c \in Seq(AnyCell) /\ Hits(c, Keyed(key)) = Hits(page.cells, K)
      <3> HIDE DEF c, page
      <3>1. GoneAs(page, where, c, Keyed(key))
        BY <2>1, <2>2, GoneHits
      <3> QED
        BY <3>1 DEF GoneAs
    <2>4. Cardinality({i \in DOMAIN c : c[i].key = key}) = Hits(c, Keyed(key))
      <3>1. DOMAIN c = 1 .. Len(c) /\ \A i \in 1 .. Len(c) : c[i] \in AnyCell
        BY <2>3
      <3> HIDE DEF c
      <3>2. {i \in DOMAIN c : c[i].key = key} = {i \in 1 .. Len(c) : c[i] \in Keyed(key)}
        BY <3>1 DEF Keyed
      <3> QED
        BY <3>2 DEF Hits, UpTo
    <2>5. p \in m => g[p] = Cardinality({i \in DOMAIN c : c[i].key = key})
      BY DEF GoneWith
    <2>6. Hits(page.cells, K) <= Hits(page.cells, Taken(where))
      <3>1. K \subseteq Taken(where)
        OBVIOUS
      <3> HIDE DEF K, page
      <3> QED
        BY <2>1, <3>1, HitsLess
    <2>7. Hits(page.cells, Taken(where)) \in Nat /\ Hits(page.cells, K) \in Nat
      <3> HIDE DEF K, page
      <3> QED
        BY <2>1, HitsFacts
    <2>8. p \in m <=> Hits(page.cells, Taken(where)) # 0
      OBVIOUS
    <2> HIDE DEF c, g, K
    <2> QED
      BY <2>3, <2>4, <2>5, <2>6, <2>7, <2>8
  <1>3. IsFiniteSet(m)
    <2>1. m \subseteq 1 .. Len(d.pages)
      <3>1. \A k \in 1 .. Len(s[t]) : s[t][k] \in 1 .. Len(d.pages)
        BY SpineFacts
      <3> QED
        BY <3>1
    <2>2. Len(d.pages) \in Nat
      BY DbFields DEF Good
    <2>3. IsFiniteSet(1 .. Len(d.pages))
      BY <2>2, FS_Interval
    <2> QED
      BY <2>1, <2>3, FS_Subset
  <1> HIDE DEF g, h
  <1>4. CASE n = 0
    <2>1. \A p \in m : g[p] = 0
      <3> SUFFICES ASSUME NEW p \in m PROVE g[p] = 0
        OBVIOUS
      <3>1. PICK k \in 1 .. Len(s[t]) : p = s[t][k]
        OBVIOUS
      <3> QED
        BY <3>1, <1>1, <1>2, <1>4
    <2>2. Total(g, m) = 0
      BY <1>3, <2>1, TotalZero
    <2> QED
      BY <1>4, <2>2 DEF g
  <1>5. CASE n = 1
    <2>1. PICK k \in 1 .. Len(s[t]) : h(k) # 0
      BY <1>1, <1>5
    <2>2. s[t][k] \in m /\ g[s[t][k]] = 1 /\ h(k) = 1
      <3>1. h(k) \in Nat /\ h(k) <= 1
        BY <1>1, <1>5
      <3>2. h(k) = 1
        BY <2>1, <3>1
      <3> QED
        BY <2>1, <3>2, <1>2
    <2>3. \A p \in m : p # s[t][k] => g[p] = 0
      <3> SUFFICES ASSUME NEW p \in m, p # s[t][k] PROVE g[p] = 0
        OBVIOUS
      <3>1. PICK l \in 1 .. Len(s[t]) : p = s[t][l]
        OBVIOUS
      <3>2. h(k) + h(l) <= 1 /\ h(l) \in Nat
        BY <1>1, <1>5, <3>1
      <3>3. h(l) = 0
        BY <2>2, <3>2
      <3> QED
        BY <3>1, <3>3, <1>2
    <2>4. Total(g, m) = 1
      <3> DEFINE p == s[t][k]
      <3>1. p \in m /\ g[p] = 1 /\ g[p] \in Nat /\ \A q \in m : q # p => g[q] = 0
        BY <2>2, <2>3
      <3> HIDE DEF p
      <3>2. Total(g, m) = g[p]
        BY <1>3, <3>1, TotalOne
      <3> QED
        BY <3>1, <3>2
    <2> QED
      BY <1>5, <2>4 DEF g
  <1> QED
    BY <1>1, <1>4, <1>5

\* The entries of key k are right: none if a scan finds no row of the key; one if
\* it finds one row, with a page of the table that has a row of the key, and if
\* fresh with the row itself.
RightAt(d, sp, t, k, fresh) ==
    \/ Hits(Scan(d, t), Keyed(k)) = 0 /\ d.index[t][k] = <<>>
    \/ /\ Hits(Scan(d, t), Keyed(k)) = 1 /\ Len(d.index[t][k]) = 1
       /\ \E l \in 1 .. Len(sp) : /\ d.index[t][k][1].page = sp[l]
                                  /\ Hits(d.pages[sp[l]].cells, Keyed(k)) # 0
       /\ fresh => Hits(Scan(d, t), {d.index[t][k][1].row}) # 0

\* The types of the entries.
LEMMA IndexFacts ==
    ASSUME NEW d, NEW s, Good(d, s), NEW t \in Names, d.index[t] # None
    PROVE  /\ d.index[t] \in IndexType /\ HintsInto(d.index[t], t, Reach(d, s, t)) /\ t \in Tables
           /\ \A k \in Keys :
                 /\ d.index[t][k] \in Seq(Hint) /\ Len(d.index[t][k]) \in Nat
                 /\ \A i \in 1 .. Len(d.index[t][k]) :
                       /\ d.index[t][k][i].row \in Rows /\ d.index[t][k][i].row \in Keyed(k)
  <1>1. d.index[t] \in IndexType /\ HintsInto(d.index[t], t, Reach(d, s, t))
    BY DbFields DEF Good, Hints
  <1>2. ASSUME NEW k \in Keys
        PROVE  /\ d.index[t][k] \in Seq(Hint) /\ Len(d.index[t][k]) \in Nat
               /\ \A i \in 1 .. Len(d.index[t][k]) :
                       /\ d.index[t][k][i].row \in Rows /\ d.index[t][k][i].row \in Keyed(k)
    <2> DEFINE c == d.index[t][k]
    <2>1. c \in Seq(Hint) /\ \A i \in 1 .. Len(c) : c[i].row.key = k
      BY <1>1 DEF IndexType, HintsInto
    <2> HIDE DEF c
    <2>2. \A i \in 1 .. Len(c) : c[i] \in Hint
      BY <2>1
    <2>3. \A i \in 1 .. Len(c) : c[i].row \in Rows
      BY <2>2 DEF Hint
    <2>4. \A i \in 1 .. Len(c) : c[i].row \in Keyed(k)
      BY <2>1, <2>3 DEF Keyed, AnyCell
    <2> QED
      BY <2>1, <2>3, <2>4 DEF c
  <1> QED
    BY <1>1, <1>2 DEF HintsInto

\* An index that delete has taken as many entries from as rows is right.
LEMMA CutRight ==
    ASSUME NEW d, NEW s, Good(d, s), NEW t \in Names, s[t] # <<>>, Tidied(d, s[t]),
           NEW where, NEW e, Cut(d, s, e, t, where), d.index[t] # None,
           NEW k \in Keys, NEW fresh, RightAt(d, s[t], t, k, fresh),
           NEW x, x = Hits(Scan(d, t), Keyed(k) \cap Taken(where)),
           e.index[t][k] = SubSeq(d.index[t][k], x + 1, Len(d.index[t][k]))
    PROVE  RightAt(e, s[t], t, k, fresh)
  <1> DEFINE c == d.index[t][k]
             b == Scan(d, t)
             a == Scan(e, t)
             M == Taken(where)
             K == Keyed(k)
  <1>1. b \in Seq(Cell(t)) /\ c \in Seq(Hint) /\ \A i \in 1 .. Len(c) : c[i].row \in K
    BY ScanAdds, IndexFacts
  <1>2. /\ Hits(b, K) = Hits(b, K \cap M) + Hits(b, K \ M)
        /\ Hits(b, K \cap M) \in Nat /\ Hits(b, K \ M) \in Nat
    <2>1. b \in Seq(Cell(t))
      BY <1>1
    <2> HIDE DEF b, K, M
    <2>2. Split(b, K, M)
      BY <2>1, HitsSplit
    <2> QED
      BY <2>2 DEF Split
  <1>3. /\ \A S : Hits(a, S) = Hits(b, S \ M)
        /\ \A l \in 1 .. Len(s[t]) : \A S :
              Hits(e.pages[s[t][l]].cells, S) = Hits(d.pages[s[t][l]].cells, S \ M)
    BY DEF Cut
  <1>4. x = Hits(b, K \cap M)
    OBVIOUS
  <1>5. Hits(a, K) = Hits(b, K \ M)
    BY <1>3
  <1>6. CASE Hits(b, K) = 0 /\ c = <<>>
    <2>1. x = 0 /\ Hits(a, K) = 0
      <3> HIDE DEF a, b, K, M
      <3> QED
        BY <1>2, <1>4, <1>5, <1>6
    <2>2. SubSeq(c, x + 1, Len(c)) = <<>>
      <3>1. SubSeq(<<>>, 1, 0) = <<>>
        OBVIOUS
      <3> HIDE DEF c
      <3> QED
        BY <3>1, <2>1, <1>6
    <2> QED
      BY <2>1, <2>2 DEF RightAt
  <1>7. CASE Hits(b, K) = 1 /\ Len(c) = 1 /\ x = 1
    <2>1. Hits(a, K) = 0
      <3> HIDE DEF a, b, K, M
      <3> QED
        BY <1>2, <1>4, <1>5, <1>7
    <2>2. SubSeq(c, x + 1, Len(c)) = <<>>
      <3> HIDE DEF c
      <3>1. SubSeq(c, 2, 1) = <<>>
        BY <1>1
      <3> QED
        BY <3>1, <1>7
    <2> QED
      BY <2>1, <2>2 DEF RightAt
  <1>8. CASE /\ Hits(b, K) = 1 /\ Len(c) = 1 /\ x # 1
             /\ \E l \in 1 .. Len(s[t]) : /\ c[1].page = s[t][l]
                                          /\ Hits(d.pages[s[t][l]].cells, K) # 0
             /\ fresh => Hits(b, {c[1].row}) # 0
    <2>1. x = 0 /\ Hits(a, K) = 1
      <3> HIDE DEF a, b, K, M
      <3> QED
        BY <1>2, <1>4, <1>5, <1>8
    <2>2. SubSeq(c, x + 1, Len(c)) = c
      <3> HIDE DEF c
      <3>1. SubSeq(c, 1, Len(c)) = c
        BY <1>1
      <3>2. x + 1 = 1
        BY <2>1
      <3> QED
        BY <3>1, <3>2
    <2>3. PICK l \in 1 .. Len(s[t]) : c[1].page = s[t][l] /\ Hits(d.pages[s[t][l]].cells, K) # 0
      BY <1>8
    <2>4. Hits(e.pages[s[t][l]].cells, K) # 0
      <3> DEFINE p == d.pages[s[t][l]].cells
                 Q == K \cap M
      <3>1. p \in Seq(Cell(t))
        BY DEF Good, Spine
      <3>2. Hits(p, K) = Hits(p, Q) + Hits(p, K \ M)
        <4> HIDE DEF p, K, M
        <4>1. Split(p, K, M)
          BY <3>1, HitsSplit
        <4> QED
          BY <4>1 DEF Q, Split
      <3>3. Hits(p, Q) <= Hits(b, Q) /\ Hits(p, Q) \in Nat
        <4> HIDE DEF Q, b
        <4>1. FewIn(d, s[t], Q, Hits(Scan(d, t), Q))
          BY ScanFew
        <4> QED
          BY <4>1 DEF FewIn, b
      <3>4. Hits(p, Q) = 0
        <4> HIDE DEF p, b
        <4> QED
          BY <3>3, <2>1, <1>4
      <3>5. Hits(p, K) = Hits(p, K \ M)
        <4>1. Hits(p, K \ M) \in Nat
          <5> HIDE DEF p, K, M
          <5> QED
            BY <3>1, HitsFacts
        <4> HIDE DEF p, K, M, Q
        <4> QED
          BY <4>1, <3>2, <3>4
      <3>6. Hits(e.pages[s[t][l]].cells, K) = Hits(p, K \ M)
        BY <1>3
      <3> QED
        BY <3>5, <3>6, <2>3
    <2>5. fresh => Hits(a, {c[1].row}) # 0
      <3> DEFINE r == c[1].row
      <3> SUFFICES ASSUME fresh PROVE Hits(a, {r}) # 0
        OBVIOUS
      <3>1. r \in K
        <4>1. 1 \in 1 .. Len(c)
          BY <1>8
        <4> QED
          BY <4>1, <1>1
      <3> HIDE DEF r
      <3>2. r \notin M
        <4> SUFFICES ASSUME r \in M PROVE FALSE
          OBVIOUS
        <4> DEFINE Q == K \cap M
        <4>1. {r} \subseteq Q
          BY <3>1
        <4>2. Hits(b, {r}) <= Hits(b, Q)
          <5> HIDE DEF Q, b
          <5> QED
            BY <4>1, <1>1, HitsLess
        <4>3. Hits(b, {r}) \in Nat
          <5> HIDE DEF b
          <5> QED
            BY <1>1, HitsFacts
        <4>4. Hits(b, Q) = 0 /\ Hits(b, {r}) # 0
          BY <2>1, <1>8, <1>4 DEF r
        <4> HIDE DEF b, Q
        <4> QED
          BY <4>2, <4>3, <4>4
      <3>3. {r} \ M = {r}
        BY <3>2
      <3>4. Hits(a, {r}) = Hits(b, {r} \ M)
        BY <1>3
      <3>5. Hits(b, {r}) # 0
        BY <1>8 DEF r
      <3> QED
        BY <3>3, <3>4, <3>5
    <2>6. e.index[t][k] = c
      BY <2>2
    <2>7. /\ Hits(a, K) = 1 /\ Len(c) = 1
          /\ \E n \in 1 .. Len(s[t]) : /\ c[1].page = s[t][n]
                                       /\ Hits(e.pages[s[t][n]].cells, K) # 0
          /\ fresh => Hits(a, {c[1].row}) # 0
      BY <1>8, <2>1, <2>3, <2>4, <2>5
    <2> HIDE DEF c
    <2> QED
      BY <2>6, <2>7 DEF RightAt
  <1>9. \/ Hits(b, K) = 0 /\ c = <<>>
        \/ /\ Hits(b, K) = 1 /\ Len(c) = 1
           /\ \E l \in 1 .. Len(s[t]) : /\ c[1].page = s[t][l]
                                        /\ Hits(d.pages[s[t][l]].cells, K) # 0
           /\ fresh => Hits(b, {c[1].row}) # 0
    BY DEF RightAt
  <1> QED
    BY <1>6, <1>7, <1>8, <1>9

\* A row among others: one more of its own, and of every set it is in.
LEMMA PutRight ==
    ASSUME NEW d, NEW s, Good(d, s), NEW t \in Names, s[t] # <<>>, Tidied(d, s[t]),
           NEW r \in Rows, NEW e, NEW u, Put(d, s, e, u, t, r), d.index[t] # None,
           NEW k \in Keys, NEW fresh, RightAt(d, s[t], t, k, fresh),
           Hits(Scan(e, t), Keyed(k)) <= 1
    PROVE  RightAt(e, u[t], t, k, fresh)
  <1> DEFINE K == Keyed(k)
             a == Scan(d, t)
             b == Scan(e, t)
             n == Len(u[t])
             c == d.index[t][k]
             h == [row |-> r, page |-> u[t][n]]
  <1>1. /\ Good(e, u) /\ Grows(d, s, e, u, t) /\ u[t] # <<>> /\ Tidied(e, u[t])
        /\ \A l \in 1 .. Len(s[t]) : \A S :
              Hits(e.pages[s[t][l]].cells, S) >= Hits(d.pages[s[t][l]].cells, S)
        /\ Hits(e.pages[u[t][n]].cells, {r}) >= 1
        /\ \A S : Hits(b, S) = Hits(a, S) + One(r \in S)
        /\ e.index = Reindexed(d.index, t, r, u[t][n])
    BY DEF Put
  <1>2. /\ a \in Seq(Cell(t)) /\ b \in Seq(Cell(t)) /\ n \in 1 .. n /\ u[t][n] \in Nat
        /\ \A l \in 1 .. n : e.pages[u[t][l]].cells \in Seq(Cell(t))
        /\ \A l \in 1 .. Len(s[t]) : d.pages[s[t][l]].cells \in Seq(Cell(t))
    <2>1. n \in 1 .. n /\ u[t][n] \in Nat
      BY <1>1, SpineFacts
    <2>2. a \in Seq(Cell(t)) /\ b \in Seq(Cell(t))
      BY <1>1, ScanAdds
    <2>3. \A l \in 1 .. n : e.pages[u[t][l]].cells \in Seq(Cell(t))
      BY <1>1, TidyPages
    <2>4. \A l \in 1 .. Len(s[t]) : d.pages[s[t][l]].cells \in Seq(Cell(t))
      BY TidyPages
    <2> QED
      BY <2>1, <2>2, <2>3, <2>4
  <1>3. \A S : Hits(a, S) \in Nat /\ Hits(b, S) \in Nat
    <2> HIDE DEF a, b
    <2> QED
      BY <1>2, HitsFacts
  <1>4. /\ d.index[t] \in IndexType /\ c \in Seq(Hint)
        /\ \A i \in 1 .. Len(c) : c[i].row \in Rows /\ c[i].row \in K
    BY IndexFacts
  <1>5. /\ k # r.key => e.index[t][k] = c
        /\ k = r.key => e.index[t][k] = <<h>> \o c
    <2> DEFINE ix == d.index[t]
               new == WithRow(ix, r, u[t][n])
    <2>1. d.index \in [Names -> IndexType \cup {None}]
      BY DbFields DEF Good
    <2>2. e.index[t] = new
      BY <1>1, <2>1 DEF Reindexed
    <2>3. ix \in IndexType
      BY <1>4
    <2> HIDE DEF ix
    <2>4. (\A x \in Keys : x # r.key => new[x] = ix[x]) /\ new[r.key] = <<h>> \o ix[r.key]
      BY <1>2, <2>3, WithRowIs, SMTT(30)
    <2> HIDE DEF new
    <2> QED
      BY <2>2, <2>4 DEF ix
  <1>6. r \in K <=> k = r.key
    BY DEF Keyed, AnyCell
  <1>7. Hits(b, K) = Hits(a, K) + One(r \in K)
    BY <1>1
  <1>8. CASE k = r.key
    <2>1. Hits(a, K) = 0 /\ Hits(b, K) = 1
      <3>1. One(r \in K) = 1
        BY <1>6, <1>8 DEF One
      <3>2. Hits(a, K) \in Nat /\ Hits(b, K) \in Nat /\ Hits(b, K) <= 1
        BY <1>3
      <3> HIDE DEF a, b, K
      <3> QED
        BY <1>7, <3>1, <3>2
    <2>2. c = <<>>
      BY <2>1 DEF RightAt
    <2>3. e.index[t][k] = <<h>>
      BY <1>5, <1>8, <2>2
    <2>4. Hits(e.pages[u[t][n]].cells, K) # 0
      <3> DEFINE p == e.pages[u[t][n]].cells
      <3>1. p \in Seq(Cell(t)) /\ {r} \subseteq K
        BY <1>2, <1>6, <1>8
      <3>4. Hits(p, {r}) >= 1
        BY <1>1
      <3> HIDE DEF p, K
      <3>2. Hits(p, {r}) <= Hits(p, K)
        BY <3>1, HitsLess
      <3>3. Hits(p, {r}) \in Nat /\ Hits(p, K) \in Nat
        BY <3>1, HitsFacts
      <3>5. Hits(p, K) # 0
        BY <3>2, <3>3, <3>4
      <3> QED
        BY <3>5 DEF p
    <2>5. Hits(b, {r}) # 0
      <3>1. Hits(b, {r}) = Hits(a, {r}) + 1
        BY <1>1 DEF One
      <3> HIDE DEF a, b
      <3> QED
        BY <3>1, <1>3
    <2>6. Len(<<h>>) = 1 /\ <<h>>[1].page = u[t][n] /\ <<h>>[1].row = r
      OBVIOUS
    <2> HIDE DEF h
    <2> QED
      BY <1>2, <2>1, <2>3, <2>4, <2>5, <2>6 DEF RightAt
  <1>9. CASE k # r.key
    <2>1. Hits(b, K) = Hits(a, K)
      <3>1. One(r \in K) = 0
        BY <1>6, <1>9 DEF One
      <3> HIDE DEF a, b, K
      <3> QED
        BY <3>1, <1>7, <1>3
    <2>2. e.index[t][k] = c
      BY <1>5, <1>9
    <2>3. ASSUME NEW l \in 1 .. Len(s[t]), Hits(d.pages[s[t][l]].cells, K) # 0
          PROVE  l \in 1 .. Len(u[t]) /\ u[t][l] = s[t][l]
                 /\ Hits(e.pages[u[t][l]].cells, K) # 0
      <3> DEFINE p == d.pages[s[t][l]].cells
                 q == e.pages[s[t][l]].cells
      <3>1. l \in 1 .. Len(u[t]) /\ u[t][l] = s[t][l]
        <4>1. Len(s[t]) \in Nat /\ Len(u[t]) \in Nat
          BY <1>1, SpineFacts
        <4> QED
          BY <4>1, <1>1 DEF Grows
      <3>2. p \in Seq(Cell(t)) /\ q \in Seq(Cell(t))
        BY <1>2, <3>1
      <3>3. Hits(q, K) >= Hits(p, K) /\ Hits(p, K) # 0
        BY <1>1, <2>3
      <3>4. Hits(q, K) # 0
        <4> HIDE DEF p, q, K
        <4>1. Hits(p, K) \in Nat /\ Hits(q, K) \in Nat
          BY <3>2, HitsFacts
        <4> QED
          BY <3>3, <4>1
      <3> QED
        BY <3>1, <3>4
    <2>4. \A S : Hits(a, S) # 0 => Hits(b, S) # 0
      <3> SUFFICES ASSUME NEW S, Hits(a, S) # 0 PROVE Hits(b, S) # 0
        OBVIOUS
      <3>1. Hits(b, S) = Hits(a, S) + One(r \in S) /\ One(r \in S) \in Nat
        BY <1>1 DEF One
      <3> HIDE DEF a, b
      <3> QED
        BY <3>1, <1>3
    <2>5. CASE Hits(a, K) = 0 /\ c = <<>>
      BY <2>1, <2>2, <2>5 DEF RightAt
    <2>6. CASE /\ Hits(a, K) = 1 /\ Len(c) = 1
               /\ \E l \in 1 .. Len(s[t]) : /\ c[1].page = s[t][l]
                                            /\ Hits(d.pages[s[t][l]].cells, K) # 0
               /\ fresh => Hits(a, {c[1].row}) # 0
      <3>1. /\ Hits(b, K) = 1 /\ Len(c) = 1
            /\ \E l \in 1 .. Len(u[t]) : /\ c[1].page = u[t][l]
                                         /\ Hits(e.pages[u[t][l]].cells, K) # 0
            /\ fresh => Hits(b, {c[1].row}) # 0
        <4>1. PICK l \in 1 .. Len(s[t]) : /\ c[1].page = s[t][l]
                                          /\ Hits(d.pages[s[t][l]].cells, K) # 0
          BY <2>6
        <4>2. fresh => Hits(b, {c[1].row}) # 0
          BY <2>4, <2>6
        <4> QED
          BY <2>1, <2>3, <2>6, <4>1, <4>2
      <3> HIDE DEF c
      <3> QED
        BY <2>2, <3>1 DEF RightAt
    <2> QED
      BY <2>5, <2>6 DEF RightAt
  <1> QED
    BY <1>8, <1>9

\* Nor does an insert that throws make an index wrong.
LEMMA AlikeRight ==
    ASSUME NEW d, NEW s, Good(d, s), NEW t \in Names, NEW e, NEW u, Alike(d, s, e, u, t),
           NEW k \in Keys, NEW fresh, RightAt(d, s[t], t, k, fresh)
    PROVE  RightAt(e, u[t], t, k, fresh)
  <1> DEFINE K == Keyed(k)
             a == Scan(d, t)
             b == Scan(e, t)
             c == d.index[t][k]
  <1>1. /\ Good(e, u) /\ Grows(d, s, e, u, t)
        /\ \A l \in 1 .. Len(s[t]) : e.pages[s[t][l]].cells = d.pages[s[t][l]].cells
        /\ \A S : Hits(b, S) = Hits(a, S)
        /\ e.index[t][k] = c
    BY DEF Alike
  <1>2. \A l \in 1 .. Len(s[t]) : l \in 1 .. Len(u[t]) /\ u[t][l] = s[t][l]
    <2>1. Len(s[t]) \in Nat /\ Len(u[t]) \in Nat
      BY <1>1, SpineFacts
    <2> QED
      BY <2>1, <1>1 DEF Grows
  <1>3. Hits(b, K) = Hits(a, K) /\ \A r : Hits(b, {r}) = Hits(a, {r})
    BY <1>1
  <1>4. \A l \in 1 .. Len(s[t]) : Hits(d.pages[s[t][l]].cells, K) # 0
                                  => Hits(e.pages[u[t][l]].cells, K) # 0
    BY <1>1, <1>2
  <1> HIDE DEF c
  <1>5. CASE Hits(a, K) = 0 /\ c = <<>>
    BY <1>1, <1>3, <1>5 DEF RightAt
  <1>6. CASE /\ Hits(a, K) = 1 /\ Len(c) = 1
             /\ \E l \in 1 .. Len(s[t]) : /\ c[1].page = s[t][l]
                                          /\ Hits(d.pages[s[t][l]].cells, K) # 0
             /\ fresh => Hits(a, {c[1].row}) # 0
    <2>1. \E l \in 1 .. Len(u[t]) : /\ c[1].page = u[t][l]
                                    /\ Hits(e.pages[u[t][l]].cells, K) # 0
      BY <1>2, <1>4, <1>6
    <2> QED
      BY <1>1, <1>3, <1>6, <2>1 DEF RightAt
  <1> QED
    BY <1>5, <1>6 DEF RightAt, c

\* An index in the place of another.
LEMMA WithIndexAt ==
    ASSUME NEW d \in DbType, NEW t \in Names, NEW ix, NEW e, e = WithIndex(d, t, ix)
    PROVE  e.index[t] = ix
  <1>1. d = [dir |-> d.dir, pages |-> d.pages, index |-> d.index]
        /\ d.index \in [Names -> IndexType \cup {None}]
    BY DbFields
  <1> DEFINE index == d.index
  <1>2. e = [d EXCEPT !.index = [index EXCEPT ![t] = ix]]
    BY DEF WithIndex
  <1>3. [index EXCEPT ![t] = ix][t] = ix
    BY <1>1
  <1> HIDE DEF index
  <1>4. e.index = [index EXCEPT ![t] = ix]
    BY <1>1, <1>2
  <1> QED
    BY <1>3, <1>4

\* Where every key has its rows' entries it keeps them when rows are deleted.
LEMMA DeletedRight ==
    ASSUME NEW d, NEW s, Good(d, s), NEW t, Exists(d, t), Tidied(d, s[t]),
           NEW where, where.on = "key" => where.is \in Keys, d.index[t] # None,
           NEW fresh, \A k \in Keys : RightAt(d, s[t], t, k, fresh),
           NEW e, e = Deleted(d, t, where)
    PROVE  /\ Cut(d, s, e, t, where)
           /\ \A k \in Keys : RightAt(e, s[t], t, k, fresh)
  <1>1. t \in Names /\ s[t] # <<>>
    BY EntryFacts
  <1>2. \A k \in Keys : Hits(Scan(d, t), Keyed(k)) <= 1
    <2> SUFFICES ASSUME NEW k \in Keys PROVE Hits(Scan(d, t), Keyed(k)) <= 1
      OBVIOUS
    <2>1. Hits(Scan(d, t), Keyed(k)) = 0 \/ Hits(Scan(d, t), Keyed(k)) = 1
      BY DEF RightAt
    <2> QED
      BY <2>1
  <1>3. Cut(d, s, e, t, where) /\ Shortened(d, s, e, t, where)
    <2>1. where.on = "key" => where.is \in Keys /\ Hits(Scan(d, t), Keyed(where.is)) <= 1
      BY <1>2
    <2> QED
      BY <2>1, DeletedCuts
  <1>4. PICK m : /\ e.index = Fitting(d, t, where, m).index
                 /\ \A p \in m : \E k \in 1 .. Len(s[t]) : p = s[t][k]
                 /\ \A k \in 1 .. Len(s[t]) :
                       s[t][k] \in m <=> Hits(d.pages[s[t][k]].cells, Taken(where)) # 0
    BY <1>3 DEF Shortened
  <1>5. e.index[t] = Fewer(d, t, where, m)
    <2> DEFINE ix == Fewer(d, t, where, m)
               x == WithIndex(d, t, ix)
    <2>1. e.index = x.index
      BY <1>4 DEF Fitting
    <2>2. d \in DbType
      BY DEF Good
    <2> HIDE DEF ix
    <2>3. x.index[t] = ix
      BY <1>1, <2>2, WithIndexAt
    <2> QED
      BY <2>1, <2>3 DEF ix
  <1>6. ASSUME NEW k \in Keys
        PROVE  RightAt(e, s[t], t, k, fresh)
    <2> DEFINE M == Taken(where)
               K == Keyed(k)
               x == Hits(Scan(d, t), K \cap M)
               b == Scan(d, t)
    <2>1. x <= 1
      <3>1. b \in Seq(Cell(t)) /\ K \cap M \subseteq K
        BY <1>1, ScanAdds
      <3>2. Hits(b, K) <= 1
        BY <1>2
      <3> DEFINE P == K \cap M
      <3> HIDE DEF b, K, P
      <3>3. Hits(b, P) <= Hits(b, K)
        BY <3>1, HitsLess DEF P
      <3>4. Hits(b, P) \in Nat /\ Hits(b, K) \in Nat
        BY <3>1, HitsFacts
      <3>5. Hits(b, P) <= 1
        BY <3>2, <3>3, <3>4
      <3> QED
        BY <3>5 DEF P, b
    <2>2. x = Hits(Scan(d, t), Keyed(k) \cap Taken(where))
      OBVIOUS
    <2> HIDE DEF x
    <2>3. Total(GoneWith(d, where, m, k), m) = x
      BY <1>1, <1>4, <2>1, <2>2, Removals
    <2>4. e.index[t][k] = SubSeq(d.index[t][k], x + 1, Len(d.index[t][k]))
      BY <1>5, <2>3 DEF Fewer
    <2>5. RightAt(d, s[t], t, k, fresh)
      OBVIOUS
    <2> QED
      BY <1>1, <1>3, <2>2, <2>4, <2>5, CutRight
  <1> QED
    BY <1>3, <1>6

-----------------------------------------------------------------------------
(* One turn of update's loop.                                              *)

\* What UPDATE makes of a row, and the rows it does not leave as they are.
ToBe(r, set, where) == IF Matches(r, where) THEN Changed(r, set) ELSE r

Stirred(set, where) == {r \in AnyCell : ToBe(r, set, where) # r}

\* To do it twice changes nothing more.
LEMMA ToBeTwice ==
    ASSUME NEW r \in Rows, NEW set \in Sets, NEW where
    PROVE  /\ ToBe(r, set, where) \in Rows /\ r \in AnyCell
           /\ ToBe(ToBe(r, set, where), set, where) = ToBe(r, set, where)
           /\ ToBe(r, set, where) \notin Stirred(set, where)
  <1>1. Changed(r, set) \in Rows
    BY ChangedIs
  <1>2. Changed(Changed(r, set), set) = Changed(r, set)
    BY DEF Changed
  <1>3. ToBe(ToBe(r, set, where), set, where) = ToBe(r, set, where)
    BY <1>2 DEF ToBe
  <1> QED
    BY <1>1, <1>3 DEF ToBe, Stirred, AnyCell

\* A page of a spine, all of whose records are there to be read.
SpinePage(d, t, p) ==
    LET page == d.pages[p]
    IN /\ p \in 1 .. Len(d.pages) /\ p \in Nat /\ d \in DbType
       /\ page \in PageType /\ PageOK(page) /\ page.cells \in Seq(Cell(t))
       /\ Len(page.cells) \in Nat /\ page.count = Len(page.cells)
       /\ \A i \in 1 .. Len(page.cells) :
             page.cells[i] \in Rows /\ Readable(page.cells[i])

\* The pages of a spine are such pages.
LEMMA SpinePageIs ==
    ASSUME NEW d, NEW s, Good(d, s), NEW t \in Tables, Tidied(d, s[t]),
           NEW l \in 1 .. Len(s[t]), NEW p, p = s[t][l]
    PROVE  SpinePage(d, t, p)
  <1> DEFINE page == d.pages[p]
  <1>1. p \in 1 .. Len(d.pages) /\ p \in Nat /\ d \in DbType
    BY SpineFacts DEF Good, Names
  <1>2. page \in PageType /\ PageOK(page)
    BY <1>1, DbFields DEF Good, LinksOK
  <1>3. page.cells \in Seq(Cell(t))
    BY DEF Good, Spine, Names
  <1>4. Tidy(page)
    BY DEF Tidied
  <1> HIDE DEF page
  <1>5. Len(page.cells) \in Nat /\ page.count = Len(page.cells)
    BY <1>3, <1>4 DEF Tidy
  <1>6. ASSUME NEW i \in 1 .. Len(page.cells)
        PROVE  page.cells[i] \in Rows /\ Readable(page.cells[i])
    <2>1. Readable(page.cells[i]) /\ page.cells[i] \in Cell(t)
      BY <1>3, <1>4 DEF Tidy
    <2> QED
      BY <2>1 DEF Readable, Cell
  <1> QED
    BY <1>1, <1>2, <1>3, <1>5, <1>6 DEF SpinePage, page

\* A row of the same width in the place of another.
LEMMA InPlaceSame ==
    ASSUME NEW page \in PageType, NEW V, page.cells \in Seq(V),
           NEW i \in 1 .. Len(page.cells), NEW old, NEW row \in V,
           Need(old) \in Nat, Need(row) = Need(old),
           NEW new, new = InPlace(page, i, old, row)
    PROVE  /\ SameBut(new.cells, page.cells, i, row) /\ new.count = page.count
           /\ page.cells[i] = row => new = page
  <1> DEFINE c == page.cells
             g == [n \in 1 .. Need(old) - Need(row) |-> Gap]
             b == SubSeq(c, 1, i - 1) \o <<row>>
             a == SubSeq(c, i + 1, Len(c))
             z == b \o g \o a
             y == Replaced(c, i, row)
  <1>1. g = <<>>
    BY DEF g
  <1>2. new = [page EXCEPT !.cells = z]
    BY DEF InPlace
  <1>3. b \in Seq(V)
    <2>1. SubSeq(c, 1, i - 1) \in Seq(V)
      OBVIOUS
    <2> QED
      BY <2>1
  <1>4. y = b \o a
    BY DEF Replaced
  <1> HIDE DEF g, b, a
  <1>5. b \o g = b
    BY <1>1, <1>3
  <1>6. z = y
    BY <1>4, <1>5
  <1> HIDE DEF y, z
  <1>7. y \in Seq(V) /\ SameBut(y, c, i, row)
    <2> HIDE DEF c
    <2>1. c \in Seq(V) /\ i \in 1 .. Len(c) /\ y = Replaced(c, i, row)
      BY DEF c, y
    <2> QED
      BY <2>1, ReplacedIs
  <1>8. new.cells = y /\ new.count = page.count
    BY <1>2, <1>6, PageIs
  <1>9. ASSUME c[i] = row
        PROVE  new = page
    <2>1. y = c
      BY <1>7, <1>9 DEF SameBut
    <2> QED
      BY <1>2, <1>6, <2>1, PageIs
  <1> QED
    BY <1>7, <1>8, <1>9

\* A page is written as it is.
LEMMA WithPageSame ==
    ASSUME NEW d \in DbType, NEW p \in 1 .. Len(d.pages), NEW page, page = d.pages[p]
    PROVE  WithPage(d, p, page) = d
  <1> DEFINE e == WithPage(d, p, page)
  <1>1. page \in PageType
    BY DbFields
  <1>2. e = WithPage(d, p, page)
    OBVIOUS
  <1> HIDE DEF e
  <1>3. /\ e \in DbType /\ e.dir = d.dir /\ e.index = d.index
        /\ Len(e.pages) = Len(d.pages) /\ e.pages[p] = page
        /\ \A q \in 1 .. Len(d.pages) : q # p => e.pages[q] = d.pages[q]
    BY <1>1, <1>2, WithPageIs
  <1>4. e.pages = d.pages
    <2>1. e.pages \in Seq(PageType) /\ d.pages \in Seq(PageType)
      BY <1>3, DbFields
    <2>2. \A q \in 1 .. Len(d.pages) : e.pages[q] = d.pages[q]
      BY <1>3
    <2> QED
      BY <1>3, <2>1, <2>2
  <1>5. /\ e = [dir |-> e.dir, pages |-> e.pages, index |-> e.index]
        /\ d = [dir |-> d.dir, pages |-> d.pages, index |-> d.index]
    BY <1>3, DbFields
  <1> QED
    BY <1>2, <1>3, <1>4, <1>5

\* A row that stays as it is is passed over.
LEMMA IdleTurn ==
    ASSUME NEW d, NEW t, NEW p, SpinePage(d, t, p), NEW set \in Sets, NEW where,
           NEW at \in 1 .. Len(d.pages[p].cells),
           d.pages[p].cells[at] \notin Stirred(set, where),
           NEW z, z = Walk(d, p, at, No)
    PROVE  Visited(z, t, set, where) = Walk(d, p, at + 1, No)
  <1> DEFINE page == d.pages[p]
             old == page.cells[at]
             new == Changed(old, set)
             e == UpdateIndexes(d, t, new, old, p)
             f == Deleted(e, t, where)
             y == Visited(z, t, set, where)
  <1>1. /\ p \in 1 .. Len(d.pages) /\ d \in DbType /\ page \in PageType
        /\ page.cells \in Seq(Cell(t)) /\ Len(page.cells) \in Nat /\ at \in Nat
        /\ old \in Rows /\ old \in Cell(t) /\ old \in AnyCell
    BY DEF SpinePage, AnyCell
  <1>2. Need(old) \in Nat
    BY <1>1, NeedFacts
  <1>3. Matches(old, where) => new = old
    BY <1>1 DEF Stirred, ToBe
  <1>4. TurnEnds(d, p, at, t, where, old, new, e, f, y)
    <2>1. /\ old = d.pages[p].cells[at] /\ new = Changed(old, set) /\ at \in Nat
          /\ e = UpdateIndexes(d, t, new, old, p) /\ f = Deleted(e, t, where)
          /\ y = Visited(z, t, set, where)
      BY <1>1
    <2> HIDE DEF page, old, new, e, f, y
    <2> QED
      BY <2>1, VisitedAs
  <1>5. CASE ~ Matches(old, where)
    <2> HIDE DEF old, new, e, f, y
    <2> QED
      BY <1>4, <1>5 DEF TurnEnds, y
  <1>6. CASE Matches(old, where)
    <2>1. new = old /\ e = d
      BY <1>3, <1>6 DEF UpdateIndexes
    <2>2. at \in 1 .. Len(page.cells) /\ page.cells[at] = old
      OBVIOUS
    <2> HIDE DEF page, old, new, e, f, y
    <2>3. Need(new) <= Need(old) /\ at + 1 + Need(old) - Need(new) = at + 1
      BY <1>1, <1>2, <2>1
    <2>4. y = Walk(WithPage(d, p, InPlace(d.pages[p], at, old, old)), p,
                   at + 1 + Need(old) - Need(new), No)
      BY <1>4, <1>6, <2>1, <2>3 DEF TurnEnds
    <2>5. InPlace(page, at, old, old) = page
      BY <1>1, <1>2, <2>2, InPlaceSame
    <2>6. WithPage(d, p, page) = d
      BY <1>1, WithPageSame DEF page
    <2> QED
      BY <2>3, <2>4, <2>5, <2>6 DEF page, y
  <1> QED
    BY <1>5, <1>6

\* Another page in the place of one of a spine.
Paged(d, s, e, t, p, page) ==
    /\ Good(e, s) /\ Grows(d, s, e, s, t) /\ Tidied(e, s[t])
    /\ e.index = d.index
    /\ Len(e.pages) = Len(d.pages) /\ e.pages[p] = page
    /\ \A q \in 1 .. Len(d.pages) : q # p => e.pages[q] = d.pages[q]

\* A page that could be there is put there.
LEMMA PagedIs ==
    ASSUME NEW d, NEW s, Good(d, s), NEW t \in Tables, Tidied(d, s[t]),
           NEW l \in 1 .. Len(s[t]), NEW p, p = s[t][l],
           NEW page \in PageType, PageOK(page), page.next = d.pages[p].next,
           page.cells \in Seq(Cell(t)), Tidy(page), NEW e, e = WithPage(d, p, page)
    PROVE  Paged(d, s, e, t, p, page)
  <1>1. t \in Names /\ d \in DbType /\ p \in 1 .. Len(d.pages)
    BY SpineFacts DEF Good, Names
  <1>2. /\ e \in DbType /\ e.dir = d.dir /\ e.index = d.index
        /\ Len(e.pages) = Len(d.pages) /\ e.pages[p] = page
        /\ \A q \in 1 .. Len(d.pages) : q # p => e.pages[q] = d.pages[q]
    <2>1. d \in DbType /\ p \in 1 .. Len(d.pages)
      BY <1>1
    <2> QED
      <3>1. e = WithPage(d, p, page) /\ page \in PageType
        OBVIOUS
      <3> QED
        BY ONLY <2>1, <3>1, WithPageIs
  <1>3. Reworked(d, s, e, t)
    <2>1. Hints(e.index[t], t, Reach(d, s, t))
      BY <1>1, <1>2 DEF Good
    <2>2. ASSUME NEW q \in 1 .. Len(d.pages)
          PROVE  \/ e.pages[q] = d.pages[q]
                 \/ /\ \E k \in 1 .. Len(s[t]) : q = s[t][k]
                    /\ PageOK(e.pages[q])
                    /\ e.pages[q].next = d.pages[q].next
                    /\ e.pages[q].cells \in Seq(Cell(t))
      BY <1>2
    <2> QED
      BY <1>2, <2>1, <2>2 DEF Reworked
  <1>4. Good(e, s) /\ Grows(d, s, e, s, t)
    BY <1>1, <1>3, ReworkedGood
  <1>5. Tidied(e, s[t])
    <2> SUFFICES ASSUME NEW k \in 1 .. Len(s[t])
                 PROVE  Tidy(e.pages[s[t][k]])
      BY DEF Tidied
    <2>1. Tidy(d.pages[s[t][k]]) /\ s[t][k] \in 1 .. Len(d.pages)
      BY <1>1, SpineFacts DEF Tidied
    <2> QED
      BY <1>2, <2>1
  <1> QED
    BY <1>2, <1>4, <1>5 DEF Paged

\* A page of a spine with a row of the same width in place of another.
Overwritten(page, t, at, row, pg) ==
    /\ pg \in PageType /\ PageOK(pg) /\ pg.next = page.next
    /\ pg.cells \in Seq(Cell(t)) /\ Tidy(pg)
    /\ SameBut(pg.cells, page.cells, at, row) /\ pg.count = page.count

\* It could be there.
LEMMA OverwrittenIs ==
    ASSUME NEW t \in Tables, NEW page \in PageType, PageOK(page),
           page.cells \in Seq(Cell(t)), Tidy(page),
           NEW at \in 1 .. Len(page.cells), NEW old, old = page.cells[at],
           NEW row \in Rows, Need(row) = Need(old), NEW pg, pg = InPlace(page, at, old, row)
    PROVE  Overwritten(page, t, at, row, pg)
  <1>1. Readable(old) /\ old \in Cell(t) /\ row \in Cell(t)
    BY DEF Tidy, Cell
  <1>2. Need(old) \in Nat /\ Need(row) <= Need(old)
    <2>1. Need(old) \in Nat
      BY <1>1, CellFacts, NeedFacts
    <2> QED
      BY <2>1
  <1>3. pg \in PageType /\ PageOK(pg) /\ pg.next = page.next /\ pg.cells \in Seq(Cell(t))
    BY <1>1, <1>2, InPlaceIs
  <1>4. SameBut(pg.cells, page.cells, at, row) /\ pg.count = page.count
    BY <1>1, <1>2, InPlaceSame
  <1>5. Readable(row)
    BY <1>1, NeedFacts DEF Readable
  <1>6. Tidy(pg)
    BY <1>4, <1>5 DEF Tidy, SameBut
  <1> QED
    BY <1>3, <1>4, <1>6 DEF Overwritten

\* A row of the same width was written at a place of a page.
Wrote(d, s, e, t, p, at, row) ==
    /\ Good(e, s) /\ Grows(d, s, e, s, t) /\ Tidied(e, s[t])
    /\ Len(e.pages) = Len(d.pages)
    /\ \A q \in 1 .. Len(d.pages) : q # p => e.pages[q] = d.pages[q]
    /\ e.pages[p].count = d.pages[p].count
    /\ SameBut(e.pages[p].cells, d.pages[p].cells, at, row)

\* A turn of update that finds a row that keeps its width.
Evenly(d, t, p, page, at, old, new, i, pg, e) ==
    /\ page = d.pages[p] /\ at \in 1 .. Len(page.cells) /\ old = page.cells[at]
    /\ new \in Rows /\ Need(new) = Need(old)
    /\ i = UpdateIndexes(d, t, new, old, p) /\ pg = InPlace(page, at, old, new)
    /\ e = WithPage(i, p, pg)

SameIndex(e, i) == e.index = i.index

\* It writes the row.
LEMMA WroteOver ==
    ASSUME NEW d, NEW s, Good(d, s), NEW t \in Tables, Tidied(d, s[t]),
           NEW l \in 1 .. Len(s[t]), NEW p, p = s[t][l],
           NEW page, NEW at, NEW old, NEW new, NEW i, NEW pg, NEW e,
           Evenly(d, t, p, page, at, old, new, i, pg, e)
    PROVE  Wrote(d, s, e, t, p, at, new) /\ SameIndex(e, i)
  <1>1. SpinePage(d, t, p) /\ t \in Names /\ p \in Nat
    <2>1. SpinePage(d, t, p)
      BY SpinePageIs
    <2> QED
      BY <2>1 DEF Names, SpinePage
  <1>2. page = d.pages[p] /\ at \in 1 .. Len(page.cells) /\ old = page.cells[at]
        /\ new \in Rows /\ Need(new) = Need(old) /\ pg = InPlace(page, at, old, new)
    BY DEF Evenly
  <1>3. page \in PageType /\ PageOK(page) /\ page.cells \in Seq(Cell(t)) /\ Tidy(page)
        /\ old \in Rows
    BY <1>1, <1>2 DEF SpinePage, Tidy
  <1>4. Overwritten(page, t, at, new, pg)
    BY <1>2, <1>3, OverwrittenIs
  <1>5. Good(i, s) /\ Grows(d, s, i, s, t) /\ i.pages = d.pages
    <2>1. i = UpdateIndexes(d, t, new, old, p)
      BY DEF Evenly
    <2>2. \E n \in 1 .. Len(s[t]) : p = s[t][n]
      OBVIOUS
    <2>3. new \in Rows /\ old \in Rows /\ p \in Nat
      BY <1>1, <1>2, <1>3
    <2> QED
      BY <2>1, <2>2, <2>3, UpdateIndexesGood
  <1>6. Tidied(i, s[t])
    BY <1>5 DEF Tidied
  <1>7. pg \in PageType /\ PageOK(pg) /\ pg.next = i.pages[p].next
        /\ pg.cells \in Seq(Cell(t)) /\ Tidy(pg)
    BY <1>2, <1>4, <1>5 DEF Overwritten
  <1>8. Paged(i, s, e, t, p, pg)
    <2>1. e = WithPage(i, p, pg)
      BY DEF Evenly
    <2> QED
      BY <1>5, <1>6, <1>7, <2>1, PagedIs
  <1>9. Good(e, s) /\ Grows(i, s, e, s, t)
    BY <1>8 DEF Paged
  <1>10. Grows(d, s, e, s, t)
    BY <1>1, <1>5, <1>9, GrowsMore
  <1>11. /\ Tidied(e, s[t]) /\ e.index = i.index
         /\ Len(e.pages) = Len(d.pages) /\ e.pages[p] = pg
         /\ \A q \in 1 .. Len(d.pages) : q # p => e.pages[q] = d.pages[q]
    BY <1>5, <1>8 DEF Paged
  <1>12. e.pages[p].count = d.pages[p].count
         /\ SameBut(e.pages[p].cells, d.pages[p].cells, at, new)
    BY <1>2, <1>4, <1>11 DEF Overwritten
  <1> QED
    BY <1>9, <1>10, <1>11, <1>12 DEF Wrote, SameIndex

\* The rows that UPDATE makes a row of S of.
Before(S, set, where) == {r \in AnyCell : ToBe(r, set, where) \in S}

-----------------------------------------------------------------------------
(* A table in the middle of an UPDATE.                                     *)

\* No row of a table is put wrongly in its index, if there is one.
IndexRight(d, s, t, fresh) ==
    d.index[t] # None => \A k \in Keys : RightAt(d, s[t], t, k, fresh)

\* UPDATE has changed d to e: some of the rows it has to change became what
\* they are to be, and no other row is to be changed now.
Partway(d, s, e, u, t, set, where, fresh) ==
    /\ Good(e, u) /\ Grows(d, s, e, u, t) /\ u[t] # <<>> /\ Tidied(e, u[t])
    /\ \A S : Hits(Scan(e, t), Before(S, set, where)) = Hits(Scan(d, t), Before(S, set, where))
    /\ \A S : S \subseteq Stirred(set, where) => Hits(Scan(e, t), S) <= Hits(Scan(d, t), S)
    /\ Hits(Scan(e, t), Taken(where)) <= Hits(Scan(d, t), Taken(where))
    /\ \A k \in 1 .. Len(u[t]) :
          Hits(e.pages[u[t][k]].cells, Stirred(set, where)) # 0 =>
             /\ k <= Len(s[t])
             /\ Hits(d.pages[s[t][k]].cells, Stirred(set, where)) # 0
    /\ IndexRight(d, s, t, fresh) => IndexRight(e, u, t, fresh)
    /\ NoneStays(d, e, t)

\* Before it has done anything it is there.
LEMMA PartwayNot ==
    ASSUME NEW d, NEW s, Good(d, s), NEW t \in Names, s[t] # <<>>, Tidied(d, s[t]),
           NEW set, NEW where, NEW fresh
    PROVE  Partway(d, s, d, s, t, set, where, fresh)
  <1>1. Grows(d, s, d, s, t) /\ NoneStays(d, d, t)
    BY GrowsNot DEF NoneStays
  <1>2. \A S : Hits(Scan(d, t), S) \in Nat
    <2>1. Scan(d, t) \in Seq(Cell(t))
      BY ScanAdds
    <2> QED
      BY <2>1, HitsFacts
  <1>3. \A S : Hits(Scan(d, t), S) <= Hits(Scan(d, t), S)
    <2> SUFFICES ASSUME NEW S PROVE Hits(Scan(d, t), S) <= Hits(Scan(d, t), S)
      OBVIOUS
    <2> DEFINE n == Hits(Scan(d, t), S)
    <2>1. n \in Nat
      BY <1>2
    <2> HIDE DEF n
    <2>2. n <= n
      BY <2>1
    <2> QED
      BY <2>2 DEF n
  <1>4. \A k \in 1 .. Len(s[t]) : k <= Len(s[t])
    <2>1. Len(s[t]) \in Nat
      BY SpineFacts
    <2> QED
      BY <2>1
  <1> QED
    BY <1>1, <1>3, <1>4 DEF Partway

\* One part of the way after another.
LEMMA PartwayMore ==
    ASSUME NEW d, NEW s, Good(d, s), NEW t \in Names, s[t] # <<>>, Tidied(d, s[t]),
           NEW set, NEW where, NEW fresh,
           NEW e, NEW u, Partway(d, s, e, u, t, set, where, fresh),
           NEW f, NEW v, Partway(e, u, f, v, t, set, where, fresh)
    PROVE  Partway(d, s, f, v, t, set, where, fresh)
  <1> DEFINE a == Scan(d, t)
             b == Scan(e, t)
             c == Scan(f, t)
             X == Stirred(set, where)
             M == Taken(where)
  <1>1. /\ Good(e, u) /\ Grows(d, s, e, u, t) /\ u[t] # <<>> /\ Tidied(e, u[t])
        /\ NoneStays(d, e, t)
        /\ IndexRight(d, s, t, fresh) => IndexRight(e, u, t, fresh)
    BY DEF Partway
  <1>2. /\ Good(f, v) /\ Grows(e, u, f, v, t) /\ v[t] # <<>> /\ Tidied(f, v[t])
        /\ NoneStays(e, f, t)
        /\ IndexRight(e, u, t, fresh) => IndexRight(f, v, t, fresh)
    BY DEF Partway
  <1>3. \A S : Hits(c, Before(S, set, where)) = Hits(a, Before(S, set, where))
    BY DEF Partway
  <1>4. \A S : Hits(a, S) \in Nat /\ Hits(b, S) \in Nat /\ Hits(c, S) \in Nat
    <2>1. a \in Seq(Cell(t)) /\ b \in Seq(Cell(t)) /\ c \in Seq(Cell(t))
      BY <1>1, <1>2, ScanAdds
    <2> HIDE DEF a, b, c
    <2> QED
      BY <2>1, HitsFacts
  <1>5. \A S : Hits(c, S) <= Hits(b, S) /\ Hits(b, S) <= Hits(a, S) => Hits(c, S) <= Hits(a, S)
    <2> SUFFICES ASSUME NEW S, Hits(c, S) <= Hits(b, S), Hits(b, S) <= Hits(a, S)
                 PROVE  Hits(c, S) <= Hits(a, S)
      OBVIOUS
    <2> DEFINE x == Hits(a, S)
               y == Hits(b, S)
               z == Hits(c, S)
    <2>1. x \in Nat /\ y \in Nat /\ z \in Nat /\ z <= y /\ y <= x
      BY <1>4
    <2> HIDE DEF x, y, z
    <2>2. z <= x
      BY <2>1
    <2> QED
      BY <2>2 DEF x, z
  <1>6. /\ \A S : S \subseteq X => Hits(c, S) <= Hits(a, S)
        /\ Hits(c, M) <= Hits(a, M)
    <2>1. /\ \A S : S \subseteq X => Hits(c, S) <= Hits(b, S)
          /\ Hits(c, M) <= Hits(b, M)
      BY DEF Partway
    <2>2. /\ \A S : S \subseteq X => Hits(b, S) <= Hits(a, S)
          /\ Hits(b, M) <= Hits(a, M)
      BY DEF Partway
    <2> HIDE DEF a, b, c, X, M
    <2> QED
      BY <1>5, <2>1, <2>2
  <1>7. \A k \in 1 .. Len(v[t]) :
           Hits(f.pages[v[t][k]].cells, X) # 0 =>
              k <= Len(s[t]) /\ Hits(d.pages[s[t][k]].cells, X) # 0
    <2> SUFFICES ASSUME NEW k \in 1 .. Len(v[t]), Hits(f.pages[v[t][k]].cells, X) # 0
                 PROVE  k <= Len(s[t]) /\ Hits(d.pages[s[t][k]].cells, X) # 0
      OBVIOUS
    <2>1. k <= Len(u[t]) /\ Hits(e.pages[u[t][k]].cells, X) # 0
      BY DEF Partway
    <2>2. Len(u[t]) \in Nat /\ k \in Nat /\ k >= 1
      BY <1>1, SpineFacts
    <2>3. k \in 1 .. Len(u[t])
      BY <2>1, <2>2
    <2> QED
      BY <2>1, <2>3 DEF Partway
  <1>8. Grows(d, s, f, v, t)
    BY <1>1, <1>2, GrowsMore
  <1>9. NoneStays(d, f, t)
    BY <1>1, <1>2 DEF NoneStays
  <1> HIDE DEF a, b, c, X, M
  <1> QED
    BY <1>1, <1>2, <1>3, <1>6, <1>7, <1>8, <1>9 DEF Partway, a, c, X, M

\* What UPDATE is asked for it can do: it narrows no row, widens one only that
\* is the only one it matches, and one that fits; with an index, no two rows
\* get the same key and no row a new key and a new width; and while the index
\* has the rows themselves (fresh), no row keeps its key and changes.
OrderlyAt(d, t, set, where, fresh, r) ==
    LET new == ToBe(r, set, where)
    IN /\ Need(new) >= Need(r)
       /\ Need(new) # Need(r) => /\ Hits(Scan(d, t), Taken(where)) <= 1
                                 /\ ~ Throws(t, new) /\ Readable(new)
       /\ d.index[t] # None => new.key = r.key \/ Need(new) = Need(r)
       /\ fresh /\ d.index[t] # None => new.key # r.key \/ Need(new) # Need(r)

Orderly(d, t, set, where, fresh) ==
    /\ \A r \in Stirred(set, where) : Hits(Scan(d, t), {r}) # 0 =>
          OrderlyAt(d, t, set, where, fresh, r)
    /\ d.index[t] # None => \A k \in Keys :
          Hits(Scan(d, t), Before(Keyed(k), set, where)) <= 1

\* That stays so on the way.
LEMMA OrderlyStays ==
    ASSUME NEW d, NEW s, Good(d, s), NEW t \in Names, s[t] # <<>>, Tidied(d, s[t]),
           NEW set, NEW where, NEW fresh, Orderly(d, t, set, where, fresh),
           NEW e, NEW u, Partway(d, s, e, u, t, set, where, fresh)
    PROVE  Orderly(e, t, set, where, fresh)
  <1> DEFINE a == Scan(d, t)
             b == Scan(e, t)
             X == Stirred(set, where)
             M == Taken(where)
  <1>1. /\ Good(e, u) /\ u[t] # <<>> /\ Tidied(e, u[t])
        /\ e.index[t] # None => d.index[t] # None
    BY DEF Partway, NoneStays
  <1>2. \A S : Hits(a, S) \in Nat /\ Hits(b, S) \in Nat
    <2>1. a \in Seq(Cell(t)) /\ b \in Seq(Cell(t))
      BY <1>1, ScanAdds
    <2> HIDE DEF a, b
    <2> QED
      BY <2>1, HitsFacts
  <1>3. \A k \in Keys : Hits(b, Before(Keyed(k), set, where))
                        = Hits(a, Before(Keyed(k), set, where))
    BY DEF Partway
  <1>4. /\ \A S : S \subseteq X => Hits(b, S) <= Hits(a, S)
        /\ Hits(b, M) <= Hits(a, M)
    BY DEF Partway
  <1>5. ASSUME NEW r \in X, Hits(b, {r}) # 0
        PROVE  OrderlyAt(e, t, set, where, fresh, r)
    <2>1. Hits(a, {r}) # 0
      <3> DEFINE x == Hits(a, {r})
                 y == Hits(b, {r})
      <3>1. y <= x /\ x \in Nat /\ y \in Nat /\ y # 0
        BY <1>2, <1>4, <1>5
      <3> HIDE DEF x, y
      <3>2. x # 0
        BY <3>1
      <3> QED
        BY <3>2 DEF x
    <2>2. OrderlyAt(d, t, set, where, fresh, r)
      BY <2>1 DEF Orderly
    <2>3. Hits(a, M) <= 1 => Hits(b, M) <= 1
      <3> DEFINE x == Hits(a, M)
                 y == Hits(b, M)
      <3>1. y <= x /\ x \in Nat /\ y \in Nat
        BY <1>2, <1>4
      <3> HIDE DEF x, y
      <3>2. x <= 1 => y <= 1
        BY <3>1
      <3> QED
        BY <3>2 DEF x, y
    <2> QED
      BY <1>1, <2>2, <2>3 DEF OrderlyAt
  <1> QED
    BY <1>1, <1>3, <1>5 DEF Orderly

\* A table has one row in the place of another.
Swapped(d, s, e, u, t, old, new) ==
    /\ Good(e, u) /\ Grows(d, s, e, u, t) /\ u[t] # <<>> /\ Tidied(e, u[t])
    /\ \A S : Hits(Scan(e, t), S) + One(old \in S) = Hits(Scan(d, t), S) + One(new \in S)

\* Pages with rows of X had such rows before.
Settled(d, s, e, u, t, X) ==
    \A k \in 1 .. Len(u[t]) : Hits(e.pages[u[t][k]].cells, X) # 0 =>
       k <= Len(s[t]) /\ Hits(d.pages[s[t][k]].cells, X) # 0

\* A row that becomes what it is to be is a part of the way.
LEMMA SwappedOn ==
    ASSUME NEW d, NEW s, Good(d, s), NEW t \in Names, s[t] # <<>>, Tidied(d, s[t]),
           NEW set \in Sets, NEW where, NEW fresh,
           NEW old \in Rows, Matches(old, where), NEW new, new = ToBe(old, set, where),
           NEW e, NEW u, Swapped(d, s, e, u, t, old, new),
           Settled(d, s, e, u, t, Stirred(set, where)), NoneStays(d, e, t),
           IndexRight(d, s, t, fresh) => IndexRight(e, u, t, fresh)
    PROVE  Partway(d, s, e, u, t, set, where, fresh)
  <1> DEFINE a == Scan(d, t)
             b == Scan(e, t)
             X == Stirred(set, where)
             M == Taken(where)
  <1>1. /\ Good(e, u) /\ Grows(d, s, e, u, t) /\ u[t] # <<>> /\ Tidied(e, u[t])
        /\ \A S : Hits(b, S) + One(old \in S) = Hits(a, S) + One(new \in S)
    BY DEF Swapped
  <1>2. /\ new \in Rows /\ old \in AnyCell /\ new \in AnyCell
        /\ ToBe(new, set, where) = new /\ new \notin X
    <2>1. ToBe(old, set, where) \in Rows /\ old \in AnyCell
          /\ ToBe(ToBe(old, set, where), set, where) = ToBe(old, set, where)
          /\ ToBe(old, set, where) \notin Stirred(set, where)
      BY ToBeTwice
    <2>2. new \in AnyCell
      BY <2>1, ToBeTwice
    <2> QED
      BY <2>1, <2>2
  <1>3. \A S : Hits(a, S) \in Nat /\ Hits(b, S) \in Nat
    <2>1. a \in Seq(Cell(t)) /\ b \in Seq(Cell(t))
      BY <1>1, ScanAdds
    <2> HIDE DEF a, b
    <2> QED
      BY <2>1, HitsFacts
  <1> HIDE DEF a, b
  <1>4. ASSUME NEW S, old \in S <=> new \in S
        PROVE  Hits(b, S) = Hits(a, S)
    <2> DEFINE x == Hits(a, S)
               y == Hits(b, S)
               i == One(old \in S)
               j == One(new \in S)
    <2>1. y + i = x + j /\ x \in Nat /\ y \in Nat
      BY <1>1, <1>3
    <2>2. i = j /\ i \in Nat
      BY <1>4 DEF One
    <2> HIDE DEF x, y, i, j
    <2>3. x = y
      BY <2>1, <2>2
    <2> QED
      BY <2>3 DEF x, y
  <1>5. ASSUME NEW S, new \in S => old \in S
        PROVE  Hits(b, S) <= Hits(a, S)
    <2> DEFINE x == Hits(a, S)
               y == Hits(b, S)
               i == One(old \in S)
               j == One(new \in S)
    <2>1. y + i = x + j /\ x \in Nat /\ y \in Nat
      BY <1>1, <1>3
    <2>2. j <= i /\ i \in Nat /\ j \in Nat
      BY <1>5 DEF One
    <2> HIDE DEF x, y, i, j
    <2>3. y <= x
      BY <2>1, <2>2
    <2> QED
      BY <2>3 DEF x, y
  <1>6. \A S : Hits(b, Before(S, set, where)) = Hits(a, Before(S, set, where))
    <2> SUFFICES ASSUME NEW S
                 PROVE  Hits(b, Before(S, set, where)) = Hits(a, Before(S, set, where))
      OBVIOUS
    <2> DEFINE B == Before(S, set, where)
    <2>1. old \in B <=> new \in B
      BY <1>2 DEF Before
    <2> HIDE DEF B
    <2>2. Hits(b, B) = Hits(a, B)
      BY <2>1, <1>4
    <2> QED
      BY <2>2 DEF B
  <1>7. \A S : S \subseteq X => Hits(b, S) <= Hits(a, S)
    <2> HIDE DEF X
    <2> QED
      BY <1>2, <1>5
  <1>8. Hits(b, M) <= Hits(a, M)
    <2>1. old \in M
      BY <1>2 DEF Taken
    <2> HIDE DEF M
    <2> QED
      BY <2>1, <1>5
  <1>9. \A k \in 1 .. Len(u[t]) : Hits(e.pages[u[t][k]].cells, X) # 0 =>
           k <= Len(s[t]) /\ Hits(d.pages[s[t][k]].cells, X) # 0
    BY DEF Settled
  <1> HIDE DEF X, M
  <1> QED
    BY <1>1, <1>6, <1>7, <1>8, <1>9 DEF Partway, a, b, X, M

PageSwapped(d, e, p, old, new) ==
    \A S : Hits(e.pages[p].cells, S) + One(old \in S) = Hits(d.pages[p].cells, S) + One(new \in S)

\* Writing a row of the same width over another.
LEMMA WroteSwaps ==
    ASSUME NEW d, NEW s, Good(d, s), NEW t \in Tables, Tidied(d, s[t]),
           NEW l \in 1 .. Len(s[t]), NEW at, NEW old, NEW new,
           at \in 1 .. Len(d.pages[s[t][l]].cells), old = d.pages[s[t][l]].cells[at],
           NEW e, Wrote(d, s, e, t, s[t][l], at, new)
    PROVE  /\ Swapped(d, s, e, s, t, old, new)
           /\ \A X : new \notin X => Settled(d, s, e, s, t, X)
           /\ PageSwapped(d, e, s[t][l], old, new)
  <1> DEFINE sp == s[t]
             p == s[t][l]
             n == Len(s[t])
             page == d.pages[p].cells
             over == e.pages[p].cells
  <1>1. /\ t \in Names /\ s[t] # <<>> /\ n \in Nat /\ l \in 1 .. n
        /\ \A k \in 1 .. n : s[t][k] \in 1 .. Len(d.pages)
        /\ \A k \in 1 .. n : k # l => s[t][k] # p
    <2>1. t \in Names
      BY DEF Names
    <2>2. \A k \in 1 .. n : k # l => s[t][k] # p
      BY <2>1 DEF Good, SpinesApart
    <2>3. n \in Nat /\ \A k \in 1 .. n : s[t][k] \in 1 .. Len(d.pages)
      BY <2>1, SpineFacts
    <2> QED
      BY <2>1, <2>2, <2>3
  <1>2. /\ Good(e, s) /\ Grows(d, s, e, s, t) /\ Tidied(e, s[t])
        /\ \A q \in 1 .. Len(d.pages) : q # p => e.pages[q] = d.pages[q]
        /\ SameBut(over, page, at, new)
    BY DEF Wrote
  <1>3. page \in Seq(Cell(t)) /\ over \in Seq(Cell(t)) /\ at \in 1 .. Len(page)
        /\ old = page[at]
    BY <1>1, <1>2, TidyPages
  <1>4. ASSUME NEW S
        PROVE  /\ Hits(over, S) + One(old \in S) = Hits(page, S) + One(new \in S)
               /\ Hits(over, S) \in Nat /\ Hits(page, S) \in Nat
    <2> HIDE DEF over, page
    <2>1. Hits(over, S) + One(page[at] \in S) = Hits(page, S) + One(new \in S)
      BY <1>2, <1>3, HitsReplaced
    <2> QED
      BY <2>1, <1>3, HitsFacts
  <1>5. ASSUME NEW S
        PROVE  Hits(Scan(e, t), S) + One(old \in S) = Hits(Scan(d, t), S) + One(new \in S)
    <2> DEFINE a == Hits(Scan(d, t), S)
               b == Hits(Scan(e, t), S)
               x == Hits(page, S)
               y == Hits(over, S)
               i == One(old \in S)
               j == One(new \in S)
    <2>1. \A k \in 1 .. Len(s[t]) : k # l =>
             Hits(e.pages[s[t][k]].cells, S) = Hits(d.pages[s[t][k]].cells, S)
      BY <1>1, <1>2
    <2>2. b + x = a + y
      <3>1. Hits(Scan(e, t), S) + Hits(d.pages[s[t][l]].cells, S)
            = Hits(Scan(d, t), S) + Hits(e.pages[s[t][l]].cells, S)
        BY <1>1, <1>2, <2>1, ScanDiffer
      <3> QED
        BY <3>1
    <2>3. y + i = x + j /\ x \in Nat /\ y \in Nat
      BY <1>4
    <2>4. a \in Nat /\ b \in Nat
      <3> DEFINE c == Scan(d, t)
                 f == Scan(e, t)
      <3>1. c \in Seq(Cell(t)) /\ f \in Seq(Cell(t))
        BY <1>1, <1>2, ScanAdds
      <3> HIDE DEF c, f
      <3>2. Hits(c, S) \in Nat /\ Hits(f, S) \in Nat
        BY <3>1, HitsFacts
      <3> QED
        BY <3>2 DEF c, f
    <2>5. i \in Nat /\ j \in Nat
      BY DEF One
    <2> HIDE DEF a, b, x, y, i, j
    <2>6. b + i = a + j
      BY <2>2, <2>3, <2>4, <2>5
    <2> QED
      BY <2>6 DEF a, b, i, j
  <1>6. ASSUME NEW X, new \notin X
        PROVE  Settled(d, s, e, s, t, X)
    <2> SUFFICES ASSUME NEW k \in 1 .. n, Hits(e.pages[s[t][k]].cells, X) # 0
                 PROVE  k <= n /\ Hits(d.pages[s[t][k]].cells, X) # 0
      BY DEF Settled
    <2>1. k <= n
      BY <1>1
    <2>2. CASE k = l
      <3> DEFINE x == Hits(page, X)
                 y == Hits(over, X)
                 i == One(old \in X)
                 j == One(new \in X)
      <3>1. y + i = x + j /\ x \in Nat /\ y \in Nat
        BY <1>4
      <3>2. j = 0 /\ i \in Nat
        BY <1>6 DEF One
      <3>3. y # 0
        BY <2>2
      <3> HIDE DEF x, y, i, j
      <3>4. x # 0
        BY <3>1, <3>2, <3>3
      <3> QED
        BY <2>1, <2>2, <3>4 DEF x
    <2>3. CASE k # l
      BY <2>1, <2>3, <1>1, <1>2
    <2> QED
      BY <2>2, <2>3
  <1>7. Swapped(d, s, e, s, t, old, new)
    BY <1>1, <1>2, <1>5 DEF Swapped
  <1> QED
    BY <1>4, <1>6, <1>7 DEF PageSwapped

\* A row's entry moves from its old key to its new one.
Rekeyed(d, t, old, new, p, ix) ==
    \A k \in Keys :
       ix[k] = IF k = new.key THEN <<[row |-> new, page |-> p]>> \o d.index[t][k]
               ELSE IF k = old.key THEN SubSeq(d.index[t][k], 2, Len(d.index[t][k]))
               ELSE d.index[t][k]

\* updateIndexes does that.
LEMMA UpdateIndexesMoves ==
    ASSUME NEW d, NEW s, Good(d, s), NEW t \in Tables, d.index[t] # None,
           NEW new \in Rows, NEW old \in Rows, new.key # old.key, NEW p \in Nat,
           NEW e, e = UpdateIndexes(d, t, new, old, p)
    PROVE  e.index[t] # None => Rekeyed(d, t, old, new, p, e.index[t])
  <1> DEFINE key == old.key
             ix == d.index[t]
             less == [ix EXCEPT ![key] = SubSeq(ix[key], 2, Len(ix[key]))]
             f == WithoutEntries(d, t, key, 1)
             more == WithRow(less, new, p)
  <1>1. t \in Names /\ d \in DbType /\ ix \in IndexType /\ key \in Keys
        /\ d.index \in [Names -> IndexType \cup {None}]
    <2>1. t \in Names /\ d \in DbType
      BY DEF Good, Names
    <2>2. ix \in IndexType
      BY <2>1, IndexFacts
    <2>3. d.index \in [Names -> IndexType \cup {None}]
      BY <2>1, DbFields
    <2> QED
      BY <2>1, <2>2, <2>3 DEF Rows
  <1>2. f.index[t] = less /\ Good(f, s)
    <2>1. f = [d EXCEPT !.index[t][key] = SubSeq(@, 1 + 1, Len(@))]
      BY DEF WithoutEntries
    <2>2. f = WithIndex(d, t, less)
      BY <2>1 DEF WithIndex
    <2>3. Good(f, s)
      BY <1>1, WithoutIs
    <2> HIDE DEF f, less
    <2>4. f.index[t] = less
      BY <1>1, <2>2, WithIndexAt
    <2> QED
      BY <2>3, <2>4
  <1>3. \A k \in Keys : less[k] = IF k = key THEN SubSeq(ix[k], 2, Len(ix[k])) ELSE ix[k]
    <2> HIDE DEF ix, key
    <2> QED
      BY <1>1 DEF IndexType
  <1>4. less \in IndexType
    <2>1. SubSeq(ix[key], 2, Len(ix[key])) \in Seq(Hint)
      <3>1. ix[key] \in Seq(Hint)
        BY <1>1, IndexFacts
      <3> DEFINE c == ix[key]
      <3> HIDE DEF c
      <3>2. c \in Seq(Hint) => SubSeq(c, 2, Len(c)) \in Seq(Hint)
        BY SubSeqFacts
      <3> QED
        BY <3>1, <3>2 DEF c
    <2> HIDE DEF ix, key
    <2> QED
      BY <1>1, <2>1 DEF IndexType
  <1>5. e = WithEntry(f, t, new, p)
    BY DEF UpdateIndexes
  <1> HIDE DEF f, less
  <1>6. CASE less = None
    <2>1. e = f
      BY <1>2, <1>5, <1>6 DEF WithEntry
    <2> QED
      BY <1>2, <1>6, <2>1
  <1>7. CASE less # None
    <2>1. e = [f EXCEPT !.index[t] = WithRow(@, new, p)]
      BY <1>2, <1>5, <1>7 DEF WithEntry
    <2>2. e = WithIndex(f, t, more)
      BY <1>2, <2>1 DEF WithIndex
    <2>3. /\ \A k \in Keys : k # new.key => more[k] = less[k]
          /\ more[new.key] = <<[row |-> new, page |-> p]>> \o less[new.key]
          /\ new.key \in Keys
      BY <1>4, WithRowIs
    <2> HIDE DEF more
    <2>4. e.index[t] = more
      <3>1. f \in DbType
        BY <1>2 DEF Good
      <3> QED
        BY <1>1, <2>2, <3>1, WithIndexAt
    <2> QED
      BY <1>3, <2>3, <2>4 DEF Rekeyed
  <1> QED
    BY <1>6, <1>7

-----------------------------------------------------------------------------
(* A row in the place of another.                                          *)

\* A page of a table has one row in the place of another.
SwappedAt(d, e, sp, t, l, old, new) ==
    /\ \A S : Hits(Scan(e, t), S) + One(old \in S) = Hits(Scan(d, t), S) + One(new \in S)
    /\ \A S : Hits(e.pages[sp[l]].cells, S) + One(old \in S)
              = Hits(d.pages[sp[l]].cells, S) + One(new \in S)
    /\ \A j \in 1 .. Len(sp) : j # l => e.pages[sp[j]].cells = d.pages[sp[j]].cells

\* Counts of rows before and after.
Counts(d, e, sp, t) ==
    /\ \A S : Hits(Scan(d, t), S) \in Nat /\ Hits(Scan(e, t), S) \in Nat
    /\ \A j \in 1 .. Len(sp) : \A S :
          Hits(d.pages[sp[j]].cells, S) \in Nat /\ Hits(e.pages[sp[j]].cells, S) \in Nat

\* They are counts.
LEMMA CountsAre ==
    ASSUME NEW d, NEW s, Good(d, s), NEW t \in Names, s[t] # <<>>, Tidied(d, s[t]),
           NEW e, Good(e, s), Tidied(e, s[t])
    PROVE  Counts(d, e, s[t], t)
  <1> DEFINE a == Scan(d, t)
             b == Scan(e, t)
  <1>1. a \in Seq(Cell(t)) /\ b \in Seq(Cell(t))
    BY ScanAdds
  <1>2. \A S : Hits(a, S) \in Nat /\ Hits(b, S) \in Nat
    <2> HIDE DEF a, b
    <2> QED
      BY <1>1, HitsFacts
  <1>3. ASSUME NEW j \in 1 .. Len(s[t]), NEW S
        PROVE  Hits(d.pages[s[t][j]].cells, S) \in Nat /\ Hits(e.pages[s[t][j]].cells, S) \in Nat
    <2> DEFINE x == d.pages[s[t][j]].cells
               y == e.pages[s[t][j]].cells
    <2>1. x \in Seq(Cell(t)) /\ y \in Seq(Cell(t))
      BY TidyPages
    <2> HIDE DEF x, y
    <2>2. Hits(x, S) \in Nat /\ Hits(y, S) \in Nat
      BY <2>1, HitsFacts
    <2> QED
      BY <2>2 DEF x, y
  <1> QED
    BY <1>2, <1>3 DEF Counts

\* The arithmetic of one count.
LEMMA CountSwap ==
    ASSUME NEW x \in Nat, NEW y \in Nat, NEW old, NEW new, NEW S,
           y + One(old \in S) = x + One(new \in S)
    PROVE  /\ (old \in S <=> new \in S) => y = x
           /\ new \in S /\ old \notin S => y = x + 1
           /\ new \notin S /\ old \in S => x = y + 1
  BY DEF One

\* Of a key that neither or both of the rows have.
LEMMA SwapRightElse ==
    ASSUME NEW d, NEW t, NEW sp, NEW l \in 1 .. Len(sp), NEW old, NEW new, NEW e,
           SwappedAt(d, e, sp, t, l, old, new), Counts(d, e, sp, t),
           NEW k \in Keys, old \in Keyed(k) <=> new \in Keyed(k),
           e.index[t][k] = d.index[t][k],
           Len(d.index[t][k]) = 1 => d.index[t][k][1].row \in Keyed(k),
           NEW fresh, fresh => old \notin Keyed(k),
           RightAt(d, sp, t, k, fresh)
    PROVE  RightAt(e, sp, t, k, fresh)
  <1> DEFINE K == Keyed(k)
             c == d.index[t][k]
  <1>1. Hits(Scan(e, t), K) = Hits(Scan(d, t), K)
    <2> DEFINE x == Hits(Scan(d, t), K)
               y == Hits(Scan(e, t), K)
    <2>1. x \in Nat /\ y \in Nat /\ y + One(old \in K) = x + One(new \in K)
      BY DEF SwappedAt, Counts
    <2>2. old \in K <=> new \in K
      OBVIOUS
    <2> HIDE DEF x, y, K
    <2>3. y = x
      BY <2>1, <2>2, CountSwap
    <2> QED
      BY <2>3 DEF x, y
  <1>2. ASSUME NEW j \in 1 .. Len(sp)
        PROVE  Hits(e.pages[sp[j]].cells, K) = Hits(d.pages[sp[j]].cells, K)
    <2>1. CASE j # l
      BY <2>1 DEF SwappedAt
    <2>2. CASE j = l
      <3> DEFINE x == Hits(d.pages[sp[l]].cells, K)
                 y == Hits(e.pages[sp[l]].cells, K)
      <3>1. x \in Nat /\ y \in Nat /\ y + One(old \in K) = x + One(new \in K)
        BY DEF SwappedAt, Counts
      <3>2. old \in K <=> new \in K
        OBVIOUS
      <3> HIDE DEF x, y, K
      <3>3. y = x
        BY <3>1, <3>2, CountSwap
      <3> QED
        BY <2>2, <3>3 DEF x, y
    <2> QED
      BY <2>1, <2>2
  <1>3. ASSUME fresh, Len(c) = 1, Hits(Scan(d, t), {c[1].row}) # 0
        PROVE  Hits(Scan(e, t), {c[1].row}) # 0
    <2> DEFINE R == {c[1].row}
               x == Hits(Scan(d, t), R)
               y == Hits(Scan(e, t), R)
    <2>1. x \in Nat /\ y \in Nat /\ y + One(old \in R) = x + One(new \in R)
      BY DEF SwappedAt, Counts
    <2>2. old \notin R /\ new \notin R
      BY <1>3
    <2>3. x # 0
      BY <1>3
    <2> HIDE DEF x, y, R
    <2>4. y = x
      BY <2>1, <2>2, CountSwap
    <2>5. y # 0
      BY <2>3, <2>4
    <2> QED
      BY <2>5 DEF y, R
  <1>4. CASE Hits(Scan(d, t), K) = 0 /\ c = <<>>
    BY <1>1, <1>4 DEF RightAt
  <1>5. CASE /\ Hits(Scan(d, t), K) = 1 /\ Len(c) = 1
             /\ \E j \in 1 .. Len(sp) : /\ c[1].page = sp[j]
                                        /\ Hits(d.pages[sp[j]].cells, K) # 0
             /\ fresh => Hits(Scan(d, t), {c[1].row}) # 0
    <2>1. fresh => Hits(Scan(e, t), {c[1].row}) # 0
      BY <1>3, <1>5
    <2> HIDE DEF c
    <2> QED
      BY <1>1, <1>2, <1>5, <2>1 DEF RightAt, c
  <1> QED
    BY <1>4, <1>5 DEF RightAt

\* After a change of a row's key no key has two entries or the wrong one.
LEMMA SwapRightKey ==
    ASSUME NEW d, NEW t, NEW sp, NEW l \in 1 .. Len(sp), NEW old \in Rows, NEW new \in Rows,
           new.key # old.key, NEW e,
           SwappedAt(d, e, sp, t, l, old, new), Counts(d, e, sp, t),
           Rekeyed(d, t, old, new, sp[l], e.index[t]),
           Hits(Scan(e, t), Keyed(new.key)) <= 1,
           NEW k \in Keys, k = new.key \/ k = old.key,
           NEW fresh, RightAt(d, sp, t, k, fresh)
    PROVE  RightAt(e, sp, t, k, fresh)
  <1> DEFINE K == Keyed(k)
             c == d.index[t][k]
             x == Hits(Scan(d, t), K)
             y == Hits(Scan(e, t), K)
  <1>1. x \in Nat /\ y \in Nat /\ y + One(old \in K) = x + One(new \in K)
    BY DEF SwappedAt, Counts
  <1>2. (old \in K <=> k = old.key) /\ (new \in K <=> k = new.key)
    BY DEF Keyed, AnyCell
  <1>3. CASE k = new.key
    <2> DEFINE h == [row |-> new, page |-> sp[l]]
    <2>1. y = x + 1
      <3>1. new \in K /\ old \notin K
        BY <1>2, <1>3
      <3> HIDE DEF x, y, K
      <3> QED
        BY <1>1, <3>1, CountSwap
    <2>2. x = 0 /\ y = 1
      <3>1. y <= 1
        BY <1>3
      <3> HIDE DEF x, y
      <3> QED
        BY <1>1, <2>1, <3>1
    <2>3. c = <<>>
      BY <2>2 DEF RightAt
    <2>4. e.index[t][k] = <<h>>
      <3>1. e.index[t][k] = <<h>> \o c
        BY <1>3 DEF Rekeyed
      <3> HIDE DEF h, c
      <3> QED
        BY <2>3, <3>1
    <2>5. Hits(e.pages[sp[l]].cells, K) # 0
      <3> DEFINE i == Hits(d.pages[sp[l]].cells, K)
                 j == Hits(e.pages[sp[l]].cells, K)
      <3>1. i \in Nat /\ j \in Nat /\ j + One(old \in K) = i + One(new \in K)
        BY DEF SwappedAt, Counts
      <3>2. new \in K /\ old \notin K
        BY <1>2, <1>3
      <3> HIDE DEF i, j, K
      <3>3. j = i + 1
        BY <3>1, <3>2, CountSwap
      <3>4. j # 0
        BY <3>1, <3>3
      <3> QED
        BY <3>4 DEF j
    <2>6. Hits(Scan(e, t), {new}) # 0
      <3> DEFINE R == {new}
                 i == Hits(Scan(d, t), R)
                 j == Hits(Scan(e, t), R)
      <3>1. i \in Nat /\ j \in Nat /\ j + One(old \in R) = i + One(new \in R)
        BY DEF SwappedAt, Counts
      <3>2. new \in R /\ old \notin R
        OBVIOUS
      <3> HIDE DEF i, j, R
      <3>3. j = i + 1
        BY <3>1, <3>2, CountSwap
      <3>4. j # 0
        BY <3>1, <3>3
      <3> QED
        BY <3>4 DEF j, R
    <2>7. Len(<<h>>) = 1 /\ <<h>>[1].page = sp[l] /\ <<h>>[1].row = new
      OBVIOUS
    <2> HIDE DEF h
    <2> QED
      BY <2>2, <2>4, <2>5, <2>6, <2>7 DEF RightAt
  <1>4. CASE k = old.key
    <2>1. x = y + 1
      <3>1. new \notin K /\ old \in K
        BY <1>2, <1>4
      <3> HIDE DEF x, y, K
      <3> QED
        BY <1>1, <3>1, CountSwap
    <2>2. x = 0 \/ (x = 1 /\ Len(c) = 1)
      BY DEF RightAt
    <2>3. y = 0 /\ Len(c) = 1
      <3> HIDE DEF x, y, c
      <3> QED
        BY <1>1, <2>1, <2>2
    <2>4. e.index[t][k] = SubSeq(c, 2, Len(c))
      BY <1>4 DEF Rekeyed
    <2>5. SubSeq(c, 2, Len(c)) = <<>>
      <3> HIDE DEF c
      <3> QED
        BY <2>3
    <2> QED
      BY <2>3, <2>4, <2>5 DEF RightAt
  <1> QED
    BY <1>3, <1>4

-----------------------------------------------------------------------------
(* The row that a turn is about.                                           *)

\* UPDATE gives all the rows that it gives a key the same.
LEMMA ToBeKeys ==
    ASSUME NEW set \in Sets, NEW where, NEW r \in Rows,
           NEW new, new = ToBe(r, set, where), new.key # r.key
    PROVE  \A q \in Rows : q.key = new.key => ToBe(q, set, where).key = q.key
  <1>1. Matches(r, where) /\ new = Changed(r, set)
    BY DEF ToBe
  <1>2. \A q \in Rows : DOMAIN q = {"key", "val"}
    BY DEF Rows
  <1>3. "key" \in DOMAIN set
    BY <1>1, <1>2 DEF Changed
  <1>4. \A q \in Rows : Changed(q, set).key = set["key"]
    BY <1>2, <1>3 DEF Changed
  <1> QED
    BY <1>1, <1>4 DEF ToBe

\* What is counted as one is not counted less as the other.
LEMMA HitsWithin ==
    ASSUME NEW V, NEW s \in Seq(V), NEW S, NEW T, \A x \in V : x \in S => x \in T
    PROVE  Hits(s, S) <= Hits(s, T)
  <1> DEFINE M == S \cap V
  <1>1. Hits(s, S) = Hits(s, M)
    <2>1. \A i \in 1 .. Len(s) : s[i] \in S <=> s[i] \in M
      OBVIOUS
    <2> HIDE DEF M
    <2> QED
      BY <2>1, HitsSame
  <1>2. M \subseteq T
    OBVIOUS
  <1> HIDE DEF M
  <1>3. Hits(s, M) <= Hits(s, T)
    BY <1>2, HitsLess
  <1> QED
    BY <1>1, <1>3

\* A scan of a table comes across rows.
LEMMA ScanRows ==
    ASSUME NEW d, NEW s, Good(d, s), NEW t \in Tables, s[t] # <<>>, Tidied(d, s[t])
    PROVE  Scan(d, t) \in Seq(Rows)
  <1> DEFINE c == Scan(d, t)
  <1>1. t \in Names
    BY DEF Names
  <1>2. c \in Seq(Rows \cup {Gap})
    <2>1. c \in Seq(Cell(t))
      BY <1>1, ScanAdds
    <2> QED
      BY <2>1 DEF Cell
  <1>3. Hits(c, {Gap}) = 0
    <2>1. FewIn(d, s[t], {Gap}, Hits(Scan(d, t), {Gap}))
      BY <1>1, ScanFew
    <2>2. ASSUME NEW k \in 1 .. Len(s[t])
          PROVE  Hits(d.pages[s[t][k]].cells, {Gap}) = 0
      <3> DEFINE page == d.pages[s[t][k]]
      <3>1. Tidy(page) /\ page.cells \in Seq(Cell(t))
        BY <1>1, TidyPages DEF Tidied
      <3>2. \A i \in 1 .. Len(page.cells) : page.cells[i] \notin {Gap}
        BY <3>1 DEF Tidy, Readable
      <3> HIDE DEF page
      <3>3. Hits(page.cells, {Gap}) = 0
        BY <3>1, <3>2, HitsFew
      <3> QED
        BY <3>3 DEF page
    <2> QED
      BY <2>1, <2>2 DEF FewIn
  <1> HIDE DEF c
  <1>4. \A i \in 1 .. Len(c) : c[i] \in Rows
    BY <1>2, <1>3, HitsFew
  <1>5. c \in Seq(Rows)
    BY <1>2, <1>4
  <1> QED
    BY <1>5 DEF c

\* A row of a page is a row of its table.
LEMMA HereAndThere ==
    ASSUME NEW d, NEW s, Good(d, s), NEW t \in Names, s[t] # <<>>, Tidied(d, s[t]),
           NEW l \in 1 .. Len(s[t]), NEW S,
           NEW at \in 1 .. Len(d.pages[s[t][l]].cells), d.pages[s[t][l]].cells[at] \in S
    PROVE  Hits(d.pages[s[t][l]].cells, S) # 0 /\ Hits(Scan(d, t), S) # 0
  <1> DEFINE c == d.pages[s[t][l]].cells
  <1>1. c \in Seq(Cell(t))
    BY TidyPages
  <1>2. Hits(c, S) # 0
    <2>1. at \in 1 .. Len(c) /\ c[at] \in S
      OBVIOUS
    <2> HIDE DEF c
    <2> QED
      BY <1>1, <2>1, HitsFew
  <1>3. FewIn(d, s[t], S, Hits(Scan(d, t), S))
    BY ScanFew
  <1> QED
    BY <1>2, <1>3 DEF FewIn

\* With an index no two rows get the key that a row gets.
LEMMA KeyFree ==
    ASSUME NEW d, NEW s, Good(d, s), NEW t \in Tables, s[t] # <<>>, Tidied(d, s[t]),
           NEW set \in Sets, NEW where, NEW fresh, Orderly(d, t, set, where, fresh),
           d.index[t] # None,
           NEW old \in Rows, Matches(old, where), NEW new, new = ToBe(old, set, where),
           new.key # old.key,
           NEW e, Swapped(d, s, e, s, t, old, new)
    PROVE  Hits(Scan(e, t), Keyed(new.key)) <= 1
  <1> DEFINE k == new.key
             B == Before(Keyed(k), set, where)
             a == Scan(d, t)
             b == Scan(e, t)
  <1>1. /\ new \in Rows /\ old \in AnyCell /\ new \in AnyCell
        /\ ToBe(new, set, where) = new /\ k \in Keys
    <2>1. new \in Rows /\ old \in AnyCell /\ ToBe(new, set, where) = new
      BY ToBeTwice
    <2> QED
      BY <2>1, ToBeTwice DEF Rows
  <1>2. a \in Seq(Rows) /\ b \in Seq(Rows)
    BY ScanRows DEF Swapped
  <1>3. Hits(a, B) <= 1
    BY <1>1 DEF Orderly
  <1>4. Hits(b, B) = Hits(a, B)
    <2> DEFINE x == Hits(a, B)
               y == Hits(b, B)
    <2>1. y + One(old \in B) = x + One(new \in B)
      BY DEF Swapped
    <2>2. old \in B <=> new \in B
      BY <1>1 DEF Before
    <2>3. x \in Nat /\ y \in Nat
      <3> HIDE DEF a, b, B
      <3> QED
        BY <1>2, HitsFacts
    <2> HIDE DEF x, y, B
    <2>4. y = x
      BY <2>1, <2>2, <2>3, CountSwap
    <2> QED
      BY <2>4 DEF x, y
  <1>5. \A q \in Rows : q \in Keyed(k) => q \in B
    <2> SUFFICES ASSUME NEW q \in Rows, q \in Keyed(k) PROVE q \in B
      OBVIOUS
    <2>1. q.key = k /\ q \in AnyCell
      BY DEF Keyed
    <2>2. ToBe(q, set, where).key = k
      BY <2>1, ToBeKeys
    <2>3. ToBe(q, set, where) \in AnyCell
      <3>1. ToBe(q, set, where) \in Rows
        BY ToBeTwice
      <3> QED
        BY <3>1, ToBeTwice
    <2> QED
      BY <2>1, <2>2, <2>3 DEF Before, Keyed
  <1> DEFINE K == Keyed(k)
  <1>6. Hits(b, K) <= Hits(b, B)
    <2>1. \A q \in Rows : q \in K => q \in B
      BY <1>5
    <2> HIDE DEF b, B, K
    <2> QED
      BY <1>2, <2>1, HitsWithin
  <1>7. Hits(b, K) \in Nat /\ Hits(b, B) \in Nat
    <2> HIDE DEF b, B, K
    <2> QED
      BY <1>2, HitsFacts
  <1>8. Hits(b, K) <= 1
    <2> HIDE DEF a, b, B, K
    <2> QED
      BY <1>3, <1>4, <1>6, <1>7
  <1> QED
    BY <1>8

-----------------------------------------------------------------------------
(* A turn keeps the table in order.                                        *)

\* A turn of update's loop finds a row that it changes.
TurnAt(d, s, t, l, at, set, where, old, new) ==
    /\ l \in 1 .. Len(s[t]) /\ at \in 1 .. Len(d.pages[s[t][l]].cells)
    /\ old = d.pages[s[t][l]].cells[at] /\ old \in Rows /\ Matches(old, where)
    /\ new = Changed(old, set) /\ new = ToBe(old, set, where) /\ new \in Rows /\ new # old
    /\ new \notin Stirred(set, where) /\ old \in Stirred(set, where)

\* So it is at a row that does not stay as it is.
LEMMA TurnAtIs ==
    ASSUME NEW d, NEW s, Good(d, s), NEW t \in Tables, Tidied(d, s[t]),
           NEW set \in Sets, NEW where,
           NEW l \in 1 .. Len(s[t]), NEW at \in 1 .. Len(d.pages[s[t][l]].cells),
           NEW old, old = d.pages[s[t][l]].cells[at], old \in Stirred(set, where),
           NEW new, new = Changed(old, set)
    PROVE  TurnAt(d, s, t, l, at, set, where, old, new)
  <1>1. SpinePage(d, t, s[t][l])
    BY SpinePageIs
  <1>2. old \in Rows
    BY <1>1 DEF SpinePage
  <1>3. Matches(old, where) /\ new = ToBe(old, set, where) /\ new # old
    BY DEF Stirred, ToBe
  <1>4. new \in Rows /\ new \notin Stirred(set, where)
    BY <1>2, <1>3, ToBeTwice
  <1> QED
    BY <1>2, <1>3, <1>4 DEF TurnAt

\* A row of the same width.
LEMMA EvenPartway ==
    ASSUME NEW d, NEW s, Good(d, s), NEW t \in Tables, Tidied(d, s[t]),
           NEW set \in Sets, NEW where, NEW fresh, Orderly(d, t, set, where, fresh),
           NEW l, NEW at, NEW old, NEW new, TurnAt(d, s, t, l, at, set, where, old, new),
           Need(new) = Need(old),
           NEW page, NEW i, NEW pg, NEW e,
           Evenly(d, t, s[t][l], page, at, old, new, i, pg, e)
    PROVE  /\ Partway(d, s, e, s, t, set, where, fresh)
           /\ Wrote(d, s, e, t, s[t][l], at, new)
  <1>1. /\ l \in 1 .. Len(s[t]) /\ at \in 1 .. Len(d.pages[s[t][l]].cells)
        /\ old = d.pages[s[t][l]].cells[at] /\ old \in Rows /\ Matches(old, where)
        /\ new = ToBe(old, set, where) /\ new \in Rows /\ new # old
        /\ new \notin Stirred(set, where) /\ old \in Stirred(set, where)
    BY DEF TurnAt
  <1>l. l \in 1 .. Len(s[t])
    BY <1>1
  <1>at. at \in 1 .. Len(d.pages[s[t][l]].cells) /\ old = d.pages[s[t][l]].cells[at]
    BY <1>1
  <1>rows. old \in Rows /\ new \in Rows
    BY <1>1
  <1>2. t \in Names /\ s[t] # <<>> /\ s[t][l] \in Nat
    <2>1. t \in Names
      BY DEF Names
    <2>2. s[t] \in Seq(Nat) /\ s[t][l] \in Nat
      BY <1>l, <2>1, SpineFacts
    <2>3. s[t] # <<>>
      BY <1>l, <2>2
    <2> QED
      BY <2>1, <2>2, <2>3
  <1>3. Wrote(d, s, e, t, s[t][l], at, new) /\ e.index = i.index
    <2>1. Wrote(d, s, e, t, s[t][l], at, new)
      BY <1>l, WroteOver, Zenon
    <2>2. SameIndex(e, i)
      BY <1>l, WroteOver, Zenon
    <2> QED
      BY <2>1, <2>2 DEF SameIndex
  <1>4. /\ Swapped(d, s, e, s, t, old, new)
        /\ \A X : new \notin X => Settled(d, s, e, s, t, X)
        /\ \A S : Hits(e.pages[s[t][l]].cells, S) + One(old \in S)
                  = Hits(d.pages[s[t][l]].cells, S) + One(new \in S)
    <2>1. Wrote(d, s, e, t, s[t][l], at, new)
      BY <1>3
    <2>2. Swapped(d, s, e, s, t, old, new)
      BY <1>l, <1>at, <2>1, WroteSwaps
    <2>3. \A X : new \notin X => Settled(d, s, e, s, t, X)
      BY <1>l, <1>at, <2>1, WroteSwaps
    <2>4. PageSwapped(d, e, s[t][l], old, new)
      BY <1>l, <1>at, <2>1, WroteSwaps
    <2> QED
      BY <2>2, <2>3, <2>4 DEF PageSwapped
  <1>5. Settled(d, s, e, s, t, Stirred(set, where))
    BY <1>1, <1>4
  <1>6. i = UpdateIndexes(d, t, new, old, s[t][l])
    BY DEF Evenly
  <1>7. NoneStays(d, e, t)
    <2>1. NoneStays(d, i, t)
      BY <1>6 DEF NoneStays, UpdateIndexes, WithEntry, WithoutEntries
    <2> QED
      BY <1>3, <2>1 DEF NoneStays
  <1>8. SwappedAt(d, e, s[t], t, l, old, new)
    <2>1. \A S : Hits(Scan(e, t), S) + One(old \in S) = Hits(Scan(d, t), S) + One(new \in S)
      BY <1>4 DEF Swapped
    <2>2. \A j \in 1 .. Len(s[t]) : j # l => e.pages[s[t][j]].cells = d.pages[s[t][j]].cells
      <3> SUFFICES ASSUME NEW j \in 1 .. Len(s[t]), j # l
                   PROVE  e.pages[s[t][j]].cells = d.pages[s[t][j]].cells
        OBVIOUS
      <3>1. s[t][j] # s[t][l]
        BY <1>l, <1>2 DEF Good, SpinesApart
      <3>2. s[t][j] \in 1 .. Len(d.pages)
        BY <1>2, SpineFacts
      <3>3. e.pages[s[t][j]] = d.pages[s[t][j]]
        BY <1>3, <3>1, <3>2 DEF Wrote
      <3> QED
        BY <3>3
    <2> QED
      BY <1>4, <2>1, <2>2 DEF SwappedAt
  <1>9. Counts(d, e, s[t], t)
    BY <1>2, <1>4, CountsAre DEF Swapped
  <1>10. ASSUME IndexRight(d, s, t, fresh), e.index[t] # None, NEW k \in Keys
         PROVE  RightAt(e, s[t], t, k, fresh)
    <2>1. d.index[t] # None
      BY <1>7, <1>10 DEF NoneStays
    <2>2. RightAt(d, s[t], t, k, fresh)
      BY <1>10, <2>1 DEF IndexRight
    <2>3. /\ d.index[t][k] \in Seq(Hint) /\ Len(d.index[t][k]) \in Nat
          /\ \A j \in 1 .. Len(d.index[t][k]) : d.index[t][k][j].row \in Keyed(k)
      BY <1>2, <2>1, IndexFacts
    <2>4. Len(d.index[t][k]) = 1 => d.index[t][k][1].row \in Keyed(k)
      <3> SUFFICES ASSUME Len(d.index[t][k]) = 1 PROVE d.index[t][k][1].row \in Keyed(k)
        OBVIOUS
      <3>1. 1 \in 1 .. Len(d.index[t][k])
        OBVIOUS
      <3> QED
        BY <2>3, <3>1
    <2>5. (old \in Keyed(k) <=> k = old.key) /\ (new \in Keyed(k) <=> k = new.key)
      BY <1>1 DEF Keyed, AnyCell
    <2>6. CASE new.key = old.key
      <3>1. ~ fresh
        <4>1. Hits(Scan(d, t), {old}) # 0
          BY <1>1, <1>2, HereAndThere
        <4>2. OrderlyAt(d, t, set, where, fresh, old)
          BY <1>1, <4>1 DEF Orderly
        <4> QED
          BY <1>1, <2>1, <2>6, <4>2 DEF OrderlyAt
      <3>2. e.index[t][k] = d.index[t][k]
        BY <1>3, <1>6, <2>6 DEF UpdateIndexes
      <3>3. old \in Keyed(k) <=> new \in Keyed(k)
        BY <2>5, <2>6
      <3> QED
        <4>1. fresh => old \notin Keyed(k)
          BY <3>1
        <4> QED
          BY <1>l, <1>8, <1>9, <2>2, <2>4, <3>2, <3>3, <4>1, SwapRightElse
    <2>7. CASE new.key # old.key
      <3>1. Rekeyed(d, t, old, new, s[t][l], e.index[t])
        <4>1. i.index[t] # None
          BY <1>3, <1>10
        <4>2. Rekeyed(d, t, old, new, s[t][l], i.index[t])
          BY <1>1, <1>2, <1>6, <2>1, <2>7, <4>1, UpdateIndexesMoves
        <4> QED
          BY <1>3, <4>2
      <3>2. Hits(Scan(e, t), Keyed(new.key)) <= 1
        BY <1>1, <1>2, <1>4, <2>1, <2>7, KeyFree
      <3>3. CASE k = new.key \/ k = old.key
        BY <1>l, <1>rows, <1>8, <1>9, <2>2, <2>7, <3>1, <3>2, <3>3, SwapRightKey
      <3>4. CASE k # new.key /\ k # old.key
        <4>1. e.index[t][k] = d.index[t][k]
          BY <3>1, <3>4 DEF Rekeyed
        <4>2. old \notin Keyed(k) /\ new \notin Keyed(k)
          BY <2>5, <3>4
        <4> QED
          BY <1>l, <1>8, <1>9, <2>2, <2>4, <4>1, <4>2, SwapRightElse
      <3> QED
        BY <3>3, <3>4
    <2> QED
      BY <2>6, <2>7
  <1>11. IndexRight(d, s, t, fresh) => IndexRight(e, s, t, fresh)
    BY <1>10 DEF IndexRight
  <1>12. Partway(d, s, e, s, t, set, where, fresh)
    BY <1>1, <1>2, <1>4, <1>5, <1>7, <1>11, SwappedOn
  <1> QED
    BY <1>3, <1>12

\* Of what is found once the rest is not found.
LEMMA HitsOnce ==
    ASSUME NEW V, NEW a \in Seq(V), NEW M, Hits(a, M) <= 1,
           NEW old \in M, Hits(a, {old}) # 0, NEW S
    PROVE  Hits(a, S \cap M) = One(old \in S)
  <1> DEFINE P == S \cap M
             O == {old}
  <1>1. Hits(a, P) \in Nat /\ Hits(a, O) \in Nat /\ Hits(a, M) \in Nat
    <2> HIDE DEF P, O
    <2> QED
      BY HitsFacts
  <1>2. CASE old \in S
    <2>1. O \subseteq P /\ P \subseteq M
      BY <1>2
    <2> HIDE DEF P, O
    <2>2. Hits(a, O) <= Hits(a, P) /\ Hits(a, P) <= Hits(a, M)
      BY <2>1, HitsLess
    <2>3. Hits(a, O) # 0
      BY DEF O
    <2>4. Hits(a, P) = 1
      BY <1>1, <2>2, <2>3
    <2> QED
      BY <1>2, <2>4 DEF P, One
  <1>3. CASE old \notin S
    <2>1. PICK j \in 1 .. Len(a) : a[j] = old
      <3>1. ~ \A j \in 1 .. Len(a) : a[j] \notin O
        <4>1. Hits(a, O) # 0
          OBVIOUS
        <4> HIDE DEF O
        <4> QED
          BY <4>1, HitsFew
      <3> QED
        BY <3>1
    <2>2. ASSUME NEW i \in 1 .. Len(a)
          PROVE  a[i] \notin P
      <3> SUFFICES ASSUME a[i] \in P PROVE FALSE
        OBVIOUS
      <3>1. a[i] \in M /\ a[j] \in M
        BY <2>1
      <3>2. i = j
        BY <3>1, HitsFew
      <3> QED
        BY <1>3, <2>1, <3>2
    <2> HIDE DEF P
    <2>3. Hits(a, P) = 0
      BY <2>2, HitsFew
    <2> QED
      BY <1>3, <2>3 DEF P, One
  <1> QED
    BY <1>2, <1>3

\* The one row that a condition takes away, and another that is put in.
LEMMA CutPut ==
    ASSUME NEW d, NEW s, Good(d, s), NEW t \in Names, s[t] # <<>>, Tidied(d, s[t]),
           NEW where, NEW f, Cut(d, s, f, t, where),
           NEW old \in Taken(where), Hits(Scan(d, t), Taken(where)) <= 1,
           Hits(Scan(d, t), {old}) # 0,
           NEW new, NEW e, NEW u, Put(f, s, e, u, t, new)
    PROVE  Swapped(d, s, e, u, t, old, new)
  <1> DEFINE a == Scan(d, t)
             b == Scan(f, t)
             c == Scan(e, t)
             M == Taken(where)
  <1>1. /\ Good(f, s) /\ Grows(d, s, f, s, t)
        /\ \A S : Hits(b, S) = Hits(a, S \ M)
    BY DEF Cut
  <1>2. /\ Good(e, u) /\ Grows(f, s, e, u, t) /\ u[t] # <<>> /\ Tidied(e, u[t])
        /\ \A S : Hits(c, S) = Hits(b, S) + One(new \in S)
    BY DEF Put
  <1>3. a \in Seq(Cell(t))
    BY ScanAdds
  <1>4. ASSUME NEW S
        PROVE  Hits(c, S) + One(old \in S) = Hits(a, S) + One(new \in S)
    <2> DEFINE x == Hits(a, S)
               y == Hits(a, S \ M)
               z == Hits(a, S \cap M)
               w == Hits(c, S)
               i == One(old \in S)
               j == One(new \in S)
    <2>1. w = y + j
      BY <1>1, <1>2
    <2>2. Split(a, S, M)
      <3> HIDE DEF a, M
      <3> QED
        BY <1>3, HitsSplit
    <2>3. x = z + y /\ x \in Nat /\ y \in Nat /\ z \in Nat
      BY <2>2 DEF Split
    <2>4. z = i
      <3>1. Hits(a, M) <= 1 /\ old \in M /\ Hits(a, {old}) # 0
        OBVIOUS
      <3> HIDE DEF a, M
      <3> QED
        BY <1>3, <3>1, HitsOnce
    <2>5. j \in Nat
      BY DEF One
    <2> HIDE DEF x, y, z, w, i, j
    <2>6. w + i = x + j
      BY <2>1, <2>3, <2>4, <2>5
    <2> QED
      BY <2>6 DEF w, i, x, j
  <1>5. Grows(d, s, e, u, t)
    BY <1>1, <1>2, GrowsMore
  <1> QED
    BY <1>2, <1>4, <1>5 DEF Swapped

\* Of a table with no row to be changed no page has one.
LEMMA NoneIn ==
    ASSUME NEW e, NEW u, Good(e, u), NEW t \in Names, u[t] # <<>>, Tidied(e, u[t]), NEW X,
           Hits(Scan(e, t), X) = 0
    PROVE  \A k \in 1 .. Len(u[t]) : Hits(e.pages[u[t][k]].cells, X) = 0
  <1>1. FewIn(e, u[t], X, Hits(Scan(e, t), X))
    BY ScanFew
  <1> QED
    BY <1>1 DEF FewIn

\* What widening the only row that a condition matches leaves: the row alone
\* is another, the index goes with it, and no page has one to be changed.
Widened(d, s, e, t, set, where, fresh) ==
    \E u : /\ Partway(d, s, e, u, t, set, where, fresh)
           /\ \A k \in 1 .. Len(u[t]) :
                 Hits(e.pages[u[t][k]].cells, Stirred(set, where)) = 0

\* A row that grows is deleted and inserted again: nothing else of the table
\* changes.
LEMMA WidePartway ==
    ASSUME NEW d, NEW s, Good(d, s), NEW t \in Tables, Exists(d, t), Tidied(d, s[t]),
           NEW set \in Sets, NEW where, where.on = "key" => where.is \in Keys,
           NEW fresh, Orderly(d, t, set, where, fresh), IndexRight(d, s, t, fresh),
           NEW l, NEW at, NEW old, NEW new, TurnAt(d, s, t, l, at, set, where, old, new),
           Need(new) # Need(old),
           NEW f, f = Deleted(d, t, where), NEW e, e = Inserted(f, t, new)
    PROVE  /\ ~ Throws(t, new) /\ (d.index[t] # None => new.key = old.key)
           /\ Widened(d, s, e, t, set, where, fresh)
  <1>1. /\ l \in 1 .. Len(s[t]) /\ at \in 1 .. Len(d.pages[s[t][l]].cells)
        /\ old = d.pages[s[t][l]].cells[at] /\ old \in Rows /\ Matches(old, where)
        /\ new = ToBe(old, set, where) /\ new \in Rows
        /\ new \notin Stirred(set, where) /\ old \in Stirred(set, where)
    BY DEF TurnAt
  <1>2. t \in Names
    BY DEF Names
  <1>3. s[t] # <<>>
    BY <1>2, ExistsFacts
  <1>4. old \in AnyCell /\ old \in Taken(where) /\ new \in AnyCell
    BY <1>1 DEF Stirred, Taken, AnyCell
  <1>5. Hits(Scan(d, t), {old}) # 0
    <2>1. d.pages[s[t][l]].cells[at] \in {old}
      BY <1>1
    <2> QED
      BY <1>1, <1>2, <1>3, <2>1, HereAndThere
  <1>6. OrderlyAt(d, t, set, where, fresh, old)
    BY <1>1, <1>5 DEF Orderly
  <1>7. Hits(Scan(d, t), Taken(where)) <= 1 /\ ~ Throws(t, new) /\ Readable(new)
    BY <1>1, <1>6 DEF OrderlyAt
  <1>8. d.index[t] # None => new.key = old.key
    BY <1>1, <1>6 DEF OrderlyAt
  <1>9. /\ Cut(d, s, f, t, where)
        /\ d.index[t] # None => \A k \in Keys : RightAt(f, s[t], t, k, fresh)
    <2>1. CASE d.index[t] = None
      BY <2>1, DeletedCuts
    <2>2. CASE d.index[t] # None
      <3>1. \A k \in Keys : RightAt(d, s[t], t, k, fresh)
        BY <2>2 DEF IndexRight
      <3> QED
        BY <2>2, <3>1, DeletedRight
    <2> QED
      BY <2>1, <2>2
  <1>10. Good(f, s) /\ Grows(d, s, f, s, t) /\ Tidied(f, s[t])
    BY <1>9 DEF Cut
  <1>11. Exists(f, t)
    BY <1>2, <1>10, GrowsFacts
  <1>12. PICK u : Put(f, s, e, u, t, new)
    <2>1. new \in Cell(t) \ {Gap}
      BY <1>1, NeedFacts DEF Cell
    <2> QED
      BY <1>7, <1>10, <1>11, <2>1, InsertPuts
  <1>13. Swapped(d, s, e, u, t, old, new)
    BY <1>2, <1>3, <1>4, <1>5, <1>7, <1>9, <1>12, CutPut
  <1>14. Good(e, u) /\ u[t] # <<>> /\ Tidied(e, u[t])
    BY <1>12 DEF Put
  <1>15. \A k \in 1 .. Len(u[t]) : Hits(e.pages[u[t][k]].cells, Stirred(set, where)) = 0
    <2> DEFINE X == Stirred(set, where)
    <2>1. X \ Taken(where) = {}
      BY DEF Stirred, Taken, ToBe
    <2>2. Hits(Scan(e, t), X) = Hits(Scan(f, t), X) + One(new \in X)
      BY <1>12 DEF Put
    <2>3. Hits(Scan(f, t), X) = Hits(Scan(d, t), {})
      BY <1>9, <2>1 DEF Cut
    <2>4. Hits(Scan(d, t), {}) = 0
      <3>1. Scan(d, t) \in Seq(Cell(t))
        BY <1>2, <1>3, ScanAdds
      <3> QED
        BY <3>1, HitsFew
    <2>5. One(new \in X) = 0
      BY <1>1 DEF One
    <2>6. Hits(Scan(e, t), X) = 0
      BY <2>2, <2>3, <2>4, <2>5
    <2> QED
      BY <1>2, <1>14, <2>6, NoneIn
  <1>16. Settled(d, s, e, u, t, Stirred(set, where))
    BY <1>15 DEF Settled
  <1>17. e.index = Reindexed(f.index, t, new, u[t][Len(u[t])])
    BY <1>12 DEF Put
  <1>18. e.index[t] # None => f.index[t] # None
    <2>1. f \in DbType
      BY <1>10 DEF Good
    <2> QED
      BY <1>2, <1>17, <2>1, DbFields DEF Reindexed
  <1>19. f.index[t] # None => d.index[t] # None
    <2>1. NoneStays(d, f, t)
      BY DeletedGood
    <2> QED
      BY <2>1 DEF NoneStays
  <1>20. NoneStays(d, e, t)
    BY <1>18, <1>19 DEF NoneStays
  <1>21. IndexRight(e, u, t, fresh)
    <2> SUFFICES ASSUME e.index[t] # None, NEW k \in Keys
                 PROVE  RightAt(e, u[t], t, k, fresh)
      BY DEF IndexRight
    <2>1. f.index[t] # None /\ d.index[t] # None
      BY <1>18, <1>19
    <2>2. RightAt(d, s[t], t, k, fresh) /\ RightAt(f, s[t], t, k, fresh)
      BY <1>9, <2>1 DEF IndexRight
    <2>3. Hits(Scan(e, t), Keyed(k)) <= 1
      <3> DEFINE x == Hits(Scan(d, t), Keyed(k))
                 y == Hits(Scan(e, t), Keyed(k))
      <3>1. x \in {0, 1}
        BY <2>2 DEF RightAt
      <3>2. y + One(old \in Keyed(k)) = x + One(new \in Keyed(k))
        BY <1>13 DEF Swapped
      <3>3. old \in Keyed(k) <=> new \in Keyed(k)
        BY <1>4, <1>8, <2>1 DEF Keyed
      <3>4. y \in Nat
        <4>1. Scan(e, t) \in Seq(Cell(t))
          BY <1>2, <1>14, ScanAdds
        <4> QED
          BY <4>1, HitsFacts
      <3> HIDE DEF x, y
      <3>5. y = x
        BY <3>1, <3>2, <3>3, <3>4 DEF One
      <3> QED
        BY <3>1, <3>5 DEF y
    <2> QED
      BY <1>1, <1>2, <1>3, <1>10, <1>12, <2>1, <2>2, <2>3, PutRight
  <1>22. Partway(d, s, e, u, t, set, where, fresh)
    BY <1>1, <1>2, <1>3, <1>13, <1>16, <1>20, <1>21, SwappedOn
  <1> QED
    BY <1>7, <1>8, <1>15, <1>22 DEF Widened

-----------------------------------------------------------------------------
(* The loop over the records of a page.                                    *)

\* A turn of update's loop over a page: the loop is at the next place, and no
\* place before it holds a row to be changed; or it has ended, and the page
\* holds none.
Turned(d, s, t, p, at, set, where, fresh, y) ==
    \E f, v, broke :
       /\ y = Walk(f, p, at + 1, broke) /\ broke \in BOOLEAN
       /\ Partway(d, s, f, v, t, set, where, fresh)
       /\ broke => Hits(f.pages[p].cells, Stirred(set, where)) = 0
       /\ ~ broke => /\ Len(f.pages[p].cells) = Len(d.pages[p].cells)
                     /\ f.pages[p].cells[at] \notin Stirred(set, where)
                     /\ \A q \in 1 .. Len(d.pages[p].cells) :
                           q # at => f.pages[p].cells[q] = d.pages[p].cells[q]

\* A row that is not to be changed.
LEMMA IdleKeeps ==
    ASSUME NEW d, NEW s, Good(d, s), NEW t \in Tables, Tidied(d, s[t]),
           NEW set \in Sets, NEW where, NEW fresh,
           NEW l \in 1 .. Len(s[t]), NEW at \in 1 .. Len(d.pages[s[t][l]].cells),
           d.pages[s[t][l]].cells[at] \notin Stirred(set, where),
           NEW x, x = Walk(d, s[t][l], at, No), NEW y, y = Visited(x, t, set, where)
    PROVE  Turned(d, s, t, s[t][l], at, set, where, fresh, y)
  <1> DEFINE p == s[t][l]
  <1>1. t \in Names /\ s[t] # <<>>
    <2>1. Len(s[t]) \in Nat
      BY SpineFacts DEF Names
    <2> QED
      BY <2>1 DEF Names
  <1>2. SpinePage(d, t, p)
    BY SpinePageIs
  <1>3. y = Walk(d, p, at + 1, No)
    <2>1. p = s[t][l]
      OBVIOUS
    <2> HIDE DEF p
    <2>2. at \in 1 .. Len(d.pages[p].cells) /\ d.pages[p].cells[at] \notin Stirred(set, where)
      BY <2>1
    <2>3. x = Walk(d, p, at, No)
      BY <2>1
    <2>4. Visited(x, t, set, where) = Walk(d, p, at + 1, No)
      BY <1>2, <2>2, <2>3, IdleTurn
    <2> QED
      BY <2>4
  <1>4. Partway(d, s, d, s, t, set, where, fresh)
    BY <1>1, PartwayNot
  <1>5. ~ No /\ No \in BOOLEAN
    BY NotNo
  <1> QED
    BY <1>3, <1>4, <1>5 DEF Turned

\* A row written over where it lies.
LEMMA EvenKeeps ==
    ASSUME NEW d, NEW s, Good(d, s), NEW t \in Tables, Exists(d, t), Tidied(d, s[t]),
           NEW set \in Sets, NEW where, NEW fresh, Orderly(d, t, set, where, fresh),
           NEW l, NEW at, NEW old, NEW new, TurnAt(d, s, t, l, at, set, where, old, new),
           Need(new) = Need(old),
           NEW x, x = Walk(d, s[t][l], at, No), NEW y, y = Visited(x, t, set, where)
    PROVE  Turned(d, s, t, s[t][l], at, set, where, fresh, y)
  <1> DEFINE p == s[t][l]
             page == d.pages[p]
             i == UpdateIndexes(d, t, new, old, p)
             f == Deleted(i, t, where)
             pg == InPlace(page, at, old, new)
             e == WithPage(i, p, pg)
  <1>1. /\ l \in 1 .. Len(s[t]) /\ at \in 1 .. Len(page.cells)
        /\ old = page.cells[at] /\ old \in Rows /\ Matches(old, where)
        /\ new = Changed(old, set) /\ new \in Rows
        /\ new \notin Stirred(set, where)
    BY DEF TurnAt
  <1>2. at \in Nat
    <2>1. at \in 1 .. Len(page.cells)
      BY <1>1
    <2> HIDE DEF page
    <2> QED
      BY <2>1, PlaceIsNat
  <1>3. TurnEnds(d, p, at, t, where, old, new, i, f, y)
    <2> HIDE DEF p, i, f
    <2>1. old = d.pages[p].cells[at] /\ new = Changed(old, set)
      BY <1>1
    <2>2. x = Walk(d, p, at, No) /\ y = Visited(x, t, set, where)
      BY DEF p
    <2>3. i = UpdateIndexes(d, t, new, old, p) /\ f = Deleted(i, t, where)
      BY DEF i, f
    <2> QED
      BY <1>2, <2>1, <2>2, <2>3, VisitedAs
  <1>4. Need(old) \in Nat /\ Need(new) \in Nat
    BY <1>1, NeedFacts DEF AnyCell
  <1>5. i.pages[p] = page
    BY DEF UpdateIndexes, WithEntry, WithoutEntries
  <1>6. y = Walk(e, p, at + 1, No)
    <2>1. Need(new) <= Need(old) /\ at + 1 + Need(old) - Need(new) = at + 1
      BY <1>2, <1>4
    <2> HIDE DEF i, f, p, page
    <2>2. y = Walk(WithPage(i, p, InPlace(i.pages[p], at, old, new)), p,
                   at + 1 + Need(old) - Need(new), No)
      BY <1>1, <1>3, <2>1 DEF TurnEnds
    <2> QED
      BY <1>5, <2>1, <2>2
  <1>7. Evenly(d, t, p, page, at, old, new, i, pg, e)
    BY <1>1 DEF Evenly
  <1> HIDE DEF page, i, f, pg, e
  <1>8. Partway(d, s, e, s, t, set, where, fresh)
    BY <1>7, EvenPartway
  <1>9. Wrote(d, s, e, t, p, at, new)
    BY <1>7, EvenPartway
  <1>10. SameBut(e.pages[p].cells, d.pages[p].cells, at, new)
    BY <1>9 DEF Wrote
  <1>11. /\ Len(e.pages[p].cells) = Len(d.pages[p].cells)
         /\ e.pages[p].cells[at] \notin Stirred(set, where)
         /\ \A q \in 1 .. Len(d.pages[p].cells) :
               q # at => e.pages[p].cells[q] = d.pages[p].cells[q]
    BY <1>1, <1>10 DEF SameBut, page
  <1>12. ~ No /\ No \in BOOLEAN
    BY NotNo
  <1> QED
    BY <1>6, <1>8, <1>11, <1>12 DEF Turned

\* A row that is widened.
LEMMA WideKeeps ==
    ASSUME NEW d, NEW s, Good(d, s), NEW t \in Tables, Exists(d, t), Tidied(d, s[t]),
           NEW set \in Sets, NEW where, where.on = "key" => where.is \in Keys,
           NEW fresh, Orderly(d, t, set, where, fresh), IndexRight(d, s, t, fresh),
           NEW l, NEW at, NEW old, NEW new, TurnAt(d, s, t, l, at, set, where, old, new),
           ~ Need(new) <= Need(old), Need(new) # Need(old),
           NEW x, x = Walk(d, s[t][l], at, No), NEW y, y = Visited(x, t, set, where)
    PROVE  Turned(d, s, t, s[t][l], at, set, where, fresh, y)
  <1> DEFINE p == s[t][l]
             i == UpdateIndexes(d, t, new, old, p)
             f == Deleted(i, t, where)
             e == Inserted(f, t, new)
             g == Deleted(d, t, where)
             h == Inserted(g, t, new)
  <1>1. /\ l \in 1 .. Len(s[t]) /\ at \in 1 .. Len(d.pages[p].cells)
        /\ old = d.pages[p].cells[at] /\ Matches(old, where)
        /\ new = Changed(old, set)
    BY DEF TurnAt
  <1>2. at \in Nat
    <2>1. at \in 1 .. Len(d.pages[p].cells)
      BY <1>1
    <2> HIDE DEF p
    <2> QED
      BY <2>1, PlaceIsNat
  <1>3. TurnEnds(d, p, at, t, where, old, new, i, f, y)
    <2> HIDE DEF p, i, f
    <2>1. old = d.pages[p].cells[at] /\ new = Changed(old, set)
      BY <1>1
    <2>2. x = Walk(d, p, at, No) /\ y = Visited(x, t, set, where)
      BY DEF p
    <2>3. i = UpdateIndexes(d, t, new, old, p) /\ f = Deleted(i, t, where)
      BY DEF i, f
    <2> QED
      BY <1>2, <2>1, <2>2, <2>3, VisitedAs
  <1>4. /\ ~ Throws(t, new) /\ (d.index[t] # None => new.key = old.key)
        /\ Widened(d, s, h, t, set, where, fresh)
    <2>1. g = Deleted(d, t, where) /\ h = Inserted(g, t, new)
      OBVIOUS
    <2> HIDE DEF g, h, i, f, e, p
    <2> QED
      BY <2>1, WidePartway
  <1>5. i = d
    BY <1>4 DEF UpdateIndexes, WithEntry, WithoutEntries
  <1>6. e = h
    BY <1>5
  <1>7. y = Walk(h, p, at + 1, TRUE)
    <2> HIDE DEF i, f, p, g, h
    <2>1. \E broke \in BOOLEAN :
             /\ ~ broke => Throws(t, new)
             /\ y = Walk(Inserted(f, t, new), p, at + 1, broke)
      BY <1>1, <1>3 DEF TurnEnds
    <2> QED
      BY <1>4, <1>6, <2>1
  <1> HIDE DEF h, p
  <1>8. PICK u : /\ Partway(d, s, h, u, t, set, where, fresh)
                 /\ \A k \in 1 .. Len(u[t]) :
                       Hits(h.pages[u[t][k]].cells, Stirred(set, where)) = 0
    BY <1>4 DEF Widened
  <1>9. l \in 1 .. Len(u[t]) /\ u[t][l] = p
    <2>1. Grows(d, s, h, u, t) /\ Good(h, u)
      BY <1>8 DEF Partway
    <2>2. Len(u[t]) \in Nat /\ Len(s[t]) \in Nat
      BY <2>1, SpineFacts DEF Names
    <2>3. Len(s[t]) <= Len(u[t]) /\ u[t][l] = s[t][l]
      BY <1>1, <2>1 DEF Grows
    <2>4. l \in 1 .. Len(s[t])
      BY <1>1
    <2>5. l \in 1 .. Len(u[t])
      BY <2>2, <2>3, <2>4, PlaceFurther
    <2> QED
      BY <2>3, <2>5 DEF p
  <1>10. Hits(h.pages[p].cells, Stirred(set, where)) = 0
    BY <1>8, <1>9
  <1> DEFINE yes == TRUE
  <1>11. yes /\ yes \in BOOLEAN
    OBVIOUS
  <1>12. y = Walk(h, p, at + 1, yes)
    BY <1>7
  <1>13. Turned(d, s, t, p, at, set, where, fresh, y)
    <2> HIDE DEF yes
    <2> QED
      BY <1>8, <1>10, <1>11, <1>12 DEF Turned
  <1> QED
    BY <1>13 DEF p

\* A turn of the loop does what was asked for the record it looks at.
LEMMA TurnKeeps ==
    ASSUME NEW d, NEW s, Good(d, s), NEW t \in Tables, Exists(d, t), Tidied(d, s[t]),
           NEW set \in Sets, NEW where, where.on = "key" => where.is \in Keys,
           NEW fresh, Orderly(d, t, set, where, fresh), IndexRight(d, s, t, fresh),
           NEW l \in 1 .. Len(s[t]), NEW at \in 1 .. Len(d.pages[s[t][l]].cells),
           NEW x, x = Walk(d, s[t][l], at, No), NEW y, y = Visited(x, t, set, where)
    PROVE  Turned(d, s, t, s[t][l], at, set, where, fresh, y)
  <1> DEFINE old == d.pages[s[t][l]].cells[at]
             new == Changed(old, set)
  <1>1. CASE old \notin Stirred(set, where)
    BY <1>1, IdleKeeps
  <1>2. CASE old \in Stirred(set, where)
    <2>1. TurnAt(d, s, t, l, at, set, where, old, new)
      BY <1>2, TurnAtIs
    <2> HIDE DEF old, new
    <2>2. /\ old = d.pages[s[t][l]].cells[at] /\ old \in Rows /\ new \in Rows
          /\ new = ToBe(old, set, where)
      BY <2>1 DEF TurnAt
    <2>3. t \in Names
      BY DEF Names
    <2>4. s[t] # <<>>
      BY <2>3, ExistsFacts
    <2>5. Hits(Scan(d, t), {old}) # 0
      <3>1. d.pages[s[t][l]].cells[at] \in {old}
        BY <2>2
      <3> QED
        BY <2>3, <2>4, <3>1, HereAndThere
    <2>6. OrderlyAt(d, t, set, where, fresh, old)
      BY <1>2, <2>5 DEF Orderly
    <2>7. Need(new) >= Need(old)
      BY <2>2, <2>6 DEF OrderlyAt
    <2>8. Need(new) \in Nat /\ Need(old) \in Nat
      BY <2>2, NeedFacts DEF AnyCell
    <2>9. CASE Need(new) = Need(old)
      BY <2>1, <2>9, EvenKeeps
    <2>10. CASE Need(new) # Need(old)
      <3>1. ~ Need(new) <= Need(old)
        BY <2>7, <2>8, <2>10
      <3> QED
        BY <2>1, <2>10, <3>1, WideKeeps
    <2> QED
      BY <2>9, <2>10
  <1> QED
    BY <1>1, <1>2

\* The statement is in order and has not met anything that is not.
Updating(d, s, t, set, where, fresh) ==
    /\ Good(d, s) /\ Exists(d, t) /\ Tidied(d, s[t])
    /\ Orderly(d, t, set, where, fresh) /\ IndexRight(d, s, t, fresh)

\* What holds when the statement starts holds after a part of it.
LEMMA UpdatingStays ==
    ASSUME NEW d, NEW s, NEW t \in Tables, NEW set, NEW where, NEW fresh,
           Updating(d, s, t, set, where, fresh),
           NEW e, NEW u, Partway(d, s, e, u, t, set, where, fresh)
    PROVE  Updating(e, u, t, set, where, fresh)
  <1>1. /\ Good(d, s) /\ Exists(d, t) /\ Tidied(d, s[t])
        /\ Orderly(d, t, set, where, fresh) /\ IndexRight(d, s, t, fresh)
    BY DEF Updating
  <1>2. t \in Names
    BY DEF Names
  <1>3. s[t] # <<>>
    BY <1>1, <1>2, ExistsFacts
  <1>4. /\ Good(e, u) /\ Grows(d, s, e, u, t) /\ Tidied(e, u[t])
        /\ IndexRight(d, s, t, fresh) => IndexRight(e, u, t, fresh)
    BY DEF Partway
  <1>5. Exists(e, t)
    BY <1>1, <1>2, <1>4, GrowsFacts
  <1>6. Orderly(e, t, set, where, fresh)
    BY <1>1, <1>2, <1>3, OrderlyStays
  <1> QED
    BY <1>1, <1>4, <1>5, <1>6 DEF Updating

\* One change after another.
LEMMA UpdatingMore ==
    ASSUME NEW d, NEW s, NEW t \in Tables, NEW set, NEW where, NEW fresh,
           Updating(d, s, t, set, where, fresh),
           NEW e, NEW u, Partway(d, s, e, u, t, set, where, fresh),
           NEW f, NEW v, Partway(e, u, f, v, t, set, where, fresh)
    PROVE  Partway(d, s, f, v, t, set, where, fresh)
  <1>1. Good(d, s) /\ Exists(d, t) /\ Tidied(d, s[t])
    BY DEF Updating
  <1>2. t \in Names
    BY DEF Names
  <1>3. s[t] # <<>>
    BY <1>1, <1>2, ExistsFacts
  <1> QED
    BY <1>1, <1>2, <1>3, PartwayMore

\* A statement that has done nothing yet.
LEMMA UpdatingNot ==
    ASSUME NEW d, NEW s, NEW t \in Tables, NEW set, NEW where, NEW fresh,
           Updating(d, s, t, set, where, fresh)
    PROVE  Partway(d, s, d, s, t, set, where, fresh)
  <1>1. Good(d, s) /\ Exists(d, t) /\ Tidied(d, s[t])
    BY DEF Updating
  <1>2. t \in Names
    BY DEF Names
  <1>3. s[t] # <<>>
    BY <1>1, <1>2, ExistsFacts
  <1> QED
    BY <1>1, <1>2, <1>3, PartwayNot

\* A page of a table grows its table's pages, and stays among them.
LEMMA PageStays ==
    ASSUME NEW d, NEW s, Good(d, s), NEW t \in Tables, NEW l \in 1 .. Len(s[t]),
           NEW set, NEW where, NEW fresh,
           NEW e, NEW u, Partway(d, s, e, u, t, set, where, fresh)
    PROVE  l \in 1 .. Len(u[t]) /\ u[t][l] = s[t][l]
  <1>1. Good(e, u) /\ Grows(d, s, e, u, t)
    BY DEF Partway
  <1>2. Len(u[t]) \in Nat /\ Len(s[t]) \in Nat
    BY <1>1, SpineFacts DEF Names
  <1> QED
    BY <1>1, <1>2 DEF Grows

\* The loop after k of the n records of page l of a table.
TurningAt(d, s, t, l, n, k, set, where, fresh, x, f, v, at, broke) ==
    LET cells == f.pages[s[t][l]].cells
    IN /\ x = Walk(f, s[t][l], at, broke) /\ broke \in BOOLEAN
       /\ Partway(d, s, f, v, t, set, where, fresh)
       /\ broke => Hits(cells, Stirred(set, where)) = 0
       /\ ~ broke => /\ at = k + 1 /\ Len(cells) = n
                     /\ \A q \in 1 .. k : cells[q] \notin Stirred(set, where)

Turning(d, s, t, l, n, k, set, where, fresh, x) ==
    \E f, v, at, broke : TurningAt(d, s, t, l, n, k, set, where, fresh, x, f, v, at, broke)

\* One record more.
LEMMA TurningGoesOn ==
    ASSUME NEW d, NEW s, NEW t \in Tables, NEW set \in Sets,
           NEW where, where.on = "key" => where.is \in Keys, NEW fresh,
           Updating(d, s, t, set, where, fresh), NEW l \in 1 .. Len(s[t]),
           NEW n \in Nat, NEW k \in 1 .. n,
           NEW x, Turning(d, s, t, l, n, k - 1, set, where, fresh, x),
           NEW y, y = Visited(x, t, set, where)
    PROVE  Turning(d, s, t, l, n, k, set, where, fresh, y)
  <1> DEFINE p == s[t][l]
  <1>1. PICK f, v, at, broke :
           TurningAt(d, s, t, l, n, k - 1, set, where, fresh, x, f, v, at, broke)
    BY DEF Turning
  <1>2. /\ x = Walk(f, p, at, broke) /\ broke \in BOOLEAN
        /\ Partway(d, s, f, v, t, set, where, fresh)
        /\ broke => Hits(f.pages[p].cells, Stirred(set, where)) = 0
        /\ ~ broke => /\ at = k - 1 + 1 /\ Len(f.pages[p].cells) = n
                      /\ \A q \in 1 .. k - 1 : f.pages[p].cells[q] \notin Stirred(set, where)
    BY <1>1 DEF TurningAt
  <1>3. CASE broke
    <2>1. x.broke
      <3>1. x = Walk(f, p, at, broke)
        BY <1>2
      <3> HIDE DEF p
      <3>2. x.broke = broke
        BY <3>1, WalkFields
      <3> QED
        BY <1>3, <3>2
    <2>2. y = x
      BY <2>1 DEF Visited
    <2>3. TurningAt(d, s, t, l, n, k, set, where, fresh, y, f, v, at, broke)
      BY <1>2, <1>3, <2>2 DEF TurningAt
    <2> QED
      BY <2>3 DEF Turning
  <1>4. CASE ~ broke
    <2>1. at = k /\ Len(f.pages[p].cells) = n
      BY <1>2, <1>4
    <2>2. x = Walk(f, p, k, No)
      BY <1>2, <1>4, <2>1 DEF No
    <2>3. Updating(f, v, t, set, where, fresh)
      BY <1>2, UpdatingStays
    <2>4. Good(d, s)
      BY DEF Updating
    <2>5. l \in 1 .. Len(v[t]) /\ v[t][l] = p
      BY <1>2, <2>4, PageStays
    <2>6. Turned(f, v, t, v[t][l], k, set, where, fresh, y)
      <3>1. /\ Good(f, v) /\ Exists(f, t) /\ Tidied(f, v[t])
            /\ Orderly(f, t, set, where, fresh) /\ IndexRight(f, v, t, fresh)
        BY <2>3 DEF Updating
      <3>2. k \in 1 .. Len(f.pages[v[t][l]].cells)
        BY <2>1, <2>5
      <3>3. x = Walk(f, v[t][l], k, No)
        BY <2>2, <2>5
      <3> HIDE DEF p
      <3> QED
        BY <2>5, <3>1, <3>2, <3>3, TurnKeeps
    <2>7. PICK g, w, b :
             /\ y = Walk(g, p, k + 1, b) /\ b \in BOOLEAN
             /\ Partway(f, v, g, w, t, set, where, fresh)
             /\ b => Hits(g.pages[p].cells, Stirred(set, where)) = 0
             /\ ~ b => /\ Len(g.pages[p].cells) = Len(f.pages[p].cells)
                       /\ g.pages[p].cells[k] \notin Stirred(set, where)
                       /\ \A q \in 1 .. Len(f.pages[p].cells) :
                             q # k => g.pages[p].cells[q] = f.pages[p].cells[q]
      BY <2>5, <2>6 DEF Turned
    <2>8. Partway(d, s, g, w, t, set, where, fresh)
      BY <1>2, <2>7, UpdatingMore
    <2>9. ~ b => /\ Len(g.pages[p].cells) = n
                 /\ \A q \in 1 .. k : g.pages[p].cells[q] \notin Stirred(set, where)
      <3> SUFFICES ASSUME ~ b, NEW q \in 1 .. k
                   PROVE  /\ Len(g.pages[p].cells) = n
                          /\ g.pages[p].cells[q] \notin Stirred(set, where)
        BY <2>1, <2>7
      <3>1. CASE q = k
        BY <2>1, <2>7, <3>1
      <3>2. CASE q # k
        <4>1. q \in 1 .. k - 1 /\ q \in 1 .. n
          BY <3>2
        <4> QED
          BY <1>2, <1>4, <2>1, <2>7, <3>2, <4>1
      <3> QED
        BY <3>1, <3>2
    <2>10. TurningAt(d, s, t, l, n, k, set, where, fresh, y, g, w, k + 1, b)
      BY <2>7, <2>8, <2>9 DEF TurningAt
    <2> QED
      BY <2>10 DEF Turning
  <1> QED
    BY <1>2, <1>3, <1>4

\* A page after its loop: nothing is left to be changed in it.
PageDone(d, s, e, t, p, set, where, fresh) ==
    \E u : /\ Partway(d, s, e, u, t, set, where, fresh)
           /\ Hits(e.pages[p].cells, Stirred(set, where)) = 0

\* The loop over the records of a page leaves nothing of it to be changed.
LEMMA PageIsDone ==
    ASSUME NEW d, NEW s, NEW t \in Tables, NEW set \in Sets,
           NEW where, where.on = "key" => where.is \in Keys, NEW fresh,
           Updating(d, s, t, set, where, fresh), NEW l \in 1 .. Len(s[t]),
           NEW p, p = s[t][l], NEW e, e = UpdatedPage(d, t, set, where, p)
    PROVE  PageDone(d, s, e, t, p, set, where, fresh)
  <1> DEFINE n == d.pages[p].count
             X == Stirred(set, where)
  <1>1. Good(d, s) /\ Exists(d, t) /\ Tidied(d, s[t])
    BY DEF Updating
  <1>2. SpinePage(d, t, p)
    BY <1>1, SpinePageIs
  <1>3. n \in Nat /\ n = Len(d.pages[p].cells) /\ p \in 1 .. Len(d.pages)
    BY <1>2 DEF SpinePage
  <1>4. PICK z : PagePath(z, d, t, set, where, p)
    <2>1. \E k \in 1 .. Len(s[t]) : p = s[t][k]
      OBVIOUS
    <2> HIDE DEF n
    <2> QED
      BY <1>1, <1>3, <2>1, UpdatedPageGood
  <1>5. /\ z[0] = Walk(d, p, 1, No)
        /\ \A k \in 1 .. n : z[k] = Visited(z[k - 1], t, set, where)
        /\ e = z[n].db
    BY <1>4 DEF PagePath
  <1> DEFINE T == {k \in 0 .. n : Turning(d, s, t, l, n, k, set, where, fresh, z[k])}
  <1>6. 0 \in T
    <2>1. Partway(d, s, d, s, t, set, where, fresh)
      BY UpdatingNot
    <2>2. ~ No /\ No \in BOOLEAN
      BY NotNo
    <2>3. TurningAt(d, s, t, l, n, 0, set, where, fresh, z[0], d, s, 1, No)
      BY <1>3, <1>5, <2>1, <2>2 DEF TurningAt
    <2>4. 0 \in 0 .. n
      BY <1>3
    <2> QED
      BY <2>3, <2>4 DEF Turning
  <1>7. ASSUME NEW k \in 0 .. n, k \in T, k < n
        PROVE  k + 1 \in T
    <2> DEFINE m == k + 1
    <2>1. m \in 1 .. n /\ m - 1 = k /\ m \in 0 .. n
      BY <1>3, <1>7
    <2>2. Turning(d, s, t, l, n, m - 1, set, where, fresh, z[m - 1])
      BY <1>7, <2>1
    <2>3. z[m] = Visited(z[m - 1], t, set, where)
      BY <1>5, <2>1
    <2> HIDE DEF m, n
    <2>4. Turning(d, s, t, l, n, m, set, where, fresh, z[m])
      BY <1>3, <2>1, <2>2, <2>3, TurningGoesOn
    <2> QED
      BY <2>1, <2>4 DEF m
  <1> HIDE DEF T, n
  <1>8. 0 .. n \subseteq T
    BY <1>3, <1>6, <1>7, InductionUpTo
  <1>9. n \in T
    BY <1>3, <1>8
  <1>10. PICK f, v, at, broke : TurningAt(d, s, t, l, n, n, set, where, fresh, z[n], f, v, at, broke)
    BY <1>9 DEF T, Turning
  <1>11. /\ z[n] = Walk(f, p, at, broke) /\ broke \in BOOLEAN
         /\ Partway(d, s, f, v, t, set, where, fresh)
         /\ broke => Hits(f.pages[p].cells, X) = 0
         /\ ~ broke => /\ Len(f.pages[p].cells) = n
                       /\ \A q \in 1 .. n : f.pages[p].cells[q] \notin X
    BY <1>10 DEF TurningAt
  <1>12. f = e
    BY <1>5, <1>11, WalkFields
  <1>13. Hits(e.pages[p].cells, X) = 0
    <2>1. CASE broke
      BY <1>11, <1>12, <2>1
    <2>2. CASE ~ broke
      <3>1. Good(e, v) /\ Tidied(e, v[t])
        BY <1>11, <1>12 DEF Partway
      <3>2. l \in 1 .. Len(v[t]) /\ v[t][l] = p
        BY <1>1, <1>11, PageStays
      <3>3. e.pages[p].cells \in Seq(Cell(t))
        BY <3>1, <3>2, TidyPages DEF Names
      <3>4. \A q \in 1 .. Len(e.pages[p].cells) : e.pages[p].cells[q] \notin X
        BY <1>11, <1>12, <2>2
      <3> HIDE DEF X
      <3> QED
        BY <3>3, <3>4, HitsFew
    <2> QED
      BY <1>11, <2>1, <2>2
  <1> QED
    BY <1>11, <1>12, <1>13 DEF PageDone

-----------------------------------------------------------------------------
(* A search finds the entries of a key.                                    *)

\* The entries of a leaf are those of the keys up to m, in the order of the keys.
LeafOf(leaf, ix, m) ==
    /\ \A i \in 1 .. Len(leaf) :
          /\ leaf[i].row.key \in 1 .. m
          /\ \E j \in 1 .. Len(ix[leaf[i].row.key]) : leaf[i] = ix[leaf[i].row.key][j]
    /\ \A i, j \in 1 .. Len(leaf) : i < j => leaf[i].row.key <= leaf[j].row.key
    /\ \A k \in 1 .. m : ix[k] # <<>> => \E i \in 1 .. Len(leaf) : leaf[i].row.key = k

\* A leaf goes on with the entries of the next key.
LEMMA LeafGrows ==
    ASSUME NEW V, NEW ix, NEW k \in Nat \ {0}, NEW a \in Seq(V), LeafOf(a, ix, k - 1),
           ix[k] \in Seq(V), \A j \in 1 .. Len(ix[k]) : ix[k][j].row.key = k,
           NEW b, b = a \o ix[k]
    PROVE  LeafOf(b, ix, k)
  <1> DEFINE n == Len(a)
             c == ix[k]
             m == Len(c)
  <1>1. n \in Nat /\ m \in Nat /\ c \in Seq(V) /\ \A j \in 1 .. m : c[j].row.key = k
    OBVIOUS

  <1>3. /\ Len(b) = n + m
        /\ \A i \in 1 .. n : b[i] = a[i]
        /\ \A i \in 1 .. m : b[n + i] = c[i]
    <2> HIDE DEF c
    <2>1. b = a \o c
      BY DEF c
    <2> QED
      BY <1>1, <2>1, ConcatFacts
  <1>4. /\ \A i \in 1 .. n :
              /\ a[i].row.key \in 1 .. k - 1
              /\ \E j \in 1 .. Len(ix[a[i].row.key]) : a[i] = ix[a[i].row.key][j]
        /\ \A i, j \in 1 .. n : i < j => a[i].row.key <= a[j].row.key
        /\ \A l \in 1 .. k - 1 : ix[l] # <<>> => \E i \in 1 .. n : a[i].row.key = l
    BY DEF LeafOf
  <1> HIDE DEF n
  <1>5. ASSUME NEW i \in 1 .. Len(b)
        PROVE  \/ i \in 1 .. n /\ b[i] = a[i]
               \/ /\ i > n /\ i - n \in 1 .. m /\ b[i] = c[i - n]
                  /\ b[i].row.key = k
    <2>1. CASE i <= n
      BY <1>1, <1>3, <2>1
    <2>2. CASE ~ i <= n
      <3>1. i - n \in 1 .. m /\ n + (i - n) = i /\ i > n
        <4> HIDE DEF m
        <4> QED
          BY <1>1, <1>3, <2>2
      <3>2. b[i] = c[i - n]
        BY <1>3, <3>1
      <3> QED
        BY <1>1, <3>1, <3>2
    <2> QED
      BY <2>1, <2>2
  <1> HIDE DEF m
  <1>6. ASSUME NEW i \in 1 .. Len(b)
        PROVE  /\ b[i].row.key \in 1 .. k
               /\ \E j \in 1 .. Len(ix[b[i].row.key]) : b[i] = ix[b[i].row.key][j]
    <2>1. CASE i \in 1 .. n /\ b[i] = a[i]
      <3>1. /\ a[i].row.key \in 1 .. k - 1
            /\ \E j \in 1 .. Len(ix[a[i].row.key]) : a[i] = ix[a[i].row.key][j]
        BY <1>4, <2>1
      <3>2. a[i].row.key \in 1 .. k
        <4> DEFINE x == a[i].row.key
        <4>1. x \in 1 .. k - 1
          BY <3>1
        <4> HIDE DEF x
        <4>2. x \in 1 .. k
          BY <4>1
        <4> QED
          BY <4>2 DEF x
      <3> QED
        BY <2>1, <3>1, <3>2
    <2>2. CASE i - n \in 1 .. m /\ b[i] = c[i - n] /\ b[i].row.key = k
      BY <2>2 DEF m
    <2> QED
      BY <1>5, <2>1, <2>2
  <1>7. ASSUME NEW i \in 1 .. Len(b), NEW j \in 1 .. Len(b), i < j
        PROVE  b[i].row.key <= b[j].row.key
    <2>1. CASE j \in 1 .. n /\ b[j] = a[j]
      <3>1. i \in 1 .. n
        BY <1>1, <1>7, <2>1
      <3> QED
        BY <1>3, <1>4, <1>7, <2>1, <3>1
    <2>2. CASE b[j].row.key = k
      BY <1>6, <2>2
    <2> QED
      BY <1>5, <2>1, <2>2
  <1>8. ASSUME NEW l \in 1 .. k, ix[l] # <<>>
        PROVE  \E i \in 1 .. Len(b) : b[i].row.key = l
    <2>1. CASE l = k
      <3>1. m # 0
        BY <1>1, <1>8, <2>1 DEF m
      <3>2. 1 \in 1 .. m /\ n + 1 \in 1 .. Len(b)
        <4>1. m \in Nat
          BY <1>1
        <4> QED
          BY <1>1, <1>3, <3>1, <4>1
      <3>3. b[n + 1].row.key = k
        BY <1>1, <1>3, <3>2
      <3> QED
        BY <2>1, <3>2, <3>3
    <2>2. CASE l # k
      <3>1. l \in 1 .. k - 1
        BY <2>2
      <3>2. PICK i \in 1 .. n : a[i].row.key = l
        BY <1>4, <1>8, <3>1
      <3>3. i \in 1 .. Len(b)
        BY <1>1, <1>3
      <3> QED
        BY <1>3, <3>2, <3>3
    <2> QED
      BY <2>1, <2>2
  <1> QED
    BY <1>6, <1>7, <1>8 DEF LeafOf

\* An index has under each key the entries of that key.
ByKey(ix) == \A k \in Keys : \A i \in 1 .. Len(ix[k]) : ix[k][i].row.key = k

\* The leaf of an index has all its entries, in the order of their keys.
LEMMA LeafIsSorted ==
    ASSUME NEW V, NEW ix, \A k \in Keys : ix[k] \in Seq(V), ByKey(ix)
    PROVE  Leaf(ix) \in Seq(V) /\ LeafOf(Leaf(ix), ix, MaxKey)
  <1> DEFINE n == MaxKey
  <1>1. n \in Nat
    BY BoundsAreNaturals
  <1>2. PICK h : LeafPath(h, ix, V)
    BY LeafSteps
  <1>3. /\ h[0] = <<>>
        /\ \A k \in 1 .. n : h[k] = h[k - 1] \o ix[k]
        /\ \A k \in 0 .. n : h[k] \in Seq(V)
        /\ Leaf(ix) = h[n]
    BY <1>2 DEF LeafPath
  <1> DEFINE T == {k \in 0 .. n : LeafOf(h[k], ix, k)}
  <1>4. 0 \in T
    <2>1. LeafOf(<<>>, ix, 0)
      BY DEF LeafOf
    <2> QED
      BY <1>1, <1>3, <2>1
  <1>5. ASSUME NEW k \in 0 .. n, k \in T, k < n
        PROVE  k + 1 \in T
    <2> DEFINE m == k + 1
               a == h[k]
               b == h[m]
    <2>1. m \in 1 .. n /\ m - 1 = k /\ m \in 0 .. n /\ m \in Keys /\ m \in Nat \ {0}
      BY <1>1, <1>5 DEF Keys
    <2>2. b = a \o ix[m] /\ a \in Seq(V) /\ LeafOf(a, ix, m - 1)
      BY <1>3, <1>5, <2>1
    <2>3. ix[m] \in Seq(V) /\ \A j \in 1 .. Len(ix[m]) : ix[m][j].row.key = m
      BY <2>1 DEF ByKey
    <2> HIDE DEF m, a, b
    <2>4. LeafOf(b, ix, m)
      BY <2>1, <2>2, <2>3, LeafGrows
    <2> QED
      BY <2>1, <2>4 DEF m, b
  <1> HIDE DEF T
  <1>6. 0 .. n \subseteq T
    BY <1>1, <1>4, <1>5, InductionUpTo
  <1>7. n \in T
    BY <1>1, <1>6
  <1> QED
    BY <1>1, <1>3, <1>7 DEF T

\* What the search answers when the entries are in order: none if there is no
\* entry of the key, or one of them.
Answers(y, leaf, key) ==
    \/ y = <<>> /\ \A i \in 1 .. Len(leaf) : leaf[i].row.key # key
    \/ \E i \in 1 .. Len(leaf) : y = <<leaf[i]>> /\ leaf[i].row.key = key

Between(leaf, key, l, r) == \A i \in 1 .. Len(leaf) : leaf[i].row.key = key => l <= i /\ i <= r

Sorted(leaf) ==
    /\ \A i \in 1 .. Len(leaf) : leaf[i].row.key \in Nat
    /\ \A i, j \in 1 .. Len(leaf) : i < j => leaf[i].row.key <= leaf[j].row.key

\* A bisection of entries in order answers one of the key, or none if there
\* is none.
LEMMA SearchAnswers ==
    ASSUME NEW V, NEW leaf \in Seq(V), Sorted(leaf), NEW key \in Nat,
           NEW g, Searches(g, leaf, key)
    PROVE  Answers(g[<<1, Len(leaf)>>], leaf, key)
  <1> DEFINE L == Len(leaf)
             T == {k \in 0 .. L :
                      \A l \in 1 .. L + 1, r \in 0 .. L :
                         r - l + 1 <= k /\ Between(leaf, key, l, r)
                         => Answers(g[<<l, r>>], leaf, key)}
  <1>1. L \in Nat /\ \A i \in 1 .. L : leaf[i].row.key \in Nat
    BY DEF Sorted
  <1>2. ASSUME NEW l \in 1 .. L + 1, NEW r \in 0 .. L, r < l, Between(leaf, key, l, r)
        PROVE  Answers(g[<<l, r>>], leaf, key)
    <2>1. <<l, r>> \in (1 .. L + 1) \X (0 .. L) /\ <<l, r>>[1] = l /\ <<l, r>>[2] = r
      OBVIOUS
    <2>2. r - l + 1 < 1
      BY <1>1, <1>2
    <2>3. g[<<l, r>>] = <<>>
      BY <2>1, <2>2 DEF Searches
    <2>4. \A i \in 1 .. L : leaf[i].row.key # key
      BY <1>1, <1>2 DEF Between
    <2> QED
      BY <2>3, <2>4 DEF Answers
  <1>3. ASSUME NEW l \in 1 .. L + 1, NEW r \in 0 .. L, l <= r, Between(leaf, key, l, r),
               NEW m, m = (l + r) \div 2
        PROVE  /\ m \in 1 .. L /\ m \in l .. r
               /\ m + 1 \in 1 .. L + 1 /\ m - 1 \in 0 .. L
               /\ r - (m + 1) < r - l /\ (m - 1) - l < r - l
               /\ \/ Answers(g[<<l, r>>], leaf, key)
                  \/ Between(leaf, key, m + 1, r) /\ g[<<l, r>>] = g[<<m + 1, r>>]
                  \/ Between(leaf, key, l, m - 1) /\ g[<<l, r>>] = g[<<l, m - 1>>]
    <2>1. /\ m \in l .. r /\ m \in 1 .. L /\ m + 1 \in 1 .. L + 1 /\ m - 1 \in 0 .. L
          /\ r - (m + 1) < r - l /\ (m - 1) - l < r - l
      <3> HIDE DEF L
      <3> QED
        BY <1>1, <1>3, Middle, SMTT(30)
    <2>2. <<l, r>> \in (1 .. L + 1) \X (0 .. L) /\ <<l, r>>[1] = l /\ <<l, r>>[2] = r
      OBVIOUS
    <2>3. ~ (r - l + 1 < 1)
      BY <1>1, <1>3
    <2>4. g[<<l, r>>] = IF leaf[m].row.key = key THEN <<leaf[m]>>
                        ELSE IF leaf[m].row.key < key THEN g[<<m + 1, r>>]
                        ELSE g[<<l, m - 1>>]
      BY <1>3, <2>2, <2>3 DEF Searches
    <2>5. CASE leaf[m].row.key = key
      BY <2>1, <2>4, <2>5 DEF Answers
    <2>6. CASE leaf[m].row.key < key
      <3>1. g[<<l, r>>] = g[<<m + 1, r>>]
        BY <1>1, <2>1, <2>4, <2>6, SMTT(30)
      <3>2. Between(leaf, key, m + 1, r)
        <4> SUFFICES ASSUME NEW i \in 1 .. L, leaf[i].row.key = key
                     PROVE  m + 1 <= i /\ i <= r
          BY DEF Between
        <4>1. l <= i /\ i <= r
          BY <1>3 DEF Between
        <4>2. ~ i < m /\ i # m
          BY <1>1, <2>1, <2>6 DEF Sorted
        <4> QED
          BY <2>1, <4>1, <4>2
      <3> QED
        BY <2>1, <3>1, <3>2
    <2>7. CASE leaf[m].row.key > key
      <3>1. g[<<l, r>>] = g[<<l, m - 1>>]
        BY <1>1, <2>1, <2>4, <2>7, SMTT(30)
      <3>2. Between(leaf, key, l, m - 1)
        <4> SUFFICES ASSUME NEW i \in 1 .. L, leaf[i].row.key = key
                     PROVE  l <= i /\ i <= m - 1
          BY DEF Between
        <4>1. l <= i /\ i <= r
          BY <1>3 DEF Between
        <4>2. leaf[i].row.key \in Nat /\ leaf[m].row.key \in Nat
              /\ ~ leaf[m].row.key <= leaf[i].row.key
          BY <1>1, <2>1, <2>7, SMTT(30)
        <4>3. ~ m < i /\ i # m
          BY <2>1, <2>7, <4>2 DEF Sorted
        <4> QED
          BY <2>1, <4>1, <4>3
      <3> QED
        BY <2>1, <3>1, <3>2
    <2> QED
      BY <1>1, <2>1, <2>5, <2>6, <2>7
  <1> HIDE DEF L
  <1>4. 0 \in T
    <2>1. \A l \in 1 .. L + 1, r \in 0 .. L : r - l + 1 <= 0 => r < l
      BY <1>1
    <2> QED
      BY <1>1, <1>2, <2>1
  <1>5. ASSUME NEW k \in 0 .. L, k \in T, k < L
        PROVE  k + 1 \in T
    <2>1. ASSUME NEW l \in 1 .. L + 1, NEW r \in 0 .. L, r - l + 1 <= k + 1,
                 Between(leaf, key, l, r)
          PROVE  Answers(g[<<l, r>>], leaf, key)
      <3>1. CASE r < l
        BY <1>2, <2>1, <3>1
      <3>2. CASE ~ r < l
        <4> DEFINE m == (l + r) \div 2
        <4>0. l <= r
          BY <1>1, <3>2
        <4>1. /\ m \in 1 .. L /\ m + 1 \in 1 .. L + 1 /\ m - 1 \in 0 .. L
              /\ r - (m + 1) < r - l /\ (m - 1) - l < r - l
              /\ \/ Answers(g[<<l, r>>], leaf, key)
                 \/ Between(leaf, key, m + 1, r) /\ g[<<l, r>>] = g[<<m + 1, r>>]
                 \/ Between(leaf, key, l, m - 1) /\ g[<<l, r>>] = g[<<l, m - 1>>]
          BY <1>3, <2>1, <4>0
        <4> HIDE DEF m
        <4>2. r - (m + 1) + 1 <= k /\ (m - 1) - l + 1 <= k
          <5> HIDE DEF T
          <5> QED
            BY <1>1, <2>1, <4>1
        <4>3. \A a \in 1 .. L + 1, b \in 0 .. L :
                 b - a + 1 <= k /\ Between(leaf, key, a, b) => Answers(g[<<a, b>>], leaf, key)
          BY <1>5
        <4> HIDE DEF T
        <4> QED
          BY <4>1, <4>2, <4>3
      <3> QED
        BY <3>1, <3>2
    <2>2. k + 1 \in 0 .. L
      BY <1>1, <1>5
    <2> QED
      BY <2>1, <2>2
  <1>6. L \in T
    <2> HIDE DEF T
    <2>1. 0 .. L \subseteq T
      BY <1>1, <1>4, <1>5, InductionUpTo
    <2> QED
      BY <1>1, <2>1
  <1>7. 1 \in 1 .. L + 1 /\ L \in 0 .. L /\ L - 1 + 1 <= L
    BY <1>1
  <1>8. Between(leaf, key, 1, L)
    BY <1>1 DEF Between, L
  <1> QED
    BY <1>6, <1>7, <1>8 DEF L

\* What an index finds for a key is among its entries of the key, if it has any.
Finds(ix, key) ==
    \/ Bisect(ix, key, 1) = <<>> /\ ix[key] = <<>>
    \/ \E j \in 1 .. Len(ix[key]) : Bisect(ix, key, 1) = <<ix[key][j]>>

\* The search of an index finds an entry of the key, if the index has one.
LEMMA BisectFinds ==
    ASSUME NEW V, NEW ix, \A k \in Keys : ix[k] \in Seq(V), ByKey(ix), NEW key \in Keys
    PROVE  Finds(ix, key)
  <1> DEFINE leaf == Leaf(ix)
  <1>1. leaf \in Seq(V) /\ LeafOf(leaf, ix, MaxKey)
    BY LeafIsSorted
  <1>2. PICK g : Searches(g, leaf, key) /\ Bisect(ix, key, 1) = g[<<1, Len(leaf)>>]
    BY <1>1, BisectSearch
  <1> HIDE DEF leaf
  <1>3. Keys = 1 .. MaxKey /\ MaxKey \in Nat /\ key \in Nat
    BY BoundsAreNaturals DEF Keys
  <1>4. Sorted(leaf)
    <2>1. \A i \in 1 .. Len(leaf) : leaf[i].row.key \in 1 .. MaxKey
      BY <1>1 DEF LeafOf
    <2>2. \A i \in 1 .. Len(leaf) : leaf[i].row.key \in Nat
      BY <1>3, <2>1
    <2> QED
      BY <1>1, <2>2 DEF Sorted, LeafOf
  <1>5. Answers(g[<<1, Len(leaf)>>], leaf, key)
    BY <1>1, <1>2, <1>3, <1>4, SearchAnswers
  <1> DEFINE y == Bisect(ix, key, 1)
  <1>6. CASE y = <<>> /\ \A i \in 1 .. Len(leaf) : leaf[i].row.key # key
    <2>1. ix[key] = <<>>
      BY <1>1, <1>3, <1>6 DEF LeafOf
    <2> QED
      BY <1>6, <2>1 DEF Finds
  <1>7. CASE \E i \in 1 .. Len(leaf) : y = <<leaf[i]>> /\ leaf[i].row.key = key
    BY <1>1, <1>7 DEF LeafOf, Finds
  <1> QED
    BY <1>2, <1>5, <1>6, <1>7 DEF Answers

\* What a statement's condition finds in an index that is there.
LEMMA FoundIs ==
    ASSUME NEW d, NEW s, Good(d, s), NEW t \in Names, d.index[t] # None,
           NEW where, where.on = "key", where.is \in Keys
    PROVE  Finds(d.index[t], where.is) /\ Found(d, t, where) = Bisect(d.index[t], where.is, 1)
  <1> DEFINE ix == d.index[t]
             key == where.is
  <1>1. /\ \A k \in Keys :
              /\ ix[k] \in Seq(Hint)
              /\ \A i \in 1 .. Len(ix[k]) : ix[k][i].row \in Keyed(k)
    BY IndexFacts
  <1> HIDE DEF ix
  <1>2. ByKey(ix)
    BY <1>1 DEF ByKey, Keyed
  <1>3. Finds(ix, key)
    <2> HIDE DEF key
    <2>1. key \in Keys
      BY DEF key
    <2> QED
      BY <1>1, <1>2, <2>1, BisectFinds
  <1>4. Found(d, t, where) = Bisect(ix, key, 1)
    BY DEF Found, Lookup, ix
  <1> QED
    BY <1>3, <1>4 DEF ix

-----------------------------------------------------------------------------
(* The loop over the pages visited.                                        *)

\* Every page of the spine with a record in X is among those of c.
Covers(d, sp, c, X) ==
    \A k \in 1 .. Len(sp) : Hits(d.pages[sp[k]].cells, X) # 0 => \E i \in 1 .. Len(c) : c[i] = sp[k]

\* A statement visits every page with a record that its condition matches.
LEMMA VisitsCover ==
    ASSUME NEW d, NEW s, Good(d, s), NEW t, Exists(d, t), Tidied(d, s[t]),
           NEW where, where.on = "key" => where.is \in Keys,
           NEW fresh, IndexRight(d, s, t, fresh)
    PROVE  Covers(d, s[t], Visits(d, t, where), Taken(where))
  <1> DEFINE sp == s[t]
             hint == Found(d, t, where)
             c == Visits(d, t, where)
             M == Taken(where)
  <1>1. t \in Names /\ sp # <<>>
    BY EntryFacts
  <1>2. CASE hint = <<>>
    <2> DEFINE w == Whole(d.pages, sp)
    <2>1. /\ Len(w) \in Nat /\ Len(w) >= Len(sp) /\ Len(sp) \in Nat
          /\ \A k \in 1 .. Len(sp) : w[k] = sp[k]
      BY <1>1, WholeFacts
    <2>2. c = w
      BY <1>2, ChainIs DEF Visits
    <2> HIDE DEF w, c, sp
    <2>3. \A k \in 1 .. Len(sp) : k \in 1 .. Len(c) /\ c[k] = sp[k]
      BY <2>1, <2>2
    <2> QED
      BY <2>3 DEF Covers, sp, c
  <1>3. CASE hint # <<>>
    <2> DEFINE key == where.is
               ix == d.index[t]
    <2>1. ix # None /\ where.on = "key" /\ key \in Keys
      BY <1>3 DEF Found
    <2>2. Finds(ix, key) /\ hint = Bisect(ix, key, 1)
      BY <1>1, <2>1, FoundIs
    <2>3. RightAt(d, sp, t, key, fresh)
      BY <2>1 DEF IndexRight
    <2>4. PICK j \in 1 .. Len(ix[key]) : hint = <<ix[key][j]>>
      BY <1>3, <2>2 DEF Finds
    <2>5. ix[key] # <<>>
      <3>1. ix[key] \in Seq(Hint)
        BY <1>1, <2>1, IndexFacts
      <3> QED
        BY <2>4, <3>1
    <2>6. /\ Hits(Scan(d, t), Keyed(key)) = 1 /\ Len(ix[key]) = 1
          /\ \E l \in 1 .. Len(sp) : /\ ix[key][1].page = sp[l]
                                     /\ Hits(d.pages[sp[l]].cells, Keyed(key)) # 0
      BY <2>3, <2>5 DEF RightAt
    <2>7. PICK l \in 1 .. Len(sp) : /\ ix[key][1].page = sp[l]
                                    /\ Hits(d.pages[sp[l]].cells, Keyed(key)) # 0
      BY <2>6
    <2>8. c = <<sp[l]>>
      <3>1. j = 1
        BY <2>6
      <3>2. hint[1] = ix[key][1]
        BY <2>4, <3>1
      <3> QED
        BY <1>3, <2>7, <3>2 DEF Visits
    <2>9. Taken(where) \subseteq Keyed(key)
      <3> SUFFICES ASSUME NEW r \in Taken(where) PROVE r \in Keyed(key)
        OBVIOUS
      <3>1. r \in AnyCell /\ r[where.on] = where.is
        BY <2>1 DEF Taken, Matches
      <3> QED
        BY <2>1, <3>1 DEF Keyed
    <2>10. ASSUME NEW k \in 1 .. Len(sp), Hits(d.pages[sp[k]].cells, M) # 0
           PROVE  k = l
      <3> SUFFICES ASSUME k # l PROVE FALSE
        OBVIOUS
      <3> DEFINE K == Keyed(key)
                 x == Hits(d.pages[sp[k]].cells, K)
                 y == Hits(d.pages[sp[l]].cells, K)
                 z == Hits(d.pages[sp[k]].cells, M)
      <3>1. FewIn(d, sp, K, 1)
        <4>1. FewIn(d, sp, K, Hits(Scan(d, t), K))
          BY <1>1, ScanFew
        <4> QED
          BY <2>6, <4>1
      <3>2. x + y <= 1 /\ x \in Nat /\ y \in Nat
        BY <3>1 DEF FewIn
      <3>3. d.pages[sp[k]].cells \in Seq(Cell(t))
        BY <1>1, TidyPages
      <3>4. z <= x /\ z \in Nat
        <4> DEFINE cells == d.pages[sp[k]].cells
        <4> HIDE DEF cells, K, M
        <4>1. M \subseteq K /\ cells \in Seq(Cell(t))
          BY <2>9, <3>3 DEF K, M, cells
        <4>2. Hits(cells, M) <= Hits(cells, K) /\ Hits(cells, M) \in Nat
          BY <4>1, HitsLess, HitsFacts
        <4> QED
          BY <4>2 DEF cells
      <3>5. z # 0 /\ y # 0
        BY <2>7, <2>10
      <3> HIDE DEF x, y, z
      <3> QED
        BY <3>2, <3>4, <3>5
    <2>11. Len(c) = 1 /\ c[1] = sp[l]
      BY <2>8
    <2> HIDE DEF c
    <2> QED
      BY <2>10, <2>11 DEF Covers, c
  <1> QED
    BY <1>2, <1>3

\* A page with nothing left to be changed keeps nothing.
LEMMA StaysFree ==
    ASSUME NEW e, NEW u, Good(e, u), NEW t \in Tables, NEW set, NEW where, NEW fresh,
           NEW f, NEW v, Partway(e, u, f, v, t, set, where, fresh),
           NEW n \in 1 .. Len(u[t]), Hits(e.pages[u[t][n]].cells, Stirred(set, where)) = 0
    PROVE  Hits(f.pages[u[t][n]].cells, Stirred(set, where)) = 0
  <1>1. n \in 1 .. Len(v[t]) /\ v[t][n] = u[t][n]
    BY PageStays
  <1> QED
    BY <1>1 DEF Partway

\* A page that the statement visits, when it comes to it.
PageTurn(d, s, e, u, f, t, p, set, where, fresh) ==
    \E v : /\ Partway(e, u, f, v, t, set, where, fresh)
           /\ (\E l \in 1 .. Len(s[t]) : p = s[t][l])
              => Hits(f.pages[p].cells, Stirred(set, where)) = 0

\* A page of the chain, or one that delete has emptied, leaves the statement
\* in order.
LEMMA PageTurnIs ==
    ASSUME NEW d, NEW s, NEW t \in Tables, NEW set \in Sets,
           NEW where, where.on = "key" => where.is \in Keys, NEW fresh,
           Updating(d, s, t, set, where, fresh),
           NEW e, NEW u, Partway(d, s, e, u, t, set, where, fresh),
           NEW p \in 1 .. Len(d.pages),
           \/ \E l \in 1 .. Len(s[t]) : p = s[t][l]
           \/ d.pages[p].count = 0 /\ \A l \in 1 .. Len(s[t]) : p # s[t][l],
           NEW f, f = UpdatedPage(e, t, set, where, p)
    PROVE  PageTurn(d, s, e, u, f, t, p, set, where, fresh)
  <1>1. Updating(e, u, t, set, where, fresh)
    BY UpdatingStays
  <1>2. Good(d, s) /\ t \in Names
    BY DEF Updating, Names
  <1>3. CASE \E l \in 1 .. Len(s[t]) : p = s[t][l]
    <2>1. PICK l \in 1 .. Len(s[t]) : p = s[t][l]
      BY <1>3
    <2>2. l \in 1 .. Len(u[t]) /\ u[t][l] = p
      BY <1>2, <2>1, PageStays
    <2>3. PageDone(e, u, f, t, p, set, where, fresh)
      BY <1>1, <2>2, PageIsDone
    <2> QED
      BY <2>3 DEF PageDone, PageTurn
  <1>4. CASE d.pages[p].count = 0 /\ \A l \in 1 .. Len(s[t]) : p # s[t][l]
    <2>1. Good(e, u) /\ Grows(d, s, e, u, t)
      BY DEF Partway
    <2>2. e.pages[p] = d.pages[p] /\ Len(d.pages) <= Len(e.pages)
      BY <1>2, <1>4, <2>1, GrowsFacts
    <2>3. p \in 1 .. Len(e.pages)
      <3>1. Len(d.pages) \in Nat /\ Len(e.pages) \in Nat
        BY <1>2, <2>1, DbFields DEF Good
      <3> QED
        BY <2>2, <3>1
    <2>4. e.pages[p].count = 0
      BY <1>4, <2>2
    <2>5. PICK z : PagePath(z, e, t, set, where, p)
      <3>1. Exists(e, t)
        BY <1>1 DEF Updating
      <3> QED
        BY <2>1, <2>3, <2>4, <3>1, UpdatedPageGood
    <2>6. z[0] = Walk(e, p, 1, No) /\ f = z[0].db
      BY <2>4, <2>5 DEF PagePath
    <2>7. f = e
      BY <2>6, WalkFields
    <2>8. Partway(e, u, e, u, t, set, where, fresh)
      BY <1>1, UpdatingNot
    <2> QED
      BY <1>4, <2>7, <2>8 DEF PageTurn
  <1> QED
    BY <1>3, <1>4

\* The statement after k of the pages it visits.
Looping(d, s, t, c, set, where, fresh, k, e) ==
    \E u : /\ Partway(d, s, e, u, t, set, where, fresh)
           /\ \A j \in 1 .. k : (\E l \in 1 .. Len(s[t]) : c[j] = s[t][l])
                                => Hits(e.pages[c[j]].cells, Stirred(set, where)) = 0

\* The statement goes on with the next page it visits.
LEMMA LoopingGoesOn ==
    ASSUME NEW d, NEW s, NEW t \in Tables, NEW set \in Sets,
           NEW where, where.on = "key" => where.is \in Keys, NEW fresh,
           Updating(d, s, t, set, where, fresh),
           NEW c, NEW k \in Nat \ {0}, c[k] \in 1 .. Len(d.pages),
           \/ \E l \in 1 .. Len(s[t]) : c[k] = s[t][l]
           \/ d.pages[c[k]].count = 0 /\ \A l \in 1 .. Len(s[t]) : c[k] # s[t][l],
           NEW e, Looping(d, s, t, c, set, where, fresh, k - 1, e),
           NEW f, f = UpdatedPage(e, t, set, where, c[k])
    PROVE  Looping(d, s, t, c, set, where, fresh, k, f)
  <1> DEFINE X == Stirred(set, where)
  <1>1. PICK u : /\ Partway(d, s, e, u, t, set, where, fresh)
                 /\ \A j \in 1 .. k - 1 : (\E l \in 1 .. Len(s[t]) : c[j] = s[t][l])
                                          => Hits(e.pages[c[j]].cells, X) = 0
    BY DEF Looping
  <1>2. Good(d, s)
    BY DEF Updating
  <1>3. PageTurn(d, s, e, u, f, t, c[k], set, where, fresh)
    <2> DEFINE p == c[k]
    <2>1. /\ p \in 1 .. Len(d.pages) /\ f = UpdatedPage(e, t, set, where, p)
          /\ \/ \E l \in 1 .. Len(s[t]) : p = s[t][l]
             \/ d.pages[p].count = 0 /\ \A l \in 1 .. Len(s[t]) : p # s[t][l]
      OBVIOUS
    <2> HIDE DEF p
    <2>2. PageTurn(d, s, e, u, f, t, p, set, where, fresh)
      BY <1>1, <2>1, PageTurnIs
    <2> QED
      BY <2>2 DEF p
  <1>4. PICK v : /\ Partway(e, u, f, v, t, set, where, fresh)
                 /\ (\E l \in 1 .. Len(s[t]) : c[k] = s[t][l])
                    => Hits(f.pages[c[k]].cells, X) = 0
    BY <1>3 DEF PageTurn
  <1>5. Partway(d, s, f, v, t, set, where, fresh)
    BY <1>1, <1>4, UpdatingMore
  <1>6. ASSUME NEW j \in 1 .. k, \E l \in 1 .. Len(s[t]) : c[j] = s[t][l]
        PROVE  Hits(f.pages[c[j]].cells, X) = 0
    <2>1. CASE j = k
      BY <1>4, <1>6, <2>1
    <2>2. CASE j # k
      <3>1. j \in 1 .. k - 1
        BY <2>2
      <3>2. PICK l \in 1 .. Len(s[t]) : c[j] = s[t][l]
        BY <1>6
      <3>3. l \in 1 .. Len(u[t]) /\ u[t][l] = c[j]
        BY <1>1, <1>2, <3>2, PageStays
      <3>4. Hits(e.pages[u[t][l]].cells, X) = 0
        BY <1>1, <3>1, <3>2, <3>3
      <3>5. Good(e, u)
        BY <1>1 DEF Partway
      <3>6. Hits(f.pages[u[t][l]].cells, X) = 0
        BY <1>4, <3>3, <3>4, <3>5, StaysFree
      <3> QED
        BY <3>3, <3>6
    <2> QED
      BY <2>1, <2>2
  <1> QED
    BY <1>5, <1>6 DEF Looping

\* A statement has done what was asked: nothing is left to be changed.
Done(d, s, e, t, set, where, fresh) ==
    \E u : /\ Partway(d, s, e, u, t, set, where, fresh)
           /\ Hits(Scan(e, t), Stirred(set, where)) = 0

\* UPDATE changes every row that it is asked to change.
LEMMA UpdatedIsDone ==
    ASSUME NEW d, NEW s, NEW t \in Tables, NEW set \in Sets,
           NEW where, where.on = "key" => where.is \in Keys, NEW fresh,
           Updating(d, s, t, set, where, fresh), NEW e, e = Updated(d, t, set, where)
    PROVE  Done(d, s, e, t, set, where, fresh)
  <1> DEFINE c == Visits(d, t, where)
             n == Len(c)
             X == Stirred(set, where)
  <1>1. /\ Good(d, s) /\ Exists(d, t) /\ Tidied(d, s[t]) /\ IndexRight(d, s, t, fresh)
    BY DEF Updating
  <1>2. /\ c \in Seq(Nat)
        /\ \A i \in 1 .. n :
              /\ c[i] \in 1 .. Len(d.pages)
              /\ \/ \E k \in 1 .. Len(s[t]) : c[i] = s[t][k]
                 \/ d.pages[c[i]].count = 0 /\ \A k \in 1 .. Len(s[t]) : c[i] # s[t][k]
    BY <1>1, VisitsFacts
  <1>3. Covers(d, s[t], c, Taken(where))
    BY <1>1, VisitsCover
  <1>4. PICK z : TablePath(z, d, t, set, where)
    BY <1>1, UpdatedGood
  <1>5. /\ z[0] = d
        /\ \A k \in 1 .. n : z[k] = UpdatedPage(z[k - 1], t, set, where, c[k])
        /\ e = z[n]
    BY <1>4 DEF TablePath
  <1> HIDE DEF c
  <1>6. n \in Nat
    BY <1>2
  <1> DEFINE T == {k \in 0 .. n : Looping(d, s, t, c, set, where, fresh, k, z[k])}
  <1>7. 0 \in T
    <2>1. Partway(d, s, d, s, t, set, where, fresh)
      BY UpdatingNot
    <2>2. Looping(d, s, t, c, set, where, fresh, 0, d)
      BY <2>1 DEF Looping
    <2> QED
      BY <1>5, <1>6, <2>2
  <1>8. ASSUME NEW k \in 0 .. n, k \in T, k < n
        PROVE  k + 1 \in T
    <2> DEFINE m == k + 1
               x == z[k]
               y == z[m]
    <2>1. m \in 1 .. n /\ m - 1 = k /\ m \in 0 .. n /\ m \in Nat \ {0}
      BY <1>6, <1>8
    <2>2. Looping(d, s, t, c, set, where, fresh, m - 1, x)
      BY <1>8, <2>1
    <2>3. y = UpdatedPage(x, t, set, where, c[m])
      BY <1>5, <2>1
    <2> HIDE DEF m, x, y
    <2>4. /\ c[m] \in 1 .. Len(d.pages)
          /\ \/ \E l \in 1 .. Len(s[t]) : c[m] = s[t][l]
             \/ d.pages[c[m]].count = 0 /\ \A l \in 1 .. Len(s[t]) : c[m] # s[t][l]
      BY <1>2, <2>1
    <2>5. Looping(d, s, t, c, set, where, fresh, m, y)
      BY <2>1, <2>2, <2>3, <2>4, LoopingGoesOn
    <2> QED
      BY <2>1, <2>5 DEF m, y
  <1> HIDE DEF T, n
  <1>9. 0 .. n \subseteq T
    BY <1>6, <1>7, <1>8, InductionUpTo
  <1>10. Looping(d, s, t, c, set, where, fresh, n, e)
    <2>1. n \in T
      BY <1>6, <1>9
    <2> QED
      BY <1>5, <2>1 DEF T
  <1>11. PICK u : /\ Partway(d, s, e, u, t, set, where, fresh)
                  /\ \A j \in 1 .. n : (\E l \in 1 .. Len(s[t]) : c[j] = s[t][l])
                                       => Hits(e.pages[c[j]].cells, X) = 0
    BY <1>10 DEF Looping
  <1>12. Good(e, u) /\ u[t] # <<>> /\ Tidied(e, u[t])
    BY <1>11 DEF Partway
  <1>13. ASSUME NEW k \in 1 .. Len(u[t])
         PROVE  Hits(e.pages[u[t][k]].cells, X) = 0
    <2> SUFFICES ASSUME Hits(e.pages[u[t][k]].cells, X) # 0 PROVE FALSE
      OBVIOUS
    <2>1. k <= Len(s[t]) /\ Hits(d.pages[s[t][k]].cells, X) # 0
      BY <1>11 DEF Partway
    <2>2. Len(s[t]) \in Nat /\ Len(u[t]) \in Nat
      BY <1>1, <1>12, SpineFacts DEF Names
    <2>3. k \in 1 .. Len(s[t])
      BY <2>1, <2>2
    <2>4. u[t][k] = s[t][k]
      BY <1>1, <1>11, <2>3, PageStays
    <2>5. Hits(d.pages[s[t][k]].cells, Taken(where)) # 0
      <3> DEFINE cells == d.pages[s[t][k]].cells
                 M == Taken(where)
      <3>1. cells \in Seq(Cell(t))
        BY <1>1, <2>3, TidyPages DEF Names
      <3>2. X \subseteq M
        BY DEF Stirred, Taken, ToBe
      <3>3. Hits(cells, X) # 0
        BY <2>1
      <3> HIDE DEF cells, M, X
      <3>4. Hits(cells, X) <= Hits(cells, M) /\ Hits(cells, X) \in Nat /\ Hits(cells, M) \in Nat
        BY <3>1, <3>2, HitsLess, HitsFacts
      <3>5. Hits(cells, M) # 0
        BY <3>3, <3>4
      <3> QED
        BY <3>5 DEF cells, M
    <2>6. PICK i \in 1 .. Len(c) : c[i] = s[t][k]
      BY <1>3, <2>3, <2>5 DEF Covers
    <2>7. Hits(e.pages[c[i]].cells, X) = 0
      BY <1>11, <2>3, <2>6 DEF n
    <2> QED
      BY <2>4, <2>6, <2>7
  <1>14. Hits(Scan(e, t), X) = 0
    <2>1. FewIn(e, u[t], X, Hits(Scan(e, t), X))
      BY <1>12, ScanFew DEF Names
    <2> QED
      BY <1>13, <2>1 DEF FewIn
  <1> QED
    BY <1>11, <1>14 DEF Done

-----------------------------------------------------------------------------
(* What a statement asks for, counted.                                     *)

\* How often each row is in a sequence.
Tally(c) == [r \in Rows |-> Hits(c, {r})]

\* A row is in the table when a scan finds it.
LEMMA TallyFacts ==
    ASSUME NEW c \in Seq(Rows), NEW rows, rows = Tally(c)
    PROVE  /\ \A r \in Rows : rows[r] = Hits(c, {r}) /\ rows[r] \in Nat
           /\ \A r \in Rows : Hits(c, {r}) # 0 => rows[r] > 0
           /\ \A i \in 1 .. Len(c) : c[i] \in Rows /\ rows[c[i]] > 0
  <1>1. \A r \in Rows : rows[r] = Hits(c, {r}) /\ rows[r] \in Nat
    <2>1. \A r \in Rows : Hits(c, {r}) \in Nat
      BY HitsFacts
    <2> QED
      BY <2>1 DEF Tally
  <1>2. \A r \in Rows : Hits(c, {r}) # 0 => rows[r] > 0
    BY <1>1
  <1>3. ASSUME NEW i \in 1 .. Len(c)
        PROVE  c[i] \in Rows /\ rows[c[i]] > 0
    <2>1. c[i] \in Rows
      OBVIOUS
    <2> DEFINE r == c[i]
               S == {r}
    <2>2. c[i] \in S
      OBVIOUS
    <2> HIDE DEF S
    <2>3. Hits(c, S) # 0
      BY <2>2, HitsFew
    <2> QED
      BY <1>2, <2>1, <2>3 DEF S
  <1> QED
    BY <1>1, <1>2, <1>3

KeyThere(rows, k) == {q \in There(rows) : q.key = k}

\* The rows of a key, counted among the rows there or among all records.
LEMMA KeyHits ==
    ASSUME NEW c \in Seq(Rows), NEW rows, rows = Tally(c), NEW k
    PROVE  Hits(c, KeyThere(rows, k)) = Hits(c, Keyed(k))
  <1>1. \A i \in 1 .. Len(c) : c[i] \in There(rows)
    BY TallyFacts DEF There
  <1>2. \A i \in 1 .. Len(c) : c[i] \in KeyThere(rows, k) <=> c[i] \in Keyed(k)
    BY <1>1 DEF KeyThere, Keyed, AnyCell, There
  <1> DEFINE K == KeyThere(rows, k)
             L == Keyed(k)
  <1>3. \A i \in 1 .. Len(c) : c[i] \in K <=> c[i] \in L
    BY <1>2
  <1> HIDE DEF K, L
  <1>4. Hits(c, K) = Hits(c, L)
    BY <1>3, HitsSame
  <1> QED
    BY <1>4 DEF K, L

\* A key comes twice in the rows when a scan finds two rows of it.
LEMMA RepeatsIs ==
    ASSUME NEW c \in Seq(Rows), NEW rows, rows = Tally(c), ~ Repeats(rows), NEW k \in Keys
    PROVE  Hits(c, Keyed(k)) <= 1
  <1>1. Total(rows, KeyThere(rows, k)) = Hits(c, KeyThere(rows, k))
    <2>1. KeyThere(rows, k) \in SUBSET Rows
      BY DEF KeyThere, There
    <2> QED
      BY <2>1, TotalHits DEF Tally
  <1>2. ~ Total(rows, KeyThere(rows, k)) > 1
    BY DEF Repeats, Total, KeyThere
  <1>3. Hits(c, Keyed(k)) \in Nat
    BY HitsFacts
  <1>4. Hits(c, KeyThere(rows, k)) = Hits(c, Keyed(k))
    BY KeyHits
  <1> DEFINE x == Hits(c, Keyed(k))
  <1> HIDE DEF x
  <1>5. ~ x > 1 /\ x \in Nat
    BY <1>1, <1>2, <1>3, <1>4 DEF x
  <1>6. x <= 1
    BY <1>5
  <1> QED
    BY <1>6 DEF x

\* What a statement makes of the rows.
Imaged(rows, set, where) ==
    Image(rows, LAMBDA r : IF Matches(r, where) THEN Changed(r, set) ELSE r)

\* It is what the scan's rows become one by one.
ImageOf(m, c, rows, set, where) ==
    /\ m \in Seq(Rows) /\ Imaged(rows, set, where) = Tally(m)
    /\ \A S : Hits(m, S) = Hits(c, Before(S, set, where))

\* What a statement asks for can be counted row by row.
LEMMA ImageIs ==
    ASSUME NEW c \in Seq(Rows), NEW rows, rows = Tally(c), NEW set \in Sets, NEW where
    PROVE  \E m : ImageOf(m, c, rows, set, where)
  <1> DEFINE m == [i \in 1 .. Len(c) |-> ToBe(c[i], set, where)]
             F(r) == {q \in There(rows) : ToBe(q, set, where) = r}
  <1>1. \A i \in 1 .. Len(c) : c[i] \in Rows
    OBVIOUS
  <1>there. There(rows) \subseteq Rows /\ \A i \in 1 .. Len(c) : c[i] \in There(rows)
    BY TallyFacts DEF There
  <1>2. \A i \in 1 .. Len(c) : ToBe(c[i], set, where) \in Rows /\ c[i] \in AnyCell
    BY <1>1, ToBeTwice
  <1>3. m \in Seq(Rows) /\ Len(m) = Len(c) /\ \A i \in 1 .. Len(c) : m[i] = ToBe(c[i], set, where)
    <2>1. Len(c) \in Nat
      OBVIOUS
    <2> DEFINE n == Len(c)
               V(i) == ToBe(c[i], set, where)
    <2>2. \A i \in 1 .. n : V(i) \in Rows
      BY <1>2
    <2> HIDE DEF V, n
    <2>3. [i \in 1 .. n |-> V(i)] \in Seq(Rows) /\ Len([i \in 1 .. n |-> V(i)]) = n
      BY <2>1, <2>2 DEF n
    <2> QED
      BY <2>3 DEF V, n
  <1> HIDE DEF m
  <1>4. ASSUME NEW S
        PROVE  Hits(m, S) = Hits(c, Before(S, set, where))
    <2>1. \A i \in 1 .. Len(c) : c[i] \in Before(S, set, where) <=> m[i] \in S
      BY <1>2, <1>3 DEF Before
    <2> QED
      BY <1>3, <2>1, HitsSame
  <1>5. ASSUME NEW r \in Rows
        PROVE  Hits(m, {r}) = Total(rows, F(r))
    <2>1. F(r) \in SUBSET Rows
      BY <1>there
    <2>2. Total(rows, F(r)) = Hits(c, F(r))
      <3> HIDE DEF F
      <3> QED
        BY <2>1, TotalHits DEF Tally
    <2>3. Hits(c, F(r)) = Hits(c, Before({r}, set, where))
      <3>1. \A i \in 1 .. Len(c) : c[i] \in F(r) <=> c[i] \in Before({r}, set, where)
        BY <1>there, <1>2 DEF Before
      <3> DEFINE A == F(r)
                 B == Before({r}, set, where)
      <3>2. \A i \in 1 .. Len(c) : c[i] \in A <=> c[i] \in B
        BY <3>1
      <3> HIDE DEF A, B
      <3>3. Hits(c, A) = Hits(c, B)
        BY <3>2, HitsSame
      <3> QED
        BY <3>3 DEF A, B
    <2> QED
      BY <1>4, <2>2, <2>3
  <1>6. Imaged(rows, set, where) = [r \in Rows |-> Total(rows, F(r))]
    BY DEF Imaged, Image, Total, ToBe
  <1> HIDE DEF F
  <1>7. Imaged(rows, set, where) = Tally(m)
    BY <1>5, <1>6 DEF Tally
  <1> QED
    BY <1>3, <1>4, <1>7 DEF ImageOf

-----------------------------------------------------------------------------
(* A table that has the rows asked for.                                    *)

\* What must be true of a table that the statements change as they were asked:
\* its pages hold its rows and no others, and its index has the pages they are
\* in, with the rows themselves if no statement changed them in place.
Faithful(d, s, t, rows, fresh) ==
    /\ s[t] = <<>> => rows = [r \in Rows |-> 0]
    /\ s[t] # <<>> => /\ Tidied(d, s[t]) /\ rows = Tally(Scan(d, t))
                      /\ IndexRight(d, s, t, fresh)

\* Nothing has changed about a key.
LEMMA RightAtSame ==
    ASSUME NEW d, NEW sp, NEW t, NEW k, NEW fresh, RightAt(d, sp, t, k, fresh),
           NEW e, Scan(e, t) = Scan(d, t), e.index[t] = d.index[t],
           \A l \in 1 .. Len(sp) : e.pages[sp[l]] = d.pages[sp[l]],
           NEW less, less => fresh
    PROVE  RightAt(e, sp, t, k, less)
  BY DEF RightAt

\* It stays so when another table is changed.
LEMMA KeptFaithful ==
    ASSUME NEW d, NEW s, Good(d, s), NEW t \in Tables, NEW rows, NEW fresh,
           Faithful(d, s, t, rows, fresh),
           NEW e, NEW v, Good(e, v), Kept(d, s, e, v, t), e.index[t] = d.index[t],
           NEW less, less => fresh
    PROVE  Faithful(e, v, t, rows, less)
  <1>1. t \in Names
    BY DEF Names
  <1>2. v[t] = s[t] /\ \A l \in 1 .. Len(s[t]) : e.pages[s[t][l]] = d.pages[s[t][l]]
    BY DEF Kept
  <1>3. CASE s[t] = <<>>
    BY <1>2, <1>3 DEF Faithful
  <1>4. CASE s[t] # <<>>
    <2>1. Tidied(d, s[t]) /\ rows = Tally(Scan(d, t)) /\ IndexRight(d, s, t, fresh)
      BY <1>4 DEF Faithful
    <2>2. Scan(e, t) = Scan(d, t)
      BY <1>1, <1>4, KeptScan
    <2>3. Tidied(e, v[t])
      BY <1>2, <2>1 DEF Tidied
    <2>4. IndexRight(e, v, t, less)
      <3> SUFFICES ASSUME e.index[t] # None, NEW k \in Keys
                   PROVE  RightAt(e, v[t], t, k, less)
        BY DEF IndexRight
      <3>1. RightAt(d, s[t], t, k, fresh)
        BY <2>1 DEF IndexRight
      <3>2. RightAt(e, s[t], t, k, less)
        BY <1>2, <2>2, <3>1, RightAtSame
      <3> QED
        BY <1>2, <3>2
    <2> QED
      BY <1>2, <1>4, <2>1, <2>2, <2>3, <2>4 DEF Faithful
  <1> QED
    BY <1>3, <1>4

\* A statement has left its table with rows, and the others alone.
Shows(d, s, e, t, rows, fresh) ==
    \E v : /\ Good(e, v) /\ Grows(d, s, e, v, t) /\ NoneStays(d, e, t)
           /\ Faithful(e, v, t, rows, fresh)

\* What is found in it is what it holds.
LEMMA FaithfulFacts ==
    ASSUME NEW d, NEW s, Good(d, s), NEW t \in Tables, Exists(d, t), NEW rows, NEW fresh,
           Faithful(d, s, t, rows, fresh)
    PROVE  /\ t \in Names /\ s[t] # <<>>
           /\ Tidied(d, s[t]) /\ rows = Tally(Scan(d, t)) /\ IndexRight(d, s, t, fresh)
           /\ Scan(d, t) \in Seq(Rows)
  <1>1. t \in Names
    BY DEF Names
  <1>2. s[t] # <<>>
    BY <1>1, ExistsFacts
  <1>3. Tidied(d, s[t]) /\ rows = Tally(Scan(d, t)) /\ IndexRight(d, s, t, fresh)
    BY <1>2 DEF Faithful
  <1>4. Scan(d, t) \in Seq(Rows)
    BY <1>2, <1>3, ScanRows
  <1> QED
    BY <1>1, <1>2, <1>3, <1>4

\* An INSERT of a row that fits.
LEMMA PutFaithful ==
    ASSUME NEW d, NEW s, Good(d, s), NEW t \in Tables, Exists(d, t), NEW rows, NEW fresh,
           Faithful(d, s, t, rows, fresh), NEW r \in Rows,
           NEW e, NEW v, Put(d, s, e, v, t, r),
           NEW new, new = [rows EXCEPT ![r] = @ + 1],
           d.index[t] # None => ~ Repeats(new)
    PROVE  Shows(d, s, e, t, new, fresh)
  <1>1. /\ t \in Names /\ s[t] # <<>>
        /\ Tidied(d, s[t]) /\ rows = Tally(Scan(d, t)) /\ IndexRight(d, s, t, fresh)
        /\ Scan(d, t) \in Seq(Rows)
    BY FaithfulFacts
  <1>2. /\ Good(e, v) /\ Grows(d, s, e, v, t) /\ v[t] # <<>> /\ Tidied(e, v[t])
        /\ \A S : Hits(Scan(e, t), S) = Hits(Scan(d, t), S) + One(r \in S)
        /\ e.index = Reindexed(d.index, t, r, v[t][Len(v[t])])
    BY DEF Put
  <1>3. Scan(e, t) \in Seq(Rows)
    BY <1>2, ScanRows
  <1>4. new = Tally(Scan(e, t))
    <2>1. rows \in [Rows -> Nat]
      <3>1. \A q \in Rows : Hits(Scan(d, t), {q}) \in Nat
        BY <1>1, HitsFacts
      <3> QED
        BY <1>1, <3>1 DEF Tally
    <2>2. new \in [Rows -> Nat] /\ \A q \in Rows : new[q] = IF q = r THEN rows[q] + 1 ELSE rows[q]
      BY <2>1
    <2>3. ASSUME NEW q \in Rows
          PROVE  new[q] = Hits(Scan(e, t), {q})
      <3>1. Hits(Scan(e, t), {q}) = Hits(Scan(d, t), {q}) + One(r \in {q})
        BY <1>2
      <3>2. rows[q] = Hits(Scan(d, t), {q}) /\ rows[q] \in Nat
        BY <1>1, <2>1 DEF Tally
      <3>3. One(r \in {q}) = IF q = r THEN 1 ELSE 0
        BY DEF One
      <3> QED
        BY <2>2, <3>1, <3>2, <3>3
    <2> QED
      BY <2>2, <2>3 DEF Tally
  <1>5. d.index[t] = None => e.index[t] = None
    BY <1>2 DEF Reindexed
  <1>6. IndexRight(e, v, t, fresh)
    <2> SUFFICES ASSUME e.index[t] # None, NEW k \in Keys
                 PROVE  RightAt(e, v[t], t, k, fresh)
      BY DEF IndexRight
    <2>1. d.index[t] # None
      BY <1>5
    <2>2. RightAt(d, s[t], t, k, fresh)
      BY <1>1, <2>1 DEF IndexRight
    <2>3. Hits(Scan(e, t), Keyed(k)) <= 1
      <3>1. ~ Repeats(new)
        BY <2>1
      <3> QED
        BY <1>3, <1>4, <3>1, RepeatsIs
    <2> QED
      BY <1>1, <2>1, <2>2, <2>3, PutRight
  <1>7. Faithful(e, v, t, new, fresh)
    BY <1>2, <1>4, <1>6 DEF Faithful
  <1> QED
    BY <1>2, <1>5, <1>7 DEF Shows, NoneStays

\* An INSERT that throws.
LEMMA AlikeFaithful ==
    ASSUME NEW d, NEW s, Good(d, s), NEW t \in Tables, Exists(d, t), NEW rows, NEW fresh,
           Faithful(d, s, t, rows, fresh), NEW e, NEW v, Alike(d, s, e, v, t)
    PROVE  Shows(d, s, e, t, rows, fresh)
  <1>1. /\ t \in Names /\ s[t] # <<>>
        /\ Tidied(d, s[t]) /\ rows = Tally(Scan(d, t)) /\ IndexRight(d, s, t, fresh)
    BY FaithfulFacts
  <1>2. /\ Good(e, v) /\ Grows(d, s, e, v, t) /\ v[t] # <<>> /\ Tidied(e, v[t])
        /\ \A S : Hits(Scan(e, t), S) = Hits(Scan(d, t), S)
        /\ e.index = d.index
    BY DEF Alike
  <1>3. rows = Tally(Scan(e, t))
    BY <1>1, <1>2 DEF Tally
  <1>4. IndexRight(e, v, t, fresh)
    <2> SUFFICES ASSUME e.index[t] # None, NEW k \in Keys
                 PROVE  RightAt(e, v[t], t, k, fresh)
      BY DEF IndexRight
    <2>1. RightAt(d, s[t], t, k, fresh)
      BY <1>1, <1>2 DEF IndexRight
    <2> QED
      BY <1>1, <2>1, AlikeRight
  <1>5. Faithful(e, v, t, rows, fresh)
    BY <1>2, <1>3, <1>4 DEF Faithful
  <1> QED
    BY <1>2, <1>5 DEF Shows, NoneStays

\* A DELETE.
LEMMA DeleteFaithful ==
    ASSUME NEW d, NEW s, Good(d, s), NEW t \in Tables, Exists(d, t), NEW rows, NEW fresh,
           Faithful(d, s, t, rows, fresh),
           NEW where, where.on = "key" => where.is \in Keys,
           NEW e, e = Deleted(d, t, where),
           NEW new, new = [r \in Rows |-> IF Matches(r, where) THEN 0 ELSE rows[r]]
    PROVE  Shows(d, s, e, t, new, fresh)
  <1>1. /\ t \in Names /\ s[t] # <<>>
        /\ Tidied(d, s[t]) /\ rows = Tally(Scan(d, t)) /\ IndexRight(d, s, t, fresh)
        /\ Scan(d, t) \in Seq(Rows)
    BY FaithfulFacts
  <1>2. NoneStays(d, e, t)
    BY DeletedGood
  <1>3. Cut(d, s, e, t, where) /\ IndexRight(e, s, t, fresh)
    <2>1. CASE d.index[t] = None
      <3>1. Cut(d, s, e, t, where)
        BY <1>1, <2>1, DeletedCuts
      <3>2. e.index[t] = None
        BY <1>2, <2>1 DEF NoneStays
      <3> QED
        BY <3>1, <3>2 DEF IndexRight
    <2>2. CASE d.index[t] # None
      <3>1. \A k \in Keys : RightAt(d, s[t], t, k, fresh)
        BY <1>1, <2>2 DEF IndexRight
      <3>2. Cut(d, s, e, t, where)
        BY <1>1, <2>2, <3>1, DeletedRight
      <3>3. \A k \in Keys : RightAt(e, s[t], t, k, fresh)
        BY <1>1, <2>2, <3>1, DeletedRight
      <3> QED
        BY <3>2, <3>3 DEF IndexRight
    <2> QED
      BY <2>1, <2>2
  <1>4. /\ Good(e, s) /\ Grows(d, s, e, s, t) /\ Tidied(e, s[t])
        /\ \A S : Hits(Scan(e, t), S) = Hits(Scan(d, t), S \ Taken(where))
    BY <1>3 DEF Cut
  <1>5. new = Tally(Scan(e, t))
    <2>1. ASSUME NEW r \in Rows
          PROVE  (IF Matches(r, where) THEN 0 ELSE rows[r]) = Hits(Scan(e, t), {r})
      <3>1. r \in Taken(where) <=> Matches(r, where)
        BY DEF Taken, AnyCell
      <3>2. CASE Matches(r, where)
        <4>1. {r} \ Taken(where) = {}
          BY <3>1, <3>2
        <4>2. Hits(Scan(e, t), {r}) = Hits(Scan(d, t), {})
          BY <1>4, <4>1
        <4>3. Hits(Scan(d, t), {}) = 0
          BY <1>1, HitsFew
        <4> QED
          BY <3>2, <4>2, <4>3
      <3>3. CASE ~ Matches(r, where)
        <4>1. {r} \ Taken(where) = {r}
          BY <3>1, <3>3
        <4>2. Hits(Scan(e, t), {r}) = Hits(Scan(d, t), {r})
          BY <1>4, <4>1
        <4> QED
          BY <1>1, <3>3, <4>2 DEF Tally
      <3> QED
        BY <3>2, <3>3
    <2> QED
      BY <2>1 DEF Tally
  <1>6. Faithful(e, s, t, new, fresh)
    BY <1>1, <1>3, <1>4, <1>5 DEF Faithful
  <1> QED
    BY <1>2, <1>4, <1>6 DEF Shows

-----------------------------------------------------------------------------
(* An UPDATE that does what it was asked for.                              *)

\* What an UPDATE asks for is what its scan takes.
LEMMA AskedIsTaken ==
    ASSUME NEW c \in Seq(Rows), NEW rows, rows = Tally(c), NEW where
    PROVE  Total(rows, Asked(rows, where)) = Hits(c, Taken(where))
  <1> DEFINE A == Asked(rows, where)
             B == Taken(where)
  <1>1. A \in SUBSET Rows
    BY DEF Asked, There
  <1>2. \A i \in 1 .. Len(c) : c[i] \in Rows /\ rows[c[i]] > 0
    BY TallyFacts
  <1>3. \A i \in 1 .. Len(c) : c[i] \in A <=> c[i] \in B
    BY <1>2 DEF Asked, There, Taken, AnyCell
  <1> HIDE DEF A, B
  <1>4. Total(rows, A) = Hits(c, A)
    BY <1>1, TotalHits DEF Tally
  <1>5. Hits(c, A) = Hits(c, B)
    BY <1>3, HitsSame
  <1> QED
    BY <1>4, <1>5 DEF A, B

\* An UPDATE that leaves no more and no less than it was asked for, in a table
\* whose index gets no entry too many, does each row at most once.
Modest(d, t, rows, set, where, less) ==
    /\ ~ Mangles(t, rows, set, where)
    /\ d.index[t] # None => /\ less => ~ Ages(rows, set, where)
                            /\ ~ Repeats(Imaged(rows, set, where))
                            /\ ~ Doubles(rows, set, where)

\* A statement that does what it was asked for meets no row twice.
LEMMA ModestIsOrderly ==
    ASSUME NEW d, NEW t \in Tables, NEW c \in Seq(Rows), Scan(d, t) = c,
           NEW rows, rows = Tally(c), NEW set \in Sets, NEW where, NEW less,
           Modest(d, t, rows, set, where, less)
    PROVE  Orderly(d, t, set, where, less)
  <1>1. ASSUME NEW r \in Stirred(set, where), Hits(c, {r}) # 0
        PROVE  OrderlyAt(d, t, set, where, less, r)
    <2>1. r \in Rows
      <3> DEFINE S == {r}
      <3>1. Hits(c, S) # 0
        BY <1>1
      <3> HIDE DEF S
      <3>2. PICK i \in 1 .. Len(c) : c[i] \in S
        BY <3>1, HitsFew
      <3>3. c[i] \in Rows
        OBVIOUS
      <3> QED
        BY <3>2, <3>3 DEF S
    <2>2. rows[r] > 0
      BY <1>1, <2>1, TallyFacts
    <2>3. Matches(r, where) /\ ToBe(r, set, where) = Changed(r, set) /\ Changed(r, set) # r
      BY <1>1 DEF Stirred, ToBe
    <2>4. r \in Asked(rows, where)
      BY <2>1, <2>2, <2>3 DEF Asked, There
    <2>5. ToBe(r, set, where) \in Rows
      BY <2>1, ToBeTwice
    <2> DEFINE new == Changed(r, set)
    <2>6. new \in Rows /\ new # r
      BY <2>3, <2>5
    <2>7. Need(new) \in Nat /\ Need(r) \in Nat
      <3>1. \A q \in Rows : q \in AnyCell
        BY DEF AnyCell
      <3> QED
        BY <2>1, <2>6, <3>1, NeedFacts
    <2>8. /\ ~ Need(new) < Need(r)
          /\ Need(new) > Need(r) => /\ ~ Total(rows, Asked(rows, where)) > 1
                                    /\ ~ Throws(t, new) /\ Readable(new)
      BY <2>4 DEF Modest, Mangles, Total
    <2>9. d.index[t] # None /\ less => ~ (new.key = r.key /\ Need(new) = Need(r))
      BY <2>4, <2>6 DEF Modest, Ages
    <2>doubles. d.index[t] # None => ~ (new.key # r.key /\ Need(new) > Need(r))
      BY <2>4 DEF Modest, Doubles
    <2>10. Total(rows, Asked(rows, where)) = Hits(c, Taken(where)) /\ Hits(c, Taken(where)) \in Nat
      BY AskedIsTaken, HitsFacts
    <2> DEFINE x == Hits(c, Taken(where))
               n == Need(new)
               m == Need(r)
    <2>11. /\ n >= m
           /\ n # m => x <= 1 /\ ~ Throws(t, new) /\ Readable(new)
      <3>1. /\ n \in Nat /\ m \in Nat /\ x \in Nat /\ ~ n < m
            /\ n > m => ~ x > 1 /\ ~ Throws(t, new) /\ Readable(new)
        BY <2>7, <2>8, <2>10
      <3> HIDE DEF new, x, n, m
      <3> QED
        BY <3>1
    <2>12. d.index[t] # None => new.key = r.key \/ n = m
      <3> DEFINE same == new.key = r.key
      <3>1. /\ n \in Nat /\ m \in Nat /\ ~ n < m
            /\ d.index[t] # None => same \/ ~ n > m
        BY <2>7, <2>8, <2>doubles
      <3> HIDE DEF new, n, m, same
      <3>2. d.index[t] # None => same \/ n = m
        BY <3>1
      <3> QED
        BY <3>2 DEF same
    <2> QED
      BY <2>3, <2>9, <2>11, <2>12 DEF OrderlyAt
  <1>2. ASSUME d.index[t] # None, NEW k \in Keys
        PROVE  Hits(c, Before(Keyed(k), set, where)) <= 1
    <2>1. PICK m : ImageOf(m, c, rows, set, where)
      BY ImageIs
    <2>2. ~ Repeats(Imaged(rows, set, where))
      BY <1>2 DEF Modest
    <2>3. /\ m \in Seq(Rows) /\ Imaged(rows, set, where) = Tally(m)
          /\ Hits(m, Keyed(k)) = Hits(c, Before(Keyed(k), set, where))
      BY <2>1 DEF ImageOf
    <2>4. Hits(m, Keyed(k)) <= 1
      BY <2>2, <2>3, RepeatsIs
    <2> QED
      BY <2>3, <2>4
  <1> QED
    BY <1>1, <1>2 DEF Orderly

\* When no row is left to change, the scan finds the rows as they were to be.
LEMMA DoneIsImage ==
    ASSUME NEW c \in Seq(Rows), NEW rows, rows = Tally(c), NEW set \in Sets, NEW where,
           NEW b \in Seq(Rows), Hits(b, Stirred(set, where)) = 0,
           \A S : Hits(b, Before(S, set, where)) = Hits(c, Before(S, set, where))
    PROVE  Imaged(rows, set, where) = Tally(b)
  <1>1. PICK m : ImageOf(m, c, rows, set, where)
    BY ImageIs
  <1>2. /\ m \in Seq(Rows) /\ Imaged(rows, set, where) = Tally(m)
        /\ \A S : Hits(m, S) = Hits(c, Before(S, set, where))
    BY <1>1 DEF ImageOf
  <1>3. ASSUME NEW i \in 1 .. Len(b)
        PROVE  b[i] \in AnyCell /\ ToBe(b[i], set, where) = b[i]
    <2>1. b[i] \in Rows
      OBVIOUS
    <2>2. b[i] \notin Stirred(set, where)
      BY HitsFew
    <2>3. b[i] \in AnyCell
      BY <2>1 DEF AnyCell
    <2> QED
      BY <2>2, <2>3 DEF Stirred
  <1>4. ASSUME NEW S
        PROVE  Hits(b, S) = Hits(b, Before(S, set, where))
    <2> DEFINE B == Before(S, set, where)
    <2>1. \A i \in 1 .. Len(b) : b[i] \in S <=> b[i] \in B
      BY <1>3 DEF Before
    <2> HIDE DEF B
    <2>2. Hits(b, S) = Hits(b, B)
      BY <2>1, HitsSame
    <2> QED
      BY <2>2 DEF B
  <1>5. \A r \in Rows : Hits(m, {r}) = Hits(b, {r})
    BY <1>2, <1>4
  <1> QED
    BY <1>2, <1>5 DEF Tally

\* An UPDATE that leaves what it was asked for.
LEMMA UpdateFaithful ==
    ASSUME NEW d, NEW s, Good(d, s), NEW t \in Tables, Exists(d, t), NEW rows, NEW fresh,
           Faithful(d, s, t, rows, fresh), NEW set \in Sets,
           NEW where, where.on = "key" => where.is \in Keys,
           NEW e, e = Updated(d, t, set, where),
           NEW less, less => fresh, Modest(d, t, rows, set, where, less)
    PROVE  Shows(d, s, e, t, Imaged(rows, set, where), less)
  <1>1. /\ t \in Names /\ s[t] # <<>>
        /\ Tidied(d, s[t]) /\ rows = Tally(Scan(d, t)) /\ IndexRight(d, s, t, fresh)
        /\ Scan(d, t) \in Seq(Rows)
    BY FaithfulFacts
  <1>2. IndexRight(d, s, t, less)
    <2> SUFFICES ASSUME d.index[t] # None, NEW k \in Keys
                 PROVE  RightAt(d, s[t], t, k, less)
      BY DEF IndexRight
    <2>1. RightAt(d, s[t], t, k, fresh)
      BY <1>1 DEF IndexRight
    <2> QED
      BY <2>1 DEF RightAt
  <1>3. Orderly(d, t, set, where, less)
    BY <1>1, ModestIsOrderly
  <1>4. Updating(d, s, t, set, where, less)
    BY <1>1, <1>2, <1>3 DEF Updating
  <1>5. Done(d, s, e, t, set, where, less)
    BY <1>4, UpdatedIsDone
  <1>6. PICK u : /\ Partway(d, s, e, u, t, set, where, less)
                 /\ Hits(Scan(e, t), Stirred(set, where)) = 0
    BY <1>5 DEF Done
  <1>7. /\ Good(e, u) /\ Grows(d, s, e, u, t) /\ u[t] # <<>> /\ Tidied(e, u[t])
        /\ \A S : Hits(Scan(e, t), Before(S, set, where)) = Hits(Scan(d, t), Before(S, set, where))
        /\ IndexRight(e, u, t, less) /\ NoneStays(d, e, t)
    BY <1>2, <1>6 DEF Partway
  <1>8. Scan(e, t) \in Seq(Rows)
    BY <1>7, ScanRows
  <1>9. Imaged(rows, set, where) = Tally(Scan(e, t))
    <2> DEFINE c == Scan(d, t)
               b == Scan(e, t)
    <2>1. /\ c \in Seq(Rows) /\ rows = Tally(c) /\ b \in Seq(Rows)
          /\ Hits(b, Stirred(set, where)) = 0
          /\ \A S : Hits(b, Before(S, set, where)) = Hits(c, Before(S, set, where))
      BY <1>1, <1>6, <1>7, <1>8
    <2> HIDE DEF c, b
    <2>2. Imaged(rows, set, where) = Tally(b)
      BY <2>1, DoneIsImage
    <2> QED
      BY <2>2 DEF b
  <1>10. Faithful(e, u, t, Imaged(rows, set, where), less)
    BY <1>7, <1>9 DEF Faithful
  <1> QED
    BY <1>7, <1>10 DEF Shows

-----------------------------------------------------------------------------
(* A fold as a path of its partial results.                                *)

FoldSteps(h, n, V, base, F) ==
    /\ h[0] = base
    /\ \A k \in 1 .. n : h[k] = F[<<h[k - 1], k>>] /\ h[k - 1] \in V
    /\ \A k \in 0 .. n : h[k] \in V

\* A function on sets that takes its elements away from the largest on.
LEMMA FoldIsSteps ==
    ASSUME NEW n \in Nat, NEW V, NEW base \in V, NEW F,
           \A k \in 1 .. n : \A z \in V : F[<<z, k>>] \in V,
           NEW g, \A s \in SUBSET (1 .. n) : s = {} => g[s] = base,
           \A s \in SUBSET (1 .. n) : s # {} /\ g[s \ {Max(s)}] \in V
                                      => g[s] = F[<<g[s \ {Max(s)}], Max(s)>>]
    PROVE  FoldSteps([k \in 0 .. n |-> g[1 .. k]], n, V, base, F)
  <1> DEFINE h == [k \in 0 .. n |-> g[1 .. k]]
             T == {k \in 0 .. n : h[k] \in V}
  <1>1. \A k \in 0 .. n : h[k] = g[1 .. k]
    OBVIOUS
  <1> HIDE DEF h
  <1>2. 0 \in 0 .. n /\ h[0] = base
    <2>1. 1 .. 0 = {} /\ {} \in SUBSET (1 .. n) /\ 0 \in 0 .. n
      OBVIOUS
    <2> QED
      BY <2>1, <1>1
  <1>3. ASSUME NEW k \in 1 .. n
        PROVE  /\ k - 1 \in 0 .. n /\ k \in 0 .. n
               /\ h[k - 1] \in V => h[k] = F[<<h[k - 1], k>>] /\ h[k] \in V
    <2>1. k - 1 \in 0 .. n /\ k \in 0 .. n
      OBVIOUS
    <2>2. /\ 1 .. k \in SUBSET (1 .. n) /\ 1 .. k # {} /\ Max(1 .. k) = k
          /\ (1 .. k) \ {k} = 1 .. (k - 1)
      BY FoldPath
    <2> DEFINE q == 1 .. k
    <2>3. q \in SUBSET (1 .. n) /\ q # {} /\ Max(q) = k /\ q \ {k} = 1 .. (k - 1)
      BY <2>2
    <2>4. h[k - 1] = g[q \ {Max(q)}] /\ h[k] = g[q]
      BY <2>1, <2>3, <1>1
    <2> HIDE DEF q
    <2>5. h[k - 1] \in V => h[k] = F[<<h[k - 1], k>>]
      BY <2>3, <2>4
    <2> QED
      BY <2>1, <2>5
  <1>4. 0 .. n \subseteq T
    <2>1. 0 \in T
      BY <1>2
    <2>2. ASSUME NEW k \in 0 .. n, k \in T, k < n
          PROVE  k + 1 \in T
      <3>1. k + 1 \in 1 .. n /\ (k + 1) - 1 = k
        BY <2>2
      <3>2. h[k] \in V
        BY <2>2
      <3> QED
        BY <3>1, <3>2, <1>3
    <2> HIDE DEF T
    <2> QED
      BY <2>1, <2>2, InductionUpTo
  <1>5. \A k \in 0 .. n : h[k] \in V
    BY <1>4
  <1>6. FoldSteps(h, n, V, base, F)
    BY <1>2, <1>3, <1>5 DEF FoldSteps
  <1> QED
    BY <1>6 DEF h

-----------------------------------------------------------------------------
(* The index that a scan builds.                                           *)

\* The pages of a chain c give their rows one after the other.
ScanPath(h, d, c, V) ==
    /\ h[0] = <<>>
    /\ \A k \in 1 .. Len(c) : h[k] = h[k - 1] \o Legible(d.pages[c[k]])
    /\ \A k \in 0 .. Len(c) : h[k] \in Seq(V)
    /\ Gathered(d, c) = h[Len(c)]

\* A scan reads the pages of a chain one after the other.
LEMMA ScanPathIs ==
    ASSUME NEW V, NEW d, NEW c \in Seq(Nat),
           \A k \in 1 .. Len(c) : Legible(d.pages[c[k]]) \in Seq(V)
    PROVE  \E h : ScanPath(h, d, c, V)
  <1> DEFINE n == Len(c)
             A == Seq(V)
             Add(z, k) == z \o Legible(d.pages[c[k]])
             Iter(f) == f = [s \in SUBSET (DOMAIN c) |->
                               IF s = {} THEN <<>>
                               ELSE f[s \ {Max(s)}] \o Legible(d.pages[c[Max(s)]])]
             g == CHOOSE f : Iter(f)
             F == [x \in A \X (1 .. n) |-> Add(x[1], x[2])]
             h == [k \in 0 .. n |-> g[1 .. k]]
  <1>1. n \in Nat /\ DOMAIN c = 1 .. n
    OBVIOUS
  <1>2. Gathered(d, c) = g[DOMAIN c]
    BY DEF Gathered, FoldLeft, MapThenFoldSet
  <1>3. ASSUME NEW k \in 1 .. n, NEW z \in A
        PROVE  Add(z, k) \in A
    <2> DEFINE l == Legible(d.pages[c[k]])
    <2>1. l \in A
      OBVIOUS
    <2> HIDE DEF l
    <2>2. z \o l \in A
      BY <2>1
    <2> QED
      BY <2>2 DEF l
  <1>4. \A k \in 1 .. n : \A z \in A : F[<<z, k>>] = Add(z, k)
    OBVIOUS
  <1>5. <<>> \in A
    OBVIOUS
  <1> HIDE DEF F, n, Add, A
  <1>6. \A k \in 1 .. n : \A z \in A : F[<<z, k>>] \in A
    BY <1>3, <1>4
  <1>7. PICK f : FoldIn(f, n, A, <<>>, F)
    BY <1>6, <1>1, <1>5, FoldGraph
  <1>8. Iter(f)
    <2>1. ASSUME NEW s \in SUBSET (1 .. n), s # {}
          PROVE  F[<<f[s \ {Max(s)}], Max(s)>>] = Add(f[s \ {Max(s)}], Max(s))
      <3>1. Max(s) \in 1 .. n
        BY <1>1, <2>1, MaxIn
      <3>2. f[s \ {Max(s)}] \in A
        BY <1>7 DEF FoldIn
      <3> QED
        BY <3>1, <3>2, <1>4
    <2> QED
      BY <1>7, <2>1, <1>1 DEF Add, FoldIn
  <1>9. Iter(g)
    <2> HIDE DEF Iter
    <2> QED
      BY <1>8
  <1> HIDE DEF g
  <1>10. \A s \in SUBSET (1 .. n) :
           g[s] = IF s = {} THEN <<>> ELSE Add(g[s \ {Max(s)}], Max(s))
    BY <1>1, <1>9 DEF Add
  <1> HIDE DEF Iter
  <1>11. \A s \in SUBSET (1 .. n) : s # {} /\ g[s \ {Max(s)}] \in A
                                    => g[s] = F[<<g[s \ {Max(s)}], Max(s)>>]
    <2> SUFFICES ASSUME NEW s \in SUBSET (1 .. n), s # {}, g[s \ {Max(s)}] \in A
                 PROVE  g[s] = F[<<g[s \ {Max(s)}], Max(s)>>]
      OBVIOUS
    <2>1. Max(s) \in 1 .. n
      BY <1>1, MaxIn
    <2> QED
      BY <2>1, <1>4, <1>10
  <1>12. \A s \in SUBSET (1 .. n) : s = {} => g[s] = <<>>
    BY <1>10
  <1>13. FoldSteps([k \in 0 .. n |-> g[1 .. k]], n, A, <<>>, F)
    BY <1>1, <1>5, <1>6, <1>11, <1>12, FoldIsSteps
  <1>14. n \in 0 .. n /\ h[n] = g[1 .. n]
    BY <1>1
  <1>15. FoldSteps(h, n, A, <<>>, F)
    BY <1>13
  <1> HIDE DEF h
  <1>16. \A k \in 1 .. n : h[k] = Add(h[k - 1], k)
    BY <1>4, <1>15 DEF FoldSteps
  <1>17. ScanPath(h, d, c, V)
    BY <1>1, <1>2, <1>14, <1>15, <1>16 DEF ScanPath, FoldSteps, Add, A, n
  <1> QED
    BY <1>17

\* So does a scan that notes the page of each.
PlacedPath(h, d, c, V) ==
    /\ h[0] = <<>>
    /\ \A k \in 1 .. Len(c) : h[k] = h[k - 1] \o Here(d, c[k])
    /\ \A k \in 0 .. Len(c) : h[k] \in Seq(V)

\* A scan that notes the page of each row reads the same pages.
LEMMA PlacedPathIs ==
    ASSUME NEW V, NEW d, NEW t, NEW c \in Seq(Nat), Chain(d, t) = c,
           \A k \in 1 .. Len(c) : Here(d, c[k]) \in Seq(V)
    PROVE  \E h : PlacedPath(h, d, c, V) /\ Placed(d, t) = h[Len(c)]
  <1> DEFINE n == Len(c)
             A == Seq(V)
             Add(z, k) == z \o Here(d, c[k])
             Iter(f) == f = [s \in SUBSET (DOMAIN c) |->
                               IF s = {} THEN <<>>
                               ELSE f[s \ {Max(s)}] \o Here(d, c[Max(s)])]
             g == CHOOSE f : Iter(f)
             F == [x \in A \X (1 .. n) |-> Add(x[1], x[2])]
             h == [k \in 0 .. n |-> g[1 .. k]]
  <1>1. n \in Nat /\ DOMAIN c = 1 .. n
    OBVIOUS
  <1>2. Placed(d, t) = g[DOMAIN c]
    BY DEF Placed, Here, FoldLeft, MapThenFoldSet
  <1>3. ASSUME NEW k \in 1 .. n, NEW z \in A
        PROVE  Add(z, k) \in A
    <2> DEFINE l == Here(d, c[k])
    <2>1. l \in A
      OBVIOUS
    <2> HIDE DEF l
    <2>2. z \o l \in A
      BY <2>1
    <2> QED
      BY <2>2 DEF l
  <1>4. \A k \in 1 .. n : \A z \in A : F[<<z, k>>] = Add(z, k)
    OBVIOUS
  <1>5. <<>> \in A
    OBVIOUS
  <1> HIDE DEF F, n, Add, A
  <1>6. \A k \in 1 .. n : \A z \in A : F[<<z, k>>] \in A
    BY <1>3, <1>4
  <1>7. PICK f : FoldIn(f, n, A, <<>>, F)
    BY <1>6, <1>1, <1>5, FoldGraph
  <1>8. Iter(f)
    <2>1. ASSUME NEW s \in SUBSET (1 .. n), s # {}
          PROVE  F[<<f[s \ {Max(s)}], Max(s)>>] = Add(f[s \ {Max(s)}], Max(s))
      <3>1. Max(s) \in 1 .. n
        BY <1>1, <2>1, MaxIn
      <3>2. f[s \ {Max(s)}] \in A
        BY <1>7 DEF FoldIn
      <3> QED
        BY <3>1, <3>2, <1>4
    <2> QED
      BY <1>7, <2>1, <1>1 DEF Add, FoldIn
  <1>9. Iter(g)
    <2> HIDE DEF Iter
    <2> QED
      BY <1>8
  <1> HIDE DEF g
  <1>10. \A s \in SUBSET (1 .. n) :
           g[s] = IF s = {} THEN <<>> ELSE Add(g[s \ {Max(s)}], Max(s))
    BY <1>1, <1>9 DEF Add
  <1> HIDE DEF Iter
  <1>11. \A s \in SUBSET (1 .. n) : s # {} /\ g[s \ {Max(s)}] \in A
                                    => g[s] = F[<<g[s \ {Max(s)}], Max(s)>>]
    <2> SUFFICES ASSUME NEW s \in SUBSET (1 .. n), s # {}, g[s \ {Max(s)}] \in A
                 PROVE  g[s] = F[<<g[s \ {Max(s)}], Max(s)>>]
      OBVIOUS
    <2>1. Max(s) \in 1 .. n
      BY <1>1, MaxIn
    <2> QED
      BY <2>1, <1>4, <1>10
  <1>12. \A s \in SUBSET (1 .. n) : s = {} => g[s] = <<>>
    BY <1>10
  <1>13. FoldSteps([k \in 0 .. n |-> g[1 .. k]], n, A, <<>>, F)
    BY <1>1, <1>5, <1>6, <1>11, <1>12, FoldIsSteps
  <1>14. n \in 0 .. n /\ h[n] = g[1 .. n]
    BY <1>1
  <1>15. FoldSteps(h, n, A, <<>>, F)
    BY <1>13
  <1> HIDE DEF h
  <1>16. \A k \in 1 .. n : h[k] = Add(h[k - 1], k)
    BY <1>4, <1>15 DEF FoldSteps
  <1>17. PlacedPath(h, d, c, V) /\ Placed(d, t) = h[n]
    BY <1>1, <1>2, <1>14, <1>15, <1>16 DEF PlacedPath, FoldSteps, Add, A, n
  <1> QED
    BY <1>17 DEF n

\* The rows are the same.
RowsLike(p, c) == Len(p) = Len(c) /\ \A i \in 1 .. Len(c) : p[i].row = c[i]

\* Rows behind rows.
LEMMA RowsLikeMore ==
    ASSUME NEW V, NEW p \in Seq(V), NEW q \in Seq(V), NEW W, NEW c \in Seq(W), NEW e \in Seq(W),
           RowsLike(p, c), RowsLike(q, e)
    PROVE  RowsLike(p \o q, c \o e)
  <1>1. /\ p \o q \in Seq(V) /\ Len(p \o q) = Len(p) + Len(q)
        /\ \A k \in 1 .. Len(p) : (p \o q)[k] = p[k]
        /\ \A k \in 1 .. Len(q) : (p \o q)[Len(p) + k] = q[k]
    BY ConcatFacts
  <1>2. /\ c \o e \in Seq(W) /\ Len(c \o e) = Len(c) + Len(e)
        /\ \A k \in 1 .. Len(c) : (c \o e)[k] = c[k]
        /\ \A k \in 1 .. Len(e) : (c \o e)[Len(c) + k] = e[k]
    BY ConcatFacts
  <1> DEFINE x == p \o q
             y == c \o e
             m == Len(c)
             n == Len(e)
  <1>3. m \in Nat /\ n \in Nat /\ Len(p) = m /\ Len(q) = n
    BY DEF RowsLike
  <1>4. /\ Len(x) = m + n /\ Len(y) = m + n
        /\ \A k \in 1 .. m : x[k] = p[k] /\ y[k] = c[k] /\ p[k].row = c[k]
        /\ \A k \in 1 .. n : x[m + k] = q[k] /\ y[m + k] = e[k] /\ q[k].row = e[k]
    BY <1>1, <1>2, <1>3 DEF RowsLike
  <1> HIDE DEF x, y, m, n
  <1>5. ASSUME NEW i \in 1 .. m + n
        PROVE  x[i].row = y[i]
    <2>1. CASE i <= m
      <3>1. i \in 1 .. m
        BY <2>1, <1>3
      <3> QED
        BY <3>1, <1>4
    <2>2. CASE ~ i <= m
      <3>1. i - m \in 1 .. n /\ m + (i - m) = i
        BY <2>2, <1>3
      <3> QED
        BY <3>1, <1>4
    <2> QED
      BY <2>1, <2>2
  <1>6. RowsLike(x, y)
    BY <1>4, <1>5 DEF RowsLike
  <1> QED
    BY <1>6 DEF x, y

\* A scan that notes the pages finds the same rows.
LEMMA PlacedIsScan ==
    ASSUME NEW d, NEW t, NEW c \in Seq(Nat), Chain(d, t) = c, NEW V, NEW W,
           \A k \in 1 .. Len(c) : Here(d, c[k]) \in Seq(V) /\ Legible(d.pages[c[k]]) \in Seq(W)
    PROVE  RowsLike(Placed(d, t), Scan(d, t))
  <1> DEFINE n == Len(c)
  <1>1. PICK p : PlacedPath(p, d, c, V) /\ Placed(d, t) = p[Len(c)]
    BY PlacedPathIs, SMTT(30)
  <1>2. PICK h : ScanPath(h, d, c, W)
    BY ScanPathIs
  <1>3. Scan(d, t) = h[Len(c)]
    BY <1>2 DEF Scan, Gathered, ScanPath
  <1> DEFINE T == {k \in 0 .. n : RowsLike(p[k], h[k])}
  <1>4. n \in Nat
    OBVIOUS
  <1>5. 0 \in T
    <2>1. p[0] = <<>> /\ h[0] = <<>> /\ Len(<<>>) = 0
      BY <1>1, <1>2 DEF PlacedPath, ScanPath
    <2>2. RowsLike(p[0], h[0])
      BY <2>1 DEF RowsLike
    <2> QED
      BY <2>2
  <1>6. ASSUME NEW k \in 0 .. n, k \in T, k < n
        PROVE  k + 1 \in T
    <2>1. k + 1 \in 1 .. n /\ (k + 1) - 1 = k /\ k + 1 \in 0 .. n
      BY <1>6
    <2> DEFINE a == Here(d, c[k + 1])
               b == Legible(d.pages[c[k + 1]])
    <2>2. p[k + 1] = p[k] \o a /\ h[k + 1] = h[k] \o b /\ p[k] \in Seq(V) /\ h[k] \in Seq(W)
      BY <2>1, <1>1, <1>2 DEF PlacedPath, ScanPath
    <2>3. a \in Seq(V) /\ b \in Seq(W)
      BY <2>1
    <2>4. RowsLike(a, b)
      <3>1. a = [i \in DOMAIN b |-> [row |-> b[i], page |-> c[k + 1]]]
        BY DEF Here
      <3> HIDE DEF b
      <3>2. DOMAIN b = 1 .. Len(b) /\ Len(b) \in Nat
        BY <2>3
      <3>3. Len(a) = Len(b) /\ \A i \in 1 .. Len(b) : a[i] = [row |-> b[i], page |-> c[k + 1]]
        BY <3>1, <3>2
      <3> HIDE DEF a
      <3>4. ASSUME NEW i \in 1 .. Len(b)
            PROVE  a[i].row = b[i]
        <4> DEFINE x == b[i]
                   y == c[k + 1]
        <4>1. a[i] = [row |-> x, page |-> y]
          BY <3>3
        <4> HIDE DEF x, y
        <4>2. a[i].row = x
          BY <4>1
        <4> QED
          BY <4>2 DEF x
      <3> QED
        BY <3>3, <3>4 DEF RowsLike
    <2>5. RowsLike(p[k], h[k])
      BY <1>6
    <2> HIDE DEF a, b
    <2>6. RowsLike(p[k] \o a, h[k] \o b)
      BY <2>2, <2>3, <2>4, <2>5, RowsLikeMore
    <2> QED
      BY <2>1, <2>2, <2>6
  <1> HIDE DEF T
  <1>7. n \in T
    <2>1. 0 .. n \subseteq T
      BY <1>4, <1>5, <1>6, InductionUpTo
    <2> QED
      BY <2>1, <1>4
  <1> QED
    BY <1>1, <1>3, <1>7 DEF T

\* An index with the first j of the entries c.
KeyedHints(k) == {h \in Hint : h.row.key = k}

IndexOf(ix, c, j) ==
    /\ ix \in IndexType
    /\ \A k \in Keys : /\ Len(ix[k]) = UpTo(c, KeyedHints(k), j)
                       /\ \A i \in 1 .. Len(ix[k]) :
                             \E m \in 1 .. Len(c) : ix[k][i] = c[m] /\ c[m].row.key = k

\* The next entry goes under its key, and under no other.
LEMMA IndexOfMore ==
    ASSUME NEW c \in Seq(Hint), NEW j \in Nat, j + 1 \in 1 .. Len(c),
           NEW ix, IndexOf(ix, c, j),
           NEW h, h = c[j + 1], NEW new, new = WithRow(ix, h.row, h.page)
    PROVE  IndexOf(new, c, j + 1)
  <1>1. /\ h \in Hint /\ h.row \in Rows /\ h.page \in Nat
        /\ h = [row |-> h.row, page |-> h.page]
    <2>1. h \in Hint
      OBVIOUS
    <2>2. \A x \in Hint : x.row \in Rows /\ x.page \in Nat /\ x = [row |-> x.row, page |-> x.page]
      BY DEF Hint
    <2> QED
      BY <2>1, <2>2
  <1>2. ix \in IndexType
    BY DEF IndexOf
  <1>3. /\ new \in IndexType /\ h.row.key \in Keys
        /\ \A k \in Keys : k # h.row.key => new[k] = ix[k]
        /\ new[h.row.key] = <<h>> \o ix[h.row.key]
    <2> DEFINE r == h.row
               p == h.page
    <2>1. r \in Rows /\ p \in Nat /\ h = [row |-> r, page |-> p] /\ new = WithRow(ix, r, p)
      BY <1>1
    <2> HIDE DEF r, p
    <2>2. /\ new \in IndexType /\ r.key \in Keys
          /\ \A k \in Keys : k # r.key => new[k] = ix[k]
          /\ new[r.key] = <<[row |-> r, page |-> p]>> \o ix[r.key]
      BY <1>2, <2>1, WithRowIs
    <2> QED
      BY <2>1, <2>2 DEF r
  <1>4. ASSUME NEW k \in Keys
        PROVE  /\ Len(new[k]) = UpTo(c, KeyedHints(k), j + 1)
               /\ \A i \in 1 .. Len(new[k]) :
                     \E m \in 1 .. Len(c) : new[k][i] = c[m] /\ c[m].row.key = k
    <2>1. /\ UpTo(c, KeyedHints(k), j) \in Nat
          /\ UpTo(c, KeyedHints(k), j + 1) = UpTo(c, KeyedHints(k), j) + One(h \in KeyedHints(k))
      BY UpToFacts
    <2>2. h \in KeyedHints(k) <=> h.row.key = k
      BY <1>1 DEF KeyedHints
    <2>3. /\ Len(ix[k]) = UpTo(c, KeyedHints(k), j)
          /\ \A i \in 1 .. Len(ix[k]) :
                \E m \in 1 .. Len(c) : ix[k][i] = c[m] /\ c[m].row.key = k
      BY DEF IndexOf
    <2> DEFINE x == UpTo(c, KeyedHints(k), j)
               y == UpTo(c, KeyedHints(k), j + 1)
               s == ix[k]
    <2>4. x \in Nat /\ y = x + One(h.row.key = k) /\ Len(s) = x
      BY <2>1, <2>2, <2>3
    <2>5. s \in Seq(Hint)
      BY <1>2 DEF IndexType
    <2> HIDE DEF x, y
    <2>6. CASE k # h.row.key
      <3>1. new[k] = ix[k]
        BY <1>3, <2>6
      <3>2. One(h.row.key = k) = 0
        BY <2>6 DEF One
      <3>3. y = x
        BY <2>4, <3>2
      <3> QED
        BY <2>3, <3>1, <3>3 DEF x, y
    <2>7. CASE k = h.row.key
      <3>1. new[k] = <<h>> \o s /\ y = x + 1
        BY <1>3, <2>4, <2>7 DEF One
      <3> HIDE DEF s
      <3>2. <<h>> \in Seq(Hint) /\ Len(<<h>>) = 1 /\ <<h>>[1] = h
        BY <1>1
      <3>3. /\ Len(<<h>> \o s) = 1 + Len(s) /\ Len(s) \in Nat
            /\ \A i \in 1 .. 1 : (<<h>> \o s)[i] = <<h>>[i]
            /\ \A i \in 1 .. Len(s) : (<<h>> \o s)[1 + i] = s[i]
        BY <2>5, <3>2, ConcatFacts
      <3>4. ASSUME NEW i \in 1 .. Len(new[k])
            PROVE  \E m \in 1 .. Len(c) : new[k][i] = c[m] /\ c[m].row.key = k
        <4>1. CASE i = 1
          <5>1. new[k][i] = h
            BY <3>1, <3>2, <3>3, <4>1
          <5> QED
            BY <5>1, <2>7
        <4>2. CASE i # 1
          <5>1. i - 1 \in 1 .. Len(s) /\ i = 1 + (i - 1)
            BY <3>1, <3>3, <4>2
          <5>2. new[k][i] = s[i - 1]
            BY <3>1, <3>3, <5>1
          <5> QED
            BY <2>3, <5>1, <5>2 DEF s
        <4> QED
          BY <4>1, <4>2
      <3>5. Len(new[k]) = y
        BY <2>4, <3>1, <3>3
      <3> QED
        BY <3>4, <3>5 DEF y
    <2> QED
      BY <2>6, <2>7
  <1> QED
    BY <1>3, <1>4 DEF IndexOf

\* The index built from a scan has all its rows.
LEMMA BuiltIs ==
    ASSUME NEW d, NEW t, NEW c \in Seq(Hint), Placed(d, t) = c
    PROVE  IndexOf(Built(d, t), c, Len(c))
  <1> DEFINE n == Len(c)
             A == IndexType
             Add(z, k) == WithRow(z, c[k].row, c[k].page)
             Iter(f) == f = [s \in SUBSET (DOMAIN c) |->
                               IF s = {} THEN EmptyIndex
                               ELSE WithRow(f[s \ {Max(s)}], c[Max(s)].row, c[Max(s)].page)]
             g == CHOOSE f : Iter(f)
             F == [x \in A \X (1 .. n) |-> Add(x[1], x[2])]
             h == [k \in 0 .. n |-> g[1 .. k]]
  <1>1. n \in Nat /\ DOMAIN c = 1 .. n /\ \A k \in 1 .. n : c[k] \in Hint
    OBVIOUS
  <1>2. Built(d, t) = g[DOMAIN c]
    BY DEF Built, FoldLeft, MapThenFoldSet
  <1>3. ASSUME NEW k \in 1 .. n, NEW z \in A
        PROVE  Add(z, k) \in A
    <2>1. c[k].row \in Rows /\ c[k].page \in Nat
      BY <1>1 DEF Hint
    <2> QED
      BY <2>1, WithRowIs
  <1>4. \A k \in 1 .. n : \A z \in A : F[<<z, k>>] = Add(z, k)
    OBVIOUS
  <1>5. EmptyIndex \in A
    <2>1. <<>> \in Seq(Hint)
      OBVIOUS
    <2> QED
      BY <2>1 DEF EmptyIndex, IndexType
  <1> HIDE DEF F, n, Add, A
  <1>6. \A k \in 1 .. n : \A z \in A : F[<<z, k>>] \in A
    BY <1>3, <1>4
  <1>7. PICK f : FoldIn(f, n, A, EmptyIndex, F)
    BY <1>6, <1>1, <1>5, FoldGraph
  <1>8. Iter(f)
    <2>1. ASSUME NEW s \in SUBSET (1 .. n), s # {}
          PROVE  F[<<f[s \ {Max(s)}], Max(s)>>] = Add(f[s \ {Max(s)}], Max(s))
      <3>1. Max(s) \in 1 .. n
        BY <1>1, <2>1, MaxIn
      <3>2. f[s \ {Max(s)}] \in A
        BY <1>7 DEF FoldIn
      <3> QED
        BY <3>1, <3>2, <1>4
    <2> QED
      BY <1>7, <2>1, <1>1 DEF Add, FoldIn
  <1>9. Iter(g)
    <2> HIDE DEF Iter
    <2> QED
      BY <1>8
  <1> HIDE DEF g
  <1>10. \A s \in SUBSET (1 .. n) :
           g[s] = IF s = {} THEN EmptyIndex ELSE Add(g[s \ {Max(s)}], Max(s))
    BY <1>1, <1>9 DEF Add
  <1> HIDE DEF Iter
  <1>11. \A s \in SUBSET (1 .. n) : s # {} /\ g[s \ {Max(s)}] \in A
                                    => g[s] = F[<<g[s \ {Max(s)}], Max(s)>>]
    <2> SUFFICES ASSUME NEW s \in SUBSET (1 .. n), s # {}, g[s \ {Max(s)}] \in A
                 PROVE  g[s] = F[<<g[s \ {Max(s)}], Max(s)>>]
      OBVIOUS
    <2>1. Max(s) \in 1 .. n
      BY <1>1, MaxIn
    <2> QED
      BY <2>1, <1>4, <1>10
  <1>12. \A s \in SUBSET (1 .. n) : s = {} => g[s] = EmptyIndex
    BY <1>10
  <1>13. FoldSteps([k \in 0 .. n |-> g[1 .. k]], n, A, EmptyIndex, F)
    BY <1>1, <1>5, <1>6, <1>11, <1>12, FoldIsSteps
  <1>14. n \in 0 .. n /\ h[n] = g[1 .. n]
    BY <1>1
  <1>15. FoldSteps(h, n, A, EmptyIndex, F)
    BY <1>13
  <1> HIDE DEF h
  <1>16. \A k \in 1 .. n : h[k] = Add(h[k - 1], k)
    BY <1>4, <1>15 DEF FoldSteps
  <1> DEFINE T == {k \in 0 .. n : IndexOf(h[k], c, k)}
  <1>17. 0 \in T
    <2>1. h[0] = EmptyIndex /\ 0 \in 0 .. n
      BY <1>1, <1>15 DEF FoldSteps
    <2>2. EmptyIndex \in IndexType
      BY <1>5 DEF A
    <2>3. \A k \in Keys : Len(EmptyIndex[k]) = 0 /\ UpTo(c, KeyedHints(k), 0) = 0
      BY UpToFacts DEF EmptyIndex
    <2>4. IndexOf(EmptyIndex, c, 0)
      BY <2>2, <2>3 DEF IndexOf
    <2> QED
      BY <2>1, <2>4
  <1>18. ASSUME NEW k \in 0 .. n, k \in T, k < n
         PROVE  k + 1 \in T
    <2>1. k + 1 \in 1 .. n /\ (k + 1) - 1 = k /\ k + 1 \in 0 .. n /\ k \in Nat
      BY <1>1, <1>18
    <2>2. h[k + 1] = WithRow(h[k], c[k + 1].row, c[k + 1].page)
      BY <1>16, <2>1 DEF Add
    <2>3. IndexOf(h[k], c, k)
      BY <1>18
    <2>4. k + 1 \in 1 .. Len(c)
      BY <2>1 DEF n
    <2>5. IndexOf(h[k + 1], c, k + 1)
      BY <2>1, <2>2, <2>3, <2>4, IndexOfMore
    <2> QED
      BY <2>1, <2>5
  <1> HIDE DEF T
  <1>19. n \in T
    <2>1. 0 .. n \subseteq T
      BY <1>1, <1>17, <1>18, InductionUpTo
    <2> QED
      BY <2>1, <1>1
  <1>20. IndexOf(h[n], c, n)
    BY <1>19 DEF T
  <1> QED
    BY <1>1, <1>2, <1>14, <1>20 DEF n

\* An entry has the page of the spine that its row is in.
Sits(d, sp, h) ==
    /\ h \in Hint
    /\ \E l \in 1 .. Len(sp) : h.page = sp[l] /\ Hits(d.pages[sp[l]].cells, {h.row}) # 0

\* What a scan finds on a page of a tidy table.
LEMMA HereSits ==
    ASSUME NEW d, NEW s, Good(d, s), NEW t \in Tables, Tidied(d, s[t]), s[t] # <<>>,
           NEW w, w = Whole(d.pages, s[t]), NEW k \in 1 .. Len(w)
    PROVE  /\ Here(d, w[k]) \in Seq({h \in Hint : Sits(d, s[t], h)})
           /\ Legible(d.pages[w[k]]) \in Seq(Rows)
  <1> DEFINE V == {h \in Hint : Sits(d, s[t], h)}
             p == w[k]
             b == Legible(d.pages[p])
  <1>1. t \in Names
    BY DEF Names
  <1>2. /\ Len(w) \in Nat /\ Len(s[t]) \in Nat \ {0}
        /\ \A i \in 1 .. Len(s[t]) : w[i] = s[t][i]
        /\ p \in 1 .. Len(d.pages)
        /\ k <= Len(s[t]) \/ d.pages[p] = EmptyPage
    <2>1. /\ Len(w) \in Nat /\ Len(s[t]) \in Nat \ {0}
          /\ \A i \in 1 .. Len(s[t]) : w[i] = s[t][i]
      BY <1>1, WholeFacts
    <2>2. \A i \in 1 .. Len(w) :
             /\ w[i] \in 1 .. Len(d.pages)
             /\ i <= Len(s[t]) \/ d.pages[w[i]] = EmptyPage
      BY <1>1, WholeFacts
    <2> QED
      BY <2>1, <2>2
  <1>3. Here(d, p) = [i \in DOMAIN b |-> [row |-> b[i], page |-> p]]
    BY DEF Here
  <1>4. CASE k <= Len(s[t])
    <2>1. k \in 1 .. Len(s[t]) /\ p = s[t][k]
      BY <1>2, <1>4
    <2>2. SpinePage(d, t, p) /\ b = d.pages[p].cells
      BY <1>1, <2>1, SpinePageIs, TidyPages
    <2>3. b \in Seq(Rows) /\ DOMAIN b = 1 .. Len(b) /\ Len(b) \in Nat /\ p \in Nat
      <3> DEFINE c == d.pages[p].cells
      <3>1. c \in Seq(Cell(t)) /\ Len(c) \in Nat /\ (\A i \in 1 .. Len(c) : c[i] \in Rows) /\ p \in Nat
        BY <2>2 DEF SpinePage
      <3> HIDE DEF c
      <3>2. c \in Seq(Rows) /\ DOMAIN c = 1 .. Len(c) /\ Len(c) \in Nat
        BY <3>1
      <3> QED
        BY <2>2, <3>1, <3>2 DEF c
    <2>4. b = d.pages[s[t][k]].cells
      BY <2>1, <2>2
    <2> HIDE DEF b, p
    <2>5. ASSUME NEW i \in 1 .. Len(b)
          PROVE  [row |-> b[i], page |-> p] \in V
      <3>1. [row |-> b[i], page |-> p] \in Hint
        BY <2>3 DEF Hint
      <3>2. Hits(b, {b[i]}) # 0
        <4> DEFINE S == {b[i]}
        <4>1. b[i] \in S
          OBVIOUS
        <4> HIDE DEF S
        <4>2. Hits(b, S) # 0
          BY <2>3, <4>1, HitsFew
        <4> QED
          BY <4>2 DEF S
      <3>3. Sits(d, s[t], [row |-> b[i], page |-> p])
        BY <2>1, <2>4, <3>1, <3>2 DEF Sits
      <3> QED
        BY <3>1, <3>3
    <2> HIDE DEF V
    <2>6. [i \in DOMAIN b |-> [row |-> b[i], page |-> p]] \in Seq(V)
      BY <2>3, <2>5
    <2> QED
      BY <1>3, <2>3, <2>6 DEF b, p, V
  <1>5. CASE ~ k <= Len(s[t])
    <2>1. b = <<>>
      BY <1>1, <1>2, <1>5, TidyPages
    <2> HIDE DEF b, p, V
    <2>2. [i \in DOMAIN b |-> [row |-> b[i], page |-> p]] \in Seq(V) /\ b \in Seq(Rows)
      BY <2>1
    <2> QED
      BY <1>3, <2>2 DEF b, p, V
  <1> QED
    BY <1>4, <1>5

\* A tidy table is scanned with each row's page.
LEMMA PlacedSits ==
    ASSUME NEW d, NEW s, Good(d, s), NEW t \in Tables, Tidied(d, s[t]), s[t] # <<>>
    PROVE  /\ Placed(d, t) \in Seq(Hint)
           /\ \A i \in 1 .. Len(Placed(d, t)) : Sits(d, s[t], Placed(d, t)[i])
           /\ RowsLike(Placed(d, t), Scan(d, t))
  <1> DEFINE V == {h \in Hint : Sits(d, s[t], h)}
  <1>1. t \in Names /\ Exists(d, t)
    BY ExistsFacts DEF Names
  <1>2. PICK w : w = Whole(d.pages, s[t])
    OBVIOUS
  <1>3. w \in Seq(Nat) /\ Chain(d, t) = w
    BY <1>1, <1>2, ChainIs, WholeFacts
  <1>4. \A k \in 1 .. Len(w) : Here(d, w[k]) \in Seq(V) /\ Legible(d.pages[w[k]]) \in Seq(Rows)
    BY <1>2, HereSits
  <1>5. \A h \in V : h \in Hint /\ Sits(d, s[t], h)
    OBVIOUS
  <1> HIDE DEF V
  <1>6. RowsLike(Placed(d, t), Scan(d, t))
    BY <1>3, <1>4, PlacedIsScan
  <1>7. PICK h : PlacedPath(h, d, w, V) /\ Placed(d, t) = h[Len(w)]
    BY <1>3, <1>4, PlacedPathIs
  <1>8. Placed(d, t) \in Seq(V)
    <2>1. Len(w) \in 0 .. Len(w)
      BY <1>3
    <2> QED
      BY <1>7, <2>1 DEF PlacedPath
  <1> QED
    BY <1>5, <1>6, <1>8

\* The index ix has nothing for the key, if a scan finds no row of it, or the
\* place of the one row.
OnePlace(d, sp, t, ix, k) ==
    \/ Hits(Scan(d, t), Keyed(k)) = 0 /\ ix[k] = <<>>
    \/ /\ Hits(Scan(d, t), Keyed(k)) = 1 /\ Len(ix[k]) = 1
       /\ \E l \in 1 .. Len(sp) : /\ ix[k][1].page = sp[l]
                                 /\ Hits(d.pages[sp[l]].cells, Keyed(k)) # 0
       /\ Hits(Scan(d, t), {ix[k][1].row}) # 0

\* What the index built from a scan has for a key, that came once at most.
LEMMA BuiltFew ==
    ASSUME NEW d, NEW s, Good(d, s), NEW t \in Tables, Tidied(d, s[t]), s[t] # <<>>,
           NEW k \in Keys, Hits(Scan(d, t), Keyed(k)) <= 1,
           NEW ix, ix = Built(d, t)
    PROVE  OnePlace(d, s[t], t, ix, k)
  <1> DEFINE c == Placed(d, t)
             b == Scan(d, t)
             x == Hits(b, Keyed(k))
  <1>1. /\ c \in Seq(Hint) /\ RowsLike(c, b)
        /\ \A i \in 1 .. Len(c) : Sits(d, s[t], c[i])
    BY PlacedSits
  <1>2. b \in Seq(Rows)
    BY ScanRows
  <1>3. IndexOf(ix, c, Len(c))
    <2>1. PICK z : z = c
      OBVIOUS
    <2> QED
      BY <1>1, <2>1, BuiltIs
  <1>4. x \in Nat /\ x <= 1
    BY <1>2, HitsFacts
  <1> HIDE DEF b, c
  <1>5. /\ ix \in IndexType /\ Len(ix[k]) = Hits(c, KeyedHints(k))
        /\ \A i \in 1 .. Len(ix[k]) :
              \E m \in 1 .. Len(c) : ix[k][i] = c[m] /\ c[m].row.key = k
    BY <1>3 DEF IndexOf, Hits
  <1>6. Hits(c, KeyedHints(k)) = x
    <2>1. Len(b) = Len(c) /\ \A i \in 1 .. Len(c) : c[i] \in KeyedHints(k) <=> b[i] \in Keyed(k)
      <3>1. Len(b) = Len(c) /\ \A i \in 1 .. Len(c) : c[i].row = b[i] /\ c[i] \in Hint
        BY <1>1 DEF RowsLike
      <3>2. \A i \in 1 .. Len(b) : b[i] \in Rows
        BY <1>2
      <3> QED
        BY <3>1, <3>2 DEF KeyedHints, Keyed, AnyCell
    <2> QED
      BY <1>1, <2>1, HitsSame
  <1>7. ix[k] \in Seq(Hint)
    BY <1>5 DEF IndexType
  <1>8. CASE x = 0
    <2>1. Len(ix[k]) = 0
      BY <1>5, <1>6, <1>8
    <2>2. ix[k] = <<>>
      BY <1>7, <2>1
    <2> QED
      BY <1>8, <2>2 DEF b, OnePlace
  <1>9. CASE x = 1
    <2>1. Len(ix[k]) = 1
      BY <1>5, <1>6, <1>9
    <2>2. PICK m \in 1 .. Len(c) : ix[k][1] = c[m] /\ c[m].row.key = k
      BY <1>5, <2>1
    <2>3. Sits(d, s[t], c[m]) /\ c[m].row = b[m] /\ m \in 1 .. Len(b)
      BY <1>1 DEF RowsLike
    <2>4. b[m] \in Rows /\ b[m] \in AnyCell
      BY <1>2, <2>3 DEF AnyCell
    <2>5. PICK l \in 1 .. Len(s[t]) : c[m].page = s[t][l] /\ Hits(d.pages[s[t][l]].cells, {b[m]}) # 0
      BY <2>3 DEF Sits
    <2>6. Hits(d.pages[s[t][l]].cells, Keyed(k)) # 0
      <3> DEFINE a == d.pages[s[t][l]].cells
                 S == {b[m]}
                 K == Keyed(k)
      <3>1. a \in Seq(Cell(t))
        <4>1. t \in Names
          BY DEF Names
        <4> QED
          BY <4>1, TidyPages
      <3>2. S \subseteq K
        BY <2>2, <2>3, <2>4 DEF Keyed
      <3>3. Hits(a, S) # 0
        BY <2>5
      <3> HIDE DEF a, S, K
      <3>4. Hits(a, S) \in Nat /\ Hits(a, K) \in Nat /\ Hits(a, S) <= Hits(a, K)
        BY <3>1, <3>2, HitsFacts, HitsLess
      <3>5. Hits(a, K) # 0
        BY <3>3, <3>4
      <3> QED
        BY <3>5 DEF a, K
    <2>7. Hits(b, {b[m]}) # 0
      <3> DEFINE S == {b[m]}
      <3>1. b[m] \in S
        OBVIOUS
      <3> HIDE DEF S
      <3>2. Hits(b, S) # 0
        BY <1>2, <2>3, <3>1, HitsFew
      <3> QED
        BY <3>2 DEF S
    <2>8. ix[k][1].row = b[m] /\ ix[k][1].page = s[t][l]
      BY <2>2, <2>3, <2>5
    <2> QED
      BY <1>9, <2>1, <2>6, <2>7, <2>8 DEF b, OnePlace
  <1> HIDE DEF x
  <1> QED
    BY <1>4, <1>8, <1>9

-----------------------------------------------------------------------------
(* Every statement.                                                        *)

\* A table of empty pages has no rows.
LEMMA EmptyFaithful ==
    ASSUME NEW d, NEW s, Good(d, s), NEW t \in Tables,
           \A k \in 1 .. Len(s[t]) : d.pages[s[t][k]] = EmptyPage, d.index[t] = None,
           NEW rows, rows = [r \in Rows |-> 0], NEW fresh
    PROVE  Faithful(d, s, t, rows, fresh)
  <1> SUFFICES ASSUME s[t] # <<>>
               PROVE  Tidied(d, s[t]) /\ rows = Tally(Scan(d, t)) /\ IndexRight(d, s, t, fresh)
    BY DEF Faithful
  <1>1. t \in Names
    BY DEF Names
  <1>2. Tidied(d, s[t])
    <2>1. Len(EmptyPage.cells) = 0 /\ EmptyPage.count = 0
      BY DEF EmptyPage
    <2>2. Tidy(EmptyPage)
      BY <2>1 DEF Tidy
    <2> QED
      BY <2>2 DEF Tidied
  <1>3. ASSUME NEW r \in Rows
        PROVE  Hits(Scan(d, t), {r}) = 0
    <2> DEFINE S == {r}
    <2> HIDE DEF S
    <2>1. FewIn(d, s[t], S, Hits(Scan(d, t), S))
      BY <1>1, <1>2, ScanFew
    <2>2. \A k \in 1 .. Len(s[t]) : Hits(d.pages[s[t][k]].cells, S) = 0
      <3>1. <<>> \in Seq({}) /\ EmptyPage.cells = <<>>
        BY DEF EmptyPage
      <3>2. Hits(<<>>, S) = 0
        BY <3>1, HitsFacts
      <3> QED
        BY <3>1, <3>2
    <2>3. Hits(Scan(d, t), S) = 0
      BY <2>1, <2>2 DEF FewIn
    <2> QED
      BY <2>3 DEF S
  <1>4. rows = Tally(Scan(d, t))
    BY <1>3 DEF Tally
  <1> QED
    BY <1>2, <1>4 DEF IndexRight

\* Opening the file leaves the rows and no index.
LEMMA LoadedFaithful ==
    ASSUME NEW d, NEW s, Good(d, s), NEW t \in Tables, NEW rows, NEW fresh,
           Faithful(d, s, t, rows, fresh),
           NEW e, e = Db(d.dir, d.pages, AllNone), NEW less
    PROVE  Faithful(e, s, t, rows, less)
  <1>1. t \in Names
    BY DEF Names
  <1>2. Good(e, s) /\ Kept(d, s, e, s, t)
    BY <1>1, LoadedGood
  <1>3. e.index[t] = None
    BY <1>1 DEF Db, AllNone
  <1>4. CASE s[t] = <<>>
    BY <1>4 DEF Faithful
  <1>5. CASE s[t] # <<>>
    <2>1. Tidied(d, s[t]) /\ rows = Tally(Scan(d, t))
      BY <1>5 DEF Faithful
    <2>2. Scan(e, t) = Scan(d, t)
      BY <1>1, <1>2, <1>5, KeptScan
    <2>3. Tidied(e, s[t])
      BY <1>2, <2>1 DEF Tidied, Kept
    <2> QED
      BY <1>3, <1>5, <2>1, <2>2, <2>3 DEF Faithful, IndexRight
  <1> QED
    BY <1>4, <1>5

\* An index that is created has the entries of a scan.
LEMMA IndexedFaithful ==
    ASSUME NEW d, NEW s, Good(d, s), NEW t \in Tables, Exists(d, t), NEW rows, NEW fresh,
           Faithful(d, s, t, rows, fresh), ~ Repeats(rows),
           NEW e, NEW v, IndexMade(d, s, e, v, t), NEW less
    PROVE  Faithful(e, v, t, rows, less)
  <1>1. /\ t \in Names /\ s[t] # <<>>
        /\ Tidied(d, s[t]) /\ rows = Tally(Scan(d, t))
        /\ Scan(d, t) \in Seq(Rows)
    BY FaithfulFacts
  <1>2. t # System
    BY NamesApart DEF Names
  <1>3. Good(e, v) /\ Kept(d, s, e, v, t) /\ e.index[t] = Built(d, t)
    BY <1>1, <1>2 DEF IndexMade
  <1>4. v[t] = s[t] /\ \A l \in 1 .. Len(s[t]) : e.pages[s[t][l]] = d.pages[s[t][l]]
    BY <1>3 DEF Kept
  <1>5. Scan(e, t) = Scan(d, t)
    BY <1>1, <1>3, KeptScan
  <1>6. Tidied(e, v[t])
    BY <1>1, <1>4 DEF Tidied
  <1>7. ASSUME NEW k \in Keys
        PROVE  RightAt(e, v[t], t, k, less)
    <2>1. Hits(Scan(d, t), Keyed(k)) <= 1
      BY <1>1, RepeatsIs
    <2> DEFINE ix == e.index[t]
    <2>2. ix = Built(d, t)
      BY <1>3
    <2> HIDE DEF ix
    <2>4. s[t] # <<>> /\ Tidied(d, s[t])
      BY <1>1
    <2>3. OnePlace(d, s[t], t, ix, k)
      BY <2>1, <2>2, <2>4, BuiltFew
    <2> QED
      BY <1>4, <1>5, <2>3 DEF RightAt, OnePlace, ix
  <1>8. IndexRight(e, v, t, less)
    BY <1>7 DEF IndexRight
  <1> QED
    BY <1>1, <1>4, <1>5, <1>6, <1>8 DEF Faithful

\* The tables that are not in bad have the rows tab says.
AsAsked(d, s, tab, bad, old) ==
    \A t \in Tables : t \notin bad => Faithful(d, s, t, tab[t], t \notin old)

\* A table has stayed as it was.
LEMMA SameFaithful ==
    ASSUME NEW d, NEW s, Good(d, s), NEW tab, NEW bad, NEW old, AsAsked(d, s, tab, bad, old),
           NEW e, NEW v, Good(e, v), NEW t \in Tables, Kept(d, s, e, v, t),
           e.index[t] = d.index[t],
           NEW new, new[t] = tab[t], t \notin bad,
           NEW later, t \in old => t \in later
    PROVE  Faithful(e, v, t, new[t], t \notin later)
  <1> DEFINE was == t \notin old
             is == t \notin later
  <1>1. Faithful(d, s, t, tab[t], was) /\ (is => was)
    BY DEF AsAsked
  <1> HIDE DEF was, is
  <1>2. Faithful(e, v, t, tab[t], is)
    BY <1>1, KeptFaithful
  <1> QED
    BY <1>2 DEF is

\* A statement that changes the rows of table t has been done.
LEMMA StatementRight ==
    ASSUME NEW d, NEW s, Good(d, s), Ledger(d, s), NEW tab, NEW bad, NEW old,
           AsAsked(d, s, tab, bad, old), NEW t \in Tables,
           NEW e, Reached(d, s, e, t), NEW new, NEW worse, NEW later,
           \A u \in Tables \ {t} : /\ new[u] = tab[u]
                                   /\ u \in bad => u \in worse
                                   /\ u \in old => u \in later,
           t \notin worse => Shows(d, s, e, t, new[t], t \notin later)
    PROVE  \E v : Good(e, v) /\ Ledger(e, v) /\ AsAsked(e, v, new, worse, later)
  <1>1. t \in Names
    BY DEF Names
  <1>2. PICK v : /\ Good(e, v) /\ Grows(d, s, e, v, t) /\ NoneStays(d, e, t)
                 /\ t \notin worse => Faithful(e, v, t, new[t], t \notin later)
    <2>1. CASE t \in worse
      BY <2>1 DEF Reached
    <2>2. CASE t \notin worse
      BY <2>2 DEF Shows
    <2> QED
      BY <2>1, <2>2
  <1>3. Ledger(e, v)
    BY <1>2, LedgerGrows DEF NoneStays
  <1>4. ASSUME NEW u \in Tables \ {t}, u \notin worse
        PROVE  Faithful(e, v, u, new[u], u \notin later)
    <2>1. u \in Names /\ u # t /\ u \notin bad
      BY <1>4 DEF Names
    <2>2. Kept(d, s, e, v, u)
      BY <1>1, <1>2, <2>1, GrowsKeeps
    <2>3. e.index[u] = d.index[u]
      BY <1>2, <2>1 DEF Grows
    <2> QED
      BY <1>2, <2>1, <2>2, <2>3, SameFaithful
  <1>5. AsAsked(e, v, new, worse, later)
    BY <1>2, <1>4 DEF AsAsked
  <1> QED
    BY <1>2, <1>3, <1>5

-----------------------------------------------------------------------------
(* The invariant, and what it shows.                                       *)

\* The invariant: _indexes is in order, and the tables no statement mangled,
\* or left with an index of an entry too many, have the rows asked for.
IRight ==
    /\ Bookkeeping
    /\ \E s : /\ Good(db, s) /\ Ledger(db, s)
              /\ AsAsked(db, s, table, mangled \cup repeated, aged)

\* It is so after a step.
Onward == \E v : /\ Good(db', v) /\ Ledger(db', v)
                 /\ AsAsked(db', v, table', mangled' \cup repeated', aged')

\* INSERT adds its row to the table and to the index, and does nothing else.
LEMMA InsertRight ==
    ASSUME NEW s, Good(db, s), Ledger(db, s), Bookkeeping,
           AsAsked(db, s, table, mangled \cup repeated, aged),
           NEW t \in Tables, NEW r \in Rows, Insert(t, r)
    PROVE  Onward
  <1> DEFINE bad == mangled \cup repeated
             worse == mangled' \cup repeated'
             fresh == t \notin aged
  <1>1. Exists(db, t) /\ db' = Inserted(db, t, r) /\ aged' = aged
    BY DEF Insert
  <1>2. r \in Cell(t) \ {Gap}
    BY NeedFacts DEF Cell
  <1>3. Reached(db, s, db', t)
    BY <1>1, <1>2, InsertedGood
  <1>4. /\ mangled \subseteq mangled' /\ repeated \subseteq repeated'
        /\ table \in [Tables -> Column]
        /\ Throws(t, r) => /\ table' = table
                           /\ TooFar(r) /\ db.index[t] # None => t \in repeated'
        /\ ~ Throws(t, r) =>
              /\ table' = [table EXCEPT ![t] = [table[t] EXCEPT ![r] = @ + 1]]
              /\ Readable(r) \/ t \in mangled'
              /\ db.index[t] # None => ~ Repeats(table'[t]) \/ t \in repeated'
    BY DEF Insert, Holds, Enters, Bookkeeping
  <1>5. \A u \in Tables \ {t} : table'[u] = table[u]
    BY <1>4
  <1>6. ASSUME t \notin worse
        PROVE  Shows(db, s, db', t, table'[t], t \notin aged')
    <2>1. t \notin bad
      BY <1>4, <1>6
    <2>2. Faithful(db, s, t, table[t], fresh)
      BY <2>1 DEF AsAsked
    <2> HIDE DEF fresh
    <2>3. /\ t \in Names /\ s[t] # <<>> /\ Tidied(db, s[t])
      BY <1>1, <2>2, FaithfulFacts
    <2>4. CASE Throws(t, r)
      <3> DEFINE e == Inserted(db, t, r)
      <3>far. TooFar(r) => db.index[t] = None
        BY <1>4, <1>6, <2>4
      <3>put. \E v : Alike(db, s, e, v, t)
        BY <1>1, <1>2, <2>3, <2>4, <3>far, InsertPuts
      <3>1. PICK v : Alike(db, s, db', v, t)
        BY <1>1, <3>put
      <3>2. Shows(db, s, db', t, table[t], fresh)
        BY <1>1, <2>2, <3>1, AlikeFaithful
      <3> QED
        BY <1>1, <1>4, <2>4, <3>2 DEF fresh
    <2>5. CASE ~ Throws(t, r)
      <3> DEFINE new == [table[t] EXCEPT ![r] = @ + 1]
      <3>2. table'[t] = new
        BY <1>4, <2>5
      <3>1. Readable(r) /\ (db.index[t] # None => ~ Repeats(new))
        BY <1>4, <1>6, <2>5, <3>2
      <3>3. PICK v : Put(db, s, db', v, t, r)
        BY <1>1, <1>2, <2>3, <2>5, <3>1, InsertPuts
      <3> DEFINE rows == table[t]
      <3>4. new = [rows EXCEPT ![r] = @ + 1]
        OBVIOUS
      <3> HIDE DEF new, rows
      <3>5. Faithful(db, s, t, rows, fresh)
        BY <2>2 DEF rows
      <3>6. Shows(db, s, db', t, new, fresh)
        BY <1>1, <3>1, <3>3, <3>4, <3>5, PutFaithful
      <3> QED
        BY <1>1, <3>2, <3>6 DEF fresh
    <2> QED
      BY <2>4, <2>5
  <1>7. \A u \in Tables \ {t} : (u \in bad => u \in worse) /\ (u \in aged => u \in aged')
    BY <1>1, <1>4
  <1> HIDE DEF bad, worse, fresh
  <1>8. AsAsked(db, s, table, bad, aged)
    BY DEF bad
  <1>9. \E v : Good(db', v) /\ Ledger(db', v) /\ AsAsked(db', v, table', worse, aged')
    <2>1. \A u \in Tables \ {t} : /\ table'[u] = table[u]
                                  /\ u \in bad => u \in worse
                                  /\ u \in aged => u \in aged'
      BY <1>5, <1>7
    <2> QED
      BY <1>3, <1>6, <1>8, <2>1, StatementRight, SMTT(30)
  <1> QED
    BY <1>9 DEF Onward, worse

\* DELETE takes the rows of its condition out of the table and of the index.
LEMMA DeleteRight ==
    ASSUME NEW s, Good(db, s), Ledger(db, s), Bookkeeping,
           AsAsked(db, s, table, mangled \cup repeated, aged),
           NEW t \in Tables, NEW where \in Wheres, Delete(t, where)
    PROVE  Onward
  <1> DEFINE bad == mangled \cup repeated
             worse == mangled' \cup repeated'
             fresh == t \notin aged
             new == [r \in Rows |-> IF Matches(r, where) THEN 0 ELSE table[t][r]]
  <1>1. Exists(db, t) /\ db' = Deleted(db, t, where) /\ aged' = aged /\ mangled' = mangled
    BY DEF Delete
  <1>2. Reached(db, s, db', t)
    BY <1>1, DeletedGood DEF Reached
  <1>3. /\ repeated \subseteq repeated'
        /\ table \in [Tables -> Column]
        /\ table' = [table EXCEPT ![t] = new]
    BY DEF Delete, Holds, Bookkeeping
  <1>4. table'[t] = new /\ \A u \in Tables \ {t} : table'[u] = table[u]
    BY <1>3
  <1>5. where.on = "key" => where.is \in Keys
    BY DEF Wheres
  <1>6. ASSUME t \notin worse
        PROVE  Shows(db, s, db', t, table'[t], t \notin aged')
    <2>1. t \notin bad
      BY <1>1, <1>3, <1>6
    <2> DEFINE rows == table[t]
    <2>2. Faithful(db, s, t, rows, fresh)
      BY <2>1 DEF AsAsked
    <2>3. new = [r \in Rows |-> IF Matches(r, where) THEN 0 ELSE rows[r]]
      OBVIOUS
    <2> HIDE DEF fresh, new, rows
    <2>4. Shows(db, s, db', t, new, fresh)
      BY <1>1, <1>5, <2>2, <2>3, DeleteFaithful
    <2> QED
      BY <1>1, <1>4, <2>4 DEF fresh
  <1>7. \A u \in Tables \ {t} : (u \in bad => u \in worse) /\ (u \in aged => u \in aged')
    BY <1>1, <1>3
  <1> HIDE DEF bad, worse, fresh, new
  <1>8. AsAsked(db, s, table, bad, aged)
    BY DEF bad
  <1>9. \E v : Good(db', v) /\ Ledger(db', v) /\ AsAsked(db', v, table', worse, aged')
    BY <1>2, <1>4, <1>6, <1>7, <1>8, StatementRight
  <1> QED
    BY <1>9 DEF Onward, worse

\* UPDATE leaves the rows it was asked for, or the table counts as mangled.
LEMMA UpdateRight ==
    ASSUME NEW s, Good(db, s), Ledger(db, s), Bookkeeping,
           AsAsked(db, s, table, mangled \cup repeated, aged),
           NEW t \in Tables, NEW set \in Sets, NEW where \in Wheres, Update(t, set, where)
    PROVE  Onward
  <1> DEFINE bad == mangled \cup repeated
             worse == mangled' \cup repeated'
             fresh == t \notin aged
             less == t \notin aged'
             rows == table[t]
             new == Imaged(rows, set, where)
  <1>1. /\ Exists(db, t) /\ db' = Updated(db, t, set, where)
        /\ Holds(t, new)
        /\ Enters(t, Repeats(table'[t]) \/ Doubles(rows, set, where))
        /\ mangled' = IF Mangles(t, rows, set, where) THEN mangled \cup {t} ELSE mangled
        /\ aged' = IF db.index[t] # None /\ Ages(rows, set, where)
                   THEN aged \cup {t} ELSE aged
    BY DEF Update, Imaged
  <1>2. Reached(db, s, db', t)
    BY <1>1, UpdatedGood
  <1> HIDE DEF new
  <1>3. /\ repeated \subseteq repeated' /\ mangled \subseteq mangled' /\ aged \subseteq aged'
        /\ \A u \in Tables \ {t} : (u \in mangled' => u \in mangled) /\ (u \in aged' => u \in aged)
        /\ table \in [Tables -> Column]
        /\ table' = [table EXCEPT ![t] = new]
        /\ db.index[t] # None => \/ ~ Repeats(table'[t]) /\ ~ Doubles(rows, set, where)
                                 \/ t \in repeated'
    BY <1>1 DEF Holds, Enters, Bookkeeping
  <1>4. table'[t] = new /\ \A u \in Tables \ {t} : table'[u] = table[u]
    BY <1>3
  <1>5. where.on = "key" => where.is \in Keys
    BY DEF Wheres
  <1>6. ASSUME t \notin worse
        PROVE  Shows(db, s, db', t, table'[t], t \notin aged')
    <2>1. t \notin bad /\ (less => fresh)
      BY <1>3, <1>6
    <2>2. Faithful(db, s, t, rows, fresh)
      BY <2>1 DEF AsAsked
    <2>3. /\ ~ Mangles(t, rows, set, where)
          /\ db.index[t] # None => /\ less => ~ Ages(rows, set, where)
                                   /\ ~ Repeats(new) /\ ~ Doubles(rows, set, where)
      BY <1>1, <1>3, <1>4, <1>6
    <2> HIDE DEF fresh, less, rows
    <2>4. Modest(db, t, rows, set, where, less)
      BY <2>3 DEF Modest, new
    <2>5. Shows(db, s, db', t, Imaged(rows, set, where), less)
      BY <1>1, <1>5, <2>1, <2>2, <2>4, UpdateFaithful
    <2> QED
      BY <1>4, <2>5 DEF less, new
  <1>7. \A u \in Tables \ {t} : (u \in bad => u \in worse) /\ (u \in aged => u \in aged')
    BY <1>3
  <1> HIDE DEF bad, worse, fresh, less, rows
  <1>8. AsAsked(db, s, table, bad, aged)
    BY DEF bad
  <1>9. \E v : Good(db', v) /\ Ledger(db', v) /\ AsAsked(db', v, table', worse, aged')
    BY <1>2, <1>4, <1>6, <1>7, <1>8, StatementRight
  <1> QED
    BY <1>9 DEF Onward, worse

\* CREATE INDEX builds an index of what a scan of the table finds.
LEMMA CreateIndexRight ==
    ASSUME NEW s, Good(db, s), Ledger(db, s), Bookkeeping,
           AsAsked(db, s, table, mangled \cup repeated, aged),
           NEW t \in Tables, CreateIndex(t)
    PROVE  Onward
  <1> DEFINE bad == mangled \cup repeated
             worse == mangled' \cup repeated'
  <1>1. /\ Exists(db, t) /\ db' = Indexed(db, t) /\ table' = table
        /\ mangled' = mangled
        /\ repeated' = IF Repeats(table[t]) THEN repeated \cup {t} ELSE repeated
        /\ aged' = aged \ {t}
    BY DEF CreateIndex
  <1>2. PICK v : IndexMade(db, s, db', v, t)
    BY <1>1, IndexedLedger
  <1>3. /\ Good(db', v) /\ Ledger(db', v)
        /\ \A u \in Names \ {System} : Kept(db, s, db', v, u)
        /\ \A u \in Tables \ {t} : db'.index[u] = db.index[u]
    BY <1>2 DEF IndexMade
  <1>4. /\ \A u \in Tables : u \in bad => u \in worse
        /\ t \notin worse => ~ Repeats(table[t])
        /\ \A u \in Tables \ {t} : u \in aged => u \in aged'
    BY <1>1
  <1>5. AsAsked(db, s, table, bad, aged)
    OBVIOUS
  <1> HIDE DEF bad, worse
  <1>6. ASSUME NEW u \in Tables, u \notin worse
        PROVE  Faithful(db', v, u, table'[u], u \notin aged')
    <2>1. u \notin bad /\ u \in Names \ {System}
      BY <1>4, <1>6, NamesApart DEF Names
    <2>2. CASE u = t
      <3> DEFINE fresh == t \notin aged
                 less == t \notin aged'
                 rows == table[t]
      <3>1. Faithful(db, s, t, rows, fresh) /\ ~ Repeats(rows)
        BY <1>4, <1>5, <1>6, <2>1, <2>2 DEF AsAsked
      <3> HIDE DEF fresh, less, rows
      <3>2. Faithful(db', v, t, rows, less)
        BY <1>1, <1>2, <3>1, IndexedFaithful
      <3> QED
        BY <1>1, <2>2, <3>2 DEF less, rows
    <2>3. CASE u # t
      <3>1. Kept(db, s, db', v, u) /\ db'.index[u] = db.index[u] /\ (u \in aged => u \in aged')
        BY <1>3, <1>4, <2>1, <2>3
      <3> QED
        BY <1>1, <1>3, <1>5, <2>1, <3>1, SameFaithful
    <2> QED
      BY <2>2, <2>3
  <1>7. AsAsked(db', v, table', worse, aged')
    BY <1>6 DEF AsAsked
  <1> QED
    BY <1>3, <1>7 DEF Onward, worse

\* A new table has no row and no index.
LEMMA CreateTableRight ==
    ASSUME NEW s, Good(db, s), Ledger(db, s), Bookkeeping,
           AsAsked(db, s, table, mangled \cup repeated, aged),
           NEW t \in Tables, CreateTable(t)
    PROVE  Onward
  <1> DEFINE bad == mangled \cup repeated
             v == Spined(s, t, Len(db.pages) + 1)
  <1>1. /\ t \in Names /\ ~ Exists(db, t) /\ db' = Created(db, t) /\ table' = table
        /\ mangled' = mangled /\ repeated' = repeated /\ aged' = aged
    BY DEF CreateTable, Names
  <1>2. /\ Good(db', v)
        /\ \A u \in Names : u # t => Kept(db, s, db', v, u)
    BY <1>1, CreatedGood
  <1>3. Ledger(db', v)
    BY <1>1, CreatedLedger
  <1>4. /\ db'.index = db.index /\ db'.pages[Len(db.pages) + 1] = EmptyPage
    <2>1. db \in DbType
      BY DEF Good
    <2> QED
      BY <1>1, <2>1, CreatedIs
  <1>5. AsAsked(db, s, table, bad, aged)
    OBVIOUS
  <1>6. s[t] = <<>> /\ v[t] = <<Len(db.pages) + 1>>
    <2>1. s[t] = <<>>
      BY <1>1, ExistsFacts
    <2>2. s \in SpinesType
      BY DEF Good
    <2> QED
      BY <1>1, <2>1, <2>2 DEF Spined, SpinesType
  <1> HIDE DEF bad, v
  <1>7. ASSUME NEW u \in Tables, u \notin bad
        PROVE  Faithful(db', v, u, table'[u], u \notin aged')
    <2>1. u \in Names
      BY DEF Names
    <2>2. CASE u = t
      <3>1. \A k \in 1 .. Len(v[t]) : db'.pages[v[t][k]] = EmptyPage
        <4> DEFINE p == Len(db.pages) + 1
        <4>1. v[t] = <<p>> /\ db'.pages[p] = EmptyPage
          BY <1>4, <1>6
        <4> HIDE DEF p
        <4>2. Len(v[t]) = 1 /\ v[t][1] = p
          BY <4>1
        <4> QED
          BY <4>1, <4>2
      <3>2. db'.index[t] = None
        BY <1>4, <1>6 DEF Ledger
      <3> DEFINE fresh == t \notin aged
                 less == t \notin aged'
                 rows == table[t]
      <3>3. Faithful(db, s, t, rows, fresh)
        BY <1>5, <1>7, <2>2 DEF AsAsked
      <3>4. rows = [r \in Rows |-> 0]
        BY <1>6, <3>3 DEF Faithful
      <3> HIDE DEF fresh, less, rows
      <3>5. Faithful(db', v, t, rows, less)
        BY <1>2, <3>1, <3>2, <3>4, EmptyFaithful
      <3> QED
        BY <1>1, <2>2, <3>5 DEF less, rows
    <2>3. CASE u # t
      <3>1. Kept(db, s, db', v, u) /\ db'.index[u] = db.index[u] /\ (u \in aged => u \in aged')
        BY <1>1, <1>2, <1>4, <2>1, <2>3
      <3> QED
        BY <1>1, <1>2, <1>5, <1>7, <3>1, SameFaithful
    <2> QED
      BY <2>2, <2>3
  <1>8. AsAsked(db', v, table', bad, aged')
    BY <1>7 DEF AsAsked
  <1> QED
    BY <1>1, <1>2, <1>3, <1>8 DEF Onward, bad

\* A table that is dropped takes its rows and its index with it.
LEMMA DropTableRight ==
    ASSUME NEW s, Good(db, s), Ledger(db, s), Bookkeeping,
           AsAsked(db, s, table, mangled \cup repeated, aged),
           NEW t \in Tables, DropTable(t)
    PROVE  Onward
  <1> DEFINE bad == mangled \cup repeated
             worse == mangled' \cup repeated'
  <1>1. /\ Exists(db, t) /\ db' = Dropped(db, t)
        /\ table' = [table EXCEPT ![t] = [r \in Rows |-> 0]]
        /\ mangled' = mangled \ {t} /\ repeated' = repeated \ {t} /\ aged' = aged \ {t}
        /\ table \in [Tables -> Column]
    BY DEF DropTable, Bookkeeping
  <1>2. PICK v : TableGone(db, s, db', v, t)
    BY <1>1, DroppedLedger
  <1>3. /\ Good(db', v) /\ Ledger(db', v)
        /\ \A u \in Names \ {t, System} : Kept(db, s, db', v, u)
        /\ v[t] = <<>>
        /\ \A u \in Tables \ {t} : db'.index[u] = db.index[u]
    BY <1>2 DEF TableGone
  <1>4. AsAsked(db, s, table, bad, aged)
    OBVIOUS
  <1>5. ASSUME NEW u \in Tables, u \notin worse
        PROVE  Faithful(db', v, u, table'[u], u \notin aged')
    <2>1. CASE u = t
      <3>1. table'[u] = [r \in Rows |-> 0]
        BY <1>1, <2>1
      <3> QED
        BY <1>3, <2>1, <3>1 DEF Faithful
    <2>2. CASE u # t
      <3>1. u \in Names \ {t, System}
        BY <2>2, NamesApart DEF Names
      <3>2. u \notin bad /\ table'[u] = table[u] /\ (u \in aged => u \in aged')
        BY <1>1, <1>5, <2>2
      <3>3. Kept(db, s, db', v, u) /\ db'.index[u] = db.index[u]
        BY <1>3, <2>2, <3>1
      <3> HIDE DEF bad, worse
      <3> QED
        BY <1>3, <1>4, <3>2, <3>3, SameFaithful
    <2> QED
      BY <2>1, <2>2
  <1> HIDE DEF worse
  <1>6. AsAsked(db', v, table', worse, aged')
    BY <1>5 DEF AsAsked
  <1> QED
    BY <1>3, <1>6 DEF Onward, worse

\* A restart builds every index again from a scan of its table.
LEMMA ReopenRight ==
    ASSUME NEW s, Good(db, s), Ledger(db, s), Bookkeeping,
           AsAsked(db, s, table, mangled \cup repeated, aged), Reopen
    PROVE  Onward
  <1> DEFINE bad == mangled \cup repeated
  <1>1. /\ db' = Db(db.dir, db.pages, AllNone)
        /\ table' = table /\ mangled' = mangled /\ repeated' = repeated
    BY LoadedIs DEF Reopen, Good
  <1>2. Good(db', s) /\ Ledger(db', s)
    BY <1>1, LoadedGood, LoadedLedger
  <1>3. AsAsked(db, s, table, bad, aged)
    OBVIOUS
  <1> HIDE DEF bad
  <1>4. ASSUME NEW u \in Tables, u \notin bad
        PROVE  Faithful(db', s, u, table'[u], u \notin aged')
    <2> DEFINE fresh == u \notin aged
               less == u \notin aged'
               rows == table[u]
    <2>1. Faithful(db, s, u, rows, fresh)
      BY <1>3, <1>4 DEF AsAsked
    <2> HIDE DEF fresh, less, rows
    <2>2. Faithful(db', s, u, rows, less)
      BY <1>1, <2>1, LoadedFaithful
    <2> QED
      BY <1>1, <2>2 DEF less, rows
  <1>5. AsAsked(db', s, table', bad, aged')
    BY <1>4 DEF AsAsked
  <1> QED
    BY <1>1, <1>2, <1>5 DEF Onward, bad

\* Every action keeps the invariant.
LEMMA IRightKept ==
    ASSUME IRight, [Next]_vars
    PROVE  IRight'
  <1>1. Bookkeeping /\ Bookkeeping'
    BY BookkeepingKept DEF IRight
  <1>2. PICK s : /\ Good(db, s) /\ Ledger(db, s)
                 /\ AsAsked(db, s, table, mangled \cup repeated, aged)
    BY DEF IRight
  <1>3. ASSUME NEW t \in Tables, CreateTable(t)
        PROVE  Onward
    BY <1>1, <1>2, <1>3, CreateTableRight
  <1>4. ASSUME NEW t \in Tables, DropTable(t)
        PROVE  Onward
    BY <1>1, <1>2, <1>4, DropTableRight
  <1>5. ASSUME NEW t \in Tables, CreateIndex(t)
        PROVE  Onward
    BY <1>1, <1>2, <1>5, CreateIndexRight
  <1>6. ASSUME NEW t \in Tables, NEW r \in Rows, Insert(t, r)
        PROVE  Onward
    BY <1>1, <1>2, <1>6, InsertRight
  <1>7. ASSUME NEW t \in Tables, NEW where \in Wheres, Delete(t, where)
        PROVE  Onward
    BY <1>1, <1>2, <1>7, DeleteRight
  <1>8. ASSUME NEW t \in Tables, NEW set \in Sets, NEW where \in Wheres,
               Update(t, set, where)
        PROVE  Onward
    BY <1>1, <1>2, <1>8, UpdateRight
  <1>9. ASSUME Reopen
        PROVE  Onward
    BY <1>1, <1>2, <1>9, ReopenRight
  <1>10. CASE Next
    <2>1. Onward
      BY <1>3, <1>4, <1>5, <1>6, <1>7, <1>8, <1>9, <1>10 DEF Next
    <2> QED
      BY <1>1, <2>1 DEF IRight, Onward
  <1>11. CASE UNCHANGED vars
    BY <1>1, <1>2, <1>11 DEF IRight, vars
  <1> QED
    BY <1>10, <1>11

\* It holds in a new file.
LEMMA IRightStarts ==
    ASSUME NEW tables \in Seq(Tables),
           \A i, j \in DOMAIN tables : tables[i] = tables[j] => i = j,
           InitWith(tables)
    PROVE  IRight
  <1>1. PICK s : Good(db, s) /\ AllEmpty(db)
    BY IInvStarts
  <1>2. Exists(db, System) /\ Bookkeeping
    BY IInvStarts
  <1>3. db.index = AllNone
    BY StartsWithout
  <1>4. Ledger(db, s)
    BY <1>1, <1>2, <1>3, EmptyLedger
  <1>5. ASSUME NEW t \in Tables
        PROVE  Faithful(db, s, t, table[t], t \notin aged)
    <2>1. t \in Names
      BY DEF Names
    <2>2. \A k \in 1 .. Len(s[t]) : db.pages[s[t][k]] = EmptyPage
      <3>1. \A k \in 1 .. Len(s[t]) : s[t][k] \in 1 .. Len(db.pages)
        BY <1>1, <2>1, SpineFacts
      <3> QED
        BY <1>1, <3>1 DEF AllEmpty
    <2>3. db.index[t] = None
      BY <1>3, <2>1 DEF AllNone
    <2> DEFINE rows == table[t]
               fresh == t \notin aged
    <2>4. rows = [r \in Rows |-> 0]
      BY DEF InitWith
    <2> HIDE DEF rows, fresh
    <2>5. Faithful(db, s, t, rows, fresh)
      BY <1>1, <2>2, <2>3, <2>4, EmptyFaithful
    <2> QED
      BY <2>5 DEF rows, fresh
  <1>6. AsAsked(db, s, table, mangled \cup repeated, aged)
    BY <1>5 DEF AsAsked
  <1> QED
    BY <1>1, <1>2, <1>4, <1>6 DEF IRight

\* A scan finds the rows asked for.
LEMMA RightScans ==
    ASSUME IRight
    PROVE  ScanIsTable
  <1>1. PICK s : /\ Good(db, s)
                 /\ AsAsked(db, s, table, mangled \cup repeated, aged)
    BY DEF IRight
  <1> SUFFICES ASSUME NEW t \in Tables \ (mangled \cup repeated)
               PROVE  Scanned(db, t) = table[t]
    BY DEF ScanIsTable
  <1> DEFINE rows == table[t]
             fresh == t \notin aged
  <1>2. Faithful(db, s, t, rows, fresh)
    BY <1>1 DEF AsAsked
  <1>3. t \in Names
    BY DEF Names
  <1> HIDE DEF rows, fresh
  <1>4. CASE ~ Exists(db, t)
    <2>1. s[t] = <<>>
      BY <1>1, <1>3, <1>4, ExistsFacts
    <2>2. rows = [r \in Rows |-> 0]
      BY <1>2, <2>1 DEF Faithful
    <2> QED
      BY <1>4, <2>2 DEF Scanned, rows
  <1>5. CASE Exists(db, t)
    <2>1. rows = Tally(Scan(db, t)) /\ Scan(db, t) \in Seq(Rows)
      BY <1>1, <1>2, <1>5, FaithfulFacts
    <2>2. Scanned(db, t) = CountOf(Scan(db, t))
      BY <1>5 DEF Scanned, CountOf
    <2>3. CountOf(Scan(db, t)) = Tally(Scan(db, t))
      BY <2>1, CountIs DEF Tally
    <2> QED
      BY <2>1, <2>2, <2>3 DEF rows
  <1> QED
    BY <1>4, <1>5

\* Two lists of entries have the same pages.
PagesLike(a, b) == [i \in DOMAIN a |-> a[i].page] = [i \in DOMAIN b |-> b[i].page]

\* The pages an index has for a key are those of one built from a scan.
LEMMA SamePlaces ==
    ASSUME NEW d, NEW s, Good(d, s), NEW t \in Tables, Tidied(d, s[t]), s[t] # <<>>,
           d.index[t] # None, NEW k \in Keys, NEW fresh, RightAt(d, s[t], t, k, fresh)
    PROVE  PagesLike(d.index[t][k], Built(d, t)[k])
  <1>1. t \in Names /\ Exists(d, t)
    BY ExistsFacts DEF Names
  <1> DEFINE a == d.index[t][k]
             b == Built(d, t)[k]
             x == Hits(Scan(d, t), Keyed(k))
             P(l) == Hits(d.pages[s[t][l]].cells, Keyed(k))
  <1>2. \/ x = 0 /\ a = <<>>
        \/ x = 1 /\ Len(a) = 1 /\ \E l \in 1 .. Len(s[t]) : a[1].page = s[t][l] /\ P(l) # 0
    BY DEF RightAt
  <1>3. x <= 1
    BY <1>2
  <1>4. \/ x = 0 /\ b = <<>>
        \/ x = 1 /\ Len(b) = 1 /\ \E l \in 1 .. Len(s[t]) : b[1].page = s[t][l] /\ P(l) # 0
    <2> DEFINE ix == Built(d, t)
    <2> HIDE DEF ix
    <2>1. ix = Built(d, t)
      BY DEF ix
    <2>2. OnePlace(d, s[t], t, ix, k)
      BY <1>3, <2>1, BuiltFew
    <2> QED
      BY <2>1, <2>2 DEF OnePlace
  <1>5. \A i, j \in 1 .. Len(s[t]) : P(i) \in Nat /\ (i # j => P(i) + P(j) <= x)
    BY <1>1, ScanFew DEF FewIn
  <1>6. CASE x = 0
    <2>1. a = <<>> /\ b = <<>>
      BY <1>2, <1>4, <1>6
    <2> QED
      BY <2>1 DEF PagesLike
  <1>7. CASE x = 1
    <2>1. PICK l \in 1 .. Len(s[t]) : a[1].page = s[t][l] /\ P(l) # 0
      BY <1>2, <1>7
    <2>2. PICK m \in 1 .. Len(s[t]) : b[1].page = s[t][m] /\ P(m) # 0
      BY <1>4, <1>7
    <2> DEFINE p == P(l)
               q == P(m)
    <2>3. p \in Nat /\ q \in Nat /\ p # 0 /\ q # 0 /\ (l # m => p + q <= 1)
      BY <1>5, <1>7, <2>1, <2>2
    <2> HIDE DEF p, q
    <2>4. l = m
      BY <2>3
    <2> HIDE DEF x, P
    <2>5. a \in Seq(Hint) /\ b \in Seq(Hint)
      <3>1. Built(d, t) \in IndexType
        BY <1>1, BuiltFacts
      <3>2. a \in Seq(Hint)
        BY <1>1, IndexFacts
      <3> QED
        BY <3>1, <3>2 DEF IndexType
    <2>6. Len(a) = 1 /\ Len(b) = 1 /\ a[1].page = b[1].page
      BY <1>2, <1>4, <1>7, <2>1, <2>2, <2>4
    <2> HIDE DEF a, b
    <2>7. DOMAIN a = {1} /\ DOMAIN b = {1}
      BY <2>5, <2>6
    <2>8. PagesLike(a, b)
      BY <2>6, <2>7 DEF PagesLike
    <2> QED
      BY <2>8 DEF a, b
  <1> HIDE DEF x, P
  <1> QED
    BY <1>2, <1>6, <1>7

\* The index of a table names the pages where a scan would find the key.
LEMMA RightHints ==
    ASSUME IRight
    PROVE  HintsAreRight
  <1>1. PICK s : /\ Good(db, s)
                 /\ AsAsked(db, s, table, mangled \cup repeated, aged)
    BY DEF IRight
  <1> SUFFICES ASSUME NEW t \in Tables \ (mangled \cup repeated), db.index[t] # None
               PROVE  Places(db.index[t]) = Places(Built(db, t))
    BY DEF HintsAreRight
  <1> DEFINE rows == table[t]
             fresh == t \notin aged
  <1>2. Faithful(db, s, t, rows, fresh)
    BY <1>1 DEF AsAsked
  <1> HIDE DEF rows, fresh
  <1>3. t \in Names /\ s[t] # <<>> /\ Exists(db, t)
    <2>1. t \in Names
      BY DEF Names
    <2>2. s[t] # <<>>
      <3>1. PICK v : Good(db, v) /\ Ledger(db, v)
        BY DEF IRight
      <3>2. v[t] # <<>>
        BY <3>1 DEF Ledger
      <3> QED
        BY <1>1, <2>1, <3>1, <3>2, ExistsFacts
    <2> QED
      BY <1>1, <2>1, <2>2, ExistsFacts
  <1>4. Tidied(db, s[t]) /\ IndexRight(db, s, t, fresh)
    BY <1>2, <1>3 DEF Faithful
  <1> DEFINE a == db.index[t]
             b == Built(db, t)
  <1>5. ASSUME NEW k \in Keys
        PROVE  [i \in DOMAIN a[k] |-> a[k][i].page] = [i \in DOMAIN b[k] |-> b[k][i].page]
    <2>1. RightAt(db, s[t], t, k, fresh)
      BY <1>4 DEF IndexRight
    <2>2. PagesLike(a[k], b[k])
      BY <1>1, <1>3, <1>4, <2>1, SamePlaces
    <2> QED
      BY <2>2 DEF PagesLike
  <1> HIDE DEF a, b
  <1>6. Places(a) = Places(b)
    BY <1>5 DEF Places
  <1> QED
    BY <1>6 DEF a, b

\* Every element of a sequence is in its set.
LEMMA HitsAll ==
    ASSUME NEW V, NEW c \in Seq(V)
    PROVE  Hits(c, V) = Len(c)
  <1> DEFINE n == Len(c)
  <1>1. n \in Nat /\ \A i \in 1 .. n : c[i] \in V
    OBVIOUS
  <1>2. {i \in 1 .. n : c[i] \in V} = 1 .. n
    BY <1>1
  <1>3. Cardinality(1 .. n) = n
    <2> HIDE DEF n
    <2>1. Cardinality(1 .. n) = IF 1 > n THEN 0 ELSE n - 1 + 1
      BY <1>1, FS_Interval
    <2> QED
      BY <1>1, <2>1
  <1> QED
    BY <1>2, <1>3 DEF Hits, UpTo

\* None is kept of a set that is not there, and the one of a set that has one.
LEMMA OnlyFew ==
    ASSUME NEW V, NEW c \in Seq(V), NEW S, NEW r
    PROVE  /\ Hits(c, S) = 0 => Only(c, S) = <<>>
           /\ Hits(c, S) = 1 /\ r \in S /\ Hits(c, {r}) # 0 => Only(c, S) = <<r>>
  <1> DEFINE o == Only(c, S)
             R == {r}
  <1>1. /\ o \in Seq(V) /\ Hits(o, V) = Hits(c, S \cap V) /\ Hits(o, R) = Hits(c, S \cap R)
    BY HitsOnly
  <1>2. Hits(c, S \cap V) = Hits(c, S)
    <2> DEFINE T == S \cap V
    <2>1. \A i \in 1 .. Len(c) : c[i] \in T <=> c[i] \in S
      OBVIOUS
    <2> HIDE DEF T
    <2>2. Hits(c, T) = Hits(c, S)
      BY <2>1, HitsSame
    <2> QED
      BY <2>2 DEF T
  <1> HIDE DEF o
  <1>3. Len(o) = Hits(c, S)
    BY <1>1, <1>2, HitsAll
  <1>4. ASSUME Hits(c, S) = 0
        PROVE  o = <<>>
    BY <1>1, <1>3, <1>4
  <1>5. ASSUME Hits(c, S) = 1, r \in S, Hits(c, {r}) # 0
        PROVE  o = <<r>>
    <2>1. S \cap R = R
      BY <1>5
    <2>2. Hits(o, R) # 0
      BY <1>1, <1>5, <2>1
    <2> HIDE DEF R
    <2>3. PICK i \in 1 .. Len(o) : o[i] \in R
      BY <1>1, <2>2, HitsFew
    <2>4. Len(o) = 1 /\ o[1] = r
      BY <1>3, <1>5, <2>3 DEF R
    <2> QED
      BY <1>1, <2>4
  <1> QED
    BY <1>4, <1>5 DEF o

\* Of the rows of c, those of the key k are in S.
Picks(c, S, k) == \A r \in Rows : Hits(c, {r}) # 0 => (r \in S <=> r.key = k)

\* A lookup finds the row of its key.
LEMMA LookupIsScan ==
    ASSUME NEW d, NEW s, Good(d, s), NEW t \in Tables, Tidied(d, s[t]), s[t] # <<>>,
           d.index[t] # None, NEW k \in Keys, OnePlace(d, s[t], t, d.index[t], k),
           NEW S, Picks(Scan(d, t), S, k)
    PROVE  Selected(d, t, [on |-> "key", is |-> k]) = Only(Scan(d, t), S)
  <1> DEFINE w == [on |-> "key", is |-> k]
             a == d.index[t][k]
             c == Scan(d, t)
             f == Found(d, t, w)
  <1>1. w.on = "key" /\ w.is = k
    OBVIOUS
  <1> HIDE DEF w
  <1>2. Selected(d, t, w) = [i \in DOMAIN f |-> f[i].row]
    BY <1>1 DEF Selected
  <1>3. t \in Names
    BY DEF Names
  <1>4. Finds(d.index[t], k) /\ f = Bisect(d.index[t], k, 1)
    BY <1>1, <1>3, FoundIs
  <1>5. \/ f = <<>> /\ a = <<>>
        \/ \E j \in 1 .. Len(a) : f = <<a[j]>>
    BY <1>4 DEF Finds
  <1>6. c \in Seq(Rows)
    BY ScanRows
  <1>7. a \in Seq(Hint) /\ \A i \in 1 .. Len(a) : a[i].row \in Rows /\ a[i].row \in Keyed(k)
    BY <1>3, IndexFacts
  <1>8. \/ Hits(c, Keyed(k)) = 0 /\ a = <<>>
        \/ /\ Hits(c, Keyed(k)) = 1 /\ Len(a) = 1
           /\ Hits(c, {a[1].row}) # 0
    BY DEF OnePlace
  <1> HIDE DEF f, a, c
  <1>9. Hits(c, S) = Hits(c, Keyed(k))
    <2>1. ASSUME NEW i \in 1 .. Len(c)
          PROVE  c[i] \in S <=> c[i] \in Keyed(k)
      <3>1. c[i] \in Rows
        BY <1>6
      <3> DEFINE R == {c[i]}
      <3>2. c[i] \in R
        OBVIOUS
      <3> HIDE DEF R
      <3>3. Hits(c, R) # 0
        BY <1>6, <3>2, HitsFew
      <3>4. c[i] \in S <=> c[i].key = k
        BY <3>1, <3>3 DEF R, c, Picks
      <3> QED
        BY <3>1, <3>4 DEF Keyed, AnyCell
    <2> DEFINE K == Keyed(k)
    <2>2. \A i \in 1 .. Len(c) : c[i] \in S <=> c[i] \in K
      BY <2>1
    <2> HIDE DEF K
    <2>3. Hits(c, S) = Hits(c, K)
      BY <1>6, <2>2, HitsSame
    <2> QED
      BY <2>3 DEF K
  <1>10. CASE a = <<>>
    <2>1. f = <<>> /\ Len(a) = 0
      BY <1>5, <1>10
    <2>2. Only(c, S) = <<>>
      BY <1>6, <1>8, <1>9, <2>1, OnlyFew
    <2>3. [i \in DOMAIN f |-> f[i].row] = <<>>
      BY <2>1
    <2> QED
      BY <1>2, <2>2, <2>3 DEF w, c
  <1>11. CASE a # <<>>
    <2>1. /\ Hits(c, S) = 1 /\ Len(a) = 1 /\ Hits(c, {a[1].row}) # 0
      BY <1>8, <1>9, <1>11
    <2>2. f = <<a[1]>>
      BY <1>5, <1>11, <2>1
    <2> DEFINE r == a[1].row
    <2>3. r \in Rows /\ r.key = k
      BY <1>7, <2>1 DEF Keyed
    <2>4. r \in S
      BY <2>1, <2>3 DEF c, Picks
    <2>5. Only(c, S) = <<r>>
      BY <1>6, <2>1, <2>4, OnlyFew
    <2>6. [i \in DOMAIN f |-> f[i].row] = <<r>>
      BY <2>2
    <2> QED
      BY <1>2, <2>5, <2>6 DEF w, c
  <1> QED
    BY <1>10, <1>11

\* A lookup through an index answers what a scan and a condition would.
LEMMA RightLookups ==
    ASSUME IRight
    PROVE  LookupsSeeRows
  <1>1. PICK s : /\ Good(db, s) /\ Ledger(db, s)
                 /\ AsAsked(db, s, table, mangled \cup repeated, aged)
    BY DEF IRight
  <1> SUFFICES ASSUME NEW t \in Tables \ (mangled \cup repeated \cup aged), db.index[t] # None,
                      NEW k \in Keys
               PROVE  Selected(db, t, [on |-> "key", is |-> k])
                      = Only(Scan(db, t), {r \in ToSet(Scan(db, t)) : r.key = k})
    BY DEF LookupsSeeRows
  <1> DEFINE rows == table[t]
             fresh == t \notin aged
             c == Scan(db, t)
             S == {r \in ToSet(c) : r.key = k}
  <1>2. Faithful(db, s, t, rows, fresh) /\ fresh
    BY <1>1 DEF AsAsked
  <1> HIDE DEF rows, fresh
  <1>3. t \in Names /\ s[t] # <<>>
    BY <1>1 DEF Ledger, Names
  <1>4. Tidied(db, s[t]) /\ RightAt(db, s[t], t, k, fresh)
    BY <1>2, <1>3 DEF Faithful, IndexRight
  <1>5. c \in Seq(Rows)
    BY <1>1, <1>3, <1>4, ScanRows
  <1> HIDE DEF c
  <1>6. ASSUME NEW r \in Rows, Hits(c, {r}) # 0
        PROVE  r \in S <=> r.key = k
    <2> DEFINE R == {r}
    <2>1. Hits(c, R) # 0
      BY <1>6
    <2> HIDE DEF R
    <2>2. PICK i \in 1 .. Len(c) : c[i] \in R
      BY <1>5, <2>1, HitsFew
    <2>3. c[i] = r /\ i \in DOMAIN c
      BY <1>5, <2>2 DEF R
    <2>4. r \in ToSet(c)
      BY <2>3 DEF ToSet
    <2> QED
      BY <2>4
  <1> HIDE DEF S
  <1>7. Picks(Scan(db, t), S, k)
    BY <1>6 DEF Picks, c
  <1>8. Selected(db, t, [on |-> "key", is |-> k]) = Only(Scan(db, t), S)
    <2>1. Good(db, s) /\ t \in Tables /\ Tidied(db, s[t]) /\ s[t] # <<>>
      BY <1>1, <1>3, <1>4
    <2>2. OnePlace(db, s[t], t, db.index[t], k)
      BY <1>2, <1>4 DEF RightAt, OnePlace
    <2> QED
      BY <1>7, <2>1, <2>2, LookupIsScan
  <1> QED
    BY <1>8 DEF S, c

\* Of every start with some tables created, a scan finds what was asked for,
\* the indexes lead to it and the lookups answer it.
THEOREM PlantedRightAlways ==
    ASSUME NEW tables \in Seq(Tables),
           \A i, j \in DOMAIN tables : tables[i] = tables[j] => i = j
    PROVE  InitWith(tables) /\ [][Next]_vars =>
              []ScanIsTable /\ []HintsAreRight /\ []LookupsSeeRows
  <1>1. InitWith(tables) => IRight
    BY IRightStarts
  <1>2. IRight /\ [Next]_vars => IRight'
    BY IRightKept
  <1>3. IRight => ScanIsTable
    BY RightScans
  <1>4. IRight => HintsAreRight
    BY RightHints
  <1>5. IRight => LookupsSeeRows
    BY RightLookups
  <1> QED
    BY <1>1, <1>2, <1>3, <1>4, <1>5, PTL

\* What holds of every start holds of the one without tables.
LEMMA RightAlways ==
    Init /\ [][Next]_vars => []ScanIsTable /\ []HintsAreRight /\ []LookupsSeeRows
  <1>1. <<>> \in Seq(Tables) /\ \A i, j \in DOMAIN <<>> : <<>>[i] = <<>>[j] => i = j
    OBVIOUS
  <1> QED
    BY <1>1, PlantedRightAlways DEF Init

\* A scan of a table finds the rows that INSERT, UPDATE and DELETE asked for,
\* each as often as they did, wherever in its chain they lie: of the tables
\* that no statement is known to mangle.
THEOREM ScanIsTableAlways == Spec => []ScanIsTable
  BY RightAlways, PTL DEF Spec

\* The pages that the index of a table has under a key are those where the
\* rows of the key are, as in an index built again from a scan: insert,
\* update and delete keep IndexManager's tree and the pages together.
THEOREM HintsAreRightAlways == Spec => []HintsAreRight
  BY RightAlways, PTL DEF Spec

\* A SELECT that looks a key up in an index answers the rows that a scan and a
\* condition on the key would.
THEOREM LookupsSeeRowsAlways == Spec => []LookupsSeeRows
  BY RightAlways, PTL DEF Spec
=============================================================================
