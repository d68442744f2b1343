-------------------------- MODULE TableHeapProofs --------------------------
(***************************************************************************)
(* Proofs about TableHeap, for any tables, values, widths and page size    *)
(* and any number of statements: the chains of two tables have no page in  *)
(* common, a statement changes the rows of its own table only, and every   *)
(* index has its record in _indexes.                                       *)
(*                                                                         *)
(* The invariant gives each table a spine: its pages from the first to the *)
(* one that the directory has as the last.  Of most statements it is shown *)
(* that they rewrite pages of the spine of their table, put new pages      *)
(* behind it, and leave everything else alone (Grows).  The records of     *)
(* _indexes are counted (Hits): a statement adds one, takes those of a     *)
(* table out, or leaves their numbers as they are.                         *)
(***************************************************************************)
EXTENDS TableHeap, FiniteSetTheorems, WellFoundedInduction, TLAPS

-----------------------------------------------------------------------------
(* Numbers, sequences and folds.                                           *)

\* A set of naturals that is not empty has a least element.
LEMMA LeastNatural ==
    ASSUME NEW T \in SUBSET Nat, T # {}
    PROVE  \E m \in T : \A k \in T : m <= k
  <1>1. PICK m \in T : \A k \in T : <<k, m>> \notin OpToRel(<, Nat)
    BY WFMin, NatLessThanWellFounded
  <1>2. \A k \in T : ~ (k < m)
    <2>1. OpToRel(<, Nat) = {ss \in Nat \X Nat : ss[1] < ss[2]}
      BY DEF OpToRel
    <2> QED
      BY <1>1, <2>1
  <1> QED
    BY <1>2

\* Induction, about sets: what holds of 0 and of the successor of every number
\* up to n it holds of, holds of every number up to n.
LEMMA InductionUpTo ==
    ASSUME NEW n \in Nat, NEW T, 0 \in T,
           \A k \in 0 .. n : k \in T /\ k < n => k + 1 \in T
    PROVE  0 .. n \subseteq T
  <1> SUFFICES ASSUME (0 .. n) \ T # {}
               PROVE  FALSE
    OBVIOUS
  <1>1. PICK m \in (0 .. n) \ T : \A k \in (0 .. n) \ T : m <= k
    <2>1. (0 .. n) \ T \in SUBSET Nat
      OBVIOUS
    <2> QED
      BY <2>1, LeastNatural
  <1>2. m # 0 /\ m - 1 \in 0 .. n /\ m - 1 < n
    BY <1>1
  <1>3. m - 1 \in T
    BY <1>1, <1>2
  <1>4. m \in T
    BY <1>2, <1>3
  <1> QED
    BY <1>1, <1>4

LEMMA MaxOf ==
    ASSUME NEW k \in Nat, NEW s \in SUBSET (1 .. k), k \in s
    PROVE  Max(s) = k
  <1>1. \A y \in s : k >= y
    OBVIOUS
  <1>2. \A x \in s : (\A y \in s : x >= y) => x = k
    OBVIOUS
  <1> QED
    BY <1>1, <1>2 DEF Max

LEMMA MaxIn ==
    ASSUME NEW k \in Nat, NEW s \in SUBSET (1 .. k), s # {}
    PROVE  Max(s) \in s
  <1> DEFINE N == {k - x : x \in s}
  <1>1. N \in SUBSET Nat /\ N # {}
    <2>1. \A x \in s : k - x \in Nat
      OBVIOUS
    <2>2. PICK e \in s : TRUE
      OBVIOUS
    <2>3. k - e \in N
      OBVIOUS
    <2> QED
      BY <2>1, <2>3
  <1>2. PICK m \in N : \A y \in N : m <= y
    BY <1>1, LeastNatural
  <1>3. PICK x \in s : m = k - x
    BY <1>2
  <1>4. \A y \in s : x >= y
    <2> SUFFICES ASSUME NEW y \in s
                 PROVE  x >= y
      OBVIOUS
    <2>1. k - x <= k - y
      BY <1>2, <1>3
    <2> QED
      BY <2>1
  <1> QED
    BY <1>4 DEF Max

\* g folds the numbers up to n: its value at a set of them is base, or F of its
\* value without the greatest and the greatest.  Its values are in sets J[k].
Folding(g, n, base, F, J) ==
    /\ g = [s \in SUBSET (1 .. n) |->
              IF s = {} THEN base ELSE F[<<g[s \ {Max(s)}], Max(s)>>]]
    /\ \A k \in 0 .. n : \A s \in SUBSET (1 .. k) : g[s] \in J[k]

\* F takes the values from each of the sets to the next, and these grow.
Growing(n, F, J) ==
    \A k \in 1 .. n : J[k - 1] \subseteq J[k] /\ \A z \in J[k - 1] : F[<<z, k>>] \in J[k]

LEMMA FoldIsThere ==
    ASSUME NEW n \in Nat, NEW base, NEW F, NEW J, base \in J[0], Growing(n, F, J)
    PROVE  \E g : Folding(g, n, base, F, J)
  <1> DEFINE Folds(f, k) ==
               /\ f = [s \in SUBSET (1 .. k) |->
                         IF s = {} THEN base ELSE F[<<f[s \ {Max(s)}], Max(s)>>]]
               /\ \A l \in 0 .. k : \A s \in SUBSET (1 .. l) : f[s] \in J[l]
             T == {k \in 0 .. n : \E f : Folds(f, k)}
  <1>1. 0 \in T
    <2> DEFINE f == [s \in SUBSET (1 .. 0) |-> base]
    <2>1. \A s \in SUBSET (1 .. 0) : s = {}
      OBVIOUS
    <2>2. f = [s \in SUBSET (1 .. 0) |->
                 IF s = {} THEN base ELSE F[<<f[s \ {Max(s)}], Max(s)>>]]
      BY <2>1
    <2>3. \A l \in 0 .. 0 : \A s \in SUBSET (1 .. l) : f[s] \in J[l]
      BY <2>1
    <2>4. Folds(f, 0)
      <3> HIDE DEF f
      <3> QED
        BY <2>2, <2>3
    <2> HIDE DEF Folds
    <2> QED
      BY <2>4
  <1>2. ASSUME NEW k \in 0 .. n, k \in T, k < n
        PROVE  k + 1 \in T
    <2>1. PICK f : Folds(f, k)
      BY <1>2
    <2> DEFINE D == SUBSET (1 .. k + 1)
               g == [s \in D |-> IF k + 1 \in s
                                 THEN F[<<f[s \ {k + 1}], k + 1>>] ELSE f[s]]
               Next1(s) == IF s = {} THEN base ELSE F[<<g[s \ {Max(s)}], Max(s)>>]
    <2>0. J[k] \subseteq J[k + 1] /\ \A z \in J[k] : F[<<z, k + 1>>] \in J[k + 1]
      <3>1. k + 1 \in 1 .. n /\ (k + 1) - 1 = k
        BY <1>2
      <3> QED
        BY <3>1 DEF Growing
    <2>2. ASSUME NEW s \in D
          PROVE  g[s] = Next1(s)
      <3>1. CASE k + 1 \in s
        <4>1. Max(s) = k + 1
          BY <3>1, MaxOf
        <4>2. s \ {k + 1} \in D /\ k + 1 \notin s \ {k + 1}
          OBVIOUS
        <4>3. g[s \ {k + 1}] = f[s \ {k + 1}]
          BY <4>2
        <4> QED
          BY <3>1, <4>1, <4>3
      <3>2. CASE k + 1 \notin s
        <4>1. s \in SUBSET (1 .. k)
          BY <3>2
        <4>2. g[s] = f[s]
          BY <3>2
        <4>3. f[s] = IF s = {} THEN base ELSE F[<<f[s \ {Max(s)}], Max(s)>>]
          BY <4>1, <2>1
        <4>4. s \ {Max(s)} \in D /\ k + 1 \notin s \ {Max(s)}
          BY <3>2
        <4>5. g[s \ {Max(s)}] = f[s \ {Max(s)}]
          BY <4>4
        <4> QED
          BY <4>2, <4>3, <4>5
      <3> QED
        BY <3>1, <3>2
    <2>3. g = [s \in D |-> Next1(s)]
      <3>1. \A s \in D : g[s] = Next1(s)
        BY <2>2
      <3> HIDE DEF Next1, D
      <3>2. g = [s \in D |-> g[s]]
        OBVIOUS
      <3> HIDE DEF g
      <3> QED
        BY <3>1, <3>2
    <2>4. ASSUME NEW l \in 0 .. k + 1, NEW s \in SUBSET (1 .. l)
          PROVE  g[s] \in J[l]
      <3>1. CASE l \in 0 .. k
        <4>1. s \in D /\ k + 1 \notin s
          BY <3>1
        <4> QED
          BY <3>1, <4>1, <2>1
      <3>2. CASE l = k + 1 /\ k + 1 \in s
        <4>1. s \ {k + 1} \in SUBSET (1 .. k) /\ k \in 0 .. k
          BY <3>2
        <4>2. f[s \ {k + 1}] \in J[k]
          BY <4>1, <2>1
        <4>3. g[s] = F[<<f[s \ {k + 1}], k + 1>>]
          BY <3>2
        <4> HIDE DEF g
        <4> QED
          BY <3>2, <4>2, <4>3, <2>0
      <3>3. CASE l = k + 1 /\ k + 1 \notin s
        <4>1. s \in SUBSET (1 .. k) /\ k \in 0 .. k /\ s \in D
          BY <3>3
        <4>2. f[s] \in J[k] /\ g[s] = f[s]
          BY <4>1, <2>1, <3>3
        <4> HIDE DEF g
        <4> QED
          BY <3>3, <4>2, <2>0
      <3> QED
        BY <3>1, <3>2, <3>3
    <2>5. Folds(g, k + 1)
      <3> HIDE DEF g
      <3> QED
        BY <2>3, <2>4
    <2>6. k + 1 \in 0 .. n
      BY <1>2
    <2> HIDE DEF Folds
    <2> QED
      BY <2>5, <2>6
  <1>3. n \in T
    <2> HIDE DEF T
    <2>1. 0 .. n \subseteq T
      BY <1>1, <1>2, InductionUpTo
    <2> QED
      BY <2>1
  <1>4. PICK g : Folds(g, n)
    BY <1>3
  <1>5. Folding(g, n, base, F, J)
    BY <1>4 DEF Folding
  <1> QED
    BY <1>5

\* The same, one number after the other.
Stepping(h, n, base, F, J) ==
    /\ h[0] = base
    /\ \A k \in 1 .. n : h[k] = F[<<h[k - 1], k>>]
    /\ \A k \in 0 .. n : h[k] \in J[k]

LEMMA StepsAreThere ==
    ASSUME NEW n \in Nat, NEW base, NEW F, NEW J, base \in J[0], Growing(n, F, J)
    PROVE  \E h : Stepping(h, n, base, F, J)
  <1>1. PICK g : Folding(g, n, base, F, J)
    BY FoldIsThere
  <1> DEFINE h == [k \in 0 .. n |-> g[1 .. k]]
  <1>2. h[0] = base
    <2>1. 1 .. 0 = {} /\ {} \in SUBSET (1 .. n) /\ 0 \in 0 .. n
      OBVIOUS
    <2>2. g[{}] = base
      BY <1>1, <2>1 DEF Folding
    <2> QED
      BY <2>1, <2>2
  <1>3. ASSUME NEW k \in 1 .. n
        PROVE  h[k] = F[<<h[k - 1], k>>]
    <2> DEFINE s == 1 .. k
    <2>1. s \in SUBSET (1 .. n) /\ s # {}
      OBVIOUS
    <2>2. Max(s) = k
      BY MaxOf
    <2>3. s \ {k} = 1 .. k - 1
      OBVIOUS
    <2>4. g[s] = F[<<g[1 .. k - 1], k>>]
      BY <1>1, <2>1, <2>2, <2>3 DEF Folding
    <2>5. k - 1 \in 0 .. n /\ k \in 0 .. n
      OBVIOUS
    <2> QED
      BY <2>4, <2>5
  <1>4. ASSUME NEW k \in 0 .. n
        PROVE  h[k] \in J[k]
    <2>1. 1 .. k \in SUBSET (1 .. k)
      OBVIOUS
    <2> QED
      BY <1>1, <2>1 DEF Folding
  <1> HIDE DEF h
  <1>5. Stepping(h, n, base, F, J)
    BY <1>2, <1>3, <1>4 DEF Stepping
  <1> QED
    BY <1>5

\* What folds the numbers up to n stays in the sets, step by step.
LEMMA FoldStays ==
    ASSUME NEW n \in Nat, NEW g, NEW J, g[{}] \in J[0],
           \A s \in SUBSET (1 .. n) : \A k \in s :
              Max(s) = k /\ g[s \ {k}] \in J[k - 1] => g[s] \in J[k]
    PROVE  g[1 .. n] \in J[n]
  <1> DEFINE T == {k \in 0 .. n : g[1 .. k] \in J[k]}
  <1>1. 0 \in T
    <2>1. 1 .. 0 = {}
      OBVIOUS
    <2> QED
      BY <2>1
  <1>2. ASSUME NEW k \in 0 .. n, k \in T, k < n
        PROVE  k + 1 \in T
    <2> DEFINE s == 1 .. k + 1
    <2>1. s \in SUBSET (1 .. n) /\ k + 1 \in s /\ k + 1 \in 0 .. n
      BY <1>2
    <2>2. Max(s) = k + 1
      BY MaxOf
    <2>3. s \ {k + 1} = 1 .. k /\ (k + 1) - 1 = k
      OBVIOUS
    <2>4. g[s \ {k + 1}] \in J[(k + 1) - 1]
      BY <2>3, <1>2
    <2>5. g[s] \in J[k + 1]
      <3> HIDE DEF s
      <3> QED
        BY <2>1, <2>2, <2>4
    <2> QED
      BY <2>1, <2>5
  <1> HIDE DEF T
  <1>3. 0 .. n \subseteq T
    BY <1>1, <1>2, InductionUpTo
  <1>4. n \in T
    BY <1>3
  <1> QED
    BY <1>4 DEF T

\* What a sequence is made of.
LEMMA SeqFacts ==
    ASSUME NEW T, NEW s \in Seq(T)
    PROVE  /\ Len(s) \in Nat /\ DOMAIN s = 1 .. Len(s)
           /\ \A k \in 1 .. Len(s) : s[k] \in T
  OBVIOUS

\* A sequence with one more element.
LEMMA AppendFacts ==
    ASSUME NEW T, NEW s \in Seq(T), NEW e \in T
    PROVE  /\ Append(s, e) \in Seq(T) /\ Len(Append(s, e)) = Len(s) + 1
           /\ DOMAIN Append(s, e) = 1 .. Len(s) + 1
           /\ \A k \in 1 .. Len(s) : Append(s, e)[k] = s[k]
           /\ Append(s, e)[Len(s) + 1] = e
  OBVIOUS

\* Two sequences in a row.
LEMMA ConcatFacts ==
    ASSUME NEW T, NEW s \in Seq(T), NEW t \in Seq(T)
    PROVE  /\ s \o t \in Seq(T) /\ Len(s \o t) = Len(s) + Len(t)
           /\ DOMAIN (s \o t) = 1 .. Len(s) + Len(t)
           /\ \A k \in 1 .. Len(s) : (s \o t)[k] = s[k]
           /\ \A k \in 1 .. Len(t) : (s \o t)[Len(s) + k] = t[k]
  <1>1. Len(s) \in Nat /\ Len(t) \in Nat
    OBVIOUS
  <1>2. s \o t \in Seq(T) /\ Len(s \o t) = Len(s) + Len(t)
    OBVIOUS
  <1>3. \A k \in 1 .. Len(s) : (s \o t)[k] = s[k]
    OBVIOUS
  <1>4. \A k \in 1 .. Len(t) : (s \o t)[Len(s) + k] = t[k]
    BY <1>1
  <1> QED
    BY <1>1, <1>2, <1>3, <1>4

FoldIn(g, n, V, base, F) ==
    /\ g = [s \in SUBSET (1 .. n) |->
              IF s = {} THEN base ELSE F[<<g[s \ {Max(s)}], Max(s)>>]]
    /\ \A s \in SUBSET (1 .. n) : g[s] \in V

\* A fold that stays in V exists.
LEMMA FoldGraph ==
    ASSUME NEW n \in Nat, NEW V, NEW base \in V, NEW F,
           \A k \in 1 .. n : \A z \in V : F[<<z, k>>] \in V
    PROVE  \E g : FoldIn(g, n, V, base, F)
  <1> DEFINE J == [k \in 0 .. n |-> V]
  <1>1. \A k \in 0 .. n : J[k] = V
    OBVIOUS
  <1>2. \A k \in 1 .. n : k - 1 \in 0 .. n /\ k \in 0 .. n
    OBVIOUS
  <1>3. 0 \in 0 .. n /\ n \in 0 .. n
    OBVIOUS
  <1> HIDE DEF J
  <1>4. base \in J[0] /\ Growing(n, F, J)
    BY <1>1, <1>2, <1>3 DEF Growing
  <1>5. PICK g : Folding(g, n, base, F, J)
    BY <1>4, FoldIsThere
  <1> QED
    BY <1>1, <1>3, <1>5 DEF Folding, FoldIn

\* It is reached step by step.
LEMMA FoldPath ==
    ASSUME NEW n \in Nat, NEW g
    PROVE  /\ 1 .. 0 = {} /\ {} \in SUBSET (1 .. n)
           /\ \A k \in 1 .. n :
                 /\ 1 .. k \in SUBSET (1 .. n) /\ 1 .. k # {} /\ Max(1 .. k) = k
                 /\ (1 .. k) \ {k} = 1 .. (k - 1)
  <1>1. 1 .. 0 = {} /\ {} \in SUBSET (1 .. n)
    OBVIOUS
  <1>2. ASSUME NEW k \in 1 .. n
        PROVE  /\ 1 .. k \in SUBSET (1 .. n) /\ 1 .. k # {} /\ Max(1 .. k) = k
               /\ (1 .. k) \ {k} = 1 .. (k - 1)
    <2>1. k \in 1 .. k /\ k \in Nat
      OBVIOUS
    <2>2. Max(1 .. k) = k
      BY <2>1, MaxOf
    <2> QED
      BY <2>1, <2>2
  <1> QED
    BY <1>1, <1>2

-----------------------------------------------------------------------------
(* A database.                                                             *)

SystemRows == [key : Tables, val : {System}]
Cell(t) == (IF t \in Tables THEN Rows ELSE SystemRows) \cup {Gap}
AnyCell == Rows \cup SystemRows \cup {Gap}

PageType == [next : Nat, count : Nat, free : Nat, cells : Seq(AnyCell)]
DirEntry == [name : Names, start : Nat, last : Nat]
Hint == [row : Rows, page : Nat]
IndexType == [Keys -> Seq(Hint)]
DbType == [dir : Seq(DirEntry), pages : Seq(PageType),
           index : [Names -> IndexType \cup {None}]]
SpinesType == [Names -> Seq(Nat)]

\* The header of a page tells what its cells are.
PageOK(page) ==
    /\ page.free = Used(page.cells)
    /\ page.free <= PageSize \/ Len(page.cells) = 1
    /\ page.count <= Len(page.cells)

\* Links lead to later pages, and no page is linked twice.
LinksOK(pages) ==
    /\ \A p \in 1 .. Len(pages) :
          /\ PageOK(pages[p])
          /\ pages[p].next = 0 \/ pages[p].next \in p + 1 .. Len(pages)
    /\ \A p, q \in 1 .. Len(pages) :
          pages[p].next = pages[q].next /\ pages[p].next # 0 => p = q

\* The directory has each table once, and the ends of its spine s.
Directory(dir, s) ==
    \A i \in 1 .. Len(dir) :
        /\ s[dir[i].name] # <<>>
        /\ dir[i].start = s[dir[i].name][1]
        /\ dir[i].last = s[dir[i].name][Len(s[dir[i].name])]
        /\ \A j \in 1 .. Len(dir) : dir[i].name = dir[j].name => i = j

\* The pages sp of table t are linked, from a page that is linked nowhere to
\* one behind which there is at most an empty page.
Spine(pages, t, sp) ==
    /\ \A k \in 1 .. Len(sp) :
          sp[k] \in 1 .. Len(pages) /\ pages[sp[k]].cells \in Seq(Cell(t))
    /\ \A k \in 1 .. Len(sp) : k + 1 <= Len(sp) => pages[sp[k]].next = sp[k + 1]
    /\ sp # <<>> =>
          /\ \A p \in 1 .. Len(pages) : pages[p].next # sp[1]
          /\ LET behind == pages[sp[Len(sp)]].next
             IN behind # 0 => pages[behind] = EmptyPage

\* No page is in two places.
SpinesApart(s) ==
    \A t, u \in Names : \A k \in 1 .. Len(s[t]), l \in 1 .. Len(s[u]) :
        s[t][k] = s[u][l] => t = u /\ k = l

\* An index of t has entries of its keys, for rows in pages P.
HintsInto(ix, t, P) ==
    /\ t \in Tables
    /\ \A k \in Keys : \A i \in 1 .. Len(ix[k]) :
          ix[k][i].row.key = k /\ ix[k][i].page \in P
Hints(ix, t, P) == ix # None => HintsInto(ix, t, P)

\* An empty page that is in no spine.
Stray(d, s, p) ==
    /\ d.pages[p] = EmptyPage
    /\ \A u \in Names : \A k \in 1 .. Len(s[u]) : p # s[u][k]

\* Where the entries of t lead: to its spine, or for a row that was too far to
\* a page that was linked in vain.
Reach(d, s, t) ==
    {p \in 1 .. Len(d.pages) : (\E k \in 1 .. Len(s[t]) : p = s[t][k]) \/ Stray(d, s, p)}

Good(d, s) ==
    /\ d \in DbType
    /\ s \in SpinesType
    /\ LinksOK(d.pages)
    /\ Directory(d.dir, s)
    /\ SpinesApart(s)
    /\ \A t \in Names :
          /\ Spine(d.pages, t, s[t])
          /\ Hints(d.index[t], t, Reach(d, s, t))
          /\ s[t] # <<>> => \E i \in 1 .. Len(d.dir) : d.dir[i].name = t

-----------------------------------------------------------------------------
(* Types.                                                                  *)

\* A record takes room, and no row is a gap.
LEMMA NeedFacts ==
    /\ \A r \in AnyCell : Need(r) \in Nat \ {0}
    /\ Gap \notin Rows /\ Gap \notin SystemRows
    /\ Need(Gap) = 1
  <1>1. Gap \notin Rows /\ Gap \notin SystemRows
    BY NamesApart DEF Gap, Rows, SystemRows, Names
  <1>2. Need(Gap) = 1
    BY DEF Need
  <1>3. \A r \in Rows \cup SystemRows : Width[r.val] \in Nat \ {0}
    BY WidthsGiven DEF Rows, SystemRows
  <1> QED
    BY <1>1, <1>2, <1>3 DEF Need, AnyCell

\* What a table stores are rows, records of _indexes or gaps.
LEMMA CellFacts ==
    \A t : Cell(t) \subseteq AnyCell
  BY DEF Cell, AnyCell

\* The types of the parts of a database.
LEMMA DbFields ==
    ASSUME NEW d \in DbType
    PROVE  /\ d = [dir |-> d.dir, pages |-> d.pages, index |-> d.index]
           /\ d.dir \in Seq(DirEntry) /\ Len(d.dir) \in Nat /\ DOMAIN d.dir = 1 .. Len(d.dir)
           /\ d.pages \in Seq(PageType) /\ Len(d.pages) \in Nat
           /\ DOMAIN d.pages = 1 .. Len(d.pages)
           /\ d.index \in [Names -> IndexType \cup {None}]
           /\ \A i \in 1 .. Len(d.dir) :
                 /\ d.dir[i] \in DirEntry /\ d.dir[i].name \in Names
                 /\ d.dir[i].start \in Nat /\ d.dir[i].last \in Nat
           /\ \A p \in 1 .. Len(d.pages) :
                 /\ d.pages[p] \in PageType
                 /\ d.pages[p].next \in Nat /\ d.pages[p].count \in Nat
                 /\ d.pages[p].free \in Nat /\ d.pages[p].cells \in Seq(AnyCell)
  <1>1. d = [dir |-> d.dir, pages |-> d.pages, index |-> d.index]
        /\ d.dir \in Seq(DirEntry) /\ d.pages \in Seq(PageType)
        /\ d.index \in [Names -> IndexType \cup {None}]
    BY DEF DbType
  <1>2. \A e \in DirEntry : e.name \in Names /\ e.start \in Nat /\ e.last \in Nat
    BY DEF DirEntry
  <1>3. \A e \in PageType : e.next \in Nat /\ e.count \in Nat /\ e.free \in Nat /\ e.cells \in Seq(AnyCell)
    BY DEF PageType
  <1> QED
    BY <1>1, <1>2, <1>3, SeqFacts

\* The pages of a spine are there; that of a table that exists is not empty.
LEMMA SpineFacts ==
    ASSUME NEW d, NEW s, Good(d, s), NEW t \in Names
    PROVE  /\ s[t] \in Seq(Nat) /\ Len(s[t]) \in Nat
           /\ s[t] # <<>> => Len(s[t]) >= 1
           /\ \A k \in 1 .. Len(s[t]) :
                 s[t][k] \in Nat /\ s[t][k] \in 1 .. Len(d.pages)
  <1>1. s[t] \in Seq(Nat)
    BY DEF Good, SpinesType
  <1>2. \A k \in 1 .. Len(s[t]) : s[t][k] \in 1 .. Len(d.pages)
    BY DEF Good, Spine
  <1> QED
    BY <1>1, <1>2

\* findTableEntry: where the directory says that the spine begins and ends.
LEMMA EntryFacts ==
    ASSUME NEW d, NEW s, Good(d, s), NEW t, Exists(d, t)
    PROVE  /\ t \in Names /\ s[t] # <<>> /\ Len(s[t]) \in Nat \ {0}
           /\ Entry(d, t).start = s[t][1]
           /\ Entry(d, t).last = s[t][Len(s[t])]
           /\ \E i \in 1 .. Len(d.dir) : d.dir[i].name = t /\ Entry(d, t) = d.dir[i]
  <1>1. d \in DbType
    BY DEF Good
  <1>2. \E e \in ToSet(d.dir) : e.name = t
    BY DEF Exists
  <1>3. Entry(d, t) \in ToSet(d.dir) /\ Entry(d, t).name = t
    BY <1>2 DEF Entry
  <1>4. PICK i \in 1 .. Len(d.dir) : Entry(d, t) = d.dir[i]
    BY <1>1, <1>3, DbFields DEF ToSet
  <1>5. t \in Names
    BY <1>1, <1>3, <1>4, DbFields
  <1>6. /\ s[t] # <<>> /\ d.dir[i].start = s[t][1]
        /\ d.dir[i].last = s[t][Len(s[t])]
    BY <1>3, <1>4 DEF Good, Directory
  <1>7. Len(s[t]) \in Nat \ {0}
    <2>1. s[t] \in Seq(Nat)
      BY <1>5, SpineFacts
    <2> QED
      BY <2>1, <1>6
  <1> QED
    BY <1>3, <1>4, <1>5, <1>6, <1>7

\* A table exists if it has a spine.
LEMMA ExistsFacts ==
    ASSUME NEW d, NEW s, Good(d, s), NEW t \in Names
    PROVE  Exists(d, t) <=> s[t] # <<>>
  <1>1. d \in DbType
    BY DEF Good
  <1>2. s[t] # <<>> => Exists(d, t)
    <2> SUFFICES ASSUME s[t] # <<>> PROVE Exists(d, t)
      OBVIOUS
    <2>1. PICK i \in 1 .. Len(d.dir) : d.dir[i].name = t
      BY DEF Good
    <2>2. d.dir[i] \in ToSet(d.dir)
      BY <1>1, DbFields DEF ToSet
    <2> QED
      BY <2>1, <2>2 DEF Exists
  <1> QED
    BY <1>2, EntryFacts

\* What is linked behind a spine is in no other place.
LEMMA BehindFacts ==
    ASSUME NEW d, NEW s, Good(d, s), NEW t \in Names, s[t] # <<>>,
           NEW b, b = d.pages[s[t][Len(s[t])]].next, b # 0
    PROVE  /\ b \in 1 .. Len(d.pages) /\ d.pages[b] = EmptyPage
           /\ \A u \in Names : \A k \in 1 .. Len(s[u]) : s[u][k] # b
           /\ \A u \in Names : s[u] # <<>> /\ d.pages[s[u][Len(s[u])]].next = b => u = t
  <1> DEFINE n == Len(s[t])
             l == s[t][n]
  <1>1. n \in Nat /\ n >= 1 /\ l \in 1 .. Len(d.pages) /\ Len(d.pages) \in Nat
    <2>1. n \in Nat /\ n >= 1
      BY SpineFacts
    <2>2. n \in 1 .. n
      BY <2>1
    <2>3. l \in 1 .. Len(d.pages)
      BY <2>2, SpineFacts
    <2>4. Len(d.pages) \in Nat
      BY DbFields DEF Good
    <2> QED
      BY <2>1, <2>3, <2>4
  <1>2. b \in 1 .. Len(d.pages)
    <2>1. b \in l + 1 .. Len(d.pages)
      BY <1>1 DEF Good, LinksOK
    <2> QED
      BY <2>1, <1>1
  <1>3. d.pages[b] = EmptyPage
    BY DEF Good, Spine
  <1>4. ASSUME NEW u \in Names, NEW k \in 1 .. Len(s[u]), s[u][k] = b
        PROVE  FALSE
    <2>1. Len(s[u]) \in Nat /\ s[u] # <<>>
      BY SpineFacts
    <2>2. CASE k = 1
      BY <2>1, <2>2, <1>1, <1>4 DEF Good, Spine
    <2>3. CASE k # 1
      <3>1. k - 1 \in 1 .. Len(s[u]) /\ (k - 1) + 1 = k /\ k <= Len(s[u])
        BY <2>1, <2>3
      <3>2. d.pages[s[u][k - 1]].next = s[u][k]
        <4>1. Spine(d.pages, u, s[u])
          BY DEF Good
        <4> QED
          BY <3>1, <4>1 DEF Spine
      <3>3. s[u][k - 1] \in 1 .. Len(d.pages)
        BY <3>1, SpineFacts
      <3>4. s[u][k - 1] = l
        BY <3>2, <3>3, <1>1, <1>4 DEF Good, LinksOK
      <3>5. u = t /\ k - 1 = n
        BY SMTT(60), <3>1, <3>4, <1>1 DEF Good, SpinesApart
      <3> QED
        BY <3>1, <3>5, <1>1
    <2> QED
      BY <2>2, <2>3
  <1>5. ASSUME NEW u \in Names, s[u] # <<>>, d.pages[s[u][Len(s[u])]].next = b
        PROVE  u = t
    <2> DEFINE m == Len(s[u])
    <2>1. m \in Nat /\ m >= 1
      BY <1>5, SpineFacts
    <2>2. s[u][m] \in 1 .. Len(d.pages)
      BY <2>1, SpineFacts
    <2>3. s[u][m] = l
      BY <2>2, <1>1, <1>5 DEF Good, LinksOK
    <2>4. m \in 1 .. m /\ n \in 1 .. n
      BY <2>1, <1>1
    <2> QED
      BY <2>3, <2>4 DEF Good, SpinesApart
  <1> QED
    BY <1>2, <1>3, <1>4, <1>5

-----------------------------------------------------------------------------
(* What a statement about table t may do.                                  *)

\* From d to e pages of the spine of t have got other cells, and its index
\* other entries.
Reworked(d, s, e, t) ==
    /\ e \in DbType
    /\ e.dir = d.dir
    /\ Len(e.pages) = Len(d.pages)
    /\ \A p \in 1 .. Len(d.pages) :
          \/ e.pages[p] = d.pages[p]
          \/ /\ \E k \in 1 .. Len(s[t]) : p = s[t][k]
             /\ PageOK(e.pages[p])
             /\ e.pages[p].next = d.pages[p].next
             /\ e.pages[p].cells \in Seq(Cell(t))
    /\ \A u \in Names : u # t => e.index[u] = d.index[u]
    /\ Hints(e.index[t], t, Reach(d, s, t))

\* From d with spines s to e with spines u, nothing has changed but pages of
\* the spine of t, its last page in the directory and its index.
Grows(d, s, e, u, t) ==
    /\ Len(e.dir) = Len(d.dir)
    /\ \A i \in 1 .. Len(d.dir) :
          e.dir[i].name = d.dir[i].name /\ (d.dir[i].name # t => e.dir[i] = d.dir[i])
    /\ \A v \in Names : v # t => u[v] = s[v] /\ e.index[v] = d.index[v]
    /\ Len(s[t]) <= Len(u[t]) /\ \A k \in 1 .. Len(s[t]) : u[t][k] = s[t][k]
    /\ \A k \in 1 .. Len(u[t]) : k <= Len(s[t]) \/ u[t][k] > Len(d.pages)
    /\ Len(d.pages) <= Len(e.pages)
    /\ \A p \in 1 .. Len(d.pages) :
          (\A k \in 1 .. Len(s[t]) : p # s[t][k]) => e.pages[p] = d.pages[p]

\* The pages where entries may lead stay such pages.
LEMMA ReachGrows ==
    ASSUME NEW d, NEW s, NEW e, NEW u, NEW t \in Names, Grows(d, s, e, u, t), NEW v \in Names,
           d \in DbType, e \in DbType, Len(s[t]) \in Nat, Len(u[t]) \in Nat
    PROVE  Reach(d, s, v) \subseteq Reach(e, u, v)
  <1> SUFFICES ASSUME NEW p \in Reach(d, s, v) PROVE p \in Reach(e, u, v)
    OBVIOUS
  <1>1. /\ Len(d.pages) \in Nat /\ Len(e.pages) \in Nat
        /\ p \in 1 .. Len(d.pages) /\ p \in 1 .. Len(e.pages)
    <2>1. Len(d.pages) \in Nat /\ Len(e.pages) \in Nat
      BY DbFields
    <2> QED
      BY <2>1 DEF Reach, Grows
  <1>2. CASE \E k \in 1 .. Len(s[v]) : p = s[v][k]
    <2>1. PICK k \in 1 .. Len(s[v]) : p = s[v][k]
      BY <1>2
    <2>2. k \in 1 .. Len(u[v]) /\ u[v][k] = s[v][k]
      BY DEF Grows
    <2> QED
      BY <1>1, <2>1, <2>2 DEF Reach
  <1>3. CASE Stray(d, s, p)
    <2>1. e.pages[p] = EmptyPage
      BY <1>1, <1>3 DEF Grows, Stray
    <2>2. ASSUME NEW w \in Names, NEW k \in 1 .. Len(u[w]), p = u[w][k]
          PROVE  FALSE
      <3>1. CASE w # t
        BY <2>2, <3>1, <1>3 DEF Grows, Stray
      <3>2. CASE w = t
        <4>1. k <= Len(s[t])
          BY <2>2, <3>2, <1>1 DEF Grows
        <4>2. k \in 1 .. Len(s[t]) /\ u[t][k] = s[t][k]
          BY <4>1, <3>2 DEF Grows
        <4> QED
          BY <2>2, <3>2, <4>2, <1>3 DEF Stray
      <3> QED
        BY <3>1, <3>2
    <2> QED
      BY <1>1, <2>1, <2>2 DEF Reach, Stray
  <1> QED
    BY <1>2, <1>3 DEF Reach

\* So do the entries that lead there.
LEMMA HintsMore ==
    ASSUME NEW ix, NEW t, NEW P, Hints(ix, t, P), NEW Q, P \subseteq Q
    PROVE  Hints(ix, t, Q)
  BY DEF Hints, HintsInto

\* What writes pages of one spine only, each as it should be, keeps the layout.
LEMMA ReworkedGood ==
    ASSUME NEW d, NEW s, Good(d, s), NEW t \in Names, NEW e, Reworked(d, s, e, t)
    PROVE  Good(e, s) /\ Grows(d, s, e, s, t)
  <1> DEFINE n == Len(d.pages)
  <1>1. d \in DbType /\ e \in DbType /\ n \in Nat /\ Len(e.pages) = n /\ e.dir = d.dir
        /\ s \in SpinesType
    BY DbFields DEF Good, Reworked
  <1>2. \A p \in 1 .. n : e.pages[p].next = d.pages[p].next
    BY DEF Reworked
  <1>3. LinksOK(e.pages)
    <2>1. \A p \in 1 .. n : PageOK(e.pages[p])
      BY DEF Good, Reworked, LinksOK
    <2>2. LinksOK(d.pages)
      BY DEF Good
    <2> QED
      BY <1>1, <1>2, <2>1, <2>2 DEF LinksOK
  <1>4. ASSUME NEW u \in Names
        PROVE  Spine(e.pages, u, s[u])
    <2> DEFINE sp == s[u]
    <2>1. Spine(d.pages, u, sp) /\ Len(sp) \in Nat
      BY SpineFacts DEF Good
    <2>2. ASSUME NEW k \in 1 .. Len(sp)
          PROVE  sp[k] \in 1 .. n /\ e.pages[sp[k]].cells \in Seq(Cell(u))
      <3>1. sp[k] \in 1 .. n /\ d.pages[sp[k]].cells \in Seq(Cell(u))
        BY <2>1 DEF Spine
      <3>2. CASE e.pages[sp[k]] = d.pages[sp[k]]
        BY <3>1, <3>2
      <3>3. CASE /\ \E l \in 1 .. Len(s[t]) : sp[k] = s[t][l]
                 /\ e.pages[sp[k]].cells \in Seq(Cell(t))
        <4>1. u = t
          BY <3>3 DEF Good, SpinesApart
        <4> QED
          BY <3>1, <3>3, <4>1
      <3> QED
        BY <3>1, <3>2, <3>3 DEF Reworked
    <2>3. \A k \in 1 .. Len(sp) : k + 1 <= Len(sp) => e.pages[sp[k]].next = sp[k + 1]
      BY <2>1, <2>2, <1>2 DEF Spine
    <2>4. sp # <<>> => \A p \in 1 .. n : e.pages[p].next # sp[1]
      BY <2>1, <1>2 DEF Spine
    <2>5. sp # <<>> /\ e.pages[sp[Len(sp)]].next # 0
          => e.pages[e.pages[sp[Len(sp)]].next] = EmptyPage
      <3> SUFFICES ASSUME sp # <<>>, e.pages[sp[Len(sp)]].next # 0
                   PROVE  e.pages[e.pages[sp[Len(sp)]].next] = EmptyPage
        OBVIOUS
      <3>1. Len(sp) \in 1 .. Len(sp)
        BY <2>1, SpineFacts
      <3> DEFINE b == d.pages[sp[Len(sp)]].next
      <3>2. b = e.pages[sp[Len(sp)]].next
        BY <2>2, <3>1, <1>2
      <3>3. b \in 1 .. n /\ d.pages[b] = EmptyPage
        BY <3>2, BehindFacts
      <3>4. \A k \in 1 .. Len(s[t]) : s[t][k] # b
        BY <3>2, BehindFacts
      <3>5. e.pages[b] = d.pages[b]
        <4> HIDE DEF b, sp
        <4> QED
          BY <3>3, <3>4 DEF Reworked
      <3> QED
        BY <3>2, <3>3, <3>5
    <2>6. Spine(e.pages, u, sp)
      <3> HIDE DEF sp
      <3> QED
        BY <1>1, <2>2, <2>3, <2>4, <2>5 DEF Spine
    <2> QED
      BY <2>6
  <1>7. Grows(d, s, e, s, t)
    <2>1. Len(s[t]) \in Nat
      BY SpineFacts
    <2>2. /\ Len(e.dir) = Len(d.dir) /\ Len(s[t]) <= Len(s[t]) /\ Len(d.pages) <= Len(e.pages)
          /\ \A k \in 1 .. Len(s[t]) : k <= Len(s[t])
      BY <2>1, <1>1, DbFields
    <2> QED
      BY <2>2, <1>1 DEF Grows, Reworked
  <1>5. ASSUME NEW u \in Names
        PROVE  Hints(e.index[u], u, Reach(e, s, u))
    <2>1. Hints(e.index[u], u, Reach(d, s, u))
      BY DEF Good, Reworked
    <2>2. Reach(d, s, u) \subseteq Reach(e, s, u)
      BY <1>1, <1>7, SpineFacts, ReachGrows
    <2> QED
      BY <2>1, <2>2, HintsMore
  <1>6. Good(e, s)
    BY <1>1, <1>3, <1>4, <1>5 DEF Good
  <1> QED
    BY <1>6, <1>7

\* Doing nothing is a case of Grows.
LEMMA GrowsNot ==
    ASSUME NEW d, NEW s, Good(d, s), NEW t \in Names
    PROVE  Grows(d, s, d, s, t)
  <1>1. Len(s[t]) \in Nat /\ Len(d.pages) \in Nat
    BY SpineFacts, DbFields DEF Good
  <1> QED
    BY <1>1 DEF Grows

\* One statement after another on the same table.
LEMMA GrowsMore ==
    ASSUME NEW d, NEW s, Good(d, s), NEW t \in Names,
           NEW e, NEW u, Good(e, u), Grows(d, s, e, u, t),
           NEW f, NEW v, Good(f, v), Grows(e, u, f, v, t)
    PROVE  Grows(d, s, f, v, t)
  <1>1. /\ Len(s[t]) \in Nat /\ Len(u[t]) \in Nat /\ Len(v[t]) \in Nat
        /\ Len(d.pages) \in Nat /\ Len(e.pages) \in Nat /\ Len(f.pages) \in Nat
        /\ \A k \in 1 .. Len(u[t]) : u[t][k] \in Nat
        /\ \A k \in 1 .. Len(v[t]) : v[t][k] \in Nat
    <2>1. d \in DbType /\ e \in DbType /\ f \in DbType
      BY DEF Good
    <2>2. Len(d.pages) \in Nat /\ Len(e.pages) \in Nat /\ Len(f.pages) \in Nat
      BY <2>1, DbFields
    <2>3. Len(s[t]) \in Nat
      BY SpineFacts
    <2>4. Len(u[t]) \in Nat /\ \A k \in 1 .. Len(u[t]) : u[t][k] \in Nat
      BY SpineFacts
    <2>5. Len(v[t]) \in Nat /\ \A k \in 1 .. Len(v[t]) : v[t][k] \in Nat
      BY SpineFacts
    <2> QED
      BY <2>2, <2>3, <2>4, <2>5
  <1>2. /\ Len(f.dir) = Len(d.dir)
        /\ \A i \in 1 .. Len(d.dir) :
              f.dir[i].name = d.dir[i].name /\ (d.dir[i].name # t => f.dir[i] = d.dir[i])
    BY DEF Grows
  <1>3. \A w \in Names : w # t => v[w] = s[w] /\ f.index[w] = d.index[w]
    BY DEF Grows
  <1>4. Len(s[t]) <= Len(v[t]) /\ \A k \in 1 .. Len(s[t]) : v[t][k] = s[t][k]
    BY <1>1 DEF Grows
  <1>5. \A k \in 1 .. Len(v[t]) : k <= Len(s[t]) \/ v[t][k] > Len(d.pages)
    <2> SUFFICES ASSUME NEW k \in 1 .. Len(v[t]), ~ (k <= Len(s[t]))
                 PROVE  v[t][k] > Len(d.pages)
      OBVIOUS
    <2>1. CASE k <= Len(u[t])
      <3>1. k \in 1 .. Len(u[t])
        BY <2>1, <1>1
      <3>2. v[t][k] = u[t][k] /\ u[t][k] > Len(d.pages)
        BY <3>1 DEF Grows
      <3> QED
        BY <3>2
    <2>2. CASE ~ (k <= Len(u[t]))
      <3>1. v[t][k] > Len(e.pages) /\ Len(d.pages) <= Len(e.pages)
        BY <2>2 DEF Grows
      <3> QED
        BY <3>1, <1>1
    <2> QED
      BY <2>1, <2>2
  <1>6. Len(d.pages) <= Len(f.pages)
    BY <1>1 DEF Grows
  <1>7. ASSUME NEW p \in 1 .. Len(d.pages), \A k \in 1 .. Len(s[t]) : p # s[t][k]
        PROVE  f.pages[p] = d.pages[p]
    <2>1. p \in 1 .. Len(e.pages)
      BY <1>1 DEF Grows
    <2>2. ASSUME NEW k \in 1 .. Len(u[t]) PROVE p # u[t][k]
      <3>1. CASE k <= Len(s[t])
        <4>1. k \in 1 .. Len(s[t])
          BY <3>1, <1>1
        <4> QED
          BY <4>1, <1>7 DEF Grows
      <3>2. CASE ~ (k <= Len(s[t]))
        <4>1. u[t][k] > Len(d.pages)
          BY <3>2 DEF Grows
        <4> QED
          BY <4>1, <1>1
      <3> QED
        BY <3>1, <3>2
    <2>3. f.pages[p] = e.pages[p] /\ e.pages[p] = d.pages[p]
      BY <2>1, <2>2, <1>7 DEF Grows
    <2> QED
      BY <2>3
  <1> QED
    BY <1>2, <1>3, <1>4, <1>5, <1>6, <1>7 DEF Grows

-----------------------------------------------------------------------------
(* A new page.                                                             *)

\* A page without records has room for everything.
LEMMA UsedEmpty == Used(<<>>) = 0
  <1> DEFINE Iter(f) == f = [s \in SUBSET (DOMAIN <<>>) |->
                               IF s = {} THEN 0 ELSE f[s \ {Max(s)}] + Need(<<>>[Max(s)])]
             g == CHOOSE f : Iter(f)
  <1>1. DOMAIN <<>> = {}
    OBVIOUS
  <1>2. Used(<<>>) = g[DOMAIN <<>>]
    BY DEF Used, FoldLeft, MapThenFoldSet
  <1>3. \E f : Iter(f)
    <2> DEFINE f == [s \in SUBSET {} |-> 0]
    <2>1. \A s \in SUBSET {} : s = {}
      OBVIOUS
    <2>2. Iter(f)
      BY <2>1, <1>1
    <2> QED
      BY <2>2
  <1>4. Iter(g)
    <2> HIDE DEF Iter
    <2> QED
      BY <1>3
  <1> HIDE DEF g
  <1>5. g[{}] = 0
    BY <1>4, <1>1
  <1> QED
    BY <1>1, <1>2, <1>5

\* A page as allocPage leaves it.
LEMMA EmptyPageFacts ==
    /\ EmptyPage \in PageType /\ PageOK(EmptyPage)
    /\ EmptyPage.next = 0 /\ EmptyPage.cells = <<>> /\ EmptyPage.count = 0
    /\ \A t : EmptyPage.cells \in Seq(Cell(t))
  <1>1. /\ EmptyPage.next = 0 /\ EmptyPage.cells = <<>>
        /\ EmptyPage.count = 0 /\ EmptyPage.free = 0
    BY DEF EmptyPage
  <1>2. \A T : <<>> \in Seq(T)
    OBVIOUS
  <1>3. Len(<<>>) = 0
    OBVIOUS
  <1>4. EmptyPage \in PageType
    BY <1>2 DEF EmptyPage, PageType
  <1>5. PageOK(EmptyPage)
    BY <1>1, <1>3, UsedEmpty, BoundsAreNaturals DEF PageOK
  <1> QED
    BY <1>1, <1>2, <1>4, <1>5

\* The link of a page is written.
LEMMA NextFacts ==
    ASSUME NEW page \in PageType, NEW n \in Nat, NEW new, new = [page EXCEPT !.next = n]
    PROVE  /\ new \in PageType /\ new.next = n
           /\ new.count = page.count /\ new.free = page.free /\ new.cells = page.cells
  <1>1. page = [next |-> page.next, count |-> page.count,
                free |-> page.free, cells |-> page.cells]
        /\ page.count \in Nat /\ page.free \in Nat /\ page.cells \in Seq(AnyCell)
    BY DEF PageType
  <1>2. new = [next |-> n, count |-> page.count, free |-> page.free, cells |-> page.cells]
    BY <1>1
  <1> QED
    BY <1>1, <1>2 DEF PageType

\* What allocPage and the link to its page change.
LEMMA LinkedIs ==
    ASSUME NEW d \in DbType, NEW l \in 1 .. Len(d.pages), NEW e, e = Linked(d, l)
    PROVE  /\ e \in DbType /\ e.dir = d.dir /\ e.index = d.index
           /\ Len(e.pages) = Len(d.pages) + 1
           /\ e.pages[Len(d.pages) + 1] = EmptyPage
           /\ \A p \in 1 .. Len(d.pages) : p # l => e.pages[p] = d.pages[p]
           /\ e.pages[l] = [d.pages[l] EXCEPT !.next = Len(d.pages) + 1]
  <1> DEFINE n == Len(d.pages)
             page == [d.pages[l] EXCEPT !.next = n + 1]
             pages == [d.pages EXCEPT ![l] = page]
  <1>1. d.pages \in Seq(PageType) /\ n \in Nat /\ d.pages[l] \in PageType
    BY DbFields
  <1>2. page \in PageType
    <2>1. n + 1 \in Nat
      BY <1>1
    <2> HIDE DEF n
    <2> QED
      BY <1>1, <2>1, NextFacts
  <1>3. pages \in Seq(PageType) /\ Len(pages) = n
        /\ pages[l] = page /\ \A p \in 1 .. n : p # l => pages[p] = d.pages[p]
    <2> HIDE DEF page
    <2> QED
      BY <1>1, <1>2
  <1>4. e = [d EXCEPT !.pages = Append(pages, EmptyPage)]
    BY DEF Linked
  <1> HIDE DEF pages, page
  <1>5. /\ Append(pages, EmptyPage) \in Seq(PageType) /\ Len(Append(pages, EmptyPage)) = n + 1
        /\ \A p \in 1 .. n : Append(pages, EmptyPage)[p] = pages[p]
        /\ Append(pages, EmptyPage)[n + 1] = EmptyPage
    <2>1. EmptyPage \in PageType
      BY EmptyPageFacts
    <2> QED
      BY <1>3, <2>1, AppendFacts
  <1> DEFINE q == Append(pages, EmptyPage)
  <1> HIDE DEF q
  <1>6. e = [dir |-> d.dir, pages |-> q, index |-> d.index]
    BY <1>4, DbFields DEF q
  <1>7. e \in DbType
    BY <1>5, <1>6, DbFields DEF DbType, q
  <1> QED
    BY <1>3, <1>5, <1>6, <1>7 DEF q, page

\* A page linked behind an empty end is not part of the spine yet.
LEMMA LinkedGood ==
    ASSUME NEW d, NEW s, Good(d, s), NEW t \in Names, s[t] # <<>>,
           NEW l, l = s[t][Len(s[t])], NEW e, e = Linked(d, l)
    PROVE  Good(e, s) /\ Grows(d, s, e, s, t)
  <1> DEFINE n == Len(d.pages)
  <1>1. d \in DbType /\ n \in Nat /\ l \in 1 .. n /\ l \in Nat
        /\ Len(s[t]) \in Nat /\ Len(s[t]) \in 1 .. Len(s[t])
    <2>1. Len(s[t]) \in Nat /\ Len(s[t]) \in 1 .. Len(s[t])
      BY SpineFacts
    <2>2. d \in DbType
      BY DEF Good
    <2>3. n \in Nat
      BY <2>2, DbFields
    <2>4. l \in 1 .. n
      BY <2>1, SpineFacts
    <2> QED
      BY <2>1, <2>2, <2>3, <2>4
  <1>2. /\ e \in DbType /\ e.dir = d.dir /\ e.index = d.index
        /\ Len(e.pages) = n + 1 /\ e.pages[n + 1] = EmptyPage
        /\ \A p \in 1 .. n : p # l => e.pages[p] = d.pages[p]
        /\ e.pages[l] = [d.pages[l] EXCEPT !.next = n + 1]
    BY <1>1, LinkedIs
  <1>3. /\ e.pages[l].next = n + 1
        /\ e.pages[l].count = d.pages[l].count
        /\ e.pages[l].free = d.pages[l].free
        /\ e.pages[l].cells = d.pages[l].cells
    BY <1>1, <1>2, DbFields
  <1> HIDE DEF n
  <1>4. /\ \A p \in 1 .. n : e.pages[p].cells = d.pages[p].cells
        /\ \A p \in 1 .. n : PageOK(e.pages[p])
    <2>1. \A p \in 1 .. n : PageOK(d.pages[p])
      BY DEF Good, LinksOK, n
    <2>2. PageOK(e.pages[l])
      BY <2>1, <1>1, <1>3 DEF PageOK
    <2> QED
      BY <2>1, <2>2, <1>2, <1>3
  <1>5. \A p \in 1 .. n : d.pages[p].next = 0 \/ d.pages[p].next \in p + 1 .. n
    BY DEF Good, LinksOK, n
  <1>6. LinksOK(e.pages)
    <2>1. ASSUME NEW p \in 1 .. n + 1
          PROVE  PageOK(e.pages[p]) /\ (e.pages[p].next = 0 \/ e.pages[p].next \in p + 1 .. n + 1)
      <3>1. CASE p = n + 1
        BY <3>1, <1>2, EmptyPageFacts
      <3>2. CASE p = l
        BY <3>2, <1>1, <1>3, <1>4
      <3>3. CASE p \in 1 .. n /\ p # l
        <4>1. d.pages[p].next = 0 \/ d.pages[p].next \in p + 1 .. n
          BY <3>3, <1>5
        <4> QED
          BY <3>3, <4>1, <1>1, <1>2, <1>4
      <3> QED
        BY <3>1, <3>2, <3>3, <1>1
    <2>2. ASSUME NEW p \in 1 .. n + 1, NEW q \in 1 .. n + 1,
                 e.pages[p].next = e.pages[q].next, e.pages[p].next # 0
          PROVE  p = q
      <3>1. \A r \in 1 .. n : r # l => e.pages[r].next # n + 1
        <4> SUFFICES ASSUME NEW r \in 1 .. n, r # l, d.pages[r].next = n + 1 PROVE FALSE
          BY <1>2
        <4> QED
          BY <1>1, <1>5
      <3>2. p \in 1 .. n /\ q \in 1 .. n
        BY <2>2, <1>1, <1>2, EmptyPageFacts
      <3>3. CASE p # l /\ q # l
        <4>1. e.pages[p] = d.pages[p] /\ e.pages[q] = d.pages[q]
          BY <3>2, <3>3, <1>2
        <4> QED
          BY <2>2, <3>2, <4>1 DEF Good, LinksOK, n
      <3>4. CASE p = l \/ q = l
        BY <3>1, <3>2, <3>4, <2>2, <1>3
      <3> QED
        BY <3>3, <3>4
    <2> QED
      BY <2>1, <2>2, <1>2 DEF LinksOK
  <1>7. ASSUME NEW v \in Names
        PROVE  Spine(e.pages, v, s[v])
    <2>1. Spine(d.pages, v, s[v]) /\ Len(s[v]) \in Nat
      BY SpineFacts DEF Good
    <2>2. \A k \in 1 .. Len(s[v]) :
             s[v][k] \in 1 .. n /\ s[v][k] \in 1 .. n + 1 /\ e.pages[s[v][k]].cells \in Seq(Cell(v))
      <3>1. \A k \in 1 .. Len(s[v]) :
               s[v][k] \in 1 .. n /\ d.pages[s[v][k]].cells \in Seq(Cell(v))
        BY <2>1 DEF Spine, n
      <3>2. \A k \in 1 .. n : k \in 1 .. n + 1
        BY <1>1
      <3> QED
        BY <3>1, <3>2, <1>4
    <2>3. ASSUME NEW k \in 1 .. Len(s[v]), k + 1 <= Len(s[v])
          PROVE  e.pages[s[v][k]].next = s[v][k + 1]
      <3>1. s[v][k] # l
        <4>1. s[v][k] = l => v = t /\ k = Len(s[t])
          BY <1>1 DEF Good, SpinesApart
        <4> QED
          BY <4>1, <2>3, <2>1
      <3> QED
        BY <2>1, <2>2, <2>3, <3>1, <1>2 DEF Spine
    <2>4. ASSUME s[v] # <<>>, NEW p \in 1 .. n + 1
          PROVE  e.pages[p].next # s[v][1]
      <3>1. s[v][1] \in 1 .. n
        <4>1. 1 \in 1 .. Len(s[v])
          BY <2>4, <2>1, SpineFacts
        <4> QED
          BY <4>1, <2>2
      <3>2. \A q \in 1 .. n : d.pages[q].next # s[v][1]
        BY <2>1, <2>4 DEF Spine, n
      <3>3. CASE p = n + 1
        BY <3>1, <3>3, <1>1, <1>2, EmptyPageFacts
      <3>4. CASE p = l
        BY <3>1, <3>4, <1>1, <1>3
      <3>5. CASE p \in 1 .. n /\ p # l
        BY <3>2, <3>5, <1>2
      <3> QED
        BY <3>3, <3>4, <3>5, <1>1
    <2>5. ASSUME s[v] # <<>>, e.pages[s[v][Len(s[v])]].next # 0
          PROVE  e.pages[e.pages[s[v][Len(s[v])]].next] = EmptyPage
      <3> DEFINE m == s[v][Len(s[v])]
      <3>1. CASE v = t
        BY <3>1, <1>2, <1>3
      <3>2. CASE v # t
        <4>1. Len(s[v]) \in 1 .. Len(s[v])
          BY <2>1, <2>5, SpineFacts
        <4>2. m \in 1 .. n /\ m # l
          BY <4>1, <3>2, <2>2, <1>1 DEF Good, SpinesApart
        <4> DEFINE b == d.pages[m].next
        <4>3. e.pages[m].next = b
          BY <4>2, <1>2
        <4>4. b \in 1 .. n /\ d.pages[b] = EmptyPage
          BY <4>3, <2>5, BehindFacts DEF n
        <4>5. b # l
          BY <4>3, <2>5, <1>1, BehindFacts
        <4> HIDE DEF m, b
        <4>6. e.pages[b] = EmptyPage
          BY <4>4, <4>5, <1>2
        <4> QED
          BY <4>3, <4>6 DEF m
      <3> QED
        BY <3>1, <3>2
    <2> QED
      BY <1>2, <2>2, <2>3, <2>4, <2>5 DEF Spine
  <1>8. Grows(d, s, e, s, t)
    <2>1. /\ Len(e.dir) = Len(d.dir) /\ Len(s[t]) <= Len(s[t]) /\ Len(d.pages) <= Len(e.pages)
          /\ \A k \in 1 .. Len(s[t]) : k <= Len(s[t])
      BY <1>1, <1>2 DEF n
    <2> QED
      BY <2>1, <1>1, <1>2 DEF Grows, n
  <1>9. ASSUME NEW v \in Names
        PROVE  Hints(e.index[v], v, Reach(e, s, v))
    <2>1. Hints(e.index[v], v, Reach(d, s, v))
      BY <1>2 DEF Good
    <2>2. Reach(d, s, v) \subseteq Reach(e, s, v)
      BY <1>1, <1>2, <1>8, ReachGrows
    <2> QED
      BY <2>1, <2>2, HintsMore
  <1>10. Good(e, s)
    BY <1>2, <1>6, <1>7, <1>9 DEF Good
  <1> QED
    BY <1>8, <1>10

\* The last page of a directory entry is written.
LEMMA LastFacts ==
    ASSUME NEW x \in DirEntry, NEW n \in Nat, NEW new, new = [x EXCEPT !.last = n]
    PROVE  new \in DirEntry /\ new.last = n /\ new.name = x.name /\ new.start = x.start
  <1>1. x = [name |-> x.name, start |-> x.start, last |-> x.last]
        /\ x.name \in Names /\ x.start \in Nat
    BY DEF DirEntry
  <1>2. new = [name |-> x.name, start |-> x.start, last |-> n]
    BY <1>1
  <1> QED
    BY <1>1, <1>2 DEF DirEntry

\* What updateTableLastPage changes.
LEMMA WithLastIs ==
    ASSUME NEW d \in DbType, NEW t, NEW b \in Nat, NEW e, e = WithLastPage(d, t, b)
    PROVE  /\ e \in DbType /\ e.pages = d.pages /\ e.index = d.index
           /\ Len(e.dir) = Len(d.dir)
           /\ \A i \in 1 .. Len(d.dir) :
                 /\ e.dir[i].name = d.dir[i].name /\ e.dir[i].start = d.dir[i].start
                 /\ e.dir[i].last = IF d.dir[i].name = t THEN b ELSE d.dir[i].last
                 /\ d.dir[i].name # t => e.dir[i] = d.dir[i]
  <1> DEFINE n == Len(d.dir)
             new(i) == IF d.dir[i].name = t THEN [d.dir[i] EXCEPT !.last = b] ELSE d.dir[i]
             dir == [i \in 1 .. n |-> new(i)]
  <1>1. d.dir \in Seq(DirEntry) /\ n \in Nat /\ DOMAIN d.dir = 1 .. n
        /\ \A i \in 1 .. n : d.dir[i] \in DirEntry
    BY DbFields
  <1>2. e = [d EXCEPT !.dir = dir]
    BY <1>1 DEF WithLastPage
  <1>3. e = [dir |-> dir, pages |-> d.pages, index |-> d.index]
    <2> HIDE DEF dir
    <2> QED
      BY <1>2, DbFields
  <1>4. ASSUME NEW i \in 1 .. n
        PROVE  /\ new(i) \in DirEntry
               /\ new(i).name = d.dir[i].name /\ new(i).start = d.dir[i].start
               /\ new(i).last = IF d.dir[i].name = t THEN b ELSE d.dir[i].last
               /\ d.dir[i].name # t => new(i) = d.dir[i]
    <2>1. d.dir[i] \in DirEntry
      BY <1>1
    <2>2. CASE d.dir[i].name = t
      BY <2>1, <2>2, LastFacts
    <2>3. CASE d.dir[i].name # t
      BY <2>1, <2>3
    <2> QED
      BY <2>2, <2>3
  <1> HIDE DEF new
  <1>5. dir \in Seq(DirEntry) /\ Len(dir) = n /\ \A i \in 1 .. n : dir[i] = new(i)
    BY <1>1, <1>4
  <1> HIDE DEF dir
  <1>6. e \in DbType
    BY <1>3, <1>5, DbFields DEF DbType
  <1> QED
    BY <1>3, <1>4, <1>5, <1>6

\* One entry of the directory after a table's last page moved to b.
EntryMoved(d, t, b, e, i) ==
    /\ e.dir[i].name = d.dir[i].name /\ e.dir[i].start = d.dir[i].start
    /\ e.dir[i].last = IF d.dir[i].name = t THEN b ELSE d.dir[i].last

\* WithLastPage says that of every entry.
LEMMA WithLastEntry ==
    ASSUME NEW d \in DbType, NEW t, NEW b \in Nat, NEW e, e = WithLastPage(d, t, b),
           NEW i \in 1 .. Len(d.dir)
    PROVE  EntryMoved(d, t, b, e, i)
  BY WithLastIs DEF EntryMoved

\* No entry of another table leads to page b.
Avoided(d, s, t, b) ==
    \A v \in Names : v # t => Hints(d.index[v], v, Reach(d, s, v) \ {b})

\* updateTableLastPage: the page behind a spine becomes its last.
LEMMA AdvanceGood ==
    ASSUME NEW d, NEW s, Good(d, s), NEW t \in Names, s[t] # <<>>,
           NEW b, b = d.pages[s[t][Len(s[t])]].next, b # 0, Avoided(d, s, t, b),
           NEW e, e = WithLastPage(d, t, b),
           NEW u \in SpinesType, u[t] = Append(s[t], b),
           \A v \in Names : v # t => u[v] = s[v]
    PROVE  /\ Good(e, u) /\ e.pages = d.pages /\ e.index = d.index
           /\ Len(u[t]) = Len(s[t]) + 1 /\ u[t][Len(u[t])] = b
           /\ \A k \in 1 .. Len(s[t]) : u[t][k] = s[t][k]
           /\ \A v \in Names : v # t => u[v] = s[v]
  <1> DEFINE n == Len(s[t])
  <1>1. d \in DbType /\ s \in SpinesType /\ s[t] \in Seq(Nat)
        /\ n \in Nat /\ n \in 1 .. n /\ 1 \in 1 .. n
    <2>1. s[t] \in Seq(Nat) /\ n \in Nat /\ n >= 1
      BY SpineFacts
    <2> QED
      BY <2>1 DEF Good
  <1>2. /\ b \in 1 .. Len(d.pages) /\ b \in Nat /\ d.pages[b] = EmptyPage
        /\ \A v \in Names : \A k \in 1 .. Len(s[v]) : s[v][k] # b
    <2>1. Len(d.pages) \in Nat
      BY <1>1, DbFields
    <2>2. b \in 1 .. Len(d.pages) /\ d.pages[b] = EmptyPage
      BY BehindFacts
    <2>3. \A v \in Names : \A k \in 1 .. Len(s[v]) : s[v][k] # b
      BY BehindFacts
    <2> QED
      BY <2>1, <2>2, <2>3
  <1>3. /\ e \in DbType /\ e.pages = d.pages /\ e.index = d.index
        /\ Len(e.dir) = Len(d.dir)
        /\ \A i \in 1 .. Len(d.dir) :
              /\ e.dir[i].name = d.dir[i].name /\ e.dir[i].start = d.dir[i].start
              /\ e.dir[i].last = IF d.dir[i].name = t THEN b ELSE d.dir[i].last
    <2>1. d \in DbType /\ b \in Nat
      BY <1>1, <1>2
    <2>2. /\ e \in DbType /\ e.pages = d.pages /\ e.index = d.index
          /\ Len(e.dir) = Len(d.dir)
      BY <2>1, WithLastIs
    <2>3. \A i \in 1 .. Len(d.dir) :
             /\ e.dir[i].name = d.dir[i].name /\ e.dir[i].start = d.dir[i].start
             /\ e.dir[i].last = IF d.dir[i].name = t THEN b ELSE d.dir[i].last
      <3> TAKE i \in 1 .. Len(d.dir)
      <3>1. EntryMoved(d, t, b, e, i)
        BY <2>1, WithLastEntry
      <3> QED
        BY <3>1 DEF EntryMoved
    <2> QED
      BY <2>2, <2>3
  <1>4. /\ u[t] = Append(s[t], b) /\ u \in SpinesType
        /\ \A v \in Names : v # t => u[v] = s[v]
    OBVIOUS
  <1>5. /\ Len(u[t]) = n + 1 /\ u[t][n + 1] = b /\ u[t] # <<>>
        /\ \A k \in 1 .. n : u[t][k] = s[t][k]
    <2>1. /\ Len(Append(s[t], b)) = n + 1 /\ Append(s[t], b)[n + 1] = b
          /\ \A k \in 1 .. n : Append(s[t], b)[k] = s[t][k]
      BY <1>1, <1>2, AppendFacts
    <2>2. u[t] # <<>>
      <3> DEFINE a == Append(s[t], b)
      <3>1. Len(a) # 0
        BY <2>1, <1>1
      <3> HIDE DEF a
      <3>2. a # <<>>
        BY <3>1
      <3> QED
        BY <3>2 DEF a
    <2> QED
      BY <2>1, <2>2, <1>4
  <1> HIDE DEF n
  <1>6. Directory(e.dir, u)
    <2> SUFFICES ASSUME NEW i \in 1 .. Len(d.dir)
                 PROVE  /\ u[e.dir[i].name] # <<>>
                        /\ e.dir[i].start = u[e.dir[i].name][1]
                        /\ e.dir[i].last = u[e.dir[i].name][Len(u[e.dir[i].name])]
                        /\ \A j \in 1 .. Len(d.dir) : e.dir[i].name = e.dir[j].name => i = j
      BY ZenonT(60), <1>3 DEF Directory
    <2>1. /\ s[d.dir[i].name] # <<>>
          /\ d.dir[i].start = s[d.dir[i].name][1]
          /\ d.dir[i].last = s[d.dir[i].name][Len(s[d.dir[i].name])]
          /\ \A j \in 1 .. Len(d.dir) : d.dir[i].name = d.dir[j].name => i = j
      BY DEF Good, Directory
    <2>2. d.dir[i].name \in Names
      BY <1>1, DbFields
    <2>3. /\ e.dir[i].name = d.dir[i].name /\ e.dir[i].start = d.dir[i].start
          /\ e.dir[i].last = IF d.dir[i].name = t THEN b ELSE d.dir[i].last
          /\ \A j \in 1 .. Len(d.dir) : e.dir[i].name = e.dir[j].name => i = j
      BY <2>1, <1>3
    <2>4. CASE d.dir[i].name = t
      <3>1. u[t][1] = s[t][1] /\ u[t][Len(u[t])] = b /\ u[t] # <<>>
        BY <1>1, <1>5
      <3> QED
        BY <2>1, <2>4, <2>3, <3>1
    <2>5. CASE d.dir[i].name # t
      <3>1. u[d.dir[i].name] = s[d.dir[i].name]
        BY <2>2, <2>5, <1>4
      <3> QED
        BY <2>1, <2>5, <2>3, <3>1
    <2> QED
      BY <2>4, <2>5
  <1>7. SpinesApart(u)
    <2> SUFFICES ASSUME NEW v \in Names, NEW w \in Names,
                        NEW k \in 1 .. Len(u[v]), NEW l \in 1 .. Len(u[w]),
                        u[v][k] = u[w][l]
                 PROVE  v = w /\ k = l
      BY DEF SpinesApart
    <2>1. \A x \in Names : \A i \in 1 .. Len(u[x]) :
             \/ i \in 1 .. Len(s[x]) /\ u[x][i] = s[x][i]
             \/ x = t /\ i = n + 1 /\ u[x][i] = b
      <3> SUFFICES ASSUME NEW x \in Names, NEW i \in 1 .. Len(u[x])
                   PROVE  \/ i \in 1 .. Len(s[x]) /\ u[x][i] = s[x][i]
                          \/ x = t /\ i = n + 1 /\ u[x][i] = b
        OBVIOUS
      <3>1. CASE x = t
        <4>1. i \in 1 .. n \/ i = n + 1
          BY <3>1, <1>1, <1>5
        <4> QED
          BY <4>1, <3>1, <1>5 DEF n
      <3>2. CASE x # t
        BY <3>2, <1>4
      <3> QED
        BY <3>1, <3>2
    <2>2. CASE k \in 1 .. Len(s[v]) /\ u[v][k] = s[v][k] /\ l \in 1 .. Len(s[w]) /\ u[w][l] = s[w][l]
      <3>1. s[v][k] = s[w][l]
        BY <2>2
      <3>2. SpinesApart(s)
        BY DEF Good
      <3> QED
        BY <2>2, <3>1, <3>2 DEF SpinesApart
    <2>3. CASE v = t /\ k = n + 1 /\ u[v][k] = b
      BY <2>1, <2>3, <1>2
    <2>4. CASE w = t /\ l = n + 1 /\ u[w][l] = b
      BY <2>1, <2>4, <1>2
    <2> QED
      BY <2>1, <2>2, <2>3, <2>4
  <1>8. ASSUME NEW v \in Names
        PROVE  Spine(d.pages, v, u[v])
    <2>1. Spine(d.pages, v, s[v])
      BY DEF Good
    <2>2. CASE v # t
      BY <2>1, <2>2, <1>4
    <2>3. CASE v = t
      <3> DEFINE sp == u[t]
      <3>1. ASSUME NEW k \in 1 .. Len(sp)
            PROVE  sp[k] \in 1 .. Len(d.pages) /\ d.pages[sp[k]].cells \in Seq(Cell(t))
        <4>1. CASE k \in 1 .. n
          BY <4>1, <2>1, <2>3, <1>5 DEF Spine, n
        <4>2. CASE k = n + 1
          BY <4>2, <1>2, <1>5, EmptyPageFacts
        <4>3. k \in 1 .. n \/ k = n + 1
          BY <1>1, <1>5
        <4> HIDE DEF n, sp
        <4> QED
          BY <4>1, <4>2, <4>3
      <3>2. ASSUME NEW k \in 1 .. Len(sp), k + 1 <= Len(sp)
            PROVE  d.pages[sp[k]].next = sp[k + 1]
        <4>1. k \in 1 .. n /\ k \in Nat
          BY <3>2, <1>1, <1>5
        <4>2. CASE k + 1 <= n
          <5>1. k + 1 \in 1 .. n
            BY <4>1, <4>2, <1>1
          <5>2. sp[k] = s[t][k] /\ sp[k + 1] = s[t][k + 1]
            BY <4>1, <5>1, <1>5
          <5>3. d.pages[s[t][k]].next = s[t][k + 1]
            BY <4>1, <4>2, <2>1, <2>3 DEF Spine, n
          <5> QED
            BY <5>2, <5>3
        <4>3. CASE k = n
          BY <4>1, <4>3, <1>5 DEF n
        <4>4. k + 1 <= n \/ k = n
          BY <4>1, <1>1
        <4> QED
          BY <4>2, <4>3, <4>4
      <3>3. \A p \in 1 .. Len(d.pages) : d.pages[p].next # sp[1]
        BY <2>1, <2>3, <1>1, <1>5 DEF Spine
      <3>4. d.pages[sp[Len(sp)]].next = 0
        BY <1>2, <1>5, EmptyPageFacts
      <3>5. Spine(d.pages, t, sp)
        <4> HIDE DEF sp
        <4> QED
          BY <3>1, <3>2, <3>3, <3>4 DEF Spine
      <3> QED
        BY <2>3, <3>5
    <2> QED
      BY <2>2, <2>3
  <1>9. ASSUME NEW v \in Names
        PROVE  Hints(d.index[v], v, Reach(e, u, v))
    <2>1. \A m \in 1 .. Len(s[t]) : m \in 1 .. Len(u[t]) /\ u[t][m] = s[t][m]
      BY <1>1, <1>5 DEF n
    <2>2. b \in Reach(e, u, t)
      <3>1. n + 1 \in 1 .. Len(u[t]) /\ b = u[t][n + 1]
        BY <1>1, <1>5
      <3>2. b \in 1 .. Len(e.pages)
        BY <1>2, <1>3
      <3> QED
        BY <3>1, <3>2 DEF Reach
    <2>3. ASSUME NEW p \in Reach(d, s, v), p # b
          PROVE  p \in Reach(e, u, v)
      <3>1. CASE \E k \in 1 .. Len(s[v]) : p = s[v][k]
        BY <3>1, <2>1, <1>3, <1>4 DEF Reach
      <3>2. CASE Stray(d, s, p)
        <4>1. \A k \in 1 .. Len(u[t]) : k \in 1 .. Len(s[t]) \/ u[t][k] = b
          BY <1>1, <1>5 DEF n
        <4>2. \A k \in 1 .. Len(u[t]) : p # u[t][k]
          BY <4>1, <2>1, <2>3, <3>2 DEF Stray
        <4>3. Stray(e, u, p)
          BY <4>2, <3>2, <1>3, <1>4 DEF Stray
        <4> QED
          BY <4>3, <1>3 DEF Reach
      <3> QED
        BY <3>1, <3>2 DEF Reach
    <2>4. CASE v # t
      <3>1. Hints(d.index[v], v, Reach(d, s, v) \ {b})
        BY <2>4 DEF Avoided
      <3> QED
        BY <2>3, <3>1, HintsMore
    <2>5. CASE v = t
      <3>1. Hints(d.index[v], v, Reach(d, s, v)) /\ Reach(d, s, v) \subseteq Reach(e, u, v)
        BY <2>2, <2>3, <2>5 DEF Good
      <3> QED
        BY <3>1, HintsMore
    <2> QED
      BY <2>4, <2>5
  <1>10. ASSUME NEW v \in Names, u[v] # <<>>
         PROVE  \E i \in 1 .. Len(e.dir) : e.dir[i].name = v
    <2>1. s[v] # <<>>
      BY <1>4, <1>10
    <2>2. PICK i \in 1 .. Len(d.dir) : d.dir[i].name = v
      BY <2>1 DEF Good
    <2> QED
      BY <2>2, <1>3
  <1>11. LinksOK(e.pages)
    BY <1>3 DEF Good
  <1>12. Good(e, u)
    BY <1>3, <1>4, <1>6, <1>7, <1>8, <1>9, <1>10, <1>11 DEF Good
  <1> QED
    BY <1>3, <1>4, <1>5, <1>12 DEF n

\* A directory and its spines after t's last page became the page b behind it.
Advanced(d, s, t, b, e, u) ==
    /\ Good(e, u) /\ e.pages = d.pages /\ e.index = d.index
    /\ Len(u[t]) = Len(s[t]) + 1 /\ u[t][Len(u[t])] = b
    /\ \A k \in 1 .. Len(s[t]) : u[t][k] = s[t][k]
    /\ \A v \in Names : v # t => u[v] = s[v]

\* That is what updateTableLastPage makes of them.
LEMMA AdvancedGood ==
    ASSUME NEW d, NEW s, Good(d, s), NEW t \in Names, s[t] # <<>>,
           NEW b, b = d.pages[s[t][Len(s[t])]].next, b # 0, Avoided(d, s, t, b),
           NEW e, e = WithLastPage(d, t, b),
           NEW u \in SpinesType, u[t] = Append(s[t], b),
           \A v \in Names : v # t => u[v] = s[v]
    PROVE  Advanced(d, s, t, b, e, u)
  BY AdvanceGood DEF Advanced

-----------------------------------------------------------------------------
(* The room that records take.                                             *)

\* The room that the first k of the records c take.
Sums(h, c) ==
    /\ h[0] = 0
    /\ \A k \in 1 .. Len(c) : h[k] = h[k - 1] + Need(c[k])

\* The room taken grows from record to record.
LEMMA SumsGrow ==
    ASSUME NEW c \in Seq(AnyCell), NEW h, Sums(h, c)
    PROVE  /\ \A k \in 0 .. Len(c) : h[k] \in Nat
           /\ \A k \in 1 .. Len(c) : h[k - 1] <= h[k]
  <1> DEFINE T == {k \in 0 .. Len(c) : h[k] \in Nat}
  <1>1. Len(c) \in Nat /\ \A k \in 1 .. Len(c) : Need(c[k]) \in Nat
    BY NeedFacts
  <1>2. 0 \in T
    BY <1>1 DEF Sums
  <1>3. ASSUME NEW k \in 0 .. Len(c), k \in T, k < Len(c)
        PROVE  k + 1 \in T
    <2>1. k + 1 \in 1 .. Len(c) /\ (k + 1) - 1 = k /\ k + 1 \in 0 .. Len(c)
      BY <1>1, <1>3
    <2>2. h[k + 1] = h[k] + Need(c[k + 1])
      BY <2>1 DEF Sums
    <2> QED
      BY <1>1, <1>3, <2>1, <2>2
  <1> HIDE DEF T
  <1>4. 0 .. Len(c) \subseteq T
    BY <1>1, <1>2, <1>3, InductionUpTo
  <1>5. \A k \in 0 .. Len(c) : h[k] \in Nat
    BY <1>4 DEF T
  <1>6. ASSUME NEW k \in 1 .. Len(c)
        PROVE  h[k - 1] <= h[k]
    <2>1. k - 1 \in 0 .. Len(c) /\ h[k] = h[k - 1] + Need(c[k])
      BY <1>1 DEF Sums
    <2>2. h[k - 1] \in Nat /\ Need(c[k]) \in Nat
      BY <2>1, <1>1, <1>5
    <2> QED
      BY <2>1, <2>2
  <1> QED
    BY <1>5, <1>6

\* What these sums end with is the room of all.
LEMMA SumsAre ==
    ASSUME NEW c \in Seq(AnyCell), NEW h, Sums(h, c)
    PROVE  Used(c) = h[Len(c)] /\ Used(c) \in Nat
  <1> DEFINE n == Len(c)
             Iter(f) == f = [s \in SUBSET (DOMAIN c) |->
                               IF s = {} THEN 0 ELSE f[s \ {Max(s)}] + Need(c[Max(s)])]
             g == CHOOSE f : Iter(f)
             J == [k \in 0 .. n |-> Nat]
             F == [x \in Nat \X (1 .. n) |-> x[1] + Need(c[x[2]])]
             I == [k \in 0 .. n |-> {h[k]}]
  <1>1. n \in Nat /\ DOMAIN c = 1 .. n /\ \A k \in 1 .. n : Need(c[k]) \in Nat
    BY NeedFacts
  <1>2. Used(c) = g[DOMAIN c]
    BY DEF Used, FoldLeft, MapThenFoldSet
  <1>3. \E f : Iter(f)
    <2>1. \A k \in 1 .. n : \A z \in Nat : F[<<z, k>>] = z + Need(c[k])
      OBVIOUS
    <2>2. 0 \in J[0] /\ \A k \in 1 .. n : J[k - 1] = Nat /\ J[k] = Nat
      BY <1>1
    <2>3. Growing(n, F, J)
      BY <2>1, <2>2, <1>1 DEF Growing
    <2> HIDE DEF J, F, n
    <2>4. PICK f : Folding(f, n, 0, F, J)
      BY <1>1, <2>2, <2>3, FoldIsThere
    <2>5. ASSUME NEW s \in SUBSET (1 .. n), s # {}
          PROVE  F[<<f[s \ {Max(s)}], Max(s)>>] = f[s \ {Max(s)}] + Need(c[Max(s)])
      <3>1. Max(s) \in 1 .. n
        BY <1>1, <2>5, MaxIn
      <3>2. s \ {Max(s)} \in SUBSET (1 .. n) /\ n \in 0 .. n /\ J[n] = Nat
        <4>1. n \in 0 .. n
          BY <1>1
        <4> QED
          BY <4>1 DEF J
      <3>3. f[s \ {Max(s)}] \in Nat
        BY <2>4, <3>2 DEF Folding
      <3> QED
        BY <2>1, <3>1, <3>3
    <2>6. Iter(f)
      BY <2>4, <2>5, <1>1 DEF Folding
    <2> HIDE DEF Iter
    <2> QED
      BY <2>6
  <1>4. Iter(g)
    <2> HIDE DEF Iter
    <2> QED
      BY <1>3
  <1> HIDE DEF g
  <1>5. \A s \in SUBSET (1 .. n) :
           g[s] = IF s = {} THEN 0 ELSE g[s \ {Max(s)}] + Need(c[Max(s)])
    BY <1>1, <1>4
  <1> HIDE DEF Iter, n
  <1>6. g[1 .. n] \in I[n]
    <2>1. g[{}] \in I[0]
      <3>1. {} \in SUBSET (1 .. n) /\ 0 \in 0 .. n
        BY <1>1
      <3>2. g[{}] = 0
        BY <3>1, <1>5
      <3> QED
        BY <3>1, <3>2 DEF Sums
    <2>2. ASSUME NEW s \in SUBSET (1 .. n), NEW k \in s, Max(s) = k, g[s \ {k}] \in I[k - 1]
          PROVE  g[s] \in I[k]
      <3>1. k \in 1 .. n /\ k - 1 \in 0 .. n /\ k \in 0 .. n
        BY <1>1
      <3>2. g[s \ {k}] = h[k - 1] /\ h[k] = h[k - 1] + Need(c[k])
        BY <2>2, <3>1 DEF Sums, n
      <3>3. g[s] = g[s \ {k}] + Need(c[k])
        BY <2>2, <1>5
      <3> QED
        BY <3>1, <3>2, <3>3
    <2> HIDE DEF I
    <2> QED
      BY <1>1, <2>1, <2>2, FoldStays
  <1>7. g[1 .. n] = h[n]
    BY <1>1, <1>6
  <1>8. h[n] \in Nat
    BY <1>1, SumsGrow DEF n
  <1> QED
    BY <1>1, <1>2, <1>7, <1>8 DEF n

\* There are such sums for every sequence of records.
LEMMA SumsExist ==
    ASSUME NEW c \in Seq(AnyCell)
    PROVE  \E h : Sums(h, c)
  <1> DEFINE n == Len(c)
             J == [k \in 0 .. n |-> Nat]
             F == [x \in Nat \X (1 .. n) |-> x[1] + Need(c[x[2]])]
  <1>1. n \in Nat /\ \A k \in 1 .. n : Need(c[k]) \in Nat
    BY NeedFacts
  <1>2. \A k \in 1 .. n : \A z \in Nat : F[<<z, k>>] = z + Need(c[k])
    OBVIOUS
  <1>3. 0 \in J[0] /\ \A k \in 1 .. n : J[k - 1] = Nat /\ J[k] = Nat
    BY <1>1
  <1>4. Growing(n, F, J)
    BY <1>1, <1>2, <1>3 DEF Growing
  <1>5. \A k \in 0 .. n : J[k] = Nat
    OBVIOUS
  <1> HIDE DEF J, F, n
  <1>6. PICK h : Stepping(h, n, 0, F, J)
    BY <1>1, <1>3, <1>4, StepsAreThere
  <1>7. ASSUME NEW k \in 1 .. n
        PROVE  h[k] = h[k - 1] + Need(c[k])
    <2>1. k - 1 \in 0 .. n
      BY <1>1
    <2>2. h[k - 1] \in Nat
      BY <2>1, <1>5, <1>6 DEF Stepping
    <2> QED
      BY <2>2, <1>2, <1>6 DEF Stepping
  <1>8. Sums(h, c)
    BY <1>6, <1>7 DEF Sums, Stepping, n
  <1> QED
    BY <1>8

\* The room of two sequences of records is that of one and that of the other.
LEMMA UsedConcat ==
    ASSUME NEW b \in Seq(AnyCell), NEW c \in Seq(AnyCell)
    PROVE  Used(b \o c) = Used(b) + Used(c) /\ Used(b) \in Nat /\ Used(c) \in Nat
  <1> DEFINE m == Len(b)
             n == Len(c)
             a == b \o c
  <1>1. /\ m \in Nat /\ n \in Nat /\ a \in Seq(AnyCell) /\ Len(a) = m + n
        /\ \A k \in 1 .. m : a[k] = b[k]
        /\ \A k \in 1 .. n : a[m + k] = c[k]
    <2>1. m \in Nat /\ n \in Nat
      OBVIOUS
    <2> QED
      BY <2>1, ConcatFacts
  <1> HIDE DEF a
  <1>2. PICK g : Sums(g, b)
    BY SumsExist
  <1>3. PICK h : Sums(h, c)
    BY SumsExist
  <1>4. /\ Used(b) = g[m] /\ Used(c) = h[n] /\ Used(b) \in Nat /\ Used(c) \in Nat
        /\ \A k \in 0 .. n : h[k] \in Nat
    BY <1>2, <1>3, SumsAre, SumsGrow
  <1> DEFINE f == [k \in 0 .. m + n |-> IF k <= m THEN g[k] ELSE g[m] + h[k - m]]
  <1> HIDE DEF m, n
  <1>5. f[0] = 0
    BY <1>1, <1>2 DEF Sums
  <1>6. ASSUME NEW k \in 1 .. m + n
        PROVE  f[k] = f[k - 1] + Need(a[k])
    <2>1. k - 1 \in 0 .. m + n /\ k \in 0 .. m + n
      BY <1>1
    <2>2. CASE k <= m
      <3>1. k \in 1 .. m /\ k - 1 <= m
        BY <2>2, <1>1
      <3>2. f[k] = g[k] /\ f[k - 1] = g[k - 1] /\ a[k] = b[k]
        BY <2>1, <2>2, <3>1, <1>1
      <3>3. g[k] = g[k - 1] + Need(b[k])
        BY <3>1, <1>2 DEF Sums, m
      <3> QED
        BY <3>2, <3>3
    <2>3. CASE ~ (k <= m)
      <3>1. PICK l \in 1 .. n : k = m + l
        <4>1. k - m \in 1 .. n /\ k = m + (k - m)
          BY <2>3, <1>1
        <4> QED
          BY <4>1
      <3>2. a[k] = c[l] /\ h[l] = h[l - 1] + Need(c[l])
        BY <3>1, <1>1, <1>3 DEF Sums, n
      <3>3. k - m = l /\ ~ (k <= m) /\ l - 1 \in 0 .. n
        BY <3>1, <1>1
      <3>4. f[k] = g[m] + h[l]
        BY <2>1, <3>3
      <3>5. f[k - 1] = g[m] + h[l - 1]
        <4>1. CASE l = 1
          <5>1. k - 1 = m /\ k - 1 <= m /\ l - 1 = 0
            BY <3>1, <4>1, <1>1
          <5>2. f[k - 1] = g[m] /\ h[l - 1] = 0
            BY <2>1, <5>1, <1>3 DEF Sums
          <5> QED
            BY <5>2, <1>4
        <4>2. CASE l # 1
          <5>1. ~ (k - 1 <= m) /\ k - 1 - m = l - 1
            BY <3>1, <4>2, <1>1
          <5> QED
            BY <2>1, <5>1
        <4> QED
          BY <4>1, <4>2
      <3>6. h[l - 1] \in Nat /\ Need(c[l]) \in Nat /\ g[m] \in Nat
        BY <3>3, <1>4, NeedFacts DEF n
      <3> QED
        BY <3>2, <3>4, <3>5, <3>6
    <2> QED
      BY <2>2, <2>3
  <1>7. m + n \in 0 .. m + n /\ f[m + n] = g[m] + h[n]
    <2>1. m + n \in 0 .. m + n /\ m + n - m = n
      BY <1>1
    <2>2. CASE n = 0
      <3>1. m + n <= m /\ m + n = m
        BY <2>2, <1>1
      <3>2. h[n] = 0
        BY <2>2, <1>3 DEF Sums
      <3>3. f[m + n] = g[m] /\ g[m] \in Nat
        <4>1. \A k \in 0 .. m + n : k <= m => f[k] = g[k]
          BY DEF f
        <4> HIDE DEF f
        <4>2. m \in 0 .. m + n /\ m <= m
          BY <1>1
        <4>3. f[m] = g[m]
          BY <4>1, <4>2
        <4> QED
          BY <4>3, <3>1, <1>1, <1>4
      <3> HIDE DEF f
      <3> QED
        BY <2>1, <3>2, <3>3
    <2>3. CASE n # 0
      <3>1. ~ (m + n <= m)
        BY <2>3, <1>1
      <3>2. \A k \in 0 .. m + n : ~ (k <= m) => f[k] = g[m] + h[k - m]
        OBVIOUS
      <3> HIDE DEF f
      <3>3. f[m + n] = g[m] + h[m + n - m]
        BY <2>1, <3>1, <3>2, <1>1
      <3> QED
        BY <2>1, <3>3
    <2> QED
      BY <2>1, <2>2, <2>3
  <1> HIDE DEF f
  <1>8. Sums(f, a)
    BY <1>1, <1>5, <1>6 DEF Sums
  <1>9. Used(a) = f[m + n]
    BY <1>1, <1>8, SumsAre
  <1> QED
    BY <1>4, <1>7, <1>9 DEF a

\* The room of one record.
LEMMA UsedOne ==
    ASSUME NEW r \in AnyCell
    PROVE  Used(<<r>>) = Need(r)
  <1> DEFINE c == <<r>>
             h == [k \in 0 .. 1 |-> IF k = 0 THEN 0 ELSE Need(r)]
  <1>1. c \in Seq(AnyCell) /\ Len(c) = 1 /\ c[1] = r
    OBVIOUS
  <1>2. h[0] = 0 /\ h[1] = Need(r) /\ Need(r) \in Nat
    BY NeedFacts
  <1>3. \A k \in 1 .. 1 : k = 1 /\ k - 1 = 0
    OBVIOUS
  <1> HIDE DEF c, h
  <1>4. Sums(h, c)
    BY <1>1, <1>2, <1>3 DEF Sums
  <1>5. Used(c) = h[1]
    BY <1>1, <1>4, SumsAre
  <1> QED
    BY <1>2, <1>5 DEF c

\* Behind the records there is room for one more.
LEMMA UsedAppend ==
    ASSUME NEW c \in Seq(AnyCell), NEW r \in AnyCell
    PROVE  Used(Append(c, r)) = Used(c) + Need(r) /\ Used(c) \in Nat
  <1>1. Append(c, r) = c \o <<r>> /\ <<r>> \in Seq(AnyCell)
    OBVIOUS
  <1>2. Used(c \o <<r>>) = Used(c) + Used(<<r>>) /\ Used(c) \in Nat
    BY <1>1, UsedConcat
  <1> QED
    BY <1>1, <1>2, UsedOne

\* Gaps take one unit each.
LEMMA UsedGaps ==
    ASSUME NEW n \in Nat, NEW c, c = [i \in 1 .. n |-> Gap]
    PROVE  Used(c) = n /\ c \in Seq({Gap}) /\ Len(c) = n
  <1> DEFINE h == [k \in 0 .. n |-> k]
  <1>1. c \in Seq({Gap}) /\ c \in Seq(AnyCell) /\ Len(c) = n
    BY DEF AnyCell
  <1>2. ASSUME NEW k \in 1 .. n
        PROVE  h[k] = h[k - 1] + Need(c[k])
    <2>1. k - 1 \in 0 .. n /\ c[k] = Gap
      OBVIOUS
    <2> QED
      BY <2>1, NeedFacts
  <1>3. h[0] = 0 /\ h[n] = n
    OBVIOUS
  <1> HIDE DEF h
  <1>4. Sums(h, c)
    BY <1>1, <1>2, <1>3 DEF Sums
  <1> QED
    BY <1>1, <1>3, <1>4, SumsAre

-----------------------------------------------------------------------------
(* INSERT.                                                                 *)

\* The types of the fields of a page.
LEMMA PageIs ==
    ASSUME NEW page \in PageType
    PROVE  page = [next |-> page.next, count |-> page.count,
                   free |-> page.free, cells |-> page.cells]
           /\ page.next \in Nat /\ page.count \in Nat /\ page.free \in Nat
           /\ page.cells \in Seq(AnyCell)
  BY DEF PageType

\* Page p of d is replaced.
WithPage(d, p, page) == [d EXCEPT !.pages[p] = page]
LEMMA WithPageIs ==
    ASSUME NEW d \in DbType, NEW p \in 1 .. Len(d.pages), NEW page \in PageType,
           NEW e, e = WithPage(d, p, page)
    PROVE  /\ e \in DbType /\ e.dir = d.dir /\ e.index = d.index
           /\ Len(e.pages) = Len(d.pages) /\ e.pages[p] = page
           /\ \A q \in 1 .. Len(d.pages) : q # p => e.pages[q] = d.pages[q]
  <1> DEFINE pages == [d.pages EXCEPT ![p] = page]
  <1>1. d.pages \in Seq(PageType)
    BY DbFields
  <1>2. /\ pages \in Seq(PageType) /\ Len(pages) = Len(d.pages) /\ pages[p] = page
        /\ \A q \in 1 .. Len(d.pages) : q # p => pages[q] = d.pages[q]
    BY <1>1
  <1>3. e = [d EXCEPT !.pages = pages]
    BY DEF WithPage
  <1> HIDE DEF pages
  <1>4. e = [dir |-> d.dir, pages |-> pages, index |-> d.index]
    BY <1>3, DbFields
  <1>5. e \in DbType
    BY <1>2, <1>4, DbFields DEF DbType
  <1> QED
    BY <1>2, <1>4, <1>5

\* A record is put behind the others of a page.
LEMMA StoredIs ==
    ASSUME NEW page \in PageType, PageOK(page), NEW t, NEW r \in Cell(t),
           page.cells \in Seq(Cell(t)),
           page.free + Need(r) <= PageSize \/ page.cells = <<>>,
           NEW new, new = Stored(page, r)
    PROVE  /\ new \in PageType /\ PageOK(new) /\ new.next = page.next
           /\ new.cells \in Seq(Cell(t))
  <1> DEFINE cells == Append(page.cells, r)
  <1>1. /\ page.count \in Nat /\ page.free \in Nat /\ page.cells \in Seq(AnyCell)
        /\ r \in AnyCell /\ Need(r) \in Nat
    BY PageIs, CellFacts, NeedFacts
  <1>2. /\ Append(page.cells, r) \in Seq(AnyCell) /\ Append(page.cells, r) \in Seq(Cell(t))
        /\ Len(Append(page.cells, r)) = Len(page.cells) + 1 /\ Len(page.cells) \in Nat
    BY <1>1
  <1>3. Used(Append(page.cells, r)) = Used(page.cells) + Need(r)
    BY <1>1, UsedAppend
  <1>4. new = [page EXCEPT !.cells = cells, !.count = page.count + 1,
                           !.free = page.free + Need(r)]
    BY DEF Stored
  <1> HIDE DEF cells
  <1>5. new = [next |-> page.next, count |-> page.count + 1,
               free |-> page.free + Need(r), cells |-> cells]
    BY <1>4, PageIs
  <1>6. new \in PageType
    BY <1>1, <1>2, <1>5, PageIs DEF PageType, cells
  <1>7. PageOK(new)
    <2>1. new.free = Used(new.cells)
      BY <1>3, <1>5 DEF PageOK, cells
    <2>2. new.count <= Len(new.cells)
      BY <1>1, <1>2, <1>5 DEF PageOK, cells
    <2>3. page.cells = <<>> => Len(new.cells) = 1
      BY <1>2, <1>5 DEF cells
    <2>4. page.free + Need(r) <= PageSize => new.free <= PageSize
      BY <1>5
    <2> QED
      BY <2>1, <2>2, <2>3, <2>4 DEF PageOK
  <1> QED
    BY <1>2, <1>5, <1>6, <1>7 DEF cells

\* What index.insert changes.
LEMMA WithRowIs ==
    ASSUME NEW ix \in IndexType, NEW row \in Rows, NEW page \in Nat, NEW new,
           new = WithRow(ix, row, page)
    PROVE  /\ new \in IndexType
           /\ \A k \in Keys : k # row.key => new[k] = ix[k]
           /\ new[row.key] = <<[row |-> row, page |-> page]>> \o ix[row.key]
           /\ row.key \in Keys
  <1>1. row.key \in Keys /\ [row |-> row, page |-> page] \in Hint
    BY DEF Rows, Hint
  <1>2. ix \in [Keys -> Seq(Hint)] /\ ix[row.key] \in Seq(Hint)
    BY <1>1 DEF IndexType
  <1> DEFINE h == [row |-> row, page |-> page]
             s == <<h>> \o ix[row.key]
  <1>3. s \in Seq(Hint)
    <2>1. <<h>> \in Seq(Hint)
      BY <1>1
    <2> QED
      BY <2>1, <1>2
  <1>4. new = [ix EXCEPT ![row.key] = s]
    BY DEF WithRow
  <1> HIDE DEF s, h
  <1>5. /\ new \in [Keys -> Seq(Hint)] /\ new[row.key] = s
        /\ \A k \in Keys : k # row.key => new[k] = ix[k]
    BY <1>1, <1>2, <1>3, <1>4
  <1> QED
    BY <1>1, <1>5 DEF IndexType, s, h

\* The entry of a row in one of the pages leads there.
LEMMA WithRowHints ==
    ASSUME NEW ix \in IndexType, NEW t, NEW P, HintsInto(ix, t, P),
           NEW row \in Rows, NEW page \in Nat, page \in P
    PROVE  WithRow(ix, row, page) \in IndexType /\ HintsInto(WithRow(ix, row, page), t, P)
  <1> DEFINE new == WithRow(ix, row, page)
             h == [row |-> row, page |-> page]
  <1>1. /\ new \in IndexType /\ row.key \in Keys
        /\ \A k \in Keys : k # row.key => new[k] = ix[k]
        /\ new[row.key] = <<h>> \o ix[row.key]
    BY WithRowIs
  <1>2. h \in Hint /\ h.row = row /\ h.page = page
    BY DEF Hint
  <1> HIDE DEF new, h
  <1>3. ASSUME NEW k \in Keys, NEW i \in 1 .. Len(new[k])
        PROVE  new[k][i].row.key = k /\ new[k][i].page \in P
    <2>1. CASE k # row.key
      <3>1. new[k] = ix[k]
        BY <2>1, <1>1
      <3>2. i \in 1 .. Len(ix[k])
        BY <3>1, <1>3
      <3>3. ix[k][i].row.key = k /\ ix[k][i].page \in P
        BY <3>2 DEF HintsInto
      <3> QED
        BY <3>1, <3>3
    <2>2. CASE k = row.key
      <3> DEFINE s == ix[k]
      <3>1. s \in Seq(Hint)
        BY DEF IndexType
      <3> HIDE DEF s
      <3>2. <<h>> \in Seq(Hint) /\ Len(<<h>>) = 1 /\ <<h>>[1] = h
        BY <1>2
      <3>3. /\ Len(<<h>> \o s) = 1 + Len(s) /\ Len(s) \in Nat
            /\ \A j \in 1 .. 1 : (<<h>> \o s)[j] = <<h>>[j]
            /\ \A j \in 1 .. Len(s) : (<<h>> \o s)[1 + j] = s[j]
        BY <3>1, <3>2, ConcatFacts
      <3>4. new[k] = <<h>> \o s
        BY <1>1, <2>2 DEF s
      <3>5. CASE i = 1
        <4>1. new[k][i] = h
          BY <3>2, <3>3, <3>4, <3>5
        <4> QED
          BY <4>1, <1>2, <2>2
      <3>6. CASE i # 1
        <4>1. PICK j \in 1 .. Len(s) : i = 1 + j
          <5>1. i - 1 \in 1 .. Len(s) /\ i = 1 + (i - 1)
            BY <3>3, <3>4, <3>6
          <5> QED
            BY <5>1
        <4>2. new[k][i] = ix[k][j] /\ j \in 1 .. Len(ix[k])
          BY <4>1, <3>3, <3>4 DEF s
        <4> QED
          BY <4>2, <1>3 DEF HintsInto
      <3> QED
        BY <3>5, <3>6
    <2> QED
      BY <2>1, <2>2
  <1>4. HintsInto(new, t, P)
    BY <1>3 DEF HintsInto
  <1> QED
    BY <1>1, <1>4 DEF new

\* The index of table t is replaced.
WithIndex(d, t, ix) == [d EXCEPT !.index[t] = ix]
LEMMA WithIndexIs ==
    ASSUME NEW d \in DbType, NEW t \in Names, NEW ix \in IndexType \cup {None},
           NEW e, e = WithIndex(d, t, ix)
    PROVE  /\ e \in DbType /\ e.dir = d.dir /\ e.pages = d.pages /\ e.index[t] = ix
           /\ \A u \in Names : u # t => e.index[u] = d.index[u]
  <1> DEFINE index == [d.index EXCEPT ![t] = ix]
  <1>1. d.index \in [Names -> IndexType \cup {None}]
    BY DbFields
  <1>2. /\ index \in [Names -> IndexType \cup {None}] /\ index[t] = ix
        /\ \A u \in Names : u # t => index[u] = d.index[u]
    BY <1>1
  <1>3. e = [d EXCEPT !.index = index]
    BY DEF WithIndex
  <1> HIDE DEF index
  <1>4. e = [dir |-> d.dir, pages |-> d.pages, index |-> index]
    BY <1>3, DbFields
  <1>5. e \in DbType
    BY <1>2, <1>4, DbFields DEF DbType
  <1> QED
    BY <1>2, <1>4, <1>5

\* An index that leads where it may keeps the layout.
LEMMA WithIndexGood ==
    ASSUME NEW d, NEW s, Good(d, s), NEW t \in Names,
           NEW ix \in IndexType \cup {None}, Hints(ix, t, Reach(d, s, t)),
           NEW e, e = WithIndex(d, t, ix)
    PROVE  Reworked(d, s, e, t)
  <1>1. d \in DbType
    BY DEF Good
  <1>2. /\ e \in DbType /\ e.dir = d.dir /\ e.pages = d.pages /\ e.index[t] = ix
        /\ \A u \in Names : u # t => e.index[u] = d.index[u]
    BY <1>1, WithIndexIs
  <1> QED
    BY <1>2 DEF Reworked

\* updateIndexes for a new row writes the index only.
LEMMA WithEntryIs ==
    ASSUME NEW d, NEW s, Good(d, s), NEW t \in Names, NEW r \in Cell(t) \ {Gap},
           NEW p \in Nat, p \in Reach(d, s, t),
           NEW e, e = WithEntry(d, t, r, p)
    PROVE  /\ Reworked(d, s, e, t) /\ e.pages = d.pages /\ e.dir = d.dir
           /\ e \in DbType
  <1>1. d \in DbType /\ Hints(d.index[t], t, Reach(d, s, t)) /\ d.index[t] \in IndexType \cup {None}
    <2>1. d \in DbType
      BY DEF Good
    <2>2. d.index \in [Names -> IndexType \cup {None}]
      BY <2>1, DbFields
    <2> QED
      BY <2>1, <2>2 DEF Good
  <1>2. CASE d.index[t] = None
    <2>1. e = d
      BY <1>2 DEF WithEntry
    <2> QED
      BY <1>1, <2>1 DEF Reworked
  <1>3. CASE d.index[t] # None
    <2> DEFINE ix == WithRow(d.index[t], r, p)
    <2>1. HintsInto(d.index[t], t, Reach(d, s, t)) /\ d.index[t] \in IndexType
      BY <1>1, <1>3 DEF Hints
    <2>2. t \in Tables /\ r \in Rows
      BY <2>1 DEF HintsInto, Cell
    <2>3. ix \in IndexType /\ HintsInto(ix, t, Reach(d, s, t))
      BY <2>1, <2>2, WithRowHints
    <2>4. e = WithIndex(d, t, ix)
      BY <1>3 DEF WithEntry, WithIndex
    <2> HIDE DEF ix
    <2>5. Hints(ix, t, Reach(d, s, t))
      BY <2>3 DEF Hints
    <2>6. Reworked(d, s, e, t)
      BY <2>3, <2>4, <2>5, WithIndexGood
    <2>7. e.pages = d.pages /\ e.dir = d.dir /\ e \in DbType
      BY <1>1, <2>3, <2>4, WithIndexIs
    <2> QED
      BY <2>6, <2>7
  <1> QED
    BY <1>2, <1>3

\* Each step of an insert writes one field, and reads no other one.
Db(dir, pages, index) == [dir |-> dir, pages |-> pages, index |-> index]
Relast(dir, t, p) ==
    [i \in DOMAIN dir |-> IF dir[i].name = t THEN [dir[i] EXCEPT !.last = p] ELSE dir[i]]
Reindexed(index, t, r, p) ==
    IF index[t] = None THEN index ELSE [index EXCEPT ![t] = WithRow(@, r, p)]
LEMMA WithPageField ==
    ASSUME NEW dir, NEW pages, NEW index, NEW p, NEW page
    PROVE  WithPage(Db(dir, pages, index), p, page) = Db(dir, [pages EXCEPT ![p] = page], index)
  BY DEF WithPage, Db

\* updateTableLastPage, field by field.
LEMMA WithLastField ==
    ASSUME NEW dir, NEW pages, NEW index, NEW t, NEW p
    PROVE  WithLastPage(Db(dir, pages, index), t, p) = Db(Relast(dir, t, p), pages, index)
  BY DEF WithLastPage, Db, Relast

\* updateIndexes, field by field.
LEMMA WithEntryField ==
    ASSUME NEW dir, NEW pages, NEW index, NEW t, NEW r, NEW p
    PROVE  WithEntry(Db(dir, pages, index), t, r, p)
           = Db(dir, pages, Reindexed(index, t, r, p))
  <1>1. CASE index[t] = None
    BY <1>1 DEF WithEntry, Db, Reindexed
  <1>2. CASE index[t] # None
    <2> DEFINE ix == WithRow(index[t], r, p)
    <2>1. WithEntry(Db(dir, pages, index), t, r, p)
          = [Db(dir, pages, index) EXCEPT !.index[t] = ix]
      BY <1>2 DEF WithEntry, Db
    <2>2. Reindexed(index, t, r, p) = [index EXCEPT ![t] = ix]
      BY <1>2 DEF Reindexed
    <2> HIDE DEF ix
    <2> QED
      BY <2>1, <2>2 DEF Db
  <1> QED
    BY <1>1, <1>2

\* So the directory could be written first.
LEMMA SameInAnyOrder ==
    ASSUME NEW d \in DbType, NEW t, NEW r, NEW p, NEW page
    PROVE  WithLastPage(WithEntry(WithPage(d, p, page), t, r, p), t, p)
           = WithEntry(WithPage(WithLastPage(d, t, p), p, page), t, r, p)
  <1> DEFINE dir == d.dir
             pages == d.pages
             index == d.index
             after == [pages EXCEPT ![p] = page]
  <1>1. d = Db(dir, pages, index)
    BY DbFields DEF Db
  <1> HIDE DEF dir, pages, index
  <1>2. WithPage(d, p, page) = Db(dir, after, index)
    BY <1>1, WithPageField
  <1>3. WithLastPage(d, t, p) = Db(Relast(dir, t, p), pages, index)
    BY <1>1, WithLastField
  <1>4. WithPage(Db(Relast(dir, t, p), pages, index), p, page)
        = Db(Relast(dir, t, p), after, index)
    BY WithPageField
  <1> HIDE DEF after
  <1>5. /\ WithEntry(Db(dir, after, index), t, r, p)
           = Db(dir, after, Reindexed(index, t, r, p))
        /\ WithEntry(Db(Relast(dir, t, p), after, index), t, r, p)
           = Db(Relast(dir, t, p), after, Reindexed(index, t, r, p))
    BY WithEntryField
  <1>6. WithLastPage(Db(dir, after, Reindexed(index, t, r, p)), t, p)
        = Db(Relast(dir, t, p), after, Reindexed(index, t, r, p))
    BY WithLastField
  <1> QED
    BY <1>2, <1>3, <1>4, <1>5, <1>6

\* The record goes to the last page of the spine.
LEMMA StoreGood ==
    ASSUME NEW d, NEW s, Good(d, s), NEW t \in Names, s[t] # <<>>,
           NEW p, p = s[t][Len(s[t])], NEW r \in Cell(t) \ {Gap},
           d.pages[p].free + Need(r) <= PageSize \/ d.pages[p].cells = <<>>,
           NEW e, e = WithEntry(WithPage(d, p, Stored(d.pages[p], r)), t, r, p)
    PROVE  Good(e, s) /\ Grows(d, s, e, s, t)
  <1> DEFINE page == Stored(d.pages[p], r)
             f == WithPage(d, p, page)
             n == Len(s[t])
  <1>1. d \in DbType /\ n \in 1 .. n /\ p \in 1 .. Len(d.pages) /\ p \in Nat
    <2>1. n \in 1 .. n
      BY SpineFacts
    <2>2. p \in 1 .. Len(d.pages) /\ p \in Nat
      BY <2>1, SpineFacts
    <2> QED
      BY <2>1, <2>2 DEF Good
  <1>2. d.pages[p] \in PageType /\ PageOK(d.pages[p]) /\ d.pages[p].cells \in Seq(Cell(t))
    <2>1. d.pages[p] \in PageType
      BY <1>1, DbFields
    <2>2. PageOK(d.pages[p])
      BY <1>1 DEF Good, LinksOK
    <2>3. Spine(d.pages, t, s[t])
      BY DEF Good
    <2>4. d.pages[p].cells \in Seq(Cell(t))
      BY <1>1, <2>3 DEF Spine
    <2> QED
      BY <2>1, <2>2, <2>4
  <1>3. /\ page \in PageType /\ PageOK(page) /\ page.next = d.pages[p].next
        /\ page.cells \in Seq(Cell(t))
    BY <1>2, StoredIs
  <1> HIDE DEF page
  <1>4. /\ f \in DbType /\ f.dir = d.dir /\ f.index = d.index
        /\ Len(f.pages) = Len(d.pages) /\ f.pages[p] = page
        /\ \A q \in 1 .. Len(d.pages) : q # p => f.pages[q] = d.pages[q]
    BY <1>1, <1>3, WithPageIs
  <1> HIDE DEF f
  <1>5. Reworked(d, s, f, t)
    <2>1. ASSUME NEW q \in 1 .. Len(d.pages)
          PROVE  \/ f.pages[q] = d.pages[q]
                 \/ /\ \E k \in 1 .. Len(s[t]) : q = s[t][k]
                    /\ PageOK(f.pages[q])
                    /\ f.pages[q].next = d.pages[q].next
                    /\ f.pages[q].cells \in Seq(Cell(t))
      <3>1. CASE q # p
        BY <3>1, <1>4
      <3>2. CASE q = p
        BY <3>2, <1>1, <1>3, <1>4
      <3> QED
        BY <3>1, <3>2
    <2>2. Hints(f.index[t], t, Reach(d, s, t))
      BY <1>4 DEF Good
    <2> QED
      BY <1>4, <2>1, <2>2 DEF Reworked
  <1>6. Good(f, s) /\ Grows(d, s, f, s, t)
    BY <1>5, ReworkedGood
  <1>7. e = WithEntry(f, t, r, p)
    BY DEF f, page
  <1>8. Reworked(f, s, e, t)
    <2>1. p \in Reach(f, s, t)
      BY <1>1, <1>4 DEF Reach
    <2> QED
      BY <1>1, <1>6, <1>7, <2>1, WithEntryIs
  <1>9. Good(e, s) /\ Grows(f, s, e, s, t)
    BY <1>6, <1>8, ReworkedGood
  <1> QED
    BY <1>6, <1>9, GrowsMore

\* The last page that the directory has already.
LEMMA WithLastNot ==
    ASSUME NEW d, NEW s, Good(d, s), NEW t \in Names, s[t] # <<>>
    PROVE  WithLastPage(d, t, s[t][Len(s[t])]) = d
  <1> DEFINE l == s[t][Len(s[t])]
             dir == d.dir
  <1>1. d \in DbType
    BY DEF Good
  <1>2. d = Db(dir, d.pages, d.index) /\ dir \in Seq(DirEntry)
    BY <1>1, DbFields DEF Db
  <1>3. \A i \in 1 .. Len(dir) : dir[i].name = t => dir[i].last = l
    BY DEF Good, Directory
  <1> HIDE DEF dir, l
  <1>4. ASSUME NEW i \in 1 .. Len(dir)
        PROVE  (IF dir[i].name = t THEN [dir[i] EXCEPT !.last = l] ELSE dir[i]) = dir[i]
    <2>1. dir[i] \in DirEntry
      BY <1>2
    <2>2. [dir[i] EXCEPT !.last = dir[i].last] = dir[i]
      BY <2>1 DEF DirEntry
    <2> QED
      BY <2>2, <1>3
  <1>5. Relast(dir, t, l) = dir
    <2>1. DOMAIN dir = 1 .. Len(dir)
      BY <1>2
    <2>2. Relast(dir, t, l) = [i \in 1 .. Len(dir) |-> dir[i]]
      BY <2>1, <1>4 DEF Relast
    <2> QED
      BY <2>1, <2>2, <1>2
  <1>6. WithLastPage(Db(dir, d.pages, d.index), t, l) = Db(Relast(dir, t, l), d.pages, d.index)
    BY WithLastField
  <1> QED
    BY <1>2, <1>5, <1>6 DEF l

\* What insertMany finds: a last page with room, or a new one behind it.
HasRoom(d, s, t, r, at, e, u) ==
    /\ Good(at.db, s) /\ Grows(d, s, at.db, s, t)
    /\ Len(d.pages) <= Len(at.db.pages)
    /\ \A p \in 1 .. Len(d.pages) : /\ at.db.pages[p].cells = d.pages[p].cells
                                    /\ at.db.pages[p].count = d.pages[p].count
    /\ Good(e, u) /\ Grows(d, s, e, u, t) /\ e.pages = at.db.pages
    /\ u[t] # <<>> /\ at.page = u[t][Len(u[t])]
    /\ e.pages[at.page].free + Need(r) <= PageSize \/ e.pages[at.page].cells = <<>>
    /\ at.db.index = d.index /\ e.index = d.index
    /\ \/ u[t] = s[t]
       \/ Len(u[t]) = Len(s[t]) + 1 /\ e.pages[at.page] = EmptyPage
    /\ at.page \in Reach(at.db, s, t)

\* There is room at the end of the spine, or a page with room is put there.
LEMMA RoomyFacts ==
    ASSUME NEW d, NEW s, Good(d, s), NEW t \in Names, s[t] # <<>>, NEW r,
           NEW at, at = Roomy(d, s[t][Len(s[t])], r),
           NEW e, e = WithLastPage(at.db, t, at.page)
    PROVE  \E u : HasRoom(d, s, t, r, at, e, u)
  <1> DEFINE l == s[t][Len(s[t])]
             n == Len(d.pages)
  <1>1. d \in DbType /\ n \in Nat /\ l \in 1 .. n /\ Len(s[t]) \in Nat
    <2>1. Len(s[t]) \in Nat /\ Len(s[t]) \in 1 .. Len(s[t])
      BY SpineFacts
    <2>2. l \in 1 .. n
      BY <2>1, SpineFacts
    <2>3. d \in DbType
      BY DEF Good
    <2> QED
      BY <2>1, <2>2, <2>3, DbFields
  <1>2. CASE d.pages[l].free + Need(r) <= PageSize
    <2>1. at = [db |-> d, page |-> l]
      BY <1>2 DEF Roomy
    <2>2. at.db = d /\ at.page = l
      BY <2>1
    <2>3. e = d
      BY <2>2, WithLastNot
    <2>4. Grows(d, s, d, s, t)
      BY GrowsNot
    <2> HIDE DEF l
    <2>5. HasRoom(d, s, t, r, at, e, s)
      <3>1. Good(at.db, s) /\ Grows(d, s, at.db, s, t) /\ Good(e, s) /\ Grows(d, s, e, s, t)
        BY <2>2, <2>3, <2>4
      <3>2. /\ Len(d.pages) <= Len(at.db.pages)
            /\ \A p \in 1 .. Len(d.pages) : /\ at.db.pages[p].cells = d.pages[p].cells
                                            /\ at.db.pages[p].count = d.pages[p].count
            /\ e.pages = at.db.pages /\ at.db.index = d.index /\ e.index = d.index
        BY <2>2, <2>3, <1>1
      <3>3. at.page = s[t][Len(s[t])]
            /\ (e.pages[at.page].free + Need(r) <= PageSize \/ e.pages[at.page].cells = <<>>)
        BY <2>2, <2>3, <1>2 DEF l
      <3>4. at.page \in Reach(at.db, s, t)
        <4>1. Len(s[t]) \in 1 .. Len(s[t]) /\ s[t][Len(s[t])] \in 1 .. Len(d.pages)
          BY <1>1, SpineFacts DEF l
        <4> QED
          BY <4>1, <3>3, <2>2 DEF Reach
      <3> QED
        BY <3>1, <3>2, <3>3, <3>4 DEF HasRoom
    <2> QED
      BY <2>5
  <1>3. CASE ~ (d.pages[l].free + Need(r) <= PageSize)
    <2> DEFINE x == Linked(d, l)
               u == [s EXCEPT ![t] = Append(@, n + 1)]
    <2>1. at = [db |-> x, page |-> n + 1]
      BY <1>3 DEF Roomy
    <2> HIDE DEF x
    <2>2. at.db = x /\ at.page = n + 1
      BY <2>1
    <2>3. /\ x \in DbType /\ x.dir = d.dir /\ x.index = d.index /\ Len(x.pages) = n + 1
          /\ x.pages[n + 1] = EmptyPage
          /\ \A p \in 1 .. n : p # l => x.pages[p] = d.pages[p]
          /\ x.pages[l] = [d.pages[l] EXCEPT !.next = n + 1]
      BY <1>1, LinkedIs DEF x
    <2>4. Good(x, s) /\ Grows(d, s, x, s, t)
      BY LinkedGood DEF x
    <2>5. /\ x.pages[l].next = n + 1 /\ x.pages[l].cells = d.pages[l].cells
          /\ x.pages[l].count = d.pages[l].count
      <3>1. d.pages[l] \in PageType /\ n + 1 \in Nat
        BY <1>1, DbFields
      <3> HIDE DEF n, l
      <3> QED
        BY <3>1, <2>3, NextFacts
    <2>6. n + 1 # 0 /\ n + 1 = x.pages[l].next
      BY <2>5, <1>1
    <2>7. e = WithLastPage(x, t, n + 1)
      BY <2>2
    <2> HIDE DEF n
    <2>8. /\ u \in SpinesType /\ u[t] = Append(s[t], n + 1)
          /\ \A v \in Names : v # t => u[v] = s[v]
      <3>1. s \in SpinesType /\ s[t] \in Seq(Nat) /\ n + 1 \in Nat
        BY <1>1, SpineFacts DEF Good
      <3> DEFINE a == Append(s[t], n + 1)
      <3>2. a \in Seq(Nat)
        BY <3>1
      <3> HIDE DEF a
      <3> QED
        BY <3>1, <3>2 DEF SpinesType, a
    <2> HIDE DEF u
    <2>9. Avoided(x, s, t, n + 1)
      <3> SUFFICES ASSUME NEW v \in Names, v # t
                   PROVE  Hints(d.index[v], v, Reach(x, s, v) \ {n + 1})
        BY <2>3 DEF Avoided
      <3>1. Hints(d.index[v], v, Reach(d, s, v)) /\ Reach(d, s, v) \subseteq Reach(x, s, v)
        BY <1>1, <2>3, <2>4, ReachGrows DEF Good
      <3>2. n + 1 \notin Reach(d, s, v)
        BY <1>1 DEF Reach, n
      <3> QED
        BY <3>1, <3>2, HintsMore
    <2>10. /\ Good(e, u) /\ e.pages = x.pages /\ e.index = x.index
          /\ Len(u[t]) = Len(s[t]) + 1 /\ u[t][Len(u[t])] = n + 1
          /\ \A k \in 1 .. Len(s[t]) : u[t][k] = s[t][k]
          /\ \A v \in Names : v # t => u[v] = s[v]
      <3> DEFINE b == n + 1
      <3>1. b = x.pages[s[t][Len(s[t])]].next /\ b # 0 /\ e = WithLastPage(x, t, b)
            /\ u[t] = Append(s[t], b)
        BY <2>6, <2>7, <2>8
      <3> HIDE DEF b
      <3>2. Good(x, s) /\ Avoided(x, s, t, b)
        BY <2>9, <2>4 DEF b
      <3> HIDE DEF x, l
      <3>3. /\ Good(e, u) /\ e.pages = x.pages /\ e.index = x.index
            /\ Len(u[t]) = Len(s[t]) + 1 /\ u[t][Len(u[t])] = b
            /\ \A k \in 1 .. Len(s[t]) : u[t][k] = s[t][k]
            /\ \A v \in Names : v # t => u[v] = s[v]
          <4>1. Advanced(x, s, t, b, e, u)
            BY <2>8, <3>1, <3>2, AdvancedGood
          <4> QED
            BY <4>1 DEF Advanced
      <3> QED
        BY <3>3 DEF b
    <2>11. u[t] # <<>>
      <3>1. Len(u[t]) # 0
        BY <2>10, <1>1
      <3> QED
        BY <3>1
    <2>12. Grows(d, s, e, u, t)
      <3>1. n + 1 \in Nat
        BY <1>1
      <3>2. /\ Len(e.dir) = Len(d.dir)
            /\ \A i \in 1 .. Len(d.dir) :
                 e.dir[i].name = d.dir[i].name /\ (d.dir[i].name # t => e.dir[i] = d.dir[i])
        BY <3>1, <2>3, <2>7, WithLastIs
      <3>3. \A v \in Names : v # t => u[v] = s[v] /\ e.index[v] = d.index[v]
        BY <2>3, <2>10
      <3>4. Len(s[t]) <= Len(u[t]) /\ \A k \in 1 .. Len(s[t]) : u[t][k] = s[t][k]
        BY <2>10, <1>1
      <3>5. \A k \in 1 .. Len(u[t]) : k <= Len(s[t]) \/ u[t][k] > n
        <4> SUFFICES ASSUME NEW k \in 1 .. Len(u[t]), ~ (k <= Len(s[t])) PROVE u[t][k] > n
          OBVIOUS
        <4>1. k = Len(u[t])
          BY <2>10, <1>1
        <4> QED
          BY <4>1, <2>10, <1>1
      <3>6. n <= Len(e.pages)
        BY <2>3, <2>10, <1>1
      <3>7. ASSUME NEW p \in 1 .. n, \A k \in 1 .. Len(s[t]) : p # s[t][k]
            PROVE  e.pages[p] = d.pages[p]
        <4>1. p # l
          <5>1. Len(s[t]) \in 1 .. Len(s[t])
            BY <1>1, SpineFacts
          <5> QED
            BY <5>1, <3>7
        <4> HIDE DEF l
        <4> QED
          BY <4>1, <2>3, <2>10
      <3> QED
        BY <3>2, <3>3, <3>4, <3>5, <3>6, <3>7 DEF Grows, n
    <2>13. \A p \in 1 .. n : x.pages[p].cells = d.pages[p].cells
                             /\ x.pages[p].count = d.pages[p].count
      <3> HIDE DEF l
      <3> QED
        BY <2>3, <2>5
    <2>14. n <= Len(x.pages)
      BY <2>3, <1>1
    <2>15. e.pages[at.page].cells = <<>> /\ e.pages[at.page] = EmptyPage
           /\ at.db.index = d.index /\ e.index = d.index
      BY <2>2, <2>3, <2>10, EmptyPageFacts
    <2>16. at.page \in Reach(at.db, s, t)
      <3>1. \A v \in Names : \A k \in 1 .. Len(s[v]) : s[v][k] \in 1 .. n
        BY SpineFacts DEF n
      <3>2. \A v \in Names : \A k \in 1 .. Len(s[v]) : n + 1 # s[v][k]
        BY <3>1, <1>1
      <3> QED
        BY <3>2, <1>1, <2>2, <2>3 DEF Reach, Stray
    <2>17. HasRoom(d, s, t, r, at, e, u)
      BY <2>2, <2>4, <2>10, <2>11, <2>12, <2>13, <2>14, <2>15, <2>16 DEF HasRoom, n
    <2> QED
      BY <2>17
  <1> QED
    BY <1>2, <1>3

\* A table without an index gets none.
NoneStays(d, e, t) == d.index[t] = None => e.index[t] = None

\* From d with spines s, a statement about t has led to e.
Reached(d, s, e, t) == \E u : Good(e, u) /\ Grows(d, s, e, u, t) /\ NoneStays(d, e, t)

\* What insertMany does, the directory written before the page.
InsertedAs(d, t, r, at, e) ==
    IF Invalid(t, r) THEN d
    ELSE IF TooLong(r) THEN at.db
    ELSE IF TooFar(r) THEN WithEntry(at.db, t, r, at.page)
    ELSE WithEntry(WithPage(e, at.page, Stored(e.pages[at.page], r)), t, r, at.page)
LEMMA InsertedIs ==
    ASSUME NEW d, NEW s, Good(d, s), NEW t, Exists(d, t), NEW r
    PROVE  /\ t \in Names /\ s[t] # <<>>
           /\ \E at, e, u : /\ HasRoom(d, s, t, r, at, e, u)
                           /\ Inserted(d, t, r) = InsertedAs(d, t, r, at, e)
  <1> DEFINE l == s[t][Len(s[t])]
             at == Roomy(d, l, r)
             e == WithLastPage(at.db, t, at.page)
             x == at.db
             p == at.page
  <1>1. t \in Names /\ s[t] # <<>> /\ Entry(d, t).last = l
    BY EntryFacts
  <1>2. PICK u : HasRoom(d, s, t, r, at, e, u)
    BY <1>1, RoomyFacts
  <1>3. Inserted(d, t, r) =
           IF Invalid(t, r) THEN d
           ELSE IF TooLong(r) THEN x
           ELSE IF TooFar(r) THEN WithEntry(x, t, r, p)
           ELSE WithLastPage(WithEntry(WithPage(x, p, Stored(x.pages[p], r)), t, r, p), t, p)
    <2>1. Inserted(d, t, r) =
             IF Invalid(t, r) THEN d
             ELSE IF TooLong(r) THEN x
             ELSE IF TooFar(r) THEN WithEntry(x, t, r, p)
             ELSE WithLastPage(WithEntry([x EXCEPT !.pages[p] = Stored(@, r)], t, r, p), t, p)
      BY <1>1 DEF Inserted
    <2> HIDE DEF x, p, l, at
    <2>2. [x EXCEPT !.pages[p] = Stored(@, r)] = WithPage(x, p, Stored(x.pages[p], r))
      BY DEF WithPage
    <2> QED
      BY <2>1, <2>2
  <1>4. x \in DbType /\ e.pages = x.pages
    BY <1>2 DEF HasRoom, Good
  <1> HIDE DEF at
  <1>5. WithLastPage(WithEntry(WithPage(x, p, Stored(x.pages[p], r)), t, r, p), t, p)
        = WithEntry(WithPage(e, p, Stored(e.pages[p], r)), t, r, p)
    <2> DEFINE page == Stored(x.pages[p], r)
    <2>1. WithLastPage(WithEntry(WithPage(x, p, page), t, r, p), t, p)
          = WithEntry(WithPage(e, p, page), t, r, p)
      <3> HIDE DEF page, x, p
      <3> QED
        BY <1>4, SameInAnyOrder DEF x, p
    <2> QED
      BY <2>1, <1>4
  <1> QED
    BY <1>1, <1>2, <1>3, <1>5 DEF InsertedAs

\* INSERT grows its table only; one that throws leaves all records in place.
LEMMA InsertedGood ==
    ASSUME NEW d, NEW s, Good(d, s), NEW t, Exists(d, t), NEW r \in Cell(t) \ {Gap}
    PROVE  /\ Reached(d, s, Inserted(d, t, r), t)
           /\ Throws(t, r) =>
                 \A p \in 1 .. Len(d.pages) :
                    /\ p \in 1 .. Len(Inserted(d, t, r).pages)
                    /\ Inserted(d, t, r).pages[p].cells = d.pages[p].cells
                    /\ Inserted(d, t, r).pages[p].count = d.pages[p].count
  <1>1. t \in Names /\ s[t] # <<>>
    BY InsertedIs
  <1>2. PICK at, e, u : /\ HasRoom(d, s, t, r, at, e, u)
                        /\ Inserted(d, t, r) = InsertedAs(d, t, r, at, e)
    BY InsertedIs
  <1> DEFINE x == at.db
             p == at.page
  <1>4. Len(d.pages) \in Nat /\ d \in DbType
    BY DbFields DEF Good
  <1>5. CASE Invalid(t, r)
    <2>1. Inserted(d, t, r) = d
      BY <1>2, <1>5 DEF InsertedAs
    <2>2. Grows(d, s, d, s, t)
      BY <1>1, GrowsNot
    <2> QED
      BY <2>1, <2>2 DEF Reached, NoneStays
  <1>6. CASE ~ Invalid(t, r) /\ TooLong(r)
    <2>1. Inserted(d, t, r) = x
      BY <1>2, <1>6 DEF InsertedAs
    <2>2. Good(x, s) /\ Grows(d, s, x, s, t) /\ NoneStays(d, x, t)
      BY <1>2 DEF HasRoom, NoneStays
    <2>3. \A q \in 1 .. Len(d.pages) :
             q \in 1 .. Len(x.pages) /\ x.pages[q].cells = d.pages[q].cells
             /\ x.pages[q].count = d.pages[q].count
      <3>1. Len(x.pages) \in Nat /\ Len(d.pages) <= Len(x.pages)
        BY <1>2, <2>2, DbFields DEF HasRoom, Good
      <3>2. \A q \in 1 .. Len(d.pages) : q \in 1 .. Len(x.pages)
        BY <3>1, <1>4
      <3> QED
        BY <3>2, <1>2 DEF HasRoom
    <2> HIDE DEF x
    <2> QED
      BY <2>1, <2>2, <2>3 DEF Reached
  <1>8. CASE ~ Invalid(t, r) /\ ~ TooLong(r) /\ TooFar(r)
    <2> DEFINE y == WithEntry(x, t, r, p)
    <2>1. Inserted(d, t, r) = y
      BY <1>2, <1>8 DEF InsertedAs
    <2>2. Good(x, s) /\ Grows(d, s, x, s, t) /\ x.index = d.index
          /\ p \in Reach(x, s, t) /\ p \in Nat
      BY <1>2 DEF HasRoom, Reach
    <2>3. Len(x.pages) \in Nat /\ Len(d.pages) <= Len(x.pages)
          /\ \A q \in 1 .. Len(d.pages) : x.pages[q].cells = d.pages[q].cells
                                          /\ x.pages[q].count = d.pages[q].count
      BY <1>2, <2>2, DbFields DEF HasRoom, Good
    <2> HIDE DEF x, p
    <2>4. Reworked(x, s, y, t) /\ y.pages = x.pages
      BY <1>1, <2>2, WithEntryIs
    <2>5. Good(y, s) /\ Grows(x, s, y, s, t)
      BY <1>1, <2>2, <2>4, ReworkedGood
    <2>6. NoneStays(d, y, t)
      BY <2>2 DEF NoneStays, WithEntry
    <2> HIDE DEF y
    <2>7. Grows(d, s, y, s, t)
      BY <1>1, <2>2, <2>5, GrowsMore
    <2> QED
      BY <1>4, <2>1, <2>3, <2>4, <2>5, <2>6, <2>7 DEF Reached
  <1>7. CASE ~ Throws(t, r)
    <2> DEFINE y == WithEntry(WithPage(e, p, Stored(e.pages[p], r)), t, r, p)
    <2>2. Inserted(d, t, r) = y
      BY <1>2, <1>7 DEF Throws, InsertedAs
    <2>3. /\ Good(e, u) /\ Grows(d, s, e, u, t) /\ u[t] # <<>> /\ p = u[t][Len(u[t])]
          /\ e.pages[p].free + Need(r) <= PageSize \/ e.pages[p].cells = <<>>
      BY <1>2 DEF HasRoom
    <2> HIDE DEF p
    <2>4. Good(y, u) /\ Grows(e, u, y, u, t)
      BY <1>1, <2>3, StoreGood
    <2>6. NoneStays(d, y, t)
      <3> SUFFICES ASSUME d.index[t] = None PROVE y.index[t] = None
        BY DEF NoneStays
      <3>1. e.index = d.index
        BY <1>2 DEF HasRoom
      <3> DEFINE z == WithPage(e, p, Stored(e.pages[p], r))
      <3>2. z.index = e.index
        BY <2>3 DEF WithPage, Good, DbType
      <3> HIDE DEF z
      <3>3. z.index[t] = None
        BY <3>1, <3>2
      <3> QED
        BY <3>3 DEF WithEntry, z
    <2> HIDE DEF y
    <2>5. Grows(d, s, y, u, t)
      BY <1>1, <2>3, <2>4, GrowsMore
    <2> QED
      BY <1>7, <2>2, <2>4, <2>5, <2>6 DEF Reached
  <1> QED
    BY <1>5, <1>6, <1>7, <1>8 DEF Throws

-----------------------------------------------------------------------------
(* Records.                                                                *)

\* The records of c that are in S: not more, and they take no more room.
LEMMA OnlyFacts ==
    ASSUME NEW T, T \subseteq AnyCell, NEW c \in Seq(T), NEW S
    PROVE  /\ Only(c, S) \in Seq(T \cap S)
           /\ Len(Only(c, S)) <= Len(c) /\ Used(Only(c, S)) <= Used(c)
  <1> DEFINE n == Len(c)
             Iter(f) == f = [s \in SUBSET (DOMAIN c) |->
                               IF s = {} THEN <<>>
                               ELSE IF c[Max(s)] \in S
                                    THEN Append(f[s \ {Max(s)}], c[Max(s)])
                                    ELSE f[s \ {Max(s)}]]
             g == CHOOSE f : Iter(f)
             A == Seq(T \cap S)
             Add(z, k) == IF c[k] \in S THEN Append(z, c[k]) ELSE z
             F == [x \in A \X (1 .. n) |-> Add(x[1], x[2])]
  <1>1. /\ n \in Nat /\ DOMAIN c = 1 .. n /\ c \in Seq(AnyCell)
        /\ \A k \in 1 .. n : c[k] \in T /\ c[k] \in AnyCell
    OBVIOUS
  <1>2. Only(c, S) = g[DOMAIN c]
    BY DEF Only, FoldLeft, MapThenFoldSet
  <1>3. PICK h : Sums(h, c)
    BY <1>1, SumsExist
  <1>4. Used(c) = h[n] /\ \A k \in 0 .. n : h[k] \in Nat
    BY <1>1, <1>3, SumsAre, SumsGrow
  <1> DEFINE J == [k \in 0 .. n |-> {z \in A : Len(z) <= k /\ Used(z) <= h[k]}]
  <1>5. ASSUME NEW k \in 1 .. n, NEW z \in J[k - 1]
        PROVE  z \in A /\ z \in J[k] /\ Add(z, k) \in J[k]
    <2>1. k - 1 \in 0 .. n /\ k \in 0 .. n
      BY <1>1
    <2>2. z \in A /\ Len(z) <= k - 1 /\ Used(z) <= h[k - 1]
      BY <2>1
    <2>3. h[k] = h[k - 1] + Need(c[k]) /\ h[k - 1] \in Nat /\ Need(c[k]) \in Nat
      BY <2>1, <1>1, <1>3, <1>4, NeedFacts DEF Sums
    <2>4. A \subseteq Seq(AnyCell)
      OBVIOUS
    <2>5. Used(z) \in Nat /\ Used(Append(z, c[k])) = Used(z) + Need(c[k])
      BY <2>2, <2>4, <1>1, UsedAppend
    <2>6. z \in J[k]
      <3>1. Len(z) \in Nat
        BY <2>2
      <3>2. Len(z) <= k /\ Used(z) <= h[k]
        BY <3>1, <2>2, <2>3, <2>5
      <3> HIDE DEF Add, A
      <3> QED
        BY <2>1, <2>2, <3>2
    <2>7. CASE c[k] \in S
      <3>1. Append(z, c[k]) \in A /\ Len(Append(z, c[k])) = Len(z) + 1 /\ Len(z) \in Nat
        BY <2>2, <2>7, <1>1
      <3>2. Len(Append(z, c[k])) <= k /\ Used(Append(z, c[k])) <= h[k]
        BY <3>1, <2>2, <2>3, <2>5
      <3>3. Add(z, k) = Append(z, c[k])
        BY <2>7
      <3> HIDE DEF Add, A
      <3> QED
        BY <2>1, <2>2, <2>6, <3>1, <3>2, <3>3
    <2>8. CASE c[k] \notin S
      <3>1. Add(z, k) = z
        BY <2>8
      <3> HIDE DEF Add, A, J
      <3> QED
        BY <2>2, <2>6, <3>1
    <2> QED
      BY <2>7, <2>8
  <1>6. <<>> \in J[0]
    <2>1. <<>> \in A /\ Len(<<>>) = 0 /\ 0 \in 0 .. n
      BY <1>1
    <2>2. Used(<<>>) = 0 /\ h[0] = 0
      BY <1>3, UsedEmpty DEF Sums
    <2> HIDE DEF A
    <2> QED
      BY <2>1, <2>2
  <1>7. n \in 0 .. n /\ J[n] \subseteq A
    BY <1>1
  <1>8. J[n] = {z \in A : Len(z) <= n /\ Used(z) <= h[n]}
    BY <1>7
  <1>9. \A k \in 1 .. n : \A z \in A : F[<<z, k>>] = Add(z, k)
    BY DEF F
  <1> HIDE DEF J, F, A, n, Add
  <1>10. \E f : Iter(f)
    <2>1. Growing(n, F, J)
      BY <1>5, <1>9 DEF Growing
    <2>2. PICK f : Folding(f, n, <<>>, F, J)
      BY <2>1, <1>1, <1>6, FoldIsThere
    <2>3. ASSUME NEW s \in SUBSET (1 .. n), s # {}
          PROVE  F[<<f[s \ {Max(s)}], Max(s)>>] = Add(f[s \ {Max(s)}], Max(s))
      <3>1. Max(s) \in 1 .. n
        BY <1>1, <2>3, MaxIn
      <3>2. s \ {Max(s)} \in SUBSET (1 .. n)
        OBVIOUS
      <3>3. f[s \ {Max(s)}] \in A
        BY <2>2, <3>2, <1>7 DEF Folding
      <3> QED
        BY <3>1, <3>3, <1>9
    <2>4. Iter(f)
      BY <2>2, <2>3, <1>1 DEF Folding, Add
    <2> HIDE DEF Iter
    <2> QED
      BY <2>4
  <1>11. Iter(g)
    <2> HIDE DEF Iter
    <2> QED
      BY <1>10
  <1> HIDE DEF g
  <1>12. \A s \in SUBSET (1 .. n) :
            g[s] = IF s = {} THEN <<>> ELSE Add(g[s \ {Max(s)}], Max(s))
    BY <1>1, <1>11 DEF Add
  <1> HIDE DEF Iter
  <1>13. g[1 .. n] \in J[n]
    <2>1. g[{}] \in J[0]
      <3>1. {} \in SUBSET (1 .. n)
        OBVIOUS
      <3> QED
        BY <3>1, <1>6, <1>12
    <2>2. ASSUME NEW s \in SUBSET (1 .. n), NEW k \in s, Max(s) = k, g[s \ {k}] \in J[k - 1]
          PROVE  g[s] \in J[k]
      <3>1. k \in 1 .. n /\ s # {}
        OBVIOUS
      <3>2. g[s] = Add(g[s \ {k}], k)
        BY <2>2, <3>1, <1>12
      <3> QED
        BY <2>2, <3>1, <3>2, <1>5
    <2> QED
      BY <1>1, <2>1, <2>2, FoldStays
  <1> QED
    BY <1>1, <1>2, <1>4, <1>8, <1>13 DEF A, n

-----------------------------------------------------------------------------
(* Folds of sets.                                                          *)

Some(s) == CHOOSE x \in s : TRUE

FoldingSet(f, S, V, base, F) ==
    /\ f \in [SUBSET S -> V]
    /\ \A s \in SUBSET S :
          f[s] = IF s = {} THEN base ELSE F[<<Some(s), f[s \ {Some(s)}]>>]

\* A fold of a finite set in any order that stays in V exists.
LEMMA SetFoldIsThere ==
    ASSUME NEW S, IsFiniteSet(S), NEW V, NEW base \in V, NEW F,
           \A x \in S, z \in V : F[<<x, z>>] \in V
    PROVE  \E f : FoldingSet(f, S, V, base, F)
  <1> DEFINE n == Cardinality(S)
             D(k) == {s \in SUBSET S : Cardinality(s) <= k}
             Step(f, s) == IF s = {} THEN base ELSE F[<<Some(s), f[s \ {Some(s)}]>>]
             Folds(f, k) == f \in [D(k) -> V] /\ \A s \in D(k) : f[s] = Step(f, s)
             T == {k \in 0 .. n : \E f : Folds(f, k)}
  <1>1. /\ n \in Nat
        /\ \A s \in SUBSET S : IsFiniteSet(s) /\ Cardinality(s) \in Nat /\ Cardinality(s) <= n
        /\ \A s \in SUBSET S : Cardinality(s) = 0 <=> s = {}
        /\ \A s \in SUBSET S : s # {} =>
              Some(s) \in s /\ Cardinality(s \ {Some(s)}) = Cardinality(s) - 1
    <2>1. \A s \in SUBSET S : IsFiniteSet(s) /\ Cardinality(s) <= n
      BY FS_Subset
    <2>2. \A s \in SUBSET S : Cardinality(s) \in Nat /\ (Cardinality(s) = 0 <=> s = {})
      BY <2>1, FS_CardinalityType, FS_EmptySet
    <2>3. \A s \in SUBSET S : s # {} => Some(s) \in s
      BY DEF Some
    <2>4. \A s \in SUBSET S : s # {} => Cardinality(s \ {Some(s)}) = Cardinality(s) - 1
      BY <2>1, <2>3, FS_RemoveElement
    <2> QED
      BY <2>1, <2>2, <2>3, <2>4, FS_CardinalityType
  <1> HIDE DEF n
  <1>2. 0 \in T
    <2> DEFINE f == [s \in D(0) |-> base]
    <2>1. \A s \in D(0) : s = {}
      <3> SUFFICES ASSUME NEW s \in SUBSET S, Cardinality(s) <= 0 PROVE s = {}
        OBVIOUS
      <3>1. Cardinality(s) = 0
        BY <1>1
      <3> QED
        BY <3>1, <1>1
    <2>2. Folds(f, 0)
      BY <2>1
    <2> HIDE DEF Folds
    <2> QED
      BY <1>1, <2>2
  <1>3. ASSUME NEW k \in 0 .. n, k \in T, k < n
        PROVE  k + 1 \in T
    <2>1. PICK f : Folds(f, k)
      BY <1>3
    <2> DEFINE g == [s \in D(k + 1) |-> IF s \in D(k) THEN f[s] ELSE Step(f, s)]
    <2>2. ASSUME NEW s \in D(k + 1)
          PROVE  Step(f, s) \in V /\ (s # {} => s \ {Some(s)} \in D(k))
      <3>1. CASE s = {}
        BY <3>1
      <3>2. CASE s # {}
        <4>1. Some(s) \in s /\ Cardinality(s \ {Some(s)}) = Cardinality(s) - 1
              /\ Cardinality(s) \in Nat
          BY <3>2, <1>1
        <4>2. s \ {Some(s)} \in D(k)
          BY <4>1
        <4>3. f[s \ {Some(s)}] \in V
          BY <4>2, <2>1
        <4>4. Some(s) \in S
          BY <4>1
        <4> QED
          BY <3>2, <4>2, <4>3, <4>4
      <3> QED
        BY <3>1, <3>2
    <2>3. g \in [D(k + 1) -> V]
      BY <2>1, <2>2
    <2>4. \A s \in D(k) : s \in D(k + 1) /\ g[s] = f[s]
      <3>1. \A s \in D(k) : s \in D(k + 1)
        BY <1>1
      <3> QED
        BY <3>1
    <2>5. ASSUME NEW s \in D(k + 1)
          PROVE  g[s] = Step(g, s)
      <3>1. Step(g, s) = Step(f, s)
        BY <2>2, <2>4
      <3>2. CASE s \in D(k)
        BY <3>1, <3>2, <2>1, <2>4
      <3>3. CASE s \notin D(k)
        BY <3>1, <3>3
      <3> QED
        BY <3>2, <3>3
    <2>6. Folds(g, k + 1)
      BY <2>3, <2>5
    <2>7. k + 1 \in 0 .. n
      BY <1>1, <1>3
    <2> HIDE DEF Folds, g
    <2> QED
      BY <2>6, <2>7
  <1>4. n \in T
    <2> HIDE DEF T
    <2>1. 0 .. n \subseteq T
      BY <1>1, <1>2, <1>3, InductionUpTo
    <2> QED
      BY <1>1, <2>1
  <1>5. PICK f : Folds(f, n)
    BY <1>4
  <1>6. D(n) = SUBSET S
    BY <1>1
  <1>7. FoldingSet(f, S, V, base, F)
    BY <1>5, <1>6 DEF FoldingSet
  <1> QED
    BY <1>7

\* What is so folded stays in V.
LEMMA SetFoldStays ==
    ASSUME NEW S, IsFiniteSet(S), NEW V, NEW g, g[{}] \in V,
           \A s \in SUBSET S : s # {} => (g[s \ {Some(s)}] \in V => g[s] \in V)
    PROVE  g[S] \in V
  <1> DEFINE n == Cardinality(S)
             T == {k \in 0 .. n : \A s \in SUBSET S : Cardinality(s) = k => g[s] \in V}
  <1>1. /\ n \in Nat
        /\ \A s \in SUBSET S : Cardinality(s) \in Nat
        /\ \A s \in SUBSET S : Cardinality(s) = 0 => s = {}
        /\ \A s \in SUBSET S : s # {} => Cardinality(s \ {Some(s)}) = Cardinality(s) - 1
    <2>1. \A s \in SUBSET S : IsFiniteSet(s)
      BY FS_Subset
    <2>2. \A s \in SUBSET S : Cardinality(s) \in Nat /\ (Cardinality(s) = 0 => s = {})
      BY <2>1, FS_CardinalityType, FS_EmptySet
    <2>3. \A s \in SUBSET S : s # {} => Some(s) \in s
      BY DEF Some
    <2>4. \A s \in SUBSET S : s # {} => Cardinality(s \ {Some(s)}) = Cardinality(s) - 1
      BY <2>1, <2>3, FS_RemoveElement
    <2> QED
      BY <2>2, <2>4, FS_CardinalityType
  <1> HIDE DEF n
  <1>2. 0 \in T
    <2>1. 0 \in 0 .. n
      BY <1>1
    <2>2. ASSUME NEW s \in SUBSET S, Cardinality(s) = 0
          PROVE  g[s] \in V
      BY <2>2, <1>1
    <2> QED
      BY <2>1, <2>2
  <1>3. ASSUME NEW k \in 0 .. n, k \in T, k < n
        PROVE  k + 1 \in T
    <2>1. ASSUME NEW s \in SUBSET S, Cardinality(s) = k + 1
          PROVE  g[s] \in V
      <3>1. s # {}
        <4>1. Cardinality({}) = 0
          BY FS_EmptySet
        <4> QED
          BY <2>1, <4>1
      <3>2. s \ {Some(s)} \in SUBSET S /\ Cardinality(s \ {Some(s)}) = k
        BY <2>1, <3>1, <1>1
      <3>3. g[s \ {Some(s)}] \in V
        BY <3>2, <1>3
      <3> QED
        BY <3>1, <3>3
    <2>2. k + 1 \in 0 .. n
      BY <1>1, <1>3
    <2> QED
      BY <2>1, <2>2
  <1>4. n \in T
    <2> HIDE DEF T
    <2>1. 0 .. n \subseteq T
      BY <1>1, <1>2, <1>3, InductionUpTo
    <2> QED
      BY <1>1, <2>1
  <1> QED
    BY <1>4 DEF n

\* What holds of the empty set, and of a set if it holds of the set without
\* the member taken first, holds of S.
LEMMA SetInduction ==
    ASSUME NEW S, IsFiniteSet(S), NEW T, {} \in T,
           \A s \in SUBSET S : s # {} => (s \ {Some(s)} \in T => s \in T)
    PROVE  S \in T
  <1> DEFINE g == [s \in SUBSET S |-> s \in T]
             V == {TRUE}
  <1>1. \A s \in SUBSET S : s \in T <=> g[s] \in V
    OBVIOUS
  <1>2. {} \in SUBSET S /\ S \in SUBSET S /\ \A s \in SUBSET S : s \ {Some(s)} \in SUBSET S
    OBVIOUS
  <1> HIDE DEF g, V
  <1>3. g[{}] \in V
    BY <1>1, <1>2
  <1>4. \A s \in SUBSET S : s # {} => (g[s \ {Some(s)}] \in V => g[s] \in V)
    BY <1>1, <1>2
  <1>5. g[S] \in V
    BY <1>3, <1>4, SetFoldStays
  <1> QED
    BY <1>1, <1>2, <1>5

\* The sum of the numbers that c gives the members of a set.
Total(c, S) == MapThenSumSet(LAMBDA x : c[x], S)

\* A sum of naturals is a natural.
LEMMA TotalIsNat ==
    ASSUME NEW S, IsFiniteSet(S), NEW c, \A x \in S : c[x] \in Nat
    PROVE  Total(c, S) \in Nat
  <1> DEFINE Iter(f) == f = [s \in SUBSET S |->
                               IF s = {} THEN 0
                               ELSE c[CHOOSE x \in s : TRUE] + f[s \ {CHOOSE x \in s : TRUE}]]
             g == CHOOSE f : Iter(f)
             F == [x \in S \X Nat |-> c[x[1]] + x[2]]
  <1>1. Total(c, S) = g[S]
    BY DEF Total, MapThenSumSet, MapThenFoldSet
  <1>2. \E f : Iter(f)
    <2>1. \A x \in S, z \in Nat : F[<<x, z>>] = c[x] + z
      OBVIOUS
    <2> HIDE DEF F
    <2>2. PICK f : FoldingSet(f, S, Nat, 0, F)
      <3>1. ASSUME NEW x \in S, NEW z \in Nat
            PROVE  F[<<x, z>>] \in Nat
        <4>1. F[<<x, z>>] = c[x] + z /\ c[x] \in Nat
          BY <2>1
        <4> QED
          BY <4>1
      <3>2. 0 \in Nat
        OBVIOUS
      <3> QED
        BY <3>1, <3>2, SetFoldIsThere
    <2>3. ASSUME NEW s \in SUBSET S, s # {}
          PROVE  F[<<Some(s), f[s \ {Some(s)}]>>] = c[Some(s)] + f[s \ {Some(s)}]
      <3>1. Some(s) \in S
        BY <2>3 DEF Some
      <3>2. f[s \ {Some(s)}] \in Nat
        BY <2>2 DEF FoldingSet
      <3> QED
        BY <3>1, <3>2, <2>1
    <2>4. f = [s \in SUBSET S |-> IF s = {} THEN 0 ELSE c[Some(s)] + f[s \ {Some(s)}]]
      BY <2>2, <2>3 DEF FoldingSet
    <2>5. Iter(f)
      BY <2>4 DEF Some
    <2> HIDE DEF Iter
    <2> QED
      BY <2>5
  <1>3. Iter(g)
    <2> HIDE DEF Iter
    <2> QED
      BY <1>2
  <1> HIDE DEF g
  <1>4. \A s \in SUBSET S : g[s] = IF s = {} THEN 0 ELSE c[Some(s)] + g[s \ {Some(s)}]
    BY <1>3 DEF Some
  <1> HIDE DEF Iter
  <1>5. g[{}] \in Nat
    <2>1. {} \in SUBSET S
      OBVIOUS
    <2>2. \A s \in SUBSET S : s = {} => g[s] = 0
      BY <1>4
    <2>3. g[{}] = 0
      BY <2>1, <2>2
    <2> QED
      BY <2>3
  <1>6. ASSUME NEW s \in SUBSET S, s # {}, g[s \ {Some(s)}] \in Nat
        PROVE  g[s] \in Nat
    <2>1. Some(s) \in S
      BY <1>6 DEF Some
    <2>2. g[s] = c[Some(s)] + g[s \ {Some(s)}] /\ c[Some(s)] \in Nat
      BY <2>1, <1>4, <1>6
    <2> QED
      BY <2>2, <1>6
  <1>7. g[S] \in Nat
    BY <1>5, <1>6, SetFoldStays
  <1> QED
    BY <1>1, <1>7

-----------------------------------------------------------------------------
(* DELETE.                                                                 *)

\* A part of a sequence, element by element.
LEMMA SubSeqFacts ==
    ASSUME NEW T, NEW c \in Seq(T), NEW i \in Nat \ {0}, NEW j \in 0 .. Len(c)
    PROVE  /\ SubSeq(c, i, j) \in Seq(T)
           /\ Len(SubSeq(c, i, j)) = IF i <= j THEN j - i + 1 ELSE 0
           /\ \A k \in 1 .. Len(SubSeq(c, i, j)) :
                 SubSeq(c, i, j)[k] = c[i + k - 1] /\ i + k - 1 \in 1 .. Len(c)
  OBVIOUS

\* Up to a place in a sequence, and from there on.
LEMMA SplitFacts ==
    ASSUME NEW T, NEW c \in Seq(T), NEW i \in 0 .. Len(c)
    PROVE  /\ SubSeq(c, 1, i) \in Seq(T) /\ Len(SubSeq(c, 1, i)) = i
           /\ SubSeq(c, i + 1, Len(c)) \in Seq(T)
           /\ Len(SubSeq(c, i + 1, Len(c))) = Len(c) - i
           /\ c = SubSeq(c, 1, i) \o SubSeq(c, i + 1, Len(c))
  <1> DEFINE n == Len(c)
             a == SubSeq(c, 1, i)
             b == SubSeq(c, i + 1, n)
  <1>1. n \in Nat /\ i \in Nat /\ i <= n
    OBVIOUS
  <1>2. /\ a \in Seq(T) /\ Len(a) = i /\ \A k \in 1 .. i : a[k] = c[k]
    <2>1. /\ a \in Seq(T) /\ Len(a) = IF 1 <= i THEN i - 1 + 1 ELSE 0
          /\ \A k \in 1 .. Len(a) : a[k] = c[1 + k - 1]
      BY <1>1, SubSeqFacts
    <2> HIDE DEF a
    <2> QED
      BY <2>1, <1>1
  <1>3. /\ b \in Seq(T) /\ Len(b) = n - i /\ \A k \in 1 .. n - i : b[k] = c[i + k]
    <2>1. i + 1 \in Nat \ {0} /\ n \in 0 .. Len(c)
      BY <1>1
    <2>2. /\ b \in Seq(T) /\ Len(b) = IF i + 1 <= n THEN n - (i + 1) + 1 ELSE 0
          /\ \A k \in 1 .. Len(b) : b[k] = c[i + 1 + k - 1]
      BY <2>1, SubSeqFacts
    <2> HIDE DEF b
    <2> QED
      BY <2>2, <1>1
  <1>4. /\ a \o b \in Seq(T) /\ Len(a \o b) = i + (n - i)
        /\ \A k \in 1 .. i : (a \o b)[k] = a[k]
        /\ \A k \in 1 .. n - i : (a \o b)[i + k] = b[k]
    <2> HIDE DEF a, b
    <2>1. /\ a \o b \in Seq(T) /\ Len(a \o b) = Len(a) + Len(b)
          /\ \A k \in 1 .. Len(a) : (a \o b)[k] = a[k]
          /\ \A k \in 1 .. Len(b) : (a \o b)[Len(a) + k] = b[k]
      BY <1>2, <1>3, ConcatFacts
    <2> QED
      BY <2>1, <1>2, <1>3
  <1> DEFINE x == a \o b
  <1> HIDE DEF a, b, x
  <1>5. ASSUME NEW k \in 1 .. n
        PROVE  x[k] = c[k]
    <2>1. CASE k <= i
      BY <2>1, <1>1, <1>2, <1>4 DEF x
    <2>2. CASE ~ (k <= i)
      <3>1. PICK m \in 1 .. n - i : k = i + m
        <4>1. k - i \in 1 .. n - i /\ k = i + (k - i)
          BY <2>2, <1>1
        <4> QED
          BY <4>1
      <3> QED
        BY <3>1, <1>3, <1>4 DEF x
    <2> QED
      BY <2>1, <2>2
  <1>6. x \in Seq(T) /\ Len(x) = n
    BY <1>1, <1>4 DEF x
  <1>7. x = c
    BY <1>5, <1>6
  <1> QED
    BY <1>2, <1>3, <1>7 DEF a, b, x

\* A scan comes across no more than the cells of a page.
LEMMA RecordsFacts ==
    ASSUME NEW T, T \subseteq AnyCell, NEW page \in PageType, PageOK(page),
           page.cells \in Seq(T)
    PROVE  /\ Records(page) \in Seq(T) /\ Len(Records(page)) = page.count
           /\ page.count \in 0 .. Len(page.cells)
           /\ Used(Records(page)) <= page.free
  <1> DEFINE c == page.cells
             i == page.count
             a == SubSeq(c, 1, i)
             b == SubSeq(c, i + 1, Len(c))
  <1>1. c \in Seq(T) /\ Len(c) \in Nat /\ i \in 0 .. Len(c) /\ page.free = Used(c)
    BY PageIs DEF PageOK
  <1> HIDE DEF c, i
  <1>2. a \in Seq(T) /\ Len(a) = i /\ b \in Seq(T) /\ c = a \o b
    BY ZenonT(40), <1>1, SplitFacts
  <1> HIDE DEF a, b
  <1>3. a \in Seq(AnyCell) /\ b \in Seq(AnyCell)
    BY <1>2
  <1>4. Used(c) = Used(a) + Used(b) /\ Used(a) \in Nat /\ Used(b) \in Nat
    <2>1. Used(a \o b) = Used(a) + Used(b) /\ Used(a) \in Nat /\ Used(b) \in Nat
      BY <1>3, UsedConcat
    <2> QED
      BY <2>1, <1>2
  <1>5. Records(page) = a
    BY DEF Records, a, c, i
  <1> QED
    BY <1>1, <1>2, <1>4, <1>5 DEF c, i

\* The records that stay make up a page.
LEMMA CompactedIs ==
    ASSUME NEW page \in PageType, PageOK(page), NEW t, page.cells \in Seq(Cell(t)),
           NEW where, NEW new, new = Compacted(page, where)
    PROVE  /\ new \in PageType /\ PageOK(new) /\ new.next = page.next
           /\ new.cells \in Seq(Cell(t))
  <1> DEFINE c == Records(page)
             keep == Only(c, ToSet(c) \ Matching(c, where))
  <1>1. Cell(t) \subseteq AnyCell
    BY CellFacts
  <1>2. c \in Seq(Cell(t)) /\ Len(c) = page.count /\ Used(c) <= page.free
        /\ page.count \in 0 .. Len(page.cells)
    BY <1>1, RecordsFacts
  <1>3. /\ keep \in Seq(Cell(t) \cap (ToSet(c) \ Matching(c, where)))
        /\ Len(keep) <= Len(c) /\ Used(keep) <= Used(c)
    BY <1>1, <1>2, OnlyFacts
  <1>4. new = [page EXCEPT !.cells = keep, !.count = Len(keep), !.free = Used(keep)]
    BY DEF Compacted
  <1> HIDE DEF keep
  <1>5. keep \in Seq(Cell(t)) /\ keep \in Seq(AnyCell) /\ Len(keep) \in Nat
    BY <1>1, <1>3
  <1>6. Used(keep) \in Nat /\ Used(c) \in Nat
    <2>1. PICK h : Sums(h, keep)
      BY <1>5, SumsExist
    <2>2. c \in Seq(AnyCell)
      BY <1>1, <1>2
    <2>3. PICK i : Sums(i, c)
      BY <2>2, SumsExist
    <2> QED
      BY <1>5, <2>1, <2>2, <2>3, SumsAre
  <1> HIDE DEF c
  <1>7. page = [next |-> page.next, count |-> page.count,
                free |-> page.free, cells |-> page.cells]
        /\ page.next \in Nat /\ page.free \in Nat
    BY PageIs
  <1>8. new = [next |-> page.next, count |-> Len(keep), free |-> Used(keep), cells |-> keep]
    BY <1>4, <1>7
  <1>9. new \in PageType
    BY <1>5, <1>6, <1>7, <1>8 DEF PageType
  <1>10. PageOK(new)
    <2>1. page.free <= PageSize \/ Len(page.cells) = 1
      BY DEF PageOK
    <2>2. CASE page.free <= PageSize
      <3>1. Used(keep) <= PageSize
        BY <2>2, <1>2, <1>3, <1>6, <1>7, BoundsAreNaturals
      <3> QED
        BY <3>1, <1>5, <1>8 DEF PageOK
    <2>3. CASE Len(page.cells) = 1
      <3>1. Len(keep) = 0 \/ Len(keep) = 1
        BY <2>3, <1>2, <1>3, <1>5
      <3>2. Len(keep) = 0 => Used(keep) = 0
        <4>1. Len(keep) = 0 => keep = <<>>
          BY <1>5
        <4> QED
          BY <4>1, UsedEmpty
      <3> QED
        BY <3>1, <3>2, <1>5, <1>8, BoundsAreNaturals DEF PageOK
    <2> QED
      BY <2>1, <2>2, <2>3
  <1> QED
    BY <1>5, <1>8, <1>9, <1>10

\* A page without records has none to delete.
LEMMA GoneNone ==
    ASSUME NEW d, NEW s, Good(d, s), NEW p \in 1 .. Len(d.pages), NEW where,
           d.pages[p].count = 0
    PROVE  Gone(d, p, where) = <<>>
  <1> DEFINE page == d.pages[p]
             c == Records(page)
  <1>1. page \in PageType /\ PageOK(page) /\ page.cells \in Seq(AnyCell)
    BY DbFields DEF Good, LinksOK
  <1>2. c \in Seq(AnyCell) /\ Len(c) = 0
    BY <1>1, RecordsFacts
  <1> HIDE DEF c
  <1>3. /\ Only(c, Matching(c, where)) \in Seq(AnyCell \cap Matching(c, where))
        /\ Len(Only(c, Matching(c, where))) <= 0
    BY <1>2, OnlyFacts
  <1> DEFINE g == Only(c, Matching(c, where))
  <1> HIDE DEF g
  <1>4. g = <<>>
    <2>1. g \in Seq(AnyCell \cap Matching(c, where)) /\ Len(g) <= 0 /\ Len(g) \in Nat
      BY <1>3 DEF g
    <2>2. Len(g) = 0
      BY <2>1
    <2> QED
      BY <2>1, <2>2
  <1> QED
    BY <1>4 DEF Gone, c, g

\* Compacting a page of the spine keeps the layout.
LEMMA ClearedGood ==
    ASSUME NEW d, NEW s, Good(d, s), NEW t \in Names, NEW where,
           NEW p, \E k \in 1 .. Len(s[t]) : p = s[t][k],
           NEW e, e = WithPage(d, p, Compacted(d.pages[p], where))
    PROVE  Good(e, s) /\ Grows(d, s, e, s, t)
  <1> DEFINE page == Compacted(d.pages[p], where)
  <1>1. d \in DbType /\ p \in 1 .. Len(d.pages)
    <2>1. p \in 1 .. Len(d.pages)
      BY SpineFacts
    <2> QED
      BY <2>1 DEF Good
  <1>2. d.pages[p] \in PageType /\ PageOK(d.pages[p]) /\ d.pages[p].cells \in Seq(Cell(t))
    <2>1. d.pages[p] \in PageType
      BY <1>1, DbFields
    <2>2. PageOK(d.pages[p])
      BY <1>1 DEF Good, LinksOK
    <2>3. Spine(d.pages, t, s[t])
      BY DEF Good
    <2>4. d.pages[p].cells \in Seq(Cell(t))
      BY <2>3 DEF Spine
    <2> QED
      BY <2>1, <2>2, <2>4
  <1>3. /\ page \in PageType /\ PageOK(page) /\ page.next = d.pages[p].next
        /\ page.cells \in Seq(Cell(t))
    BY <1>2, CompactedIs
  <1>4. e = WithPage(d, p, page)
    OBVIOUS
  <1> HIDE DEF page
  <1>5. /\ e \in DbType /\ e.dir = d.dir /\ e.index = d.index
        /\ Len(e.pages) = Len(d.pages) /\ e.pages[p] = page
        /\ \A q \in 1 .. Len(d.pages) : q # p => e.pages[q] = d.pages[q]
    BY <1>1, <1>3, <1>4, WithPageIs
  <1>6. Reworked(d, s, e, t)
    <2>1. ASSUME NEW q \in 1 .. Len(d.pages)
          PROVE  \/ e.pages[q] = d.pages[q]
                 \/ /\ \E k \in 1 .. Len(s[t]) : q = s[t][k]
                    /\ PageOK(e.pages[q])
                    /\ e.pages[q].next = d.pages[q].next
                    /\ e.pages[q].cells \in Seq(Cell(t))
      <3>1. CASE q # p
        BY <3>1, <1>5
      <3>2. CASE q = p
        BY <3>2, <1>3, <1>5
      <3> QED
        BY <3>1, <3>2
    <2>2. Hints(e.index[t], t, Reach(d, s, t))
      BY <1>5 DEF Good
    <2> QED
      BY <1>5, <2>1, <2>2 DEF Reworked
  <1> QED
    BY <1>6, ReworkedGood

\* The index of a table without the first entries of its keys.
LEMMA ShortenedHints ==
    ASSUME NEW ix \in IndexType, NEW t, NEW P, HintsInto(ix, t, P),
           NEW n, \A k \in Keys : n[k] \in Nat,
           NEW new, new = [k \in Keys |-> SubSeq(ix[k], n[k] + 1, Len(ix[k]))]
    PROVE  new \in IndexType /\ HintsInto(new, t, P)
  <1>1. ASSUME NEW k \in Keys
        PROVE  /\ new[k] \in Seq(Hint)
               /\ \A i \in 1 .. Len(new[k]) : \E j \in 1 .. Len(ix[k]) : new[k][i] = ix[k][j]
    <2> DEFINE c == ix[k]
               m == n[k] + 1
               l == Len(c)
    <2>1. c \in Seq(Hint) /\ m \in Nat \ {0} /\ l \in 0 .. Len(c)
      BY DEF IndexType
    <2>2. new[k] = SubSeq(c, m, l)
      OBVIOUS
    <2> HIDE DEF c, m, l
    <2>3. /\ SubSeq(c, m, l) \in Seq(Hint)
          /\ \A i \in 1 .. Len(SubSeq(c, m, l)) :
                SubSeq(c, m, l)[i] = c[m + i - 1] /\ m + i - 1 \in 1 .. Len(c)
      BY <2>1, SubSeqFacts
    <2> QED
      BY <2>2, <2>3 DEF c
  <1>2. new \in IndexType
    BY <1>1 DEF IndexType
  <1>3. HintsInto(new, t, P)
    <2> SUFFICES ASSUME NEW k \in Keys, NEW i \in 1 .. Len(new[k])
                 PROVE  new[k][i].row.key = k /\ new[k][i].page \in P
      BY DEF HintsInto
    <2>1. PICK j \in 1 .. Len(ix[k]) : new[k][i] = ix[k][j]
      BY <1>1
    <2>2. ix[k][j].row.key = k /\ ix[k][j].page \in P
      BY DEF HintsInto
    <2> QED
      BY <2>1, <2>2
  <1> QED
    BY <1>2, <1>3

\* What delete does when it finds something in the pages m: their records that
\* match are taken away, and as many entries of their keys.
GoneWith(d, where, m, k) ==
    [p \in m |-> Cardinality({i \in DOMAIN Gone(d, p, where) : Gone(d, p, where)[i].key = k})]
Fewer(d, t, where, m) ==
    [k \in Keys |-> SubSeq(d.index[t][k], Total(GoneWith(d, where, m, k), m) + 1,
                           Len(d.index[t][k]))]
Fitting(d, t, where, m) ==
    IF d.index[t] = None THEN d ELSE WithIndex(d, t, Fewer(d, t, where, m))
Modified(d, where, visited) == {p \in visited : Gone(d, p, where) # <<>>}
ClearedIn(d, t, where, m, q, e) ==
    /\ e.index = Fitting(d, t, where, m).index
    /\ Len(e.pages) = Len(d.pages)
    /\ \A p \in 1 .. Len(d.pages) :
          e.pages[p] = IF p \in q THEN Compacted(d.pages[p], where) ELSE d.pages[p]

\* So does delete, on whichever pages of the spine it works.
LEMMA DeletedInGood ==
    ASSUME NEW d, NEW s, Good(d, s), NEW t \in Names, NEW where, NEW visited,
           \A p \in visited : /\ p \in 1 .. Len(d.pages)
                              /\ \/ \E k \in 1 .. Len(s[t]) : p = s[t][k]
                                 \/ d.pages[p].count = 0
    PROVE  Good(DeletedIn(d, t, where, visited), s)
           /\ Grows(d, s, DeletedIn(d, t, where, visited), s, t)
           /\ ClearedIn(d, t, where, Modified(d, where, visited), Modified(d, where, visited),
                        DeletedIn(d, t, where, visited))
  <1> DEFINE modified == {p \in visited : Gone(d, p, where) # <<>>}
             size(k, p) == Cardinality({i \in DOMAIN Gone(d, p, where) :
                                           Gone(d, p, where)[i].key = k})
             gone(k) == [p \in modified |-> size(k, p)]
             removed == [k \in Keys |-> Total(gone(k), modified)]
             fewer == [k \in Keys |-> SubSeq(d.index[t][k], removed[k] + 1, Len(d.index[t][k]))]
             base == IF d.index[t] = None THEN d ELSE WithIndex(d, t, fewer)
             V == {e \in DbType : Good(e, s) /\ Grows(d, s, e, s, t)}
             Cleared(p, e) == [e EXCEPT !.pages[p] = Compacted(@, where)]
             Iter(f) == f = [q \in SUBSET modified |->
                               IF q = {} THEN base
                               ELSE Cleared(CHOOSE p \in q : TRUE, f[q \ {CHOOSE p \in q : TRUE}])]
             g == CHOOSE f : Iter(f)
             F == [x \in modified \X V |-> Cleared(x[1], x[2])]
  <1>1. DeletedIn(d, t, where, visited) = g[modified]
    BY DEF DeletedIn, FoldSet, MapThenFoldSet, WithIndex, Total
  <1>2. d \in DbType /\ Len(d.pages) \in Nat
    BY DbFields DEF Good
  <1>3. IsFiniteSet(modified) /\ \A p \in modified : \E k \in 1 .. Len(s[t]) : p = s[t][k]
    <2>1. modified \in SUBSET (1 .. Len(d.pages)) /\ IsFiniteSet(1 .. Len(d.pages))
      BY <1>2, FS_Interval
    <2>2. IsFiniteSet(modified)
      BY <2>1, FS_Subset
    <2>3. \A p \in visited : d.pages[p].count = 0 => Gone(d, p, where) = <<>>
      BY GoneNone
    <2> QED
      BY <2>2, <2>3
  <1>4. \A k \in Keys : removed[k] \in Nat
    <2> SUFFICES ASSUME NEW k \in Keys PROVE removed[k] \in Nat
      OBVIOUS
    <2>1. ASSUME NEW p \in modified
          PROVE  size(k, p) \in Nat
      <3> DEFINE c == Gone(d, p, where)
                 r == Records(d.pages[p])
      <3>1. p \in 1 .. Len(d.pages)
        OBVIOUS
      <3>2. d.pages[p] \in PageType /\ PageOK(d.pages[p]) /\ d.pages[p].cells \in Seq(AnyCell)
        BY <1>2, <3>1, DbFields DEF Good, LinksOK
      <3>3. r \in Seq(AnyCell)
        BY <3>2, RecordsFacts
      <3>4. c = Only(r, Matching(r, where))
        BY DEF Gone
      <3> HIDE DEF c, r
      <3>5. c \in Seq(AnyCell \cap Matching(r, where))
        BY <3>3, <3>4, OnlyFacts
      <3>6. DOMAIN c = 1 .. Len(c) /\ Len(c) \in Nat
        BY <3>5
      <3>7. IsFiniteSet(DOMAIN c)
        BY <3>6, FS_Interval
      <3>8. IsFiniteSet({i \in DOMAIN c : c[i].key = k})
        BY <3>7, FS_Subset
      <3> QED
        BY <3>8, FS_CardinalityType DEF c
    <2> DEFINE h == gone(k)
    <2>2. \A p \in modified : h[p] \in Nat
      BY <2>1
    <2>3. removed[k] = Total(h, modified)
      OBVIOUS
    <2> HIDE DEF h, modified, removed
    <2> QED
      BY <2>2, <2>3, <1>3, TotalIsNat
  <1>5. base \in V
    <2>1. CASE d.index[t] = None
      <3>1. Grows(d, s, d, s, t)
        BY GrowsNot
      <3> QED
        BY <2>1, <3>1, <1>2
    <2>2. CASE d.index[t] # None
      <3> DEFINE ix == d.index[t]
      <3>1. ix \in IndexType /\ HintsInto(ix, t, Reach(d, s, t))
        BY <1>2, <2>2, DbFields DEF Good, Hints
      <3>2. fewer = [k \in Keys |-> SubSeq(ix[k], removed[k] + 1, Len(ix[k]))]
        OBVIOUS
      <3> HIDE DEF removed, ix, fewer
      <3>3. fewer \in IndexType /\ HintsInto(fewer, t, Reach(d, s, t))
        BY <1>4, <3>1, <3>2, ShortenedHints
      <3>4. Reworked(d, s, WithIndex(d, t, fewer), t)
        BY <3>3, WithIndexGood DEF Hints
      <3>5. Good(WithIndex(d, t, fewer), s) /\ Grows(d, s, WithIndex(d, t, fewer), s, t)
        BY <3>4, ReworkedGood
      <3>6. WithIndex(d, t, fewer) \in DbType
        BY <3>5 DEF Good
      <3> QED
        BY <2>2, <3>5, <3>6
    <2> QED
      BY <2>1, <2>2
  <1>6. ASSUME NEW p \in modified, NEW e \in V
        PROVE  Cleared(p, e) \in V
    <2>1. Good(e, s) /\ Grows(d, s, e, s, t)
      OBVIOUS
    <2>2. \E k \in 1 .. Len(s[t]) : p = s[t][k]
      BY <1>3
    <2> DEFINE f == Cleared(p, e)
    <2>3. f = WithPage(e, p, Compacted(e.pages[p], where))
      BY DEF WithPage
    <2> HIDE DEF f, modified
    <2>4. Good(f, s) /\ Grows(e, s, f, s, t)
      BY <2>1, <2>2, <2>3, ClearedGood
    <2>5. Grows(d, s, f, s, t) /\ f \in DbType
      BY <2>1, <2>4, GrowsMore DEF Good
    <2> QED
      BY <2>4, <2>5 DEF f
  <1>14. base = Fitting(d, t, where, modified) /\ modified = Modified(d, where, visited)
    BY DEF Fitting, Fewer, GoneWith, Modified
  <1>15. Len(base.pages) = Len(d.pages) /\ base.pages = d.pages
    <2>1. CASE d.index[t] = None
      BY <2>1
    <2>2. CASE d.index[t] # None
      <3>1. base = WithIndex(d, t, fewer)
        BY <2>2
      <3> HIDE DEF base, fewer
      <3> QED
        BY <3>1, <1>2 DEF WithIndex
    <2> QED
      BY <2>1, <2>2
  <1>16. ASSUME NEW q \in SUBSET modified, NEW e \in V, ClearedIn(d, t, where, modified, q, e),
                NEW p \in modified, p \notin q
         PROVE  ClearedIn(d, t, where, modified, q \cup {p}, Cleared(p, e))
    <2> DEFINE f == Cleared(p, e)
    <2>1. f = WithPage(e, p, Compacted(e.pages[p], where)) /\ e \in DbType
      BY DEF WithPage
    <2>2. p \in 1 .. Len(d.pages) /\ Len(e.pages) = Len(d.pages)
      BY <1>16 DEF ClearedIn
    <2> HIDE DEF f, modified, V
    <2>3. Good(e, s) /\ d.pages[p] = e.pages[p]
      BY <1>16, <2>2 DEF V, ClearedIn
    <2>4. Compacted(e.pages[p], where) \in PageType
      <3>1. e.pages[p] \in PageType /\ PageOK(e.pages[p]) /\ e.pages[p].cells \in Seq(AnyCell)
        BY <2>1, <2>2, <2>3, DbFields DEF Good, LinksOK
      <3>2. \E k \in 1 .. Len(s[t]) : p = s[t][k]
        BY <1>3
      <3>3. e.pages[p].cells \in Seq(Cell(t))
        BY <3>2, <2>3 DEF Good, Spine
      <3> QED
        BY <3>1, <3>3, CompactedIs
    <2>5. /\ f.index = e.index /\ Len(f.pages) = Len(e.pages)
          /\ f.pages[p] = Compacted(e.pages[p], where)
          /\ \A x \in 1 .. Len(e.pages) : x # p => f.pages[x] = e.pages[x]
      <3>1. p \in 1 .. Len(e.pages)
        BY <2>2
      <3> QED
        BY <2>1, <2>4, <3>1, WithPageIs
    <2> QED
      BY <2>2, <2>3, <2>5, <1>16 DEF ClearedIn, f
  <1> HIDE DEF modified, base, V, Cleared
  <1>7. \A p \in modified, e \in V : F[<<p, e>>] = Cleared(p, e)
    OBVIOUS
  <1> HIDE DEF F
  <1>8. \E f : Iter(f)
    <2>1. \A p \in modified, e \in V : F[<<p, e>>] \in V
      BY <1>6, <1>7
    <2>2. PICK f : FoldingSet(f, modified, V, base, F)
      BY <2>1, <1>3, <1>5, SetFoldIsThere
    <2>3. ASSUME NEW q \in SUBSET modified, q # {}
          PROVE  F[<<Some(q), f[q \ {Some(q)}]>>] = Cleared(Some(q), f[q \ {Some(q)}])
      <3>1. Some(q) \in modified
        BY <2>3 DEF Some
      <3>2. f[q \ {Some(q)}] \in V
        BY <2>2 DEF FoldingSet
      <3> QED
        BY <3>1, <3>2, <1>7
    <2>4. f = [q \in SUBSET modified |->
                 IF q = {} THEN base ELSE Cleared(Some(q), f[q \ {Some(q)}])]
      BY <2>2, <2>3 DEF FoldingSet
    <2>5. Iter(f)
      BY <2>4 DEF Some
    <2> HIDE DEF Iter
    <2> QED
      BY <2>5
  <1>9. Iter(g)
    <2> HIDE DEF Iter
    <2> QED
      BY <1>8
  <1> HIDE DEF g
  <1>10. \A q \in SUBSET modified :
            g[q] = IF q = {} THEN base ELSE Cleared(Some(q), g[q \ {Some(q)}])
    BY <1>9 DEF Some
  <1> HIDE DEF Iter
  <1>11. g[{}] \in V
    <2>1. {} \in SUBSET modified
      OBVIOUS
    <2>2. \A q \in SUBSET modified : q = {} => g[q] = base
      BY <1>10
    <2>3. g[{}] = base
      BY <2>1, <2>2
    <2> QED
      BY <2>3, <1>5
  <1>12. ASSUME NEW q \in SUBSET modified, q # {}, g[q \ {Some(q)}] \in V
         PROVE  g[q] \in V
    <2>1. Some(q) \in modified
      BY <1>12 DEF Some
    <2>2. g[q] = Cleared(Some(q), g[q \ {Some(q)}])
      BY <1>10, <1>12
    <2> QED
      BY <2>1, <2>2, <1>6, <1>12
  <1> DEFINE T == {q \in SUBSET modified : g[q] \in V /\ ClearedIn(d, t, where, modified, q, g[q])}
  <1>13. modified \in T
    <2>1. {} \in T
      <3>1. {} \in SUBSET modified /\ g[{}] = base
        BY <1>10
      <3>2. ClearedIn(d, t, where, modified, {}, base)
        BY <1>14, <1>15 DEF ClearedIn
      <3> QED
        BY <1>11, <3>1, <3>2
    <2>2. ASSUME NEW q \in SUBSET modified, q # {}, q \ {Some(q)} \in T
          PROVE  q \in T
      <3> DEFINE p == Some(q)
                 b == q \ {p}
      <3>1. p \in modified /\ p \notin b /\ b \in SUBSET modified /\ q = b \cup {p}
        BY <2>2 DEF Some
      <3>2. g[b] \in V /\ ClearedIn(d, t, where, modified, b, g[b])
        BY <2>2
      <3>3. g[q] = Cleared(p, g[b])
        BY <1>10, <2>2
      <3>4. g[q] \in V
        BY <1>12, <2>2, <3>2
      <3> HIDE DEF p, b
      <3>5. ClearedIn(d, t, where, modified, b \cup {p}, Cleared(p, g[b]))
        BY <3>1, <3>2, <1>16
      <3> QED
        BY <3>1, <3>3, <3>4, <3>5
    <2> HIDE DEF T
    <2> QED
      BY <2>1, <2>2, <1>3, SetInduction
  <1> QED
    BY <1>1, <1>13, <1>14 DEF V

-----------------------------------------------------------------------------
(* The chain of a table.                                                   *)

\* The spine, and the empty page that may be linked behind it.
Behind(pages, sp) ==
    LET b == pages[sp[Len(sp)]].next IN IF b = 0 THEN <<>> ELSE <<b>>
Whole(pages, sp) == sp \o Behind(pages, sp)

\* Its pages, one by one.
LEMMA WholeFacts ==
    ASSUME NEW d, NEW s, Good(d, s), NEW t \in Names, s[t] # <<>>,
           NEW w, w = Whole(d.pages, s[t])
    PROVE  /\ w \in Seq(Nat) /\ Len(w) \in Nat /\ Len(w) >= Len(s[t]) /\ Len(s[t]) \in Nat \ {0}
           /\ \A k \in 1 .. Len(s[t]) : w[k] = s[t][k]
           /\ \A k \in 1 .. Len(w) :
                 /\ w[k] \in 1 .. Len(d.pages)
                 /\ d.pages[w[k]].next = IF k = Len(w) THEN 0 ELSE w[k + 1]
                 /\ \/ k <= Len(s[t])
                    \/ d.pages[w[k]] = EmptyPage /\ d.pages[w[k]].count = 0
                       /\ \A u \in Names : \A j \in 1 .. Len(s[u]) : w[k] # s[u][j]
  <1> DEFINE sp == s[t]
             m == Len(sp)
             b == d.pages[sp[m]].next
             N == Len(d.pages)
  <1>1. sp \in Seq(Nat) /\ m \in Nat \ {0} /\ m \in 1 .. m /\ N \in Nat
        /\ \A k \in 1 .. m : sp[k] \in 1 .. N /\ sp[k] \in Nat
        /\ b \in Nat
    <2>1. sp \in Seq(Nat) /\ m \in Nat /\ m >= 1
      BY SpineFacts
    <2>2. \A k \in 1 .. m : sp[k] \in 1 .. N /\ sp[k] \in Nat
      BY SpineFacts
    <2>3. d \in DbType
      BY DEF Good
    <2>4. sp[m] \in 1 .. N
      BY <2>1, <2>2
    <2>5. b \in Nat
      BY <2>3, <2>4, DbFields
    <2>6. N \in Nat
      BY <2>3, DbFields
    <2> QED
      BY <2>1, <2>2, <2>5, <2>6
  <1>2. Spine(d.pages, t, sp)
    BY DEF Good
  <1>3. \A k \in 1 .. m : k + 1 <= m => d.pages[sp[k]].next = sp[k + 1]
    BY <1>2 DEF Spine
  <1>4. CASE b = 0
    <2>1. w = sp \o <<>> /\ sp \o <<>> = sp
      BY <1>1, <1>4 DEF Whole, Behind
    <2>2. w = sp
      BY <2>1
    <2>3. ASSUME NEW k \in 1 .. m
          PROVE  d.pages[sp[k]].next = IF k = m THEN 0 ELSE sp[k + 1]
      <3>1. k = m \/ k + 1 <= m
        BY <1>1
      <3> QED
        BY <3>1, <1>3, <1>4
    <2>4. \A k \in 1 .. m : k <= m
      BY <1>1
    <2> QED
      BY <1>1, <2>2, <2>3, <2>4
  <1>5. CASE b # 0
    <2>1. w = sp \o <<b>>
      BY <1>5 DEF Whole, Behind
    <2>2. /\ b \in 1 .. N /\ d.pages[b] = EmptyPage
          /\ \A u \in Names : \A k \in 1 .. Len(s[u]) : s[u][k] # b
      BY <1>5, BehindFacts
    <2> HIDE DEF m, b, N
    <2>3. <<b>> \in Seq(Nat) /\ Len(<<b>>) = 1 /\ <<b>>[1] = b
      BY <1>1
    <2> HIDE DEF sp
    <2>4. /\ w \in Seq(Nat) /\ Len(w) = m + 1
          /\ \A k \in 1 .. m : w[k] = sp[k]
          /\ w[m + 1] = b
      <3>1. /\ w \in Seq(Nat) /\ Len(w) = Len(sp) + Len(<<b>>)
            /\ \A k \in 1 .. Len(sp) : w[k] = sp[k]
        BY <1>1, <2>1, <2>3, ConcatFacts
      <3>2. \A k \in 1 .. 1 : (sp \o <<b>>)[Len(sp) + k] = <<b>>[k]
        BY <1>1, <2>3, ConcatFacts
      <3>3. (sp \o <<b>>)[Len(sp) + 1] = b
        BY <3>2, <2>3
      <3> QED
        BY <3>1, <3>3, <2>1, <2>3 DEF m
    <2>5. ASSUME NEW k \in 1 .. Len(w)
          PROVE  /\ w[k] \in 1 .. N
                 /\ d.pages[w[k]].next = IF k = Len(w) THEN 0 ELSE w[k + 1]
                 /\ \/ k <= m
                    \/ d.pages[w[k]] = EmptyPage /\ d.pages[w[k]].count = 0
                       /\ \A u \in Names : \A j \in 1 .. Len(s[u]) : w[k] # s[u][j]
      <3>1. k = m + 1 \/ k = m \/ (k \in 1 .. m /\ k + 1 <= m /\ k + 1 \in 1 .. m)
        BY <1>1, <2>4
      <3>2. CASE k = m + 1
        BY <3>2, <2>2, <2>4, EmptyPageFacts
      <3>3. CASE k = m
        <4>1. k # Len(w) /\ w[k] = sp[m] /\ w[k + 1] = b /\ k <= m
          BY <3>3, <1>1, <2>4
        <4>2. d.pages[sp[m]].next = b
          BY DEF b
        <4> QED
          BY <4>1, <4>2, <1>1
      <3>4. CASE k \in 1 .. m /\ k + 1 <= m /\ k + 1 \in 1 .. m
        <4>1. k # Len(w) /\ w[k] = sp[k] /\ w[k + 1] = sp[k + 1] /\ k <= m
          BY SMTT(40), <3>4, <1>1, <2>4
        <4> QED
          BY <4>1, <3>4, <1>1, <1>3
      <3> QED
        BY <3>1, <3>2, <3>3, <3>4
    <2>6. Len(w) \in Nat /\ Len(w) >= m
      BY <1>1, <2>4
    <2> QED
      BY <1>1, <2>4, <2>5, <2>6 DEF m, N, sp
  <1> QED
    BY <1>4, <1>5

\* The links of the pages lead along it.
LEMMA ChainIs ==
    ASSUME NEW d, NEW s, Good(d, s), NEW t, Exists(d, t)
    PROVE  Chain(d, t) = Whole(d.pages, s[t])
  <1> DEFINE N == Len(d.pages)
             w == Whole(d.pages, s[t])
             L == Len(w)
             next(p) == d.pages[p].next
             Step(f, p) == IF p = 0 THEN <<>> ELSE <<p>> \o f[next(p)]
             Iter(f) == f = [p \in 0 .. N |-> Step(f, p)]
             g == CHOOSE f : Iter(f)
  <1>1. t \in Names /\ s[t] # <<>> /\ Entry(d, t).start = s[t][1]
    BY EntryFacts
  <1>2. /\ w \in Seq(Nat) /\ L \in Nat /\ L >= 1 /\ w[1] = s[t][1]
        /\ \A k \in 1 .. L : w[k] \in 1 .. N /\ next(w[k]) = IF k = L THEN 0 ELSE w[k + 1]
    <2>1. /\ w \in Seq(Nat) /\ L \in Nat /\ L >= Len(s[t]) /\ Len(s[t]) \in Nat \ {0}
          /\ \A k \in 1 .. Len(s[t]) : w[k] = s[t][k]
      BY <1>1, WholeFacts
    <2>2. ASSUME NEW k \in 1 .. L
          PROVE  w[k] \in 1 .. N /\ next(w[k]) = IF k = L THEN 0 ELSE w[k + 1]
      BY <1>1, WholeFacts
    <2>3. L >= 1 /\ 1 \in 1 .. Len(s[t])
      BY <2>1
    <2> HIDE DEF w, L
    <2> QED
      BY <2>1, <2>2, <2>3
  <1>3. Chain(d, t) = g[w[1]]
    BY <1>1, <1>2 DEF Chain
  <1>4. N \in Nat /\ \A p \in 1 .. N : next(p) = 0 \/ next(p) \in p + 1 .. N
    BY DbFields DEF Good, LinksOK
  <1> HIDE DEF N, w, L, next
  <1>5. \E f : Iter(f)
    <2> DEFINE D(k) == {0} \cup (N - k + 1 .. N)
               Partial(f, k) == f = [p \in D(k) |-> Step(f, p)]
               T == {k \in 0 .. N : \E f : Partial(f, k)}
    <2>1. 0 \in T
      <3> DEFINE f == [p \in {0} |-> <<>>]
      <3>1. D(0) = {0}
        BY <1>4
      <3>2. Partial(f, 0)
        BY <3>1
      <3> HIDE DEF Partial
      <3> QED
        BY <1>4, <3>2
    <2>2. ASSUME NEW k \in 0 .. N, k \in T, k < N
          PROVE  k + 1 \in T
      <3>1. PICK f : Partial(f, k)
        BY <2>2
      <3> DEFINE q == N - k
                 h == [p \in D(k + 1) |-> IF p = q THEN <<q>> \o f[next(q)] ELSE f[p]]
      <3>2. q \in 1 .. N /\ q \in D(k + 1) /\ q \notin D(k) /\ D(k + 1) = D(k) \cup {q}
        BY <2>2, <1>4
      <3>3. \A p \in D(k + 1) : p # 0 => p \in 1 .. N /\ next(p) \in D(k)
        <4> SUFFICES ASSUME NEW p \in D(k + 1), p # 0 PROVE p \in 1 .. N /\ next(p) \in D(k)
          OBVIOUS
        <4>1. p \in 1 .. N /\ p >= N - k
          BY <2>2, <1>4
        <4>2. next(p) = 0 \/ next(p) \in p + 1 .. N
          BY <4>1, <1>4
        <4> QED
          BY <4>1, <4>2, <2>2, <1>4
      <3> HIDE DEF D
      <3>4. \A p \in D(k) : h[p] = f[p] /\ f[p] = Step(f, p)
        BY <3>1, <3>2
      <3>5. h[q] = <<q>> \o f[next(q)] /\ q # 0
        BY <3>2, <1>4
      <3>6. ASSUME NEW p \in D(k + 1)
            PROVE  h[p] = Step(h, p)
        <4>1. p # 0 => h[next(p)] = f[next(p)]
          BY <3>3, <3>4
        <4>2. CASE p = q
          BY <4>1, <4>2, <3>5
        <4>3. CASE p # q
          BY <4>1, <4>3, <3>2, <3>4
        <4> QED
          BY <4>2, <4>3
      <3>7. Partial(h, k + 1)
        <4> DEFINE x == [p \in D(k + 1) |-> Step(h, p)]
        <4>1. DOMAIN h = D(k + 1) /\ \A p \in D(k + 1) : h[p] = x[p]
          BY <3>6
        <4>2. h = [p \in D(k + 1) |-> h[p]]
          OBVIOUS
        <4>3. h = x
          <5> HIDE DEF Step
          <5> HIDE DEF h
          <5> QED
            BY <4>2, <3>6
        <4> QED
          BY <4>3
      <3>8. k + 1 \in 0 .. N
        BY <2>2, <1>4
      <3> HIDE DEF Partial, h
      <3> QED
        BY <3>7, <3>8
    <2>3. N \in T
      <3> HIDE DEF T
      <3>1. 0 .. N \subseteq T
        BY <1>4, <2>1, <2>2, InductionUpTo
      <3> QED
        BY <1>4, <3>1
    <2>4. PICK f : Partial(f, N)
      BY <2>3
    <2>5. D(N) = 0 .. N
      BY <1>4
    <2> HIDE DEF D, Step
    <2>6. Iter(f)
      BY <2>4, <2>5
    <2> HIDE DEF Iter
    <2> QED
      BY <2>6
  <1>6. Iter(g)
    <2> HIDE DEF Iter
    <2> QED
      BY <1>5
  <1> HIDE DEF g
  <1>7. g[0] = <<>> /\ \A p \in 1 .. N : g[p] = <<p>> \o g[next(p)]
    <2>1. \A p \in 0 .. N : g[p] = Step(g, p)
      <3> HIDE DEF Step
      <3> QED
        BY <1>6
    <2>2. 0 \in 0 .. N /\ \A p \in 1 .. N : p \in 0 .. N /\ p # 0
      BY <1>4
    <2> QED
      BY <2>1, <2>2
  <1> HIDE DEF Iter
  <1> DEFINE From(k, z) == /\ z \in Seq(Nat) /\ Len(z) = L - k + 1
                           /\ \A i \in 1 .. L - k + 1 : z[i] = w[k + i - 1]
             U == {j \in 0 .. L - 1 : From(L - j, g[w[L - j]])}
  <1>8. \A p \in 1 .. N : <<p>> \in Seq(Nat) /\ Len(<<p>>) = 1 /\ <<p>>[1] = p
    BY <1>4
  <1>9. 0 \in U
    <2>1. L - 0 = L /\ L \in 1 .. L /\ 0 \in 0 .. L - 1
      BY <1>2
    <2>2. g[w[L]] = <<w[L]>> \o <<>> /\ w[L] \in 1 .. N
      BY <2>1, <1>2, <1>7
    <2>3. <<w[L]>> \o <<>> = <<w[L]>>
      BY <2>2, <1>8
    <2>4. From(L, <<w[L]>>)
      <3>1. L - L + 1 = 1 /\ L + 1 - 1 = L
        BY <1>2
      <3>2. \A i \in 1 .. 1 : i = 1
        OBVIOUS
      <3> QED
        BY <3>1, <3>2, <2>2, <1>8
    <2> HIDE DEF From
    <2> QED
      BY <2>1, <2>2, <2>3, <2>4
  <1>10. ASSUME NEW j \in 0 .. L - 1, j \in U, j < L - 1
         PROVE  j + 1 \in U
    <2> DEFINE k == L - (j + 1)
    <2>1. k \in 1 .. L /\ k # L /\ k + 1 = L - j /\ j + 1 \in 0 .. L - 1 /\ k \in Nat
      BY <1>2, <1>10
    <2> HIDE DEF k
    <2>2. w[k] \in 1 .. N /\ next(w[k]) = w[k + 1]
      BY <2>1, <1>2
    <2>3. g[w[k]] = <<w[k]>> \o g[w[k + 1]]
      BY <2>2, <1>7
    <2>4. From(k + 1, g[w[k + 1]])
      BY <2>1, <1>10
    <2> DEFINE z == g[w[k + 1]]
               x == <<w[k]>>
    <2>5. x \in Seq(Nat) /\ Len(x) = 1 /\ x[1] = w[k]
      BY <2>2, <1>8
    <2>6. z \in Seq(Nat) /\ Len(z) = L - k /\ \A i \in 1 .. L - k : z[i] = w[k + i]
      <3>1. L - (k + 1) + 1 = L - k /\ \A i \in 1 .. L - k : k + 1 + i - 1 = k + i
        BY <2>1, <1>2
      <3> HIDE DEF z
      <3> QED
        BY <2>4, <3>1 DEF z
    <2> HIDE DEF x, z
    <2>7. /\ x \o z \in Seq(Nat) /\ Len(x \o z) = 1 + (L - k)
          /\ \A i \in 1 .. 1 : (x \o z)[i] = x[i]
          /\ \A i \in 1 .. L - k : (x \o z)[1 + i] = z[i]
      <3>1. /\ x \o z \in Seq(Nat) /\ Len(x \o z) = Len(x) + Len(z)
            /\ \A i \in 1 .. Len(x) : (x \o z)[i] = x[i]
            /\ \A i \in 1 .. Len(z) : (x \o z)[Len(x) + i] = z[i]
        <4>1. x \in Seq(Nat) /\ z \in Seq(Nat)
          BY <2>5, <2>6
        <4> QED
          BY <4>1, ConcatFacts
      <3> QED
        BY <3>1, <2>5, <2>6
    <2>8. ASSUME NEW i \in 1 .. L - k + 1
          PROVE  (x \o z)[i] = w[k + i - 1]
      <3>1. CASE i = 1
        <4>1. k + i - 1 = k
          BY <3>1, <2>1
        <4> QED
          BY <4>1, <3>1, <2>5, <2>7
      <3>2. CASE i # 1
        <4>1. PICK l \in 1 .. L - k : i = 1 + l
          <5>1. i - 1 \in 1 .. L - k /\ i = 1 + (i - 1)
            BY <3>2, <2>1, <1>2
          <5> QED
            BY <5>1
        <4>2. k + i - 1 = k + l
          BY <4>1, <2>1, <1>2
        <4> QED
          BY <4>1, <4>2, <2>6, <2>7
      <3> QED
        BY <3>1, <3>2
    <2>9. Len(x \o z) = L - k + 1
      BY <2>1, <2>7, <1>2
    <2>10. From(k, g[w[k]])
      BY <2>3, <2>7, <2>8, <2>9 DEF x, z
    <2> HIDE DEF From
    <2> QED
      BY <2>1, <2>10 DEF k
  <1>11. From(1, g[w[1]])
    <2>1. L - 1 \in Nat /\ L - 1 \in 0 .. L - 1 /\ L - (L - 1) = 1
      BY <1>2
    <2> HIDE DEF U
    <2>2. 0 .. L - 1 \subseteq U
      BY <2>1, <1>9, <1>10, InductionUpTo
    <2>3. L - 1 \in U
      BY <2>1, <2>2
    <2> HIDE DEF From
    <2> QED
      BY <2>1, <2>3 DEF U
  <1>12. g[w[1]] = w
    <2> DEFINE z == g[w[1]]
    <2> HIDE DEF z
    <2>1. z \in Seq(Nat) /\ Len(z) = L /\ \A i \in 1 .. L : z[i] = w[i]
      <3>1. L - 1 + 1 = L /\ \A i \in 1 .. L : 1 + i - 1 = i
        BY <1>2
      <3> QED
        BY <1>11, <3>1 DEF z
    <2>2. w \in Seq(Nat) /\ Len(w) = L
      BY <1>2 DEF L
    <2>3. z = w
      BY <2>1, <2>2
    <2> QED
      BY <2>3 DEF z
  <1> QED
    BY <1>3, <1>12 DEF w

-----------------------------------------------------------------------------
(* What an index finds.                                                    *)

\* The entries of an index, key after key.
Leaf(ix) == FoldLeft(LAMBDA s, k : s \o ix[k], <<>>, [k \in Keys |-> k])

\* The states of the fold that makes the leaf.
LeafPath(h, ix, V) ==
    /\ h[0] = <<>>
    /\ \A k \in 1 .. MaxKey : h[k] = h[k - 1] \o ix[k]
    /\ \A k \in 0 .. MaxKey : h[k] \in Seq(V)
    /\ Leaf(ix) = h[MaxKey]

LEMMA LeafSteps ==
    ASSUME NEW V, NEW ix, \A k \in Keys : ix[k] \in Seq(V)
    PROVE  \E h : LeafPath(h, ix, V)
  <1> DEFINE n == MaxKey
             c == [k \in Keys |-> k]
             A == Seq(V)
             Iter(f) == f = [s \in SUBSET (DOMAIN c) |->
                               IF s = {} THEN <<>> ELSE f[s \ {Max(s)}] \o ix[c[Max(s)]]]
             g == CHOOSE f : Iter(f)
             F == [x \in A \X (1 .. n) |-> x[1] \o ix[x[2]]]
             h == [k \in 0 .. n |-> g[1 .. k]]
  <1>1. n \in Nat /\ DOMAIN c = 1 .. n /\ \A k \in 1 .. n : c[k] = k /\ ix[k] \in A
    BY BoundsAreNaturals DEF Keys
  <1>2. Leaf(ix) = g[DOMAIN c]
    BY DEF Leaf, FoldLeft, MapThenFoldSet
  <1>3. \A k \in 1 .. n : \A z \in A : z \o ix[k] \in A
    BY <1>1
  <1>4. \A k \in 1 .. n : \A z \in A : F[<<z, k>>] = z \o ix[k]
    OBVIOUS
  <1>5. <<>> \in A
    OBVIOUS
  <1> HIDE DEF F, n, c, A
  <1>6. PICK f : FoldIn(f, n, A, <<>>, F)
    <2>1. \A k \in 1 .. n : \A z \in A : F[<<z, k>>] \in A
      BY <1>3, <1>4
    <2> QED
      BY <2>1, <1>1, <1>5, FoldGraph
  <1>7. Iter(f)
    <2>1. ASSUME NEW s \in SUBSET (1 .. n), s # {}
          PROVE  F[<<f[s \ {Max(s)}], Max(s)>>] = f[s \ {Max(s)}] \o ix[c[Max(s)]]
      <3>1. Max(s) \in 1 .. n
        BY <1>1, <2>1, MaxIn
      <3>2. f[s \ {Max(s)}] \in A
        BY <1>6 DEF FoldIn
      <3>3. c[Max(s)] = Max(s)
        BY <1>1, <3>1
      <3>4. F[<<f[s \ {Max(s)}], Max(s)>>] = f[s \ {Max(s)}] \o ix[Max(s)]
        BY <3>1, <3>2, <1>4
      <3> QED
        BY <3>3, <3>4
    <2> QED
      BY <1>6, <2>1, <1>1 DEF FoldIn
  <1>8. Iter(g)
    <2> HIDE DEF Iter
    <2> QED
      BY <1>7
  <1> HIDE DEF g
  <1>9. \A s \in SUBSET (1 .. n) :
           g[s] = IF s = {} THEN <<>> ELSE g[s \ {Max(s)}] \o ix[c[Max(s)]]
    BY <1>1, <1>8
  <1> HIDE DEF Iter
  <1>10. \A k \in 0 .. n : h[k] = g[1 .. k]
    OBVIOUS
  <1> HIDE DEF h
  <1>11. h[0] = <<>>
    <2>1. g[1 .. 0] = <<>>
      BY <1>1, <1>9, FoldPath
    <2>2. 0 \in 0 .. n
      BY <1>1
    <2> QED
      BY <2>1, <2>2, <1>10
  <1>12. ASSUME NEW k \in 1 .. n
         PROVE  h[k] = h[k - 1] \o ix[k]
    <2>1. k - 1 \in 0 .. n /\ k \in 0 .. n
      BY <1>1
    <2>2. /\ 1 .. k \in SUBSET (1 .. n) /\ 1 .. k # {} /\ Max(1 .. k) = k
          /\ (1 .. k) \ {k} = 1 .. (k - 1)
      BY <1>1, FoldPath
    <2>3. g[1 .. k] = g[1 .. (k - 1)] \o ix[c[k]]
      BY <2>2, <1>9
    <2> QED
      BY <2>1, <2>3, <1>1, <1>10
  <1> DEFINE T == {k \in 0 .. n : h[k] \in A}
  <1>13. 0 \in T
    BY <1>1, <1>5, <1>11
  <1>14. ASSUME NEW k \in 0 .. n, k \in T, k < n
         PROVE  k + 1 \in T
    <2>1. k + 1 \in 1 .. n /\ (k + 1) - 1 = k /\ k + 1 \in 0 .. n
      BY <1>1, <1>14
    <2>2. h[k + 1] = h[k] \o ix[k + 1] /\ h[k] \in A
      BY <2>1, <1>12, <1>14
    <2> QED
      BY <2>1, <2>2, <1>3
  <1> HIDE DEF T
  <1>15. 0 .. n \subseteq T
    BY <1>1, <1>13, <1>14, InductionUpTo
  <1>16. \A k \in 0 .. n : h[k] \in A
    BY <1>15 DEF T
  <1>17. Leaf(ix) = h[n]
    BY <1>1, <1>2, <1>10
  <1> QED
    BY <1>11, <1>12, <1>16, <1>17 DEF LeafPath, A, n

\* The leaf has the entries of the index.
LEMMA LeafFacts ==
    ASSUME NEW V, NEW ix, \A k \in Keys : ix[k] \in Seq(V)
    PROVE  Leaf(ix) \in Seq(V)
  <1>1. PICK h : LeafPath(h, ix, V)
    BY LeafSteps
  <1>2. MaxKey \in 0 .. MaxKey
    BY BoundsAreNaturals
  <1> QED
    BY <1>1, <1>2 DEF LeafPath

\* The search of a leaf, place by place.
Searches(g, leaf, key) ==
    \A x \in (1 .. Len(leaf) + 1) \X (0 .. Len(leaf)) :
       LET mid == (x[1] + x[2]) \div 2
       IN g[x] = IF x[2] - x[1] + 1 < 1 THEN <<>>
                 ELSE IF leaf[mid].row.key = key THEN <<leaf[mid]>>
                 ELSE IF leaf[mid].row.key < key THEN g[<<mid + 1, x[2]>>]
                 ELSE g[<<x[1], mid - 1>>]

\* The place in the middle is between the two, and the search goes on in a
\* smaller part.
LEMMA Middle ==
    ASSUME NEW L \in Nat, NEW l \in 1 .. L + 1, NEW r \in 0 .. L, l <= r,
           NEW m, m = (l + r) \div 2
    PROVE  /\ m \in l .. r /\ m \in 1 .. L /\ m + 1 \in 1 .. L + 1 /\ m - 1 \in 0 .. L
           /\ r - (m + 1) < r - l /\ (m - 1) - l < r - l
  <1>1. m \in Nat /\ l <= m /\ m <= r
    OBVIOUS
  <1>2. l \in Nat /\ r \in Nat /\ 1 <= l /\ r <= L
    OBVIOUS
  <1> QED
    BY <1>1, <1>2

\* The search answers.
LEMMA BisectSearch ==
    ASSUME NEW V, NEW ix, Leaf(ix) \in Seq(V), NEW key
    PROVE  \E g : Searches(g, Leaf(ix), key) /\ Bisect(ix, key, 1) = g[<<1, Len(Leaf(ix))>>]
  <1> DEFINE leaf == Leaf(ix)
             L == Len(leaf)
             P == (1 .. L + 1) \X (0 .. L)
             mid(x) == (x[1] + x[2]) \div 2
             Step(f, x) == IF x[2] - x[1] + 1 < 1 THEN <<>>
                           ELSE IF leaf[mid(x)].row.key = key THEN <<leaf[mid(x)]>>
                           ELSE IF leaf[mid(x)].row.key < key THEN f[<<mid(x) + 1, x[2]>>]
                           ELSE f[<<x[1], mid(x) - 1>>]
             Iter(f) == f = [x \in P |-> Step(f, x)]
             g == CHOOSE f : Iter(f)
  <1>1. L \in Nat
    <2> HIDE DEF leaf
    <2>1. leaf \in Seq(V)
      BY DEF leaf
    <2> QED
      BY <2>1
  <1>2. Bisect(ix, key, 1) = g[<<1, L>>]
    BY DEF Bisect, Leaf
  <1>3. ASSUME NEW x \in P, ~ (x[2] - x[1] + 1 < 1)
        PROVE  /\ <<mid(x) + 1, x[2]>> \in P /\ <<x[1], mid(x) - 1>> \in P
               /\ x[2] - (mid(x) + 1) < x[2] - x[1]
               /\ (mid(x) - 1) - x[1] < x[2] - x[1]
    <2>1. PICK l \in 1 .. L + 1, r \in 0 .. L : x = <<l, r>>
      OBVIOUS
    <2>2. l <= r /\ x[1] = l /\ x[2] = r
      BY <2>1, <1>1, <1>3
    <2> DEFINE m == (l + r) \div 2
    <2>3. mid(x) = m /\ m = (l + r) \div 2
      BY <2>2
    <2> HIDE DEF m, mid, L
    <2>4. m + 1 \in 1 .. L + 1 /\ m - 1 \in 0 .. L /\ r - (m + 1) < r - l /\ (m - 1) - l < r - l
      BY <1>1, <2>2, <2>3, Middle
    <2> QED
      BY <2>2, <2>3, <2>4
  <1> HIDE DEF leaf, L, mid
  <1>4. \E f : Iter(f)
    <2> DEFINE D(k) == {x \in P : x[2] - x[1] + 1 <= k}
               Partial(f, k) == f = [x \in D(k) |-> Step(f, x)]
               T == {k \in 0 .. L : \E f : Partial(f, k)}
    <2>1. ASSUME NEW x \in P
          PROVE  x[1] \in Int /\ x[2] \in Int /\ x[2] - x[1] + 1 <= L
      BY <1>1
    <2>2. 0 \in T
      <3> DEFINE f == [x \in D(0) |-> <<>>]
      <3>1. \A x \in D(0) : x[2] - x[1] + 1 < 1
        BY <2>1
      <3>2. Partial(f, 0)
        BY <3>1
      <3> HIDE DEF Partial
      <3> QED
        BY <1>1, <3>2
    <2>3. ASSUME NEW k \in 0 .. L, k \in T, k < L
          PROVE  k + 1 \in T
      <3>1. PICK f : Partial(f, k)
        BY <2>3
      <3> DEFINE h == [x \in D(k + 1) |-> Step(f, x)]
      <3>2. ASSUME NEW x \in D(k + 1), ~ (x[2] - x[1] + 1 < 1)
            PROVE  <<mid(x) + 1, x[2]>> \in D(k) /\ <<x[1], mid(x) - 1>> \in D(k)
        <4>1. /\ <<mid(x) + 1, x[2]>> \in P /\ <<x[1], mid(x) - 1>> \in P
              /\ x[2] - (mid(x) + 1) < x[2] - x[1]
              /\ (mid(x) - 1) - x[1] < x[2] - x[1]
          BY <1>3, <3>2
        <4>2. x[2] - x[1] + 1 <= k + 1 /\ x[1] \in Int /\ x[2] \in Int
          BY <2>1
        <4>3. mid(x) + 1 \in Int /\ mid(x) - 1 \in Int
          BY <4>1, <1>1
        <4>4. x[2] - (mid(x) + 1) + 1 <= k /\ (mid(x) - 1) - x[1] + 1 <= k
          <5> DEFINE a == mid(x) + 1
                     b == mid(x) - 1
                     lo == x[1]
                     hi == x[2]
          <5>1. a \in Int /\ b \in Int /\ lo \in Int /\ hi \in Int /\ k \in Int
                /\ hi - a < hi - lo /\ b - lo < hi - lo /\ hi - lo + 1 <= k + 1
            BY <4>1, <4>2, <4>3
          <5> HIDE DEF a, b, lo, hi, P, D, T, Step, Partial, h
          <5>2. hi - a + 1 <= k /\ b - lo + 1 <= k
            BY <5>1
          <5> QED
            BY <5>2 DEF a, b, lo, hi
        <4> QED
          BY <4>1, <4>4
      <3>3. \A x \in D(k) : x \in D(k + 1)
        BY <2>1
      <3> HIDE DEF D
      <3>4. \A x \in D(k) : h[x] = f[x]
        BY <3>1, <3>3
      <3>5. \A x \in D(k + 1) : Step(h, x) = Step(f, x)
        BY <3>2, <3>4
      <3>6. h = [x \in D(k + 1) |-> Step(h, x)]
        <4> DEFINE y == [x \in D(k + 1) |-> Step(h, x)]
        <4>1. \A x \in D(k + 1) : h[x] = Step(h, x)
          BY <3>5
        <4>2. h = [x \in D(k + 1) |-> h[x]]
          OBVIOUS
        <4> HIDE DEF Step, h
        <4> QED
          BY <4>1, <4>2
      <3>7. Partial(h, k + 1)
        BY <3>6
      <3> HIDE DEF Partial, h
      <3>8. k + 1 \in 0 .. L
        BY <2>3, <1>1
      <3> QED
        BY <3>7, <3>8
    <2>4. L \in T
      <3> HIDE DEF T
      <3>1. 0 .. L \subseteq T
        BY <1>1, <2>2, <2>3, InductionUpTo
      <3> QED
        BY <1>1, <3>1
    <2>5. PICK f : Partial(f, L)
      BY <2>4
    <2>6. D(L) = P
      BY <2>1
    <2> HIDE DEF D, Step, P
    <2>7. Iter(f)
      BY <2>5, <2>6
    <2> HIDE DEF Iter
    <2> QED
      BY <2>7
  <1>5. Iter(g)
    <2> HIDE DEF Iter
    <2> QED
      BY <1>4
  <1> HIDE DEF g
  <1>6. \A x \in P : g[x] = Step(g, x)
    <2> HIDE DEF P, Step
    <2> QED
      BY <1>5
  <1> HIDE DEF Iter
  <1>7. Searches(g, leaf, key)
    BY <1>6 DEF Searches, mid, L
  <1> QED
    BY <1>2, <1>7 DEF leaf, L

\* The binary search ends, with an entry or without.
LEMMA BisectFacts ==
    ASSUME NEW V, NEW ix, \A k \in Keys : ix[k] \in Seq(V), NEW key
    PROVE  Bisect(ix, key, 1) = <<>> \/ \E h \in V : Bisect(ix, key, 1) = <<h>>
  <1> DEFINE leaf == Leaf(ix)
             L == Len(leaf)
             W == {<<>>} \cup {<<h>> : h \in V}
  <1>1. leaf \in Seq(V)
    BY LeafFacts
  <1>2. PICK g : Searches(g, leaf, key) /\ Bisect(ix, key, 1) = g[<<1, L>>]
    BY <1>1, BisectSearch
  <1> DEFINE T == {k \in 0 .. L : \A l \in 1 .. L + 1, r \in 0 .. L :
                                     r - l + 1 <= k => g[<<l, r>>] \in W}
  <1> HIDE DEF leaf
  <1>3. L \in Nat /\ \A i \in 1 .. L : <<leaf[i]>> \in W
    BY <1>1
  <1>4. ASSUME NEW l \in 1 .. L + 1, NEW r \in 0 .. L, NEW m, m = (l + r) \div 2
        PROVE  g[<<l, r>>] = IF r - l + 1 < 1 THEN <<>>
                             ELSE IF leaf[m].row.key = key THEN <<leaf[m]>>
                             ELSE IF leaf[m].row.key < key THEN g[<<m + 1, r>>]
                             ELSE g[<<l, m - 1>>]
    <2>1. <<l, r>> \in (1 .. L + 1) \X (0 .. L) /\ <<l, r>>[1] = l /\ <<l, r>>[2] = r
      OBVIOUS
    <2> QED
      BY <1>2, <1>4, <2>1 DEF Searches
  <1>5. ASSUME NEW l \in 1 .. L + 1, NEW r \in 0 .. L, r < l
        PROVE  g[<<l, r>>] \in W
    <2>1. r - l + 1 < 1
      BY <1>3, <1>5
    <2> QED
      BY <1>4, <2>1
  <1> HIDE DEF W, L
  <1>6. 0 \in T
    <2>1. \A l \in 1 .. L + 1, r \in 0 .. L : r - l + 1 <= 0 => r < l
      BY <1>3
    <2> QED
      BY <1>3, <1>5, <2>1
  <1>7. ASSUME NEW k \in 0 .. L, k \in T, k < L
        PROVE  k + 1 \in T
    <2>1. ASSUME NEW l \in 1 .. L + 1, NEW r \in 0 .. L, r - l + 1 <= k + 1
          PROVE  g[<<l, r>>] \in W
      <3>1. CASE r < l
        BY <1>5, <3>1
      <3>2. CASE ~ r < l
        <4> DEFINE m == (l + r) \div 2
        <4>1. l <= r /\ ~ r - l + 1 < 1
          BY <1>3, <3>2
        <4>2. /\ m \in 1 .. L /\ m + 1 \in 1 .. L + 1 /\ m - 1 \in 0 .. L
              /\ r - (m + 1) < r - l /\ (m - 1) - l < r - l
          BY <1>3, <4>1, Middle
        <4>3. g[<<l, r>>] = <<leaf[m]>> \/ g[<<l, r>>] = g[<<m + 1, r>>]
              \/ g[<<l, r>>] = g[<<l, m - 1>>]
          <5>1. m = (l + r) \div 2
            OBVIOUS
          <5> HIDE DEF m, T
          <5>2. g[<<l, r>>] = IF r - l + 1 < 1 THEN <<>>
                              ELSE IF leaf[m].row.key = key THEN <<leaf[m]>>
                              ELSE IF leaf[m].row.key < key THEN g[<<m + 1, r>>]
                              ELSE g[<<l, m - 1>>]
            BY <1>4, <5>1
          <5> QED
            BY <4>1, <5>2
        <4> HIDE DEF m
        <4>4. r - (m + 1) + 1 <= k /\ (m - 1) - l + 1 <= k
          <5> HIDE DEF T
          <5> QED
            BY <1>3, <2>1, <4>2
        <4>5. \A a \in 1 .. L + 1, b \in 0 .. L : b - a + 1 <= k => g[<<a, b>>] \in W
          BY <1>7
        <4> HIDE DEF T
        <4>6. g[<<m + 1, r>>] \in W /\ g[<<l, m - 1>>] \in W
          BY <4>2, <4>4, <4>5
        <4> QED
          BY <1>3, <4>2, <4>3, <4>6
      <3> QED
        BY <3>1, <3>2
    <2>2. k + 1 \in 0 .. L
      BY <1>3, <1>7
    <2> QED
      BY <2>1, <2>2
  <1>8. L \in T
    <2> HIDE DEF T
    <2>1. 0 .. L \subseteq T
      BY <1>3, <1>6, <1>7, InductionUpTo
    <2> QED
      BY <1>3, <2>1
  <1>9. 1 \in 1 .. L + 1 /\ L \in 0 .. L /\ L - 1 + 1 <= L
    BY <1>3
  <1>10. g[<<1, L>>] \in W
    BY <1>8, <1>9
  <1> QED
    BY <1>2, <1>10 DEF W

\* An index leads to one of the pages P, if it finds anything.
Leads(h, P) == h \in Hint /\ h.page \in P

\* Such a page is in the spine, or a scan of it finds nothing.
LEMMA ReachFacts ==
    ASSUME NEW d, NEW s, Good(d, s), NEW t \in Names, NEW p \in Reach(d, s, t)
    PROVE  /\ p \in 1 .. Len(d.pages) /\ p \in Nat
           /\ \/ \E k \in 1 .. Len(s[t]) : p = s[t][k]
              \/ d.pages[p].count = 0 /\ \A k \in 1 .. Len(s[t]) : p # s[t][k]
  <1>1. Len(d.pages) \in Nat
    BY DbFields DEF Good
  <1> QED
    BY <1>1, EmptyPageFacts DEF Reach, Stray

\* A lookup returns nothing, or one entry that leads there.
LEMMA FoundFacts ==
    ASSUME NEW d, NEW s, Good(d, s), NEW t \in Names, NEW where
    PROVE  Found(d, t, where) = <<>>
           \/ \E h : Found(d, t, where) = <<h>> /\ Leads(h, Reach(d, s, t))
  <1> DEFINE ix == d.index[t]
             P == Reach(d, s, t)
             V == {h \in Hint : Leads(h, P)}
  <1>1. CASE where.on # "key" \/ ix = None
    BY <1>1 DEF Found
  <1>2. CASE ~ (where.on # "key" \/ ix = None)
    <2>1. d.index \in [Names -> IndexType \cup {None}]
      BY DbFields DEF Good
    <2>2. ix \in IndexType
      BY <2>1, <1>2
    <2>3. HintsInto(ix, t, P)
      BY <1>2 DEF Good, Hints
    <2>4. Found(d, t, where) = Bisect(ix, where.is, 1)
      BY <1>2 DEF Found, Lookup
    <2> HIDE DEF ix, P
    <2>5. ASSUME NEW k \in Keys
          PROVE  ix[k] \in Seq(V)
      <3> DEFINE c == ix[k]
      <3>1. c \in Seq(Hint)
        BY <2>2 DEF IndexType
      <3>2. \A i \in 1 .. Len(c) : c[i].page \in P
        BY <2>3 DEF HintsInto
      <3> HIDE DEF c
      <3>3. \A i \in 1 .. Len(c) : c[i] \in V
        BY <3>1, <3>2 DEF Leads
      <3> HIDE DEF V
      <3>4. c \in Seq(V)
        BY <3>1, <3>3
      <3> QED
        BY <3>4 DEF c
    <2> HIDE DEF V
    <2>6. Bisect(ix, where.is, 1) = <<>> \/ \E h \in V : Bisect(ix, where.is, 1) = <<h>>
      BY <2>5, BisectFacts
    <2> QED
      BY <2>4, <2>6 DEF V, P
  <1> QED
    BY <1>1, <1>2

-----------------------------------------------------------------------------
(* DELETE.                                                                 *)

\* DELETE keeps the layout and every spine.
LEMMA DeletedGood ==
    ASSUME NEW d, NEW s, Good(d, s), NEW t, Exists(d, t), NEW where
    PROVE  /\ Good(Deleted(d, t, where), s) /\ Grows(d, s, Deleted(d, t, where), s, t)
           /\ NoneStays(d, Deleted(d, t, where), t)
  <1> DEFINE sp == s[t]
             chain == Chain(d, t)
             hint == Found(d, t, where)
             P == Len(d.pages)
             OK(p) == p \in 1 .. P /\ \/ \E k \in 1 .. Len(sp) : p = sp[k]
                                      \/ d.pages[p].count = 0
  <1>1. t \in Names /\ sp # <<>>
    BY EntryFacts
  <1>2. ASSUME NEW p \in ToSet(chain)
        PROVE  OK(p)
    <2> DEFINE w == Whole(d.pages, sp)
    <2>1. w \in Seq(Nat) /\ Len(sp) \in Nat \ {0}
      BY <1>1, WholeFacts
    <2>2. PICK k \in 1 .. Len(w) : p = w[k]
      <3>1. chain = w
        BY ChainIs
      <3> HIDE DEF chain, w
      <3> QED
        BY <2>1, <3>1, <1>2 DEF ToSet
    <2>3. \A i \in 1 .. Len(sp) : w[i] = sp[i]
      BY <1>1, WholeFacts
    <2>4. w[k] \in 1 .. P /\ (k <= Len(sp) \/ d.pages[w[k]].count = 0)
      BY <1>1, WholeFacts
    <2> HIDE DEF w
    <2> QED
      BY <2>1, <2>2, <2>3, <2>4
  <1>3. ASSUME hint # <<>>
        PROVE  OK(hint[1].page)
    <2>1. PICK h : hint = <<h>> /\ Leads(h, Reach(d, s, t))
      BY <1>1, <1>3, FoundFacts
    <2>2. h.page \in Reach(d, s, t)
      BY <2>1 DEF Leads
    <2>3. OK(h.page)
      BY <1>1, <2>2, ReachFacts
    <2>4. hint[1] = h
      BY <2>1
    <2> HIDE DEF hint, OK
    <2> QED
      BY <2>3, <2>4
  <1>4. \/ Deleted(d, t, where) = DeletedIn(d, t, where, {hint[1].page}) /\ hint # <<>>
        \/ Deleted(d, t, where) = DeletedIn(d, t, where, ToSet(chain))
    BY DEF Deleted
  <1> HIDE DEF hint, chain
  <1>5. \A p \in {hint[1].page} : hint # <<>> => OK(p)
    BY <1>3
  <1>6. hint # <<>> => /\ Good(DeletedIn(d, t, where, {hint[1].page}), s)
                       /\ Grows(d, s, DeletedIn(d, t, where, {hint[1].page}), s, t)
    BY <1>1, <1>5, DeletedInGood
  <1>7. /\ Good(DeletedIn(d, t, where, ToSet(chain)), s)
        /\ Grows(d, s, DeletedIn(d, t, where, ToSet(chain)), s, t)
    BY <1>1, <1>2, DeletedInGood
  <1>8. ASSUME NEW visited, \A p \in visited : OK(p)
        PROVE  NoneStays(d, DeletedIn(d, t, where, visited), t)
    <2> DEFINE m == Modified(d, where, visited)
    <2>1. ClearedIn(d, t, where, m, m, DeletedIn(d, t, where, visited))
      BY <1>1, <1>8, DeletedInGood
    <2> HIDE DEF m
    <2> QED
      BY <2>1 DEF ClearedIn, Fitting, NoneStays
  <1> QED
    BY <1>2, <1>4, <1>5, <1>6, <1>7, <1>8

-----------------------------------------------------------------------------
(* UPDATE.                                                                 *)

\* SET makes a row of a row.
LEMMA ChangedIs ==
    ASSUME NEW old \in Rows, NEW set \in Sets
    PROVE  Changed(old, set) \in Rows
  <1> DEFINE new == Changed(old, set)
             k == IF "key" \in DOMAIN set THEN set["key"] ELSE old.key
             v == IF "val" \in DOMAIN set THEN set["val"] ELSE old.val
  <1>1. DOMAIN old = {"key", "val"} /\ old["key"] = old.key /\ old["val"] = old.val
        /\ old.key \in Keys /\ old.val \in Vals
    BY DEF Rows
  <1>2. k \in Keys /\ v \in Vals
    BY <1>1 DEF Sets
  <1>3. new = [c \in {"key", "val"} |-> IF c = "key" THEN k ELSE v]
    BY <1>1 DEF Changed
  <1> HIDE DEF new, k, v
  <1>4. new = [key |-> k, val |-> v]
    BY <1>3
  <1>5. new \in Rows
    BY <1>2, <1>4 DEF Rows
  <1> QED
    BY <1>5 DEF new

\* index.delete for one entry
LEMMA WithoutIs ==
    ASSUME NEW d, NEW s, Good(d, s), NEW t \in Names, NEW key \in Keys,
           NEW e, e = WithoutEntries(d, t, key, 1)
    PROVE  /\ Good(e, s) /\ Grows(d, s, e, s, t)
           /\ e.pages = d.pages
  <1>1. CASE d.index[t] = None
    <2>1. e = d
      BY <1>1 DEF WithoutEntries
    <2> QED
      BY <2>1, GrowsNot
  <1>2. CASE d.index[t] # None
    <2> DEFINE old == d.index[t]
               n == [k \in Keys |-> IF k = key THEN 1 ELSE 0]
               ix == [k \in Keys |-> SubSeq(old[k], n[k] + 1, Len(old[k]))]
    <2>1. d \in DbType /\ d.index \in [Names -> IndexType \cup {None}]
      BY DbFields DEF Good
    <2>2. old \in IndexType /\ HintsInto(old, t, Reach(d, s, t))
      BY <1>2, <2>1 DEF Good, Hints
    <2>3. \A k \in Keys : n[k] \in Nat
      OBVIOUS
    <2>4. ix \in IndexType /\ HintsInto(ix, t, Reach(d, s, t))
      <3> HIDE DEF old, n
      <3> QED
        BY <2>2, <2>3, ShortenedHints
    <2>5. ix = [old EXCEPT ![key] = SubSeq(@, 2, Len(@))]
      <3> HIDE DEF old
      <3>1. old \in [Keys -> Seq(Hint)]
        BY <2>2 DEF IndexType
      <3>2. \A k \in Keys : SubSeq(old[k], 1, Len(old[k])) = old[k]
        BY <3>1
      <3>3. \A k \in Keys : ix[k] = IF k = key THEN SubSeq(old[k], 2, Len(old[k])) ELSE old[k]
        <4> SUFFICES ASSUME NEW k \in Keys
                     PROVE  ix[k] = IF k = key THEN SubSeq(old[k], 2, Len(old[k])) ELSE old[k]
          OBVIOUS
        <4>1. n[k] + 1 = IF k = key THEN 2 ELSE 1
          OBVIOUS
        <4>2. ix[k] = SubSeq(old[k], n[k] + 1, Len(old[k]))
          OBVIOUS
        <4> HIDE DEF n, ix
        <4> QED
          BY <4>1, <4>2, <3>2
      <3> HIDE DEF ix
      <3>4. ix = [k \in Keys |-> ix[k]]
        BY DEF ix
      <3> QED
        BY <3>1, <3>3, <3>4
    <2>6. e = WithIndex(d, t, ix)
      <3>1. e = [d EXCEPT !.index[t] = [old EXCEPT ![key] = SubSeq(@, 2, Len(@))]]
        <4>1. e = [d EXCEPT !.index[t][key] = SubSeq(@, 2, Len(@))]
          BY <1>2 DEF WithoutEntries
        <4> QED
          BY <4>1, <2>1
      <3> HIDE DEF ix, old
      <3> QED
        BY <3>1, <2>5 DEF WithIndex
    <2>7. Hints(ix, t, Reach(d, s, t)) /\ ix \in IndexType \cup {None}
      BY <2>4 DEF Hints
    <2> HIDE DEF ix
    <2>8. Reworked(d, s, e, t) /\ e.pages = d.pages
      BY <2>1, <2>6, <2>7, WithIndexGood, WithIndexIs
    <2> QED
      BY <2>8, ReworkedGood
  <1> QED
    BY <1>1, <1>2

\* updateIndexes for a row that changes keeps the layout.
LEMMA UpdateIndexesGood ==
    ASSUME NEW d, NEW s, Good(d, s), NEW t \in Tables, NEW new \in Rows, NEW old \in Rows,
           NEW p \in Nat, \E n \in 1 .. Len(s[t]) : p = s[t][n],
           NEW e, e = UpdateIndexes(d, t, new, old, p)
    PROVE  /\ Good(e, s) /\ Grows(d, s, e, s, t)
           /\ e.pages = d.pages
  <1>1. t \in Names /\ old.key \in Keys /\ new \in Cell(t) \ {Gap}
    <2>1. t \in Names /\ old.key \in Keys
      BY DEF Names, Rows
    <2>2. new \in Cell(t) /\ new # Gap
      BY NeedFacts DEF Cell
    <2> QED
      BY <2>1, <2>2
  <1>2. CASE new.key = old.key
    <2>1. e = d
      BY <1>2 DEF UpdateIndexes
    <2> QED
      BY <1>1, <2>1, GrowsNot
  <1>3. CASE new.key # old.key
    <2> DEFINE f == WithoutEntries(d, t, old.key, 1)
    <2>1. e = WithEntry(f, t, new, p)
      BY <1>3 DEF UpdateIndexes
    <2>2. Good(f, s) /\ Grows(d, s, f, s, t) /\ f.pages = d.pages
      BY <1>1, WithoutIs
    <2> HIDE DEF f
    <2>3. p \in Reach(f, s, t)
      BY <1>1, <2>2, SpineFacts DEF Reach
    <2>4. Reworked(f, s, e, t) /\ e.pages = f.pages
      BY <1>1, <2>1, <2>2, <2>3, WithEntryIs
    <2>5. Good(e, s) /\ Grows(f, s, e, s, t)
      BY <1>1, <2>2, <2>4, ReworkedGood
    <2>6. Grows(d, s, e, s, t)
      BY <1>1, <2>2, <2>5, GrowsMore
    <2> QED
      BY <2>2, <2>4, <2>5, <2>6
  <1> QED
    BY <1>2, <1>3

\* A sequence around one of its elements.
LEMMA SpliceFacts ==
    ASSUME NEW T, NEW c \in Seq(T), NEW i \in 1 .. Len(c)
    PROVE  c = SubSeq(c, 1, i - 1) \o <<c[i]>> \o SubSeq(c, i + 1, Len(c))
  <1> DEFINE b == SubSeq(c, 1, i)
             a == SubSeq(c, i + 1, Len(c))
  <1>1. i \in 0 .. Len(c)
    OBVIOUS
  <1>2. c = b \o a
    BY <1>1, SplitFacts
  <1>3. b = SubSeq(c, 1, i - 1) \o <<c[i]>>
    OBVIOUS
  <1> HIDE DEF b
  <1> QED
    BY <1>2, <1>3 DEF a

\* A row of the same or less width in the place of another.
LEMMA InPlaceIs ==
    ASSUME NEW page \in PageType, PageOK(page), NEW t \in Tables, page.cells \in Seq(Cell(t)),
           NEW i \in 1 .. Len(page.cells), NEW old, old = page.cells[i], Readable(old),
           NEW row \in Rows, Need(row) <= Need(old), NEW new, new = InPlace(page, i, old, row)
    PROVE  /\ new \in PageType /\ PageOK(new) /\ new.next = page.next
           /\ new.cells \in Seq(Cell(t))
           /\ Len(new.cells) = Len(page.cells) + Need(old) - Need(row)
           /\ Need(old) - Need(row) \in Nat
  <1> DEFINE c == page.cells
             b == SubSeq(c, 1, i - 1)
             a == SubSeq(c, i + 1, Len(c))
             k == Need(old) - Need(row)
             g == [n \in 1 .. k |-> Gap]
             z == b \o <<row>> \o g \o a
             C == Cell(t)
  <1>1. C \subseteq AnyCell /\ row \in C /\ Gap \in C
    BY CellFacts DEF Cell
  <1>2. c \in Seq(C) /\ c \in Seq(AnyCell) /\ Len(c) \in Nat /\ i \in Nat /\ i <= Len(c) /\ i >= 1
    BY PageIs
  <1>3. old \in C /\ old \in AnyCell /\ row \in AnyCell
    BY <1>1, <1>2
  <1>4. Need(old) \in Nat /\ Need(row) \in Nat /\ k \in Nat
    BY <1>3, NeedFacts
  <1>5. g \in Seq({Gap}) /\ Len(g) = k /\ Used(g) = k
    BY <1>4, UsedGaps
  <1>6. g \in Seq(C) /\ g \in Seq(AnyCell)
    BY <1>1, <1>5
  <1> HIDE DEF k, g, C
  <1>7. /\ b \in Seq(C) /\ Len(b) = i - 1 /\ a \in Seq(C) /\ Len(a) = Len(c) - i
        /\ b \in Seq(AnyCell) /\ a \in Seq(AnyCell)
    <2>1. i - 1 \in 0 .. Len(c) /\ i \in 0 .. Len(c) /\ i + 1 \in Nat \ {0}
          /\ 1 \in Nat \ {0} /\ Len(c) \in 0 .. Len(c)
      BY <1>2
    <2>2. b \in Seq(C) /\ Len(b) = IF 1 <= i - 1 THEN (i - 1) - 1 + 1 ELSE 0
      BY <1>2, <2>1, SubSeqFacts
    <2>3. a \in Seq(C) /\ Len(a) = IF i + 1 <= Len(c) THEN Len(c) - (i + 1) + 1 ELSE 0
      BY <1>2, <2>1, SubSeqFacts
    <2> HIDE DEF b, a
    <2> QED
      BY <1>1, <1>2, <2>2, <2>3
  <1>8. c = b \o <<old>> \o a
    BY <1>2, SpliceFacts
  <1> HIDE DEF b, a
  <1> DEFINE bo == b \o <<old>>
             br == b \o <<row>>
             bg == br \o g
  <1>9. /\ bo \in Seq(AnyCell) /\ Used(bo) = Used(b) + Need(old) /\ Used(b) \in Nat
        /\ br \in Seq(AnyCell) /\ Used(br) = Used(b) + Need(row)
        /\ br \in Seq(C) /\ Len(br) = Len(b) + 1
    <2>1. <<old>> \in Seq(AnyCell) /\ <<row>> \in Seq(AnyCell) /\ <<row>> \in Seq(C)
          /\ Len(<<row>>) = 1
      BY <1>1, <1>3
    <2>2. Used(<<old>>) = Need(old) /\ Used(<<row>>) = Need(row)
      BY <1>3, UsedOne
    <2>3. Used(bo) = Used(b) + Used(<<old>>) /\ Used(b) \in Nat
      BY <1>7, <2>1, UsedConcat
    <2>4. Used(br) = Used(b) + Used(<<row>>)
      BY <1>7, <2>1, UsedConcat
    <2>5. bo \in Seq(AnyCell) /\ br \in Seq(AnyCell) /\ br \in Seq(C)
      BY <1>7, <2>1, ConcatFacts
    <2>6. Len(br) = Len(b) + Len(<<row>>)
      BY <1>7, <2>1, ConcatFacts
    <2> QED
      BY <2>1, <2>2, <2>3, <2>4, <2>5, <2>6
  <1> HIDE DEF bo, br
  <1>10. /\ bg \in Seq(AnyCell) /\ bg \in Seq(C) /\ Used(bg) = Used(b) + Need(row) + k
         /\ Len(bg) = i + k
    <2>1. bg \in Seq(AnyCell) /\ bg \in Seq(C)
      BY <1>6, <1>9, ConcatFacts
    <2>2. Used(bg) = Used(br) + Used(g)
      BY <1>6, <1>9, UsedConcat
    <2>3. Len(bg) = Len(br) + Len(g)
      BY <1>6, <1>9, ConcatFacts
    <2> QED
      BY <2>1, <2>2, <2>3, <1>2, <1>4, <1>5, <1>7, <1>9
  <1> HIDE DEF bg
  <1>11. Used(c) = Used(b) + Need(old) + Used(a) /\ Used(a) \in Nat
    <2>1. Used(bo \o a) = Used(bo) + Used(a) /\ Used(a) \in Nat
      BY <1>7, <1>9, UsedConcat
    <2> QED
      BY <2>1, <1>8, <1>9 DEF bo
  <1>12. /\ z \in Seq(AnyCell) /\ z \in Seq(C) /\ Used(z) = Used(c)
         /\ Len(z) = Len(c) + k
    <2>1. z = bg \o a
      BY DEF bg, br
    <2>2. bg \o a \in Seq(AnyCell) /\ bg \o a \in Seq(C)
      BY <1>7, <1>10, ConcatFacts
    <2>3. Used(bg \o a) = Used(bg) + Used(a)
      BY <1>7, <1>10, UsedConcat
    <2>4. Len(bg \o a) = Len(bg) + Len(a)
      BY <1>7, <1>10, ConcatFacts
    <2>5. Need(row) + k = Need(old)
      BY <1>4 DEF k
    <2> HIDE DEF z
    <2>6. Used(z) = Used(b) + Need(row) + k + Used(a)
      BY <2>1, <2>3, <1>10
    <2>7. Used(z) = Used(c)
      BY <2>5, <2>6, <1>4, <1>9, <1>11
    <2>8. Len(z) = (i + k) + (Len(c) - i)
      BY <2>1, <2>4, <1>7, <1>10
    <2>9. Len(z) = Len(c) + k
      <3> DEFINE m == Len(c)
      <3>1. m \in Nat /\ i \in Nat /\ k \in Nat /\ Len(z) = (i + k) + (m - i)
        BY <2>8, <1>2, <1>4
      <3> HIDE DEF m
      <3>2. Len(z) = m + k
        BY <3>1
      <3> QED
        BY <3>2 DEF m
    <2> QED
      BY <2>1, <2>2, <2>7, <2>9
  <1>13. new = [page EXCEPT !.cells = z]
    BY DEF InPlace, b, a, g, k
  <1> HIDE DEF z
  <1>14. /\ new \in PageType /\ new.next = page.next /\ new.count = page.count
         /\ new.free = page.free /\ new.cells = z
    BY <1>12, <1>13, PageIs DEF PageType
  <1>15. page.free <= PageSize
    <2>1. page.free = Used(c) /\ (page.free <= PageSize \/ Len(c) = 1)
      BY DEF PageOK
    <2>2. CASE Len(c) = 1
      <3>1. i = 1 /\ b = <<>> /\ a = <<>>
        <4>1. i = 1 /\ Len(b) = 0 /\ Len(a) = 0
          BY <2>2, <1>2, <1>7
        <4> QED
          BY <4>1, <1>7
      <3>2. Used(c) = Need(old)
        BY <3>1, <1>11, <1>4, UsedEmpty
      <3>3. Need(old) <= PageSize
        BY DEF Readable
      <3> QED
        BY <2>1, <3>2, <3>3
    <2> QED
      BY <2>1, <2>2
  <1>16. PageOK(new)
    <2>1. page.free = Used(c) /\ page.count <= Len(c) /\ page.count \in Nat
      BY PageIs DEF PageOK
    <2>2. new.count <= Len(new.cells)
      BY <2>1, <1>14, <1>12, <1>4, <1>2
    <2> QED
      BY <2>1, <2>2, <1>12, <1>14, <1>15 DEF PageOK
  <1> QED
    BY <1>12, <1>14, <1>16, <1>4 DEF k, C

\* The state of update's loop.
Walk(d, p, at, broke) == [db |-> d, page |-> p, at |-> at, broke |-> broke]

No == FALSE

\* The loop has not ended.
LEMMA NotNo == ~ No /\ No \in BOOLEAN
  BY DEF No

\* The fields of a loop state.
LEMMA WalkFields ==
    ASSUME NEW s, NEW d, NEW p, NEW at, NEW broke, s = Walk(d, p, at, broke)
    PROVE  s.db = d /\ s.page = p /\ s.at = at /\ s.broke = broke
  BY DEF Walk

\* The loop goes on to a place.
LEMMA WalkOn ==
    ASSUME NEW s, NEW d, NEW p, NEW at, NEW broke, s = Walk(d, p, at, broke), NEW n
    PROVE  [s EXCEPT !.at = n] = Walk(d, p, n, broke)
  BY DEF Walk

Over(s, e, n) == [s EXCEPT !.db = e, !.at = n]

\* It goes on with another database.
LEMMA WalkOver ==
    ASSUME NEW s, NEW d, NEW p, NEW at, NEW broke, s = Walk(d, p, at, broke), NEW e, NEW n
    PROVE  Over(s, e, n) = Walk(e, p, n, broke)
  <1> DEFINE x == [s EXCEPT !.db = e]
  <1>1. x = Walk(e, p, at, broke)
    BY DEF Walk
  <1>2. Over(s, e, n) = [x EXCEPT !.at = n]
    BY DEF Over
  <1> HIDE DEF x
  <1>3. [x EXCEPT !.at = n] = Walk(e, p, n, broke)
    BY <1>1 DEF Walk
  <1> QED
    BY <1>2, <1>3

Away(s, e, n, b) == [s EXCEPT !.db = e, !.at = n, !.broke = b]

\* It may also end.
LEMMA WalkAway ==
    ASSUME NEW s, NEW d, NEW p, NEW at, NEW broke, s = Walk(d, p, at, broke),
           NEW e, NEW n, NEW b
    PROVE  Away(s, e, n, b) = Walk(e, p, n, b)
  <1> DEFINE x == Over(s, e, n)
  <1>1. x = Walk(e, p, n, broke)
    BY WalkOver
  <1>2. Away(s, e, n, b) = [x EXCEPT !.broke = b]
    BY DEF Away, Over
  <1> HIDE DEF x
  <1>3. [x EXCEPT !.broke = b] = Walk(e, p, n, b)
    BY <1>1 DEF Walk
  <1> QED
    BY <1>2, <1>3

\* The ends of a turn of update's loop: the cell is passed over, written over where it lies,
\* or deleted and inserted anew.
TurnEnds(d, p, at, t, where, old, new, e, f, y) ==
    \/ /\ ~ Matches(old, where)
       /\ y = Walk(d, p, at + 1, No)
    \/ /\ Matches(old, where) /\ Need(new) <= Need(old)
       /\ y = Walk(WithPage(e, p, InPlace(e.pages[p], at, old, new)), p,
                   at + 1 + Need(old) - Need(new), No)
    \/ /\ Matches(old, where) /\ ~ Need(new) <= Need(old)
       /\ \E broke \in BOOLEAN :
             /\ ~ broke => Throws(t, new)
             /\ ~ broke => f.pages[p] = d.pages[p]
             /\ y = Walk(Inserted(f, t, new), p, at + 1, broke)

\* The cases of one turn of the loop.
LEMMA VisitedIs ==
    ASSUME NEW d, NEW p, NEW at \in Nat, NEW t, NEW set, NEW where,
           NEW s, s = Walk(d, p, at, No)
    PROVE  LET y == Visited(s, t, set, where)
               old == d.pages[p].cells[at]
               new == Changed(old, set)
               e == UpdateIndexes(d, t, new, old, p)
               f == Deleted(e, t, where)
           IN TurnEnds(d, p, at, t, where, old, new, e, f, y)
  <1> DEFINE y == Visited(s, t, set, where)
             old == s.db.pages[s.page].cells[s.at]
             new == Changed(old, set)
             e == UpdateIndexes(s.db, t, new, old, s.page)
             f == Deleted(e, t, where)
             wide == ~ Throws(t, new) \/ f.pages[s.page] # s.db.pages[s.page]
             k == s.at + 1 + Need(old) - Need(new)
             in == [e EXCEPT !.pages[s.page] = InPlace(@, s.at, old, new)]
             out == Inserted(f, t, new)
  <1>1. s.db = d /\ s.page = p /\ s.at = at /\ ~ s.broke
    BY WalkFields, NotNo
  <1>2. y = IF s.broke THEN s
            ELSE IF ~ Matches(old, where) THEN [s EXCEPT !.at = s.at + 1]
            ELSE IF Need(new) <= Need(old) THEN Over(s, in, k)
            ELSE Away(s, out, s.at + 1, wide)
    BY DEF Visited, Over, Away
  <1>3. in = WithPage(e, p, InPlace(e.pages[p], at, old, new))
    <2> HIDE DEF e, old, new
    <2> QED
      BY <1>1 DEF WithPage
  <1>4. /\ wide \in BOOLEAN
        /\ ~ wide => Throws(t, new)
        /\ ~ wide => f.pages[p] = d.pages[p]
    <2>1. wide \in BOOLEAN
      BY Zenon DEF wide
    <2>2. ~ wide => Throws(t, new)
      BY Zenon DEF wide
    <2>3. ~ wide => f.pages[s.page] = s.db.pages[s.page]
      BY Zenon DEF wide
    <2> HIDE DEF wide, f, new
    <2>4. ~ wide => f.pages[p] = d.pages[p]
      BY <2>3, <1>1
    <2> QED
      BY <2>1, <2>2, <2>4
  <1> HIDE DEF in, out, wide
  <1>5. [s EXCEPT !.at = s.at + 1] = Walk(d, p, s.at + 1, No)
    BY WalkOn
  <1>6. Over(s, in, k) = Walk(in, p, k, No)
    <2> HIDE DEF k
    <2> QED
      BY WalkOver
  <1>7. Away(s, out, s.at + 1, wide) = Walk(out, p, s.at + 1, wide)
    BY WalkAway
  <1> HIDE DEF y, k, f, e, new, old
  <1>8. \/ ~ Matches(old, where) /\ y = Walk(d, p, s.at + 1, No)
        \/ Matches(old, where) /\ Need(new) <= Need(old) /\ y = Walk(in, p, k, No)
        \/ /\ Matches(old, where) /\ ~ Need(new) <= Need(old)
           /\ y = Walk(out, p, s.at + 1, wide)
    BY <1>1, <1>2, <1>5, <1>6, <1>7
  <1>9. old = d.pages[p].cells[at]
    BY <1>1 DEF old
  <1>10. e = UpdateIndexes(d, t, new, old, p)
    BY <1>1 DEF e
  <1>11. k = at + 1 + Need(old) - Need(new) /\ s.at + 1 = at + 1
    BY <1>1 DEF k
  <1>12. \/ /\ ~ Matches(old, where)
            /\ y = Walk(d, p, at + 1, No)
         \/ /\ Matches(old, where) /\ Need(new) <= Need(old)
            /\ y = Walk(WithPage(e, p, InPlace(e.pages[p], at, old, new)), p,
                        at + 1 + Need(old) - Need(new), No)
         \/ /\ Matches(old, where) /\ ~ Need(new) <= Need(old)
            /\ \E broke \in BOOLEAN :
                  /\ ~ broke => Throws(t, new)
                  /\ ~ broke => f.pages[p] = d.pages[p]
                  /\ y = Walk(out, p, at + 1, broke)
    BY <1>3, <1>4, <1>8, <1>11
  <1>13. TurnEnds(d, p, at, t, where, old, new, e, f, y)
    BY <1>12 DEF TurnEnds, out
  <1> QED
    BY <1>9, <1>10, <1>13 DEF y, new, f

\* What a statement does after another.
LEMMA ReachedMore ==
    ASSUME NEW d, NEW s, Good(d, s), NEW t \in Names, NEW e, NEW u, Good(e, u),
           Grows(d, s, e, u, t), NoneStays(d, e, t), NEW f, Reached(e, u, f, t)
    PROVE  Reached(d, s, f, t)
  <1>1. PICK v : Good(f, v) /\ Grows(e, u, f, v, t) /\ NoneStays(e, f, t)
    BY DEF Reached
  <1>2. Grows(d, s, f, v, t)
    BY <1>1, GrowsMore
  <1> QED
    BY <1>1, <1>2 DEF Reached, NoneStays

\* A table that is there stays there, with its pages.
LEMMA GrowsFacts ==
    ASSUME NEW d, NEW s, Good(d, s), NEW t \in Names, NEW e, NEW u, Good(e, u),
           Grows(d, s, e, u, t)
    PROVE  /\ Exists(d, t) => Exists(e, t)
           /\ \A p : (\E k \in 1 .. Len(s[t]) : p = s[t][k])
                     => \E k \in 1 .. Len(u[t]) : p = u[t][k]
           /\ Len(d.pages) <= Len(e.pages)
           /\ \A p \in 1 .. Len(d.pages) :
                 (\A k \in 1 .. Len(s[t]) : p # s[t][k]) => e.pages[p] = d.pages[p]
  <1>1. Len(s[t]) \in Nat /\ Len(u[t]) \in Nat /\ s[t] \in Seq(Nat) /\ u[t] \in Seq(Nat)
    BY SpineFacts
  <1>2. Len(s[t]) <= Len(u[t]) /\ \A k \in 1 .. Len(s[t]) : u[t][k] = s[t][k]
    BY DEF Grows
  <1>3. s[t] # <<>> => u[t] # <<>>
    BY <1>1, <1>2
  <1>4. \A k \in 1 .. Len(s[t]) : k \in 1 .. Len(u[t])
    BY <1>1, <1>2
  <1>5. Exists(d, t) => Exists(e, t)
    BY <1>3, ExistsFacts
  <1> QED
    BY <1>2, <1>4, <1>5 DEF Grows

\* What one record of update's loop does.
Walked(d, s, t, p, at, y, e, n, broke) ==
    /\ y = Walk(e, p, n, broke) /\ broke \in BOOLEAN
    /\ Reached(d, s, e, t)
    /\ n \in Nat /\ n >= 1
    /\ ~ broke => /\ e.pages[p].cells \in Seq(AnyCell)
                  /\ n - Len(e.pages[p].cells) <= at + 1 - Len(d.pages[p].cells)

\* A turn ends in one of them, with the values it computes.
LEMMA VisitedAs ==
    ASSUME NEW d, NEW p, NEW at \in Nat, NEW t, NEW set, NEW where,
           NEW s, s = Walk(d, p, at, No), NEW y, y = Visited(s, t, set, where),
           NEW old, old = d.pages[p].cells[at], NEW new, new = Changed(old, set),
           NEW e, e = UpdateIndexes(d, t, new, old, p), NEW f, f = Deleted(e, t, where)
    PROVE  TurnEnds(d, p, at, t, where, old, new, e, f, y)
  BY VisitedIs

\* A turn of the loop grows its table only, and stays among the cells.
LEMMA VisitedGood ==
    ASSUME NEW d, NEW s, Good(d, s), NEW t \in Tables, Exists(d, t),
           NEW set \in Sets, NEW where,
           NEW p, \E k \in 1 .. Len(s[t]) : p = s[t][k],
           NEW at \in 1 .. Len(d.pages[p].cells),
           NEW s0, s0 = Walk(d, p, at, No), NEW y, y = Visited(s0, t, set, where)
    PROVE  \E e, n, broke : Walked(d, s, t, p, at, y, e, n, broke)
  <1> DEFINE P == Len(d.pages)
             page == d.pages[p]
             L == Len(page.cells)
             old == page.cells[at]
             new == Changed(old, set)
             e == UpdateIndexes(d, t, new, old, p)
             f == Deleted(e, t, where)
  <1>1. /\ t \in Names /\ p \in 1 .. P /\ p \in Nat /\ P \in Nat /\ d \in DbType
        /\ page \in PageType /\ PageOK(page) /\ page.cells \in Seq(Cell(t))
        /\ page.cells \in Seq(AnyCell) /\ L \in Nat /\ at \in Nat /\ at >= 1
    <2>1. t \in Names
      BY DEF Names
    <2>2. PICK k \in 1 .. Len(s[t]) : p = s[t][k]
      OBVIOUS
    <2>3. p \in 1 .. P /\ p \in Nat
      BY <2>1, <2>2, SpineFacts
    <2>4. d \in DbType
      BY DEF Good
    <2>5. page \in PageType /\ P \in Nat
      BY <2>3, <2>4, DbFields
    <2>6. PageOK(page)
      BY <2>3 DEF Good, LinksOK
    <2>7. page.cells \in Seq(Cell(t))
      BY <2>1, <2>2 DEF Good, Spine
    <2>8. page.cells \in Seq(AnyCell)
      BY <2>5, PageIs
    <2> HIDE DEF page, P
    <2>9. L \in Nat
      BY <2>8
    <2> QED
      BY <2>1, <2>3, <2>4, <2>5, <2>6, <2>7, <2>8, <2>9
  <1>2. \/ y = Walk(d, p, at + 1, No)
        \/ /\ Matches(old, where) /\ Need(new) <= Need(old)
           /\ y = Walk(WithPage(e, p, InPlace(e.pages[p], at, old, new)), p,
                       at + 1 + Need(old) - Need(new), No)
        \/ /\ Matches(old, where)
           /\ \E broke \in BOOLEAN :
                 /\ ~ broke => Throws(t, new)
                 /\ ~ broke => f.pages[p] = d.pages[p]
                 /\ y = Walk(Inserted(f, t, new), p, at + 1, broke)
    <2>1. /\ old = d.pages[p].cells[at] /\ new = Changed(old, set)
          /\ e = UpdateIndexes(d, t, new, old, p) /\ f = Deleted(e, t, where)
      OBVIOUS
    <2>2. at \in Nat
      BY <1>1
    <2> HIDE DEF P, page, L, old, new, e, f
    <2>3. TurnEnds(d, p, at, t, where, old, new, e, f, y)
      BY <2>1, <2>2, VisitedAs
    <2> QED
      BY <2>3 DEF TurnEnds
  <1>3. CASE y = Walk(d, p, at + 1, No)
    <2>1. Reached(d, s, d, t)
      BY <1>1, GrowsNot DEF Reached, NoneStays
    <2>2. at + 1 \in Nat /\ at + 1 >= 1 /\ (at + 1) - L <= at + 1 - L
      BY <1>1
    <2> QED
      <3>1. Walked(d, s, t, p, at, y, d, at + 1, No)
        BY <1>1, <1>3, <2>1, <2>2, NotNo DEF Walked
      <3> QED
        BY <3>1
  <1>4. ASSUME Matches(old, where)
        PROVE  /\ old \in Rows /\ new \in Rows /\ Readable(old)
               /\ Good(e, s) /\ Grows(d, s, e, s, t) /\ e.pages = d.pages
               /\ Exists(e, t) /\ NoneStays(d, e, t)
    <2>1. Readable(old)
      BY <1>4 DEF Matches
    <2>2. old \in Cell(t)
      BY <1>1
    <2>3. old \in Rows
      <3>1. old # Gap
        BY <2>1 DEF Readable
      <3> QED
        BY <2>2, <3>1 DEF Cell
    <2> HIDE DEF old
    <2>4. new \in Rows
      BY <2>3, ChangedIs
    <2> HIDE DEF new
    <2>5. Good(e, s) /\ Grows(d, s, e, s, t) /\ e.pages = d.pages
      BY <1>1, <2>3, <2>4, UpdateIndexesGood
    <2>7. NoneStays(d, e, t)
      BY DEF NoneStays, UpdateIndexes, WithEntry, WithoutEntries
    <2> HIDE DEF e
    <2>6. Exists(e, t)
      BY <1>1, <2>5, GrowsFacts
    <2> QED
      BY <2>1, <2>3, <2>4, <2>5, <2>6, <2>7
  <1>5. CASE /\ Matches(old, where) /\ Need(new) <= Need(old)
             /\ y = Walk(WithPage(e, p, InPlace(e.pages[p], at, old, new)), p,
                         at + 1 + Need(old) - Need(new), No)
    <2> DEFINE pg == InPlace(page, at, old, new)
               f1 == WithPage(e, p, pg)
               n == at + 1 + Need(old) - Need(new)
    <2>1. /\ pg \in PageType /\ PageOK(pg) /\ pg.next = page.next
          /\ pg.cells \in Seq(Cell(t))
          /\ Len(pg.cells) = L + Need(old) - Need(new)
          /\ Need(old) - Need(new) \in Nat
      <3>1. at \in 1 .. L
        OBVIOUS
      <3> HIDE DEF new
      <3> QED
        BY <1>1, <1>4, <1>5, <3>1, InPlaceIs
    <2>2. Need(old) \in Nat /\ Need(new) \in Nat
      BY <1>4, <1>5, NeedFacts DEF AnyCell
    <2>3. e.pages = d.pages /\ Good(e, s) /\ Grows(d, s, e, s, t) /\ e \in DbType
          /\ NoneStays(d, e, t)
      BY <1>4, <1>5 DEF Good
    <2>4. y = Walk(f1, p, n, No)
      <3> HIDE DEF e, old, new
      <3> QED
        BY <1>5, <2>3
    <2> HIDE DEF pg, e, old, new
    <2>5. /\ f1 \in DbType /\ f1.dir = e.dir /\ f1.index = e.index
          /\ Len(f1.pages) = Len(e.pages) /\ f1.pages[p] = pg
          /\ \A q \in 1 .. Len(e.pages) : q # p => f1.pages[q] = e.pages[q]
      <3>1. p \in 1 .. Len(e.pages)
        BY <1>1, <2>3
      <3>2. f1 = WithPage(e, p, pg)
        OBVIOUS
      <3> HIDE DEF f1
      <3> QED
        BY SMTT(60), <2>1, <2>3, <3>1, <3>2, WithPageIs
    <2> HIDE DEF f1
    <2>6. Reworked(e, s, f1, t)
      <3>1. \A u \in Names : u # t => f1.index[u] = e.index[u]
        BY <2>5
      <3>2. Hints(f1.index[t], t, Reach(e, s, t))
        BY <1>1, <2>3, <2>5 DEF Good
      <3>3. \A q \in 1 .. Len(e.pages) :
               \/ f1.pages[q] = e.pages[q]
               \/ /\ \E k \in 1 .. Len(s[t]) : q = s[t][k]
                  /\ PageOK(f1.pages[q])
                  /\ f1.pages[q].next = e.pages[q].next
                  /\ f1.pages[q].cells \in Seq(Cell(t))
        BY <2>1, <2>3, <2>5
      <3> QED
        BY <2>5, <3>1, <3>2, <3>3 DEF Reworked
    <2>7. Good(f1, s) /\ Grows(e, s, f1, s, t)
      BY <1>1, <2>3, <2>6, ReworkedGood
    <2>8. Reached(d, s, f1, t)
      <3>1. Grows(d, s, f1, s, t)
        BY <1>1, <2>3, <2>7, GrowsMore
      <3>2. NoneStays(d, f1, t)
        BY <2>3, <2>5 DEF NoneStays
      <3> QED
        BY <2>7, <3>1, <3>2 DEF Reached
    <2>9. /\ n \in Nat /\ n >= 1 /\ f1.pages[p].cells \in Seq(AnyCell)
          /\ n - Len(f1.pages[p].cells) <= at + 1 - L
      <3>1. f1.pages[p].cells \in Seq(AnyCell)
        BY <2>1, <2>5, PageIs
      <3>2. Len(f1.pages[p].cells) = L + Need(old) - Need(new)
        BY <2>1, <2>5
      <3> HIDE DEF L
      <3>3. n \in Nat /\ n >= 1
        BY SMTT(60), <1>1, <2>1, <2>2
      <3>4. n - Len(f1.pages[p].cells) <= at + 1 - L
        BY <3>2, <1>1, <2>1, <2>2
      <3> QED
        BY <3>1, <3>3, <3>4
    <2> HIDE DEF n, L
    <2>10. No \in BOOLEAN
      BY NotNo
    <2> QED
      <3>1. Walked(d, s, t, p, at, y, f1, n, No)
        BY <2>4, <2>8, <2>9, <2>10 DEF L, Walked
      <3> QED
        BY <3>1
  <1>6. CASE /\ Matches(old, where)
             /\ \E broke \in BOOLEAN :
                   /\ ~ broke => Throws(t, new)
                   /\ ~ broke => f.pages[p] = d.pages[p]
                   /\ y = Walk(Inserted(f, t, new), p, at + 1, broke)
    <2> DEFINE g == Inserted(f, t, new)
    <2>1. PICK broke \in BOOLEAN :
             /\ ~ broke => Throws(t, new)
             /\ ~ broke => f.pages[p] = d.pages[p]
             /\ y = Walk(g, p, at + 1, broke)
      BY <1>6
    <2>2. /\ Good(e, s) /\ Grows(d, s, e, s, t) /\ e.pages = d.pages
          /\ Exists(e, t) /\ new \in Rows /\ NoneStays(d, e, t)
      BY <1>4, <1>6
    <2>3. new \in Cell(t) \ {Gap}
      BY <2>2, NeedFacts DEF Cell
    <2> HIDE DEF new, old, e
    <2>4. Good(f, s) /\ Grows(e, s, f, s, t) /\ NoneStays(e, f, t)
      BY <2>2, DeletedGood
    <2> HIDE DEF f
    <2>5. Exists(f, t) /\ Len(e.pages) <= Len(f.pages)
      BY <1>1, <2>2, <2>4, GrowsFacts
    <2>6. Reached(f, s, g, t)
      BY <2>3, <2>4, <2>5, InsertedGood
    <2>7. Throws(t, new) => g.pages[p].cells = f.pages[p].cells
      <3>1. p \in 1 .. Len(f.pages)
        <4>1. Len(f.pages) \in Nat
          BY <2>4, DbFields DEF Good
        <4>2. p >= 1 /\ p <= P /\ P <= Len(f.pages)
          BY <1>1, <2>2, <2>5
        <4> QED
          BY <4>1, <4>2, <1>1
      <3> QED
        BY <3>1, <2>3, <2>4, <2>5, InsertedGood
    <2> HIDE DEF g
    <2>8. Reached(d, s, g, t)
      <3>1. Grows(d, s, f, s, t)
        BY <1>1, <2>2, <2>4, GrowsMore
      <3>2. NoneStays(d, f, t)
        BY <2>2, <2>4 DEF NoneStays
      <3> QED
        BY <3>1, <3>2, <1>1, <2>4, <2>6, ReachedMore
    <2>9. ~ broke => g.pages[p].cells = page.cells
      BY <2>1, <2>7
    <2>10. at + 1 \in Nat /\ at + 1 >= 1
      BY <1>1
    <2>11. ~ broke => /\ g.pages[p].cells \in Seq(AnyCell)
                      /\ at + 1 - Len(g.pages[p].cells) <= at + 1 - L
      BY <2>9, <1>1
    <2>12. Walked(d, s, t, p, at, y, g, at + 1, broke)
      BY <2>1, <2>8, <2>10, <2>11 DEF Walked
    <2> QED
      BY <2>12
  <1> QED
    BY <1>2, <1>3, <1>5, <1>6

\* update's loop after k of the n records that a page had at first.
WalkingAt(d, s, t, p, n, k, z, e, at, broke) ==
    /\ z = Walk(e, p, at, broke) /\ broke \in BOOLEAN
    /\ Reached(d, s, e, t)
    /\ at \in Nat /\ at >= 1
    /\ ~ broke => /\ Len(e.pages[p].cells) \in Nat
                  /\ at + (n - k) <= Len(e.pages[p].cells) + 1
Walking(d, s, t, p, n, k, z) ==
    \E e, at, broke : WalkingAt(d, s, t, p, n, k, z, e, at, broke)

\* So does one turn more.
LEMMA WalkingGoesOn ==
    ASSUME NEW d, NEW s, Good(d, s), NEW t \in Tables, Exists(d, t),
           NEW set \in Sets, NEW where,
           NEW p, \E k \in 1 .. Len(s[t]) : p = s[t][k],
           NEW n \in Nat, NEW k \in 1 .. n, NEW z, Walking(d, s, t, p, n, k - 1, z)
    PROVE  Walking(d, s, t, p, n, k, z)
           /\ Walking(d, s, t, p, n, k, Visited(z, t, set, where))
  <1> DEFINE y == Visited(z, t, set, where)
  <1>1. PICK e, at, broke : WalkingAt(d, s, t, p, n, k - 1, z, e, at, broke)
    BY DEF Walking
  <1>2. /\ z = Walk(e, p, at, broke) /\ broke \in BOOLEAN
        /\ Reached(d, s, e, t)
        /\ at \in Nat /\ at >= 1
    BY <1>1 DEF WalkingAt
  <1>3. ~ broke => /\ Len(e.pages[p].cells) \in Nat
                  /\ at + (n - (k - 1)) <= Len(e.pages[p].cells) + 1
    BY <1>1 DEF WalkingAt
  <1>4. ~ broke => /\ Len(e.pages[p].cells) \in Nat
                  /\ at + (n - k) <= Len(e.pages[p].cells) + 1
                  /\ at \in 1 .. Len(e.pages[p].cells)
    <2> SUFFICES ASSUME ~ broke
                 PROVE  /\ Len(e.pages[p].cells) \in Nat
                        /\ at + (n - k) <= Len(e.pages[p].cells) + 1
                        /\ at \in 1 .. Len(e.pages[p].cells)
      BY Zenon
    <2> DEFINE l == Len(e.pages[p].cells)
    <2>1. l \in Nat /\ at + (n - (k - 1)) <= l + 1
      BY <1>3
    <2> HIDE DEF l
    <2>2. at + (n - k) <= l + 1 /\ at \in 1 .. l
      BY <1>2, <2>1
    <2> QED
      BY <2>1, <2>2 DEF l
  <1>5. Walking(d, s, t, p, n, k, z)
    <2>1. WalkingAt(d, s, t, p, n, k, z, e, at, broke)
      BY <1>2, <1>4 DEF WalkingAt
    <2> QED
      BY <2>1 DEF Walking
  <1>6. CASE broke
    <2>1. z.broke
      <3>1. z.broke = broke
        BY <1>2, WalkFields
      <3> QED
        BY <3>1, <1>6, Zenon
    <2>2. y = z
      BY <2>1 DEF Visited
    <2> QED
      BY <1>5, <2>2
  <1>7. CASE ~ broke
    <2>1. broke = No
      BY <1>2, <1>7 DEF No
    <2>2. z = Walk(e, p, at, No)
      BY <1>2, <2>1
    <2>3. PICK u : Good(e, u) /\ Grows(d, s, e, u, t) /\ NoneStays(d, e, t)
      BY <1>2 DEF Reached
    <2>4. t \in Names
      BY DEF Names
    <2>5. Exists(e, t) /\ \E j \in 1 .. Len(u[t]) : p = u[t][j]
      BY <2>3, <2>4, GrowsFacts, SMTT(30)
    <2>6. at \in 1 .. Len(e.pages[p].cells)
      BY <1>4, <1>7
    <2>7. \E f, m, b : Walked(e, u, t, p, at, y, f, m, b)
      BY <2>2, <2>3, <2>5, <2>6, VisitedGood
    <2>8. PICK f, m, b : Walked(e, u, t, p, at, y, f, m, b)
      BY <2>7
    <2>9. /\ y = Walk(f, p, m, b) /\ b \in BOOLEAN
          /\ Reached(e, u, f, t)
          /\ m \in Nat /\ m >= 1
          /\ ~ b => /\ f.pages[p].cells \in Seq(AnyCell)
                    /\ m - Len(f.pages[p].cells) <= at + 1 - Len(e.pages[p].cells)
      BY <2>8 DEF Walked
    <2>10. Reached(d, s, f, t)
      BY <2>3, <2>4, <2>9, ReachedMore
    <2> DEFINE l == Len(f.pages[p].cells)
               x == Len(e.pages[p].cells)
    <2>11. ASSUME ~ b
           PROVE  l \in Nat /\ m + (n - k) <= l + 1
      <3>1. l \in Nat /\ m - l <= at + 1 - x
        BY SMTT(60), <2>9, <2>11
      <3>2. x \in Nat /\ at + (n - (k - 1)) <= x + 1
        BY <1>3, <1>7
      <3> HIDE DEF l, x
      <3>3. m + (n - k) <= l + 1
        BY <1>2, <2>9, <3>1, <3>2
      <3> QED
        BY <3>1, <3>3
    <2> HIDE DEF y
    <2>12. WalkingAt(d, s, t, p, n, k, y, f, m, b)
      BY <2>9, <2>10, <2>11 DEF WalkingAt
    <2>13. Walking(d, s, t, p, n, k, y)
      BY <2>12 DEF Walking
    <2> QED
      BY <1>5, <2>13 DEF y
  <1> QED
    BY <1>6, <1>7

\* The states of the loop over a page, turn by turn.
PagePath(z, d, t, set, where, p) ==
    /\ z[0] = Walk(d, p, 1, No)
    /\ \A k \in 1 .. d.pages[p].count : z[k] = Visited(z[k - 1], t, set, where)
    /\ UpdatedPage(d, t, set, where, p) = z[d.pages[p].count].db

\* So does the loop over a page.
LEMMA UpdatedPageGood ==
    ASSUME NEW d, NEW s, Good(d, s), NEW t \in Tables, Exists(d, t),
           NEW set \in Sets, NEW where, NEW p \in 1 .. Len(d.pages),
           \/ \E k \in 1 .. Len(s[t]) : p = s[t][k]
           \/ d.pages[p].count = 0
    PROVE  /\ Reached(d, s, UpdatedPage(d, t, set, where, p), t)
           /\ \E z : PagePath(z, d, t, set, where, p)
  <1> DEFINE n == d.pages[p].count
             c == [i \in 1 .. n |-> i]
             init == [db |-> d, page |-> p, at |-> 1, broke |-> FALSE]
             Iter(f) == f = [q \in SUBSET (DOMAIN c) |->
                               IF q = {} THEN init
                               ELSE Visited(f[q \ {Max(q)}], t, set, where)]
             g == CHOOSE f : Iter(f)
             W == [db : DbType, page : {p}, at : Nat, broke : BOOLEAN]
             A == {z \in W : \E k \in 0 .. n : Walking(d, s, t, p, n, k, z)}
             F == [x \in A \X (1 .. n) |-> Visited(x[1], t, set, where)]
             J == [k \in 0 .. n |-> {z \in W : Walking(d, s, t, p, n, k, z)}]
  <1>1. n \in Nat /\ DOMAIN c = 1 .. n /\ n <= Len(d.pages[p].cells)
        /\ Len(d.pages[p].cells) \in Nat
    <2>1. d.pages[p] \in PageType /\ PageOK(d.pages[p])
      BY DbFields DEF Good, LinksOK
    <2>2. n \in Nat /\ d.pages[p].cells \in Seq(AnyCell)
      BY <2>1, PageIs
    <2> QED
      BY <2>1, <2>2 DEF PageOK
  <1>2. UpdatedPage(d, t, set, where, p) = g[DOMAIN c].db
    BY DEF UpdatedPage, FoldLeft, MapThenFoldSet
  <1> HIDE DEF n, c
  <1>3. ASSUME NEW k \in 0 .. n, NEW z, Walking(d, s, t, p, n, k, z)
        PROVE  z \in W
    <2>1. PICK e, at, broke : WalkingAt(d, s, t, p, n, k, z, e, at, broke)
      BY <1>3 DEF Walking
    <2>2. z = Walk(e, p, at, broke) /\ broke \in BOOLEAN /\ at \in Nat /\ Reached(d, s, e, t)
      BY <2>1 DEF WalkingAt
    <2>3. e \in DbType
      BY <2>2 DEF Reached, Good
    <2> QED
      BY <2>2, <2>3 DEF Walk
  <1>4. \A k \in 0 .. n : \A z : z \in J[k] <=> Walking(d, s, t, p, n, k, z)
    <2> HIDE DEF W
    <2> QED
      BY <1>3
  <1>5. ASSUME NEW k \in 1 .. n, NEW z \in J[k - 1]
        PROVE  z \in J[k] /\ Visited(z, t, set, where) \in J[k] /\ z \in A
    <2>1. k - 1 \in 0 .. n /\ k \in 0 .. n /\ n # 0
      BY <1>1
    <2>2. Walking(d, s, t, p, n, k - 1, z)
      BY <2>1, <1>4
    <2>3. \E j \in 1 .. Len(s[t]) : p = s[t][j]
      BY <2>1 DEF n
    <2>4. Walking(d, s, t, p, n, k, z)
          /\ Walking(d, s, t, p, n, k, Visited(z, t, set, where))
      BY <1>1, <2>2, <2>3, WalkingGoesOn
    <2>5. z \in A
      <3>1. z \in W
        BY <1>3, <2>1, <2>2
      <3> HIDE DEF W
      <3> QED
        BY <2>1, <2>2, <3>1
    <2> HIDE DEF J, A
    <2> QED
      BY <2>1, <2>4, <2>5, <1>4
  <1>6. init \in J[0]
    <2>1. init = Walk(d, p, 1, No)
      BY DEF Walk, No
    <2>2. Reached(d, s, d, t)
      <3>1. t \in Names
        BY DEF Names
      <3> QED
        BY <3>1, GrowsNot DEF Reached, NoneStays
    <2>3. 1 + (n - 0) <= Len(d.pages[p].cells) + 1 /\ 0 \in 0 .. n
      BY <1>1
    <2> HIDE DEF init
    <2>4. WalkingAt(d, s, t, p, n, 0, init, d, 1, No)
      BY <2>1, <2>2, <2>3, <1>1, NotNo DEF WalkingAt
    <2>5. Walking(d, s, t, p, n, 0, init)
      BY <2>4 DEF Walking
    <2> HIDE DEF J
    <2> QED
      BY <2>3, <2>5, <1>4
  <1>7. \A k \in 1 .. n : \A z \in A : F[<<z, k>>] = Visited(z, t, set, where)
    <2> HIDE DEF A
    <2> QED
      OBVIOUS
  <1>8. n \in 0 .. n /\ \A z \in J[n] : z \in A
    <2>1. n \in 0 .. n
      BY <1>1
    <2>2. \A z \in J[n] : z \in W /\ Walking(d, s, t, p, n, n, z)
      <3> HIDE DEF J, W
      <3> QED
        BY <2>1, <1>3, <1>4
    <2> HIDE DEF J, W
    <2> QED
      BY <2>1, <2>2
  <1> HIDE DEF J, F, A, W, init
  <1>9. \E f : Iter(f)
    <2>1. Growing(n, F, J)
      <3>1. ASSUME NEW k \in 1 .. n, NEW z \in J[k - 1]
            PROVE  z \in J[k] /\ F[<<z, k>>] \in J[k]
        BY <1>5, <1>7
      <3> QED
        BY <3>1 DEF Growing
    <2>2. PICK f : Folding(f, n, init, F, J)
      BY <2>1, <1>1, <1>6, FoldIsThere
    <2>3. ASSUME NEW q \in SUBSET (1 .. n), q # {}
          PROVE  F[<<f[q \ {Max(q)}], Max(q)>>] = Visited(f[q \ {Max(q)}], t, set, where)
      <3>1. Max(q) \in 1 .. n
        BY <1>1, <2>3, MaxIn
      <3>2. q \ {Max(q)} \in SUBSET (1 .. n)
        OBVIOUS
      <3>3. f[q \ {Max(q)}] \in A
        BY <2>2, <3>2, <1>8 DEF Folding
      <3> QED
        BY <3>1, <3>3, <1>7
    <2>4. Iter(f)
      BY <2>2, <2>3, <1>1 DEF Folding
    <2> HIDE DEF Iter
    <2> QED
      BY <2>4
  <1>10. Iter(g)
    <2> HIDE DEF Iter
    <2> QED
      BY <1>9
  <1> HIDE DEF g
  <1>11. \A q \in SUBSET (1 .. n) :
           g[q] = IF q = {} THEN init ELSE Visited(g[q \ {Max(q)}], t, set, where)
    BY <1>1, <1>10
  <1> HIDE DEF Iter
  <1>12. g[1 .. n] \in J[n]
    <2>1. g[{}] \in J[0]
      <3>1. {} \in SUBSET (1 .. n)
        OBVIOUS
      <3> QED
        BY <3>1, <1>6, <1>11
    <2>2. ASSUME NEW q \in SUBSET (1 .. n), NEW k \in q, Max(q) = k, g[q \ {k}] \in J[k - 1]
          PROVE  g[q] \in J[k]
      <3>1. k \in 1 .. n /\ q # {}
        OBVIOUS
      <3>2. g[q] = Visited(g[q \ {k}], t, set, where)
        BY <2>2, <3>1, <1>11
      <3> QED
        BY <2>2, <3>1, <3>2, <1>5
    <2> QED
      BY <1>1, <2>1, <2>2, FoldStays
  <1>13. Walking(d, s, t, p, n, n, g[1 .. n])
    <2>1. n \in 0 .. n
      BY <1>1
    <2> QED
      BY <2>1, <1>4, <1>12
  <1>14. PICK e, at, broke : WalkingAt(d, s, t, p, n, n, g[1 .. n], e, at, broke)
    BY <1>13 DEF Walking
  <1>15. g[1 .. n] = Walk(e, p, at, broke) /\ Reached(d, s, e, t)
    BY <1>14 DEF WalkingAt
  <1>16. g[1 .. n].db = e
    BY <1>15, WalkFields
  <1>17. \E z : PagePath(z, d, t, set, where, p)
    <2> DEFINE z == [k \in 0 .. n |-> g[1 .. k]]
    <2>1. \A k \in 0 .. n : z[k] = g[1 .. k]
      OBVIOUS
    <2> HIDE DEF z
    <2>2. z[0] = Walk(d, p, 1, No)
      <3>1. 0 \in 0 .. n
        BY <1>1
      <3>2. z[0] = init
        BY <1>1, <1>11, <2>1, <3>1, FoldPath
      <3> QED
        BY <3>2 DEF init, Walk, No
    <2>3. ASSUME NEW k \in 1 .. n
          PROVE  z[k] = Visited(z[k - 1], t, set, where)
      <3>1. k \in 0 .. n /\ k - 1 \in 0 .. n
        BY <1>1
      <3> DEFINE q == 1 .. k
      <3>2. q \in SUBSET (1 .. n) /\ q # {} /\ Max(q) = k /\ q \ {k} = 1 .. (k - 1)
        BY <1>1, FoldPath
      <3>3. g[1 .. k] = g[q]
        OBVIOUS
      <3> HIDE DEF q
      <3>4. g[q] = Visited(g[q \ {k}], t, set, where)
        BY <3>2, <1>11
      <3> QED
        BY <2>1, <3>1, <3>2, <3>3, <3>4
    <2>4. n \in 0 .. n
      BY <1>1
    <2>5. UpdatedPage(d, t, set, where, p) = z[n].db
      BY <1>1, <1>2, <2>1, <2>4
    <2> QED
      BY <2>2, <2>3, <2>5 DEF PagePath, n
  <1> QED
    BY <1>1, <1>2, <1>15, <1>16, <1>17

\* The pages that update visits.
Visits(d, t, where) ==
    LET hint == Found(d, t, where)
    IN IF hint # <<>> THEN <<hint[1].page>> ELSE Chain(d, t)

\* They are pages of the chain: of the spine, or empty.
LEMMA VisitsFacts ==
    ASSUME NEW d, NEW s, Good(d, s), NEW t, Exists(d, t), NEW where
    PROVE  /\ Visits(d, t, where) \in Seq(Nat)
           /\ \A i \in 1 .. Len(Visits(d, t, where)) :
                 LET p == Visits(d, t, where)[i]
                 IN /\ p \in 1 .. Len(d.pages)
                    /\ \/ \E k \in 1 .. Len(s[t]) : p = s[t][k]
                       \/ d.pages[p].count = 0
                          /\ \A k \in 1 .. Len(s[t]) : p # s[t][k]
  <1> DEFINE sp == s[t]
             hint == Found(d, t, where)
             v == Visits(d, t, where)
             OK(p) == p \in 1 .. Len(d.pages)
                      /\ \/ \E k \in 1 .. Len(sp) : p = sp[k]
                         \/ d.pages[p].count = 0
                            /\ \A k \in 1 .. Len(sp) : p # sp[k]
  <1>1. t \in Names /\ sp # <<>>
    BY EntryFacts
  <1>2. CASE hint # <<>>
    <2>1. PICK h : hint = <<h>> /\ Leads(h, Reach(d, s, t))
      BY <1>1, <1>2, FoundFacts
    <2>2. h.page \in Reach(d, s, t)
      BY <2>1 DEF Leads
    <2>4. v = <<h.page>>
      BY <1>2, <2>1 DEF Visits
    <2>5. OK(h.page) /\ h.page \in Nat
      BY <1>1, <2>2, ReachFacts
    <2> HIDE DEF v, OK
    <2>6. v \in Seq(Nat) /\ Len(v) = 1 /\ v[1] = h.page
      BY <2>4, <2>5
    <2>7. \A i \in 1 .. Len(v) : OK(v[i])
      BY <2>5, <2>6
    <2> QED
      BY <2>6, <2>7 DEF v, OK
  <1>3. CASE hint = <<>>
    <2> DEFINE w == Whole(d.pages, sp)
    <2>1. v = w
      BY <1>3, ChainIs DEF Visits
    <2>2. w \in Seq(Nat) /\ Len(sp) \in Nat
      BY <1>1, WholeFacts
    <2>3. ASSUME NEW i \in 1 .. Len(w)
          PROVE  OK(w[i])
      <3>1. \A k \in 1 .. Len(sp) : w[k] = sp[k]
        BY <1>1, WholeFacts
      <3>2. /\ w[i] \in 1 .. Len(d.pages)
            /\ \/ i <= Len(sp)
               \/ d.pages[w[i]].count = 0
                  /\ \A u \in Names : \A j \in 1 .. Len(s[u]) : w[i] # s[u][j]
        BY <1>1, WholeFacts
      <3>3. CASE i <= Len(sp)
        <4>1. i \in 1 .. Len(sp)
          BY <3>3, <2>2
        <4>2. w[i] = sp[i]
          BY <4>1, <3>1
        <4> HIDE DEF w
        <4> QED
          BY <3>2, <4>1, <4>2
      <3>4. CASE d.pages[w[i]].count = 0
                 /\ \A u \in Names : \A j \in 1 .. Len(s[u]) : w[i] # s[u][j]
        <4> HIDE DEF w
        <4> QED
          BY <1>1, <3>2, <3>4
      <3> QED
        BY <3>2, <3>3, <3>4
    <2> HIDE DEF w, OK, v
    <2>4. \A i \in 1 .. Len(v) : OK(v[i])
      BY <2>1, <2>3
    <2> QED
      BY <2>1, <2>2, <2>4 DEF v, OK
  <1> QED
    BY <1>2, <1>3

\* The databases of update's loop over the pages, page by page.
TablePath(z, d, t, set, where) ==
    LET c == Visits(d, t, where)
    IN /\ z[0] = d
       /\ \A k \in 1 .. Len(c) : z[k] = UpdatedPage(z[k - 1], t, set, where, c[k])
       /\ Updated(d, t, set, where) = z[Len(c)]

\* UPDATE grows its table only.
LEMMA UpdatedGood ==
    ASSUME NEW d, NEW s, Good(d, s), NEW t \in Tables, Exists(d, t),
           NEW set \in Sets, NEW where
    PROVE  /\ Reached(d, s, Updated(d, t, set, where), t)
           /\ \E z : TablePath(z, d, t, set, where)
  <1> DEFINE c == Visits(d, t, where)
             n == Len(c)
             Iter(f) == f = [q \in SUBSET (DOMAIN c) |->
                               IF q = {} THEN d
                               ELSE UpdatedPage(f[q \ {Max(q)}], t, set, where, c[Max(q)])]
             g == CHOOSE f : Iter(f)
             A == {e \in DbType : Reached(d, s, e, t)}
             F == [x \in A \X (1 .. n) |-> UpdatedPage(x[1], t, set, where, c[x[2]])]
             J == [k \in 0 .. n |-> A]
  <1>1. c \in Seq(Nat) /\ n \in Nat /\ DOMAIN c = 1 .. n
    <2>1. c \in Seq(Nat)
      BY VisitsFacts
    <2> HIDE DEF c
    <2> QED
      BY <2>1
  <1>2. Updated(d, t, set, where) = g[DOMAIN c]
    BY DEF Updated, Visits, FoldLeft, MapThenFoldSet
  <1>3. ASSUME NEW k \in 1 .. n, NEW e \in A
        PROVE  UpdatedPage(e, t, set, where, c[k]) \in A
    <2> DEFINE p == c[k]
               f == UpdatedPage(e, t, set, where, p)
    <2>1. t \in Names
      BY DEF Names
    <2>2. PICK u : Good(e, u) /\ Grows(d, s, e, u, t) /\ NoneStays(d, e, t)
      BY DEF Reached
    <2>3. /\ p \in 1 .. Len(d.pages)
          /\ \/ \E j \in 1 .. Len(s[t]) : p = s[t][j]
             \/ d.pages[p].count = 0
                /\ \A j \in 1 .. Len(s[t]) : p # s[t][j]
      BY VisitsFacts
    <2> HIDE DEF p, c, n
    <2>4. Exists(e, t) /\ Len(d.pages) <= Len(e.pages)
      BY <2>1, <2>2, GrowsFacts
    <2>5. p \in 1 .. Len(e.pages)
      <3>1. Len(e.pages) \in Nat /\ Len(d.pages) \in Nat
        BY <2>2, DbFields DEF Good
      <3> QED
        BY <2>3, <2>4, <3>1
    <2>6. \/ \E j \in 1 .. Len(u[t]) : p = u[t][j]
          \/ e.pages[p].count = 0
      <3>1. CASE \E j \in 1 .. Len(s[t]) : p = s[t][j]
        <4>1. PICK j \in 1 .. Len(s[t]) : p = s[t][j]
          BY <3>1
        <4>2. Len(s[t]) \in Nat /\ Len(u[t]) \in Nat
          BY <2>1, <2>2, SpineFacts
        <4>3. j \in 1 .. Len(u[t]) /\ u[t][j] = s[t][j]
          BY <2>2, <4>2 DEF Grows
        <4> QED
          BY <4>1, <4>3
      <3>2. CASE d.pages[p].count = 0 /\ \A j \in 1 .. Len(s[t]) : p # s[t][j]
        <4>1. e.pages[p] = d.pages[p]
          BY <2>1, <2>2, <2>3, <3>2, GrowsFacts
        <4> QED
          BY <3>2, <4>1
      <3> QED
        BY <2>3, <3>1, <3>2
    <2>7. Reached(e, u, f, t)
      BY <2>2, <2>4, <2>5, <2>6, UpdatedPageGood
    <2> HIDE DEF f
    <2>8. Reached(d, s, f, t)
      BY <2>1, <2>2, <2>7, ReachedMore
    <2>9. f \in DbType
      BY <2>8 DEF Reached, Good
    <2>10. f \in A
      BY <2>8, <2>9
    <2> QED
      BY <2>10 DEF f, p
  <1>4. d \in A
    <2>1. t \in Names
      BY DEF Names
    <2>2. Reached(d, s, d, t)
      BY <2>1, GrowsNot DEF Reached, NoneStays
    <2> QED
      BY <2>2 DEF Good
  <1> HIDE DEF c, n
  <1>5. n \in 0 .. n /\ J[n] = A /\ J[0] = A
    BY <1>1
  <1>6. \A k \in 1 .. n : \A z \in A :
           J[k] = A /\ J[k - 1] = A /\ F[<<z, k>>] = UpdatedPage(z, t, set, where, c[k])
    <2> HIDE DEF A
    <2> QED
      BY <1>1
  <1>7. \A k \in 1 .. n : J[k] = A /\ J[k - 1] = A
    BY <1>1
  <1> HIDE DEF A, J, F
  <1>8. \E f : Iter(f)
    <2>1. Growing(n, F, J)
      <3>1. ASSUME NEW k \in 1 .. n, NEW z \in J[k - 1]
            PROVE  z \in J[k] /\ F[<<z, k>>] \in J[k]
        <4>1. z \in A /\ J[k] = A
          BY <1>7
        <4> QED
          BY <4>1, <1>3, <1>6
      <3> QED
        BY <3>1 DEF Growing
    <2>2. PICK f : Folding(f, n, d, F, J)
      BY <2>1, <1>1, <1>4, <1>5, FoldIsThere
    <2>3. ASSUME NEW q \in SUBSET (1 .. n), q # {}
          PROVE  F[<<f[q \ {Max(q)}], Max(q)>>]
                 = UpdatedPage(f[q \ {Max(q)}], t, set, where, c[Max(q)])
      <3>1. Max(q) \in 1 .. n
        BY <1>1, <2>3, MaxIn
      <3>2. q \ {Max(q)} \in SUBSET (1 .. n)
        OBVIOUS
      <3>3. f[q \ {Max(q)}] \in A
        <4>1. f[q \ {Max(q)}] \in J[n]
          BY <2>2, <3>2, <1>5 DEF Folding
        <4> QED
          BY <4>1, <1>5
      <3> QED
        BY <3>1, <3>3, <1>6
    <2>4. Iter(f)
      BY <2>2, <2>3, <1>1 DEF Folding
    <2> HIDE DEF Iter
    <2> QED
      BY <2>4
  <1>9. Iter(g)
    <2> HIDE DEF Iter
    <2> QED
      BY <1>8
  <1> HIDE DEF g
  <1>10. \A q \in SUBSET (1 .. n) :
           g[q] = IF q = {} THEN d
                  ELSE UpdatedPage(g[q \ {Max(q)}], t, set, where, c[Max(q)])
    BY <1>1, <1>9
  <1> HIDE DEF Iter
  <1>11. g[1 .. n] \in J[n]
    <2>1. g[{}] \in J[0]
      <3>1. {} \in SUBSET (1 .. n)
        OBVIOUS
      <3> QED
        BY <3>1, <1>4, <1>5, <1>10
    <2>2. ASSUME NEW q \in SUBSET (1 .. n), NEW k \in q, Max(q) = k, g[q \ {k}] \in J[k - 1]
          PROVE  g[q] \in J[k]
      <3>1. k \in 1 .. n /\ q # {}
        OBVIOUS
      <3>2. g[q] = UpdatedPage(g[q \ {k}], t, set, where, c[k])
        BY <2>2, <3>1, <1>10
      <3>3. g[q \ {k}] \in A
        BY <2>2, <3>1, <1>7
      <3> QED
        BY <3>1, <3>2, <3>3, <1>3, <1>7
    <2> QED
      BY <1>1, <2>1, <2>2, FoldStays
  <1>12. \E z : TablePath(z, d, t, set, where)
    <2> DEFINE z == [k \in 0 .. n |-> g[1 .. k]]
    <2>1. \A k \in 0 .. n : z[k] = g[1 .. k]
      OBVIOUS
    <2> HIDE DEF z
    <2>2. z[0] = d
      <3>1. 0 \in 0 .. n
        BY <1>1
      <3> QED
        BY <1>1, <1>10, <2>1, <3>1, FoldPath
    <2>3. ASSUME NEW k \in 1 .. n
          PROVE  z[k] = UpdatedPage(z[k - 1], t, set, where, c[k])
      <3>1. k \in 0 .. n /\ k - 1 \in 0 .. n
        BY <1>1
      <3> DEFINE q == 1 .. k
      <3>2. q \in SUBSET (1 .. n) /\ q # {} /\ Max(q) = k /\ q \ {k} = 1 .. (k - 1)
        BY <1>1, FoldPath
      <3>3. g[1 .. k] = g[q]
        OBVIOUS
      <3> HIDE DEF q
      <3>4. g[q] = UpdatedPage(g[q \ {k}], t, set, where, c[k])
        BY <3>2, <1>10
      <3> QED
        BY <2>1, <3>1, <3>2, <3>3, <3>4
    <2>4. n \in 0 .. n
      BY <1>1
    <2>5. Updated(d, t, set, where) = z[n]
      BY <1>1, <1>2, <2>1, <2>4
    <2> QED
      BY <2>2, <2>3, <2>5 DEF TablePath, c, n
  <1> QED
    BY <1>1, <1>2, <1>5, <1>11, <1>12 DEF A

-----------------------------------------------------------------------------
(* CREATE INDEX.                                                           *)

\* What a scan reads of a page of a table are rows of it.
LEMMA LegibleFacts ==
    ASSUME NEW page \in PageType, PageOK(page), NEW t \in Tables, page.cells \in Seq(Cell(t))
    PROVE  /\ Legible(page) \in Seq(Rows)
           /\ page.count = 0 => Legible(page) = <<>>
  <1> DEFINE c == Records(page)
             S == {r \in ToSet(c) : Readable(r)}
             T == Cell(t)
  <1>1. T \subseteq AnyCell
    BY CellFacts
  <1>2. c \in Seq(T) /\ Len(c) = page.count
    BY <1>1, RecordsFacts
  <1>3. T \cap S \subseteq Rows
    <2> SUFFICES ASSUME NEW r \in T, Readable(r)
                 PROVE  r \in Rows
      OBVIOUS
    <2>1. r # Gap
      BY DEF Readable
    <2> QED
      BY <2>1 DEF Cell
  <1> HIDE DEF T, S, c
  <1>4. Only(c, S) \in Seq(T \cap S) /\ Len(Only(c, S)) <= Len(c)
    BY <1>1, <1>2, OnlyFacts
  <1>5. Legible(page) = Only(c, S)
    BY DEF Legible, c, S
  <1> DEFINE l == Only(c, S)
  <1>6. l \in Seq(Rows) /\ Len(l) \in Nat
    <2> HIDE DEF l
    <2> DEFINE R == T \cap S
    <2>1. l \in Seq(R) /\ R \subseteq Rows
      BY <1>3, <1>4 DEF l
    <2> HIDE DEF R
    <2> QED
      BY <2>1
  <1>7. Len(c) = 0 => l = <<>>
    <2> HIDE DEF l
    <2>1. Len(l) <= Len(c)
      BY <1>4 DEF l
    <2> QED
      BY <1>6, <2>1
  <1> QED
    BY <1>2, <1>5, <1>6, <1>7

\* The records of a page, each with its number.
Here(d, p) ==
    [i \in DOMAIN Legible(d.pages[p]) |-> [row |-> Legible(d.pages[p])[i], page |-> p]]

\* Those of a page of the chain are where entries may lead.
LEMMA HereFacts ==
    ASSUME NEW d, NEW s, Good(d, s), NEW t \in Tables, s[t] # <<>>,
           NEW k \in 1 .. Len(Whole(d.pages, s[t]))
    PROVE  Here(d, Whole(d.pages, s[t])[k]) \in Seq({h \in Hint : Leads(h, Reach(d, s, t))})
  <1> DEFINE w == Whole(d.pages, s[t])
             p == w[k]
             page == d.pages[p]
             l == Legible(page)
             V == {h \in Hint : Leads(h, Reach(d, s, t))}
  <1>1. t \in Names
    BY DEF Names
  <1>2. /\ p \in 1 .. Len(d.pages)
        /\ \/ k <= Len(s[t])
           \/ page = EmptyPage /\ page.count = 0
    BY <1>1, WholeFacts
  <1>3. /\ Len(w) \in Nat /\ Len(s[t]) \in Nat /\ k \in Nat /\ k >= 1
        /\ \A i \in 1 .. Len(s[t]) : w[i] = s[t][i]
    BY <1>1, WholeFacts
  <1>4. page \in PageType /\ PageOK(page) /\ p \in Nat
    <2>1. page \in PageType
      BY <1>2, DbFields DEF Good
    <2>2. PageOK(page)
      BY <1>2 DEF Good, LinksOK
    <2> HIDE DEF w
    <2> QED
      BY <2>1, <2>2, <1>2
  <1>5. page.cells \in Seq(Cell(t)) /\ (k <= Len(s[t]) => p = s[t][k])
    <2>1. CASE k <= Len(s[t])
      <3>1. k \in 1 .. Len(s[t]) /\ p = s[t][k]
        BY <1>3, <2>1
      <3>2. d.pages[s[t][k]].cells \in Seq(Cell(t))
        BY <1>1, <3>1 DEF Good, Spine
      <3> HIDE DEF w
      <3> QED
        BY <3>1, <3>2
    <2>2. CASE ~ k <= Len(s[t])
      BY <1>2, <2>2, EmptyPageFacts
    <2> QED
      BY <2>1, <2>2
  <1>6. l \in Seq(Rows) /\ (page.count = 0 => l = <<>>)
    <2> HIDE DEF page
    <2> QED
      BY <1>4, <1>5, LegibleFacts
  <1>7. Here(d, p) = [i \in DOMAIN l |-> [row |-> l[i], page |-> p]]
    BY DEF Here
  <1>8. k <= Len(s[t]) \/ l = <<>>
    BY <1>2, <1>6
  <1> HIDE DEF w
  <1>9. p \in 1 .. Len(d.pages)
    BY <1>2
  <1> HIDE DEF l, p
  <1>10. ASSUME NEW i \in DOMAIN l
        PROVE  [row |-> l[i], page |-> p] \in V
    <2>1. l[i] \in Rows
      BY <1>6
    <2>2. [row |-> l[i], page |-> p] \in Hint
      BY <2>1, <1>4 DEF Hint
    <2>3. k \in 1 .. Len(s[t]) /\ p = s[t][k]
      BY <1>3, <1>5, <1>8
    <2>4. p \in Reach(d, s, t)
      BY <2>3, <1>9 DEF Reach
    <2> QED
      BY <2>2, <2>4 DEF Leads
  <1> HIDE DEF V
  <1>11. [i \in DOMAIN l |-> [row |-> l[i], page |-> p]] \in Seq(V)
    <2>1. DOMAIN l = 1 .. Len(l) /\ Len(l) \in Nat
      BY <1>6
    <2> QED
      BY <2>1, <1>10
  <1> QED
    BY <1>7, <1>11 DEF V, p, w

\* So a scan finds rows that are there.
LEMMA PlacedFacts ==
    ASSUME NEW d, NEW s, Good(d, s), NEW t \in Tables, Exists(d, t)
    PROVE  Placed(d, t) \in Seq({h \in Hint : Leads(h, Reach(d, s, t))})
  <1> DEFINE V == {h \in Hint : Leads(h, Reach(d, s, t))}
             c == Chain(d, t)
             n == Len(c)
             Iter(f) == f = [q \in SUBSET (DOMAIN c) |->
                               IF q = {} THEN <<>>
                               ELSE f[q \ {Max(q)}] \o Here(d, c[Max(q)])]
             g == CHOOSE f : Iter(f)
             A == Seq(V)
             F == [x \in A \X (1 .. n) |-> x[1] \o Here(d, c[x[2]])]
             J == [k \in 0 .. n |-> A]
  <1>1. Placed(d, t) = g[DOMAIN c]
    BY DEF Placed, Here, FoldLeft, MapThenFoldSet
  <1>2. t \in Names /\ s[t] # <<>> /\ c = Whole(d.pages, s[t])
    BY EntryFacts, ChainIs
  <1>3. c \in Seq(Nat) /\ n \in Nat /\ DOMAIN c = 1 .. n
    <2>1. c \in Seq(Nat)
      BY <1>2, WholeFacts
    <2> HIDE DEF c
    <2> QED
      BY <2>1
  <1> HIDE DEF c
  <1>4. \A k \in 1 .. n : Here(d, c[k]) \in A
    BY <1>2, HereFacts
  <1> HIDE DEF n, V
  <1>5. \A k \in 1 .. n : \A z \in A : z \o Here(d, c[k]) \in A
    BY <1>4
  <1>6. /\ n \in 0 .. n /\ J[n] = A /\ J[0] = A
        /\ \A k \in 1 .. n : J[k] = A /\ J[k - 1] = A
    BY <1>3
  <1>7. <<>> \in A
    OBVIOUS
  <1>8. \A k \in 1 .. n : \A z \in A : F[<<z, k>>] = z \o Here(d, c[k])
    OBVIOUS
  <1> HIDE DEF J, F, A
  <1>9. \E f : Iter(f)
    <2>1. Growing(n, F, J)
      <3>1. ASSUME NEW k \in 1 .. n, NEW z \in J[k - 1]
            PROVE  z \in J[k] /\ F[<<z, k>>] \in J[k]
        <4>1. z \in A /\ J[k] = A
          BY <1>6
        <4>2. F[<<z, k>>] = z \o Here(d, c[k]) /\ z \o Here(d, c[k]) \in A
          BY <4>1, <1>5, <1>8
        <4> QED
          BY <4>1, <4>2
      <3> QED
        BY <3>1 DEF Growing
    <2>2. PICK f : Folding(f, n, <<>>, F, J)
      BY <2>1, <1>3, <1>6, <1>7, FoldIsThere
    <2>3. ASSUME NEW q \in SUBSET (1 .. n), q # {}
          PROVE  F[<<f[q \ {Max(q)}], Max(q)>>] = f[q \ {Max(q)}] \o Here(d, c[Max(q)])
      <3>1. Max(q) \in 1 .. n
        BY <1>3, <2>3, MaxIn
      <3>2. q \ {Max(q)} \in SUBSET (1 .. n)
        OBVIOUS
      <3>3. f[q \ {Max(q)}] \in A
        <4>1. f[q \ {Max(q)}] \in J[n]
          BY <2>2, <3>2, <1>6 DEF Folding
        <4> QED
          BY <4>1, <1>6
      <3> QED
        BY <3>1, <3>3, <1>8
    <2>4. Iter(f)
      BY <2>2, <2>3, <1>3 DEF Folding
    <2> HIDE DEF Iter
    <2> QED
      BY <2>4
  <1>10. Iter(g)
    <2> HIDE DEF Iter
    <2> QED
      BY <1>9
  <1> HIDE DEF g
  <1>11. \A q \in SUBSET (1 .. n) :
           g[q] = IF q = {} THEN <<>> ELSE g[q \ {Max(q)}] \o Here(d, c[Max(q)])
    BY <1>3, <1>10
  <1> HIDE DEF Iter
  <1>12. g[1 .. n] \in J[n]
    <2>1. g[{}] \in J[0]
      <3>1. {} \in SUBSET (1 .. n)
        OBVIOUS
      <3>2. \A q \in SUBSET (1 .. n) : q = {} => g[q] = <<>>
        BY <1>11
      <3>3. g[{}] = <<>>
        BY <3>1, <3>2
      <3> QED
        BY <3>3, <1>6, <1>7
    <2>2. ASSUME NEW q \in SUBSET (1 .. n), NEW k \in q, Max(q) = k, g[q \ {k}] \in J[k - 1]
          PROVE  g[q] \in J[k]
      <3>1. k \in 1 .. n /\ q # {}
        OBVIOUS
      <3>2. g[q] = g[q \ {k}] \o Here(d, c[k])
        BY <2>2, <3>1, <1>11
      <3>3. g[q \ {k}] \in A
        BY <2>2, <3>1, <1>6
      <3> QED
        BY <3>1, <3>2, <3>3, <1>5, <1>6
    <2> QED
      BY <1>3, <2>1, <2>2, FoldStays
  <1> QED
    BY <1>1, <1>3, <1>6, <1>12 DEF A, V

\* And an index built from a scan leads there.
LEMMA BuiltFacts ==
    ASSUME NEW d, NEW s, Good(d, s), NEW t \in Tables, Exists(d, t)
    PROVE  Built(d, t) \in IndexType /\ HintsInto(Built(d, t), t, Reach(d, s, t))
  <1> DEFINE P == Reach(d, s, t)
             V == {h \in Hint : Leads(h, P)}
             c == Placed(d, t)
             n == Len(c)
             Iter(f) == f = [q \in SUBSET (DOMAIN c) |->
                               IF q = {} THEN EmptyIndex
                               ELSE WithRow(f[q \ {Max(q)}], c[Max(q)].row, c[Max(q)].page)]
             g == CHOOSE f : Iter(f)
             A == {ix \in IndexType : HintsInto(ix, t, P)}
             F == [x \in A \X (1 .. n) |-> WithRow(x[1], c[x[2]].row, c[x[2]].page)]
             J == [k \in 0 .. n |-> A]
  <1>1. Built(d, t) = g[DOMAIN c]
    BY DEF Built, FoldLeft, MapThenFoldSet
  <1>2. c \in Seq(V)
    BY PlacedFacts
  <1> HIDE DEF c, P
  <1>3. n \in Nat /\ DOMAIN c = 1 .. n /\ \A k \in 1 .. n : c[k] \in Hint /\ Leads(c[k], P)
    BY <1>2
  <1> HIDE DEF n, V
  <1>4. ASSUME NEW k \in 1 .. n, NEW z \in A
        PROVE  WithRow(z, c[k].row, c[k].page) \in A
    <2>1. c[k].row \in Rows /\ c[k].page \in Nat /\ c[k].page \in P
      BY <1>3 DEF Hint, Leads
    <2>2. z \in IndexType /\ HintsInto(z, t, P)
      OBVIOUS
    <2> HIDE DEF A
    <2>3. WithRow(z, c[k].row, c[k].page) \in IndexType
          /\ HintsInto(WithRow(z, c[k].row, c[k].page), t, P)
      BY <2>1, <2>2, WithRowHints
    <2> QED
      BY <2>3 DEF A
  <1>5. EmptyIndex \in A
    <2>1. EmptyIndex \in IndexType
      <3>1. \A k \in Keys : <<>> \in Seq(Hint)
        OBVIOUS
      <3> QED
        BY <3>1 DEF EmptyIndex, IndexType
    <2>2. \A k \in Keys : Len(EmptyIndex[k]) = 0
      BY DEF EmptyIndex
    <2>3. HintsInto(EmptyIndex, t, P)
      BY <2>2 DEF HintsInto
    <2> QED
      BY <2>1, <2>3
  <1>6. /\ n \in 0 .. n /\ J[n] = A /\ J[0] = A
        /\ \A k \in 1 .. n : J[k] = A /\ J[k - 1] = A
    BY <1>3
  <1>7. \A k \in 1 .. n : \A z \in A : F[<<z, k>>] = WithRow(z, c[k].row, c[k].page)
    <2> HIDE DEF A
    <2> QED
      OBVIOUS
  <1> HIDE DEF J, F, A
  <1>8. \E f : Iter(f)
    <2>1. Growing(n, F, J)
      <3>1. ASSUME NEW k \in 1 .. n, NEW z \in J[k - 1]
            PROVE  z \in J[k] /\ F[<<z, k>>] \in J[k]
        <4>1. z \in A /\ J[k] = A
          BY <1>6
        <4>2. F[<<z, k>>] \in A
          BY <4>1, <1>4, <1>7
        <4> QED
          BY <4>1, <4>2
      <3> QED
        BY <3>1 DEF Growing
    <2>2. PICK f : Folding(f, n, EmptyIndex, F, J)
      BY <2>1, <1>3, <1>5, <1>6, FoldIsThere
    <2>3. ASSUME NEW q \in SUBSET (1 .. n), q # {}
          PROVE  F[<<f[q \ {Max(q)}], Max(q)>>]
                 = WithRow(f[q \ {Max(q)}], c[Max(q)].row, c[Max(q)].page)
      <3>1. Max(q) \in 1 .. n
        BY <1>3, <2>3, MaxIn
      <3>2. q \ {Max(q)} \in SUBSET (1 .. n)
        OBVIOUS
      <3>3. f[q \ {Max(q)}] \in A
        <4>1. f[q \ {Max(q)}] \in J[n]
          BY <2>2, <3>2, <1>6 DEF Folding
        <4> QED
          BY <4>1, <1>6
      <3> QED
        BY <3>1, <3>3, <1>7
    <2>4. Iter(f)
      BY <2>2, <2>3, <1>3 DEF Folding
    <2> HIDE DEF Iter
    <2> QED
      BY <2>4
  <1>9. Iter(g)
    <2> HIDE DEF Iter
    <2> QED
      BY <1>8
  <1> HIDE DEF g
  <1>10. \A q \in SUBSET (1 .. n) :
           g[q] = IF q = {} THEN EmptyIndex
                  ELSE WithRow(g[q \ {Max(q)}], c[Max(q)].row, c[Max(q)].page)
    BY <1>3, <1>9
  <1> HIDE DEF Iter
  <1>11. g[1 .. n] \in J[n]
    <2>1. g[{}] \in J[0]
      <3>1. {} \in SUBSET (1 .. n)
        OBVIOUS
      <3>2. \A q \in SUBSET (1 .. n) : q = {} => g[q] = EmptyIndex
        BY <1>10
      <3>3. g[{}] = EmptyIndex
        BY <3>1, <3>2
      <3> QED
        BY <3>3, <1>5, <1>6
    <2>2. ASSUME NEW q \in SUBSET (1 .. n), NEW k \in q, Max(q) = k, g[q \ {k}] \in J[k - 1]
          PROVE  g[q] \in J[k]
      <3>1. k \in 1 .. n /\ q # {}
        OBVIOUS
      <3>2. g[q] = WithRow(g[q \ {k}], c[k].row, c[k].page)
        BY <2>2, <3>1, <1>10
      <3>3. g[q \ {k}] \in A
        BY <2>2, <3>1, <1>6
      <3> QED
        BY <3>1, <3>2, <3>3, <1>4, <1>6
    <2> QED
      BY <1>3, <2>1, <2>2, FoldStays
  <1> QED
    BY <1>1, <1>3, <1>6, <1>11 DEF A, P

-----------------------------------------------------------------------------
(* What a statement leaves alone.                                          *)

\* Table u has the same spine, and the same pages in it.
Kept(d, s, e, v, u) ==
    /\ v[u] = s[u]
    /\ \A k \in 1 .. Len(s[u]) : e.pages[s[u][k]] = d.pages[s[u][k]]

\* What grows one table keeps the others.
LEMMA GrowsKeeps ==
    ASSUME NEW d, NEW s, Good(d, s), NEW t \in Names, NEW e, NEW v, Grows(d, s, e, v, t),
           NEW u \in Names, u # t
    PROVE  Kept(d, s, e, v, u)
  <1>1. v[u] = s[u]
    BY DEF Grows
  <1>2. ASSUME NEW k \in 1 .. Len(s[u])
        PROVE  e.pages[s[u][k]] = d.pages[s[u][k]]
    <2>1. s[u][k] \in 1 .. Len(d.pages)
      BY SpineFacts
    <2>2. \A l \in 1 .. Len(s[t]) : s[u][k] # s[t][l]
      <3>1. SpinesApart(s)
        BY DEF Good
      <3> QED
        BY <3>1 DEF SpinesApart
    <2> QED
      BY <2>1, <2>2 DEF Grows
  <1> QED
    BY <1>1, <1>2 DEF Kept

\* What two steps keep they keep together.
LEMMA KeptMore ==
    ASSUME NEW d, NEW s, NEW e, NEW v, NEW f, NEW w, NEW u,
           Kept(d, s, e, v, u), Kept(e, v, f, w, u)
    PROVE  Kept(d, s, f, w, u)
  BY DEF Kept

-----------------------------------------------------------------------------
(* CREATE INDEX and Reopen.                                                *)

\* CREATE INDEX keeps the layout and touches its table and _indexes only.
LEMMA IndexedGood ==
    ASSUME NEW d, NEW s, Good(d, s), NEW t \in Tables, Exists(d, t), Exists(d, System)
    PROVE  \E v : /\ Good(Indexed(d, t), v)
                  /\ Exists(Indexed(d, t), System)
                  /\ \A u \in Names \ {t, System} : Kept(d, s, Indexed(d, t), v, u)
  <1> DEFINE b == Built(d, t)
             e == WithIndex(d, t, b)
             r == [key |-> t, val |-> System]
             f == Inserted(e, System, r)
  <1>1. t \in Names /\ System \in Names /\ System \notin Tables
    BY NamesApart DEF Names
  <1>2. b \in IndexType /\ HintsInto(b, t, Reach(d, s, t))
    BY BuiltFacts
  <1>3. Indexed(d, t) = f
    BY DEF Indexed, WithIndex
  <1>4. d \in DbType /\ b \in IndexType \cup {None} /\ Hints(b, t, Reach(d, s, t))
    BY <1>2 DEF Good, Hints
  <1> HIDE DEF b
  <1>5. Reworked(d, s, e, t) /\ e.dir = d.dir
    BY <1>1, <1>4, WithIndexGood, WithIndexIs
  <1> HIDE DEF e
  <1>6. Good(e, s) /\ Grows(d, s, e, s, t)
    BY <1>1, <1>5, ReworkedGood
  <1>7. Exists(e, System)
    BY <1>5 DEF Exists
  <1>8. r \in Cell(System) \ {Gap}
    <2>1. r \in SystemRows
      BY DEF SystemRows
    <2> HIDE DEF r
    <2> QED
      BY <2>1, <1>1, NeedFacts DEF Cell
  <1> HIDE DEF r
  <1>9. Reached(e, s, f, System)
    BY <1>6, <1>7, <1>8, InsertedGood
  <1>10. PICK v : Good(f, v) /\ Grows(e, s, f, v, System)
    BY <1>9 DEF Reached
  <1> HIDE DEF f
  <1>11. Exists(f, System)
    BY <1>1, <1>6, <1>7, <1>10, GrowsFacts
  <1>12. ASSUME NEW u \in Names \ {t, System}
         PROVE  Kept(d, s, f, v, u)
    <2>1. Kept(d, s, e, s, u)
      BY <1>1, <1>6, GrowsKeeps
    <2>2. Kept(e, s, f, v, u)
      BY <1>1, <1>6, <1>10, GrowsKeeps
    <2> QED
      BY <2>1, <2>2, KeptMore
  <1> QED
    BY <1>3, <1>10, <1>11, <1>12

AllNone == [t \in Names |-> None]

\* Opening the file keeps the layout: it forgets indexes, no page.
LEMMA LoadedGood ==
    ASSUME NEW d, NEW s, Good(d, s), NEW e, e = Db(d.dir, d.pages, AllNone)
    PROVE  /\ Good(e, s) /\ (Exists(d, System) => Exists(e, System))
           /\ \A u \in Names : Kept(d, s, e, s, u)
  <1>1. e.dir = d.dir /\ e.pages = d.pages /\ e.index = AllNone
    BY DEF Db
  <1>2. e \in DbType
    <2>1. d.dir \in Seq(DirEntry) /\ d.pages \in Seq(PageType)
      BY DbFields DEF Good
    <2>2. AllNone \in [Names -> IndexType \cup {None}]
      BY DEF AllNone
    <2> QED
      BY <2>1, <2>2 DEF DbType, Db
  <1>3. \A u \in Names : Hints(e.index[u], u, Reach(e, s, u))
    BY <1>1 DEF Hints, AllNone
  <1>4. Good(e, s)
    BY <1>1, <1>2, <1>3 DEF Good
  <1> QED
    BY <1>1, <1>4 DEF Kept, Exists

\* What loadIndexes leaves.
LEMMA LoadedIs ==
    ASSUME NEW d \in DbType
    PROVE  Loaded(d) = Db(d.dir, d.pages, AllNone)
  <1>1. DOMAIN d.index = Names
    BY DbFields
  <1>2. Loaded(d) = [d EXCEPT !.index = AllNone]
    BY <1>1 DEF Loaded, AllNone
  <1> QED
    BY <1>2, DbFields DEF Db

-----------------------------------------------------------------------------
(* CREATE TABLE.                                                           *)

\* createTable, field by field.
LEMMA CreatedField ==
    ASSUME NEW dir, NEW pages, NEW index, NEW t
    PROVE  Created(Db(dir, pages, index), t)
           = Db(Append(dir, [name |-> t, start |-> Len(pages) + 1, last |-> Len(pages) + 1]),
                Append(pages, EmptyPage), index)
  <1> DEFINE d == Db(dir, pages, index)
             x == [d EXCEPT !.pages = Append(@, EmptyPage)]
             y == Append(pages, EmptyPage)
             z == Append(dir, [name |-> t, start |-> Len(pages) + 1, last |-> Len(pages) + 1])
  <1>1. d.dir = dir /\ d.pages = pages /\ d.index = index
    BY DEF Db
  <1>2. x = Db(dir, y, index)
    BY DEF Db
  <1>3. Created(d, t) = [x EXCEPT !.dir = Append(d.dir, [name |-> t, start |-> Len(d.pages) + 1, last |-> Len(d.pages) + 1])]
    BY DEF Created
  <1> HIDE DEF x, y, d
  <1>4. Created(d, t) = [x EXCEPT !.dir = z]
    BY <1>1, <1>3
  <1> HIDE DEF z
  <1>5. [x EXCEPT !.dir = z] = Db(z, y, index)
    BY <1>2 DEF Db
  <1> QED
    BY <1>4, <1>5 DEF d, y, z

\* A page more, and an entry for it.
LEMMA CreatedIs ==
    ASSUME NEW d \in DbType, NEW t \in Names, NEW e, e = Created(d, t)
    PROVE  /\ e \in DbType /\ e.index = d.index
           /\ Len(e.pages) = Len(d.pages) + 1 /\ e.pages[Len(d.pages) + 1] = EmptyPage
           /\ \A p \in 1 .. Len(d.pages) : e.pages[p] = d.pages[p]
           /\ Len(e.dir) = Len(d.dir) + 1
           /\ e.dir[Len(d.dir) + 1]
              = [name |-> t, start |-> Len(d.pages) + 1, last |-> Len(d.pages) + 1]
           /\ \A i \in 1 .. Len(d.dir) : e.dir[i] = d.dir[i]
  <1> DEFINE x == [name |-> t, start |-> Len(d.pages) + 1, last |-> Len(d.pages) + 1]
             dir == Append(d.dir, x)
             pages == Append(d.pages, EmptyPage)
  <1>1. d.dir \in Seq(DirEntry) /\ d.pages \in Seq(PageType)
        /\ d.index \in [Names -> IndexType \cup {None}] /\ Len(d.pages) \in Nat
        /\ d = Db(d.dir, d.pages, d.index)
    BY DbFields DEF Db
  <1>2. e = Db(dir, pages, d.index)
    BY <1>1, CreatedField
  <1>3. x \in DirEntry
    BY <1>1 DEF DirEntry
  <1>4. EmptyPage \in PageType
    BY EmptyPageFacts
  <1> HIDE DEF x
  <1>5. /\ dir \in Seq(DirEntry) /\ Len(dir) = Len(d.dir) + 1 /\ dir[Len(d.dir) + 1] = x
        /\ \A i \in 1 .. Len(d.dir) : dir[i] = d.dir[i]
    BY <1>1, <1>3, AppendFacts
  <1>6. /\ pages \in Seq(PageType) /\ Len(pages) = Len(d.pages) + 1
        /\ pages[Len(d.pages) + 1] = EmptyPage
        /\ \A i \in 1 .. Len(d.pages) : pages[i] = d.pages[i]
    BY <1>1, <1>4, AppendFacts
  <1> HIDE DEF dir, pages
  <1>7. e.dir = dir /\ e.pages = pages /\ e.index = d.index
    BY <1>2 DEF Db
  <1>8. e \in DbType
    BY <1>1, <1>2, <1>5, <1>6 DEF Db, DbType
  <1> QED
    BY <1>5, <1>6, <1>7, <1>8 DEF x

Spined(s, t, p) == [s EXCEPT ![t] = <<p>>]

\* CREATE TABLE starts a spine and keeps the others.
LEMMA CreatedGood ==
    ASSUME NEW d, NEW s, Good(d, s), NEW t \in Names, ~ Exists(d, t),
           NEW e, e = Created(d, t), NEW v, v = Spined(s, t, Len(d.pages) + 1)
    PROVE  /\ Good(e, v)
           /\ \A u \in Names : u # t => Kept(d, s, e, v, u)
           /\ \A u \in Names : Exists(e, u) <=> Exists(d, u) \/ u = t
  <1> DEFINE P == Len(d.pages)
             n == Len(d.dir)
             sp == <<P + 1>>
             x == [name |-> t, start |-> P + 1, last |-> P + 1]
  <1>1. /\ d \in DbType /\ s \in SpinesType /\ P \in Nat /\ n \in Nat
        /\ s[t] = <<>>
    <2>1. d \in DbType /\ s \in SpinesType
      BY DEF Good
    <2>2. s[t] = <<>>
      BY ExistsFacts
    <2> QED
      BY <2>1, <2>2, DbFields
  <1>2. /\ e \in DbType /\ e.index = d.index
        /\ Len(e.pages) = P + 1 /\ e.pages[P + 1] = EmptyPage
        /\ \A p \in 1 .. P : e.pages[p] = d.pages[p]
        /\ Len(e.dir) = n + 1 /\ e.dir[n + 1] = x
        /\ \A i \in 1 .. n : e.dir[i] = d.dir[i]
    BY <1>1, CreatedIs
  <1> HIDE DEF P, n
  <1>3. sp \in Seq(Nat) /\ Len(sp) = 1 /\ sp[1] = P + 1 /\ sp # <<>>
    BY <1>1
  <1>4. /\ v \in SpinesType /\ v[t] = sp
        /\ \A u \in Names : u # t => v[u] = s[u]
    <2> HIDE DEF sp
    <2>1. v = [s EXCEPT ![t] = sp]
      BY DEF Spined, sp, P
    <2> QED
      BY <2>1, <1>1, <1>3 DEF SpinesType
  <1> HIDE DEF sp
  <1>5. ASSUME NEW i \in 1 .. n
        PROVE  /\ d.dir[i].name \in Names /\ d.dir[i].name # t
               /\ s[d.dir[i].name] # <<>>
    <2>1. d.dir[i].name \in Names
      BY <1>1, DbFields DEF n
    <2>2. s[d.dir[i].name] # <<>>
      BY DEF Good, Directory, n
    <2> QED
      BY <1>1, <2>1, <2>2
  <1>6. x.name = t /\ x.start = P + 1 /\ x.last = P + 1
    OBVIOUS
  <1> HIDE DEF x
  <1>7. \A p \in 1 .. P : d.pages[p].next \in Nat
                          /\ (d.pages[p].next = 0 \/ d.pages[p].next \in p + 1 .. P)
    BY <1>1, DbFields DEF Good, LinksOK, P
  <1>8. EmptyPage.next = 0 /\ PageOK(EmptyPage)
        /\ \A u : EmptyPage.cells \in Seq(Cell(u))
    BY EmptyPageFacts
  <1>9. LinksOK(e.pages)
    <2>1. LinksOK(d.pages)
      BY DEF Good
    <2>2. ASSUME NEW p \in 1 .. P + 1
          PROVE  /\ PageOK(e.pages[p])
                 /\ e.pages[p].next = 0 \/ e.pages[p].next \in p + 1 .. P + 1
                 /\ e.pages[p].next # 0 => p \in 1 .. P /\ e.pages[p] = d.pages[p]
      <3>1. CASE p \in 1 .. P
        <4>1. e.pages[p] = d.pages[p] /\ PageOK(d.pages[p])
          BY <3>1, <1>2, <2>1 DEF LinksOK, P
        <4>2. d.pages[p].next = 0 \/ d.pages[p].next \in p + 1 .. P + 1
          BY <3>1, <1>1, <1>7
        <4> QED
          BY <3>1, <4>1, <4>2
      <3>2. CASE p = P + 1
        BY <3>2, <1>2, <1>8
      <3> QED
        BY <3>1, <3>2, <1>1
    <2>3. \A p, q \in 1 .. P + 1 :
             e.pages[p].next = e.pages[q].next /\ e.pages[p].next # 0 => p = q
      <3> SUFFICES ASSUME NEW p \in 1 .. P + 1, NEW q \in 1 .. P + 1,
                          e.pages[p].next = e.pages[q].next, e.pages[p].next # 0
                   PROVE  p = q
        OBVIOUS
      <3>1. p \in 1 .. P /\ q \in 1 .. P /\ e.pages[p] = d.pages[p] /\ e.pages[q] = d.pages[q]
        BY <2>2
      <3> QED
        BY <2>1, <3>1 DEF LinksOK, P
    <2> QED
      BY <2>2, <2>3, <1>2 DEF LinksOK
  <1>10. Directory(e.dir, v)
    <2>1. Directory(d.dir, s)
      BY DEF Good
    <2>2. ASSUME NEW i \in 1 .. n
          PROVE  /\ v[e.dir[i].name] # <<>>
                 /\ e.dir[i].start = v[e.dir[i].name][1]
                 /\ e.dir[i].last = v[e.dir[i].name][Len(v[e.dir[i].name])]
      <3>1. e.dir[i] = d.dir[i] /\ v[d.dir[i].name] = s[d.dir[i].name]
        BY <1>2, <1>4, <1>5
      <3>2. /\ s[d.dir[i].name] # <<>>
            /\ d.dir[i].start = s[d.dir[i].name][1]
            /\ d.dir[i].last = s[d.dir[i].name][Len(s[d.dir[i].name])]
        BY <2>1 DEF Directory, n
      <3> QED
        BY <3>1, <3>2
    <2>3. /\ v[x.name] # <<>> /\ x.start = v[x.name][1] /\ x.last = v[x.name][Len(v[x.name])]
      BY <1>3, <1>4, <1>6
    <2>4. \A i, j \in 1 .. n : e.dir[i].name = e.dir[j].name => i = j
      BY <2>1, <1>2 DEF Directory, n
    <2>5. \A i \in 1 .. n : e.dir[i].name # e.dir[n + 1].name
      BY <1>2, <1>5, <1>6
    <2>6. \A i \in 1 .. n + 1 : i \in 1 .. n \/ i = n + 1
      BY <1>1
    <2> QED
      BY <2>2, <2>3, <2>4, <2>5, <2>6, <1>2 DEF Directory
  <1>11. \A u \in Names : \A k \in 1 .. Len(s[u]) : s[u][k] \in 1 .. P /\ s[u][k] # P + 1
    <2>1. \A u \in Names : \A k \in 1 .. Len(s[u]) : s[u][k] \in 1 .. P
      BY SpineFacts DEF P
    <2> QED
      BY <2>1, <1>1
  <1>12. SpinesApart(v)
    <2> SUFFICES ASSUME NEW u \in Names, NEW w \in Names,
                        NEW k \in 1 .. Len(v[u]), NEW l \in 1 .. Len(v[w]), v[u][k] = v[w][l]
                 PROVE  u = w /\ k = l
      BY DEF SpinesApart
    <2>1. \A y \in Names : y # t => v[y] = s[y]
      BY <1>4
    <2>2. CASE u = t /\ w = t
      BY <2>2, <1>3, <1>4
    <2>3. CASE u = t /\ w # t
      BY <2>3, <2>1, <1>3, <1>4, <1>11
    <2>4. CASE u # t /\ w = t
      BY <2>4, <2>1, <1>3, <1>4, <1>11
    <2>5. CASE u # t /\ w # t
      <3>1. SpinesApart(s)
        BY DEF Good
      <3> QED
        BY <3>1, <2>5, <2>1 DEF SpinesApart
    <2> QED
      BY <2>2, <2>3, <2>4, <2>5
  <1>13. ASSUME NEW u \in Names
         PROVE  Spine(e.pages, u, v[u])
    <2>1. CASE u = t
      <3>1. \A p \in 1 .. P + 1 : e.pages[p].next # P + 1
        <4>1. ASSUME NEW p \in 1 .. P
              PROVE  e.pages[p].next # P + 1
          <5> DEFINE m == d.pages[p].next
          <5>1. e.pages[p].next = m
            BY <1>2
          <5>2. m = 0 \/ m \in p + 1 .. P
            BY <1>7
          <5> HIDE DEF m
          <5>3. m # P + 1
            BY <1>1, <5>2
          <5> QED
            BY <5>1, <5>3
        <4>2. e.pages[P + 1].next # P + 1
          BY <1>1, <1>2, <1>8
        <4>3. \A p \in 1 .. P + 1 : p \in 1 .. P \/ p = P + 1
          BY <1>1
        <4> QED
          BY <4>1, <4>2, <4>3
      <3>2. P + 1 \in 1 .. P + 1 /\ \A k \in 1 .. 1 : k = 1
        BY <1>1
      <3>3. \A k \in 1 .. Len(sp) : sp[k] \in 1 .. P + 1 /\ e.pages[sp[k]].cells \in Seq(Cell(t))
        BY <3>2, <1>2, <1>3, <1>8
      <3>4. e.pages[sp[Len(sp)]].next = 0
        BY <1>2, <1>3, <1>8
      <3>5. \A k \in 1 .. Len(sp) : ~ (k + 1 <= Len(sp))
        BY <1>3
      <3> QED
        BY SMTT(60), <2>1, <3>1, <3>3, <3>4, <3>5, <1>2, <1>3, <1>4 DEF Spine
    <2>2. CASE u # t
      <3> DEFINE z == s[u]
      <3>1. Spine(d.pages, u, z) /\ v[u] = z
        BY <2>2, <1>4 DEF Good
      <3>2. \A k \in 1 .. Len(z) : e.pages[z[k]] = d.pages[z[k]] /\ z[k] \in 1 .. P
                                   /\ z[k] \in 1 .. P + 1
        BY <1>1, <1>2, <1>11
      <3>3. Len(z) \in Nat /\ (z # <<>> => Len(z) >= 1)
        BY SpineFacts
      <3> HIDE DEF z
      <3>4. \A k \in 1 .. Len(z) : /\ z[k] \in 1 .. P + 1
                                   /\ e.pages[z[k]].cells \in Seq(Cell(u))
                                   /\ k + 1 <= Len(z) => e.pages[z[k]].next = z[k + 1]
        BY <3>1, <3>2 DEF Spine
      <3>5. ASSUME z # <<>>
            PROVE  /\ \A p \in 1 .. P + 1 : e.pages[p].next # z[1]
                   /\ LET behind == e.pages[z[Len(z)]].next
                      IN behind # 0 => e.pages[behind] = EmptyPage
        <4>1. 1 \in 1 .. Len(z) /\ Len(z) \in 1 .. Len(z)
          BY <3>3, <3>5
        <4>2. z[1] \in 1 .. P /\ z[1] # 0
          BY <3>2, <4>1
        <4>3. \A p \in 1 .. P : e.pages[p].next # z[1]
          BY <3>1, <3>5, <1>2 DEF Spine, P
        <4>4. e.pages[P + 1].next # z[1]
          BY <1>2, <1>8, <4>2
        <4>5. \A p \in 1 .. P + 1 : p \in 1 .. P \/ p = P + 1
          BY <1>1
        <4> DEFINE b == d.pages[z[Len(z)]].next
        <4>6. b # 0 => d.pages[b] = EmptyPage
          BY <3>1, <3>5 DEF Spine
        <4>7. b # 0 => b \in 1 .. P
          <5>1. z[Len(z)] \in 1 .. P
            BY <3>2, <4>1
          <5>2. b \in Nat /\ (b = 0 \/ b \in z[Len(z)] + 1 .. P)
            BY <5>1, <1>7
          <5> QED
            BY <5>1, <5>2, <1>1
        <4>8. e.pages[z[Len(z)]].next = b
          BY <3>2, <4>1
        <4> HIDE DEF b
        <4>9. b # 0 => e.pages[b] = EmptyPage
          BY <4>6, <4>7, <1>2
        <4> QED
          BY <4>3, <4>4, <4>5, <4>8, <4>9
      <3> QED
        BY <3>1, <3>4, <3>5, <1>2 DEF Spine
    <2> QED
      BY <2>1, <2>2
  <1>14. ASSUME NEW u \in Names
         PROVE  Hints(e.index[u], u, Reach(e, v, u))
    <2>1. Hints(e.index[u], u, Reach(d, s, u))
      BY <1>2 DEF Good
    <2>2. ASSUME NEW p \in Reach(d, s, u)
          PROVE  p \in Reach(e, v, u)
      <3>1. p \in 1 .. P /\ p \in 1 .. P + 1 /\ p # P + 1 /\ e.pages[p] = d.pages[p]
        BY <1>1, <1>2 DEF Reach, P
      <3>2. \A k \in 1 .. Len(v[t]) : p # v[t][k]
        BY <3>1, <1>3, <1>4
      <3>3. Stray(d, s, p) => Stray(e, v, p)
        BY <3>1, <3>2, <1>4 DEF Stray
      <3>4. (\E k \in 1 .. Len(s[u]) : p = s[u][k]) => \E k \in 1 .. Len(v[u]) : p = v[u][k]
        <4>1. CASE u = t
          <5>1. Len(s[t]) = 0
            BY <1>1
          <5> QED
            BY <5>1, <4>1
        <4>2. CASE u # t
          BY <4>2, <1>4
        <4> QED
          BY <4>1, <4>2
      <3> QED
        BY <3>1, <3>3, <3>4, <1>2 DEF Reach
    <2> QED
      BY <2>1, <2>2, HintsMore
  <1>15. ASSUME NEW u \in Names, v[u] # <<>>
         PROVE  \E i \in 1 .. Len(e.dir) : e.dir[i].name = u
    <2>1. CASE u = t
      <3>1. n + 1 \in 1 .. Len(e.dir)
        BY <1>1, <1>2
      <3> QED
        BY <2>1, <3>1, <1>2, <1>6
    <2>2. CASE u # t
      <3>1. PICK i \in 1 .. n : d.dir[i].name = u
        BY <2>2, <1>4, <1>15 DEF Good, n
      <3>2. i \in 1 .. Len(e.dir)
        BY <1>1, <1>2
      <3> QED
        BY <3>1, <3>2, <1>2
    <2> QED
      BY <2>1, <2>2
  <1>16. Good(e, v)
    BY <1>2, <1>4, <1>9, <1>10, <1>12, <1>13, <1>14, <1>15 DEF Good
  <1>17. ASSUME NEW u \in Names, u # t
         PROVE  Kept(d, s, e, v, u)
    BY <1>2, <1>4, <1>11, <1>17 DEF Kept
  <1>18. ASSUME NEW u \in Names
         PROVE  Exists(e, u) <=> Exists(d, u) \/ u = t
    <2>1. (Exists(e, u) <=> v[u] # <<>>) /\ (Exists(d, u) <=> s[u] # <<>>)
      BY <1>16, ExistsFacts
    <2> QED
      BY <2>1, <1>3, <1>4
  <1> QED
    BY <1>16, <1>17, <1>18

-----------------------------------------------------------------------------
(* DROP TABLE.                                                             *)

\* The names stay, less t, each where its spine begins and ends.
LEMMA UnlistedIs ==
    ASSUME NEW d \in DbType, NEW s, Directory(d.dir, s), NEW t,
           \E i \in 1 .. Len(d.dir) : d.dir[i].name = t,
           NEW dir, dir = Unlisted(d.dir, t)
    PROVE  /\ dir \in Seq(DirEntry) /\ Len(dir) = Len(d.dir) - 1
           /\ \A i \in 1 .. Len(dir) : \E j \in 1 .. Len(d.dir) : dir[i] = d.dir[j]
           /\ \A i \in 1 .. Len(dir) : dir[i].name # t
           /\ \A i, j \in 1 .. Len(dir) : dir[i].name = dir[j].name => i = j
           /\ \A i \in 1 .. Len(d.dir) : d.dir[i].name # t
                 => \E j \in 1 .. Len(dir) : dir[j].name = d.dir[i].name
  <1> DEFINE c == d.dir
             n == Len(c)
  <1>1. c \in Seq(DirEntry) /\ n \in Nat /\ n >= 1
    <2>1. c \in Seq(DirEntry) /\ n \in Nat
      BY DbFields
    <2>2. \E i \in 1 .. n : c[i].name = t
      OBVIOUS
    <2> HIDE DEF n
    <2> QED
      BY <2>1, <2>2
  <1>2. \A i, j \in 1 .. n : c[i].name = c[j].name => i = j
    BY DEF Directory
  <1>3. PICK m \in 1 .. n : c[m].name = t
    OBVIOUS
  <1> HIDE DEF c
  <1>4. \A i \in 1 .. n : c[i] \in DirEntry
    BY <1>1
  <1>5. Last(c) = c[n]
    BY DEF Last
  <1>6. dir = [i \in 1 .. n - 1 |-> IF c[i].name = t THEN c[n] ELSE c[i]]
    BY <1>5 DEF Unlisted, c
  <1> HIDE DEF n
  <1>7. \A i \in 1 .. n - 1 : i \in 1 .. n /\ i # n /\ n \in 1 .. n
    BY <1>1
  <1>8. /\ dir \in Seq(DirEntry) /\ Len(dir) = n - 1
        /\ \A i \in 1 .. n - 1 : dir[i] = IF i = m THEN c[n] ELSE c[i]
    <2>1. \A i \in 1 .. n - 1 : (IF c[i].name = t THEN c[n] ELSE c[i]) \in DirEntry
      BY <1>4, <1>7
    <2>2. n - 1 \in Nat
      BY <1>1
    <2>3. \A i \in 1 .. n - 1 : c[i].name = t <=> i = m
      BY <1>2, <1>3, <1>7
    <2>4. \A i \in 1 .. n - 1 : dir[i] = IF c[i].name = t THEN c[n] ELSE c[i]
      BY <1>6
    <2>5. dir \in Seq(DirEntry) /\ Len(dir) = n - 1
      BY <1>6, <2>1, <2>2
    <2> QED
      BY <2>3, <2>4, <2>5
  <1>9. \A i \in 1 .. n - 1 : \E j \in 1 .. n : dir[i] = c[j]
    BY <1>7, <1>8
  <1>10. ASSUME NEW i \in 1 .. n - 1
         PROVE  dir[i].name # t
    <2>1. CASE i = m
      BY <2>1, <1>2, <1>3, <1>7, <1>8
    <2>2. CASE i # m
      BY <2>2, <1>2, <1>3, <1>7, <1>8
    <2> QED
      BY <2>1, <2>2
  <1>11. ASSUME NEW i \in 1 .. n - 1, NEW j \in 1 .. n - 1, dir[i].name = dir[j].name
         PROVE  i = j
    <2>1. CASE i = m /\ j = m
      BY <2>1
    <2>2. CASE i = m /\ j # m
      <3>1. c[n].name = c[j].name
        BY <2>2, <1>8, <1>11
      <3> QED
        BY <3>1, <1>2, <1>7
    <2>3. CASE i # m /\ j = m
      <3>1. c[n].name = c[i].name
        BY <2>3, <1>8, <1>11
      <3> QED
        BY <3>1, <1>2, <1>7
    <2>4. CASE i # m /\ j # m
      <3>1. c[i].name = c[j].name
        BY <2>4, <1>8, <1>11
      <3> QED
        BY <3>1, <1>2, <1>7
    <2> QED
      BY <2>1, <2>2, <2>3, <2>4
  <1>12. ASSUME NEW i \in 1 .. n, c[i].name # t
         PROVE  \E j \in 1 .. n - 1 : dir[j].name = c[i].name
    <2>1. i # m
      BY <1>3, <1>12
    <2>2. CASE i = n
      <3>1. m \in 1 .. n - 1
        BY <2>1, <2>2, <1>1
      <3> QED
        BY <2>2, <3>1, <1>8
    <2>3. CASE i # n
      <3>1. i \in 1 .. n - 1
        BY <2>3, <1>1
      <3> QED
        BY <2>1, <3>1, <1>8
    <2> QED
      BY <2>2, <2>3
  <1> QED
    BY <1>8, <1>9, <1>10, <1>11, <1>12 DEF c, n

WithDir(d, dir) == [d EXCEPT !.dir = dir]

\* A directory takes the place of another.
LEMMA WithDirIs ==
    ASSUME NEW d \in DbType, NEW dir \in Seq(DirEntry), NEW e, e = WithDir(d, dir)
    PROVE  e \in DbType /\ e.dir = dir /\ e.pages = d.pages /\ e.index = d.index
  <1>1. e = [dir |-> dir, pages |-> d.pages, index |-> d.index]
    BY DbFields DEF WithDir
  <1> QED
    BY <1>1, DbFields DEF DbType

Unspined(s, t) == [s EXCEPT ![t] = <<>>]

\* A table without an index leaves the directory; its pages are in no spine.
LEMMA UnlistedGood ==
    ASSUME NEW d, NEW s, Good(d, s), NEW t \in Names, Exists(d, t), d.index[t] = None,
           NEW e, e = WithDir(d, Unlisted(d.dir, t)), NEW v, v = Unspined(s, t)
    PROVE  /\ Good(e, v)
           /\ \A u \in Names : u # t => Kept(d, s, e, v, u)
           /\ \A u \in Names : Exists(e, u) <=> Exists(d, u) /\ u # t
  <1> DEFINE dir == Unlisted(d.dir, t)
  <1>1. d \in DbType /\ s \in SpinesType /\ Directory(d.dir, s)
    BY DEF Good
  <1>2. \E i \in 1 .. Len(d.dir) : d.dir[i].name = t
    <2>1. s[t] # <<>>
      BY ExistsFacts
    <2> QED
      BY <2>1 DEF Good
  <1>3. /\ dir \in Seq(DirEntry) /\ Len(dir) = Len(d.dir) - 1
        /\ \A i \in 1 .. Len(dir) : \E j \in 1 .. Len(d.dir) : dir[i] = d.dir[j]
        /\ \A i \in 1 .. Len(dir) : dir[i].name # t
        /\ \A i, j \in 1 .. Len(dir) : dir[i].name = dir[j].name => i = j
        /\ \A i \in 1 .. Len(d.dir) : d.dir[i].name # t
              => \E j \in 1 .. Len(dir) : dir[j].name = d.dir[i].name
    BY ZenonT(60), <1>1, <1>2, UnlistedIs
  <1>4. e = WithDir(d, dir)
    OBVIOUS
  <1> HIDE DEF dir
  <1>5. e \in DbType /\ e.dir = dir /\ e.pages = d.pages /\ e.index = d.index
    BY <1>1, <1>3, <1>4, WithDirIs
  <1>6. /\ v \in SpinesType /\ v[t] = <<>> /\ Len(v[t]) = 0
        /\ \A u \in Names : u # t => v[u] = s[u]
    <2>1. <<>> \in Seq(Nat) /\ Len(<<>>) = 0
      OBVIOUS
    <2> QED
      BY <2>1, <1>1 DEF SpinesType, Unspined
  <1>7. ASSUME NEW i \in 1 .. Len(dir)
        PROVE  /\ v[dir[i].name] # <<>>
               /\ dir[i].start = v[dir[i].name][1]
               /\ dir[i].last = v[dir[i].name][Len(v[dir[i].name])]
    <2>1. PICK j \in 1 .. Len(d.dir) : dir[i] = d.dir[j]
      BY <1>3
    <2>2. d.dir[j].name \in Names /\ d.dir[j].name # t
      BY <2>1, <1>1, <1>3, DbFields
    <2>3. /\ s[d.dir[j].name] # <<>>
          /\ d.dir[j].start = s[d.dir[j].name][1]
          /\ d.dir[j].last = s[d.dir[j].name][Len(s[d.dir[j].name])]
      BY <1>1 DEF Directory
    <2>4. v[d.dir[j].name] = s[d.dir[j].name]
      BY <2>2, <1>6
    <2> QED
      BY <2>1, <2>3, <2>4
  <1>8. Directory(e.dir, v)
    BY <1>3, <1>5, <1>7 DEF Directory
  <1>9. SpinesApart(v)
    <2> SUFFICES ASSUME NEW u \in Names, NEW w \in Names,
                        NEW k \in 1 .. Len(v[u]), NEW l \in 1 .. Len(v[w]), v[u][k] = v[w][l]
                 PROVE  u = w /\ k = l
      BY DEF SpinesApart
    <2>1. u # t /\ w # t
      BY <1>6
    <2>2. v[u] = s[u] /\ v[w] = s[w]
      BY <2>1, <1>6
    <2>3. SpinesApart(s)
      BY DEF Good
    <2> QED
      BY <2>2, <2>3 DEF SpinesApart
  <1>10. ASSUME NEW u \in Names
         PROVE  Spine(e.pages, u, v[u]) /\ Hints(e.index[u], u, Reach(e, v, u))
    <2>1. CASE u = t
      BY <2>1, <1>5, <1>6 DEF Spine, Hints
    <2>2. CASE u # t
      <3>1. Spine(e.pages, u, v[u]) /\ Hints(e.index[u], u, Reach(d, s, u))
        BY <2>2, <1>5, <1>6 DEF Good
      <3>2. Reach(d, s, u) \subseteq Reach(e, v, u)
        BY <2>2, <1>5, <1>6 DEF Reach, Stray
      <3> QED
        BY <3>1, <3>2, HintsMore
    <2> QED
      BY <2>1, <2>2
  <1>11. ASSUME NEW u \in Names, v[u] # <<>>
         PROVE  \E i \in 1 .. Len(e.dir) : e.dir[i].name = u
    <2>1. u # t /\ s[u] # <<>>
      BY <1>6, <1>11
    <2>2. PICK j \in 1 .. Len(d.dir) : d.dir[j].name = u
      BY <2>1 DEF Good
    <2> QED
      BY <2>1, <2>2, <1>3, <1>5
  <1>12. LinksOK(e.pages)
    BY <1>5 DEF Good
  <1>13. Good(e, v)
    BY <1>5, <1>6, <1>8, <1>9, <1>10, <1>11, <1>12 DEF Good
  <1>14. \A u \in Names : u # t => Kept(d, s, e, v, u)
    BY <1>5, <1>6 DEF Kept
  <1>15. ASSUME NEW u \in Names
         PROVE  Exists(e, u) <=> Exists(d, u) /\ u # t
    <2>1. (Exists(e, u) <=> v[u] # <<>>) /\ (Exists(d, u) <=> s[u] # <<>>)
      BY <1>13, ExistsFacts
    <2> QED
      BY <2>1, <1>6
  <1> QED
    BY <1>13, <1>14, <1>15

\* One spine, one directory.
LEMMA SameDirectory ==
    ASSUME NEW d, NEW s, Good(d, s), NEW e, Good(e, s), NEW t \in Names, Grows(d, s, e, s, t)
    PROVE  e.dir = d.dir
  <1>1. d \in DbType /\ e \in DbType
    BY DEF Good
  <1>2. Len(e.dir) = Len(d.dir) /\ \A i \in 1 .. Len(d.dir) : e.dir[i].name = d.dir[i].name
    BY DEF Grows
  <1>3. ASSUME NEW i \in 1 .. Len(d.dir)
        PROVE  e.dir[i] = d.dir[i]
    <2>1. e.dir[i].start = d.dir[i].start /\ e.dir[i].last = d.dir[i].last
      <3>1. Directory(e.dir, s) /\ Directory(d.dir, s)
        BY DEF Good
      <3> QED
        BY <3>1, <1>2 DEF Directory
    <2>2. e.dir[i] \in DirEntry /\ d.dir[i] \in DirEntry
      BY <1>1, <1>2, DbFields
    <2> QED
      BY <2>1, <2>2, <1>2 DEF DirEntry
  <1>4. /\ d.dir \in Seq(DirEntry) /\ e.dir \in Seq(DirEntry)
        /\ DOMAIN d.dir = 1 .. Len(d.dir) /\ DOMAIN e.dir = 1 .. Len(e.dir)
    BY <1>1, DbFields
  <1> QED
    BY <1>2, <1>3, <1>4

\* DROP TABLE ends one spine, and deletes records of _indexes.
LEMMA DroppedGood ==
    ASSUME NEW d, NEW s, Good(d, s), NEW t \in Tables, Exists(d, t), Exists(d, System)
    PROVE  \E v : /\ Good(Dropped(d, t), v)
                  /\ Exists(Dropped(d, t), System)
                  /\ \A u \in Names \ {t, System} : Kept(d, s, Dropped(d, t), v, u)
  <1> DEFINE e == WithIndex(d, t, None)
             where == [on |-> "key", is |-> t]
             f == Deleted(e, System, where)
             x == WithDir(f, Unlisted(d.dir, t))
             v == Unspined(s, t)
  <1>1. t \in Names /\ System \in Names /\ System # t
    BY NamesApart DEF Names
  <1>2. Dropped(d, t) = x
    BY DEF Dropped, Unrecorded, WithIndex, WithDir
  <1>3. d \in DbType /\ None \in IndexType \cup {None} /\ Hints(None, t, Reach(d, s, t))
    BY DEF Good, Hints
  <1>4. Reworked(d, s, e, t) /\ e.dir = d.dir /\ e.index[t] = None
    BY <1>1, <1>3, WithIndexGood, WithIndexIs
  <1> HIDE DEF e, where
  <1>5. Good(e, s) /\ Grows(d, s, e, s, t)
    BY <1>1, <1>4, ReworkedGood
  <1>6. Exists(e, System) /\ Exists(e, t)
    BY <1>4 DEF Exists
  <1>7. Good(f, s) /\ Grows(e, s, f, s, System)
    BY <1>5, <1>6, DeletedGood
  <1> HIDE DEF f
  <1>8. f.dir = d.dir /\ f.index[t] = None
    <2>1. f.dir = e.dir
      BY <1>1, <1>5, <1>7, SameDirectory
    <2>2. f.index[t] = e.index[t]
      BY <1>1, <1>7 DEF Grows
    <2> QED
      BY <2>1, <2>2, <1>4
  <1>9. Exists(f, System) /\ Exists(f, t)
    BY <1>4, <1>6, <1>8 DEF Exists
  <1>10. x = WithDir(f, Unlisted(f.dir, t))
    BY <1>8
  <1> HIDE DEF x, v
  <1>11. /\ Good(x, v)
         /\ \A u \in Names : u # t => Kept(f, s, x, v, u)
         /\ \A u \in Names : Exists(x, u) <=> Exists(f, u) /\ u # t
    <2>1. v = Unspined(s, t)
      BY DEF v
    <2>2. Good(f, s) /\ Exists(f, t) /\ f.index[t] = None /\ t \in Names
      BY <1>1, <1>7, <1>8, <1>9
    <2>3. Good(x, v)
      BY <2>1, <2>2, <1>10, UnlistedGood
    <2>4. \A u \in Names : u # t => Kept(f, s, x, v, u)
      BY <2>1, <2>2, <1>10, UnlistedGood
    <2>5. \A u \in Names : Exists(x, u) <=> Exists(f, u) /\ u # t
      BY <2>1, <2>2, <1>10, UnlistedGood
    <2> QED
      BY <2>3, <2>4, <2>5
  <1>12. ASSUME NEW u \in Names \ {t, System}
         PROVE  Kept(d, s, x, v, u)
    <2>1. Kept(d, s, e, s, u)
      BY <1>1, <1>5, GrowsKeeps
    <2>2. Kept(e, s, f, s, u)
      BY <1>1, <1>5, <1>7, GrowsKeeps
    <2>3. Kept(f, s, x, v, u)
      BY <1>11
    <2>4. Kept(d, s, f, s, u)
      BY <2>1, <2>2, KeptMore
    <2> QED
      BY <2>3, <2>4, KeptMore
  <1>13. Exists(x, System)
    BY <1>1, <1>9, <1>11
  <1> QED
    BY <1>2, <1>11, <1>12, <1>13

-----------------------------------------------------------------------------
(* A new file.                                                             *)

Fresh == [dir : Seq(DirEntry), pages : Seq(PageType), index : {<<>>}]

\* The file once it is open.
Opened(z) == Db(z.dir, z.pages, AllNone)

\* Indexes are no matter to createTable.
LEMMA FreshCreated ==
    ASSUME NEW z \in Fresh, NEW t \in Names
    PROVE  Created(z, t) \in Fresh /\ Opened(Created(z, t)) = Created(Opened(z), t)
  <1> DEFINE dir == z.dir
             pages == z.pages
             x == [name |-> t, start |-> Len(pages) + 1, last |-> Len(pages) + 1]
             a == Append(dir, x)
             b == Append(pages, EmptyPage)
  <1>1. z = Db(dir, pages, <<>>) /\ dir \in Seq(DirEntry) /\ pages \in Seq(PageType)
    BY DEF Fresh, Db
  <1> HIDE DEF dir, pages
  <1>2. Len(pages) \in Nat
    BY <1>1
  <1>3. a \in Seq(DirEntry)
    <2>1. x \in DirEntry
      BY <1>2 DEF DirEntry
    <2> HIDE DEF x
    <2> QED
      BY <1>1, <2>1
  <1>4. b \in Seq(PageType)
    BY <1>1, EmptyPageFacts
  <1>5. Created(z, t) = Db(a, b, <<>>)
    BY <1>1, CreatedField
  <1>6. Opened(z) = Db(dir, pages, AllNone)
    BY DEF Opened, dir, pages
  <1>7. Created(Opened(z), t) = Db(a, b, AllNone)
    BY <1>6, CreatedField
  <1> HIDE DEF a, b
  <1>8. Created(z, t) \in Fresh
    BY <1>3, <1>4, <1>5 DEF Fresh, Db
  <1>9. Opened(Created(z, t)) = Db(a, b, AllNone)
    BY <1>5 DEF Opened, Db
  <1> QED
    BY <1>7, <1>8, <1>9

\* A file without tables.
LEMMA EmptyGood ==
    ASSUME NEW d, d = Db(<<>>, <<>>, AllNone), NEW s, s = [t \in Names |-> <<>>]
    PROVE  Good(d, s) /\ \A t : ~ Exists(d, t)
  <1>1. d.dir = <<>> /\ d.pages = <<>> /\ d.index = AllNone
    BY DEF Db
  <1>2. /\ <<>> \in Seq(DirEntry) /\ <<>> \in Seq(PageType) /\ <<>> \in Seq(Nat)
        /\ Len(<<>>) = 0 /\ 1 .. 0 = {} /\ ToSet(<<>>) = {}
    BY DEF ToSet
  <1>3. AllNone \in [Names -> IndexType \cup {None}]
    BY DEF AllNone
  <1>4. d \in DbType
    BY <1>2, <1>3 DEF DbType, Db
  <1>5. s \in SpinesType /\ \A t \in Names : s[t] = <<>>
    BY <1>2 DEF SpinesType
  <1> HIDE DEF AllNone
  <1>6. ASSUME NEW t \in Names
        PROVE  Spine(d.pages, t, s[t]) /\ Hints(d.index[t], t, Reach(d, s, t))
    <2>1. Spine(d.pages, t, s[t])
      BY <1>1, <1>2, <1>5 DEF Spine
    <2>2. d.index[t] = None
      BY <1>1 DEF AllNone
    <2> QED
      BY <2>1, <2>2 DEF Hints
  <1>7. LinksOK(d.pages) /\ Directory(d.dir, s) /\ SpinesApart(s)
    BY <1>1, <1>2, <1>5 DEF LinksOK, Directory, SpinesApart
  <1>8. Good(d, s)
    BY <1>4, <1>5, <1>6, <1>7 DEF Good
  <1>9. \A t : ~ Exists(d, t)
    BY <1>1, <1>2 DEF Exists
  <1> QED
    BY <1>8, <1>9

\* The file z has the tables that the first k names are, and no rows.
AllEmpty(d) == \A p \in 1 .. Len(d.pages) : d.pages[p] = EmptyPage
Has(z, names, k) ==
    \E s : /\ Good(Opened(z), s)
           /\ \A t \in Names : Exists(Opened(z), t) <=> \E i \in 1 .. k : names[i] = t
           /\ AllEmpty(Opened(z))

\* CREATE TABLE adds an empty page.
LEMMA CreatedEmpty ==
    ASSUME NEW d \in DbType, AllEmpty(d), NEW t \in Names, NEW e, e = Created(d, t)
    PROVE  AllEmpty(e)
  <1>1. /\ Len(e.pages) = Len(d.pages) + 1 /\ e.pages[Len(d.pages) + 1] = EmptyPage
        /\ \A p \in 1 .. Len(d.pages) : e.pages[p] = d.pages[p]
    BY CreatedIs, ZenonT(30)
  <1>2. Len(d.pages) \in Nat
    BY DbFields
  <1>3. \A p \in 1 .. Len(e.pages) : p \in 1 .. Len(d.pages) \/ p = Len(d.pages) + 1
    BY <1>1, <1>2
  <1> QED
    BY <1>1, <1>3 DEF AllEmpty

\* One more table is created.
LEMMA HasMore ==
    ASSUME NEW names \in Seq(Names), NEW k \in 1 .. Len(names),
           \A i, j \in 1 .. Len(names) : names[i] = names[j] => i = j,
           NEW z \in Fresh, Has(z, names, k - 1)
    PROVE  Created(z, names[k]) \in Fresh /\ Has(Created(z, names[k]), names, k)
  <1> DEFINE t == names[k]
             d == Opened(z)
             e == Created(d, t)
  <1>1. t \in Names /\ Len(names) \in Nat
    OBVIOUS
  <1>2. Created(z, t) \in Fresh /\ Opened(Created(z, t)) = e
    BY <1>1, FreshCreated
  <1>3. PICK s : /\ Good(d, s)
                 /\ \A u \in Names : Exists(d, u) <=> \E i \in 1 .. k - 1 : names[i] = u
                 /\ AllEmpty(d)
    BY DEF Has
  <1>4. \A i \in 1 .. k - 1 : i \in 1 .. Len(names) /\ i # k
    BY <1>1
  <1>5. ~ Exists(d, t)
    BY <1>1, <1>3, <1>4
  <1> DEFINE v == Spined(s, t, Len(d.pages) + 1)
  <1>6. Good(e, v) /\ \A u \in Names : Exists(e, u) <=> Exists(d, u) \/ u = t
    <2> HIDE DEF t, d
    <2>1. Good(e, v)
      BY <1>1, <1>3, <1>5, CreatedGood
    <2>2. \A u \in Names : Exists(e, u) <=> Exists(d, u) \/ u = t
      BY <1>1, <1>3, <1>5, CreatedGood
    <2> QED
      BY <2>1, <2>2
  <1>8. AllEmpty(e)
    <2>1. d \in DbType
      BY <1>3 DEF Good
    <2>4. e = Created(d, t)
      OBVIOUS
    <2> HIDE DEF t, d, e
    <2> QED
      BY <1>1, <1>3, <2>1, <2>4, CreatedEmpty
  <1> HIDE DEF v, e, d
  <1>7. ASSUME NEW u \in Names
        PROVE  Exists(e, u) <=> \E i \in 1 .. k : names[i] = u
    <2>1. \A i \in 1 .. k : i = k \/ i \in 1 .. k - 1
      OBVIOUS
    <2>2. k \in 1 .. k /\ \A i \in 1 .. k - 1 : i \in 1 .. k
      OBVIOUS
    <2> QED
      BY <1>3, <1>6, <2>1, <2>2
  <1> QED
    BY <1>2, <1>6, <1>7, <1>8 DEF Has

\* A new file has the tables it was created with.
LEMMA NewFileHas ==
    ASSUME NEW names \in Seq(Names),
           \A i, j \in 1 .. Len(names) : names[i] = names[j] => i = j
    PROVE  NewFile(names) \in Fresh /\ Has(NewFile(names), names, Len(names))
  <1> DEFINE n == Len(names)
             base == [dir |-> <<>>, pages |-> <<>>, index |-> <<>>]
             Iter(f) == f = [q \in SUBSET (DOMAIN names) |->
                               IF q = {} THEN base
                               ELSE Created(f[q \ {Max(q)}], names[Max(q)])]
             g == CHOOSE f : Iter(f)
             F == [x \in Fresh \X (1 .. n) |-> Created(x[1], names[x[2]])]
             J == [k \in 0 .. n |-> Fresh]
             H == [k \in 0 .. n |-> {z \in Fresh : Has(z, names, k)}]
  <1>1. NewFile(names) = g[DOMAIN names]
    BY DEF NewFile, FoldLeft, MapThenFoldSet
  <1>2. n \in Nat /\ DOMAIN names = 1 .. n /\ \A k \in 1 .. n : names[k] \in Names
    OBVIOUS
  <1>3. base \in Fresh /\ base = Db(<<>>, <<>>, <<>>)
    BY DEF Fresh, Db
  <1>4. Has(base, names, 0)
    <2>1. Opened(base) = Db(<<>>, <<>>, AllNone)
      BY DEF Opened
    <2>2. Good(Opened(base), [t \in Names |-> <<>>]) /\ \A t : ~ Exists(Opened(base), t)
      <3> HIDE DEF base
      <3>1. Good(Opened(base), [t \in Names |-> <<>>])
        BY <2>1, EmptyGood
      <3>2. \A t : ~ Exists(Opened(base), t)
        BY <2>1, EmptyGood
      <3> QED
        BY <3>1, <3>2
    <2>4. AllEmpty(Opened(base))
      BY <2>1 DEF AllEmpty, Db
    <2> HIDE DEF base
    <2>3. 1 .. 0 = {}
      OBVIOUS
    <2> QED
      BY <2>2, <2>3, <2>4 DEF Has
  <1> HIDE DEF base
  <1>5. \A k \in 1 .. n : \A z \in Fresh : Created(z, names[k]) \in Fresh
    BY <1>2, FreshCreated
  <1>6. \A k \in 1 .. n : \A z \in Fresh :
           Has(z, names, k - 1) => Has(Created(z, names[k]), names, k)
    BY HasMore
  <1> HIDE DEF n
  <1>7. /\ n \in 0 .. n /\ J[n] = Fresh /\ J[0] = Fresh
        /\ \A k \in 1 .. n : J[k] = Fresh /\ J[k - 1] = Fresh
    BY <1>2
  <1>8. \A k \in 0 .. n : H[k] = {z \in Fresh : Has(z, names, k)}
    OBVIOUS
  <1>9. \A k \in 1 .. n : \A z \in Fresh : F[<<z, k>>] = Created(z, names[k])
    OBVIOUS
  <1> HIDE DEF J, F, H
  <1>10. \E f : Iter(f)
    <2>1. Growing(n, F, J)
      <3>1. ASSUME NEW k \in 1 .. n, NEW z \in J[k - 1]
            PROVE  z \in J[k] /\ F[<<z, k>>] \in J[k]
        <4>1. z \in Fresh /\ J[k] = Fresh
          BY <1>7
        <4>2. F[<<z, k>>] \in Fresh
          BY <4>1, <1>5, <1>9
        <4> QED
          BY <4>1, <4>2
      <3> QED
        BY <3>1 DEF Growing
    <2>2. PICK f : Folding(f, n, base, F, J)
      BY <2>1, <1>2, <1>3, <1>7, FoldIsThere
    <2>3. ASSUME NEW q \in SUBSET (1 .. n), q # {}
          PROVE  F[<<f[q \ {Max(q)}], Max(q)>>] = Created(f[q \ {Max(q)}], names[Max(q)])
      <3>1. Max(q) \in 1 .. n
        BY <1>2, <2>3, MaxIn
      <3>2. q \ {Max(q)} \in SUBSET (1 .. n)
        OBVIOUS
      <3>3. f[q \ {Max(q)}] \in Fresh
        <4>1. f[q \ {Max(q)}] \in J[n]
          BY <2>2, <3>2, <1>7 DEF Folding
        <4> QED
          BY <4>1, <1>7
      <3> QED
        BY <3>1, <3>3, <1>9
    <2>4. Iter(f)
      BY <2>2, <2>3, <1>2 DEF Folding
    <2> HIDE DEF Iter
    <2> QED
      BY <2>4
  <1>11. Iter(g)
    <2> HIDE DEF Iter
    <2> QED
      BY <1>10
  <1> HIDE DEF g
  <1>12. \A q \in SUBSET (1 .. n) :
           g[q] = IF q = {} THEN base ELSE Created(g[q \ {Max(q)}], names[Max(q)])
    BY <1>2, <1>11
  <1> HIDE DEF Iter
  <1>13. g[1 .. n] \in H[n]
    <2>1. g[{}] \in H[0]
      <3>1. {} \in SUBSET (1 .. n) /\ 0 \in 0 .. n
        BY <1>2
      <3>2. \A q \in SUBSET (1 .. n) : q = {} => g[q] = base
        BY <1>12
      <3>3. g[{}] = base
        BY <3>1, <3>2
      <3> QED
        BY <3>1, <3>3, <1>3, <1>4, <1>8
    <2>2. ASSUME NEW q \in SUBSET (1 .. n), NEW k \in q, Max(q) = k, g[q \ {k}] \in H[k - 1]
          PROVE  g[q] \in H[k]
      <3>1. k \in 1 .. n /\ q # {} /\ k \in 0 .. n /\ k - 1 \in 0 .. n
        BY <1>2
      <3>2. g[q] = Created(g[q \ {k}], names[k])
        BY <2>2, <3>1, <1>12
      <3>3. g[q \ {k}] \in Fresh /\ Has(g[q \ {k}], names, k - 1)
        BY <2>2, <3>1, <1>8
      <3>4. Created(g[q \ {k}], names[k]) \in Fresh
            /\ Has(Created(g[q \ {k}], names[k]), names, k)
        BY <3>1, <3>3, <1>5, <1>6
      <3> QED
        BY <3>1, <3>2, <3>4, <1>8
    <2> QED
      BY <1>2, <2>1, <2>2, FoldStays
  <1>14. NewFile(names) \in {z \in Fresh : Has(z, names, n)}
    BY <1>1, <1>2, <1>7, <1>8, <1>13
  <1> QED
    BY <1>14 DEF n

-----------------------------------------------------------------------------
(* What a scan finds.                                                      *)

\* The rows of the pages c.
Gathered(d, c) == FoldLeft(LAMBDA s, p : s \o Legible(d.pages[p]), <<>>, c)

\* The same pages give the same rows.
LEMMA SamePagesSameRows ==
    ASSUME NEW d, NEW e, NEW c \in Seq(Nat),
           \A k \in 1 .. Len(c) : e.pages[c[k]] = d.pages[c[k]]
    PROVE  Gathered(e, c) = Gathered(d, c)
  <1> DEFINE D(f) == f = [q \in SUBSET (DOMAIN c) |->
                            IF q = {} THEN <<>>
                            ELSE f[q \ {Max(q)}] \o Legible(d.pages[c[Max(q)]])]
             E(f) == f = [q \in SUBSET (DOMAIN c) |->
                            IF q = {} THEN <<>>
                            ELSE f[q \ {Max(q)}] \o Legible(e.pages[c[Max(q)]])]
  <1>1. /\ Gathered(d, c) = (CHOOSE f : D(f))[DOMAIN c]
        /\ Gathered(e, c) = (CHOOSE f : E(f))[DOMAIN c]
    BY DEF Gathered, FoldLeft, MapThenFoldSet
  <1>2. \A q \in SUBSET (DOMAIN c) : q # {} => e.pages[c[Max(q)]] = d.pages[c[Max(q)]]
    <2> SUFFICES ASSUME NEW q \in SUBSET (DOMAIN c), q # {}
                 PROVE  Max(q) \in DOMAIN c /\ DOMAIN c = 1 .. Len(c)
      OBVIOUS
    <2>1. DOMAIN c = 1 .. Len(c) /\ Len(c) \in Nat
      OBVIOUS
    <2> QED
      BY <2>1, MaxIn
  <1>3. ASSUME NEW f
        PROVE  D(f) <=> E(f)
    <2> DEFINE x == [q \in SUBSET (DOMAIN c) |->
                       IF q = {} THEN <<>> ELSE f[q \ {Max(q)}] \o Legible(d.pages[c[Max(q)]])]
               y == [q \in SUBSET (DOMAIN c) |->
                       IF q = {} THEN <<>> ELSE f[q \ {Max(q)}] \o Legible(e.pages[c[Max(q)]])]
    <2>1. x = y
      BY <1>2
    <2> QED
      BY <2>1
  <1> HIDE DEF D, E
  <1>4. (CHOOSE f : D(f)) = (CHOOSE f : E(f))
    BY <1>3
  <1> QED
    BY <1>1, <1>4

\* So a scan of a table that is kept finds what it found.
LEMMA KeptScan ==
    ASSUME NEW d, NEW s, Good(d, s), NEW e, NEW v, Good(e, v),
           NEW u \in Names, Kept(d, s, e, v, u)
    PROVE  /\ Scanned(e, u) = Scanned(d, u)
           /\ s[u] # <<>> => Scan(e, u) = Scan(d, u)
  <1>1. v[u] = s[u] /\ \A k \in 1 .. Len(s[u]) : e.pages[s[u][k]] = d.pages[s[u][k]]
    BY DEF Kept
  <1>2. (Exists(d, u) <=> s[u] # <<>>) /\ (Exists(e, u) <=> s[u] # <<>>)
    <2>1. Exists(d, u) <=> s[u] # <<>>
      BY ExistsFacts
    <2>2. Exists(e, u) <=> v[u] # <<>>
      BY ExistsFacts
    <2> QED
      BY <2>1, <2>2, <1>1
  <1>3. CASE s[u] = <<>>
    BY <1>2, <1>3 DEF Scanned
  <1>4. CASE s[u] # <<>>
    <2> DEFINE c == Whole(d.pages, s[u])
               m == Len(s[u])
    <2>1. m \in 1 .. m
      BY <1>4, SpineFacts
    <2>2. Whole(e.pages, v[u]) = c
      BY <1>1, <2>1 DEF Whole, Behind
    <2>3. /\ c \in Seq(Nat)
          /\ \A k \in 1 .. m : c[k] = s[u][k]
          /\ \A k \in 1 .. Len(c) : k <= m \/ d.pages[c[k]] = EmptyPage
      BY <1>4, WholeFacts
    <2>4. /\ \A k \in 1 .. m : c[k] = v[u][k]
          /\ \A k \in 1 .. Len(c) : k <= m \/ e.pages[c[k]] = EmptyPage
      <3>1. v[u] # <<>> /\ c = Whole(e.pages, v[u]) /\ Len(v[u]) = m
        BY <1>1, <1>4, <2>2
      <3> HIDE DEF c, m
      <3>2. /\ \A k \in 1 .. Len(v[u]) : c[k] = v[u][k]
            /\ \A k \in 1 .. Len(c) : k <= Len(v[u]) \/ e.pages[c[k]] = EmptyPage
        BY <3>1, WholeFacts
      <3> QED
        BY <3>1, <3>2
    <2>5. Chain(d, u) = c
      BY <1>2, <1>4, ChainIs
    <2>6. Chain(e, u) = c
      BY <1>2, <1>4, <2>2, ChainIs
    <2> HIDE DEF c
    <2>7. \A k \in 1 .. Len(c) : e.pages[c[k]] = d.pages[c[k]]
      <3> SUFFICES ASSUME NEW k \in 1 .. Len(c), k <= m
                   PROVE  e.pages[c[k]] = d.pages[c[k]]
        BY <2>3, <2>4
      <3>1. k \in 1 .. m
        BY <2>1
      <3> QED
        BY <1>1, <2>3, <3>1
    <2>8. Gathered(e, c) = Gathered(d, c)
      BY <2>3, <2>7, SamePagesSameRows
    <2>9. Scan(e, u) = Scan(d, u)
      BY <2>5, <2>6, <2>8 DEF Scan, Gathered
    <2> QED
      BY <1>2, <1>4, <2>9 DEF Scanned
  <1> QED
    BY <1>3, <1>4

-----------------------------------------------------------------------------
(* What each statement touches.                                            *)

\* From d to e only the table t has changed, and perhaps _indexes.
Touches(d, e, t) ==
    \E s, v : /\ Good(d, s) /\ Good(e, v) /\ Exists(e, System)
              /\ \A u \in Tables \ {t} : Kept(d, s, e, v, u)

\* What grows a table touches that table only.
LEMMA ReachedTouches ==
    ASSUME NEW d, NEW s, Good(d, s), Exists(d, System), NEW t \in Tables,
           NEW e, Reached(d, s, e, t)
    PROVE  Touches(d, e, t)
  <1>1. t \in Names /\ System \in Names /\ System # t /\ Tables \subseteq Names
    BY NamesApart DEF Names
  <1>2. PICK v : Good(e, v) /\ Grows(d, s, e, v, t)
    BY DEF Reached
  <1>3. \A u \in Names : u # t => Kept(d, s, e, v, u)
    BY <1>1, <1>2, GrowsKeeps
  <1>4. Exists(e, System)
    <2>1. (Exists(d, System) <=> s[System] # <<>>) /\ (Exists(e, System) <=> v[System] # <<>>)
      <3>1. Exists(d, System) <=> s[System] # <<>>
        BY <1>1, ExistsFacts
      <3>2. Exists(e, System) <=> v[System] # <<>>
        BY <1>1, <1>2, ExistsFacts
      <3> QED
        BY <3>1, <3>2
    <2>2. v[System] = s[System]
      BY <1>1, <1>3 DEF Kept
    <2> QED
      BY <2>1, <2>2
  <1> QED
    BY <1>1, <1>2, <1>3, <1>4 DEF Touches

\* INSERT touches its table only.
LEMMA InsertTouches ==
    ASSUME NEW d, NEW s, Good(d, s), Exists(d, System), NEW t \in Tables, Exists(d, t),
           NEW r \in Rows
    PROVE  Touches(d, Inserted(d, t, r), t)
  <1>1. r \in Cell(t) \ {Gap}
    BY NeedFacts DEF Cell
  <1>2. Reached(d, s, Inserted(d, t, r), t)
    BY <1>1, InsertedGood
  <1> QED
    BY <1>2, ReachedTouches

\* DELETE touches its table only.
LEMMA DeleteTouches ==
    ASSUME NEW d, NEW s, Good(d, s), Exists(d, System), NEW t \in Tables, Exists(d, t),
           NEW where
    PROVE  Touches(d, Deleted(d, t, where), t)
  <1>1. Reached(d, s, Deleted(d, t, where), t)
    BY DeletedGood DEF Reached
  <1> QED
    BY <1>1, ReachedTouches

\* UPDATE touches its table only.
LEMMA UpdateTouches ==
    ASSUME NEW d, NEW s, Good(d, s), Exists(d, System), NEW t \in Tables, Exists(d, t),
           NEW set \in Sets, NEW where
    PROVE  Touches(d, Updated(d, t, set, where), t)
  <1>1. Reached(d, s, Updated(d, t, set, where), t)
    BY UpdatedGood
  <1> QED
    BY <1>1, ReachedTouches

\* CREATE TABLE touches its table only.
LEMMA CreateTouches ==
    ASSUME NEW d, NEW s, Good(d, s), Exists(d, System), NEW t \in Tables, ~ Exists(d, t)
    PROVE  Touches(d, Created(d, t), t)
  <1>1. t \in Names /\ System \in Names /\ Tables \subseteq Names
    BY NamesApart DEF Names
  <1> DEFINE e == Created(d, t)
             v == Spined(s, t, Len(d.pages) + 1)
  <1>2. Good(e, v)
    BY <1>1, CreatedGood
  <1>3. \A u \in Names : u # t => Kept(d, s, e, v, u)
    BY <1>1, CreatedGood
  <1>4. Exists(e, System)
    BY <1>1, CreatedGood
  <1> HIDE DEF e, v
  <1>5. Touches(d, e, t)
    BY <1>1, <1>2, <1>3, <1>4 DEF Touches
  <1> QED
    BY <1>5 DEF e

\* DROP TABLE touches its table only.
LEMMA DropTouches ==
    ASSUME NEW d, NEW s, Good(d, s), Exists(d, System), NEW t \in Tables, Exists(d, t)
    PROVE  Touches(d, Dropped(d, t), t)
  <1>1. \A u \in Tables \ {t} : u \in Names \ {t, System}
    BY NamesApart DEF Names
  <1>2. PICK v : /\ Good(Dropped(d, t), v)
                 /\ Exists(Dropped(d, t), System)
                 /\ \A u \in Names \ {t, System} : Kept(d, s, Dropped(d, t), v, u)
    BY DroppedGood
  <1> QED
    BY <1>1, <1>2 DEF Touches

\* CREATE INDEX touches its table only.
LEMMA IndexTouches ==
    ASSUME NEW d, NEW s, Good(d, s), Exists(d, System), NEW t \in Tables, Exists(d, t)
    PROVE  Touches(d, Indexed(d, t), t)
  <1>1. \A u \in Tables \ {t} : u \in Names \ {t, System}
    BY NamesApart DEF Names
  <1>2. PICK v : /\ Good(Indexed(d, t), v)
                 /\ Exists(Indexed(d, t), System)
                 /\ \A u \in Names \ {t, System} : Kept(d, s, Indexed(d, t), v, u)
    BY IndexedGood
  <1> QED
    BY <1>1, <1>2 DEF Touches

\* Opening the file touches no table.
LEMMA LoadTouches ==
    ASSUME NEW d, NEW s, Good(d, s), Exists(d, System), NEW t
    PROVE  Touches(d, Loaded(d), t)
  <1> DEFINE e == Db(d.dir, d.pages, AllNone)
  <1>1. Loaded(d) = e
    BY LoadedIs DEF Good
  <1>2. Good(e, s) /\ Exists(e, System) /\ \A u \in Names : Kept(d, s, e, s, u)
    <2>1. Good(e, s)
      BY LoadedGood
    <2>2. Exists(e, System)
      BY LoadedGood
    <2>3. \A u \in Names : Kept(d, s, e, s, u)
      BY LoadedGood
    <2> QED
      BY <2>1, <2>2, <2>3
  <1> HIDE DEF e
  <1>3. Tables \subseteq Names
    BY DEF Names
  <1> QED
    BY <1>1, <1>2, <1>3 DEF Touches

-----------------------------------------------------------------------------
(* What the layout shows.                                                  *)

\* A page of a chain is in the spine, or the empty page behind its last one.
LEMMA WholeParts ==
    ASSUME NEW d, NEW s, Good(d, s), NEW t \in Names, s[t] # <<>>,
           NEW p \in ToSet(Whole(d.pages, s[t]))
    PROVE  \/ \E k \in 1 .. Len(s[t]) : p = s[t][k]
           \/ /\ p = d.pages[s[t][Len(s[t])]].next
              /\ p # 0 /\ d.pages[p] = EmptyPage
              /\ \A u \in Names : \A j \in 1 .. Len(s[u]) : p # s[u][j]
  <1> DEFINE w == Whole(d.pages, s[t])
             m == Len(s[t])
             L == Len(w)
  <1>1. w = Whole(d.pages, s[t]) /\ p \in ToSet(w)
    OBVIOUS
  <1> HIDE DEF w
  <1>2. /\ w \in Seq(Nat) /\ L \in Nat /\ m \in Nat \ {0}
        /\ \A k \in 1 .. m : w[k] = s[t][k]
        /\ \A k \in 1 .. L :
              /\ w[k] \in 1 .. Len(d.pages)
              /\ d.pages[w[k]].next = IF k = L THEN 0 ELSE w[k + 1]
              /\ \/ k <= m
                 \/ d.pages[w[k]] = EmptyPage
                    /\ \A u \in Names : \A j \in 1 .. Len(s[u]) : w[k] # s[u][j]
    <2>1. w \in Seq(Nat) /\ L \in Nat /\ m \in Nat \ {0} /\ \A k \in 1 .. m : w[k] = s[t][k]
      BY <1>1, WholeFacts
    <2>2. ASSUME NEW k \in 1 .. L
          PROVE  w[k] \in 1 .. Len(d.pages) /\ d.pages[w[k]].next = IF k = L THEN 0 ELSE w[k + 1]
      BY <1>1, WholeFacts
    <2>3. ASSUME NEW k \in 1 .. L, ~ (k <= m)
          PROVE  d.pages[w[k]] = EmptyPage
                 /\ \A u \in Names : \A j \in 1 .. Len(s[u]) : w[k] # s[u][j]
      BY <1>1, <2>3, WholeFacts
    <2> QED
      BY <2>1, <2>2, <2>3
  <1>3. PICK i \in 1 .. L : p = w[i]
    <2>1. PICK i \in DOMAIN w : p = w[i]
      BY <1>1 DEF ToSet
    <2>2. DOMAIN w = 1 .. L
      BY <1>2
    <2> QED
      BY <2>1, <2>2
  <1> HIDE DEF m, L
  <1>4. CASE i <= m
    <2>1. i \in 1 .. m
      BY <1>2, <1>4
    <2> QED
      BY <2>1, <1>2, <1>3 DEF m
  <1>5. CASE ~ (i <= m)
    <2>1. /\ d.pages[p] = EmptyPage /\ p # 0
          /\ \A u \in Names : \A j \in 1 .. Len(s[u]) : p # s[u][j]
      BY <1>2, <1>3, <1>5
    <2>2. i - 1 \in 1 .. L /\ i - 1 # L /\ (i - 1) + 1 = i
      BY <1>2, <1>5
    <2>3. d.pages[w[i - 1]].next = p
      BY <2>2, <1>2, <1>3
    <2>4. i - 1 <= m
      BY <2>1, <2>2, <2>3, <1>2, EmptyPageFacts
    <2>5. i - 1 = m /\ m \in 1 .. m
      BY <2>4, <1>2, <1>5
    <2>6. d.pages[s[t][m]].next = p
      BY <2>3, <2>5, <1>2
    <2> QED
      BY <2>1, <2>6 DEF m
  <1> QED
    BY <1>4, <1>5

\* Chains have no page in common: not in spines, and no page is linked twice.
LEMMA ChainsDisjoint ==
    ASSUME NEW d, NEW s, Good(d, s), NEW t \in Names, NEW u \in Names, t # u,
           Exists(d, t), Exists(d, u)
    PROVE  ToSet(Chain(d, t)) \cap ToSet(Chain(d, u)) = {}
  <1> SUFFICES ASSUME NEW p \in ToSet(Chain(d, t)), p \in ToSet(Chain(d, u))
               PROVE  FALSE
    OBVIOUS
  <1> DEFINE m == s[t][Len(s[t])]
             n == s[u][Len(s[u])]
  <1>1. s[t] # <<>> /\ s[u] # <<>>
    BY ExistsFacts
  <1>2. p \in ToSet(Whole(d.pages, s[t])) /\ p \in ToSet(Whole(d.pages, s[u]))
    BY ChainIs
  <1>3. \/ \E k \in 1 .. Len(s[t]) : p = s[t][k]
        \/ /\ p = d.pages[m].next /\ p # 0
           /\ \A v \in Names : \A j \in 1 .. Len(s[v]) : p # s[v][j]
    <2>1. s[t] # <<>> /\ p \in ToSet(Whole(d.pages, s[t]))
      BY <1>1, <1>2
    <2> QED
      BY <2>1, WholeParts
  <1>4. \/ \E k \in 1 .. Len(s[u]) : p = s[u][k]
        \/ /\ p = d.pages[n].next /\ p # 0
           /\ \A v \in Names : \A j \in 1 .. Len(s[v]) : p # s[v][j]
    BY <1>1, <1>2, WholeParts
  <1>5. SpinesApart(s) /\ LinksOK(d.pages)
    BY DEF Good
  <1>6. CASE \E k \in 1 .. Len(s[t]) : p = s[t][k]
    <2>1. PICK k \in 1 .. Len(s[t]) : p = s[t][k]
      BY <1>6
    <2>2. PICK l \in 1 .. Len(s[u]) : p = s[u][l]
      BY <2>1, <1>4
    <2> QED
      BY <2>1, <2>2, <1>5 DEF SpinesApart
  <1>7. CASE p = d.pages[m].next /\ p = d.pages[n].next /\ p # 0
    <2>1. Len(s[t]) \in 1 .. Len(s[t]) /\ Len(s[u]) \in 1 .. Len(s[u])
      <3>1. Len(s[t]) \in Nat /\ Len(s[t]) >= 1
        BY <1>1, SpineFacts
      <3>2. Len(s[u]) \in Nat /\ Len(s[u]) >= 1
        BY <1>1, SpineFacts
      <3> QED
        BY <3>1, <3>2
    <2>2. m \in 1 .. Len(d.pages) /\ n \in 1 .. Len(d.pages)
      <3>1. m \in 1 .. Len(d.pages)
        BY <2>1, SpineFacts
      <3>2. n \in 1 .. Len(d.pages)
        BY <2>1, SpineFacts
      <3> QED
        BY <3>1, <3>2
    <2>3. m = n
      <3> HIDE DEF m, n
      <3> QED
        BY <2>2, <1>5, <1>7 DEF LinksOK
    <2> QED
      BY <2>1, <2>3, <1>5 DEF SpinesApart
  <1> QED
    BY <1>3, <1>4, <1>6, <1>7

\* The last page the directory has is in the chain, with an empty one behind it.
LEMMA LastInChain ==
    ASSUME NEW d, NEW s, Good(d, s), NEW t \in Names, Exists(d, t)
    PROVE  LET chain == Chain(d, t)
           IN \E n \in DOMAIN chain :
                 /\ chain[n] = Entry(d, t).last
                 /\ \A m \in n + 1 .. Len(chain) : d.pages[chain[m]] = EmptyPage
  <1> DEFINE w == Whole(d.pages, s[t])
             n == Len(s[t])
  <1>1. s[t] # <<>> /\ Chain(d, t) = w
    BY ExistsFacts, ChainIs
  <1>2. Entry(d, t).last = s[t][n]
    BY EntryFacts
  <1>3. /\ w \in Seq(Nat) /\ Len(w) \in Nat /\ Len(w) >= n /\ n \in Nat \ {0}
        /\ \A k \in 1 .. n : w[k] = s[t][k]
        /\ \A k \in 1 .. Len(w) : k <= n \/ d.pages[w[k]] = EmptyPage
    BY <1>1, WholeFacts
  <1> HIDE DEF w, n
  <1>4. n \in DOMAIN w /\ w[n] = s[t][n]
    BY <1>3
  <1>5. \A m \in n + 1 .. Len(w) : d.pages[w[m]] = EmptyPage
    BY <1>3
  <1> QED
    BY <1>1, <1>2, <1>4, <1>5

-----------------------------------------------------------------------------
(* What the statements asked for.                                          *)

\* There are finitely many rows.
LEMMA RowsFinite == IsFiniteSet(Rows)
  <1>1. IsFiniteSet(Keys) /\ IsFiniteSet(Vals)
    BY BoundsAreNaturals, FS_Interval DEF Keys
  <1>2. IsFiniteSet(Keys \X Vals)
    BY <1>1, FS_Product
  <1> DEFINE f == [x \in Keys \X Vals |-> [key |-> x[1], val |-> x[2]]]
  <1>3. f \in Surjection(Keys \X Vals, Rows)
    <2>1. \A x \in Keys \X Vals : f[x] \in Rows
      BY DEF Rows
    <2>2. ASSUME NEW r \in Rows
          PROVE  \E x \in Keys \X Vals : f[x] = r
      <3>1. <<r.key, r.val>> \in Keys \X Vals /\ r = [key |-> r.key, val |-> r.val]
        BY DEF Rows
      <3> QED
        BY <3>1
    <2> QED
      BY <2>1, <2>2 DEF Surjection
  <1> HIDE DEF f
  <1> QED
    BY <1>2, <1>3, FS_Surjection

\* What an UPDATE asks for.
Became(rows, set, where) ==
    Image(rows, LAMBDA r : IF Matches(r, where) THEN Changed(r, set) ELSE r)

\* It is how often each row is in a table.
LEMMA BecameIs ==
    ASSUME NEW rows \in Column, NEW set, NEW where
    PROVE  Became(rows, set, where) \in Column
  <1> DEFINE to(r) == IF Matches(r, where) THEN Changed(r, set) ELSE r
             of(r) == {q \in There(rows) : to(q) = r}
  <1>1. ASSUME NEW r \in Rows
        PROVE  Total(rows, of(r)) \in Nat
    <2>1. IsFiniteSet(of(r))
      BY RowsFinite, FS_Subset DEF There
    <2>2. \A q \in of(r) : rows[q] \in Nat
      BY DEF Column, There
    <2> HIDE DEF of
    <2> QED
      BY <2>1, <2>2, TotalIsNat
  <1>2. Became(rows, set, where) = [r \in Rows |-> Total(rows, of(r))]
    BY DEF Became, Image, Total
  <1> HIDE DEF of
  <1> QED
    BY <1>1, <1>2 DEF Column

-----------------------------------------------------------------------------
(* The invariant.                                                          *)

\* The bookkeeping beside the database has its types.
Bookkeeping ==
    /\ table \in [Tables -> Column]
    /\ mangled \subseteq Tables /\ repeated \subseteq Tables /\ aged \subseteq Tables
    /\ steps \in 0 .. MaxSteps

\* The pages are laid out in spines, and _indexes is there.
IInv ==
    /\ \E s : Good(db, s)
    /\ Exists(db, System)
    /\ Bookkeeping

\* Every action keeps these types.
LEMMA BookkeepingKept ==
    ASSUME Bookkeeping, [Next]_vars
    PROVE  Bookkeeping'
  <1> USE DEF Bookkeeping
  <1>1. ASSUME NEW rows \in Column, NEW t \in Tables, Holds(t, rows)
        PROVE  table' \in [Tables -> Column]
    BY <1>1 DEF Holds
  <1>2. ASSUME NEW t \in Tables, NEW tooMany, Enters(t, tooMany)
        PROVE  repeated' \subseteq Tables
    BY <1>2 DEF Enters
  <1>3. ASSUME Counted
        PROVE  steps' \in 0 .. MaxSteps
    BY <1>3, BoundsAreNaturals DEF Counted
  <1>4. [r \in Rows |-> 0] \in Column
    BY DEF Column
  <1>5. ASSUME NEW t \in Tables, CreateTable(t)
        PROVE  Bookkeeping'
    BY <1>3, <1>5 DEF CreateTable
  <1>6. ASSUME NEW t \in Tables, DropTable(t)
        PROVE  Bookkeeping'
    BY <1>3, <1>4, <1>6 DEF DropTable
  <1>7. ASSUME NEW t \in Tables, CreateIndex(t)
        PROVE  Bookkeeping'
    BY <1>3, <1>7 DEF CreateIndex
  <1>8. ASSUME NEW t \in Tables, NEW r \in Rows, Insert(t, r)
        PROVE  Bookkeeping'
    <2>1. [table[t] EXCEPT ![r] = @ + 1] \in Column
      BY DEF Column
    <2>2. table' \in [Tables -> Column]
      BY <1>1, <1>8, <2>1 DEF Insert
    <2>3. repeated' \subseteq Tables
      BY <1>8, <1>2 DEF Insert
    <2> QED
      BY <1>3, <1>8, <2>2, <2>3 DEF Insert
  <1>9. ASSUME NEW t \in Tables, NEW where \in Wheres, Delete(t, where)
        PROVE  Bookkeeping'
    <2> DEFINE rows == [r \in Rows |-> IF Matches(r, where) THEN 0 ELSE table[t][r]]
    <2>1. rows \in Column
      BY DEF Column
    <2>2. Holds(t, rows)
      BY <1>9 DEF Delete
    <2> HIDE DEF rows
    <2>3. table' \in [Tables -> Column]
      BY <1>1, <2>1, <2>2
    <2> QED
      BY <1>3, <1>9, <2>3 DEF Delete
  <1>10. ASSUME NEW t \in Tables, NEW set \in Sets, NEW where \in Wheres,
               Update(t, set, where)
        PROVE  Bookkeeping'
    <2> DEFINE rows == Became(table[t], set, where)
    <2>1. rows \in Column
      BY BecameIs
    <2>2. Holds(t, rows)
      BY <1>10 DEF Update, Became
    <2> HIDE DEF rows
    <2>3. table' \in [Tables -> Column] /\ repeated' \subseteq Tables
      BY <1>1, <1>10, <1>2, <2>1, <2>2 DEF Update
    <2>4. mangled' \subseteq Tables /\ aged' \subseteq Tables
      BY <1>10 DEF Update
    <2>5. steps' \in 0 .. MaxSteps
      BY <1>3, <1>10 DEF Update
    <2> QED
      BY <2>3, <2>4, <2>5
  <1>11. CASE Reopen
    BY <1>11 DEF Reopen
  <1>12. CASE UNCHANGED vars
    BY <1>12 DEF vars
  <1> QED
    BY <1>5, <1>6, <1>7, <1>8, <1>9, <1>10, <1>11, <1>12 DEF Next

\* A statement touches one table.
LEMMA NextTouches ==
    ASSUME IInv, Next
    PROVE  \E t : /\ Touches(db, db', t)
                  /\ t \in Tables \/ (Reopen /\ Tables = {})
  <1>1. PICK s : Good(db, s)
    BY DEF IInv
  <1>2. Exists(db, System)
    BY DEF IInv
  <1>3. ASSUME NEW t \in Tables, CreateTable(t)
        PROVE  Touches(db, db', t)
    BY <1>1, <1>2, <1>3, CreateTouches DEF CreateTable
  <1>4. ASSUME NEW t \in Tables, DropTable(t)
        PROVE  Touches(db, db', t)
    BY <1>1, <1>2, <1>4, DropTouches DEF DropTable
  <1>5. ASSUME NEW t \in Tables, CreateIndex(t)
        PROVE  Touches(db, db', t)
    BY <1>1, <1>2, <1>5, IndexTouches DEF CreateIndex
  <1>6. ASSUME NEW t \in Tables, NEW r \in Rows, Insert(t, r)
        PROVE  Touches(db, db', t)
    BY <1>1, <1>2, <1>6, InsertTouches DEF Insert
  <1>7. ASSUME NEW t \in Tables, NEW where \in Wheres, Delete(t, where)
        PROVE  Touches(db, db', t)
    BY <1>1, <1>2, <1>7, DeleteTouches DEF Delete
  <1>8. ASSUME NEW t \in Tables, NEW set \in Sets, NEW where \in Wheres,
               Update(t, set, where)
        PROVE  Touches(db, db', t)
    BY <1>1, <1>2, <1>8, UpdateTouches DEF Update
  <1>9. ASSUME Reopen, NEW t
        PROVE  Touches(db, db', t)
    BY <1>1, <1>2, <1>9, LoadTouches DEF Reopen
  <1> QED
    BY <1>3, <1>4, <1>5, <1>6, <1>7, <1>8, <1>9 DEF Next

\* Every action keeps the invariant.
LEMMA IInvKept ==
    ASSUME IInv, [Next]_vars
    PROVE  IInv'
  <1>1. Bookkeeping'
    BY BookkeepingKept DEF IInv
  <1>2. CASE Next
    <2>1. PICK t : Touches(db, db', t)
      BY <1>2, NextTouches
    <2>2. PICK v : Good(db', v) /\ Exists(db', System)
      BY <2>1 DEF Touches
    <2> QED
      BY <1>1, <2>2 DEF IInv
  <1>3. CASE UNCHANGED vars
    BY <1>1, <1>3 DEF IInv, vars
  <1> QED
    BY <1>2, <1>3

\* The invariant holds in a new file.
LEMMA IInvStarts ==
    ASSUME NEW tables \in Seq(Tables),
           \A i, j \in DOMAIN tables : tables[i] = tables[j] => i = j,
           InitWith(tables)
    PROVE  /\ IInv
           /\ \E s : Good(db, s) /\ AllEmpty(db)
           /\ Exists(db, System) /\ Bookkeeping
  <1> DEFINE S == SystemTables
             names == S \o tables
             z == NewFile(names)
  <1>1. /\ S \in Seq(Names) /\ tables \in Seq(Names)
        /\ DOMAIN S = 1 .. Len(S) /\ DOMAIN tables = 1 .. Len(tables)
        /\ Len(S) \in Nat /\ Len(tables) \in Nat
    <2>1. S \in Seq(ToSet(S)) /\ ToSet(S) \subseteq Names /\ Tables \subseteq Names
      BY SystemOnce DEF Names
    <2> QED
      BY <2>1
  <1>2. /\ \A i \in 1 .. Len(S) : S[i] \in ToSet(S)
        /\ \A i, j \in 1 .. Len(S) : S[i] = S[j] => i = j
    BY <1>1, SystemOnce DEF ToSet
  <1>3. \A i \in 1 .. Len(tables) : tables[i] \in Tables
    BY <1>1
  <1>4. \A i, j \in 1 .. Len(tables) : tables[i] = tables[j] => i = j
    BY <1>1
  <1>5. /\ names \in Seq(Names) /\ Len(names) = Len(S) + Len(tables)
        /\ \A i \in 1 .. Len(S) : names[i] = S[i]
        /\ \A i \in 1 .. Len(tables) : names[Len(S) + i] = tables[i]
    BY <1>1, ConcatFacts
  <1> HIDE DEF names
  <1>6. \A i, j \in 1 .. Len(names) : names[i] = names[j] => i = j
    <2> SUFFICES ASSUME NEW i \in 1 .. Len(names), NEW j \in 1 .. Len(names),
                        names[i] = names[j]
                 PROVE  i = j
      OBVIOUS
    <2>1. ASSUME NEW k \in 1 .. Len(names)
          PROVE  \/ k \in 1 .. Len(S) /\ names[k] = S[k]
                 \/ /\ k - Len(S) \in 1 .. Len(tables)
                    /\ names[k] = tables[k - Len(S)]
      <3>1. CASE k \in 1 .. Len(S)
        BY <3>1, <1>5
      <3>2. CASE k \notin 1 .. Len(S)
        <4>1. k - Len(S) \in 1 .. Len(tables) /\ Len(S) + (k - Len(S)) = k
          BY <3>2, <1>1, <1>5
        <4> QED
          BY <4>1, <1>5
      <3> QED
        BY <3>1, <3>2
    <2>2. Tables \cap ToSet(S) = {}
      BY NamesApart
    <2>3. CASE i \in 1 .. Len(S) /\ names[i] = S[i]
      <3>1. j \in 1 .. Len(S) /\ names[j] = S[j]
        BY <2>1, <2>2, <2>3, <1>2, <1>3
      <3> QED
        BY <2>3, <3>1, <1>2
    <2>4. CASE i - Len(S) \in 1 .. Len(tables) /\ names[i] = tables[i - Len(S)]
      <3>1. j - Len(S) \in 1 .. Len(tables) /\ names[j] = tables[j - Len(S)]
        BY <2>1, <2>2, <2>4, <1>2, <1>3
      <3>2. i - Len(S) = j - Len(S)
        BY <2>4, <3>1, <1>4
      <3> QED
        BY <3>2, <1>1
    <2> QED
      BY <2>1, <2>3, <2>4
  <1>7. z \in Fresh /\ Has(z, names, Len(names))
    BY <1>5, <1>6, NewFileHas
  <1> HIDE DEF z
  <1>8. db = Opened(z)
    <2>1. db = [z EXCEPT !.index = AllNone]
      BY DEF InitWith, AllNone, z, names
    <2>2. z = [dir |-> z.dir, pages |-> z.pages, index |-> z.index]
      BY <1>7 DEF Fresh
    <2> QED
      BY <2>1, <2>2 DEF Opened, Db
  <1>9. PICK s : /\ Good(db, s) /\ AllEmpty(db)
                 /\ \A t \in Names : Exists(db, t) <=> \E i \in 1 .. Len(names) : names[i] = t
    BY <1>7, <1>8 DEF Has
  <1>10. Exists(db, System)
    <2>1. System \in ToSet(S) /\ System \in Names
      BY NamesApart DEF Names
    <2>2. PICK i \in 1 .. Len(S) : S[i] = System
      BY <1>1, <2>1 DEF ToSet
    <2>3. i \in 1 .. Len(names) /\ names[i] = System
      BY <1>1, <1>5, <2>2
    <2> QED
      BY <1>9, <2>1, <2>3
  <1>11. Bookkeeping
    <2>1. [r \in Rows |-> 0] \in Column
      BY DEF Column
    <2> QED
      BY <2>1, BoundsAreNaturals DEF InitWith, Bookkeeping
  <1> QED
    BY <1>9, <1>10, <1>11 DEF IInv

\* The invariant implies ChainsApart.
LEMMA IInvShows ==
    ASSUME IInv
    PROVE  ChainsApart
  <1>1. PICK s : Good(db, s)
    BY DEF IInv
  <1>2. db \in DbType /\ LinksOK(db.pages)
    BY <1>1 DEF Good
  <1>3. DOMAIN db.pages = 1 .. Len(db.pages) /\ Len(db.pages) \in Nat
    BY <1>2, DbFields
  <1>4. ASSUME NEW p \in DOMAIN db.pages
        PROVE  /\ db.pages[p].free = Used(db.pages[p].cells)
               /\ db.pages[p].free <= PageSize \/ Len(db.pages[p].cells) = 1
               /\ db.pages[p].count <= Len(db.pages[p].cells)
               /\ db.pages[p].next \in 0 .. Len(db.pages)
    <2>1. p \in 1 .. Len(db.pages) /\ PageOK(db.pages[p])
          /\ (db.pages[p].next = 0 \/ db.pages[p].next \in p + 1 .. Len(db.pages))
      BY <1>2, <1>3 DEF LinksOK
    <2>2. db.pages[p].next \in 0 .. Len(db.pages)
      BY <1>3, <2>1
    <2> QED
      BY <2>1, <2>2 DEF PageOK
  <1>5. ASSUME NEW t \in Names, db.index[t] # None, NEW k \in Keys,
               NEW e \in ToSet(db.index[t][k])
        PROVE  e.page \in DOMAIN db.pages /\ e.row \in Rows /\ e.row.key = k
    <2> DEFINE c == db.index[t][k]
    <2>1. db.index[t] \in IndexType /\ HintsInto(db.index[t], t, Reach(db, s, t))
      BY <1>1, <1>2, <1>5, DbFields DEF Good, Hints
    <2>2. c \in Seq(Hint) /\ \A i \in 1 .. Len(c) : c[i].row.key = k /\ c[i].page \in Reach(db, s, t)
      BY <2>1 DEF IndexType, HintsInto
    <2> HIDE DEF c
    <2>3. PICK i \in 1 .. Len(c) : e = c[i]
      BY <2>2, <1>5 DEF ToSet, c
    <2>4. e \in Hint /\ e.row.key = k
      BY <2>2, <2>3
    <2>5. e.page \in 1 .. Len(db.pages)
      BY <2>2, <2>3 DEF Reach
    <2> QED
      BY <1>3, <2>4, <2>5 DEF Hint
  <1>6. TypeOK
    BY <1>4, <1>5 DEF TypeOK, IInv, Bookkeeping
  <1>7. ASSUME NEW t \in Present
        PROVE  LET chain == Chain(db, t)
               IN \E n \in DOMAIN chain :
                     /\ chain[n] = Entry(db, t).last
                     /\ \A m \in n + 1 .. Len(chain) : db.pages[chain[m]] = EmptyPage
    BY <1>1, LastInChain DEF Present
  <1>8. ASSUME NEW t \in Present, NEW u \in Present, t # u
        PROVE  ToSet(Chain(db, t)) \cap ToSet(Chain(db, u)) = {}
    BY <1>1, <1>8, ChainsDisjoint DEF Present
  <1> QED
    BY <1>6, <1>7, <1>8 DEF ChainsApart

\* From the invariant, a step changes the rows of one table only.
LEMMA NextKeeps ==
    ASSUME IInv, [Next]_vars
    PROVE  [\E t \in Tables : \A u \in Tables \ {t} :
               Scanned(db', u) = Scanned(db, u)]_vars
  <1> SUFFICES ASSUME Next, ~ (UNCHANGED vars)
               PROVE  \E t \in Tables : \A u \in Tables \ {t} :
                         Scanned(db', u) = Scanned(db, u)
    OBVIOUS
  <1>1. PICK t : /\ Touches(db, db', t)
                 /\ t \in Tables \/ (Reopen /\ Tables = {})
    BY NextTouches
  <1>2. ASSUME NEW u \in Tables \ {t}
        PROVE  Scanned(db', u) = Scanned(db, u)
    <2>1. PICK s, v : Good(db, s) /\ Good(db', v) /\ Kept(db, s, db', v, u)
      BY <1>1 DEF Touches
    <2>2. u \in Names
      BY DEF Names
    <2> QED
      BY <2>1, <2>2, KeptScan
  <1>3. CASE Reopen /\ Tables = {}
    <2>1. PICK s : Good(db, s)
      BY DEF IInv
    <2>2. db \in DbType /\ db.index \in [Names -> IndexType \cup {None}]
      BY <2>1, DbFields DEF Good
    <2>3. \A u \in Names : db.index[u] = None
      BY <1>3, <2>1 DEF Good, Hints, HintsInto
    <2>4. db.index = AllNone
      BY <2>2, <2>3 DEF AllNone
    <2>5. Loaded(db) = db
      <3>1. Loaded(db) = Db(db.dir, db.pages, AllNone)
        BY <2>2, LoadedIs
      <3>2. db = Db(db.dir, db.pages, db.index)
        BY <2>2, DbFields DEF Db
      <3> QED
        BY <2>4, <3>1, <3>2
    <2>6. aged = {}
      BY <1>3 DEF IInv, Bookkeeping
    <2>7. UNCHANGED vars
      BY <1>3, <2>5, <2>6 DEF Reopen, vars
    <2> QED
      BY <2>7
  <1> QED
    BY <1>1, <1>2, <1>3

\* From the start of every sequence of statements on a new file in which some
\* tables have been created, chains stay apart and each statement changes the
\* rows of one table only: insertMany's page allocation and its update of the
\* directory, dropTable's move of an entry and the deletes in _indexes included.
THEOREM PlantedApartAlways ==
    ASSUME NEW tables \in Seq(Tables),
           \A i, j \in DOMAIN tables : tables[i] = tables[j] => i = j
    PROVE  InitWith(tables) /\ [][Next]_vars => []ChainsApart /\ OneTableOnly
  <1>1. InitWith(tables) => IInv
    BY IInvStarts
  <1>2. IInv /\ [Next]_vars => IInv'
    BY IInvKept
  <1>3. IInv => ChainsApart
    BY IInvShows
  <1>4. IInv /\ [Next]_vars => [\E t \in Tables : \A u \in Tables \ {t} :
                                   Scanned(db', u) = Scanned(db, u)]_vars
    BY NextKeeps
  <1> QED
    BY <1>1, <1>2, <1>3, <1>4, PTL DEF OneTableOnly

\* The pages of two tables never meet, and the directory's last page of a table
\* is in its chain: insertMany appends where the table's own pages end.
THEOREM ChainsApartAlways == Spec => []ChainsApart
  <1>1. <<>> \in Seq(Tables) /\ \A i, j \in DOMAIN <<>> : <<>>[i] = <<>>[j] => i = j
    OBVIOUS
  <1>2. Init /\ [][Next]_vars => []ChainsApart /\ OneTableOnly
    BY <1>1, PlantedApartAlways DEF Init
  <1> QED
    BY <1>2, PTL DEF Spec

\* A statement on one table changes no row of another, nor does opening the
\* file change any.
THEOREM OneTableOnlyAlways == Spec => OneTableOnly
  <1>1. <<>> \in Seq(Tables) /\ \A i, j \in DOMAIN <<>> : <<>>[i] = <<>>[j] => i = j
    OBVIOUS
  <1>2. Init /\ [][Next]_vars => []ChainsApart /\ OneTableOnly
    BY <1>1, PlantedApartAlways DEF Init
  <1> QED
    BY <1>2, PTL DEF Spec, OneTableOnly

-----------------------------------------------------------------------------
(* How often the elements of a set are in a sequence.                      *)

UpTo(s, S, k) == Cardinality({i \in 1 .. k : s[i] \in S})

Hits(s, S) == UpTo(s, S, Len(s))

One(c) == IF c THEN 1 ELSE 0

\* One place after the other.
LEMMA UpToFacts ==
    ASSUME NEW s, NEW S
    PROVE  /\ UpTo(s, S, 0) = 0
           /\ \A k \in Nat : UpTo(s, S, k) \in Nat
           /\ \A k \in Nat : UpTo(s, S, k + 1) = UpTo(s, S, k) + One(s[k + 1] \in S)
  <1> DEFINE A(k) == {i \in 1 .. k : s[i] \in S}
  <1>1. ASSUME NEW k \in Nat
        PROVE  IsFiniteSet(A(k)) /\ Cardinality(A(k)) \in Nat
    <2>1. IsFiniteSet(1 .. k) /\ A(k) \in SUBSET (1 .. k)
      BY FS_Interval
    <2> QED
      BY <2>1, FS_Subset, FS_CardinalityType
  <1>2. A(0) = {}
    OBVIOUS
  <1>3. ASSUME NEW k \in Nat
        PROVE  Cardinality(A(k + 1)) = Cardinality(A(k)) + One(s[k + 1] \in S)
    <2>1. CASE s[k + 1] \in S
      <3>1. A(k + 1) = A(k) \cup {k + 1} /\ k + 1 \notin A(k)
        BY <2>1
      <3> HIDE DEF A
      <3>2. Cardinality(A(k) \cup {k + 1}) = Cardinality(A(k)) + 1
        BY <1>1, <3>1, FS_AddElement
      <3> QED
        BY <2>1, <3>1, <3>2 DEF One
    <2>2. CASE s[k + 1] \notin S
      <3>1. A(k + 1) = A(k)
        BY <2>2
      <3> HIDE DEF A
      <3> QED
        BY <1>1, <2>2, <3>1 DEF One
    <2> QED
      BY <2>1, <2>2
  <1>4. \A k \in Nat : UpTo(s, S, k) = Cardinality(A(k))
    BY DEF UpTo
  <1> HIDE DEF A
  <1> QED
    BY <1>1, <1>2, <1>3, <1>4, FS_EmptySet

\* The same places in, the same number.
LEMMA UpToSame ==
    ASSUME NEW k \in Nat, NEW s, NEW S, NEW t, NEW T,
           \A i \in 1 .. k : s[i] \in S <=> t[i] \in T
    PROVE  UpTo(s, S, k) = UpTo(t, T, k)
  <1>1. {i \in 1 .. k : s[i] \in S} = {i \in 1 .. k : t[i] \in T}
    OBVIOUS
  <1> QED
    BY <1>1 DEF UpTo

\* None of them, and one of them.
LEMMA UpToFew ==
    ASSUME NEW k \in Nat, NEW s, NEW S
    PROVE  /\ UpTo(s, S, k) = 0 <=> \A i \in 1 .. k : s[i] \notin S
           /\ \A i, j \in 1 .. k :
                 s[i] \in S /\ s[j] \in S /\ UpTo(s, S, k) <= 1 => i = j
           /\ UpTo(s, S, k) <= 1 \/ \E i, j \in 1 .. k : i # j /\ s[i] \in S /\ s[j] \in S
  <1> DEFINE A == {i \in 1 .. k : s[i] \in S}
  <1>1. IsFiniteSet(A) /\ UpTo(s, S, k) = Cardinality(A) /\ Cardinality(A) \in Nat
    <2>1. IsFiniteSet(1 .. k) /\ A \in SUBSET (1 .. k)
      BY FS_Interval
    <2> QED
      BY <2>1, FS_Subset, FS_CardinalityType DEF UpTo
  <1>2. Cardinality(A) = 0 <=> A = {}
    BY <1>1, FS_EmptySet
  <1>3. Cardinality(A) = 1 <=> \E x : A = {x}
    BY <1>1, FS_Singleton
  <1>4. A = {} <=> \A i \in 1 .. k : s[i] \notin S
    OBVIOUS
  <1>5. ASSUME NEW i \in 1 .. k, NEW j \in 1 .. k, s[i] \in S, s[j] \in S, Cardinality(A) <= 1
        PROVE  i = j
    <2>1. i \in A /\ j \in A
      BY <1>5
    <2> HIDE DEF A
    <2>2. Cardinality(A) = 1
      BY <2>1, <1>1, <1>2, <1>5
    <2> QED
      BY <2>1, <2>2, <1>3
  <1>6. ASSUME ~ (Cardinality(A) <= 1)
        PROVE  \E i, j \in 1 .. k : i # j /\ s[i] \in S /\ s[j] \in S
    <2>1. \E i, j \in A : i # j
      <3> HIDE DEF A
      <3>1. A # {}
        BY <1>6, <1>1, <1>2
      <3>2. PICK i \in A : TRUE
        BY <3>1
      <3>3. A # {i}
        BY <1>6, <1>1, <1>3
      <3> QED
        BY <3>2, <3>3
    <2> QED
      BY <2>1
  <1> HIDE DEF A
  <1> QED
    BY <1>1, <1>2, <1>4, <1>5, <1>6

\* The number of a sequence, of nothing, and with one element more.
LEMMA HitsFacts ==
    ASSUME NEW V, NEW s \in Seq(V), NEW S
    PROVE  /\ Hits(s, S) \in Nat /\ Hits(<<>>, S) = 0
           /\ \A e \in V : Hits(Append(s, e), S) = Hits(s, S) + One(e \in S)
  <1> DEFINE n == Len(s)
  <1>1. n \in Nat /\ Len(<<>>) = 0
    OBVIOUS
  <1>2. Hits(s, S) = UpTo(s, S, n) /\ Hits(<<>>, S) = UpTo(<<>>, S, 0)
    BY DEF Hits
  <1>3. ASSUME NEW e \in V
        PROVE  Hits(Append(s, e), S) = Hits(s, S) + One(e \in S)
    <2> DEFINE t == Append(s, e)
    <2>1. Len(t) = n + 1 /\ t[n + 1] = e /\ \A k \in 1 .. n : t[k] = s[k]
      OBVIOUS
    <2> HIDE DEF t, n
    <2>2. UpTo(t, S, n + 1) = UpTo(t, S, n) + One(t[n + 1] \in S)
      BY <1>1, UpToFacts
    <2>3. UpTo(t, S, n) = UpTo(s, S, n)
      BY <1>1, <2>1, UpToSame
    <2> QED
      BY <1>2, <2>1, <2>2, <2>3 DEF Hits, t
  <1> QED
    BY <1>1, <1>2, <1>3, UpToFacts

\* The number of two sequences.
LEMMA HitsConcat ==
    ASSUME NEW V, NEW s \in Seq(V), NEW t \in Seq(V), NEW S
    PROVE  Hits(s \o t, S) = Hits(s, S) + Hits(t, S)
  <1> DEFINE m == Len(s)
             n == Len(t)
             c == s \o t
             T == {k \in 0 .. n : UpTo(c, S, m + k) = UpTo(s, S, m) + UpTo(t, S, k)}
  <1>1. /\ m \in Nat /\ n \in Nat /\ Len(c) = m + n
        /\ \A k \in 1 .. m : c[k] = s[k]
        /\ \A k \in 1 .. n : c[m + k] = t[k]
    BY ConcatFacts
  <1> HIDE DEF m, n, c
  <1>2. 0 \in T
    <2>1. UpTo(c, S, m) = UpTo(s, S, m)
      BY <1>1, UpToSame
    <2>2. UpTo(t, S, 0) = 0 /\ UpTo(s, S, m) \in Nat
      BY <1>1, UpToFacts
    <2>3. m + 0 = m /\ 0 \in 0 .. n /\ UpTo(s, S, m) + 0 = UpTo(s, S, m)
      BY <1>1, <2>2
    <2> QED
      BY <2>1, <2>2, <2>3
  <1>3. ASSUME NEW k \in 0 .. n, k \in T, k < n
        PROVE  k + 1 \in T
    <2>1. k \in Nat /\ m + k \in Nat /\ k + 1 \in 1 .. n /\ k + 1 \in 0 .. n /\ (m + k) + 1 = m + (k + 1)
      BY <1>1, <1>3
    <2>2. UpTo(c, S, (m + k) + 1) = UpTo(c, S, m + k) + One(c[(m + k) + 1] \in S)
      BY <2>1, UpToFacts
    <2>3. UpTo(t, S, k + 1) = UpTo(t, S, k) + One(t[k + 1] \in S)
      BY <2>1, UpToFacts
    <2>4. UpTo(s, S, m) \in Nat /\ UpTo(t, S, k) \in Nat /\ UpTo(c, S, m + k) \in Nat
      BY <1>1, <2>1, UpToFacts
    <2>5. One(t[k + 1] \in S) \in Nat
      BY DEF One
    <2>6. UpTo(c, S, m + (k + 1)) = UpTo(s, S, m) + UpTo(t, S, k + 1)
      BY <1>1, <1>3, <2>1, <2>2, <2>3, <2>4, <2>5
    <2> QED
      BY <2>1, <2>6
  <1> HIDE DEF T
  <1>4. 0 .. n \subseteq T
    BY <1>1, <1>2, <1>3, InductionUpTo
  <1>5. n \in T
    BY <1>1, <1>4
  <1>6. UpTo(c, S, m + n) = UpTo(s, S, m) + UpTo(t, S, n)
    BY <1>5 DEF T
  <1> QED
    BY <1>1, <1>6 DEF Hits, c, m, n

\* The same places in two sequences.
LEMMA HitsSame ==
    ASSUME NEW V, NEW s \in Seq(V), NEW t, Len(t) = Len(s), NEW S, NEW T,
           \A i \in 1 .. Len(s) : s[i] \in S <=> t[i] \in T
    PROVE  Hits(s, S) = Hits(t, T)
  <1>1. Len(s) \in Nat
    OBVIOUS
  <1> QED
    BY <1>1, UpToSame DEF Hits

\* None, or one, of the elements of a sequence.
LEMMA HitsFew ==
    ASSUME NEW V, NEW s \in Seq(V), NEW S
    PROVE  /\ Hits(s, S) = 0 <=> \A i \in 1 .. Len(s) : s[i] \notin S
           /\ \A i, j \in 1 .. Len(s) : s[i] \in S /\ s[j] \in S /\ Hits(s, S) <= 1 => i = j
           /\ Hits(s, S) <= 1
              \/ \E i, j \in 1 .. Len(s) : i # j /\ s[i] \in S /\ s[j] \in S
  <1>1. Len(s) \in Nat
    OBVIOUS
  <1> QED
    BY <1>1, UpToFew DEF Hits

\* h has the sums of the first values of g.
Adds(h, g, n) == h[0] = 0 /\ \A k \in 1 .. n : h[k] = h[k - 1] + g[k]

\* There are such sums; they are naturals and grow.
LEMMA AddsExist ==
    ASSUME NEW n \in Nat, NEW g, \A k \in 1 .. n : g[k] \in Nat
    PROVE  \E h : Adds(h, g, n)
  <1> DEFINE J == [k \in 0 .. n |-> Nat]
             F == [x \in Nat \X (1 .. n) |-> x[1] + g[x[2]]]
  <1>1. \A k \in 1 .. n : \A z \in Nat : F[<<z, k>>] = z + g[k]
    OBVIOUS
  <1>2. \A k \in 0 .. n : J[k] = Nat
    OBVIOUS
  <1>3. \A k \in 1 .. n : k - 1 \in 0 .. n /\ k \in 0 .. n
    OBVIOUS
  <1>4. 0 \in 0 .. n
    OBVIOUS
  <1> HIDE DEF J, F
  <1>5. 0 \in J[0] /\ Growing(n, F, J)
    BY <1>1, <1>2, <1>3, <1>4 DEF Growing
  <1>6. PICK h : Stepping(h, n, 0, F, J)
    BY <1>5, StepsAreThere
  <1>7. ASSUME NEW k \in 1 .. n
        PROVE  h[k] = h[k - 1] + g[k]
    <2>1. h[k - 1] \in Nat
      BY <1>2, <1>3, <1>6 DEF Stepping
    <2> QED
      BY <2>1, <1>1, <1>6 DEF Stepping
  <1> QED
    BY <1>6, <1>7 DEF Adds, Stepping

\* Each is a natural.
LEMMA AddsNat ==
    ASSUME NEW n \in Nat, NEW g, \A k \in 1 .. n : g[k] \in Nat, NEW h, Adds(h, g, n)
    PROVE  \A k \in 0 .. n : h[k] \in Nat
  <1> DEFINE T == {k \in 0 .. n : h[k] \in Nat}
  <1>1. 0 \in T
    BY DEF Adds
  <1>2. ASSUME NEW k \in 0 .. n, k \in T, k < n
        PROVE  k + 1 \in T
    <2>1. k + 1 \in 1 .. n /\ (k + 1) - 1 = k /\ k + 1 \in 0 .. n
      BY <1>2
    <2>2. h[k + 1] = h[k] + g[k + 1] /\ g[k + 1] \in Nat
      BY <2>1 DEF Adds
    <2> QED
      BY <1>2, <2>1, <2>2
  <1> HIDE DEF T
  <1>3. 0 .. n \subseteq T
    BY <1>1, <1>2, InductionUpTo
  <1> QED
    BY <1>3 DEF T

\* The sums of what is the same but for one place.
LEMMA AddsDiffer ==
    ASSUME NEW n \in Nat, NEW g, \A k \in 1 .. n : g[k] \in Nat, NEW h, Adds(h, g, n),
           NEW f, \A k \in 1 .. n : f[k] \in Nat, NEW i, Adds(i, f, n),
           NEW p \in 1 .. n, \A k \in 1 .. n : k # p => f[k] = g[k]
    PROVE  i[n] + g[p] = h[n] + f[p]
  <1> DEFINE T == {k \in 0 .. n : i[k] + (IF p <= k THEN g[p] ELSE 0)
                                  = h[k] + (IF p <= k THEN f[p] ELSE 0)}
  <1>1. 0 \in T
    BY DEF Adds
  <1>2. ASSUME NEW k \in 0 .. n, k \in T, k < n
        PROVE  k + 1 \in T
    <2>1. k + 1 \in 1 .. n /\ (k + 1) - 1 = k /\ k + 1 \in 0 .. n
      BY <1>2
    <2>2. /\ h[k + 1] = h[k] + g[k + 1] /\ g[k + 1] \in Nat
          /\ i[k + 1] = i[k] + f[k + 1] /\ f[k + 1] \in Nat
      BY <2>1 DEF Adds
    <2>3. h[k] \in Nat /\ i[k] \in Nat
      <3>1. h[k] \in Nat
        BY AddsNat
      <3>2. i[k] \in Nat
        BY AddsNat
      <3> QED
        BY <3>1, <3>2
    <2>4. f[p] \in Nat /\ g[p] \in Nat
      OBVIOUS
    <2>5. i[k] + (IF p <= k THEN g[p] ELSE 0) = h[k] + (IF p <= k THEN f[p] ELSE 0)
      BY <1>2
    <2>6. CASE k + 1 = p
      <3>1. p <= k + 1 /\ ~ (p <= k)
        BY <2>6
      <3> QED
        BY <2>1, <2>2, <2>3, <2>4, <2>5, <2>6, <3>1
    <2>7. CASE k + 1 # p
      <3>1. p <= k + 1 <=> p <= k
        BY <2>7
      <3>2. f[k + 1] = g[k + 1]
        BY <2>1, <2>7
      <3> QED
        BY <2>1, <2>2, <2>3, <2>4, <2>5, <3>1, <3>2
    <2> QED
      BY <2>6, <2>7
  <1> HIDE DEF T
  <1>3. 0 .. n \subseteq T
    BY <1>1, <1>2, InductionUpTo
  <1>4. n \in T /\ p <= n
    BY <1>3
  <1> QED
    BY <1>4 DEF T

\* The sums of the same.
LEMMA AddsSame ==
    ASSUME NEW n \in Nat, NEW g, NEW h, Adds(h, g, n),
           NEW f, NEW i, Adds(i, f, n), \A k \in 1 .. n : f[k] = g[k]
    PROVE  i[n] = h[n]
  <1> DEFINE T == {k \in 0 .. n : i[k] = h[k]}
  <1>1. 0 \in T
    BY DEF Adds
  <1>2. ASSUME NEW k \in 0 .. n, k \in T, k < n
        PROVE  k + 1 \in T
    <2>1. k + 1 \in 1 .. n /\ (k + 1) - 1 = k /\ k + 1 \in 0 .. n
      BY <1>2
    <2>2. h[k + 1] = h[k] + g[k + 1] /\ i[k + 1] = i[k] + f[k + 1]
      BY <2>1 DEF Adds
    <2> QED
      BY <1>2, <2>1, <2>2
  <1> HIDE DEF T
  <1>3. 0 .. n \subseteq T
    BY <1>1, <1>2, InductionUpTo
  <1> QED
    BY <1>3 DEF T

\* Nothing, and two places that are something.
LEMMA AddsFew ==
    ASSUME NEW n \in Nat, NEW g, \A k \in 1 .. n : g[k] \in Nat, NEW h, Adds(h, g, n)
    PROVE  /\ h[n] = 0 <=> \A k \in 1 .. n : g[k] = 0
           /\ \A k \in 1 .. n : g[k] <= h[n]
           /\ \A k, l \in 1 .. n : k # l => g[k] + g[l] <= h[n]
  <1> DEFINE T == {j \in 0 .. n : /\ \A k \in 1 .. n : k <= j => g[k] <= h[j]
                                  /\ \A k, l \in 1 .. n : k # l /\ k <= j /\ l <= j =>
                                        g[k] + g[l] <= h[j]
                                  /\ (\A k \in 1 .. n : g[k] = 0) => h[j] = 0}
  <1>1. 0 \in T
    BY DEF Adds
  <1>2. ASSUME NEW j \in 0 .. n, j \in T, j < n
        PROVE  j + 1 \in T
    <2>1. j + 1 \in 1 .. n /\ (j + 1) - 1 = j /\ j + 1 \in 0 .. n
      BY <1>2
    <2>2. h[j + 1] = h[j] + g[j + 1] /\ g[j + 1] \in Nat
      BY <2>1 DEF Adds
    <2>3. h[j] \in Nat
      BY AddsNat
    <2>4. ASSUME NEW k \in 1 .. n, k <= j + 1
          PROVE  g[k] <= h[j + 1] /\ (k # j + 1 => g[k] <= h[j])
      <3>1. g[k] \in Nat
        OBVIOUS
      <3>2. CASE k = j + 1
        BY <3>1, <3>2, <2>2, <2>3
      <3>3. CASE k # j + 1
        <4>1. k <= j
          BY <2>4, <3>3
        <4>2. g[k] <= h[j]
          BY <4>1, <1>2
        <4> QED
          BY <4>2, <3>1, <2>2, <2>3
      <3> QED
        BY <3>2, <3>3
    <2>5. ASSUME NEW k \in 1 .. n, NEW l \in 1 .. n, k # l, k <= j + 1, l <= j + 1
          PROVE  g[k] + g[l] <= h[j + 1]
      <3>1. g[k] \in Nat /\ g[l] \in Nat
        OBVIOUS
      <3>2. CASE k = j + 1
        BY <2>2, <2>3, <2>4, <2>5, <3>1, <3>2
      <3>3. CASE l = j + 1
        BY <2>2, <2>3, <2>4, <2>5, <3>1, <3>3
      <3>4. CASE k # j + 1 /\ l # j + 1
        <4>1. k <= j /\ l <= j
          BY <2>5, <3>4
        <4>2. g[k] + g[l] <= h[j]
          BY <4>1, <1>2, <2>5
        <4> QED
          BY <4>2, <3>1, <2>2, <2>3
      <3> QED
        BY <3>2, <3>3, <3>4
    <2>6. (\A k \in 1 .. n : g[k] = 0) => h[j + 1] = 0
      BY <1>2, <2>1, <2>2
    <2> QED
      BY <2>1, <2>4, <2>5, <2>6
  <1> HIDE DEF T
  <1>3. 0 .. n \subseteq T
    BY <1>1, <1>2, InductionUpTo
  <1>4. n \in T
    BY <1>3
  <1>5. /\ \A k \in 1 .. n : g[k] <= h[n]
        /\ \A k, l \in 1 .. n : k # l => g[k] + g[l] <= h[n]
        /\ (\A k \in 1 .. n : g[k] = 0) => h[n] = 0
    BY <1>4 DEF T
  <1>6. h[n] = 0 => \A k \in 1 .. n : g[k] = 0
    <2> SUFFICES ASSUME h[n] = 0, NEW k \in 1 .. n PROVE g[k] = 0
      OBVIOUS
    <2>1. g[k] <= 0 /\ g[k] \in Nat
      BY <1>5
    <2> QED
      BY <2>1
  <1> QED
    BY <1>5, <1>6

-----------------------------------------------------------------------------
(* The records of a page that has no others.                               *)

\* h has what Only has kept at each place.
OnlyPath(h, c, S, V) ==
    /\ h[0] = <<>>
    /\ \A k \in 1 .. Len(c) : h[k] = IF c[k] \in S THEN Append(h[k - 1], c[k]) ELSE h[k - 1]
    /\ \A k \in 0 .. Len(c) : h[k] \in Seq(V)
    /\ Only(c, S) = h[Len(c)]

\* Only, place by place.
LEMMA OnlySteps ==
    ASSUME NEW V, NEW c \in Seq(V), NEW S
    PROVE  \E h : OnlyPath(h, c, S, V)
  <1> DEFINE n == Len(c)
             A == Seq(V)
             Add(z, k) == IF c[k] \in S THEN Append(z, c[k]) ELSE z
             Iter(f) == f = [s \in SUBSET (DOMAIN c) |->
                               IF s = {} THEN <<>>
                               ELSE IF c[Max(s)] \in S
                                    THEN Append(f[s \ {Max(s)}], c[Max(s)])
                                    ELSE f[s \ {Max(s)}]]
             g == CHOOSE f : Iter(f)
             F == [x \in A \X (1 .. n) |-> Add(x[1], x[2])]
             h == [k \in 0 .. n |-> g[1 .. k]]
  <1>1. n \in Nat /\ DOMAIN c = 1 .. n /\ \A k \in 1 .. n : c[k] \in V
    OBVIOUS
  <1>2. Only(c, S) = g[DOMAIN c]
    BY DEF Only, FoldLeft, MapThenFoldSet
  <1>3. \A k \in 1 .. n : \A z \in A : Add(z, k) \in A
    BY <1>1
  <1>4. \A k \in 1 .. n : \A z \in A : F[<<z, k>>] = Add(z, k)
    OBVIOUS
  <1>5. <<>> \in A
    OBVIOUS
  <1> HIDE DEF F, n, Add, A
  <1>6. PICK f : FoldIn(f, n, A, <<>>, F)
    <2>1. \A k \in 1 .. n : \A z \in A : F[<<z, k>>] \in A
      BY <1>3, <1>4
    <2> QED
      BY <2>1, <1>1, <1>5, FoldGraph
  <1>7. Iter(f)
    <2>1. ASSUME NEW s \in SUBSET (1 .. n), s # {}
          PROVE  F[<<f[s \ {Max(s)}], Max(s)>>] = Add(f[s \ {Max(s)}], Max(s))
      <3>1. Max(s) \in 1 .. n
        BY <1>1, <2>1, MaxIn
      <3>2. f[s \ {Max(s)}] \in A
        BY <1>6 DEF FoldIn
      <3> QED
        BY <3>1, <3>2, <1>4
    <2> QED
      BY <1>6, <2>1, <1>1 DEF Add, FoldIn
  <1>8. Iter(g)
    <2> HIDE DEF Iter
    <2> QED
      BY <1>7
  <1> HIDE DEF g
  <1>9. \A s \in SUBSET (1 .. n) :
           g[s] = IF s = {} THEN <<>> ELSE Add(g[s \ {Max(s)}], Max(s))
    BY <1>1, <1>8 DEF Add
  <1> HIDE DEF Iter
  <1>10. \A k \in 0 .. n : h[k] = g[1 .. k]
    OBVIOUS
  <1> HIDE DEF h
  <1>11. h[0] = <<>>
    <2>1. g[1 .. 0] = <<>>
      BY <1>1, <1>9, FoldPath
    <2>2. 0 \in 0 .. n
      BY <1>1
    <2> QED
      BY <2>1, <2>2, <1>10
  <1>12. ASSUME NEW k \in 1 .. n
         PROVE  h[k] = Add(h[k - 1], k)
    <2>1. k - 1 \in 0 .. n /\ k \in 0 .. n
      BY <1>1
    <2>2. /\ 1 .. k \in SUBSET (1 .. n) /\ 1 .. k # {} /\ Max(1 .. k) = k
          /\ (1 .. k) \ {k} = 1 .. (k - 1)
      BY <1>1, FoldPath
    <2>3. g[1 .. k] = Add(g[1 .. (k - 1)], k)
      BY <2>2, <1>9
    <2> QED
      BY <2>1, <2>3, <1>10
  <1> DEFINE T == {k \in 0 .. n : h[k] \in A}
  <1>13. 0 \in T
    BY <1>1, <1>5, <1>11
  <1>14. ASSUME NEW k \in 0 .. n, k \in T, k < n
         PROVE  k + 1 \in T
    <2>1. k + 1 \in 1 .. n /\ (k + 1) - 1 = k /\ k + 1 \in 0 .. n
      BY <1>1, <1>14
    <2>2. h[k + 1] = Add(h[k], k + 1) /\ h[k] \in A
      BY <2>1, <1>12, <1>14
    <2> QED
      BY <2>1, <2>2, <1>3
  <1> HIDE DEF T
  <1>15. 0 .. n \subseteq T
    BY <1>1, <1>13, <1>14, InductionUpTo
  <1>16. \A k \in 0 .. n : h[k] \in A
    BY <1>15 DEF T
  <1>17. Only(c, S) = h[n]
    BY <1>1, <1>2, <1>10
  <1>18. OnlyPath(h, c, S, V)
    BY <1>11, <1>12, <1>16, <1>17 DEF OnlyPath, Add, A, n
  <1> QED
    BY <1>18

\* Of those kept as many are in a set as were in it before.
LEMMA HitsOnly ==
    ASSUME NEW V, NEW c \in Seq(V), NEW K, NEW S
    PROVE  /\ Hits(Only(c, K), S) = Hits(c, K \cap S)
           /\ Only(c, K) \in Seq(V)
  <1> DEFINE n == Len(c)
             W == K \cap S
  <1>1. n \in Nat /\ \A k \in 1 .. n : c[k] \in V
    OBVIOUS
  <1>2. PICK h : OnlyPath(h, c, K, V)
    BY OnlySteps
  <1> DEFINE T == {k \in 0 .. n : Hits(h[k], S) = UpTo(c, W, k)}
  <1>3. 0 \in T
    <2>1. h[0] = <<>> /\ 0 \in 0 .. n
      BY <1>1, <1>2 DEF OnlyPath
    <2>2. <<>> \in Seq(V)
      OBVIOUS
    <2>3. Hits(<<>>, S) = 0
      BY <2>2, HitsFacts
    <2>4. UpTo(c, W, 0) = 0
      BY UpToFacts
    <2> QED
      BY <2>1, <2>3, <2>4
  <1>4. ASSUME NEW k \in 0 .. n, k \in T, k < n
        PROVE  k + 1 \in T
    <2>1. k + 1 \in 1 .. n /\ (k + 1) - 1 = k /\ k + 1 \in 0 .. n /\ k \in Nat
      BY <1>1, <1>4
    <2>2. UpTo(c, W, k + 1) = UpTo(c, W, k) + One(c[k + 1] \in W) /\ UpTo(c, W, k) \in Nat
      BY <2>1, UpToFacts
    <2>3. /\ h[k] \in Seq(V) /\ c[k + 1] \in V
          /\ h[k + 1] = IF c[k + 1] \in K THEN Append(h[k], c[k + 1]) ELSE h[k]
      BY <2>1, <1>1, <1>2 DEF OnlyPath
    <2>4. Hits(h[k], S) = UpTo(c, W, k)
      BY <1>4
    <2>5. CASE c[k + 1] \in K
      <3>1. c[k + 1] \in W <=> c[k + 1] \in S
        BY <2>5
      <3>2. Hits(Append(h[k], c[k + 1]), S) = Hits(h[k], S) + One(c[k + 1] \in S)
        BY <2>3, HitsFacts
      <3>3. One(c[k + 1] \in W) = One(c[k + 1] \in S)
        BY <3>1 DEF One
      <3> QED
        BY <2>1, <2>2, <2>3, <2>4, <2>5, <3>2, <3>3
    <2>6. CASE c[k + 1] \notin K
      <3>1. One(c[k + 1] \in W) = 0
        BY <2>6 DEF One
      <3> QED
        BY <2>1, <2>2, <2>3, <2>4, <2>6, <3>1
    <2> QED
      BY <2>5, <2>6
  <1> HIDE DEF T, W
  <1>5. 0 .. n \subseteq T
    BY <1>1, <1>3, <1>4, InductionUpTo
  <1>6. n \in T /\ n \in 0 .. n
    BY <1>1, <1>5
  <1>7. Hits(h[n], S) = UpTo(c, W, n) /\ Only(c, K) = h[n] /\ h[n] \in Seq(V)
    BY <1>2, <1>6 DEF T, OnlyPath
  <1> QED
    BY <1>7 DEF Hits, W, n

\* If all are kept nothing changes.
LEMMA OnlyAll ==
    ASSUME NEW V, NEW c \in Seq(V), NEW K, \A k \in 1 .. Len(c) : c[k] \in K
    PROVE  Only(c, K) = c
  <1> DEFINE n == Len(c)
  <1>1. n \in Nat /\ \A k \in 1 .. n : c[k] \in V
    OBVIOUS
  <1>2. PICK h : OnlyPath(h, c, K, V)
    BY OnlySteps
  <1> DEFINE T == {k \in 0 .. n : Len(h[k]) = k /\ \A i \in 1 .. k : h[k][i] = c[i]}
  <1>3. 0 \in T
    <2>1. h[0] = <<>> /\ 0 \in 0 .. n
      BY <1>1, <1>2 DEF OnlyPath
    <2> QED
      BY <2>1
  <1>4. ASSUME NEW k \in 0 .. n, k \in T, k < n
        PROVE  k + 1 \in T
    <2>1. k + 1 \in 1 .. n /\ (k + 1) - 1 = k /\ k + 1 \in 0 .. n /\ k \in Nat
      BY <1>1, <1>4
    <2>2. h[k] \in Seq(V) /\ c[k + 1] \in V /\ h[k + 1] = Append(h[k], c[k + 1])
      BY <2>1, <1>1, <1>2 DEF OnlyPath
    <2>3. Len(h[k]) = k /\ \A i \in 1 .. k : h[k][i] = c[i]
      BY <1>4
    <2>4. /\ Len(h[k + 1]) = k + 1 /\ h[k + 1][k + 1] = c[k + 1]
          /\ \A i \in 1 .. k : h[k + 1][i] = h[k][i]
      <3>1. /\ Len(Append(h[k], c[k + 1])) = Len(h[k]) + 1
            /\ \A i \in 1 .. Len(h[k]) : Append(h[k], c[k + 1])[i] = h[k][i]
            /\ Append(h[k], c[k + 1])[Len(h[k]) + 1] = c[k + 1]
        BY <2>2, AppendFacts
      <3> QED
        BY <3>1, <2>2, <2>3
    <2> QED
      BY <2>1, <2>3, <2>4
  <1> HIDE DEF T
  <1>5. 0 .. n \subseteq T
    BY <1>1, <1>3, <1>4, InductionUpTo
  <1>6. n \in T /\ n \in 0 .. n
    BY <1>1, <1>5
  <1>7. /\ Len(h[n]) = n /\ \A i \in 1 .. n : h[n][i] = c[i]
        /\ Only(c, K) = h[n] /\ h[n] \in Seq(V)
    BY <1>2, <1>6 DEF T, OnlyPath
  <1> DEFINE x == h[n]
  <1>8. x = [i \in 1 .. n |-> x[i]] /\ c = [i \in 1 .. n |-> c[i]]
    BY <1>7
  <1> QED
    BY <1>7, <1>8

\* A page whose count is that of its cells, each of which can be read.
Tidy(page) ==
    /\ page.count = Len(page.cells)
    /\ \A i \in 1 .. Len(page.cells) : Readable(page.cells[i])

\* A scan finds all of its cells.
LEMMA TidyFacts ==
    ASSUME NEW V, NEW page, Tidy(page), page.cells \in Seq(V)
    PROVE  /\ Records(page) = page.cells
           /\ Legible(page) = page.cells
  <1> DEFINE c == page.cells
             n == Len(c)
             K == {r \in ToSet(c) : Readable(r)}
  <1>1. n \in Nat /\ DOMAIN c = 1 .. n
    OBVIOUS
  <1>2. SubSeq(c, 1, n) = c
    <2>1. n \in 0 .. n
      BY <1>1
    <2> HIDE DEF c
    <2>2. c \in Seq(V)
      BY DEF c
    <2> QED
      BY <2>2
  <1>3. Records(page) = c
    BY <1>2 DEF Records, Tidy
  <1>4. \A i \in 1 .. n : c[i] \in K
    BY <1>1 DEF Tidy, ToSet
  <1>5. Legible(page) = Only(c, K)
    BY <1>3 DEF Legible
  <1> HIDE DEF K, c
  <1>6. Only(c, K) = c
    <2>1. c \in Seq(V)
      BY DEF c
    <2> QED
      BY <1>4, <2>1, OnlyAll
  <1> QED
    BY <1>3, <1>5, <1>6 DEF c

\* The hits of a set in each page of c.
PageHits(d, c, S) == [k \in 1 .. Len(c) |-> Hits(Legible(d.pages[c[k]]), S)]

-----------------------------------------------------------------------------
(* What a scan finds, page by page.                                        *)

\* The hits in all pages are those in each of them together.
LEMMA HitsGathered ==
    ASSUME NEW V, NEW d, NEW c \in Seq(Nat),
           \A k \in 1 .. Len(c) : Legible(d.pages[c[k]]) \in Seq(V)
    PROVE  /\ Gathered(d, c) \in Seq(V)
           /\ \A S : \A h : Adds(h, PageHits(d, c, S), Len(c)) => Hits(Gathered(d, c), S) = h[Len(c)]
  <1> DEFINE n == Len(c)
             A == Seq(V)
             Add(z, k) == z \o Legible(d.pages[c[k]])
             Iter(f) == f = [s \in SUBSET (DOMAIN c) |->
                               IF s = {} THEN <<>>
                               ELSE f[s \ {Max(s)}] \o Legible(d.pages[c[Max(s)]])]
             g == CHOOSE f : Iter(f)
             F == [x \in A \X (1 .. n) |-> Add(x[1], x[2])]
  <1>1. n \in Nat /\ DOMAIN c = 1 .. n
    OBVIOUS
  <1>2. Gathered(d, c) = g[DOMAIN c]
    BY DEF Gathered, FoldLeft, MapThenFoldSet
  <1>3. ASSUME NEW k \in 1 .. n, NEW z \in A
        PROVE  Add(z, k) \in A
    <2> DEFINE l == Legible(d.pages[c[k]])
    <2>1. l \in A
      OBVIOUS
    <2> HIDE DEF l
    <2>2. z \o l \in A
      BY <2>1
    <2> QED
      BY <2>2 DEF l
  <1>4. \A k \in 1 .. n : \A z \in A : F[<<z, k>>] = Add(z, k)
    OBVIOUS
  <1>5. <<>> \in A
    OBVIOUS
  <1> HIDE DEF F, n, Add
  <1>6. PICK f : FoldIn(f, n, A, <<>>, F)
    <2> HIDE DEF A
    <2>1. \A k \in 1 .. n : \A z \in A : F[<<z, k>>] \in A
      BY <1>3, <1>4
    <2> QED
      BY <2>1, <1>1, <1>5, FoldGraph
  <1>7. Iter(f)
    <2>1. ASSUME NEW s \in SUBSET (1 .. n), s # {}
          PROVE  F[<<f[s \ {Max(s)}], Max(s)>>] = Add(f[s \ {Max(s)}], Max(s))
      <3>1. Max(s) \in 1 .. n
        BY <1>1, <2>1, MaxIn
      <3>2. f[s \ {Max(s)}] \in A
        BY <1>6 DEF FoldIn
      <3> QED
        BY <3>1, <3>2, <1>4
    <2> QED
      BY <1>6, <2>1, <1>1 DEF Add, FoldIn
  <1>8. Iter(g)
    <2> HIDE DEF Iter
    <2> QED
      BY <1>7
  <1> HIDE DEF g
  <1>9. \A s \in SUBSET (1 .. n) :
           g[s] = IF s = {} THEN <<>> ELSE Add(g[s \ {Max(s)}], Max(s))
    BY <1>1, <1>8 DEF Add
  <1> HIDE DEF Iter
  <1>10. ASSUME NEW S, NEW h, Adds(h, PageHits(d, c, S), n)
         PROVE  g[1 .. n] \in A /\ Hits(g[1 .. n], S) = h[n]
    <2> DEFINE T == {k \in 0 .. n : g[1 .. k] \in A /\ Hits(g[1 .. k], S) = h[k]}
    <2>1. 0 \in T
      <3>1. g[1 .. 0] = <<>>
        BY <1>1, <1>9, FoldPath
      <3>2. Hits(<<>>, S) = 0
        BY <1>5, HitsFacts
      <3>3. h[0] = 0 /\ 0 \in 0 .. n
        BY <1>1, <1>10 DEF Adds
      <3> QED
        BY <3>1, <3>2, <3>3, <1>5
    <2>2. ASSUME NEW k \in 0 .. n, k \in T, k < n
          PROVE  k + 1 \in T
      <3> DEFINE l == Legible(d.pages[c[k + 1]])
                 z == g[1 .. k]
      <3>1. k + 1 \in 1 .. n /\ (k + 1) - 1 = k /\ k + 1 \in 0 .. n
        BY <1>1, <2>2
      <3>2. /\ 1 .. k + 1 \in SUBSET (1 .. n) /\ 1 .. k + 1 # {} /\ Max(1 .. k + 1) = k + 1
            /\ (1 .. k + 1) \ {k + 1} = 1 .. k
        BY <1>1, <3>1, FoldPath
      <3>3. g[1 .. k + 1] = z \o l
        BY <3>2, <1>9 DEF Add
      <3>4. z \in A /\ Hits(z, S) = h[k]
        BY <2>2
      <3>5. l \in A
        BY <3>1 DEF n
      <3>6. h[k + 1] = h[k] + Hits(l, S)
        <4>1. PageHits(d, c, S)[k + 1] = Hits(l, S)
          BY <3>1 DEF PageHits, n
        <4> QED
          BY <3>1, <4>1, <1>10 DEF Adds
      <3> HIDE DEF l, z
      <3>7. Hits(z \o l, S) = Hits(z, S) + Hits(l, S)
        BY <3>4, <3>5, HitsConcat
      <3>8. z \o l \in A
        BY <3>4, <3>5
      <3> QED
        BY <3>1, <3>3, <3>4, <3>6, <3>7, <3>8
    <2> HIDE DEF T, A
    <2>3. 0 .. n \subseteq T
      BY <1>1, <2>1, <2>2, InductionUpTo
    <2>4. n \in T
      BY <1>1, <2>3
    <2> QED
      BY <2>4 DEF T
  <1>11. \E h : Adds(h, PageHits(d, c, {}), n)
    <2>1. \A k \in 1 .. n : PageHits(d, c, {})[k] \in Nat
      <3> SUFFICES ASSUME NEW k \in 1 .. n PROVE PageHits(d, c, {})[k] \in Nat
        OBVIOUS
      <3>1. Legible(d.pages[c[k]]) \in Seq(V) /\ k \in 1 .. Len(c)
        BY DEF n
      <3>2. Hits(Legible(d.pages[c[k]]), {}) \in Nat
        BY <3>1, HitsFacts
      <3> QED
        BY <3>1, <3>2 DEF PageHits
    <2> QED
      BY <2>1, <1>1, AddsExist
  <1> QED
    BY <1>1, <1>2, <1>10, <1>11 DEF n

Tidied(d, sp) == \A k \in 1 .. Len(sp) : Tidy(d.pages[sp[k]])

CellHits(d, sp, S) == [k \in 1 .. Len(sp) |-> Hits(d.pages[sp[k]].cells, S)]

\* A page that a spine has, and the empty one, are as a scan finds them.
LEMMA TidyPages ==
    ASSUME NEW d, NEW s, Good(d, s), NEW t \in Names, Tidied(d, s[t])
    PROVE  /\ \A k \in 1 .. Len(s[t]) :
                 /\ Legible(d.pages[s[t][k]]) = d.pages[s[t][k]].cells
                 /\ Records(d.pages[s[t][k]]) = d.pages[s[t][k]].cells
                 /\ d.pages[s[t][k]].cells \in Seq(Cell(t))
           /\ Legible(EmptyPage) = <<>> /\ Records(EmptyPage) = <<>> /\ Tidy(EmptyPage)
  <1>1. ASSUME NEW k \in 1 .. Len(s[t])
        PROVE  /\ Legible(d.pages[s[t][k]]) = d.pages[s[t][k]].cells
               /\ Records(d.pages[s[t][k]]) = d.pages[s[t][k]].cells
               /\ d.pages[s[t][k]].cells \in Seq(Cell(t))
    <2> DEFINE page == d.pages[s[t][k]]
    <2>1. Tidy(page)
      BY DEF Tidied
    <2>2. page.cells \in Seq(Cell(t))
      BY DEF Good, Spine
    <2> HIDE DEF page
    <2>3. Legible(page) = page.cells /\ Records(page) = page.cells
      BY <2>1, <2>2, TidyFacts
    <2> QED
      BY <2>2, <2>3 DEF page
  <1>2. Tidy(EmptyPage) /\ EmptyPage.cells = <<>>
    BY DEF Tidy, EmptyPage
  <1>3. EmptyPage.cells \in Seq({})
    BY <1>2
  <1>4. Legible(EmptyPage) = <<>> /\ Records(EmptyPage) = <<>>
    BY <1>2, <1>3, TidyFacts
  <1> QED
    BY <1>1, <1>2, <1>4

\* What a scan finds, page by page of the spine.
LEMMA ScanAdds ==
    ASSUME NEW d, NEW s, Good(d, s), NEW t \in Names, s[t] # <<>>, Tidied(d, s[t])
    PROVE  /\ Scan(d, t) \in Seq(Cell(t))
           /\ \A S : \A h : Adds(h, CellHits(d, s[t], S), Len(s[t])) =>
                            Hits(Scan(d, t), S) = h[Len(s[t])]
  <1> DEFINE c == Whole(d.pages, s[t])
             m == Len(s[t])
             n == Len(c)
  <1>1. Exists(d, t)
    BY ExistsFacts
  <1>2. Chain(d, t) = c
    BY <1>1, ChainIs
  <1>3. /\ c \in Seq(Nat) /\ n \in Nat /\ n >= m /\ m \in Nat \ {0}
        /\ \A k \in 1 .. m : c[k] = s[t][k]
        /\ \A k \in 1 .. n : k <= m \/ d.pages[c[k]] = EmptyPage
    BY WholeFacts
  <1> HIDE DEF c
  <1>4. Scan(d, t) = Gathered(d, c)
    BY <1>2 DEF Scan, Gathered
  <1>5. ASSUME NEW k \in 1 .. n
        PROVE  \/ /\ k \in 1 .. m
                  /\ Legible(d.pages[c[k]]) = d.pages[s[t][k]].cells
                  /\ Legible(d.pages[c[k]]) \in Seq(Cell(t))
               \/ ~ (k <= m) /\ Legible(d.pages[c[k]]) = <<>>
    <2>1. CASE k <= m
      <3>1. k \in 1 .. m /\ c[k] = s[t][k]
        BY <2>1, <1>3
      <3> QED
        BY <3>1, TidyPages
    <2>2. CASE ~ (k <= m)
      <3>1. d.pages[c[k]] = EmptyPage
        BY <2>2, <1>3
      <3> QED
        BY <2>2, <3>1, TidyPages
    <2> QED
      BY <2>1, <2>2
  <1>6. \A k \in 1 .. Len(c) : Legible(d.pages[c[k]]) \in Seq(Cell(t))
    <2>1. <<>> \in Seq(Cell(t))
      OBVIOUS
    <2> QED
      BY <2>1, <1>5
  <1>7. /\ Gathered(d, c) \in Seq(Cell(t))
        /\ \A S : \A h : Adds(h, PageHits(d, c, S), n) => Hits(Gathered(d, c), S) = h[n]
    BY <1>3, <1>6, HitsGathered
  <1>8. ASSUME NEW S, NEW h, Adds(h, CellHits(d, s[t], S), m)
        PROVE  Hits(Scan(d, t), S) = h[m]
    <2> DEFINE i == [k \in 0 .. n |-> IF k <= m THEN h[k] ELSE h[m]]
               g == CellHits(d, s[t], S)
               f == PageHits(d, c, S)
    <2> HIDE DEF m, n
    <2>1. \A k \in 0 .. n : i[k] = IF k <= m THEN h[k] ELSE h[m]
      OBVIOUS
    <2> HIDE DEF i
    <2>2. \A k \in 1 .. m : g[k] = Hits(d.pages[s[t][k]].cells, S) /\ g[k] \in Nat
      <3> SUFFICES ASSUME NEW k \in 1 .. m
                   PROVE  g[k] = Hits(d.pages[s[t][k]].cells, S) /\ g[k] \in Nat
        OBVIOUS
      <3>1. k \in 1 .. Len(s[t])
        BY DEF m
      <3>2. d.pages[s[t][k]].cells \in Seq(Cell(t))
        BY <3>1, TidyPages
      <3>3. Hits(d.pages[s[t][k]].cells, S) \in Nat
        BY <3>2, HitsFacts
      <3> QED
        BY <3>1, <3>3 DEF CellHits
    <2>3. \A k \in 1 .. n : f[k] = IF k <= m THEN g[k] ELSE 0
      <3> SUFFICES ASSUME NEW k \in 1 .. n PROVE f[k] = IF k <= m THEN g[k] ELSE 0
        OBVIOUS
      <3>1. f[k] = Hits(Legible(d.pages[c[k]]), S)
        BY DEF PageHits, n
      <3>2. CASE k <= m
        <4>1. k \in 1 .. m /\ Legible(d.pages[c[k]]) = d.pages[s[t][k]].cells
          BY <3>2, <1>5
        <4> HIDE DEF f, g
        <4> QED
          BY <3>1, <3>2, <4>1, <2>2
      <3>3. CASE ~ (k <= m)
        <4>1. Legible(d.pages[c[k]]) = <<>>
          BY <3>3, <1>5
        <4>2. <<>> \in Seq({}) 
          OBVIOUS
        <4>3. Hits(<<>>, S) = 0
          BY <4>2, HitsFacts
        <4> HIDE DEF f, g
        <4> QED
          BY <3>1, <3>3, <4>1, <4>3
      <3> QED
        BY <3>2, <3>3
    <2>4. Adds(h, g, m)
      BY <1>8
    <2> HIDE DEF f, g
    <2>5. \A k \in 0 .. m : h[k] \in Nat
      BY <1>3, <2>2, <2>4, AddsNat
    <2>6. Adds(i, f, n)
      <3>1. i[0] = 0
        BY <1>3, <2>1, <2>4 DEF Adds
      <3>2. ASSUME NEW k \in 1 .. n
            PROVE  i[k] = i[k - 1] + f[k]
        <4>1. k - 1 \in 0 .. n /\ k \in 0 .. n
          BY <1>3
        <4>2. CASE k <= m
          <5>1. k \in 1 .. m /\ k - 1 <= m
            BY <1>3, <4>2
          <5>2. i[k] = h[k] /\ i[k - 1] = h[k - 1] /\ f[k] = g[k]
            BY <4>1, <4>2, <5>1, <2>1, <2>3
          <5> QED
            BY <5>1, <5>2, <2>4 DEF Adds
        <4>3. CASE ~ (k <= m)
          <5>1. i[k] = h[m] /\ f[k] = 0
            BY <4>1, <4>3, <2>1, <2>3
          <5>2. i[k - 1] = h[m]
            <6>1. k - 1 = m \/ ~ (k - 1 <= m)
              BY <1>3, <4>3
            <6> QED
              BY <4>1, <6>1, <2>1
          <5>3. h[m] \in Nat
            BY <1>3, <2>5
          <5> QED
            BY <5>1, <5>2, <5>3
        <4> QED
          BY <4>2, <4>3
      <3> QED
        BY <3>1, <3>2 DEF Adds
    <2>7. Hits(Gathered(d, c), S) = i[n]
      BY <1>7, <2>6 DEF f
    <2>8. i[n] = h[m]
      <3>1. n \in 0 .. n /\ (n <= m => n = m)
        BY <1>3
      <3> QED
        BY <3>1, <2>1
    <2> QED
      BY <1>4, <2>7, <2>8 DEF m
  <1> QED
    BY <1>4, <1>7, <1>8

\* Sums of these numbers.
Summed(d, sp, t, S) ==
    /\ \A k \in 1 .. Len(sp) :
          /\ CellHits(d, sp, S)[k] = Hits(d.pages[sp[k]].cells, S)
          /\ CellHits(d, sp, S)[k] \in Nat
    /\ Len(sp) \in Nat \ {0}
    /\ \E h : Adds(h, CellHits(d, sp, S), Len(sp)) /\ Hits(Scan(d, t), S) = h[Len(sp)]
    /\ Hits(Scan(d, t), S) \in Nat

\* What a scan finds is the sum of what the pages of the spine have.
LEMMA CellSums ==
    ASSUME NEW d, NEW s, Good(d, s), NEW t \in Names, s[t] # <<>>, Tidied(d, s[t]), NEW S
    PROVE  Summed(d, s[t], t, S)
  <1>1. ASSUME NEW k \in 1 .. Len(s[t])
        PROVE  /\ CellHits(d, s[t], S)[k] = Hits(d.pages[s[t][k]].cells, S)
               /\ CellHits(d, s[t], S)[k] \in Nat
    <2>1. d.pages[s[t][k]].cells \in Seq(Cell(t))
      BY TidyPages
    <2>2. Hits(d.pages[s[t][k]].cells, S) \in Nat
      BY <2>1, HitsFacts
    <2> QED
      BY <2>2 DEF CellHits
  <1>2. Len(s[t]) \in Nat \ {0} /\ Len(s[t]) \in Nat
    BY SpineFacts
  <1>3. PICK h : Adds(h, CellHits(d, s[t], S), Len(s[t]))
    BY <1>1, <1>2, AddsExist
  <1>4. Hits(Scan(d, t), S) = h[Len(s[t])]
    BY <1>3, ScanAdds
  <1>5. Scan(d, t) \in Seq(Cell(t))
    BY ScanAdds
  <1>6. Hits(Scan(d, t), S) \in Nat
    BY <1>5, HitsFacts
  <1> QED
    BY <1>1, <1>2, <1>3, <1>4, <1>6 DEF Summed

\* Pages with as many hits make a scan with as many.
LEMMA ScanSame ==
    ASSUME NEW d, NEW s, Good(d, s), NEW t \in Names, s[t] # <<>>, Tidied(d, s[t]), NEW S,
           NEW e, Good(e, s), Tidied(e, s[t]), NEW T,
           \A k \in 1 .. Len(s[t]) :
              Hits(e.pages[s[t][k]].cells, T) = Hits(d.pages[s[t][k]].cells, S)
    PROVE  Hits(Scan(e, t), T) = Hits(Scan(d, t), S)
  <1> DEFINE n == Len(s[t])
             g == CellHits(d, s[t], S)
             f == CellHits(e, s[t], T)
  <1>1. /\ n \in Nat /\ \A k \in 1 .. n : g[k] = Hits(d.pages[s[t][k]].cells, S)
        /\ \E h : Adds(h, g, n) /\ Hits(Scan(d, t), S) = h[n]
    <2>1. Summed(d, s[t], t, S)
      BY CellSums
    <2> QED
      BY <2>1 DEF Summed
  <1>2. /\ \A k \in 1 .. n : f[k] = Hits(e.pages[s[t][k]].cells, T)
        /\ \E i : Adds(i, f, n) /\ Hits(Scan(e, t), T) = i[n]
    <2>1. Summed(e, s[t], t, T)
      BY CellSums
    <2> QED
      BY <2>1 DEF Summed
  <1>3. \A k \in 1 .. n : f[k] = g[k]
    BY <1>1, <1>2
  <1>4. PICK h : Adds(h, g, n) /\ Hits(Scan(d, t), S) = h[n]
    BY <1>1
  <1>5. PICK i : Adds(i, f, n) /\ Hits(Scan(e, t), T) = i[n]
    BY <1>2
  <1> HIDE DEF f, g, n
  <1> QED
    BY <1>1, <1>3, <1>4, <1>5, AddsSame

\* One page with other hits makes the difference.
LEMMA ScanDiffer ==
    ASSUME NEW d, NEW s, Good(d, s), NEW t \in Names, s[t] # <<>>, Tidied(d, s[t]), NEW S,
           NEW e, Good(e, s), Tidied(e, s[t]), NEW T, NEW p \in 1 .. Len(s[t]),
           \A k \in 1 .. Len(s[t]) : k # p =>
              Hits(e.pages[s[t][k]].cells, T) = Hits(d.pages[s[t][k]].cells, S)
    PROVE  Hits(Scan(e, t), T) + Hits(d.pages[s[t][p]].cells, S)
           = Hits(Scan(d, t), S) + Hits(e.pages[s[t][p]].cells, T)
  <1> DEFINE n == Len(s[t])
             g == CellHits(d, s[t], S)
             f == CellHits(e, s[t], T)
  <1>1. /\ n \in Nat /\ \A k \in 1 .. n : g[k] = Hits(d.pages[s[t][k]].cells, S) /\ g[k] \in Nat
        /\ \E h : Adds(h, g, n) /\ Hits(Scan(d, t), S) = h[n]
    <2>1. Summed(d, s[t], t, S)
      BY CellSums
    <2> QED
      BY <2>1 DEF Summed
  <1>2. /\ \A k \in 1 .. n : f[k] = Hits(e.pages[s[t][k]].cells, T) /\ f[k] \in Nat
        /\ \E i : Adds(i, f, n) /\ Hits(Scan(e, t), T) = i[n]
    <2>1. Summed(e, s[t], t, T)
      BY CellSums
    <2> QED
      BY <2>1 DEF Summed
  <1>3. \A k \in 1 .. n : k # p => f[k] = g[k]
    BY <1>1, <1>2
  <1>4. PICK h : Adds(h, g, n) /\ Hits(Scan(d, t), S) = h[n]
    BY <1>1
  <1>5. PICK i : Adds(i, f, n) /\ Hits(Scan(e, t), T) = i[n]
    BY <1>2
  <1>6. p \in 1 .. n
    OBVIOUS
  <1> HIDE DEF f, g, n
  <1>7. i[n] + g[p] = h[n] + f[p]
    BY <1>1, <1>2, <1>3, <1>4, <1>5, <1>6, AddsDiffer, SMTT(30)
  <1> QED
    BY <1>1, <1>2, <1>4, <1>5, <1>6, <1>7

\* A page more adds its hits.
LEMMA ScanLonger ==
    ASSUME NEW d, NEW s, Good(d, s), NEW t \in Names, s[t] # <<>>, Tidied(d, s[t]), NEW S,
           NEW e, NEW u, Good(e, u), Tidied(e, u[t]), NEW T, Len(u[t]) = Len(s[t]) + 1,
           \A k \in 1 .. Len(s[t]) :
              Hits(e.pages[u[t][k]].cells, T) = Hits(d.pages[s[t][k]].cells, S)
    PROVE  Hits(Scan(e, t), T) = Hits(Scan(d, t), S) + Hits(e.pages[u[t][Len(u[t])]].cells, T)
  <1> DEFINE n == Len(s[t])
             g == CellHits(d, s[t], S)
             f == CellHits(e, u[t], T)
  <1>1. /\ n \in Nat \ {0} /\ \A k \in 1 .. n : g[k] = Hits(d.pages[s[t][k]].cells, S)
        /\ \E h : Adds(h, g, n) /\ Hits(Scan(d, t), S) = h[n]
    <2>1. Summed(d, s[t], t, S)
      BY CellSums
    <2> QED
      BY <2>1 DEF Summed
  <1>0. u[t] # <<>>
    <2>1. Len(u[t]) # 0
      BY <1>1
    <2> QED
      BY <2>1
  <1>2. /\ \A k \in 1 .. n + 1 : f[k] = Hits(e.pages[u[t][k]].cells, T)
        /\ \E i : Adds(i, f, n + 1) /\ Hits(Scan(e, t), T) = i[n + 1]
    <2>1. Summed(e, u[t], t, T)
      BY <1>0, CellSums
    <2> QED
      BY <2>1 DEF Summed
  <1>3. \A k \in 1 .. n : f[k] = g[k]
    BY <1>1, <1>2
  <1>4. PICK h : Adds(h, g, n) /\ Hits(Scan(d, t), S) = h[n]
    BY <1>1
  <1>5. PICK i : Adds(i, f, n + 1) /\ Hits(Scan(e, t), T) = i[n + 1]
    BY <1>2
  <1>6. Len(u[t]) = n + 1
    OBVIOUS
  <1> HIDE DEF f, g, n
  <1>7. Adds(i, f, n)
    BY <1>1, <1>5 DEF Adds
  <1>8. i[n] = h[n]
    BY <1>1, <1>3, <1>4, <1>7, AddsSame
  <1>9. n + 1 \in 1 .. n + 1 /\ (n + 1) - 1 = n
    BY <1>1
  <1>10. i[n + 1] = i[n] + f[n + 1]
    BY <1>5, <1>9 DEF Adds
  <1> QED
    BY <1>2, <1>4, <1>5, <1>6, <1>8, <1>9, <1>10

\* Where nothing, or one row, is found.
FewIn(d, sp, S, n) ==
    /\ n = 0 <=> \A k \in 1 .. Len(sp) : Hits(d.pages[sp[k]].cells, S) = 0
    /\ \A k \in 1 .. Len(sp) : Hits(d.pages[sp[k]].cells, S) <= n
    /\ \A k, l \in 1 .. Len(sp) : k # l =>
          Hits(d.pages[sp[k]].cells, S) + Hits(d.pages[sp[l]].cells, S) <= n
    /\ \A k \in 1 .. Len(sp) : Hits(d.pages[sp[k]].cells, S) \in Nat
    /\ n \in Nat

\* What a scan finds no more than once, its pages have no more than once.
LEMMA ScanFew ==
    ASSUME NEW d, NEW s, Good(d, s), NEW t \in Names, s[t] # <<>>, Tidied(d, s[t]), NEW S
    PROVE  FewIn(d, s[t], S, Hits(Scan(d, t), S))
  <1> DEFINE n == Len(s[t])
             g == CellHits(d, s[t], S)
  <1>1. /\ n \in Nat
        /\ \A k \in 1 .. n : g[k] = Hits(d.pages[s[t][k]].cells, S) /\ g[k] \in Nat
        /\ \E h : Adds(h, g, n) /\ Hits(Scan(d, t), S) = h[n]
        /\ Hits(Scan(d, t), S) \in Nat
    <2>1. Summed(d, s[t], t, S)
      BY CellSums
    <2> QED
      BY <2>1 DEF Summed
  <1>2. PICK h : Adds(h, g, n) /\ Hits(Scan(d, t), S) = h[n]
    BY <1>1
  <1> HIDE DEF g, n
  <1>3. /\ h[n] = 0 <=> \A k \in 1 .. n : g[k] = 0
        /\ \A k \in 1 .. n : g[k] <= h[n]
        /\ \A k, l \in 1 .. n : k # l => g[k] + g[l] <= h[n]
    BY <1>1, <1>2, AddsFew
  <1>4. \A k \in 1 .. n : g[k] = Hits(d.pages[s[t][k]].cells, S)
    BY <1>1
  <1>5. Hits(Scan(d, t), S) = h[n]
    BY <1>2
  <1> QED
    BY <1>1, <1>3, <1>4, <1>5 DEF n, FewIn

\* What the page of a new record has, and its index.
StoredAt(d, t, p, r, e) ==
    /\ Len(e.pages) = Len(d.pages)
    /\ e.pages[p].cells = Append(d.pages[p].cells, r)
    /\ e.pages[p].count = d.pages[p].count + 1
    /\ \A q \in 1 .. Len(d.pages) : q # p => e.pages[q] = d.pages[q]
    /\ e.index = Reindexed(d.index, t, r, p)

\* Storing a record changes the page it goes to, and the index of its table.
LEMMA StoreIs ==
    ASSUME NEW d \in DbType, NEW p \in 1 .. Len(d.pages), NEW t, NEW r,
           NEW e, e = WithEntry(WithPage(d, p, Stored(d.pages[p], r)), t, r, p)
    PROVE  StoredAt(d, t, p, r, e)
  <1> DEFINE dir == d.dir
             pages == d.pages
             index == d.index
             page == Stored(d.pages[p], r)
             after == [pages EXCEPT ![p] = page]
  <1>1. d = Db(dir, pages, index) /\ pages \in Seq(PageType) /\ pages[p] \in PageType
        /\ DOMAIN pages = 1 .. Len(pages) /\ Len(pages) \in Nat
    BY DbFields DEF Db
  <1>2. page.cells = Append(pages[p].cells, r) /\ page.count = pages[p].count + 1
    <2>1. pages[p] = [next |-> pages[p].next, count |-> pages[p].count,
                      free |-> pages[p].free, cells |-> pages[p].cells]
      BY <1>1, PageIs
    <2> QED
      BY <2>1 DEF Stored
  <1> HIDE DEF dir, index, page
  <1>3. /\ Len(after) = Len(pages) /\ after[p] = page
        /\ \A q \in 1 .. Len(pages) : q # p => after[q] = pages[q]
    <2>1. p \in DOMAIN pages
      BY <1>1
    <2> HIDE DEF pages
    <2> QED
      BY <2>1, <1>1
  <1> HIDE DEF pages, after
  <1>4. WithPage(d, p, page) = Db(dir, after, index)
    <2>1. WithPage(Db(dir, pages, index), p, page) = Db(dir, after, index)
      BY WithPageField DEF after
    <2>2. d = Db(dir, pages, index)
      BY <1>1
    <2> QED
      BY <2>1, <2>2
  <1>5. e = Db(dir, after, Reindexed(index, t, r, p))
    BY <1>4, WithEntryField DEF page
  <1>6. e.pages = after /\ e.index = Reindexed(index, t, r, p)
    BY <1>5 DEF Db
  <1> QED
    BY <1>2, <1>3, <1>6 DEF StoredAt, pages, index

\* A page with the cells and the count of a tidy one is tidy.
LEMMA TidySame ==
    ASSUME NEW d, NEW s, Good(d, s), NEW t \in Names, Tidied(d, s[t]), NEW e,
           \A p \in 1 .. Len(d.pages) : /\ e.pages[p].cells = d.pages[p].cells
                                        /\ e.pages[p].count = d.pages[p].count
    PROVE  Tidied(e, s[t])
  <1> SUFFICES ASSUME NEW k \in 1 .. Len(s[t])
               PROVE  Tidy(e.pages[s[t][k]])
    BY DEF Tidied
  <1>1. s[t][k] \in 1 .. Len(d.pages)
    BY SpineFacts
  <1>2. Tidy(d.pages[s[t][k]])
    BY DEF Tidied
  <1> QED
    BY <1>1, <1>2 DEF Tidy

\* What an insert that does not throw does to a tidy table: one record more, at
\* the end of the spine u, and its entry in the index.
Put(d, s, e, u, t, r) ==
    /\ Good(e, u) /\ Grows(d, s, e, u, t) /\ u[t] # <<>> /\ Tidied(e, u[t])
    /\ \A k \in 1 .. Len(s[t]) : \A S :
          Hits(e.pages[s[t][k]].cells, S) >= Hits(d.pages[s[t][k]].cells, S)
    /\ Hits(e.pages[u[t][Len(u[t])]].cells, {r}) >= 1
    /\ \A S : Hits(Scan(e, t), S) = Hits(Scan(d, t), S) + One(r \in S)
    /\ e.index = Reindexed(d.index, t, r, u[t][Len(u[t])])

\* A sequence with an element of any kind behind it.
LEMMA AppendIs ==
    ASSUME NEW V, NEW c \in Seq(V), NEW r
    PROVE  /\ Len(Append(c, r)) = Len(c) + 1
           /\ \A i \in 1 .. Len(Append(c, r)) :
                 Append(c, r)[i] = IF i <= Len(c) THEN c[i] ELSE r
  OBVIOUS

\* A page without gaps has none when a record that can be read is added.
LEMMA TidyAppend ==
    ASSUME NEW V, NEW page, page.cells \in Seq(V), Tidy(page), NEW r, Readable(r),
           NEW new, new.cells = Append(page.cells, r), new.count = page.count + 1
    PROVE  Tidy(new)
  <1> DEFINE c == page.cells
             a == Append(c, r)
  <1>1. c \in Seq(V)
    OBVIOUS
  <1>2. page.count = Len(c) /\ \A i \in 1 .. Len(c) : Readable(c[i])
    BY DEF Tidy
  <1>3. Len(c) \in Nat
    BY <1>1
  <1>4. new.cells = a /\ new.count = Len(c) + 1
    BY <1>2
  <1>5. Len(a) = Len(c) + 1 /\ \A i \in 1 .. Len(a) : a[i] = IF i <= Len(c) THEN c[i] ELSE r
    <2> HIDE DEF c
    <2> QED
      BY <1>1, AppendIs
  <1> HIDE DEF c, a
  <1>6. ASSUME NEW i \in 1 .. Len(a)
        PROVE  Readable(a[i])
    <2>1. CASE i <= Len(c)
      <3>1. i \in 1 .. Len(c) /\ a[i] = c[i]
        BY <1>3, <1>5, <2>1
      <3> QED
        BY <1>2, <3>1
    <2>2. CASE ~ (i <= Len(c))
      BY <1>5, <2>2
    <2> QED
      BY <2>1, <2>2
  <1> QED
    BY <1>4, <1>5, <1>6 DEF Tidy

\* A page of the spine with a record more: the last one.
LEMMA StoredPuts ==
    ASSUME NEW d, NEW s, Good(d, s), NEW t \in Names, s[t] # <<>>, Tidied(d, s[t]),
           NEW p, p = s[t][Len(s[t])], NEW r \in Cell(t), Readable(r),
           NEW e, StoredAt(d, t, p, r, e), Good(e, s), Grows(d, s, e, s, t)
    PROVE  Put(d, s, e, s, t, r)
  <1> DEFINE n == Len(s[t])
             c == d.pages[p].cells
  <1>1. n \in 1 .. n /\ n \in Nat
    BY SpineFacts
  <1>2. p \in 1 .. Len(d.pages) /\ d \in DbType /\ c \in Seq(Cell(t))
    <2>1. p \in 1 .. Len(d.pages)
      BY <1>1, SpineFacts
    <2>2. c \in Seq(Cell(t))
      BY <1>1 DEF Good, Spine
    <2> QED
      BY <2>1, <2>2 DEF Good
  <1>3. /\ e.pages[p].cells = Append(c, r)
        /\ e.pages[p].count = d.pages[p].count + 1
        /\ \A q \in 1 .. Len(d.pages) : q # p => e.pages[q] = d.pages[q]
        /\ e.index = Reindexed(d.index, t, r, p)
    BY DEF StoredAt
  <1>4. \A k \in 1 .. n : k = n \/ e.pages[s[t][k]] = d.pages[s[t][k]]
    <2> SUFFICES ASSUME NEW k \in 1 .. n, k # n
                 PROVE  e.pages[s[t][k]] = d.pages[s[t][k]]
      OBVIOUS
    <2>1. s[t][k] \in 1 .. Len(d.pages)
      BY SpineFacts
    <2>2. s[t][k] # p
      <3>1. SpinesApart(s)
        BY DEF Good
      <3> QED
        BY <3>1, <1>1 DEF SpinesApart
    <2> QED
      BY <1>3, <2>1, <2>2
  <1>5. Tidied(e, s[t])
    <2> SUFFICES ASSUME NEW k \in 1 .. n
                 PROVE  Tidy(e.pages[s[t][k]])
      BY DEF Tidied
    <2>1. Tidy(d.pages[s[t][k]]) /\ Tidy(d.pages[p])
      BY <1>1 DEF Tidied
    <2>2. CASE k # n
      BY <2>1, <2>2, <1>4
    <2>3. CASE k = n
      <3>1. Tidy(e.pages[p])
        <4>1. e.pages[p].cells = Append(d.pages[p].cells, r)
              /\ e.pages[p].count = d.pages[p].count + 1
              /\ d.pages[p].cells \in Seq(Cell(t))
          BY <1>2, <1>3
        <4> QED
          BY <2>1, <4>1, TidyAppend
      <3> QED
        BY <2>3, <3>1
    <2> QED
      BY <2>2, <2>3
  <1> DEFINE h(x, S) == Hits(x.pages[p].cells, S)
  <1>6. \A S : h(d, S) \in Nat /\ h(e, S) = h(d, S) + One(r \in S)
    <2> SUFFICES ASSUME NEW S PROVE h(d, S) \in Nat /\ h(e, S) = h(d, S) + One(r \in S)
      OBVIOUS
    <2>1. r \in Cell(t)
      OBVIOUS
    <2>2. Hits(c, S) \in Nat /\ Hits(Append(c, r), S) = Hits(c, S) + One(r \in S)
      BY <1>2, <2>1, HitsFacts
    <2> QED
      BY <1>3, <2>2
  <1>7. \A S : One(r \in S) \in {0, 1} /\ One(r \in {r}) = 1
    BY DEF One
  <1>8. \A S : Hits(Scan(e, t), S) = Hits(Scan(d, t), S) + One(r \in S)
    <2> SUFFICES ASSUME NEW S PROVE Hits(Scan(e, t), S) = Hits(Scan(d, t), S) + One(r \in S)
      OBVIOUS
    <2>1. \A k \in 1 .. Len(s[t]) : k # n =>
              Hits(e.pages[s[t][k]].cells, S) = Hits(d.pages[s[t][k]].cells, S)
      BY <1>4
    <2>2. Hits(Scan(e, t), S) + Hits(d.pages[s[t][n]].cells, S)
          = Hits(Scan(d, t), S) + Hits(e.pages[s[t][n]].cells, S)
      <3>1. n \in 1 .. Len(s[t])
        BY <1>1
      <3> HIDE DEF n
      <3> QED
        BY <3>1, <2>1, <1>5, ScanDiffer, SMTT(30)
    <2>3. Hits(Scan(e, t), S) \in Nat /\ Hits(Scan(d, t), S) \in Nat
      <3>1. Scan(e, t) \in Seq(Cell(t))
        BY <1>5, ScanAdds
      <3>2. Scan(d, t) \in Seq(Cell(t))
        BY ScanAdds
      <3> QED
        BY <3>1, <3>2, HitsFacts
    <2>4. Hits(Scan(e, t), S) + h(d, S) = Hits(Scan(d, t), S) + h(e, S)
      BY <2>2
    <2> HIDE DEF h
    <2> QED
      BY <2>3, <2>4, <1>6, <1>7
  <1>9. ASSUME NEW k \in 1 .. Len(s[t]), NEW S
         PROVE  Hits(e.pages[s[t][k]].cells, S) >= Hits(d.pages[s[t][k]].cells, S)
    <2>1. Hits(d.pages[s[t][k]].cells, S) \in Nat
      <3>1. d.pages[s[t][k]].cells \in Seq(Cell(t))
        BY DEF Good, Spine
      <3> QED
        BY <3>1, HitsFacts
    <2>2. CASE k # n
      BY <2>1, <2>2, <1>4, SMTT(30)
    <2>3. CASE k = n
      <3>1. h(d, S) \in Nat /\ h(e, S) = h(d, S) + One(r \in S) /\ One(r \in S) \in {0, 1}
        BY <1>6, <1>7
      <3>2. h(e, S) >= h(d, S)
        <4> HIDE DEF h
        <4> QED
          BY <3>1
      <3> QED
        BY <2>3, <3>2
    <2> QED
      BY <2>2, <2>3
  <1>10. Hits(e.pages[s[t][Len(s[t])]].cells, {r}) >= 1
    <2>1. h(d, {r}) \in Nat /\ h(e, {r}) = h(d, {r}) + 1
      BY <1>6, <1>7
    <2>2. h(e, {r}) >= 1
      <3> HIDE DEF h
      <3> QED
        BY <2>1
    <2> QED
      BY <2>2
  <1> HIDE DEF h, c, n
  <1> QED
    BY <1>3, <1>5, <1>8, <1>9, <1>10 DEF Put

\* The record is put behind those of the last page.
LEMMA StorePuts ==
    ASSUME NEW d, NEW s, Good(d, s), NEW t \in Names, s[t] # <<>>, Tidied(d, s[t]),
           NEW p, p = s[t][Len(s[t])], NEW r \in Cell(t) \ {Gap}, Readable(r),
           d.pages[p].free + Need(r) <= PageSize \/ d.pages[p].cells = <<>>,
           NEW e, e = WithEntry(WithPage(d, p, Stored(d.pages[p], r)), t, r, p)
    PROVE  Put(d, s, e, s, t, r)
  <1>1. Good(e, s) /\ Grows(d, s, e, s, t)
    BY StoreGood
  <1>2. Len(s[t]) \in 1 .. Len(s[t])
    BY SpineFacts
  <1>3. p \in 1 .. Len(d.pages) /\ d \in DbType
    BY <1>2, SpineFacts DEF Good
  <1>4. StoredAt(d, t, p, r, e)
    BY <1>3, StoreIs
  <1>5. r \in Cell(t)
    OBVIOUS
  <1> QED
    BY <1>1, <1>4, <1>5, StoredPuts

\* A table whose pages have the records they had.
Alike(d, s, e, u, t) ==
    /\ Good(e, u) /\ Grows(d, s, e, u, t) /\ u[t] # <<>> /\ Tidied(e, u[t])
    /\ \A k \in 1 .. Len(s[t]) : e.pages[s[t][k]].cells = d.pages[s[t][k]].cells
    /\ \A S : Hits(Scan(e, t), S) = Hits(Scan(d, t), S)
    /\ e.index = d.index

\* A statement may do nothing.
LEMMA AlikeNot ==
    ASSUME NEW d, NEW s, Good(d, s), NEW t \in Names, s[t] # <<>>, Tidied(d, s[t])
    PROVE  Alike(d, s, d, s, t)
  <1>1. Grows(d, s, d, s, t)
    BY GrowsNot
  <1> QED
    BY <1>1 DEF Alike

\* It is so when the spine is the same.
LEMMA AlikeSame ==
    ASSUME NEW d, NEW s, Good(d, s), NEW t \in Names, s[t] # <<>>, Tidied(d, s[t]),
           NEW e, Good(e, s), Grows(d, s, e, s, t), e.index = d.index,
           \A p \in 1 .. Len(d.pages) : /\ e.pages[p].cells = d.pages[p].cells
                                        /\ e.pages[p].count = d.pages[p].count
    PROVE  Alike(d, s, e, s, t)
  <1>1. Tidied(e, s[t])
    BY TidySame
  <1>2. \A k \in 1 .. Len(s[t]) : e.pages[s[t][k]].cells = d.pages[s[t][k]].cells
    <2> SUFFICES ASSUME NEW k \in 1 .. Len(s[t])
                 PROVE  e.pages[s[t][k]].cells = d.pages[s[t][k]].cells
      OBVIOUS
    <2>1. s[t][k] \in 1 .. Len(d.pages)
      BY SpineFacts
    <2> QED
      BY <2>1
  <1>3. ASSUME NEW S
        PROVE  Hits(Scan(e, t), S) = Hits(Scan(d, t), S)
    <2>1. \A k \in 1 .. Len(s[t]) : Hits(e.pages[s[t][k]].cells, S) = Hits(d.pages[s[t][k]].cells, S)
      BY <1>2
    <2> QED
      BY <1>1, <2>1, ScanSame
  <1> QED
    BY <1>1, <1>2, <1>3 DEF Alike

\* It is so when an empty page is put behind the spine.
LEMMA AlikeLonger ==
    ASSUME NEW d, NEW s, Good(d, s), NEW t \in Names, s[t] # <<>>, Tidied(d, s[t]),
           NEW e, NEW u, Good(e, u), Grows(d, s, e, u, t), e.index = d.index,
           Len(u[t]) = Len(s[t]) + 1, e.pages[u[t][Len(u[t])]] = EmptyPage,
           \A p \in 1 .. Len(d.pages) : /\ e.pages[p].cells = d.pages[p].cells
                                        /\ e.pages[p].count = d.pages[p].count
    PROVE  Alike(d, s, e, u, t)
  <1> DEFINE n == Len(s[t])
  <1>1. n \in Nat /\ \A k \in 1 .. n : u[t][k] = s[t][k]
    BY SpineFacts DEF Grows
  <1>2. \A k \in 1 .. n : /\ e.pages[s[t][k]].cells = d.pages[s[t][k]].cells
                          /\ e.pages[s[t][k]].count = d.pages[s[t][k]].count
    <2> SUFFICES ASSUME NEW k \in 1 .. n
                 PROVE  /\ e.pages[s[t][k]].cells = d.pages[s[t][k]].cells
                        /\ e.pages[s[t][k]].count = d.pages[s[t][k]].count
      OBVIOUS
    <2>1. s[t][k] \in 1 .. Len(d.pages)
      BY SpineFacts
    <2> QED
      BY <2>1
  <1>3. u[t] # <<>>
    <2>1. Len(u[t]) # 0
      BY <1>1
    <2> QED
      BY <2>1
  <1>4. Tidied(e, u[t])
    <2> SUFFICES ASSUME NEW k \in 1 .. Len(u[t])
                 PROVE  Tidy(e.pages[u[t][k]])
      BY DEF Tidied
    <2>1. CASE k \in 1 .. n
      <3>1. Tidy(d.pages[s[t][k]])
        BY <2>1 DEF Tidied
      <3> QED
        BY <2>1, <3>1, <1>1, <1>2 DEF Tidy
    <2>2. CASE k \notin 1 .. n
      <3>1. k = Len(u[t])
        BY <2>2, <1>1
      <3> QED
        BY <3>1, TidyPages
    <2> QED
      BY <2>1, <2>2
  <1>5. ASSUME NEW S
        PROVE  Hits(Scan(e, t), S) = Hits(Scan(d, t), S)
    <2>1. \A k \in 1 .. Len(s[t]) : Hits(e.pages[u[t][k]].cells, S) = Hits(d.pages[s[t][k]].cells, S)
      BY <1>1, <1>2
    <2>2. Hits(Scan(e, t), S) = Hits(Scan(d, t), S) + Hits(e.pages[u[t][Len(u[t])]].cells, S)
      BY <1>4, <2>1, ScanLonger
    <2>3. Hits(e.pages[u[t][Len(u[t])]].cells, S) = 0
      <3>1. EmptyPage.cells = <<>>
        BY DEF EmptyPage
      <3>2. <<>> \in Seq({})
        OBVIOUS
      <3>3. Hits(<<>>, S) = 0
        BY <3>2, HitsFacts
      <3> QED
        BY <3>1, <3>3
    <2>4. Hits(Scan(d, t), S) \in Nat
      <3>1. Scan(d, t) \in Seq(Cell(t))
        BY ScanAdds
      <3> QED
        BY <3>1, HitsFacts
    <2> QED
      BY <2>2, <2>3, <2>4
  <1> QED
    BY <1>2, <1>3, <1>4, <1>5 DEF Alike

\* INSERT of a row that fits a page, into a table with tidy pages.
LEMMA InsertPuts ==
    ASSUME NEW d, NEW s, Good(d, s), NEW t, Exists(d, t), NEW r \in Cell(t) \ {Gap},
           Tidied(d, s[t])
    PROVE  /\ Throws(t, r) /\ (TooFar(r) => d.index[t] = None)
              => \E u : Alike(d, s, Inserted(d, t, r), u, t)
           /\ ~ Throws(t, r) /\ Readable(r) => \E u : Put(d, s, Inserted(d, t, r), u, t, r)
  <1>1. t \in Names /\ s[t] # <<>>
    BY InsertedIs
  <1>2. PICK at, e, u : /\ HasRoom(d, s, t, r, at, e, u)
                        /\ Inserted(d, t, r) = InsertedAs(d, t, r, at, e)
    BY InsertedIs
  <1> DEFINE x == at.db
             p == at.page
  <1>3. /\ Good(x, s) /\ Grows(d, s, x, s, t)
        /\ \A q \in 1 .. Len(d.pages) : /\ x.pages[q].cells = d.pages[q].cells
                                        /\ x.pages[q].count = d.pages[q].count
        /\ Good(e, u) /\ Grows(d, s, e, u, t) /\ e.pages = x.pages
        /\ u[t] # <<>> /\ p = u[t][Len(u[t])]
        /\ e.pages[p].free + Need(r) <= PageSize \/ e.pages[p].cells = <<>>
        /\ x.index = d.index /\ e.index = d.index
        /\ \/ u[t] = s[t]
           \/ Len(u[t]) = Len(s[t]) + 1 /\ e.pages[p] = EmptyPage
    BY <1>2 DEF HasRoom
  <1> HIDE DEF x, p
  <1>4. CASE Throws(t, r) /\ (TooFar(r) => d.index[t] = None)
    <2>1. Inserted(d, t, r) = d \/ Inserted(d, t, r) = x
      <3>1. x.index[t] = None => WithEntry(x, t, r, p) = x
        BY DEF WithEntry
      <3> QED
        BY <3>1, <1>2, <1>3, <1>4 DEF Throws, InsertedAs, x, p
    <2>2. Alike(d, s, d, s, t)
      BY <1>1, AlikeNot
    <2>3. Alike(d, s, x, s, t)
      BY <1>1, <1>3, AlikeSame
    <2> QED
      BY <1>4, <2>1, <2>2, <2>3
  <1>5. CASE ~ Throws(t, r) /\ Readable(r)
    <2> DEFINE y == WithEntry(WithPage(e, p, Stored(e.pages[p], r)), t, r, p)
    <2>1. Inserted(d, t, r) = y
      BY <1>2, <1>5 DEF Throws, InsertedAs, p
    <2>2. Alike(d, s, e, u, t)
      <3>1. CASE u[t] = s[t]
        <4>1. u = s
          <5>1. u \in SpinesType /\ s \in SpinesType
            BY <1>3 DEF Good
          <5>2. \A v \in Names : u[v] = s[v]
            BY <1>3, <3>1 DEF Grows
          <5> QED
            BY <5>1, <5>2 DEF SpinesType
        <4>2. Alike(d, s, e, s, t)
          BY <1>1, <1>3, <4>1, AlikeSame
        <4> QED
          BY <4>1, <4>2
      <3>2. CASE Len(u[t]) = Len(s[t]) + 1 /\ e.pages[p] = EmptyPage
        <4>1. e.pages[u[t][Len(u[t])]] = EmptyPage
          BY <1>3, <3>2
        <4> QED
          BY <1>1, <1>3, <3>2, <4>1, AlikeLonger
      <3> QED
        BY <1>3, <3>1, <3>2
    <2>3. Put(e, u, y, u, t, r)
      <3>1. Tidied(e, u[t])
        BY <2>2 DEF Alike
      <3> HIDE DEF y
      <3> QED
        BY <1>1, <1>3, <1>5, <3>1, StorePuts DEF y
    <2> HIDE DEF y
    <2>4. /\ Good(y, u) /\ Grows(e, u, y, u, t) /\ Tidied(y, u[t])
          /\ \A k \in 1 .. Len(u[t]) : \A S :
                Hits(y.pages[u[t][k]].cells, S) >= Hits(e.pages[u[t][k]].cells, S)
          /\ Hits(y.pages[u[t][Len(u[t])]].cells, {r}) >= 1
          /\ \A S : Hits(Scan(y, t), S) = Hits(Scan(e, t), S) + One(r \in S)
          /\ y.index = Reindexed(d.index, t, r, u[t][Len(u[t])])
      BY <2>3, <1>3 DEF Put
    <2>5. Grows(d, s, y, u, t)
      BY <1>1, <1>3, <2>4, GrowsMore
    <2>6. \A k \in 1 .. Len(s[t]) : \A S :
             Hits(y.pages[s[t][k]].cells, S) >= Hits(d.pages[s[t][k]].cells, S)
      <3> SUFFICES ASSUME NEW k \in 1 .. Len(s[t]), NEW S
                   PROVE  Hits(y.pages[s[t][k]].cells, S) >= Hits(d.pages[s[t][k]].cells, S)
        OBVIOUS
      <3>1. u[t][k] = s[t][k] /\ k \in 1 .. Len(u[t])
        <4>1. Len(s[t]) \in Nat /\ Len(u[t]) \in Nat
          BY <1>1, <1>3, SpineFacts
        <4>2. Len(s[t]) <= Len(u[t]) /\ u[t][k] = s[t][k]
          BY <1>3 DEF Grows
        <4> QED
          BY <4>1, <4>2
      <3>2. e.pages[s[t][k]].cells = d.pages[s[t][k]].cells
        BY <2>2 DEF Alike
      <3> QED
        BY <2>4, <3>1, <3>2
    <2>7. \A S : Hits(Scan(y, t), S) = Hits(Scan(d, t), S) + One(r \in S)
      BY <2>2, <2>4 DEF Alike
    <2>8. Put(d, s, y, u, t, r)
      BY <1>3, <2>4, <2>5, <2>6, <2>7 DEF Put
    <2> QED
      BY <1>5, <2>1, <2>8
  <1> QED
    BY <1>4, <1>5

\* The records a condition takes, and those of a key.
Taken(where) == {r \in AnyCell : Matches(r, where)}

Keyed(k) == {r \in AnyCell : r.key = k}

\* What delete takes from a tidy page, and what it leaves.
GoneAs(page, where, gone, S) ==
    /\ gone \in Seq(AnyCell)
    /\ Hits(gone, S) = Hits(page.cells, S \cap Taken(where))
    /\ Tidy(Compacted(page, where))
    /\ Hits(Compacted(page, where).cells, S) = Hits(page.cells, S \ Taken(where))

\* The count of a page goes down by what the condition takes.
LEMMA GoneHits ==
    ASSUME NEW t, NEW page, page.cells \in Seq(Cell(t)), Tidy(page), NEW where,
           NEW gone, gone = Only(Records(page), Matching(Records(page), where)), NEW S
    PROVE  GoneAs(page, where, gone, S)
  <1> DEFINE c == page.cells
             M == Matching(c, where)
             keep == Only(c, ToSet(c) \ M)
             new == Compacted(page, where)
  <1>1. c \in Seq(AnyCell) /\ Records(page) = c /\ DOMAIN c = 1 .. Len(c)
    <2>1. Cell(t) \subseteq AnyCell
      BY CellFacts
    <2>2. Records(page) = c
      BY TidyFacts
    <2> QED
      BY <2>1, <2>2
  <1>2. \A i \in 1 .. Len(c) : /\ c[i] \in AnyCell /\ c[i] \in ToSet(c) /\ Readable(c[i])
                               /\ c[i] \in M <=> c[i] \in Taken(where)
    <2> SUFFICES ASSUME NEW i \in 1 .. Len(c)
                 PROVE  /\ c[i] \in AnyCell /\ c[i] \in ToSet(c) /\ Readable(c[i])
                        /\ c[i] \in M <=> c[i] \in Taken(where)
      OBVIOUS
    <2>1. c[i] \in AnyCell /\ c[i] \in ToSet(c)
      BY <1>1 DEF ToSet
    <2>2. Readable(c[i])
      BY DEF Tidy
    <2> HIDE DEF c
    <2> QED
      BY <2>1, <2>2 DEF Taken, Matching
  <1>3. gone = Only(c, M)
    BY <1>1
  <1>4. new.cells = keep /\ new.count = Len(keep)
    <2>1. new = [page EXCEPT !.cells = keep, !.count = Len(keep), !.free = Used(keep)]
      BY <1>1 DEF Compacted
    <2>2. DOMAIN page = DOMAIN page
      OBVIOUS
    <2> HIDE DEF keep, new
    <2> QED
      BY <2>1
  <1> HIDE DEF new
  <1>5. \A K : Hits(Only(c, K), S) = Hits(c, K \cap S) /\ Only(c, K) \in Seq(AnyCell)
    <2> HIDE DEF c
    <2> QED
      BY <1>1, HitsOnly
  <1>6. Hits(c, M \cap S) = Hits(c, S \cap Taken(where))
    <2>1. \A i \in 1 .. Len(c) : c[i] \in M \cap S <=> c[i] \in S \cap Taken(where)
      BY <1>2
    <2> HIDE DEF c, M
    <2> QED
      BY <1>1, <2>1, HitsSame
  <1>7. Hits(c, (ToSet(c) \ M) \cap S) = Hits(c, S \ Taken(where))
    <2>1. \A i \in 1 .. Len(c) : c[i] \in (ToSet(c) \ M) \cap S <=> c[i] \in S \ Taken(where)
      BY <1>2
    <2> HIDE DEF c, M
    <2> QED
      BY <1>1, <2>1, HitsSame
  <1>8. \A i \in 1 .. Len(keep) : Readable(keep[i])
    <2>1. keep \in Seq(AnyCell \cap (ToSet(c) \ M))
      <3> HIDE DEF c, M
      <3> QED
        BY <1>1, OnlyFacts
    <2>2. \A r \in ToSet(c) : Readable(r)
      BY <1>1, <1>2 DEF ToSet
    <2> HIDE DEF keep, c, M
    <2> QED
      BY <2>1, <2>2
  <1> HIDE DEF M
  <1>9. gone \in Seq(AnyCell) /\ Hits(gone, S) = Hits(c, S \cap Taken(where))
    <2> HIDE DEF c
    <2> QED
      BY <1>3, <1>5, <1>6
  <1>10. Hits(new.cells, S) = Hits(c, S \ Taken(where))
    <2> HIDE DEF c
    <2> QED
      BY <1>4, <1>5, <1>7
  <1>11. Tidy(new)
    <2> HIDE DEF keep
    <2> QED
      BY <1>4, <1>8 DEF Tidy
  <1> QED
    BY <1>9, <1>10, <1>11 DEF new, GoneAs

\* What a delete leaves of a tidy table.
Cut(d, s, e, t, where) ==
    /\ Good(e, s) /\ Grows(d, s, e, s, t) /\ Tidied(e, s[t])
    /\ \A k \in 1 .. Len(s[t]) : \A S :
          Hits(e.pages[s[t][k]].cells, S) = Hits(d.pages[s[t][k]].cells, S \ Taken(where))
    /\ \A S : Hits(Scan(e, t), S) = Hits(Scan(d, t), S \ Taken(where))

\* The pages delete may work on, and those it must.
Looks(d, s, t, where, visited) ==
    /\ \A p \in visited : /\ p \in 1 .. Len(d.pages)
                          /\ \/ \E k \in 1 .. Len(s[t]) : p = s[t][k]
                             \/ d.pages[p].count = 0
    /\ \A k \in 1 .. Len(s[t]) : \/ s[t][k] \in visited
                                 \/ Hits(d.pages[s[t][k]].cells, Taken(where)) = 0

\* Where delete looks at all pages with a match it takes away every match.
LEMMA DeletedInCuts ==
    ASSUME NEW d, NEW s, Good(d, s), NEW t \in Names, s[t] # <<>>, Tidied(d, s[t]),
           NEW where, NEW visited, Looks(d, s, t, where, visited),
           NEW m, m = Modified(d, where, visited),
           NEW e, e = DeletedIn(d, t, where, visited)
    PROVE  /\ Cut(d, s, e, t, where)
           /\ e.index = Fitting(d, t, where, m).index
           /\ \A p \in m : \E k \in 1 .. Len(s[t]) : p = s[t][k]
           /\ \A k \in 1 .. Len(s[t]) : /\ s[t][k] \in m <=> Hits(d.pages[s[t][k]].cells, Taken(where)) # 0
  <1> DEFINE h(x, k, S) == Hits(x.pages[s[t][k]].cells, S)
  <1>1. /\ Good(e, s) /\ Grows(d, s, e, s, t)
        /\ ClearedIn(d, t, where, m, m, e)
    BY DeletedInGood DEF Looks
  <1>2. ASSUME NEW k \in 1 .. Len(s[t])
        PROVE  /\ s[t][k] \in 1 .. Len(d.pages)
               /\ d.pages[s[t][k]].cells \in Seq(Cell(t)) /\ Tidy(d.pages[s[t][k]])
    BY SpineFacts DEF Good, Spine, Tidied
  <1>3. ASSUME NEW k \in 1 .. Len(s[t])
        PROVE  s[t][k] \in m <=> h(d, k, Taken(where)) # 0
    <2> DEFINE p == s[t][k]
               c == Gone(d, p, where)
    <2>1. c = Only(Records(d.pages[p]), Matching(Records(d.pages[p]), where))
      BY DEF Gone
    <2> HIDE DEF c
    <2>2. c \in Seq(AnyCell) /\ Hits(c, Taken(where)) = h(d, k, Taken(where))
      <3>1. d.pages[p].cells \in Seq(Cell(t)) /\ Tidy(d.pages[p])
        BY <1>2
      <3> DEFINE page == d.pages[p]
                 T == Taken(where)
      <3> HIDE DEF page, T
      <3>2. c = Only(Records(page), Matching(Records(page), where))
            /\ page.cells \in Seq(Cell(t)) /\ Tidy(page)
        BY <2>1, <3>1 DEF page
      <3>3. c \in Seq(AnyCell) /\ Hits(c, T) = Hits(page.cells, T \cap Taken(where))
        <4>1. GoneAs(page, where, c, T)
          BY <3>2, GoneHits
        <4> QED
          BY <4>1 DEF GoneAs
      <3>4. T \cap Taken(where) = T
        BY DEF T
      <3> QED
        BY <3>3, <3>4 DEF T, page
    <2>3. c = <<>> <=> Hits(c, Taken(where)) = 0
      <3>1. ASSUME c # <<>> PROVE Hits(c, Taken(where)) # 0
        <4>1. Len(c) \in Nat /\ Len(c) # 0
          BY <2>2, <3>1
        <4>2. 1 \in 1 .. Len(c)
          BY <4>1
        <4>3. c[1] \in Taken(where)
          <5>1. Records(d.pages[p]) \in Seq(AnyCell)
            <6>1. Cell(t) \subseteq AnyCell
              BY CellFacts
            <6>2. Records(d.pages[p]) = d.pages[p].cells
              BY <1>2, TidyFacts
            <6> QED
              BY <1>2, <6>1, <6>2
          <5>2. c \in Seq(AnyCell \cap Matching(Records(d.pages[p]), where))
            BY <2>1, <5>1, OnlyFacts
          <5>3. c[1] \in AnyCell /\ c[1] \in Matching(Records(d.pages[p]), where)
            BY <4>2, <5>2
          <5> QED
            BY <5>3 DEF Matching, Taken
        <4> QED
          BY <2>2, <4>2, <4>3, HitsFew
      <3>2. <<>> \in Seq(AnyCell)
        OBVIOUS
      <3>3. Hits(<<>>, Taken(where)) = 0
        BY <3>2, HitsFacts
      <3> QED
        BY <3>1, <3>3
    <2>4. p \in m <=> p \in visited /\ c # <<>>
      BY DEF Modified, c
    <2>5. p \in visited \/ h(d, k, Taken(where)) = 0
      BY DEF Looks
    <2> HIDE DEF p, h
    <2> QED
      BY <2>2, <2>3, <2>4, <2>5 DEF p
  <1>4. ASSUME NEW k \in 1 .. Len(s[t])
        PROVE  Tidy(e.pages[s[t][k]]) /\ \A S : h(e, k, S) = h(d, k, S \ Taken(where))
    <2> DEFINE p == s[t][k]
    <2>1. e.pages[p] = IF p \in m THEN Compacted(d.pages[p], where) ELSE d.pages[p]
      BY <1>1, <1>2 DEF ClearedIn
    <2>2. CASE p \in m
      <3>1. ASSUME NEW S PROVE /\ Tidy(Compacted(d.pages[p], where))
                               /\ Hits(Compacted(d.pages[p], where).cells, S)
                                  = h(d, k, S \ Taken(where))
        <4> DEFINE page == d.pages[p]
                   c == Only(Records(page), Matching(Records(page), where))
        <4>1. page.cells \in Seq(Cell(t)) /\ Tidy(page)
          BY <1>2
        <4> HIDE DEF page, c
        <4>2. c = Only(Records(page), Matching(Records(page), where))
          BY DEF c
        <4>3. /\ Tidy(Compacted(page, where))
              /\ Hits(Compacted(page, where).cells, S) = Hits(page.cells, S \ Taken(where))
          <5>1. GoneAs(page, where, c, S)
            BY <4>1, <4>2, GoneHits
          <5> QED
            BY <5>1 DEF GoneAs
        <4> QED
          BY <4>3 DEF page
      <3> QED
        BY <2>1, <2>2, <3>1
    <2>3. CASE p \notin m
      <3>1. h(d, k, Taken(where)) = 0
        BY <1>3, <2>3
      <3> DEFINE c == d.pages[p].cells
      <3>2. c \in Seq(Cell(t)) /\ Tidy(d.pages[p])
        BY <1>2
      <3>3. \A i \in 1 .. Len(c) : c[i] \notin Taken(where)
        <4>1. Hits(c, Taken(where)) = 0
          BY <3>1
        <4> HIDE DEF c
        <4> QED
          BY <3>2, <4>1, HitsFew
      <3>4. ASSUME NEW S PROVE Hits(c, S) = Hits(c, S \ Taken(where))
        <4>1. \A i \in 1 .. Len(c) : c[i] \in S <=> c[i] \in S \ Taken(where)
          BY <3>3
        <4> HIDE DEF c
        <4> QED
          BY <3>2, <4>1, HitsSame
      <3> QED
        BY <2>1, <2>3, <3>2, <3>4
    <2> QED
      BY <2>2, <2>3
  <1>5. Tidied(e, s[t])
    BY <1>4 DEF Tidied
  <1>6. ASSUME NEW S
        PROVE  Hits(Scan(e, t), S) = Hits(Scan(d, t), S \ Taken(where))
    <2>1. \A k \in 1 .. Len(s[t]) : Hits(e.pages[s[t][k]].cells, S)
                                    = Hits(d.pages[s[t][k]].cells, S \ Taken(where))
      BY <1>4
    <2> DEFINE U == S \ Taken(where)
    <2>2. \A k \in 1 .. Len(s[t]) : Hits(e.pages[s[t][k]].cells, S) = Hits(d.pages[s[t][k]].cells, U)
      BY <2>1
    <2> HIDE DEF U, h
    <2>3. Hits(Scan(e, t), S) = Hits(Scan(d, t), U)
      BY <1>1, <1>5, <2>2, ScanSame
    <2> QED
      BY <2>3 DEF U
  <1>7. \A p \in m : \E k \in 1 .. Len(s[t]) : p = s[t][k]
    <2> SUFFICES ASSUME NEW p \in m PROVE \E k \in 1 .. Len(s[t]) : p = s[t][k]
      OBVIOUS
    <2>1. p \in visited /\ Gone(d, p, where) # <<>>
      BY DEF Modified
    <2>2. p \in 1 .. Len(d.pages) /\ ((\E k \in 1 .. Len(s[t]) : p = s[t][k]) \/ d.pages[p].count = 0)
      BY <2>1 DEF Looks
    <2>3. d.pages[p].count # 0
      BY <2>1, <2>2, GoneNone
    <2> QED
      BY <2>2, <2>3
  <1>8. e.index = Fitting(d, t, where, m).index
    BY <1>1 DEF ClearedIn
  <1> QED
    BY <1>1, <1>3, <1>4, <1>5, <1>6, <1>7, <1>8 DEF Cut

\* What is in a set is in a part of it or not.
Split(s, S, M) ==
    /\ Hits(s, S) = Hits(s, S \cap M) + Hits(s, S \ M)
    /\ Hits(s, S) \in Nat /\ Hits(s, S \cap M) \in Nat /\ Hits(s, S \ M) \in Nat

\* What a set counts is what a part of it counts and what the rest does.
LEMMA HitsSplit ==
    ASSUME NEW V, NEW s \in Seq(V), NEW S, NEW M
    PROVE  Split(s, S, M)
  <1> DEFINE n == Len(s)
             T == {k \in 0 .. n : UpTo(s, S, k) = UpTo(s, S \cap M, k) + UpTo(s, S \ M, k)}
  <1>1. n \in Nat
    OBVIOUS
  <1> HIDE DEF n
  <1>2. 0 \in T
    <2>1. UpTo(s, S, 0) = 0 /\ UpTo(s, S \cap M, 0) = 0 /\ UpTo(s, S \ M, 0) = 0
      BY UpToFacts
    <2> QED
      BY <2>1, <1>1
  <1>3. ASSUME NEW k \in 0 .. n, k \in T, k < n
        PROVE  k + 1 \in T
    <2>1. k \in Nat /\ k + 1 \in 0 .. n
      BY <1>1, <1>3
    <2> DEFINE P == S \cap M
               Q == S \ M
               x == s[k + 1]
    <2>2. One(x \in S) = One(x \in P) + One(x \in Q) /\ One(x \in P) \in Nat /\ One(x \in Q) \in Nat
      BY DEF One
    <2>3. UpTo(s, S, k) = UpTo(s, P, k) + UpTo(s, Q, k)
      BY <1>3
    <2> HIDE DEF P, Q, x
    <2>4. UpTo(s, S, k + 1) = UpTo(s, S, k) + One(x \in S)
      BY <2>1, UpToFacts DEF x
    <2>5. UpTo(s, P, k + 1) = UpTo(s, P, k) + One(x \in P) /\ UpTo(s, P, k) \in Nat
      BY <2>1, UpToFacts DEF x
    <2>6. UpTo(s, Q, k + 1) = UpTo(s, Q, k) + One(x \in Q) /\ UpTo(s, Q, k) \in Nat
      BY <2>1, UpToFacts DEF x
    <2>7. UpTo(s, S, k + 1) = UpTo(s, P, k + 1) + UpTo(s, Q, k + 1)
      BY <2>2, <2>3, <2>4, <2>5, <2>6
    <2> QED
      BY <2>1, <2>7 DEF P, Q
  <1>4. 0 .. n \subseteq T
    <2> HIDE DEF T
    <2> QED
      BY <1>1, <1>2, <1>3, InductionUpTo
  <1>5. n \in T
    <2>1. n \in 0 .. n
      BY <1>1
    <2> HIDE DEF T
    <2> QED
      BY <2>1, <1>4
  <1>6. Hits(s, S) = Hits(s, S \cap M) + Hits(s, S \ M)
    BY <1>5 DEF Hits, n
  <1>7. \A R : Hits(s, R) \in Nat
    BY HitsFacts
  <1> QED
    BY <1>6, <1>7 DEF Split

\* A part has no more.
LEMMA HitsLess ==
    ASSUME NEW V, NEW s \in Seq(V), NEW S, NEW M, S \subseteq M
    PROVE  Hits(s, S) <= Hits(s, M)
  <1>1. /\ Hits(s, M) = Hits(s, M \cap S) + Hits(s, M \ S)
        /\ Hits(s, M) \in Nat /\ Hits(s, M \cap S) \in Nat /\ Hits(s, M \ S) \in Nat
    BY HitsSplit DEF Split
  <1>2. Hits(s, M \cap S) = Hits(s, S)
    <2>1. M \cap S = S
      OBVIOUS
    <2> QED
      BY <2>1
  <1> QED
    BY <1>1, <1>2

\* It takes entries away on the pages with a match.
Shortened(d, s, e, t, where) ==
    \E m : /\ e.index = Fitting(d, t, where, m).index
           /\ \A p \in m : \E k \in 1 .. Len(s[t]) : p = s[t][k]
           /\ \A k \in 1 .. Len(s[t]) :
                 s[t][k] \in m <=> Hits(d.pages[s[t][k]].cells, Taken(where)) # 0

\* A chain leads to every page where the table can have a match.
LEMMA ChainLooks ==
    ASSUME NEW d, NEW s, Good(d, s), NEW t, Exists(d, t), NEW where,
           NEW chain, chain = Chain(d, t)
    PROVE  Looks(d, s, t, where, ToSet(chain))
  <1> DEFINE sp == s[t]
  <1>0. t \in Names /\ sp # <<>>
    BY EntryFacts
  <1> DEFINE w == Whole(d.pages, sp)
  <1>1. /\ w \in Seq(Nat) /\ Len(w) \in Nat /\ Len(w) >= Len(sp) /\ Len(sp) \in Nat \ {0}
        /\ \A k \in 1 .. Len(sp) : w[k] = sp[k]
        /\ \A k \in 1 .. Len(w) :
              w[k] \in 1 .. Len(d.pages) /\ (k <= Len(sp) \/ d.pages[w[k]].count = 0)
    BY <1>0, WholeFacts
  <1>2. chain = w
    BY ChainIs
  <1> HIDE DEF w
  <1>3. ASSUME NEW p \in ToSet(chain)
        PROVE  /\ p \in 1 .. Len(d.pages)
               /\ \/ \E k \in 1 .. Len(sp) : p = sp[k]
                  \/ d.pages[p].count = 0
    <2>1. PICK k \in 1 .. Len(w) : p = w[k]
      BY <1>1, <1>2 DEF ToSet
    <2>2. w[k] \in 1 .. Len(d.pages) /\ (k <= Len(sp) \/ d.pages[w[k]].count = 0)
      BY <1>1
    <2>3. k <= Len(sp) => k \in 1 .. Len(sp)
      BY <1>1
    <2> QED
      BY <2>1, <2>2, <2>3, <1>1
  <1>4. ASSUME NEW k \in 1 .. Len(sp)
        PROVE  sp[k] \in ToSet(chain)
    <2>1. k \in 1 .. Len(w) /\ w[k] = sp[k] /\ DOMAIN w = 1 .. Len(w)
      BY <1>1
    <2> QED
      BY <2>1, <1>2 DEF ToSet
  <1> QED
    BY <1>3, <1>4 DEF Looks

\* DELETE takes every match away, if no key has two rows where there is an index.
LEMMA DeletedCuts ==
    ASSUME NEW d, NEW s, Good(d, s), NEW t, Exists(d, t), Tidied(d, s[t]),
           NEW where,
           d.index[t] = None
           \/ (where.on = "key" => where.is \in Keys /\ Hits(Scan(d, t), Keyed(where.is)) <= 1),
           NEW e, e = Deleted(d, t, where)
    PROVE  Cut(d, s, e, t, where) /\ Shortened(d, s, e, t, where)
  <1> DEFINE sp == s[t]
             hint == Found(d, t, where)
             chain == Chain(d, t)
  <1>1. t \in Names /\ sp # <<>>
    BY EntryFacts
  <1>2. Looks(d, s, t, where, ToSet(chain))
    BY ChainLooks
  <1>3. CASE hint # <<>> /\ Gone(d, hint[1].page, where) # <<>>
    <2>1. PICK h : hint = <<h>> /\ Leads(h, Reach(d, s, t))
      BY <1>1, <1>3, FoundFacts
    <2>2. PICK n \in 1 .. Len(sp) : h.page = sp[n]
      <3>1. h.page \in Reach(d, s, t) /\ hint[1].page = h.page
        BY <2>1 DEF Leads
      <3>2. Gone(d, h.page, where) # <<>>
        BY <3>1, <1>3
      <3> HIDE DEF hint
      <3>3. /\ h.page \in 1 .. Len(d.pages)
            /\ (\E n \in 1 .. Len(sp) : h.page = sp[n]) \/ d.pages[h.page].count = 0
        BY <1>1, <3>1, ReachFacts
      <3>4. d.pages[h.page].count # 0
        BY <3>2, <3>3, GoneNone
      <3> QED
        BY <3>3, <3>4
    <2>3. sp[n] \in 1 .. Len(d.pages)
      BY <1>1, SpineFacts
    <2> DEFINE p == sp[n]
               page == d.pages[p]
               c == Gone(d, p, where)
               key == where.is
    <2>4. hint[1].page = p /\ c # <<>>
      BY <2>1, <2>2, <1>3
    <2>5. d.index[t] # None /\ where.on = "key" /\ key \in Keys
          /\ Hits(Scan(d, t), Keyed(key)) <= 1
      BY <1>3 DEF Found
    <2>6. Hits(page.cells, Taken(where)) # 0
      <3>1. page.cells \in Seq(Cell(t)) /\ Tidy(page)
        BY <1>1 DEF Good, Spine, Tidied
      <3>2. c = Only(Records(page), Matching(Records(page), where))
        BY DEF Gone
      <3>3. Records(page) \in Seq(AnyCell)
        <4>1. Cell(t) \subseteq AnyCell
          BY CellFacts
        <4>2. Records(page) = page.cells
          BY <3>1, TidyFacts
        <4> QED
          BY <3>1, <4>1, <4>2
      <3> HIDE DEF c, page
      <3>4. GoneAs(page, where, c, Taken(where))
        BY <3>1, <3>2, GoneHits
      <3>5. c \in Seq(AnyCell) /\ Hits(c, Taken(where)) = Hits(page.cells, Taken(where))
        <4>1. Taken(where) \cap Taken(where) = Taken(where)
          OBVIOUS
        <4> QED
          BY <3>4, <4>1 DEF GoneAs
      <3>6. c \in Seq(AnyCell \cap Matching(Records(page), where))
        BY <3>2, <3>3, OnlyFacts
      <3>7. 1 \in 1 .. Len(c)
        BY <3>5, <2>4
      <3>8. c[1] \in AnyCell /\ c[1] \in Matching(Records(page), where)
        BY <3>6, <3>7
      <3>9. c[1] \in Taken(where)
        BY <3>8 DEF Matching, Taken
      <3>10. Hits(c, Taken(where)) # 0
        BY <3>5, <3>7, <3>9, HitsFew
      <3> QED
        BY <3>5, <3>10
    <2>7. Taken(where) \subseteq Keyed(key)
      <3> SUFFICES ASSUME NEW r \in Taken(where) PROVE r \in Keyed(key)
        OBVIOUS
      <3>1. r \in AnyCell /\ r[where.on] = where.is
        BY <2>5 DEF Taken, Matches
      <3> QED
        BY <2>5, <3>1 DEF Keyed
    <2>8. Hits(Scan(d, t), Taken(where)) <= 1
      <3>1. Scan(d, t) \in Seq(Cell(t))
        BY <1>1, ScanAdds
      <3>2. Hits(Scan(d, t), Taken(where)) <= Hits(Scan(d, t), Keyed(key))
        BY <2>7, <3>1, HitsLess
      <3>3. Hits(Scan(d, t), Taken(where)) \in Nat /\ Hits(Scan(d, t), Keyed(key)) \in Nat
        BY <3>1, HitsFacts
      <3> QED
        BY <2>5, <3>2, <3>3
    <2>9. Looks(d, s, t, where, {p})
      <3>1. ASSUME NEW k \in 1 .. Len(sp), sp[k] # p
            PROVE  Hits(d.pages[sp[k]].cells, Taken(where)) = 0
        <4> DEFINE T == Taken(where)
                   N == Hits(Scan(d, t), T)
        <4> HIDE DEF T
        <4>1. FewIn(d, s[t], T, N)
          BY <1>1, ScanFew
        <4>2. Hits(d.pages[sp[k]].cells, T) + Hits(page.cells, T) <= N
              /\ Hits(d.pages[sp[k]].cells, T) \in Nat /\ Hits(page.cells, T) \in Nat /\ N \in Nat
          BY <3>1, <4>1 DEF FewIn
        <4>3. N <= 1 /\ Hits(page.cells, T) # 0
          BY <2>6, <2>8 DEF T
        <4> HIDE DEF N, page
        <4> QED
          BY <4>2, <4>3 DEF T
      <3> QED
        BY <2>3, <3>1 DEF Looks
    <2>10. e = DeletedIn(d, t, where, {p})
      <3>1. Deleted(d, t, where) = DeletedIn(d, t, where, {hint[1].page})
        BY <1>3 DEF Deleted
      <3> QED
        BY <2>4, <3>1
    <2> DEFINE m == Modified(d, where, {p})
    <2>11. /\ Cut(d, s, e, t, where)
           /\ e.index = Fitting(d, t, where, m).index
           /\ \A q \in m : \E k \in 1 .. Len(s[t]) : q = s[t][k]
           /\ \A k \in 1 .. Len(s[t]) :
                 s[t][k] \in m <=> Hits(d.pages[s[t][k]].cells, Taken(where)) # 0
      <3> DEFINE visited == {p}
      <3>1. Looks(d, s, t, where, visited) /\ e = DeletedIn(d, t, where, visited)
            /\ m = Modified(d, where, visited)
        BY <2>9, <2>10
      <3> HIDE DEF visited, m
      <3> QED
        BY <1>1, <3>1, DeletedInCuts
    <2> HIDE DEF m
    <2> QED
      BY <2>11 DEF Shortened
  <1>4. CASE ~ (hint # <<>> /\ Gone(d, hint[1].page, where) # <<>>)
    <2> DEFINE visited == ToSet(chain)
               m == Modified(d, where, visited)
    <2>1. e = DeletedIn(d, t, where, visited)
      BY <1>4 DEF Deleted
    <2>2. m = Modified(d, where, visited) /\ Looks(d, s, t, where, visited)
      BY <1>2
    <2> HIDE DEF visited, m
    <2>3. /\ Cut(d, s, e, t, where)
          /\ e.index = Fitting(d, t, where, m).index
          /\ \A q \in m : \E k \in 1 .. Len(s[t]) : q = s[t][k]
          /\ \A k \in 1 .. Len(s[t]) :
                 s[t][k] \in m <=> Hits(d.pages[s[t][k]].cells, Taken(where)) # 0
      BY <1>1, <2>1, <2>2, DeletedInCuts
    <2> QED
      BY <2>3 DEF Shortened
  <1> QED
    BY <1>3, <1>4

-----------------------------------------------------------------------------
(* The records of _indexes.                                                *)

\* Those of table t, and whether there is one.
NotedBy(t) == {r \in SystemRows : r.key = t}

Noted(d, t) == Hits(Scan(d, System), NotedBy(t)) # 0

\* Every index has a record, and every record a table.
Ledger(d, s) ==
    /\ Tidied(d, s[System]) /\ s[System] # <<>> /\ d.index[System] = None
    /\ \A t \in Tables : /\ d.index[t] # None => Noted(d, t)
                         /\ Noted(d, t) => s[t] # <<>>

\* What leaves _indexes alone and makes no index keeps it.
LEMMA LedgerKept ==
    ASSUME NEW d, NEW s, Good(d, s), Ledger(d, s), NEW e, NEW v, Good(e, v),
           Kept(d, s, e, v, System), e.index[System] = None,
           \A u \in Tables : /\ e.index[u] # None => d.index[u] # None
                             /\ s[u] # <<>> => v[u] # <<>>
    PROVE  Ledger(e, v)
  <1>1. System \in Names
    BY NamesApart DEF Names
  <1>2. v[System] = s[System] /\ s[System] # <<>>
    BY DEF Kept, Ledger
  <1>3. Tidied(e, v[System])
    BY <1>2 DEF Tidied, Kept, Ledger
  <1>4. Scan(e, System) = Scan(d, System)
    BY <1>1, <1>2, KeptScan
  <1>5. \A u \in Tables : Noted(e, u) <=> Noted(d, u)
    BY <1>4 DEF Noted
  <1> QED
    BY <1>2, <1>3, <1>5 DEF Ledger

\* So does what grows a user's table and makes no index.
LEMMA LedgerGrows ==
    ASSUME NEW d, NEW s, Good(d, s), Ledger(d, s), NEW t \in Tables,
           NEW e, NEW v, Good(e, v), Grows(d, s, e, v, t),
           e.index[t] # None => d.index[t] # None
    PROVE  Ledger(e, v)
  <1>1. System \in Names /\ System # t /\ t \in Names /\ Tables \subseteq Names
    BY NamesApart DEF Names
  <1>2. Kept(d, s, e, v, System)
    BY <1>1, GrowsKeeps
  <1>3. e.index[System] = None
    BY <1>1 DEF Grows, Ledger
  <1>4. ASSUME NEW u \in Tables
        PROVE  /\ e.index[u] # None => d.index[u] # None
               /\ s[u] # <<>> => v[u] # <<>>
    <2>1. CASE u = t
      <3>1. s[t] # <<>> => v[t] # <<>>
        <4> SUFFICES ASSUME s[t] # <<>> PROVE v[t] # <<>>
          OBVIOUS
        <4>1. Exists(d, t)
          BY <1>1, ExistsFacts
        <4>2. Exists(e, t)
          BY <1>1, <4>1, GrowsFacts
        <4> QED
          BY <1>1, <4>2, ExistsFacts
      <3> QED
        BY <2>1, <3>1
    <2>2. CASE u # t
      BY <1>1, <2>2 DEF Grows
    <2> QED
      BY <2>1, <2>2
  <1> QED
    BY <1>2, <1>3, <1>4, LedgerKept

\* CREATE TABLE makes no index.
LEMMA CreatedLedger ==
    ASSUME NEW d, NEW s, Good(d, s), Ledger(d, s), NEW t \in Tables, ~ Exists(d, t),
           NEW e, e = Created(d, t), NEW v, v = Spined(s, t, Len(d.pages) + 1)
    PROVE  Ledger(e, v)
  <1>1. System \in Names /\ System # t /\ t \in Names /\ Tables \subseteq Names
    BY NamesApart DEF Names
  <1>2. Good(e, v)
    BY <1>1, CreatedGood
  <1>3. \A u \in Names : u # t => Kept(d, s, e, v, u)
    BY <1>1, CreatedGood
  <1>4. \A u \in Names : Exists(e, u) <=> Exists(d, u) \/ u = t
    BY <1>1, CreatedGood
  <1>5. e.index = d.index
    BY <1>1, CreatedIs, ZenonT(30) DEF Good
  <1>6. \A u \in Names : (Exists(e, u) <=> v[u] # <<>>) /\ (Exists(d, u) <=> s[u] # <<>>)
    <2>1. \A u \in Names : Exists(e, u) <=> v[u] # <<>>
      BY <1>2, ExistsFacts
    <2>2. \A u \in Names : Exists(d, u) <=> s[u] # <<>>
      BY ExistsFacts
    <2> QED
      BY <2>1, <2>2
  <1>7. \A u \in Tables : s[u] # <<>> => v[u] # <<>>
    BY <1>1, <1>4, <1>6
  <1>8. Kept(d, s, e, v, System) /\ e.index[System] = None
    BY <1>1, <1>3, <1>5 DEF Ledger
  <1> QED
    BY <1>2, <1>5, <1>7, <1>8, LedgerKept

\* Opening the file forgets the indexes.
LEMMA LoadedLedger ==
    ASSUME NEW d, NEW s, Good(d, s), Ledger(d, s), NEW e, e = Db(d.dir, d.pages, AllNone)
    PROVE  Ledger(e, s)
  <1>1. System \in Names /\ Tables \subseteq Names
    BY NamesApart DEF Names
  <1>2. Good(e, s)
    BY LoadedGood
  <1>3. Kept(d, s, e, s, System)
    BY <1>1, LoadedGood
  <1>4. \A u \in Names : e.index[u] = None
    BY DEF Db, AllNone
  <1> QED
    BY <1>1, <1>2, <1>3, <1>4, LedgerKept

\* A new file has no records.
LEMMA EmptyLedger ==
    ASSUME NEW d, NEW s, Good(d, s), AllEmpty(d), Exists(d, System), d.index = AllNone
    PROVE  Ledger(d, s)
  <1>1. System \in Names /\ Tables \subseteq Names
    BY NamesApart DEF Names
  <1>2. s[System] # <<>>
    BY <1>1, ExistsFacts
  <1>3. \A k \in 1 .. Len(s[System]) : d.pages[s[System][k]] = EmptyPage
    BY <1>1, SpineFacts DEF AllEmpty
  <1>4. Tidied(d, s[System])
    BY <1>3, TidyPages DEF Tidied, Tidy, EmptyPage
  <1>5. \A S : Hits(Scan(d, System), S) = 0
    <2> SUFFICES ASSUME NEW S PROVE Hits(Scan(d, System), S) = 0
      OBVIOUS
    <2>1. FewIn(d, s[System], S, Hits(Scan(d, System), S))
      BY <1>1, <1>2, <1>4, ScanFew
    <2>2. <<>> \in Seq({}) /\ EmptyPage.cells = <<>>
      BY DEF EmptyPage
    <2>3. Hits(<<>>, S) = 0
      BY <2>2, HitsFacts
    <2> QED
      BY <1>3, <2>1, <2>2, <2>3 DEF FewIn
  <1>6. \A t \in Tables : ~ Noted(d, t)
    BY <1>5 DEF Noted
  <1> QED
    BY <1>1, <1>2, <1>4, <1>6 DEF Ledger, AllNone

\* From d to f table t has a new index and _indexes a record of it.
IndexMade(d, s, f, v, t) ==
    /\ Good(f, v) /\ Ledger(f, v)
    /\ \A u \in Names \ {System} : Kept(d, s, f, v, u)
    /\ f.index[t] = Built(d, t)
    /\ \A u \in Tables \ {t} : f.index[u] = d.index[u]

\* CREATE INDEX records the index it makes.
LEMMA IndexedLedger ==
    ASSUME NEW d, NEW s, Good(d, s), Ledger(d, s), NEW t \in Tables, Exists(d, t)
    PROVE  \E v : IndexMade(d, s, Indexed(d, t), v, t)
  <1> DEFINE b == Built(d, t)
             e == WithIndex(d, t, b)
             r == [key |-> t, val |-> System]
             f == Inserted(e, System, r)
  <1>1. t \in Names /\ System \in Names /\ System \notin Tables /\ Tables \subseteq Names
    BY NamesApart DEF Names
  <1>2. b \in IndexType /\ HintsInto(b, t, Reach(d, s, t))
    BY BuiltFacts
  <1>3. Indexed(d, t) = f
    BY DEF Indexed, WithIndex
  <1>4. d \in DbType /\ b \in IndexType \cup {None} /\ Hints(b, t, Reach(d, s, t))
    BY <1>2 DEF Good, Hints
  <1> HIDE DEF b
  <1>5. Reworked(d, s, e, t) /\ e.dir = d.dir /\ e.pages = d.pages /\ e.index[t] = b
    BY <1>1, <1>4, WithIndexGood, WithIndexIs
  <1> HIDE DEF e
  <1>6. Good(e, s) /\ Grows(d, s, e, s, t)
    BY <1>1, <1>5, ReworkedGood
  <1>7. s[System] # <<>> /\ Exists(e, System) /\ e.index[System] = None
    <2>1. s[System] # <<>> /\ d.index[System] = None
      BY DEF Ledger
    <2>2. Exists(e, System)
      BY <1>1, <1>6, <2>1, ExistsFacts
    <2>3. e.index[System] = d.index[System]
      BY <1>1, <1>6 DEF Grows
    <2> QED
      BY <2>1, <2>2, <2>3
  <1>8. r \in Cell(System) \ {Gap} /\ r \in NotedBy(t)
        /\ \A u \in Tables : r \in NotedBy(u) => u = t
    <2>1. r \in SystemRows /\ r.key = t
      BY DEF SystemRows
    <2> HIDE DEF r
    <2>2. r \in Cell(System) \ {Gap}
      BY <2>1, <1>1, NeedFacts DEF Cell
    <2> QED
      BY <2>1, <2>2 DEF NotedBy
  <1>9. Readable(r) /\ ~ Throws(System, r)
    <2>1. r # Gap /\ Need(r) = 1 + Width[System]
      <3>1. r # Gap
        BY <1>8
      <3>2. r.val = System
        OBVIOUS
      <3> HIDE DEF r
      <3> QED
        BY <3>1, <3>2 DEF Need
    <2>2. r.val = System
      OBVIOUS
    <2> HIDE DEF r
    <2>3. Width[System] \in Nat /\ PageSize \in Nat /\ MaxLen \in Nat /\ MaxFree \in Nat
      BY WidthsGiven, BoundsAreNaturals
    <2>4. ~ Invalid(System, r)
      BY <1>1, WidthsGiven DEF Invalid
    <2>5. ~ TooLong(r) /\ ~ TooFar(r)
      BY <2>1, <2>3, RecordFits, FieldsReach DEF TooLong, TooFar
    <2> QED
      BY <2>1, <2>4, <2>5, RecordFits DEF Readable, Throws
  <1> HIDE DEF r
  <1>10. Tidied(e, s[System])
    BY <1>5 DEF Tidied, Ledger
  <1>11. PICK v : Put(e, s, f, v, System, r)
    BY <1>6, <1>7, <1>8, <1>9, <1>10, InsertPuts
  <1> HIDE DEF f
  <1>12. /\ Good(f, v) /\ Grows(e, s, f, v, System) /\ v[System] # <<>> /\ Tidied(f, v[System])
         /\ \A S : Hits(Scan(f, System), S) = Hits(Scan(e, System), S) + One(r \in S)
         /\ f.index = Reindexed(e.index, System, r, v[System][Len(v[System])])
    BY <1>11 DEF Put
  <1>13. f.index = e.index
    BY <1>7, <1>12 DEF Reindexed
  <1>14. ASSUME NEW u \in Names \ {System}
         PROVE  /\ Kept(d, s, f, v, u)
                /\ u # t => f.index[u] = d.index[u]
    <2>1. Kept(d, s, e, s, u)
      BY <1>5 DEF Kept
    <2>2. Kept(e, s, f, v, u)
      BY <1>1, <1>6, <1>12, GrowsKeeps
    <2>3. u # t => e.index[u] = d.index[u]
      BY <1>6 DEF Grows
    <2> QED
      BY <2>1, <2>2, <2>3, <1>13, KeptMore
  <1>15. Kept(d, s, e, s, System) /\ Scan(e, System) = Scan(d, System)
    <2>1. Kept(d, s, e, s, System)
      BY <1>5 DEF Kept
    <2> QED
      BY <1>1, <1>6, <1>7, <2>1, KeptScan
  <1>16. ASSUME NEW u \in Tables
         PROVE  /\ f.index[u] # None => Noted(f, u)
                /\ Noted(f, u) => v[u] # <<>>
    <2>1. Hits(Scan(f, System), NotedBy(u)) = Hits(Scan(d, System), NotedBy(u)) + One(r \in NotedBy(u))
      BY <1>12, <1>15
    <2>2. Hits(Scan(d, System), NotedBy(u)) \in Nat
      <3>1. Scan(d, System) \in Seq(Cell(System))
        BY <1>1, ScanAdds DEF Ledger
      <3> QED
        BY <3>1, HitsFacts
    <2>3. v[u] = s[u]
      BY <1>1, <1>14 DEF Kept
    <2>4. CASE u = t
      <3>1. Noted(f, u)
        BY <2>1, <2>2, <2>4, <1>8 DEF Noted, One
      <3>2. s[t] # <<>>
        BY <1>1, ExistsFacts
      <3> QED
        BY <2>3, <2>4, <3>1, <3>2
    <2>5. CASE u # t
      <3>1. Noted(f, u) <=> Noted(d, u)
        BY <2>1, <2>2, <2>5, <1>8 DEF Noted, One
      <3>2. f.index[u] = d.index[u]
        BY <1>1, <1>14, <2>5
      <3> QED
        BY <2>3, <3>1, <3>2 DEF Ledger
    <2> QED
      BY <2>4, <2>5
  <1>17. Ledger(f, v)
    BY <1>7, <1>12, <1>13, <1>16 DEF Ledger
  <1>18. f.index[t] = Built(d, t)
    BY <1>5, <1>13 DEF b
  <1>19. \A u \in Tables \ {t} : f.index[u] = d.index[u]
    BY <1>1, <1>14
  <1> QED
    BY <1>3, <1>12, <1>14, <1>17, <1>18, <1>19 DEF IndexMade

\* From d to f table t has gone, its index, and its record in _indexes.
TableGone(d, s, f, v, t) ==
    /\ Good(f, v) /\ Ledger(f, v)
    /\ \A u \in Names \ {t, System} : Kept(d, s, f, v, u)
    /\ v[t] = <<>> /\ f.index[t] = None
    /\ \A u \in Tables \ {t} : f.index[u] = d.index[u]

\* DROP TABLE takes the record of the table's index away, and no other.
LEMMA DroppedLedger ==
    ASSUME NEW d, NEW s, Good(d, s), Ledger(d, s), NEW t \in Tables, Exists(d, t)
    PROVE  \E v : TableGone(d, s, Dropped(d, t), v, t)
  <1> DEFINE e == WithIndex(d, t, None)
             where == [on |-> "key", is |-> t]
             f == Deleted(e, System, where)
             x == WithDir(f, Unlisted(d.dir, t))
             v == Unspined(s, t)
  <1>1. t \in Names /\ System \in Names /\ System # t /\ System \notin Tables /\ Tables \subseteq Names
    BY NamesApart DEF Names
  <1>2. Dropped(d, t) = x
    BY DEF Dropped, Unrecorded, WithIndex, WithDir
  <1>3. d \in DbType /\ None \in IndexType \cup {None} /\ Hints(None, t, Reach(d, s, t))
    BY DEF Good, Hints
  <1>4. Reworked(d, s, e, t) /\ e.dir = d.dir /\ e.index[t] = None /\ e.pages = d.pages
    BY <1>1, <1>3, WithIndexGood, WithIndexIs
  <1>20. ASSUME NEW u \in Tables
         PROVE  /\ u = t => NotedBy(u) \ Taken(where) = {}
                /\ u # t => NotedBy(u) \ Taken(where) = NotedBy(u)
    <2>1. where.on = "key" /\ where.is = t
      OBVIOUS
    <2> HIDE DEF where
    <2>2. ASSUME NEW r \in NotedBy(u)
          PROVE  r \in AnyCell /\ Readable(r) /\ r.key = u
      <3>1. r \in SystemRows /\ r.key = u
        BY DEF NotedBy
      <3>2. r \in AnyCell /\ r # Gap /\ r.val = System
        BY <3>1, NeedFacts DEF AnyCell, SystemRows
      <3>3. Need(r) = 1 + Width[System]
        BY <3>2 DEF Need
      <3> QED
        BY <3>1, <3>2, <3>3, RecordFits DEF Readable
    <2>3. ASSUME NEW r \in NotedBy(u)
          PROVE  r \in Taken(where) <=> u = t
      <3>1. Matches(r, where) <=> u = t
        BY <2>1, <2>2 DEF Matches
      <3> QED
        BY <2>2, <3>1 DEF Taken
    <2> QED
      BY <2>3
  <1>21. where.on = "key" /\ where.is = t
    OBVIOUS
  <1> HIDE DEF e, where
  <1>5. Good(e, s) /\ Grows(d, s, e, s, t)
    BY <1>1, <1>4, ReworkedGood
  <1>6. Exists(e, System) /\ Exists(e, t) /\ e.index[System] = None /\ s[System] # <<>>
        /\ Tidied(e, s[System])
    <2>1. s[System] # <<>> /\ d.index[System] = None /\ Tidied(d, s[System])
      BY DEF Ledger
    <2>2. Exists(e, System)
      BY <1>1, <1>5, <2>1, ExistsFacts
    <2>3. e.index[System] = d.index[System]
      BY <1>1, <1>5 DEF Grows
    <2>4. Tidied(e, s[System])
      BY <1>4, <2>1 DEF Tidied
    <2>5. Exists(e, t)
      BY <1>4 DEF Exists
    <2> QED
      BY <2>1, <2>2, <2>3, <2>4, <2>5
  <1>7. /\ Cut(e, s, f, System, where)
        /\ f.index = e.index
    <2>1. Cut(e, s, f, System, where)
      BY <1>5, <1>6, DeletedCuts
    <2>2. Shortened(e, s, f, System, where)
      BY <1>5, <1>6, DeletedCuts
    <2> HIDE DEF f
    <2>3. f.index = e.index
      BY <2>2, <1>6 DEF Fitting, Shortened
    <2> QED
      BY <2>1, <2>3
  <1> HIDE DEF f
  <1>22. /\ Good(f, s) /\ Grows(e, s, f, s, System) /\ Tidied(f, s[System])
         /\ \A S : Hits(Scan(f, System), S) = Hits(Scan(e, System), S \ Taken(where))
    BY <1>7 DEF Cut
  <1>8. f.dir = d.dir /\ f.index[t] = None
    <2>1. f.dir = e.dir
      BY <1>1, <1>5, <1>22, SameDirectory
    <2> QED
      BY <2>1, <1>4, <1>7
  <1>9. Exists(f, System) /\ Exists(f, t)
    BY <1>4, <1>6, <1>8 DEF Exists
  <1>10. x = WithDir(f, Unlisted(f.dir, t)) /\ v = Unspined(s, t)
    BY <1>8
  <1> HIDE DEF x, v
  <1>11. /\ Good(x, v)
         /\ \A u \in Names : u # t => Kept(f, s, x, v, u)
         /\ \A u \in Names : Exists(x, u) <=> Exists(f, u) /\ u # t
    <2>2. Good(f, s) /\ Exists(f, t) /\ f.index[t] = None /\ t \in Names
      BY <1>1, <1>22, <1>8, <1>9
    <2>3. Good(x, v)
      BY <2>2, <1>10, UnlistedGood
    <2>4. \A u \in Names : u # t => Kept(f, s, x, v, u)
      BY <2>2, <1>10, UnlistedGood
    <2>5. \A u \in Names : Exists(x, u) <=> Exists(f, u) /\ u # t
      BY <2>2, <1>10, UnlistedGood
    <2> QED
      BY <2>3, <2>4, <2>5
  <1>12. ASSUME NEW u \in Names \ {t, System}
         PROVE  Kept(d, s, x, v, u)
    <2>1. Kept(d, s, e, s, u)
      BY <1>1, <1>5, GrowsKeeps
    <2>2. Kept(e, s, f, s, u)
      BY <1>1, <1>5, <1>22, GrowsKeeps
    <2>3. Kept(f, s, x, v, u)
      BY <1>11
    <2>4. Kept(d, s, f, s, u)
      BY <2>1, <2>2, KeptMore
    <2> QED
      BY <2>3, <2>4, KeptMore
  <1>13. x.index = e.index
    <2>1. Unlisted(f.dir, t) \in Seq(DirEntry)
      <3>1. f \in DbType /\ Directory(f.dir, s) /\ \E i \in 1 .. Len(f.dir) : f.dir[i].name = t
        BY <1>22, <1>9, EntryFacts DEF Good
      <3> QED
        BY <3>1, UnlistedIs
    <2>2. x.index = f.index
      BY <1>10, <1>22, <2>1, WithDirIs DEF Good
    <2> QED
      BY <2>2, <1>7
  <1>14. v[t] = <<>>
    <2>1. ~ Exists(x, t)
      BY <1>1, <1>11
    <2> QED
      BY <1>1, <1>11, <2>1, ExistsFacts
  <1>15. ASSUME NEW u \in Names \ {t}
         PROVE  v[u] = s[u] /\ x.index[u] = d.index[u]
    <2>1. Kept(f, s, x, v, u)
      BY <1>11
    <2>2. e.index[u] = d.index[u]
      BY <1>5 DEF Grows
    <2> QED
      BY <2>1, <2>2, <1>13 DEF Kept
  <1>16. Kept(f, s, x, v, System) /\ Scan(x, System) = Scan(f, System)
    <2>1. Kept(f, s, x, v, System)
      BY <1>1, <1>11
    <2> QED
      BY <1>1, <1>6, <1>11, <1>22, <2>1, KeptScan
  <1>17. Scan(e, System) = Scan(d, System)
    <2>1. Kept(d, s, e, s, System)
      BY <1>4 DEF Kept
    <2> QED
      BY <1>1, <1>5, <1>6, <2>1, KeptScan
  <1>18. ASSUME NEW u \in Tables
         PROVE  Noted(x, u) <=> Noted(d, u) /\ u # t
    <2>1. Hits(Scan(x, System), NotedBy(u)) = Hits(Scan(d, System), NotedBy(u) \ Taken(where))
      BY <1>16, <1>17, <1>22
    <2>2. CASE u = t
      <3>1. NotedBy(u) \ Taken(where) = {}
        BY <1>20, <2>2
      <3>2. Scan(d, System) \in Seq(Cell(System))
        BY <1>1, ScanAdds DEF Ledger
      <3>3. Hits(Scan(d, System), {}) = 0
        BY <3>2, HitsFew
      <3> QED
        BY <2>1, <2>2, <3>1, <3>3 DEF Noted
    <2>3. CASE u # t
      <3>1. NotedBy(u) \ Taken(where) = NotedBy(u)
        BY <1>20, <2>3
      <3> QED
        BY <2>1, <2>3, <3>1 DEF Noted
    <2> QED
      BY <2>2, <2>3
  <1>19. Ledger(x, v)
    <2>1. Tidied(x, v[System])
      BY <1>16, <1>22 DEF Tidied, Kept
    <2>2. v[System] # <<>> /\ x.index[System] = None
      BY <1>1, <1>6, <1>15 DEF Ledger
    <2>3. ASSUME NEW u \in Tables
          PROVE  /\ x.index[u] # None => Noted(x, u)
                 /\ Noted(x, u) => v[u] # <<>>
      <3>1. CASE u = t
        BY <3>1, <1>4, <1>13, <1>18
      <3>2. CASE u # t
        BY <1>1, <3>2, <1>15, <1>18 DEF Ledger
      <3> QED
        BY <3>1, <3>2
    <2> QED
      BY <2>1, <2>2, <2>3 DEF Ledger
  <1>23. x.index[t] = None /\ \A u \in Tables \ {t} : x.index[u] = d.index[u]
    BY <1>1, <1>4, <1>13, <1>15
  <1> QED
    BY <1>2, <1>11, <1>12, <1>14, <1>19, <1>23 DEF TableGone

\* A scan of _indexes finds the tables that are noted.
LEMMA RecordedIs ==
    ASSUME NEW d, NEW s, Good(d, s), Ledger(d, s)
    PROVE  Recorded(d) \subseteq Tables
           /\ \A t \in Tables : t \in Recorded(d) <=> Noted(d, t)
  <1>1. System \in Names /\ System \notin Tables
    BY NamesApart DEF Names
  <1> DEFINE c == Scan(d, System)
  <1>2. c \in Seq(SystemRows \cup {Gap})
    <2>1. c \in Seq(Cell(System))
      BY <1>1, ScanAdds DEF Ledger
    <2> QED
      BY <1>1, <2>1 DEF Cell
  <1>7. Hits(c, {Gap}) = 0
    <2>1. FewIn(d, s[System], {Gap}, Hits(Scan(d, System), {Gap}))
      BY <1>1, ScanFew DEF Ledger
    <2>2. ASSUME NEW k \in 1 .. Len(s[System])
          PROVE  Hits(d.pages[s[System][k]].cells, {Gap}) = 0
      <3> DEFINE page == d.pages[s[System][k]]
      <3>1. Tidy(page) /\ page.cells \in Seq(Cell(System))
        BY <1>1, TidyPages DEF Ledger, Tidied
      <3>2. \A i \in 1 .. Len(page.cells) : page.cells[i] \notin {Gap}
        BY <3>1 DEF Tidy, Readable
      <3> HIDE DEF page
      <3>3. Hits(page.cells, {Gap}) = 0
        BY <3>1, <3>2, HitsFew
      <3> QED
        BY <3>3 DEF page
    <2> QED
      BY <2>1, <2>2 DEF FewIn
  <1> HIDE DEF c
  <1>3. \A i \in 1 .. Len(c) : c[i] \in SystemRows
    BY <1>2, <1>7, HitsFew
  <1>4. Recorded(d) = {c[i].key : i \in 1 .. Len(c)}
    <2>1. ToSet(c) = {c[i] : i \in 1 .. Len(c)}
      BY <1>2 DEF ToSet
    <2> QED
      BY <2>1 DEF Recorded, c
  <1>5. \A r \in SystemRows : r.key \in Tables
    BY DEF SystemRows
  <1>6. ASSUME NEW t \in Tables
        PROVE  t \in Recorded(d) <=> Noted(d, t)
    <2>1. Noted(d, t) <=> \E i \in 1 .. Len(c) : c[i] \in NotedBy(t)
      BY <1>2, HitsFew DEF Noted, c
    <2>2. \A r \in SystemRows : r \in NotedBy(t) <=> r.key = t
      BY DEF NotedBy
    <2> QED
      BY <1>3, <1>4, <2>1, <2>2
  <1> QED
    BY <1>3, <1>4, <1>5, <1>6

\* The records of _indexes are those of the indexes there are, and of tables.
ILedger == \E s : Good(db, s) /\ Ledger(db, s)

\* What a statement that grows one table leaves.
LEMMA ReachedLedger ==
    ASSUME NEW d, NEW s, Good(d, s), Ledger(d, s), NEW t \in Tables,
           NEW e, Reached(d, s, e, t)
    PROVE  \E v : Good(e, v) /\ Ledger(e, v)
  <1>1. PICK v : Good(e, v) /\ Grows(d, s, e, v, t) /\ NoneStays(d, e, t)
    BY DEF Reached
  <1>2. Ledger(e, v)
    BY <1>1, LedgerGrows DEF NoneStays
  <1> QED
    BY <1>1, <1>2

\* Every action keeps _indexes as it should be.
LEMMA ILedgerKept ==
    ASSUME ILedger, [Next]_vars
    PROVE  ILedger'
  <1>1. PICK s : Good(db, s) /\ Ledger(db, s)
    BY DEF ILedger
  <1>2. Tables \subseteq Names
    BY DEF Names
  <1>3. ASSUME NEW t \in Tables, CreateTable(t)
        PROVE  \E v : Good(db', v) /\ Ledger(db', v)
    <2>1. t \in Names /\ ~ Exists(db, t) /\ db' = Created(db, t)
      BY <1>2, <1>3 DEF CreateTable
    <2> DEFINE v == Spined(s, t, Len(db.pages) + 1)
    <2>2. Good(db', v)
      BY <1>1, <2>1, CreatedGood
    <2>3. Ledger(db', v)
      BY <1>1, <2>1, CreatedLedger
    <2> QED
      BY <2>2, <2>3
  <1>4. ASSUME NEW t \in Tables, DropTable(t)
        PROVE  \E v : Good(db', v) /\ Ledger(db', v)
    <2>1. PICK v : TableGone(db, s, Dropped(db, t), v, t)
      BY <1>1, <1>4, DroppedLedger DEF DropTable
    <2> QED
      BY <1>4, <2>1 DEF DropTable, TableGone
  <1>5. ASSUME NEW t \in Tables, CreateIndex(t)
        PROVE  \E v : Good(db', v) /\ Ledger(db', v)
    <2>1. PICK v : IndexMade(db, s, Indexed(db, t), v, t)
      BY <1>1, <1>5, IndexedLedger DEF CreateIndex
    <2> QED
      BY <1>5, <2>1 DEF CreateIndex, IndexMade
  <1>6. ASSUME NEW t \in Tables, NEW r \in Rows, Insert(t, r)
        PROVE  \E v : Good(db', v) /\ Ledger(db', v)
    <2>1. r \in Cell(t) \ {Gap}
      BY NeedFacts DEF Cell
    <2>2. Reached(db, s, Inserted(db, t, r), t)
      BY <1>1, <1>6, <2>1, InsertedGood DEF Insert
    <2> QED
      BY <1>1, <1>6, <2>2, ReachedLedger DEF Insert
  <1>7. ASSUME NEW t \in Tables, NEW where \in Wheres, Delete(t, where)
        PROVE  \E v : Good(db', v) /\ Ledger(db', v)
    <2>1. Reached(db, s, Deleted(db, t, where), t)
      BY <1>1, <1>7, DeletedGood DEF Reached, Delete
    <2> QED
      BY <1>1, <1>7, <2>1, ReachedLedger DEF Delete
  <1>8. ASSUME NEW t \in Tables, NEW set \in Sets, NEW where \in Wheres,
               Update(t, set, where)
        PROVE  \E v : Good(db', v) /\ Ledger(db', v)
    <2>1. Reached(db, s, Updated(db, t, set, where), t)
      BY <1>1, <1>8, UpdatedGood DEF Update
    <2> QED
      BY <1>1, <1>8, <2>1, ReachedLedger DEF Update
  <1>9. ASSUME Reopen
        PROVE  \E v : Good(db', v) /\ Ledger(db', v)
    <2>1. db' = Db(db.dir, db.pages, AllNone)
      BY <1>1, <1>9, LoadedIs DEF Reopen, Good
    <2>2. Good(db', s)
      BY <1>1, <2>1, LoadedGood
    <2>3. Ledger(db', s)
      BY <1>1, <2>1, LoadedLedger
    <2> QED
      BY <2>2, <2>3
  <1>10. CASE Next
    BY <1>3, <1>4, <1>5, <1>6, <1>7, <1>8, <1>9, <1>10 DEF Next, ILedger
  <1>11. CASE UNCHANGED vars
    BY <1>1, <1>11 DEF vars, ILedger
  <1> QED
    BY <1>10, <1>11

\* A new file has no index.
LEMMA StartsWithout ==
    ASSUME NEW tables \in Seq(Tables),
           \A i, j \in DOMAIN tables : tables[i] = tables[j] => i = j,
           InitWith(tables)
    PROVE  db.index = AllNone
  <1> DEFINE z == NewFile(SystemTables \o tables)
  <1>1. db = [z EXCEPT !.index = AllNone]
    BY DEF InitWith, AllNone
  <1>2. db = [dir |-> db.dir, pages |-> db.pages, index |-> db.index]
    BY IInvStarts, DbFields DEF Good
  <1>3. DOMAIN db = DOMAIN z /\ "index" \in DOMAIN db
    <2> HIDE DEF z
    <2> QED
      BY <1>1, <1>2
  <1> HIDE DEF z
  <1> QED
    BY <1>1, <1>3

\* It is so in a new file.
LEMMA ILedgerStarts ==
    ASSUME NEW tables \in Seq(Tables),
           \A i, j \in DOMAIN tables : tables[i] = tables[j] => i = j,
           InitWith(tables)
    PROVE  ILedger
  <1>1. PICK s : Good(db, s) /\ AllEmpty(db)
    BY IInvStarts
  <1>2. Exists(db, System)
    BY IInvStarts
  <1>3. db.index = AllNone
    BY StartsWithout
  <1>4. Ledger(db, s)
    BY <1>1, <1>2, <1>3, EmptyLedger
  <1> QED
    BY <1>1, <1>4 DEF ILedger

\* Then every index has its record, and every record its table.
LEMMA ILedgerShows ==
    ASSUME ILedger
    PROVE  IndexesRecorded
  <1>1. PICK s : Good(db, s) /\ Ledger(db, s)
    BY DEF ILedger
  <1>2. Recorded(db) \subseteq Tables
        /\ \A t \in Tables : t \in Recorded(db) <=> Noted(db, t)
    BY <1>1, RecordedIs
  <1>3. ASSUME NEW t \in Names, db.index[t] # None
        PROVE  t \in Recorded(db)
    <2>1. t \in Tables
      BY <1>1, <1>3 DEF Good, Hints, HintsInto
    <2> QED
      BY <1>1, <1>2, <1>3, <2>1 DEF Ledger
  <1>4. ASSUME NEW t \in Recorded(db)
        PROVE  t \in Present
    <2>1. t \in Names /\ s[t] # <<>>
      BY <1>1, <1>2, <1>4 DEF Ledger, Names
    <2> QED
      BY <1>1, <2>1, ExistsFacts DEF Present
  <1> QED
    BY <1>3, <1>4 DEF IndexesRecorded

\* Of every start with some tables created, every index has its record in
\* _indexes and every record a table that exists.
THEOREM PlantedRecordedAlways ==
    ASSUME NEW tables \in Seq(Tables),
           \A i, j \in DOMAIN tables : tables[i] = tables[j] => i = j
    PROVE  InitWith(tables) /\ [][Next]_vars => []IndexesRecorded
  <1>1. InitWith(tables) => ILedger
    BY ILedgerStarts
  <1>2. ILedger /\ [Next]_vars => ILedger'
    BY ILedgerKept
  <1>3. ILedger => IndexesRecorded
    BY ILedgerShows
  <1> QED
    BY <1>1, <1>2, <1>3, PTL

\* An index is created and dropped together with its record in _indexes: after
\* createIndex and dropTable, whatever comes in between, each has the other.
THEOREM IndexesRecordedAlways == Spec => []IndexesRecorded
  <1>1. <<>> \in Seq(Tables) /\ \A i, j \in DOMAIN <<>> : <<>>[i] = <<>>[j] => i = j
    OBVIOUS
  <1>2. Init /\ [][Next]_vars => []IndexesRecorded
    BY <1>1, PlantedRecordedAlways DEF Init
  <1> QED
    BY <1>2, PTL DEF Spec
=============================================================================
