---------------------------- MODULE PagerProofs ----------------------------
(***************************************************************************)
(* Proofs about Pager, for any number of pages and buffers and any limits. *)
(***************************************************************************)
EXTENDS Pager, TLAPS

-----------------------------------------------------------------------------
(* The invariant of the Pager's fields, and the methods that preserve it.  *)

Typed(s) == s \in PagerType

Apart(s) ==
    /\ \A p, q \in Cached(s) : s.cache[p] = s.cache[q] => p = q
    /\ \A p \in Cached(s) : s.cache[p] \notin s.pool

Parses(s) ==
    \A p \in Pages : s.objs[p] # None =>
        p \in Cached(s) /\ s.objs[p] = s.mem[s.cache[p]]

Clean(s) ==
    /\ s.dirty \subseteq Cached(s)
    /\ \A p \in Cached(s) \ s.dirty :
          s.file[p] \notin {None, Zero} => s.mem[s.cache[p]] = s.file[p]
    /\ \A p \in s.dirty : s.mem[s.cache[p]] # Zero

\* The header counts itself, in the file and in memory, and every page that
\* is cached: allocPage hands out a page that no buffer serves yet.
HeaderCounts(s) ==
    /\ s.file[0] # None
    /\ s.file[0].total >= 1
    /\ 0 \in Cached(s) => s.mem[s.cache[0]].total >= 1
    /\ \A p \in Cached(s) : p < TotalPages(s)

Good(s) == Typed(s) /\ Apart(s) /\ Parses(s) /\ Clean(s) /\ HeaderCounts(s)

\* The page constants.
LEMMA PageFacts ==
    /\ 0 \in Pages
    /\ None \notin Pages
    /\ \A p \in Pages : p \in Nat
    /\ Zero \in Contents /\ Junk \in Contents
    /\ Zero.total = 0
    /\ \A p \in Pages : Fresh(p) \in Contents /\ Fresh(p).total = 0
    /\ Header(1) \in Contents /\ Header(1).total = 1
    /\ None \notin Contents
  BY MaxPagesAssumption, NoneAssumption, BufferAssumption
     DEF Pages, Contents, Zero, Junk, Fresh, Header

\* The contents of a page have a count that is a number.
LEMMA TotalType == \A c \in Contents : c.total \in 0 .. MaxPages
  BY DEF Contents

\* A cached page has a buffer.
LEMMA CachedFacts ==
    ASSUME NEW s \in PagerType
    PROVE  /\ Cached(s) \subseteq Pages
           /\ \A p \in Cached(s) : s.cache[p] \in Buffers
           /\ \A p \in Pages \ Cached(s) : s.cache[p] = None
  BY DEF Cached, PagerType

\* delete + set of a cached page changes nothing but the order.
LEMMA TouchedGood ==
    ASSUME NEW s, Good(s), NEW p \in Cached(s)
    PROVE  /\ Good(Touched(s, p))
           /\ Touched(s, p).cache = s.cache
           /\ Touched(s, p).mem = s.mem
           /\ Touched(s, p).file = s.file
           /\ Touched(s, p).dirty = s.dirty
           /\ Touched(s, p).pool = s.pool
           /\ \A q \in Cached(s) : Touched(s, p).rank[q] <= s.rank[q] + 1
  <1> DEFINE r == Touched(s, p)
  <1>1. s \in PagerType
    BY DEF Good, Typed
  <1>2. /\ r.cache = s.cache /\ r.mem = s.mem /\ r.file = s.file
        /\ r.dirty = s.dirty /\ r.pool = s.pool /\ r.objs = s.objs
    BY <1>1 DEF Touched, PagerType
  <1>3. r.rank = [q \in Pages |->
                    IF q = p THEN 0
                    ELSE IF q \in Cached(s) /\ s.rank[q] < s.rank[p]
                         THEN s.rank[q] + 1
                    ELSE s.rank[q]]
    BY <1>1 DEF Touched, PagerType
  <1>4. s.rank \in [Pages -> Nat]
    BY <1>1 DEF PagerType
  <1>5. r.rank \in [Pages -> Nat] /\ \A q \in Pages : r.rank[q] <= s.rank[q] + 1
    BY <1>3, <1>4
  <1>6. r \in PagerType
    BY <1>1, <1>3, <1>5 DEF Touched, PagerType
  <1>7. Cached(r) = Cached(s)
    BY <1>2 DEF Cached
  <1>8. TotalPages(r) = TotalPages(s)
    BY <1>2, <1>7 DEF TotalPages
  <1>9. Good(r)
    <2> HIDE DEF r
    <2> QED
      BY <1>2, <1>6, <1>7, <1>8
         DEF Good, Typed, Apart, Parses, Clean, HeaderCounts
  <1>10. \A q \in Cached(s) : r.rank[q] <= s.rank[q] + 1
    BY <1>5 DEF Cached
  <1> QED
    BY <1>2, <1>9, <1>10

\* A read miss, before the eviction: page p enters the Map with a buffer no
\* other page has.
Missed(s, p, b) == Entered(Filled(Taken(s, b), p, b), p, b)

\* A miss that has room keeps the state good, adds exactly p to the cache
\* under buffer b, and leaves what every other page reads as (src pager.js readPage).
LEMMA MissedGood ==
    ASSUME NEW s, Good(s), NEW p \in Pages \ Cached(s), p < TotalPages(s),
           NEW b \in Buffers, \A q \in Cached(s) : s.cache[q] # b
    PROVE  LET r == Missed(s, p, b)
           IN /\ Good(r)
              /\ Cached(r) = Cached(s) \cup {p}
              /\ r.cache[p] = b
              /\ \A q \in Cached(s) : /\ r.cache[q] = s.cache[q]
                                      /\ r.mem[r.cache[q]] = s.mem[s.cache[q]]
                                      /\ r.rank[q] = s.rank[q] + 1
              /\ r.rank[p] = 0
              /\ r.file = s.file
              /\ r.dirty = s.dirty
              /\ r.pool \subseteq s.pool
              /\ TotalPages(r) = TotalPages(s)
              /\ s.file[p] # None => r.mem[b] = s.file[p]
  <1> DEFINE t == Taken(s, b)
             f == Filled(t, p, b)
             r == Entered(f, p, b)
  <1>1. s \in PagerType
    BY DEF Good, Typed
  <1>2. /\ t.cache = s.cache /\ t.rank = s.rank /\ t.file = s.file
        /\ t.dirty = s.dirty /\ t.objs = s.objs /\ t.pool = s.pool \ {b}
        /\ \A c \in Buffers : c # b => t.mem[c] = s.mem[c]
        /\ t \in PagerType
    <2>1. t.mem = [s.mem EXCEPT ![b] = IF b \in s.pool THEN s.mem[b] ELSE Junk]
      BY <1>1 DEF Taken, PagerType
    <2>2. t.mem \in [Buffers -> Contents]
      BY <1>1, <2>1, PageFacts DEF PagerType
    <2>3. t.pool \in SUBSET Buffers /\ t.pool = s.pool \ {b}
      BY <1>1 DEF Taken, PagerType
    <2>4. /\ t.cache = s.cache /\ t.rank = s.rank /\ t.file = s.file
          /\ t.dirty = s.dirty /\ t.objs = s.objs
      BY <1>1 DEF Taken, PagerType
    <2>5. t \in PagerType
      BY <1>1, <2>2, <2>3 DEF Taken, PagerType
    <2> QED
      BY <1>1, <2>1, <2>3, <2>4, <2>5 DEF PagerType
  <1>3. /\ f.cache = s.cache /\ f.rank = s.rank /\ f.file = s.file
        /\ f.dirty = s.dirty /\ f.objs = s.objs /\ f.pool = s.pool \ {b}
        /\ \A c \in Buffers : c # b => f.mem[c] = s.mem[c]
        /\ s.file[p] # None => f.mem[b] = s.file[p]
        /\ f \in PagerType
    <2> HIDE DEF t
    <2>1. f.mem = [t.mem EXCEPT ![b] = IF t.file[p] = None THEN t.mem[b]
                                       ELSE t.file[p]]
      BY <1>2 DEF Filled, PagerType
    <2>2. f.mem \in [Buffers -> Contents]
      BY <1>2, <2>1 DEF PagerType
    <2>3. /\ f.cache = t.cache /\ f.rank = t.rank /\ f.file = t.file
          /\ f.dirty = t.dirty /\ f.objs = t.objs /\ f.pool = t.pool
      BY <1>2 DEF Filled, PagerType
    <2>4. f \in PagerType
      BY <1>2, <2>2 DEF Filled, PagerType
    <2> QED
      BY <1>2, <2>1, <2>3, <2>4 DEF PagerType
  <1>4. /\ r.cache = [s.cache EXCEPT ![p] = b]
        /\ r.rank = [q \in Pages |-> IF q \in Cached(s) THEN s.rank[q] + 1 ELSE 0]
        /\ r.file = s.file /\ r.dirty = s.dirty /\ r.objs = s.objs
        /\ r.pool = s.pool \ {b} /\ r.mem = f.mem
        /\ r \in PagerType
    <2> HIDE DEF f
    <2>1. Cached(f) = Cached(s)
      BY <1>3 DEF Cached
    <2>2. r.cache = [s.cache EXCEPT ![p] = b]
      BY <1>3 DEF Entered, PagerType
    <2>3. r.rank = [q \in Pages |-> IF q \in Cached(s) THEN s.rank[q] + 1 ELSE 0]
      BY <1>3, <2>1 DEF Entered, PagerType
    <2>4. /\ r.file = f.file /\ r.dirty = f.dirty /\ r.objs = f.objs
          /\ r.pool = f.pool /\ r.mem = f.mem
      BY <1>3 DEF Entered, PagerType
    <2>5. r.cache \in [Pages -> Buffers \cup {None}]
      BY <1>1, <2>2 DEF PagerType
    <2>6. r.rank \in [Pages -> Nat]
      BY <1>1, <2>3 DEF PagerType
    <2>7. r \in PagerType
      BY <1>3, <2>5, <2>6 DEF Entered, PagerType
    <2> QED
      BY <1>3, <2>2, <2>3, <2>4, <2>7
  <1> HIDE DEF r, f, t
  <1>5. b # None
    BY BufferAssumption
  <1>6. Cached(r) = Cached(s) \cup {p}
    BY <1>1, <1>4, <1>5 DEF Cached, PagerType
  <1>7. /\ r.cache[p] = b
        /\ \A q \in Cached(s) : r.cache[q] = s.cache[q] /\ q # p
    BY <1>1, <1>4 DEF PagerType, Cached
  <1>8. \A q \in Cached(s) : r.mem[r.cache[q]] = s.mem[s.cache[q]]
    BY <1>1, <1>3, <1>4, <1>7, CachedFacts
  <1>9. s.file[p] # None => r.mem[b] = s.file[p]
    BY <1>3, <1>4
  <1>10. TotalPages(r) = TotalPages(s)
    <2>1. CASE 0 \in Cached(s)
      BY <2>1, <1>6, <1>8 DEF TotalPages
    <2>2. CASE 0 \notin Cached(s) /\ p = 0
      BY <2>2, <1>6, <1>7, <1>9 DEF TotalPages, Good, HeaderCounts
    <2>3. CASE 0 \notin Cached(s) /\ p # 0
      BY <2>3, <1>4, <1>6 DEF TotalPages
    <2> QED
      BY <2>1, <2>2, <2>3
  <1>11. Apart(r)
    BY <1>4, <1>6, <1>7 DEF Good, Apart
  <1>12. Parses(r)
    BY <1>4, <1>6, <1>8 DEF Good, Parses
  <1>13. Clean(r)
    BY <1>4, <1>6, <1>7, <1>8, <1>9 DEF Good, Clean
  <1>14. HeaderCounts(r)
    <2>1. 0 \in Cached(r) => r.mem[r.cache[0]].total >= 1
      BY <1>6, <1>7, <1>8, <1>9 DEF Good, HeaderCounts
    <2> QED
      BY <2>1, <1>4, <1>6, <1>10 DEF Good, HeaderCounts
  <1>15. Good(r)
    BY <1>4, <1>11, <1>12, <1>13, <1>14 DEF Good, Typed
  <1>16. r = Missed(s, p, b)
    BY DEF Missed, r, f, t
  <1>17. \A q \in Cached(s) : r.rank[q] = s.rank[q] + 1
    BY <1>4 DEF Cached
  <1>18. r.rank[p] = 0
    BY <1>4
  <1> QED
    BY <1>4, <1>6, <1>7, <1>8, <1>9, <1>10, <1>15, <1>16, <1>17, <1>18

\* Writing dirty pages to the file changes no page's content.
LEMMA FlushedGood ==
    ASSUME NEW s, Good(s), NEW S \in SUBSET s.dirty
    PROVE  LET r == Flushed(s, S)
           IN /\ Good(r)
              /\ r.cache = s.cache /\ r.rank = s.rank /\ r.mem = s.mem
              /\ r.objs = s.objs /\ r.pool = s.pool
              /\ r.dirty = s.dirty \ S
              /\ \A p \in S : r.file[p] = s.mem[s.cache[p]]
              /\ \A p \in Pages : View(r, p) = View(s, p)
              /\ \A p \in Pages : InFile(r, p) = IF p \in S THEN View(s, p)
                                                 ELSE InFile(s, p)
              /\ TotalPages(r) = TotalPages(s)
  <1> DEFINE r == Flushed(s, S)
  <1>1. s \in PagerType
    BY DEF Good, Typed
  <1>2. S \subseteq Cached(s) /\ S \subseteq Pages
    BY <1>1, CachedFacts DEF Good, Clean
  <1>3. r.file = [p \in Pages |->
                    IF p \in S THEN s.mem[s.cache[p]]
                    ELSE IF s.file[p] = None /\ \E q \in S : p < q THEN Zero
                    ELSE s.file[p]]
    BY <1>1 DEF Flushed, PagerType
  <1>4. /\ r.cache = s.cache /\ r.rank = s.rank /\ r.mem = s.mem
        /\ r.objs = s.objs /\ r.pool = s.pool /\ r.dirty = s.dirty \ S
    BY <1>1 DEF Flushed, PagerType
  <1>5. \A p \in Cached(s) : s.mem[s.cache[p]] \in Contents
    BY <1>1, CachedFacts DEF PagerType
  <1>6. r \in PagerType
    <2>1. r.file \in [Pages -> Contents \cup {None}]
      BY <1>1, <1>2, <1>3, <1>5, PageFacts DEF PagerType
    <2> QED
      BY <1>1, <2>1 DEF Flushed, PagerType
  <1> HIDE DEF r
  <1>7. Cached(r) = Cached(s)
    BY <1>4 DEF Cached
  <1>8. \A p \in S : /\ r.file[p] = s.mem[s.cache[p]]
                     /\ r.file[p] \notin {None, Zero}
    BY <1>2, <1>3, <1>5, PageFacts DEF Good, Clean
  <1>9. \A p \in Pages \ S :
           \/ r.file[p] = s.file[p]
           \/ s.file[p] = None /\ r.file[p] = Zero
    BY <1>3
  <1>10. s.file[0] # None
    BY DEF Good, HeaderCounts
  <1>11. \A p \in Pages : View(r, p) = View(s, p)
    BY <1>2, <1>4, <1>7, <1>8, <1>9 DEF View, Good, Clean
  <1>12. \A p \in Pages : InFile(r, p) = IF p \in S THEN View(s, p)
                                         ELSE InFile(s, p)
    BY <1>8, <1>9 DEF View, InFile
  <1>13. TotalPages(r) = TotalPages(s)
    BY <1>2, <1>4, <1>7, <1>9, <1>10, PageFacts DEF TotalPages
  <1>14. Clean(r)
    <2>1. Clean(s)
      BY DEF Good
    <2>2. r.dirty \subseteq Cached(r)
      BY <2>1, <1>4, <1>7 DEF Clean
    <2>3. ASSUME NEW p \in Cached(r) \ r.dirty, r.file[p] \notin {None, Zero}
          PROVE  r.mem[r.cache[p]] = r.file[p]
      <3>1. CASE p \in S
        BY <3>1, <1>4, <1>8
      <3>2. CASE p \notin S
        <4>1. p \in Pages \ S
          BY <3>2, <1>1, <1>7, CachedFacts
        <4>2. r.file[p] = s.file[p] /\ p \in Cached(s) \ s.dirty
          BY <3>2, <4>1, <2>3, <1>4, <1>7, <1>9
        <4> QED
          BY <4>2, <2>1, <2>3, <1>4 DEF Clean
      <3> QED
        BY <3>1, <3>2
    <2>4. \A p \in r.dirty : r.mem[r.cache[p]] # Zero
      BY <2>1, <1>4 DEF Clean
    <2> QED
      BY <2>2, <2>3, <2>4 DEF Clean
  <1>15. HeaderCounts(r)
    <2>1. r.file[0] # None /\ r.file[0].total >= 1
      BY <1>2, <1>8, <1>9, <1>10, PageFacts DEF Good, HeaderCounts
    <2> QED
      BY <2>1, <1>4, <1>7, <1>13 DEF Good, HeaderCounts
  <1>16. Apart(r) /\ Parses(r)
    BY <1>4, <1>7 DEF Good, Apart, Parses
  <1>17. Good(r)
    BY <1>6, <1>14, <1>15, <1>16 DEF Good, Typed
  <1>18. r = Flushed(s, S)
    BY DEF r
  <1> QED
    BY <1>4, <1>8, <1>11, <1>12, <1>13, <1>17, <1>18

\* The eviction loop keeps the CacheLimit youngest pages as they are and
\* changes no page's content.
LEMMA TrimmedGood ==
    ASSUME NEW s, Good(s)
    PROVE  LET r == Trimmed(s)
               V == Victims(s)
           IN /\ Good(r)
              /\ Cached(r) = Cached(s) \ V
              /\ r.mem = s.mem
              /\ r.dirty = s.dirty \ V
              /\ \A p \in Cached(s) \ V : /\ r.cache[p] = s.cache[p]
                                          /\ r.rank[p] = s.rank[p]
              /\ \A p \in Pages : View(r, p) = View(s, p)
              /\ \A p \in Pages : InFile(r, p) = IF p \in V \cap s.dirty
                                                 THEN View(s, p)
                                                 ELSE InFile(s, p)
              /\ TotalPages(r) = TotalPages(s)
  <1> DEFINE V == Victims(s)
             f == Flushed(s, V \cap s.dirty)
             r == Trimmed(s)
  <1>1. s \in PagerType
    BY DEF Good, Typed
  <1>2. V \subseteq Cached(s) /\ V \subseteq Pages
    BY <1>1, CachedFacts DEF Victims
  <1>3. /\ Good(f)
        /\ f.cache = s.cache /\ f.rank = s.rank /\ f.mem = s.mem
        /\ f.objs = s.objs /\ f.pool = s.pool
        /\ f.dirty = s.dirty \ V
        /\ \A p \in V \cap s.dirty : f.file[p] = s.mem[s.cache[p]]
        /\ \A p \in Pages : View(f, p) = View(s, p)
        /\ \A p \in Pages : InFile(f, p) = IF p \in V \cap s.dirty
                                           THEN View(s, p) ELSE InFile(s, p)
        /\ TotalPages(f) = TotalPages(s)
    <2>1. V \cap s.dirty \in SUBSET s.dirty
      OBVIOUS
    <2> HIDE DEF V
    <2>2. s.dirty \ (V \cap s.dirty) = s.dirty \ V
      OBVIOUS
    <2> QED
      BY <2>1, <2>2, FlushedGood DEF f
  <1>4. f \in PagerType
    BY <1>3 DEF Good, Typed
  <1>5. /\ r.cache = [p \in Pages |-> IF p \in V THEN None ELSE s.cache[p]]
        /\ r.rank = [p \in Pages |-> IF p \in V THEN 0 ELSE s.rank[p]]
        /\ r.objs = [p \in Pages |-> IF p \in V THEN None ELSE s.objs[p]]
        /\ r.pool = s.pool \cup Released(s)
        /\ r.file = f.file /\ r.mem = s.mem /\ r.dirty = s.dirty \ V
        /\ DOMAIN r = DOMAIN f
    <2>1. r = [f EXCEPT
                 !.cache = [p \in Pages |-> IF p \in V THEN None ELSE f.cache[p]],
                 !.rank = [p \in Pages |-> IF p \in V THEN 0 ELSE f.rank[p]],
                 !.objs = [p \in Pages |-> IF p \in V THEN None ELSE f.objs[p]],
                 !.pool = f.pool \cup Released(s)]
      BY DEF Trimmed
    <2> HIDE DEF r, f, V
    <2> QED
      BY <2>1, <1>3, <1>4 DEF PagerType
  <1>6. Released(s) \subseteq {s.cache[p] : p \in V}
    BY DEF Released
  <1>7. r \in PagerType
    <2>1. r = [f EXCEPT
                 !.cache = [p \in Pages |-> IF p \in V THEN None ELSE f.cache[p]],
                 !.rank = [p \in Pages |-> IF p \in V THEN 0 ELSE f.rank[p]],
                 !.objs = [p \in Pages |-> IF p \in V THEN None ELSE f.objs[p]],
                 !.pool = f.pool \cup Released(s)]
      BY DEF Trimmed
    <2> HIDE DEF r, f, V
    <2>2. r.cache \in [Pages -> Buffers \cup {None}]
      BY <1>1, <1>5 DEF PagerType
    <2>3. r.rank \in [Pages -> Nat]
      BY <1>1, <1>5 DEF PagerType
    <2>4. r.objs \in [Pages -> Contents \cup {None}]
      BY <1>1, <1>5 DEF PagerType
    <2>5. r.pool \in SUBSET Buffers
      BY <1>1, <1>2, <1>5, <1>6, CachedFacts DEF PagerType
    <2> QED
      BY <2>1, <2>2, <2>3, <2>4, <2>5, <1>4, <1>5 DEF PagerType
  <1> HIDE DEF r, f
  <1>8. Cached(r) = Cached(s) \ V
    BY <1>1, <1>2, <1>5 DEF Cached
  <1>9. \A p \in Cached(s) \ V : r.cache[p] = s.cache[p] /\ r.rank[p] = s.rank[p]
    BY <1>1, <1>5, CachedFacts
  <1>10. Apart(r)
    <2>1. Apart(s)
      BY DEF Good
    <2>2. ASSUME NEW p \in Cached(r), NEW q \in Cached(r),
                 r.cache[p] = r.cache[q]
          PROVE  p = q
      BY <2>1, <2>2, <1>8, <1>9 DEF Apart
    <2>3. ASSUME NEW p \in Cached(r)
          PROVE  r.cache[p] \notin r.pool
      <3>1. p \in Cached(s) \ V /\ r.cache[p] = s.cache[p]
        BY <1>8, <1>9
      <3>2. s.cache[p] \notin s.pool /\ s.cache[p] \notin Released(s)
        BY <2>1, <3>1, <1>2, <1>6 DEF Apart
      <3> QED
        BY <3>1, <3>2, <1>5
    <2> QED
      BY <2>2, <2>3 DEF Apart
  <1>11. Parses(r)
    BY <1>3, <1>5, <1>8, <1>9 DEF Good, Parses
  <1>12. \A p \in V : f.file[p] \notin {None, Zero} =>
                          f.file[p] = s.mem[s.cache[p]]
    BY <1>2, <1>3 DEF Good, Clean, Cached
  <1>13. Clean(r)
    BY <1>3, <1>5, <1>8, <1>9 DEF Good, Clean, Cached
  <1>14. \A p \in Pages : View(r, p) = View(f, p)
    <2> SUFFICES ASSUME NEW p \in Pages PROVE View(r, p) = View(f, p)
      OBVIOUS
    <2>1. Cached(f) = Cached(s)
      BY <1>3 DEF Cached
    <2>2. CASE p \in V
      BY <2>1, <2>2, <1>2, <1>3, <1>5, <1>8, <1>12 DEF View
    <2>3. CASE p \notin V
      BY <2>1, <2>3, <1>3, <1>5, <1>8 DEF View
    <2> QED
      BY <2>2, <2>3
  <1>15. \A p \in Pages : InFile(r, p) = InFile(f, p)
    BY <1>5 DEF InFile
  <1>16. f.file[0] \notin {None, Zero} /\ f.file[0].total >= 1
    BY <1>3, PageFacts DEF Good, HeaderCounts
  <1>17. TotalPages(r) = TotalPages(s)
    <2>1. Cached(f) = Cached(s)
      BY <1>3 DEF Cached
    <2>2. CASE 0 \in V
      BY <2>1, <2>2, <1>2, <1>3, <1>5, <1>8, <1>12, <1>16 DEF TotalPages
    <2>3. CASE 0 \notin V
      BY <2>1, <2>3, <1>3, <1>5, <1>8, PageFacts DEF TotalPages
    <2> QED
      BY <2>2, <2>3
  <1>18. HeaderCounts(r)
    BY <1>3, <1>5, <1>8, <1>9, <1>16, <1>17 DEF Good, HeaderCounts
  <1>19. Good(r)
    BY <1>7, <1>10, <1>11, <1>13, <1>18 DEF Good, Typed
  <1>20. r = Trimmed(s) /\ V = Victims(s)
    BY DEF r
  <1> HIDE DEF V
  <1> QED
    BY <1>3, <1>5, <1>8, <1>9, <1>14, <1>15, <1>17, <1>19, <1>20

\* A new buffer is one that serves no page.
LEMMA NewBufferFacts ==
    ASSUME NEW s, Good(s), NEW h, NEW b \in NewBuffers(s, h)
    PROVE  b \in Buffers /\ \A q \in Cached(s) : s.cache[q] # b
  BY DEF NewBuffers, InUse, Good, Typed, Apart, PagerType

\* What readPage(p) preserves: every page's content, and the buffers of the
\* pages that are not about to become the oldest.
LEMMA ReadGood ==
    ASSUME NEW s, Good(s), NEW p \in Pages, p < TotalPages(s), NEW h,
           NEW r \in ReadPage(s, p, h)
    PROVE  /\ Good(r)
           /\ p \in Cached(r)
           /\ \A q \in Pages : View(r, q) = View(s, q)
           /\ \E S \in SUBSET Pages : \A q \in Pages :
                 InFile(r, q) = IF q \in S THEN View(s, q) ELSE InFile(s, q)
           /\ TotalPages(r) = TotalPages(s)
           /\ \A q \in Cached(s) : s.rank[q] + 1 < CacheLimit =>
                 r.cache[q] = s.cache[q] /\ r.rank[q] <= s.rank[q] + 1
           /\ r.rank[p] = 0
  <1>1. s \in PagerType /\ Cached(s) \subseteq Pages
    BY CachedFacts DEF Good, Typed
  <1>2. CASE p \in Cached(s)
    <2>1. r = Touched(s, p)
      BY <1>2 DEF ReadPage
    <2>2. /\ Good(r) /\ r.cache = s.cache /\ r.mem = s.mem
          /\ r.file = s.file /\ r.dirty = s.dirty
          /\ \A q \in Cached(s) : r.rank[q] <= s.rank[q] + 1
      BY <1>2, <2>1, TouchedGood
    <2>3. Cached(r) = Cached(s)
      BY <2>2 DEF Cached
    <2>4. \A q \in Pages : View(r, q) = View(s, q) /\ InFile(r, q) = InFile(s, q)
      BY <2>2, <2>3 DEF View, InFile
    <2>5. TotalPages(r) = TotalPages(s)
      BY <2>2, <2>3 DEF TotalPages
    <2>6. r.rank[p] = 0
      BY <1>1, <2>1 DEF Touched, PagerType
    <2>7. \E S \in SUBSET Pages : \A q \in Pages :
             InFile(r, q) = IF q \in S THEN View(s, q) ELSE InFile(s, q)
      <3>1. {} \in SUBSET Pages
        OBVIOUS
      <3> QED
        BY <2>4, <3>1
    <2> QED
      BY <1>2, <2>2, <2>3, <2>4, <2>5, <2>6, <2>7
  <1>3. CASE p \notin Cached(s)
    <2>1. PICK b \in NewBuffers(s, h) : r = ReadMiss(s, p, b)
      BY <1>3 DEF ReadPage
    <2>2. b \in Buffers /\ \A q \in Cached(s) : s.cache[q] # b
      BY <2>1, NewBufferFacts
    <2> DEFINE m == Missed(s, p, b)
    <2>3. /\ Good(m)
          /\ Cached(m) = Cached(s) \cup {p}
          /\ m.cache[p] = b
          /\ \A q \in Cached(s) : /\ m.cache[q] = s.cache[q]
                                  /\ m.mem[m.cache[q]] = s.mem[s.cache[q]]
                                  /\ m.rank[q] = s.rank[q] + 1
          /\ m.rank[p] = 0
          /\ m.file = s.file
          /\ m.dirty = s.dirty
          /\ TotalPages(m) = TotalPages(s)
          /\ s.file[p] # None => m.mem[b] = s.file[p]
      BY <1>3, <2>2, MissedGood
    <2>4. r = Trimmed(m)
      BY <2>1 DEF Missed, ReadMiss
    <2> HIDE DEF m
    <2>5. /\ Good(r)
          /\ Cached(r) = Cached(m) \ Victims(m)
          /\ \A q \in Cached(m) \ Victims(m) : /\ r.cache[q] = m.cache[q]
                                               /\ r.rank[q] = m.rank[q]
          /\ \A q \in Pages : View(r, q) = View(m, q)
          /\ \A q \in Pages : InFile(r, q) = IF q \in Victims(m) \cap m.dirty
                                             THEN View(m, q)
                                             ELSE InFile(m, q)
          /\ TotalPages(r) = TotalPages(m)
      BY <2>3, <2>4, TrimmedGood
    <2>6. p \notin s.dirty
      BY <1>3 DEF Good, Clean
    <2>7. \A q \in Pages : View(m, q) = View(s, q)
      <3> SUFFICES ASSUME NEW q \in Pages PROVE View(m, q) = View(s, q)
        OBVIOUS
      <3>1. CASE q = p
        BY <3>1, <1>3, <2>3, <2>6 DEF View
      <3>2. CASE q # p
        BY <3>2, <2>3 DEF View, Good, Clean
      <3> QED
        BY <3>1, <3>2
    <2>8. \A q \in Pages : InFile(m, q) = InFile(s, q)
      BY <2>3 DEF InFile
    <2>9. p \in Cached(m) \ Victims(m)
      BY <2>3, CacheLimitAssumption DEF Victims
    <2>10. \E S \in SUBSET Pages : \A q \in Pages :
             InFile(r, q) = IF q \in S THEN View(s, q) ELSE InFile(s, q)
      <3>1. Victims(m) \cap m.dirty \in SUBSET Pages
        BY DEF Victims, Cached
      <3> QED
        BY <3>1, <2>5, <2>7, <2>8
    <2>11. ASSUME NEW q \in Cached(s), s.rank[q] + 1 < CacheLimit
           PROVE  r.cache[q] = s.cache[q] /\ r.rank[q] <= s.rank[q] + 1
      <3>1. s.rank[q] \in Nat
        BY <1>1 DEF PagerType
      <3>2. q \in Cached(m) \ Victims(m)
        BY <2>3, <2>11, <3>1, CacheLimitAssumption DEF Victims
      <3> QED
        BY <3>1, <3>2, <2>3, <2>5
    <2> QED
      BY <2>3, <2>5, <2>7, <2>9, <2>10, <2>11
  <1> QED
    BY <1>2, <1>3

\* Writing a page through the buffer that serves it changes that page and no
\* other.
LEMMA SavedGood ==
    ASSUME NEW s, Good(s), NEW p \in Cached(s), NEW c \in Contents, c # Zero,
           p = 0 => c.total >= TotalPages(s)
    PROVE  LET r == WritePage(Put(s, s.cache[p], c), p, s.cache[p])
           IN /\ Good(r)
              /\ r.cache = s.cache
              /\ r.rank = s.rank
              /\ r.pool = s.pool
              /\ \A q \in Pages : View(r, q) = IF q = p THEN c ELSE View(s, q)
              /\ \A q \in Pages : InFile(r, q) = InFile(s, q)
              /\ TotalPages(r) = IF p = 0 THEN c.total ELSE TotalPages(s)
  <1> DEFINE b == s.cache[p]
             e == Put(s, b, c)
             r == WritePage(e, p, b)
  <1>1. s \in PagerType /\ p \in Pages /\ b \in Buffers
    BY CachedFacts DEF Good, Typed
  <1>2. /\ e.cache = s.cache /\ e.rank = s.rank /\ e.file = s.file
        /\ e.dirty = s.dirty /\ e.objs = s.objs /\ e.pool = s.pool
        /\ e.mem = [s.mem EXCEPT ![b] = c]
        /\ e \in PagerType
    BY <1>1 DEF Put, PagerType
  <1> HIDE DEF e
  <1>3. Cached(e) = Cached(s)
    BY <1>2 DEF Cached
  <1>4. /\ r.cache = s.cache /\ r.rank = s.rank /\ r.file = s.file
        /\ r.dirty = s.dirty \cup {p} /\ r.pool = s.pool
        /\ r.objs = [s.objs EXCEPT ![p] = None]
        /\ r.mem = [s.mem EXCEPT ![b] = c]
        /\ r \in PagerType
    <2>1. [e EXCEPT !.cache[p] = b] = e
      BY <1>1, <1>2 DEF PagerType
    <2>2. r = [e EXCEPT !.objs[p] = None, !.dirty = e.dirty \cup {p}]
      BY <1>3, <2>1 DEF WritePage
    <2> HIDE DEF r, b
    <2> QED
      BY <1>1, <1>2, <2>2 DEF PagerType
  <1> HIDE DEF r
  <1>5. Cached(r) = Cached(s)
    BY <1>4 DEF Cached
  <1>6. r.mem[r.cache[p]] = c
    BY <1>1, <1>4 DEF PagerType
  <1>7. \A q \in Cached(s) : q # p => r.mem[r.cache[q]] = s.mem[s.cache[q]]
    BY <1>1, <1>4, CachedFacts DEF Good, Apart, PagerType
  <1>8. Apart(r)
    BY <1>4, <1>5 DEF Good, Apart
  <1>9. Parses(r)
    <2> SUFFICES ASSUME NEW q \in Pages, r.objs[q] # None
                 PROVE  q \in Cached(r) /\ r.objs[q] = r.mem[r.cache[q]]
      BY DEF Parses
    <2>1. q # p /\ r.objs[q] = s.objs[q]
      BY <1>1, <1>4 DEF PagerType
    <2> QED
      BY <2>1, <1>5, <1>7 DEF Good, Parses
  <1>10. Clean(r)
    <2>1. Clean(s)
      BY DEF Good
    <2>2. r.dirty \subseteq Cached(r)
      BY <2>1, <1>4, <1>5 DEF Clean
    <2>3. \A q \in Cached(r) \ r.dirty :
             r.file[q] \notin {None, Zero} => r.mem[r.cache[q]] = r.file[q]
      BY <2>1, <1>4, <1>5, <1>7 DEF Clean
    <2>4. \A q \in r.dirty : r.mem[r.cache[q]] # Zero
      BY <2>1, <1>4, <1>6, <1>7 DEF Clean
    <2> QED
      BY <2>2, <2>3, <2>4 DEF Clean
  <1>11. TotalPages(r) = IF p = 0 THEN c.total ELSE TotalPages(s)
    BY <1>4, <1>5, <1>6, <1>7 DEF TotalPages
  <1>12. \A q \in Cached(s) : q \in Nat /\ q < TotalPages(s)
    BY <1>1, CachedFacts, PageFacts DEF Good, HeaderCounts
  <1>13. TotalPages(s) \in Nat /\ TotalPages(s) >= 1
    <2>1. s.file[0] \in Contents
      BY <1>1, PageFacts DEF Good, HeaderCounts, PagerType
    <2>2. 0 \in Cached(s) => s.mem[s.cache[0]] \in Contents
      BY <1>1, CachedFacts DEF PagerType
    <2> QED
      BY <2>1, <2>2, TotalType, MaxPagesAssumption
         DEF TotalPages, Good, HeaderCounts
  <1>14. HeaderCounts(r)
    <2>1. c.total \in Nat
      BY TotalType, MaxPagesAssumption
    <2>2. r.file[0] # None /\ r.file[0].total >= 1
      BY <1>4 DEF Good, HeaderCounts
    <2>3. 0 \in Cached(r) => r.mem[r.cache[0]].total >= 1
      BY <2>1, <1>5, <1>6, <1>7, <1>13 DEF Good, HeaderCounts
    <2>4. \A q \in Cached(r) : q < TotalPages(r)
      BY <2>1, <1>5, <1>11, <1>12, <1>13
    <2> QED
      BY <2>2, <2>3, <2>4 DEF HeaderCounts
  <1>15. Good(r)
    BY <1>4, <1>8, <1>9, <1>10, <1>14 DEF Good, Typed
  <1>16. \A q \in Pages : View(r, q) = IF q = p THEN c ELSE View(s, q)
    BY <1>4, <1>5, <1>6, <1>7 DEF View, Good, Clean
  <1>17. \A q \in Pages : InFile(r, q) = InFile(s, q)
    BY <1>4 DEF InFile
  <1>18. r = WritePage(Put(s, s.cache[p], c), p, s.cache[p])
    BY DEF r, e
  <1> QED
    BY <1>4, <1>11, <1>15, <1>16, <1>17, <1>18

\* The pages of the header count are numbers of pages.
LEMMA TotalFacts ==
    ASSUME NEW s, Good(s)
    PROVE  TotalPages(s) \in 1 .. MaxPages
  <1>1. s \in PagerType
    BY DEF Good, Typed
  <1>2. s.file[0] \in Contents
    BY <1>1, PageFacts DEF Good, HeaderCounts, PagerType
  <1>3. 0 \in Cached(s) => s.mem[s.cache[0]] \in Contents
    BY <1>1, CachedFacts DEF PagerType
  <1> QED
    BY <1>2, <1>3, TotalType, MaxPagesAssumption
       DEF TotalPages, Good, HeaderCounts

\* Laying out a page that the header counts and no buffer serves.
LEMMA LaidOutGood ==
    ASSUME NEW s, Good(s), NEW p \in Pages \ Cached(s), p # 0,
           p < TotalPages(s), NEW h, NEW b \in NewBuffers(s, h)
    PROVE  LET r == LaidOut(s, p, b)
           IN /\ Good(r)
              /\ \A q \in Cached(s) : /\ r.cache[q] = s.cache[q]
                                      /\ r.rank[q] = s.rank[q] + 1
              /\ \A q \in Pages : View(r, q) = IF q = p THEN Fresh(p)
                                               ELSE View(s, q)
              /\ \A q \in Pages : InFile(r, q) = InFile(s, q)
  <1> DEFINE t == Put(Taken(s, b), b, Fresh(p))
             r == LaidOut(s, p, b)
  <1>1. s \in PagerType /\ p \in Pages /\ p \notin Cached(s)
    BY DEF Good, Typed
  <1>2. b \in Buffers /\ (\A q \in Cached(s) : s.cache[q] # b) /\ b # None
    BY NewBufferFacts, BufferAssumption
  <1>3. Fresh(p) \in Contents /\ Fresh(p) # Zero
    BY <1>1, PageFacts DEF Fresh, Zero
  <1>4. /\ t.cache = s.cache /\ t.rank = s.rank /\ t.file = s.file
        /\ t.dirty = s.dirty /\ t.objs = s.objs /\ t.pool = s.pool \ {b}
        /\ \A c \in Buffers : t.mem[c] = IF c = b THEN Fresh(p) ELSE s.mem[c]
        /\ t \in PagerType
    <2> DEFINE k == Taken(s, b)
    <2>1. k.mem = [s.mem EXCEPT ![b] = IF b \in s.pool THEN s.mem[b] ELSE Junk]
      BY <1>1 DEF Taken, PagerType
    <2>2. k.mem \in [Buffers -> Contents]
      BY <1>1, <2>1, PageFacts DEF PagerType
    <2>3. /\ k.cache = s.cache /\ k.rank = s.rank /\ k.file = s.file
          /\ k.dirty = s.dirty /\ k.objs = s.objs /\ k.pool = s.pool \ {b}
      BY <1>1 DEF Taken, PagerType
    <2>4. k.pool \in SUBSET Buffers
      BY <1>1, <2>3 DEF PagerType
    <2>5. k \in PagerType
      BY <1>1, <2>2, <2>4 DEF Taken, PagerType
    <2> HIDE DEF k
    <2>6. t = [k EXCEPT !.mem[b] = Fresh(p)]
      BY DEF Put, k
    <2>7. t.mem = [k.mem EXCEPT ![b] = Fresh(p)]
      BY <2>5, <2>6 DEF PagerType
    <2>8. /\ t.cache = k.cache /\ t.rank = k.rank /\ t.file = k.file
          /\ t.dirty = k.dirty /\ t.objs = k.objs /\ t.pool = k.pool
      BY <2>5, <2>6 DEF PagerType
    <2>9. t.mem \in [Buffers -> Contents]
      BY <1>3, <2>2, <2>7
    <2>10. t \in PagerType
      BY <2>5, <2>6, <2>9 DEF PagerType
    <2>11. \A c \in Buffers : t.mem[c] = IF c = b THEN Fresh(p) ELSE s.mem[c]
      BY <1>1, <2>1, <2>2, <2>7 DEF PagerType
    <2> QED
      BY <2>3, <2>8, <2>10, <2>11
  <1> HIDE DEF t
  <1>5. Cached(t) = Cached(s)
    BY <1>4 DEF Cached
  <1>6. /\ r.cache = [s.cache EXCEPT ![p] = b]
        /\ r.rank = [q \in Pages |-> IF q \in Cached(s) THEN s.rank[q] + 1 ELSE 0]
        /\ r.file = s.file /\ r.dirty = s.dirty \cup {p}
        /\ r.objs = [s.objs EXCEPT ![p] = None] /\ r.pool = s.pool \ {b}
        /\ r.mem = t.mem
        /\ r \in PagerType
    <2> DEFINE n == Entered(t, p, b)
    <2>1. n.cache = [s.cache EXCEPT ![p] = b]
      BY <1>4 DEF Entered, PagerType
    <2>2. n.rank = [q \in Pages |-> IF q \in Cached(s) THEN s.rank[q] + 1 ELSE 0]
      BY <1>4, <1>5 DEF Entered, PagerType
    <2>3. /\ n.file = t.file /\ n.dirty = t.dirty /\ n.objs = t.objs
          /\ n.pool = t.pool /\ n.mem = t.mem
      BY <1>4 DEF Entered, PagerType
    <2>4. n.cache \in [Pages -> Buffers \cup {None}]
      BY <1>1, <1>2, <2>1 DEF PagerType
    <2>5. n.rank \in [Pages -> Nat]
      BY <1>1, <2>2 DEF PagerType
    <2>6. n \in PagerType
      BY <1>4, <2>4, <2>5 DEF Entered, PagerType
    <2> HIDE DEF n
    <2>7. r = [n EXCEPT !.objs[p] = None, !.dirty = n.dirty \cup {p}]
      BY <1>1, <1>5 DEF LaidOut, WritePage, n, t
    <2> HIDE DEF r
    <2> QED
      BY <1>1, <1>4, <2>1, <2>2, <2>3, <2>6, <2>7 DEF PagerType
  <1> HIDE DEF r
  <1>7. Cached(r) = Cached(s) \cup {p}
    BY <1>1, <1>2, <1>6 DEF Cached, PagerType
  <1>8. r.cache[p] = b /\ r.mem[b] = Fresh(p)
    BY <1>1, <1>2, <1>4, <1>6 DEF PagerType
  <1>9. \A q \in Cached(s) : /\ q # p
                             /\ r.cache[q] = s.cache[q]
                             /\ r.mem[r.cache[q]] = s.mem[s.cache[q]]
    BY <1>1, <1>2, <1>4, <1>6, CachedFacts DEF PagerType
  <1>10. Apart(r)
    BY <1>2, <1>6, <1>7, <1>8, <1>9 DEF Good, Apart
  <1>11. Parses(r)
    <2> SUFFICES ASSUME NEW q \in Pages, r.objs[q] # None
                 PROVE  q \in Cached(r) /\ r.objs[q] = r.mem[r.cache[q]]
      BY DEF Parses
    <2>1. q # p /\ r.objs[q] = s.objs[q]
      BY <1>1, <1>6 DEF PagerType
    <2> QED
      BY <2>1, <1>7, <1>9 DEF Good, Parses
  <1>12. Clean(r)
    <2>1. Clean(s)
      BY DEF Good
    <2>2. r.dirty \subseteq Cached(r)
      BY <2>1, <1>6, <1>7 DEF Clean
    <2>3. \A q \in Cached(r) \ r.dirty :
             r.file[q] \notin {None, Zero} => r.mem[r.cache[q]] = r.file[q]
      BY <2>1, <1>6, <1>7, <1>9 DEF Clean
    <2>4. \A q \in r.dirty : r.mem[r.cache[q]] # Zero
      BY <2>1, <1>3, <1>6, <1>8, <1>9 DEF Clean
    <2> QED
      BY <2>2, <2>3, <2>4 DEF Clean
  <1>13. TotalPages(r) = TotalPages(s)
    BY <1>6, <1>7, <1>9 DEF TotalPages
  <1>14. HeaderCounts(r)
    BY <1>6, <1>7, <1>9, <1>13 DEF Good, HeaderCounts
  <1>15. Good(r)
    BY <1>6, <1>10, <1>11, <1>12, <1>14 DEF Good, Typed
  <1>16. \A q \in Pages : View(r, q) = IF q = p THEN Fresh(p) ELSE View(s, q)
    BY <1>6, <1>7, <1>8, <1>9 DEF View, Good, Clean
  <1>17. \A q \in Pages : InFile(r, q) = InFile(s, q)
    BY <1>6 DEF InFile
  <1>18. \A q \in Cached(s) : r.rank[q] = s.rank[q] + 1
    BY <1>6 DEF Cached
  <1>19. r = LaidOut(s, p, b)
    BY DEF r
  <1> QED
    BY <1>9, <1>15, <1>16, <1>17, <1>18, <1>19

\* A new process over the same file: every page is what the file holds.
LEMMA EmptiedGood ==
    ASSUME NEW s, Good(s)
    PROVE  LET r == Emptied(s)
           IN /\ Good(r)
              /\ \A p \in Pages : View(r, p) = InFile(s, p)
              /\ \A p \in Pages : InFile(r, p) = InFile(s, p)
  <1> DEFINE r == Emptied(s)
  <1>1. s \in PagerType
    BY DEF Good, Typed
  <1>2. /\ r.file = s.file /\ r.cache = [p \in Pages |-> None]
        /\ r.dirty = {} /\ r.objs = [p \in Pages |-> None] /\ r.pool = {}
    BY <1>1 DEF Emptied, PagerType
  <1>3. r \in PagerType
    BY <1>1, PageFacts DEF Emptied, PagerType
  <1> HIDE DEF r
  <1>4. Cached(r) = {}
    BY <1>2 DEF Cached
  <1>5. Good(r)
    BY <1>2, <1>3, <1>4
       DEF Good, Typed, Apart, Parses, Clean, HeaderCounts
  <1>6. \A p \in Pages : View(r, p) = InFile(s, p) /\ InFile(r, p) = InFile(s, p)
    BY <1>2, <1>4 DEF View, InFile
  <1>7. r = Emptied(s)
    BY DEF r
  <1> QED
    BY <1>5, <1>6, <1>7

\* Editing the data of a cached page and writing it.
LEMMA EditedGood ==
    ASSUME NEW s, Good(s), NEW p \in Cached(s), NEW d \in Data
    PROVE  LET r == WritePage(Edited(s, s.cache[p], d), p, s.cache[p])
               c == [s.mem[s.cache[p]] EXCEPT !.data = d]
           IN /\ Good(r)
              /\ r.cache = s.cache
              /\ r.rank = s.rank
              /\ c \in Contents
              /\ \A q \in Pages : View(r, q) = IF q = p THEN c ELSE View(s, q)
              /\ \A q \in Pages : InFile(r, q) = InFile(s, q)
  <1> DEFINE c == [s.mem[s.cache[p]] EXCEPT !.data = d]
  <1>1. s.mem[s.cache[p]] \in Contents
    BY CachedFacts DEF Good, Typed, PagerType
  <1>2. c \in Contents /\ c.data = d /\ c.total = s.mem[s.cache[p]].total
    BY <1>1 DEF Contents
  <1>3. c # Zero
    BY <1>2, DataAssumption DEF Zero
  <1>4. p = 0 => c.total >= TotalPages(s)
    BY <1>2, TotalFacts DEF TotalPages
  <1>5. Edited(s, s.cache[p], d) = Put(s, s.cache[p], c)
    BY DEF Edited
  <1> HIDE DEF c
  <1>6. LET r == WritePage(Put(s, s.cache[p], c), p, s.cache[p])
        IN /\ Good(r) /\ r.cache = s.cache /\ r.rank = s.rank
           /\ \A q \in Pages : View(r, q) = IF q = p THEN c ELSE View(s, q)
           /\ \A q \in Pages : InFile(r, q) = InFile(s, q)
    BY <1>2, <1>3, <1>4, SavedGood
  <1> QED
    BY <1>2, <1>5, <1>6 DEF c

\* allocPage hands out the page after the last one the header counts.
LEMMA AllocGood ==
    ASSUME NEW s, Good(s), 0 \in Cached(s), TotalPages(s) < MaxPages,
           NEW h, NEW b \in NewBuffers(s, h)
    PROVE  LET n == TotalPages(s)
               r == LaidOut(Counted(s), n, b)
           IN /\ Good(r)
              /\ n \in Pages
              /\ \A q \in Cached(s) : /\ r.cache[q] = s.cache[q]
                                      /\ r.rank[q] = s.rank[q] + 1
              /\ View(s, 0).total = n
              /\ View(s, 0) \in Contents
              /\ \A q \in Pages :
                    View(r, q) = IF q = n THEN Fresh(n)
                                 ELSE IF q = 0
                                      THEN [View(s, 0) EXCEPT !.total = n + 1]
                                 ELSE View(s, q)
              /\ \A q \in Pages : InFile(r, q) = InFile(s, q)
  <1> DEFINE n == TotalPages(s)
             m == s.mem[s.cache[0]]
             c == [m EXCEPT !.total = n + 1]
             k == Counted(s)
             r == LaidOut(k, n, b)
  <1>1. s \in PagerType /\ m \in Contents /\ n = m.total
    BY CachedFacts DEF Good, Typed, PagerType, TotalPages
  <1>2. n \in Pages /\ n # 0 /\ n \in Nat
    BY TotalFacts, MaxPagesAssumption DEF Pages
  <1>3. c \in Contents /\ c.total = n + 1 /\ c # Zero
    BY <1>1, <1>2, MaxPagesAssumption, PageFacts DEF Contents
  <1>4. View(s, 0) = m
    <2>1. s.file[0] \notin {None, Zero}
      BY PageFacts DEF Good, HeaderCounts
    <2> QED
      BY <2>1 DEF View
  <1>5. k = WritePage(Put(s, s.cache[0], c), 0, s.cache[0])
    BY <1>1 DEF Counted
  <1> HIDE DEF c, k
  <1>6. /\ Good(k) /\ k.cache = s.cache /\ k.rank = s.rank
        /\ k.pool = s.pool
        /\ \A q \in Pages : View(k, q) = IF q = 0 THEN c ELSE View(s, q)
        /\ \A q \in Pages : InFile(k, q) = InFile(s, q)
        /\ TotalPages(k) = n + 1
    BY <1>2, <1>3, <1>5, SavedGood
  <1>7. Cached(k) = Cached(s) /\ NewBuffers(k, h) = NewBuffers(s, h)
    BY <1>6 DEF Cached, NewBuffers, InUse
  <1>8. n \notin Cached(k)
    BY <1>2, <1>7 DEF Good, HeaderCounts
  <1> HIDE DEF n
  <1>9. /\ Good(r)
        /\ \A q \in Cached(k) : /\ r.cache[q] = k.cache[q]
                                /\ r.rank[q] = k.rank[q] + 1
        /\ \A q \in Pages : View(r, q) = IF q = n THEN Fresh(n) ELSE View(k, q)
        /\ \A q \in Pages : InFile(r, q) = InFile(k, q)
    BY <1>2, <1>6, <1>7, <1>8, LaidOutGood
  <1> HIDE DEF r, m
  <1>10. \A q \in Pages :
            View(r, q) = IF q = n THEN Fresh(n)
                         ELSE IF q = 0 THEN [View(s, 0) EXCEPT !.total = n + 1]
                         ELSE View(s, q)
    BY <1>2, <1>4, <1>6, <1>9 DEF c
  <1>11. r = LaidOut(Counted(s), TotalPages(s), b) /\ n = TotalPages(s)
    BY DEF r, k, n
  <1> QED
    BY <1>1, <1>2, <1>4, <1>6, <1>7, <1>9, <1>10, <1>11

-----------------------------------------------------------------------------
(* The invariant of the specification.                                     *)

\* A held buffer still serves its page because no more than span pages can
\* have become younger than it, no page is read once there are HoldSpan of
\* them, and the eviction loop takes only pages that CacheLimit others are
\* younger than.
HoldOK ==
    /\ held \in [page : Pages, buf : Buffers] \cup {None}
    /\ span \in 0 .. HoldSpan + 1
    /\ held = None => span = 0
    /\ pc # "ready" => held = None
    /\ held # None => /\ pager.cache[held.page] = held.buf
                      /\ pager.rank[held.page] <= span

IInv == /\ pc \in {"ready", "flush", "close", "down"}
        /\ Good(pager)
        /\ HoldOK

\* The invariant holds of a new file and an empty cache.
LEMMA InitInv == Init => IInv
  <1> SUFFICES ASSUME Init PROVE IInv
    OBVIOUS
  <1>1. pager \in PagerType
    BY PageFacts DEF Init, PagerType
  <1>2. Cached(pager) = {}
    BY DEF Init, Cached
  <1>3. Good(pager)
    BY <1>1, <1>2, PageFacts
       DEF Init, Good, Typed, Apart, Parses, Clean, HeaderCounts
  <1> QED
    BY <1>3, HoldAssumption DEF Init, IInv, HoldOK

\* What a held buffer needs of a step that uses n more pages.
LEMMA HoldKept ==
    ASSUME HoldSpan < CacheLimit, IInv, pc = "ready", NEW n \in {1, 2},
           Using(n), UNCHANGED <<pc, held>>, Good(pager)',
           held # None => /\ pager'.cache[held.page] = pager.cache[held.page]
                          /\ pager'.rank[held.page]
                                <= pager.rank[held.page] + n
    PROVE  IInv'
  <1>1. CASE held = None
    BY <1>1, HoldAssumption DEF IInv, HoldOK, Using
  <1>2. CASE held # None
    <2>1. /\ held.page \in Pages /\ pager.rank[held.page] \in Nat
          /\ pager'.rank[held.page] \in Nat
      BY <1>2 DEF IInv, HoldOK, Good, Typed, PagerType
    <2>2. span' = span + n /\ span' \in 0 .. HoldSpan + 1
      BY <1>2, HoldAssumption DEF IInv, HoldOK, Using
    <2>3. pager'.rank[held.page] <= span'
      BY <1>2, <2>1, <2>2, HoldAssumption DEF IInv, HoldOK
    <2> QED
      BY <1>2, <2>2, <2>3 DEF IInv, HoldOK
  <1> QED
    BY <1>1, <1>2

\* The page of a held buffer is cached, and young enough to survive a step
\* that uses more pages and reads no more than one of them.
LEMMA HeldFacts ==
    ASSUME HoldSpan < CacheLimit, IInv, held # None
    PROVE  /\ held.page \in Cached(pager)
           /\ pager.cache[held.page] = held.buf
           /\ pager.rank[held.page] \in Nat
           /\ \A n \in {1, 2} :
                 Using(n) => pager.rank[held.page] + 1 < CacheLimit
  <1>1. held.page \in Pages /\ held.buf \in Buffers /\ span \in Nat
    BY DEF IInv, HoldOK
  <1>2. pager.rank[held.page] \in Nat
    BY <1>1 DEF IInv, Good, Typed, PagerType
  <1>3. \A n \in {1, 2} : Using(n) => pager.rank[held.page] + 1 < CacheLimit
    BY <1>1, <1>2, HoldAssumption, CacheLimitAssumption
       DEF IInv, HoldOK, Using
  <1> QED
    BY <1>1, <1>2, <1>3, BufferAssumption DEF IInv, HoldOK, Cached

\* A read by bytes keeps the invariant.
LEMMA ReadStep ==
    ASSUME HoldSpan < CacheLimit, IInv, NEW p \in Pages, Read(p)
    PROVE  IInv'
  <1>1. /\ Good(pager')
        /\ \A q \in Cached(pager) : pager.rank[q] + 1 < CacheLimit =>
              pager'.cache[q] = pager.cache[q]
              /\ pager'.rank[q] <= pager.rank[q] + 1
    BY ReadGood DEF IInv, Read, Counts
  <1>2. Using(1) /\ UNCHANGED <<pc, held>> /\ pc = "ready"
    BY DEF Read
  <1> QED
    BY <1>1, <1>2, HoldKept, HeldFacts

\* So does a read by rows: the entry it caches is the content of the page.
LEMMA ReadObjectsStep ==
    ASSUME HoldSpan < CacheLimit, IInv, NEW p \in Pages, ReadObjects(p)
    PROVE  IInv'
  <1>1. PICK s \in ReadPage(pager, p, HeldBuffer) : pager' = Parsed(s, p)
    BY DEF ReadObjects
  <1>2. /\ Good(s) /\ p \in Cached(s)
        /\ \A q \in Cached(pager) : pager.rank[q] + 1 < CacheLimit =>
              s.cache[q] = pager.cache[q] /\ s.rank[q] <= pager.rank[q] + 1
    BY <1>1, ReadGood DEF IInv, ReadObjects, Counts
  <1>3. s \in PagerType /\ s.mem[s.cache[p]] \in Contents
    BY <1>2, CachedFacts DEF Good, Typed, PagerType
  <1>4. /\ pager'.cache = s.cache /\ pager'.rank = s.rank
        /\ pager'.file = s.file /\ pager'.mem = s.mem
        /\ pager'.dirty = s.dirty /\ pager'.pool = s.pool
        /\ pager'.objs = [s.objs EXCEPT ![p] = s.mem[s.cache[p]]]
        /\ pager' \in PagerType
    BY <1>1, <1>3 DEF Parsed, PagerType
  <1>5. Cached(pager') = Cached(s)
    BY <1>4 DEF Cached
  <1>6. TotalPages(pager') = TotalPages(s)
    BY <1>4, <1>5 DEF TotalPages
  <1>7. Parses(pager')
    BY <1>2, <1>3, <1>4, <1>5 DEF Good, Parses, PagerType
  <1>8. Good(pager')
    BY <1>2, <1>4, <1>5, <1>6, <1>7
       DEF Good, Typed, Apart, Clean, HeaderCounts
  <1>9. Using(1) /\ UNCHANGED <<pc, held>> /\ pc = "ready"
    BY DEF ReadObjects
  <1> QED
    BY <1>2, <1>4, <1>8, <1>9, HoldKept, HeldFacts

\* So does a read, an edit and a write of one page.
LEMMA ModifyStep ==
    ASSUME HoldSpan < CacheLimit, IInv, NEW p \in Pages, NEW d \in Data,
           Modify(p, d)
    PROVE  IInv'
  <1>1. PICK s \in ReadPage(pager, p, HeldBuffer) :
           pager' = WritePage(Edited(s, s.cache[p], d), p, s.cache[p])
    BY DEF Modify
  <1>2. /\ Good(s) /\ p \in Cached(s)
        /\ \A q \in Cached(pager) : pager.rank[q] + 1 < CacheLimit =>
              s.cache[q] = pager.cache[q] /\ s.rank[q] <= pager.rank[q] + 1
    BY <1>1, ReadGood DEF IInv, Modify, Counts
  <1>3. Good(pager') /\ pager'.cache = s.cache /\ pager'.rank = s.rank
    BY <1>1, <1>2, EditedGood
  <1>4. Using(1) /\ UNCHANGED <<pc, held>> /\ pc = "ready"
    BY DEF Modify
  <1> QED
    BY <1>2, <1>3, <1>4, HoldKept, HeldFacts

\* So does allocPage, which uses page 0 and the new page.
LEMMA AllocStep ==
    ASSUME HoldSpan < CacheLimit, IInv, AllocPage
    PROVE  IInv'
  <1>1. PICK s \in ReadPage(pager, 0, HeldBuffer) :
           /\ TotalPages(s) < MaxPages
           /\ \E b \in NewBuffers(s, HeldBuffer) :
                 pager' = LaidOut(Counted(s), TotalPages(s), b)
    BY DEF AllocPage
  <1>2. PICK b \in NewBuffers(s, HeldBuffer) :
           pager' = LaidOut(Counted(s), TotalPages(s), b)
    BY <1>1
  <1>3. Good(pager) /\ 0 < TotalPages(pager)
    BY TotalFacts, MaxPagesAssumption DEF IInv
  <1>4. /\ Good(s) /\ 0 \in Cached(s)
        /\ \A q \in Cached(pager) : pager.rank[q] + 1 < CacheLimit =>
              s.cache[q] = pager.cache[q] /\ s.rank[q] <= pager.rank[q] + 1
    BY <1>1, <1>3, PageFacts, ReadGood
  <1>5. /\ Good(pager')
        /\ \A q \in Cached(s) : /\ pager'.cache[q] = s.cache[q]
                                /\ pager'.rank[q] = s.rank[q] + 1
    BY <1>1, <1>2, <1>4, AllocGood
  <1>6. Using(2) /\ UNCHANGED <<pc, held>> /\ pc = "ready"
    BY DEF AllocPage
  <1>7. ASSUME held # None
        PROVE  /\ pager'.cache[held.page] = pager.cache[held.page]
               /\ pager'.rank[held.page] <= pager.rank[held.page] + 2
    <2> DEFINE q == held.page
    <2>1. /\ q \in Cached(pager) /\ pager.rank[q] \in Nat
          /\ pager.rank[q] + 1 < CacheLimit /\ pager.cache[q] # None
      BY <1>6, <1>7, HeldFacts DEF Cached
    <2>2. s.cache[q] = pager.cache[q] /\ s.rank[q] <= pager.rank[q] + 1
      BY <1>4, <2>1, CacheLimitAssumption
    <2>3. q \in Cached(s) /\ s.rank[q] \in Nat
      BY <1>4, <2>1, <2>2 DEF Cached, Good, Typed, PagerType
    <2> QED
      BY <1>5, <2>1, <2>2, <2>3
  <1> QED
    BY <1>5, <1>6, <1>7, HoldKept

\* So does a read whose buffer is kept: its page is the youngest.
LEMMA HoldStep ==
    ASSUME HoldSpan < CacheLimit, IInv, NEW p \in Pages, Hold(p)
    PROVE  IInv'
  <1>1. PICK s \in ReadPage(pager, p, {}) :
           pager' = s /\ held' = [page |-> p, buf |-> s.cache[p]]
    BY DEF Hold
  <1>2. Good(s) /\ p \in Cached(s) /\ s.rank[p] = 0
    BY <1>1, ReadGood DEF IInv, Hold, Counts
  <1>3. s.cache[p] \in Buffers
    BY <1>2, CachedFacts DEF Good, Typed
  <1>4. held' \in [page : Pages, buf : Buffers] /\ held' # None
    BY <1>1, <1>3, BufferAssumption
  <1>5. span' = 0 /\ pc' = "ready" /\ pc = "ready"
    BY DEF Hold, IInv, HoldOK
  <1>6. held'.page = p /\ held'.buf = pager'.cache[p] /\ pager'.rank[p] = 0
    BY <1>1, <1>2
  <1>7. HoldOK'
    BY <1>4, <1>5, <1>6, HoldAssumption DEF HoldOK
  <1> QED
    BY <1>1, <1>2, <1>5, <1>7 DEF IInv

\* So does a write of the buffer that was kept: its page is still cached.
LEMMA WriteHeldStep ==
    ASSUME HoldSpan < CacheLimit, IInv, NEW d \in Data, WriteHeld(d)
    PROVE  IInv'
  <1>1. held.page \in Cached(pager) /\ pager.cache[held.page] = held.buf
    BY HeldFacts DEF WriteHeld
  <1>2. Good(pager)
    BY DEF IInv
  <1>3. /\ Good(pager')
        /\ pager'.cache = pager.cache /\ pager'.rank = pager.rank
    <2> DEFINE p == held.page
    <2>1. pager' = WritePage(Edited(pager, pager.cache[p], d), p, pager.cache[p])
      BY <1>1 DEF WriteHeld
    <2>2. p \in Cached(pager)
      BY <1>1
    <2> HIDE DEF p
    <2> QED
      BY <2>1, <2>2, <1>2, EditedGood
  <1>4. UNCHANGED <<pc, held, span>>
    BY DEF WriteHeld
  <1>5. HoldOK'
    BY <1>3, <1>4 DEF IInv, HoldOK
  <1> QED
    BY <1>3, <1>4, <1>5 DEF IInv

\* So does one write of a flush.
LEMMA FlushStep ==
    ASSUME IInv, FlushPage
    PROVE  IInv'
  <1>1. PICK p \in pager.dirty : pager' = Flushed(pager, {p})
    BY DEF FlushPage
  <1>2. Good(pager')
    BY <1>1, FlushedGood DEF IInv
  <1> QED
    BY <1>2 DEF FlushPage, IInv, HoldOK

\* A crash or a close leaves an empty cache over a file with a good header.
LEMMA DownStep ==
    ASSUME IInv, Close \/ Crash
    PROVE  IInv'
  <1>1. Good(pager')
    <2>1. CASE pager' = Emptied(pager)
      BY <2>1, EmptiedGood DEF IInv
    <2>2. ASSUME NEW S \in SUBSET pager.dirty,
                 pager' = Emptied(Flushed(pager, S))
          PROVE  Good(pager')
      BY <2>2, FlushedGood, EmptiedGood DEF IInv
    <2> QED
      BY <2>1, <2>2 DEF Close, Crash
  <1>2. pc' = "down" /\ held' = None /\ span' = 0
    BY DEF Close, Crash, IInv, HoldOK
  <1> QED
    BY <1>1, <1>2, HoldAssumption DEF IInv, HoldOK

\* Every step keeps the invariant.
LEMMA NextInv ==
    ASSUME HoldSpan < CacheLimit, IInv, [Next]_vars
    PROVE  IInv'
  <1>1. ASSUME NEW p \in Pages, Read(p) \/ ReadObjects(p) \/ Hold(p)
        PROVE  IInv'
    BY <1>1, ReadStep, ReadObjectsStep, HoldStep
  <1>2. ASSUME NEW p \in Pages, NEW d \in Data, Modify(p, d)
        PROVE  IInv'
    BY <1>2, ModifyStep
  <1>3. CASE AllocPage
    BY <1>3, AllocStep
  <1>4. ASSUME NEW d \in Data, WriteHeld(d)
        PROVE  IInv'
    BY <1>4, WriteHeldStep
  <1>5. CASE LetGo
    BY <1>5, HoldAssumption DEF LetGo, IInv, HoldOK
  <1>6. CASE BeginFlush
    BY <1>6 DEF BeginFlush, IInv, HoldOK
  <1>7. CASE FlushPage
    BY <1>7, FlushStep
  <1>8. CASE EndFlush
    BY <1>8 DEF EndFlush, IInv, HoldOK
  <1>9. CASE Close \/ Crash
    BY <1>9, DownStep
  <1>10. CASE Open
    BY <1>10 DEF Open, IInv, HoldOK
  <1>11. CASE UNCHANGED vars
    BY <1>11 DEF vars, IInv, HoldOK
  <1> QED
    BY <1>1, <1>2, <1>3, <1>4, <1>5, <1>6, <1>7, <1>8, <1>9, <1>10, <1>11
       DEF Next

\* The invariant of the cache holds in every state, when callers hold a
\* buffer across fewer than CacheLimit other pages.
LEMMA Invariance ==
    ASSUME HoldSpan < CacheLimit
    PROVE  Spec => []IInv
  <1>1. Init => IInv
    BY InitInv
  <1>2. IInv /\ [Next]_vars => IInv'
    BY NextInv
  <1> QED
    BY <1>1, <1>2, PTL DEF Spec

\* The invariant implies the properties the runs check.
LEMMA InvImplies ==
    IInv => TypeOK /\ BuffersApart /\ ObjectsFresh /\ CleanIsOnDisk /\ HeldIsCurrent
  BY DEF IInv, HoldOK, Good, Typed, Apart, Parses, Clean,
         TypeOK, BuffersApart, ObjectsFresh, CleanIsOnDisk, HeldIsCurrent

\* Every field keeps its type, the header's count included.
THEOREM TypeCorrect ==
    ASSUME HoldSpan < CacheLimit
    PROVE  Spec => []TypeOK
  BY Invariance, InvImplies, PTL

\* A buffer serves one page, and none that serves a page is in the pool.
THEOREM BuffersAreApart ==
    ASSUME HoldSpan < CacheLimit
    PROVE  Spec => []BuffersApart
  BY Invariance, InvImplies, PTL

\* Readers of rows and readers of bytes see the same page.
THEOREM ObjectsAreFresh ==
    ASSUME HoldSpan < CacheLimit
    PROVE  Spec => []ObjectsFresh
  BY Invariance, InvImplies, PTL

\* What the eviction loop drops without a write is in the file.
THEOREM CleanPagesAreOnDisk ==
    ASSUME HoldSpan < CacheLimit
    PROVE  Spec => []CleanIsOnDisk
  BY Invariance, InvImplies, PTL

\* A caller that keeps a buffer while it uses fewer than CacheLimit other
\* pages writes it back to the page it read it from.
THEOREM HeldBuffersAreCurrent ==
    ASSUME HoldSpan < CacheLimit
    PROVE  Spec => []HeldIsCurrent
  BY Invariance, InvImplies, PTL

-----------------------------------------------------------------------------
(* The cache implements the page store.                                    *)

store == [p \in Pages |-> View(pager, p)]
durable == [p \in Pages |-> InFile(pager, p)]
open == pc # "down"

\* The store and the cache speak of the same pages and contents.
LEMMA SameContents ==
    /\ Abstract!Pages = Pages
    /\ Abstract!Contents = Contents
    /\ Abstract!Header(1) = Header(1)
    /\ \A p : Abstract!Fresh(p) = Fresh(p)
  BY DEF Abstract!Pages, Abstract!Contents, Abstract!Header, Abstract!Fresh,
         Pages, Contents, Header, Fresh

\* An empty cache over a new file is an empty page store.
LEMMA AbstractInit == Init => Abstract!Init
  <1> SUFFICES ASSUME Init PROVE Abstract!Init
    OBVIOUS
  <1>1. Cached(pager) = {} /\ pager.dirty = {}
    BY DEF Init, Cached
  <1>2. pager.file = [p \in Pages |-> IF p = 0 THEN Header(1) ELSE None]
    BY DEF Init
  <1>3. Header(1) # None /\ Header(1) # Zero
    BY PageFacts
  <1>4. store = [p \in Pages |-> IF p = 0 THEN Header(1) ELSE None]
        /\ durable = store
    BY <1>1, <1>2, <1>3 DEF store, durable, View, InFile
  <1> QED
    BY <1>4, SameContents DEF Abstract!Init, Init, store, durable

\* A step that leaves the content of every page alone, and writes the pages
\* of S to the file.
LEMMA AbstractKeep ==
    ASSUME NEW S \in SUBSET Pages, pc # "down", pc' # "down",
           \A q \in Pages : View(pager', q) = View(pager, q),
           \A q \in Pages : InFile(pager', q) = IF q \in S THEN View(pager, q)
                                                ELSE InFile(pager, q)
    PROVE  Abstract!Next
  <1>1. store' = store
    BY DEF store
  <1>2. durable' = [q \in Pages |-> IF q \in S THEN store[q] ELSE durable[q]]
    BY DEF store, durable
  <1>3. Abstract!Operate /\ Abstract!Persist(S)
    BY <1>1, <1>2, SameContents
       DEF Abstract!Operate, Abstract!Keep, Abstract!Persist, store, durable
  <1> QED
    BY <1>3, SameContents DEF Abstract!Next

\* A step that changes the content of page p to c, the data of a page that
\* was not lost only, and writes the pages of S to the file.
LEMMA AbstractWrite ==
    ASSUME NEW S \in SUBSET Pages, pc # "down", pc' # "down",
           NEW p \in Pages, NEW c \in Contents, NEW d \in Data,
           View(pager, p) # None => c = [View(pager, p) EXCEPT !.data = d],
           \A q \in Pages :
              View(pager', q) = IF q = p THEN c ELSE View(pager, q),
           \A q \in Pages : InFile(pager', q) = IF q \in S THEN View(pager, q)
                                                ELSE InFile(pager, q)
    PROVE  Abstract!Next
  <1>1. store' = [store EXCEPT ![p] = c]
    BY DEF store
  <1>2. durable' = [q \in Pages |-> IF q \in S THEN store[q] ELSE durable[q]]
    BY DEF store, durable
  <1>3. store[p] # None => store' = [store EXCEPT ![p].data = d]
    <2>1. store[p] = View(pager, p)
      BY DEF store
    <2> QED
      BY <1>1, <2>1
  <1>4. Abstract!Write(p)
    BY <1>1, <1>3, SameContents DEF Abstract!Write, store
  <1>5. Abstract!Persist(S)
    BY <1>2, SameContents DEF Abstract!Persist, store, durable
  <1> QED
    BY <1>4, <1>5, SameContents DEF Abstract!Next, Abstract!Operate

\* Every read, readPageObjects or hold of a page is an abstract read: no page
\* changes what a reader would see.
LEMMA AbstractRead ==
    ASSUME IInv, NEW p \in Pages,
           Read(p) \/ ReadObjects(p) \/ Hold(p)
    PROVE  Abstract!Next
  <1>0. \E h : \E s \in ReadPage(pager, p, h) :
           pager' = s \/ pager' = Parsed(s, p)
    BY DEF Read, ReadObjects, Hold
  <1> PICK h : \E s \in ReadPage(pager, p, h) :
           pager' = s \/ pager' = Parsed(s, p)
    BY <1>0
  <1>1. PICK s \in ReadPage(pager, p, h) : pager' = s \/ pager' = Parsed(s, p)
    OBVIOUS
  <1>2. /\ Good(s) /\ p \in Cached(s)
        /\ \A q \in Pages : View(s, q) = View(pager, q)
        /\ \E S \in SUBSET Pages : \A q \in Pages :
              InFile(s, q) = IF q \in S THEN View(pager, q) ELSE InFile(pager, q)
    BY SMTT(30), <1>1, ReadGood DEF IInv, Read, ReadObjects, Hold, Counts
  <1>3. \A q \in Pages : /\ View(Parsed(s, p), q) = View(s, q)
                         /\ InFile(Parsed(s, p), q) = InFile(s, q)
    <2> DEFINE r == Parsed(s, p)
    <2>1. /\ r.cache = s.cache /\ r.file = s.file
          /\ r.mem = s.mem /\ r.dirty = s.dirty
      BY <1>2 DEF Parsed, Good, Typed, PagerType
    <2> HIDE DEF r
    <2>2. Cached(r) = Cached(s)
      BY <2>1 DEF Cached
    <2> QED
      BY <2>1, <2>2 DEF View, InFile, r
  <1>4. \A q \in Pages : /\ View(pager', q) = View(pager, q)
                         /\ InFile(pager', q) = InFile(s, q)
    BY <1>1, <1>2, <1>3
  <1>5. PICK S \in SUBSET Pages : \A q \in Pages :
           InFile(s, q) = IF q \in S THEN View(pager, q) ELSE InFile(pager, q)
    BY <1>2
  <1>6. pc # "down" /\ pc' # "down"
    BY DEF Read, ReadObjects, Hold
  <1> QED
    BY <1>4, <1>5, <1>6, AbstractKeep

\* Editing a page and writing it back is an abstract write of that page alone.
LEMMA AbstractModify ==
    ASSUME IInv, NEW p \in Pages, NEW d \in Data, Modify(p, d)
    PROVE  Abstract!Next
  <1>1. PICK s \in ReadPage(pager, p, HeldBuffer) :
           pager' = WritePage(Edited(s, s.cache[p], d), p, s.cache[p])
    BY DEF Modify
  <1>2. /\ Good(s) /\ p \in Cached(s)
        /\ \A q \in Pages : View(s, q) = View(pager, q)
        /\ \E S \in SUBSET Pages : \A q \in Pages :
              InFile(s, q) = IF q \in S THEN View(pager, q) ELSE InFile(pager, q)
    <2>1. Good(pager) /\ p < TotalPages(pager)
      BY DEF IInv, Modify, Counts
    <2>2. s \in ReadPage(pager, p, HeldBuffer)
      BY <1>1
    <2>3. /\ Good(s) /\ p \in Cached(s)
          /\ \A q \in Pages : View(s, q) = View(pager, q)
      BY <2>1, <2>2, ReadGood
    <2>4. \E S \in SUBSET Pages : \A q \in Pages :
              InFile(s, q) = IF q \in S THEN View(pager, q) ELSE InFile(pager, q)
      BY <2>1, <2>2, ReadGood
    <2> QED
      BY <2>3, <2>4
  <1> DEFINE c == [s.mem[s.cache[p]] EXCEPT !.data = d]
  <1>3. /\ c \in Contents
        /\ \A q \in Pages : View(pager', q) = IF q = p THEN c ELSE View(s, q)
        /\ \A q \in Pages : InFile(pager', q) = InFile(s, q)
    BY <1>1, <1>2, EditedGood
  <1>4. View(s, p) # None => View(s, p) = s.mem[s.cache[p]]
    BY <1>2 DEF View
  <1>5. View(pager, p) # None => c = [View(pager, p) EXCEPT !.data = d]
    BY <1>2, <1>4
  <1>6. PICK S \in SUBSET Pages : \A q \in Pages :
           InFile(s, q) = IF q \in S THEN View(pager, q) ELSE InFile(pager, q)
    BY <1>2
  <1>7. pc # "down" /\ pc' # "down"
    BY DEF Modify
  <1> HIDE DEF c
  <1>8. /\ \A q \in Pages : View(pager', q) = IF q = p THEN c ELSE View(pager, q)
        /\ \A q \in Pages : InFile(pager', q) = IF q \in S THEN View(pager, q)
                                                ELSE InFile(pager, q)
    BY <1>2, <1>3, <1>6
  <1> QED
    BY <1>3, <1>5, <1>7, <1>8, AbstractWrite

\* Writing through a held buffer is an abstract write, while the hold is
\* shorter than the cache: the buffer is then still the cached one.
LEMMA AbstractWriteHeld ==
    ASSUME HoldSpan < CacheLimit, IInv, NEW d \in Data, WriteHeld(d)
    PROVE  Abstract!Next
  <1> DEFINE p == held.page
             c == [pager.mem[pager.cache[p]] EXCEPT !.data = d]
  <1>1. /\ p \in Cached(pager) /\ p \in Pages
        /\ pager' = WritePage(Edited(pager, pager.cache[p], d), p, pager.cache[p])
        /\ pc # "down" /\ pc' # "down"
    BY HeldFacts DEF WriteHeld, Cached
  <1> HIDE DEF p
  <1>2. /\ c \in Contents
        /\ \A q \in Pages : View(pager', q) = IF q = p THEN c ELSE View(pager, q)
        /\ \A q \in Pages : InFile(pager', q) = InFile(pager, q)
    BY <1>1, EditedGood DEF IInv
  <1>3. View(pager, p) # None => View(pager, p) = pager.mem[pager.cache[p]]
    BY <1>1 DEF View
  <1>4. {} \in SUBSET Pages
    OBVIOUS
  <1> QED
    BY <1>1, <1>2, <1>3, <1>4, AbstractWrite

\* allocPage is an abstract allocation: the page counted in page 0 is the new one.
LEMMA AbstractAlloc ==
    ASSUME IInv, AllocPage
    PROVE  Abstract!Next
  <1>1. PICK s \in ReadPage(pager, 0, HeldBuffer) :
           /\ TotalPages(s) < MaxPages
           /\ \E b \in NewBuffers(s, HeldBuffer) :
                 pager' = LaidOut(Counted(s), TotalPages(s), b)
    BY DEF AllocPage
  <1>2. PICK b \in NewBuffers(s, HeldBuffer) :
           pager' = LaidOut(Counted(s), TotalPages(s), b)
    BY <1>1
  <1>3. Good(pager) /\ 0 < TotalPages(pager)
    BY TotalFacts, MaxPagesAssumption DEF IInv
  <1>4. /\ Good(s) /\ 0 \in Cached(s)
        /\ \A q \in Pages : View(s, q) = View(pager, q)
        /\ \E S \in SUBSET Pages : \A q \in Pages :
              InFile(s, q) = IF q \in S THEN View(pager, q) ELSE InFile(pager, q)
    BY <1>1, <1>3, PageFacts, ReadGood
  <1> DEFINE n == TotalPages(s)
  <1>5. /\ n \in Pages
        /\ View(s, 0).total = n
        /\ \A q \in Pages :
              View(pager', q) = IF q = n THEN Fresh(n)
                                ELSE IF q = 0
                                     THEN [View(s, 0) EXCEPT !.total = n + 1]
                                ELSE View(s, q)
        /\ \A q \in Pages : InFile(pager', q) = InFile(s, q)
    BY <1>1, <1>2, <1>4, AllocGood
  <1>6. PICK S \in SUBSET Pages : \A q \in Pages :
           InFile(s, q) = IF q \in S THEN View(pager, q) ELSE InFile(pager, q)
    BY <1>4
  <1>7. n \in Nat \ {0}
    BY <1>4, TotalFacts, MaxPagesAssumption
  <1> HIDE DEF n
  <1>8. store[0].total = n
    BY <1>4, <1>5, PageFacts DEF store
  <1>9. store' = [store EXCEPT ![0].total = n + 1, ![n] = Fresh(n)]
    <2>1. \A q \in Pages : View(pager', q) =
             IF q = n THEN Fresh(n)
             ELSE IF q = 0 THEN [View(pager, 0) EXCEPT !.total = n + 1]
             ELSE View(pager, q)
      BY <1>4, <1>5, PageFacts
    <2>2. store' = [q \in Pages |->
             IF q = n THEN Fresh(n)
             ELSE IF q = 0 THEN [store[0] EXCEPT !.total = n + 1]
             ELSE store[q]]
      BY <2>1, PageFacts DEF store
    <2>3. store = [q \in Pages |-> store[q]]
      BY DEF store
    <2>4. [store EXCEPT ![0] = [store[0] EXCEPT !.total = n + 1],
                        ![n] = Fresh(n)]
          = [q \in Pages |->
             IF q = n THEN Fresh(n)
             ELSE IF q = 0 THEN [store[0] EXCEPT !.total = n + 1]
             ELSE store[q]]
      BY <1>5, <1>7, <2>3, PageFacts
    <2> QED
      BY <2>2, <2>4
  <1>10. durable' = [q \in Pages |-> IF q \in S THEN store[q] ELSE durable[q]]
    BY <1>5, <1>6 DEF store, durable
  <1>11. pc # "down" /\ pc' # "down"
    BY DEF AllocPage
  <1>12. Abstract!Alloc
    BY <1>5, <1>8, <1>9, <1>11, SameContents DEF Abstract!Alloc, store
  <1>13. Abstract!Persist(S)
    BY <1>10, SameContents DEF Abstract!Persist, store, durable
  <1> QED
    BY <1>12, <1>13, SameContents DEF Abstract!Next, Abstract!Operate

\* Flushing one dirty page changes the file and no page as it reads.
LEMMA AbstractFlush ==
    ASSUME IInv, FlushPage
    PROVE  Abstract!Next
  <1>1. PICK p \in pager.dirty : pager' = Flushed(pager, {p})
    BY DEF FlushPage
  <1>2. {p} \in SUBSET pager.dirty /\ {p} \in SUBSET Pages
    BY DEF IInv, Good, Typed, PagerType
  <1>3. /\ \A q \in Pages : View(pager', q) = View(pager, q)
        /\ \A q \in Pages : InFile(pager', q) = IF q \in {p} THEN View(pager, q)
                                                ELSE InFile(pager, q)
    BY <1>1, <1>2, FlushedGood DEF IInv
  <1>4. pc # "down" /\ pc' # "down"
    BY DEF FlushPage
  <1> QED
    BY <1>2, <1>3, <1>4, AbstractKeep

\* Closing a pager whose buffers are clean loses nothing.
LEMMA AbstractClose ==
    ASSUME IInv, Close
    PROVE  Abstract!Next
  <1>1. \A p \in Pages : View(pager, p) = InFile(pager, p)
    BY DEF Close, IInv, Good, Clean, View, InFile
  <1>2. \A p \in Pages : /\ View(pager', p) = InFile(pager, p)
                         /\ InFile(pager', p) = InFile(pager, p)
    BY EmptiedGood DEF Close, IInv
  <1>3. store = durable /\ store' = store /\ durable' = durable
    BY <1>1, <1>2 DEF store, durable
  <1>4. pc # "down" /\ pc' = "down"
    BY DEF Close
  <1>5. Abstract!Close
    BY <1>3, <1>4 DEF Abstract!Close, store, durable
  <1> QED
    BY <1>5 DEF Abstract!Next

\* A crash leaves each page either as it read or as the file had it.
LEMMA AbstractCrash ==
    ASSUME IInv, Crash
    PROVE  Abstract!Next
  <1>1. \E S \in SUBSET pager.dirty : \A p \in Pages :
           /\ View(pager', p) = InFile(pager', p)
           /\ InFile(pager', p) = IF p \in S THEN View(pager, p)
                                  ELSE InFile(pager, p)
    <2>1. CASE pager' = Emptied(pager)
      <3>1. {} \in SUBSET pager.dirty
        OBVIOUS
      <3>2. \A p \in Pages : /\ View(pager', p) = InFile(pager', p)
                             /\ InFile(pager', p) = InFile(pager, p)
        BY <2>1, EmptiedGood DEF IInv
      <3> QED
        BY <3>1, <3>2
    <2>2. ASSUME NEW S \in SUBSET pager.dirty,
                 pager' = Emptied(Flushed(pager, S))
          PROVE  \A p \in Pages :
                    /\ View(pager', p) = InFile(pager', p)
                    /\ InFile(pager', p) = IF p \in S THEN View(pager, p)
                                           ELSE InFile(pager, p)
      BY <2>2, FlushedGood, EmptiedGood DEF IInv
    <2>3. CASE \E n \in CacheLimit - 1 .. MaxPages :
                  pager' = Emptied(Flushed(pager,
                                      {p \in pager.dirty : pager.rank[p] >= n}))
      <3>1. PICK n \in CacheLimit - 1 .. MaxPages :
                  pager' = Emptied(Flushed(pager,
                                      {p \in pager.dirty : pager.rank[p] >= n}))
        BY <2>3
      <3>2. {p \in pager.dirty : pager.rank[p] >= n} \in SUBSET pager.dirty
        OBVIOUS
      <3> QED
        BY <3>1, <3>2, <2>2
    <2> QED
      BY <2>1, <2>3 DEF Crash
  <1>2. PICK S \in SUBSET pager.dirty : \A p \in Pages :
           /\ View(pager', p) = InFile(pager', p)
           /\ InFile(pager', p) = IF p \in S THEN View(pager, p)
                                  ELSE InFile(pager, p)
    BY <1>1
  <1>3. S \in SUBSET Pages
    BY DEF IInv, Good, Typed, PagerType
  <1>4. store' = durable'
    BY <1>2 DEF store, durable
  <1>5. durable' = [q \in Pages |-> IF q \in S THEN store[q] ELSE durable[q]]
    BY <1>2 DEF store, durable
  <1>6. pc # "down" /\ pc' = "down"
    BY DEF Crash
  <1>7. Abstract!Persist(S)
    BY <1>5, SameContents DEF Abstract!Persist, store, durable
  <1>8. Abstract!Crash
    BY <1>3, <1>4, <1>6, <1>7, SameContents DEF Abstract!Crash, store, durable
  <1> QED
    BY <1>8 DEF Abstract!Next

\* Every step of the pager is a step of the page store or a stutter.
LEMMA AbstractStep ==
    ASSUME HoldSpan < CacheLimit, IInv, [Next]_vars
    PROVE  [Abstract!Next]_(Abstract!vars)
  <1>1. ASSUME NEW p \in Pages, Read(p) \/ ReadObjects(p) \/ Hold(p)
        PROVE  Abstract!Next
    BY <1>1, AbstractRead
  <1>2. ASSUME NEW p \in Pages, NEW d \in Data, Modify(p, d)
        PROVE  Abstract!Next
    BY <1>2, AbstractModify
  <1>3. CASE AllocPage
    BY <1>3, AbstractAlloc
  <1>4. ASSUME NEW d \in Data, WriteHeld(d)
        PROVE  Abstract!Next
    BY <1>4, AbstractWriteHeld
  <1>5. CASE LetGo \/ BeginFlush \/ EndFlush \/ UNCHANGED vars
    <2>1. UNCHANGED pager /\ (pc # "down") = (pc' # "down")
      BY <1>5 DEF LetGo, BeginFlush, EndFlush, vars
    <2> QED
      BY <2>1 DEF Abstract!vars
  <1>6. CASE FlushPage
    BY <1>6, AbstractFlush
  <1>7. CASE Close
    BY <1>7, AbstractClose
  <1>8. CASE Crash
    BY <1>8, AbstractCrash
  <1>9. CASE Open
    <2>1. pc = "down" /\ pc' = "ready" /\ UNCHANGED pager
      BY <1>9 DEF Open
    <2> QED
      BY <2>1 DEF Abstract!Next, Abstract!Open
  <1> QED
    BY <1>1, <1>2, <1>3, <1>4, <1>5, <1>6, <1>7, <1>8, <1>9 DEF Next

\* The LRU cache with lazy writes, recycled buffers and parsed pages is a page
\* store: reads return the last write, evicting and flushing change no page's
\* content, and a crash falls back to what had been flushed.
THEOREM PagerImplementsPageStore ==
    ASSUME HoldSpan < CacheLimit
    PROVE  Spec => ImplementsPageStore
  <1>1. Init => Abstract!Init
    BY AbstractInit
  <1>2. IInv /\ [Next]_vars => [Abstract!Next]_(Abstract!vars)
    BY AbstractStep
  <1>3. Spec => []IInv
    BY Invariance
  <1> QED
    BY <1>1, <1>2, <1>3, PTL DEF Spec, ImplementsPageStore, Abstract!Spec
=============================================================================
