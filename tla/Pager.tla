------------------------------- MODULE Pager -------------------------------
(***************************************************************************)
(* The page cache of src/modules/Pager.js over its database file: an LRU   *)
(* Map of page buffers, the set of dirty pages, the pool of recycled       *)
(* buffers and the cache of parsed pages ("objects").  The engine calls it *)
(* from one thread and every call runs to its end, except that a crash can *)
(* hit between two writes of a flush.  A crash is the end of the process:  *)
(* the system keeps what was written.  A stop of the machine, which may    *)
(* lose any write since Pager never calls fsync, is not modelled.          *)
(*                                                                         *)
(* The fields of the Pager object are one record, so that a method that    *)
(* calls another is the composition of two operators:                      *)
(*   file   page -> content in the file, None past its end                 *)
(*   cache  page -> its buffer, None when it is not cached                 *)
(*   rank   page -> its place in the Map, counted from the young end: the  *)
(*          Map's first key is the cached page of the highest rank         *)
(*   mem    buffer -> the bytes in it                                      *)
(*   dirty  pages written since they were last flushed                     *)
(*   objs   page -> the content its cached entry was parsed from, or None  *)
(*   pool   recycled buffers                                               *)
(*                                                                         *)
(* A caller may keep the buffer readPage returned and write it back after  *)
(* it has used other pages (createTable, insertMany and update do): held   *)
(* is that page and buffer, span how many pages were used since.           *)
(***************************************************************************)
EXTENDS PageContent, FiniteSets

CONSTANTS Buffers,      \* identities of 4 KB buffers
          CacheLimit,   \* Pager.cacheLimit
          MaxPoolSize,  \* Pager.maxPoolSize
          HoldSpan      \* bound on the pages a caller that holds a buffer
                        \* has used when it begins to use another

ASSUME CacheLimitAssumption == CacheLimit \in Nat \ {0}
ASSUME PoolAssumption == MaxPoolSize \in Nat
ASSUME HoldAssumption == HoldSpan \in Nat
ASSUME BufferAssumption == /\ None \notin Buffers
                           /\ None \notin Contents
                           /\ None \notin [page : Pages, buf : Buffers]

VARIABLES pc, pager, held, span
vars == <<pc, pager, held, span>>

-----------------------------------------------------------------------------
(* The methods, as operators on the Pager's fields.                        *)

Cached(s) == {p \in Pages : s.cache[p] # None}

\* Buffers some reference reaches: the others are garbage.
InUse(s) == {s.cache[p] : p \in Cached(s)} \cup s.pool

\* fs.writeSync of the pages of S.  Writing past the end of the file leaves
\* zeroes in between.
Flushed(s, S) ==
    [s EXCEPT
       !.file = [p \in Pages |->
                   IF p \in S THEN s.mem[s.cache[p]]
                   ELSE IF s.file[p] = None /\ \E q \in S : p < q THEN Zero
                   ELSE s.file[p]],
       !.dirty = @ \ S]

\* Mutated form of Touched: a hit leaves the Map's order alone (FIFO).
TouchedFifo(s, p) == s

\* cache.delete(p); cache.set(p, buf) on a cached page.
Touched(s, p) ==
    [s EXCEPT !.rank = [q \in Pages |->
        IF q = p THEN 0
        ELSE IF q \in Cached(s) /\ s.rank[q] < s.rank[p] THEN s.rank[q] + 1
        ELSE s.rank[q]]]

\* cache.set(p, b) on a page that is not cached.
Entered(s, p, b) ==
    [s EXCEPT !.cache[p] = b,
              !.rank = [q \in Pages |->
                          IF q \in Cached(s) THEN s.rank[q] + 1 ELSE 0]]

Victims(s) == {p \in Cached(s) : s.rank[p] >= CacheLimit}

\* _releaseBuffer, oldest victim first, while the pool has room.
Released(s) ==
    {s.cache[p] : p \in
        {v \in Victims(s) :
            Cardinality({w \in Victims(s) : s.rank[w] > s.rank[v]})
                + Cardinality(s.pool) < MaxPoolSize}}

\* Mutated form of Trimmed: a dirty victim is dropped without its flush.
TrimmedUnflushed(s) ==
    [s EXCEPT
       !.dirty = @ \ Victims(s),
       !.cache = [p \in Pages |-> IF p \in Victims(s) THEN None ELSE @[p]],
       !.rank = [p \in Pages |-> IF p \in Victims(s) THEN 0 ELSE @[p]],
       !.objs = [p \in Pages |-> IF p \in Victims(s) THEN None ELSE @[p]],
       !.pool = @ \cup Released(s)]

\* The eviction loop of readPage: flush what is dirty, drop the object
\* entry, recycle the buffer, until no more than CacheLimit pages are left.
Trimmed(s) ==
    [Flushed(s, Victims(s) \cap s.dirty) EXCEPT
       !.cache = [p \in Pages |-> IF p \in Victims(s) THEN None ELSE @[p]],
       !.rank = [p \in Pages |-> IF p \in Victims(s) THEN 0 ELSE @[p]],
       !.objs = [p \in Pages |-> IF p \in Victims(s) THEN None ELSE @[p]],
       !.pool = @ \cup Released(s)]

\* _allocBuffer: a pooled buffer with whatever it last held, else a new one.
\* h is the buffer a caller holds.
NewBuffers(s, h) ==
    IF s.pool # {} THEN s.pool ELSE Buffers \ (InUse(s) \cup h)

\* Mutated form of Taken: the buffer is read from the pool, not popped.
TakenNotPopped(s, b) ==
    [s EXCEPT !.mem[b] = IF b \in s.pool THEN @ ELSE Junk]

Taken(s, b) ==
    [s EXCEPT !.pool = @ \ {b},
              !.mem[b] = IF b \in s.pool THEN @ ELSE Junk]

\* fs.readSync into buffer b: past the end of the file it reads nothing, does
\* not fail, and leaves the buffer as it was.
Filled(s, p, b) ==
    [s EXCEPT !.mem[b] = IF s.file[p] = None THEN @ ELSE s.file[p]]

ReadMiss(s, p, b) == Trimmed(Entered(Filled(Taken(s, b), p, b), p, b))

\* The states readPage(p) may leave.
ReadPage(s, p, h) ==
    IF p \in Cached(s)
    THEN {Touched(s, p)}
    ELSE {ReadMiss(s, p, b) : b \in NewBuffers(s, h)}

\* Mutated forms of WritePage: the object cache is not invalidated; the page
\* is not marked dirty.
WritePageStaleObjects(s, p, b) ==
    [IF p \in Cached(s) THEN [s EXCEPT !.cache[p] = b] ELSE Entered(s, p, b)
       EXCEPT !.dirty = @ \cup {p}]

WritePageNotDirty(s, p, b) ==
    [IF p \in Cached(s) THEN [s EXCEPT !.cache[p] = b] ELSE Entered(s, p, b)
       EXCEPT !.objs[p] = None]

\* writePage(p, b): a cached page keeps its place in the Map, and nothing is
\* evicted.
WritePage(s, p, b) ==
    [IF p \in Cached(s) THEN [s EXCEPT !.cache[p] = b] ELSE Entered(s, p, b)
       EXCEPT !.objs[p] = None, !.dirty = @ \cup {p}]

\* A caller changes the bytes of a buffer in place.
Put(s, b, c) == [s EXCEPT !.mem[b] = c]

Edited(s, b, d) == Put(s, b, [s.mem[b] EXCEPT !.data = d])

\* What readPageObjects finds in a cached page.
Parsed(s, p) == [s EXCEPT !.objs[p] = s.mem[s.cache[p]]]

\* The header's count of pages, read through the cache.
TotalPages(s) ==
    IF 0 \in Cached(s) THEN s.mem[s.cache[0]].total ELSE s.file[0].total

\* allocPage after its readPage(0): count the new page in the header, then
\* lay it out in a buffer of its own.
Counted(s) ==
    LET b == s.cache[0]
    IN WritePage(Put(s, b, [s.mem[b] EXCEPT !.total = @ + 1]), 0, b)

\* Mutated form of LaidOut: the page's number is read after it was counted.
LaidOutNext(s, p, b) ==
    WritePage(Put(Taken(s, b), b, Fresh(p + 1)), p + 1, b)

LaidOut(s, p, b) ==
    WritePage(Put(Taken(s, b), b, Fresh(p)), p, b)

-----------------------------------------------------------------------------
(* Actions.                                                                *)

Init ==
    /\ pc = "ready"
    /\ pager = [file  |-> [p \in Pages |-> IF p = 0 THEN Header(1) ELSE None],
                cache |-> [p \in Pages |-> None],
                rank  |-> [p \in Pages |-> 0],
                mem   |-> [b \in Buffers |-> Junk],
                dirty |-> {},
                objs  |-> [p \in Pages |-> None],
                pool  |-> {}]
    /\ held = None
    /\ span = 0

\* The buffer a caller holds, as a set of none or one.
HeldBuffer == IF held = None THEN {} ELSE {held.buf}

\* Page p is in the part of the file the header counts.
Counts(p) == p < TotalPages(pager)

\* The caller uses n more pages while it holds a buffer, if it holds one and
\* has not used HoldSpan yet.  Of the two pages of AllocPage only the first,
\* which is read, makes the cache evict.
Using(n) ==
    IF held = None THEN span' = span
    ELSE span < HoldSpan /\ span' = span + n

Read(p) ==
    /\ pc = "ready"
    /\ Counts(p)
    /\ pager' \in ReadPage(pager, p, HeldBuffer)
    /\ Using(1)
    /\ UNCHANGED <<pc, held>>

ReadObjects(p) ==
    /\ pc = "ready"
    /\ Counts(p)
    /\ pager.objs[p] = None
    /\ \E s \in ReadPage(pager, p, HeldBuffer) : pager' = Parsed(s, p)
    /\ Using(1)
    /\ UNCHANGED <<pc, held>>

\* readPage, edit, writePage.
Modify(p, d) ==
    /\ pc = "ready"
    /\ Counts(p)
    /\ \E s \in ReadPage(pager, p, HeldBuffer) :
          pager' = WritePage(Edited(s, s.cache[p], d), p, s.cache[p])
    /\ Using(1)
    /\ UNCHANGED <<pc, held>>

AllocPage ==
    /\ pc = "ready"
    /\ \E s \in ReadPage(pager, 0, HeldBuffer) :
          /\ TotalPages(s) < MaxPages
          /\ \E b \in NewBuffers(s, HeldBuffer) :
                pager' = LaidOut(Counted(s), TotalPages(s), b)
    /\ Using(2)
    /\ UNCHANGED <<pc, held>>

\* A caller reads page p and keeps the buffer.
Hold(p) ==
    /\ pc = "ready"
    /\ held = None
    /\ Counts(p)
    /\ \E s \in ReadPage(pager, p, {}) :
          /\ pager' = s
          /\ held' = [page |-> p, buf |-> s.cache[p]]
    /\ UNCHANGED <<pc, span>>

\* It edits the buffer it kept and writes it back.
WriteHeld(d) ==
    /\ pc = "ready"
    /\ held # None
    /\ pager' = WritePage(Edited(pager, held.buf, d), held.page, held.buf)
    /\ UNCHANGED <<pc, held, span>>

LetGo ==
    /\ pc = "ready"
    /\ held # None
    /\ held' = None
    /\ span' = 0
    /\ UNCHANGED <<pc, pager>>

\* flush(), on its own or from close(): one write per dirty page, in page
\* order.  No caller is in the middle of anything.
BeginFlush ==
    /\ pc = "ready"
    /\ held = None
    /\ pc' \in {"flush", "close"}
    /\ UNCHANGED <<pager, held, span>>

FlushPage ==
    /\ pc \in {"flush", "close"}
    /\ \E p \in pager.dirty :
          /\ \A q \in pager.dirty : p <= q
          /\ pager' = Flushed(pager, {p})
    /\ UNCHANGED <<pc, held, span>>

EndFlush ==
    /\ pc = "flush"
    /\ pager.dirty = {}
    /\ pc' = "ready"
    /\ UNCHANGED <<pager, held, span>>

\* A Pager of a new process over the same file.
Emptied(s) ==
    [s EXCEPT !.cache = [p \in Pages |-> None],
              !.rank = [p \in Pages |-> 0],
              !.mem = [b \in Buffers |-> Junk],
              !.dirty = {},
              !.objs = [p \in Pages |-> None],
              !.pool = {}]

Close ==
    /\ pc = "close"
    /\ pager.dirty = {}
    /\ pc' = "down"
    /\ pager' = Emptied(pager)
    /\ UNCHANGED <<held, span>>

\* The process ends and its memory is lost.  It can come between two writes
\* of a flush, or in the eviction loop of a readPage, when only pages of rank
\* n and more have been written.
Crash ==
    /\ pc # "down"
    /\ pc' = "down"
    /\ \/ pager' = Emptied(pager)
       \/ /\ pc = "ready"
          /\ \E n \in CacheLimit - 1 .. MaxPages :
                pager' = Emptied(Flushed(pager,
                                    {p \in pager.dirty : pager.rank[p] >= n}))
    /\ held' = None
    /\ span' = 0

Open ==
    /\ pc = "down"
    /\ pc' = "ready"
    /\ UNCHANGED <<pager, held, span>>

Next ==
    \/ \E p \in Pages : Read(p) \/ ReadObjects(p) \/ Hold(p)
    \/ \E p \in Pages, d \in Data : Modify(p, d)
    \/ AllocPage
    \/ \E d \in Data : WriteHeld(d)
    \/ LetGo
    \/ BeginFlush
    \/ FlushPage
    \/ EndFlush
    \/ Close
    \/ Crash
    \/ Open

Spec == Init /\ [][Next]_vars

-----------------------------------------------------------------------------
(* What must hold.                                                         *)

PagerType == [file  : [Pages -> Contents \cup {None}],
              cache : [Pages -> Buffers \cup {None}],
              rank  : [Pages -> Nat],
              mem   : [Buffers -> Contents],
              dirty : SUBSET Pages,
              objs  : [Pages -> Contents \cup {None}],
              pool  : SUBSET Buffers]

\* The fields have their types; the header never counts more pages than the
\* file may grow to, and no caller overstays the span it is allowed.
TypeOK ==
    /\ pc \in {"ready", "flush", "close", "down"}
    /\ pager \in PagerType
    /\ held \in [page : Pages, buf : Buffers] \cup {None}
    /\ span \in 0 .. HoldSpan + 1

\* No buffer serves two pages, and none that serves a page is in the pool
\* for the next reader to overwrite: allocBuffer, releaseBuffer and the
\* write-back of held buffers keep the two worlds apart.
BuffersApart ==
    /\ \A p, q \in Cached(pager) :
          pager.cache[p] = pager.cache[q] => p = q
    /\ \A p \in Cached(pager) : pager.cache[p] \notin pager.pool

\* A parsed entry never outlives the bytes it was parsed from: readers of
\* rows (readPageObjects) and readers of bytes (readPage) see one page.
ObjectsFresh ==
    \A p \in Pages : pager.objs[p] # None =>
        p \in Cached(pager) /\ pager.objs[p] = pager.mem[pager.cache[p]]

\* A cached page that is not marked dirty is the page in the file, so that
\* evicting it without a write loses nothing (a page the file has no bytes of
\* has nothing to lose); and every page marked dirty is still cached, so that
\* a flush finds its bytes.
CleanIsOnDisk ==
    /\ pager.dirty \subseteq Cached(pager)
    /\ \A p \in Cached(pager) \ pager.dirty :
          pager.file[p] \notin {None, Zero} =>
              pager.mem[pager.cache[p]] = pager.file[p]

\* The buffer a caller is about to write back still is the cached buffer of
\* its page (insertMany and createTable allocate a page in between).
HeldIsCurrent ==
    held # None => pager.cache[held.page] = held.buf

\* What the next readPage of a page returns: None (Lost) when the file has no bytes
\* of it.
View(s, p) ==
    IF p \in s.dirty THEN s.mem[s.cache[p]]
    ELSE IF s.file[p] \in {None, Zero} THEN None
    ELSE IF p \in Cached(s) THEN s.mem[s.cache[p]]
    ELSE s.file[p]

InFile(s, p) == IF s.file[p] \in {None, Zero} THEN None ELSE s.file[p]

Abstract ==
    INSTANCE PageStore WITH
        Lost    <- None,
        open    <- pc # "down",
        store   <- [p \in Pages |-> View(pager, p)],
        durable <- [p \in Pages |-> InFile(pager, p)]

\* The cache is a page store: a read returns the last write, evicting and
\* flushing change no page's content, and closing makes every page durable.
ImplementsPageStore == Abstract!Spec

\* No cached page shows bytes that were laid out for another page: rows of
\* one table never appear in a second one.
OwnBytes ==
    \A p \in Cached(pager) : pager.mem[pager.cache[p]].owner \in {p, None}
=============================================================================
