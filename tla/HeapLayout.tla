----------------------------- MODULE HeapLayout -----------------------------
(***************************************************************************)
(* How TableManager, IndexManager and the executors lay out the tables of  *)
(* a database: a directory in page 0, a chain of pages for each table, and *)
(* in memory an index for some of them.  A database d has                  *)
(*                                                                         *)
(*   dir    the directory: name, first and last page of every table        *)
(*   pages  the pages from page 1 on.  A page has the number of the next   *)
(*          one (0: none), the record count and the free offset of its     *)
(*          header, and cells: its records in the order of their offsets,  *)
(*          those beyond the count included                                *)
(*   index  table -> its index, or None                                    *)
(*                                                                         *)
(* and each operator below is a statement's effect on it.  Statements run  *)
(* one at a time, and a page read is the page last written (module Pager). *)
(*                                                                         *)
(* Sizes are counted in units of two bytes behind the page header.  A row  *)
(* has an indexed column, key, and a column val whose value makes it       *)
(* Width[val] units wide; the length in front of it takes one more.  A row *)
(* wider than a page is cut when it is written, and what is left is no     *)
(* JSON; so are two zero bytes, a record of length 0: a Gap.               *)
(*                                                                         *)
(* An index gives for each key its entries, the one inserted last first: a *)
(* tree with one leaf, that is of at most 32 entries (for larger ones see  *)
(* BTreeIndex).  An entry has the row as it was and the page it was in.    *)
(***************************************************************************)
EXTENDS Integers, Sequences, SequencesExt, FiniteSetsExt, TLC

CONSTANTS None,      \* no index, no key
          System,    \* the table _indexes, and the val of its rows
          MaxKey,    \* keys are 1 .. MaxKey
          Width,     \* units that a row with a val takes
          Refused,   \* <<table, val>>: what the table's schema refuses
          PageSize,  \* units of a page behind its header
          MaxFree,   \* the largest free offset the header can hold
          MaxLen     \* the largest length the two bytes in front can hold

ASSUME FieldsReach == PageSize <= MaxFree /\ MaxFree <= MaxLen

Keys == 1 .. MaxKey
Gap == [key |-> None, val |-> None]

Need(r) == IF r = Gap THEN 1 ELSE 1 + Width[r.val]
Used(cells) == FoldLeft(LAMBDA n, r : n + Need(r), 0, cells)

\* JSON.parse succeeds.
Readable(r) == r # Gap /\ Need(r) <= PageSize

EmptyPage == [next |-> 0, count |-> 0, free |-> 0, cells |-> <<>>]

-----------------------------------------------------------------------------
(* Reading.                                                                *)

Exists(d, t) == \E e \in ToSet(d.dir) : e.name = t

\* findTableEntry
Entry(d, t) == CHOOSE e \in ToSet(d.dir) : e.name = t

\* The pages of a table, from its first along the links.
Chain(d, t) ==
    LET from[p \in 0 .. Len(d.pages)] ==
            IF p = 0 THEN <<>> ELSE <<p>> \o from[d.pages[p].next]
    IN from[Entry(d, t).start]

\* What a scan of a page comes across: as many records as its header counts.
Records(page) == SubSeq(page.cells, 1, page.count)

\* The records of s that are in S, in their order (SelectSeq for a set).
Only(s, S) == FoldLeft(LAMBDA kept, r : IF r \in S THEN Append(kept, r) ELSE kept, <<>>, s)

\* The records of a page that a scan can read.
Legible(page) == Only(Records(page), {r \in ToSet(Records(page)) : Readable(r)})

\* _scanTable with page hints.
Placed(d, t) ==
    LET on(p) == Legible(d.pages[p])
    IN FoldLeft(LAMBDA s, p : s \o [i \in DOMAIN on(p) |-> [row |-> on(p)[i], page |-> p]],
                <<>>, Chain(d, t))

\* _scanTable
Scan(d, t) ==
    FoldLeft(LAMBDA s, p : s \o Legible(d.pages[p]), <<>>, Chain(d, t))

\* checkMatch, for one condition or none.
Matches(r, where) ==
    Readable(r) /\ (where.on = "all" \/ r[where.on] = where.is)

\* The binary search of a leaf for an entry of a key: it ends when fewer than
\* least places are left.
Bisect(ix, key, least) ==
    LET leaf == FoldLeft(LAMBDA s, k : s \o ix[k], <<>>, [k \in Keys |-> k])
        find[x \in (1 .. Len(leaf) + 1) \X (0 .. Len(leaf))] ==
            LET low == x[1]
                high == x[2]
                mid == (low + high) \div 2
            IN IF high - low + 1 < least THEN <<>>
               ELSE IF leaf[mid].row.key = key THEN <<leaf[mid]>>
               ELSE IF leaf[mid].row.key < key THEN find[<<mid + 1, high>>]
               ELSE find[<<low, mid - 1>>]
    IN find[<<1, Len(leaf)>>]

\* Mutated form of Lookup: the last place is not looked at.
LookupShort(ix, key) == Bisect(ix, key, 2)

\* index.search
Lookup(ix, key) == Bisect(ix, key, 1)

\* The entries a statement's condition finds in an index, if there is one.
Found(d, t, where) ==
    IF where.on # "key" \/ d.index[t] = None THEN <<>>
    ELSE Lookup(d.index[t], where.is)

\* SELECT with a condition: an index answers alone, with its copy of the row.
Selected(d, t, where) ==
    IF where.on = "key" /\ d.index[t] # None
    THEN [i \in DOMAIN Found(d, t, where) |-> Found(d, t, where)[i].row]
    ELSE Only(Scan(d, t), {r \in ToSet(Scan(d, t)) : Matches(r, where)})

-----------------------------------------------------------------------------
(* The index of a table.                                                   *)

EmptyIndex == [k \in Keys |-> <<>>]

\* index.insert
WithRow(ix, row, page) ==
    [ix EXCEPT ![row.key] = <<[row |-> row, page |-> page]>> \o @]

\* updateIndexes for a new row; a table without an index has nothing to do.
WithEntry(d, t, row, page) ==
    IF d.index[t] = None THEN d
    ELSE [d EXCEPT !.index[t] = WithRow(@, row, page)]

\* index.delete takes one entry of the key away, the first in the leaf.
WithoutEntries(d, t, key, n) ==
    IF d.index[t] = None THEN d
    ELSE [d EXCEPT !.index[t][key] = SubSeq(@, n + 1, Len(@))]

\* Mutated form of UpdateIndexes: the old entry stays.
UpdateIndexesKeeps(d, t, new, old, page) ==
    IF new.key = old.key THEN d ELSE WithEntry(d, t, new, page)

\* updateIndexes for a row that changes.
UpdateIndexes(d, t, new, old, page) ==
    IF new.key = old.key THEN d
    ELSE WithEntry(WithoutEntries(d, t, old.key, 1), t, new, page)

\* The index built from a scan of the table.
Built(d, t) ==
    FoldLeft(LAMBDA ix, e : WithRow(ix, e.row, e.page), EmptyIndex, Placed(d, t))

-----------------------------------------------------------------------------
(* INSERT.                                                                 *)

\* Mutated form of Linked: the new page is counted but not linked.
LinkedNot(d, page) == [d EXCEPT !.pages = Append(@, EmptyPage)]

\* allocPage, and the link to the new page in the full one.
Linked(d, page) ==
    [d EXCEPT !.pages = Append([@ EXCEPT ![page].next = Len(d.pages) + 1],
                               EmptyPage)]

\* The row has room behind the others, or a page of its own.
Roomy(d, page, r) ==
    IF d.pages[page].free + Need(r) <= PageSize THEN [db |-> d, page |-> page]
    ELSE [db |-> Linked(d, page), page |-> Len(d.pages) + 1]

\* updateTableLastPage
WithLastPage(d, t, page) ==
    [d EXCEPT !.dir = [i \in DOMAIN d.dir |->
        IF d.dir[i].name = t THEN [d.dir[i] EXCEPT !.last = page] ELSE d.dir[i]]]

\* validateData throws before anything is done.
Invalid(t, r) == <<t, r.val>> \in Refused

\* writeUInt16LE throws at a length beyond two bytes, with the new page linked.
TooLong(r) == Need(r) > MaxLen

\* It throws at the free offset behind a row that is hardly shorter, when the
\* index has the row's entry.
TooFar(r) == Need(r) > MaxFree

Throws(t, r) == Invalid(t, r) \/ TooLong(r) \/ TooFar(r)

\* The record is written at the free offset of the page.
Stored(page, r) ==
    [page EXCEPT !.cells = Append(@, r), !.count = @ + 1, !.free = @ + Need(r)]

\* insertMany, which is only ever called with one row.  What a row that is too
\* far leaves in the page linked for it, a record that no scan can read and no
\* row will follow, is left out: the page counts as empty.
Inserted(d, t, r) ==
    LET at == Roomy(d, Entry(d, t).last, r)
        stored == [at.db EXCEPT !.pages[at.page] = Stored(@, r)]
    IN IF Invalid(t, r) THEN d
       ELSE IF TooLong(r) THEN at.db
       ELSE IF TooFar(r) THEN WithEntry(at.db, t, r, at.page)
       ELSE WithLastPage(WithEntry(stored, t, r, at.page), t, at.page)

-----------------------------------------------------------------------------
(* DELETE.                                                                 *)

Matching(s, where) == {r \in ToSet(s) : Matches(r, where)}

\* The records of a page that a condition takes away.
Gone(d, p, where) ==
    Only(Records(d.pages[p]), Matching(Records(d.pages[p]), where))

\* The records that stay move together; the rest of the page is zeroed, with
\* whatever the count did not reach.
Compacted(page, where) ==
    LET keep == Only(Records(page),
                     ToSet(Records(page)) \ Matching(Records(page), where))
    IN [page EXCEPT !.cells = keep, !.count = Len(keep), !.free = Used(keep)]

\* delete on the given pages.
DeletedIn(d, t, where, visited) ==
    LET modified == {p \in visited : Gone(d, p, where) # <<>>}
        gone(k) == [p \in modified |->
                       Cardinality({i \in DOMAIN Gone(d, p, where) :
                                       Gone(d, p, where)[i].key = k})]
        removed(k) == MapThenSumSet(LAMBDA p : gone(k)[p], modified)
        unindexed == IF d.index[t] = None THEN d
                     ELSE [d EXCEPT !.index[t] =
                              [k \in Keys |-> SubSeq(d.index[t][k], removed(k) + 1,
                                                     Len(d.index[t][k]))]]
    IN FoldSet(LAMBDA p, e : [e EXCEPT !.pages[p] = Compacted(@, where)],
               unindexed, modified)

\* Mutated form of Deleted: the links between pages are not followed.
DeletedFirst(d, t, where) ==
    LET hint == Found(d, t, where)
    IN DeletedIn(d, t, where,
                 {IF hint # <<>> THEN hint[1].page ELSE Entry(d, t).start})

\* delete: the page of the hint alone, unless nothing was found there.
Deleted(d, t, where) ==
    LET hint == Found(d, t, where)
    IN IF hint # <<>> /\ Gone(d, hint[1].page, where) # <<>>
       THEN DeletedIn(d, t, where, {hint[1].page})
       ELSE DeletedIn(d, t, where, ToSet(Chain(d, t)))

-----------------------------------------------------------------------------
(* UPDATE.                                                                 *)

\* set gives the columns to change their values.
Changed(r, set) ==
    [c \in DOMAIN r |-> IF c \in DOMAIN set THEN set[c] ELSE r[c]]

\* A narrower row is written over the old one and the rest zeroed.
InPlace(page, i, old, new) ==
    [page EXCEPT !.cells = SubSeq(@, 1, i - 1) \o <<new>>
                           \o [n \in 1 .. Need(old) - Need(new) |-> Gap]
                           \o SubSeq(@, i + 1, Len(@))]

\* One record of update's loop: s.at is its place among the cells, s.broke
\* whether the loop has ended.  The index is updated first.  A wider row
\* deletes every match and is inserted.  When the insert throws, the error is
\* caught and the loop goes on, in a page where no match is left if the
\* delete has been there.
Visited(s, t, set, where) ==
    LET old == s.db.pages[s.page].cells[s.at]
        new == Changed(old, set)
        indexed == UpdateIndexes(s.db, t, new, old, s.page)
        purged == Deleted(indexed, t, where)
    IN IF s.broke THEN s
       ELSE IF ~ Matches(old, where) THEN [s EXCEPT !.at = @ + 1]
       ELSE IF Need(new) <= Need(old)
            THEN [s EXCEPT !.db = [indexed EXCEPT !.pages[s.page] =
                                     InPlace(@, s.at, old, new)],
                           !.at = @ + 1 + Need(old) - Need(new)]
       ELSE [s EXCEPT !.db = Inserted(purged, t, new),
                      !.at = @ + 1,
                      !.broke = \/ ~ Throws(t, new)
                                \/ purged.pages[s.page] # s.db.pages[s.page]]

\* update's loop over the records of one page.
UpdatedPage(d, t, set, where, p) ==
    FoldLeft(LAMBDA s, i : Visited(s, t, set, where),
             [db |-> d, page |-> p, at |-> 1, broke |-> FALSE],
             [i \in 1 .. d.pages[p].count |-> i]).db

\* update.  A page the fallback adds holds the updated row alone, on which
\* the loop would change nothing.
Updated(d, t, set, where) ==
    LET hint == Found(d, t, where)
    IN FoldLeft(LAMBDA e, p : UpdatedPage(e, t, set, where, p), d,
                IF hint # <<>> THEN <<hint[1].page>> ELSE Chain(d, t))

-----------------------------------------------------------------------------
(* CREATE and DROP TABLE, CREATE INDEX, opening the file.                  *)

\* createTable
Created(d, t) ==
    LET page == Len(d.pages) + 1
    IN [d EXCEPT !.pages = Append(@, EmptyPage),
                 !.dir = Append(@, [name |-> t, start |-> page, last |-> page])]

\* A new file with the tables that _initSystem creates.
NewFile(names) ==
    FoldLeft(Created, [dir |-> <<>>, pages |-> <<>>, index |-> <<>>], names)

\* Mutated form of Unlisted: the directory closes up by one entry at its end
\* without moving that entry to the free place.
UnlistedLast(dir, t) ==
    [i \in 1 .. Len(dir) - 1 |->
        IF dir[i].name = t THEN [dir[i] EXCEPT !.name = Last(dir).name]
        ELSE dir[i]]

\* The last entry of the directory moves to the place of the dropped one.
Unlisted(dir, t) ==
    [i \in 1 .. Len(dir) - 1 |-> IF dir[i].name = t THEN Last(dir) ELSE dir[i]]

\* Mutated form of Unrecorded: the entries of _indexes stay.
UnrecordedNot(d, t) == [d EXCEPT !.index[t] = None]

\* dropTable forgets the table's index, in memory and in _indexes.
Unrecorded(d, t) ==
    Deleted([d EXCEPT !.index[t] = None], System, [on |-> "key", is |-> t])

Dropped(d, t) == [Unrecorded(d, t) EXCEPT !.dir = Unlisted(d.dir, t)]

\* createIndex
Indexed(d, t) ==
    Inserted([d EXCEPT !.index[t] = Built(d, t)], System,
             [key |-> t, val |-> System])

\* The tables _indexes has a record of.
Recorded(d) == {r.key : r \in ToSet(Scan(d, System))}

\* Opening the file: loadIndexes returns at once, as no engine has a _select.
Loaded(d) == [d EXCEPT !.index = [t \in DOMAIN @ |-> None]]
=============================================================================
