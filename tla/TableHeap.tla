----------------------------- MODULE TableHeap -----------------------------
(***************************************************************************)
(* The statements that change tables, one at a time, over the layout of    *)
(* module HeapLayout, against what they ask for.                           *)
(***************************************************************************)
EXTENDS HeapLayout

CONSTANTS Tables,       \* names of user tables
          SystemTables, \* the tables of _initSystem, in the order it makes them
          Vals,         \* values of the other column
          MaxPages,     \* bound on the growth of the file, page 0 left out
          MaxSteps      \* bound on the statements

Names == Tables \cup ToSet(SystemTables)
Rows == [key : Keys, val : Vals]

ASSUME WidthsGiven ==
    /\ \A v \in Vals \cup {System} : Width[v] \in Nat \ {0}
    /\ Refused \subseteq Tables \X Vals
ASSUME NamesApart == /\ System \in ToSet(SystemTables) /\ None \notin Names \cup Vals
                     /\ Tables \cap ToSet(SystemTables) = {}
ASSUME SystemOnce == /\ SystemTables \in Seq(ToSet(SystemTables))
                     /\ \A i, j \in DOMAIN SystemTables :
                           SystemTables[i] = SystemTables[j] => i = j
\* A record of _indexes, a few names, is shorter than a page.
ASSUME RecordFits == 1 + Width[System] <= PageSize
ASSUME BoundsAreNaturals == /\ MaxKey \in Nat /\ PageSize \in Nat /\ MaxFree \in Nat
                            /\ MaxLen \in Nat /\ MaxSteps \in Nat /\ IsFiniteSet(Vals)

VARIABLES db,       \* the database
          table,    \* what the statements asked for: how often each row is in
          mangled,  \* tables where a statement did what it was not asked for
          repeated, \* tables with an index that had two entries of one key, or
                    \* one of a row that was not stored
          aged,     \* tables with an index where a row was changed in place
          steps     \* statements so far
vars == <<db, table, mangled, repeated, aged, steps>>

-----------------------------------------------------------------------------
(* What the statements ask for.                                            *)

Column == [Rows -> Nat]

There(rows) == {r \in Rows : rows[r] > 0}

\* The rows of a table after each row became what to makes of it.
Image(rows, to(_)) ==
    [r \in Rows |-> MapThenSumSet(LAMBDA q : rows[q],
                                  {q \in There(rows) : to(q) = r})]

\* Two rows have the same key.
Repeats(rows) ==
    \E k \in Keys :
        MapThenSumSet(LAMBDA q : rows[q], {q \in There(rows) : q.key = k}) > 1

Asked(rows, where) == {r \in There(rows) : Matches(r, where)}

\* An UPDATE that leaves more or less than it was asked for: it narrows a
\* row, or it widens one and matches another, or is refused by the schema or
\* the page.
Mangles(t, rows, set, where) ==
    \E r \in Asked(rows, where) :
        LET new == Changed(r, set)
        IN \/ Need(new) < Need(r)
           \/ /\ Need(new) > Need(r)
              /\ \/ MapThenSumSet(LAMBDA q : rows[q], Asked(rows, where)) > 1
                 \/ Throws(t, new)
                 \/ ~ Readable(new)

\* An UPDATE that changes a row and neither its key nor its width.
Ages(rows, set, where) ==
    \E r \in Asked(rows, where) :
        LET new == Changed(r, set)
        IN new # r /\ new.key = r.key /\ Need(new) = Need(r)

\* An UPDATE that widens a row and changes its key, so that the row is entered
\* under the new key twice: as one that changes and as one that is inserted.
Doubles(rows, set, where) ==
    \E r \in Asked(rows, where) :
        LET new == Changed(r, set)
        IN new.key # r.key /\ Need(new) > Need(r)

Holds(t, rows) == table' = [table EXCEPT ![t] = rows]

\* The index of table t, if it has one, may have got an entry too many.
Enters(t, tooMany) ==
    repeated' = IF db.index[t] # None /\ tooMany
                THEN repeated \cup {t} ELSE repeated

Counted == steps < MaxSteps /\ steps' = steps + 1

-----------------------------------------------------------------------------
(* Actions.                                                                *)

\* A new file, after _initSystem, in which some tables have been created.
InitWith(tables) ==
    /\ db = [NewFile(SystemTables \o tables) EXCEPT !.index = [t \in Names |-> None]]
    /\ table = [t \in Tables |-> [r \in Rows |-> 0]]
    /\ mangled = {}
    /\ repeated = {}
    /\ aged = {}
    /\ steps = 0

Init == InitWith(<<>>)

CreateTable(t) ==
    /\ Counted
    /\ ~ Exists(db, t)
    /\ Len(db.pages) < MaxPages
    /\ db' = Created(db, t)
    /\ UNCHANGED <<table, mangled, repeated, aged>>

DropTable(t) ==
    /\ Counted
    /\ Exists(db, t)
    /\ db' = Dropped(db, t)
    /\ table' = [table EXCEPT ![t] = [r \in Rows |-> 0]]
    /\ mangled' = mangled \ {t}
    /\ repeated' = repeated \ {t}
    /\ aged' = aged \ {t}

CreateIndex(t) ==
    /\ Counted
    /\ Exists(db, t)
    /\ db.index[t] = None
    /\ db' = Indexed(db, t)
    /\ Len(db'.pages) <= MaxPages
    /\ repeated' = IF Repeats(table[t]) THEN repeated \cup {t} ELSE repeated
    /\ aged' = aged \ {t}
    /\ UNCHANGED <<table, mangled>>

\* A row wider than a page is cut.
Insert(t, r) ==
    /\ Counted
    /\ Exists(db, t)
    /\ db' = Inserted(db, t, r)
    /\ Len(db'.pages) <= MaxPages
    /\ IF Throws(t, r)
       THEN /\ UNCHANGED <<table, mangled>>
            /\ Enters(t, TooFar(r))
       ELSE /\ Holds(t, [table[t] EXCEPT ![r] = @ + 1])
            /\ Enters(t, Repeats(table'[t]))
            /\ mangled' = IF Readable(r) THEN mangled ELSE mangled \cup {t}
    /\ UNCHANGED aged

Delete(t, where) ==
    /\ Counted
    /\ Exists(db, t)
    /\ db' = Deleted(db, t, where)
    /\ Holds(t, [r \in Rows |-> IF Matches(r, where) THEN 0 ELSE table[t][r]])
    /\ UNCHANGED <<mangled, repeated, aged>>

Update(t, set, where) ==
    /\ Counted
    /\ Exists(db, t)
    /\ db' = Updated(db, t, set, where)
    /\ Len(db'.pages) <= MaxPages
    /\ Holds(t, Image(table[t], LAMBDA r : IF Matches(r, where)
                                           THEN Changed(r, set) ELSE r))
    /\ Enters(t, Repeats(table'[t]) \/ Doubles(table[t], set, where))
    /\ mangled' = IF Mangles(t, table[t], set, where)
                  THEN mangled \cup {t} ELSE mangled
    /\ aged' = IF db.index[t] # None /\ Ages(table[t], set, where)
               THEN aged \cup {t} ELSE aged

\* The database is closed and opened again.
Reopen ==
    /\ db' = Loaded(db)
    /\ aged' = {}
    /\ UNCHANGED <<table, mangled, repeated, steps>>

Wheres == [on : {"key"}, is : Keys] \cup [on : {"val"}, is : Vals]
          \cup {[on |-> "all", is |-> None]}
Sets == [{"key"} -> Keys] \cup [{"val"} -> Vals] \cup [key : Keys, val : Vals]

Next ==
    \/ \E t \in Tables : CreateTable(t) \/ DropTable(t) \/ CreateIndex(t)
    \/ \E t \in Tables, r \in Rows : Insert(t, r)
    \/ \E t \in Tables, where \in Wheres : Delete(t, where)
    \/ \E t \in Tables, set \in Sets, where \in Wheres : Update(t, set, where)
    \/ Reopen

Spec == Init /\ [][Next]_vars

-----------------------------------------------------------------------------
(* What must hold.                                                         *)

\* The pages have their types; the free offset of a page is where its last
\* record ends, and its count is not beyond its records; only a row that was
\* cut, alone in its page, ends beyond the page.
TypeOK ==
    /\ \A p \in DOMAIN db.pages :
          LET page == db.pages[p]
          IN /\ page.free = Used(page.cells)
             /\ page.free <= PageSize \/ Len(page.cells) = 1
             /\ page.count <= Len(page.cells)
             /\ page.next \in 0 .. Len(db.pages)
    /\ \A t \in Names : db.index[t] # None =>
          \A k \in Keys : \A e \in ToSet(db.index[t][k]) :
             e.page \in DOMAIN db.pages /\ e.row \in Rows /\ e.row.key = k
    /\ table \in [Tables -> Column]
    /\ mangled \cup repeated \cup aged \subseteq Tables
    /\ steps \in 0 .. MaxSteps

Present == {t \in Names : Exists(db, t)}

\* Pages keep their layout, the chains of two tables never meet, and the page
\* that the directory names as the last of a table is in its chain, with at
\* most empty pages behind it: insertMany links pages and updates the
\* directory in separate writes, and dropTable moves an entry.
ChainsApart ==
    /\ TypeOK
    /\ \A t \in Present :
          LET chain == Chain(db, t)
          IN \E n \in DOMAIN chain :
                /\ chain[n] = Entry(db, t).last
                /\ \A m \in n + 1 .. Len(chain) : db.pages[chain[m]] = EmptyPage
    /\ \A t, u \in Present : t # u =>
          ToSet(Chain(db, t)) \cap ToSet(Chain(db, u)) = {}

\* How often a scan finds each row of a table.
Scanned(d, t) ==
    IF ~ Exists(d, t) THEN [r \in Rows |-> 0]
    ELSE FoldLeft(LAMBDA f, r : [f EXCEPT ![r] = @ + 1],
                  [r \in Rows |-> 0], Scan(d, t))

\* A table without an index holds what the statements asked for.
UpdatesAreAtomic ==
    \A t \in Tables : db.index[t] = None => Scanned(db, t) = table[t]

\* While no row was cut and every UPDATE kept the widths of its rows, or
\* widened the only row it matched, a table holds what the statements asked
\* for, unless it had an index on a column with a value that came twice.
ScanIsTable ==
    \A t \in Tables \ (mangled \cup repeated) : Scanned(db, t) = table[t]

Places(ix) == [k \in Keys |-> [i \in DOMAIN ix[k] |-> ix[k][i].page]]

\* The same tables' indexes have the entries one built from their pages would
\* have, each with the page its row is in.  UPDATE looks at the page of this
\* hint only; DELETE looks elsewhere when it finds nothing there.
HintsAreRight ==
    \A t \in Tables \ (mangled \cup repeated) : db.index[t] # None =>
        Places(db.index[t]) = Places(Built(db, t))

\* A SELECT through an index answers what a scan would: as long as no key came
\* twice, and no UPDATE changed another column of a row in its place, which
\* leaves the old row in the entry.
LookupsSeeRows ==
    \A t \in Tables \ (mangled \cup repeated \cup aged) : db.index[t] # None =>
        LET rows == Scan(db, t)
        IN \A k \in Keys : Selected(db, t, [on |-> "key", is |-> k])
                            = Only(rows, {r \in ToSet(rows) : r.key = k})

\* Every index in memory has its record in _indexes, and a record is one of a
\* table that exists: a new table of an old name inherits no index.
IndexesRecorded ==
    /\ {t \in Names : db.index[t] # None} \subseteq Recorded(db)
    /\ Recorded(db) \subseteq Present

\* A statement changes the rows of one table only, whatever pages it links
\* and whatever entries of the directory it moves.
OneTableOnly ==
    [][ \E t \in Tables : \A u \in Tables \ {t} :
            Scanned(db', u) = Scanned(db, u) ]_vars
=============================================================================
