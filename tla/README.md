# SawitDB: models, checks and proofs

TLA+ models of SawitDB (`src/` of this repository, paths below are relative to
`src/src/` unless they name a document), the TLC runs that check them, and TLAPS
proofs about the page cache, the log, transactions, the worker pool, server and
client, the tables in the file, and backups. `PROJECT.json` lists the runs, the code lines each
definition stands for, the hazards and the theorems.

To repeat everything: `tlasany M.tla` parses a module, `tlc -config X.cfg M`
runs one of the configurations named below, and `tlapm M.tla` checks the proofs
of `M`, one of the modules named `...Proofs`.

## 1. The system

SawitDB is a single-file database for Node.js. One thread runs the engine; every
statement is synchronous and runs to its end. Asynchrony comes in at four
places: the log's write stream and timers, the sockets, the `await` around an
engine's answer in the router, and the worker pool.

| Component (source) | State | Operations | Calls | What is hard |
|---|---|---|---|---|
| Pager (`modules/Pager.js`) | LRU cache of page buffers, dirty set, buffer pool, cache of parsed pages, the file | readPage, readPageObjects, writePage, allocPage, flush, close | fs | shared buffers that callers keep, eviction in the middle of a caller, reuse of buffers, crashes between writes |
| WAL (`modules/WAL.js`) | write buffer, offset, LSN, operation count, stream, file | logOperation, checkpoint, timer, fsync, recover, close | fs, write stream | asynchronous writes from a shared buffer, torn tails, restarts |
| B-tree (`modules/BTreeIndex.js`) | tree of keys and values | insert, delete, search, range | - | splits, repeated keys, stale separators |
| TableManager, IndexManager and the INSERT, UPDATE and DELETE executors (`services/`) | directory in page 0, chains of pages, records, indexes in memory and in `_indexes` | CREATE and DROP TABLE, CREATE INDEX, INSERT, UPDATE, DELETE, load on open | Pager, B-tree, SchemaManager, TriggerManager | layout of records, index hints, two copies of everything |
| TransactionManager, TriggerManager (`services/`), routing in `WowoEngine.js` | state, buffered statements, triggers | BEGIN, COMMIT, ROLLBACK, buffered statements, trigger actions | executors | re-entrance: a trigger's statement during a COMMIT |
| ThreadPool (`modules/ThreadPool.js`), `SawitWorker.js` | workers, load counts, pending promises, message queues | execute, message, timeout, exit, shutdown | worker threads | late replies, crashes with work queued, respawns |
| SawitServer, router, registry, authentication, session (`SawitServer.js`, `server/`) | sockets and their limit, open engines, sessions | connection, data, timeout, end, error, stop; every request type | engines | pipelined requests, order of answers, drops under other sessions |
| SawitClient (`SawitClient.js`) | socket, queue of waiting promises, current database | connect, use, query, ping, drop, disconnect | the server | responses have no ids |
| Parser, SELECT, DELETE's conditions, joins, aggregates (`modules/QueryParser.js`, `services/executors/`, `services/logic/`) | none | functions of a text, of rows and a command | Pager, B-tree | how many tokens a condition takes, null and missing values, limits before orders |
| Front of `WowoEngine.js` (`query`) | cache of parsed commands | query | parser, executors | a command that is shared, changed and bound |
| ViewManager, SchemaManager, TriggerManager, ProcedureManager (`services/`) | a Map each, and a system table | create, drop, load on open, execute | TableManager, executors | memory against the table |
| BackupManager (`services/`) | files beside the database | createBackup, restoreBackup | Pager, fs | pages not yet written, an engine that lives on over a replaced file |
| Statistics, audit log, events | counters, text files | - | - | - |
| Cluster and thread managers, command line | processes or threads that open the same files | spawn, restart | server | two engines over one file |

What makes each correct, in a sentence. Pager: it is an array of pages, whatever
is cached. WAL: what was logged can be recovered, once, in order. B-tree: a
search finds the rows of its key. Heap: a table holds what its statements asked
for, and indexes agree with it. Transactions: all of a COMMIT or nothing, none
of a ROLLBACK, in order. Pool: each promise is settled exactly once. Server and
client: each request gets its own answer, nobody unauthenticated gets one, the
limit holds, and both ends agree on the database. Catalog: a restart gives back
what the engine knew, a restore what was backed up. Queries: an answer is what
its text means, whatever was asked before.

## 2. The modules

| Module | Models | Runs |
|---|---|---|
| `PageContent` | what a page holds, as far as the pager's properties tell apart | |
| `PageStore` | abstract: an array of pages, a read returns the last write, a crash may lose what was not persisted | refined by `Pager` |
| `Pager`, `MCPager` | the page cache over its file | `pager`, `pager_hold_long` |
| `PagerProofs` | theorems about `Pager` | |
| `WAL`, `MCWAL` | the log, its stream and its file | `wal` |
| `BTreeIndex` | the tree, node by node | `btree` |
| `HeapLayout` | directory, chains, record layout and indexes of one file, and the statements on them as operators | used by `TableHeap` and `Catalog` |
| `TableHeap`, `MCTableHeap` | the statements on user tables, against what they ask for | `heap`, `heap_update` |
| `Catalog`, `MCCatalog` | views, schemas, triggers and procedures over their system tables; backup, restore, restart | `catalog` |
| `Values` | the values of rows, and how JavaScript compares and converts them | used by the next ones |
| `QueryParser` | from tokens to commands, both languages, and the binding of parameters | used by the next ones |
| `QueryExecutor` | conditions, scans, index lookups, joins, order, projection, aggregates | used by the next ones |
| `Questions` | reference: what a question means, and the text (tokens) it is asked in | used by `Queries` |
| `Queries`, `MCQueries` | `query()` with its cache, views, indexes and executors | `queries`, `where_documented` |
| `TransactionManager`, `MCTransactionManager` | transactions and triggers | `txn` |
| `ThreadPool`, `MCThreadPool` | pool and workers | `pool` |
| `ThreadPoolProofs` | theorems about `ThreadPool` and `MCThreadPool` | |
| `Server`, `MCServer` | server, router, registry, sessions, clients, both directions of each connection | `server` |
| `TransactionManagerProofs`, `WALProofs`, `ServerProofs`, `TableHeapProofs`, `CatalogProofs` | theorems about the modules of that name, and about `MCWAL` and `MCServer` | |
| `TableRowsProofs` | theorems about the rows and indexes of `TableHeap`'s tables, on top of `TableHeapProofs` | |

How state and actions correspond to the code:

- **Pager.** The record `pager` is the Pager object plus the file. `rank` is a
  page's place in the JavaScript Map, so that the eviction loop and a hit's
  delete-and-set are exact. One action is one call by the engine, with the
  evictions it causes. `Hold`, `WriteHeld` and `LetGo` are a caller
  (`createTable`, `insertMany`, `update`) that keeps the buffer `readPage` gave
  it while it uses other pages. `FlushPage` is one write of a flush, so that a
  crash can come between two; `Crash` may also come inside the eviction loop. It
  is the end of the process; what a stop of the machine may lose (Pager never
  calls fsync) is not modelled.
- **WAL.** `Log` is `logOperation` with the flush and the checkpoint it may call;
  `StreamWrite` is the stream carrying out a write, with the bytes the buffer
  holds *then*; `PowerLoss` cuts the last entry in one of the places where the
  parser behaves differently.
- **BTreeIndex.** Nodes are records and the methods recursive operators, binary
  searches included.
- **HeapLayout, TableHeap.** A page is its header and its `cells`, the records by
  offset, with those its count does not reach. A row narrowed in place leaves
  `Gap`s: the zeroes that the next scan reads as records of length 0. A row wider
  than a page is written cut, one whose length two bytes cannot hold throws after
  its page was linked (`TooLong`), and one so long that the free offset behind it
  is beyond two bytes throws after its index entry was made as well (`TooFar`).
  Each statement is an operator on the database and one action of `TableHeap`,
  with the triggers left out; UPDATE sets one column or both, the indexed one
  among them. `Reopen` is close, open and `loadIndexes`. The history variables say
  what the statements asked for.
- **Catalog.** `db` is the database as the engine's pager has it, `file` what the
  file holds, `views`, `schemas`, `triggers`, `procedures` the four Maps. A
  definition is a row of its system table. `unsaved` names the Maps that a
  statement left other than their table (a cut row, a full page 0, a dropped
  table); it is not in the code. `engine` is `"stale"` after a restore, whose
  TableManager keeps the closed pager, and `"dead"` when the file cannot be
  opened. `copies` are the files backups wrote; `taken` and `wanted` remember what
  was backed up and what a restore was asked for.
- **Queries.** A client's text is a *question* (verb, table, alternatives of
  conditions, order, joins, ...). `Questions` gives it twice: as the tokens of its
  text, in the English or the "tani" keywords, and as the rows it means, defined
  by quantifiers. `Parse` and the executors follow the code from the tokens on,
  so that the two meet in the properties; what a single operator means
  (`Satisfies`, `Less`, `Name`, `BindValue`) both have in common, and the properties
  say nothing about it. `cache` is `queryCache` in the order
  of use, `views` the commands of the views, `indexes` the one leaf of each index.
- **TransactionManager.** `todo` is the JavaScript call stack. Trigger actions
  push `query` calls, also of CREATE and DROP TABLE, BEGIN, COMMIT and ROLLBACK; an
  UPDATE pushes an `insertMany` for each row it makes too long for its place, which
  fires the INSERT triggers as an INSERT does. COMMIT's loop is the call at the
  bottom. `meddled` remembers that a trigger's BEGIN, COMMIT or ROLLBACK has taken
  effect; it is not in the code.
- **ThreadPool.** A thread has an inbox and an outbox; `Serve` is its message loop
  or the delivery of its reply or exit event.
- **Server.** `Data` is the handler of one chunk, with one or more requests, and
  the order in which their answers are written: a query's answer comes after its
  `await`, the others at once, and so does the error that `query()` throws at one
  whose parameters cannot be bound (`"unbound"`). `Call` and `HandleResponse` are the client.

## 3. The runs

Passing runs:

- `pager`: buffers are apart, parsed pages are fresh, clean pages are on disk,
  held buffers are current, and the pager implements `PageStore`, with crashes
  of the process at any point. Four pages over a cache of three and a pool of one
  make every branch of eviction and reuse happen; a caller keeps its buffer over
  two other pages, or over one `allocPage` (which uses two: page 0 and the new
  one), as `insertMany` does when the last page is full. One payload suffices
  because bytes also carry the page they were laid out for.
- `wal`: over restarts, power losses and every sync mode, an LSN that can be
  recovered names one operation. While the event loop turns between operations
  (`calm`), each is in the log once and in normal mode becomes durable. A buffer
  of two entries, four operations and two restarts fill the buffer, pass a
  checkpoint and append behind a torn tail twice.
- `txn`: isolation (with rolled back for good), order, one answer of each trigger
  for each row, and every call returns. The triggers chain: BEFORE and AFTER, two
  levels deep, over two tables, one of which a trigger drops; a third table's
  triggers commit, roll back and begin transactions. An UPDATE inserts one row
  again or none, and a COMMIT within a COMMIT within a COMMIT finds no stack left.
  The first three properties say nothing of what comes after a trigger's BEGIN,
  COMMIT or ROLLBACK has taken effect, for a COMMIT within a COMMIT executes the
  buffer twice. That every call returns is said of triggers none of which inserts
  into its own table, at once or through others' (`Acyclic`), as those of the run:
  with one that does, the loop of a COMMIT never ends (section 6).
- `pool`: promises are settled once, requests are answered without their timers,
  and until one times out the next goes to a least busy worker. Two workers, four
  requests and two crashes let a respawned worker take a queue of its own and
  crash again.
- `btree`: shape and order, locality of steps, and lookups (search and range)
  where no key came twice. Order 2 and eight steps split the root twice and pass
  a split by deletes.
- `server`: two clients, a limit of one or two, authentication on or off, chunks
  of one request or more, every request type.
- `heap`: layout, chains, directory, hints, lookups and `_indexes` under any four
  statements on two tables. Pages have room for one or two rows, so that chains
  grow at once. Rows come in five widths: two values of width 1, one of width 2
  that table `b` refuses, one wider than a page (`cut`), one so wide that the free
  offset behind it does not fit its two bytes (`late`), and one whose length does
  not (`huge`). SETs give a value to the key, to the other column, or to both.
- `catalog`: four statements among definitions of two names in every system
  table, DROPs of any table, backups under two paths with one stem, one without a dot
  and one with the stem of the database, restores; and any number of flushes and restarts between them.
  `MaxTables` is 5, so that page 0 is full after one more table; definitions
  include one that is cut, one that throws and one that grows or narrows.
- `queries`: three texts out of some fifty, each with or without its parameter,
  against two contents of the tables: conditions of every operator and compounds
  of them, orders, limits, DISTINCT, all five kinds of joins, groups with HAVING,
  two views, an index, inserts and deletes. Three are enough to create a view or
  index, change the table, and ask; a cache of two evicts.

Runs that refute what a document or comment says; each finds a real behaviour of
the code:

- `pager_hold_long`: `update()` keeps a page's buffer across a DELETE and an
  INSERT over the whole table. When these use as many pages as the cache holds,
  the buffer is recycled, and is then written back under the old page.
- `heap_update`: an UPDATE is not atomic (`README.md:280`). One that widens a
  row deletes all rows it matches and inserts one; one that narrows a row hides
  the last rows of the page.
- `where_documented`: `WHERE a BETWEEN 1 AND 2 AND b IS NOT NULL`, the conditions
  `README.md:171` and `:176` document, answers rows whose `b` is null: the branch
  of BETWEEN falls into that of the plain operators (`QueryParser.js:514`), which
  skips the condition behind it.

**Properties with a condition.** Where the code breaks a promise in a known case,
the property leaves out exactly that case and says so: `mangled`, `repeated` and
`aged` in `TableHeap`, `unsaved` in `Catalog`, `calm` in `MCWAL`, `late` in
`MCThreadPool`, `serial` in `MCServer`, `WellRead`, `CutShort` and `Indexed` in
`Queries`. The cases are those of the refuting runs and of section 6. `repeated`
has the tables whose index may have got an entry too many: two rows of one key; an
UPDATE that widens a row and changes its key (`Doubles`), which moves the entry and
then enters the row again; a row that was too far, whose entry leads to no row.
Only dropping the table takes it out again.

**Bounds.** `MaxPages`, `MaxOps`, `MaxSteps`, `MaxRequests`, `MaxCrashes`,
`MaxRestarts` and `HoldSpan` cap what the code does not. They stand in guards,
so a run ends where its bound is reached; that is why most configurations say
`CHECK_DEADLOCK FALSE`. `heap` keeps deadlock checking because `Reopen` is
always possible.

`pager` has three pages, two places in the cache and one in the pool: a miss with
both places taken evicts, the buffer goes to the pool and the next miss takes it.
`HoldSpan = 1` lets a caller that holds a buffer read another page, which may evict
a third, or allocate one (`InsertExecutor.js:71`), which uses page 0 and the new
page; the second enters without evicting, and the caller then uses no more. With
four pages the run is too long to finish: an allocation that evicts while a buffer
is held is left to the proof.

**Symmetry.** Buffers in `pager`, clients in `server`: nothing tells them apart.
Neither run checks liveness.

**Fairness.** WAL: the timer fires, the stream opens and writes, an fsync ends;
nothing forces a new operation or a restart. Transactions: a call that has begun
goes on, for JavaScript runs it to its end. Pool: a thread works off its queue
and its events are delivered; no timer has to go off, no request has to be made.

## 4. The proofs

`PagerProofs` proves, for any number of pages, buffers and payloads, any
`CacheLimit >= 1` and any `MaxPoolSize`, under the assumption
`HoldSpan < CacheLimit`:

- `TypeCorrect`, `BuffersAreApart`, `ObjectsAreFresh`, `CleanPagesAreOnDisk`,
  `HeldBuffersAreCurrent`: `Spec => []P` for the five invariants `pager` checks;
- `PagerImplementsPageStore`: `Spec => Abstract!Spec`, the refinement that run
  checks.

The assumption says that a caller which holds a buffer reads fewer other pages
meanwhile than the cache has places. It holds for `createTable` and `insertMany` with the code's
limit of 15000 pages (`Pager.js:15`), not for `update` on a larger table;
`pager_hold_long` shows that it is needed.

*The inductive invariant* is `IInv`: `Good(pager)`, `HoldOK`, and the range of
`pc`. The five properties are not inductive by themselves. `Good` adds that the
header counts itself and every cached page, in memory and in the file: so the
page `allocPage` hands out is one no buffer serves yet. It also adds that no
dirty page is all zeroes, so that a page whose bytes are in the file can be told
from one the file was extended over. `HoldOK` adds that the rank of a held page is
at most the number of pages used since, and that nothing is held outside
`"ready"`: with `HoldSpan < CacheLimit` a held page then is never a victim.

*The argument.* Each method is an operator on the Pager's fields, so `Good` is
shown to be kept by `Touched`, `ReadMiss`, `WritePage`, `Flushed` and the others
once; the proof of a step is then a composition of those lemmas, one case for
each action. Refinement follows the same plan: a lemma for each operator on what
it does to `View` (what the next read returns) and `InFile`, and one for each
action.

`TransactionManagerProofs` proves `IsolatedAlways`, `InOrderAlways` and
`TriggersAnswerAlways`, `Spec => []P` for the three invariants `txn` checks, for
any set of tables, any list of triggers and any number of statements. The triggers
may form chains and cycles, and their actions be INSERT, UPDATE, DELETE, CREATE and
DROP TABLE, BEGIN, COMMIT and ROLLBACK: `TriggerAssumption` is the type of that
list, `MaxLongerAssumption` says that `MaxLonger` is a number, and no more is
assumed. The three hold until a BEGIN, COMMIT or ROLLBACK of a trigger takes effect,
for `Inv` is `~ meddled => IInv`.

*The inductive invariant* `IInv` says where each statement there has been is. A
*place* is an entry of the log, the call that executes a statement, an entry of
the buffer that COMMIT's loop has not reached, or a call that has no executor yet
(of `query` or `insertMany`). `Apart`:
a statement is at one place, and none that was rolled back is at any. `Sorted`:
clients' statements are at places in the order in which they were sent. `Caused`:
statements of triggers name the INSERT that caused them, one for each trigger, and
each INSERT stored, tried or failed in its executor has them all.
`Nested`: the call of a COMMIT is the oldest one, an executor's the youngest, and
the statement executed is the one before the loop's place in the buffer. The
invariants are about the log alone, and a step can take a statement to the log
from the buffer, the stack, or past both; that is why the places are needed.

*The argument.* Most steps replace the youngest call by some others
(`Replaced`): what that does to places and statements is shown once. `FiredFacts`
and `RisingExists` say which triggers fire, from the enumeration of the matching
ones in the order they were created.

`WALProofs` proves `LsnNamesOneOpAlways` and `CalmIsCompleteAlways`, the
invariants `wal` checks, for any size of the buffer, any checkpoint interval, any
set of sync modes and any number of operations and restarts.

*The inductive invariants.* `Sound` is about the file and the *live* part of the
buffer: the places filled and those of slices the stream has still to write. An
LSN there names one operation and is below the counter; live places hold whole
entries. It is an invariant although the stream may write other entries than it
was given, because those are live as well. A torn entry hides what is behind it,
so the live part counts only while the file is whole. `CalmInv` adds, while the
event loop turns between operations, that the last `m` of them are in the first
`m` places of the buffer and the others once in the file (`Kept`).

`ThreadPoolProofs` proves, for any number of workers, requests and crashes,
`PromisesAreSettledOnce`: `Spec => []SettledOnce`, and
`RequestsGoToTheLeastBusy`: `LateSpec => LeastBusy`, the action property, both of
which `pool` checks. Nothing is assumed beyond the constants' types.

*The inductive invariants.* `Inv` is `Typed`, `ThreadsApart`, `IdsApart` and
`Accounted`. The bound of `activeTasks` in `TypeOK` is not inductive: an `Execute`
could exceed it. `Typed` says instead that no count exceeds the requests made so
far, and types the message queues. `ThreadsApart` keeps the threads of two indexes
apart, so that an exit cleans up after its own thread; `IdsApart` says that ids
are keys of `pendingRequests`. `LoadInv` adds that a request is in the queues of
one thread only, which has the index its promise waits for (`Queued`), and that,
as long as no timer went off, `activeTasks` of a running worker is the length of
its thread's queues (`CountedAt`).

*The argument.* `SettleAccounts` treats a reply, a timer and `_cleanupTasks` at
once: what leaves `pendingRequests` while it is settled leaves `Accounted` true.
`BestWorkerFacts` shows that `_getBestWorker` finds a worker: a set of loads has
a least element, which follows from the well-foundedness of the naturals, stated
for sets. Then there is one lemma for each action.

`ServerProofs` proves `TypeAlways`, `AuthFirstAlways` and `NothingLostAlways`
about `Spec`, `OwnResponsesAlways` and `ViewsAgreeAlways` about `UseSpec`: the five
invariants `server` checks, for any number of clients, databases and requests,
any limit and chunks of any size.

*The inductive invariant* speaks of each connection by itself: types; a session
that has not authenticated is in no database and was sent nothing but errors; the
requests a client waits for are those on the way there followed, but for the
order, by the responses on the way back (`Balanced`). For a client that sends
nothing but further queries while a query waits, and none whose parameters cannot
be bound, the order is the same (`Ordered`), and its view of the current database
is the session's once the responses on the way are taken into account (`Views`).

*The argument.* A chunk is handled by `FoldLeft`. `FoldFacts` turns it into a
sequence of states, one for each request, from the definition of the fold;
`HandleFacts` says what one request does, `Replied` what a prefix of the chunk did,
by induction up to a number.

`TableHeapProofs` proves `ChainsApartAlways`, `OneTableOnlyAlways` and
`IndexesRecordedAlways`, and `TableRowsProofs` proves `ScanIsTableAlways`,
`HintsAreRightAlways` and `LookupsSeeRowsAlways`: with `UpdatesAreAtomic`, which
the code violates, these are all the properties of `TableHeap`. The theorems
`PlantedApartAlways`, `PlantedRecordedAlways` and `PlantedRightAlways` say the same
of every start with some tables created (`InitWith`), the start of the runs. They
hold for any tables, keys, values and widths, any schemas, any page size and any
number of statements; the assumptions say only that names differ, that rows take
room, that there are finitely many values, that a page's offsets fit the header
and no offset the header can hold is beyond the lengths two bytes can (`FieldsReach`),
and that a record of `_indexes`, which is a few names, fits in a page (`RecordFits`:
a longer one would vanish as rows do, and its index would have no record). A row
may be wider than a page, or too long for its length field or for the header.

*The inductive invariant* is `IInv`: there is a *spine* for each table, a list of
pages with which the database is `Good`, and `_indexes` exists. The directory has
the first and the last page of a spine, each page is linked to the next, no page
is in two spines, nothing is linked to the first, and behind the last is nothing
or one empty page; no page is linked from two others, and links go up. The spine
is needed because a chain may go on after the directory's last page: a row that is
too long throws after `allocPage` has linked a page (`InsertExecutor.js:66-85`).
No row ever comes into that page: the next one that the last page has no room for
gets a page of its own, and the link leads there. Page headers tell what the cells
are. The entries of an index lead to pages of its table's spine, or, for rows that
were too far, to empty pages in nobody's spine (`Reach`).

*The argument.* `Grows` says that a statement leaves pages of other spines, their
indexes and entries of the directory alone, and takes new pages only behind its
own: it holds of one statement after another (`GrowsMore`), so of a loop. There is
a lemma for each part of INSERT, DELETE and UPDATE, and folds are unfolded by
`FoldIsThere` and `FoldStays`. `Visited`, one turn of update's
loop, may delete and insert within the scan; `Walking` says that the turns to come
still find a cell at their place. What a scan finds in a table depends on the pages
of its spine only (`KeptScan`), so a statement that keeps them changes no row of it.

*Rows are counted.* `ILedger` adds to `IInv` that the pages of `_indexes` are
`Tidy`, without gaps or records that cannot be read, that every index has a record
there, and that every record there is of a table that exists. `IRight` adds that each table that is neither mangled nor
repeated is `Faithful`: its pages are tidy, a scan finds each row as often as the
statements asked for (`Tally`), and the index, if it has one, has under each key
no entry where a scan finds no row, and otherwise one, that leads to the page of
the one row (`RightAt`). A scan is a concatenation over pages and a count of it is a sum, so
what a statement does is said of `Hits(s, S)`, how often elements of the set `S`
are in the sequence `s`, for every `S`: `StorePuts` adds one, `DeletedCuts` takes
those of the condition out, `WroteSwaps` puts a row in the place of another.
`TotalHits` turns that into what `table` says. An INSERT that throws changes
nothing a scan finds (`Alike`), and no index unless the row was too far.

UPDATE is the hard one, because its loop goes through pages that its own DELETE and
INSERT change. `Partway` describes the table in the middle of the loop in terms of
the table at the start: a row that is already as it is to be, or that is not asked
for, is counted as what it will be (`Before`). It holds after every turn
(`TurnKeeps`), whichever of the three ways the turn takes: nothing to do, a row
that keeps its width, or the only row matched grows and is deleted and inserted.
That a turn of the last kind keeps the hints, and that none is lost, is where
`Modest` is needed, the condition under which the model counts a table neither as
mangled nor as repeated (`ModestIsOrderly`): a row of an indexed table that grows
keeps its key. That the loop reaches every row is `VisitsCover`, which
needs of the index that it leads to all rows of a key; that a search finds an
entry, `BisectFinds`, is the correctness of binary search over one leaf. The folds
of scans and of index building are unfolded by `FoldIsSteps` into the path of
their partial results.

`CatalogProofs` proves `BackupIsWholeAlways`: `Spec => []BackupIsWhole`, one of
the invariants `catalog` checks, for any names, paths and definitions and any stems of the
paths: `x.bak` and `x.old` share their files, so that a backup of one writes over
the other's, which the property says. *The inductive invariant* `BackupInv` adds that an engine whose file was
replaced is `"stale"` until the next start, so that nothing is written over what
was restored. What statements do to the database is left open: all the proof
uses of them is that they leave the file and its copies alone.

*What stays with TLC.*

- Liveness under fairness (`wal`, `pool`, `txn`).
- Everything about the B-tree: its module has RECURSIVE operators.
- `Queries`: the answers are what parser, executors, joins and sorts compute over
  tokens and rows, which is induction over data; and the module walks sequences
  with `SelectInSeq` and sorts with `SortSeq`, which the prover does not expand.
- `Catalog`'s `TypeOK` and `RestartKeeps`: they compare what is in memory with what
  scans of the system tables would load. The lemmas on scans and records that
  this needs are about the operators of `HeapLayout`, but are stated for the names
  and rows of `TableHeap`.

## 5. What is left out

Not modelled, because they are text output, configuration or entry points:
statistics, audit log and event callbacks (`writeCDC` among them), cluster and
thread managers, command line and examples, `EXPLAIN`, and everything that only
lists (`SHOW ...`, `listViews`, `listBackups`, ...).

Partly modelled:

- *Parser.* The tokenizer is one regular expression, so a text is a sequence of
  tokens. The parsers of UPDATE, CREATE and DROP TABLE, SHOW, transactions,
  schemas, triggers, procedures and backups are not there: the other modules
  begin with their commands.
- *Executors.* LIKE has no wildcards; AVG, fractions and TRUE and FALSE are left
  out; no column mixes numbers and texts, whose comparisons the language leaves
  to conversions. `Queries` has one page for a table: how rows lie in pages is
  `TableHeap`'s.
- *ProcedureManager*: `executeProcedure` calls `query()` for the parts of a text;
  `dropProcedure` and SchemaManager's `dropSchema` are reached by no statement.
  `validateData`'s coercions and defaults are left out; that it refuses a row is
  in `HeapLayout`.
- *BackupManager*: the copies of the log, which nothing reads, and the contents of
  the metadata.

Simplifications inside the models: `HeapLayout` has an even number of bytes in
each row, two columns, one index for a table, indexes of at most 32 entries (one
leaf; larger ones are `BTreeIndex`'s), and WHERE with one equality or none. The
page in which a row that was too far has left its length and a count of one
counts as empty: no scan can parse that record, and no row follows it. It takes a page
read to be the last write, which is what `Pager` shows under its assumption. In
`Catalog` the file between statements is the database as it was at some earlier
one; that an eviction writes single pages is `Pager`'s. In `Server` an engine
always opens, each client connects once, and requests are valid JSON.
`TransactionManager` has no pages and `TableHeap` no triggers. In the former an
executor fails only where its table is missing, not at a row its schema refuses;
triggers are there from the start (creating and dropping them is `Catalog`'s), and
their actions are no procedures and no restores.

## 6. Other behaviour met while modelling

Seen in the code and not the subject of a run:

- WAL: several operations in one turn of the event loop overwrite entries the
  stream has not written, which are then missing and others twice
  (`modules/WAL.js:158`); full mode returns before its entry is in the file
  (`:130` against the stream at `:115`); behind a torn entry, later synced entries
  cannot be read (`:297`); a cut in the first 16 bytes makes `_readLastLSN` throw
  (`:74`).
- Pager: the cache grows beyond its limit on `allocPage` and `writePage`
  (`modules/Pager.js:193`); a crash can leave the header counting a page the file
  does not have, and reading it returns a recycled buffer's bytes (`:152`); a hit
  in the cache of parsed pages does not refresh the page's place in the LRU order
  (`:66`).
- B-tree: a deleted key that is inserted again may not be found
  (`modules/BTreeIndex.js:187`); search returns one of the values of a repeated key
  (`:184`), a range contains `undefined` for keys of inner nodes (`:234`).
- Heap: rows wider than a page vanish though INSERT reports success
  (`InsertExecutor.js:75`); one of more than 65535 bytes throws after a page was
  linked (`:85`), and one of 65526 to 65535 after it was indexed as well (`:115`),
  so that a SELECT by its key answers it; an UPDATE that widens an indexed row and
  changes its key enters it twice (`UpdateExecutor.js:78`, `:125`), and what a later
  DELETE leaves of the two answers a SELECT by that key; UPDATE and DELETE by an
  indexed column reach only the rows in one page;
  the error of an INSERT after the DELETE of an UPDATE is swallowed and the row is
  gone (`UpdateExecutor.js:132`); `insertMany` uses a last page it read before its
  BEFORE triggers ran (`InsertExecutor.js:52`).
- Indexes: `loadIndexes` returns before it loads any (`IndexManager.js:144`), so
  that CREATE INDEX after a restart records a second entry; SELECT by an indexed
  column returns one row, as it was when its key was last changed
  (`IndexManager.js:94`, `SelectExecutor.js:89`), and a HITUNG with that condition
  counts 1.
- Transactions: a COMMIT that fails leaves what it executed
  (`TransactionManager.js:67`, against `CHANGELOG.md:161`); one transaction is
  shared by every session of a database (`:90`); a BEFORE trigger's statement runs
  after the row in a COMMIT (`WowoEngine.js:190`); triggers on UPDATE and DELETE
  never fire, although `CHANGELOG.md:186` lists them, while an UPDATE that makes a
  row too long for its place fires those on INSERT (`UpdateExecutor.js:125`). A
  trigger that inserts into its own table makes a COMMIT run over a buffer that
  grows for ever (`TransactionManager.js:41`); outside a transaction its calls nest
  until the stack is full. A trigger whose action is COMMIT, fired in a COMMIT,
  executes the buffered statements a second time (`TriggerManager.js:139`).
- Catalog: `createView` and `defineSchema` change memory before their row, which a
  full page 0 or a dropped system table makes fail (`ViewManager.js:27`); a schema
  defined anew and narrower hides the rows behind it at the next start
  (`SchemaManager.js:59`); a trigger whose row was cut works and cannot be dropped;
  every system table but `_indexes` can be dropped, and a file with a full page 0
  that lacks one cannot be opened. Parameters of procedures are never bound, and
  the tokenizer drops the semicolons their bodies are split at.
- Backup: `restoreBackup` always rejects and leaves the engine unusable until the
  process starts again (`BackupManager.js:95`); paths that differ only behind
  their last dot share their copy and its metadata (`:47`, `:58`), so that a backup
  to `x.old` writes over the one to `x.bak`, and one of `x.sawit` to `x.bak` copies
  the database onto itself; `./x` writes `.sawit`; for a path without a dot the
  metadata overwrites the copy; the log is copied from a name it does not have.
- Parser: behind IS [NOT] NULL a second condition is pushed where a connective
  should be, so that a SELECT throws at the rows that pass, while a DELETE's
  exception spares just those that do not (`QueryParser.js:514`); `a = NULL` and
  `a = TRUE` compare with texts; KELOMPOK BERDASARKAN x groups by BERDASARKAN;
  LANGKAHI behind WHERE and a parameter as LIMIT are ignored; a parameter in a
  text with IS NULL throws out of `query()`; a quoted '@p' is bound too.
- SELECT: LIMIT with OFFSET and without an order answers too few rows, for the
  scan stops at the limit (`SelectExecutor.js:91`); LIMIT 0 is no limit; null
  counts as 0 in comparisons, MIN and MAX; a LEFT JOIN's null row overwrites
  columns of the same name without a prefix (`JoinProcessor.js:164`); DISTINCT
  compares texts in the order of columns; a group named like a member of
  Object.prototype throws.
- Views: outer columns, order and limit are ignored (`ViewManager.js:64`); a view
  of a view, of a join, and a HITUNG on a view fail.
- Pool: after a timeout a worker counts as busy for ever (`ThreadPool.js:122`);
  `shutdown()` lets the exit handler spawn workers again (`:37`, `:140`).
- Server: a socket destroyed by its timer or by too long a request keeps its
  place among `this.clients`, and after `maxConnections` of them nobody is
  admitted (`SawitServer.js:145`, `:183`); `'end'` after `'error'` counts a
  connection down twice; a query by a session whose database another session
  dropped creates it anew.
- Client: a ping pipelined behind a query gets the query's place in the queue
  (`SawitClient.js:271`, `RequestRouter.js:208`), and so does the error of a query
  whose parameters cannot be bound, which is thrown in front of the `await`
  (`WowoEngine.js:172`): IS NULL is enough (`QueryParser.js:780`), for a client sends
  parameters with every query (`SawitClient.js:128`); `connect()` never settles when
  the server refuses (`SawitClient.js:60`); promises still waiting when the
  connection ends are never rejected.

## 7. Plan

1. Done: Pager with its abstract store and proofs; WAL; transactions; pool;
   B-tree; server and client; table heap with rows of every width; catalog,
   backup and restore; parser, queries, views, joins and aggregates against what
   questions mean.
2. Proved: `Pager` and its refinement, `TransactionManager`, `WAL`, `ThreadPool`,
   `Server`, `TableHeap`, backups. Next: `RestartKeeps`, with the lemmas on scans
   stated for `HeapLayout` and any rows.
3. `TableHeap` composed with triggers: the statement of a BEFORE trigger between
   the reading of the last page and its use (`InsertExecutor.js:52`).
4. Two engines over one file, as `SawitWorker.js:8` opens them.
