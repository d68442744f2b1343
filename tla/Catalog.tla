------------------------------- MODULE Catalog -------------------------------
(***************************************************************************)
(* What an engine knows besides the rows of its tables: views, schemas,    *)
(* triggers and procedures.  ViewManager, SchemaManager, TriggerManager    *)
(* and ProcedureManager each keep them in a map in memory and in a system  *)
(* table (module HeapLayout), and load the map from the table when the     *)
(* file is opened.  BackupManager copies the file away and back.           *)
(*                                                                         *)
(*   db       the database as the pager of the engine has it               *)
(*   file     what the file holds of it, or Junk                           *)
(*   views, schemas, triggers, procedures   the maps in memory             *)
(*   unsaved  the maps that a statement left other than their table        *)
(*   engine   open; stale, when its TableManager has the pager that a      *)
(*            restore has closed, so that every statement throws at its    *)
(*            first page; or dead, when a new process cannot open the file *)
(*   copies   the files that backups have written                          *)
(*   taken    path -> the database when it was last backed up there, None  *)
(*            once a backup of another path wrote to the same file         *)
(*   wanted   the database that the last restore was asked for, until the   *)
(*            next start                                                   *)
(*                                                                         *)
(* Names are keys of rows.  A definition is the val of its row, the table  *)
(* of a trigger a third column.  In between statements the file is the     *)
(* database as it was at some earlier statement: that an eviction writes   *)
(* pages one by one is left to module Pager.                               *)
(***************************************************************************)
EXTENDS HeapLayout

CONSTANTS Views, Schemas, Triggers, Procedures, \* the system tables
          Definitions, \* system table -> texts of what it defines
          Junk,        \* a file or a copy that is no database
          Paths,       \* where backups go
          Stem,        \* path -> what its last dot follows, None without one
          Here,        \* the stem of the database's own file
          MaxTables,   \* entries the directory has room for
          MaxPages,    \* bound on the growth of the file
          MaxSteps     \* bound on the statements

SystemTables == {Views, Schemas, Triggers, Procedures}

ASSUME TablesApart == /\ Cardinality(SystemTables \cup {System, None, Junk}) = 7
                      /\ SystemTables \cap Keys = {}
ASSUME RoomForSystem == MaxTables >= 4

VARIABLES db, file, views, schemas, triggers, procedures, unsaved, engine,
          copies, taken, wanted, steps
maps == <<views, schemas, triggers, procedures>>
backups == <<copies, taken, wanted>>
vars == <<db, file, maps, unsaved, engine, backups, steps>>

-----------------------------------------------------------------------------
(* Tables and maps.                                                        *)

\* createTable throws when page 0 is full.
Full(d) == Len(d.dir) >= MaxTables

Opened(d, t) == IF Exists(d, t) THEN d ELSE Created(d, t)

\* Mutated form of Prepared: the table of the procedures is left to others.
PreparedLess(d) == FoldLeft(Opened, Loaded(d), <<Schemas, Triggers>>)

\* The init of SchemaManager, TriggerManager and ProcedureManager.
Prepared(d) == FoldLeft(Opened, Loaded(d), <<Schemas, Triggers, Procedures>>)

Disk(d) == [dir |-> d.dir, pages |-> d.pages]

Mounted(f) ==
    Prepared([dir |-> f.dir, pages |-> f.pages,
              index |-> [t \in Keys \cup SystemTables \cup {System} |-> None]])

Rows(d, t) == IF Exists(d, t) THEN Scan(d, t) ELSE <<>>
Named(d, t, n) == Selected(d, t, [on |-> "key", is |-> n])

\* loadViews, _loadSchemas, _loadProcedures: the last row of a name counts.
LoadedMap(d, t) ==
    FoldLeft(LAMBDA f, r : [f EXCEPT ![r.key] = r.val], [n \in Keys |-> None],
             Rows(d, t))

\* _loadTriggers
LoadedTriggers(d) ==
    FoldLeft(LAMBDA f, r : [f EXCEPT ![r.on] = Append(@, [name |-> r.key, action |-> r.val])],
             [t \in Keys |-> <<>>], Rows(d, Triggers))

\* A scan of table t comes across all the rows stored in it.
Whole(d, t) ==
    Exists(d, t) => \A p \in ToSet(Chain(d, t)) :
        /\ d.pages[p].count = Len(d.pages[p].cells)
        /\ \A r \in ToSet(d.pages[p].cells) : Readable(r)

\* A statement gets at the rows of table t.
Reached(t) == engine = "open" /\ Exists(db, t)

Counted == steps < MaxSteps /\ steps' = steps + 1

\* A statement that ends with the database d; the maps in bad went astray.
Leaves(d, bad) ==
    /\ Counted
    /\ engine # "dead"
    /\ db' = d
    /\ Len(d.pages) <= MaxPages
    /\ unsaved' = unsaved \cup bad
    /\ UNCHANGED <<file, engine, backups>>

-----------------------------------------------------------------------------
(* Views.                                                                  *)

\* createView: memory first, then the table, which is created when missing.
CreateView(n, q) ==
    LET row == [key |-> n, val |-> q]
        room == engine = "open" /\ (Exists(db, Views) \/ ~ Full(db))
    IN /\ views[n] = None
       /\ views' = [views EXCEPT ![n] = q]
       /\ Leaves(IF room THEN Inserted(Opened(db, Views), Views, row) ELSE db,
                 IF room /\ Readable(row) THEN {} ELSE {Views})
       /\ UNCHANGED <<schemas, triggers, procedures>>

\* dropView
DropView(n) ==
    /\ views[n] # None
    /\ views' = [views EXCEPT ![n] = None]
    /\ Leaves(IF Reached(Views) THEN Deleted(db, Views, [on |-> "key", is |-> n]) ELSE db,
              IF Reached(Views) THEN {} ELSE {Views})
    /\ UNCHANGED <<schemas, triggers, procedures>>

-----------------------------------------------------------------------------
(* Schemas.                                                                *)

\* The schema of a table, updated or inserted.
Saved(d, t, s) ==
    IF Named(d, Schemas, t) # <<>>
    THEN Updated(d, Schemas, "val" :> s, [on |-> "key", is |-> t])
    ELSE Inserted(d, Schemas, [key |-> t, val |-> s])

\* A narrower definition hides the schemas behind it.
Narrows(d, t, s) ==
    \E r \in ToSet(Named(d, Schemas, t)) : Need([key |-> t, val |-> s]) < Need(r)

\* defineSchema: memory first.
DefineSchema(t, s) ==
    LET row == [key |-> t, val |-> s]
    IN /\ schemas' = [schemas EXCEPT ![t] = s]
       /\ Leaves(IF Reached(Schemas) THEN Saved(db, t, s) ELSE db,
                 IF Reached(Schemas) /\ Readable(row) /\ ~ Narrows(db, t, s)
                 THEN {} ELSE {Schemas})
       /\ UNCHANGED <<views, triggers, procedures>>

-----------------------------------------------------------------------------
(* Triggers and procedures.                                                *)

\* createTrigger: the table first; a row that throws leaves no trigger.
CreateTrigger(n, t, a) ==
    LET row == [key |-> n, val |-> a, on |-> t]
    IN /\ Reached(Triggers) /\ Named(db, Triggers, n) = <<>>
       /\ triggers' = IF TooLong(row) THEN triggers
                      ELSE [triggers EXCEPT ![t] = Append(@, [name |-> n, action |-> a])]
       /\ Leaves(Inserted(db, Triggers, row),
                 IF Readable(row) \/ TooLong(row) THEN {} ELSE {Triggers})
       /\ UNCHANGED <<views, schemas, procedures>>

\* Mutated form of Without: the last trigger of the table goes.
WithoutLast(s, n) == IF s = <<>> THEN s ELSE Front(s)

\* The first trigger of a name is taken out.
Without(s, n) == LET at == SelectInSeq(s, LAMBDA x : x.name = n)
                 IN IF at = 0 THEN s ELSE RemoveAt(s, at)

\* dropTrigger
DropTrigger(n) ==
    /\ Reached(Triggers) /\ Named(db, Triggers, n) # <<>>
    /\ triggers' = [triggers EXCEPT ![Head(Named(db, Triggers, n)).on] = Without(@, n)]
    /\ Leaves(Deleted(db, Triggers, [on |-> "key", is |-> n]), {})
    /\ UNCHANGED <<views, schemas, procedures>>

\* createProcedure
CreateProcedure(n, b) ==
    LET row == [key |-> n, val |-> b]
    IN /\ Reached(Procedures) /\ Named(db, Procedures, n) = <<>>
       /\ procedures' = IF TooLong(row) THEN procedures ELSE [procedures EXCEPT ![n] = b]
       /\ Leaves(Inserted(db, Procedures, row),
                 IF Readable(row) \/ TooLong(row) THEN {} ELSE {Procedures})
       /\ UNCHANGED <<views, schemas, triggers>>

-----------------------------------------------------------------------------
(* Tables.  A table's schema and triggers stay when it is dropped, and     *)
(* every system table but _indexes can be dropped like a user's.           *)

CreateTable(t) ==
    /\ engine = "open" /\ ~ Exists(db, t) /\ ~ Full(db)
    /\ Leaves(Created(db, t), {})
    /\ UNCHANGED maps

DropTable(t) ==
    /\ Reached(t)
    /\ Leaves(Dropped(db, t), {t} \cap SystemTables)
    /\ UNCHANGED maps

-----------------------------------------------------------------------------
(* The file.                                                               *)

\* The pages go to the file.
Flush ==
    /\ engine = "open"
    /\ file' = Disk(db)
    /\ UNCHANGED <<db, maps, unsaved, engine, backups, steps>>

\* The constructor of an engine on the file f.
Boot(f) ==
    IF f = Junk \/ Len(f.dir) + Cardinality({t \in SystemTables \ {Views} :
                       \A e \in ToSet(f.dir) : e.name # t}) > MaxTables
    THEN /\ engine' = "dead"
         /\ UNCHANGED <<db, maps, unsaved>>
    ELSE /\ engine' = "open"
         /\ db' = Mounted(f)
         /\ views' = LoadedMap(db', Views)
         /\ schemas' = LoadedMap(db', Schemas)
         /\ triggers' = LoadedTriggers(db')
         /\ procedures' = LoadedMap(db', Procedures)
         /\ unsaved' = {t \in SystemTables : ~ Whole(db', t)}

\* The engine is closed and the file opened by a new one.
Restart ==
    /\ engine # "dead"
    /\ file' = IF engine = "open" THEN Disk(db) ELSE file
    /\ Boot(file')
    /\ wanted' = None
    /\ UNCHANGED <<copies, taken, steps>>

\* replace() puts an extension in the place of the path's last dot and what
\* follows it, and leaves a path without a dot as it is.
Renamed(p, extension) ==
    IF Stem[p] = None THEN <<p, "">> ELSE <<Stem[p], extension>>

\* The files of a backup.  Paths that differ after the last dot only have the
\* same ones, and the copy may be the database's file itself.
MetaName(p) == Renamed(p, ".meta.json")
DataName(p) == Renamed(p, ".sawit")
Onto(p) == Stem[p] = Here
Written(p) == {MetaName(p)} \cup IF Onto(p) THEN {} ELSE {DataName(p)}

\* Paths whose copy is a file of its own.
Kept == {p \in Paths : Stem[p] \notin {None, Here}}

\* Mutated form of Flushed: the copy is taken of the file as it is.
FlushedNot(d) == file

\* The dirty pages are written before a file is copied.
Flushed(d) == IF engine = "open" THEN Disk(d) ELSE file

\* createBackup; a file copied onto itself stays what it is.
Backup(p) ==
    /\ Counted
    /\ engine # "dead"
    /\ file' = Flushed(db)
    /\ copies' = [n \in DOMAIN copies \cup Written(p) |->
                     IF n = MetaName(p) THEN Junk
                     ELSE IF n = DataName(p) THEN file' ELSE copies[n]]
    /\ taken' = [q \in Paths |->
                    IF DataName(q) # DataName(p) THEN taken[q]
                    ELSE IF q # p THEN None
                    ELSE IF engine = "open" THEN Disk(db) ELSE file]
    /\ UNCHANGED <<db, maps, unsaved, engine, wanted>>

\* restoreBackup: the pager is closed and the file replaced; the table manager
\* keeps the closed pager, and the restore rejects.
Restore(p) ==
    /\ Counted
    /\ engine # "dead"
    /\ MetaName(p) \in DOMAIN copies
    /\ file' = IF Onto(p) THEN Flushed(db) ELSE copies[DataName(p)]
    /\ wanted' = IF p \in Kept THEN taken[p] ELSE None
    /\ engine' = "stale"
    /\ UNCHANGED <<db, maps, unsaved, copies, taken>>

-----------------------------------------------------------------------------
(* A new file.                                                             *)

Init ==
    /\ db = Prepared([NewFile(<<System>>) EXCEPT !.index =
                         [t \in Keys \cup SystemTables \cup {System} |-> None]])
    /\ file = Disk(db)
    /\ views = [n \in Keys |-> None]
    /\ schemas = [n \in Keys |-> None]
    /\ triggers = [t \in Keys |-> <<>>]
    /\ procedures = [n \in Keys |-> None]
    /\ unsaved = {}
    /\ engine = "open"
    /\ copies = <<>>
    /\ taken = [p \in Paths |-> None]
    /\ wanted = None
    /\ steps = 0

Next ==
    \/ \E n \in Keys, q \in Definitions[Views] : CreateView(n, q)
    \/ \E t \in Keys, s \in Definitions[Schemas] : DefineSchema(t, s)
    \/ \E n, t \in Keys, a \in Definitions[Triggers] : CreateTrigger(n, t, a)
    \/ \E n \in Keys, b \in Definitions[Procedures] : CreateProcedure(n, b)
    \/ \E n \in Keys : DropView(n) \/ DropTrigger(n) \/ CreateTable(n)
    \/ \E t \in Keys \cup SystemTables : DropTable(t)
    \/ \E p \in Paths : Backup(p) \/ Restore(p)
    \/ Flush
    \/ Restart

Spec == Init /\ [][Next]_vars

-----------------------------------------------------------------------------
(* What must hold.                                                         *)

Maybe(S) == S \cup {None}

NamesDiffer ==
    \A t, u \in Keys : \A i \in DOMAIN triggers[t], j \in DOMAIN triggers[u] :
        triggers[t][i].name = triggers[u][j].name => t = u /\ i = j

\* The maps have definitions of names, and no two triggers have one name, as
\* the rows that createTrigger looks it up in say, unless such a row was cut;
\* an engine that runs has its system tables except those that were dropped.
TypeOK ==
    /\ views \in [Keys -> Maybe(Definitions[Views])]
    /\ schemas \in [Keys -> Maybe(Definitions[Schemas])]
    /\ \A t \in Keys :
          ToSet(triggers[t]) \subseteq [name : Keys, action : Definitions[Triggers]]
    /\ Triggers \notin unsaved => NamesDiffer
    /\ procedures \in [Keys -> Maybe(Definitions[Procedures])]
    /\ unsaved \subseteq SystemTables
    /\ engine \in {"open", "stale", "dead"}
    /\ \A p \in Paths : taken[p] # None => Written(p) \subseteq DOMAIN copies
    /\ \A t \in (SystemTables \ {Views}) \ unsaved : Exists(db, t)

\* A restart gives back the views, schemas, triggers (in their order) and
\* procedures that the engine had, whatever was defined, dropped and defined
\* again in between.  Left out are the maps with a definition that was cut or
\* could not be written, and the schemas once one became narrower.
RestartKeeps ==
    /\ Views \notin unsaved => views = LoadedMap(db, Views)
    /\ Schemas \notin unsaved => schemas = LoadedMap(db, Schemas)
    /\ Triggers \notin unsaved => triggers = LoadedTriggers(db)
    /\ Procedures \notin unsaved => procedures = LoadedMap(db, Procedures)

\* A backup whose copy is a file of its own is the database as it was then,
\* pages not yet written included, until a path with the same stem is backed
\* up; and after a restore of it the file is the backup, whatever the engine
\* had not written.
BackupIsWhole ==
    /\ \A p \in Kept : taken[p] # None => copies[DataName(p)] = taken[p]
    /\ wanted # None => file = wanted
=============================================================================
