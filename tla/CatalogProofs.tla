--------------------------- MODULE CatalogProofs ---------------------------
(***************************************************************************)
(* Proofs about Catalog, for any tables, definitions and paths and any     *)
(* number of statements: a backup is the database, pages not yet written   *)
(* included, and a restore brings back what was backed up.  What the       *)
(* statements do to the database is left open: the proofs use only that    *)
(* they leave the file and its copies alone.                               *)
(***************************************************************************)
EXTENDS Catalog, TLAPS

\* What was backed up, and whether it is there.  A restore leaves the engine
\* with a closed pager, so that nothing writes to the file before the next
\* start: that is why it stays what was asked for.
BackupInv ==
    /\ \A p \in Kept : taken[p] # None =>
          DataName(p) \in DOMAIN copies /\ copies[DataName(p)] = taken[p]
    /\ wanted # None => engine = "stale" /\ file = wanted

\* A statement leaves the file, the engine and the backups alone.
LEMMA StatementInv ==
    ASSUME BackupInv, UNCHANGED <<file, engine, backups>>
    PROVE  BackupInv'
  BY DEF BackupInv, backups

\* No copy of a database is written over by the notes of a backup.
LEMMA NamesApart ==
    ASSUME NEW p \in Paths, NEW q \in Kept
    PROVE  DataName(q) # MetaName(p)
  BY DEF DataName, MetaName, Renamed, Kept

LEMMA BackupStep == \A p \in Paths : BackupInv /\ Backup(p) => BackupInv'
  <1> SUFFICES ASSUME NEW p \in Paths, BackupInv, Backup(p) PROVE BackupInv'
    OBVIOUS
  <1> DEFINE saved == IF engine = "open" THEN Disk(db) ELSE file
  <1>1. /\ file' = saved
        /\ taken' = [q \in Paths |-> IF DataName(q) # DataName(p) THEN taken[q]
                                     ELSE IF q # p THEN None ELSE saved]
        /\ wanted' = wanted /\ engine' = engine
    BY DEF Backup, Flushed
  <1>2. /\ DOMAIN copies' = DOMAIN copies \cup Written(p)
        /\ \A n \in DOMAIN copies' :
              copies'[n] = IF n = MetaName(p) THEN Junk
                           ELSE IF n = DataName(p) THEN saved ELSE copies[n]
    BY <1>1 DEF Backup
  <1>3. wanted # None => file' = wanted
    BY <1>1 DEF BackupInv
  <1> HIDE DEF saved
  <1>4. \A q \in Paths : taken'[q] = IF DataName(q) # DataName(p) THEN taken[q]
                                     ELSE IF q # p THEN None ELSE saved
    BY <1>1
  <1>5. ASSUME NEW q \in Kept, taken'[q] # None
        PROVE  DataName(q) \in DOMAIN copies' /\ copies'[DataName(q)] = taken'[q]
    <2>1. q \in Paths /\ ~ Onto(q) /\ DataName(q) # MetaName(p)
      BY <1>5, NamesApart DEF Kept, Onto
    <2>2. CASE q = p
      <3>1. DataName(q) \in Written(p)
        BY <2>1, <2>2 DEF Written
      <3> QED
        BY <1>2, <1>4, <2>1, <2>2, <3>1
    <2>3. CASE q # p
      <3>1. DataName(q) # DataName(p) /\ taken'[q] = taken[q]
        BY <1>4, <1>5, <2>1, <2>3
      <3>2. DataName(q) \in DOMAIN copies /\ copies[DataName(q)] = taken'[q]
        BY <1>5, <3>1 DEF BackupInv
      <3> QED
        BY <1>2, <2>1, <3>1, <3>2
    <2> QED
      BY <2>2, <2>3
  <1> QED
    BY <1>1, <1>3, <1>5 DEF BackupInv

LEMMA RestoreStep == \A p \in Paths : BackupInv /\ Restore(p) => BackupInv'
  <1> SUFFICES ASSUME NEW p \in Paths, BackupInv, Restore(p) PROVE BackupInv'
    OBVIOUS
  <1>1. wanted' # None => file' = wanted'
    <2>1. p \in Kept => ~ Onto(p)
      BY DEF Kept, Onto
    <2> QED
      BY <2>1 DEF Restore, BackupInv
  <1>2. taken' = taken /\ copies' = copies /\ engine' = "stale"
    BY DEF Restore
  <1> QED
    BY <1>1, <1>2 DEF BackupInv

LEMMA FileSteps == BackupInv /\ (Flush \/ Restart) => BackupInv'
  <1>1. ASSUME BackupInv, Flush PROVE BackupInv'
    <2>1. engine = "open" /\ UNCHANGED <<engine, backups>>
      BY <1>1 DEF Flush
    <2> QED
      BY <1>1, <2>1 DEF BackupInv, backups
  <1>2. ASSUME BackupInv, Restart PROVE BackupInv'
    <2>1. wanted' = None /\ UNCHANGED <<copies, taken>>
      BY <1>2 DEF Restart
    <2> QED
      BY <1>2, <2>1 DEF BackupInv
  <1> QED
    BY <1>1, <1>2

LEMMA StatementsLeaveFiles ==
    ASSUME Next
    PROVE  \/ UNCHANGED <<file, engine, backups>>
           \/ \E p \in Paths : Backup(p) \/ Restore(p)
           \/ Flush \/ Restart
  <1>1. ASSUME NEW n \in Keys, NEW q \in Definitions[Views], CreateView(n, q)
        PROVE  UNCHANGED <<file, engine, backups>>
    BY <1>1 DEF CreateView, Leaves
  <1>2. ASSUME NEW t \in Keys, NEW s \in Definitions[Schemas], DefineSchema(t, s)
        PROVE  UNCHANGED <<file, engine, backups>>
    BY <1>2 DEF DefineSchema, Leaves
  <1>3. ASSUME NEW n \in Keys, NEW t \in Keys, NEW a \in Definitions[Triggers],
               CreateTrigger(n, t, a)
        PROVE  UNCHANGED <<file, engine, backups>>
    BY <1>3 DEF CreateTrigger, Leaves
  <1>4. ASSUME NEW n \in Keys, NEW b \in Definitions[Procedures], CreateProcedure(n, b)
        PROVE  UNCHANGED <<file, engine, backups>>
    BY <1>4 DEF CreateProcedure, Leaves
  <1>5. ASSUME NEW n \in Keys, DropView(n) \/ DropTrigger(n) \/ CreateTable(n)
        PROVE  UNCHANGED <<file, engine, backups>>
    BY <1>5 DEF DropView, DropTrigger, CreateTable, Leaves
  <1>6. ASSUME NEW t \in Keys \cup SystemTables, DropTable(t)
        PROVE  UNCHANGED <<file, engine, backups>>
    BY <1>6 DEF DropTable, Leaves
  <1> QED
    BY <1>1, <1>2, <1>3, <1>4, <1>5, <1>6 DEF Next

LEMMA NextBackup == BackupInv /\ [Next]_vars => BackupInv'
  <1> SUFFICES ASSUME BackupInv, [Next]_vars PROVE BackupInv'
    OBVIOUS
  <1>1. CASE UNCHANGED <<file, engine, backups>>
    BY <1>1, StatementInv
  <1>2. CASE \E p \in Paths : Backup(p) \/ Restore(p)
    BY <1>2, BackupStep, RestoreStep
  <1>3. CASE Flush \/ Restart
    BY <1>3, FileSteps
  <1>4. CASE UNCHANGED vars
    BY <1>1, <1>4 DEF vars
  <1> QED
    BY <1>1, <1>2, <1>3, <1>4, StatementsLeaveFiles

LEMMA InitBackup == Init => BackupInv
  BY DEF Init, BackupInv, Kept

\* A backup whose copy is a file of its own (the path has a dot and not the
\* stem of the database) is the database as it was then, pages not yet written
\* included (createBackup flushes first), until another path with its stem is
\* backed up; and after a restore of it, until the next start, the file is what
\* was backed up.
THEOREM BackupIsWholeAlways == Spec => []BackupIsWhole
  <1>1. Spec => []BackupInv
    BY InitBackup, NextBackup, PTL DEF Spec
  <1>2. BackupInv => BackupIsWhole
    BY DEF BackupInv, BackupIsWhole
  <1> QED
    BY <1>1, <1>2, PTL
=============================================================================
