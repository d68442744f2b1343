------------------------ MODULE MCTransactionManager ------------------------
(***************************************************************************)
(* Instances of TransactionManager for TLC.                                *)
(***************************************************************************)
EXTENDS TransactionManager

On(table, event, timing, kind, target) ==
    [table |-> table, event |-> event, timing |-> timing,
     kind |-> kind, target |-> target]

\* A row in t1 is preceded by an INSERT into t2 and followed by a DELETE there;
\* a row in t2 drops t1.  A row in t3 meddles: its triggers commit (within a
\* COMMIT, until no stack is left), roll back and begin a transaction.
Chain == <<On("t1", "INSERT", "BEFORE", "INSERT", "t2"),
           On("t1", "INSERT", "AFTER", "DELETE", "t2"),
           On("t2", "INSERT", "AFTER", "DROP", "t1"),
           On("t3", "INSERT", "BEFORE", "COMMIT", "t3"),
           On("t3", "INSERT", "AFTER", "ROLLBACK", "t3"),
           On("t3", "INSERT", "AFTER", "BEGIN", "t3")>>
=============================================================================
