------------------------- MODULE TransactionManager -------------------------
(***************************************************************************)
(* The transactions of src/services/TransactionManager.js as               *)
(* src/WowoEngine.js routes statements to them: one transaction per engine,*)
(* whichever sessions use the engine.  BEGIN makes it active, INSERT,      *)
(* UPDATE and DELETE are then buffered, COMMIT executes the buffer in a    *)
(* loop, ROLLBACK drops it.  CREATE and DROP TABLE are executed at once.   *)
(* A row that is inserted, by an INSERT or by an UPDATE that makes it too  *)
(* long for its place, fires the INSERT triggers of its table.  A trigger's*)
(* action is a query of its own, routed like any other while the loop of a *)
(* COMMIT still runs over the buffer; it may be BEGIN, COMMIT or ROLLBACK. *)
(*                                                                         *)
(* query() is synchronous: todo is the stack of calls under way, youngest  *)
(* first, and no session is served before it is empty.  Triggers do not    *)
(* change; an action that changes neither rows nor tables nor the          *)
(* transaction (a SELECT) does nothing here and is left out.               *)
(***************************************************************************)
EXTENDS Naturals, Sequences, FiniteSets, SequencesExt

CONSTANTS Tables,      \* names of tables
          Triggers,    \* the triggers, in the order they were created
          MaxOps,      \* bound on the statements clients send
          MaxLonger,   \* bound on the rows one UPDATE makes longer
          MaxNesting   \* COMMITs inside each other when the stack is full

Kinds == {"INSERT", "UPDATE", "DELETE"}
TableKinds == {"CREATE", "DROP"}
Commands == {"BEGIN", "COMMIT", "ROLLBACK"}
Actions == Kinds \cup TableKinds \cup Commands

ASSUME TriggerAssumption ==
    Triggers \in Seq([table : Tables, event : Kinds, timing : {"BEFORE", "AFTER"},
                      kind : Actions, target : Tables])
ASSUME MaxLongerAssumption == MaxLonger \in Nat

VARIABLES tm,      \* [state, buffer] of the TransactionManager
          todo,    \* the calls under way
          tables,  \* the tables that exist
          log,     \* the statements executed, in order
          sent,    \* how many statements were sent, by clients or triggers
          gone,    \* statements a ROLLBACK dropped; not in the code
          failed,  \* statements that failed, or were dropped by a COMMIT
                   \* that failed; not in the code
          meddled  \* whether a trigger's BEGIN, COMMIT or ROLLBACK has taken
                   \* effect; not in the code
vars == <<tm, todo, tables, log, sent, gone, failed, meddled>>

\* A statement.  cause is the statement that made the executor send it, 0 for a
\* client's; trigger is the trigger whose action it is, 0 for a row that an
\* UPDATE inserts again.
Statement(id, kind, table, cause, trigger) ==
    [id |-> id, kind |-> kind, table |-> table,
     cause |-> cause, trigger |-> trigger]

Query(op) == [call |-> "query", op |-> op]
Execute(op, from) == [call |-> "execute", op |-> op, from |-> from]
InsertMany(op) == [call |-> "insertMany", op |-> op]
Store(op) == [call |-> "store", op |-> op]

\* commit(), whose loop has come to place i of the buffer.  It goes on over the
\* array it began with (ops) once _cleanup has made the buffer another one.
CommitFrom(i) == [call |-> "commit", at |-> i, over |-> "buffer", ops |-> <<>>]
Loop(c) == IF c.over = "buffer" THEN tm.buffer ELSE c.ops

IsClients(op) == op.cause = 0
Ids(ops) == {ops[i].id : i \in DOMAIN ops}
Committing == \E i \in DOMAIN todo : todo[i].call = "commit"

-----------------------------------------------------------------------------
(* The methods.                                                            *)

Active == tm.state = "ACTIVE"

\* _cleanup, after which the calls under way are those in rest.
Detached(c) ==
    IF c.call = "commit" /\ c.over = "buffer"
    THEN [c EXCEPT !.over = "array", !.ops = tm.buffer]
    ELSE c

Cleanup(rest) ==
    /\ tm' = [state |-> "IDLE", buffer |-> <<>>]
    /\ todo' = [i \in DOMAIN rest |-> Detached(rest[i])]

\* executeTriggers(op.table, event, timing): the statements it sends, the
\* first of them numbered after n.  The triggers that match come in the order
\* in which they were created.
Matching(op, event, timing) ==
    LET matching == {i \in DOMAIN Triggers : /\ Triggers[i].table = op.table
                                             /\ Triggers[i].event = event
                                             /\ Triggers[i].timing = timing}
    IN CHOOSE m \in SetToSeqs(matching) :
           \A k, l \in DOMAIN m : k < l => m[k] < m[l]

Fired(op, timing, n) ==
    LET m == Matching(op, "INSERT", timing)
    IN [k \in DOMAIN m |->
          Query(Statement(n + k, Triggers[m[k]].kind, Triggers[m[k]].target,
                          op.id, m[k]))]

\* Mutated form of InsertCalls: the AFTER triggers are left out.
InsertCallsNoAfter(op) == Fired(op, "BEFORE", sent) \o <<Store(op)>>

\* insertMany: the BEFORE triggers, the row, the AFTER triggers.
InsertCalls(op) ==
    LET before == Fired(op, "BEFORE", sent)
        after == Fired(op, "AFTER", sent + Len(before))
    IN before \o <<Store(op)>> \o after

\* update: the rows are changed in place, then n of them, which are too long
\* for their places, are inserted again.
UpdateCalls(op, n) ==
    <<Store(op)>>
      \o [k \in 1 .. n |-> InsertMany(Statement(sent + k, "INSERT", op.table, op.id, 0))]

-----------------------------------------------------------------------------
(* A client's statement reaches query().                                   *)

Init ==
    /\ tm = [state |-> "IDLE", buffer |-> <<>>]
    /\ todo = <<>>
    /\ tables = Tables
    /\ log = <<>>
    /\ sent = 0
    /\ gone = {}
    /\ failed = {}
    /\ meddled = FALSE

Free == todo = <<>> /\ sent < MaxOps

Begin ==
    /\ Free
    /\ ~ Active
    /\ tm' = [state |-> "ACTIVE", buffer |-> <<>>]
    /\ UNCHANGED <<todo, tables, log, sent, gone, failed, meddled>>

SendDml(kind, t) ==
    /\ Free
    /\ todo' = <<Query(Statement(sent + 1, kind, t, 0, 0))>>
    /\ sent' = sent + 1
    /\ UNCHANGED <<tm, tables, log, gone, failed, meddled>>

CreateTable(t) ==
    /\ Free
    /\ tables' = tables \cup {t}
    /\ UNCHANGED <<tm, todo, log, sent, gone, failed, meddled>>

DropTable(t) ==
    /\ Free
    /\ tables' = tables \ {t}
    /\ UNCHANGED <<tm, todo, log, sent, gone, failed, meddled>>

Commit ==
    /\ todo = <<>>
    /\ Active
    /\ todo' = <<CommitFrom(1)>>
    /\ UNCHANGED <<tm, tables, log, sent, gone, failed, meddled>>

Rollback ==
    /\ todo = <<>>
    /\ Active
    /\ Cleanup(todo)
    /\ gone' = gone \cup Range(tm.buffer)
    /\ UNCHANGED <<tables, log, sent, failed, meddled>>

-----------------------------------------------------------------------------
(* The youngest call takes a step.                                         *)

Calls(call) == todo # <<>> /\ Head(todo).call = call

\* query() of a statement of one of the kinds.
Queries(kinds) == Calls("query") /\ Head(todo).op.kind \in kinds

\* Mutated form of RouteDml: only an INSERT is buffered.
RouteDmlInsertOnly ==
    /\ Queries(Kinds)
    /\ LET op == Head(todo).op
       IN IF Active /\ op.kind = "INSERT"
          THEN /\ tm' = [tm EXCEPT !.buffer = Append(@, op)]
               /\ todo' = Tail(todo)
          ELSE /\ todo' = <<Execute(op, "query")>> \o Tail(todo)
               /\ UNCHANGED tm
    /\ UNCHANGED <<tables, log, sent, gone, failed, meddled>>

\* query(): a statement that changes rows is buffered in a transaction and
\* executed outside one.
RouteDml ==
    /\ Queries(Kinds)
    /\ LET op == Head(todo).op
       IN IF Active
          THEN /\ tm' = [tm EXCEPT !.buffer = Append(@, op)]
               /\ todo' = Tail(todo)
          ELSE /\ todo' = <<Execute(op, "query")>> \o Tail(todo)
               /\ UNCHANGED tm
    /\ UNCHANGED <<tables, log, sent, gone, failed, meddled>>

\* A trigger's CREATE or DROP TABLE.
RunTable ==
    /\ Queries(TableKinds)
    /\ LET op == Head(todo).op
       IN /\ tables' = IF op.kind = "CREATE" THEN tables \cup {op.table}
                                            ELSE tables \ {op.table}
          /\ log' = Append(log, op)
    /\ todo' = Tail(todo)
    /\ UNCHANGED <<tm, sent, gone, failed, meddled>>

\* A trigger's BEGIN, COMMIT or ROLLBACK takes effect.
Meddle ==
    /\ meddled' = TRUE
    /\ log' = Append(log, Head(todo).op)
    /\ UNCHANGED <<tables, sent, failed>>

BeginWithin ==
    /\ Queries({"BEGIN"})
    /\ ~ Active
    /\ tm' = [state |-> "ACTIVE", buffer |-> <<>>]
    /\ todo' = Tail(todo)
    /\ Meddle
    /\ UNCHANGED gone

Nesting == Cardinality({i \in DOMAIN todo : todo[i].call = "commit"})

CommitWithin ==
    /\ Queries({"COMMIT"})
    /\ Active
    /\ Nesting < MaxNesting
    /\ todo' = <<CommitFrom(1)>> \o Tail(todo)
    /\ Meddle
    /\ UNCHANGED <<tm, gone>>

RollbackWithin ==
    /\ Queries({"ROLLBACK"})
    /\ Active
    /\ Cleanup(Tail(todo))
    /\ gone' = gone \cup Range(tm.buffer)
    /\ Meddle

\* A trigger's BEGIN in a transaction, or COMMIT or ROLLBACK outside one, throws,
\* and so does a COMMIT for which no stack is left.
Refuse ==
    /\ Queries(Commands)
    /\ CASE Head(todo).op.kind = "BEGIN" -> Active
         [] Head(todo).op.kind = "COMMIT" -> ~ Active \/ Nesting >= MaxNesting
         [] Head(todo).op.kind = "ROLLBACK" -> ~ Active
    /\ todo' = Tail(todo)
    /\ failed' = failed \cup {Head(todo).op}
    /\ UNCHANGED <<tm, tables, log, sent, gone, meddled>>

\* An executor that finds its table.  An INSERT fires its triggers; of the rows
\* an UPDATE changes, any number may have become too long for their places.
Run ==
    /\ Calls("execute")
    /\ Head(todo).op.table \in tables
    /\ LET op == Head(todo).op
       IN \E calls \in CASE op.kind = "INSERT" -> {InsertCalls(op)}
                         [] op.kind = "UPDATE" -> {UpdateCalls(op, n) : n \in 0 .. MaxLonger}
                         [] OTHER -> {<<Store(op)>>} :
             /\ todo' = calls \o Tail(todo)
             /\ sent' = sent + Len(calls) - 1
    /\ UNCHANGED <<tm, tables, log, gone, failed, meddled>>

\* update() calls insertMany() with a row.
RunInsert ==
    /\ Calls("insertMany")
    /\ todo' = <<Execute(Head(todo).op, "update")>> \o Tail(todo)
    /\ UNCHANGED <<tm, tables, log, sent, gone, failed, meddled>>

StoreRow ==
    /\ Calls("store")
    /\ log' = Append(log, Head(todo).op)
    /\ todo' = Tail(todo)
    /\ UNCHANGED <<tm, tables, sent, gone, failed, meddled>>

\* Mutated form of Fail: a commit tries the statement again.
FailRetried ==
    /\ Calls("execute")
    /\ Head(todo).op.table \notin tables
    /\ todo' = IF Head(todo).from = "commit" THEN todo ELSE Tail(todo)
    /\ UNCHANGED <<tm, tables, log, sent, gone, failed, meddled>>

\* An executor that does not find its table throws.  query() turns the error
\* into an answer and update() catches it; commit(), the next call on the stack,
\* gives up with the statements before executed, and its error is an answer.
Fail ==
    /\ Calls("execute")
    /\ Head(todo).op.table \notin tables
    /\ IF Head(todo).from = "commit"
       THEN /\ failed' = failed \cup {Head(todo).op} \cup Range(tm.buffer)
            /\ Cleanup(Tail(Tail(todo)))
       ELSE /\ todo' = Tail(todo)
            /\ failed' = failed \cup {Head(todo).op}
            /\ UNCHANGED tm
    /\ UNCHANGED <<tables, log, sent, gone, meddled>>

\* The loop of commit() runs over its array as it is now.
CommitNext ==
    /\ Calls("commit")
    /\ LET c == Head(todo)
           i == c.at
       IN /\ i <= Len(Loop(c))
          /\ todo' = <<Execute(Loop(c)[i], "commit"), [c EXCEPT !.at = i + 1]>>
                         \o Tail(todo)
    /\ UNCHANGED <<tm, tables, log, sent, gone, failed, meddled>>

\* Mutated form of CommitEnd: the buffer and the state survive the commit.
CommitEndUnclean ==
    /\ Calls("commit")
    /\ Head(todo).at > Len(Loop(Head(todo)))
    /\ todo' = Tail(todo)
    /\ UNCHANGED <<tm, tables, log, sent, gone, failed, meddled>>

CommitEnd ==
    /\ Calls("commit")
    /\ Head(todo).at > Len(Loop(Head(todo)))
    /\ Cleanup(Tail(todo))
    /\ UNCHANGED <<tables, log, sent, gone, failed, meddled>>

Step ==
    \/ RouteDml \/ RunTable \/ BeginWithin \/ CommitWithin \/ RollbackWithin
    \/ Refuse \/ Run \/ RunInsert \/ StoreRow \/ Fail \/ CommitNext \/ CommitEnd

Next ==
    \/ Begin
    \/ \E t \in Tables : \/ \E kind \in Kinds : SendDml(kind, t)
                        \/ CreateTable(t)
                        \/ DropTable(t)
    \/ Commit
    \/ Rollback
    \/ Step

Spec == Init /\ [][Next]_vars

\* A synchronous call runs until it returns.
FairSpec == Spec /\ WF_vars(Step)

-----------------------------------------------------------------------------
(* What must hold.                                                         *)

\* As long as no trigger has meddled: the buffer is empty outside a transaction,
\* the calls under way are of the shapes the code can nest, and every statement
\* has been numbered.
TypeOK ==
    /\ tm.state \in {"IDLE", "ACTIVE"}
    /\ tm.state = "IDLE" => tm.buffer = <<>> /\ ~ Committing
    /\ \A i \in DOMAIN todo :
          /\ todo[i].call \in {"query", "execute", "insertMany", "store", "commit"}
          /\ todo[i].call = "commit" => i = Len(todo)
          /\ todo[i].call = "execute" =>
                /\ todo[i].from = "commit" => Committing
                /\ todo[i].from = "query" => ~ Committing
    /\ tables \subseteq Tables
    /\ {op.id : op \in Range(log) \cup Range(tm.buffer) \cup gone \cup failed}
          \subseteq 1 .. sent

\* Nothing of an open transaction shows and nothing of a closed one is left:
\* before its COMMIT is sent no buffered statement has been executed, outside a
\* transaction none is buffered, and no later COMMIT executes what a ROLLBACK
\* dropped.  This and the next two say nothing of what follows a BEGIN, COMMIT
\* or ROLLBACK of a trigger that takes effect: a COMMIT within a COMMIT
\* executes the buffer a second time.
Isolated ==
    ~ meddled =>
        /\ TypeOK
        /\ ~ Committing => Ids(tm.buffer) \cap Ids(log) = {}
        /\ gone \cap Range(log) = {}

\* The clients' statements are executed in the order they were sent, in and
\* out of transactions, and no statement is executed twice.
InOrder ==
    ~ meddled =>
        \A i, j \in DOMAIN log : i < j =>
            /\ log[i].id # log[j].id
            /\ IsClients(log[i]) /\ IsClients(log[j]) => log[i].id < log[j].id

\* The statements trigger i sent for op, whatever has become of them.
Answers(op, i) ==
    {o \in Range(log) \cup Range(tm.buffer) \cup gone \cup failed
           \cup {c.op : c \in {d \in Range(todo) : d.call # "commit"}} :
        o.cause = op.id /\ o.trigger = i}

\* Every trigger on INSERT answers every row stored in its table, by an INSERT
\* or again by an UPDATE, with one statement, which is executed, waits in the
\* buffer or is under way, has failed or was dropped with its transaction.
TriggersAnswer ==
    ~ meddled =>
        \A n \in DOMAIN log, i \in DOMAIN Triggers :
            /\ log[n].kind = "INSERT" /\ Triggers[i].event = "INSERT"
            /\ log[n].table = Triggers[i].table
            => Cardinality(Answers(log[n], i)) = 1

\* No trigger's action inserts rows into the trigger's own table, at once or
\* through the triggers of other tables.
Acyclic ==
    \E rank \in [Tables -> 1 .. Cardinality(Tables)] : \A i \in DOMAIN Triggers :
        Triggers[i].event = "INSERT" /\ Triggers[i].kind \in {"INSERT", "UPDATE"}
        => rank[Triggers[i].target] < rank[Triggers[i].table]

\* Every call returns, whatever triggers do, if they are acyclic.  If they are
\* not, the loop of a COMMIT goes on for ever over a buffer that grows with it
\* (outside a transaction the calls nest until the stack is full).
Returns == Acyclic /\ todo # <<>> ~> todo = <<>>
=============================================================================
