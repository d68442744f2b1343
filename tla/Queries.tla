------------------------------ MODULE Queries ------------------------------
(***************************************************************************)
(* WowoEngine.query as a client meets it: texts with or without a          *)
(* parameter, the cache of parsed commands, views, indexes and the         *)
(* executors behind them.  How rows lie in pages is HeapLayout's: here a   *)
(* table is one page of rows.  Triggers, schemas and transactions are      *)
(* modelled elsewhere, and _explain only reads.                            *)
(***************************************************************************)
EXTENDS Questions

CONSTANTS Contents,     \* the tables there may be at first: table -> rows
          Given,        \* what clients ask: <<question, value of the parameter>>
          CacheLimit,   \* queryCacheLimit
          MaxSteps      \* bounds the number of texts

Asks == {g[1] : g \in Given}

ASSUME BoundsAreNaturals == CacheLimit \in Nat \ {0} /\ MaxSteps \in Nat

VARIABLES tables,   \* the rows of every table
          indexes,  \* <<table, column>> -> the entries of the index
          views,    \* name -> the command of the view
          cache,    \* queryCache, the least recently used text first
          last,     \* the last question, its parameter and its answer
          steps
vars == <<tables, indexes, views, cache, last, steps>>

db == [tables |-> tables, indexes |-> indexes]
Empty == [x \in {} |-> <<>>]

Nothing == [question |-> Question("NONE", ""), param |-> NoParams, answer |-> Failure]

Init ==
    /\ tables \in Contents
    /\ indexes = Empty
    /\ views = Empty
    /\ cache = <<>>
    /\ last = Nothing
    /\ steps = 0

-----------------------------------------------------------------------------
(* The front of query: cache, parser, parameters.                          *)

\* What the parser makes of the text of every question, which stands for it.
Parsed == [q \in Asks |-> Parse[Text(q)]]

Place(q) == SelectInSeq(cache, LAMBDA e : e.question = q)

\* A text without parameters is looked up; any other is parsed.  Commands are
\* values here.  In the code the first use of a text executes the very object
\* that is cached, and a later one a copy that shares its row, updates and
\* nested conditions with it: that no executor changes these (insertMany sets
\* the page number of its row, and nothing else) was read, not modelled.
Template(q, p) == IF p = NoParams /\ Place(q) # 0 THEN cache[Place(q)].cmd ELSE Parsed[q]

\* The command a text with this template comes to.
Understood(template, p) ==
    IF Fails(template) THEN Unparsed
    ELSE IF p = NoParams THEN template
    ELSE Bind(template, p)

\* Mutated form of WithCommand: room is made before the command comes in.
WithCommandLate(q, cmd) ==
    LET kept == Append(SelectSeq(cache, LAMBDA e : e.question # q),
                       [question |-> q, cmd |-> cmd])
    IN SubSeq(kept, 1 + Max({0, Len(kept) - 1 - CacheLimit}), Len(kept))

\* The cache with a command as the last one used, and within its limit.
WithCommand(q, cmd) ==
    LET kept == Append(SelectSeq(cache, LAMBDA e : e.question # q),
                       [question |-> q, cmd |-> cmd])
    IN SubSeq(kept, 1 + Max({0, Len(kept) - CacheLimit}), Len(kept))

\* What the cache holds behind a text: nothing new of one with parameters or
\* one that does not parse.
Remembered(q, template, p) ==
    IF p # NoParams \/ Fails(template) THEN cache ELSE WithCommand(q, template)

-----------------------------------------------------------------------------
(* The commands.                                                           *)

\* Mutated form of Merged: the outer conditions take the place of the view's.
MergedOver(inner, outer) == IF outer = NoCriteria THEN inner ELSE outer

\* executeView: both conditions have to hold, the view's first.
Merged(inner, outer) ==
    CASE outer = NoCriteria -> inner
      [] inner = NoCriteria -> outer
      [] OTHER -> Compound("AND", <<inner, outer>>)

\* A view is looked for before a table, and only conditions go to it.
Through(cmd) ==
    IF cmd.table \in DOMAIN views
    THEN [views[cmd.table] EXCEPT !.criteria = Merged(@, cmd.criteria)]
    ELSE cmd

\* Mutated form of Doomed: an exception takes the row as well.
DoomedUnless(cmd, row) == Verdict(row, cmd.criteria) # "no"

\* The rows a DELETE takes; an exception of the condition spares the row.
Doomed(cmd, row) == Verdict(row, cmd.criteria) = "yes"

\* The indexes of a table, after rows came into it or were taken out of it one
\* after the other.
Reindexed(t, change, rows) ==
    LET entry(es, r, col) ==
            IF col \notin DOMAIN r THEN es
            ELSE IF change = "in" THEN WithEntry(es, r, col)
            ELSE WithoutEntry(es, r, col)
    IN [ix \in DOMAIN indexes |->
            IF ix[1] # t THEN indexes[ix]
            ELSE FoldLeft(LAMBDA es, r : entry(es, r, ix[2]), indexes[ix], rows)]

\* What the question q with parameter p was answered.
Said(q, p, answer) ==
    /\ last' = [question |-> q, param |-> p, answer |-> answer]
    /\ steps' = steps + 1

\* SELECT
Ask(q, p, cmd) ==
    /\ cmd.type = "SELECT"
    /\ \E c \in {Through(cmd)} : Said(q, p, Select(db, c))
    /\ UNCHANGED <<tables, indexes, views>>

\* HITUNG
Count(q, p, cmd) ==
    /\ cmd.type = "AGGREGATE"
    /\ \E found \in {Select(db, Counted(cmd))} : Said(q, p, Aggregated(found, cmd))
    /\ UNCHANGED <<tables, indexes, views>>

\* A text that does not come to a command, and a change of a table that is
\* not there.
Refuse(q, p, cmd) ==
    /\ \/ cmd.type = "ERROR"
       \/ cmd.type \in {"INSERT", "DELETE", "CREATE_INDEX"} /\ cmd.table \notin DOMAIN tables
    /\ Said(q, p, Failure)
    /\ UNCHANGED <<tables, indexes, views>>

\* INSERT
Insert(q, p, cmd) ==
    /\ cmd.type = "INSERT"
    /\ cmd.table \in DOMAIN tables
    /\ Said(q, p, Answer(<<>>))
    /\ tables' = [tables EXCEPT ![cmd.table] = Append(@, cmd.data)]
    /\ indexes' = Reindexed(cmd.table, "in", <<cmd.data>>)
    /\ UNCHANGED views

\* DELETE
Delete(q, p, cmd) ==
    /\ cmd.type = "DELETE"
    /\ cmd.table \in DOMAIN tables
    /\ Said(q, p, Answer(<<>>))
    /\ tables' = [tables EXCEPT ![cmd.table] = SelectSeq(@, LAMBDA r : ~ Doomed(cmd, r))]
    /\ indexes' = Reindexed(cmd.table, "out",
                            SelectSeq(tables[cmd.table], LAMBDA r : Doomed(cmd, r)))
    /\ UNCHANGED views

\* CREATE INDEX; one that is there already stays as it is.
CreateIndex(q, p, cmd) ==
    /\ cmd.type = "CREATE_INDEX"
    /\ cmd.table \in DOMAIN tables
    /\ Said(q, p, Answer(<<>>))
    /\ indexes' = indexes @@ (<<cmd.table, cmd.field>> :> Entries(tables[cmd.table], cmd.field))
    /\ UNCHANGED <<tables, views>>

\* CREATE VIEW in memory; Catalog models the row that records it.
CreateView(q, p, cmd) ==
    /\ cmd.type = "CREATE_VIEW"
    /\ Said(q, p, IF cmd.table \in DOMAIN views THEN Failure ELSE Answer(<<>>))
    /\ views' = views @@ (cmd.table :> cmd.query[1])
    /\ UNCHANGED <<tables, indexes>>

\* What follows from the command that a text is understood as.
Execute(q, p, cmd) ==
    \/ Ask(q, p, cmd)
    \/ Count(q, p, cmd)
    \/ Refuse(q, p, cmd)
    \/ Insert(q, p, cmd)
    \/ Delete(q, p, cmd)
    \/ CreateIndex(q, p, cmd)
    \/ CreateView(q, p, cmd)

\* query
Next ==
    /\ steps < MaxSteps
    /\ \E <<q, p>> \in Given : \E template \in {Template(q, p)} :
          /\ cache' = Remembered(q, template, p)
          /\ \E cmd \in {Understood(template, p)} : Execute(q, p, cmd)

Spec == Init /\ [][Next]_vars

-----------------------------------------------------------------------------
(* Properties.                                                             *)

Rows == UNION {ToSet(tables[t]) : t \in DOMAIN tables}

\* Tables keep rows of values, indexes rows under columns that these have,
\* every view is a SELECT, and the cache stays within its limit.
TypeOK ==
    /\ Len(cache) <= CacheLimit
    /\ \A t \in DOMAIN tables : \A r \in ToSet(tables[t]) :
          \A c \in DOMAIN r : r[c] \in [t : {"number", "numeral", "word", "null"}, n : Int]
    /\ \A ix \in DOMAIN indexes : ix[1] \in DOMAIN tables /\
          \A e \in ToSet(indexes[ix]) : ix[2] \in DOMAIN e
    /\ \A v \in DOMAIN views : views[v].type = "SELECT"

Asking == last.question
Param == last.param
Is(verb) == Asking.verb = verb /\ last # Nothing

\* The conditions of all alternatives.
Conds(q) == UNION {ToSet(q.where[i]) : i \in DOMAIN q.where}

\* A question whose text the parser reads as it is meant: nothing stands
\* behind BETWEEN in it, and IS is not used (README, section 6).
WellRead(q) ==
    /\ \A c \in Conds(q) : c.op \notin {"IS NULL", "IS NOT NULL"}
    /\ \A i \in DOMAIN q.where : \A j \in DOMAIN q.where[i] :
          q.where[i][j].op = "BETWEEN" =>
             /\ i = Len(q.where) /\ j = Len(q.where[i])
             /\ q.sort = NoSort /\ q.limit = Unlimited /\ q.offset = 0 /\ q.group = ""

\* An index answers the question.
Indexed(q) ==
    /\ q.joins = <<>> /\ q.sort = NoSort /\ Len(q.where) = 1 /\ Len(q.where[1]) = 1
    /\ q.where[1][1].op = "=" /\ <<q.table, q.where[1][1].key>> \in DOMAIN indexes

\* Limit and offset without an order: the scan stops at the limit already.
CutShort(q) == q.sort = NoSort /\ q.limit # Unlimited /\ q.offset # 0

OfTable(q) == q.table \in DOMAIN tables \ DOMAIN views

\* A SELECT of one table answers the rows that meet its conditions, AND before
\* OR, in the order, from the offset, as many and with the columns it asks
\* for, each once under DISTINCT, whatever was asked before and however it
\* came to be parsed (parseSelect, parseWhere, SelectExecutor, query's cache).
\* Left out is what the code answers otherwise: WellRead, CutShort, Indexed.
AnswerIsMeant ==
    Is("SELECT") /\ OfTable(Asking) /\ Asking.joins = <<>>
    /\ WellRead(Asking) /\ ~ CutShort(Asking) /\ ~ Indexed(Asking) =>
        last.answer = Answer(Asked(tables[Asking.table], Asking, Param))

\* A SELECT that an index answers (SelectExecutor, index.search) gets at most
\* one row, which has the value asked for, and none only if no row of the
\* table has it: inserts and deletes keep the entries of a value as many as
\* its rows.
IndexAnswersOne ==
    Is("SELECT") /\ OfTable(Asking) /\ Indexed(Asking)
    /\ Asking.limit = Unlimited /\ Asking.offset = 0 /\ Asking.cols = <<"*">> =>
        LET c == Asking.where[1][1]
            v == BindValue(c.vals[1], Param)
            has(r) == Get(r, c.key) = v
        IN /\ Len(last.answer.rows) <= 1
           /\ \A r \in ToSet(last.answer.rows) : has(r)
           /\ last.answer.rows = <<>> => ~ \E r \in ToSet(tables[Asking.table]) : has(r)

IdsAreKeys ==
    \A t \in DOMAIN tables : \A i, j \in DOMAIN tables[t] :
        tables[t][i].id = tables[t][j].id => i = j

\* A join of two tables answers every pair of rows that fulfils its condition
\* once, and every row without a partner once, with nulls, on the sides its
\* type says (JoinProcessor.process, by map and by loops).
JoinsArePairs ==
    Is("SELECT") /\ Asking.joins # <<>> /\ IdsAreKeys =>
        LET pair(r) == [i \in {1, 2} |->
                          LET t == IF i = 1 THEN Asking.table ELSE Asking.joins[1].table
                              v == Get(r, t \o ".id")
                          IN IF Absent(v) THEN Null ELSE v]
            pairs == [i \in DOMAIN last.answer.rows |-> pair(last.answer.rows[i])]
        IN /\ ToSet(pairs) = MeantPairs(db, Asking)
           /\ Len(pairs) = Cardinality(ToSet(pairs))

\* A HITUNG with groups answers one for each value of its column among the
\* rows that meet its conditions, null and a missing column included, with the
\* count or the sum of its rows, those that HAVING lets in and none twice
\* (AggregateExecutor.groupedAggregate).  One without groups answers the count,
\* the sum or an extreme of all these rows (count, sum, min, max).
GroupsAreMeant ==
    Is("HITUNG") /\ OfTable(Asking) /\ WellRead(Asking) /\ ~ Indexed(Asking) =>
        LET rows == SelectSeq(tables[Asking.table], LAMBDA r : Meets(r, Asking, Param))
            groups == last.answer.rows
        IN IF Asking.group = "" THEN Len(groups) = 1 /\ IsMeantTotal(groups[1], rows, Asking)
           ELSE /\ ToSet(groups) = MeantGroups(rows, Asking)
                /\ Cardinality(ToSet(groups)) = Len(groups)

\* A SELECT from a view answers the view's own rows that meet the outer
\* conditions as well (executeView), whatever was asked in between: here for
\* views with neither limit nor offset, whose conditions are read before.
ViewsFilter ==
    Is("SELECT") /\ Asking.table \in DOMAIN views /\ WellRead(Asking) =>
        \A v \in Asks :
            /\ v.verb = "VIEW" /\ v.view = Asking.table /\ WellRead(v)
            /\ views[v.view] = Parsed[v].query[1] /\ OfTable(v)
            /\ ~ Indexed(v) /\ ~ Indexed([Asking EXCEPT !.table = v.table])
            => LET rows == tables[v.table]
                   places == {i \in DOMAIN rows : Meets(rows[i], v, NoParams)
                                                  /\ Meets(rows[i], Asking, Param)}
               IN last.answer = Answer(Meant(rows, places, v))

\* A DELETE takes exactly the rows that meet its conditions, also with IS as
\* the last of them: the exception that reading it throws spares rows that do
\* not (DeleteExecutor.delete).
DeletesWhatItMeans ==
    [][LET q == last'.question
           p == last'.param
       IN steps' > steps /\ q.verb = "DELETE" /\ (Cardinality(Conds(q)) <= 1 \/ WellRead(q)) =>
             tables' = IF last'.answer.ok
                       THEN [tables EXCEPT ![q.table] = SelectSeq(@, LAMBDA r : ~ Meets(r, q, p))]
                       ELSE tables]_vars

\* README.md:171 and :176 document BETWEEN and IS NOT NULL among conditions:
\* every row that a SELECT of a table answers meets all of its conditions.
ConditionsHold ==
    Is("SELECT") /\ OfTable(Asking) /\ Asking.joins = <<>> /\ Asking.cols = <<"*">> =>
        \A r \in ToSet(last.answer.rows) : Meets(r, Asking, Param)
=============================================================================
