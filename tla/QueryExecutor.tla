--------------------------- MODULE QueryExecutor ---------------------------
(***************************************************************************)
(* What the executors answer to a parsed command: conditions, scans with a *)
(* limit, index lookups, joins, order, projection, DISTINCT, aggregates.   *)
(* A table is the sequence of rows that a scan of it comes across, a row a *)
(* function from column names to values; db has the tables and, for every  *)
(* indexed column, the leaf of its index.  LIKE has no wildcards here, AVG *)
(* is left out.                                                            *)
(***************************************************************************)
EXTENDS QueryParser

Answer(rows) == [ok |-> TRUE, rows |-> rows]
Failure == [ok |-> FALSE, rows |-> <<>>]

-----------------------------------------------------------------------------
(* ConditionEvaluator: yes, no, or an exception.                           *)

SameNumber(v, w) == \E x \in ToNumber(v) : x \in ToNumber(w)

\* The operator = : as numbers if either is one.
Equals(v, w) == IF "number" \in {v.t, w.t} THEN SameNumber(v, w) ELSE v = w

Absent(v) == v \in {Null, Undefined}

\* checkSingleCondition; the bounds of BETWEEN are two, or none of them is read.
Satisfies(row, c) ==
    LET v == Get(row, c.key)
        w == c.vals[1]
    IN CASE c.op = "=" -> Equals(v, w)
         [] c.op = "!=" -> ~ Equals(v, w)
         [] c.op = ">" -> Less(w, v)
         [] c.op = "<" -> Less(v, w)
         [] c.op = ">=" -> AtMost(w, v)
         [] c.op = "<=" -> AtMost(v, w)
         [] c.op = "IN" -> v \in ToSet(c.vals)
         [] c.op = "NOT IN" -> v \notin ToSet(c.vals)
         [] c.op = "LIKE" -> Name(v) = Name(w)
         [] c.op = "BETWEEN" -> Len(c.vals) = 2 /\ AtMost(w, v) /\ AtMost(v, c.vals[2])
         [] c.op = "IS NULL" -> Absent(v)
         [] c.op = "IS NOT NULL" -> ~ Absent(v)
         [] OTHER -> FALSE

Single(row, c) ==
    CASE c.type = "none" -> "yes"
      [] c.type = "missing" -> "throws"
      [] OTHER -> IF c.op = "LIKE" /\ ~ IsText(c.vals[1]) THEN "throws"
                  ELSE IF Satisfies(row, c) THEN "yes" ELSE "no"

\* A compound is decided by the first of its verdicts that ends it, and an
\* exception ends it too.
Decided(op, verdicts) ==
    LET end == IF op = "OR" THEN "yes" ELSE "no"
        first == SelectInSeq(verdicts, LAMBDA v : v \in {end, "throws"})
    IN IF first # 0 THEN verdicts[first] ELSE IF op = "OR" THEN "no" ELSE "yes"

\* checkMatch: an OR of ANDs, as the parser leaves it, and with the criteria
\* of a view an AND of these.
Verdict(row, criteria) ==
    LET match(c, V(_)) ==
            IF c.type # "compound" THEN Single(row, c)
            ELSE Decided(c.op, [i \in DOMAIN c.conditions |-> V(c.conditions[i])])
        single(c) == Single(row, c)
        matchAnd(c) == match(c, single)
        matchOr(c) == match(c, matchAnd)
    IN match(criteria, matchOr)

-----------------------------------------------------------------------------
(* Rows of one table.                                                      *)

Unlimited == 0

\* _scanTable: rows behind the last that the limit lets in are not looked at.
Scanned(rows, criteria, limit) ==
    LET look(a, row) ==
            IF ~ a.ok \/ (limit # Unlimited /\ Len(a.rows) >= limit) THEN a
            ELSE CASE Verdict(row, criteria) = "yes" -> Answer(Append(a.rows, row))
                   [] Verdict(row, criteria) = "no" -> a
                   [] OTHER -> Failure
    IN FoldLeft(look, Answer(<<>>), rows)

\* index.insert puts an entry before those of its key and of greater ones.
WithEntry(entries, row, col) ==
    InsertAt(entries,
             1 + Cardinality({i \in DOMAIN entries : Less(entries[i][col], row[col])}), row)

\* createIndex: the entries of the rows that have the column.
Entries(rows, col) ==
    FoldLeft(LAMBDA es, r : IF col \in DOMAIN r THEN WithEntry(es, r, col) ELSE es, <<>>, rows)

\* Mutated form of WithoutEntry: all entries of the key are taken away.
WithoutEntryAll(entries, row, col) ==
    SelectSeq(entries, LAMBDA e : e[col] # row[col])

\* index.delete takes one entry of the key away.
WithoutEntry(entries, row, col) ==
    RemoveFirstMatch(entries, LAMBDA e : e[col] = row[col])

\* index.search: one entry of the key, the first that halving meets.
Searched(entries, col, key) ==
    LET find[l \in 1 .. Len(entries) + 1, r \in 0 .. Len(entries)] ==
            LET mid == (l + r) \div 2
            IN IF l > r THEN <<>>
               ELSE IF entries[mid][col] = key THEN <<entries[mid]>>
               ELSE IF Less(entries[mid][col], key) THEN find[mid + 1, r]
               ELSE find[l, mid - 1]
    IN find[1, Len(entries)]

\* An index is used for one equality and no order.
ByIndex(db, c) ==
    /\ c.criteria.op = "="
    /\ c.sort = NoSort
    /\ <<c.table, c.criteria.key>> \in DOMAIN db.indexes

\* The rows of one table, before they are put in order.
Fetched(db, c) ==
    IF ByIndex(db, c) THEN Answer(Searched(db.indexes[<<c.table, c.criteria.key>>],
                                            c.criteria.key, c.criteria.vals[1]))
    ELSE Scanned(db.tables[c.table], c.criteria, IF c.sort = NoSort THEN c.limit ELSE Unlimited)

\* results.sort is stable: a row goes behind those it does not come before.
Sorted(rows, sort) ==
    LET before(r, s) == IF sort.desc THEN Less(Get(s, sort.key), Get(r, sort.key))
                        ELSE Less(Get(r, sort.key), Get(s, sort.key))
        place(done, r) ==
            LET i == SelectInSeq(done, LAMBDA s : before(r, s))
            IN InsertAt(done, IF i = 0 THEN Len(done) + 1 ELSE i, r)
    IN IF sort = NoSort THEN rows ELSE FoldLeft(place, <<>>, rows)

\* Limit and offset.
Sliced(rows, limit, offset) ==
    LET end == IF limit = Unlimited THEN Len(rows) ELSE Min({offset + limit, Len(rows)})
    IN SubSeq(rows, offset + 1, end)

\* Column projection: what a row has not becomes null.
Projected(rows, cols) ==
    IF cols \in {<<>>, <<"*">>} THEN rows
    ELSE [i \in DOMAIN rows |->
            [c \in ToSet(cols) |-> IF Get(rows[i], c) = Undefined THEN Null ELSE rows[i][c]]]

\* DISTINCT keeps the first of equal rows.
Deduped(rows, distinct) ==
    IF ~ distinct THEN rows
    ELSE FoldLeft(LAMBDA done, r : IF r \in ToSet(done) THEN done ELSE Append(done, r),
                  <<>>, rows)

-----------------------------------------------------------------------------
(* JoinProcessor.                                                          *)

\* Every column once more, under the name of its table.
Prefixed(table, row) ==
    row @@ [c \in {table \o "." \o d : d \in DOMAIN row} |->
                row[CHOOSE d \in DOMAIN row : c = table \o "." \o d]]

\* The columns of the first row, all null.
NullRow(rows) == IF rows = <<>> THEN <<>> ELSE [c \in DOMAIN rows[1] |-> Null]

\* Mutated form of OnMatch: null is a key of the map like any other.
OnMatchNulls(join, l, r) == Get(l, join.left) = Get(r, join.right)

\* Whether a pair of rows fulfils ON.  For = a map from keys to rows decides,
\* which holds neither null nor what is undefined, and compares strictly.
OnMatch(join, l, r) ==
    LET v == Get(l, join.left)
        w == Get(r, join.right)
    IN CASE join.op = "=" -> v = w /\ ~ Absent(v)
         [] join.op \in {"!=", "<>"} -> ~ LooselyEqual(v, w)
         [] join.op = ">" -> Less(w, v)
         [] join.op = "<" -> Less(v, w)
         [] join.op = ">=" -> AtMost(w, v)
         [] join.op = "<=" -> AtMost(v, w)
         [] OTHER -> FALSE

\* One join: the columns of the right row hide those of the left.
Joined(left, join, table) ==
    LET right == [i \in DOMAIN table |-> Prefixed(join.table, table[i])]
        matched(l, r) == join.type = "CROSS" \/ OnMatch(join, l, r)
        rightless == NullRow(right)
        leftless == NullRow(left)
        ofLeft(l) ==
            LET pairs == SelectSeq(right, LAMBDA r : matched(l, r))
            IN IF pairs = <<>> /\ join.type \in {"LEFT", "FULL"} THEN <<rightless @@ l>>
               ELSE [i \in DOMAIN pairs |-> pairs[i] @@ l]
        ofRight(r) ==
            LET pairs == SelectSeq(left, LAMBDA l : matched(l, r))
            IN IF pairs = <<>> THEN <<r @@ leftless>>
               ELSE [i \in DOMAIN pairs |-> r @@ pairs[i]]
        lonely == SelectSeq(right, LAMBDA r : \A i \in DOMAIN left : ~ matched(left[i], r))
    IN IF join.type = "RIGHT" THEN FlattenSeq([i \in DOMAIN right |-> ofRight(right[i])])
       ELSE FlattenSeq([i \in DOMAIN left |-> ofLeft(left[i])])
            \o (IF join.type # "FULL" THEN <<>>
                ELSE [i \in DOMAIN lonely |-> lonely[i] @@ leftless])

\* process
JoinedRows(db, c) ==
    FoldLeft(LAMBDA rows, join : Joined(rows, join, db.tables[join.table]),
             [i \in DOMAIN db.tables[c.table] |-> Prefixed(c.table, db.tables[c.table][i])],
             c.joins)

-----------------------------------------------------------------------------
(* SelectExecutor and AggregateExecutor.                                   *)

\* Every table the command reads is there.
Known(db, c) ==
    c.table \in DOMAIN db.tables /\ \A i \in DOMAIN c.joins : c.joins[i].table \in DOMAIN db.tables

\* SelectExecutor.execute: a join reads all rows, its limit comes last.
Select(db, c) ==
    LET got == IF c.joins = <<>> THEN Fetched(db, c)
               ELSE Scanned(JoinedRows(db, c), c.criteria, Unlimited)
        page == Sliced(Sorted(got.rows, c.sort), c.limit, c.offset)
    IN IF ~ Known(db, c) \/ ~ got.ok THEN Failure
       ELSE Answer(Deduped(Projected(page, c.cols), c.distinct))

\* Number(v) || 0
Addend(v) == IF ToNumber(v) = {} THEN 0 ELSE CHOOSE n \in ToNumber(v) : TRUE

\* The numbers of a column; null is one.
Numbers(rows, col) == UNION {ToNumber(Get(rows[i], col)) : i \in DOMAIN rows}

Aggregates == {"COUNT", "SUM", "MIN", "MAX"}

\* One function over some rows; a group whose function is unknown has none.
Aggregate(func, col, rows) ==
    LET nums == Numbers(rows, col)
    IN CASE func = "COUNT" -> ("count" :> Num(Len(rows)))
         [] func = "SUM" ->
                ("sum" :> Num(FoldLeft(LAMBDA sum, r : sum + Addend(Get(r, col)), 0, rows)))
         [] func = "MIN" -> ("min" :> IF nums = {} THEN Null ELSE Num(Min(nums)))
         [] func = "MAX" -> ("max" :> IF nums = {} THEN Null ELSE Num(Max(nums)))
         [] OTHER -> <<>>

\* Mutated form of GroupKeys: a group needs a value that is not null.
GroupKeysPresent(rows, col) ==
    LET present == SelectSeq(rows, LAMBDA r : ~ Absent(Get(r, col)))
    IN Deduped([i \in DOMAIN present |-> Name(Get(present[i], col))], TRUE)

\* The keys of the groups, texts all of them: numerals in their order, then
\* the others as they come.
GroupKeys(rows, col) ==
    LET keys == Deduped([i \in DOMAIN rows |-> Name(Get(rows[i], col))], TRUE)
    IN SortSeq(SelectSeq(keys, LAMBDA k : k.t = "numeral"), TextLess)
       \o SelectSeq(keys, LAMBDA k : k.t # "numeral")

\* HAVING compares strictly; an operator it does not know lets everything in.
Has(result, having) ==
    LET v == Get(result, having.key)
    IN CASE having.op = "=" -> v = having.val
         [] having.op \in {"!=", "<>"} -> v # having.val
         [] having.op = ">" -> Less(having.val, v)
         [] having.op = "<" -> Less(v, having.val)
         [] having.op = ">=" -> AtMost(having.val, v)
         [] having.op = "<=" -> AtMost(v, having.val)
         [] OTHER -> TRUE

\* groupedAggregate
Grouped(rows, c) ==
    LET group(k) == SelectSeq(rows, LAMBDA r : Name(Get(r, c.group)) = k)
        results == [i \in DOMAIN GroupKeys(rows, c.group) |->
                        LET k == GroupKeys(rows, c.group)[i]
                        IN Aggregate(c.func, c.field, group(k)) @@ (c.group :> k)]
    IN SelectSeq(results, LAMBDA r : Has(r, c.having))

\* AggregateExecutor.execute: the rows are those of a SELECT without columns,
\* which an index answers like any other.  Without groups, HAVING is not read.
Counted(c) == [Blank("SELECT") EXCEPT !.table = c.table, !.criteria = c.criteria]

Aggregated(found, c) ==
    IF ~ found.ok THEN Failure
    ELSE IF c.group # "" THEN Answer(Grouped(found.rows, c))
    ELSE IF c.func \notin Aggregates \/ (c.func # "COUNT" /\ c.field = "") THEN Failure
    ELSE Answer(<<Aggregate(c.func, c.field, found.rows)>>)
=============================================================================
