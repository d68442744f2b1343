----------------------------- MODULE Questions -----------------------------
(***************************************************************************)
(* What a client asks, apart from how the engine reads it: a question is a *)
(* record; Text writes it down in the documented syntax (README.md:160-310)*)
(* and Meant says which rows it asks for.                                  *)
(* The conditions of a question are alternatives, each a sequence of       *)
(* conditions that hold together: <<<<a, b>>, <<c>>>> is a AND b OR c.     *)
(***************************************************************************)
EXTENDS QueryExecutor

Question(verb, table) ==
    [verb |-> verb, table |-> table, distinct |-> FALSE, cols |-> <<"*">>, joins |-> <<>>,
     where |-> <<>>, sort |-> NoSort, limit |-> Unlimited, offset |-> 0,
     func |-> "COUNT", field |-> "*", group |-> "", having |-> NoHaving,
     row |-> NoRow, view |-> "", tani |-> FALSE]

Where(q, alternatives) == [q EXCEPT !.where = alternatives]

\* The parts with a separator between them.
Between(parts, sep) ==
    FlattenSeq([i \in DOMAIN parts |-> IF i = 1 THEN parts[i] ELSE sep \o parts[i]])

Words(ws) == [i \in DOMAIN ws |-> Bare(ws[i])]
Listing(parts) == Between(parts, Words(<<",">>))
If(clause, tokens) == IF clause THEN tokens ELSE <<>>

\* A value is written as it is, and the placeholder as a parameter.
Term(v) == <<IF v = Placeholder THEN Parameter ELSE IF v = Null THEN Bare("NULL") ELSE Literal(v)>>
Terms(vs) == [i \in DOMAIN vs |-> Term(vs[i])]

CondText(c) ==
    CASE c.op = "BETWEEN" -> Words(<<c.key, "BETWEEN">>) \o Between(Terms(c.vals), Words(<<"AND">>))
      [] c.op = "IS NULL" -> Words(<<c.key, "IS", "NULL">>)
      [] c.op = "IS NOT NULL" -> Words(<<c.key, "IS", "NOT", "NULL">>)
      [] c.op = "IN" -> Words(<<c.key, "IN", "(">>) \o Listing(Terms(c.vals)) \o Words(<<")">>)
      [] c.op = "NOT IN" ->
            Words(<<c.key, "NOT", "IN", "(">>) \o Listing(Terms(c.vals)) \o Words(<<")">>)
      [] OTHER -> Words(<<c.key, c.op>>) \o Term(c.vals[1])

WhereText(q) ==
    LET both(alternative) == Between([i \in DOMAIN alternative |-> CondText(alternative[i])],
                                     Words(<<"AND">>))
    IN If(q.where # <<>>,
          Words(<<"WHERE">>)
          \o Between([i \in DOMAIN q.where |-> both(q.where[i])], Words(<<"OR">>)))

JoinText(j) ==
    IF j.type = "CROSS" THEN Words(<<"CROSS", "JOIN", j.table>>)
    ELSE Words(<<j.type, "JOIN", j.table, "ON", j.left, j.op, j.right>>)

SelectText(q) ==
    Words(<<"SELECT">>) \o If(q.distinct, Words(<<"DISTINCT">>))
    \o Listing([i \in DOMAIN q.cols |-> Words(<<q.cols[i]>>)])
    \o Words(<<"FROM", q.table>>)
    \o FlattenSeq([i \in DOMAIN q.joins |-> JoinText(q.joins[i])])
    \o WhereText(q)
    \o If(q.sort # NoSort, Words(<<"ORDER", "BY", q.sort.key>>)
                           \o If(q.sort.desc, Words(<<"DESC">>)))
    \o If(q.limit # Unlimited, Words(<<"LIMIT">>) \o Term(Num(q.limit)))
    \o If(q.offset # 0, Words(<<"OFFSET">>) \o Term(Num(q.offset)))

English(q) ==
    CASE q.verb = "SELECT" -> SelectText(q)
      [] q.verb = "DELETE" -> Words(<<"DELETE", "FROM", q.table>>) \o WhereText(q)
      [] q.verb = "HITUNG" -> Words(<<"HITUNG", q.func, "(", q.field, ")", "FROM", q.table>>)
                              \o WhereText(q) \o If(q.group # "", Words(<<"GROUP", "BY", q.group>>))
                              \o If(q.having # NoHaving, Words(<<"HAVING", q.having.key, q.having.op>>)
                                                        \o Term(q.having.val))
      [] q.verb = "INSERT" ->
            LET cols == SetToSeq(DOMAIN q.row)
            IN Words(<<"INSERT", "INTO", q.table, "(">>)
               \o Listing([i \in DOMAIN cols |-> Words(<<cols[i]>>)])
               \o Words(<<")", "VALUES", "(">>)
               \o Listing([i \in DOMAIN cols |-> Term(q.row[cols[i]])]) \o Words(<<")">>)
      [] q.verb = "INDEX" -> Words(<<"INDEKS", q.table, "PADA", q.field>>)
      [] q.verb = "VIEW" -> Words(<<"PASANG", "TEROPONG", q.view, "SEBAGAI">>) \o SelectText(q)

\* The second language, word by word.
Tani ==
    {<<"SELECT", "PANEN">>, <<"FROM", "DARI">>, <<"WHERE", "DIMANA">>,
     <<"AND", "DAN">>, <<"OR", "ATAU">>, <<"BETWEEN", "ANTARA">>, <<"IN", "DALAM">>,
     <<"NOT", "TIDAK">>, <<"LIKE", "SEPERTI">>, <<"ORDER", "URUTKAN">>,
     <<"BY", "BERDASARKAN">>, <<"DESC", "TURUN">>, <<"LIMIT", "HANYA">>,
     <<"OFFSET", "LANGKAHI">>, <<"LEFT", "KIRI">>, <<"RIGHT", "KANAN">>,
     <<"FULL", "PENUH">>, <<"CROSS", "SILANG">>, <<"JOIN", "GABUNG">>,
     <<"ON", "PADA">>, <<"DELETE", "GUSUR">>, <<"INSERT", "TANAM">>,
     <<"INTO", "KE">>, <<"VALUES", "BIBIT">>, <<"HAVING", "PUNYA">>}

InTani(word) ==
    IF \E p \in Tani : p[1] = word THEN (CHOOSE p \in Tani : p[1] = word)[2] ELSE word

Text(q) ==
    LET said == English(q)
    IN IF q.tani THEN [i \in DOMAIN said |-> [said[i] EXCEPT !.word = InTani(@)]] ELSE said

-----------------------------------------------------------------------------
(* Meaning, with the value p for the parameter.                            *)

Meets(row, q, p) ==
    q.where = <<>> \/ \E i \in DOMAIN q.where : \A j \in DOMAIN q.where[i] :
        LET c == q.where[i][j]
        IN Satisfies(row, [c EXCEPT !.vals = [k \in DOMAIN @ |-> BindValue(@[k], p)]])

\* The rows, of those at certain places, that a question asks for: in its
\* order and otherwise as they come, from its offset on as many as its limit,
\* with its columns, and each once if it says so.
Meant(rows, places, q) ==
    LET col(i) == Get(rows[i], q.sort.key)
        less(i, j) == IF q.sort.desc THEN Less(col(j), col(i)) ELSE Less(col(i), col(j))
        before(i, j) == IF q.sort = NoSort \/ ~ (less(i, j) \/ less(j, i)) THEN i < j
                        ELSE less(i, j)
        rank(i) == Cardinality({j \in places : before(j, i)})
        wanted == {i \in places : /\ rank(i) >= q.offset
                                  /\ q.limit = Unlimited \/ rank(i) < q.offset + q.limit}
        shown(i) == IF q.cols = <<"*">> THEN rows[i]
                    ELSE [c \in ToSet(q.cols) |->
                            IF Get(rows[i], c) = Undefined THEN Null ELSE rows[i][c]]
        kept == {i \in wanted : ~ q.distinct \/ ~ \E j \in wanted :
                                    before(j, i) /\ shown(j) = shown(i)}
        order == SetToSortSeq(kept, before)
    IN [k \in DOMAIN order |-> shown(order[k])]

\* The rows that a SELECT of one table asks for.
Asked(rows, q, p) == Meant(rows, {i \in DOMAIN rows : Meets(rows[i], q, p)}, q)

\* The groups that a HITUNG asks for, of the rows that meet its conditions:
\* one for each value of its column, with the count of its rows or their sum,
\* if HAVING lets it in.
MeantGroups(rows, q) ==
    LET value(i) == Name(Get(rows[i], q.group))
        result == IF q.func = "COUNT" THEN "count" ELSE "sum"
        total(v) == MapThenSumSet(LAMBDA i : IF q.func = "COUNT" THEN 1
                                              ELSE Addend(Get(rows[i], q.field)),
                                  {i \in DOMAIN rows : value(i) = v})
        groups == {[c \in {q.group, result} |-> IF c = result THEN Num(total(v)) ELSE v] :
                        v \in {value(i) : i \in DOMAIN rows}}
    IN {g \in groups : \/ q.having = NoHaving
                       \/ Satisfies(g, Cond(q.having.key, q.having.op, <<q.having.val>>))}

\* Whether a row tells what a HITUNG without groups asks of some rows.  Values
\* that read as no number count neither as least nor as greatest.
IsMeantTotal(total, rows, q) ==
    LET read(i) == ToNumber(Get(rows[i], q.field))
        among(n) == \E i \in DOMAIN rows : n \in read(i)
        bound(n) == \A i \in DOMAIN rows : \A m \in read(i) : IF q.func = "MIN" THEN n <= m ELSE m <= n
        extreme(v) == IF \A i \in DOMAIN rows : read(i) = {} THEN v = Null
                      ELSE v.t = "number" /\ among(v.n) /\ bound(v.n)
    IN CASE q.func = "COUNT" -> total = ("count" :> Num(Len(rows)))
         [] q.func = "SUM" ->
                total = ("sum" :> Num(MapThenSumSet(LAMBDA i : Addend(Get(rows[i], q.field)),
                                                    DOMAIN rows)))
         [] q.func = "MIN" -> DOMAIN total = {"min"} /\ extreme(total["min"])
         [] q.func = "MAX" -> DOMAIN total = {"max"} /\ extreme(total["max"])

\* The pairs of rows that a join of two tables asks for, by their columns
\* "id"; a row without a partner is with null.
MeantPairs(db, q) ==
    LET j == q.joins[1]
        ls == ToSet(db.tables[q.table])
        rs == ToSet(db.tables[j.table])
        partners(l, r) ==
            \/ j.type = "CROSS"
            \/ LET v == Prefixed(q.table, l)[j.left]
                   w == Prefixed(j.table, r)[j.right]
               IN IF j.op = "=" THEN v = w /\ ~ Absent(v) ELSE Less(v, w)
    IN {<<l.id, r.id>> : <<l, r>> \in {lr \in ls \X rs : partners(lr[1], lr[2])}}
       \cup {<<l.id, Null>> : l \in {x \in ls : /\ j.type \in {"LEFT", "FULL"}
                                                 /\ ~ \E r \in rs : partners(x, r)}}
       \cup {<<Null, r.id>> : r \in {x \in rs : /\ j.type \in {"RIGHT", "FULL"}
                                                 /\ ~ \E l \in ls : partners(l, x)}}
=============================================================================
