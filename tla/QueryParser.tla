---------------------------- MODULE QueryParser ----------------------------
(***************************************************************************)
(* QueryParser from the tokens on: SELECT with joins, conditions, order    *)
(* and limits, HITUNG, DELETE and INSERT, and the binding of parameters.   *)
(* A token has the word that keywords are compared with and the value it   *)
(* is as a literal.  All quoted texts share one word, so none is ever a    *)
(* keyword; a keyword or column read as a value is a text no row holds.    *)
(* What does not parse becomes a command of type ERROR.  Left out: TRUE,   *)
(* FALSE and fractions, LIKE with wildcards, UPDATE, the statements that   *)
(* Catalog begins with, texts that end right behind ORDER or URUTKAN.      *)
(***************************************************************************)
EXTENDS Values, SequencesExt

Placeholder == Word(-1)

Bare(word) == [word |-> word, value |-> Word(0)]
Parameter == [word |-> "@p", value |-> Placeholder]
Literal(v) == [word |-> "literal", value |-> v]

WordAt(ts, i) == IF i \in DOMAIN ts THEN ts[i].word ELSE ""
ValueAt(ts, i) == IF i \in DOMAIN ts THEN ts[i].value ELSE Undefined

\* The keywords, with their second language.
Ands == {"AND", "DAN"}
Ors == {"OR", "ATAU"}
Nots == {"NOT", "TIDAK"}
Nulls == {"NULL", "KOSONG"}
Ins == {"IN", "DALAM"}
Betweens == {"BETWEEN", "ANTARA"}
Froms == {"FROM", "DARI"}
Wheres == {"WHERE", "DIMANA"}
Limits == {"LIMIT", "HANYA"}
Groups == {"GROUP", "KELOMPOK"}
ConditionEnds == Limits \cup Groups \cup
    {"DENGAN", "ORDER", "URUTKAN", "OFFSET", "MULAI", "LANGKAHI", ")", ";"}

\* The first place from i on whose word is in a set, or the end.
Until(ts, i, words) ==
    LET j == SelectInSubSeq(ts, i, Len(ts), LAMBDA x : x.word \in words)
    IN IF j = 0 THEN Len(ts) + 1 ELSE j

Skip(ts, i, words) == IF WordAt(ts, i) \in words THEN i + 1 ELSE i

\* The words of a list that commas separate, from place i to place j.
Listed(ts, i, j) == SelectSeq(SubSeq(ts, i, j), LAMBDA x : x.word # ",")

Numbered(v) == IF v.t = "number" THEN v.n ELSE 0

-----------------------------------------------------------------------------
(* Conditions.                                                             *)

Item(type, op, key, vals) ==
    [type |-> type, op |-> op, key |-> key, vals |-> vals, conditions |-> <<>>]
Cond(key, op, vals) == Item("cond", op, key, vals)
Logic(op) == Item("logic", op, "", <<>>)
Compound(op, cs) == [Item("compound", op, "", <<>>) EXCEPT !.conditions = cs]
NoCriteria == Item("none", "", "", <<>>)
Missing == Item("missing", "", "", <<>>)    \* undefined, where a condition is read
Malformed == Item("error", "", "", <<>>)    \* the parser throws

\* The items the loop over the conditions makes at place i, and how many
\* places it moves on: none ends it.  BETWEEN and IS leave a second condition
\* behind their own, since the branch of the plain operators runs for them as
\* well, and always move on by three places.
ItemsAt(ts, i) ==
    LET w == [k \in 0 .. 3 |-> WordAt(ts, i + k)]
        v == [k \in {2, 4} |-> ValueAt(ts, i + k)]
        not == IF w[1] \in Nots THEN 1 ELSE 0
        close == Until(ts, i + 3 + not, {")"})
        list == Listed(ts, i + 3 + not, close - 1)
        found(items, n) == [items |-> items, move |-> n]
        conds(op, vals, more) == found(<<Cond(w[0], op, vals)>> \o more, 3)
        plain(op) == <<Cond(w[0], op, <<v[2]>>)>>
        throws == found(<<Malformed>>, 0)
        ends == found(<<>>, 0)
    IN IF i > Len(ts) \/ w[0] \in ConditionEnds THEN ends
       ELSE IF w[0] \in Ands \cup Ors
       THEN found(<<Logic(IF w[0] \in Ands THEN "AND" ELSE "OR")>>, 1)
       ELSE IF i = Len(ts) THEN ends
       ELSE CASE w[1] \in Betweens ->
                    IF w[3] \in Ands THEN conds("BETWEEN", <<v[2], v[4]>>, plain("BETWEEN"))
                    ELSE throws
              [] w[1] = "IS" ->
                    IF w[2] \in Nulls THEN conds("IS NULL", <<>>, plain("IS"))
                    ELSE IF w[2] \in Nots /\ w[3] \in Nulls
                    THEN conds("IS NOT NULL", <<>>, plain("IS"))
                    ELSE throws
              [] w[1] \in Nots /\ w[2] \notin Ins -> IF w[2] = "" THEN throws ELSE ends
              [] w[1] \in Ins \/ (w[1] \in Nots /\ w[2] \in Ins) ->
                    IF w[2 + not] # "("
                    THEN found(<<Cond(w[0], "IN WITHOUT A LIST", <<>>)>>, 2 + not)
                    ELSE IF list = <<>> /\ close > Len(ts) THEN throws
                    ELSE found(<<Cond(w[0], IF not = 1 THEN "NOT IN" ELSE "IN",
                                      [j \in DOMAIN list |-> list[j].value])>>, close - i + 1)
              [] OTHER -> found(plain(IF w[1] = "SEPERTI" THEN "LIKE" ELSE w[1]), 3)

\* The loop, from every place on.
Conditions(ts) ==
    LET from[i \in Nat] ==
            LET here == ItemsAt(ts, i)
            IN here.items \o (IF here.move = 0 THEN <<>> ELSE from[i + here.move])
    IN from

\* Mutated form of Tree: OR binds like AND.
TreeFlat(items) ==
    Compound("AND", SelectSeq(items, LAMBDA x : x.type # "logic"))

\* The two passes over conditions and connectives, which are taken to
\* alternate: first the runs of AND, then the OR of what is left at the even
\* places.
Tree(items) ==
    LET after(k) == IF k + 1 \in DOMAIN items THEN items[k + 1] ELSE Missing
        pass(st, k) ==
            IF items[k].op # "AND"
            THEN [done |-> st.done \o <<st.current, items[k]>>, current |-> after(k)]
            ELSE IF st.current.type = "compound"
            THEN [st EXCEPT !.current.conditions = Append(@, after(k))]
            ELSE [st EXCEPT !.current = Compound("AND", <<st.current, after(k)>>)]
        st == FoldLeft(pass, [done |-> <<>>, current |-> items[1]],
                       [j \in 1 .. Len(items) \div 2 |-> 2 * j])
        all == Append(st.done, st.current)
    IN IF Len(all) = 1 THEN all[1]
       ELSE Compound("OR", [j \in 1 .. (Len(all) + 1) \div 2 |-> all[2 * j - 1]])

\* parseWhere
ParseWhere ==
    [items \in Seq([type : STRING, op : STRING, key : STRING,
                    vals : Seq([t : STRING, n : Int]), conditions : {<<>>}]) |->
        IF items = <<>> THEN NoCriteria
        ELSE IF Malformed \in ToSet(items) THEN Malformed
        ELSE Tree(items)]

\* The criteria at every place, where there is a WHERE.
Criteria(ts) ==
    [i \in Nat |-> IF WordAt(ts, i) \in Wheres THEN ParseWhere[Conditions(ts)[i + 1]]
                   ELSE NoCriteria]

-----------------------------------------------------------------------------
(* Commands.                                                               *)

NoSort == [key |-> "", desc |-> FALSE]
NoHaving == [key |-> "", op |-> "", val |-> Undefined]
NoRow == << >>

Blank(type) ==
    [type |-> type, table |-> "", cols |-> <<>>, distinct |-> FALSE, joins |-> <<>>,
     criteria |-> NoCriteria, sort |-> NoSort, limit |-> 0, offset |-> 0,
     func |-> "", field |-> "", group |-> "", having |-> NoHaving, data |-> NoRow,
     query |-> <<>>]
Unparsed == Blank("ERROR")

\* A command that does not parse, as a whole, in its conditions or in
\* the command of its view.
Fails(c) ==
    \E d \in {c} \cup ToSet(c.query) : d.type = "ERROR" \/ d.criteria = Malformed

Sides ==
    [LEFT |-> "LEFT", KIRI |-> "LEFT", RIGHT |-> "RIGHT", KANAN |-> "RIGHT",
     FULL |-> "FULL", PENUH |-> "FULL", CROSS |-> "CROSS", SILANG |-> "CROSS"]
JoinWords == {"JOIN", "GABUNG"}

\* The join at place i, if there is one, and the place behind it; next is 0
\* if the parser throws.
JoinAt(ts, i) ==
    LET w == [k \in Nat |-> WordAt(ts, k)]
        skip(words) == [k \in Nat |-> Skip(ts, k, words)]
        sided == Skip(ts, i, {"GABUNG"})
        from == IF w[sided] \in {"KIRI", "KANAN", "SILANG", "PENUH"} THEN sided ELSE i
        type == IF w[from] \in DOMAIN Sides THEN Sides[w[from]] ELSE "INNER"
        outer == IF type \in {"LEFT", "RIGHT", "FULL"} THEN {"OUTER"} ELSE {}
        found(joins, next) == [joins |-> joins, next |-> next]
        named == [k \in Nat |->
            LET cross == [type |-> type, table |-> w[k], left |-> "", op |-> "", right |-> ""]
            IN IF type = "CROSS" THEN found(<<cross>>, k + 1)
               ELSE IF w[k + 1] \notin {"ON", "PADA"} THEN found(<<>>, 0)
               ELSE found(<<[cross EXCEPT !.left = w[k + 2], !.op = w[k + 3],
                                          !.right = w[k + 4]]>>, k + 5)]
    IN IF w[from] \notin DOMAIN Sides \cup JoinWords \cup {"INNER"} THEN found(<<>>, i)
       ELSE IF w[from] = "INNER" /\ w[i + 1] \notin JoinWords THEN found(<<>>, i + 1)
       ELSE named[IF w[from] \in JoinWords THEN from + 1
                  ELSE skip(JoinWords)[skip(outer)[from + 1]]]

\* The joins from every place on.
Joins(ts) ==
    LET from[i \in Nat] ==
            LET here == JoinAt(ts, i)
                rest == from[here.next]
            IN IF here.joins = <<>> THEN here
               ELSE [joins |-> here.joins \o rest.joins, next |-> rest.next]
    IN from

\* The sort clause at every place, and the place behind it.
Sort(ts) ==
    [i \in Nat |->
        LET by == CASE WordAt(ts, i) = "ORDER" -> Skip(ts, i + 1, {"BY"})
                    [] WordAt(ts, i) = "URUTKAN" -> Skip(ts, i + 1, {"BERDASARKAN"})
                    [] OTHER -> i
        IN IF by \in DOMAIN ts /\ WordAt(ts, by - 1) \in {"BY", "BERDASARKAN"}
           THEN [sort |-> [key |-> WordAt(ts, by), desc |-> WordAt(ts, by + 1) \in {"DESC", "TURUN"}],
                 next |-> Skip(ts, by + 1, {"ASC", "DESC", "NAIK", "TURUN"})]
           ELSE [sort |-> NoSort, next |-> by]]

\* The limit and the offset from every place on.
Slice(ts) ==
    [i \in Nat |->
        LET limited == WordAt(ts, i) \in Limits
            k == IF limited THEN i + 2 ELSE i
            skip == CASE WordAt(ts, k) \in {"OFFSET", "LANGKAHI"} -> k + 1
                      [] WordAt(ts, k) = "MULAI" -> Skip(ts, k + 1, {"DARI"})
                      [] OTHER -> Len(ts) + 1
        IN [limit |-> IF limited THEN Numbered(ValueAt(ts, i + 1)) ELSE 0,
            offset |-> Numbered(ValueAt(ts, skip))]]

\* Behind conditions, the other word for OFFSET is not looked for.
BehindWhere(ts, i) ==
    IF WordAt(ts, i) \notin Wheres THEN i
    ELSE Until(ts, i + 1, Limits \cup {"ORDER", "URUTKAN", "OFFSET", "MULAI"})

\* A command with the clauses behind its table and joins, from every place
\* on; there is none where a join did not parse.
Clauses(ts, cmd) ==
    [i \in Nat |->
        LET sorted == Sort(ts)[BehindWhere(ts, i)]
            sliced == Slice(ts)[sorted.next]
        IN IF i = 0 THEN Unparsed
           ELSE [cmd EXCEPT !.criteria = Criteria(ts)[i], !.sort = sorted.sort,
                            !.limit = sliced.limit, !.offset = sliced.offset]]

\* parseSelect, of the command that begins at a place.
ParseSelect(ts, at) ==
    LET first == Skip(ts, at + 1, {"DISTINCT"})
        from == Until(ts, first, Froms)
        cols == Listed(ts, first, from - 1)
        joined == Joins(ts)[from + 2]
        cmd == [Blank("SELECT") EXCEPT !.table = WordAt(ts, from + 1),
                                       !.cols = [j \in DOMAIN cols |-> cols[j].word],
                                       !.distinct = first = at + 2,
                                       !.joins = joined.joins]
    IN IF from > Len(ts) THEN Unparsed ELSE Clauses(ts, cmd)[joined.next]

\* HAVING, at every place.
HavingAt(ts) ==
    [i \in Nat |->
        LET test == CASE WordAt(ts, i) \in {"HAVING", "PUNYA"} -> i + 1
                      [] WordAt(ts, i) = "DENGAN" /\ WordAt(ts, i + 1) = "SYARAT" -> i + 2
                      [] OTHER -> 0
            v == ValueAt(ts, test + 2)
        IN IF test = 0 THEN NoHaving
           ELSE [key |-> WordAt(ts, test), op |-> WordAt(ts, test + 1),
                 val |-> IF v.t = "number" \/ v = Undefined THEN v ELSE Word(0)]]

\* parseAggregate
ParseAggregate(ts) ==
    LET where == IF WordAt(ts, 8) \in Wheres
                 THEN Until(ts, 9, Groups \cup {"DENGAN", "HAVING"}) ELSE 8
        grouped == WordAt(ts, where) \in Groups
        field == IF WordAt(ts, where) = "GROUP" THEN Skip(ts, where + 1, {"BY"}) ELSE where + 1
    IN IF \/ WordAt(ts, where) = "GROUP" /\ where = Len(ts)
          \/ WordAt(ts, 3) # "(" \/ WordAt(ts, 5) # ")" \/ WordAt(ts, 6) \notin Froms
       THEN Unparsed
       ELSE [Blank("AGGREGATE") EXCEPT
                !.table = WordAt(ts, 7),
                !.func = WordAt(ts, 2),
                !.field = IF WordAt(ts, 4) = "*" THEN "" ELSE WordAt(ts, 4),
                !.criteria = Criteria(ts)[8],
                !.group = IF grouped THEN WordAt(ts, field) ELSE "",
                !.having = HavingAt(ts)[IF grouped THEN field + 1 ELSE where]]

\* parseDelete
ParseDelete(ts) ==
    IF <<WordAt(ts, 1), WordAt(ts, 2)>> \notin {<<"DELETE", "FROM">>, <<"GUSUR", "DARI">>}
    THEN Unparsed
    ELSE [Blank("DELETE") EXCEPT !.table = WordAt(ts, 3), !.criteria = Criteria(ts)[4]]

\* parseInsert
ParseInsert(ts) ==
    LET close == Until(ts, 5, {")"})
        last == Until(ts, close + 3, {")"})
        cols == Listed(ts, 5, close - 1)
        vals == Listed(ts, close + 3, last - 1)
        read(x) == IF x.word = "NULL" THEN Null ELSE x.value
    IN IF \/ <<WordAt(ts, 1), WordAt(ts, 2)>> \notin {<<"INSERT", "INTO">>, <<"TANAM", "KE">>}
          \/ WordAt(ts, 4) # "("
          \/ WordAt(ts, close + 1) \notin {"VALUES", "BIBIT"}
          \/ WordAt(ts, close + 2) # "("
          \/ last > Len(ts)
          \/ Len(cols) # Len(vals)
       THEN Unparsed
       ELSE [Blank("INSERT") EXCEPT
                !.table = WordAt(ts, 3),
                !.data = [c \in {cols[j].word : j \in DOMAIN cols} |->
                             read(vals[SelectLastInSeq(cols, LAMBDA x : x.word = c)])]]

\* parseCreateView; the view's command is a part of this one.
ParseCreateView(ts) ==
    IF WordAt(ts, 2) # "TEROPONG" \/ WordAt(ts, 4) # "SEBAGAI" THEN Unparsed
    ELSE [Blank("CREATE_VIEW") EXCEPT !.table = WordAt(ts, 3),
                                      !.query = <<ParseSelect(ts, 5)>>]

\* parseCreateIndex, in the first of its languages.
ParseCreateIndex(ts) ==
    IF Len(ts) < 4 \/ WordAt(ts, 3) # "PADA" THEN Unparsed
    ELSE [Blank("CREATE_INDEX") EXCEPT !.table = WordAt(ts, 2), !.field = WordAt(ts, 4)]

\* parse
Parse ==
    [ts \in Seq([word : STRING, value : [t : STRING, n : Int]]) |->
        CASE WordAt(ts, 1) \in {"SELECT", "PANEN"} -> ParseSelect(ts, 1)
          [] WordAt(ts, 1) = "HITUNG" -> ParseAggregate(ts)
          [] WordAt(ts, 1) \in {"DELETE", "GUSUR"} -> ParseDelete(ts)
          [] WordAt(ts, 1) \in {"INSERT", "TANAM"} -> ParseInsert(ts)
          [] WordAt(ts, 1) = "PASANG" -> ParseCreateView(ts)
          [] WordAt(ts, 1) = "INDEKS" -> ParseCreateIndex(ts)
          [] OTHER -> Unparsed]

-----------------------------------------------------------------------------
(* Parameters: a value p for the one name @p, or none.                     *)

NoParams == [t |-> "none", n |-> 0]

BindValue(v, p) == IF v = Placeholder /\ p # NoParams THEN p ELSE v

BindVals(c, p) == [c EXCEPT !.vals = [j \in DOMAIN @ |-> BindValue(@[j], p)]]

\* _info_bindCriteria, for an OR of ANDs, as the parser leaves it.
BindCriteria(c, p) ==
    LET all(d) == [d EXCEPT !.conditions = [j \in DOMAIN @ |-> BindVals(@[j], p)]]
    IN [BindVals(c, p) EXCEPT !.conditions = [j \in DOMAIN @ |-> all(BindVals(@[j], p))]]

\* Something is undefined where _info_bindCriteria looks for a condition.
Holed(c) ==
    \E d \in ToSet(c.conditions) : d = Missing \/ Missing \in ToSet(d.conditions)

\* _bindParameters; it reads a type of what is missing, and throws.
Bind(cmd, p) ==
    IF Holed(cmd.criteria) THEN Unparsed
    ELSE [cmd EXCEPT !.criteria = BindCriteria(@, p),
                     !.data = [c \in DOMAIN @ |-> BindValue(@[c], p)]]
=============================================================================
