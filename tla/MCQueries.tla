----------------------------- MODULE MCQueries -----------------------------
(***************************************************************************)
(* Instances of Queries for TLC: two tables t and u, of rows with a number *)
(* or null in a and a word in b, and questions of every form.  No column   *)
(* mixes numbers and texts, which the order of the language does not rank. *)
(***************************************************************************)
EXTENDS Queries

Row(id, a, b) == [id |-> Num(id), a |-> a, b |-> Word(b)]

SomeContents ==
    {[t |-> <<Row(1, Num(2), 1), Row(2, Num(1), 2), Row(3, Num(2), 2)>>,
      u |-> <<Row(4, Num(2), 1), Row(5, Num(2), 2), Row(6, Null, 1)>>],
     [t |-> <<Row(1, Null, 1), Row(2, Num(3), 1)>>, u |-> <<>>]}

C(key, op, vals) == Cond(key, op, vals)
A(op, n) == C("a", op, <<Num(n)>>)
B(op, n) == C("b", op, <<Word(n)>>)

T == Question("SELECT", "t")

Singles ==
    {Where(T, <<<<c>>>>) : c \in {A("=", 2), A("!=", 2), A("<", 2), A(">=", 2),
                                   C("a", "=", <<Placeholder>>),
                                   C("a", "IN", <<Num(1), Num(3)>>),
                                   C("b", "NOT IN", <<Word(1)>>),
                                   C("a", "BETWEEN", <<Num(2), Num(3)>>)}}

Compounds ==
    {Where(T, <<<<A("=", 1)>>, <<A(">", 1), B("=", 2)>>>>),
     Where(T, <<<<B("=", 1), A("=", 3)>>, <<A("=", 1)>>>>),
     Where(T, <<<<A("=", 1)>>, <<B("=", 1)>>, <<C("a", "BETWEEN", <<Num(2), Num(2)>>)>>>>)}

Shaped ==
    {[T EXCEPT !.sort = [key |-> "a", desc |-> TRUE], !.limit = 1, !.offset = 1],
     [T EXCEPT !.sort = [key |-> "b", desc |-> FALSE], !.limit = 2],
     [T EXCEPT !.limit = 1, !.where = <<<<A(">", 1)>>>>],
     [T EXCEPT !.offset = 1],
     [T EXCEPT !.cols = <<"a">>, !.distinct = TRUE],
     [T EXCEPT !.cols = <<"b", "c">>, !.sort = [key |-> "id", desc |-> TRUE]]}

J(type, op) == [type |-> type, table |-> "u", left |-> "t.a", op |-> op, right |-> "u.a"]

Joining ==
    {[T EXCEPT !.joins = <<J(type, "=")>>] : type \in {"INNER", "LEFT", "RIGHT", "FULL"}}
    \cup {[T EXCEPT !.joins = <<J(type, "<")>>] : type \in {"RIGHT", "FULL"}}
    \cup {[T EXCEPT !.joins = <<[J("CROSS", "") EXCEPT !.left = "", !.right = ""]>>]}

H == Question("HITUNG", "t")

Counting ==
    {[H EXCEPT !.group = "b"],
     [H EXCEPT !.group = "a", !.func = "SUM", !.field = "a"],
     [H EXCEPT !.group = "a", !.where = <<<<B("=", 1)>>, <<A("=", 2)>>>>],
     [H EXCEPT !.group = "b", !.having = [key |-> "count", op |-> ">", val |-> Num(1)]],
     [H EXCEPT !.group = "b", !.func = "SUM", !.field = "a", !.where = <<<<A("!=", 1)>>>>,
               !.having = [key |-> "sum", op |-> "<=", val |-> Num(2)]],
     [H EXCEPT !.where = <<<<A("<", 3)>>>>],
     [H EXCEPT !.func = "MAX", !.field = "a"], [H EXCEPT !.func = "MIN", !.field = "a"]}

V == [Question("VIEW", "t") EXCEPT !.view = "v"]

Changing ==
    {[V EXCEPT !.where = <<<<A(">=", 2)>>, <<B("=", 2)>>>>],
     [V EXCEPT !.sort = [key |-> "a", desc |-> FALSE], !.cols = <<"id">>],
     Where(Question("SELECT", "v"), <<<<B("=", 1)>>>>),
     Where(Question("SELECT", "v"), <<<<A("=", 2)>>, <<B("=", 2)>>>>),
     [Question("INDEX", "t") EXCEPT !.field = "a"],
     [Question("INSERT", "t") EXCEPT !.row = Row(8, Null, 2)],
     Where(Question("DELETE", "t"), <<<<A("=", 2)>>>>),
     Where(Question("DELETE", "none"), <<<<A("=", 2)>>>>),
     Where(Question("DELETE", "t"), <<<<C("a", "IS NOT NULL", <<>>)>>>>),
     Where(Question("DELETE", "t"), <<<<C("a", "IS NULL", <<>>)>>>>),
     Where(Question("DELETE", "t"), <<<<B("=", 1), A("=", 2)>>, <<A("=", 1)>>>>)}

Tanis ==
    {[q EXCEPT !.tani = TRUE] :
        q \in {Where(T, <<<<B("=", 1), C("a", "IN", <<Num(3)>>)>>,
                         <<C("a", "BETWEEN", <<Num(1), Num(1)>>)>>>>),
               Where(T, <<<<C("b", "NOT IN", <<Word(2), Word(3)>>)>>, <<B("LIKE", 2), A("<", 2)>>>>),
               [T EXCEPT !.sort = [key |-> "a", desc |-> TRUE], !.limit = 1, !.offset = 1],
               [T EXCEPT !.joins = <<J("LEFT", "=")>>],
               [Question("INSERT", "t") EXCEPT !.row = Row(9, Num(2), 1)],
               Where(Question("DELETE", "t"), <<<<A("=", 3)>>>>)}}

Statements == Tanis \cup Singles \cup Compounds \cup Shaped \cup Joining \cup Counting \cup Changing

\* Texts that hold the parameter also come with a value for it.
SomeGiven ==
    {<<q, NoParams>> : q \in Statements}
    \cup {<<Where(T, <<<<C("a", "=", <<Placeholder>>)>>>>), Num(2)>>,
          <<[Question("INSERT", "t") EXCEPT !.row = Row(7, Placeholder, 1)], Num(2)>>,
          <<Where(Question("DELETE", "t"), <<<<C("a", "IS NULL", <<>>)>>>>), Num(2)>>}

\* The query of README.md:176.
Documented == {<<q, NoParams>> : q \in {Where(T, <<<<C("a", "BETWEEN", <<Num(1), Num(2)>>),
                            C("b", "IS NOT NULL", <<>>)>>>>),
               [Question("INSERT", "t") EXCEPT !.row = [Row(7, Num(1), 1) EXCEPT !.b = Null]]}}
=============================================================================
