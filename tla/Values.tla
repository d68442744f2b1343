------------------------------- MODULE Values -------------------------------
(***************************************************************************)
(* The values a row or a query holds, and how the code compares them.  A   *)
(* value has a type t and a number n: a number, a text that reads as the   *)
(* number n (a numeral, of one digit), another text (a word, n is its      *)
(* place in the order of words), null, or undefined for a column that a    *)
(* row has not.                                                            *)
(***************************************************************************)
EXTENDS Integers, Sequences

Num(n) == [t |-> "number", n |-> n]
Numeral(n) == [t |-> "numeral", n |-> n]
Word(n) == [t |-> "word", n |-> n]
Null == [t |-> "null", n |-> 0]
Undefined == [t |-> "undefined", n |-> 0]

IsText(v) == v.t \in {"numeral", "word"}

\* Number(v), as a set: empty for NaN.
ToNumber(v) == IF v.t \in {"number", "numeral", "null"} THEN {v.n} ELSE {}

\* Digits come before letters.
TextLess(v, w) == \/ v.t = "numeral" /\ w.t = "word"
                  \/ v.t = w.t /\ v.n < w.n

\* The operators < and <= of the language: texts are compared as texts,
\* everything else as numbers, and NaN is not comparable.
Less(v, w) ==
    IF IsText(v) /\ IsText(w) THEN TextLess(v, w)
    ELSE \E x \in ToNumber(v), y \in ToNumber(w) : x < y

AtMost(v, w) ==
    IF IsText(v) /\ IsText(w) THEN ~ TextLess(w, v)
    ELSE \E x \in ToNumber(v), y \in ToNumber(w) : x <= y

\* The operator ==
LooselyEqual(v, w) ==
    \/ v = w
    \/ {v.t, w.t} = {"null", "undefined"}
    \/ {v.t, w.t} = {"number", "numeral"} /\ v.n = w.n

\* String(v): what a value is called as the key of a group.
Name(v) == CASE v.t = "number" -> Numeral(v.n)
             [] v = Null -> [t |-> "name", n |-> 0]
             [] v = Undefined -> [t |-> "name", n |-> 1]
             [] OTHER -> v

\* A row is a function from the names of its columns.
Get(row, column) == IF column \in DOMAIN row THEN row[column] ELSE Undefined
=============================================================================
