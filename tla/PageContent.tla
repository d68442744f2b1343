---------------------------- MODULE PageContent ----------------------------
(***************************************************************************)
(* What a 4 KB page of a .sawit file holds, reduced to what the page       *)
(* store's properties tell apart.                                          *)
(*                                                                         *)
(*   total  the "Total Pages" field; read from page 0 only                 *)
(*   data   everything else in the page: the table directory in page 0,    *)
(*          next link, record count and records in the other pages         *)
(*   owner  the page these bytes were laid out for.  The file does not     *)
(*          store it: it is how a model can tell the rows of one page from *)
(*          the rows of another page that turn up in its place.            *)
(***************************************************************************)
EXTENDS Naturals

CONSTANTS MaxPages,  \* bound on the growth of the file, in pages
          Data,      \* payloads callers write
          None       \* no buffer, no entry, no bytes

ASSUME MaxPagesAssumption == MaxPages \in Nat \ {0, 1}
ASSUME DataAssumption == {"empty", "junk"} \cap Data = {}
ASSUME NoneAssumption == None \notin 0 .. MaxPages - 1

Pages == 0 .. MaxPages - 1

Contents == [owner : Pages \cup {None}, total : 0 .. MaxPages,
             data : Data \cup {"empty", "junk"}]

\* A page of zeroes: what the file holds where a later page was written
\* first.  It is not a fresh page, whose free offset is 8.
Zero == [owner |-> None, total |-> 0, data |-> "empty"]

\* The bytes Buffer.allocUnsafe happens to return.
Junk == [owner |-> None, total |-> 0, data |-> "junk"]

Header(n) == [owner |-> 0, total |-> n, data |-> "empty"]

Fresh(p) == [owner |-> p, total |-> 0, data |-> "empty"]
=============================================================================
