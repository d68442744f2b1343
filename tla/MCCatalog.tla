----------------------------- MODULE MCCatalog -----------------------------
(***************************************************************************)
(* An instance of Catalog for TLC: definitions of two widths, one that is  *)
(* wider than a page and one that is too long to be written; two backup    *)
(* paths with one stem, one without a dot, and one with the stem of the    *)
(* database.                                                               *)
(***************************************************************************)
EXTENDS Catalog

CONSTANTS short, long, cut, huge, p, q, r, s

Widths == short :> 1 @@ long :> 2 @@ cut :> 7 @@ huge :> 9 @@ System :> 2

Texts == Views :> {short, cut} @@ Schemas :> {short, long}
         @@ Triggers :> {short, huge} @@ Procedures :> {short}

Stems == p :> "x" @@ r :> "x" @@ q :> None @@ s :> Here
=============================================================================
