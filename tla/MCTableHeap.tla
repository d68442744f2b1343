----------------------------- MODULE MCTableHeap -----------------------------
(***************************************************************************)
(* Instances of TableHeap for TLC: statements against tables that exist    *)
(* already, CREATE and DROP TABLE among them.  There are two narrow values *)
(* of one width, a wider one, which table b refuses, one wider than a page *)
(* (cut), one so wide that the free offset behind it is beyond two bytes   *)
(* (late), and one whose length itself is (huge).                          *)
(***************************************************************************)
EXTENDS TableHeap

CONSTANTS a, b, narrow, other, wide, cut, late, huge, Planted

Widths == narrow :> 1 @@ other :> 1 @@ wide :> 2 @@ cut :> 6
          @@ late :> 7 @@ huge :> 9 @@ System :> 2

SomeRefused == {<<b, wide>>}

System1 == <<System, "_schemas", "_triggers", "_procedures">>

PlantedInit == InitWith(SetToSeq(Planted))
PlantedSpec == PlantedInit /\ [][Next]_vars
=============================================================================
