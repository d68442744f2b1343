------------------------------ MODULE MCPager ------------------------------
(***************************************************************************)
(* Instances of Pager for TLC.  Buffers are interchangeable.  A run needs  *)
(* MaxPages + MaxPoolSize of them: one for each cached page and each place *)
(* in the pool, and one more when a held buffer may be evicted.            *)
(***************************************************************************)
EXTENDS Pager, TLC

BufferSymmetry == Permutations(Buffers)

\* Everything but crashes.  Pages enter the cache of a new file as they are
\* allocated: an eviction takes a file that was closed and opened again.
Work ==
    \/ \E p \in Pages : Read(p) \/ Hold(p)
    \/ \E p \in Pages, d \in Data : Modify(p, d)
    \/ AllocPage
    \/ \E d \in Data : WriteHeld(d)
    \/ LetGo
    \/ BeginFlush \/ FlushPage \/ EndFlush \/ Close \/ Open

WorkSpec == Init /\ [][Work]_vars
=============================================================================
