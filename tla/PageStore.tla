----------------------------- MODULE PageStore -----------------------------
(***************************************************************************)
(* What Pager.js promises its callers: an array of pages in which a read   *)
(* returns the last content written, whatever is cached, evicted, flushed  *)
(* or recycled behind it; a close that makes every page durable; and, on a *)
(* crash of the process, a fall back to what had been made durable (been   *)
(* written to the file: nothing is promised of a stop of the machine).  A  *)
(* page that was allocated and never made durable is Lost then: the next   *)
(* read of it may return anything.                                         *)
(***************************************************************************)
EXTENDS PageContent

CONSTANT Lost   \* no content: anything may be read

VARIABLES open, store, durable
vars == <<open, store, durable>>

Init == /\ open = TRUE
        /\ store = [p \in Pages |-> IF p = 0 THEN Header(1) ELSE Lost]
        /\ durable = store

\* The pages of S reach the file, with the content they had when the step
\* began.  Any step may do this: an eviction, a flush or a close.
Persist(S) ==
    durable' = [p \in Pages |-> IF p \in S THEN store[p] ELSE durable[p]]

Write(p) ==
    /\ open
    /\ \/ /\ store[p] # Lost
          /\ \E d \in Data : store' = [store EXCEPT ![p].data = d]
       \/ /\ store[p] = Lost
          /\ \E c \in Contents : store' = [store EXCEPT ![p] = c]
    /\ UNCHANGED open

Alloc ==
    LET new == store[0].total
    IN /\ open
       /\ new \in Pages
       /\ store' = [store EXCEPT ![0].total = new + 1, ![new] = Fresh(new)]
       /\ UNCHANGED open

Keep == UNCHANGED <<open, store>>

Operate == \/ Keep
           \/ Alloc
           \/ \E p \in Pages : Write(p)

Close == /\ open
         /\ store = durable
         /\ open' = FALSE
         /\ UNCHANGED <<store, durable>>

Crash == /\ open
         /\ open' = FALSE
         /\ \E S \in SUBSET Pages : Persist(S)
         /\ store' = durable'

Open == /\ ~ open
        /\ open' = TRUE
        /\ UNCHANGED <<store, durable>>

Next == \/ (\E S \in SUBSET Pages : Persist(S)) /\ Operate
        \/ Close
        \/ Crash
        \/ Open

Spec == Init /\ [][Next]_vars
=============================================================================
