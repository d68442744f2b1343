------------------------------- MODULE MCWAL -------------------------------
(***************************************************************************)
(* Instances of WAL for TLC, with a record of whether the log is used as   *)
(* its buffer needs it: the event loop turns between two operations, so    *)
(* that the stream has nothing left to write when the next entry is        *)
(* copied, and the buffer has a place for it.                              *)
(***************************************************************************)
EXTENDS WAL

VARIABLE calm  \* it was so far, and nothing stopped
allvars == <<vars, calm>>

CalmInit == Init /\ calm = TRUE

Burst == wal.queue # <<>> \/ wal.offset = BufferSlots

Runs == Log \/ StreamOpen \/ Tick \/ SyncDone \/ StreamWrite
Stops == Close \/ Stop \/ PowerLoss \/ Reopen

\* The timer fires, the stream opens and writes, an fsync ends.
CalmSpec ==
    /\ CalmInit
    /\ [][ \/ Runs /\ calm' = (calm /\ (ops' = ops \/ ~ Burst))
           \/ Stops /\ calm' = FALSE ]_allvars
    /\ WF_vars(StreamOpen) /\ WF_vars(Tick)
    /\ WF_vars(SyncDone) /\ WF_vars(StreamWrite)

\* As long as the log is used like that, every operation is in the file once
\* or still on its way there.
CalmIsComplete == calm => Complete

\* In normal mode an operation that was logged comes to be on the disk: the
\* timer brings it there, with the fsync that follows its write.
EventuallyDurable ==
    \A n \in 1 .. MaxOps :
        calm /\ wal.mode = "normal" /\ ops >= n
            ~> ~ calm \/ \E i \in Copies(n) : i <= wal.synced
=============================================================================
