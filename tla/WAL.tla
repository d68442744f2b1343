-------------------------------- MODULE WAL --------------------------------
(***************************************************************************)
(* The write-ahead log of src/modules/WAL.js.  logOperation copies an      *)
(* entry into one shared write buffer; _flushBuffer hands a slice of that  *)
(* buffer (not a copy) to an asynchronous write stream and starts filling  *)
(* the buffer again from its beginning; a checkpoint writes its own entry  *)
(* straight to the file.  The stream appends a slice with the bytes the    *)
(* buffer holds when the write is carried out.                             *)
(*                                                                         *)
(* The fields of the WAL object and the file under it are one record:      *)
(*   mode    syncMode of this process                                      *)
(*   lsn     last log sequence number given out                            *)
(*   count   operationCount, reset by a checkpoint                         *)
(*   slots   the write buffer, as BufferSlots places for an entry          *)
(*   offset  how many places are filled                                    *)
(*   queue   lengths of the slices the stream has still to write           *)
(*   file    the entries in the file, the last of them possibly cut short  *)
(*   synced  how many of them an fsync has covered                         *)
(* syncing is the number of entries the file held when the fsync under way *)
(* was started.  ops numbers the operations logged so far, over all        *)
(* restarts; it is not in the code.                                        *)
(***************************************************************************)
EXTENDS Naturals, Sequences, SequencesExt

CONSTANTS SyncModes,           \* the values of options.syncMode in use
          BufferSlots,         \* bufferSize, in entries
          CheckpointInterval,  \* options.checkpointInterval
          MaxOps,              \* bound on the operations logged
          MaxRestarts,         \* bound on the times the log is reopened
          CutTails,            \* the ways a power loss may cut an entry
          None                 \* an empty place of the buffer

ASSUME ModeAssumption == SyncModes \subseteq {"full", "normal", "off"}
ASSUME SlotAssumption == BufferSlots \in Nat \ {0}
ASSUME IntervalAssumption == CheckpointInterval \in Nat \ {0}
ASSUME BoundAssumption == MaxOps \in Nat /\ MaxRestarts \in Nat

\* "stub": fewer than the 16 bytes up to the LSN; "head": the LSN is there,
\* the 61 byte header is not; "body": the page images are cut.
ASSUME CutAssumption == CutTails \subseteq {"stub", "head", "body"}

VARIABLES up, wal, fd, syncing, ops, restarts
vars == <<up, wal, fd, syncing, ops, restarts>>

Entries == [lsn : Nat, op : Nat, form : {"whole"} \cup CutTails]

ASSUME NoneAssumption == None \notin Entries

\* operation 0 is a checkpoint.
Entry(lsn, op) == [lsn |-> lsn, op |-> op, form |-> "whole"]

-----------------------------------------------------------------------------
(* The methods, as operators on the fields.                                *)

\* Mutated form of FlushBuffer: before the stream is open nothing is handed on.
FlushBufferUnopened(w) ==
    IF w.offset = 0 THEN w
    ELSE [w EXCEPT !.queue = IF fd THEN Append(@, w.offset) ELSE @, !.offset = 0]

\* _flushBuffer: the slice shares the buffer's memory.
FlushBuffer(w) ==
    IF w.offset = 0 THEN w
    ELSE [w EXCEPT !.queue = Append(@, w.offset), !.offset = 0]

\* _writeToBuffer
WriteToBuffer(w, e) ==
    LET f == IF w.offset = BufferSlots THEN FlushBuffer(w) ELSE w
    IN [f EXCEPT !.slots[f.offset + 1] = e, !.offset = f.offset + 1]

Written(w, s) == [w EXCEPT !.file = @ \o s]

Synced(w) == [w EXCEPT !.synced = Len(w.file)]

\* checkpoint: flush, then one entry past the stream, if the stream's file is
\* open by now; fsync.
Checkpoint(w) ==
    LET f == [FlushBuffer(w) EXCEPT !.lsn = @ + 1, !.count = 0]
    IN IF fd THEN Synced(Written(f, <<Entry(f.lsn, 0)>>)) ELSE f

\* logOperation, for operation op.
LogOperation(w, op) ==
    LET n == [w EXCEPT !.lsn = @ + 1, !.count = @ + 1]
        b == WriteToBuffer(n, Entry(n.lsn, op))
        s == IF w.mode # "full" THEN b
             ELSE IF fd THEN Synced(FlushBuffer(b))
             ELSE FlushBuffer(b)
    IN IF s.count >= CheckpointInterval THEN Checkpoint(s) ELSE s

\* The entries a parse from the start of the file reaches: a cut entry and
\* what lies beyond it are not aligned any more.
Reached(file) ==
    LET cuts == {i \in DOMAIN file : file[i].form # "whole"}
    IN IF cuts = {} THEN file
       ELSE SubSeq(file, 1, CHOOSE i \in cuts : \A j \in cuts : i <= j)

\* recover(): the places of the entries it returns.  An entry without its whole
\* header is left out, one with a part of its images is not.
Recovered(file) ==
    {i \in DOMAIN Reached(file) : Reached(file)[i].form \in {"whole", "body"}}

\* _readLastLSN throws in the middle of an entry's first 16 bytes.
Readable(file) == \A i \in DOMAIN Reached(file) : Reached(file)[i].form # "stub"

\* Mutated form of LastLSN: the LSN of the last entry, not the largest.
LastLSNOfLast(file) == IF file = <<>> THEN 0 ELSE Last(Reached(file)).lsn

LastLSN(file) ==
    IF file = <<>> THEN 0
    ELSE LET lsns == {Reached(file)[i].lsn : i \in DOMAIN Reached(file)}
         IN CHOOSE n \in lsns : \A m \in lsns : m <= n

\* What a constructor makes of a file.
Opened(file, mode) ==
    [mode |-> mode, lsn |-> LastLSN(file), count |-> 0,
     slots |-> [i \in 1 .. BufferSlots |-> None], offset |-> 0,
     queue |-> <<>>, file |-> file, synced |-> Len(file)]

-----------------------------------------------------------------------------
(* Actions.                                                                *)

Init ==
    /\ up = "open"
    /\ \E mode \in SyncModes : wal = Opened(<<>>, mode)
    /\ fd = FALSE
    /\ syncing = 0
    /\ ops = 0
    /\ restarts = 0

Log ==
    /\ up = "open"
    /\ ops < MaxOps
    /\ ops' = ops + 1
    /\ wal' = LogOperation(wal, ops + 1)
    /\ UNCHANGED <<up, fd, syncing, restarts>>

\* The stream's 'open' event.
StreamOpen ==
    /\ up \in {"open", "closing"}
    /\ ~ fd
    /\ fd' = TRUE
    /\ UNCHANGED <<up, wal, syncing, ops, restarts>>

\* Mutated form of Tick: the timer syncs what the stream was given and does
\* not flush the buffer.
TickNoFlush ==
    /\ up = "open"
    /\ wal.mode = "normal"
    /\ syncing' = IF fd THEN Len(wal.file) ELSE syncing
    /\ UNCHANGED <<up, wal, fd, ops, restarts>>

\* The sync timer: flush, and start an fsync that ends on its own.  It covers
\* what is in the file now.
Tick ==
    /\ up = "open"
    /\ wal.mode = "normal"
    /\ wal' = FlushBuffer(wal)
    /\ syncing' = IF fd THEN Len(wal.file) ELSE syncing
    /\ UNCHANGED <<up, fd, ops, restarts>>

SyncDone ==
    /\ syncing # 0
    /\ syncing' = 0
    /\ wal' = [wal EXCEPT !.synced = IF syncing > @ THEN syncing ELSE @]
    /\ UNCHANGED <<up, fd, ops, restarts>>

\* The bytes behind the stream's oldest slice, as they are now.
Chunk(w) == [i \in 1 .. Head(w.queue) |-> w.slots[i]]

\* The stream carries out its oldest write.
StreamWrite ==
    /\ up \in {"open", "closing"}
    /\ fd
    /\ wal.queue # <<>>
    /\ wal' = [Written(wal, Chunk(wal)) EXCEPT !.queue = Tail(@)]
    /\ UNCHANGED <<up, fd, syncing, ops, restarts>>

\* close(): a last flush, and the stream ends once it has written its slices.
\* In full mode the descriptor is closed at once and they fail.
Close ==
    /\ up = "open"
    /\ up' = "closing"
    /\ LET f == FlushBuffer(wal)
       IN wal' = IF wal.mode = "full" /\ fd THEN [f EXCEPT !.queue = <<>>]
                 ELSE f
    /\ UNCHANGED <<fd, syncing, ops, restarts>>

\* The process ends: after a close, or by a crash that leaves the file as it
\* is.  What is in the buffer or in the stream is gone.
Stop ==
    /\ up \in {"open", "closing"}
    /\ up' = "stopped"
    /\ wal' = [wal EXCEPT !.queue = <<>>, !.offset = 0]
    /\ fd' = FALSE
    /\ syncing' = 0
    /\ UNCHANGED <<ops, restarts>>

\* The machine ends: of the entries no fsync covered the file keeps some
\* first ones, and the next one may be cut.
PowerLoss ==
    /\ up \in {"open", "closing"}
    /\ up' = "stopped"
    /\ \E n \in wal.synced .. Len(wal.file) :
          \/ wal' = [wal EXCEPT !.file = SubSeq(@, 1, n), !.synced = n,
                                !.queue = <<>>, !.offset = 0]
          \/ /\ n < Len(wal.file)
             /\ \E form \in CutTails :
                   wal' = [wal EXCEPT
                             !.file = Append(SubSeq(@, 1, n),
                                        [wal.file[n + 1] EXCEPT !.form = form]),
                             !.synced = n + 1,
                             !.queue = <<>>, !.offset = 0]
    /\ fd' = FALSE
    /\ syncing' = 0
    /\ UNCHANGED <<ops, restarts>>

\* A new WAL over the file; its constructor throws if the file cannot be read.
Reopen ==
    /\ up = "stopped"
    /\ restarts < MaxRestarts
    /\ restarts' = restarts + 1
    /\ IF Readable(wal.file)
       THEN /\ up' = "open"
            /\ \E mode \in SyncModes : wal' = Opened(wal.file, mode)
       ELSE up' = "unreadable" /\ UNCHANGED wal
    /\ UNCHANGED <<fd, syncing, ops>>

Next == \/ Log \/ StreamOpen \/ Tick \/ SyncDone \/ StreamWrite
        \/ Close \/ Stop \/ PowerLoss \/ Reopen

Spec == Init /\ [][Next]_vars

-----------------------------------------------------------------------------
(* What must hold.                                                         *)

\* The fields have their types; the buffer is never overrun and an fsync
\* never claims more than the file holds.
TypeOK ==
    /\ up \in {"open", "closing", "stopped", "unreadable"}
    /\ fd \in BOOLEAN /\ syncing \in 0 .. Len(wal.file)
    /\ ops \in 0 .. MaxOps /\ restarts \in 0 .. MaxRestarts
    /\ wal.mode \in SyncModes /\ wal.lsn \in Nat /\ wal.count \in 0 .. CheckpointInterval - 1
    /\ wal.offset \in 0 .. BufferSlots
    /\ \A i \in 1 .. BufferSlots : wal.slots[i] \in Entries \cup {None}
    /\ \A i \in DOMAIN wal.queue : wal.queue[i] \in 1 .. BufferSlots
    /\ \A i \in DOMAIN wal.file : wal.file[i] \in Entries
    /\ wal.synced \in 0 .. Len(wal.file)

\* The buffer is never overrun, and among the entries recovery returns an LSN
\* names one operation, over crashes and restarts: the log resumes above every
\* LSN that can be read, though a checkpoint's entry overtakes those before it.
LsnNamesOneOp ==
    /\ TypeOK
    /\ LET read == Reached(wal.file)
       IN \A i, j \in Recovered(wal.file) :
              read[i].lsn = read[j].lsn => read[i].op = read[j].op

\* Operation n is in a part of the log that a later step can still lose only
\* by a stop.
InMemory(n) ==
    \/ \E i \in 1 .. wal.offset : wal.slots[i] # None /\ wal.slots[i].op = n
    \/ \E k \in DOMAIN wal.queue : \E i \in 1 .. wal.queue[k] :
          wal.slots[i] # None /\ wal.slots[i].op = n

Copies(n) == {i \in DOMAIN wal.file : wal.file[i].op = n}

\* Every operation logged is in the file once, or still on its way there.
Complete ==
    \A n \in 1 .. ops :
        \/ \E i \in Copies(n) : Copies(n) = {i}
        \/ Copies(n) = {} /\ InMemory(n)
=============================================================================
