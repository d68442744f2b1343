----------------------------- MODULE WALProofs -----------------------------
(***************************************************************************)
(* Proofs about the write-ahead log.  Sound is what the log must keep in   *)
(* its file and in the live part of its buffer, the places filled and      *)
(* those of slices the stream has still to write: an LSN there belongs to  *)
(* one operation and lies below the counter.  It is inductive with the     *)
(* types of the fields (IInv).  Kept is what the log keeps in addition     *)
(* when its users let the stream write before they log again: the last m   *)
(* operations are in the first m places of the buffer, the others once in  *)
(* the file.                                                               *)
(***************************************************************************)
EXTENDS MCWAL, FiniteSetTheorems, WellFoundedInduction, TLAPS

-----------------------------------------------------------------------------
(* Numbers and sequences.                                                  *)

\* A set of naturals that is not empty has a least element.
LEMMA LeastNatural ==
    ASSUME NEW T \in SUBSET Nat, T # {}
    PROVE  \E m \in T : \A k \in T : m <= k
  <1>1. PICK m \in T : \A k \in T : <<k, m>> \notin OpToRel(<, Nat)
    BY WFMin, NatLessThanWellFounded
  <1>2. \A k \in T : ~ (k < m)
    <2>1. OpToRel(<, Nat) = {ss \in Nat \X Nat : ss[1] < ss[2]}
      BY DEF OpToRel
    <2> QED
      BY <1>1, <2>1
  <1> QED
    BY <1>2

\* What a sequence is made of.
LEMMA SeqFacts ==
    ASSUME NEW T, NEW s \in Seq(T)
    PROVE  /\ Len(s) \in Nat /\ DOMAIN s = 1 .. Len(s)
           /\ \A k \in 1 .. Len(s) : s[k] \in T
  OBVIOUS

\* A sequence without its head.
LEMMA TailFacts ==
    ASSUME NEW T, NEW s \in Seq(T), s # <<>>
    PROVE  /\ Len(s) \in Nat \ {0} /\ Head(s) = s[1] /\ Head(s) \in T
           /\ Tail(s) \in Seq(T) /\ Len(Tail(s)) = Len(s) - 1
           /\ DOMAIN Tail(s) = 1 .. Len(s) - 1
           /\ \A k \in 1 .. Len(s) - 1 : Tail(s)[k] = s[k + 1]
  OBVIOUS

\* A sequence with one more element.
LEMMA AppendFacts ==
    ASSUME NEW T, NEW s \in Seq(T), NEW e \in T
    PROVE  /\ Append(s, e) \in Seq(T) /\ Len(Append(s, e)) = Len(s) + 1
           /\ DOMAIN Append(s, e) = 1 .. Len(s) + 1
           /\ \A k \in 1 .. Len(s) : Append(s, e)[k] = s[k]
           /\ Append(s, e)[Len(s) + 1] = e
  OBVIOUS

\* Two sequences in a row.
LEMMA ConcatFacts ==
    ASSUME NEW T, NEW s \in Seq(T), NEW t \in Seq(T)
    PROVE  /\ s \o t \in Seq(T) /\ Len(s \o t) = Len(s) + Len(t)
           /\ DOMAIN (s \o t) = 1 .. Len(s) + Len(t)
           /\ \A k \in 1 .. Len(s) : (s \o t)[k] = s[k]
           /\ \A k \in 1 .. Len(t) : (s \o t)[Len(s) + k] = t[k]
  <1>1. Len(s) \in Nat /\ Len(t) \in Nat
    OBVIOUS
  <1>2. s \o t \in Seq(T) /\ Len(s \o t) = Len(s) + Len(t)
    OBVIOUS
  <1>3. \A k \in 1 .. Len(s) : (s \o t)[k] = s[k]
    OBVIOUS
  <1>4. \A k \in 1 .. Len(t) : (s \o t)[Len(s) + k] = t[k]
    BY <1>1
  <1> QED
    BY <1>1, <1>2, <1>3, <1>4

-----------------------------------------------------------------------------
(* What the file says.                                                     *)

\* A parse from the start of the file gets to entry i.
Read(file, i) == i \in 1 .. Len(file) /\ \A j \in 1 .. i - 1 : file[j].form = "whole"

AllWhole(file) == \A j \in 1 .. Len(file) : file[j].form = "whole"

LEMMA ReachedFacts ==
    ASSUME NEW file \in Seq(Entries)
    PROVE  /\ \A i \in DOMAIN Reached(file) : Read(file, i) /\ Reached(file)[i] = file[i]
           /\ \A i : Read(file, i) => i \in DOMAIN Reached(file) /\ Reached(file)[i] = file[i]
  <1> DEFINE cuts == {i \in DOMAIN file : file[i].form # "whole"}
             n == Len(file)
  <1>1. n \in Nat /\ DOMAIN file = 1 .. n
    BY SeqFacts
  <1>2. CASE cuts = {}
    <2>1. Reached(file) = file
      BY <1>2 DEF Reached
    <2>2. \A i \in 1 .. n : Read(file, i)
      BY <1>1, <1>2 DEF Read
    <2> QED
      BY <2>1, <2>2, <1>1 DEF Read
  <1>3. CASE cuts # {}
    <2> DEFINE least(i) == \A j \in cuts : i <= j
               m == CHOOSE i \in cuts : least(i)
    <2>1. \E i \in cuts : least(i)
      <3>1. cuts \in SUBSET Nat
        BY <1>1
      <3> QED
        BY <3>1, <1>3, LeastNatural
    <2>2. m \in cuts /\ least(m)
      <3> HIDE DEF least, cuts
      <3> QED
        BY <2>1
    <2>3. Reached(file) = SubSeq(file, 1, m)
      BY <1>3 DEF Reached
    <2> HIDE DEF m
    <2>4. m \in 1 .. n /\ file[m].form # "whole"
          /\ \A j \in 1 .. m - 1 : file[j].form = "whole"
      BY <2>2, <1>1
    <2> HIDE DEF cuts
    <2>5. DOMAIN SubSeq(file, 1, m) = 1 .. m /\ \A i \in 1 .. m : SubSeq(file, 1, m)[i] = file[i]
      BY <2>4, <1>1
    <2>6. ASSUME NEW i, Read(file, i)
          PROVE  i \in 1 .. m
      <3>1. i \in 1 .. n /\ ~ (m \in 1 .. i - 1)
        BY <2>4, <2>6 DEF Read
      <3> QED
        BY <3>1, <2>4, <1>1
    <2>7. ASSUME NEW i \in 1 .. m
          PROVE  Read(file, i)
      BY <2>4, <1>1 DEF Read
    <2> QED
      BY <2>3, <2>5, <2>6, <2>7
  <1> QED
    BY <1>2, <1>3

\* Whole entries are appended.
LEMMA FileGrows ==
    ASSUME NEW file \in Seq(Entries), NEW s \in Seq(Entries),
           \A i \in 1 .. Len(s) : s[i].form = "whole"
    PROVE  LET g == file \o s
               n == Len(file)
           IN /\ g \in Seq(Entries) /\ Len(g) = n + Len(s)
              /\ \A i \in 1 .. n : g[i] = file[i]
              /\ \A i \in 1 .. Len(s) : g[n + i] = s[i]
              /\ \A i : Read(g, i) =>
                    \/ i \in 1 .. n /\ Read(file, i)
                    \/ AllWhole(file) /\ i - n \in 1 .. Len(s) /\ g[i] = s[i - n]
              /\ AllWhole(g) => AllWhole(file)
  <1> DEFINE g == file \o s
             n == Len(file)
             l == Len(s)
  <1>1. n \in Nat /\ l \in Nat
    BY SeqFacts
  <1>2. /\ g \in Seq(Entries) /\ Len(g) = n + l
        /\ \A i \in 1 .. n : g[i] = file[i]
        /\ \A i \in 1 .. l : g[n + i] = s[i]
    BY ConcatFacts
  <1> HIDE DEF g, n, l
  <1>3. ASSUME NEW i, Read(g, i)
        PROVE  \/ i \in 1 .. n /\ Read(file, i)
               \/ AllWhole(file) /\ i - n \in 1 .. l /\ g[i] = s[i - n]
    <2>1. i \in 1 .. n + l /\ \A j \in 1 .. i - 1 : g[j].form = "whole"
      BY <1>2, <1>3 DEF Read
    <2>2. CASE i \in 1 .. n
      <3>1. \A j \in 1 .. i - 1 : j \in 1 .. n
        BY <2>2, <1>1
      <3> QED
        BY <3>1, <2>1, <2>2, <1>2 DEF Read, n
    <2>3. CASE i \notin 1 .. n
      <3> DEFINE k == i - n
      <3>1. k \in 1 .. l /\ n + k = i /\ \A j \in 1 .. n : j \in 1 .. i - 1
        BY <2>1, <2>3, <1>1
      <3>2. AllWhole(file)
        BY <3>1, <2>1, <1>2 DEF AllWhole, n
      <3> HIDE DEF k
      <3>3. g[i] = s[k]
        BY <3>1, <1>2
      <3> QED
        BY <3>1, <3>2, <3>3 DEF k
    <2> QED
      BY <2>2, <2>3
  <1>4. AllWhole(g) => AllWhole(file)
    <2>1. \A j \in 1 .. n : j \in 1 .. n + l
      BY <1>1
    <2> QED
      BY <2>1, <1>2 DEF AllWhole, n
  <1> QED
    BY <1>2, <1>3, <1>4 DEF g, n, l

-----------------------------------------------------------------------------
(* What the log says: in its file and in the parts of its buffer that are  *)
(* still to be written.                                                    *)

Slots == [1 .. BufferSlots -> Entries \cup {None}]
Offsets == 0 .. BufferSlots
Queues == Seq(1 .. BufferSlots)
Files == Seq(Entries)

WalType ==
    [mode : SyncModes, lsn : Nat, count : Nat, slots : Slots, offset : Offsets,
     queue : Queues, file : Files, synced : Nat]

\* Place i of the buffer is filled or part of a slice.
Live(w, i) ==
    i \in 1 .. BufferSlots /\ (i <= w.offset \/ \E k \in 1 .. Len(w.queue) : i <= w.queue[k])

Held(w) == \A i : Live(w, i) => w.slots[i] \in Entries /\ w.slots[i].form = "whole"

\* An entry that can be read, or may come to be, gives operation o number l.
Names(w, l, o) ==
    \/ \E i : Read(w.file, i) /\ w.file[i].lsn = l /\ w.file[i].op = o
    \/ AllWhole(w.file) /\ \E i : Live(w, i) /\ w.slots[i].lsn = l /\ w.slots[i].op = o

Numbered(w, n) ==
    \A l, o \in Nat : Names(w, l, o) =>
        l <= n /\ \A q \in Nat : Names(w, l, q) => q = o

Sound(w, n) ==
    w \in WalType /\ w.synced <= Len(w.file) /\ Held(w) /\ Numbered(w, n)

LEMMA NumberedShrinks ==
    ASSUME NEW w, NEW x, NEW n \in Nat, Numbered(w, n),
           \A l, o \in Nat : Names(x, l, o) => Names(w, l, o)
    PROVE  Numbered(x, n)
  BY DEF Numbered

\* A new entry has a number above all others.
LEMMA NumberedGrows ==
    ASSUME NEW w, NEW x, NEW n \in Nat, NEW op, Numbered(w, n),
           \A l, o \in Nat : Names(x, l, o) => Names(w, l, o) \/ (l = n + 1 /\ o = op)
    PROVE  Numbered(x, n + 1)
  <1> SUFFICES ASSUME NEW l \in Nat, NEW o \in Nat, Names(x, l, o)
               PROVE  l <= n + 1 /\ \A q \in Nat : Names(x, l, q) => q = o
    BY DEF Numbered
  <1>1. CASE l = n + 1
    <2>1. \A q \in Nat : ~ Names(w, l, q)
      BY <1>1 DEF Numbered
    <2> QED
      BY <2>1, <1>1
  <1>2. CASE l # n + 1
    BY <1>2 DEF Numbered
  <1> QED
    BY <1>1, <1>2

\* What assigning to some of the fields leaves of the others.
LEMMA WalFields ==
    ASSUME NEW w \in WalType
    PROVE  /\ \A q \in Queues, o \in Offsets :
                LET f == [w EXCEPT !.queue = q, !.offset = o]
                IN /\ f \in WalType /\ f.queue = q /\ f.offset = o
                   /\ f.mode = w.mode /\ f.lsn = w.lsn /\ f.count = w.count
                   /\ f.slots = w.slots /\ f.file = w.file /\ f.synced = w.synced
           /\ \A s \in Slots, o \in Offsets :
                LET f == [w EXCEPT !.slots = s, !.offset = o]
                IN /\ f \in WalType /\ f.slots = s /\ f.offset = o
                   /\ f.mode = w.mode /\ f.lsn = w.lsn /\ f.count = w.count
                   /\ f.queue = w.queue /\ f.file = w.file /\ f.synced = w.synced
           /\ \A l, c \in Nat :
                LET f == [w EXCEPT !.lsn = l, !.count = c]
                IN /\ f \in WalType /\ f.lsn = l /\ f.count = c
                   /\ f.mode = w.mode /\ f.queue = w.queue /\ f.offset = w.offset
                   /\ f.slots = w.slots /\ f.file = w.file /\ f.synced = w.synced
           /\ \A g \in Files, y \in Nat, q \in Queues, o \in Offsets :
                LET f == [w EXCEPT !.file = g, !.synced = y, !.queue = q, !.offset = o]
                IN /\ f \in WalType
                   /\ f.file = g /\ f.synced = y /\ f.queue = q /\ f.offset = o
                   /\ f.mode = w.mode /\ f.lsn = w.lsn /\ f.count = w.count
                   /\ f.slots = w.slots
           /\ \A g \in Files, y \in Nat :
                LET f == [w EXCEPT !.file = g, !.synced = y]
                IN /\ f \in WalType /\ f.file = g /\ f.synced = y
                   /\ f.mode = w.mode /\ f.lsn = w.lsn /\ f.count = w.count
                   /\ f.slots = w.slots /\ f.queue = w.queue /\ f.offset = w.offset
           /\ \A g \in Files :
                LET f == [w EXCEPT !.file = g]
                IN /\ f \in WalType /\ f.file = g /\ f.synced = w.synced
                   /\ f.mode = w.mode /\ f.lsn = w.lsn /\ f.count = w.count
                   /\ f.slots = w.slots /\ f.queue = w.queue /\ f.offset = w.offset
           /\ \A y \in Nat :
                LET f == [w EXCEPT !.synced = y]
                IN /\ f \in WalType /\ f.file = w.file /\ f.synced = y
                   /\ f.mode = w.mode /\ f.lsn = w.lsn /\ f.count = w.count
                   /\ f.slots = w.slots /\ f.queue = w.queue /\ f.offset = w.offset
           /\ \A g \in Files, q \in Queues :
                LET f == [w EXCEPT !.file = g, !.queue = q]
                IN /\ f \in WalType /\ f.file = g /\ f.queue = q
                   /\ f.mode = w.mode /\ f.lsn = w.lsn /\ f.count = w.count
                   /\ f.slots = w.slots /\ f.synced = w.synced /\ f.offset = w.offset
           /\ \A q \in Queues :
                LET f == [w EXCEPT !.queue = q]
                IN /\ f \in WalType /\ f.queue = q
                   /\ f.mode = w.mode /\ f.lsn = w.lsn /\ f.count = w.count
                   /\ f.slots = w.slots /\ f.synced = w.synced /\ f.offset = w.offset
                   /\ f.file = w.file
  <1>1. ASSUME NEW q \in Queues, NEW o \in Offsets
        PROVE  LET f == [w EXCEPT !.queue = q, !.offset = o]
           IN /\ f \in WalType /\ f.queue = q /\ f.offset = o
              /\ f.mode = w.mode /\ f.lsn = w.lsn /\ f.count = w.count
              /\ f.slots = w.slots /\ f.file = w.file /\ f.synced = w.synced
    BY DEF WalType
  <1>2. ASSUME NEW s \in Slots, NEW o \in Offsets
        PROVE  LET f == [w EXCEPT !.slots = s, !.offset = o]
           IN /\ f \in WalType /\ f.slots = s /\ f.offset = o
              /\ f.mode = w.mode /\ f.lsn = w.lsn /\ f.count = w.count
              /\ f.queue = w.queue /\ f.file = w.file /\ f.synced = w.synced
    BY DEF WalType
  <1>3. ASSUME NEW l \in Nat, NEW c \in Nat
        PROVE  LET f == [w EXCEPT !.lsn = l, !.count = c]
           IN /\ f \in WalType /\ f.lsn = l /\ f.count = c
              /\ f.mode = w.mode /\ f.queue = w.queue /\ f.offset = w.offset
              /\ f.slots = w.slots /\ f.file = w.file /\ f.synced = w.synced
    BY DEF WalType
  <1>4. ASSUME NEW g \in Files, NEW y \in Nat, NEW q \in Queues, NEW o \in Offsets
        PROVE  LET f == [w EXCEPT !.file = g, !.synced = y, !.queue = q, !.offset = o]
           IN /\ f \in WalType
              /\ f.file = g /\ f.synced = y /\ f.queue = q /\ f.offset = o
              /\ f.mode = w.mode /\ f.lsn = w.lsn /\ f.count = w.count
              /\ f.slots = w.slots
    BY DEF WalType
  <1>5. ASSUME NEW g \in Files, NEW y \in Nat
        PROVE  LET f == [w EXCEPT !.file = g, !.synced = y]
           IN /\ f \in WalType /\ f.file = g /\ f.synced = y
              /\ f.mode = w.mode /\ f.lsn = w.lsn /\ f.count = w.count
              /\ f.slots = w.slots /\ f.queue = w.queue /\ f.offset = w.offset
    BY DEF WalType
  <1>6. ASSUME NEW g \in Files
        PROVE  LET f == [w EXCEPT !.file = g]
           IN /\ f \in WalType /\ f.file = g /\ f.synced = w.synced
              /\ f.mode = w.mode /\ f.lsn = w.lsn /\ f.count = w.count
              /\ f.slots = w.slots /\ f.queue = w.queue /\ f.offset = w.offset
    BY DEF WalType
  <1>7. ASSUME NEW y \in Nat
        PROVE  LET f == [w EXCEPT !.synced = y]
           IN /\ f \in WalType /\ f.file = w.file /\ f.synced = y
              /\ f.mode = w.mode /\ f.lsn = w.lsn /\ f.count = w.count
              /\ f.slots = w.slots /\ f.queue = w.queue /\ f.offset = w.offset
    BY DEF WalType
  <1>8. ASSUME NEW g \in Files, NEW q \in Queues
        PROVE  LET f == [w EXCEPT !.file = g, !.queue = q]
           IN /\ f \in WalType /\ f.file = g /\ f.queue = q
              /\ f.mode = w.mode /\ f.lsn = w.lsn /\ f.count = w.count
              /\ f.slots = w.slots /\ f.synced = w.synced /\ f.offset = w.offset
    BY DEF WalType
  <1>9. ASSUME NEW q \in Queues
        PROVE  LET f == [w EXCEPT !.queue = q]
           IN /\ f \in WalType /\ f.queue = q
              /\ f.mode = w.mode /\ f.lsn = w.lsn /\ f.count = w.count
              /\ f.slots = w.slots /\ f.synced = w.synced /\ f.offset = w.offset
              /\ f.file = w.file
    BY DEF WalType
  <1> QED
    BY <1>1, <1>2, <1>3, <1>4, <1>5, <1>6, <1>7, <1>8, <1>9

\* _flushBuffer
LEMMA FlushFacts ==
    ASSUME NEW n \in Nat, NEW w, Sound(w, n)
    PROVE  LET f == FlushBuffer(w)
           IN /\ Sound(f, n) /\ f.offset = 0
              /\ f.mode = w.mode /\ f.lsn = w.lsn /\ f.count = w.count
              /\ f.slots = w.slots /\ f.file = w.file /\ f.synced = w.synced
              /\ f.queue = IF w.offset = 0 THEN w.queue ELSE Append(w.queue, w.offset)
  <1> DEFINE f == FlushBuffer(w)
  <1>1. w \in WalType
    BY DEF Sound
  <1>2. CASE w.offset = 0
    BY <1>2 DEF FlushBuffer
  <1>3. CASE w.offset # 0
    <2> DEFINE q == Append(w.queue, w.offset)
    <2>1. w.offset \in 1 .. BufferSlots /\ w.queue \in Seq(1 .. BufferSlots)
      BY <1>1, <1>3, SlotAssumption DEF WalType, Offsets, Queues
    <2>2. /\ q \in Seq(1 .. BufferSlots) /\ Len(q) = Len(w.queue) + 1
          /\ q[Len(w.queue) + 1] = w.offset
          /\ \A k \in 1 .. Len(w.queue) : q[k] = w.queue[k]
      BY <2>1, AppendFacts
    <2> HIDE DEF q
    <2>3. f = [w EXCEPT !.queue = q, !.offset = 0]
      BY <1>3 DEF FlushBuffer, q
    <2> HIDE DEF f
    <2>4. /\ f \in WalType /\ f.offset = 0 /\ f.queue = q
          /\ f.mode = w.mode /\ f.lsn = w.lsn /\ f.count = w.count
          /\ f.slots = w.slots /\ f.file = w.file /\ f.synced = w.synced
      <3>1. 0 \in Offsets /\ q \in Queues
        BY <2>2, SlotAssumption DEF Offsets, Queues
      <3>2. \A o \in Offsets :
               LET g == [w EXCEPT !.queue = q, !.offset = o]
               IN /\ g \in WalType /\ g.queue = q /\ g.offset = o
                  /\ g.mode = w.mode /\ g.lsn = w.lsn /\ g.count = w.count
                  /\ g.slots = w.slots /\ g.file = w.file /\ g.synced = w.synced
        BY <1>1, <3>1, WalFields
      <3> QED
        BY <2>3, <3>1, <3>2
    <2>5. ASSUME NEW i, Live(f, i)
          PROVE  Live(w, i)
      <3>1. i \in 1 .. BufferSlots /\ Len(w.queue) \in Nat
        BY <2>1, <2>5, SeqFacts DEF Live
      <3>2. \E k \in 1 .. Len(q) : i <= q[k]
        <4>1. ~ (i <= 0)
          BY <3>1, SlotAssumption
        <4> QED
          BY <4>1, <2>4, <2>5 DEF Live
      <3>3. PICK k \in 1 .. Len(q) : i <= q[k]
        BY <3>2
      <3>4. CASE k = Len(w.queue) + 1
        BY <3>1, <3>3, <3>4, <2>2 DEF Live
      <3>5. CASE k # Len(w.queue) + 1
        <4>1. k \in 1 .. Len(w.queue)
          BY <3>1, <3>5, <2>2
        <4> QED
          BY <4>1, <3>1, <3>3, <2>2 DEF Live
      <3> QED
        BY <3>4, <3>5
    <2>6. Held(f)
      BY <2>4, <2>5 DEF Sound, Held
    <2>7. Numbered(f, n)
      <3>1. \A l, o \in Nat : Names(f, l, o) => Names(w, l, o)
        BY <2>4, <2>5 DEF Names
      <3> QED
        BY <3>1, NumberedShrinks DEF Sound
    <2> QED
      BY <2>4, <2>6, <2>7, <1>3 DEF Sound, f, q
  <1> QED
    BY <1>2, <1>3

Whole(e) == e \in Entries /\ e.form = "whole"

\* _writeToBuffer
LEMMA WriteFacts ==
    ASSUME NEW n \in Nat, NEW w, Sound(w, n), NEW e, Whole(e), e.lsn = n + 1
    PROVE  LET x == WriteToBuffer(w, e)
           IN /\ Sound(x, n + 1)
              /\ x.mode = w.mode /\ x.lsn = w.lsn /\ x.count = w.count /\ x.file = w.file
              /\ w.offset # BufferSlots =>
                    /\ x.queue = w.queue /\ x.offset = w.offset + 1
                    /\ x.slots[w.offset + 1] = e
                    /\ \A j \in 1 .. BufferSlots : j # w.offset + 1 => x.slots[j] = w.slots[j]
  <1> DEFINE f == IF w.offset = BufferSlots THEN FlushBuffer(w) ELSE w
             k == f.offset + 1
             s == [f.slots EXCEPT ![k] = e]
             x == [f EXCEPT !.slots = s, !.offset = k]
  <1>1. WriteToBuffer(w, e) = x
    BY DEF WriteToBuffer
  <1>2. /\ Sound(f, n) /\ f.offset # BufferSlots
        /\ f.mode = w.mode /\ f.lsn = w.lsn /\ f.count = w.count /\ f.file = w.file
    BY FlushFacts, SlotAssumption
  <1>9. w.offset # BufferSlots => f = w
    OBVIOUS
  <1> HIDE DEF f
  <1>3. k \in 1 .. BufferSlots /\ k \in Offsets /\ f.offset \in Nat /\ f \in WalType
    BY <1>2, SlotAssumption DEF Sound, WalType, Offsets
  <1>4. s \in Slots /\ s[k] = e /\ \A i \in 1 .. BufferSlots : i # k => s[i] = f.slots[i]
    <2>1. f.slots \in Slots
      BY <1>3 DEF WalType
    <2> HIDE DEF k
    <2> QED
      BY <2>1, <1>3 DEF Slots, Whole
  <1> HIDE DEF s
  <1>5. /\ x \in WalType /\ x.slots = s /\ x.offset = k
        /\ x.mode = f.mode /\ x.lsn = f.lsn /\ x.count = f.count
        /\ x.queue = f.queue /\ x.file = f.file /\ x.synced = f.synced
    <2>1. \A o \in Offsets :
             LET g == [f EXCEPT !.slots = s, !.offset = o]
             IN /\ g \in WalType /\ g.slots = s /\ g.offset = o
                /\ g.mode = f.mode /\ g.lsn = f.lsn /\ g.count = f.count
                /\ g.queue = f.queue /\ g.file = f.file /\ g.synced = f.synced
      BY ZenonT(60), <1>3, <1>4, WalFields
    <2> HIDE DEF k
    <2> QED
      BY <1>3, <2>1
  <1> HIDE DEF x
  <1>6. ASSUME NEW i, Live(x, i)
        PROVE  i = k \/ (i # k /\ Live(f, i) /\ x.slots[i] = f.slots[i])
    <2>1. i \in 1 .. BufferSlots /\ (i # k => ~ (i <= k) \/ i <= f.offset)
      BY <1>6, <1>3 DEF Live
    <2> HIDE DEF k
    <2> QED
      BY <2>1, <1>6, <1>4, <1>5 DEF Live
  <1>7. Held(x)
    BY <1>2, <1>4, <1>5, <1>6 DEF Held, Sound, Whole
  <1>8. Numbered(x, n + 1)
    <2>1. ASSUME NEW l \in Nat, NEW o \in Nat, Names(x, l, o)
          PROVE  Names(f, l, o) \/ (l = n + 1 /\ o = e.op)
      BY <2>1, <1>4, <1>5, <1>6 DEF Names
    <2>2. Numbered(f, n)
      BY <1>2 DEF Sound
    <2> QED
      BY <2>1, <2>2, NumberedGrows
  <1> QED
    BY <1>1, <1>2, <1>4, <1>5, <1>7, <1>8, <1>9 DEF Sound

-----------------------------------------------------------------------------
(* The log that is used as its buffer needs it.                            *)

\* The file has each of the first k operations once, and no later one.
Stored(file, k) ==
    /\ \A i \in 1 .. Len(file) : file[i].op <= k
    /\ \A n \in 1 .. k : \E i \in 1 .. Len(file) : \A j \in 1 .. Len(file) :
          file[j].op = n <=> j = i

\* Of o operations the last m are in the buffer, still to be handed to the
\* stream or still to be written by it, and the others are in the file.
Kept(w, o, m) ==
    /\ m <= o
    /\ \/ w.queue = <<>> /\ w.offset = m
       \/ w.queue = <<m>> /\ w.offset = 0
    /\ \A i \in 1 .. m : w.slots[i].op = o - m + i
    /\ Stored(w.file, o - m)

LEMMA SameKept ==
    ASSUME NEW w, NEW x, NEW o, NEW m, Kept(w, o, m),
           x.slots = w.slots, x.offset = w.offset, x.queue = w.queue, x.file = w.file
    PROVE  Kept(x, o, m)
  BY Zenon DEF Kept

\* A checkpoint's entry is not an operation.
LEMMA StoredCheckpoint ==
    ASSUME NEW file \in Seq(Entries), NEW k \in Nat, Stored(file, k),
           NEW e, Whole(e), e.op = 0
    PROVE  Stored(file \o <<e>>, k)
  <1> DEFINE s == <<e>>
             g == file \o s
             n == Len(file)
  <1>1. s \in Seq(Entries) /\ Len(s) = 1 /\ s[1] = e /\ n \in Nat
    BY DEF Whole
  <1> HIDE DEF s
  <1>2. /\ Len(g) = n + Len(s)
        /\ \A i \in 1 .. n : g[i] = file[i]
        /\ \A i \in 1 .. Len(s) : g[n + i] = s[i]
    <2>1. \A t \in Seq(Entries) : LET c == file \o t
                                  IN /\ Len(c) = Len(file) + Len(t)
                                     /\ \A i \in 1 .. Len(file) : c[i] = file[i]
                                     /\ \A i \in 1 .. Len(t) : c[Len(file) + i] = t[i]
      BY ConcatFacts
    <2> QED
      BY <1>1, <2>1
  <1> HIDE DEF g, n
  <1>3. Len(g) = n + 1 /\ g[n + 1] = e
    BY <1>1, <1>2
  <1>4. \A i \in 1 .. n + 1 : i \in 1 .. n \/ i = n + 1
    BY <1>1
  <1>5. \A i \in 1 .. n : file[i].op <= k
    BY DEF Stored, n
  <1>6. \A i \in 1 .. Len(g) : g[i].op <= k
    BY <1>2, <1>3, <1>4, <1>5
  <1>7. ASSUME NEW o \in 1 .. k
        PROVE  \E i \in 1 .. Len(g) : \A j \in 1 .. Len(g) : g[j].op = o <=> j = i
    <2>1. PICK i \in 1 .. n : \A j \in 1 .. n : file[j].op = o <=> j = i
      BY DEF Stored, n
    <2>2. i \in 1 .. n + 1 /\ i # n + 1 /\ o # 0
      BY <1>1
    <2>3. \A j \in 1 .. n + 1 : g[j].op = o <=> j = i
      BY <1>2, <1>3, <1>4, <2>1, <2>2
    <2> QED
      BY <1>3, <2>2, <2>3
  <1> QED
    BY <1>6, <1>7 DEF Stored, g, s

\* The stream writes the operations that follow.
LEMMA StoredChunk ==
    ASSUME NEW file \in Seq(Entries), NEW k \in Nat, Stored(file, k),
           NEW s \in Seq(Entries), \A i \in 1 .. Len(s) : s[i].op = k + i
    PROVE  Stored(file \o s, k + Len(s))
  <1> DEFINE g == file \o s
             n == Len(file)
             l == Len(s)
  <1>1. n \in Nat /\ l \in Nat
    BY SeqFacts
  <1>2. /\ Len(g) = n + l
        /\ \A i \in 1 .. n : g[i] = file[i]
        /\ \A i \in 1 .. l : g[n + i] = s[i]
    BY ConcatFacts
  <1> HIDE DEF g, n, l
  <1>3. ASSUME NEW i \in 1 .. n + l
        PROVE  \/ i \in 1 .. n /\ g[i] = file[i] /\ file[i].op <= k
               \/ i - n \in 1 .. l /\ g[i].op = k + (i - n)
    <2>1. CASE i \in 1 .. n
      BY <2>1, <1>2 DEF Stored, n
    <2>2. CASE i \notin 1 .. n
      <3> DEFINE j == i - n
      <3>1. j \in 1 .. l /\ n + j = i
        BY <1>1, <2>2
      <3> HIDE DEF j
      <3>2. g[i] = s[j] /\ s[j].op = k + j
        BY <3>1, <1>2 DEF l
      <3> QED
        BY <3>1, <3>2 DEF j
    <2> QED
      BY <2>1, <2>2
  <1>4. \A i \in 1 .. n : file[i] \in Entries
    BY SeqFacts DEF n
  <1>5. \A i \in 1 .. n : file[i].op \in Nat
    BY <1>4 DEF Entries
  <1>6. \A i \in 1 .. n + l : g[i].op <= k + l
    BY <1>1, <1>3, <1>5
  <1>7. ASSUME NEW o \in 1 .. k + l
        PROVE  \E i \in 1 .. n + l : \A j \in 1 .. n + l : g[j].op = o <=> j = i
    <2>1. CASE o \in 1 .. k
      <3>1. PICK i \in 1 .. n : \A j \in 1 .. n : file[j].op = o <=> j = i
        BY <2>1 DEF Stored, n
      <3>2. i \in 1 .. n + l
        BY <1>1
      <3>3. ASSUME NEW j \in 1 .. n + l
            PROVE  g[j].op = o <=> j = i
        <4>1. CASE j \in 1 .. n
          BY <4>1, <3>1, <1>2
        <4>2. CASE j \notin 1 .. n
          <5>1. j - n \in 1 .. l /\ g[j].op = k + (j - n)
            BY <4>2, <1>3
          <5> QED
            BY <5>1, <4>2, <2>1, <1>1
        <4> QED
          BY <4>1, <4>2
      <3> QED
        BY <3>2, <3>3
    <2>2. CASE o \notin 1 .. k
      <3> DEFINE i == n + (o - k)
      <3>1. i \in 1 .. n + l /\ i \notin 1 .. n /\ i - n = o - k /\ o > k
        BY <2>2, <1>1
      <3>2. k + (o - k) = o
        BY <1>1
      <3> HIDE DEF i
      <3>3. ASSUME NEW j \in 1 .. n + l
            PROVE  g[j].op = o <=> j = i
        <4>1. CASE j \in 1 .. n
          <5>1. g[j] = file[j] /\ file[j].op <= k /\ file[j].op \in Nat
            BY <4>1, <1>3, <1>5, <1>1
          <5> QED
            BY <5>1, <4>1, <3>1
        <4>2. CASE j \notin 1 .. n
          <5>1. j - n \in 1 .. l /\ g[j].op = k + (j - n)
            BY <4>2, <1>3
          <5>2. k + (j - n) = o <=> j = i
            BY <3>1, <1>1
          <5> QED
            BY <5>1, <5>2
        <4> QED
          BY <4>1, <4>2
      <3> QED
        BY <3>1, <3>3
    <2> QED
      BY <2>1, <2>2
  <1>8. Stored(g, k + l)
    BY <1>2, <1>6, <1>7 DEF Stored
  <1> QED
    BY <1>8 DEF g, l

\* _flushBuffer
LEMMA KeptFlush ==
    ASSUME NEW n \in Nat, NEW w, Sound(w, n), NEW o \in Nat, NEW m \in Nat, Kept(w, o, m)
    PROVE  Kept(FlushBuffer(w), o, m)
  <1> DEFINE f == FlushBuffer(w)
  <1>1. /\ f.offset = 0 /\ f.slots = w.slots /\ f.file = w.file
        /\ f.queue = IF w.offset = 0 THEN w.queue ELSE Append(w.queue, w.offset)
    BY FlushFacts
  <1> HIDE DEF f
  <1>2. \/ f.queue = <<>> /\ f.offset = m
        \/ f.queue = <<m>> /\ f.offset = 0
    <2>1. CASE w.queue = <<>> /\ w.offset = m /\ m = 0
      BY <2>1, <1>1 DEF Kept
    <2>2. CASE w.queue = <<>> /\ w.offset = m /\ m # 0
      <3>1. f.queue = Append(<<>>, m)
        BY <2>2, <1>1
      <3>2. Append(<<>>, m) = <<m>>
        OBVIOUS
      <3> QED
        BY <3>1, <3>2, <1>1
    <2>3. CASE w.queue = <<m>> /\ w.offset = 0
      BY <2>3, <1>1
    <2> QED
      BY <2>1, <2>2, <2>3 DEF Kept
  <1> QED
    BY <1>1, <1>2 DEF Kept, f

\* _writeToBuffer, with a place free and nothing left to write.
LEMMA KeptWrite ==
    ASSUME NEW n \in Nat, NEW w, Sound(w, n), NEW e, Whole(e), e.lsn = n + 1,
           NEW o \in Nat, NEW m \in Nat, Kept(w, o, m),
           w.queue = <<>>, w.offset # BufferSlots, e.op = o + 1
    PROVE  Kept(WriteToBuffer(w, e), o + 1, m + 1)
  <1> DEFINE x == WriteToBuffer(w, e)
  <1>1. /\ x.file = w.file /\ x.queue = w.queue /\ x.offset = w.offset + 1
        /\ x.slots[w.offset + 1] = e
        /\ \A j \in 1 .. BufferSlots : j # w.offset + 1 => x.slots[j] = w.slots[j]
    BY WriteFacts
  <1> HIDE DEF x
  <1>2. w.offset = m
    <2>1. <<>> # <<m>>
      OBVIOUS
    <2> QED
      BY <2>1 DEF Kept
  <1>3. m \in 0 .. BufferSlots /\ m <= o /\ (o + 1) - (m + 1) = o - m
    BY <1>2, SlotAssumption DEF Sound, WalType, Offsets, Kept
  <1>4. ASSUME NEW i \in 1 .. m + 1
        PROVE  x.slots[i].op = o - m + i
    <2>1. CASE i = m + 1
      BY <2>1, <1>1, <1>2, <1>3
    <2>2. CASE i # m + 1
      <3>1. i \in 1 .. m /\ i \in 1 .. BufferSlots
        BY <2>2, <1>3, SlotAssumption
      <3> QED
        BY <3>1, <2>2, <1>1, <1>2 DEF Kept
    <2> QED
      BY <2>1, <2>2
  <1>5. Stored(x.file, (o + 1) - (m + 1))
    BY <1>1, <1>3 DEF Kept
  <1>6. Kept(x, o + 1, m + 1)
    <2>1. m + 1 <= o + 1
      BY <1>3
    <2>2. \A i \in 1 .. m + 1 : x.slots[i].op = (o + 1) - (m + 1) + i
      BY <1>3, <1>4
    <2>3. x.queue = <<>> /\ x.offset = m + 1
      BY <1>1, <1>2
    <2> QED
      BY <2>1, <2>2, <2>3, <1>5, Zenon DEF Kept
  <1> QED
    BY <1>6 DEF x

\* checkpoint() writes its entry past the stream.
LEMMA WrittenFacts ==
    ASSUME NEW n \in Nat, NEW w, Sound(w, n), NEW e, Whole(e), e.lsn = n + 1
    PROVE  LET x == Synced(Written(w, <<e>>))
           IN /\ Sound(x, n + 1) /\ Len(x.file) >= Len(w.file)
              /\ x.mode = w.mode /\ x.lsn = w.lsn /\ x.count = w.count
              /\ e.op = 0 => \A o, m \in Nat : Kept(w, o, m) => Kept(x, o, m)
  <1> DEFINE s == <<e>>
             g == w.file \o s
             y == [w EXCEPT !.file = g]
             x == [y EXCEPT !.synced = Len(y.file)]
  <1>1. Synced(Written(w, <<e>>)) = x
    BY DEF Synced, Written
  <1>2. w \in WalType /\ w.file \in Seq(Entries)
    BY DEF Sound, WalType, Files
  <1>3. s \in Seq(Entries) /\ Len(s) = 1 /\ s[1] = e
    BY DEF Whole
  <1>4. \A i \in 1 .. Len(s) : s[i] = e /\ s[i].form = "whole"
    BY <1>3 DEF Whole
  <1> HIDE DEF s
  <1>5. /\ g \in Seq(Entries) /\ Len(g) \in Nat /\ Len(g) >= Len(w.file)
        /\ \A i : Read(g, i) => (i \in 1 .. Len(w.file) /\ Read(w.file, i)) \/ g[i] = e
        /\ AllWhole(g) => AllWhole(w.file)
        /\ \A i \in 1 .. Len(w.file) : g[i] = w.file[i]
    <2> DEFINE file == w.file
               h == file \o s
               m == Len(file)
    <2>1. file \in Seq(Entries)
      BY <1>2
    <2> HIDE DEF file
    <2>2. /\ h \in Seq(Entries) /\ Len(h) = m + Len(s)
          /\ \A i \in 1 .. m : h[i] = file[i]
          /\ \A i : Read(h, i) =>
                \/ i \in 1 .. m /\ Read(file, i)
                \/ AllWhole(file) /\ i - m \in 1 .. Len(s) /\ h[i] = s[i - m]
          /\ AllWhole(h) => AllWhole(file)
      BY <2>1, <1>3, <1>4, FileGrows
    <2>3. Len(h) \in Nat /\ Len(h) >= m
      <3>1. m \in Nat
        BY <2>1, SeqFacts
      <3> QED
        BY <3>1, <2>2, <1>3
    <2> HIDE DEF h, m
    <2>4. \A i : Read(h, i) => (i \in 1 .. m /\ Read(file, i)) \/ h[i] = e
      BY <2>2, <1>4
    <2> QED
      BY <2>2, <2>3, <2>4 DEF file, h, m
  <1> HIDE DEF g
  <1>6. /\ y \in WalType /\ y.file = g /\ y.synced = w.synced
        /\ y.mode = w.mode /\ y.lsn = w.lsn /\ y.count = w.count
        /\ y.slots = w.slots /\ y.queue = w.queue /\ y.offset = w.offset
    <2>1. g \in Files
      BY <1>5 DEF Files
    <2>2. \A h \in Files :
             LET f == [w EXCEPT !.file = h]
             IN /\ f \in WalType /\ f.file = h /\ f.synced = w.synced
                /\ f.mode = w.mode /\ f.lsn = w.lsn /\ f.count = w.count
                /\ f.slots = w.slots /\ f.queue = w.queue /\ f.offset = w.offset
      BY <1>2, WalFields
    <2> QED
      BY <2>1, <2>2
  <1> HIDE DEF y
  <1>7. /\ x \in WalType /\ x.file = g /\ x.synced = Len(g)
        /\ x.mode = w.mode /\ x.lsn = w.lsn /\ x.count = w.count
        /\ x.slots = w.slots /\ x.queue = w.queue /\ x.offset = w.offset
    <2>1. \A k \in Nat :
             LET f == [y EXCEPT !.synced = k]
             IN /\ f \in WalType /\ f.file = y.file /\ f.synced = k
                /\ f.mode = y.mode /\ f.lsn = y.lsn /\ f.count = y.count
                /\ f.slots = y.slots /\ f.queue = y.queue /\ f.offset = y.offset
      BY <1>6, WalFields
    <2>2. Len(y.file) \in Nat
      BY <1>5, <1>6
    <2> QED
      BY <2>1, <2>2, <1>6
  <1> HIDE DEF x
  <1>8. \A i : Live(x, i) => Live(w, i)
    BY <1>7 DEF Live
  <1>9. Held(x)
    BY <1>7, <1>8 DEF Held, Sound
  <1>10. Numbered(x, n + 1)
    <2>1. ASSUME NEW l \in Nat, NEW o \in Nat, Names(x, l, o)
          PROVE  Names(w, l, o) \/ (l = n + 1 /\ o = e.op)
      BY <2>1, <1>5, <1>7, <1>8 DEF Names
    <2>2. Numbered(w, n)
      BY DEF Sound
    <2> QED
      BY <2>1, <2>2, NumberedGrows
  <1>11. ASSUME e.op = 0, NEW o \in Nat, NEW m \in Nat, Kept(w, o, m)
         PROVE  Kept(x, o, m)
    <2>1. o - m \in Nat /\ Stored(w.file, o - m)
      BY <1>11 DEF Kept
    <2>2. Stored(g, o - m)
      BY <2>1, <1>2, <1>11, StoredCheckpoint DEF g, s
    <2> QED
      BY <2>2, <1>7, <1>11, Zenon DEF Kept
  <1> QED
    BY <1>1, <1>5, <1>7, <1>9, <1>10, <1>11 DEF Sound

\* The counters are no part of what the log says.
LEMMA SameLog ==
    ASSUME NEW n \in Nat, NEW w, Sound(w, n), NEW x \in WalType,
           x.slots = w.slots, x.offset = w.offset, x.queue = w.queue, x.file = w.file,
           x.synced <= Len(x.file)
    PROVE  Sound(x, n)
  <1>1. \A i : Live(x, i) <=> Live(w, i)
    BY DEF Live
  <1>2. Held(x)
    BY <1>1 DEF Held, Sound
  <1>3. Numbered(x, n)
    <2>1. \A a, o \in Nat : Names(x, a, o) => Names(w, a, o)
      BY <1>1 DEF Names
    <2> QED
      BY <2>1, NumberedShrinks DEF Sound
  <1> QED
    BY <1>2, <1>3 DEF Sound

\* checkpoint
LEMMA CheckpointFacts ==
    ASSUME NEW w, w.lsn \in Nat, Sound(w, w.lsn)
    PROVE  LET x == Checkpoint(w)
           IN /\ Sound(x, x.lsn) /\ x.lsn \in Nat /\ x.count = 0 /\ x.mode = w.mode
              /\ Len(x.file) >= Len(w.file)
              /\ \A o, m \in Nat : Kept(w, o, m) => Kept(x, o, m)
  <1> DEFINE b == FlushBuffer(w)
             f == [b EXCEPT !.lsn = @ + 1, !.count = 0]
             n == w.lsn
             e == Entry(f.lsn, 0)
             x == Synced(Written(f, <<e>>))
  <1>1. n \in Nat /\ n + 1 \in Nat
    OBVIOUS
  <1>2. Sound(b, n) /\ b.mode = w.mode /\ b.lsn = n /\ b.file = w.file
    BY FlushFacts
  <1>9. \A o, m \in Nat : Kept(w, o, m) => Kept(b, o, m)
    BY <1>1, KeptFlush
  <1> HIDE DEF b
  <1>3. /\ Sound(f, n) /\ f.lsn = n + 1 /\ f.count = 0 /\ f.mode = w.mode /\ f.file = w.file
        /\ f.queue = b.queue /\ f.offset = b.offset /\ f.slots = b.slots /\ f.file = b.file
    <2>1. f = [b EXCEPT !.lsn = n + 1, !.count = 0]
      BY <1>2
    <2> HIDE DEF n, f
    <2>2. b \in WalType /\ b.synced <= Len(b.file)
      BY <1>2 DEF Sound
    <2>3. \A l, c \in Nat :
             LET y == [b EXCEPT !.lsn = l, !.count = c]
             IN /\ y \in WalType /\ y.lsn = l /\ y.count = c
                /\ y.mode = b.mode /\ y.queue = b.queue /\ y.offset = b.offset
                /\ y.slots = b.slots /\ y.file = b.file /\ y.synced = b.synced
      BY <2>2, WalFields
    <2>4. /\ f \in WalType /\ f.lsn = n + 1 /\ f.count = 0
          /\ f.mode = b.mode /\ f.queue = b.queue /\ f.offset = b.offset
          /\ f.slots = b.slots /\ f.file = b.file /\ f.synced = b.synced
      BY ZenonT(90), <1>1, <2>1, <2>3
    <2>5. Sound(f, n)
      BY <1>1, <1>2, <2>2, <2>4, SameLog
    <2> QED
      BY <1>2, <2>4, <2>5
  <1>10. \A o, m \in Nat : Kept(w, o, m) => Kept(f, o, m)
    <2> HIDE DEF f
    <2> QED
      BY <1>3, <1>9, SameKept
  <1>4. Checkpoint(w) = IF fd THEN x ELSE f
    BY DEF Checkpoint, b
  <1> HIDE DEF f
  <1>5. Whole(e) /\ e.lsn = n + 1 /\ e.op = 0
    BY <1>1, <1>3 DEF Whole, Entries, Entry
  <1> HIDE DEF e, n
  <1>6. /\ Sound(x, n + 1) /\ Len(x.file) >= Len(f.file)
        /\ x.mode = f.mode /\ x.lsn = f.lsn /\ x.count = f.count
        /\ \A o, m \in Nat : Kept(f, o, m) => Kept(x, o, m)
    BY <1>1, <1>3, <1>5, WrittenFacts
  <1>7. Sound(f, n + 1)
    <2>1. Numbered(f, n + 1)
      <3>1. \A l \in Nat : l <= n => l <= n + 1
        BY <1>1
      <3>2. Numbered(f, n)
        BY <1>3 DEF Sound
      <3> QED
        BY <3>1, <3>2 DEF Numbered
    <2> QED
      BY <2>1, <1>3 DEF Sound
  <1> HIDE DEF x
  <1>8. Len(f.file) \in Nat /\ f.file \in Seq(Entries)
    <2>1. f.file \in Seq(Entries)
      BY <1>3 DEF Sound, WalType, Files
    <2> QED
      BY <2>1, SeqFacts
  <1> QED
    BY <1>1, <1>3, <1>4, <1>6, <1>7, <1>8, <1>10

\* logOperation
LEMMA LogFacts ==
    ASSUME NEW w, w.lsn \in Nat, w.count \in 0 .. CheckpointInterval - 1, Sound(w, w.lsn),
           NEW op \in Nat \ {0}
    PROVE  LET x == LogOperation(w, op)
           IN /\ Sound(x, x.lsn) /\ x.lsn \in Nat
              /\ x.count \in 0 .. CheckpointInterval - 1 /\ x.mode = w.mode
              /\ Len(x.file) >= Len(w.file)
              /\ w.queue = <<>> /\ w.offset # BufferSlots =>
                    \A m \in Nat : Kept(w, op - 1, m) => Kept(x, op, m + 1)
  <1> DEFINE l == w.lsn
             c == w.count + 1
             n == [w EXCEPT !.lsn = l + 1, !.count = c]
             e == Entry(n.lsn, op)
             b == WriteToBuffer(n, e)
             f == FlushBuffer(b)
             s == IF w.mode # "full" THEN b ELSE IF fd THEN Synced(f) ELSE f
  <1>1. l \in Nat /\ l + 1 \in Nat /\ c \in Nat /\ c <= CheckpointInterval /\ w.mode \in SyncModes
    BY IntervalAssumption DEF Sound, WalType
  <1>2. LogOperation(w, op) = IF s.count >= CheckpointInterval THEN Checkpoint(s) ELSE s
    BY DEF LogOperation
  <1>3. /\ Sound(n, l) /\ n.lsn = l + 1 /\ n.count = c /\ n.mode = w.mode
        /\ n.file = w.file
        /\ n.queue = w.queue /\ n.offset = w.offset /\ n.slots = w.slots
    <2> HIDE DEF l, c
    <2>1. Sound(w, l)
      BY DEF l
    <2>2. w \in WalType /\ w.synced <= Len(w.file)
      BY <2>1 DEF Sound
    <2>3. \A a, k \in Nat :
             LET y == [w EXCEPT !.lsn = a, !.count = k]
             IN /\ y \in WalType /\ y.lsn = a /\ y.count = k
                /\ y.mode = w.mode /\ y.queue = w.queue /\ y.offset = w.offset
                /\ y.slots = w.slots /\ y.file = w.file /\ y.synced = w.synced
      BY <2>2, WalFields
    <2>4. /\ n \in WalType /\ n.lsn = l + 1 /\ n.count = c
          /\ n.mode = w.mode /\ n.queue = w.queue /\ n.offset = w.offset
          /\ n.slots = w.slots /\ n.file = w.file /\ n.synced = w.synced
      BY <1>1, <2>3
    <2> HIDE DEF n
    <2>5. Sound(n, l)
      BY <1>1, <2>1, <2>2, <2>4, SameLog
    <2> QED
      BY <2>4, <2>5
  <1> HIDE DEF n
  <1>4. Whole(e) /\ e.lsn = l + 1 /\ e.op = op
    BY <1>1, <1>3 DEF Whole, Entries, Entry
  <1> HIDE DEF e, l, c
  <1>5. /\ Sound(b, l + 1) /\ b.lsn = l + 1 /\ b.count = c /\ b.mode = w.mode
        /\ b.file = w.file
    BY <1>1, <1>3, <1>4, WriteFacts
  <1>11. ASSUME w.queue = <<>>, w.offset # BufferSlots, NEW m \in Nat, Kept(w, op - 1, m)
         PROVE  Kept(b, op, m + 1)
    <2> DEFINE o == op - 1
    <2>1. o \in Nat /\ op = o + 1
      OBVIOUS
    <2>2. Kept(n, o, m)
      <3> HIDE DEF o
      <3>1. Kept(w, o, m)
        BY <1>11 DEF o
      <3> QED
        BY <3>1, <1>3 DEF Kept
    <2>3. n.queue = <<>> /\ n.offset # BufferSlots
      BY <1>3, <1>11
    <2> HIDE DEF o, b
    <2>4. Kept(b, o + 1, m + 1)
      BY <1>1, <1>3, <1>4, <2>1, <2>2, <2>3, KeptWrite DEF b
    <2> QED
      BY <2>1, <2>4
  <1> HIDE DEF b
  <1>6. /\ Sound(f, l + 1) /\ f.lsn = l + 1 /\ f.count = c /\ f.mode = w.mode
        /\ f.file = w.file
    BY <1>1, <1>5, FlushFacts
  <1>12. \A m \in Nat : Kept(b, op, m + 1) => Kept(f, op, m + 1)
    <2>1. \A m \in Nat : m + 1 \in Nat
      OBVIOUS
    <2> QED
      BY <2>1, <1>1, <1>5, KeptFlush
  <1> HIDE DEF f
  <1>7. LET y == Synced(f)
        IN /\ Sound(y, l + 1) /\ y.lsn = l + 1 /\ y.count = c /\ y.mode = w.mode
           /\ y.file = w.file
           /\ y.queue = f.queue /\ y.offset = f.offset /\ y.slots = f.slots
    <2>1. Len(f.file) \in Nat /\ Len(f.file) <= Len(f.file)
      <3>1. f.file \in Seq(Entries)
        BY <1>6 DEF Sound, WalType, Files
      <3>2. Len(f.file) \in Nat
        BY <3>1, SeqFacts
      <3> QED
        BY <3>2
    <2> DEFINE k == Len(f.file)
               y == [f EXCEPT !.synced = k]
    <2>2. f \in WalType
      BY <1>6 DEF Sound
    <2>3. /\ y \in WalType /\ y.synced = k /\ y.file = f.file
          /\ y.mode = f.mode /\ y.lsn = f.lsn /\ y.count = f.count
          /\ y.slots = f.slots /\ y.queue = f.queue /\ y.offset = f.offset
      <3> HIDE DEF k
      <3>1. \A a \in Nat :
             LET z == [f EXCEPT !.synced = a]
             IN /\ z \in WalType /\ z.file = f.file /\ z.synced = a
                /\ z.mode = f.mode /\ z.lsn = f.lsn /\ z.count = f.count
                /\ z.slots = f.slots /\ z.queue = f.queue /\ z.offset = f.offset
        BY <2>2, WalFields
      <3>2. k \in Nat
        BY <2>1 DEF k
      <3> QED
        BY <3>1, <3>2
    <2>4. Synced(f) = y
      BY DEF Synced
    <2> HIDE DEF y
    <2>5. Sound(y, l + 1)
      BY <1>1, <1>6, <2>1, <2>3, SameLog
    <2> QED
      BY <1>6, <2>3, <2>4, <2>5
  <1>8. /\ Sound(s, l + 1) /\ s.lsn = l + 1 /\ s.count = c /\ s.mode = w.mode
        /\ s.file = w.file
    BY <1>5, <1>6, <1>7
  <1>13. \A m \in Nat : Kept(b, op, m + 1) => Kept(s, op, m + 1)
    <2>1. \A m \in Nat : Kept(f, op, m + 1) => Kept(Synced(f), op, m + 1)
      BY <1>6, <1>7 DEF Kept
    <2> QED
      BY <2>1, <1>12
  <1>14. w.queue = <<>> /\ w.offset # BufferSlots =>
            \A m \in Nat : Kept(w, op - 1, m) => Kept(s, op, m + 1)
    BY <1>11, <1>13
  <1> HIDE DEF s
  <1>9. CASE s.count >= CheckpointInterval
    <2>1. LET x == Checkpoint(s)
          IN /\ Sound(x, x.lsn) /\ x.lsn \in Nat /\ x.count = 0 /\ x.mode = s.mode
             /\ Len(x.file) >= Len(s.file)
             /\ \A o, m \in Nat : Kept(s, o, m) => Kept(x, o, m)
      BY <1>1, <1>8, CheckpointFacts
    <2>2. 0 \in 0 .. CheckpointInterval - 1
      BY IntervalAssumption
    <2>3. \A m \in Nat : m + 1 \in Nat
      OBVIOUS
    <2> QED
      BY <2>1, <2>2, <2>3, <1>2, <1>8, <1>9, <1>14
  <1>10. CASE ~ (s.count >= CheckpointInterval)
    <2>1. c \in 0 .. CheckpointInterval - 1
      BY <1>1, <1>8, <1>10, IntervalAssumption
    <2>2. Len(w.file) \in Nat
      <3>1. w.file \in Seq(Entries)
        BY DEF Sound, WalType, Files
      <3> QED
        BY <3>1, SeqFacts
    <2> QED
      BY <2>1, <2>2, <1>1, <1>2, <1>8, <1>10, <1>14
  <1> QED
    BY <1>9, <1>10

\* The stream carries out a write.
LEMMA ChunkWritten ==
    ASSUME NEW n \in Nat, NEW w, Sound(w, n), w.queue # <<>>
    PROVE  LET x == [Written(w, Chunk(w)) EXCEPT !.queue = Tail(@)]
           IN /\ Sound(x, n) /\ Len(x.file) >= Len(w.file)
              /\ x.mode = w.mode /\ x.lsn = w.lsn /\ x.count = w.count
              /\ \A o, m \in Nat : Kept(w, o, m) => Kept(x, o, 0)
  <1> DEFINE s == Chunk(w)
             g == w.file \o s
             q == Tail(w.queue)
             h == Head(w.queue)
             x == [w EXCEPT !.file = g, !.queue = q]
  <1>1. w \in WalType /\ w.file \in Seq(Entries) /\ w.queue \in Seq(1 .. BufferSlots)
    BY DEF Sound, WalType, Files, Queues
  <1>2. [Written(w, s) EXCEPT !.queue = Tail(@)] = x
    <2> DEFINE y == [w EXCEPT !.file = @ \o s]
    <2>1. y.queue = w.queue
      BY <1>1 DEF WalType
    <2>2. Written(w, s) = y
      BY DEF Written
    <2> QED
      BY <2>1, <2>2
  <1>3. /\ h = w.queue[1] /\ h \in 1 .. BufferSlots /\ q \in Seq(1 .. BufferSlots)
        /\ Len(w.queue) \in Nat \ {0} /\ Len(q) = Len(w.queue) - 1
        /\ \A k \in 1 .. Len(w.queue) - 1 : q[k] = w.queue[k + 1]
    BY <1>1, TailFacts
  <1> HIDE DEF q, h
  <1>4. \A i \in 1 .. h : Live(w, i)
    <2>1. 1 \in 1 .. Len(w.queue) /\ \A i \in 1 .. h : i \in 1 .. BufferSlots /\ i <= h
      BY <1>3, SlotAssumption
    <2> QED
      BY <2>1, <1>3 DEF Live
  <1>5. s = [i \in 1 .. h |-> w.slots[i]] /\ \A i \in 1 .. h : s[i] = w.slots[i]
    BY DEF Chunk, h
  <1> HIDE DEF s
  <1>6. s \in Seq(Entries) /\ Len(s) = h /\ \A i \in 1 .. Len(s) : s[i].form = "whole"
    <2>1. \A i \in 1 .. h : w.slots[i] \in Entries /\ w.slots[i].form = "whole"
      BY <1>4 DEF Sound, Held
    <2>2. h \in Nat
      BY <1>3, SlotAssumption
    <2> HIDE DEF Entries
    <2>3. s \in [1 .. h -> Entries]
      BY <1>5, <2>1
    <2>4. s \in Seq(Entries) /\ Len(s) = h
      BY <2>2, <2>3
    <2> QED
      BY <2>1, <2>4, <1>5
  <1>7. /\ g \in Seq(Entries) /\ Len(g) >= Len(w.file)
        /\ \A i : Read(g, i) =>
              \/ i \in 1 .. Len(w.file) /\ Read(w.file, i) /\ g[i] = w.file[i]
              \/ AllWhole(w.file) /\ \E k \in 1 .. h : g[i] = w.slots[k]
        /\ AllWhole(g) => AllWhole(w.file)
    <2> DEFINE file == w.file
               f == file \o s
               m == Len(file)
    <2>1. file \in Seq(Entries)
      BY <1>1
    <2> HIDE DEF file
    <2>2. /\ f \in Seq(Entries) /\ Len(f) = m + Len(s)
          /\ \A i \in 1 .. m : f[i] = file[i]
          /\ \A i : Read(f, i) =>
                \/ i \in 1 .. m /\ Read(file, i)
                \/ AllWhole(file) /\ i - m \in 1 .. Len(s) /\ f[i] = s[i - m]
          /\ AllWhole(f) => AllWhole(file)
      BY <2>1, <1>6, FileGrows
    <2>3. Len(f) >= m
      <3>1. m \in Nat /\ Len(s) \in Nat
        BY <2>1, <1>6, SeqFacts
      <3> QED
        BY <2>2, <3>1
    <2> HIDE DEF f, m
    <2>4. \A i : Read(f, i) =>
                \/ i \in 1 .. m /\ Read(file, i) /\ f[i] = file[i]
                \/ AllWhole(file) /\ \E k \in 1 .. h : f[i] = w.slots[k]
      BY <2>2, <1>5, <1>6
    <2> QED
      BY <2>2, <2>3, <2>4 DEF file, f, m
  <1>16. ASSUME NEW o \in Nat, NEW m \in Nat, Kept(w, o, m)
         PROVE  q = <<>> /\ w.offset = 0 /\ Stored(g, o)
    <2>1. w.queue = <<m>> /\ w.offset = 0
      BY <1>16 DEF Kept
    <2>2. h = m /\ q = <<>>
      BY <2>1 DEF h, q
    <2>3. /\ o - m \in Nat /\ Stored(w.file, o - m)
          /\ \A i \in 1 .. m : w.slots[i].op = o - m + i
      BY <1>16 DEF Kept
    <2>4. \A i \in 1 .. Len(s) : s[i].op = o - m + i
      BY <2>2, <2>3, <1>5, <1>6
    <2> DEFINE k == o - m
    <2>5. k \in Nat /\ Stored(w.file, k) /\ \A i \in 1 .. Len(s) : s[i].op = k + i
      BY <2>3, <2>4
    <2>6. k + Len(s) = o
      BY <2>2, <2>3, <1>6
    <2> HIDE DEF k
    <2>7. Stored(w.file \o s, k + Len(s))
      BY <2>5, <1>1, <1>6, StoredChunk
    <2> QED
      BY <2>1, <2>2, <2>6, <2>7
  <1> HIDE DEF g
  <1>8. /\ x \in WalType /\ x.file = g /\ x.queue = q
        /\ x.mode = w.mode /\ x.lsn = w.lsn /\ x.count = w.count
        /\ x.slots = w.slots /\ x.synced = w.synced /\ x.offset = w.offset
    <2>1. g \in Files /\ q \in Queues
      BY <1>3, <1>7 DEF Files, Queues
    <2>2. \A a \in Files, b \in Queues :
             LET f == [w EXCEPT !.file = a, !.queue = b]
             IN /\ f \in WalType /\ f.file = a /\ f.queue = b
                /\ f.mode = w.mode /\ f.lsn = w.lsn /\ f.count = w.count
                /\ f.slots = w.slots /\ f.synced = w.synced /\ f.offset = w.offset
      BY <1>1, WalFields
    <2> QED
      BY <2>1, <2>2
  <1> HIDE DEF x
  <1>9. ASSUME NEW i, Live(x, i)
        PROVE  Live(w, i)
    <2>1. CASE i <= x.offset
      BY <2>1, <1>8, <1>9 DEF Live
    <2>2. CASE \E k \in 1 .. Len(q) : i <= q[k]
      <3>1. PICK k \in 1 .. Len(q) : i <= q[k]
        BY <2>2
      <3>2. k + 1 \in 1 .. Len(w.queue) /\ q[k] = w.queue[k + 1]
        BY <1>3
      <3>3. i <= w.queue[k + 1]
        BY <3>1, <3>2
      <3> QED
        BY <3>2, <3>3, <1>9 DEF Live
    <2> QED
      BY <2>1, <2>2, <1>8, <1>9 DEF Live
  <1>10. Held(x)
    BY <1>8, <1>9 DEF Held, Sound
  <1>11. Numbered(x, n)
    <2>1. \A l, o \in Nat : Names(x, l, o) => Names(w, l, o)
      BY <1>4, <1>7, <1>8, <1>9 DEF Names
    <2> QED
      BY <2>1, NumberedShrinks DEF Sound
  <1>12. x.synced <= Len(x.file)
    <2>1. w.synced \in Nat /\ w.synced <= Len(w.file) /\ Len(w.file) \in Nat /\ Len(g) \in Nat
      BY <1>1, <1>7, SeqFacts DEF Sound, WalType
    <2> QED
      BY <2>1, <1>7, <1>8
  <1>13. Sound(x, n)
    BY <1>8, <1>10, <1>11, <1>12 DEF Sound
  <1>14. Written(w, Chunk(w)) = Written(w, s) /\ x.file = g
    BY <1>8 DEF s
  <1> HIDE DEF s
  <1>15. [Written(w, Chunk(w)) EXCEPT !.queue = Tail(@)] = x
    BY <1>2, <1>14
  <1>17. ASSUME NEW o \in Nat, NEW m \in Nat, Kept(w, o, m)
         PROVE  Kept(x, o, 0)
    <2>1. q = <<>> /\ w.offset = 0 /\ Stored(g, o)
      BY <1>16, <1>17
    <2>2. 0 <= o /\ o - 0 = o /\ ~ \E i : i \in 1 .. 0
      OBVIOUS
    <2> QED
      BY <2>1, <2>2, <1>8, Zenon DEF Kept
  <1> QED
    BY <1>7, <1>8, <1>13, <1>15, <1>17

\* Nothing is left in the buffer or on its way, and the file says no more.
LEMMA Emptied ==
    ASSUME NEW n \in Nat, NEW w, Sound(w, n), NEW x \in WalType,
           x.offset = 0, x.queue = <<>>, x.synced <= Len(x.file),
           \A i : Read(x.file, i) => /\ Read(w.file, i)
                                     /\ x.file[i].lsn = w.file[i].lsn
                                     /\ x.file[i].op = w.file[i].op
    PROVE  Sound(x, n)
  <1>1. \A i : ~ Live(x, i)
    <2>1. Len(x.queue) = 0
      OBVIOUS
    <2>2. \A i \in 1 .. BufferSlots : ~ (i <= 0)
      BY SlotAssumption
    <2> QED
      BY <2>1, <2>2 DEF Live
  <1>2. Held(x)
    BY <1>1 DEF Held
  <1>3. Numbered(x, n)
    <2>1. \A l, o \in Nat : Names(x, l, o) => Names(w, l, o)
      BY <1>1 DEF Names
    <2> QED
      BY <2>1, NumberedShrinks DEF Sound
  <1> QED
    BY <1>2, <1>3 DEF Sound

\* A set of numbers up to n that is not empty has a greatest element.
LEMMA Greatest ==
    ASSUME NEW n \in Nat, NEW T \in SUBSET (0 .. n), T # {}
    PROVE  \E m \in T : \A k \in T : k <= m
  <1> DEFINE U == {j \in 0 .. n : n - j \in T}
  <1>1. U \in SUBSET Nat /\ U # {}
    <2>1. PICK t \in T : TRUE
      OBVIOUS
    <2>2. n - t \in 0 .. n /\ n - (n - t) = t
      OBVIOUS
    <2> QED
      BY <2>2
  <1> HIDE DEF U
  <1>2. PICK j \in U : \A k \in U : j <= k
    BY <1>1, LeastNatural
  <1>3. j \in 0 .. n /\ n - j \in T
    BY DEF U
  <1>4. ASSUME NEW k \in T
        PROVE  k <= n - j
    <2>1. k \in 0 .. n /\ n - k \in 0 .. n /\ n - (n - k) = k
      OBVIOUS
    <2>2. n - k \in U
      BY <2>1 DEF U
    <2> QED
      BY <2>1, <2>2, <1>2, <1>3
  <1> QED
    BY <1>3, <1>4

\* _readLastLSN
LEMMA LastFacts ==
    ASSUME NEW n \in Nat, NEW file \in Seq(Entries),
           \A i : Read(file, i) => file[i].lsn <= n
    PROVE  LastLSN(file) \in Nat /\ \A i : Read(file, i) => file[i].lsn <= LastLSN(file)
  <1>1. CASE file = <<>>
    <2>1. \A i : ~ Read(file, i)
      <3>1. Len(file) = 0
        BY <1>1
      <3> QED
        BY <3>1 DEF Read
    <2> QED
      BY <1>1, <2>1 DEF LastLSN
  <1>2. CASE file # <<>>
    <2> DEFINE T == {Reached(file)[i].lsn : i \in DOMAIN Reached(file)}
               most(m) == \A k \in T : k <= m
               m == CHOOSE k \in T : most(k)
    <2>1. \A i : Read(file, i) => file[i].lsn \in 0 .. n
      <3>1. \A i \in 1 .. Len(file) : file[i] \in Entries
        BY SeqFacts
      <3>2. \A i \in 1 .. Len(file) : file[i].lsn \in Nat
        BY <3>1 DEF Entries
      <3> QED
        BY <3>2 DEF Read
    <2>2. T \subseteq 0 .. n /\ \A i : Read(file, i) => file[i].lsn \in T
      BY <2>1, ReachedFacts
    <2>3. T # {}
      <3>1. Len(file) \in Nat /\ Len(file) # 0
        BY <1>2
      <3>2. Read(file, 1)
        BY <3>1 DEF Read
      <3> QED
        BY <2>2, <3>2
    <2>4. LastLSN(file) = m
      BY <1>2 DEF LastLSN
    <2> HIDE DEF T
    <2>5. \E k \in T : most(k)
      BY <2>2, <2>3, Greatest
    <2>6. m \in T /\ most(m)
      <3> HIDE DEF most
      <3> QED
        BY <2>5
    <2> HIDE DEF m
    <2>7. m \in Nat
      BY <2>2, <2>6
    <2> QED
      BY <2>2, <2>4, <2>6, <2>7
  <1> QED
    BY <1>1, <1>2

\* The constructor.
LEMMA OpenedFacts ==
    ASSUME NEW n \in Nat, NEW file \in Seq(Entries), NEW mode \in SyncModes,
           \A i : Read(file, i) => file[i].lsn <= n,
           \A i, j : Read(file, i) /\ Read(file, j) /\ file[i].lsn = file[j].lsn
                        => file[i].op = file[j].op
    PROVE  LET x == Opened(file, mode)
           IN /\ Sound(x, x.lsn) /\ x.lsn \in Nat /\ x.count = 0
              /\ x.file = file /\ x.mode = mode
  <1> DEFINE l == LastLSN(file)
             s == [i \in 1 .. BufferSlots |-> None]
             k == Len(file)
             x == [mode |-> mode, lsn |-> l, count |-> 0, slots |-> s, offset |-> 0,
                   queue |-> <<>>, file |-> file, synced |-> k]
  <1>1. Opened(file, mode) = x
    BY DEF Opened
  <1>2. l \in Nat /\ \A i : Read(file, i) => file[i].lsn <= l
    BY LastFacts
  <1>3. s \in Slots /\ 0 \in Offsets /\ file \in Files /\ k \in Nat
    BY SeqFacts, SlotAssumption DEF Slots, Offsets, Files
  <1>4. <<>> \in Queues
    BY DEF Queues
  <1> HIDE DEF l, s, k
  <1>5. /\ x \in WalType /\ x.mode = mode /\ x.lsn = l /\ x.count = 0 /\ x.offset = 0
        /\ x.queue = <<>> /\ x.file = file /\ x.synced = k
    BY <1>2, <1>3, <1>4 DEF WalType
  <1> HIDE DEF x
  <1>6. \A i : ~ Live(x, i)
    <2>1. Len(x.queue) = 0
      BY <1>5
    <2>2. \A i \in 1 .. BufferSlots : ~ (i <= 0)
      BY SlotAssumption
    <2> QED
      BY <2>1, <2>2, <1>5 DEF Live
  <1>7. Held(x)
    BY <1>6 DEF Held
  <1>8. Numbered(x, l)
    BY <1>2, <1>5, <1>6 DEF Numbered, Names
  <1>9. x.synced <= Len(x.file)
    BY <1>3, <1>5 DEF k
  <1> QED
    BY <1>1, <1>2, <1>5, <1>7, <1>8, <1>9 DEF Sound

-----------------------------------------------------------------------------
(* The inductive invariant.                                                *)

Sane ==
    /\ up \in {"open", "closing", "stopped", "unreadable"}
    /\ fd \in BOOLEAN /\ syncing \in 0 .. Len(wal.file)
    /\ ops \in 0 .. MaxOps /\ restarts \in 0 .. MaxRestarts
    /\ wal.count \in 0 .. CheckpointInterval - 1

IInv == Sane /\ wal.lsn \in Nat /\ Sound(wal, wal.lsn)

LEMMA InitIInv == Init => IInv
  <1> SUFFICES ASSUME Init
               PROVE  IInv
    OBVIOUS
  <1>1. PICK mode \in SyncModes : wal = Opened(<<>>, mode)
    BY DEF Init
  <1> DEFINE file == <<>>
  <1>2. file \in Seq(Entries)
    <2> HIDE DEF Entries
    <2> QED
      OBVIOUS
  <1>3. Len(file) = 0
    OBVIOUS
  <1> HIDE DEF file
  <1>4. \A i : ~ Read(file, i)
    BY <1>3 DEF Read
  <1>5. LET x == Opened(file, mode)
        IN /\ Sound(x, x.lsn) /\ x.lsn \in Nat /\ x.count = 0
           /\ x.file = file /\ x.mode = mode
    <2>1. 0 \in Nat
      OBVIOUS
    <2> QED
      BY <2>1, <1>2, <1>4, OpenedFacts
  <1>6. wal = Opened(file, mode)
    BY <1>1 DEF file
  <1>7. Sound(wal, wal.lsn) /\ wal.lsn \in Nat /\ wal.count = 0 /\ wal.file = file
    BY <1>5, <1>6
  <1>8. Sane
    <2>1. up = "open" /\ syncing = 0 /\ ops = 0 /\ restarts = 0
      BY DEF Init
    <2>2. fd \in BOOLEAN
      BY Zenon DEF Init
    <2>3. Len(wal.file) = 0
      BY <1>3, <1>7
    <2> QED
      BY <2>1, <2>2, <2>3, <1>7, IntervalAssumption, BoundAssumption DEF Sane
  <1> QED
    BY <1>7, <1>8 DEF IInv

\* The length of the file is a number.
LEMMA FileLength ==
    ASSUME NEW n \in Nat, NEW w, Sound(w, n)
    PROVE  Len(w.file) \in Nat /\ w.file \in Seq(Entries) /\ w \in WalType
  <1>1. w.file \in Seq(Entries) /\ w \in WalType
    BY DEF Sound, WalType, Files
  <1> QED
    BY <1>1, SeqFacts

LEMMA StepLog ==
    ASSUME IInv, Log
    PROVE  IInv'
  <1> DEFINE x == LogOperation(wal, ops + 1)
  <1>1. ops + 1 \in Nat /\ ops + 1 \in 0 .. MaxOps
    BY BoundAssumption DEF Log, IInv, Sane
  <1>2. /\ Sound(x, x.lsn) /\ x.lsn \in Nat
        /\ x.count \in 0 .. CheckpointInterval - 1
        /\ Len(x.file) >= Len(wal.file)
    BY <1>1, LogFacts DEF IInv, Sane
  <1> HIDE DEF x
  <1>3. wal' = x
    BY DEF Log, x
  <1>4. Len(x.file) \in Nat /\ Len(wal.file) \in Nat
    BY <1>2, FileLength DEF IInv
  <1>5. syncing \in 0 .. Len(x.file)
    BY <1>2, <1>4 DEF IInv, Sane
  <1>6. Sane'
    BY <1>1, <1>2, <1>3, <1>5 DEF Sane, IInv, Log
  <1> QED
    BY <1>2, <1>3, <1>6 DEF IInv

LEMMA StepTick ==
    ASSUME IInv, Tick
    PROVE  IInv'
  <1> DEFINE x == FlushBuffer(wal)
  <1>1. /\ Sound(x, wal.lsn) /\ x.lsn = wal.lsn /\ x.count = wal.count
        /\ x.file = wal.file
    BY FlushFacts DEF IInv
  <1> HIDE DEF x
  <1>2. wal' = x
    BY DEF Tick, x
  <1>3. Len(wal.file) \in Nat
    BY FileLength DEF IInv
  <1>4. Sane'
    BY <1>1, <1>2, <1>3 DEF Sane, IInv, Tick
  <1> QED
    BY <1>1, <1>2, <1>4 DEF IInv

LEMMA StepSyncDone ==
    ASSUME IInv, SyncDone
    PROVE  IInv'
  <1> DEFINE k == IF syncing > wal.synced THEN syncing ELSE wal.synced
             x == [wal EXCEPT !.synced = k]
  <1>0. Len(wal.file) \in Nat /\ wal \in WalType
    BY FileLength DEF IInv
  <1>1. k \in Nat /\ k <= Len(wal.file)
    BY <1>0 DEF IInv, Sane, Sound, WalType
  <1>2. wal' = x
    BY DEF SyncDone
  <1> HIDE DEF k
  <1>3. /\ x \in WalType /\ x.file = wal.file /\ x.synced = k
        /\ x.mode = wal.mode /\ x.lsn = wal.lsn /\ x.count = wal.count
        /\ x.slots = wal.slots /\ x.queue = wal.queue /\ x.offset = wal.offset
    <2>1. \A a \in Nat :
             LET f == [wal EXCEPT !.synced = a]
             IN /\ f \in WalType /\ f.file = wal.file /\ f.synced = a
                /\ f.mode = wal.mode /\ f.lsn = wal.lsn /\ f.count = wal.count
                /\ f.slots = wal.slots /\ f.queue = wal.queue /\ f.offset = wal.offset
      BY <1>0, WalFields
    <2> QED
      BY <2>1, <1>1
  <1> HIDE DEF x
  <1>4. Sound(x, wal.lsn)
    BY <1>1, <1>3, SameLog DEF IInv
  <1>5. Sane'
    BY <1>0, <1>2, <1>3 DEF Sane, IInv, SyncDone
  <1> QED
    BY <1>2, <1>3, <1>4, <1>5 DEF IInv

LEMMA StepStreamOpen ==
    ASSUME IInv, StreamOpen
    PROVE  IInv'
  <1>1. Sane'
    BY DEF Sane, IInv, StreamOpen
  <1>2. wal' = wal
    BY DEF StreamOpen
  <1> QED
    BY <1>1, <1>2 DEF IInv

LEMMA StepStreamWrite ==
    ASSUME IInv, StreamWrite
    PROVE  IInv'
  <1> DEFINE x == [Written(wal, Chunk(wal)) EXCEPT !.queue = Tail(@)]
  <1>1. /\ Sound(x, wal.lsn) /\ Len(x.file) >= Len(wal.file)
        /\ x.lsn = wal.lsn /\ x.count = wal.count
    BY ChunkWritten DEF IInv, StreamWrite
  <1>2. wal' = x
    BY DEF StreamWrite
  <1> HIDE DEF x
  <1>3. Len(x.file) \in Nat /\ Len(wal.file) \in Nat
    BY <1>1, FileLength DEF IInv
  <1>4. Sane'
    <2>1. up' = up /\ fd' = fd /\ syncing' = syncing /\ ops' = ops /\ restarts' = restarts
      BY DEF StreamWrite
    <2>2. Sane
      BY DEF IInv
    <2>3. syncing \in 0 .. Len(x.file)
      BY <2>2, <1>1, <1>3 DEF Sane
    <2> QED
      BY <2>1, <2>2, <2>3, <1>1, <1>2 DEF Sane
  <1> QED
    BY <1>1, <1>2, <1>4 DEF IInv

LEMMA StepClose ==
    ASSUME IInv, Close
    PROVE  IInv'
  <1> DEFINE f == FlushBuffer(wal)
             q == <<>>
             x == [f EXCEPT !.queue = q]
             n == wal.lsn
  <1>1. /\ Sound(f, n) /\ f.lsn = n /\ f.count = wal.count /\ f.offset = 0
        /\ f.file = wal.file /\ n \in Nat
    BY FlushFacts DEF IInv
  <1>2. wal' = x \/ wal' = f
    BY DEF Close
  <1> HIDE DEF f
  <1>3. f \in WalType /\ f.synced <= Len(f.file)
    BY <1>1 DEF Sound
  <1>4. /\ x \in WalType /\ x.queue = q
        /\ x.lsn = f.lsn /\ x.count = f.count /\ x.synced = f.synced /\ x.offset = f.offset
        /\ x.file = f.file
    <2>1. \A a \in Queues :
             LET g == [f EXCEPT !.queue = a]
             IN /\ g \in WalType /\ g.queue = a
                /\ g.mode = f.mode /\ g.lsn = f.lsn /\ g.count = f.count
                /\ g.slots = f.slots /\ g.synced = f.synced /\ g.offset = f.offset
                /\ g.file = f.file
      BY <1>3, WalFields
    <2>2. q \in Queues
      BY DEF Queues
    <2> HIDE DEF q
    <2> QED
      BY <2>1, <2>2
  <1>5. x.queue = <<>>
    BY <1>4
  <1> HIDE DEF x, n
  <1>6. Sound(x, n)
    BY <1>1, <1>3, <1>4, <1>5, Emptied
  <1>7. Sound(wal', n) /\ wal'.lsn = n /\ wal'.count = wal.count /\ wal'.file = wal.file
    BY <1>1, <1>2, <1>4, <1>6
  <1>8. Sane'
    BY <1>7 DEF Sane, IInv, Close
  <1> QED
    BY <1>1, <1>7, <1>8 DEF IInv

LEMMA StepStop ==
    ASSUME IInv, Stop
    PROVE  IInv'
  <1> DEFINE q == <<>>
             x == [wal EXCEPT !.queue = q, !.offset = 0]
  <1>1. /\ wal \in WalType /\ Len(wal.file) \in Nat /\ wal.synced <= Len(wal.file)
    BY FileLength DEF IInv, Sound
  <1>2. /\ x \in WalType /\ x.queue = q /\ x.offset = 0
        /\ x.lsn = wal.lsn /\ x.count = wal.count /\ x.synced = wal.synced
        /\ x.file = wal.file
    <2>1. \A a \in Queues, b \in Offsets :
             LET g == [wal EXCEPT !.queue = a, !.offset = b]
             IN /\ g \in WalType /\ g.queue = a /\ g.offset = b
                /\ g.mode = wal.mode /\ g.lsn = wal.lsn /\ g.count = wal.count
                /\ g.slots = wal.slots /\ g.file = wal.file /\ g.synced = wal.synced
      BY <1>1, WalFields
    <2>2. q \in Queues /\ 0 \in Offsets
      BY SlotAssumption DEF Queues, Offsets
    <2> HIDE DEF q
    <2> QED
      BY <2>1, <2>2
  <1>3. x.queue = <<>>
    BY <1>2
  <1>4. wal' = x
    BY DEF Stop
  <1> HIDE DEF x
  <1>5. Sound(x, wal.lsn)
    BY <1>1, <1>2, <1>3, Emptied DEF IInv
  <1>6. Sane'
    <2>1. up' = "stopped" /\ syncing' = 0 /\ ops' = ops /\ restarts' = restarts
      BY DEF Stop
    <2>2. fd' \in BOOLEAN
      BY Zenon DEF Stop
    <2> QED
      BY <2>1, <2>2, <1>1, <1>2, <1>4 DEF Sane, IInv
  <1> QED
    BY <1>2, <1>4, <1>5, <1>6 DEF IInv

\* A power loss keeps some first entries and may cut the one after them.
LEMMA CutFacts ==
    ASSUME NEW file \in Seq(Entries), NEW n \in 0 .. Len(file)
    PROVE  LET g == SubSeq(file, 1, n)
               form(c) == [file[n + 1] EXCEPT !.form = c]
           IN /\ g \in Seq(Entries) /\ Len(g) = n
              /\ \A i : Read(g, i) => Read(file, i) /\ g[i] = file[i]
              /\ n < Len(file) => \A c \in CutTails :
                    LET h == Append(g, form(c))
                    IN /\ h \in Seq(Entries) /\ Len(h) = n + 1
                       /\ \A i : Read(h, i) => /\ Read(file, i)
                                               /\ h[i].lsn = file[i].lsn
                                               /\ h[i].op = file[i].op
  <1> DEFINE g == SubSeq(file, 1, n)
  <1>1. Len(file) \in Nat /\ n \in Nat /\ \A i \in 1 .. n : i \in 1 .. Len(file)
    BY SeqFacts
  <1>2. g \in Seq(Entries) /\ Len(g) = n /\ \A i \in 1 .. n : g[i] = file[i]
    <2> HIDE DEF Entries
    <2> QED
      BY <1>1
  <1> HIDE DEF g
  <1>3. ASSUME NEW i, Read(g, i)
        PROVE  Read(file, i) /\ g[i] = file[i]
    <2>1. i \in 1 .. n /\ \A j \in 1 .. i - 1 : j \in 1 .. n
      BY <1>2, <1>3 DEF Read
    <2> QED
      BY <2>1, <1>1, <1>2, <1>3 DEF Read
  <1>4. ASSUME n < Len(file), NEW c \in CutTails
        PROVE  LET h == Append(g, [file[n + 1] EXCEPT !.form = c])
               IN /\ h \in Seq(Entries) /\ Len(h) = n + 1
                  /\ \A i : Read(h, i) => /\ Read(file, i)
                                          /\ h[i].lsn = file[i].lsn
                                          /\ h[i].op = file[i].op
    <2> DEFINE e == [file[n + 1] EXCEPT !.form = c]
               h == Append(g, e)
    <2>1. n + 1 \in 1 .. Len(file)
      BY <1>1, <1>4
    <2>2. file[n + 1] \in Entries
      BY <2>1, SeqFacts
    <2>3. e \in Entries /\ e.lsn = file[n + 1].lsn /\ e.op = file[n + 1].op
      BY <2>2, CutAssumption DEF Entries
    <2> HIDE DEF e
    <2>4. /\ h \in Seq(Entries) /\ Len(h) = n + 1 /\ h[n + 1] = e
          /\ \A i \in 1 .. n : h[i] = g[i]
      BY <1>2, <2>3, AppendFacts
    <2> HIDE DEF h
    <2>5. ASSUME NEW i, Read(h, i)
          PROVE  Read(file, i) /\ h[i].lsn = file[i].lsn /\ h[i].op = file[i].op
      <3>1. i \in 1 .. n + 1 /\ \A j \in 1 .. i - 1 : j \in 1 .. n
        BY <1>1, <2>4, <2>5 DEF Read
      <3>2. \A j \in 1 .. i - 1 : file[j].form = "whole"
        BY <3>1, <1>2, <2>4, <2>5 DEF Read
      <3>3. Read(file, i)
        BY <3>1, <3>2, <1>1, <2>1 DEF Read
      <3>4. CASE i = n + 1
        BY <3>3, <3>4, <2>3, <2>4
      <3>5. CASE i # n + 1
        <4>1. i \in 1 .. n
          BY <3>1, <3>5, <1>1
        <4> QED
          BY <4>1, <3>3, <1>2, <2>4
      <3> QED
        BY <3>4, <3>5
    <2> QED
      BY <2>4, <2>5 DEF h, e
  <1> QED
    BY <1>2, <1>3, <1>4 DEF g

LEMMA StepPowerLoss ==
    ASSUME IInv, PowerLoss
    PROVE  IInv'
  <1> DEFINE file == wal.file
  <1>1. /\ wal \in WalType /\ file \in Seq(Entries) /\ Len(file) \in Nat
        /\ wal.synced \in Nat /\ wal.lsn \in Nat /\ Sound(wal, wal.lsn)
    BY FileLength DEF IInv, WalType
  <1>2. ASSUME NEW g \in Seq(Entries), NEW k \in Nat, Len(g) = k,
               wal' = [wal EXCEPT !.file = g, !.synced = k, !.queue = <<>>, !.offset = 0],
               \A i : Read(g, i) => /\ Read(file, i)
                                    /\ g[i].lsn = file[i].lsn
                                    /\ g[i].op = file[i].op
        PROVE  IInv'
    <2> DEFINE q == <<>>
               x == [wal EXCEPT !.file = g, !.synced = k, !.queue = q, !.offset = 0]
    <2>1. /\ x \in WalType /\ x.queue = q /\ x.offset = 0 /\ x.file = g /\ x.synced = k
          /\ x.lsn = wal.lsn /\ x.count = wal.count
      <3>1. q \in Queues /\ 0 \in Offsets /\ g \in Files
        BY SlotAssumption DEF Queues, Offsets, Files
      <3>2. \A h \in Files, a \in Nat, b \in Queues, c \in Offsets :
               LET f == [wal EXCEPT !.file = h, !.synced = a, !.queue = b, !.offset = c]
               IN /\ f \in WalType
                  /\ f.file = h /\ f.synced = a /\ f.queue = b /\ f.offset = c
                  /\ f.mode = wal.mode /\ f.lsn = wal.lsn /\ f.count = wal.count
                  /\ f.slots = wal.slots
        BY <1>1, WalFields
      <3> HIDE DEF q
      <3>3. \A a \in Nat, b \in Queues, c \in Offsets :
               LET f == [wal EXCEPT !.file = g, !.synced = a, !.queue = b, !.offset = c]
               IN /\ f \in WalType
                  /\ f.file = g /\ f.synced = a /\ f.queue = b /\ f.offset = c
                  /\ f.mode = wal.mode /\ f.lsn = wal.lsn /\ f.count = wal.count
                  /\ f.slots = wal.slots
        BY <3>1, <3>2
      <3>4. \A b \in Queues, c \in Offsets :
               LET f == [wal EXCEPT !.file = g, !.synced = k, !.queue = b, !.offset = c]
               IN /\ f \in WalType
                  /\ f.file = g /\ f.synced = k /\ f.queue = b /\ f.offset = c
                  /\ f.mode = wal.mode /\ f.lsn = wal.lsn /\ f.count = wal.count
                  /\ f.slots = wal.slots
        BY <3>3
      <3>5. \A c \in Offsets :
               LET f == [wal EXCEPT !.file = g, !.synced = k, !.queue = q, !.offset = c]
               IN /\ f \in WalType
                  /\ f.file = g /\ f.synced = k /\ f.queue = q /\ f.offset = c
                  /\ f.mode = wal.mode /\ f.lsn = wal.lsn /\ f.count = wal.count
                  /\ f.slots = wal.slots
        BY <3>1, <3>4
      <3> QED
        BY <3>1, <3>5
    <2>2. x.queue = <<>> /\ x.synced <= Len(x.file)
      BY <1>2, <2>1
    <2>3. wal' = x
      BY <1>2
    <2> HIDE DEF x
    <2>4. Sound(x, wal.lsn)
      BY <1>1, <1>2, <2>1, <2>2, Emptied
    <2>5. Sane'
      <3>1. up' = "stopped" /\ syncing' = 0 /\ ops' = ops /\ restarts' = restarts
        BY DEF PowerLoss
      <3>2. fd' \in BOOLEAN
        BY Zenon DEF PowerLoss
      <3> QED
        BY <3>1, <3>2, <1>2, <2>1, <2>3 DEF Sane, IInv
    <2> QED
      BY <1>1, <2>1, <2>3, <2>4, <2>5 DEF IInv
  <1>3. PICK n \in wal.synced .. Len(wal.file) :
          \/ wal' = [wal EXCEPT !.file = SubSeq(@, 1, n), !.synced = n,
                                !.queue = <<>>, !.offset = 0]
          \/ /\ n < Len(wal.file)
             /\ \E form \in CutTails :
                   wal' = [wal EXCEPT
                             !.file = Append(SubSeq(@, 1, n),
                                        [wal.file[n + 1] EXCEPT !.form = form]),
                             !.synced = n + 1,
                             !.queue = <<>>, !.offset = 0]
    BY DEF PowerLoss
  <1>4. n \in 0 .. Len(file) /\ n \in Nat /\ n + 1 \in Nat
    BY <1>1
  <1> DEFINE g == SubSeq(file, 1, n)
             h(c) == Append(g, [file[n + 1] EXCEPT !.form = c])
  <1> HIDE DEF file
  <1>5. /\ g \in Seq(Entries) /\ Len(g) = n
        /\ \A i : Read(g, i) => Read(file, i) /\ g[i] = file[i]
    BY <1>1, <1>4, CutFacts
  <1>6. n < Len(file) => \A c \in CutTails :
           /\ h(c) \in Seq(Entries) /\ Len(h(c)) = n + 1
           /\ \A i : Read(h(c), i) => /\ Read(file, i)
                                      /\ h(c)[i].lsn = file[i].lsn
                                      /\ h(c)[i].op = file[i].op
    BY <1>1, <1>4, CutFacts
  <1>7. CASE wal' = [wal EXCEPT !.file = g, !.synced = n, !.queue = <<>>, !.offset = 0]
    <2> HIDE DEF g
    <2> QED
      BY <1>2, <1>4, <1>5, <1>7
  <1>8. ASSUME n < Len(file), NEW c \in CutTails,
               wal' = [wal EXCEPT !.file = h(c), !.synced = n + 1, !.queue = <<>>, !.offset = 0]
        PROVE  IInv'
    <2> DEFINE a == h(c)
    <2>1. /\ a \in Seq(Entries) /\ Len(a) = n + 1
          /\ \A i : Read(a, i) => /\ Read(file, i)
                                  /\ a[i].lsn = file[i].lsn
                                  /\ a[i].op = file[i].op
      BY <1>6, <1>8
    <2>2. wal' = [wal EXCEPT !.file = a, !.synced = n + 1, !.queue = <<>>, !.offset = 0]
      BY <1>8
    <2> HIDE DEF a
    <2> QED
      BY <1>2, <1>4, <2>1, <2>2
  <1> QED
    BY <1>3, <1>7, <1>8 DEF file

LEMMA StepReopen ==
    ASSUME IInv, Reopen
    PROVE  IInv'
  <1>1. /\ wal.file \in Seq(Entries) /\ Len(wal.file) \in Nat /\ wal.lsn \in Nat
    BY FileLength DEF IInv
  <1>2. restarts' \in 0 .. MaxRestarts /\ fd' = fd /\ syncing' = syncing /\ ops' = ops
    BY BoundAssumption DEF Reopen, IInv, Sane
  <1>3. CASE up' = "unreadable" /\ UNCHANGED wal
    BY <1>2, <1>3 DEF IInv, Sane
  <1>4. CASE up' = "open" /\ \E mode \in SyncModes : wal' = Opened(wal.file, mode)
    <2> DEFINE file == wal.file
               n == wal.lsn
    <2>1. PICK mode \in SyncModes : wal' = Opened(file, mode)
      BY <1>4
    <2>2. \A i : Read(file, i) => /\ file[i].lsn \in Nat /\ file[i].op \in Nat
                                  /\ Names(wal, file[i].lsn, file[i].op)
      <3>1. \A i \in 1 .. Len(file) : file[i] \in Entries
        BY <1>1, SeqFacts
      <3>2. \A i : Read(file, i) => file[i].lsn \in Nat /\ file[i].op \in Nat
        BY <3>1 DEF Read, Entries
      <3> QED
        BY <3>2 DEF Names
    <2>3. Numbered(wal, n)
      BY DEF IInv, Sound
    <2>4. \A i : Read(file, i) => file[i].lsn <= n
      BY <2>2, <2>3 DEF Numbered
    <2>5. \A i, j : Read(file, i) /\ Read(file, j) /\ file[i].lsn = file[j].lsn
                        => file[i].op = file[j].op
      BY <2>2, <2>3 DEF Numbered
    <2> HIDE DEF file, n
    <2>6. LET x == Opened(file, mode)
          IN /\ Sound(x, x.lsn) /\ x.lsn \in Nat /\ x.count = 0
             /\ x.file = file /\ x.mode = mode
      BY ZenonT(60), <1>1, <2>4, <2>5, OpenedFacts DEF file, n
    <2>7. Sound(wal', wal'.lsn) /\ wal'.lsn \in Nat /\ wal'.count = 0 /\ wal'.file = file
      BY <2>1, <2>6
    <2>8. Sane'
      BY <1>2, <1>4, <2>7, IntervalAssumption DEF Sane, IInv, file
    <2> QED
      BY <2>7, <2>8 DEF IInv
  <1> QED
    BY <1>3, <1>4 DEF Reopen

LEMMA StepIInv == IInv /\ [Next]_vars => IInv'
  <1> SUFFICES ASSUME IInv, [Next]_vars
               PROVE  IInv'
    OBVIOUS
  <1>1. CASE Next
    BY <1>1, StepLog, StepTick, StepSyncDone, StepStreamOpen, StepStreamWrite,
       StepClose, StepStop, StepPowerLoss, StepReopen DEF Next
  <1>2. CASE UNCHANGED vars
    BY <1>2 DEF vars, IInv, Sane
  <1> QED
    BY <1>1, <1>2

\* What the invariant says of the log as its users see it.
LEMMA IInvImplies == IInv => LsnNamesOneOp
  <1> SUFFICES ASSUME IInv
               PROVE  LsnNamesOneOp
    OBVIOUS
  <1> DEFINE file == wal.file
  <1>1. /\ wal \in WalType /\ file \in Seq(Entries) /\ Len(file) \in Nat
        /\ Sound(wal, wal.lsn)
    BY FileLength DEF IInv
  <1>2. \A i \in 1 .. Len(file) : file[i] \in Entries
    BY <1>1, SeqFacts
  <1>3. TypeOK
    <2>1. wal.queue \in Seq(1 .. BufferSlots) /\ wal.slots \in Slots
      BY <1>1 DEF WalType, Queues
    <2>2. \A i \in DOMAIN wal.queue : wal.queue[i] \in 1 .. BufferSlots
      BY <2>1, SeqFacts
    <2>3. \A i \in 1 .. BufferSlots : wal.slots[i] \in Entries \cup {None}
      BY <2>1 DEF Slots
    <2>4. \A i \in DOMAIN file : file[i] \in Entries
      BY <1>1, SeqFacts
    <2>5. wal.synced \in 0 .. Len(file)
      BY <1>1 DEF WalType, Sound
    <2>6. wal.mode \in SyncModes /\ wal.lsn \in Nat /\ wal.offset \in 0 .. BufferSlots
      BY <1>1 DEF WalType, Offsets
    <2> HIDE DEF file
    <2> QED
      BY <2>2, <2>3, <2>4, <2>5, <2>6 DEF TypeOK, IInv, Sane, file
  <1>4. \A i : Read(file, i) => /\ file[i].lsn \in Nat /\ file[i].op \in Nat
                                /\ Names(wal, file[i].lsn, file[i].op)
    <2>1. \A i : Read(file, i) => file[i].lsn \in Nat /\ file[i].op \in Nat
      BY <1>2 DEF Read, Entries
    <2> QED
      BY <2>1 DEF Names
  <1>5. Numbered(wal, wal.lsn)
    BY <1>1 DEF Sound
  <1>6. \A i, j : Read(file, i) /\ Read(file, j) /\ file[i].lsn = file[j].lsn
                      => file[i].op = file[j].op
    BY <1>4, <1>5 DEF Numbered
  <1> HIDE DEF file
  <1>7. \A i \in DOMAIN Reached(file) : Read(file, i) /\ Reached(file)[i] = file[i]
    BY <1>1, ReachedFacts
  <1>8. \A i, j \in DOMAIN Reached(file) :
           Reached(file)[i].lsn = Reached(file)[j].lsn
              => Reached(file)[i].op = Reached(file)[j].op
    BY <1>6, <1>7
  <1>9. \A i \in Recovered(file) : i \in DOMAIN Reached(file)
    BY DEF Recovered
  <1> QED
    BY <1>3, <1>8, <1>9 DEF LsnNamesOneOp, file

\* At every moment the log's fields are as the code means them, and among the
\* entries recover() returns an LSN belongs to one operation: over buffers
\* written late, checkpoints, power losses and restarts.
THEOREM LsnNamesOneOpAlways == Spec => []LsnNamesOneOp
  <1> QED
    BY InitIInv, StepIInv, IInvImplies, PTL DEF Spec

-----------------------------------------------------------------------------
(* The log that is used as its buffer needs it, step by step.              *)

CalmInv == IInv /\ (calm => \E m \in 0 .. ops : Kept(wal, ops, m))

LEMMA InitCalm == CalmInit => CalmInv
  <1> SUFFICES ASSUME CalmInit
               PROVE  CalmInv
    OBVIOUS
  <1>1. IInv
    BY InitIInv DEF CalmInit
  <1>2. PICK mode \in SyncModes : wal = Opened(<<>>, mode)
    BY DEF CalmInit, Init
  <1>3. wal.queue = <<>> /\ wal.offset = 0 /\ wal.file = <<>> /\ ops = 0
    BY <1>2 DEF Opened, CalmInit, Init
  <1>4. Stored(wal.file, 0)
    <2>1. Len(wal.file) = 0
      BY <1>3
    <2> QED
      BY <2>1 DEF Stored
  <1>5. Kept(wal, 0, 0)
    <2>1. 0 <= 0 /\ 0 - 0 = 0 /\ ~ \E i : i \in 1 .. 0
      OBVIOUS
    <2> QED
      BY <2>1, <1>3, <1>4, Zenon DEF Kept
  <1>6. 0 \in 0 .. ops
    BY <1>3
  <1> QED
    BY <1>1, <1>3, <1>5, <1>6 DEF CalmInv

LEMMA StepCalm ==
    CalmInv /\ [ \/ Runs /\ calm' = (calm /\ (ops' = ops \/ ~ Burst))
                 \/ Stops /\ calm' = FALSE ]_allvars => CalmInv'
  <1> SUFFICES ASSUME CalmInv,
                      [ \/ Runs /\ calm' = (calm /\ (ops' = ops \/ ~ Burst))
                        \/ Stops /\ calm' = FALSE ]_allvars
               PROVE  CalmInv'
    OBVIOUS
  <1>1. IInv'
    <2>1. [Next]_vars
      BY DEF Runs, Stops, Next, allvars, vars
    <2> QED
      BY <2>1, StepIInv DEF CalmInv
  <1>2. CASE Stops /\ calm' = FALSE
    BY <1>1, <1>2 DEF CalmInv
  <1>3. CASE UNCHANGED allvars
    <2>1. wal' = wal /\ ops' = ops /\ (calm' <=> calm)
      BY <1>3 DEF allvars, vars
    <2> QED
      BY <2>1, <1>1 DEF CalmInv
  <1>4. CASE Runs /\ calm' = (calm /\ (ops' = ops \/ ~ Burst))
    <2> SUFFICES ASSUME calm'
                 PROVE  \E m \in 0 .. ops' : Kept(wal', ops', m)
      BY <1>1 DEF CalmInv
    <2>1. calm /\ (ops' = ops \/ ~ Burst)
      BY <1>4
    <2>2. ops \in Nat /\ Sound(wal, wal.lsn) /\ wal.lsn \in Nat
      BY BoundAssumption DEF CalmInv, IInv, Sane
    <2>3. PICK m \in 0 .. ops : Kept(wal, ops, m)
      BY <2>1 DEF CalmInv
    <2>4. m \in Nat
      BY <2>2
    <2>5. CASE Log
      <3> DEFINE op == ops + 1
                 x == LogOperation(wal, op)
      <3>1. op \in Nat \ {0} /\ op - 1 = ops /\ ops' = op /\ m + 1 \in 0 .. op
        BY <2>2, <2>5 DEF Log
      <3>2. wal.queue = <<>> /\ wal.offset # BufferSlots
        <4>1. ops' # ops
          BY <2>2, <2>5 DEF Log
        <4> QED
          BY <4>1, <2>1 DEF Burst
      <3>3. wal' = x
        BY <2>5 DEF Log
      <3> HIDE DEF op
      <3>4. Kept(wal, op - 1, m)
        BY <3>1, <2>3
      <3>5. wal.count \in 0 .. CheckpointInterval - 1
        BY DEF CalmInv, IInv, Sane
      <3>6. Kept(x, op, m + 1)
        BY <3>1, <3>2, <3>4, <3>5, <2>2, <2>4, LogFacts
      <3> HIDE DEF x
      <3> QED
        BY <3>1, <3>3, <3>6
    <2>6. CASE Tick
      <3>1. Kept(FlushBuffer(wal), ops, m)
        BY <2>2, <2>3, <2>4, KeptFlush
      <3>2. wal' = FlushBuffer(wal) /\ ops' = ops
        BY <2>6 DEF Tick
      <3> QED
        BY <3>1, <3>2
    <2>7. CASE SyncDone
      <3> DEFINE k == IF syncing > wal.synced THEN syncing ELSE wal.synced
      <3>1. wal' = [wal EXCEPT !.synced = k] /\ ops' = ops
        BY <2>7 DEF SyncDone
      <3> HIDE DEF k
      <3>2. wal \in WalType
        BY <2>2 DEF Sound
      <3>3. /\ wal'.slots = wal.slots /\ wal'.offset = wal.offset
            /\ wal'.queue = wal.queue /\ wal'.file = wal.file
        BY <3>1, <3>2 DEF WalType
      <3>4. Kept(wal', ops, m)
        BY <3>3, <2>3, SameKept
      <3> QED
        BY <3>1, <3>4
    <2>8. CASE StreamOpen
      BY <2>3, <2>8 DEF StreamOpen
    <2>9. CASE StreamWrite
      <3> DEFINE x == [Written(wal, Chunk(wal)) EXCEPT !.queue = Tail(@)]
      <3>1. wal.queue # <<>> /\ wal' = x /\ ops' = ops
        BY <2>9 DEF StreamWrite
      <3>2. Kept(x, ops, 0)
        BY <3>1, <2>2, <2>3, <2>4, ChunkWritten
      <3>3. 0 \in 0 .. ops
        BY <2>2
      <3> HIDE DEF x
      <3> QED
        BY <3>1, <3>2, <3>3
    <2> QED
      BY <1>4, <2>5, <2>6, <2>7, <2>8, <2>9 DEF Runs
  <1> QED
    BY <1>2, <1>3, <1>4

LEMMA CalmImplies == CalmInv => CalmIsComplete
  <1> SUFFICES ASSUME CalmInv, calm
               PROVE  Complete
    BY DEF CalmIsComplete
  <1> DEFINE file == wal.file
  <1>1. ops \in Nat /\ Sound(wal, wal.lsn) /\ wal.lsn \in Nat
    BY BoundAssumption DEF CalmInv, IInv, Sane
  <1>2. PICK m \in 0 .. ops : Kept(wal, ops, m)
    BY DEF CalmInv
  <1>3. /\ file \in Seq(Entries) /\ DOMAIN file = 1 .. Len(file)
    BY <1>1, FileLength, SeqFacts
  <1>4. Stored(file, ops - m)
    BY <1>2 DEF Kept
  <1>5. wal.offset \in Nat /\ m <= BufferSlots /\ BufferSlots \in Nat
    <2>1. wal.offset \in 0 .. BufferSlots /\ wal.queue \in Seq(1 .. BufferSlots)
      BY <1>1 DEF Sound, WalType, Offsets, Queues
    <2>2. CASE wal.queue = <<m>>
      <3>1. m = wal.queue[1] /\ Len(wal.queue) = 1
        BY <2>2
      <3>2. wal.queue[1] \in 1 .. BufferSlots
        <4>1. 1 \in 1 .. Len(wal.queue)
          BY <3>1
        <4>2. \A k \in 1 .. Len(wal.queue) : wal.queue[k] \in 1 .. BufferSlots
          BY <2>1, SeqFacts
        <4> QED
          BY <4>1, <4>2
      <3> QED
        BY <3>1, <3>2, <2>1, SlotAssumption
    <2>3. CASE wal.offset = m
      BY <2>1, <2>3, SlotAssumption
    <2> QED
      BY <2>2, <2>3, <1>2 DEF Kept
  <1> SUFFICES ASSUME NEW n \in 1 .. ops
               PROVE  \/ \E i \in Copies(n) : Copies(n) = {i}
                      \/ Copies(n) = {} /\ InMemory(n)
    BY DEF Complete
  <1>6. Copies(n) = {i \in 1 .. Len(file) : file[i].op = n}
    BY <1>3 DEF Copies
  <1> HIDE DEF file
  <1>7. CASE n <= ops - m
    <2>1. n \in 1 .. ops - m
      BY <1>7, <1>1
    <2>2. PICK i \in 1 .. Len(file) : \A j \in 1 .. Len(file) : file[j].op = n <=> j = i
      BY <2>1, <1>4 DEF Stored
    <2>3. i \in Copies(n) /\ Copies(n) = {i}
      BY <2>2, <1>6
    <2> QED
      BY <2>3
  <1>8. CASE ~ (n <= ops - m)
    <2> DEFINE i == n - (ops - m)
    <2>1. i \in 1 .. m /\ ops - m + i = n /\ i \in 1 .. BufferSlots
      BY <1>1, <1>5, <1>8
    <2> HIDE DEF i
    <2>2. wal.slots[i].op = n
      BY <2>1, <1>2 DEF Kept
    <2>3. Live(wal, i) /\ ( \/ i \in 1 .. wal.offset
                            \/ \E k \in DOMAIN wal.queue : i \in 1 .. wal.queue[k] )
      <3>1. CASE wal.offset = m
        BY <3>1, <2>1 DEF Live
      <3>2. CASE wal.queue = <<m>>
        <4>1. wal.queue[1] = m /\ Len(wal.queue) = 1 /\ 1 \in DOMAIN wal.queue
          BY <3>2
        <4>2. i <= m /\ 1 \in 1 .. 1
          BY <2>1
        <4> QED
          BY <4>1, <4>2, <2>1 DEF Live
      <3> QED
        BY <3>1, <3>2, <1>2 DEF Kept
    <2>4. wal.slots[i] # None
      <3>1. wal.slots[i] \in Entries
        BY <2>3, <1>1 DEF Sound, Held
      <3> QED
        BY <3>1, NoneAssumption
    <2>5. InMemory(n)
      BY <2>2, <2>3, <2>4 DEF InMemory
    <2>6. Copies(n) = {}
      <3>1. \A j \in 1 .. Len(file) : file[j].op <= ops - m
        BY <1>4 DEF Stored
      <3> QED
        BY <3>1, <1>6, <1>8
    <2> QED
      BY <2>5, <2>6
  <1> QED
    BY <1>7, <1>8

\* As long as the event loop turns between two operations, so that the stream
\* has nothing left to write when the next entry is copied into the buffer it
\* writes from, every operation logged is in the file once or still on its way
\* there: the shared buffer loses and doubles nothing.
THEOREM CalmIsCompleteAlways == CalmSpec => []CalmIsComplete
  <1> QED
    BY InitCalm, StepCalm, CalmImplies, PTL DEF CalmSpec
====
