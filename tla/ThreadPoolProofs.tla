-------------------------- MODULE ThreadPoolProofs --------------------------
(***************************************************************************)
(* Proofs about ThreadPool, for any number of workers, requests and        *)
(* crashes: no promise is settled twice, and none is forgotten; and while  *)
(* no timer has gone off, activeTasks counts what a worker has to do, so   *)
(* that a request goes to a worker with the least.                         *)
(***************************************************************************)
EXTENDS MCThreadPool, FiniteSetTheorems, WellFoundedInduction, TLAPS

-----------------------------------------------------------------------------
(* Numbers and sequences.                                                  *)

\* A set of naturals that is not empty has a least element.
LEMMA LeastNatural ==
    ASSUME NEW T \in SUBSET Nat, T # {}
    PROVE  \E m \in T : \A k \in T : m <= k
  <1>1. PICK m \in T : \A k \in T : <<k, m>> \notin OpToRel(<, Nat)
    BY WFMin, NatLessThanWellFounded
  <1>2. \A k \in T : ~ (k < m)
    <2>1. OpToRel(<, Nat) = {ss \in Nat \X Nat : ss[1] < ss[2]}
      BY DEF OpToRel
    <2> QED
      BY <1>1, <2>1
  <1> QED
    BY <1>2

\* What a sequence is made of.
LEMMA SeqFacts ==
    ASSUME NEW T, NEW s \in Seq(T)
    PROVE  /\ Len(s) \in Nat /\ DOMAIN s = 1 .. Len(s)
           /\ \A k \in 1 .. Len(s) : s[k] \in T
  OBVIOUS

\* A sequence without its head.
LEMMA TailFacts ==
    ASSUME NEW T, NEW s \in Seq(T), s # <<>>
    PROVE  /\ Len(s) \in Nat \ {0} /\ Head(s) = s[1] /\ Head(s) \in T
           /\ Tail(s) \in Seq(T) /\ Len(Tail(s)) = Len(s) - 1
           /\ DOMAIN Tail(s) = 1 .. Len(s) - 1
           /\ \A k \in 1 .. Len(s) - 1 : Tail(s)[k] = s[k + 1]
  OBVIOUS

\* A sequence with one more element.
LEMMA AppendFacts ==
    ASSUME NEW T, NEW s \in Seq(T), NEW e \in T
    PROVE  /\ Append(s, e) \in Seq(T) /\ Len(Append(s, e)) = Len(s) + 1
           /\ DOMAIN Append(s, e) = 1 .. Len(s) + 1
           /\ \A k \in 1 .. Len(s) : Append(s, e)[k] = s[k]
           /\ Append(s, e)[Len(s) + 1] = e
  OBVIOUS

\* Two sequences in a row.
LEMMA ConcatFacts ==
    ASSUME NEW T, NEW s \in Seq(T), NEW t \in Seq(T)
    PROVE  /\ s \o t \in Seq(T) /\ Len(s \o t) = Len(s) + Len(t)
           /\ DOMAIN (s \o t) = 1 .. Len(s) + Len(t)
           /\ \A k \in 1 .. Len(s) : (s \o t)[k] = s[k]
           /\ \A k \in 1 .. Len(t) : (s \o t)[Len(s) + k] = t[k]
  <1>1. Len(s) \in Nat /\ Len(t) \in Nat
    OBVIOUS
  <1>2. s \o t \in Seq(T) /\ Len(s \o t) = Len(s) + Len(t)
    OBVIOUS
  <1>3. \A k \in 1 .. Len(s) : (s \o t)[k] = s[k]
    OBVIOUS
  <1>4. \A k \in 1 .. Len(t) : (s \o t)[Len(s) + k] = t[k]
    BY <1>1
  <1> QED
    BY <1>1, <1>2, <1>3, <1>4

-----------------------------------------------------------------------------
(* The invariant.                                                          *)

ThreadType == [index : 0 .. WorkerCount, alive : BOOLEAN,
               inbox : Seq(Nat), outbox : Seq(Nat)]

\* The fields have their types.  A worker's load is never more than all
\* requests made, which bounds it by MaxRequests.
Typed ==
    /\ threads \in Seq(ThreadType)
    /\ workers \in [Indexes -> 0 .. Len(threads)]
    /\ counter \in 0 .. MaxRequests
    /\ active \in [Indexes -> 0 .. counter]
    /\ pending \in SUBSET [id : 1 .. counter, index : Indexes]
    /\ settled \in [Requests -> Nat]
    /\ stopped \in BOOLEAN

\* The thread of an index in use is its own: an exit finds the index whose
\* thread has ended.
ThreadsApart ==
    /\ \A i \in Indexes : workers[i] # 0 => threads[workers[i]].index = i
    /\ \A t, u \in DOMAIN threads :
          threads[t].index = threads[u].index /\ threads[t].index # 0 => t = u

\* pendingRequests is a Map: one promise for an id.
IdsApart == \A r, q \in pending : r.id = q.id => r = q

\* A promise is settled once it is no longer pending, and only then.
Accounted ==
    \A id \in Requests :
        settled[id] = IF id <= counter /\ ~ \E r \in pending : r.id = id
                      THEN 1 ELSE 0

Inv == Typed /\ ThreadsApart /\ IdsApart /\ Accounted

-----------------------------------------------------------------------------
(* The worker that _getBestWorker finds.                                   *)

\* The search of _getBestWorker ends at a worker that is there, none of the
\* others with a lower count, or at the first if none is there.
LEMMA BestWorkerFacts ==
    ASSUME active \in [Indexes -> Nat]
    PROVE  /\ BestWorker \in Indexes
           /\ \A j \in Available : active[BestWorker] <= active[j]
  <1>1. CASE Available = {}
    BY <1>1, WorkerAssumption DEF BestWorker, Indexes
  <1>2. CASE Available # {}
    <2> DEFINE Least(i) == \A j \in Available : \/ active[i] < active[j]
                                                \/ active[i] = active[j] /\ i <= j
    <2>1. PICK i \in Available : Least(i)
      <3>1. /\ {active[k] : k \in Available} \in SUBSET Nat
            /\ {active[k] : k \in Available} # {}
        BY <1>2 DEF Available
      <3>2. PICK low \in {active[k] : k \in Available} :
               \A n \in {active[k] : k \in Available} : low <= n
        BY <3>1, LeastNatural
      <3> DEFINE Lowest == {k \in Available : active[k] = low}
      <3>3. Lowest \in SUBSET Nat /\ Lowest # {}
        BY <3>2, WorkerAssumption DEF Available, Indexes
      <3>4. PICK i \in Lowest : \A k \in Lowest : i <= k
        BY <3>3, LeastNatural
      <3>5. ASSUME NEW j \in Available
            PROVE  \/ active[i] < active[j]
                   \/ active[i] = active[j] /\ i <= j
        <4>1. low <= active[j] /\ active[i] = low /\ low \in Nat /\ active[j] \in Nat
          BY <3>1, <3>2, <3>4
        <4>2. active[j] = low => i <= j
          BY <3>4
        <4> QED
          BY <4>1, <4>2
      <3> QED
        BY <3>4, <3>5
    <2>2. BestWorker = CHOOSE k \in Available : Least(k)
      BY <1>2 DEF BestWorker
    <2>3. BestWorker \in Available /\ Least(BestWorker)
      <3> HIDE DEF Least
      <3> QED
        BY <2>1, <2>2
    <2>4. \A j \in Available : active[BestWorker] <= active[j]
      <3>1. \A j \in Available : active[j] \in Nat
        BY DEF Available
      <3> HIDE DEF Available
      <3> QED
        BY <2>3, <3>1
    <2> QED
      BY <2>3, <2>4 DEF Available
  <1> QED
    BY <1>1, <1>2

-----------------------------------------------------------------------------
(* What actions have in common.                                            *)

\* Promises that leave pendingRequests as they are settled (a reply, a timer,
\* _cleanupTasks) leave every promise accounted for.
LEMMA SettleAccounts ==
    ASSUME Typed, Accounted, IdsApart, NEW found \in SUBSET pending,
           pending' = pending \ found, counter' = counter,
           Settle({r.id : r \in found})
    PROVE  /\ Accounted' /\ IdsApart'
           /\ settled' \in [Requests -> Nat]
           /\ pending' \in SUBSET [id : 1 .. counter, index : Indexes]
  <1>1. settled' \in [Requests -> Nat]
    BY DEF Settle, Typed
  <1>2. ASSUME NEW id \in Requests
        PROVE  settled'[id] = IF id <= counter /\ ~ \E r \in pending' : r.id = id
                              THEN 1 ELSE 0
    <2>1. CASE \E r \in found : r.id = id
      <3>1. PICK r \in found : r.id = id
        BY <2>1
      <3>2. settled'[id] = settled[id] + 1 /\ settled[id] = 0
        BY <3>1 DEF Settle, Accounted
      <3>3. id <= counter
        BY <3>1 DEF Typed
      <3>4. ~ \E q \in pending' : q.id = id
        BY <3>1 DEF IdsApart
      <3> QED
        BY <3>2, <3>3, <3>4
    <2>2. CASE ~ \E r \in found : r.id = id
      <3>1. settled'[id] = settled[id] + 0 /\ settled[id] \in Nat
        BY <2>2 DEF Settle, Typed
      <3>2. (\E r \in pending' : r.id = id) <=> (\E r \in pending : r.id = id)
        BY <2>2
      <3> QED
        BY <3>1, <3>2 DEF Accounted
    <2> QED
      BY <2>1, <2>2
  <1> QED
    BY <1>1, <1>2 DEF Accounted, IdsApart, Typed

\* Changing the queues of one thread, or its life, keeps threads apart.
LEMMA SameIndexes ==
    ASSUME Typed, ThreadsApart, workers' = workers,
           threads' \in Seq(ThreadType), Len(threads') = Len(threads),
           \A t \in DOMAIN threads : threads'[t].index = threads[t].index
    PROVE  ThreadsApart' /\ workers' \in [Indexes -> 0 .. Len(threads')]
  <1>1. DOMAIN threads' = DOMAIN threads
    BY DEF Typed
  <1>2. \A i \in Indexes : workers[i] # 0 => workers[i] \in DOMAIN threads
    BY DEF Typed
  <1> QED
    BY <1>1, <1>2 DEF Typed, ThreadsApart

\* A thread that has worked, one whose reply was read, one that has ended and
\* one that no index stands for any more are threads.
LEMMA WorkedThread ==
    ASSUME NEW th \in ThreadType, NEW box \in Seq(Nat), NEW out \in Seq(Nat)
    PROVE  /\ [th EXCEPT !.inbox = box, !.outbox = out] \in ThreadType
           /\ [th EXCEPT !.inbox = box, !.outbox = out].index = th.index
  BY DEF ThreadType

LEMMA ReadThread ==
    ASSUME NEW th \in ThreadType, NEW out \in Seq(Nat)
    PROVE  /\ [th EXCEPT !.outbox = out] \in ThreadType
           /\ [th EXCEPT !.outbox = out].index = th.index
  BY DEF ThreadType

LEMMA EndedThread ==
    ASSUME NEW th \in ThreadType
    PROVE  /\ [th EXCEPT !.alive = FALSE, !.inbox = <<>>] \in ThreadType
           /\ [th EXCEPT !.alive = FALSE, !.inbox = <<>>].index = th.index
  <1> DEFINE none == <<>>
  <1>1. none \in Seq(Nat)
    OBVIOUS
  <1> HIDE DEF none
  <1>2. /\ [th EXCEPT !.alive = FALSE, !.inbox = none] \in ThreadType
        /\ [th EXCEPT !.alive = FALSE, !.inbox = none].index = th.index
    BY <1>1 DEF ThreadType
  <1> QED
    BY <1>2 DEF none

LEMMA LeftThread ==
    ASSUME NEW th \in ThreadType
    PROVE  /\ [th EXCEPT !.index = 0] \in ThreadType
           /\ [th EXCEPT !.index = 0].index = 0
  BY SMTT(60), WorkerAssumption DEF ThreadType

-----------------------------------------------------------------------------
(* The steps.                                                              *)

LEMMA InitInv == Init => Inv
  <1> SUFFICES ASSUME Init PROVE Inv
    OBVIOUS
  <1>1. \A i \in Indexes : Thread(i) \in ThreadType /\ Thread(i).index = i /\ i # 0
    BY WorkerAssumption DEF Thread, ThreadType, Indexes
  <1>2. threads \in Seq(ThreadType) /\ Len(threads) = WorkerCount
    BY <1>1, WorkerAssumption DEF Init, Indexes
  <1>3. Typed
    <2>1. workers \in [Indexes -> 0 .. Len(threads)] /\ active \in [Indexes -> 0 .. counter]
      BY <1>2, WorkerAssumption DEF Init, Indexes
    <2>2. counter \in 0 .. MaxRequests /\ settled \in [Requests -> Nat]
      BY BoundAssumption DEF Init
    <2>3. pending \in SUBSET [id : 1 .. counter, index : Indexes] /\ stopped \in BOOLEAN
      BY DEF Init
    <2> QED
      BY <1>2, <2>1, <2>2, <2>3 DEF Typed
  <1>4. ThreadsApart
    BY <1>1, <1>2 DEF ThreadsApart, Init, Indexes
  <1>5. IdsApart /\ Accounted
    BY BoundAssumption DEF IdsApart, Accounted, Init, Requests
  <1> QED
    BY <1>3, <1>4, <1>5 DEF Inv

LEMMA ExecuteInv == Inv /\ Execute => Inv'
  <1> SUFFICES ASSUME Inv, Execute PROVE Inv'
    OBVIOUS
  <1> DEFINE best == BestWorker
  <1>1. best \in Indexes /\ workers[best] \in DOMAIN threads
    <2>1. active \in [Indexes -> Nat]
      BY DEF Inv, Typed
    <2>2. best \in Indexes
      BY <2>1, BestWorkerFacts
    <2> QED
      BY <2>2 DEF Inv, Typed, Execute
  <1>2. counter' = counter + 1 /\ counter' \in 1 .. MaxRequests
    BY BoundAssumption DEF Inv, Typed, Execute
  <1>3. /\ threads' \in Seq(ThreadType) /\ Len(threads') = Len(threads)
        /\ \A u \in DOMAIN threads : threads'[u].index = threads[u].index
    <2> DEFINE t == workers[best]
               box == IF threads[t].alive THEN Append(threads[t].inbox, counter')
                      ELSE threads[t].inbox
               posted == [threads[t] EXCEPT !.inbox = box]
    <2>1. t \in DOMAIN threads /\ threads[t] \in ThreadType
      BY <1>1 DEF Inv, Typed
    <2>2. threads' = [threads EXCEPT ![t] = posted]
      BY DEF Execute
    <2>3. box \in Seq(Nat)
      BY <1>2, <2>1 DEF ThreadType
    <2> HIDE DEF box, t
    <2>4. posted \in ThreadType /\ posted.index = threads[t].index
      BY <2>1, <2>3 DEF ThreadType
    <2> HIDE DEF posted
    <2> QED
      BY <2>1, <2>2, <2>4 DEF Inv, Typed
  <1>4. ThreadsApart' /\ workers' \in [Indexes -> 0 .. Len(threads')]
    BY <1>3, SameIndexes DEF Inv, Execute
  <1>5. active' \in [Indexes -> 0 .. counter']
    BY <1>1, <1>2 DEF Inv, Typed, Execute
  <1>6. pending' \in SUBSET [id : 1 .. counter', index : Indexes]
    BY <1>1, <1>2 DEF Inv, Typed, Execute
  <1>7. IdsApart'
    <2>1. \A r \in pending : r.id <= counter
      BY DEF Inv, Typed
    <2> QED
      BY <1>2, <2>1 DEF Inv, Typed, IdsApart, Execute
  <1>8. Accounted'
    <2>1. \A r \in pending : r.id <= counter /\ r.id \in Nat
      BY DEF Inv, Typed
    <2>2. pending' = pending \cup {[id |-> counter', index |-> best]}
      BY DEF Execute
    <2>3. ASSUME NEW id \in Requests
          PROVE  settled'[id] = IF id <= counter' /\ ~ \E r \in pending' : r.id = id
                                THEN 1 ELSE 0
      <3>1. (\E r \in pending' : r.id = id) <=> (id = counter' \/ \E r \in pending : r.id = id)
        <4>1. [id |-> counter', index |-> best].id = counter'
          OBVIOUS
        <4> HIDE DEF best
        <4> QED
          BY <2>2, <4>1
      <3>2. id \in Nat /\ settled' = settled /\ counter \in Nat
        BY DEF Requests, Execute, Inv, Typed
      <3>3. id <= counter' /\ id # counter' <=> id <= counter
        BY <1>2, <3>2
      <3> QED
        BY <3>1, <3>2, <3>3 DEF Inv, Accounted
    <2> QED
      BY <2>3 DEF Accounted
  <1> QED
    BY <1>2, <1>3, <1>4, <1>5, <1>6, <1>7, <1>8 DEF Inv, Typed, Execute

LEMMA TimeoutInv == \A id \in Requests : Inv /\ Timeout(id) => Inv'
  <1> SUFFICES ASSUME NEW id \in Requests, Inv, Timeout(id) PROVE Inv'
    OBVIOUS
  <1>1. PICK r \in pending : r.id = id /\ pending' = pending \ {r}
    BY DEF Timeout
  <1>2. {q.id : q \in {r}} = {id}
    BY <1>1
  <1>3. /\ Accounted' /\ IdsApart'
        /\ settled' \in [Requests -> Nat]
        /\ pending' \in SUBSET [id : 1 .. counter, index : Indexes]
    <2>1. Settle({q.id : q \in {r}})
      BY <1>2 DEF Timeout
    <2> QED
      BY <1>1, <2>1, SettleAccounts DEF Inv, Timeout
  <1> QED
    BY <1>3 DEF Inv, Typed, ThreadsApart, Timeout

LEMMA WorkInv == \A t \in DOMAIN threads : Inv /\ Work(t) => Inv'
  <1> SUFFICES ASSUME NEW t \in DOMAIN threads, Inv, Work(t) PROVE Inv'
    OBVIOUS
  <1>1. threads[t] \in ThreadType
    BY DEF Inv, Typed
  <1> DEFINE worked == [threads[t] EXCEPT !.inbox = Tail(@),
                                          !.outbox = Append(@, Head(threads[t].inbox))]
  <1>2. worked \in ThreadType /\ worked.index = threads[t].index
    <2>1. threads[t].inbox \in Seq(Nat) /\ threads[t].inbox # <<>>
          /\ threads[t].outbox \in Seq(Nat)
      BY <1>1 DEF ThreadType, Work
    <2>2. Tail(threads[t].inbox) \in Seq(Nat) /\ Head(threads[t].inbox) \in Nat
      BY <2>1
    <2>3. Append(threads[t].outbox, Head(threads[t].inbox)) \in Seq(Nat)
      BY <2>1, <2>2
    <2> QED
      BY <1>1, <2>2, <2>3, WorkedThread
  <1>3. threads' = [threads EXCEPT ![t] = worked]
    BY DEF Work
  <1> HIDE DEF worked
  <1>4. /\ threads' \in Seq(ThreadType) /\ Len(threads') = Len(threads)
        /\ \A u \in DOMAIN threads : threads'[u].index = threads[u].index
    BY <1>2, <1>3 DEF Inv, Typed
  <1>5. ThreadsApart' /\ workers' \in [Indexes -> 0 .. Len(threads')]
    BY <1>4, SameIndexes DEF Inv, Work
  <1> QED
    BY <1>4, <1>5 DEF Inv, Typed, IdsApart, Accounted, Work

LEMMA HandleMessageInv == \A t \in DOMAIN threads : Inv /\ HandleMessage(t) => Inv'
  <1> SUFFICES ASSUME NEW t \in DOMAIN threads, Inv, HandleMessage(t) PROVE Inv'
    OBVIOUS
  <1> DEFINE found == {r \in pending : r.id = Head(threads[t].outbox)}
             read == [threads[t] EXCEPT !.outbox = Tail(@)]
  <1>1. threads[t] \in ThreadType
    BY DEF Inv, Typed
  <1>2. read \in ThreadType /\ read.index = threads[t].index
    <2>1. threads[t].outbox \in Seq(Nat) /\ threads[t].outbox # <<>>
      BY <1>1 DEF ThreadType, HandleMessage
    <2>2. Tail(threads[t].outbox) \in Seq(Nat)
      BY <2>1
    <2> QED
      BY <1>1, <2>2, ReadThread
  <1>3. threads' = [threads EXCEPT ![t] = read]
    BY DEF HandleMessage
  <1>4. /\ pending' = pending \ found /\ Settle({r.id : r \in found})
        /\ found \in SUBSET pending
    BY DEF HandleMessage
  <1>5. active' \in [Indexes -> 0 .. counter]
    BY DEF Inv, Typed, HandleMessage
  <1> HIDE DEF found, read
  <1>6. /\ threads' \in Seq(ThreadType) /\ Len(threads') = Len(threads)
        /\ \A u \in DOMAIN threads : threads'[u].index = threads[u].index
    BY <1>2, <1>3 DEF Inv, Typed
  <1>7. ThreadsApart' /\ workers' \in [Indexes -> 0 .. Len(threads')]
    BY <1>6, SameIndexes DEF Inv, HandleMessage
  <1>8. /\ Accounted' /\ IdsApart'
        /\ settled' \in [Requests -> Nat]
        /\ pending' \in SUBSET [id : 1 .. counter, index : Indexes]
    BY <1>4, SettleAccounts DEF Inv, HandleMessage
  <1> QED
    BY <1>5, <1>6, <1>7, <1>8 DEF Inv, Typed, HandleMessage

LEMMA CrashInv == \A t \in DOMAIN threads : Inv /\ Crash(t) => Inv'
  <1> SUFFICES ASSUME NEW t \in DOMAIN threads, Inv, Crash(t) PROVE Inv'
    OBVIOUS
  <1>1. threads[t] \in ThreadType
    BY DEF Inv, Typed
  <1> DEFINE crashed == [threads[t] EXCEPT !.alive = FALSE, !.inbox = <<>>]
  <1>2. crashed \in ThreadType /\ crashed.index = threads[t].index
    BY <1>1, EndedThread
  <1>3. threads' = [threads EXCEPT ![t] = crashed]
    BY DEF Crash
  <1> HIDE DEF crashed
  <1>4. /\ threads' \in Seq(ThreadType) /\ Len(threads') = Len(threads)
        /\ \A u \in DOMAIN threads : threads'[u].index = threads[u].index
    BY <1>2, <1>3 DEF Inv, Typed
  <1>5. ThreadsApart' /\ workers' \in [Indexes -> 0 .. Len(threads')]
    BY <1>4, SameIndexes DEF Inv, Crash
  <1> QED
    BY <1>4, <1>5 DEF Inv, Typed, IdsApart, Accounted, Crash

LEMMA ExitInv == \A t \in DOMAIN threads : Inv /\ Exit(t) => Inv'
  <1> SUFFICES ASSUME NEW t \in DOMAIN threads, Inv, Exit(t) PROVE Inv'
    OBVIOUS
  <1> DEFINE i == threads[t].index
             left == [threads[t] EXCEPT !.index = 0]
             rest == [threads EXCEPT ![t] = left]
  <1>1. threads[t] \in ThreadType /\ i \in Indexes /\ i # 0
    <2>1. threads[t] \in ThreadType
      BY DEF Inv, Typed
    <2> QED
      BY <2>1, WorkerAssumption DEF ThreadType, Exit, Indexes
  <1>2. left \in ThreadType /\ left.index = 0
    BY <1>1, LeftThread
  <1>3. Thread(i) \in ThreadType /\ Thread(i).index = i
    BY <1>1 DEF Thread, ThreadType, Indexes
  <1>4. /\ threads' = Append(rest, Thread(i))
        /\ workers' = [workers EXCEPT ![i] = Len(threads) + 1]
        /\ active' = [active EXCEPT ![i] = 0]
    BY DEF Exit
  <1> HIDE DEF left
  <1>5. /\ rest \in Seq(ThreadType) /\ Len(rest) = Len(threads)
        /\ \A u \in DOMAIN threads : rest[u] = IF u = t THEN left ELSE threads[u]
    BY <1>2 DEF Inv, Typed
  <1> HIDE DEF rest
  <1>6. /\ threads' \in Seq(ThreadType) /\ Len(threads') = Len(threads) + 1
        /\ \A u \in DOMAIN threads : threads'[u] = IF u = t THEN left ELSE threads[u]
        /\ threads'[Len(threads) + 1] = Thread(i)
        /\ DOMAIN threads' = 1 .. Len(threads) + 1
        /\ DOMAIN threads = 1 .. Len(threads) /\ Len(threads) \in Nat
    <2>1. rest \in Seq(ThreadType) /\ Len(rest) = Len(threads)
          /\ DOMAIN threads = 1 .. Len(threads) /\ Len(threads) \in Nat
      BY <1>5 DEF Inv, Typed
    <2> DEFINE new == Thread(i)
    <2>a. threads' = Append(rest, new) /\ new \in ThreadType
      BY <1>3, <1>4
    <2> HIDE DEF new
    <2>2. /\ threads' \in Seq(ThreadType) /\ Len(threads') = Len(threads) + 1
          /\ \A u \in 1 .. Len(threads) : threads'[u] = rest[u]
          /\ threads'[Len(threads) + 1] = new
          /\ DOMAIN threads' = 1 .. Len(threads) + 1
      BY <2>a, <2>1
    <2> QED
      BY <1>5, <2>1, <2>2 DEF new
  <1>7. workers' \in [Indexes -> 0 .. Len(threads')] /\ active' \in [Indexes -> 0 .. counter]
    BY <1>1, <1>4, <1>6 DEF Inv, Typed
  <1>8. ThreadsApart'
    <2>1. ASSUME NEW j \in Indexes, workers'[j] # 0
          PROVE  threads'[workers'[j]].index = j
      <3>1. CASE j = i
        BY <3>1, <1>1, <1>3, <1>4, <1>6 DEF Inv, Typed
      <3>2. CASE j # i
        <4>1. workers'[j] = workers[j] /\ workers[j] \in DOMAIN threads
          BY <3>2, <1>4, <1>6, <2>1 DEF Inv, Typed
        <4>2. threads[workers[j]].index = j
          BY <2>1, <4>1 DEF Inv, ThreadsApart
        <4>3. workers[j] # t
          BY <3>2, <4>2
        <4> QED
          BY <1>6, <4>1, <4>2, <4>3
      <3> QED
        BY <3>1, <3>2
    <2>2. ASSUME NEW u \in DOMAIN threads', NEW v \in DOMAIN threads',
                 threads'[u].index = threads'[v].index, threads'[u].index # 0
          PROVE  u = v
      <3>1. \A w \in DOMAIN threads : threads'[w].index # 0 =>
               w # t /\ threads'[w].index = threads[w].index /\ threads[w].index # i
        BY <1>1, <1>2, <1>6 DEF Inv, ThreadsApart
      <3> QED
        BY <1>3, <1>6, <2>2, <3>1 DEF Inv, ThreadsApart
    <2> QED
      BY <2>1, <2>2 DEF ThreadsApart
  <1>9. /\ Accounted' /\ IdsApart'
        /\ settled' \in [Requests -> Nat]
        /\ pending' \in SUBSET [id : 1 .. counter, index : Indexes]
    <2>1. Waiting(i) \in SUBSET pending
      BY DEF Waiting
    <2> QED
      BY <2>1, SettleAccounts DEF Inv, Exit
  <1> QED
    BY <1>6, <1>7, <1>8, <1>9 DEF Inv, Typed, Exit

LEMMA ShutdownInv == Inv /\ Shutdown => Inv'
  <1> SUFFICES ASSUME Inv, Shutdown PROVE Inv'
    OBVIOUS
  <1> DEFINE ended(t) == [threads[t] EXCEPT !.alive = FALSE, !.inbox = <<>>]
             inUse(t) == \E i \in Indexes : workers[i] = t
  <1>1. \A t \in DOMAIN threads :
           /\ ended(t) \in ThreadType /\ ended(t).index = threads[t].index
           /\ threads[t] \in ThreadType
    <2>1. \A t \in DOMAIN threads : threads[t] \in ThreadType
      BY DEF Inv, Typed
    <2> QED
      BY <2>1, EndedThread
  <1>a. threads' = [t \in DOMAIN threads |-> IF inUse(t) THEN ended(t) ELSE threads[t]]
    BY DEF Shutdown
  <1> HIDE DEF ended, inUse
  <1>2. /\ DOMAIN threads' = DOMAIN threads
        /\ \A t \in DOMAIN threads :
              threads'[t] \in ThreadType /\ threads'[t].index = threads[t].index
    BY <1>1, <1>a
  <1>3. threads' \in Seq(ThreadType) /\ Len(threads') = Len(threads)
    <2>1. DOMAIN threads = 1 .. Len(threads) /\ Len(threads) \in Nat
      BY DEF Inv, Typed
    <2>2. threads' = [t \in 1 .. Len(threads) |-> threads'[t]]
      BY <1>a, <2>1
    <2> QED
      BY <1>2, <2>1, <2>2
  <1>4. ThreadsApart' /\ workers' \in [Indexes -> 0 .. Len(threads')]
    <2>1. workers' \in [Indexes -> 0 .. Len(threads')] /\ \A i \in Indexes : workers'[i] = 0
      <3>1. Len(threads') \in Nat
        BY <1>3 DEF Inv, Typed
      <3>2. workers' = [i \in Indexes |-> 0]
        BY DEF Shutdown
      <3>3. 0 \in 0 .. Len(threads')
        BY <3>1
      <3> QED
        BY <3>2, <3>3
    <2> QED
      BY <1>2, <2>1 DEF Inv, ThreadsApart
  <1> QED
    BY <1>3, <1>4 DEF Inv, Typed, IdsApart, Accounted, Shutdown

LEMMA NextInv == Inv /\ [Next]_vars => Inv'
  <1> SUFFICES ASSUME Inv, [Next]_vars PROVE Inv'
    OBVIOUS
  <1>1. CASE Execute
    BY <1>1, ExecuteInv
  <1>2. ASSUME NEW id \in Requests, Timeout(id) PROVE Inv'
    BY <1>2, TimeoutInv
  <1>3. ASSUME NEW t \in DOMAIN threads, Serve(t) \/ Crash(t) PROVE Inv'
    BY <1>3, WorkInv, HandleMessageInv, ExitInv, CrashInv DEF Serve
  <1>4. CASE Shutdown
    BY <1>4, ShutdownInv
  <1>5. CASE UNCHANGED vars
    BY <1>5 DEF vars, Inv, Typed, ThreadsApart, IdsApart, Accounted
  <1> QED
    BY <1>1, <1>2, <1>3, <1>4, <1>5 DEF Next

-----------------------------------------------------------------------------
(* The theorem.                                                            *)

LEMMA InvSettles == Inv => SettledOnce
  BY BoundAssumption
     DEF Inv, Typed, ThreadsApart, IdsApart, Accounted, SettledOnce, TypeOK

\* Over replies, timers, crashes, respawns and a shutdown in any order, every
\* promise is settled exactly once, when it leaves pendingRequests, and the
\* worker that an index names is its own.
THEOREM PromisesAreSettledOnce == Spec => []SettledOnce
  <1>1. Spec => []Inv
    BY InitInv, NextInv, PTL DEF Spec
  <1> QED
    BY <1>1, InvSettles, PTL

-----------------------------------------------------------------------------
(* What a worker has to do.                                                *)

\* The requests that a thread has not got rid of: the replies on their way,
\* and the tasks it has not begun, in the order in which they were given.
Tasks(t) == threads[t].outbox \o threads[t].inbox

\* A request is given to one thread, which has the index that its promise
\* waits for.
Queued ==
    /\ \A t \in DOMAIN threads : \A k \in 1 .. Len(Tasks(t)) :
          /\ Tasks(t)[k] \in 1 .. counter
          /\ \A r \in pending : r.id = Tasks(t)[k] => threads[t].index = r.index
    /\ \A t, u \in DOMAIN threads :
          \A k \in 1 .. Len(Tasks(t)), m \in 1 .. Len(Tasks(u)) :
             Tasks(t)[k] = Tasks(u)[m] => t = u /\ k = m

\* activeTasks of an index is what its thread has to do, and its promises wait.
CountedAt(i) ==
    /\ active[i] = Len(Tasks(workers[i]))
    /\ \A k \in 1 .. Len(Tasks(workers[i])) :
          \E r \in pending : r.id = Tasks(workers[i])[k] /\ r.index = i

LoadInv ==
    /\ Inv
    /\ Queued
    /\ ~ late => \A i \in Indexes : Running(i) => CountedAt(i)

LEMMA TasksFacts ==
    ASSUME Typed, NEW t \in DOMAIN threads
    PROVE  /\ threads[t] \in ThreadType
           /\ threads[t].outbox \in Seq(Nat) /\ threads[t].inbox \in Seq(Nat)
           /\ Tasks(t) \in Seq(Nat)
           /\ Len(Tasks(t)) = Len(threads[t].outbox) + Len(threads[t].inbox)
           /\ Len(Tasks(t)) \in Nat
  <1>1. threads[t] \in ThreadType
    BY DEF Typed
  <1>2. threads[t].outbox \in Seq(Nat) /\ threads[t].inbox \in Seq(Nat)
    BY <1>1 DEF ThreadType
  <1>3. Tasks(t) \in Seq(Nat) /\ Len(Tasks(t)) = Len(threads[t].outbox) + Len(threads[t].inbox)
    BY <1>2, ConcatFacts DEF Tasks
  <1>4. Len(Tasks(t)) \in Nat
    BY <1>3, SeqFacts
  <1> QED
    BY <1>1, <1>2, <1>3, <1>4

\* Two queues, of replies and of tasks: when the oldest task is done, the
\* requests in them stay the same; when a reply is read, the first goes; when
\* a task is posted, it comes last; when the tasks are lost, replies are left.
LEMMA WorkedTasks ==
    ASSUME NEW out \in Seq(Nat), NEW in \in Seq(Nat), in # <<>>
    PROVE  Append(out, Head(in)) \o Tail(in) = out \o in
  <1> DEFINE o == Append(out, Head(in))
             n == Tail(in)
             w == o \o n
             b == out \o in
             lo == Len(out)
             li == Len(in)
  <1>1. /\ n \in Seq(Nat) /\ Len(n) = li - 1 /\ Head(in) = in[1] /\ Head(in) \in Nat
        /\ li \in Nat \ {0} /\ \A k \in 1 .. li - 1 : n[k] = in[k + 1]
    BY TailFacts
  <1>2. /\ o \in Seq(Nat) /\ Len(o) = lo + 1 /\ o[lo + 1] = in[1]
        /\ \A k \in 1 .. lo : o[k] = out[k]
    BY <1>1, AppendFacts
  <1>3. lo \in Nat
    BY SeqFacts
  <1>4. /\ b \in Seq(Nat) /\ Len(b) = lo + li
        /\ \A k \in 1 .. lo : b[k] = out[k]
        /\ \A k \in 1 .. li : b[lo + k] = in[k]
    BY ConcatFacts
  <1>5. /\ w \in Seq(Nat) /\ Len(w) = Len(o) + Len(n)
        /\ \A k \in 1 .. Len(o) : w[k] = o[k]
        /\ \A k \in 1 .. Len(n) : w[Len(o) + k] = n[k]
    <2>1. ASSUME NEW s \in Seq(Nat), NEW u \in Seq(Nat)
          PROVE  /\ s \o u \in Seq(Nat) /\ Len(s \o u) = Len(s) + Len(u)
                 /\ \A k \in 1 .. Len(s) : (s \o u)[k] = s[k]
                 /\ \A k \in 1 .. Len(u) : (s \o u)[Len(s) + k] = u[k]
      BY ConcatFacts
    <2>2. o \in Seq(Nat) /\ n \in Seq(Nat)
      BY <1>1, <1>2
    <2> HIDE DEF o, n
    <2> QED
      BY <2>1, <2>2, Zenon
  <1> HIDE DEF o, n
  <1> HIDE DEF w, b
  <1>6. /\ Len(w) = lo + li
        /\ \A k \in 1 .. lo + 1 : w[k] = o[k]
        /\ \A k \in 1 .. li - 1 : w[lo + 1 + k] = n[k]
    BY <1>1, <1>2, <1>3, <1>5
  <1> HIDE DEF lo, li
  <1>7. ASSUME NEW k \in 1 .. lo + li
        PROVE  w[k] = b[k]
    <2>1. CASE k \in 1 .. lo
      BY <2>1, <1>2, <1>3, <1>4, <1>6
    <2>2. CASE k = lo + 1
      <3>1. w[k] = in[1]
        BY <2>2, <1>2, <1>3, <1>6
      <3>2. b[lo + 1] = in[1]
        BY <1>1, <1>4
      <3> QED
        BY <2>2, <3>1, <3>2
    <2>3. CASE k \in lo + 2 .. lo + li
      <3> DEFINE j == k - lo - 1
      <3>1. j \in 1 .. li - 1 /\ lo + 1 + j = k /\ j + 1 \in 1 .. li /\ lo + (j + 1) = k
        BY <2>3, <1>1, <1>3
      <3> HIDE DEF j
      <3>2. w[k] = n[j] /\ n[j] = in[j + 1]
        BY <3>1, <1>1, <1>6
      <3>3. b[lo + (j + 1)] = in[j + 1]
        BY <3>1, <1>4
      <3> QED
        BY <3>1, <3>2, <3>3
    <2> QED
      BY <2>1, <2>2, <2>3, <1>1, <1>3
  <1>8. w \in Seq(Nat) /\ b \in Seq(Nat) /\ Len(w) = Len(b)
    BY <1>4, <1>5, <1>6
  <1>9. w = b
    BY <1>4, <1>7, <1>8
  <1> QED
    BY <1>9 DEF w, b, o, n

LEMMA ReadTasks ==
    ASSUME NEW out \in Seq(Nat), NEW in \in Seq(Nat), out # <<>>
    PROVE  /\ (out \o in)[1] = Head(out)
           /\ Len(Tail(out) \o in) = Len(out \o in) - 1
           /\ Len(out \o in) \in Nat \ {0}
           /\ \A k \in 1 .. Len(out \o in) - 1 : (Tail(out) \o in)[k] = (out \o in)[k + 1]
  <1> DEFINE n == Tail(out)
             w == n \o in
             b == out \o in
             lo == Len(out)
             li == Len(in)
  <1>1. /\ n \in Seq(Nat) /\ Len(n) = lo - 1 /\ Head(out) = out[1]
        /\ lo \in Nat \ {0} /\ \A k \in 1 .. lo - 1 : n[k] = out[k + 1]
    BY TailFacts
  <1>2. li \in Nat
    BY SeqFacts
  <1>3. /\ Len(b) = lo + li
        /\ \A k \in 1 .. lo : b[k] = out[k]
        /\ \A k \in 1 .. li : b[lo + k] = in[k]
    BY ConcatFacts
  <1>4. /\ Len(w) = Len(n) + li
        /\ \A k \in 1 .. Len(n) : w[k] = n[k]
        /\ \A k \in 1 .. li : w[Len(n) + k] = in[k]
    <2>1. ASSUME NEW s \in Seq(Nat)
          PROVE  /\ Len(s \o in) = Len(s) + Len(in)
                 /\ \A k \in 1 .. Len(s) : (s \o in)[k] = s[k]
                 /\ \A k \in 1 .. Len(in) : (s \o in)[Len(s) + k] = in[k]
      BY ConcatFacts
    <2>2. n \in Seq(Nat)
      BY <1>1
    <2> HIDE DEF n
    <2> QED
      BY <2>1, <2>2, Zenon
  <1> HIDE DEF n
  <1> HIDE DEF w, b, lo, li
  <1>5. ASSUME NEW k \in 1 .. Len(b) - 1
        PROVE  w[k] = b[k + 1]
    <2>1. CASE k \in 1 .. lo - 1
      <3>1. w[k] = out[k + 1] /\ k + 1 \in 1 .. lo
        BY <2>1, <1>1, <1>4
      <3> QED
        BY <3>1, <1>3
    <2>2. CASE k \in lo .. lo + li - 1
      <3> DEFINE j == k - (lo - 1)
      <3>1. j \in 1 .. li /\ (lo - 1) + j = k /\ lo + j = k + 1
        BY <2>2, <1>1, <1>2
      <3> HIDE DEF j
      <3>2. w[(lo - 1) + j] = in[j] /\ b[lo + j] = in[j]
        BY <3>1, <1>1, <1>3, <1>4
      <3> QED
        BY <3>1, <3>2
    <2> QED
      BY <2>1, <2>2, <1>1, <1>2, <1>3
  <1>6. b[1] = out[1]
    BY <1>1, <1>3
  <1>7. Len(w) = Len(b) - 1 /\ Len(b) \in Nat \ {0}
    BY <1>1, <1>2, <1>3, <1>4
  <1> QED
    BY <1>1, <1>5, <1>6, <1>7 DEF w, b, n

LEMMA PostedTasks ==
    ASSUME NEW out \in Seq(Nat), NEW in \in Seq(Nat), NEW e \in Nat
    PROVE  /\ Len(out \o Append(in, e)) = Len(out \o in) + 1
           /\ Len(out \o in) \in Nat
           /\ \A k \in 1 .. Len(out \o in) : (out \o Append(in, e))[k] = (out \o in)[k]
           /\ (out \o Append(in, e))[Len(out \o in) + 1] = e
  <1> DEFINE n == Append(in, e)
             w == out \o n
             b == out \o in
             lo == Len(out)
             li == Len(in)
  <1>1. /\ n \in Seq(Nat) /\ Len(n) = li + 1 /\ n[li + 1] = e
        /\ \A k \in 1 .. li : n[k] = in[k]
    BY AppendFacts
  <1>2. lo \in Nat /\ li \in Nat
    BY SeqFacts
  <1>3. /\ Len(b) = lo + li
        /\ \A k \in 1 .. lo : b[k] = out[k]
        /\ \A k \in 1 .. li : b[lo + k] = in[k]
    BY ConcatFacts
  <1>4. /\ Len(w) = lo + Len(n)
        /\ \A k \in 1 .. lo : w[k] = out[k]
        /\ \A k \in 1 .. Len(n) : w[lo + k] = n[k]
    <2>1. ASSUME NEW s \in Seq(Nat)
          PROVE  /\ Len(out \o s) = Len(out) + Len(s)
                 /\ \A k \in 1 .. Len(out) : (out \o s)[k] = out[k]
                 /\ \A k \in 1 .. Len(s) : (out \o s)[Len(out) + k] = s[k]
      BY ConcatFacts
    <2>2. n \in Seq(Nat)
      BY <1>1
    <2> HIDE DEF n
    <2> QED
      BY <2>1, <2>2, Zenon
  <1> HIDE DEF n
  <1> HIDE DEF w, b, lo, li
  <1>5. ASSUME NEW k \in 1 .. Len(b)
        PROVE  w[k] = b[k]
    <2>1. CASE k \in 1 .. lo
      BY <2>1, <1>3, <1>4
    <2>2. CASE k \in lo + 1 .. lo + li
      <3> DEFINE j == k - lo
      <3>1. j \in 1 .. li /\ lo + j = k /\ j \in 1 .. li + 1
        BY <2>2, <1>2
      <3> HIDE DEF j
      <3>2. w[lo + j] = in[j] /\ b[lo + j] = in[j]
        BY <3>1, <1>1, <1>3, <1>4
      <3> QED
        BY <3>1, <3>2
    <2> QED
      BY <2>1, <2>2, <1>2, <1>3
  <1>6. w[lo + (li + 1)] = e /\ lo + (li + 1) = Len(b) + 1
    BY <1>1, <1>2, <1>3, <1>4
  <1>7. Len(w) = Len(b) + 1 /\ Len(b) \in Nat
    BY <1>1, <1>2, <1>3, <1>4
  <1> QED
    BY <1>5, <1>6, <1>7 DEF w, b, n

LEMMA LostTasks ==
    ASSUME NEW out \in Seq(Nat), NEW in \in Seq(Nat)
    PROVE  /\ Len(out \o <<>>) \in Nat /\ Len(out \o <<>>) <= Len(out \o in)
           /\ \A k \in 1 .. Len(out \o <<>>) : (out \o <<>>)[k] = (out \o in)[k]
  <1> DEFINE none == <<>>
  <1>1. none \in Seq(Nat) /\ Len(none) = 0
    OBVIOUS
  <1> HIDE DEF none
  <1>2. Len(out) \in Nat /\ Len(in) \in Nat
    BY SeqFacts
  <1>3. Len(out \o none) = Len(out) + 0 /\ \A k \in 1 .. Len(out) : (out \o none)[k] = out[k]
    BY <1>1, ConcatFacts
  <1>4. Len(out \o in) = Len(out) + Len(in) /\ \A k \in 1 .. Len(out) : (out \o in)[k] = out[k]
    BY ConcatFacts
  <1>5. Len(out \o none) \in Nat /\ Len(out \o none) <= Len(out \o in) /\ Len(out \o none) = Len(out)
    BY <1>2, <1>3, <1>4
  <1> QED
    BY <1>3, <1>4, <1>5 DEF none

\* A thread that keeps its queues keeps its requests.
LEMMA SameTasks ==
    ASSUME NEW t, threads'[t].inbox = threads[t].inbox,
           threads'[t].outbox = threads[t].outbox
    PROVE  Tasks(t)' = Tasks(t)
  BY DEF Tasks

\* The requests of thread t become those from place d + 1 on, or some of them;
\* its promises wait for its index as before, or it has none left.
Shrinks(t, d) ==
    /\ t \in DOMAIN threads
    /\ Len(Tasks(t)') + d <= Len(Tasks(t))
    /\ \A k \in 1 .. Len(Tasks(t)') : Tasks(t)'[k] = Tasks(t)[k + d]
    /\ \A r \in pending' : \A k \in 1 .. Len(Tasks(t)') :
          r.id = Tasks(t)'[k] => threads'[t].index = threads[t].index

\* Requests that only become fewer stay apart.
LEMMA FewerTasks ==
    ASSUME Typed, Typed', Queued, counter' = counter, pending' \subseteq pending,
           NEW d \in [DOMAIN threads' -> {0, 1}],
           \A t \in DOMAIN threads' : Len(Tasks(t)') = 0 \/ Shrinks(t, d[t])
    PROVE  Queued'
  <1>1. ASSUME NEW t \in DOMAIN threads', NEW k \in 1 .. Len(Tasks(t)')
        PROVE  /\ Shrinks(t, d[t]) /\ k + d[t] \in 1 .. Len(Tasks(t))
               /\ Tasks(t)'[k] = Tasks(t)[k + d[t]]
               /\ t \in DOMAIN threads
               /\ k \in Nat /\ d[t] \in {0, 1}
    <2>1. Len(Tasks(t)') \in Nat
      BY TasksFacts
    <2>2. Shrinks(t, d[t])
      BY <1>1
    <2>3. t \in DOMAIN threads /\ Len(Tasks(t)) \in Nat
      BY <2>2, TasksFacts DEF Shrinks
    <2> QED
      BY <2>1, <2>2, <2>3 DEF Shrinks
  <1>2. ASSUME NEW t \in DOMAIN threads', NEW k \in 1 .. Len(Tasks(t)')
        PROVE  /\ Tasks(t)'[k] \in 1 .. counter
               /\ \A r \in pending' : r.id = Tasks(t)'[k] => threads'[t].index = r.index
    BY <1>1 DEF Queued, Shrinks
  <1>3. ASSUME NEW t \in DOMAIN threads', NEW u \in DOMAIN threads',
               NEW k \in 1 .. Len(Tasks(t)'), NEW m \in 1 .. Len(Tasks(u)'),
               Tasks(t)'[k] = Tasks(u)'[m]
        PROVE  t = u /\ k = m
    <2>1. t = u /\ k + d[t] = m + d[u]
      <3>1. PICK a \in 1 .. Len(Tasks(t)) : a = k + d[t] /\ Tasks(t)'[k] = Tasks(t)[a]
        BY <1>1
      <3>2. PICK b \in 1 .. Len(Tasks(u)) : b = m + d[u] /\ Tasks(u)'[m] = Tasks(u)[b]
        BY <1>1
      <3>3. t \in DOMAIN threads /\ u \in DOMAIN threads /\ Tasks(t)[a] = Tasks(u)[b]
        BY <1>1, <1>3, <3>1, <3>2
      <3>4. t = u /\ a = b
        BY <3>3 DEF Queued
      <3> QED
        BY <3>1, <3>2, <3>4
    <2>2. k \in Nat /\ m \in Nat /\ d[t] \in {0, 1}
      BY <1>1
    <2> QED
      BY <2>1, <2>2
  <1> QED
    BY <1>2, <1>3 DEF Queued

\* A worker with the same requests, whose promises still wait, is counted.
LEMMA StillCounted ==
    ASSUME NEW i, NEW t, CountedAt(i), workers[i] = t, workers'[i] = t,
           active'[i] = active[i], Tasks(t)' = Tasks(t),
           \A r \in pending : \A k \in 1 .. Len(Tasks(t)) :
              r.id = Tasks(t)[k] /\ r.index = i => r \in pending'
    PROVE  CountedAt(i)'
  <1>1. Tasks(workers[i])' = Tasks(workers[i])
    BY DEF Tasks
  <1> QED
    BY <1>1 DEF CountedAt

\* The thread of a running worker is one of its own.
LEMMA RunningFacts ==
    ASSUME Inv, NEW i \in Indexes, Running(i)
    PROVE  /\ workers[i] \in DOMAIN threads
           /\ threads[workers[i]].index = i /\ threads[workers[i]].alive
           /\ \A t \in DOMAIN threads : threads[t].index = i => t = workers[i]
  <1>1. workers[i] \in DOMAIN threads
    BY DEF Inv, Typed, Running
  <1>2. threads[workers[i]].index = i /\ i # 0
    BY WorkerAssumption DEF Inv, ThreadsApart, Running, Indexes
  <1> QED
    BY <1>1, <1>2 DEF Inv, ThreadsApart, Running

LEMMA InitLoad == LateInit => LoadInv
  <1> SUFFICES ASSUME LateInit PROVE LoadInv
    OBVIOUS
  <1>1. Inv
    BY InitInv DEF LateInit
  <1>2. \A t \in DOMAIN threads : Len(Tasks(t)) = 0
    <2> DEFINE none == <<>>
    <2>1. none \in Seq(Nat) /\ Len(none) = 0
      OBVIOUS
    <2>2. \A t \in DOMAIN threads : threads[t].inbox = none /\ threads[t].outbox = none
      BY DEF LateInit, Init, Thread
    <2> HIDE DEF none
    <2>3. Typed
      BY <1>1 DEF Inv
    <2>4. \A t \in DOMAIN threads :
             Len(Tasks(t)) = Len(threads[t].outbox) + Len(threads[t].inbox)
      BY <2>3, TasksFacts, Zenon
    <2>5. ASSUME NEW t \in DOMAIN threads
          PROVE  Len(Tasks(t)) = 0
      <3>1. Len(threads[t].outbox) = 0 /\ Len(threads[t].inbox) = 0
        BY <2>1, <2>2, Zenon
      <3>2. Len(Tasks(t)) = Len(threads[t].outbox) + Len(threads[t].inbox)
        BY <2>4
      <3> QED
        BY <3>1, <3>2
    <2> QED
      BY <2>5
  <1>3. Queued
    BY <1>2 DEF Queued
  <1>4. ASSUME NEW i \in Indexes, Running(i)
        PROVE  CountedAt(i)
    <2>1. workers[i] \in DOMAIN threads /\ active[i] = 0
      BY <1>1, <1>4, RunningFacts DEF LateInit, Init
    <2> QED
      BY <1>2, <2>1 DEF CountedAt
  <1> QED
    BY <1>1, <1>3, <1>4 DEF LoadInv

LEMMA WorkLoad ==
    ASSUME LoadInv, Inv', late' = late, NEW t \in DOMAIN threads, Work(t)
    PROVE  LoadInv'
  <1>1. /\ DOMAIN threads' = DOMAIN threads
        /\ \A u \in DOMAIN threads : /\ threads'[u].index = threads[u].index
                                     /\ threads'[u].alive = threads[u].alive
                                     /\ Tasks(u)' = Tasks(u)
    <2> DEFINE in == Tail(threads[t].inbox)
               out == Append(threads[t].outbox, Head(threads[t].inbox))
               worked == [threads[t] EXCEPT !.inbox = in, !.outbox = out]
    <2>1. /\ threads[t] \in ThreadType
          /\ threads[t].outbox \in Seq(Nat) /\ threads[t].inbox \in Seq(Nat)
      BY TasksFacts DEF LoadInv, Inv
    <2>2. threads' = [threads EXCEPT ![t] = worked]
      BY DEF Work
    <2>3. out \o in = Tasks(t)
      BY <2>1, WorkedTasks DEF Work, Tasks
    <2> HIDE DEF in, out
    <2>4. /\ worked.index = threads[t].index /\ worked.alive = threads[t].alive
          /\ worked.inbox = in /\ worked.outbox = out
      BY <2>1 DEF ThreadType
    <2> HIDE DEF worked
    <2>5. /\ DOMAIN threads' = DOMAIN threads /\ threads'[t] = worked
          /\ \A u \in DOMAIN threads : u # t => threads'[u] = threads[u]
      BY <2>2 DEF LoadInv, Inv, Typed
    <2>6. Tasks(t)' = Tasks(t)
      BY <2>3, <2>4, <2>5 DEF Tasks
    <2> QED
      BY <2>4, <2>5, <2>6, SameTasks
  <1>2. /\ pending' = pending /\ counter' = counter
        /\ workers' = workers /\ active' = active
    BY DEF Work
  <1>3. Queued'
    BY <1>1, <1>2 DEF LoadInv, Queued
  <1>4. ASSUME ~ late', NEW i \in Indexes, Running(i)'
        PROVE  CountedAt(i)'
    <2>1. PICK w \in DOMAIN threads : w = workers[i]
      BY <1>2, <1>4 DEF LoadInv, Inv, Typed, Running
    <2>2. Running(i)
      BY <1>1, <1>2, <1>4, <2>1 DEF Running
    <2>3. CountedAt(i)
      BY <1>4, <2>2 DEF LoadInv
    <2> QED
      BY <1>1, <1>2, <2>1, <2>3, StillCounted
  <1> QED
    BY <1>3, <1>4 DEF LoadInv

LEMMA HandleMessageLoad ==
    ASSUME LoadInv, Inv', late' = late, NEW t \in DOMAIN threads, HandleMessage(t)
    PROVE  LoadInv'
  <1> DEFINE id == Tasks(t)[1]
             found == {r \in pending : r.id = id}
  <1>1. /\ DOMAIN threads' = DOMAIN threads
        /\ threads'[t].index = threads[t].index /\ threads'[t].alive = threads[t].alive
        /\ \A u \in DOMAIN threads : u # t =>
              threads'[u] = threads[u] /\ Tasks(u)' = Tasks(u)
        /\ Len(Tasks(t)') = Len(Tasks(t)) - 1 /\ Len(Tasks(t)) \in Nat \ {0}
        /\ \A k \in 1 .. Len(Tasks(t)) - 1 : Tasks(t)'[k] = Tasks(t)[k + 1]
        /\ Head(threads[t].outbox) = id
    <2> DEFINE in == threads[t].inbox
               out == Tail(threads[t].outbox)
               read == [threads[t] EXCEPT !.outbox = out]
    <2>1. /\ threads[t] \in ThreadType
          /\ threads[t].outbox \in Seq(Nat) /\ in \in Seq(Nat)
      BY TasksFacts DEF LoadInv, Inv
    <2>2. threads' = [threads EXCEPT ![t] = read]
      BY DEF HandleMessage
    <2>3. /\ Tasks(t)[1] = Head(threads[t].outbox)
          /\ Len(out \o in) = Len(Tasks(t)) - 1 /\ Len(Tasks(t)) \in Nat \ {0}
          /\ \A k \in 1 .. Len(Tasks(t)) - 1 : (out \o in)[k] = Tasks(t)[k + 1]
      BY <2>1, ReadTasks DEF HandleMessage, Tasks
    <2> HIDE DEF out
    <2>4. /\ read.index = threads[t].index /\ read.alive = threads[t].alive
          /\ read.inbox = in /\ read.outbox = out
      BY <2>1 DEF ThreadType
    <2> HIDE DEF read
    <2>5. /\ DOMAIN threads' = DOMAIN threads /\ threads'[t] = read
          /\ \A u \in DOMAIN threads : u # t => threads'[u] = threads[u]
      BY <2>2 DEF LoadInv, Inv, Typed
    <2>6. Tasks(t)' = out \o in
      BY <2>4, <2>5 DEF Tasks
    <2> QED
      BY <2>3, <2>4, <2>5, <2>6, SameTasks
  <1>2. /\ pending' = pending \ found
        /\ counter' = counter /\ workers' = workers
        /\ active' = [i \in Indexes |->
                        IF active[i] > 0 /\ \E r \in found : r.index = i
                        THEN active[i] - 1 ELSE active[i]]
    BY <1>1 DEF HandleMessage
  <1>3. Queued'
    <2> DEFINE d == [u \in DOMAIN threads' |-> IF u = t THEN 1 ELSE 0]
    <2>1. d \in [DOMAIN threads' -> {0, 1}]
      OBVIOUS
    <2>2. ASSUME NEW u \in DOMAIN threads', u # t
          PROVE  Shrinks(u, 0)
      <3>1. Len(Tasks(u)) \in Nat /\ u \in DOMAIN threads
        BY <1>1, <2>2, TasksFacts DEF LoadInv, Inv
      <3> QED
        BY <1>1, <2>2, <3>1 DEF Shrinks
    <2>3. Shrinks(t, 1)
      BY <1>1 DEF Shrinks
    <2>4. \A u \in DOMAIN threads' : Shrinks(u, d[u])
      BY <2>2, <2>3
    <2> HIDE DEF d
    <2> QED
      BY <1>2, <2>1, <2>4, FewerTasks DEF LoadInv, Inv
  <1>4. ASSUME ~ late', NEW i \in Indexes, Running(i)'
        PROVE  CountedAt(i)'
    <2>1. PICK w \in DOMAIN threads : w = workers[i]
      BY <1>2, <1>4 DEF LoadInv, Inv, Typed, Running
    <2>2. Running(i)
      BY <1>1, <1>2, <1>4, <2>1 DEF Running
    <2>3. CountedAt(i)
      BY <1>4, <2>2 DEF LoadInv
    <2>4. CASE w = t
      <3>1. /\ active[i] = Len(Tasks(t))
            /\ \A k \in 1 .. Len(Tasks(t)) :
                  \E r \in pending : r.id = Tasks(t)[k] /\ r.index = i
        BY <2>1, <2>3, <2>4 DEF CountedAt
      <3>2. PICK r \in pending : r.id = id /\ r.index = i
        BY <1>1, <3>1
      <3>3. active'[i] = Len(Tasks(t)')
        BY <1>1, <1>2, <3>1, <3>2
      <3>4. ASSUME NEW k \in 1 .. Len(Tasks(t)')
            PROVE  \E q \in pending' : q.id = Tasks(t)'[k] /\ q.index = i
        <4>1. /\ k + 1 \in 1 .. Len(Tasks(t)) /\ Tasks(t)'[k] = Tasks(t)[k + 1]
              /\ 1 \in 1 .. Len(Tasks(t)) /\ k + 1 # 1
          BY <1>1
        <4>2. PICK q \in pending : q.id = Tasks(t)[k + 1] /\ q.index = i
          BY <3>1, <4>1
        <4>3. Tasks(t)[k + 1] # id
          BY <4>1 DEF LoadInv, Queued
        <4> QED
          BY <1>2, <4>1, <4>2, <4>3
      <3>5. workers'[i] = t
        BY <1>2, <2>1, <2>4
      <3>6. Tasks(workers[i])' = Tasks(t)'
        BY <3>5 DEF Tasks
      <3> QED
        BY <3>3, <3>4, <3>6 DEF CountedAt
    <2>5. CASE w # t
      <3>1. 1 \in 1 .. Len(Tasks(t))
        BY <1>1
      <3>2. \A r \in found : r.index # i
        BY <2>1, <2>2, <2>5, <3>1, RunningFacts DEF LoadInv, Queued
      <3>3. \A k \in 1 .. Len(Tasks(w)) : Tasks(w)[k] # id
        BY <2>5, <3>1 DEF LoadInv, Queued
      <3>4. active'[i] = active[i] /\ Tasks(w)' = Tasks(w)
        BY <1>1, <1>2, <2>5, <3>2
      <3> QED
        BY <1>2, <2>1, <2>3, <3>3, <3>4, StillCounted
    <2> QED
      BY <2>4, <2>5
  <1> QED
    BY <1>3, <1>4 DEF LoadInv

LEMMA CrashLoad ==
    ASSUME LoadInv, Inv', late' = late, NEW t \in DOMAIN threads, Crash(t)
    PROVE  LoadInv'
  <1>1. /\ DOMAIN threads' = DOMAIN threads
        /\ threads'[t].index = threads[t].index /\ ~ threads'[t].alive
        /\ \A u \in DOMAIN threads : u # t =>
              threads'[u] = threads[u] /\ Tasks(u)' = Tasks(u)
        /\ Len(Tasks(t)') \in Nat /\ Len(Tasks(t)') <= Len(Tasks(t))
        /\ \A k \in 1 .. Len(Tasks(t)') : Tasks(t)'[k] = Tasks(t)[k]
    <2> DEFINE out == threads[t].outbox
               none == <<>>
               crashed == [threads[t] EXCEPT !.alive = FALSE, !.inbox = none]
    <2>1. /\ threads[t] \in ThreadType
          /\ out \in Seq(Nat) /\ threads[t].inbox \in Seq(Nat)
      BY TasksFacts DEF LoadInv, Inv
    <2>2. threads' = [threads EXCEPT ![t] = crashed]
      BY DEF Crash
    <2>3. /\ Len(out \o none) \in Nat /\ Len(out \o none) <= Len(Tasks(t))
          /\ \A k \in 1 .. Len(out \o none) : (out \o none)[k] = Tasks(t)[k]
      BY <2>1, LostTasks DEF Tasks
    <2> HIDE DEF none
    <2>4. /\ crashed.index = threads[t].index /\ ~ crashed.alive
          /\ crashed.inbox = none /\ crashed.outbox = out
      BY <2>1 DEF ThreadType
    <2> HIDE DEF crashed
    <2>5. /\ DOMAIN threads' = DOMAIN threads /\ threads'[t] = crashed
          /\ \A u \in DOMAIN threads : u # t => threads'[u] = threads[u]
      BY <2>2 DEF LoadInv, Inv, Typed
    <2>6. Tasks(t)' = out \o none
      BY <2>4, <2>5 DEF Tasks
    <2> QED
      BY <2>3, <2>4, <2>5, <2>6, SameTasks
  <1>2. /\ pending' = pending /\ counter' = counter
        /\ workers' = workers /\ active' = active
    BY DEF Crash
  <1>3. Queued'
    <2> DEFINE d == [u \in DOMAIN threads' |-> 0]
    <2>1. d \in [DOMAIN threads' -> {0, 1}]
      OBVIOUS
    <2>2. ASSUME NEW u \in DOMAIN threads'
          PROVE  Shrinks(u, 0)
      <3>1. Len(Tasks(u)) \in Nat /\ u \in DOMAIN threads
        BY <1>1, TasksFacts DEF LoadInv, Inv
      <3> QED
        BY <1>1, <3>1 DEF Shrinks
    <2>3. \A u \in DOMAIN threads' : Shrinks(u, d[u])
      BY <2>2
    <2> HIDE DEF d
    <2> QED
      BY <1>2, <2>1, <2>3, FewerTasks DEF LoadInv, Inv
  <1>4. ASSUME ~ late', NEW i \in Indexes, Running(i)'
        PROVE  CountedAt(i)'
    <2>1. PICK w \in DOMAIN threads : w = workers[i]
      BY <1>2, <1>4 DEF LoadInv, Inv, Typed, Running
    <2>2. w # t
      BY <1>1, <1>2, <1>4, <2>1 DEF Running
    <2>3. Running(i)
      BY <1>1, <1>2, <1>4, <2>1, <2>2 DEF Running
    <2>4. CountedAt(i)
      BY <1>4, <2>3 DEF LoadInv
    <2> QED
      BY <1>1, <1>2, <2>1, <2>2, <2>4, StillCounted
  <1> QED
    BY <1>3, <1>4 DEF LoadInv

LEMMA ExitLoad ==
    ASSUME LoadInv, Inv', late' = late, NEW t \in DOMAIN threads, Exit(t)
    PROVE  LoadInv'
  <1> DEFINE j == threads[t].index
  <1>0. PICK new \in Nat : new = Len(threads) + 1
    BY DEF LoadInv, Inv, Typed
  <1>1. /\ DOMAIN threads' = 1 .. new /\ DOMAIN threads = 1 .. Len(threads)
        /\ Len(threads) \in Nat
        /\ \A u \in DOMAIN threads : Tasks(u)' = Tasks(u)
        /\ \A u \in DOMAIN threads : u # t => threads'[u] = threads[u]
        /\ Len(Tasks(new)') = 0
        /\ j \in Indexes
    <2> DEFINE left == [threads[t] EXCEPT !.index = 0]
               rest == [threads EXCEPT ![t] = left]
               none == <<>>
               fresh == [index |-> j, alive |-> TRUE, inbox |-> none, outbox |-> none]
    <2>0. none \in Seq(Nat) /\ Len(none) = 0
      OBVIOUS
    <2>1. threads' = Append(rest, fresh)
      BY DEF Exit, Thread
    <2> HIDE DEF none
    <2>2. threads[t] \in ThreadType /\ j \in Indexes
      <3>1. threads[t] \in ThreadType
        BY DEF LoadInv, Inv, Typed
      <3> QED
        BY <3>1, WorkerAssumption DEF ThreadType, Exit, Indexes
    <2>3. /\ left \in ThreadType
          /\ left.inbox = threads[t].inbox /\ left.outbox = threads[t].outbox
      <3>1. left \in ThreadType
        BY <2>2, LeftThread
      <3>2. left.inbox = threads[t].inbox /\ left.outbox = threads[t].outbox
        BY <2>2 DEF ThreadType
      <3> QED
        BY <3>1, <3>2
    <2>4. fresh \in ThreadType /\ fresh.inbox = none /\ fresh.outbox = none
      BY <2>0, <2>2 DEF ThreadType, Indexes
    <2> HIDE DEF left, fresh
    <2>5. /\ rest \in Seq(ThreadType) /\ Len(rest) = Len(threads)
          /\ \A u \in DOMAIN threads : rest[u] = IF u = t THEN left ELSE threads[u]
          /\ DOMAIN threads = 1 .. Len(threads) /\ Len(threads) \in Nat
      BY <2>3 DEF LoadInv, Inv, Typed
    <2> HIDE DEF rest
    <2>6. /\ \A u \in 1 .. Len(rest) : threads'[u] = rest[u]
          /\ threads'[Len(rest) + 1] = fresh
          /\ DOMAIN threads' = 1 .. Len(rest) + 1
      BY <2>1, <2>4, <2>5, AppendFacts
    <2>7. \A u \in DOMAIN threads : Tasks(u)' = Tasks(u)
      BY <2>3, <2>5, <2>6, SameTasks
    <2>8. Len(Tasks(new)') = 0
      <3>1. threads'[new] = fresh
        BY <1>0, <2>5, <2>6
      <3>2. Tasks(new)' = none \o none
        BY <2>4, <3>1 DEF Tasks
      <3>3. Len(none \o none) = Len(none) + Len(none)
        BY <2>0, ConcatFacts
      <3> QED
        BY <2>0, <3>2, <3>3
    <2> QED
      BY <1>0, <2>2, <2>5, <2>6, <2>7, <2>8
  <1>2. /\ pending' = pending \ Waiting(j) /\ counter' = counter
        /\ workers' = [workers EXCEPT ![j] = new]
        /\ active' = [active EXCEPT ![j] = 0]
    BY <1>0 DEF Exit
  <1> HIDE DEF j
  <1>3. Queued'
    <2> DEFINE d == [u \in DOMAIN threads' |-> 0]
    <2>1. d \in [DOMAIN threads' -> {0, 1}]
      OBVIOUS
    <2>2. ASSUME NEW u \in DOMAIN threads
          PROVE  Shrinks(u, 0)
      <3>1. Len(Tasks(u)) \in Nat
        BY TasksFacts DEF LoadInv, Inv
      <3>2. ASSUME NEW r \in pending', NEW k \in 1 .. Len(Tasks(u)'), r.id = Tasks(u)'[k]
            PROVE  threads'[u].index = threads[u].index
        <4>1. r \in pending /\ r.index # j /\ threads[u].index = r.index
          BY <1>1, <1>2, <3>2 DEF LoadInv, Queued, Waiting
        <4>2. u # t
          BY <4>1 DEF j
        <4> QED
          BY <1>1, <4>2
      <3> QED
        BY <1>1, <3>1, <3>2 DEF Shrinks
    <2>3. \A u \in DOMAIN threads' : Len(Tasks(u)') = 0 \/ Shrinks(u, d[u])
      <3>1. \A u \in DOMAIN threads' : d[u] = 0 /\ (u \in DOMAIN threads \/ u = new)
        BY <1>0, <1>1
      <3> HIDE DEF d
      <3> QED
        BY <1>1, <2>2, <3>1
    <2> HIDE DEF d
    <2>4. pending' \subseteq pending
      BY <1>2
    <2> QED
      BY <1>2, <2>1, <2>3, <2>4, FewerTasks DEF LoadInv, Inv
  <1>4. ASSUME ~ late', NEW i \in Indexes, Running(i)'
        PROVE  CountedAt(i)'
    <2>1. CASE i = j
      <3>1. workers'[i] = new /\ active'[i] = 0
        BY <1>1, <1>2, <2>1 DEF LoadInv, Inv, Typed
      <3>2. Tasks(workers[i])' = Tasks(new)'
        BY <3>1 DEF Tasks
      <3> QED
        BY <1>1, <3>1, <3>2 DEF CountedAt
    <2>2. CASE i # j
      <3>1. workers'[i] = workers[i] /\ active'[i] = active[i]
        BY <1>2, <2>2 DEF LoadInv, Inv, Typed
      <3>2. PICK w \in DOMAIN threads : w = workers[i]
        BY <1>4, <3>1 DEF LoadInv, Inv, Typed, Running
      <3>3. w # t
        BY <2>2, <3>2, <1>4, <3>1 DEF LoadInv, Inv, ThreadsApart, Running, j
      <3>4. Running(i)
        BY <1>1, <1>4, <3>1, <3>2, <3>3 DEF Running
      <3>5. CountedAt(i)
        BY <1>4, <3>4 DEF LoadInv
      <3>6. \A r \in pending : r.index = i => r \in pending'
        BY <1>2, <2>2 DEF Waiting
      <3> QED
        BY <1>1, <3>1, <3>2, <3>5, <3>6, StillCounted
    <2> QED
      BY <2>1, <2>2
  <1> QED
    BY <1>3, <1>4 DEF LoadInv

LEMMA ShutdownLoad ==
    ASSUME LoadInv, Inv', Shutdown
    PROVE  LoadInv'
  <1>1. /\ DOMAIN threads' = DOMAIN threads
        /\ \A u \in DOMAIN threads :
              /\ threads'[u].index = threads[u].index
              /\ Len(Tasks(u)') \in Nat /\ Len(Tasks(u)') <= Len(Tasks(u))
              /\ \A k \in 1 .. Len(Tasks(u)') : Tasks(u)'[k] = Tasks(u)[k]
    <2> DEFINE none == <<>>
               ended(u) == [threads[u] EXCEPT !.alive = FALSE, !.inbox = none]
               inUse(u) == \E i \in Indexes : workers[i] = u
    <2>1. threads' = [u \in DOMAIN threads |-> IF inUse(u) THEN ended(u) ELSE threads[u]]
      BY DEF Shutdown
    <2>2. ASSUME NEW u \in DOMAIN threads
          PROVE  /\ threads'[u].index = threads[u].index
                 /\ Len(Tasks(u)') \in Nat /\ Len(Tasks(u)') <= Len(Tasks(u))
                 /\ \A k \in 1 .. Len(Tasks(u)') : Tasks(u)'[k] = Tasks(u)[k]
      <3> DEFINE out == threads[u].outbox
      <3>1. /\ threads[u] \in ThreadType /\ Len(Tasks(u)) \in Nat
            /\ out \in Seq(Nat) /\ threads[u].inbox \in Seq(Nat)
        BY TasksFacts DEF LoadInv, Inv
      <3>2. /\ Len(out \o none) \in Nat /\ Len(out \o none) <= Len(Tasks(u))
            /\ \A k \in 1 .. Len(out \o none) : (out \o none)[k] = Tasks(u)[k]
        BY <3>1, LostTasks DEF Tasks
      <3> HIDE DEF none
      <3>3. ended(u).index = threads[u].index /\ ended(u).inbox = none /\ ended(u).outbox = out
        BY <3>1 DEF ThreadType
      <3> HIDE DEF ended
      <3>4. CASE inUse(u)
        <4>1. threads'[u] = ended(u)
          BY <2>1, <3>4
        <4>2. Tasks(u)' = out \o none
          BY <3>3, <4>1 DEF Tasks
        <4> QED
          BY <3>2, <3>3, <4>1, <4>2
      <3>5. CASE ~ inUse(u)
        <4>1. threads'[u] = threads[u]
          BY <2>1, <3>5
        <4>2. Tasks(u)' = Tasks(u)
          BY <4>1, SameTasks
        <4> QED
          BY <3>1, <4>1, <4>2
      <3> QED
        BY <3>4, <3>5
    <2> QED
      BY <2>1, <2>2
  <1>2. /\ pending' = pending /\ counter' = counter
        /\ workers' = [i \in Indexes |-> 0]
    BY DEF Shutdown
  <1>3. Queued'
    <2> DEFINE d == [u \in DOMAIN threads' |-> 0]
    <2>1. d \in [DOMAIN threads' -> {0, 1}]
      OBVIOUS
    <2>2. ASSUME NEW u \in DOMAIN threads'
          PROVE  Shrinks(u, 0)
      <3>1. Len(Tasks(u)) \in Nat /\ u \in DOMAIN threads
        BY <1>1, TasksFacts DEF LoadInv, Inv
      <3> QED
        BY <1>1, <3>1 DEF Shrinks
    <2>3. \A u \in DOMAIN threads' : Shrinks(u, d[u])
      BY <2>2
    <2> HIDE DEF d
    <2> QED
      BY <1>2, <2>1, <2>3, FewerTasks DEF LoadInv, Inv
  <1>4. \A i \in Indexes : ~ Running(i)'
    BY <1>2 DEF Running
  <1> QED
    BY <1>3, <1>4 DEF LoadInv

LEMMA TimeoutLoad ==
    ASSUME LoadInv, Inv', late' = TRUE, NEW id \in Requests, Timeout(id)
    PROVE  LoadInv'
  <1>1. /\ threads' = threads /\ counter' = counter
        /\ pending' \subseteq pending
    BY DEF Timeout
  <1>2. \A u : Tasks(u)' = Tasks(u)
    BY <1>1 DEF Tasks
  <1>3. Queued'
    BY <1>1, <1>2 DEF LoadInv, Queued
  <1> QED
    BY <1>3 DEF LoadInv

LEMMA ExecuteLoad ==
    ASSUME LoadInv, Inv', late' = late, Execute
    PROVE  LoadInv'
  <1>1. PICK best \in Indexes, t \in DOMAIN threads :
           best = BestWorker /\ t = workers[best] /\ threads[t].index = best
    <2>1. active \in [Indexes -> Nat]
      BY DEF LoadInv, Inv, Typed
    <2>2. BestWorker \in Indexes
      BY <2>1, BestWorkerFacts
    <2>3. workers[BestWorker] \in DOMAIN threads
      BY <2>2 DEF LoadInv, Inv, Typed, Execute
    <2> QED
      BY <2>2, <2>3 DEF LoadInv, Inv, ThreadsApart, Execute
  <1>2. PICK new \in Nat :
           /\ new = counter + 1 /\ counter' = new
           /\ active' = [active EXCEPT ![best] = @ + 1]
           /\ pending' = pending \cup {[id |-> new, index |-> best]}
           /\ workers' = workers
    BY <1>1 DEF Execute, LoadInv, Inv, Typed
  <1>3. /\ DOMAIN threads' = DOMAIN threads
        /\ threads'[t].index = best /\ threads'[t].alive = threads[t].alive
        /\ \A u \in DOMAIN threads : u # t =>
              threads'[u] = threads[u] /\ Tasks(u)' = Tasks(u)
        /\ Len(Tasks(t)) \in Nat
        /\ \A k \in 1 .. Len(Tasks(t)) : Tasks(t)'[k] = Tasks(t)[k]
        /\ IF threads[t].alive
           THEN Len(Tasks(t)') = Len(Tasks(t)) + 1 /\ Tasks(t)'[Len(Tasks(t)) + 1] = new
           ELSE Len(Tasks(t)') = Len(Tasks(t))
    <2> DEFINE out == threads[t].outbox
               longer == Append(threads[t].inbox, new)
               box == IF threads[t].alive THEN longer ELSE threads[t].inbox
               posted == [threads[t] EXCEPT !.inbox = box]
    <2>1. /\ threads[t] \in ThreadType /\ Len(Tasks(t)) \in Nat
          /\ out \in Seq(Nat) /\ threads[t].inbox \in Seq(Nat)
      BY TasksFacts DEF LoadInv, Inv
    <2>2. threads' = [threads EXCEPT ![t] = posted]
      BY <1>1, <1>2 DEF Execute
    <2>3. /\ Len(out \o longer) = Len(Tasks(t)) + 1
          /\ \A k \in 1 .. Len(Tasks(t)) : (out \o longer)[k] = Tasks(t)[k]
          /\ (out \o longer)[Len(Tasks(t)) + 1] = new
      <3> DEFINE in == threads[t].inbox
      <3>1. Tasks(t) = out \o in
        BY DEF Tasks
      <3>2. /\ Len(out \o Append(in, new)) = Len(out \o in) + 1
            /\ \A k \in 1 .. Len(out \o in) : (out \o Append(in, new))[k] = (out \o in)[k]
            /\ (out \o Append(in, new))[Len(out \o in) + 1] = new
        <4> HIDE DEF out, in
        <4> QED
          BY <2>1, PostedTasks
      <3> HIDE DEF out, in
      <3> QED
        BY <3>1, <3>2, Zenon DEF in
    <2> HIDE DEF longer
    <2>4. /\ posted.index = threads[t].index /\ posted.alive = threads[t].alive
          /\ posted.inbox = box /\ posted.outbox = out
      BY <2>1 DEF ThreadType
    <2> HIDE DEF posted
    <2>5. /\ DOMAIN threads' = DOMAIN threads /\ threads'[t] = posted
          /\ \A u \in DOMAIN threads : u # t => threads'[u] = threads[u]
      BY <2>2 DEF LoadInv, Inv, Typed
    <2>6. Tasks(t)' = out \o box
      BY <2>4, <2>5 DEF Tasks
    <2>7. threads[t].alive => Tasks(t)' = out \o longer
      BY <2>6
    <2>8. ~ threads[t].alive => Tasks(t)' = Tasks(t)
      BY <2>6 DEF Tasks
    <2> QED
      BY ZenonT(60), <1>1, <2>1, <2>3, <2>4, <2>5, <2>7, <2>8, SameTasks
  <1>4. ASSUME NEW u \in DOMAIN threads, NEW k \in 1 .. Len(Tasks(u)')
        PROVE  \/ u = t /\ k = Len(Tasks(t)) + 1 /\ Tasks(u)'[k] = new
               \/ k \in 1 .. Len(Tasks(u)) /\ Tasks(u)'[k] = Tasks(u)[k]
    <2>1. CASE u # t
      BY <1>3, <1>4, <2>1
    <2>2. CASE u = t
      BY <1>3, <1>4, <2>2
    <2> QED
      BY <2>1, <2>2
  <1>5. counter \in Nat /\ \A r \in pending : r.id \in 1 .. counter
    BY BoundAssumption DEF LoadInv, Inv, Typed
  <1>6. \A u \in DOMAIN threads : \A k \in 1 .. Len(Tasks(u)) :
           /\ Tasks(u)[k] \in 1 .. counter
           /\ \A r \in pending : r.id = Tasks(u)[k] => threads[u].index = r.index
    BY DEF LoadInv, Queued
  <1>7. Queued'
    <2>1. ASSUME NEW u \in DOMAIN threads', NEW k \in 1 .. Len(Tasks(u)')
          PROVE  /\ Tasks(u)'[k] \in 1 .. counter'
                 /\ \A r \in pending' : r.id = Tasks(u)'[k] => threads'[u].index = r.index
      <3>0. u \in DOMAIN threads /\ threads'[u].index = threads[u].index
        BY <1>1, <1>3, <2>1
      <3>1. CASE u = t /\ k = Len(Tasks(t)) + 1 /\ Tasks(u)'[k] = new
        <4>1. \A r \in pending' : r.id = new => r.index = best
          BY <1>2, <1>5
        <4> QED
          BY <1>2, <1>3, <1>5, <3>1, <4>1
      <3>2. CASE k \in 1 .. Len(Tasks(u)) /\ Tasks(u)'[k] = Tasks(u)[k]
        <4>1. Tasks(u)[k] \in 1 .. counter
          BY <1>6, <3>0, <3>2
        <4>2. \A r \in pending' : r.id = Tasks(u)[k] => r \in pending
          BY <1>2, <1>5, <4>1
        <4> QED
          BY <1>2, <1>5, <1>6, <3>0, <3>2, <4>1, <4>2
      <3> QED
        BY <1>4, <2>1, <3>0, <3>1, <3>2
    <2>2. ASSUME NEW u \in DOMAIN threads', NEW v \in DOMAIN threads',
                 NEW k \in 1 .. Len(Tasks(u)'), NEW m \in 1 .. Len(Tasks(v)'),
                 Tasks(u)'[k] = Tasks(v)'[m]
          PROVE  u = v /\ k = m
      <3>1. /\ u \in DOMAIN threads /\ v \in DOMAIN threads
            /\ \/ u = t /\ k = Len(Tasks(t)) + 1 /\ Tasks(u)'[k] = new
               \/ k \in 1 .. Len(Tasks(u)) /\ Tasks(u)'[k] = Tasks(u)[k]
            /\ \/ v = t /\ m = Len(Tasks(t)) + 1 /\ Tasks(v)'[m] = new
               \/ m \in 1 .. Len(Tasks(v)) /\ Tasks(v)'[m] = Tasks(v)[m]
        BY <1>3, <1>4, <2>2
      <3>2. \A w \in DOMAIN threads : \A l \in 1 .. Len(Tasks(w)) : Tasks(w)[l] # new
        BY <1>2, <1>5, <1>6
      <3>3. CASE Tasks(u)'[k] = new
        BY <2>2, <3>1, <3>2, <3>3
      <3>4. CASE Tasks(u)'[k] # new
        <4>1. /\ k \in 1 .. Len(Tasks(u)) /\ m \in 1 .. Len(Tasks(v))
              /\ Tasks(u)[k] = Tasks(v)[m]
          BY <2>2, <3>1, <3>4
        <4> QED
          BY <3>1, <4>1 DEF LoadInv, Queued
      <3> QED
        BY <3>3, <3>4
    <2> QED
      BY <2>1, <2>2 DEF Queued
  <1>8. ASSUME ~ late', NEW i \in Indexes, Running(i)'
        PROVE  CountedAt(i)'
    <2>1. PICK w \in DOMAIN threads : w = workers[i]
      BY <1>2, <1>8 DEF LoadInv, Inv, Typed, Running
    <2>2. Running(i)
      BY <1>2, <1>3, <1>8, <2>1 DEF Running
    <2>3. CountedAt(i)
      BY <1>8, <2>2 DEF LoadInv
    <2>4. CASE i = best
      <3>1. w = t /\ threads[t].alive
        BY <1>1, <2>1, <2>2, <2>4 DEF Running
      <3>2. /\ active[i] = Len(Tasks(t))
            /\ \A k \in 1 .. Len(Tasks(t)) :
                  \E r \in pending : r.id = Tasks(t)[k] /\ r.index = i
        BY <2>1, <2>3, <3>1 DEF CountedAt
      <3>3. active'[i] = Len(Tasks(t)')
        BY <1>2, <1>3, <2>4, <3>1, <3>2 DEF LoadInv, Inv, Typed
      <3>4. ASSUME NEW k \in 1 .. Len(Tasks(t)')
            PROVE  \E r \in pending' : r.id = Tasks(t)'[k] /\ r.index = i
        <4>1. CASE Tasks(t)'[k] = new
          <5>1. [id |-> new, index |-> best] \in pending'
            BY <1>2
          <5> QED
            BY <5>1, <4>1, <2>4
        <4>2. CASE k \in 1 .. Len(Tasks(t)) /\ Tasks(t)'[k] = Tasks(t)[k]
          BY <1>2, <3>2, <4>2
        <4> QED
          BY <1>4, <4>1, <4>2
      <3>5. Tasks(workers[i])' = Tasks(t)'
        BY <1>2, <2>1, <3>1 DEF Tasks
      <3> QED
        BY <3>3, <3>4, <3>5 DEF CountedAt
    <2>5. CASE i # best
      <3>1. w # t
        BY <1>1, <2>1, <2>2, <2>5 DEF LoadInv, Inv, ThreadsApart, Running
      <3>2. active'[i] = active[i] /\ Tasks(w)' = Tasks(w) /\ pending \subseteq pending'
        BY <1>2, <1>3, <2>5, <3>1 DEF LoadInv, Inv, Typed
      <3> QED
        BY <1>2, <2>1, <2>3, <3>2, StillCounted
    <2> QED
      BY <2>4, <2>5
  <1> QED
    BY <1>7, <1>8 DEF LoadInv

LateNext == \/ Others /\ late' = late
            \/ Expire /\ late' = TRUE

LEMMA NextLoad == LoadInv /\ [LateNext]_allvars => LoadInv'
  <1> SUFFICES ASSUME LoadInv, [LateNext]_allvars PROVE LoadInv'
    OBVIOUS
  <1>1. Inv'
    <2>1. [Next]_vars
      BY DEF LateNext, Others, Expire, Next, allvars, vars
    <2> QED
      BY <2>1, NextInv DEF LoadInv
  <1>2. CASE Execute /\ late' = late
    BY <1>1, <1>2, ExecuteLoad
  <1>3. ASSUME NEW t \in DOMAIN threads, Serve(t) \/ Crash(t), late' = late
        PROVE  LoadInv'
    BY <1>1, <1>3, WorkLoad, HandleMessageLoad, ExitLoad, CrashLoad DEF Serve
  <1>4. CASE Shutdown
    BY <1>1, <1>4, ShutdownLoad
  <1>5. CASE Expire /\ late' = TRUE
    BY <1>1, <1>5, TimeoutLoad DEF Expire
  <1>6. CASE UNCHANGED allvars
    <2>1. \A u : Tasks(u)' = Tasks(u)
      BY <1>6 DEF Tasks, allvars, vars
    <2>2. Queued'
      BY <1>6, <2>1 DEF LoadInv, Queued, allvars, vars
    <2>3. ASSUME ~ late', NEW i \in Indexes, Running(i)'
          PROVE  CountedAt(i)'
      <3>1. Running(i)
        BY <1>6, <2>3 DEF Running, allvars, vars
      <3>2. PICK w : w = workers[i]
        OBVIOUS
      <3>3. CountedAt(i)
        BY <1>6, <2>3, <3>1 DEF LoadInv, allvars
      <3>4. /\ workers'[i] = w /\ active'[i] = active[i] /\ pending' = pending
        BY <1>6, <3>2 DEF allvars, vars
      <3> QED
        BY <2>1, <3>2, <3>3, <3>4, StillCounted
    <2> QED
      BY <1>1, <2>2, <2>3 DEF LoadInv
  <1> QED
    BY <1>2, <1>3, <1>4, <1>5, <1>6 DEF LateNext, Others

\* A step that makes a request gives it to a worker with no more to do.
LeastBusyStep ==
    \A r \in pending' \ pending : Running(r.index) /\ ~ late =>
       \A i \in {j \in Indexes : Running(j)} : Backlog(r.index) <= Backlog(i)

LEMMA NextLeastBusy == LoadInv /\ [LateNext]_allvars => [LeastBusyStep]_vars
  <1> SUFFICES ASSUME LoadInv, [LateNext]_allvars,
                      NEW r \in pending' \ pending, Running(r.index), ~ late,
                      NEW i \in Indexes, Running(i)
               PROVE  Backlog(r.index) <= Backlog(i)
    BY DEF LeastBusyStep
  <1>1. Execute
    <2>1. ~ (pending' \subseteq pending)
      OBVIOUS
    <2>2. \A t \in DOMAIN threads : ~ Serve(t) /\ ~ Crash(t)
      BY <2>1 DEF Serve, Work, HandleMessage, Exit, Crash
    <2>3. ~ Shutdown /\ ~ Expire
      BY <2>1 DEF Shutdown, Expire, Timeout
    <2>4. ~ UNCHANGED allvars
      BY <2>1 DEF allvars, vars
    <2> QED
      BY <2>2, <2>3, <2>4 DEF LateNext, Others
  <1>2. PICK best \in Indexes : best = BestWorker /\ r.index = best
    <2>1. BestWorker \in Indexes
      BY BestWorkerFacts DEF LoadInv, Inv, Typed
    <2>2. r = [id |-> counter', index |-> BestWorker]
      BY <1>1 DEF Execute
    <2> QED
      BY <2>1, <2>2
  <1>3. ASSUME NEW j \in Indexes, Running(j)
        PROVE  Backlog(j) = active[j] /\ active[j] \in Nat
    <2>1. PICK w \in DOMAIN threads : w = workers[j] /\ w # 0
      BY <1>3, RunningFacts DEF LoadInv, Running
    <2>2. active[j] = Len(Tasks(w))
      BY <1>3, <2>1 DEF LoadInv, CountedAt
    <2>3. Len(Tasks(w)) = Len(threads[w].outbox) + Len(threads[w].inbox)
          /\ threads[w].outbox \in Seq(Nat) /\ threads[w].inbox \in Seq(Nat)
      BY TasksFacts DEF LoadInv, Inv
    <2>4. Len(threads[w].outbox) \in Nat /\ Len(threads[w].inbox) \in Nat
      BY <2>3, SeqFacts
    <2>5. Backlog(j) = Len(threads[w].inbox) + Len(threads[w].outbox)
      BY <2>1 DEF Backlog
    <2> QED
      <3> DEFINE o == Len(threads[w].outbox)
                 n == Len(threads[w].inbox)
      <3>1. active[j] = o + n /\ Backlog(j) = n + o /\ o \in Nat /\ n \in Nat
        BY <2>2, <2>3, <2>4, <2>5, Zenon
      <3> HIDE DEF o, n
      <3> QED
        BY <3>1
  <1>4. active[best] <= active[i]
    <2>1. \A j \in Available : active[BestWorker] <= active[j]
      BY BestWorkerFacts DEF LoadInv, Inv, Typed
    <2> QED
      BY <1>2, <2>1 DEF Available, Running
  <1> QED
    BY <1>2, <1>3, <1>4

-----------------------------------------------------------------------------
\* As long as no timer has gone off, a new request goes to a worker that has no
\* more to do than any other that runs: activeTasks, which execute counts up,
\* a reply counts down and an exit clears, is what the worker has to do.
THEOREM RequestsGoToTheLeastBusy == LateSpec => LeastBusy
  <1>1. LateSpec => []LoadInv
    BY InitLoad, NextLoad, PTL DEF LateSpec, LateNext
  <1> QED
    BY <1>1, NextLeastBusy, PTL DEF LateSpec, LateNext, LeastBusy, LeastBusyStep
====
