----------------------------- MODULE ThreadPool -----------------------------
(***************************************************************************)
(* The worker pool of src/modules/ThreadPool.js and the message loop of    *)
(* src/SawitWorker.js.  execute() gives a request to the worker with the   *)
(* lowest activeTasks and keeps a promise for it in pendingRequests; a     *)
(* reply, a timer or the exit of the worker settles it.  A thread takes    *)
(* its messages in order; its replies arrive in order and before its exit  *)
(* event.  A message posted to a thread that has ended is lost.            *)
(***************************************************************************)
EXTENDS Naturals, Sequences, FiniteSets, SequencesExt

CONSTANTS WorkerCount,   \* workerCount
          MaxRequests,   \* bound on the requests made
          MaxCrashes     \* bound on the workers that crash

ASSUME WorkerAssumption == WorkerCount \in Nat \ {0}
ASSUME BoundAssumption == MaxRequests \in Nat /\ MaxCrashes \in Nat

Indexes == 1 .. WorkerCount

VARIABLES workers,  \* this.workers: index -> its thread, 0 for none
          active,   \* this.activeTasks
          pending,  \* this.pendingRequests: [id, index] of each promise
          counter,  \* this.requestIdCounter
          threads,  \* the threads ever spawned, with their message queues
          settled,  \* id -> how often its promise was settled
          stopped   \* shutdown() was called
vars == <<workers, active, pending, counter, threads, settled, stopped>>

Thread(index) == [index |-> index, alive |-> TRUE, inbox |-> <<>>,
                  outbox |-> <<>>]

Requests == 1 .. MaxRequests

Init ==
    /\ workers = [i \in Indexes |-> i]
    /\ threads = [i \in Indexes |-> Thread(i)]
    /\ active = [i \in Indexes |-> 0]
    /\ pending = {}
    /\ counter = 0
    /\ settled = [id \in Requests |-> 0]
    /\ stopped = FALSE

\* The promises of the requests in ids are resolved or rejected.
Settle(ids) ==
    settled' = [id \in Requests |-> settled[id] + IF id \in ids THEN 1 ELSE 0]

Waiting(index) == {r \in pending : r.index = index}

\* _getBestWorker: the first of the workers with the lowest count; the first
\* of all when there is none.
Available == {i \in Indexes : workers[i] # 0}
BestWorker ==
    IF Available = {} THEN 1
    ELSE CHOOSE i \in Available :
            \A j \in Available : \/ active[i] < active[j]
                                 \/ active[i] = active[j] /\ i <= j

\* Mutated form of Execute: the load is counted when the reply is there.
ExecuteUncounted ==
    /\ counter < MaxRequests
    /\ workers[BestWorker] # 0
    /\ counter' = counter + 1
    /\ pending' = pending \cup {[id |-> counter', index |-> BestWorker]}
    /\ threads' = [threads EXCEPT ![workers[BestWorker]].inbox =
                     IF threads[workers[BestWorker]].alive
                     THEN Append(@, counter') ELSE @]
    /\ UNCHANGED <<workers, active, settled, stopped>>

\* execute(): postMessage to a thread that has ended does nothing.
Execute ==
    /\ counter < MaxRequests
    /\ workers[BestWorker] # 0
    /\ counter' = counter + 1
    /\ active' = [active EXCEPT ![BestWorker] = @ + 1]
    /\ pending' = pending \cup {[id |-> counter', index |-> BestWorker]}
    /\ threads' = [threads EXCEPT ![workers[BestWorker]].inbox =
                     IF threads[workers[BestWorker]].alive
                     THEN Append(@, counter') ELSE @]
    /\ UNCHANGED <<workers, settled, stopped>>

\* The timer of a request that still waits: the count is left alone.
Timeout(id) ==
    /\ \E r \in pending : r.id = id /\ pending' = pending \ {r}
    /\ Settle({id})
    /\ UNCHANGED <<workers, active, counter, threads, stopped>>

\* A worker executes its oldest task and posts the reply.
Work(t) ==
    /\ threads[t].alive
    /\ threads[t].inbox # <<>>
    /\ threads' = [threads EXCEPT ![t].inbox = Tail(@),
                                  ![t].outbox = Append(@, Head(threads[t].inbox))]
    /\ UNCHANGED <<workers, active, pending, counter, settled, stopped>>

\* Mutated form of HandleMessage: the promise is settled and kept.
HandleMessageKept(t) ==
    /\ threads[t].outbox # <<>>
    /\ threads' = [threads EXCEPT ![t].outbox = Tail(@)]
    /\ LET found == {r \in pending : r.id = Head(threads[t].outbox)}
       IN /\ active' = [i \in Indexes |->
                          IF active[i] > 0 /\ \E r \in found : r.index = i
                          THEN active[i] - 1 ELSE active[i]]
          /\ Settle({r.id : r \in found})
    /\ UNCHANGED <<workers, pending, counter, stopped>>

\* _handleMessage: a reply nobody waits for is dropped.
HandleMessage(t) ==
    /\ threads[t].outbox # <<>>
    /\ threads' = [threads EXCEPT ![t].outbox = Tail(@)]
    /\ LET found == {r \in pending : r.id = Head(threads[t].outbox)}
       IN /\ pending' = pending \ found
          /\ active' = [i \in Indexes |->
                          IF active[i] > 0 /\ \E r \in found : r.index = i
                          THEN active[i] - 1 ELSE active[i]]
          /\ Settle({r.id : r \in found})
    /\ UNCHANGED <<workers, counter, stopped>>

Ended == {t \in DOMAIN threads : ~ threads[t].alive}

\* A thread crashes; its tasks are gone.
Crash(t) ==
    /\ threads[t].alive
    /\ Cardinality(Ended) < MaxCrashes
    /\ threads' = [threads EXCEPT ![t].alive = FALSE, ![t].inbox = <<>>]
    /\ UNCHANGED <<workers, active, pending, counter, settled, stopped>>

\* Mutated form of Exit: the tasks of the dead worker are not cleaned up.
ExitNoCleanup(t) ==
    /\ ~ threads[t].alive
    /\ threads[t].outbox = <<>>
    /\ threads[t].index # 0
    /\ LET i == threads[t].index
       IN /\ active' = [active EXCEPT ![i] = 0]
          /\ workers' = [workers EXCEPT ![i] = Len(threads) + 1]
          /\ threads' = Append([threads EXCEPT ![t].index = 0], Thread(i))
    /\ UNCHANGED <<pending, counter, settled, stopped>>

\* The exit event of a thread, with a code that is not 0: _cleanupTasks
\* rejects what waits for its index, and the worker is spawned again.
Exit(t) ==
    /\ ~ threads[t].alive
    /\ threads[t].outbox = <<>>
    /\ threads[t].index # 0
    /\ LET i == threads[t].index
       IN /\ pending' = pending \ Waiting(i)
          /\ Settle({r.id : r \in Waiting(i)})
          /\ active' = [active EXCEPT ![i] = 0]
          /\ workers' = [workers EXCEPT ![i] = Len(threads) + 1]
          /\ threads' = Append([threads EXCEPT ![t].index = 0], Thread(i))
    /\ UNCHANGED <<counter, stopped>>

\* shutdown(): terminate() ends a thread with exit code 1.
Shutdown ==
    /\ ~ stopped
    /\ stopped' = TRUE
    /\ threads' = [t \in DOMAIN threads |->
                     IF \E i \in Indexes : workers[i] = t
                     THEN [threads[t] EXCEPT !.alive = FALSE, !.inbox = <<>>]
                     ELSE threads[t]]
    /\ workers' = [i \in Indexes |-> 0]
    /\ UNCHANGED <<active, pending, counter, settled>>

Serve(t) == Work(t) \/ HandleMessage(t) \/ Exit(t)

Next ==
    \/ Execute
    \/ \E id \in Requests : Timeout(id)
    \/ \E t \in DOMAIN threads : Serve(t) \/ Crash(t)
    \/ Shutdown

Spec == Init /\ [][Next]_vars

-----------------------------------------------------------------------------
(* What must hold.                                                         *)

\* The fields have their types; an index in use names a thread of its own,
\* and pendingRequests holds one promise for an id, of a request made.
TypeOK ==
    /\ workers \in [Indexes -> 0 .. Len(threads)]
    /\ active \in [Indexes -> 0 .. MaxRequests]
    /\ \A r \in pending : r.id \in 1 .. counter /\ r.index \in Indexes
    /\ \A r, q \in pending : r.id = q.id => r = q
    /\ \A i \in Indexes : workers[i] # 0 => threads[workers[i]].index = i
    /\ \A t, u \in DOMAIN threads :
          threads[t].index = threads[u].index /\ threads[t].index # 0 => t = u

\* A promise is settled exactly once, when it leaves pendingRequests: by a
\* reply, a timer or a crash, whichever is first, of the thread that its index
\* stands for.
SettledOnce ==
    TypeOK /\ \A id \in Requests :
        settled[id] = IF id <= counter /\ ~ \E r \in pending : r.id = id
                      THEN 1 ELSE 0
=============================================================================
