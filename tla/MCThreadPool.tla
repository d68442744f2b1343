---------------------------- MODULE MCThreadPool ----------------------------
(***************************************************************************)
(* Instances of ThreadPool for TLC, with a record of whether a request has *)
(* timed out: its worker counts as busy for ever then.                     *)
(***************************************************************************)
EXTENDS ThreadPool

VARIABLE late  \* a timer has gone off
allvars == <<vars, late>>

LateInit == Init /\ late = FALSE

Expire == \E id \in Requests : Timeout(id)
Others == \/ Execute
          \/ \E t \in DOMAIN threads : Serve(t) \/ Crash(t)
          \/ Shutdown

\* A thread per index and one for each crash, and again after a shutdown.
Threads == 1 .. 2 * WorkerCount + MaxCrashes

\* Threads work off their queues, and events are delivered; no timer has to
\* go off.
LateSpec ==
    /\ LateInit
    /\ [][ \/ Others /\ late' = late
           \/ Expire /\ late' = TRUE ]_allvars
    /\ \A t \in Threads : WF_vars(t \in DOMAIN threads /\ Serve(t))

\* Every request made is answered, without the help of its timer.
Answered == \A id \in Requests : counter >= id ~> settled[id] = 1

\* What a worker has still to do.
Backlog(i) ==
    IF workers[i] = 0 THEN 0
    ELSE Len(threads[workers[i]].inbox) + Len(threads[workers[i]].outbox)

Running(i) == workers[i] # 0 /\ threads[workers[i]].alive

\* As long as no request has timed out, a new one goes to a worker that has
\* no more to do than any other that runs.
LeastBusy ==
    [][ \A r \in pending' \ pending : Running(r.index) /\ ~ late =>
            \A i \in {j \in Indexes : Running(j)} :
                Backlog(r.index) <= Backlog(i) ]_vars
=============================================================================
