------------------------------ MODULE JobQueue ------------------------------
(***************************************************************************)
(* The job queue of infrastructure/queue.py between the API, which         *)
(* enqueues smoke jobs and answers for their results (delivery/routes.py), *)
(* and the workers that run delivery/worker.py.                            *)
(*                                                                         *)
(* With "redis" all processes share one list and its result keys; with     *)
(* "memory" each process has a queue of its own that ends with it.  The    *)
(* list gives a job to one worker and forgets it before it is processed,   *)
(* so a worker that dies, or an answer of Redis that is lost, loses the    *)
(* job: "lost" remembers those, and the properties say there are no others.*)
(***************************************************************************)
EXTENDS Naturals, Sequences, FiniteSets

CONSTANTS
  Jobs,        \* job ids; the API makes a new one for each request
  Smoke,       \* jobs of the kind process_job supports
  Workers,     \* worker processes
  MaxFaults    \* bound on lost answers of Redis, dead workers and stops

ASSUME QueueAssumption ==
  /\ Smoke \subseteq Jobs
  /\ "api" \notin Workers
  /\ "redis" \notin Workers \cup {"api"}
  /\ MaxFaults \in Nat

VARIABLES
  backend,     \* settings.queue_provider
  queue,       \* the jobs that wait, by the place that keeps them
  results,     \* the jobs with a stored result, by place
  told,        \* what the API has told of each job
  workerPc,    \* where the loop of each worker is
  held,        \* the job each worker holds
  handled,     \* jobs whose result was ever stored
  ignored,     \* jobs of another kind that a worker has dropped
  lost,        \* jobs lost with a worker or an answer
  faults       \* faults so far

queueVars == <<backend, queue, results, told, workerPc, held, handled, ignored, lost, faults>>

-----------------------------------------------------------------------------

\* The processes, and where the queue of each is kept.
Processes == Workers \cup {"api"}
Places == Processes \cup {"redis"}
Place(p) == IF backend = "redis" THEN "redis" ELSE p

Waits(j) == \E p \in Places : \E i \in 1 .. Len(queue[p]) : queue[p][i] = j

QueueTypeOK ==
  /\ backend \in {"redis", "memory"}
  /\ queue \in [Places -> Seq(Jobs)]
  /\ results \in [Places -> SUBSET Jobs]
  /\ told \in [Jobs -> {"nothing", "queued", "error"}]
  /\ workerPc \in [Workers -> {"loop", "dequeue", "process", "stopped"}]
  /\ held \in [Workers -> SUBSET Jobs]
  /\ handled \subseteq Jobs
  /\ ignored \subseteq Jobs
  /\ lost \subseteq Jobs
  /\ faults \in 0 .. MaxFaults

QueueInit ==
  /\ backend \in {"redis", "memory"}
  /\ queue = [p \in Places |-> <<>>]
  /\ results = [p \in Places |-> {}]
  /\ told = [j \in Jobs |-> "nothing"]
  /\ workerPc = [w \in Workers |-> "loop"]
  /\ held = [w \in Workers |-> {}]
  /\ handled = {}
  /\ ignored = {}
  /\ lost = {}
  /\ faults = 0

\* Another fault.
Fault == faults < MaxFaults /\ faults' = faults + 1

-----------------------------------------------------------------------------
(* The API *)

\* enqueue_smoke: RPUSH, then the job view says "queued".
Enqueue(j) ==
  /\ told[j] = "nothing"
  /\ queue' = [queue EXCEPT ![Place("api")] = Append(@, j)]
  /\ told' = [told EXCEPT ![j] = "queued"]
  /\ UNCHANGED <<backend, results, workerPc, held, handled, ignored, lost, faults>>

\* Redis does not answer: the request fails, and the job may be in the list.
EnqueueFails(j) ==
  /\ backend = "redis"
  /\ told[j] = "nothing"
  /\ Fault
  /\ \/ queue' = queue
     \/ queue' = [queue EXCEPT ![Place("api")] = Append(@, j)]
  /\ told' = [told EXCEPT ![j] = "error"]
  /\ UNCHANGED <<backend, results, workerPc, held, handled, ignored, lost>>

\* Mutant of JobView: the API looks where it would keep results itself.
OwnJobView(j) == IF j \in results["api"] THEN "completed" ELSE "pending"

\* job_result: pending until there is a result, and again when it is gone.
JobView(j) == IF j \in results[Place("api")] THEN "completed" ELSE "pending"

-----------------------------------------------------------------------------
(* The workers *)

\* The head of the loop: stop_event ends it, and only here.
Loop(w) ==
  /\ workerPc[w] = "loop"
  /\ workerPc' = [workerPc EXCEPT ![w] = "dequeue"]
  /\ UNCHANGED <<backend, queue, results, told, held, handled, ignored, lost, faults>>

\* Mutant of StopsAt: a signal ends a worker that has a job.
AnyTime == {"loop", "process"}

StopsAt == {"loop"}

Stop(w) ==
  /\ workerPc[w] \in StopsAt
  /\ Fault
  /\ workerPc' = [workerPc EXCEPT ![w] = "stopped"]
  /\ UNCHANGED <<backend, queue, results, told, held, handled, ignored, lost>>

\* BLPOP takes the job out of the list; a memory queue does likewise.
Remaining(p) == Tail(queue[p])

Dequeue(w) ==
  LET p == Place(w)
  IN /\ workerPc[w] = "dequeue"
     /\ queue[p] # <<>>
     /\ queue' = [queue EXCEPT ![p] = Remaining(p)]
     /\ held' = [held EXCEPT ![w] = {Head(queue[p])}]
     /\ workerPc' = [workerPc EXCEPT ![w] = "process"]
     /\ UNCHANGED <<backend, results, told, handled, ignored, lost, faults>>

\* The timeout ends with no job and the loop goes on.
DequeueTimesOut(w) ==
  /\ workerPc[w] = "dequeue"
  /\ queue[Place(w)] = <<>>
  /\ workerPc' = [workerPc EXCEPT ![w] = "loop"]
  /\ UNCHANGED <<backend, queue, results, told, held, handled, ignored, lost, faults>>

\* The connection breaks, before the pop or between the pop and its answer.
DequeueFails(w) ==
  LET p == Place(w)
  IN /\ backend = "redis"
     /\ workerPc[w] = "dequeue"
     /\ Fault
     /\ \/ UNCHANGED <<queue, lost>>
        \/ /\ queue[p] # <<>>
           /\ queue' = [queue EXCEPT ![p] = Remaining(p)]
           /\ lost' = lost \cup {Head(queue[p])}
     /\ workerPc' = [workerPc EXCEPT ![w] = "loop"]
     /\ UNCHANGED <<backend, results, told, held, handled, ignored>>

\* process_job, a supported kind: complete stores the result, if none is.
Complete(w) ==
  /\ workerPc[w] = "process"
  /\ held[w] \subseteq Smoke
  /\ results' = [results EXCEPT ![Place(w)] = @ \cup held[w]]
  /\ handled' = handled \cup held[w]
  /\ held' = [held EXCEPT ![w] = {}]
  /\ workerPc' = [workerPc EXCEPT ![w] = "loop"]
  /\ UNCHANGED <<backend, queue, told, ignored, lost, faults>>

\* process_job, any other kind: logged and forgotten.
Ignore(w) ==
  /\ workerPc[w] = "process"
  /\ ~held[w] \subseteq Smoke
  /\ ignored' = ignored \cup held[w]
  /\ held' = [held EXCEPT ![w] = {}]
  /\ workerPc' = [workerPc EXCEPT ![w] = "loop"]
  /\ UNCHANGED <<backend, queue, results, told, handled, lost, faults>>

\* complete raises: the loop logs job_failed and goes on without the job.
CompleteFails(w) ==
  /\ backend = "redis"
  /\ workerPc[w] = "process"
  /\ Fault
  /\ \/ UNCHANGED <<results, handled>>
     \/ /\ held[w] \subseteq Smoke
        /\ results' = [results EXCEPT ![Place(w)] = @ \cup held[w]]
        /\ handled' = handled \cup held[w]
  /\ lost' = lost \cup held[w]
  /\ held' = [held EXCEPT ![w] = {}]
  /\ workerPc' = [workerPc EXCEPT ![w] = "loop"]
  /\ UNCHANGED <<backend, queue, told, ignored>>

\* The process dies with the job it holds, and with a queue of its own.
Die(w) ==
  /\ workerPc[w] # "stopped"
  /\ Fault
  /\ lost' = lost \cup held[w]
  /\ held' = [held EXCEPT ![w] = {}]
  /\ queue' = [queue EXCEPT ![w] = <<>>]
  /\ results' = [results EXCEPT ![w] = {}]
  /\ workerPc' = [workerPc EXCEPT ![w] = "stopped"]
  /\ UNCHANGED <<backend, told, handled, ignored>>

\* A new process takes its place.
Restart(w) ==
  /\ workerPc[w] = "stopped"
  /\ workerPc' = [workerPc EXCEPT ![w] = "loop"]
  /\ UNCHANGED <<backend, queue, results, told, held, handled, ignored, lost, faults>>

\* The result key expires an hour after it was set.
ResultExpires(j) ==
  /\ backend = "redis"
  /\ j \in results["redis"]
  /\ results' = [results EXCEPT !["redis"] = @ \ {j}]
  /\ UNCHANGED <<backend, queue, told, workerPc, held, handled, ignored, lost, faults>>

Work(w) == Loop(w) \/ Dequeue(w) \/ DequeueTimesOut(w) \/ Complete(w) \/ Ignore(w)

QueueNext ==
  \/ \E j \in Jobs : Enqueue(j) \/ EnqueueFails(j) \/ ResultExpires(j)
  \/ \E w \in Workers :
       Work(w) \/ Stop(w) \/ DequeueFails(w) \/ CompleteFails(w) \/ Die(w) \/ Restart(w)

\* The loop of a running worker goes on, and a worker that has stopped is
\* started again: the event loop and the service supervisor see to it.
QueueFairness ==
  \A w \in Workers : WF_queueVars(Work(w)) /\ WF_queueVars(Restart(w))

QueueSpec == QueueInit /\ [][QueueNext]_queueVars

-----------------------------------------------------------------------------
(* Properties *)

\* No accepted job disappears without a fault: it waits, is held by a worker
\* that runs, was handled or ignored, or a fault has taken it.  A worker told
\* to stop must finish the job it has taken out of the list.
NoJobVanishes ==
  \A j \in Jobs :
    told[j] = "queued" =>
      \/ Waits(j)
      \/ \E w \in Workers : j \in held[w] /\ workerPc[w] = "process"
      \/ j \in handled \cup ignored \cup lost

\* A job is taken once, by whichever worker: what waits is not held, handled,
\* ignored or lost, waits once, and no two workers hold it.
TakenOnce ==
  /\ \A j \in Jobs : Waits(j) => /\ j \notin handled \cup ignored \cup lost
                                 /\ \A w \in Workers : j \notin held[w]
  /\ \A v, w \in Workers : v # w => held[v] \cap held[w] = {}

\* With the shared queue every accepted job comes to a point where its view
\* says completed, unless no worker supports it or a fault has taken it; an
\* hour later the view is pending again.
JobsSettle ==
  \A j \in Jobs :
    (backend = "redis" /\ told[j] = "queued" /\ j \notin handled) ~>
      (JobView(j) = "completed" \/ j \in ignored \cup lost)
=============================================================================
