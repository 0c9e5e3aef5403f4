----------------------------- MODULE JobManager -----------------------------
(***************************************************************************)
(* backend/jobs.py: analysis jobs on a bounded thread pool.                *)
(*                                                                         *)
(* submit() inserts the Job under the manager's lock and hands its work to *)
(* the executor only after releasing it; run() hands over work without a   *)
(* Job record (the synchronous /api/analyze route and cache misses of the  *)
(* dataset routes), whose Future a disconnecting client cancels.  Both     *)
(* share ThreadPoolExecutor's one FIFO queue and its max_workers threads.  *)
(* The retained jobs are a dict in insertion order: here the set of its    *)
(* keys, and the order in which they were inserted.                        *)
(***************************************************************************)
EXTENDS Integers, Sequences, FiniteSets

CONSTANTS
    Job,            \* job ids
    Call,           \* Futures returned by run()
    Worker,         \* the executor's threads: max_workers of them
    MaxRetained,    \* max_retained_jobs
    Idle            \* a worker holding nothing

ASSUME IdsAssumption == Job \cap Call = {} /\ Idle \notin Job \cup Call

ASSUME RetentionAssumption == MaxRetained \in Nat \ {0}

VARIABLES
    retained,   \* the keys of JobManager._jobs
    born,       \* born[j]: j's place in insertion order, 0 before submit()
    inserted,   \* how many jobs have been inserted so far
    status,     \* Job.status; the worker's reference outlives eviction
    handoff,    \* jobs between submit()'s lock and its executor.submit()
    call,       \* state of each Future of run()
    queue,      \* the executor's work queue
    worker,     \* what each thread has taken from it
    begun,      \* the threads past _run's first transition
    closed      \* the executor has been shut down

vars == <<retained, born, inserted, status, handoff, call, queue, worker, begun, closed>>

Item == Job \cup Call

Terminal == {"completed", "failed"}         \* _TERMINAL_STATUSES
Active   == {"queued", "running"}

TypeOK ==
    /\ retained \in SUBSET Job
    /\ born   \in [Job -> Nat]
    /\ inserted \in Nat
    /\ status \in [Job -> {"unborn"} \cup Active \cup Terminal]
    /\ handoff \in SUBSET Job
    /\ call   \in [Call -> {"new", "pending", "running", "cancelled", "done"}]
    /\ queue  \in Seq(Item)
    /\ worker \in [Worker -> Item \cup {Idle}]
    /\ begun  \in SUBSET Worker
    /\ closed \in BOOLEAN

Init ==
    /\ retained = {}
    /\ born   = [j \in Job |-> 0]
    /\ inserted = 0
    /\ status = [j \in Job |-> "unborn"]
    /\ handoff = {}
    /\ call   = [c \in Call |-> "new"]
    /\ queue  = <<>>
    /\ worker = [w \in Worker |-> Idle]
    /\ begun  = {}
    /\ closed = FALSE

-----------------------------------------------------------------------------
\* Mutant: the oldest jobs go, finished or not.
FinishedOrNot(jobs) == {j \in jobs : status[j] # "unborn"}

Finished(jobs) == {j \in jobs : status[j] \in Terminal}

\* Mutant: the excess is counted before the new job is inserted.
IsLateEviction(evicted, jobs) ==
    LET excess == Cardinality(jobs) - MaxRetained - 1
        oldest == Finished(jobs)
    IN  Cardinality(evicted) =
            IF excess <= 0 THEN 0
            ELSE IF excess < Cardinality(oldest) THEN excess
            ELSE Cardinality(oldest)

\* Mutant: over the cap, every finished job goes.
IsPurge(evicted, jobs) ==
    evicted = IF Cardinality(jobs) > MaxRetained THEN Finished(jobs) ELSE {}

\* _evict_finished_locked: the oldest finished jobs, as many as exceed the cap.
\* evicted is the [:excess] prefix of the finished ones in insertion order.
IsEviction(evicted, jobs) ==
    LET excess == Cardinality(jobs) - MaxRetained
        oldest == Finished(jobs)
    IN  /\ Cardinality(evicted) =
              IF excess <= 0 THEN 0
              ELSE IF excess < Cardinality(oldest) THEN excess
              ELSE Cardinality(oldest)
        /\ \A j \in evicted, k \in oldest \ evicted : born[j] < born[k]

\* submit(), its locked part: insert, then evict.
Submit(j) ==
    /\ status[j] = "unborn"
    /\ status' = [status EXCEPT ![j] = "queued"]
    /\ inserted' = inserted + 1
    /\ born'   = [born EXCEPT ![j] = inserted + 1]
    /\ \E evicted \in SUBSET Finished(retained) :
          /\ IsEviction(evicted, retained \cup {j})
          /\ retained' = (retained \cup {j}) \ evicted
    /\ handoff' = handoff \cup {j}
    /\ UNCHANGED <<call, queue, worker, begun, closed>>

\* Mutant: a retried hand-over enqueues the work again.
EnqueueAgain(j) ==
    /\ j \in handoff
    /\ ~closed
    /\ Len(queue) < 2
    /\ handoff' \in {handoff, handoff \ {j}}
    /\ queue' = Append(queue, j)
    /\ UNCHANGED <<retained, born, inserted, status, call, worker, begun, closed>>

\* submit(), after the lock: executor.submit(self._run, job, work).
Enqueue(j) ==
    /\ j \in handoff
    /\ ~closed
    /\ handoff' = handoff \ {j}
    /\ queue' = Append(queue, j)
    /\ UNCHANGED <<retained, born, inserted, status, call, worker, begun, closed>>

\* ... which raises RuntimeError once the executor is shut down: the Job stays
\* in the dict, queued, with nobody to run it.
EnqueueRefused(j) ==
    /\ j \in handoff
    /\ closed
    /\ handoff' = handoff \ {j}
    /\ UNCHANGED <<retained, born, inserted, status, call, queue, worker, begun, closed>>

\* run(): untracked work on the same pool.
Run(c) ==
    /\ call[c] = "new"
    /\ ~closed
    /\ call' = [call EXCEPT ![c] = "pending"]
    /\ queue' = Append(queue, c)
    /\ UNCHANGED <<retained, born, inserted, status, handoff, worker, begun, closed>>

\* Future.cancel() through asyncio.wrap_future: only before a worker takes it.
Cancel(c) ==
    /\ call[c] = "pending"
    /\ call' = [call EXCEPT ![c] = "cancelled"]
    /\ UNCHANGED <<retained, born, inserted, status, handoff, queue, worker, begun, closed>>

\* Mutant: the worker does not ask whether the Future was cancelled.
TakeAnything(w) ==
    /\ worker[w] = Idle
    /\ queue # <<>>
    /\ worker' = [worker EXCEPT ![w] = Head(queue)]
    /\ queue' = Tail(queue)
    /\ UNCHANGED <<retained, born, inserted, status, handoff, call, begun, closed>>

\* A worker takes the head of the queue; set_running_or_notify_cancel() drops a
\* cancelled Future.
Take(w) ==
    /\ worker[w] = Idle
    /\ queue # <<>>
    /\ LET item == Head(queue) IN
         IF item \in Call
         THEN IF call[item] = "cancelled"
              THEN UNCHANGED <<call, worker>>
              ELSE /\ call'   = [call EXCEPT ![item] = "running"]
                   /\ worker' = [worker EXCEPT ![w] = item]
         ELSE /\ worker' = [worker EXCEPT ![w] = item]
              /\ UNCHANGED call
    /\ queue' = Tail(queue)
    /\ UNCHANGED <<retained, born, inserted, status, handoff, begun, closed>>

\* Mutant: _run starts the job under a status nobody else knows.
BeginMisnamed(w) ==
    /\ worker[w] \in Job
    /\ w \notin begun
    /\ status' = [status EXCEPT ![worker[w]] = "started"]
    /\ begun'  = begun \cup {w}
    /\ UNCHANGED <<retained, born, inserted, handoff, call, queue, worker, closed>>

\* _run: _transition(job, JOB_RUNNING) under the lock, then work().
Begin(w) ==
    /\ worker[w] \in Job
    /\ w \notin begun
    /\ status' = [status EXCEPT ![worker[w]] = "running"]
    /\ begun'  = begun \cup {w}
    /\ UNCHANGED <<retained, born, inserted, handoff, call, queue, worker, closed>>

\* Mutant: a finished job removes itself from the dict.
FinishAndForget(w) ==
    /\ worker[w] \in Job
    /\ w \in begun
    /\ status'   = [status EXCEPT ![worker[w]] = "completed"]
    /\ retained' = retained \ {worker[w]}
    /\ worker' = [worker EXCEPT ![w] = Idle]
    /\ begun'  = begun \ {w}
    /\ UNCHANGED <<born, inserted, handoff, call, queue, closed>>

\* work() returned, or raised (a JobError or anything else): the last transition.
Finish(w) ==
    /\ worker[w] \in Job
    /\ w \in begun
    /\ \E outcome \in Terminal : status' = [status EXCEPT ![worker[w]] = outcome]
    /\ worker' = [worker EXCEPT ![w] = Idle]
    /\ begun'  = begun \ {w}
    /\ UNCHANGED <<retained, born, inserted, handoff, call, queue, closed>>

FinishCall(w) ==
    /\ worker[w] \in Call
    /\ call'   = [call EXCEPT ![worker[w]] = "done"]
    /\ worker' = [worker EXCEPT ![w] = Idle]
    /\ UNCHANGED <<retained, born, inserted, status, handoff, queue, begun, closed>>

\* Mutant: shutdown(cancel_futures=True).
ShutdownAndDrop ==
    /\ ~closed
    /\ closed' = TRUE
    /\ queue'  = <<>>
    /\ UNCHANGED <<retained, born, inserted, status, handoff, call, worker, begun>>

\* shutdown(): no new work; what is queued still runs.
Shutdown ==
    /\ ~closed
    /\ closed' = TRUE
    /\ UNCHANGED <<retained, born, inserted, status, handoff, call, queue, worker, begun>>

WorkerStep(w) == Take(w) \/ Begin(w) \/ Finish(w) \/ FinishCall(w)

Next ==
    \/ \E j \in Job : Submit(j) \/ Enqueue(j) \/ EnqueueRefused(j)
    \/ \E c \in Call : Run(c) \/ Cancel(c)
    \/ \E w \in Worker : WorkerStep(w)
    \/ Shutdown

Spec == Init /\ [][Next]_vars

\* Threads are scheduled: a handler returns from submit(), a worker with work
\* makes progress, and work() terminates.
FairSpec ==
    /\ Spec
    /\ \A j \in Job : WF_vars(Enqueue(j) \/ EnqueueRefused(j))
    /\ \A w \in Worker : WF_vars(WorkerStep(w))

-----------------------------------------------------------------------------
(* Properties.                                                             *)

InQueue(x)  == \E i \in DOMAIN queue : queue[i] = x
OnWorker(x) == \E w \in Worker : worker[w] = x

\* Work is in one place at a time - with the handler that submits it, at one
\* place of the queue, or with one worker - from its submission until it ends,
\* and nowhere before or after; the exception is a job refused by a closed
\* executor.
SinglePlace ==
    /\ \A i, k \in DOMAIN queue : queue[i] = queue[k] => i = k
    /\ \A v, w \in Worker : worker[v] = worker[w] /\ worker[v] # Idle => v = w
    /\ \A x \in Item : ~(InQueue(x) /\ OnWorker(x))
    /\ \A j \in Job :
          /\ j \in handoff => ~InQueue(j) /\ ~OnWorker(j)
          /\ j \in handoff \/ InQueue(j) => status[j] = "queued"
          /\ OnWorker(j) => status[j] \in Active
          /\ status[j] = "queued" => j \in handoff \/ InQueue(j) \/ OnWorker(j) \/ closed
          /\ status[j] = "running" => \E w \in begun : worker[w] = j

\* No job runs twice and none is dropped; and no worker holds a Future that was
\* cancelled, however late (the contract run() documents).
OneHolder ==
    /\ SinglePlace
    /\ \A w \in Worker : worker[w] \in Call => call[worker[w]] = "running"

\* A client polling a job that is still to finish is never told it does not
\* exist ("Queued/running jobs are never evicted", _evict_finished_locked).
ActiveJobsRetained ==
    \A j \in Job : status[j] \in Active => j \in retained

\* A submission leaves at most max_retained_jobs in memory, or active jobs only:
\* finished jobs cannot pile up past the cap.
RetentionBounded ==
    [][\A j \in Job : status[j] = "unborn" /\ status'[j] # "unborn" =>
          \/ Cardinality(retained') <= MaxRetained
          \/ \A k \in retained' : status'[k] \in Active]_vars

\* A result is dropped only to make room: whenever one is, the dict is full, and
\* every finished job left in it was submitted later.
ResultsKeptWhileRoom ==
    [][\A j \in retained \ retained' :
          /\ Cardinality(retained') >= MaxRetained
          /\ \A k \in retained' : status[k] \in Terminal => born[j] < born[k]]_vars

\* What is kept is what the cap asks for, and no less: however jobs overtake each
\* other, eviction neither stops short nor takes a result there is room for.
EvictionIsExact == RetentionBounded /\ ResultsKeptWhileRoom

\* Work the executor has accepted finishes, a shutdown notwithstanding: nothing
\* ahead of it in the queue can hold the pool for ever.
EnqueuedJobFinishes ==
    \A j \in Job : InQueue(j) ~> status[j] \in Terminal

\* get() for the job's owner; anyone else is answered as for an unknown id.
Get(j) ==
    IF j \in retained THEN status[j]
    ELSE IF status[j] = "unborn" THEN "unborn" ELSE "forgotten"

\* What polls observe is a JobLedger: forward only, forgotten only when finished.
Ledger == INSTANCE JobLedger WITH seen <- [j \in Job |-> Get(j)]

ImplementsLedger == Ledger!Spec
=============================================================================
