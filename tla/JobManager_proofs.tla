--------------------------- MODULE JobManager_proofs ---------------------------
(***************************************************************************)
(* Proofs about JobManager, for any jobs, calls and workers and any        *)
(* retention cap: types, the single holder of every piece of work, the     *)
(* retention rules and the implementation of JobLedger.                    *)
(***************************************************************************)
EXTENDS JobManager, FiniteSetTheorems, SequenceTheorems, TLAPS

-----------------------------------------------------------------------------
(* The inductive invariant.                                                *)

\* A worker that has begun runs a job, one that has not holds a queued one, and
\* a call on a worker is running.
WorkerInv ==
    \A w \in Worker :
        /\ w \in begun => worker[w] \in Job /\ status[worker[w]] = "running"
        /\ worker[w] \in Job /\ w \notin begun => status[worker[w]] = "queued"
        /\ worker[w] \in Call => call[worker[w]] = "running"

\* A Future waits in the queue until a worker takes it, cancelled or not.
CallInv == \A c \in Call : InQueue(c) => call[c] \in {"pending", "cancelled"}

\* The dict holds finitely many jobs, all of them submitted.
DictInv ==
    /\ IsFiniteSet(retained)
    /\ \A j \in retained : status[j] # "unborn"

IInv ==
    /\ TypeOK
    /\ SinglePlace
    /\ ActiveJobsRetained
    /\ WorkerInv
    /\ CallInv
    /\ DictInv

-----------------------------------------------------------------------------
(* The queue.                                                              *)

\* Appending puts the new item at the end and moves nothing.
LEMMA AppendFacts ==
    ASSUME NEW S, NEW q \in Seq(S), NEW x \in S
    PROVE  /\ Append(q, x) \in Seq(S)
           /\ DOMAIN Append(q, x) = 1 .. Len(q) + 1
           /\ Append(q, x)[Len(q) + 1] = x
           /\ \A i \in 1 .. Len(q) : Append(q, x)[i] = q[i]
           /\ DOMAIN q = 1 .. Len(q)
           /\ Len(q) \in Nat
OBVIOUS

\* Taking the head moves everything else one place forward.
LEMMA TailFacts ==
    ASSUME NEW S, NEW q \in Seq(S), q # <<>>
    PROVE  /\ Tail(q) \in Seq(S)
           /\ Head(q) = q[1]
           /\ 1 \in DOMAIN q
           /\ DOMAIN q = 1 .. Len(q)
           /\ DOMAIN Tail(q) = 1 .. Len(q) - 1
           /\ \A i \in DOMAIN Tail(q) : i + 1 \in DOMAIN q /\ Tail(q)[i] = q[i + 1]
           /\ Len(q) \in Nat \ {0}
BY HeadTailProperties, EmptySeq

Unique == \A i, k \in DOMAIN queue : queue[i] = queue[k] => i = k

\* An item that was not waiting and is appended now waits, at one place.
LEMMA EnqueueQueue ==
    ASSUME queue \in Seq(Item), Unique, NEW x \in Item, ~InQueue(x), queue' = Append(queue, x)
    PROVE  /\ queue' \in Seq(Item)
           /\ Unique'
           /\ \A y \in Item : InQueue(y)' <=> InQueue(y) \/ y = x
<1> DEFINE q == queue
<1> DEFINE p == Append(q, x)
<1>1. /\ p \in Seq(Item)
      /\ DOMAIN p = 1 .. Len(q) + 1
      /\ p[Len(q) + 1] = x
      /\ \A i \in 1 .. Len(q) : p[i] = q[i]
      /\ DOMAIN q = 1 .. Len(q)
      /\ Len(q) \in Nat
  BY AppendFacts
<1>2. \A i, k \in DOMAIN q : q[i] = q[k] => i = k
  BY DEF Unique
<1>3. \A i \in DOMAIN q : q[i] # x
  BY DEF InQueue
<1> HIDE DEF p
<1>4. \A i, k \in DOMAIN p : p[i] = p[k] => i = k
  BY <1>1, <1>2, <1>3
<1>5. \A y \in Item : (\E i \in DOMAIN p : p[i] = y) <=> (\E i \in DOMAIN q : q[i] = y) \/ y = x
  BY <1>1
<1>6. queue' = p
  BY DEF p
<1> QED  BY <1>1, <1>4, <1>5, <1>6 DEF Unique, InQueue

\* The item taken was waiting, does not wait any more, and is the only one.
LEMMA DequeueQueue ==
    ASSUME queue \in Seq(Item), Unique, queue # <<>>, queue' = Tail(queue)
    PROVE  /\ queue' \in Seq(Item)
           /\ Unique'
           /\ Head(queue) \in Item /\ InQueue(Head(queue))
           /\ \A y \in Item : InQueue(y)' <=> InQueue(y) /\ y # Head(queue)
<1> DEFINE q == queue
<1> DEFINE t == Tail(q)
<1>1. /\ t \in Seq(Item)
      /\ Head(q) = q[1] /\ Head(q) \in Item
      /\ 1 \in DOMAIN q
      /\ DOMAIN q = 1 .. Len(q)
      /\ DOMAIN t = 1 .. Len(q) - 1
      /\ \A i \in DOMAIN t : i + 1 \in DOMAIN q /\ t[i] = q[i + 1]
      /\ Len(q) \in Nat \ {0}
  BY TailFacts, HeadTailProperties
<1>2. \A i, k \in DOMAIN q : q[i] = q[k] => i = k
  BY DEF Unique
<1> HIDE DEF t
<1>3. \A i, k \in DOMAIN t : t[i] = t[k] => i = k
  BY <1>1, <1>2
<1>4. ASSUME NEW y \in Item
      PROVE  (\E i \in DOMAIN t : t[i] = y) <=> (\E i \in DOMAIN q : q[i] = y) /\ y # Head(q)
  <2>1. ASSUME NEW i \in DOMAIN t, t[i] = y
        PROVE  (\E k \in DOMAIN q : q[k] = y) /\ y # Head(q)
    BY <1>1, <1>2, <2>1
  <2>2. ASSUME NEW i \in DOMAIN q, q[i] = y, y # Head(q)
        PROVE  \E k \in DOMAIN t : t[k] = y
    <3>1. i # 1
      BY <1>1, <2>2
    <3>2. i - 1 \in DOMAIN t /\ t[i - 1] = y
      BY <1>1, <2>2, <3>1
    <3> QED  BY <3>2
  <2> QED  BY <2>1, <2>2
<1>5. queue' = t
  BY DEF t
<1> QED  BY <1>1, <1>3, <1>4, <1>5 DEF Unique, InQueue

-----------------------------------------------------------------------------
\* The invariant holds before the first job.
LEMMA InitIInv == Init => IInv
<1> SUFFICES ASSUME Init PROVE IInv
  OBVIOUS
<1>1. TypeOK
  BY EmptySeq DEF Init, TypeOK
<1>2. \A x \in Item : ~InQueue(x) /\ ~OnWorker(x)
  BY IdsAssumption, EmptySeq DEF Init, InQueue, OnWorker, Item
<1>3. SinglePlace /\ WorkerInv /\ CallInv /\ ActiveJobsRetained
  BY <1>2, IdsAssumption DEF Init, SinglePlace, WorkerInv, CallInv, ActiveJobsRetained, Active, Item
<1>4. DictInv
  BY FS_EmptySet DEF Init, DictInv
<1> QED  BY <1>1, <1>3, <1>4 DEF IInv

\* An eviction takes finished jobs of the dict, so what it leaves is in order.
LEMMA SubmitIInv ==
    ASSUME IInv, NEW j \in Job, Submit(j)
    PROVE  IInv'
<1> USE DEF IInv
<1>1. PICK evicted \in SUBSET Finished(retained) : retained' = (retained \cup {j}) \ evicted
  BY DEF Submit
<1>2. /\ \A k \in evicted : k \in retained /\ status[k] \in Terminal
      /\ j \notin evicted
  BY <1>1 DEF Submit, Finished, Terminal
<1>3. \A x \in Item : /\ InQueue(x)' <=> InQueue(x)
                      /\ OnWorker(x)' <=> OnWorker(x)
  BY DEF Submit, InQueue, OnWorker
<1>4. ~InQueue(j) /\ ~OnWorker(j) /\ j \notin handoff
  BY DEF Submit, SinglePlace, Active
<1>5. TypeOK'
  BY <1>1 DEF Submit, TypeOK, Active
<1>6. SinglePlace'
  BY <1>3, <1>4 DEF Submit, SinglePlace, TypeOK, Active, Item
<1>7. ActiveJobsRetained'
  BY <1>1, <1>2 DEF Submit, ActiveJobsRetained, TypeOK, Active, Terminal
<1>8. WorkerInv'
  BY <1>4 DEF Submit, WorkerInv, TypeOK, OnWorker
<1>9. CallInv'
  BY <1>3 DEF Submit, CallInv, Item
<1>10. DictInv'
  <2>1. IsFiniteSet(retained \cup {j})
    BY FS_AddElement DEF DictInv
  <2>2. IsFiniteSet(retained')
    BY <1>1, <2>1, FS_Subset
  <2> QED  BY <1>1, <2>2 DEF Submit, DictInv, TypeOK
<1> QED  BY <1>5, <1>6, <1>7, <1>8, <1>9, <1>10

\* The hand-over to the executor keeps the invariant.
LEMMA EnqueueIInv ==
    ASSUME IInv, NEW j \in Job, Enqueue(j) \/ EnqueueRefused(j)
    PROVE  IInv'
<1> USE DEF IInv
<1>1. CASE Enqueue(j)
  <2>1. ~InQueue(j) /\ ~OnWorker(j) /\ status[j] = "queued"
    BY <1>1 DEF Enqueue, SinglePlace
  <2>2. queue' \in Seq(Item) /\ Unique' /\ \A y \in Item : InQueue(y)' <=> InQueue(y) \/ y = j
    BY <1>1, <2>1, EnqueueQueue DEF Enqueue, TypeOK, SinglePlace, Unique, Item
  <2>3. \A x \in Item : OnWorker(x)' <=> OnWorker(x)
    BY <1>1 DEF Enqueue, OnWorker
  <2>4. TypeOK'
    BY <1>1, <2>2 DEF Enqueue, TypeOK
  <2>5. SinglePlace'
    BY <1>1, <2>1, <2>2, <2>3 DEF Enqueue, SinglePlace, Unique, Item
  <2>6. ActiveJobsRetained' /\ WorkerInv' /\ CallInv' /\ DictInv'
    BY <1>1, <2>2, IdsAssumption DEF Enqueue, ActiveJobsRetained, WorkerInv, CallInv, DictInv, Item
  <2> QED  BY <2>4, <2>5, <2>6
<1>2. CASE EnqueueRefused(j)
  <2>1. \A x \in Item : /\ InQueue(x)' <=> InQueue(x)
                        /\ OnWorker(x)' <=> OnWorker(x)
    BY <1>2 DEF EnqueueRefused, InQueue, OnWorker
  <2>2. TypeOK' /\ ActiveJobsRetained' /\ WorkerInv' /\ CallInv' /\ DictInv'
    BY <1>2, <2>1 DEF EnqueueRefused, TypeOK, ActiveJobsRetained, WorkerInv, CallInv, DictInv, Item
  <2>3. SinglePlace'
    BY <1>2, <2>1 DEF EnqueueRefused, SinglePlace, Item
  <2> QED  BY <2>2, <2>3
<1> QED  BY <1>1, <1>2

\* run() and a cancellation keep the invariant.
LEMMA CallIInv ==
    ASSUME IInv, NEW c \in Call, Run(c) \/ Cancel(c)
    PROVE  IInv'
<1> USE DEF IInv
<1>1. CASE Run(c)
  <2>1. ~InQueue(c) /\ ~OnWorker(c)
    BY <1>1 DEF Run, CallInv, WorkerInv, OnWorker
  <2>2. queue' \in Seq(Item) /\ Unique' /\ \A y \in Item : InQueue(y)' <=> InQueue(y) \/ y = c
    BY <1>1, <2>1, EnqueueQueue DEF Run, TypeOK, SinglePlace, Unique, Item
  <2>3. \A x \in Item : OnWorker(x)' <=> OnWorker(x)
    BY <1>1 DEF Run, OnWorker
  <2>4. TypeOK'
    BY <1>1, <2>2 DEF Run, TypeOK
  <2>5. SinglePlace'
    BY <1>1, <2>1, <2>2, <2>3, IdsAssumption DEF Run, SinglePlace, Unique, Item
  <2>6. ActiveJobsRetained' /\ CallInv' /\ DictInv'
    BY <1>1, <2>2 DEF Run, ActiveJobsRetained, CallInv, DictInv, TypeOK, Item
  <2>7. WorkerInv'
    BY <1>1, <2>1 DEF Run, WorkerInv, OnWorker, TypeOK
  <2> QED  BY <2>4, <2>5, <2>6, <2>7
<1>2. CASE Cancel(c)
  <2>1. \A x \in Item : /\ InQueue(x)' <=> InQueue(x)
                        /\ OnWorker(x)' <=> OnWorker(x)
    BY <1>2 DEF Cancel, InQueue, OnWorker
  <2>2. TypeOK' /\ ActiveJobsRetained' /\ WorkerInv' /\ CallInv' /\ DictInv'
    BY <1>2, <2>1 DEF Cancel, TypeOK, ActiveJobsRetained, WorkerInv, CallInv, DictInv, Item
  <2>3. SinglePlace'
    BY <1>2, <2>1 DEF Cancel, SinglePlace, Item
  <2> QED  BY <2>2, <2>3
<1> QED  BY <1>1, <1>2

\* A worker that takes the head of the queue is its only holder.
LEMMA TakeIInv ==
    ASSUME IInv, NEW w \in Worker, Take(w)
    PROVE  IInv'
<1> USE DEF IInv
<1> DEFINE item == Head(queue)
<1>1. /\ queue' \in Seq(Item)
      /\ Unique'
      /\ item \in Item /\ InQueue(item)
      /\ \A y \in Item : InQueue(y)' <=> InQueue(y) /\ y # item
  BY DequeueQueue DEF Take, TypeOK, SinglePlace, Unique
<1>2. ~OnWorker(item) /\ item \notin handoff /\ (item \in Job => status[item] = "queued")
  BY <1>1 DEF SinglePlace, TypeOK, Item
<1>3. w \notin begun /\ worker[w] = Idle
  BY IdsAssumption DEF Take, WorkerInv, Item
<1> HIDE DEF item
<1>4. CASE item \in Call /\ call[item] = "cancelled"
  <2>1. UNCHANGED <<call, worker, retained, status, handoff, begun, closed, born, inserted>>
    BY <1>4 DEF Take, item
  <2>2. \A x \in Item : OnWorker(x)' <=> OnWorker(x)
    BY <2>1 DEF OnWorker
  <2>3. item \notin Job
    BY <1>4, IdsAssumption
  <2>4. TypeOK' /\ ActiveJobsRetained' /\ DictInv'
    BY <1>1, <2>1 DEF TypeOK, ActiveJobsRetained, DictInv
  <2>5. WorkerInv' /\ CallInv'
    BY <1>1, <2>1 DEF WorkerInv, CallInv, Item
  <2>6. SinglePlace'
    BY <1>1, <2>1, <2>2, <2>3 DEF SinglePlace, Unique, Item
  <2> QED  BY <2>4, <2>5, <2>6
<1>5. CASE ~(item \in Call /\ call[item] = "cancelled")
  <2>1. /\ worker' = [worker EXCEPT ![w] = item]
        /\ UNCHANGED <<retained, status, handoff, begun, closed, born, inserted>>
        /\ call' = IF item \in Call THEN [call EXCEPT ![item] = "running"] ELSE call
    BY <1>5 DEF Take, item
  <2>2. \A x \in Item : OnWorker(x)' <=> OnWorker(x) \/ x = item
    BY <1>3, <2>1, IdsAssumption DEF OnWorker, TypeOK, Item
  <2>3. TypeOK' /\ ActiveJobsRetained' /\ DictInv'
    BY <1>1, <2>1 DEF TypeOK, ActiveJobsRetained, DictInv
  <2>4. WorkerInv'
    BY <1>1, <1>2, <1>3, <2>1, IdsAssumption DEF WorkerInv, TypeOK, Item
  <2>5. CallInv'
    BY <1>1, <2>1 DEF CallInv, TypeOK, Item
  <2>6. \A v, u \in Worker : worker'[v] = worker'[u] /\ worker'[v] # Idle => v = u
    BY <1>2, <1>3, <2>1, IdsAssumption DEF SinglePlace, OnWorker, TypeOK, Item
  <2>7. \A j \in Job : status[j] = "running" => \E v \in begun : worker'[v] = j
    BY <1>3, <2>1 DEF SinglePlace, TypeOK
  <2>8. SinglePlace'
    BY <1>1, <1>2, <2>1, <2>2, <2>6, <2>7 DEF SinglePlace, Unique, Active, Item
  <2> QED  BY <2>3, <2>4, <2>5, <2>8
<1> QED  BY <1>4, <1>5

\* _run's first transition keeps the invariant.
LEMMA BeginIInv ==
    ASSUME IInv, NEW w \in Worker, Begin(w)
    PROVE  IInv'
<1> USE DEF IInv
<1>1. \A x \in Item : /\ InQueue(x)' <=> InQueue(x)
                      /\ OnWorker(x)' <=> OnWorker(x)
  BY DEF Begin, InQueue, OnWorker
<1>2. ~InQueue(worker[w]) /\ worker[w] \notin handoff /\ status[worker[w]] = "queued"
  BY DEF Begin, SinglePlace, OnWorker, WorkerInv, Item
<1>3. TypeOK'
  BY DEF Begin, TypeOK, Active
<1>4. ActiveJobsRetained' /\ DictInv' /\ CallInv'
  BY <1>1, <1>2 DEF Begin, ActiveJobsRetained, DictInv, CallInv, TypeOK, Active, Item
<1>5. WorkerInv'
  BY IdsAssumption DEF Begin, WorkerInv, SinglePlace, TypeOK, Item
<1>6. SinglePlace'
  BY <1>1, <1>2 DEF Begin, SinglePlace, TypeOK, Active, Item
<1> QED  BY <1>3, <1>4, <1>5, <1>6

\* The last transition, and the worker's return to the queue, keep the invariant.
LEMMA FinishIInv ==
    ASSUME IInv, NEW w \in Worker, Finish(w) \/ FinishCall(w)
    PROVE  IInv'
<1> USE DEF IInv
<1>1. /\ worker[w] \in Item /\ worker[w] # Idle
      /\ worker' = [worker EXCEPT ![w] = Idle]
      /\ UNCHANGED <<retained, born, inserted, handoff, queue, closed>>
  BY IdsAssumption DEF Finish, FinishCall, Item
<1>2. \A x \in Item : /\ InQueue(x)' <=> InQueue(x)
                      /\ OnWorker(x)' <=> OnWorker(x) /\ x # worker[w]
  BY <1>1, IdsAssumption DEF InQueue, OnWorker, SinglePlace, TypeOK, Item
<1>3. ~InQueue(worker[w]) /\ worker[w] \notin handoff
  BY <1>1 DEF SinglePlace, OnWorker, TypeOK, Item
<1>4. CASE Finish(w)
  <2>1. PICK outcome \in Terminal : status' = [status EXCEPT ![worker[w]] = outcome]
    BY <1>4 DEF Finish
  <2>2. TypeOK'
    BY <1>4, <2>1, <1>1 DEF Finish, TypeOK
  <2>3. ActiveJobsRetained' /\ DictInv' /\ CallInv'
    BY <1>1, <1>2, <1>4, <2>1 DEF Finish, ActiveJobsRetained, DictInv, CallInv, TypeOK, Active,
       Terminal, Item
  <2>4. WorkerInv'
    BY <1>1, <1>4, <2>1, IdsAssumption DEF Finish, WorkerInv, SinglePlace, TypeOK, Item
  <2>5. SinglePlace'
    BY <1>1, <1>2, <1>3, <1>4, <2>1, IdsAssumption
    DEF Finish, SinglePlace, TypeOK, Active, Terminal, Item
  <2> QED  BY <2>2, <2>3, <2>4, <2>5
<1>5. CASE FinishCall(w)
  <2>1. TypeOK' /\ ActiveJobsRetained' /\ DictInv' /\ CallInv'
    BY <1>1, <1>2, <1>3, <1>5 DEF FinishCall, TypeOK, ActiveJobsRetained, DictInv, CallInv, Item
  <2>2. WorkerInv'
    BY <1>1, <1>5, IdsAssumption DEF FinishCall, WorkerInv, SinglePlace, TypeOK, Item
  <2>3. SinglePlace'
    BY <1>1, <1>2, <1>3, <1>5, IdsAssumption DEF FinishCall, SinglePlace, TypeOK, WorkerInv, Item
  <2> QED  BY <2>1, <2>2, <2>3
<1> QED  BY <1>4, <1>5

\* A shutdown keeps the invariant: it takes nothing from the queue.
LEMMA ShutdownIInv ==
    ASSUME IInv, Shutdown \/ UNCHANGED vars
    PROVE  IInv'
<1>1. \A x \in Item : /\ InQueue(x)' <=> InQueue(x)
                      /\ OnWorker(x)' <=> OnWorker(x)
  BY DEF Shutdown, vars, InQueue, OnWorker
<1>2. UNCHANGED <<retained, born, inserted, status, handoff, call, queue, worker, begun>>
      /\ closed' \in {closed, TRUE}
  BY DEF Shutdown, vars
<1>3. SinglePlace'
  BY <1>1, <1>2 DEF IInv, SinglePlace, Item, TypeOK
<1> QED  BY <1>1, <1>2, <1>3
  DEF IInv, TypeOK, ActiveJobsRetained, WorkerInv, CallInv, DictInv, Item

\* The invariant is inductive.
LEMMA NextIInv == IInv /\ [Next]_vars => IInv'
BY SubmitIInv, EnqueueIInv, CallIInv, TakeIInv, BeginIInv, FinishIInv, ShutdownIInv
   DEF Next, WorkerStep

\* The inductive invariant holds in every behaviour of the job manager.
THEOREM Invariance == Spec => []IInv
BY InitIInv, NextIInv, PTL DEF Spec

\* Every variable keeps its type.
THEOREM TypeCorrect == Spec => []TypeOK
<1>1. IInv => TypeOK
  BY DEF IInv
<1> QED  BY <1>1, Invariance, PTL

\* No work is run twice, dropped, or held by two places at once, and none that
\* was cancelled is run.
THEOREM SingleHolder == Spec => []OneHolder
<1>1. IInv => OneHolder
  BY DEF IInv, WorkerInv, OneHolder
<1> QED  BY <1>1, Invariance, PTL

\* A queued or running job is never evicted.
THEOREM ActiveNeverEvicted == Spec => []ActiveJobsRetained
<1>1. IInv => ActiveJobsRetained
  BY DEF IInv
<1> QED  BY <1>1, Invariance, PTL

-----------------------------------------------------------------------------
(* Retention.                                                              *)

\* An eviction brings the dict down to the cap, or leaves only active jobs.
LEMMA EvictionBound ==
    ASSUME IInv, NEW j \in Job, status[j] = "unborn",
           NEW evicted \in SUBSET Finished(retained), IsEviction(evicted, retained \cup {j})
    PROVE  LET left == (retained \cup {j}) \ evicted IN
           /\ \/ Cardinality(left) <= MaxRetained
              \/ Finished(left) = {}
           /\ evicted # {} => Cardinality(left) >= MaxRetained
<1> DEFINE jobs == retained \cup {j}
<1> DEFINE left == jobs \ evicted
<1> DEFINE oldest == Finished(jobs)
<1>1. IsFiniteSet(jobs) /\ Cardinality(jobs) \in Nat
  BY FS_AddElement, FS_CardinalityType DEF IInv, DictInv
<1>2. oldest \in SUBSET jobs /\ evicted \in SUBSET oldest /\ evicted \in SUBSET jobs
  BY DEF Finished
<1>3. IsFiniteSet(oldest) /\ Cardinality(oldest) \in Nat
  BY <1>1, <1>2, FS_Subset, FS_CardinalityType
<1>4. IsFiniteSet(evicted) /\ Cardinality(evicted) \in Nat
  BY <1>2, <1>3, FS_Subset, FS_CardinalityType
<1>5. Cardinality(left) = Cardinality(jobs) - Cardinality(evicted)
  <2>1. jobs \cap evicted = evicted
    BY <1>2
  <2> QED  BY <1>1, <2>1, FS_Difference
<1>6. Cardinality(evicted) = IF Cardinality(jobs) - MaxRetained <= 0 THEN 0
                             ELSE IF Cardinality(jobs) - MaxRetained < Cardinality(oldest)
                                  THEN Cardinality(jobs) - MaxRetained
                                  ELSE Cardinality(oldest)
  BY DEF IsEviction
<1>7. MaxRetained \in Nat
  BY RetentionAssumption
<1>8. Cardinality(evicted) = Cardinality(oldest) => Finished(left) = {}
  <2>1. Cardinality(evicted) = Cardinality(oldest) => evicted = oldest
    BY <1>2, <1>3, FS_Subset
  <2> QED  BY <2>1 DEF Finished
<1>9. evicted # {} => Cardinality(evicted) > 0
  BY <1>4, FS_EmptySet
<1> HIDE DEF jobs, left, oldest
<1>10. Cardinality(left) <= MaxRetained \/ Finished(left) = {}
  BY <1>1, <1>3, <1>4, <1>5, <1>6, <1>7, <1>8
<1>11. evicted # {} => Cardinality(left) >= MaxRetained
  BY <1>1, <1>3, <1>4, <1>5, <1>6, <1>7, <1>9
<1> QED  BY <1>10, <1>11 DEF left, jobs

\* Only a submission changes the dict, or submits.
LEMMA OnlySubmit ==
    ASSUME IInv, [Next]_vars, NEW j \in Job,
           ~Submit(j), \A k \in Job : ~Submit(k) \/ k = j
    PROVE  retained' = retained /\ \A k \in Job : status[k] = "unborn" => status'[k] = "unborn"
<1>1. \A w \in Worker : Begin(w) \/ Finish(w) => status[worker[w]] # "unborn"
  BY DEF IInv, SinglePlace, OnWorker, Active, Begin, Finish, WorkerInv
<1> QED  BY <1>1 DEF IInv, TypeOK, Next, WorkerStep, Enqueue, EnqueueRefused, Run, Cancel, Take, Begin,
         Finish, FinishCall, Shutdown, vars

\* One step of RetentionBounded and of ResultsKeptWhileRoom.
LEMMA RetentionStep ==
    ASSUME IInv, [Next]_vars
    PROVE  /\ \A j \in Job : status[j] = "unborn" /\ status'[j] # "unborn" =>
                 \/ Cardinality(retained') <= MaxRetained
                 \/ \A k \in retained' : status'[k] \in Active
           /\ \A j \in retained \ retained' :
                 /\ Cardinality(retained') >= MaxRetained
                 /\ \A k \in retained' : status[k] \in Terminal => born[j] < born[k]
<1>1. CASE \A j \in Job : ~Submit(j)
  <2>1. CASE Job = {}
    BY <2>1 DEF IInv, TypeOK
  <2>2. CASE Job # {}
    <3>1. retained' = retained /\ \A k \in Job : status[k] = "unborn" => status'[k] = "unborn"
      BY <1>1, <2>2, OnlySubmit
    <3> QED  BY <3>1
  <2> QED  BY <2>1, <2>2
<1>2. ASSUME NEW s \in Job, Submit(s)
      PROVE  /\ \A j \in Job : status[j] = "unborn" /\ status'[j] # "unborn" =>
                   \/ Cardinality(retained') <= MaxRetained
                   \/ \A k \in retained' : status'[k] \in Active
             /\ \A j \in retained \ retained' :
                   /\ Cardinality(retained') >= MaxRetained
                   /\ \A k \in retained' : status[k] \in Terminal => born[j] < born[k]
  <2>1. PICK evicted \in SUBSET Finished(retained) :
            /\ IsEviction(evicted, retained \cup {s})
            /\ retained' = (retained \cup {s}) \ evicted
    BY <1>2 DEF Submit
  <2>2. status[s] = "unborn" /\ status' = [status EXCEPT ![s] = "queued"]
    BY <1>2 DEF Submit
  <2>3. /\ \/ Cardinality(retained') <= MaxRetained
           \/ Finished(retained') = {}
        /\ evicted # {} => Cardinality(retained') >= MaxRetained
    BY <2>1, <2>2, EvictionBound
  <2>4. Finished(retained') = {} => \A k \in retained' : status'[k] \in Active
    <3> SUFFICES ASSUME Finished(retained') = {}, NEW k \in retained' PROVE status'[k] \in Active
      OBVIOUS
    <3>1. k \in Job /\ (k \in retained \/ k = s)
      BY <2>1 DEF IInv, TypeOK
    <3>2. CASE k = s
      BY <2>2, <3>1, <3>2 DEF IInv, TypeOK, Active
    <3>3. CASE k # s
      <4>1. status[k] \notin Terminal /\ status[k] # "unborn"
        BY <3>1, <3>3 DEF Finished, IInv, DictInv
      <4> QED  BY <2>2, <3>1, <3>3, <4>1 DEF IInv, TypeOK
    <3> QED  BY <3>2, <3>3
  <2>5. ASSUME NEW j \in retained \ retained'
        PROVE  /\ j \in evicted
               /\ \A k \in retained' : status[k] \in Terminal => born[j] < born[k]
    <3>1. j \in evicted
      BY <2>1
    <3>2. \A k \in Finished(retained \cup {s}) \ evicted : born[j] < born[k]
      BY <2>1, <3>1 DEF IsEviction
    <3>3. \A k \in retained' : status[k] \in Terminal => k \in Finished(retained \cup {s}) \ evicted
      BY <2>1 DEF Finished
    <3> QED  BY <3>1, <3>2, <3>3
  <2> QED  BY <2>3, <2>4, <2>5
<1> QED  BY <1>1, <1>2

\* The cap holds for finished jobs: a submission never leaves more of them than
\* the cap allows beside the active ones.
LEMMA CapRespected == Spec => RetentionBounded
<1>1. IInv /\ [Next]_vars =>
        [\A j \in Job : status[j] = "unborn" /\ status'[j] # "unborn" =>
            \/ Cardinality(retained') <= MaxRetained
            \/ \A k \in retained' : status'[k] \in Active]_vars
  BY RetentionStep
<1> QED  BY <1>1, Invariance, PTL DEF Spec, RetentionBounded

\* A result is dropped only to make room, the oldest first.
LEMMA OldestGoFirst == Spec => ResultsKeptWhileRoom
<1>1. IInv /\ [Next]_vars =>
        [\A j \in retained \ retained' :
            /\ Cardinality(retained') >= MaxRetained
            /\ \A k \in retained' : status[k] \in Terminal => born[j] < born[k]]_vars
  BY RetentionStep
<1> QED  BY <1>1, Invariance, PTL DEF Spec, ResultsKeptWhileRoom

\* Eviction drops what is over the cap, finished jobs only, and nothing else.
THEOREM EvictionCorrect == Spec => EvictionIsExact
BY CapRespected, OldestGoFirst, PTL DEF EvictionIsExact

-----------------------------------------------------------------------------
(* The implementation of JobLedger.                                        *)

Seen == [j \in Job |-> Get(j)]

LedgerStep == [Ledger!Next]_Seen

\* Before any submission every poll is of an unborn job.
LEMMA InitLedger == Init => Ledger!Init
BY DEF Init, Ledger!Init, Get

\* A step that changes neither the dict nor a status is invisible to polls.
LEMMA QuietLedger ==
    ASSUME UNCHANGED <<retained, status>>
    PROVE  LedgerStep
BY DEF LedgerStep, Seen, Get

\* A submission with its eviction is the ledger's: what it forgets had finished.
LEMMA SubmitLedger ==
    ASSUME IInv, NEW j \in Job, Submit(j)
    PROVE  LedgerStep
<1>1. PICK evicted \in SUBSET Finished(retained) : retained' = (retained \cup {j}) \ evicted
  BY DEF Submit
<1>2. /\ status[j] = "unborn"
      /\ status' = [status EXCEPT ![j] = "queued"]
      /\ j \notin retained
  BY DEF Submit, IInv, DictInv
<1>3. evicted \in SUBSET {k \in Job : Seen[k] \in Ledger!Finished}
  BY DEF Finished, Terminal, Seen, Get, Ledger!Finished, IInv, TypeOK
<1>4. ASSUME NEW k \in Job
      PROVE  Seen'[k] = IF k = j THEN "queued"
                        ELSE IF k \in evicted THEN "forgotten" ELSE Seen[k]
  BY <1>1, <1>2 DEF Seen, Get, IInv, TypeOK, Finished, Terminal
<1>5. Seen' = [k \in Job |-> IF k = j THEN "queued"
                             ELSE IF k \in evicted THEN "forgotten" ELSE Seen[k]]
  BY <1>4 DEF Seen
<1>6. Seen[j] = "unborn"
  BY <1>2 DEF Seen, Get
<1>7. Ledger!Submit(j)
  BY <1>3, <1>5, <1>6 DEF Ledger!Submit, Seen
<1> QED  BY <1>7 DEF LedgerStep, Ledger!Next

\* A worker's transitions are visible as they happen: the job, still active until
\* the last of them, is in the dict.
LEMMA WorkerLedger ==
    ASSUME IInv, NEW w \in Worker, Begin(w) \/ Finish(w)
    PROVE  LedgerStep
<1> DEFINE j == worker[w]
<1>1. /\ j \in Job
      /\ status[j] \in Active
      /\ j \in retained
      /\ retained' = retained
  BY DEF Begin, Finish, IInv, WorkerInv, ActiveJobsRetained, Active
<1>2. Seen[j] = status[j]
  BY <1>1 DEF Seen, Get
<1>3. ASSUME NEW s \in {"running"} \cup Terminal, status' = [status EXCEPT ![j] = s]
      PROVE  Seen' = [Seen EXCEPT ![j] = s]
  BY <1>1, <1>3 DEF Seen, Get, IInv, TypeOK
<1>4. CASE Begin(w)
  <2>1. Seen' = [Seen EXCEPT ![j] = "running"]
    BY <1>3, <1>4 DEF Begin
  <2>2. Seen[j] = "queued"
    BY <1>2, <1>4 DEF Begin, IInv, WorkerInv
  <2>3. Ledger!Begin(j)
    BY <2>1, <2>2 DEF Ledger!Begin, Seen
  <2> QED  BY <1>1, <2>3 DEF LedgerStep, Ledger!Next
<1>5. CASE Finish(w)
  <2>1. PICK outcome \in Terminal : status' = [status EXCEPT ![j] = outcome]
    BY <1>5 DEF Finish
  <2>2. Seen' = [Seen EXCEPT ![j] = outcome]
    BY <1>3, <2>1
  <2>3. Seen[j] = "running"
    BY <1>2, <1>5 DEF Finish, IInv, WorkerInv
  <2>4. Ledger!Finish(j)
    BY <2>2, <2>3 DEF Ledger!Finish, Ledger!Finished, Terminal, Seen
  <2> QED  BY <1>1, <2>4 DEF LedgerStep, Ledger!Next
<1> QED  BY <1>4, <1>5

\* Every step of the job manager is a step of the ledger, or a stutter.
LEMMA NextLedger ==
    ASSUME IInv, [Next]_vars
    PROVE  LedgerStep
<1>1. CASE \/ \E j \in Job : Enqueue(j) \/ EnqueueRefused(j)
           \/ \E c \in Call : Run(c) \/ Cancel(c)
           \/ \E w \in Worker : Take(w) \/ FinishCall(w)
           \/ Shutdown
           \/ UNCHANGED vars
  BY <1>1, QuietLedger DEF Enqueue, EnqueueRefused, Run, Cancel, Take, FinishCall, Shutdown, vars
<1> QED  BY <1>1, SubmitLedger, WorkerLedger DEF Next, WorkerStep

\* What polls observe is a JobLedger: forward only, forgotten only when finished.
THEOREM Implementation == Spec => ImplementsLedger
BY InitLedger, NextLedger, Invariance, PTL
   DEF Spec, ImplementsLedger, Ledger!Spec, LedgerStep, Seen
=============================================================================
