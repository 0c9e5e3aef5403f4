--------------------------- MODULE StorageAccess ---------------------------
(***************************************************************************)
(* Threads working on one loaded dataset while another deletes it:         *)
(*                                                                         *)
(*   data_engine/dataset_manager.py         get_cached_on_dataset          *)
(*   data_engine/storage/duckdb_storage.py  the storage's RLock, its two   *)
(*                                          memoized scans, close()        *)
(*   backend/routes/dataset.py              _cached_on_analysis_pool       *)
(*   the profiling, quality and metadata engines, as the storage calls     *)
(*   their builders make                                                   *)
(*                                                                         *)
(* Two locks nest: Dataset.cache_lock around a whole build, the storage's  *)
(* lock around each call of it.  Values are abstracted to who computed     *)
(* them, and from which scans.                                             *)
(***************************************************************************)
EXTENDS Naturals, Sequences, FiniteSets

CONSTANTS
    Thread,     \* requests, each on a thread of its own
    Workers,    \* threads of the analysis pool (ANALYSIS_JOB_WORKERS)
    Batches,    \* nested queries of one memoized scan
    None        \* no thread, no value

ASSUME NoneAssumption == None \notin Thread

ASSUME SizeAssumption == Workers \in Nat \ {0} /\ Batches \in Nat \ {0}

\* The storage calls of each builder, in order: "query" takes the lock for one
\* query, "distinct" and "columns" are the memoized scans.
Builder ==
    [basic_statistics  |-> <<"query", "query", "distinct", "columns">>,
     quality           |-> <<"query", "query", "distinct", "columns", "query", "query">>,
     metadata          |-> <<"query", "query", "columns", "query">>,
     planning_metadata |-> <<"query", "query", "query", "query">>,
     preview           |-> <<"query">>]

Key  == DOMAIN Builder \ {"preview"}    \* what Dataset.cache may hold
Memo == {"distinct", "columns"}         \* _distinct_row_count, _column_statistics

VARIABLES
    cache,          \* Dataset.cache
    memo,           \* memo[m]: who ran the scan, or None
    closed,         \* DuckDBStorage._closed
    cacheLock, storageLock,     \* the holder, or None
    kind, pc,
    step,           \* which call of its builder a thread is at
    batch,          \* how many nested queries of its scan are done
    used,           \* the scans the current build has read: <<m, who ran it>>
    value           \* the value a thread was answered with

vars == <<cache, memo, closed, cacheLock, storageLock, kind, pc, step, batch,
          used, value>>

Value == [by : Thread, used : SUBSET (Memo \X Thread)]

ASSUME ValueAssumption == None \notin Value

\* 200 with a value or a preview, 404, 500, cancelled by its client, or closed.
Answers == {"answered", "not_found", "failed", "gone", "closed"}

TypeOK ==
    /\ cache \in [Key -> Value \cup {None}]
    /\ memo  \in [Memo -> Thread \cup {None}]
    /\ closed \in BOOLEAN
    /\ cacheLock   \in Thread \cup {None}
    /\ storageLock \in Thread \cup {None}
    /\ kind  \in [Thread -> DOMAIN Builder \cup {"none", "close"}]
    /\ pc    \in [Thread -> {"idle", "queued", "want_cache", "call", "query",
                             "scan", "store", "closing"} \cup Answers]
    /\ step  \in [Thread -> 1 .. 7]
    /\ batch \in [Thread -> 0 .. Batches - 1]
    /\ used  \in [Thread -> SUBSET (Memo \X Thread)]
    /\ value \in [Thread -> Value \cup {None}]

Init ==
    /\ cache = [k \in Key |-> None]
    /\ memo  = [m \in Memo |-> None]
    /\ closed = FALSE
    /\ cacheLock = None
    /\ storageLock = None
    /\ kind  = [t \in Thread |-> "none"]
    /\ pc    = [t \in Thread |-> "idle"]
    /\ step  = [t \in Thread |-> 1]
    /\ batch = [t \in Thread |-> 0]
    /\ used  = [t \in Thread |-> {}]
    /\ value = [t \in Thread |-> None]

-----------------------------------------------------------------------------
storageVars == <<cache, memo, closed, cacheLock, storageLock>>
buildVars   == <<step, batch, used>>

Goto(t, label) == pc' = [pc EXCEPT ![t] = label]

\* The unlocked lookup: a hit is answered, a miss goes on to label.
LookUp(t, k, label) ==
    /\ Goto(t, IF cache[k] # None THEN "answered" ELSE label)
    /\ value' = [value EXCEPT ![t] = cache[k]]

\* A profile, quality or metadata request: the event loop looks first.
Ask(t, k) ==
    /\ pc[t] = "idle"
    /\ kind' = [kind EXCEPT ![t] = k]
    /\ LookUp(t, k, "queued")
    /\ UNCHANGED <<storageVars, buildVars>>

\* An analysis runs on the pool as a whole and needs the planning metadata.
Analyze(t) ==
    /\ pc[t] = "idle"
    /\ kind' = [kind EXCEPT ![t] = "planning_metadata"]
    /\ Goto(t, "queued")
    /\ UNCHANGED <<storageVars, buildVars, value>>

\* A preview goes straight to the storage, uncached.
Preview(t) ==
    /\ pc[t] = "idle"
    /\ kind' = [kind EXCEPT ![t] = "preview"]
    /\ Goto(t, "call")
    /\ UNCHANGED <<storageVars, buildVars, value>>

\* The client disconnects before a worker took the call.
Disconnect(t) ==
    /\ pc[t] = "queued"
    /\ Goto(t, "gone")
    /\ UNCHANGED <<storageVars, buildVars, kind, value>>

OnWorker ==
    {t \in Thread : kind[t] \in Key /\
                    pc[t] \in {"want_cache", "call", "query", "scan", "store"}}

\* get_cached_on_dataset on a worker: the lookup again.
StartWork(t) ==
    /\ pc[t] = "queued"
    /\ Cardinality(OnWorker) < Workers
    /\ LookUp(t, kind[t], "want_cache")
    /\ UNCHANGED <<storageVars, buildVars, kind>>

\* Mutant: no second look once the lock is held.
EnterWithoutLooking(t) ==
    /\ pc[t] = "want_cache"
    /\ cacheLock = None
    /\ Goto(t, "call")
    /\ cacheLock' = t
    /\ UNCHANGED <<cache, memo, closed, storageLock, buildVars, kind, value>>

\* "with dataset.cache_lock": look again, then build.
EnterCache(t) ==
    /\ pc[t] = "want_cache"
    /\ cacheLock = None
    /\ LookUp(t, kind[t], "call")
    /\ cacheLock' = IF cache[kind[t]] # None THEN None ELSE t
    /\ UNCHANGED <<cache, memo, closed, storageLock, buildVars, kind>>

Call(t) == Builder[kind[t]][step[t]]

\* The builder's next call, or the end of it.
Advance(t) ==
    /\ step' = [step EXCEPT ![t] = @ + 1]
    /\ Goto(t, CASE step[t] < Len(Builder[kind[t]]) -> "call"
                 [] kind[t] = "preview"             -> "answered"
                 [] OTHER                           -> "store")

ReleaseCache(t) == cacheLock' = IF cacheLock = t THEN None ELSE cacheLock

\* The storage's lock is free, but the storage is closed: StorageClosedError
\* leaves both "with" blocks and becomes the 404.
CallClosed(t) ==
    /\ pc[t] = "call"
    /\ storageLock = None
    /\ closed
    /\ ReleaseCache(t)
    /\ Goto(t, "not_found")
    /\ UNCHANGED <<cache, memo, closed, storageLock, buildVars, kind, value>>

\* A scan some thread has already run: read the memo and release.
CallMemoized(t) ==
    /\ pc[t] = "call"
    /\ storageLock = None
    /\ ~closed
    /\ Call(t) \in Memo
    /\ memo[Call(t)] # None
    /\ used' = [used EXCEPT ![t] = @ \cup {<<Call(t), memo[Call(t)]>>}]
    /\ Advance(t)
    /\ UNCHANGED <<storageVars, batch, kind, value>>

CallStorage(t) ==
    /\ pc[t] = "call"
    /\ storageLock = None
    /\ ~closed
    /\ Call(t) \in Memo => memo[Call(t)] = None
    /\ storageLock' = t
    /\ Goto(t, IF Call(t) \in Memo THEN "scan" ELSE "query")
    /\ UNCHANGED <<cache, memo, closed, cacheLock, buildVars, kind, value>>

EndQuery(t) ==
    /\ pc[t] = "query"
    /\ storageLock' = None
    /\ Advance(t)
    /\ UNCHANGED <<cache, memo, closed, cacheLock, batch, used, kind, value>>

\* Mutant: one nested query too many.
EndScanLate(t) ==
    /\ pc[t] = "scan"
    /\ IF batch[t] < Batches
       THEN /\ batch' = [batch EXCEPT ![t] = @ + 1]
            /\ UNCHANGED <<memo, storageLock, step, used, pc>>
       ELSE /\ batch' = [batch EXCEPT ![t] = 0]
            /\ memo' = [memo EXCEPT ![Call(t)] = t]
            /\ used' = [used EXCEPT ![t] = @ \cup {<<Call(t), t>>}]
            /\ storageLock' = None
            /\ Advance(t)
    /\ UNCHANGED <<cache, closed, cacheLock, kind, value>>

\* One nested query of a scan; the last one sets the memo and releases.
ScanBatch(t) ==
    /\ pc[t] = "scan"
    /\ IF batch[t] < Batches - 1
       THEN /\ batch' = [batch EXCEPT ![t] = @ + 1]
            /\ UNCHANGED <<memo, storageLock, step, used, pc>>
       ELSE /\ batch' = [batch EXCEPT ![t] = 0]
            /\ memo' = [memo EXCEPT ![Call(t)] = t]
            /\ used' = [used EXCEPT ![t] = @ \cup {<<Call(t), t>>}]
            /\ storageLock' = None
            /\ Advance(t)
    /\ UNCHANGED <<cache, closed, cacheLock, kind, value>>

\* Mutant: the cache entry is set even when the builder raised.
QueryFailsAndCaches(t) ==
    /\ pc[t] \in {"query", "scan"}
    /\ storageLock' = None
    /\ batch' = [batch EXCEPT ![t] = 0]
    /\ ReleaseCache(t)
    /\ cache' = IF kind[t] \in Key
                THEN [cache EXCEPT ![kind[t]] = [by |-> t, used |-> used[t]]]
                ELSE cache
    /\ Goto(t, "failed")
    /\ UNCHANGED <<memo, closed, step, used, kind, value>>

\* Mutant: an error leaves cache_lock held (acquire and release, no "with").
QueryFailsHoldingCache(t) ==
    /\ pc[t] \in {"query", "scan"}
    /\ storageLock' = None
    /\ batch' = [batch EXCEPT ![t] = 0]
    /\ Goto(t, "failed")
    /\ UNCHANGED <<cache, memo, closed, cacheLock, step, used, kind, value>>

\* DuckDB raises (out of memory, disk): both locks are left, nothing is kept.
QueryFails(t) ==
    /\ pc[t] \in {"query", "scan"}
    /\ storageLock' = None
    /\ batch' = [batch EXCEPT ![t] = 0]
    /\ ReleaseCache(t)
    /\ Goto(t, "failed")
    /\ UNCHANGED <<cache, memo, closed, step, used, kind, value>>

\* "dataset.cache[key] = value", and out of the lock.
Store(t) ==
    /\ pc[t] = "store"
    /\ LET built == [by |-> t, used |-> used[t]] IN
         /\ cache' = [cache EXCEPT ![kind[t]] = built]
         /\ value' = [value EXCEPT ![t] = built]
    /\ ReleaseCache(t)
    /\ Goto(t, "answered")
    /\ UNCHANGED <<memo, closed, storageLock, buildVars, kind>>

-----------------------------------------------------------------------------
\* DatasetRegistry.delete, or an upload's rollback, closes the storage.
StartClose(t) ==
    /\ pc[t] = "idle"
    /\ kind' = [kind EXCEPT ![t] = "close"]
    /\ Goto(t, "closing")
    /\ UNCHANGED <<storageVars, buildVars, value>>

\* Mutant: close() does not take the lock.
CloseUnlocked(t) ==
    /\ pc[t] = "closing"
    /\ closed' = TRUE
    /\ Goto(t, "closed")
    /\ UNCHANGED <<cache, memo, cacheLock, storageLock, buildVars, kind, value>>

\* close() waits for the lock; a second close is a no-op.
Close(t) ==
    /\ pc[t] = "closing"
    /\ storageLock = None
    /\ closed' = TRUE
    /\ Goto(t, "closed")
    /\ UNCHANGED <<cache, memo, cacheLock, storageLock, buildVars, kind, value>>

\* connection.close() raises before _closed is set.
CloseFails(t) ==
    /\ pc[t] = "closing"
    /\ storageLock = None
    /\ ~closed
    /\ Goto(t, "failed")
    /\ UNCHANGED <<storageVars, buildVars, kind, value>>

-----------------------------------------------------------------------------
Arrive(t) ==
    \/ \E k \in Key \ {"planning_metadata"} : Ask(t, k)
    \/ Analyze(t) \/ Preview(t) \/ StartClose(t)

Step(t) ==
    \/ StartWork(t)  \/ EnterCache(t)   \/ Store(t)
    \/ CallClosed(t) \/ CallMemoized(t) \/ CallStorage(t)
    \/ EndQuery(t)   \/ ScanBatch(t)    \/ QueryFails(t)
    \/ Close(t)      \/ CloseFails(t)

Next == \E t \in Thread : Arrive(t) \/ Disconnect(t) \/ Step(t)

Spec == Init /\ [][Next]_vars

\* Threads are scheduled, and a free lock is given to a thread that waits.
FairSpec == Spec /\ \A t \in Thread : WF_vars(Step(t))

-----------------------------------------------------------------------------
(* Properties.                                                             *)

\* No query ever runs on a closed connection: close() waits for the query in
\* flight, whole scans of several nested queries included, and whoever comes
\* later is turned away before it reaches the connection.
NoQueryOnClosedStorage ==
    \A t \in Thread : pc[t] \in {"query", "scan"} => ~closed /\ storageLock = t

Answered == {t \in Thread : kind[t] \in Key /\ pc[t] = "answered"}

\* Concurrent first requests for one key are all answered with one build, and
\* requests for different keys with the same scans, so a profile and a quality
\* report never disagree on the duplicate rows ("computes the (potentially
\* expensive) value at most once", Dataset.cache_lock).
AnswersAgree ==
    \A s, t \in Answered :
        /\ kind[s] = kind[t] => value[s] = value[t]
        /\ \A p \in value[s].used, q \in value[t].used :
              p[1] = q[1] => p[2] = q[2]

Scans(k) == {m \in Memo : \E i \in DOMAIN Builder[k] : Builder[k][i] = m}

\* Only a build that went through every call of its builder is ever cached: one
\* cut short by an error or by a close leaves nothing a later request could be
\* served from.
CachedIsComplete ==
    \A k \in Key : cache[k] # None => {p[1] : p \in cache[k].used} = Scans(k)

\* Every request and every close comes to an end: the two locks are always
\* taken in the same order and always released, and the pool, even with one
\* worker, never waits for work queued behind it.
EveryThreadFinishes ==
    \A t \in Thread : pc[t] # "idle" ~> pc[t] \in Answers
=============================================================================
