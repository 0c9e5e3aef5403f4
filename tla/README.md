# Verification of the AI Data Intelligence Platform

TLA+ models of the platform's backend and of the part of its frontend that
talks to it, TLC runs on small instances, and TLAPS proofs for every value of
the constants. The repository's code is the reference: `PROJECT.json` maps
every definition to the lines it stands for, lists the hazards of the code and
the property that watches each, the runs, the mutants (a plausible bug for each
property, which TLC must then find), the findings and the theorems.

To check one model: `tlc -config MCJobManager.cfg MCJobManager`. To check
proofs: `tlapm JobManager_proofs.tla`.

## 1. The system

One FastAPI process holds everything in memory and writes each dataset to a
directory. Users upload CSV files; a file becomes a Parquet artifact read
through DuckDB; questions about it become analysis plans that DuckDB executes.
The Vue frontend keeps the conversation.

| Component (code) | State | Operations | Correct when |
|---|---|---|---|
| Dataset lifecycle (`dataset_registry.py`, `dataset_manager.py`, `dataset_manifest.py`, `ingestion.py`, `routes/dataset.py`, `main.py` recovery) | registry, active pointer (memory); `{id}.parquet`, `{id}.json` (disk) | upload, rollback, delete, read by id, read of the active dataset, startup recovery | what is served is complete, on disk and the caller's; acknowledged uploads survive restarts, acknowledged deletes do not come back; a failed upload is whole or gone |
| Analysis jobs (`jobs.py`) | dict of jobs, executor queue, threads | submit, run, poll, cancel, shutdown, eviction | work runs once, is never lost, active jobs are pollable, memory is bounded |
| Storage and caches (`duckdb_storage.py`, `dataset.py`, `get_cached_on_dataset`) | `cache`, two memoized scans, `_closed`, two nested locks | cached build, query, scan, close | no query after close, each value computed once, no deadlock |
| Request body limit (`main.py` middleware, `upload_dataset`) | counters of one request, temp file | receive, send, copy, clean up | one response, exact limits, no byte on disk beyond them |
| Analysis pipeline (`routes/analysis.py`, `plan_validator.py`, `follow_up.py`, engine checks) | none between requests: the context travels | plan, edit, validate, execute | validated plans run, edits stay valid |
| Conversation in the browser (`AnalyticsBuilder.vue`, `followUpContext.js`, `Dashboard.vue`, `api.js`) | result, context, busy flag, request number, selection | ask, follow up, example, suggestion, switch, 404 cleanup | context and screen agree, late answers change nothing |
| Planners (`fast_planner.py`, `adapter.py`, `providers/`) | none | question to plan; check and normalize a model's answer | what is planned by rule can be run |
| Query engine (`duckdb_query_engine.py`) | none | filter, group, aggregate, order, cut | refuses no validated plan |
| Insights (`insight_engine.py`, `insight_generator.py`, `insight_validator.py`, `plan_explanation.py`) | none | facts of a result, statements, their check | what is said holds for all of the data; nothing right is withheld |
| Sessions (`auth/sessions.py`, `get_current_user`) | SQLite rows, one write lock; a cookie per browser | create, validate and refresh, revoke, clean up | a session ends at its deadlines, with its user or by its revocation, and stays ended |
| Authentication limits (`auth/limits.py`) | semaphore, two counters, a deque per key | take a slot, queue, time out; admit, record a failure or success | slots are conserved; who used up the failures is refused, and nobody else |
| Profiling, connectors, browser cache, scripts | | | section 8 |

They interact by calls (routes to registry, manager and storage), by shared
objects (a `Dataset` outlives its registry entry in the requests that hold it),
by the job pool (synchronous analyses, jobs and cache misses share its queue),
and by messages (the browser's requests; a 404 of any of them makes the
dashboard drop the dataset). Every dataset route sits behind
`get_current_user`; the login route combines both limits, the accounts and the
sessions. An analysis runs planner, validator, engine and insights in turn, each
of which trusts or re-checks the one before.

What is hard: handlers run on threads and interleave between any two critical
sections or file operations; the process may die between any two of them; each
unlink, close and write may fail on its own; a delete pulls a dataset from under
requests that already passed authorization; answers come back to a browser panel
that may have been cleared, refilled or replaced; limits are enforced at two
places that see different things. The auth routes read the clock, the limits and
the accounts in separate critical sections with a password hash in between, and
bring a time to the database that was read before its lock was free. An answer
describes a result that may be cut at a limit, and the description is checked by
code that recomputes it another way.

## 2. Modules

| Module | Models | Extends or instantiates |
|---|---|---|
| `DatasetCatalog` | abstract: a dataset is reserved, committed, published, withdrawn, erased | |
| `DatasetLifecycle` | the dataset lifecycle | implements `DatasetCatalog` |
| `JobLedger` | abstract: what polls of a job may observe | |
| `JobManager` | the job manager and its executor | implements `JobLedger` |
| `StorageAccess` | threads on one dataset's locks, caches and connection | |
| `RequestBody` | one request through both size limits | |
| `AnalysisPlans` | conditions on plans, edits of plans | |
| `Conversation` | the panel, the dashboard's selection and the analysis endpoint | `AnalysisPlans` |
| `Planning` | the fast planner's rules; the model's answer checked and normalized | `AnalysisPlans` |
| `QueryResults` | what the engine answers a plan with, over a table | `Planning` |
| `RowIndex` | the validator's index over a result's rows | |
| `Insights` | facts, statements, their check, the limitations | `QueryResults`, `RowIndex` |
| `AnalysisPipeline` | one question through `analyze_dataset` | `Insights` |
| `SessionLedger` | abstract: what a session promises the holder of its token | |
| `SessionStore` | accounts and sessions in SQLite, as operations | |
| `PasswordLimits` | the hashing slots and the failure windows, as operations | |
| `Authentication` | the auth routes and `get_current_user` over both | `PasswordLimits`, `SessionStore`; implements `SessionLedger` |
| `*_proofs` | theorems about `DatasetLifecycle`, `JobManager`, `StorageAccess`, `RequestBody`, `Conversation`, `AnalysisPipeline`, `RowIndex`, `Authentication` | the module they are about |
| `MC*` | constants for TLC | |

### How state and actions correspond to the code

**DatasetLifecycle.** A request is a record of `op`, `caller`, `target`, `pc`; its
steps are the handler's critical sections and file operations, in the code's
order. An upload goes `ingest -> writing -> select -> manifest -> manifest_body ->
register -> activate -> describe`; any failing step takes the handler's own way
out, with the three best-effort rollback steps after a failed manifest write. A
delete goes `pop -> close -> rm_parquet -> rm_manifest -> clear`. A read resolves
the id or the active pointer (which the code reads twice), authorizes, and reads
a storage that may be closed by then. Every disk and DuckDB step may also fail on its
own, the query of `row_count` after the registration (`DescribeUpload`) and a read's
included. A file is absent, partial or whole (a
footer); a manifest is absent, torn (`open("w")` done, body not) or names its
owner. `Crash` empties memory; `Recover` registers what `read_manifest` and the
storage accept; `RecoverFails` is the exception `_recover_datasets` does not
catch. `kept` and `crashes` are history variables.

**JobManager.** `retained` with `born` is the dict in insertion order, `handoff`
the window between `submit`'s lock and `executor.submit`, `queue` and `worker`
the `ThreadPoolExecutor`. `Take` is the executor's own step, modelled from how
the code uses it. An evicted job goes on running on its worker's reference.

**StorageAccess.** A thread walks through the calls of its builder; `cacheLock`
is held for a whole build, `storageLock` (an RLock) for each call, whole scans of
several nested queries included. A value is who computed it and from whose scans.

**RequestBody.** `Declared`, `Receive`/`Deliver`, `GuardedSend`, `Exit` and
`ExitError` are the middleware. The inner app is either any ASGI application
(may answer while a receive is pending, may swallow the limit signal) or FastAPI
with the upload route, whose copy loop and temp file are modelled.

**AnalysisPlans.** `Valid`, `Executable` and `Accepted` are what
`validate_plan`, `execute_plan_duckdb` and the `PreviousPlan` contract ask of a
plan, each in its own words; `Edits(p)` is everything `resolve_follow_up` may
make of `p`. Groupings and filters are sets, a column is a member of its role's
set, and the text that chooses an edit is left out: every edit is possible.

**Conversation.** A request in flight carries its number, dataset and context,
and later its answer. `Analyze` is `analyze()` up to its await, `Show`,
`ShowError`, `DropDataset` and `Discard` what comes after it, `Serve` the whole
handler in the code's order of checks. A planner is an arbitrary source of plans
(`Fresh`) or of none. A remount makes a new panel; `seq` goes on counting across
panels, so that a number names a request, where the code has a counter and an
unmounted component. Which datasets the dashboard lists is not modelled: any
dataset, also one deleted meanwhile, may be selected.

**Planning, QueryResults, Insights, AnalysisPipeline.** A question is what the
fast planner's patterns find in it (`Question`); the patterns themselves are text
matching. `FastPlans(q)` is the plan `create_plan` may return, or nothing when it
defers to the model. A model's answer is arbitrary; `Accepts`, `Adaptable` and
`Adapted` are what the providers and `adapter.py` let through and rewrite.
`Results(t, p)` is what the engine may answer: groups are a set, dates are
numbers with `DaysPerMonth` of them in a month, and of groups tied at the limit
any may be cut (DuckDB decides by the grouping columns). `Contexts` are the facts
of `build_insight_context`, `Insights` the statements made of them, `Verified`
the validator's own recomputation, which looks quoted rows up through `RowIndex`.
`AnalysisPipeline` strings them together in the order of `analyze_dataset`, with
its error answers. The pipeline has one request and no concurrency: what races
a delete is in `StorageAccess` and `DatasetLifecycle`.

**SessionStore, PasswordLimits, Authentication.** The first two are operations on
their own variables. A single SQL statement is one step that needs the write
lock to be free; `validate_session` holds it from `BEGIN IMMEDIATE` (`Begin`) to
its commit (`Accept`, `Drop`) or rollback (`DecideFails`). A lock section of a
limiter is one step. `Authentication` gives each request a program counter and
its local variables and walks it through the routes; where the code reads the
clock before it has a lock, the reading belongs to the step before, so ticks
and other requests fall in between. A request that has ended keeps only the
fields a property asks for (`Ended`). The browser's cookie changes when the
answer arrives (`Deliver`), so a logout's deletion may overtake a login's new
cookie. `RemoveUser` is a user row deleted by hand, with or without foreign keys
enforced; `Restart` loses requests and limits and keeps database and cookies.
`forgiven` is a history variable: failures a key legitimately no longer counts.

## 3. Runs

| Run | Question | Distinct states |
|---|---|---|
| `lifecycle` | safety of four concurrent requests, two users, two ids, a crash, a startup that fails; refinement of `DatasetCatalog` | 1.2 million, with symmetry |
| `jobs` | three jobs and a call on two workers, room for two; refinement of `JobLedger`; liveness | 67 thousand |
| `storage` | three threads, two pool workers, scans of two queries; liveness | 289 thousand |
| `request_body` | every file of up to 6 bytes with up to 4 bytes of framing, cut in messages of up to 3, limits 4 and 6, chunks of 3 | 11 thousand |
| `conversation` | four questions on two datasets, four columns, five fresh plans | 180 thousand |
| `login_limits` | three logins and a registration of one address at one slot with one place in its queue, two ticks, a restart | 1.3 million, with symmetry |
| `sessions` | a login, a registration, a logout and two visits of one browser, three ticks, a deleted user or a restart; refinement of `SessionLedger` | 1.1 million, with symmetry |
| `pipeline` | families of questions, model answers and tables of up to four rows, through to the insights sent | 90 thousand |
| `double_delete`, `startup_fails`, `context_accepted`, `failed_upload_saved` | four statements of the code's own comments and answers that do not hold (section 7) | |

What each property says is in the comment before it. The ones to know first:

- `RegisteredIsBacked`, `AcknowledgedUploadSurvives`, `AcknowledgedDeleteIsFinal`,
  `FailedUploadIsWholeOrGone`: memory and disk agree under every interleaving,
  rollback and crash; an upload answered 500 has published its dataset for good
  (only its answer failed) or left nothing that comes back. `NoForeignRead`: the
  moving active pointer never shows a user someone else's data.
  `DanglingPointerIsExplained`: the pointer names an unregistered dataset only by
  a delete under way, or by one that overtook the upload between its registration
  and its activation. `NoReadLosesItsFile`: racing a delete is a 404, because the
  storage is closed before its file goes; a read that fails otherwise has its file.
- `OneHolder`, `ActiveJobsRetained`, `EvictionIsExact`: a job is neither lost nor
  run twice nor run once cancelled, and eviction takes exactly what it must.
- `AnswersAgree`, `CachedIsComplete`, `NoQueryOnClosedStorage`: one computation
  per key, no half-built entry, no query after `close()`.
- `OneResponse`, `CrossingDecides`, `LimitsAgree`, `TempFileServesOneUpload`: a
  second response start is never sent, a size is refused exactly when it is
  over, and no more than the limit is ever written to disk.
- `ContextMatchesScreen`, `FollowUpEditsTheScreen`, `BusyMeansWaiting`: a
  follow-up always edits what the user sees. `ValidatedPlansRun`,
  `FollowUpsStayValid`: validator, engine and editor agree.
- `HashingBounded`: every slot is free or held and every counter exact, however
  waits time out. `LockedOutIsRefused` and `RefusedOnlyWhenLocked` compare the
  deques with the history of all failures, from both sides. `limits.py:196` reads
  the clock before it takes the lock, so failures may be recorded in another order
  than they were stamped, and a bounded deque that is pruned from the left may then
  lose a newer one with an older one. The first property bounds that loss: if none
  of a key's failures was recorded more than `late` after its stamp (`LateAtMost`),
  those recorded within the window less `late` are all counted. With no such delay
  it is the whole window. The run has late recordings, in the wrong order too:
  without the allowance for them TLC refutes the property.
- `ImplementsLedger` (sessions): every step of the routes is a step of
  `SessionLedger`: a call is admitted only by a session that was within its
  deadlines when the call was made, deadlines never move back, and what ended
  stays ended. `LogoutIsFinal`: a 200 means the row is gone for good, whatever
  validation was about to refresh it.
- `FastPlansRun`, `ClaimsAreTrue`, `InsightsAreKept`: the chain from question to
  description. `ClaimsAreTrue` compares what is said of a result, which may be
  cut at a limit, with all the groups of the table.

### Bounds, and why they are enough

- `lifecycle`: two users and two ids are what "someone else's dataset" and "the
  pointer moved to another dataset" need; four requests let an upload, a delete
  and two reads (or two deletes) meet on one id, or two uploads with a read
  between. One crash leaves a recovery, at the first attempt or after a startup
  that failed, followed by more requests; a second one only repeats it, since the
  disk is the only thing that survives.
- `jobs`: eviction needs more jobs than room (3 and 2), and two workers so that
  they end out of order; one call is enough for the race of cancel and take.
- `storage`: two builders of one key and a close, or two keys sharing a scan; two
  workers for two builds at once, two nested queries for a close in mid-scan.
- `request_body`: the limits are 4 and 6, sizes go beyond both, messages and
  chunks straddle them: every order of "over the file limit", "over the request
  limit" and "already answered" occurs.
- `conversation`: `MaxSeq = 4` allows a chain of follow-ups with a switch in it.
  The contract's bounds are scaled (10 groupings to 2, 20 filters to 1, 100,000
  rows to 2, 1,000,000 to 4), in their order. `Fresh` has a plan for each way of
  being refused: by the validator, by the engine, by the panel as a context.
- `login_limits`: one slot and one place are full as soon as two callers meet, so
  a third queues, times out or is refused. A pair may fail once, an address and
  an email twice, a window lasts two ticks, and four keys are remembered where
  the two emails have five, so that eviction, expiry at the edge of the window
  and three scopes of different sizes all occur with three attempts.
- `sessions`: two tokens, one of which may be of an earlier run, so that a login
  retires one while validations hold the other. `Lifetime = 3` is later than
  `IdleTimeout = 2` and both end within the clock. Three requests meet in the
  database; `AtMost` says how many of each route there are.
- `pipeline`: two dimensions, a date and two measures; a value of both dimensions
  and one of a single one; tables of up to four of seven lines with missing
  regions, dates and amounts, two days of one month and a skipped month; limits
  of 2 and 3 rows, so results are complete, exactly full and cut.

`CHECK_DEADLOCK FALSE` everywhere: requests, jobs and questions are used once,
so a run in which all of them are over has ended, not hung. What must not hang
is stated as liveness, where a step waits for another's: in `JobManager` and
`StorageAccess`. No step of `DatasetLifecycle` waits for anything.

### Fairness

- `JobManager!FairSpec`: weak fairness of `executor.submit` returning and of each
  worker. A job's work terminates: DuckDB queries end.
- `StorageAccess!FairSpec`: weak fairness of each thread's step. Lock acquisition
  is part of the step, so a thread is granted a lock that stays free; nothing is
  assumed of one that others keep taking. The run has two pool workers; that one
  worker is enough rests on the theorems `NobodyDeadlocks` and `EveryStepIsProgress`.

The other specifications state no fairness and have no liveness property. In
`Authentication` every wait has a timeout (the slot, SQLite's busy timeout), so
what could go wrong there is a wrong answer and not a missing one.

## 4. Proofs

For any sets of users, ids, requests, jobs, workers, threads, columns, plans,
tables, accounts and tokens, and any bounds. The assumptions are the named
`ASSUME`s: sentinels lie outside the sets they extend, caps are naturals (those
that must leave room for something, positive), `Fresh` and `Questions` hold plans
and questions, column roles are disjoint, `MaxRows <= MaxContextRows`, the
initial accounts are finitely many. For what is said of data: columns are finitely
many, a table is a finite sequence of rows, a measure's cell is an integer or
missing and a date's a number or missing, and plans aggregate measures with the
words that need no fractions (sums, minima, maxima, counts).

**DatasetLifecycle_proofs.** `IInv == Owners /\ Order /\ Outcomes`. None of the
checked invariants is inductive alone: that a registered dataset is complete
depends on where its upload was when it registered, and on no delete being past
its pop meanwhile. `Owners` ties an id to the one request that minted it,
`Order` says what each handler finds at each of its steps (`UploadInOrder`,
`DeleteInOrder`, nothing under fresh ids, an open storage has its file), and
`Outcomes` what an answer implies and what a dangling pointer means. An
upload is complete and registered from its registration on (`PublishedSurvives`),
which is what makes `FailedUploadIsWholeOrGone` inductive: whichever way its last
query goes, nothing is in between. One lemma per handler, one step per action.
From `IInv`: `TypeCorrect`, `RegisteredAlwaysBacked`, `NeverForeign`,
`UploadsSurvive`, `FailuresAreWholeOrGone`, `DeletesAreFinal`,
`PointerDanglesOnlyByDelete`; with one step of reasoning `ReadsKeepTheirFile`; and `Implementation`, the refinement of
`DatasetCatalog`: each step is a catalog step or a stutter (finishing the
manifest commits, registering publishes, the pop withdraws, the unlinks erase).

**JobManager_proofs.** `IInv` adds to `TypeOK`, `OneHolder` and
`ActiveJobsRetained` what a worker holds (`WorkerInv`), the state of queued calls
(`CallInv`) and that the dict is finite (`DictInv`, for the cardinalities of
`EvictionIsExact`). Lemmas on `Append` and `Tail` carry "at one place of the
queue". `Implementation` refines `JobLedger`.

**StorageAccess_proofs.** `AnswersAgree` speaks of answers; what keeps them equal
is spread over locks, caches and half-finished builds. `LockInv` says who holds
the two locks at which step and that nothing is held of a closed storage,
`PlaceInv` how far a builder has come and that it queries a scan only while no
result of it is kept, `SeenInv` and `MemoInv` that what a build has read comes
from the scan results that are kept, and `CacheInv` that nobody builds what is
cached and an answer is the cached value. `ClosedStorageIsQuiet`,
`CacheHoldsWholeBuilds`, `AnswersAlwaysAgree` and the types follow. So do the two
facts that `EveryThreadFinishes` rests on besides fairness. `NobodyDeadlocks`:
while anyone is underway, someone can take his next step, because whoever holds
the storage's lock is at a query, with that lock free whoever holds the cache's
lock can call or store, and with both free and nobody building a worker is free.
`EveryStepIsProgress`: each step brings one thread into a later phase, to a later
call or nearer the end of its scan, and moves no other. The first ends a wait,
the second bounds the steps there are. The types put a thread's step in `1 .. 7`
and what is left of a scan in `0 .. Batches + 1`, so each thread can only come
closer finitely often.

**RequestBody_proofs.** `CountInv` relates the counters (received, spooled, left)
to the limits at each step, `WireInv` what was sent to what is known to have been
sent, `PathInv` which steps each kind of application passes, `EndInv` what a
request that is over was answered. The theorems hold for all sizes, all limits
and every cut of a body into messages.

**Conversation_proofs.** Two facts about plans first. `ValidatedRuns`: whatever
passes the validator and has a metric meets none of the engine's refusals.
`EditsStayValid`: an edit of a valid plan is valid unless it ranks too many
groups, so no chain of edits needs an induction of its own: the server validates
the context of each. `IInv` then adds to the invariants `Numbered` (a number
names one request), `SentFromScreen` (the request the panel waits for carries
the context the panel still has) and `GoodAnswers` (an answer's plan is an edit
of its request's context if it is a follow-up's). `FollowUpEditsTheScreen`
follows: the edit was of the request's context, which is the panel's, which is
the result's.

**AnalysisPipeline_proofs.** `FastPlansAreExecutable` is about the planner alone:
every plan its rules make, from any question over any columns, is valid and
executable or ranks too many rows. Each clause of `Valid` is argued from the
uniqueness the rules insist on (`The`). `FastPlansRunAlways` lifts it to the
pipeline; the invariant only has to remember that a fast plan came from a question.

`PipelineInv` says where the pipeline's values come from: the plan is one whose
amounts can be computed, the result one the engine may answer it with over the
table, the context the facts of that result, and what is said all the insights
of both, or nothing if one fails its check. The rest is about data.
`ClaimsAreAlwaysTrue` takes four steps:

- amounts are integers or missing (`AggregateIsInteger`, `GroupAmounts`), and
  there is one group for each key (`GroupsByKey`), which is that of some row;
- a result is a part of the groups, and a ranked one leaves nothing out before
  what it has, so its highest or lowest is that of all groups (`HighestOfAll`,
  `LowestOfAll`), although the engine may cut ties as it likes;
- the validator and the generator compare neighbours in time, the claim is about
  all pairs: of a fall and a rise anywhere, the closest pair of keys is a pair of
  neighbours (`RiseOfNeighbours`, `DirectionHolds`);
- the months of the groups are those of the rows the plan looks at
  (`MonthsOfGroups`), so a month missing from one is missing from the other.

`InsightsAreAlwaysKept` is the other direction: each of the five kinds of insight
passes the validator that recomputes it (`InsightsPass`), a quoted row is found
in the result even if its amount is not a number (`RowMatchesItself`), so only a
group without a date to be named by loses an answer its insights.

Sums, minima and maxima are defined by recursion or choice. What is needed of
them is proved by induction over a set of counterexamples, which has a least
member (`NatSetInduction`, `LeastElement`), since the induction theorems of the
library are out of the provers' reach.

**RowIndex_proofs.** `IndexLosesNothing`: looking a row up through the buckets of
text columns finds it exactly when a scan of all rows would, for any tolerance.

**Authentication_proofs.** `IInv` joins the types, `Path` (where a request of each
route can be, with a token that was minted), `Locked` (whoever decides about a
session holds the write lock and its row is still what the table says), `Final`
(`LogoutIsFinal` of one request), `StoreInv` (no two accounts of one id, no row
or cookie of a token not yet minted) and `CountInv` (each counter is the number
of requests at certain steps). `Locked` is what makes `LogoutIsFinal` inductive:
an accepted row can only be written back if it is still there. A step changes
one request (`Only`), so the argument is made of what it does to its own state,
to the store and to the counts, and of what cannot hurt the others.
`HashingAlwaysBounded` and `LogoutsAreFinal` follow; `Implementation` shows
every step to be one of `SessionLedger`'s or none, a restart's cleanup and a
user's deletion included.

The failure windows are proved in three steps. `LimiterInv` relates each key's
deque to the history of all requests: `Remembers` matches its stamps, one by one
and in the order they were recorded, with failures of that key that are not
forgiven; `Accounts` says that a failure which is not among them was recorded no
more than `e` after the edge of the window, or after any of the stamps that fill
the deque, for every `e` that bounds the delays. Both are needed:
counting a full deque as failures needs the first, and missing none the second.
`Attempt` ties a recorded failure to its two times, and finitely many failures
make them countable. With it, pruning from the left (`DropFirst`), appending to a
full deque, eviction of a key, the clearing after a success, a tick and a restart
are one lemma each. `LockedOutIsAlwaysRefused` and `RefusedOnlyForFailures` follow by counting.
`BoundsInv` then follows the dict: a key with a stamp is in `order`, what `Kept`
drops from it has none, and a key is only added within the bound; `TypeCorrectness`
and `TrackedKeysAreBounded` ("Memory is bounded: at most `max_tracked_keys` keys",
`limits.py:33-34`) are what comes of it. Looking for this proof showed
that the history variable `forgiven` also forgave failures that were still to
come, which hid them from `LockedOutIsRefused`; TLC confirms it with larger
constants, and `Authentication` is mended.

Only model-checked: the two liveness properties. Weak fairness and `ENABLED`
are beyond the prover. Of `EveryThreadFinishes` it shows the half that is safety
(above). `EnqueuedJobFinishes` rests on `SingleHolder`
and on a queue that only loses its head.

## 5. Order of the work

Done, in this order: dataset lifecycle, jobs, storage, request body,
conversation; sessions and authentication limits; planning, results and insights
as one pipeline; the proofs of each, of all safety properties the runs check.

What could come next: the pool of jobs composed with the two storage locks (a job
holds a worker while it waits for `cache_lock`), a delete during an analysis job,
means and medians with their tolerance, and the browser's cache of GETs.

## 6. Hazards

`PROJECT.json` lists each at its line. Four have no property: a crash between
the Parquet file and its manifest leaves a file nothing promises to collect; the
executor's queue has no bound, so there is none to state; the construction of a
DuckDB storage and the browser's cache are not modelled.

## 7. Findings

1. `double_delete`: of two concurrent deletes of one dataset, the loser gets a
   500; `dependencies.py` calls the 404 the one answer for a dataset "deleted
   mid-request". `delete_dataset` resolves first and does not catch
   `DatasetNotFoundError` from the registry (`routes/dataset.py:691`).
2. `startup_fails`: a manifest whose `open()` raises `OSError` ends the startup;
   `_recover_datasets` says it "never fails startup".
3. `context_accepted`: "break that down by ..." has no bound on groupings while
   the contract takes ten, so a long chain ends in a context the server refuses
   with 422; the panel takes that for a rejected follow-up and keeps the context,
   although `followUpContext.js` promises null when a response cannot be built on.
4. `failed_upload_saved`: the answer of an upload queries `row_count` after the
   dataset is registered and active (`routes/dataset.py:364`). If that query fails,
   or a delete has taken the dataset by then, the answer is a 500, "The dataset
   could not be saved" (`routes/dataset.py:383`); in the first case it is saved, and
   listed. A client that tries again has it twice.

Met while modelling, without a run of their own:

- If both unlinks of a delete fail, which is only logged, the next startup
  registers the dataset again (`dataset_registry.py:117-119` speaks of the
  registry in memory, where it does stay gone). `AcknowledgedDeleteIsFinal` says
  exactly this: one successful removal suffices.
- A "top n" whose ranking falls through is planned as if it had not been asked
  for, and "monthly sales by region" loses its grouping: the rules go on to the
  next form of question (`Planning!FastPlans`, `StandalonePlans`).
- Without a granularity, a group's date is labelled by its month
  (`insight_generator.py:521`), so two days of one month read the same; the
  comment above it (510-511) guards against that for daily buckets only.
- A missing date in a grouping column named like a date makes its label raise in
  `strftime`; the answer then goes without any insight. This is the premise of
  `InsightsAreKept`.
- With two grouping columns, the chart's y axis is `columns[1]`, the second
  grouping and not the metric (`visualization.py:57`). Charts are not modelled.
- A claim about the lowest group is not compared with anything when the context
  has none (`Insights!ExtremeVerified`); the generator never makes one then.

## 8. Not modelled, and why

- Text matching of the fast planner and of follow-ups, prompts, and the language
  model: to the models they are arbitrary sources of findings, edits and plans.
  Unknown operators in a model's filters are left out.
- Means and medians, relative tolerances, the parsing of dates, charts, timings
  and wording. Time columns hold dates, filters compare values of one type.
- The pandas engine: every uploaded dataset is stored as Parquet, so no route
  reaches it. The language model's insights, which no route asks for.
- The statistics of profiles, quality reports and metadata: data without state.
  Which queries they run, in which order and under which locks, is in
  `StorageAccess`.
- CSV validation: its failure is a failed ingestion.
- In-memory registration (`register_csv_bytes`, `set_dataframe`, `clear`): called
  by tests and scripts only. `GET /api/dataset` reads the registry once.
- Construction of a DuckDB storage: one step that succeeds or fails.
- `revoke_all_sessions`, which only tests call; malformed timestamps in a session
  row; the development mode without authentication; scrypt and the settings.
- The browser's cache, its sharing of requests in flight and its record of who is
  logged in: they hold nothing that is not fetched again on reload.
- Rendering, the other panels' loading states, scripts and benchmarks.
