-------------------------- MODULE DatasetLifecycle --------------------------
(***************************************************************************)
(* One API process and its storage directory: upload, delete, read and     *)
(* startup recovery of datasets.                                           *)
(*                                                                         *)
(*   data_engine/dataset_registry.py   registry (in memory)                *)
(*   data_engine/dataset_manager.py    active pointer, registration        *)
(*   data_engine/dataset_manifest.py   {id}.json sidecars (on disk)        *)
(*   data_engine/ingestion.py          {id}.parquet artifacts (on disk)    *)
(*   backend/routes/dataset.py         the request handlers                *)
(*   backend/main.py                   _recover_datasets at startup        *)
(*                                                                         *)
(* A request is one HTTP request running on its own worker thread; its     *)
(* steps are the critical sections and file operations of its handler, in  *)
(* order, so requests interleave wherever the threads can.  What is in     *)
(* memory dies with the process, the files do not.                         *)
(***************************************************************************)
EXTENDS Naturals

CONSTANTS
    User,           \* authenticated users
    Dataset,        \* the uuid4 ids that may be minted
    Request,        \* HTTP requests; each is used once
    NoUser, NoDataset, NoRequest,
    MaxCrashes      \* bound on process deaths and failed starts

Absent == "absent"
Torn   == "torn"

ASSUME SentinelAssumption ==
    /\ User \cap {NoUser, Absent, Torn} = {}
    /\ NoUser \notin {Absent, Torn}
    /\ NoDataset \notin Dataset
    /\ NoRequest \notin Request

ASSUME BoundAssumption == MaxCrashes \in Nat

VARIABLES
    \* on disk
    parquet,    \* {id}.parquet: absent, a partial file, or a whole one
    manifest,   \* {id}.json: absent, torn (open("w") done, body not), or its owner
    \* in memory
    process,    \* serving; down; or failed: down, and its last startup raised
    registry,   \* DatasetRegistry._datasets: the owner of each registered id
    storage,    \* the dataset's DuckDBStorage: none, open, closed, or stuck
                \* (connection.close() raised: _closed was never set)
    active,     \* DatasetManager._active_id
    \* requests
    op, caller, target, pc,
    upload,     \* upload[d]: the request that minted d
    \* observed, not part of the program
    kept,       \* files whose removal failed: <<id, "parquet" or "manifest">>
    crashes

diskVars == <<parquet, manifest, kept>>
memVars  == <<registry, storage, active>>
reqVars  == <<op, caller, target, pc, upload>>
vars     == <<diskVars, process, memVars, reqVars, crashes>>

-----------------------------------------------------------------------------
OwnerOrNone == User \cup {NoUser}

\* What a request ends with: 200, 404, 400/500, or no answer (the process died).
Answers == {"ok", "not_found", "failed", "lost"}

UploadPCs ==
    {"ingest", "writing", "select", "manifest", "manifest_body", "register",
     "activate", "describe", "rollback", "rollback_manifest", "rollback_parquet"}
DeletePCs == {"pop", "close", "rm_parquet", "rm_manifest", "clear"}
ReadPCs   == {"exists", "resolve", "get", "authorize", "read"}
Running   == UploadPCs \cup DeletePCs \cup ReadPCs

TypeOK ==
    /\ parquet  \in [Dataset -> {Absent, "partial", "whole"}]
    /\ manifest \in [Dataset -> User \cup {Absent, Torn}]
    /\ process \in {"serving", "down", "failed"}
    /\ registry \in [Dataset -> OwnerOrNone]
    /\ storage  \in [Dataset -> {"none", "open", "closed", "stuck"}]
    /\ active   \in Dataset \cup {NoDataset}
    /\ op       \in [Request -> {"none", "upload", "delete", "read"}]
    /\ caller   \in [Request -> OwnerOrNone]
    /\ target   \in [Request -> Dataset \cup {NoDataset}]
    /\ pc       \in [Request -> {"idle"} \cup Running \cup Answers]
    /\ upload   \in [Dataset -> Request \cup {NoRequest}]
    /\ kept     \in SUBSET (Dataset \X {"parquet", "manifest"})
    /\ crashes  \in 0 .. MaxCrashes

Init ==
    /\ parquet  = [d \in Dataset |-> Absent]
    /\ manifest = [d \in Dataset |-> Absent]
    /\ process = "serving"
    /\ registry = [d \in Dataset |-> NoUser]
    /\ storage  = [d \in Dataset |-> "none"]
    /\ active   = NoDataset
    /\ op       = [r \in Request |-> "none"]
    /\ caller   = [r \in Request |-> NoUser]
    /\ target   = [r \in Request |-> NoDataset]
    /\ pc       = [r \in Request |-> "idle"]
    /\ upload   = [d \in Dataset |-> NoRequest]
    /\ kept     = {}
    /\ crashes  = 0

-----------------------------------------------------------------------------
(* Vocabulary of the handlers.                                             *)

At(r, label) == process = "serving" /\ pc[r] = label

Goto(r, label) ==
    /\ pc' = [pc EXCEPT ![r] = label]
    /\ UNCHANGED <<op, caller, target, upload>>

\* A request arrives: the session has been validated, the caller is known.
Arrive(r, kind, u, d, label) ==
    /\ process = "serving"
    /\ pc[r] = "idle"
    /\ op'     = [op EXCEPT ![r] = kind]
    /\ caller' = [caller EXCEPT ![r] = u]
    /\ target' = [target EXCEPT ![r] = d]
    /\ pc'     = [pc EXCEPT ![r] = label]

\* os.remove guarded by os.path.exists; an OSError is logged and swallowed.
RemoveParquet(d) ==
    \/ /\ parquet' = [parquet EXCEPT ![d] = Absent]
       /\ UNCHANGED kept
    \/ /\ parquet[d] # Absent
       /\ kept' = kept \cup {<<d, "parquet">>}
       /\ UNCHANGED parquet

RemoveManifest(d) ==
    \/ /\ manifest' = [manifest EXCEPT ![d] = Absent]
       /\ UNCHANGED kept
    \/ /\ manifest[d] # Absent
       /\ kept' = kept \cup {<<d, "manifest">>}
       /\ UNCHANGED manifest

\* storage.close(): a failure is logged and the caller goes on.  That it waits
\* for the reads in flight is the subject of StorageAccess.
CloseStorage(d) ==
    \E outcome \in {"closed", "stuck"} :
        storage' = [storage EXCEPT ![d] = outcome]

-----------------------------------------------------------------------------
(* POST /api/dataset/upload: upload_dataset, ingest_to_parquet and         *)
(* register_ingested_dataset.                                              *)

\* The body has been copied and validated; the id is minted.
StartUpload(r, u, d) ==
    /\ upload[d] = NoRequest
    /\ Arrive(r, "upload", u, d, "ingest")
    /\ upload' = [upload EXCEPT ![d] = r]
    /\ UNCHANGED <<diskVars, process, memVars, crashes>>

\* The first batch creates the file.
OpenParquet(r) ==
    /\ At(r, "ingest")
    /\ parquet' = [parquet EXCEPT ![target[r]] = "partial"]
    /\ Goto(r, "writing")
    /\ UNCHANGED <<manifest, kept, process, memVars, crashes>>

\* writer.close() writes the footer: only now can the file be opened.
FinishParquet(r) ==
    /\ At(r, "writing")
    /\ parquet' = [parquet EXCEPT ![target[r]] = "whole"]
    /\ Goto(r, "select")
    /\ UNCHANGED <<manifest, kept, process, memVars, crashes>>

\* The CSV does not parse, or the disk fails: the partial file is removed.
IngestFails(r) ==
    /\ At(r, "ingest") \/ At(r, "writing")
    /\ RemoveParquet(target[r])
    /\ Goto(r, "failed")
    /\ UNCHANGED <<manifest, process, memVars, crashes>>

\* Mutant: the entry is registered as soon as its storage opens.
OpenStorageAndRegister(r) ==
    /\ At(r, "select")
    /\ storage'  = [storage EXCEPT ![target[r]] = "open"]
    /\ registry' = [registry EXCEPT ![target[r]] = caller[r]]
    /\ Goto(r, "manifest")
    /\ UNCHANGED <<diskVars, process, active, crashes>>

OpenStorage(r) ==
    /\ At(r, "select")
    /\ storage' = [storage EXCEPT ![target[r]] = "open"]
    /\ Goto(r, "manifest")
    /\ UNCHANGED <<diskVars, process, registry, active, crashes>>

OpenStorageFails(r) ==
    /\ At(r, "select")
    /\ RemoveParquet(target[r])
    /\ Goto(r, "failed")
    /\ UNCHANGED <<manifest, process, memVars, crashes>>

\* open(path, "w") leaves an empty file until json.dump and close are done.
CreateManifest(r) ==
    /\ At(r, "manifest")
    /\ manifest' = [manifest EXCEPT ![target[r]] = Torn]
    /\ Goto(r, "manifest_body")
    /\ UNCHANGED <<parquet, kept, process, memVars, crashes>>

\* Mutant: write_manifest forgets the owner (its owner_id check is dropped).
FillManifestUnowned(r) ==
    /\ At(r, "manifest_body")
    /\ manifest' = [manifest EXCEPT ![target[r]] = NoUser]
    /\ Goto(r, "register")
    /\ UNCHANGED <<parquet, kept, process, memVars, crashes>>

\* Mutant: registration does not wait for the manifest's body.
FillManifestLater(r) ==
    /\ At(r, "manifest_body")
    /\ Goto(r, "register")
    /\ UNCHANGED <<diskVars, process, memVars, crashes>>

FillManifest(r) ==
    /\ At(r, "manifest_body")
    /\ manifest' = [manifest EXCEPT ![target[r]] = caller[r]]
    /\ Goto(r, "register")
    /\ UNCHANGED <<parquet, kept, process, memVars, crashes>>

ManifestFails(r) ==
    /\ At(r, "manifest") \/ At(r, "manifest_body")
    /\ Goto(r, "rollback")
    /\ UNCHANGED <<diskVars, process, memVars, crashes>>

\* Mutant: the rollback does not close the storage it built.
RollbackWithoutClose(r) ==
    /\ At(r, "rollback")
    /\ Goto(r, "rollback_manifest")
    /\ UNCHANGED <<diskVars, process, memVars, crashes>>

RollbackStorage(r) ==
    /\ At(r, "rollback")
    /\ CloseStorage(target[r])
    /\ Goto(r, "rollback_manifest")
    /\ UNCHANGED <<diskVars, process, registry, active, crashes>>

RollbackManifest(r) ==
    /\ At(r, "rollback_manifest")
    /\ RemoveManifest(target[r])
    /\ Goto(r, "rollback_parquet")
    /\ UNCHANGED <<parquet, process, memVars, crashes>>

RollbackParquet(r) ==
    /\ At(r, "rollback_parquet")
    /\ RemoveParquet(target[r])
    /\ Goto(r, "failed")
    /\ UNCHANGED <<manifest, process, memVars, crashes>>

Register(r) ==
    /\ At(r, "register")
    /\ registry' = [registry EXCEPT ![target[r]] = caller[r]]
    /\ Goto(r, "activate")
    /\ UNCHANGED <<diskVars, process, storage, active, crashes>>

Activate(r) ==
    /\ At(r, "activate")
    /\ active' = target[r]
    /\ Goto(r, "describe")
    /\ UNCHANGED <<diskVars, process, registry, storage, crashes>>

\* What a query through the storage needs; one that has it may still fail in
\* DuckDB (I/O, memory, descriptors).  Once the storage is closed the error is
\* StorageClosedError; a view over a removed file fails with another one.
Readable(d) == storage[d] # "closed" /\ parquet[d] = "whole"

\* The answer carries dataset.row_count, a query: any error it raises is a 500,
\* with the dataset registered and active by then.
DescribeUpload(r) ==
    /\ At(r, "describe")
    /\ \/ Readable(target[r]) /\ Goto(r, "ok")
       \/ Goto(r, "failed")
    /\ UNCHANGED <<diskVars, process, memVars, crashes>>

-----------------------------------------------------------------------------
(* DELETE /api/dataset/{id}: resolve_dataset, DatasetRegistry.delete,      *)
(* DatasetManager.clear_dataset.                                           *)

\* authorize_dataset: anything but the caller's own registered dataset is a 404.
Authorized(u, d) == registry[d] # NoUser /\ registry[d] = u

StartDelete(r, u, d) ==
    /\ Arrive(r, "delete", u, d, IF Authorized(u, d) THEN "pop" ELSE "not_found")
    /\ UNCHANGED <<diskVars, process, memVars, upload, crashes>>

\* Another request may have popped the id since: DatasetNotFoundError, which
\* the route does not catch.
PopEntry(r) ==
    /\ At(r, "pop")
    /\ registry' = [registry EXCEPT ![target[r]] = NoUser]
    /\ Goto(r, IF registry[target[r]] = NoUser THEN "failed" ELSE "close")
    /\ UNCHANGED <<diskVars, process, storage, active, crashes>>

\* Mutant: the file is removed while the storage is still open.
RemoveBeforeClose(r) ==
    /\ At(r, "close")
    /\ RemoveParquet(target[r])
    /\ Goto(r, "rm_parquet")
    /\ UNCHANGED <<manifest, process, memVars, crashes>>

CloseDeleted(r) ==
    /\ At(r, "close")
    /\ CloseStorage(target[r])
    /\ Goto(r, "rm_parquet")
    /\ UNCHANGED <<diskVars, process, registry, active, crashes>>

\* Mutant: a failed unlink of the artifact skips the manifest's.
DeleteParquetOrStop(r) ==
    /\ At(r, "rm_parquet")
    /\ RemoveParquet(target[r])
    /\ Goto(r, IF parquet'[target[r]] = Absent THEN "rm_manifest" ELSE "clear")
    /\ UNCHANGED <<manifest, process, memVars, crashes>>

DeleteParquet(r) ==
    /\ At(r, "rm_parquet")
    /\ RemoveParquet(target[r])
    /\ Goto(r, "rm_manifest")
    /\ UNCHANGED <<manifest, process, memVars, crashes>>

DeleteManifest(r) ==
    /\ At(r, "rm_manifest")
    /\ RemoveManifest(target[r])
    /\ Goto(r, "clear")
    /\ UNCHANGED <<parquet, process, memVars, crashes>>

\* Mutant: the pointer is cleared only if is_loaded(), which asks the registry.
ClearActiveIfLoaded(r) ==
    /\ At(r, "clear")
    /\ active' = IF active = target[r] /\ registry[active] # NoUser
                 THEN NoDataset ELSE active
    /\ Goto(r, "ok")
    /\ UNCHANGED <<diskVars, process, registry, storage, crashes>>

ClearActive(r) ==
    /\ At(r, "clear")
    /\ active' = IF active = target[r] THEN NoDataset ELSE active
    /\ Goto(r, "ok")
    /\ UNCHANGED <<diskVars, process, registry, storage, crashes>>

-----------------------------------------------------------------------------
(* GET /api/dataset/{id}/... and, through the active pointer, the legacy   *)
(* GET /api/dataset/...: resolve_dataset, resolve_active_dataset, the read *)
(* under _missing_if_closed.                                               *)

StartRead(r, u, d) ==
    /\ Arrive(r, "read", u, d, IF Authorized(u, d) THEN "read" ELSE "not_found")
    /\ UNCHANGED <<diskVars, process, memVars, upload, crashes>>

\* has_dataset_loaded() reads the pointer, then asks the registry about it.
StartActiveRead(r, u) ==
    /\ Arrive(r, "read", u, active, IF active = NoDataset THEN "not_found" ELSE "exists")
    /\ UNCHANGED <<diskVars, process, memVars, upload, crashes>>

ActiveExists(r) ==
    /\ At(r, "exists")
    /\ Goto(r, IF registry[target[r]] = NoUser THEN "not_found" ELSE "resolve")
    /\ UNCHANGED <<diskVars, process, memVars, crashes>>

\* get_active_dataset() reads the pointer a second time.
ResolveActive(r) ==
    /\ At(r, "resolve")
    /\ target' = [target EXCEPT ![r] = active]
    /\ pc' = [pc EXCEPT ![r] = IF active = NoDataset THEN "not_found" ELSE "get"]
    /\ UNCHANGED <<diskVars, process, memVars, op, caller, upload, crashes>>

GetActive(r) ==
    /\ At(r, "get")
    /\ Goto(r, IF registry[target[r]] = NoUser THEN "not_found" ELSE "authorize")
    /\ UNCHANGED <<diskVars, process, memVars, crashes>>

AuthorizeActive(r) ==
    /\ At(r, "authorize")
    /\ Goto(r, IF Authorized(caller[r], target[r]) THEN "read" ELSE "not_found")
    /\ UNCHANGED <<diskVars, process, memVars, crashes>>

\* Mutant: the read goes through the active pointer again after authorization.
ReadThroughPointer(r) ==
    /\ At(r, "read")
    /\ active # NoDataset
    /\ target' = [target EXCEPT ![r] = active]
    /\ pc' = [pc EXCEPT ![r] = IF Readable(active) THEN "ok" ELSE "not_found"]
    /\ UNCHANGED <<diskVars, process, memVars, op, caller, upload, crashes>>

\* _missing_if_closed: only StorageClosedError becomes the 404.
ReadDataset(r) ==
    /\ At(r, "read")
    /\ \/ storage[target[r]] = "closed" /\ Goto(r, "not_found")
       \/ Readable(target[r]) /\ Goto(r, "ok")
       \/ storage[target[r]] # "closed" /\ Goto(r, "failed")
    /\ UNCHANGED <<diskVars, process, memVars, crashes>>

-----------------------------------------------------------------------------
(* The process dies; the lifespan handler of the next one recovers.        *)

Crash ==
    /\ process = "serving"
    /\ crashes < MaxCrashes
    /\ process' = "down"
    /\ registry' = [d \in Dataset |-> NoUser]
    /\ storage'  = [d \in Dataset |-> "none"]
    /\ active'   = NoDataset
    /\ pc' = [r \in Request |-> IF pc[r] \in Running THEN "lost" ELSE pc[r]]
    /\ crashes' = crashes + 1
    /\ UNCHANGED <<diskVars, op, caller, target, upload>>

\* Mutant: recovery does not look at the artifact a manifest names.
RecoverableByManifest(d) == manifest[d] \in User

\* A manifest read_manifest accepts, with an artifact DuckDB can open.
Recoverable(d) == manifest[d] \in User /\ parquet[d] = "whole"

\* _recover_datasets.  Opening may fail for other reasons too (unopened): that
\* dataset is skipped.
Recover ==
    /\ process # "serving"
    /\ \E unopened \in SUBSET {d \in Dataset : Recoverable(d)} :
          LET opened == {d \in Dataset : Recoverable(d)} \ unopened IN
            /\ registry' = [d \in Dataset |-> IF d \in opened THEN manifest[d] ELSE NoUser]
            /\ storage'  = [d \in Dataset |-> IF d \in opened THEN "open" ELSE "none"]
    /\ process' = "serving"
    /\ UNCHANGED <<diskVars, active, reqVars, crashes>>

\* read_manifest's open() raises OSError, which _recover_datasets does not
\* catch: startup fails and has to be tried again.
RecoverFails ==
    /\ process = "down"
    /\ \E d \in Dataset : manifest[d] # Absent
    /\ process' = "failed"
    /\ UNCHANGED <<diskVars, memVars, reqVars, crashes>>

-----------------------------------------------------------------------------
UploadStep(r) ==
    \/ OpenParquet(r)     \/ FinishParquet(r)    \/ IngestFails(r)
    \/ OpenStorage(r)     \/ OpenStorageFails(r)
    \/ CreateManifest(r)  \/ FillManifest(r)     \/ ManifestFails(r)
    \/ RollbackStorage(r) \/ RollbackManifest(r) \/ RollbackParquet(r)
    \/ Register(r)        \/ Activate(r)         \/ DescribeUpload(r)

DeleteStep(r) ==
    \/ PopEntry(r)       \/ CloseDeleted(r) \/ DeleteParquet(r)
    \/ DeleteManifest(r) \/ ClearActive(r)

ReadStep(r) ==
    \/ ActiveExists(r)    \/ ResolveActive(r) \/ GetActive(r)
    \/ AuthorizeActive(r) \/ ReadDataset(r)

Step(r) == UploadStep(r) \/ DeleteStep(r) \/ ReadStep(r)

Start(r) ==
    \E u \in User :
        \/ StartActiveRead(r, u)
        \/ \E d \in Dataset :
              StartUpload(r, u, d) \/ StartDelete(r, u, d) \/ StartRead(r, u, d)

Next ==
    \/ \E r \in Request : Start(r) \/ Step(r)
    \/ Crash \/ Recover \/ RecoverFails

Spec == Init /\ [][Next]_vars

-----------------------------------------------------------------------------
(* Properties.                                                             *)

\* Both files of d are complete.
Intact(d) == manifest[d] \in User /\ parquet[d] = "whole"

Uploader(d) == IF upload[d] = NoRequest THEN NoUser ELSE caller[upload[d]]

\* A delete of d passed its pop; one that died with the process may have.
DeleteBegan(d) ==
    \E r \in Request :
        /\ op[r] = "delete" /\ target[r] = d
        /\ pc[r] \in {"close", "rm_parquet", "rm_manifest", "clear", "ok", "lost"}

DeleteAcknowledged(d) ==
    \E r \in Request : op[r] = "delete" /\ target[r] = d /\ pc[r] = "ok"

\* Whatever the registry hands out is complete: its storage is open, its file
\* has its footer, and its manifest names the owner the registry names, who is
\* the user that uploaded it - under every interleaving of uploads, deletes,
\* rollbacks, crashes and recoveries.  (Registration comes last, the pop first.)
RegisteredIsBacked ==
    \A d \in Dataset : registry[d] # NoUser =>
        /\ process = "serving"
        /\ storage[d] = "open"
        /\ Intact(d)
        /\ manifest[d] = registry[d]
        /\ registry[d] = Uploader(d)

\* A read answered with data was of the caller's own upload, even when the
\* active pointer moved between the two times resolve_active_dataset reads it.
NoForeignRead ==
    \A r \in Request :
        op[r] = "read" /\ pc[r] = "ok" => Uploader(target[r]) = caller[r]

\* Upload r is complete on disk and, in the process that took it, registered.
Published(r) ==
    LET d == target[r] IN
    /\ Intact(d)
    /\ manifest[d] = caller[r]
    /\ crashes = 0 => registry[d] = caller[r]

\* Nothing of d is left but files whose removal failed, which no restart recovers.
Vanished(d) ==
    /\ registry[d] = NoUser
    /\ active # d
    /\ storage[d] # "open"
    /\ manifest[d] \notin User
    /\ parquet[d]  = Absent \/ <<d, "parquet">>  \in kept
    /\ manifest[d] = Absent \/ <<d, "manifest">> \in kept

\* An upload answered 200 survives any later crash: until somebody deletes it,
\* its file and manifest are complete on disk ("so datasets uploaded by a prior
\* process remain reachable after a restart", _recover_datasets).
AcknowledgedUploadSurvives ==
    \A r \in Request :
        op[r] = "upload" /\ pc[r] = "ok" /\ ~DeleteBegan(target[r]) => Published(r)

\* An upload answered with an error is whole or gone, never in between: either
\* only its answer failed and the dataset is as good as an acknowledged one, or
\* nothing is left of it (register_ingested_dataset's "never left behind") and
\* nothing comes back at a restart.
FailedUploadIsWholeOrGone ==
    \A r \in Request :
        op[r] = "upload" /\ pc[r] = "failed" /\ ~DeleteBegan(target[r])
            => Published(r) \/ Vanished(target[r])

\* A delete of d has popped its entry and is not answered yet.
DeleteUnderway(d) ==
    \E r \in Request :
        op[r] = "delete" /\ target[r] = d /\ pc[r] \in DeletePCs \ {"pop"}

\* The active pointer names an unregistered dataset only while a delete of it is
\* on its way to clear the pointer, or when a delete overtook the upload between
\* its registration and its activation - and that upload is never answered 200,
\* save over a file the delete could not remove.
DanglingPointerIsExplained ==
    \A d \in Dataset : active = d /\ registry[d] = NoUser =>
        \/ DeleteUnderway(d)
        \/ /\ DeleteAcknowledged(d)
           /\ pc[upload[d]] = "ok" => <<d, "parquet">> \in kept

\* After a delete answered 200 the dataset is never registered again, unless
\* both of its files could not be removed and the process was restarted: one
\* removal is enough to keep recovery from bringing it back.
AcknowledgedDeleteIsFinal ==
    \A d \in Dataset : DeleteAcknowledged(d) =>
        IF {<<d, "parquet">>, <<d, "manifest">>} \subseteq kept
        THEN crashes = 0 => registry[d] = NoUser
        ELSE registry[d] = NoUser /\ ~Intact(d)

\* A read that races a delete is a 404 and never a 500, save when closing the
\* storage failed: delete() closes the storage before it removes the file, so any
\* other read that fails has its file and fails for a reason of its own.
NoReadLosesItsFile ==
    [][\A r \in Request :
          op[r] = "read" /\ pc[r] \in Running /\ pc'[r] = "failed"
              => parquet[target[r]] = "whole" \/ storage[target[r]] = "stuck"]_vars

\* The program implements the promise of DatasetCatalog: committed before
\* visible, visible only while committed, restarted from what is committed.
Catalog == INSTANCE DatasetCatalog WITH
    owner   <- [d \in Dataset |-> Uploader(d)],
    durable <- [d \in Dataset |-> IF Intact(d) THEN manifest[d] ELSE NoUser],
    visible <- registry

ImplementsCatalog == Catalog!Spec

\* upload_dataset's answer to an error: "The dataset could not be saved due to a
\* server error. Please try again later."
FailedUploadIsNotSaved ==
    \A r \in Request :
        op[r] = "upload" /\ pc[r] = "failed" => registry[target[r]] = NoUser

\* dataset_not_found: "The one 404 every dataset-scoped route returns for a
\* dataset_id the caller can't use - missing, someone else's, or deleted
\* mid-request".
DeleteAnswers404WhenGone ==
    \A r \in Request : op[r] = "delete" => pc[r] # "failed"

\* _recover_datasets: "Never raises and never fails startup - a bad manifest
\* [...] is logged and that one dataset is skipped".
StartupNeverFails == process # "failed"

=============================================================================
