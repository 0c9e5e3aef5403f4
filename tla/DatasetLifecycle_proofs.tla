----------------------- MODULE DatasetLifecycle_proofs -----------------------
(***************************************************************************)
(* Proofs about DatasetLifecycle, for any sets of users, ids and requests  *)
(* and any number of crashes: types, every safety property the runs check  *)
(* and the implementation of DatasetCatalog.                               *)
(***************************************************************************)
EXTENDS DatasetLifecycle, TLAPS

-----------------------------------------------------------------------------
(* The inductive invariant.                                                *)

\* An id belongs to the one request that minted it, for ever.
Minted ==
    /\ \A r \in Request : op[r] = "upload" =>
          target[r] \in Dataset /\ upload[target[r]] = r
    /\ \A d \in Dataset : upload[d] # NoRequest =>
          /\ op[upload[d]] = "upload"
          /\ target[upload[d]] = d
          /\ caller[upload[d]] \in User

\* A request's program counter is one of its own handler's.
OwnHandler ==
    \A r \in Request :
        /\ pc[r] = "idle" => op[r] = "none"
        /\ pc[r] \in UploadPCs => op[r] = "upload"
        /\ pc[r] \in DeletePCs => op[r] = "delete"
        /\ pc[r] \in ReadPCs => op[r] = "read"
        /\ op[r] = "delete" => target[r] \in Dataset
        /\ op[r] = "read" /\ pc[r] \in {"exists", "get", "authorize", "read", "ok"}
              => target[r] \in Dataset

\* Nothing in memory, and nobody at work, while the process is down.
DownIsEmpty ==
    process # "serving" =>
        /\ crashes > 0
        /\ active = NoDataset
        /\ \A d \in Dataset : registry[d] = NoUser
        /\ \A r \in Request : pc[r] \notin Running

Registering == UploadPCs \ {"activate", "describe"}

\* Nothing exists under an id that has not been minted.
FreshIsEmpty ==
    \A d \in Dataset : upload[d] = NoRequest =>
        /\ parquet[d] = Absent
        /\ manifest[d] = Absent
        /\ storage[d] = "none"
        /\ active # d

\* What an upload finds under its id at each of its stages: no registry entry
\* and no pointer before the registration, nobody else's files, and at the
\* registration everything it relies on.
UploadInOrder ==
    \A r \in Request :
        LET d == target[r] IN
        /\ pc[r] \in Registering => registry[d] = NoUser /\ active # d
        /\ pc[r] \in {"ingest", "writing", "select"} => storage[d] = "none"
        /\ pc[r] \in {"ingest", "writing", "select", "manifest"} => manifest[d] = Absent
        /\ pc[r] \in {"select", "manifest", "manifest_body", "register"}
              => parquet[d] = "whole"
        /\ pc[r] \in {"manifest", "manifest_body", "register"} => storage[d] = "open"
        /\ pc[r] = "register" => manifest[d] = caller[r]
        /\ pc[r] \in {"manifest_body", "rollback", "rollback_manifest", "rollback_parquet"}
              => manifest[d] \in {Absent, Torn}
        /\ pc[r] \in {"rollback_manifest", "rollback_parquet"}
              => storage[d] \in {"closed", "stuck"}
        /\ pc[r] = "rollback_parquet" => manifest[d] = Absent \/ <<d, "manifest">> \in kept

\* A delete works on an id that was minted; past its pop, on one whose upload has
\* nothing left to write under it (one that died with the process, on one whose
\* upload is over), and takes things away in order: entry, storage, file, manifest.
DeleteInOrder ==
    \A r \in Request :
        LET d == target[r] IN
        /\ pc[r] \in DeletePCs \ {"pop"} => registry[d] = NoUser
        /\ pc[r] \in DeletePCs \ {"pop"} \/ (op[r] = "delete" /\ pc[r] = "ok")
              => upload[d] # NoRequest /\ pc[upload[d]] \notin Registering
        /\ pc[r] = "pop" => upload[d] # NoRequest
        /\ op[r] = "delete" /\ pc[r] = "lost"
              => upload[d] # NoRequest /\ pc[upload[d]] \notin Running
        /\ pc[r] \in {"rm_parquet", "rm_manifest", "clear"}
              => storage[d] \in {"closed", "stuck"}
        /\ pc[r] \in {"rm_manifest", "clear"} \/ (op[r] = "delete" /\ pc[r] = "ok")
              => parquet[d] = Absent \/ <<d, "parquet">> \in kept
        /\ pc[r] = "clear" \/ (op[r] = "delete" /\ pc[r] = "ok")
              => manifest[d] = Absent \/ <<d, "manifest">> \in kept

\* An open storage has its file.
OpenIsBacked == \A d \in Dataset : storage[d] = "open" => parquet[d] = "whole"

\* A manifest names the user who uploaded.
ManifestOfUploader ==
    \A d \in Dataset : manifest[d] \in User =>
        upload[d] # NoRequest /\ manifest[d] = Uploader(d)

\* A read that was authorized is of the caller's own upload, which some storage
\* was opened for in this process.
ReadOfOwn ==
    \A r \in Request : op[r] = "read" =>
        /\ pc[r] \in {"read", "ok"} => Uploader(target[r]) = caller[r] /\ caller[r] \in User
        /\ pc[r] = "read" => /\ storage[target[r]] # "none"
                             /\ upload[target[r]] # NoRequest
                             /\ pc[upload[target[r]]] \notin Registering

\* From its registration on an upload is complete and, in its own process,
\* registered, until a delete began.
PublishedSurvives ==
    \A r \in Request :
        LET d == target[r] IN
        op[r] = "upload" /\ pc[r] \in {"activate", "describe", "ok"} /\ ~DeleteBegan(d) =>
            /\ Intact(d)
            /\ manifest[d] = caller[r]
            /\ crashes = 0 \/ pc[r] # "ok" => registry[d] = caller[r]

Owners == TypeOK /\ Minted /\ OwnHandler /\ DownIsEmpty

Order ==
    /\ FreshIsEmpty
    /\ UploadInOrder
    /\ DeleteInOrder
    /\ OpenIsBacked
    /\ ManifestOfUploader
    /\ RegisteredIsBacked

Outcomes ==
    /\ ReadOfOwn
    /\ PublishedSurvives
    /\ FailedUploadIsWholeOrGone
    /\ AcknowledgedDeleteIsFinal
    /\ DanglingPointerIsExplained

IInv == Owners /\ Order /\ Outcomes

-----------------------------------------------------------------------------
\* The invariant holds before the first request.
LEMMA InitIInv == Init => IInv
<1> USE SentinelAssumption, BoundAssumption
    DEF IInv, Owners, Order, Outcomes, TypeOK, Minted, OwnHandler, DownIsEmpty, FreshIsEmpty, UploadInOrder,
        DeleteInOrder, OpenIsBacked, ManifestOfUploader, RegisteredIsBacked, ReadOfOwn,
        PublishedSurvives, FailedUploadIsWholeOrGone, DanglingPointerIsExplained,
        AcknowledgedDeleteIsFinal, Published, Vanished, DeleteUnderway,
        OwnerOrNone, Answers, Running, UploadPCs, DeletePCs, ReadPCs, Registering,
        Uploader, Intact, DeleteBegan, DeleteAcknowledged,
        diskVars, memVars, reqVars, At, Goto, Arrive, Absent, Torn
<1> QED  BY DEF Init

\* A running upload works under the id it minted, for its own user.
LEMMA UploadFacts ==
    ASSUME IInv, NEW r \in Request, pc[r] \in UploadPCs
    PROVE  /\ target[r] \in Dataset
           /\ upload[target[r]] = r
           /\ caller[r] \in User
           /\ op[r] = "upload"
           /\ Uploader(target[r]) = caller[r]
BY SentinelAssumption DEF IInv, Owners, Order, Outcomes, Minted, OwnHandler, Uploader

\* What UploadInOrder says of an upload that has not registered yet.
LEMMA RegisteringFacts ==
    ASSUME IInv, NEW r \in Request, pc[r] \in Registering
    PROVE  /\ registry[target[r]] = NoUser
           /\ pc[r] \in {"ingest", "writing", "select"}
                 => storage[target[r]] = "none" /\ manifest[target[r]] = Absent
           /\ pc[r] = "rollback_parquet"
                 => storage[target[r]] # "open" /\ manifest[target[r]] \in {Absent, Torn}
           /\ pc[r] = "register"
                 => /\ storage[target[r]] = "open"
                    /\ parquet[target[r]] = "whole"
                    /\ manifest[target[r]] = caller[r]
BY DEF IInv, Owners, Order, Outcomes, UploadInOrder

\* Past its pop, a delete meets no upload that could still register its id.
LEMMA DeletingFacts ==
    ASSUME IInv, NEW r \in Request, pc[r] \in DeletePCs \ {"pop"}
    PROVE  /\ target[r] \in Dataset
           /\ registry[target[r]] = NoUser
           /\ \A s \in Request : pc[s] \in Registering => target[s] # target[r]
<1>1. op[r] = "delete" /\ target[r] \in Dataset
  BY DEF IInv, Owners, Order, Outcomes, OwnHandler
<1>2. registry[target[r]] = NoUser /\ pc[upload[target[r]]] \notin Registering
  BY DEF IInv, Owners, Order, Outcomes, DeleteInOrder
<1>3. ASSUME NEW s \in Request, pc[s] \in Registering PROVE target[s] # target[r]
  <2>1. upload[target[s]] = s
    BY <1>3 DEF IInv, Owners, Order, Outcomes, OwnHandler, Minted, Registering
  <2> QED  BY <1>2, <1>3, <2>1
<1> QED  BY <1>1, <1>2, <1>3

\* Whoever authorize_dataset lets through uploaded the dataset, and it is open.
LEMMA AuthorizedFacts ==
    ASSUME IInv, NEW u \in User, NEW d \in Dataset, Authorized(u, d)
    PROVE  /\ Uploader(d) = u
           /\ storage[d] = "open"
           /\ upload[d] # NoRequest
           /\ pc[upload[d]] \notin Registering
<1>1. Uploader(d) = u /\ storage[d] = "open"
  BY DEF IInv, Owners, Order, Outcomes, RegisteredIsBacked, Authorized
<1>2. upload[d] # NoRequest
  BY <1>1 DEF Uploader, Authorized
<1>3. upload[d] \in Request /\ target[upload[d]] = d
  BY <1>2 DEF IInv, Owners, Order, Outcomes, TypeOK, Minted
<1>4. pc[upload[d]] \in Registering => registry[d] = NoUser
  BY <1>3 DEF IInv, Owners, Order, Outcomes, UploadInOrder
<1> QED  BY <1>1, <1>2, <1>4 DEF Authorized

\* An acknowledged delete has removed the file, or tried to.
LEMMA AcknowledgedDeleteFacts ==
    ASSUME IInv, NEW d \in Dataset, DeleteAcknowledged(d)
    PROVE  parquet[d] = Absent \/ <<d, "parquet">> \in kept
BY DEF IInv, Owners, Order, Outcomes, DeleteInOrder, DeleteAcknowledged

\* A delete that began under an upload still running has not died with a process.
LEMMA BeganUnderUpload ==
    ASSUME IInv, NEW r \in Request, pc[r] \in UploadPCs, DeleteBegan(target[r])
    PROVE  DeleteUnderway(target[r]) \/ DeleteAcknowledged(target[r])
<1>1. PICK s \in Request :
         /\ op[s] = "delete" /\ target[s] = target[r]
         /\ pc[s] \in {"close", "rm_parquet", "rm_manifest", "clear", "ok", "lost"}
  BY DEF DeleteBegan
<1>2. upload[target[s]] = r
  BY <1>1, UploadFacts
<1>3. pc[s] # "lost"
  BY <1>1, <1>2 DEF IInv, Owners, Order, Outcomes, DeleteInOrder, Running
<1> QED  BY <1>1, <1>3 DEF DeleteUnderway, DeleteAcknowledged, DeletePCs

\* An upload that has not registered yet meets no delete past its pop and no read
\* past its authorization, and the pointer is elsewhere.
LEMMA WorkingAlone ==
    ASSUME IInv, NEW r \in Request, pc[r] \in Registering
    PROVE  /\ active # target[r]
           /\ ~DeleteBegan(target[r])
           /\ \A s \in Request :
                 op[s] = "read" /\ pc[s] = "read" => target[s] # target[r]
<1>1. upload[target[r]] = r /\ pc[r] \in Running
  BY UploadFacts DEF Registering, Running
<1>2. active # target[r]
  BY DEF IInv, Owners, Order, Outcomes, UploadInOrder
<1>3. ~DeleteBegan(target[r])
  <2>1. ASSUME NEW s \in Request, op[s] = "delete", target[s] = target[r],
               pc[s] \in {"close", "rm_parquet", "rm_manifest", "clear", "ok", "lost"}
        PROVE  FALSE
    BY <1>1, <2>1 DEF IInv, Owners, Order, Outcomes, DeleteInOrder, DeletePCs
  <2> QED  BY <2>1 DEF DeleteBegan
<1>4. \A s \in Request : op[s] = "read" /\ pc[s] = "read" => target[s] # target[r]
  BY <1>1 DEF IInv, Owners, Order, Outcomes, ReadOfOwn
<1> QED  BY <1>2, <1>3, <1>4

\* So whatever it does to its own files, storage and program counter leaves every
\* outcome as it was, if a failure leaves nothing of it.
LEMMA WorkingOutcomes ==
    ASSUME IInv, NEW r \in Request, pc[r] \in Registering,
           NEW label \in Registering \cup {"failed"},
           pc' = [pc EXCEPT ![r] = label],
           UNCHANGED <<registry, active, op, caller, target, upload, crashes>>,
           kept \subseteq kept',
           \A e \in Dataset : e # target[r] =>
              parquet'[e] = parquet[e] /\ manifest'[e] = manifest[e] /\ storage'[e] = storage[e],
           label = "failed" => Vanished(target[r])'
    PROVE  Outcomes'
<1> DEFINE d == target[r]
<1>1. d \in Dataset /\ upload[d] = r /\ op[r] = "upload"
  BY UploadFacts DEF Registering
<1>2. active # d /\ ~DeleteBegan(d)
      /\ \A s \in Request : op[s] = "read" /\ pc[s] = "read" => target[s] # d
  BY WorkingAlone
<1> HIDE DEF d
<1>3. \A s \in Request : op[s] = "upload" /\ s # r => target[s] \in Dataset /\ target[s] # d
  BY <1>1 DEF IInv, Owners, Minted
<1>4. pc \in [Request -> {"idle"} \cup Running \cup Answers]
      /\ \A e \in Dataset : upload[e] # NoRequest => upload[e] \in Request
  BY DEF IInv, Owners, TypeOK
<1>5. \A s \in Request : s # r => pc'[s] = pc[s]
  BY <1>4
<1>6. pc'[r] = label
  BY <1>4
<1>7. \A e \in Dataset : DeleteBegan(e)' <=> DeleteBegan(e)
  BY <1>1, <1>5 DEF DeleteBegan
<1>8. ReadOfOwn'
  <2>1. ASSUME NEW s \in Request, op[s] = "read"
        PROVE  /\ pc[s] \in {"read", "ok"} => Uploader(target[s]) = caller[s] /\ caller[s] \in User
               /\ pc[s] = "read" => /\ storage[target[s]] # "none"
                                    /\ upload[target[s]] # NoRequest
                                    /\ pc[upload[target[s]]] \notin Registering
                                    /\ target[s] \in Dataset
    BY <2>1 DEF IInv, Outcomes, ReadOfOwn, Owners, OwnHandler
  <2>2. \A s \in Request : op[s] = "read" => s # r /\ pc'[s] = pc[s]
    BY <1>1, <1>5
  <2>3. ASSUME NEW s \in Request, op[s] = "read", pc[s] = "read"
        PROVE  /\ storage'[target[s]] = storage[target[s]]
               /\ pc'[upload[target[s]]] = pc[upload[target[s]]]
    <3>1. target[s] \in Dataset /\ target[s] # d /\ upload[target[s]] \in Request
          /\ pc[upload[target[s]]] \notin Registering
      BY <1>2, <1>4, <2>1, <2>3
    <3> QED  BY <1>5, <3>1 DEF d
  <2> QED  BY <2>1, <2>2, <2>3 DEF ReadOfOwn, Uploader
<1>9. PublishedSurvives'
  <2>1. ASSUME NEW s \in Request, op[s] = "upload",
               pc'[s] \in {"activate", "describe", "ok"}, ~DeleteBegan(target[s])
        PROVE  /\ Intact(target[s])'
               /\ manifest'[target[s]] = caller[s]
               /\ crashes = 0 \/ pc'[s] # "ok" => registry[target[s]] = caller[s]
    <3>1. s # r
      BY <1>6, <2>1 DEF Registering, UploadPCs
    <3>2. /\ Intact(target[s])
          /\ manifest[target[s]] = caller[s]
          /\ crashes = 0 \/ pc[s] # "ok" => registry[target[s]] = caller[s]
      BY <1>5, <2>1, <3>1 DEF IInv, Outcomes, PublishedSurvives
    <3>3. target[s] \in Dataset /\ target[s] # d
      BY <1>3, <2>1, <3>1
    <3> QED  BY <1>5, <3>1, <3>2, <3>3 DEF Intact, d
  <2>2. \A s \in Request : op[s] = "upload" => target[s] \in Dataset
    BY DEF IInv, Owners, Minted
  <2> QED  BY <1>7, <2>1, <2>2 DEF PublishedSurvives
<1>10. FailedUploadIsWholeOrGone'
  <2>1. ASSUME NEW s \in Request, op[s] = "upload", pc'[s] = "failed",
               ~DeleteBegan(target[s]), s # r
        PROVE  Published(s)' \/ Vanished(target[s])'
    <3>1. Published(s) \/ Vanished(target[s])
      BY <1>5, <2>1 DEF IInv, Outcomes, FailedUploadIsWholeOrGone
    <3>2. target[s] \in Dataset /\ target[s] # d
      BY <1>3, <2>1
    <3> QED  BY <3>1, <3>2 DEF Published, Vanished, Intact, d
  <2>2. pc'[r] = "failed" => Vanished(target[r])'
    BY <1>6
  <2>3. \A s \in Request : op[s] = "upload" => target[s] \in Dataset
    BY DEF IInv, Owners, Minted
  <2> QED  BY <1>7, <2>1, <2>2, <2>3 DEF FailedUploadIsWholeOrGone
<1>11. \A e \in Dataset : /\ DeleteAcknowledged(e)' <=> DeleteAcknowledged(e)
                          /\ DeleteAcknowledged(e) => DeleteBegan(e)
                          /\ DeleteUnderway(e) => DeleteUnderway(e)'
  BY <1>1, <1>5 DEF DeleteAcknowledged, DeleteBegan, DeleteUnderway
<1>12. AcknowledgedDeleteIsFinal'
  <2>1. ASSUME NEW e \in Dataset, DeleteAcknowledged(e)
        PROVE  (IF {<<e, "parquet">>, <<e, "manifest">>} \subseteq kept
                THEN crashes = 0 => registry[e] = NoUser
                ELSE registry[e] = NoUser /\ ~Intact(e))'
    <3>1. e # d
      BY <1>2, <1>11, <2>1
    <3>2. IF {<<e, "parquet">>, <<e, "manifest">>} \subseteq kept
          THEN crashes = 0 => registry[e] = NoUser
          ELSE registry[e] = NoUser /\ ~Intact(e)
      BY <2>1 DEF IInv, Outcomes, AcknowledgedDeleteIsFinal
    <3> QED  BY <3>1, <3>2 DEF Intact, d
  <2> QED  BY <1>11, <2>1 DEF AcknowledgedDeleteIsFinal
<1>13. DanglingPointerIsExplained'
  <2>1. ASSUME NEW e \in Dataset, active = e, registry[e] = NoUser
        PROVE  (\/ DeleteUnderway(e)
                \/ DeleteAcknowledged(e) /\ (pc[upload[e]] = "ok" => <<e, "parquet">> \in kept))'
    <3>1. upload[e] \in Request /\ upload[e] # r
      BY <1>2, <1>4, <2>1 DEF IInv, Owners, Minted, Order, FreshIsEmpty, d
    <3>2. \/ DeleteUnderway(e)
          \/ DeleteAcknowledged(e) /\ (pc[upload[e]] = "ok" => <<e, "parquet">> \in kept)
      BY <2>1 DEF IInv, Outcomes, DanglingPointerIsExplained
    <3> QED  BY <1>5, <1>11, <3>1, <3>2
  <2> QED  BY <2>1 DEF DanglingPointerIsExplained
<1> QED  BY <1>8, <1>9, <1>10, <1>12, <1>13 DEF Outcomes

\* An arriving request, or a reader, leaves the outcomes of all others as they were.
LEMMA BystanderOutcomes ==
    ASSUME IInv, NEW r \in Request, op[r] \in {"none", "read"},
           UNCHANGED <<parquet, manifest, kept, registry, storage, active, crashes>>,
           \A s \in Request : s # r => /\ op'[s] = op[s] /\ caller'[s] = caller[s]
                                       /\ target'[s] = target[s] /\ pc'[s] = pc[s],
           op'[r] = "upload" => pc'[r] = "ingest",
           op'[r] = "delete" => pc'[r] \in {"pop", "not_found"},
           \A e \in Dataset : upload[e] # NoRequest => upload'[e] = upload[e]
    PROVE  /\ PublishedSurvives'
           /\ FailedUploadIsWholeOrGone'
           /\ AcknowledgedDeleteIsFinal'
           /\ DanglingPointerIsExplained'
<1>1. \A s \in Request :
         op'[s] = "upload" /\ pc'[s] # "ingest" => s # r /\ target[s] \in Dataset
  BY DEF IInv, Owners, Minted
<1>2. ASSUME NEW e \in Dataset
      PROVE  /\ DeleteBegan(e)' <=> DeleteBegan(e)
             /\ DeleteAcknowledged(e)' <=> DeleteAcknowledged(e)
             /\ DeleteUnderway(e)' <=> DeleteUnderway(e)
  <2>1. DeleteBegan(e)' <=> DeleteBegan(e)
    BY DEF DeleteBegan
  <2>2. DeleteAcknowledged(e)' <=> DeleteAcknowledged(e)
    BY DEF DeleteAcknowledged
  <2>3. DeleteUnderway(e)' <=> DeleteUnderway(e)
    BY DEF DeleteUnderway, DeletePCs
  <2> QED  BY <2>1, <2>2, <2>3
<1>3. PublishedSurvives'
  <2>1. PublishedSurvives
    BY DEF IInv, Outcomes
  <2> QED  BY <1>1, <1>2, <2>1 DEF PublishedSurvives, Intact
<1>4. FailedUploadIsWholeOrGone'
  <2>1. FailedUploadIsWholeOrGone
    BY DEF IInv, Outcomes
  <2>2. \A s \in Request : s # r => (Published(s)' <=> Published(s))
    BY DEF Published, Intact
  <2>3. \A e \in Dataset : Vanished(e)' <=> Vanished(e)
    BY DEF Vanished
  <2>4. ASSUME NEW s \in Request, op'[s] = "upload", pc'[s] = "failed",
               ~DeleteBegan(target[s])
        PROVE  s # r /\ (Published(s)' \/ Vanished(target[s])')
    BY <1>1, <2>1, <2>2, <2>3, <2>4 DEF FailedUploadIsWholeOrGone
  <2> QED  BY <1>1, <1>2, <2>4 DEF FailedUploadIsWholeOrGone
<1>5. AcknowledgedDeleteIsFinal'
  <2>1. AcknowledgedDeleteIsFinal
    BY DEF IInv, Outcomes
  <2> QED  BY <1>2, <2>1 DEF AcknowledgedDeleteIsFinal, Intact
<1>6. DanglingPointerIsExplained'
  <2>1. DanglingPointerIsExplained
    BY DEF IInv, Outcomes
  <2>2. \A e \in Dataset : active = e =>
           /\ upload[e] \in Request
           /\ upload[e] # r
           /\ upload'[e] = upload[e]
    BY DEF IInv, Owners, TypeOK, Minted, Order, FreshIsEmpty
  <2> QED  BY <1>2, <2>1, <2>2 DEF DanglingPointerIsExplained
<1> QED  BY <1>3, <1>4, <1>5, <1>6

\* Up to its registration an upload's every step is of that kind.
LEMMA WorkingStepOutcomes ==
    ASSUME IInv, NEW r \in Request,
           \/ OpenParquet(r)    \/ FinishParquet(r)    \/ IngestFails(r)
           \/ OpenStorage(r)    \/ OpenStorageFails(r)
           \/ CreateManifest(r) \/ FillManifest(r)     \/ ManifestFails(r)
           \/ RollbackStorage(r) \/ RollbackManifest(r) \/ RollbackParquet(r)
    PROVE  Outcomes'
<1>1. pc[r] \in Registering
  BY DEF OpenParquet, FinishParquet, IngestFails, OpenStorage, OpenStorageFails,
     CreateManifest, FillManifest, ManifestFails, RollbackStorage, RollbackManifest,
     RollbackParquet, At, Registering, UploadPCs
<1>2. target[r] \in Dataset
  BY <1>1, UploadFacts DEF Registering
<1>3. /\ parquet \in [Dataset -> {Absent, "partial", "whole"}]
      /\ manifest \in [Dataset -> User \cup {Absent, Torn}]
      /\ storage \in [Dataset -> {"none", "open", "closed", "stuck"}]
  BY DEF IInv, Owners, TypeOK
<1>4. /\ UNCHANGED <<registry, active, op, caller, target, upload, crashes>>
      /\ kept \subseteq kept'
      /\ \A e \in Dataset : e # target[r] =>
            parquet'[e] = parquet[e] /\ manifest'[e] = manifest[e] /\ storage'[e] = storage[e]
  BY <1>2, <1>3 DEF OpenParquet, FinishParquet, IngestFails, OpenStorage, OpenStorageFails,
     CreateManifest, FillManifest, ManifestFails, RollbackStorage, RollbackManifest,
     RollbackParquet, RemoveParquet, RemoveManifest, CloseStorage, Goto, diskVars, memVars
<1>5. CASE IngestFails(r) \/ OpenStorageFails(r) \/ RollbackParquet(r)
  <2>1. pc' = [pc EXCEPT ![r] = "failed"]
    BY <1>5 DEF IngestFails, OpenStorageFails, RollbackParquet, Goto
  <2>2. /\ registry[target[r]] = NoUser
        /\ active # target[r]
        /\ storage[target[r]] # "open"
        /\ manifest[target[r]] \in {Absent, Torn}
        /\ manifest[target[r]] = Absent \/ <<target[r], "manifest">> \in kept
    BY <1>1, <1>5, RegisteringFacts, WorkingAlone
       DEF IngestFails, OpenStorageFails, RollbackParquet, At,
           IInv, Order, UploadInOrder
  <2>3. UNCHANGED <<storage, manifest>>
    BY <1>5 DEF IngestFails, OpenStorageFails, RollbackParquet, memVars
  <2>4. parquet'[target[r]] = Absent \/ <<target[r], "parquet">> \in kept'
    BY <1>2, <1>3, <1>5 DEF IngestFails, OpenStorageFails, RollbackParquet, RemoveParquet
  <2>5. Vanished(target[r])'
    BY <1>4, <2>2, <2>3, <2>4, SentinelAssumption DEF Vanished
  <2> QED  BY <1>1, <1>4, <2>1, <2>5, WorkingOutcomes
<1>6. CASE ~(IngestFails(r) \/ OpenStorageFails(r) \/ RollbackParquet(r))
  <2>1. PICK label \in Registering : pc' = [pc EXCEPT ![r] = label]
    BY <1>6 DEF OpenParquet, FinishParquet, OpenStorage, CreateManifest, FillManifest,
       ManifestFails, RollbackStorage, RollbackManifest, Goto, Registering, UploadPCs
  <2>2. label # "failed"
    BY DEF Registering, UploadPCs
  <2> QED  BY <1>1, <1>4, <2>1, <2>2, WorkingOutcomes
<1> QED  BY <1>5, <1>6

\* Every step of upload_dataset keeps the invariant.
LEMMA UploadStepIInv ==
    ASSUME IInv, NEW r \in Request, UploadStep(r)
    PROVE  IInv'
<1>w. ~Register(r) /\ ~Activate(r) /\ ~DescribeUpload(r) => Outcomes'
  BY WorkingStepOutcomes DEF UploadStep
<1>a. pc[r] \in UploadPCs
  BY DEF UploadStep, OpenParquet, FinishParquet, IngestFails, OpenStorage,
     OpenStorageFails, CreateManifest, FillManifest, ManifestFails, RollbackStorage,
     RollbackManifest, RollbackParquet, Register, Activate, DescribeUpload, At, UploadPCs
<1>0. /\ target[r] \in Dataset
      /\ upload[target[r]] = r
      /\ caller[r] \in User
      /\ op[r] = "upload"
  BY <1>a, UploadFacts
<1>b. DeleteBegan(target[r])
         => DeleteUnderway(target[r]) \/ DeleteAcknowledged(target[r])
  BY <1>a, BeganUnderUpload
<1>c. pc[r] \notin {"activate", "describe"} => registry[target[r]] = NoUser
  BY <1>a, RegisteringFacts DEF Registering
<1>d. pc[r] \in {"ingest", "writing", "select"} => storage[target[r]] = "none" /\ manifest[target[r]] = Absent
  BY <1>a, RegisteringFacts DEF Registering
<1>e. pc[r] \in {"select", "manifest", "manifest_body", "register"}
         => parquet[target[r]] = "whole"
  BY DEF IInv, Owners, Order, Outcomes, UploadInOrder
<1> USE SentinelAssumption, BoundAssumption
    DEF IInv, Owners, Order, Outcomes, TypeOK, Minted, OwnHandler, DownIsEmpty, FreshIsEmpty, UploadInOrder,
        DeleteInOrder, OpenIsBacked, ManifestOfUploader, RegisteredIsBacked, ReadOfOwn,
        PublishedSurvives, FailedUploadIsWholeOrGone, DanglingPointerIsExplained,
        AcknowledgedDeleteIsFinal, Published, Vanished, DeleteUnderway,
        OwnerOrNone, Answers, Running, UploadPCs, DeletePCs, ReadPCs, Registering,
        Uploader, Intact, DeleteBegan, DeleteAcknowledged,
        diskVars, memVars, reqVars, At, Goto, Arrive, Absent, Torn
<1>1. ASSUME OpenParquet(r) PROVE Owners' /\ Order'
  <2>1. registry[target[r]] = NoUser /\ storage[target[r]] = "none"
    BY <1>c, <1>d, <1>1 DEF OpenParquet
  <2>2. \A e \in Dataset : e # target[r] => parquet'[e] = parquet[e]
    BY <1>0, <1>1 DEF OpenParquet
  <2>3. UNCHANGED <<manifest, kept, process, registry, storage, active, op, caller, target,
                    upload, crashes>>
    BY <1>0, <1>1 DEF OpenParquet
  <2>4. OpenIsBacked'
    BY <1>0, <2>1, <2>2, <2>3
  <2>5. RegisteredIsBacked'
    BY <1>0, <2>1, <2>2, <2>3
  <2>6. Owners'
    <3>1. TypeOK' /\ DownIsEmpty'
      BY <1>0, <1>1 DEF OpenParquet
    <3>2. Minted' /\ OwnHandler'
      BY <1>0, <1>1 DEF OpenParquet
    <3> QED  BY <3>1, <3>2 DEF Owners
  <2>7. FreshIsEmpty' /\ UploadInOrder' /\ DeleteInOrder' /\ ManifestOfUploader'
    BY <1>0, <1>1 DEF OpenParquet
  <2> QED  BY <2>4, <2>5, <2>6, <2>7
<1>2. ASSUME FinishParquet(r) PROVE Owners' /\ Order'
  <2>1. Owners'
    <3>1. TypeOK' /\ DownIsEmpty'
      BY <1>0, <1>2 DEF FinishParquet
    <3>2. Minted' /\ OwnHandler'
      BY <1>0, <1>2 DEF FinishParquet
    <3> QED  BY <3>1, <3>2 DEF Owners
  <2>2. Order'
    BY <1>0, <1>2 DEF FinishParquet
  <2> QED  BY <2>1, <2>2
<1>3. ASSUME IngestFails(r) PROVE Owners' /\ Order'
  <2>1. /\ registry[target[r]] = NoUser
        /\ storage[target[r]] = "none"
        /\ manifest[target[r]] = Absent
    BY <1>c, <1>d, <1>3 DEF IngestFails
  <2>2. \A e \in Dataset : e # target[r] => parquet'[e] = parquet[e]
    BY <1>0, <1>3 DEF IngestFails, RemoveParquet
  <2>3. UNCHANGED <<manifest, process, registry, storage, active, op, caller, target, upload,
                    crashes>>
    BY <1>0, <1>3 DEF IngestFails, RemoveParquet
  <2>4. \A s \in Request : s # r => pc'[s] = pc[s]
    BY <1>0, <1>3 DEF IngestFails, RemoveParquet
  <2>5. OpenIsBacked'
    BY <1>0, <2>1, <2>2, <2>3, <2>4
  <2>6. RegisteredIsBacked'
    BY <1>0, <2>1, <2>2, <2>3, <2>4
  <2>8. Owners'
    <3>1. TypeOK' /\ DownIsEmpty'
      BY <1>0, <1>3 DEF IngestFails, RemoveParquet
    <3>2. Minted' /\ OwnHandler'
      BY <1>0, <1>3 DEF IngestFails, RemoveParquet
    <3> QED  BY <3>1, <3>2 DEF Owners
  <2>9. FreshIsEmpty' /\ UploadInOrder' /\ DeleteInOrder' /\ ManifestOfUploader'
    BY <1>0, <1>3 DEF IngestFails, RemoveParquet
  <2> QED  BY <2>5, <2>6, <2>8, <2>9
<1>4. ASSUME OpenStorage(r) PROVE Owners' /\ Order'
  <2>1. parquet[target[r]] = "whole"
    BY <1>e, <1>4 DEF OpenStorage
  <2>2. \A e \in Dataset : e # target[r] => storage'[e] = storage[e]
    BY <1>0, <1>4 DEF OpenStorage
  <2>3. UNCHANGED <<parquet, manifest, kept, process, registry, active, op, caller, target,
                    upload, crashes>>
    BY <1>0, <1>4 DEF OpenStorage
  <2>4. OpenIsBacked'
    BY <1>0, <2>1, <2>2, <2>3
  <2>5. Owners'
    <3>1. TypeOK' /\ DownIsEmpty'
      BY <1>0, <1>4 DEF OpenStorage
    <3>2. Minted' /\ OwnHandler'
      BY <1>0, <1>4 DEF OpenStorage
    <3> QED  BY <3>1, <3>2 DEF Owners
  <2>6. /\ FreshIsEmpty' /\ UploadInOrder' /\ DeleteInOrder' /\ ManifestOfUploader'
        /\ RegisteredIsBacked'
    BY <1>0, <1>4 DEF OpenStorage
  <2> QED  BY <2>4, <2>5, <2>6
<1>5. ASSUME OpenStorageFails(r) PROVE Owners' /\ Order'
  <2>1. /\ registry[target[r]] = NoUser
        /\ storage[target[r]] = "none"
        /\ manifest[target[r]] = Absent
    BY <1>c, <1>d, <1>5 DEF OpenStorageFails
  <2>2. \A e \in Dataset : e # target[r] => parquet'[e] = parquet[e]
    BY <1>0, <1>5 DEF OpenStorageFails, RemoveParquet
  <2>3. UNCHANGED <<manifest, process, registry, storage, active, op, caller, target, upload,
                    crashes>>
    BY <1>0, <1>5 DEF OpenStorageFails, RemoveParquet
  <2>4. \A s \in Request : s # r => pc'[s] = pc[s]
    BY <1>0, <1>5 DEF OpenStorageFails, RemoveParquet
  <2>5. OpenIsBacked'
    BY <1>0, <2>1, <2>2, <2>3, <2>4
  <2>6. RegisteredIsBacked'
    BY <1>0, <2>1, <2>2, <2>3, <2>4
  <2>8. Owners'
    <3>1. TypeOK' /\ DownIsEmpty'
      BY <1>0, <1>5 DEF OpenStorageFails, RemoveParquet
    <3>2. Minted' /\ OwnHandler'
      BY <1>0, <1>5 DEF OpenStorageFails, RemoveParquet
    <3> QED  BY <3>1, <3>2 DEF Owners
  <2>9. FreshIsEmpty' /\ UploadInOrder' /\ DeleteInOrder' /\ ManifestOfUploader'
    BY <1>0, <1>5 DEF OpenStorageFails, RemoveParquet
  <2> QED  BY <2>5, <2>6, <2>8, <2>9
<1>6. ASSUME CreateManifest(r) PROVE Owners' /\ Order'
  <2>1. registry[target[r]] = NoUser
    BY <1>c, <1>6 DEF CreateManifest
  <2>2. \A e \in Dataset : e # target[r] => manifest'[e] = manifest[e]
    BY <1>0, <1>6 DEF CreateManifest
  <2>3. UNCHANGED <<parquet, kept, process, registry, storage, active, op, caller, target,
                    upload, crashes>>
    BY <1>0, <1>6 DEF CreateManifest
  <2>4. RegisteredIsBacked'
    BY <1>0, <2>1, <2>2, <2>3
  <2>5. Owners'
    <3>1. TypeOK' /\ DownIsEmpty'
      BY <1>0, <1>6 DEF CreateManifest
    <3>2. Minted' /\ OwnHandler'
      BY <1>0, <1>6 DEF CreateManifest
    <3> QED  BY <3>1, <3>2 DEF Owners
  <2>6. /\ FreshIsEmpty' /\ UploadInOrder' /\ DeleteInOrder' /\ OpenIsBacked'
        /\ ManifestOfUploader'
    BY <1>0, <1>6 DEF CreateManifest
  <2> QED  BY <2>4, <2>5, <2>6
<1>7. ASSUME FillManifest(r) PROVE Owners' /\ Order'
  <2>1. Owners'
    <3>1. TypeOK' /\ DownIsEmpty'
      BY <1>0, <1>7 DEF FillManifest
    <3>2. Minted' /\ OwnHandler'
      BY <1>0, <1>7 DEF FillManifest
    <3> QED  BY <3>1, <3>2 DEF Owners
  <2>2. Order'
    BY <1>0, <1>7 DEF FillManifest
  <2> QED  BY <2>1, <2>2
<1>8. ASSUME ManifestFails(r) PROVE Owners' /\ Order'
  <2>1. Owners'
    <3>1. TypeOK' /\ DownIsEmpty'
      BY <1>0, <1>8 DEF ManifestFails
    <3>2. Minted' /\ OwnHandler'
      BY <1>0, <1>8 DEF ManifestFails
    <3> QED  BY <3>1, <3>2 DEF Owners
  <2>2. Order'
    BY <1>0, <1>8 DEF ManifestFails
  <2> QED  BY <2>1, <2>2
<1>9. ASSUME RollbackStorage(r) PROVE Owners' /\ Order'
  <2>1. registry[target[r]] = NoUser
    BY <1>c, <1>9 DEF RollbackStorage, CloseStorage
  <2>2. \A e \in Dataset : e # target[r] => storage'[e] = storage[e]
    BY <1>0, <1>9 DEF RollbackStorage, CloseStorage
  <2>3. UNCHANGED <<parquet, manifest, kept, process, registry, active, op, caller, target,
                    upload, crashes>>
    BY <1>0, <1>9 DEF RollbackStorage, CloseStorage
  <2>4. RegisteredIsBacked'
    BY <1>0, <2>1, <2>2, <2>3
  <2>5. Owners'
    <3>1. TypeOK' /\ DownIsEmpty'
      BY <1>0, <1>9 DEF RollbackStorage, CloseStorage
    <3>2. Minted' /\ OwnHandler'
      BY <1>0, <1>9 DEF RollbackStorage, CloseStorage
    <3> QED  BY <3>1, <3>2 DEF Owners
  <2>6. FreshIsEmpty' /\ UploadInOrder'
    BY <1>0, <1>9 DEF RollbackStorage, CloseStorage
  <2>7. DeleteInOrder' /\ OpenIsBacked' /\ ManifestOfUploader'
    BY <1>0, <1>9 DEF RollbackStorage, CloseStorage
  <2> QED  BY <2>4, <2>5, <2>6, <2>7
<1>10. ASSUME RollbackManifest(r) PROVE Owners' /\ Order'
  <2>1. registry[target[r]] = NoUser
    BY <1>c, <1>10 DEF RollbackManifest, RemoveManifest
  <2>2. \A e \in Dataset : e # target[r] => manifest'[e] = manifest[e]
    BY <1>0, <1>10 DEF RollbackManifest, RemoveManifest
  <2>3. UNCHANGED <<parquet, process, registry, storage, active, op, caller, target, upload,
                    crashes>>
    BY <1>0, <1>10 DEF RollbackManifest, RemoveManifest
  <2>4. RegisteredIsBacked'
    BY <1>0, <2>1, <2>2, <2>3
  <2>5. Owners'
    <3>1. TypeOK' /\ DownIsEmpty'
      BY <1>0, <1>10 DEF RollbackManifest, RemoveManifest
    <3>2. Minted' /\ OwnHandler'
      BY <1>0, <1>10 DEF RollbackManifest, RemoveManifest
    <3> QED  BY <3>1, <3>2 DEF Owners
  <2>6. FreshIsEmpty' /\ UploadInOrder'
    BY <1>0, <1>10 DEF RollbackManifest, RemoveManifest
  <2>7. DeleteInOrder' /\ OpenIsBacked' /\ ManifestOfUploader'
    BY <1>0, <1>10 DEF RollbackManifest, RemoveManifest
  <2> QED  BY <2>4, <2>5, <2>6, <2>7
<1>11. ASSUME RollbackParquet(r) PROVE Owners' /\ Order'
  <2>0. pc[r] = "rollback_parquet"
    BY <1>11 DEF RollbackParquet
  <2>1. /\ registry[target[r]] = NoUser
        /\ storage[target[r]] # "open"
        /\ manifest[target[r]] \notin User
    BY <2>0, RegisteringFacts
  <2>2. \A e \in Dataset : e # target[r] => parquet'[e] = parquet[e]
    BY <1>0, <1>11 DEF RollbackParquet, RemoveParquet
  <2>3. UNCHANGED <<manifest, process, registry, storage, active, op, caller, target, upload,
                    crashes>>
    BY <1>0, <1>11 DEF RollbackParquet, RemoveParquet
  <2>4. \A s \in Request : s # r => pc'[s] = pc[s]
    BY <1>0, <1>11 DEF RollbackParquet, RemoveParquet
  <2>5. OpenIsBacked'
    BY <1>0, <2>1, <2>2, <2>3, <2>4
  <2>6. RegisteredIsBacked'
    BY <1>0, <2>1, <2>2, <2>3, <2>4
  <2>8. Owners'
    <3>1. TypeOK' /\ DownIsEmpty'
      BY <1>0, <1>11 DEF RollbackParquet, RemoveParquet
    <3>2. Minted' /\ OwnHandler'
      BY <1>0, <1>11 DEF RollbackParquet, RemoveParquet
    <3> QED  BY <3>1, <3>2 DEF Owners
  <2>9. FreshIsEmpty' /\ UploadInOrder' /\ DeleteInOrder' /\ ManifestOfUploader'
    BY <1>0, <1>11 DEF RollbackParquet, RemoveParquet
  <2> QED  BY <2>5, <2>6, <2>8, <2>9
<1>12. CASE Register(r)
  <2>1. /\ process = "serving"
        /\ storage[target[r]] = "open"
        /\ parquet[target[r]] = "whole"
        /\ manifest[target[r]] = caller[r]
    BY <1>12, RegisteringFacts DEF Register
  <2>2. registry'[target[r]] = caller[r]
    BY <1>0, <1>12 DEF Register
  <2>3. \A e \in Dataset : e # target[r] => registry'[e] = registry[e]
    BY <1>0, <1>12 DEF Register
  <2>4. UNCHANGED <<parquet, manifest, kept, process, storage, active, op, caller, target,
                    upload, crashes>>
    BY <1>0, <1>12 DEF Register
  <2>5. \A s \in Request : s # r => pc'[s] = pc[s]
    BY <1>0, <1>12 DEF Register
  <2>6. RegisteredIsBacked'
    BY <1>0, <2>1, <2>2, <2>3, <2>4, <2>5
  <2>7. PublishedSurvives'
    BY <1>0, <1>12, <2>1, <2>2, <2>3, <2>4, <2>5 DEF Register
  <2>8. Owners'
    <3>1. TypeOK' /\ DownIsEmpty'
      BY <1>0, <1>12 DEF Register
    <3>2. Minted' /\ OwnHandler'
      BY <1>0, <1>12 DEF Register
    <3> QED  BY <3>1, <3>2 DEF Owners
  <2>9. /\ FreshIsEmpty' /\ UploadInOrder' /\ DeleteInOrder' /\ OpenIsBacked'
        /\ ManifestOfUploader'
    BY <1>0, <1>12 DEF Register
  <2>10. /\ ReadOfOwn' /\ FailedUploadIsWholeOrGone'
         /\ AcknowledgedDeleteIsFinal' /\ DanglingPointerIsExplained'
    BY <1>0, <1>12 DEF Register
  <2> QED  BY <2>6, <2>7, <2>8, <2>9, <2>10
<1>13. CASE Activate(r)
  <2>1. Owners'
    <3>1. TypeOK' /\ DownIsEmpty'
      BY <1>0, <1>13 DEF Activate
    <3>2. Minted' /\ OwnHandler'
      BY <1>0, <1>13 DEF Activate
    <3> QED  BY <3>1, <3>2 DEF Owners
  <2>2. Order'
    BY <1>0, <1>13 DEF Activate
  <2>3. active' = target[r] /\ pc[r] = "activate" /\ pc' = [pc EXCEPT ![r] = "describe"]
    BY <1>13 DEF Activate
  <2>4. UNCHANGED <<parquet, manifest, kept, process, registry, storage, op, caller, target,
                    upload, crashes>>
    BY <1>13 DEF Activate
  <2>5. registry[target[r]] = NoUser => DeleteBegan(target[r])
    BY <1>0, <2>3
  <2>6. registry[target[r]] = NoUser =>
           DeleteUnderway(target[r]) \/ DeleteAcknowledged(target[r])
    BY <1>b, <2>5
  <2>7. DanglingPointerIsExplained'
    BY <1>0, <2>3, <2>4, <2>6
  <2>8. ReadOfOwn' /\ PublishedSurvives'
    BY <1>0, <2>3, <2>4
  <2>9. FailedUploadIsWholeOrGone'
    BY <1>0, <2>3, <2>4
  <2>10. AcknowledgedDeleteIsFinal'
    BY <1>0, <2>3, <2>4
  <2> QED  BY <2>1, <2>2, <2>7, <2>8, <2>9, <2>10
<1>14. CASE DescribeUpload(r)
  <2>1. UNCHANGED <<parquet, manifest, kept, process, registry, storage, active, op, caller,
                    target, upload, crashes>>
    BY <1>14 DEF DescribeUpload, Readable
  <2>2. PICK answer \in {"ok", "failed"} :
           /\ pc' = [pc EXCEPT ![r] = answer]
           /\ answer = "ok" => parquet[target[r]] = "whole"
    BY <1>14 DEF DescribeUpload, Readable
  <2>3. pc[r] = "describe"
    BY <1>14 DEF DescribeUpload
  <2>4. Owners'
    <3>1. TypeOK' /\ DownIsEmpty'
      BY <1>0, <2>1, <2>2, <2>3
    <3>2. Minted' /\ OwnHandler'
      BY <1>0, <2>1, <2>2, <2>3
    <3> QED  BY <3>1, <3>2 DEF Owners
  <2>5. Order'
    BY <1>0, <2>1, <2>2, <2>3
  <2>6. ReadOfOwn' /\ PublishedSurvives'
    BY <1>0, <2>1, <2>2, <2>3
  <2>7. FailedUploadIsWholeOrGone'
    BY <1>0, <2>1, <2>2, <2>3
  <2>8. AcknowledgedDeleteIsFinal'
    BY <1>0, <2>1, <2>2, <2>3
  <2>9. DanglingPointerIsExplained'
    <3>1. ASSUME NEW d \in Dataset, (active = d /\ registry[d] = NoUser)'
          PROVE  \/ DeleteUnderway(d)'
                 \/ DeleteAcknowledged(d)' /\ (pc'[upload[d]] = "ok" => <<d, "parquet">> \in kept)
      <4>1. \/ DeleteUnderway(d)
            \/ DeleteAcknowledged(d) /\ (pc[upload[d]] = "ok" => <<d, "parquet">> \in kept)
        BY <2>1, <3>1
      <4>2. DeleteUnderway(d) => DeleteUnderway(d)'
        BY <1>0, <2>1, <2>2, <2>3
      <4>3. DeleteAcknowledged(d) => DeleteAcknowledged(d)'
        BY <1>0, <2>1, <2>2, <2>3
      <4>4. DeleteAcknowledged(d) => parquet[d] = Absent \/ <<d, "parquet">> \in kept
        BY AcknowledgedDeleteFacts
      <4>5. CASE upload[d] # r
        BY <2>2, <4>1, <4>2, <4>3, <4>5
      <4>6. CASE upload[d] = r
        <5>1. target[r] = d
          BY <4>6
        <5> QED  BY <2>2, <4>1, <4>2, <4>3, <4>4, <4>6, <5>1
      <4> QED  BY <4>5, <4>6
    <3> QED  BY <2>1, <3>1
  <2> QED  BY <2>4, <2>5, <2>6, <2>7, <2>8, <2>9
<1> QED  BY <1>w, <1>1, <1>2, <1>3, <1>4, <1>5, <1>6, <1>7, <1>8, <1>9, <1>10, <1>11, <1>12, <1>13, <1>14 DEF UploadStep

\* Every step of delete_dataset keeps the invariant.
LEMMA DeleteStepIInv ==
    ASSUME IInv, NEW r \in Request, DeleteStep(r)
    PROVE  IInv'
<1>a. pc[r] \in DeletePCs \ {"pop"} =>
         registry[target[r]] = NoUser /\ upload[target[r]] # NoRequest
  BY DEF IInv, Order, DeleteInOrder
<1> USE SentinelAssumption, BoundAssumption
    DEF IInv, Owners, Order, Outcomes, TypeOK, Minted, OwnHandler, DownIsEmpty, FreshIsEmpty, UploadInOrder,
        DeleteInOrder, OpenIsBacked, ManifestOfUploader, RegisteredIsBacked, ReadOfOwn,
        PublishedSurvives, FailedUploadIsWholeOrGone, DanglingPointerIsExplained,
        AcknowledgedDeleteIsFinal, Published, Vanished, DeleteUnderway,
        OwnerOrNone, Answers, Running, UploadPCs, DeletePCs, ReadPCs, Registering,
        Uploader, Intact, DeleteBegan, DeleteAcknowledged,
        diskVars, memVars, reqVars, At, Goto, Arrive, Absent, Torn
<1>1. CASE PopEntry(r)
  <2>1. Owners'
    <3>1. TypeOK' /\ DownIsEmpty'
      BY <1>1 DEF PopEntry
    <3>2. Minted' /\ OwnHandler'
      BY <1>1 DEF PopEntry
    <3> QED  BY <3>1, <3>2 DEF Owners
  <2>2. Order'
    BY <1>1 DEF PopEntry
  <2>3. ReadOfOwn' /\ PublishedSurvives' /\ FailedUploadIsWholeOrGone'
    BY <1>1 DEF PopEntry
  <2>4. AcknowledgedDeleteIsFinal' /\ DanglingPointerIsExplained'
    BY <1>1 DEF PopEntry
  <2> QED  BY <2>1, <2>2, <2>3, <2>4
<1>2. CASE CloseDeleted(r)
  <2>1. registry[target[r]] = NoUser /\ upload[target[r]] # NoRequest
    BY <1>a, <1>2 DEF CloseDeleted, CloseStorage
  <2>2. \A s \in Request : pc[s] \in Registering => target[s] # target[r]
    BY <1>2, DeletingFacts DEF CloseDeleted
  <2>3. \A e \in Dataset : e # target[r] => storage'[e] = storage[e]
    BY <1>2 DEF CloseDeleted, CloseStorage
  <2>4. UNCHANGED <<parquet, manifest, kept, process, registry, active, op, caller, target,
                    upload, crashes>>
    BY <1>2 DEF CloseDeleted, CloseStorage
  <2>5. \A s \in Request : s # r => pc'[s] = pc[s]
    BY <1>2 DEF CloseDeleted, CloseStorage
  <2>6. FreshIsEmpty'
    BY <2>1, <2>2, <2>3, <2>4, <2>5
  <2>7. UploadInOrder'
    BY <1>2, <2>1, <2>2, <2>3, <2>4, <2>5 DEF CloseDeleted, CloseStorage
  <2>8. RegisteredIsBacked'
    BY <2>1, <2>2, <2>3, <2>4, <2>5
  <2>9. Owners'
    <3>1. TypeOK' /\ DownIsEmpty'
      BY <1>2 DEF CloseDeleted, CloseStorage
    <3>2. Minted' /\ OwnHandler'
      BY <1>2 DEF CloseDeleted, CloseStorage
    <3> QED  BY <3>1, <3>2 DEF Owners
  <2>10. DeleteInOrder' /\ OpenIsBacked' /\ ManifestOfUploader'
    BY <1>2 DEF CloseDeleted, CloseStorage
  <2>11. ReadOfOwn' /\ PublishedSurvives'
    BY <1>2 DEF CloseDeleted, CloseStorage
  <2>12. FailedUploadIsWholeOrGone'
    BY <1>2 DEF CloseDeleted, CloseStorage
  <2>13. AcknowledgedDeleteIsFinal'
    BY <1>2 DEF CloseDeleted, CloseStorage
  <2>14. DanglingPointerIsExplained'
    BY <1>2 DEF CloseDeleted, CloseStorage
  <2> QED  BY <2>6, <2>7, <2>8, <2>9, <2>10, <2>11, <2>12, <2>13, <2>14
<1>3. CASE DeleteParquet(r)
  <2>1. registry[target[r]] = NoUser /\ storage[target[r]] # "open"
    BY <1>a, <1>3 DEF DeleteParquet, RemoveParquet
  <2>2. \A s \in Request : pc[s] \in Registering => target[s] # target[r]
    BY <1>3, DeletingFacts DEF DeleteParquet
  <2>3. \A e \in Dataset : e # target[r] => parquet'[e] = parquet[e]
    BY <1>3 DEF DeleteParquet, RemoveParquet
  <2>4. UNCHANGED <<manifest, process, registry, storage, active, op, caller, target, upload,
                    crashes>>
    BY <1>3 DEF DeleteParquet, RemoveParquet
  <2>5. \A s \in Request : s # r => pc'[s] = pc[s]
    BY <1>3 DEF DeleteParquet, RemoveParquet
  <2>6. kept \subseteq kept'
    BY <1>3 DEF DeleteParquet, RemoveParquet
  <2>7. UploadInOrder'
    BY <1>3, <2>1, <2>2, <2>3, <2>4, <2>5, <2>6 DEF DeleteParquet, RemoveParquet
  <2>8. OpenIsBacked'
    BY <2>1, <2>2, <2>3, <2>4, <2>5, <2>6
  <2>9. RegisteredIsBacked'
    BY <2>1, <2>2, <2>3, <2>4, <2>5, <2>6
  <2>10. Owners'
    <3>1. TypeOK' /\ DownIsEmpty'
      BY <1>3 DEF DeleteParquet, RemoveParquet
    <3>2. Minted' /\ OwnHandler'
      BY <1>3 DEF DeleteParquet, RemoveParquet
    <3> QED  BY <3>1, <3>2
  <2>11. FreshIsEmpty' /\ DeleteInOrder' /\ ManifestOfUploader'
    BY <1>3 DEF DeleteParquet, RemoveParquet
  <2>12. ReadOfOwn' /\ PublishedSurvives'
    BY <1>3 DEF DeleteParquet, RemoveParquet
  <2>13. FailedUploadIsWholeOrGone'
    BY <1>3 DEF DeleteParquet, RemoveParquet
  <2>14. AcknowledgedDeleteIsFinal'
    BY <1>3 DEF DeleteParquet, RemoveParquet
  <2>15. DanglingPointerIsExplained'
    BY <1>3 DEF DeleteParquet, RemoveParquet
  <2> QED  BY <2>7, <2>8, <2>9, <2>10, <2>11, <2>12, <2>13, <2>14, <2>15
<1>4. CASE DeleteManifest(r)
  <2>1. registry[target[r]] = NoUser
    BY <1>a, <1>4 DEF DeleteManifest, RemoveManifest
  <2>2. \A s \in Request : pc[s] \in Registering => target[s] # target[r]
    BY <1>4, DeletingFacts DEF DeleteManifest
  <2>3. \A e \in Dataset : e # target[r] => manifest'[e] = manifest[e]
    BY <1>4 DEF DeleteManifest, RemoveManifest
  <2>4. UNCHANGED <<parquet, process, registry, storage, active, op, caller, target, upload,
                    crashes>>
    BY <1>4 DEF DeleteManifest, RemoveManifest
  <2>5. \A s \in Request : s # r => pc'[s] = pc[s]
    BY <1>4 DEF DeleteManifest, RemoveManifest
  <2>6. kept \subseteq kept'
    BY <1>4 DEF DeleteManifest, RemoveManifest
  <2>7. UploadInOrder'
    BY <1>4, <2>1, <2>2, <2>3, <2>4, <2>5, <2>6 DEF DeleteManifest, RemoveManifest
  <2>8. RegisteredIsBacked'
    BY <2>1, <2>2, <2>3, <2>4, <2>5, <2>6
  <2>9. Owners'
    <3>1. TypeOK' /\ DownIsEmpty'
      BY <1>4 DEF DeleteManifest, RemoveManifest
    <3>2. Minted' /\ OwnHandler'
      BY <1>4 DEF DeleteManifest, RemoveManifest
    <3> QED  BY <3>1, <3>2 DEF Owners
  <2>10. FreshIsEmpty' /\ DeleteInOrder' /\ OpenIsBacked' /\ ManifestOfUploader'
    BY <1>4 DEF DeleteManifest, RemoveManifest
  <2>11. ReadOfOwn' /\ PublishedSurvives'
    BY <1>4 DEF DeleteManifest, RemoveManifest
  <2>12. FailedUploadIsWholeOrGone'
    BY <1>4 DEF DeleteManifest, RemoveManifest
  <2>13. AcknowledgedDeleteIsFinal'
    BY <1>4 DEF DeleteManifest, RemoveManifest
  <2>14. DanglingPointerIsExplained'
    BY <1>4 DEF DeleteManifest, RemoveManifest
  <2> QED  BY <2>7, <2>8, <2>9, <2>10, <2>11, <2>12, <2>13, <2>14
<1>5. CASE ClearActive(r)
  <2>1. Owners'
    <3>1. TypeOK' /\ DownIsEmpty'
      BY <1>5 DEF ClearActive
    <3>2. Minted' /\ OwnHandler'
      BY <1>5 DEF ClearActive
    <3> QED  BY <3>1, <3>2 DEF Owners
  <2>2. Order'
    BY <1>5 DEF ClearActive
  <2>3. Outcomes'
    BY <1>5 DEF ClearActive
  <2> QED  BY <2>1, <2>2, <2>3
<1> HIDE DEF IInv
<1> QED  BY <1>1, <1>2, <1>3, <1>4, <1>5 DEF DeleteStep

\* Every step of a read route keeps the invariant.
LEMMA ReadStepIInv ==
    ASSUME IInv, NEW r \in Request, ReadStep(r)
    PROVE  IInv'
<1>a. pc[r] \in ReadPCs /\ op[r] = "read"
  BY DEF ReadStep, ActiveExists, ResolveActive, GetActive, AuthorizeActive, ReadDataset,
     At, ReadPCs, IInv, Owners, OwnHandler
<1>b. /\ UNCHANGED <<parquet, manifest, kept, registry, storage, active, crashes,
                     op, caller, upload>>
      /\ \A s \in Request : s # r => target'[s] = target[s] /\ pc'[s] = pc[s]
  BY DEF ReadStep, ActiveExists, ResolveActive, GetActive, AuthorizeActive, ReadDataset,
     Goto, diskVars, memVars, IInv, Owners, TypeOK
<1>c. /\ PublishedSurvives' /\ FailedUploadIsWholeOrGone'
      /\ AcknowledgedDeleteIsFinal' /\ DanglingPointerIsExplained'
  BY <1>a, <1>b, BystanderOutcomes
<1>d. \A d \in Dataset : upload[d] # r
  BY <1>a, SentinelAssumption DEF IInv, Owners, Minted
<1> USE SentinelAssumption, BoundAssumption
    DEF IInv, Owners, Order, Outcomes, TypeOK, Minted, OwnHandler, DownIsEmpty, FreshIsEmpty, UploadInOrder,
        DeleteInOrder, OpenIsBacked, ManifestOfUploader, RegisteredIsBacked, ReadOfOwn,
        PublishedSurvives, FailedUploadIsWholeOrGone, DanglingPointerIsExplained,
        AcknowledgedDeleteIsFinal, Published, Vanished, DeleteUnderway,
        OwnerOrNone, Answers, Running, UploadPCs, DeletePCs, ReadPCs, Registering,
        Uploader, Intact, DeleteBegan, DeleteAcknowledged,
        diskVars, memVars, reqVars, At, Goto, Arrive, Absent, Torn
<1>1. CASE ActiveExists(r)
  <2>1. Owners'
    <3>1. TypeOK' /\ DownIsEmpty'
      BY <1>1 DEF ActiveExists
    <3>2. Minted' /\ OwnHandler'
      BY <1>1 DEF ActiveExists
    <3> QED  BY <3>1, <3>2 DEF Owners
  <2>2. Order'
    BY <1>1 DEF ActiveExists
  <2>3. ReadOfOwn'
    BY <1>1, <1>d DEF ActiveExists
  <2> QED  BY <1>c, <2>1, <2>2, <2>3
<1>2. CASE ResolveActive(r)
  <2>1. Owners'
    <3>1. TypeOK' /\ DownIsEmpty'
      BY <1>2 DEF ResolveActive
    <3>2. Minted' /\ OwnHandler'
      BY <1>2 DEF ResolveActive
    <3> QED  BY <3>1, <3>2 DEF Owners
  <2>2. Order'
    BY <1>2 DEF ResolveActive
  <2>3. ReadOfOwn'
    BY <1>2, <1>d DEF ResolveActive
  <2> QED  BY <1>c, <2>1, <2>2, <2>3
<1>3. CASE GetActive(r)
  <2>1. Owners'
    <3>1. TypeOK' /\ DownIsEmpty'
      BY <1>3 DEF GetActive
    <3>2. Minted' /\ OwnHandler'
      BY <1>3 DEF GetActive
    <3> QED  BY <3>1, <3>2 DEF Owners
  <2>2. Order'
    BY <1>3 DEF GetActive
  <2>3. ReadOfOwn'
    BY <1>3, <1>d DEF GetActive
  <2> QED  BY <1>c, <2>1, <2>2, <2>3
<1>0. AuthorizeActive(r) /\ Authorized(caller[r], target[r])
         => caller[r] \in User /\ target[r] \in Dataset
  BY DEF AuthorizeActive, Authorized
<1>4. CASE AuthorizeActive(r)
  <2>1. LET d == target[r] IN
        Authorized(caller[r], d) => /\ Uploader(d) = caller[r]
                                    /\ storage[d] = "open"
                                    /\ upload[d] # NoRequest
                                    /\ pc[upload[d]] \notin Registering
    BY <1>0, <1>4, AuthorizedFacts
  <2>2. \A s \in Request : s # r => pc'[s] = pc[s]
    BY <1>4 DEF AuthorizeActive, Authorized
  <2>3. ReadOfOwn'
    BY <1>4, <2>1, <2>2 DEF AuthorizeActive, Authorized
  <2>4. Owners'
    <3>1. TypeOK' /\ DownIsEmpty'
      BY <1>4 DEF AuthorizeActive, Authorized
    <3>2. Minted' /\ OwnHandler'
      BY <1>4 DEF AuthorizeActive, Authorized
    <3> QED  BY <3>1, <3>2 DEF Owners
  <2>5. Order'
    BY <1>4 DEF AuthorizeActive, Authorized
  <2> QED  BY <1>c, <2>3, <2>4, <2>5
<1>5. CASE ReadDataset(r)
  <2>1. Owners'
    <3>1. TypeOK'
      <4>1. PICK label \in Answers : pc' = [pc EXCEPT ![r] = label]
        BY <1>5 DEF ReadDataset
      <4>2. UNCHANGED <<diskVars, process, memVars, op, caller, target, upload, crashes>>
        BY <1>5 DEF ReadDataset
      <4> QED  BY ONLY IInv, r \in Request, <4>1, <4>2
               DEF IInv, Owners, TypeOK, Answers, diskVars, memVars
    <3>2. DownIsEmpty'
      BY <1>5 DEF ReadDataset, Readable
    <3>3. Minted' /\ OwnHandler'
      BY <1>5 DEF ReadDataset, Readable
    <3> QED  BY <3>1, <3>2, <3>3
  <2>2. Order'
    <3>1. FreshIsEmpty' /\ UploadInOrder' /\ DeleteInOrder'
      BY <1>5 DEF ReadDataset, Readable
    <3>2. OpenIsBacked' /\ ManifestOfUploader' /\ RegisteredIsBacked'
      BY <1>5 DEF ReadDataset, Readable
    <3> QED  BY <3>1, <3>2 DEF Order
  <2>3. ReadOfOwn'
    BY <1>5, <1>d DEF ReadDataset, Readable
  <2> QED  BY <1>c, <2>1, <2>2, <2>3
<1> HIDE DEF IInv
<1> QED  BY <1>1, <1>2, <1>3, <1>4, <1>5 DEF ReadStep

\* A request's arrival keeps the invariant.
LEMMA StartIInv ==
    ASSUME IInv, NEW r \in Request, Start(r)
    PROVE  IInv'
<1>a. /\ pc[r] = "idle" /\ op[r] = "none"
      /\ \A d \in Dataset : upload[d] # r
  BY SentinelAssumption
     DEF Start, StartUpload, StartDelete, StartRead, StartActiveRead, Arrive,
         IInv, Owners, OwnHandler, Minted
<1>b. /\ UNCHANGED <<parquet, manifest, kept, registry, storage, active, crashes>>
      /\ \A s \in Request : s # r => /\ op'[s] = op[s] /\ caller'[s] = caller[s]
                                     /\ target'[s] = target[s] /\ pc'[s] = pc[s]
      /\ op'[r] = "upload" => pc'[r] = "ingest"
      /\ op'[r] = "delete" => pc'[r] \in {"pop", "not_found"}
      /\ \A e \in Dataset : upload[e] # NoRequest => upload'[e] = upload[e]
  BY DEF Start, StartUpload, StartDelete, StartRead, StartActiveRead, Arrive,
     diskVars, memVars, IInv, Owners, TypeOK
<1>c. /\ PublishedSurvives' /\ FailedUploadIsWholeOrGone'
      /\ AcknowledgedDeleteIsFinal' /\ DanglingPointerIsExplained'
  BY <1>a, <1>b, BystanderOutcomes
<1> USE SentinelAssumption, BoundAssumption
    DEF IInv, Owners, Order, Outcomes, TypeOK, Minted, OwnHandler, DownIsEmpty, FreshIsEmpty, UploadInOrder,
        DeleteInOrder, OpenIsBacked, ManifestOfUploader, RegisteredIsBacked, ReadOfOwn,
        PublishedSurvives, FailedUploadIsWholeOrGone, DanglingPointerIsExplained,
        AcknowledgedDeleteIsFinal, Published, Vanished, DeleteUnderway,
        OwnerOrNone, Answers, Running, UploadPCs, DeletePCs, ReadPCs, Registering,
        Uploader, Intact, DeleteBegan, DeleteAcknowledged,
        diskVars, memVars, reqVars, At, Goto, Arrive, Absent, Torn
<1>1. ASSUME NEW u \in User, NEW d \in Dataset, StartUpload(r, u, d) PROVE IInv'
  <2>1. Owners'
    <3>1. TypeOK' /\ DownIsEmpty'
      BY <1>1 DEF StartUpload
    <3>2. Minted' /\ OwnHandler'
      BY <1>1 DEF StartUpload
    <3> QED  BY <3>1, <3>2 DEF Owners
  <2>2. Order'
    BY <1>1 DEF StartUpload
  <2>3. ReadOfOwn'
    BY <1>a, <1>1 DEF StartUpload
  <2> QED  BY <1>c, <2>1, <2>2, <2>3
<1>2. ASSUME NEW u \in User, NEW d \in Dataset, StartDelete(r, u, d) PROVE IInv'
  <2>1. Owners'
    <3>1. TypeOK' /\ DownIsEmpty'
      BY <1>2 DEF StartDelete, Authorized
    <3>2. Minted' /\ OwnHandler'
      BY <1>2 DEF StartDelete, Authorized
    <3> QED  BY <3>1, <3>2 DEF Owners
  <2>2. Order'
    BY <1>2 DEF StartDelete, Authorized
  <2>3. ReadOfOwn'
    BY <1>a, <1>2 DEF StartDelete, Authorized
  <2> QED  BY <1>c, <2>1, <2>2, <2>3
<1>3. ASSUME NEW u \in User, NEW d \in Dataset, StartRead(r, u, d) PROVE IInv'
  <2>1. Authorized(u, d) => /\ Uploader(d) = u
                            /\ storage[d] = "open"
                            /\ upload[d] # NoRequest
                            /\ pc[upload[d]] \notin Registering
    BY <1>3, AuthorizedFacts
  <2>2. \A s \in Request : s # r => pc'[s] = pc[s]
    BY <1>3 DEF StartRead, Authorized
  <2>3. ReadOfOwn'
    BY <1>3, <2>1, <2>2 DEF StartRead, Authorized
  <2>4. Owners'
    <3>1. TypeOK' /\ DownIsEmpty'
      BY <1>3 DEF StartRead, Authorized
    <3>2. Minted' /\ OwnHandler'
      BY <1>3 DEF StartRead, Authorized
    <3> QED  BY <3>1, <3>2 DEF Owners
  <2>5. Order'
    BY <1>3 DEF StartRead, Authorized
  <2> QED  BY <1>c, <2>3, <2>4, <2>5
<1>4. ASSUME NEW u \in User, StartActiveRead(r, u) PROVE IInv'
  <2>1. pc[r] = "idle" /\ op[r] = "none"
    BY <1>4 DEF StartActiveRead
  <2>2. \A e \in Dataset : upload[e] # r
    BY <2>1
  <2>3. \A s \in Request : s # r => pc'[s] = pc[s] /\ caller'[s] = caller[s] /\ op'[s] = op[s]
    BY <1>4 DEF StartActiveRead
  <2>4. UNCHANGED <<upload, storage>>
    BY <1>4 DEF StartActiveRead
  <2>5. ReadOfOwn'
    BY <1>4, <2>1, <2>2, <2>3, <2>4 DEF StartActiveRead
  <2>6. Owners'
    <3>1. TypeOK' /\ DownIsEmpty'
      BY <1>4 DEF StartActiveRead
    <3>2. Minted' /\ OwnHandler'
      BY <1>4 DEF StartActiveRead
    <3> QED  BY <3>1, <3>2 DEF Owners
  <2>7. Order'
    BY <1>4 DEF StartActiveRead
  <2> QED  BY <1>c, <2>5, <2>6, <2>7
<1> HIDE DEF IInv
<1> QED  BY <1>1, <1>2, <1>3, <1>4 DEF Start

\* The process's death, its recovery and a failed start keep the invariant.
LEMMA ProcessIInv ==
    ASSUME IInv, Crash \/ Recover \/ RecoverFails
    PROVE  IInv'
<1> USE SentinelAssumption, BoundAssumption
    DEF IInv, Owners, Order, Outcomes, TypeOK, Minted, OwnHandler, DownIsEmpty, FreshIsEmpty, UploadInOrder,
        DeleteInOrder, OpenIsBacked, ManifestOfUploader, RegisteredIsBacked, ReadOfOwn,
        PublishedSurvives, FailedUploadIsWholeOrGone, DanglingPointerIsExplained,
        AcknowledgedDeleteIsFinal, Published, Vanished, DeleteUnderway,
        OwnerOrNone, Answers, Running, UploadPCs, DeletePCs, ReadPCs, Registering,
        Uploader, Intact, DeleteBegan, DeleteAcknowledged,
        diskVars, memVars, reqVars, At, Goto, Arrive, Absent, Torn
<1>1. CASE Crash
  <2>1. crashes' \in 0 .. MaxCrashes
    BY <1>1 DEF Crash
  <2>2. pc' \in [Request -> {"idle"} \cup Running \cup Answers]
    BY <1>1 DEF Crash
  <2>3. TypeOK'
    BY <1>1, <2>1, <2>2 DEF Crash
  <2>4. Minted' /\ OwnHandler' /\ DownIsEmpty'
    BY <1>1 DEF Crash
  <2>5. /\ FreshIsEmpty' /\ UploadInOrder' /\ OpenIsBacked' /\ ManifestOfUploader'
        /\ RegisteredIsBacked'
    BY <1>1 DEF Crash
  <2>6. \A r \in Request : pc'[r] = IF pc[r] \in Running THEN "lost" ELSE pc[r]
    BY <1>1 DEF Crash
  <2>7. UNCHANGED <<parquet, manifest, kept, op, target, upload>>
    BY <1>1 DEF Crash
  <2>8. DeleteInOrder'
    BY <2>6, <2>7
  <2>9. Outcomes'
    BY <1>1 DEF Crash
  <2> QED  BY <2>3, <2>4, <2>5, <2>8, <2>9
<1>2. CASE Recover
  <2>1. Owners'
    <3>1. TypeOK' /\ DownIsEmpty'
      BY <1>2 DEF Recover, Recoverable
    <3>2. Minted' /\ OwnHandler'
      BY <1>2 DEF Recover, Recoverable
    <3> QED  BY <3>1, <3>2 DEF Owners
  <2>2. Order'
    BY <1>2 DEF Recover, Recoverable
  <2>3. Outcomes'
    BY <1>2 DEF Recover, Recoverable
  <2> QED  BY <2>1, <2>2, <2>3
<1>3. CASE RecoverFails
  <2>1. Owners'
    <3>1. TypeOK' /\ DownIsEmpty'
      BY <1>3 DEF RecoverFails
    <3>2. Minted' /\ OwnHandler'
      BY <1>3 DEF RecoverFails
    <3> QED  BY <3>1, <3>2 DEF Owners
  <2>2. Order'
    BY <1>3 DEF RecoverFails
  <2>3. Outcomes'
    BY <1>3 DEF RecoverFails
  <2> QED  BY <2>1, <2>2, <2>3
<1> QED  BY <1>1, <1>2, <1>3

\* Nothing happens, and the invariant is kept.
LEMMA StutterIInv ==
    ASSUME IInv, UNCHANGED vars
    PROVE  IInv'
<1> USE SentinelAssumption, BoundAssumption
    DEF IInv, Owners, Order, Outcomes, TypeOK, Minted, OwnHandler, DownIsEmpty, FreshIsEmpty, UploadInOrder,
        DeleteInOrder, OpenIsBacked, ManifestOfUploader, RegisteredIsBacked, ReadOfOwn,
        PublishedSurvives, FailedUploadIsWholeOrGone, DanglingPointerIsExplained,
        AcknowledgedDeleteIsFinal, Published, Vanished, DeleteUnderway,
        OwnerOrNone, Answers, Running, UploadPCs, DeletePCs, ReadPCs, Registering,
        Uploader, Intact, DeleteBegan, DeleteAcknowledged,
        diskVars, memVars, reqVars, At, Goto, Arrive, Absent, Torn
<1> QED  BY DEF vars

-----------------------------------------------------------------------------
\* The invariant is inductive.
LEMMA NextIInv == IInv /\ [Next]_vars => IInv'
BY UploadStepIInv, DeleteStepIInv, ReadStepIInv, StartIInv, ProcessIInv, StutterIInv
   DEF Next, Step

\* The inductive invariant holds in every behaviour of the program.
THEOREM Invariance == Spec => []IInv
BY InitIInv, NextIInv, PTL DEF Spec

\* Every variable keeps its type.
THEOREM TypeCorrect == Spec => []TypeOK
<1>1. IInv => TypeOK
  BY DEF IInv, Owners, Order, Outcomes
<1> QED  BY <1>1, Invariance, PTL

\* What the registry hands out is open, complete on disk and owned by its uploader
\* (register_ingested_dataset registers last, DatasetRegistry.delete pops first).
THEOREM RegisteredAlwaysBacked == Spec => []RegisteredIsBacked
<1>1. IInv => RegisteredIsBacked
  BY DEF IInv, Owners, Order, Outcomes
<1> QED  BY <1>1, Invariance, PTL

\* No read is ever answered with another user's dataset, whatever happens to the
\* active pointer between the two times resolve_active_dataset reads it.
THEOREM NeverForeign == Spec => []NoForeignRead
<1>1. IInv => NoForeignRead
  BY DEF IInv, Owners, Order, Outcomes, ReadOfOwn, NoForeignRead
<1> QED  BY <1>1, Invariance, PTL

\* An upload answered 200 stays complete on disk until somebody deletes it, through
\* any number of crashes and restarts.
THEOREM UploadsSurvive == Spec => []AcknowledgedUploadSurvives
<1>1. IInv => AcknowledgedUploadSurvives
  BY DEF IInv, Owners, Order, Outcomes, PublishedSurvives, Published, AcknowledgedUploadSurvives
<1> QED  BY <1>1, Invariance, PTL

\* An upload answered with an error is as whole as an acknowledged one (only its
\* answer failed), or nothing is left of it but files whose removal failed.
THEOREM FailuresAreWholeOrGone == Spec => []FailedUploadIsWholeOrGone
<1>1. IInv => FailedUploadIsWholeOrGone
  BY DEF IInv, Owners, Order, Outcomes
<1> QED  BY <1>1, Invariance, PTL

\* A dataset whose delete was answered 200 comes back only when both of its files
\* could not be removed and the process was restarted.
THEOREM DeletesAreFinal == Spec => []AcknowledgedDeleteIsFinal
<1>1. IInv => AcknowledgedDeleteIsFinal
  BY DEF IInv, Owners, Order, Outcomes
<1> QED  BY <1>1, Invariance, PTL

\* The active pointer dangles only under a delete that is about to clear it, or
\* after one that overtook the upload's activation.
THEOREM PointerDanglesOnlyByDelete == Spec => []DanglingPointerIsExplained
<1>1. IInv => DanglingPointerIsExplained
  BY DEF IInv, Owners, Order, Outcomes
<1> QED  BY <1>1, Invariance, PTL

-----------------------------------------------------------------------------
(* A read that fails has its file, or a storage that could not be closed.  *)

\* The only step that answers a read with a 500 is its query, and a file is taken
\* from under a query only when close() failed.
LEMMA FailedReadStep ==
    ASSUME IInv, [Next]_vars, NEW r \in Request,
           op[r] = "read", pc[r] \in Running, pc'[r] = "failed"
    PROVE  parquet[target[r]] = "whole" \/ storage[target[r]] = "stuck"
<1>1. pc[r] \in ReadPCs
  BY DEF IInv, Owners, Order, Outcomes, OwnHandler, Running, UploadPCs, DeletePCs, ReadPCs
<1>2. ReadDataset(r)
  <2>1. ASSUME NEW s \in Request, s # r, Start(s) \/ Step(s) PROVE pc'[r] = pc[r]
    BY <2>1 DEF IInv, Owners, Order, Outcomes, TypeOK, Start, Step, UploadStep, DeleteStep, ReadStep,
       StartUpload, StartDelete, StartRead, StartActiveRead, Arrive, Goto,
       OpenParquet, FinishParquet, IngestFails, OpenStorage, OpenStorageFails,
       CreateManifest, FillManifest, ManifestFails, RollbackStorage, RollbackManifest,
       RollbackParquet, Register, Activate, DescribeUpload, PopEntry, CloseDeleted,
       DeleteParquet, DeleteManifest, ClearActive, ActiveExists, ResolveActive,
       GetActive, AuthorizeActive, ReadDataset
  <2>2. ~Crash /\ ~Recover /\ ~RecoverFails /\ ~UNCHANGED vars
    BY DEF IInv, Owners, Order, Outcomes, TypeOK, Crash, Recover, RecoverFails, vars, reqVars, Running, UploadPCs,
       DeletePCs, ReadPCs
  <2>3. ~Start(r)
    BY <1>1 DEF Start, StartUpload, StartDelete, StartRead, StartActiveRead, Arrive, ReadPCs
  <2>4. Step(r)
    BY <1>1, <2>1, <2>2, <2>3 DEF Next, ReadPCs
  <2>5. ReadStep(r)
    BY <1>1, <2>4 DEF Step, UploadStep, DeleteStep, ReadPCs, At,
       OpenParquet, FinishParquet, IngestFails, OpenStorage, OpenStorageFails,
       CreateManifest, FillManifest, ManifestFails, RollbackStorage, RollbackManifest,
       RollbackParquet, Register, Activate, DescribeUpload, PopEntry, CloseDeleted,
       DeleteParquet, DeleteManifest, ClearActive
  <2> QED
    BY <1>1, <2>5 DEF IInv, Owners, Order, Outcomes, TypeOK, ReadStep, ActiveExists, ResolveActive, GetActive,
       AuthorizeActive, ReadDataset, Goto
<1>3. target[r] \in Dataset /\ storage[target[r]] \notin {"none", "closed"}
  BY <1>2 DEF IInv, Owners, Order, Outcomes, TypeOK, OwnHandler, ReadOfOwn, ReadDataset, At, Goto, Readable
<1>4. storage[target[r]] = "open" => parquet[target[r]] = "whole"
  BY <1>3 DEF IInv, Owners, Order, Outcomes, OpenIsBacked
<1> QED  BY <1>3, <1>4 DEF IInv, Owners, Order, Outcomes, TypeOK

\* No read that races a delete fails for want of its file, unless close() failed.
THEOREM ReadsKeepTheirFile == Spec => NoReadLosesItsFile
<1>1. IInv /\ [Next]_vars =>
        [\A r \in Request :
            op[r] = "read" /\ pc[r] \in Running /\ pc'[r] = "failed"
                => parquet[target[r]] = "whole" \/ storage[target[r]] = "stuck"]_vars
  BY FailedReadStep
<1> QED  BY <1>1, Invariance, PTL DEF Spec, NoReadLosesItsFile

-----------------------------------------------------------------------------
(* The implementation of DatasetCatalog.                                   *)

Owner   == [d \in Dataset |-> Uploader(d)]
Durable == [d \in Dataset |-> IF Intact(d) THEN manifest[d] ELSE NoUser]

CatalogStep == [Catalog!Next]_(Catalog!vars)

\* An empty process implements the empty catalog.
LEMMA InitRefines == Init => Catalog!Init
BY SentinelAssumption DEF Init, Catalog!Init, Catalog!Nobody, Uploader, Intact, Absent

\* A step that changes nothing the catalog sees is a stutter of it.
LEMMA SameRefines ==
    ASSUME Owner' = Owner, Durable' = Durable, registry' = registry
    PROVE  CatalogStep
BY DEF CatalogStep, Catalog!vars, Owner, Durable

\* Whatever happens to the files of one unregistered id is a commit, an erasure or
\* nothing, because a manifest only ever names the uploader.
LEMMA DiskRefines ==
    ASSUME IInv, IInv', NEW d \in Dataset,
           registry[d] = NoUser, upload[d] # NoRequest, UNCHANGED <<registry, caller, upload>>,
           \A e \in Dataset : e # d => parquet'[e] = parquet[e] /\ manifest'[e] = manifest[e]
    PROVE  CatalogStep
<1>1. Owner' = Owner
  BY DEF Owner, Uploader
<1>2. Durable' = [Durable EXCEPT ![d] = Durable'[d]]
  BY DEF Durable, Intact
<1>3. Durable'[d] \in {NoUser, Owner[d]}
  BY <1>1 DEF IInv, Owners, Order, Outcomes, ManifestOfUploader, Durable, Intact, Owner
<1>4. Owner[d] # NoUser
  BY SentinelAssumption DEF IInv, Owners, Order, Outcomes, Minted, Owner, Uploader
<1>5. CASE Durable'[d] = NoUser
  <2>1. Catalog!Erase(d)
    BY <1>1, <1>2, <1>5 DEF Catalog!Erase, Owner, Durable
  <2> QED  BY <2>1 DEF CatalogStep, Catalog!Next
<1>6. CASE Durable'[d] = Owner[d]
  <2>1. Catalog!Commit(d)
    BY <1>1, <1>2, <1>4, <1>6 DEF Catalog!Commit, Owner, Durable
  <2> QED  BY <2>1 DEF CatalogStep, Catalog!Next
<1> QED  BY <1>3, <1>5, <1>6

\* The steps of an upload before its registration work on the disk, invisibly.
LEMMA UploadDiskRefines ==
    ASSUME IInv, IInv', NEW r \in Request,
           \/ OpenParquet(r)    \/ FinishParquet(r)  \/ IngestFails(r)
           \/ OpenStorageFails(r) \/ CreateManifest(r) \/ FillManifest(r)
           \/ RollbackManifest(r) \/ RollbackParquet(r)
    PROVE  CatalogStep
<1>1. pc[r] \in Registering
  BY DEF OpenParquet, FinishParquet, IngestFails, OpenStorageFails, CreateManifest,
     FillManifest, RollbackManifest, RollbackParquet, At, Registering, UploadPCs
<1>2. /\ target[r] \in Dataset
      /\ registry[target[r]] = NoUser
      /\ upload[target[r]] # NoRequest
  BY <1>1, UploadFacts, RegisteringFacts, SentinelAssumption DEF Registering
<1>3. /\ UNCHANGED <<registry, caller, upload>>
      /\ \A e \in Dataset : e # target[r] =>
            parquet'[e] = parquet[e] /\ manifest'[e] = manifest[e]
  BY DEF IInv, Owners, Order, Outcomes, TypeOK, OpenParquet, FinishParquet, IngestFails, OpenStorageFails,
     CreateManifest, FillManifest, RollbackManifest, RollbackParquet,
     RemoveParquet, RemoveManifest, Goto, memVars
<1> QED  BY <1>2, <1>3, DiskRefines

\* So do the removals of a delete, after its pop.
LEMMA DeleteDiskRefines ==
    ASSUME IInv, IInv', NEW r \in Request, DeleteParquet(r) \/ DeleteManifest(r)
    PROVE  CatalogStep
<1>1. pc[r] \in {"rm_parquet", "rm_manifest"}
  BY DEF DeleteParquet, DeleteManifest, At
<1>2. /\ target[r] \in Dataset
      /\ registry[target[r]] = NoUser
      /\ upload[target[r]] # NoRequest
  BY <1>1, DeletingFacts DEF DeletePCs, IInv, Owners, Order, Outcomes, DeleteInOrder
<1>3. /\ UNCHANGED <<registry, caller, upload>>
      /\ \A e \in Dataset : e # target[r] =>
            parquet'[e] = parquet[e] /\ manifest'[e] = manifest[e]
  BY DEF IInv, Owners, Order, Outcomes, TypeOK, DeleteParquet, DeleteManifest, RemoveParquet, RemoveManifest, Goto,
     memVars
<1> QED  BY <1>2, <1>3, DiskRefines

\* Steps that leave the files, the registry and the ids alone are stutters.
LEMMA QuietRefines ==
    ASSUME UNCHANGED <<registry, parquet, manifest, caller, upload>>
    PROVE  CatalogStep
BY SameRefines DEF Owner, Durable, Uploader, Intact

\* Registration publishes what is committed.
LEMMA RegisterRefines ==
    ASSUME IInv, NEW r \in Request, Register(r)
    PROVE  CatalogStep
<1>1. /\ target[r] \in Dataset
      /\ caller[r] \in User
      /\ manifest[target[r]] = caller[r]
      /\ parquet[target[r]] = "whole"
  BY UploadFacts DEF Register, At, UploadPCs, IInv, Owners, Order, Outcomes, UploadInOrder
<1>2. Durable[target[r]] = caller[r] /\ caller[r] # NoUser
  BY <1>1, SentinelAssumption DEF Durable, Intact
<1>3. Owner' = Owner /\ Durable' = Durable
  BY DEF Register, Goto, diskVars, Owner, Durable, Uploader, Intact
<1>4. Catalog!Publish(target[r])
  BY <1>1, <1>2, <1>3 DEF Catalog!Publish, Register, Owner, Durable
<1> QED  BY <1>1, <1>4 DEF CatalogStep, Catalog!Next

\* The pop of a delete withdraws.
LEMMA PopRefines ==
    ASSUME IInv, NEW r \in Request, PopEntry(r)
    PROVE  CatalogStep
<1>1. target[r] \in Dataset
  BY DEF PopEntry, At, IInv, Owners, Order, Outcomes, OwnHandler, DeletePCs
<1>2. Owner' = Owner /\ Durable' = Durable
  BY DEF PopEntry, Goto, diskVars, Owner, Durable, Uploader, Intact
<1>3. Catalog!Withdraw(target[r])
  BY <1>2 DEF Catalog!Withdraw, PopEntry, Owner, Durable
<1> QED  BY <1>1, <1>3 DEF CatalogStep, Catalog!Next

\* An upload's arrival reserves its id; other arrivals are stutters.
LEMMA StartRefines ==
    ASSUME IInv, NEW r \in Request, Start(r)
    PROVE  CatalogStep
<1>1. pc[r] = "idle" /\ op[r] = "none"
  BY DEF Start, StartUpload, StartDelete, StartRead, StartActiveRead, Arrive, IInv, Owners, Order, Outcomes, OwnHandler
<1>2. \A e \in Dataset : upload[e] # r
  BY <1>1, SentinelAssumption DEF IInv, Owners, Order, Outcomes, Minted
<1>3. \A e \in Dataset : upload[e] # NoRequest => upload[e] \in Request
  BY DEF IInv, Owners, Order, Outcomes, TypeOK
<1>4. CASE \E u \in User :
             \/ StartActiveRead(r, u)
             \/ \E d \in Dataset : StartDelete(r, u, d) \/ StartRead(r, u, d)
  <2>1. /\ UNCHANGED <<registry, parquet, manifest, upload>>
        /\ \A s \in Request : s # r => caller'[s] = caller[s]
    BY <1>4 DEF StartDelete, StartRead, StartActiveRead, Arrive, diskVars, memVars, IInv, Owners, Order, Outcomes, TypeOK
  <2>2. Owner' = Owner
    BY <1>2, <1>3, <2>1 DEF Owner, Uploader
  <2>3. Durable' = Durable
    BY <2>1 DEF Durable, Intact
  <2> QED  BY <2>1, <2>2, <2>3, SameRefines
<1>5. ASSUME NEW u \in User, NEW d \in Dataset, StartUpload(r, u, d)
      PROVE  CatalogStep
  <2>1. /\ UNCHANGED <<registry, parquet, manifest>>
        /\ \A s \in Request : s # r => caller'[s] = caller[s]
        /\ caller'[r] = u
        /\ upload[d] = NoRequest
        /\ upload' = [upload EXCEPT ![d] = r]
    BY <1>5 DEF StartUpload, Arrive, diskVars, memVars, IInv, Owners, Order, Outcomes, TypeOK
  <2>2. Owner' = [Owner EXCEPT ![d] = u]
    <3>1. Uploader(d)' = u
      BY <2>1, SentinelAssumption DEF Uploader, IInv, Owners, Order, Outcomes, TypeOK
    <3>2. ASSUME NEW e \in Dataset, e # d PROVE Uploader(e)' = Uploader(e)
      BY <1>2, <1>3, <2>1, <3>2 DEF Uploader, IInv, Owners, Order, Outcomes, TypeOK
    <3> QED  BY <3>1, <3>2 DEF Owner
  <2>3. Durable' = Durable
    BY <2>1 DEF Durable, Intact
  <2>4. Owner[d] = NoUser
    BY <2>1 DEF Owner, Uploader
  <2>5. Catalog!Reserve(d, u)
    BY <2>1, <2>2, <2>3, <2>4 DEF Catalog!Reserve, Owner, Durable
  <2> QED  BY <2>5 DEF CatalogStep, Catalog!Next
<1> QED  BY <1>4, <1>5 DEF Start

\* The process's death and recovery are the catalog's.
LEMMA ProcessRefines ==
    ASSUME IInv, Crash \/ Recover \/ RecoverFails
    PROVE  CatalogStep
<1>1. Owner' = Owner /\ Durable' = Durable
  BY DEF Crash, Recover, RecoverFails, diskVars, reqVars, Owner, Durable, Uploader, Intact
<1>2. CASE Crash
  BY <1>1, <1>2 DEF Crash, Catalog!Crash, Catalog!Nobody, Catalog!Next, CatalogStep, Owner, Durable
<1>3. CASE Recover
  <2>1. registry = Catalog!Nobody
    BY <1>3 DEF Recover, IInv, Owners, Order, Outcomes, TypeOK, DownIsEmpty, Catalog!Nobody
  <2>2. PICK unopened \in SUBSET {d \in Dataset : Recoverable(d)} :
            registry' = [d \in Dataset |->
                IF d \in {e \in Dataset : Recoverable(e)} \ unopened THEN manifest[d] ELSE NoUser]
    BY <1>3 DEF Recover
  <2> DEFINE opened == {e \in Dataset : Recoverable(e)} \ unopened
  <2>3. \A d \in opened : Durable[d] = manifest[d] /\ manifest[d] # NoUser
    BY SentinelAssumption DEF Recoverable, Durable, Intact
  <2>4. opened \in SUBSET {d \in Dataset : Durable[d] # NoUser}
    BY <2>3
  <2>5. registry' = [d \in Dataset |-> IF d \in opened THEN Durable[d] ELSE NoUser]
    BY <2>2, <2>3
  <2> HIDE DEF opened
  <2>6. Catalog!Restart
    BY <1>1, <2>1, <2>4, <2>5 DEF Catalog!Restart, Owner, Durable
  <2> QED  BY <2>6 DEF CatalogStep, Catalog!Next
<1>4. CASE RecoverFails
  BY <1>4, QuietRefines DEF RecoverFails, diskVars, memVars, reqVars
<1> QED  BY <1>2, <1>3, <1>4

\* Every step of the program is a step of the catalog, or a stutter.
LEMMA NextRefines ==
    ASSUME IInv, IInv', [Next]_vars
    PROVE  CatalogStep
<1>1. ASSUME NEW r \in Request, UploadStep(r) PROVE CatalogStep
  <2>1. CASE OpenStorage(r) \/ ManifestFails(r) \/ RollbackStorage(r) \/ Activate(r)
             \/ DescribeUpload(r)
    BY <2>1, QuietRefines DEF OpenStorage, ManifestFails, RollbackStorage, Activate,
       DescribeUpload, Goto, diskVars, memVars
  <2> QED  BY <1>1, <2>1, UploadDiskRefines, RegisterRefines DEF UploadStep
<1>2. ASSUME NEW r \in Request, DeleteStep(r) PROVE CatalogStep
  <2>1. CASE CloseDeleted(r) \/ ClearActive(r)
    BY <2>1, QuietRefines DEF CloseDeleted, ClearActive, Goto, diskVars
  <2> QED  BY <1>2, <2>1, PopRefines, DeleteDiskRefines DEF DeleteStep
<1>3. ASSUME NEW r \in Request, ReadStep(r) PROVE CatalogStep
  BY <1>3, QuietRefines DEF ReadStep, ActiveExists, ResolveActive, GetActive, AuthorizeActive,
     ReadDataset, Goto, diskVars, memVars
<1>4. CASE UNCHANGED vars
  BY <1>4, QuietRefines DEF vars, diskVars, memVars, reqVars
<1> QED  BY <1>1, <1>2, <1>3, <1>4, StartRefines, ProcessRefines DEF Next, Step

\* The upload, delete, rollback and recovery code implements DatasetCatalog.
THEOREM Implementation == Spec => ImplementsCatalog
BY InitRefines, NextRefines, Invariance, PTL DEF Spec, ImplementsCatalog, Catalog!Spec, CatalogStep
=============================================================================
