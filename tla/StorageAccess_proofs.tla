------------------------- MODULE StorageAccess_proofs -------------------------
(***************************************************************************)
(* Proofs about StorageAccess, for any number of requests, of workers and  *)
(* of nested queries: types, no query on a closed connection, answers that *)
(* agree, a cache that only holds complete builds, no deadlock, progress.  *)
(***************************************************************************)
EXTENDS StorageAccess, FiniteSetTheorems, TLAPS

USE NoneAssumption, SizeAssumption, ValueAssumption

-----------------------------------------------------------------------------
(* The inductive invariant.                                                *)

Size(k) == Len(Builder[k])

Building(t) == pc[t] \in {"call", "query", "scan", "store"}

\* Each lock has the holder its "with" block has, and a closed storage none.
LockInv ==
    /\ \A t \in Thread : storageLock = t <=> pc[t] \in {"query", "scan"}
    /\ \A t \in Thread : cacheLock = t <=> kind[t] \in Key /\ Building(t)
    /\ closed => storageLock = None

\* A thread is at a call of its builder, has not begun it, or is through it.
PlaceInv ==
    \A t \in Thread :
        /\ pc[t] \in {"idle", "queued", "want_cache"} => step[t] = 1 /\ used[t] = {}
        /\ pc[t] \in {"queued", "want_cache", "store"} => kind[t] \in Key
        /\ Building(t) => kind[t] \in DOMAIN Builder
        /\ pc[t] \in {"call", "query", "scan"} => step[t] <= Size(kind[t])
        /\ pc[t] = "store" => step[t] = Size(kind[t]) + 1
        /\ pc[t] = "query" => Call(t) \notin Memo
        /\ pc[t] = "scan"  => Call(t) \in Memo /\ memo[Call(t)] = None

\* The scans among the first n - 1 calls of a builder.
ScansBefore(k, n) == {m \in Memo : \E i \in 1 .. n - 1 : Builder[k][i] = m}

\* A build has read exactly the scans it has come past.
Seen(t) == {p[1] : p \in used[t]} = ScansBefore(kind[t], step[t])

SeenInv == \A t \in Thread : Building(t) => Seen(t)

\* Everything read from a scan was read from the one run of it that is kept.
MemoInv ==
    /\ \A t \in Thread : \A p \in used[t] : memo[p[1]] = p[2]
    /\ \A k \in Key : cache[k] # None => \A p \in cache[k].used : memo[p[1]] = p[2]

\* Nobody builds what is cached, and what is answered is cached.
CacheInv ==
    /\ \A t \in Thread : kind[t] \in Key /\ Building(t) => cache[kind[t]] = None
    /\ \A t \in Answered : value[t] = cache[kind[t]] /\ value[t] # None

IInv ==
    /\ TypeOK
    /\ LockInv
    /\ PlaceInv
    /\ SeenInv
    /\ MemoInv
    /\ CacheInv
    /\ CachedIsComplete

-----------------------------------------------------------------------------
(* What the proofs use of the builders: calls that are queries or scans.   *)

Calls == {"query"} \cup Memo

LEMMA BuilderFacts ==
    /\ Key \subseteq DOMAIN Builder /\ "preview" \in DOMAIN Builder
    /\ DOMAIN Builder = Key \cup {"preview"}
    /\ {"none", "close", "preview"} \cap Key = {} /\ "planning_metadata" \in Key
    /\ "none" \notin DOMAIN Builder /\ "close" \notin DOMAIN Builder
    /\ \A k \in DOMAIN Builder :
          /\ Builder[k] \in Seq(Calls)
          /\ Size(k) \in 1 .. 6
          /\ DOMAIN Builder[k] = 1 .. Size(k)
<1>1. DOMAIN Builder = {"basic_statistics", "quality", "metadata",
                        "planning_metadata", "preview"}
  BY DEF Builder
<1>2. ASSUME NEW k \in DOMAIN Builder
      PROVE  /\ Builder[k] \in Seq(Calls)
             /\ Size(k) \in 1 .. 6
             /\ DOMAIN Builder[k] = 1 .. Size(k)
  <2>1. CASE k = "basic_statistics"
    BY <2>1 DEF Builder, Calls, Memo, Size
  <2>2. CASE k = "quality"
    BY <2>2 DEF Builder, Calls, Memo, Size
  <2>3. CASE k = "metadata"
    BY <2>3 DEF Builder, Calls, Memo, Size
  <2>4. CASE k = "planning_metadata"
    BY <2>4 DEF Builder, Calls, Memo, Size
  <2>5. CASE k = "preview"
    BY <2>5 DEF Builder, Calls, Memo, Size
  <2>6. QED
    BY <1>1, <2>1, <2>2, <2>3, <2>4, <2>5
<1>3. QED
  BY <1>1, <1>2 DEF Key

LEMMA SizeFacts == \A k \in Key : Size(k) \in 1 .. 6
BY BuilderFacts

LEMMA PreviewIsOneCall == Size("preview") = 1
BY DEF Builder, Size

\* The next call, the end of a preview, or the end of a build.
LEMMA AdvanceFacts ==
    ASSUME TypeOK, PlaceInv, NEW t \in Thread, pc[t] \in {"call", "query", "scan"},
           Advance(t)
    PROVE  /\ step' \in [Thread -> 1 .. 7] /\ step'[t] = step[t] + 1
           /\ pc' \in [Thread -> {"call", "store", "answered"} \cup {pc[s] : s \in Thread}]
           /\ \A s \in Thread \ {t} : step'[s] = step[s] /\ pc'[s] = pc[s]
           /\ \/ pc'[t] = "call" /\ step'[t] <= Size(kind[t])
              \/ pc'[t] = "answered" /\ kind[t] = "preview"
              \/ /\ pc'[t] = "store" /\ kind[t] \in Key
                 /\ step'[t] = Size(kind[t]) + 1
<1>0. step \in [Thread -> 1 .. 7]
  BY DEF TypeOK
<1>1. /\ kind[t] \in DOMAIN Builder /\ Size(kind[t]) \in 1 .. 6
      /\ step[t] \in 1 .. 6 /\ step[t] <= Size(kind[t])
  <2>1. kind[t] \in DOMAIN Builder /\ step[t] <= Size(kind[t])
    BY DEF PlaceInv, Building
  <2>2. Size(kind[t]) \in 1 .. 6
    BY <2>1, BuilderFacts
  <2>3. QED
    BY <1>0, <2>1, <2>2
<1>2. /\ step' \in [Thread -> 1 .. 7] /\ step'[t] = step[t] + 1
      /\ \A s \in Thread \ {t} : step'[s] = step[s]
  <2>1. step' = [step EXCEPT ![t] = @ + 1]
    BY DEF Advance
  <2>2. QED
    BY <1>0, <1>1, <2>1
<1>3. CASE step[t] < Size(kind[t])
  <2>1. kind[t] # "preview"
    BY <1>1, <1>3, PreviewIsOneCall
  <2>2. pc' = [pc EXCEPT ![t] = "call"]
    BY <1>3, <2>1 DEF Advance, Goto, Size
  <2>3. QED
    BY <1>1, <1>2, <1>3, <2>2 DEF TypeOK
<1>4. CASE ~(step[t] < Size(kind[t])) /\ kind[t] = "preview"
  <2>1. pc' = [pc EXCEPT ![t] = "answered"]
    BY <1>4 DEF Advance, Goto, Size
  <2>2. QED
    BY <1>1, <1>2, <1>4, <2>1 DEF TypeOK
<1>5. CASE ~(step[t] < Size(kind[t])) /\ kind[t] # "preview"
  <2>1. pc' = [pc EXCEPT ![t] = "store"]
    BY <1>5 DEF Advance, Goto, Size
  <2>2. step'[t] = Size(kind[t]) + 1 /\ kind[t] \in Key
    BY <1>1, <1>2, <1>5, BuilderFacts
  <2>3. QED
    BY <1>2, <2>1, <2>2 DEF TypeOK
<1>6. QED
  BY <1>3, <1>4, <1>5

LEMMA InitIInv == Init => IInv
<1> SUFFICES ASSUME Init PROVE IInv
  OBVIOUS
<1> USE DEF Init
<1>1. TypeOK
  <2>1. 0 \in 0 .. Batches - 1
    OBVIOUS
  <2>2. used \in [Thread -> SUBSET (Memo \X Thread)]
    OBVIOUS
  <2>3. step \in [Thread -> 1 .. 7] /\ batch \in [Thread -> 0 .. Batches - 1]
    BY <2>1
  <2>4. cache \in [Key -> Value \cup {None}]
    OBVIOUS
  <2>5. value \in [Thread -> Value \cup {None}]
    OBVIOUS
  <2>6. pc    \in [Thread -> {"idle", "queued", "want_cache", "call", "query",
                             "scan", "store", "closing"} \cup Answers]
    OBVIOUS
  <2>7.  kind  \in [Thread -> DOMAIN Builder \cup {"none", "close"}]
    OBVIOUS
  <2>8. memo  \in [Memo -> Thread \cup {None}]
    OBVIOUS
  <2>9. QED
    BY <2>2, <2>3, <2>4, <2>5, <2>6, <2>7, <2>8 DEF TypeOK
<1>2. LockInv /\ PlaceInv /\ SeenInv /\ MemoInv
  BY DEF LockInv, PlaceInv, SeenInv, Seen, MemoInv, Building
<1>3. CacheInv /\ CachedIsComplete
  BY DEF CacheInv, CachedIsComplete, Answered, Building
<1>4. QED
  BY <1>1, <1>2, <1>3 DEF IInv

\* Every step leaves the variables in their types.
LEMMA TypeStep ==
    ASSUME IInv, [Next]_vars
    PROVE  TypeOK'
<1> USE BuilderFacts DEF IInv, TypeOK, PlaceInv, Building, Answers, Call,
                         LookUp, Goto, ReleaseCache, storageVars, buildVars
<1>1. ASSUME NEW t \in Thread, NEW k \in Key, Ask(t, k)
      PROVE  TypeOK'
  BY <1>1 DEF Ask
<1>2. ASSUME NEW t \in Thread, Analyze(t)
      PROVE  TypeOK'
  BY <1>2 DEF Analyze
<1>3. ASSUME NEW t \in Thread, Preview(t)
      PROVE  TypeOK'
  BY <1>3 DEF Preview
<1>4. ASSUME NEW t \in Thread, StartClose(t)
      PROVE  TypeOK'
  BY <1>4 DEF StartClose
<1>5. ASSUME NEW t \in Thread, Disconnect(t)
      PROVE  TypeOK'
  BY <1>5 DEF Disconnect
<1>6. ASSUME NEW t \in Thread, StartWork(t)
      PROVE  TypeOK'
  BY <1>6 DEF StartWork
<1>7. ASSUME NEW t \in Thread, EnterCache(t)
      PROVE  TypeOK'
  BY <1>7 DEF EnterCache
<1>8. ASSUME NEW t \in Thread, Store(t)
      PROVE  TypeOK'
  <2>1. [by |-> t, used |-> used[t]] \in Value /\ kind[t] \in Key
    BY <1>8 DEF Store, Value
  <2>2. QED
    BY <1>8, <2>1 DEF Store
<1>9. ASSUME NEW t \in Thread, CallClosed(t)
      PROVE  TypeOK'
  BY <1>9 DEF CallClosed
<1>10. ASSUME NEW t \in Thread, CallMemoized(t)
      PROVE  TypeOK'
  BY <1>10, AdvanceFacts DEF CallMemoized
<1>11. ASSUME NEW t \in Thread, CallStorage(t)
      PROVE  TypeOK'
  BY <1>11 DEF CallStorage
<1>12. ASSUME NEW t \in Thread, EndQuery(t)
      PROVE  TypeOK'
  BY <1>12, AdvanceFacts DEF EndQuery
<1>13. ASSUME NEW t \in Thread, ScanBatch(t)
      PROVE  TypeOK'
  <2>1. CASE batch[t] < Batches - 1
    <3>1. batch' \in [Thread -> 0 .. Batches - 1]
      BY <1>13, <2>1 DEF ScanBatch
    <3>2. QED
      BY <1>13, <2>1, <3>1 DEF ScanBatch
  <2>2. CASE ~(batch[t] < Batches - 1)
    <3>1. Call(t) \in Memo
      BY <1>13 DEF ScanBatch
    <3>2. /\ memo' = [memo EXCEPT ![Call(t)] = t]
          /\ used' = [used EXCEPT ![t] = used[t] \cup {<<Call(t), t>>}]
          /\ batch' = [batch EXCEPT ![t] = 0]
      BY <1>13, <2>2 DEF ScanBatch
    <3>3. /\ memo' \in [Memo -> Thread \cup {None}]
          /\ used' \in [Thread -> SUBSET (Memo \X Thread)]
          /\ batch' \in [Thread -> 0 .. Batches - 1]
      <4>1. /\ memo \in [Memo -> Thread \cup {None}]
            /\ used \in [Thread -> SUBSET (Memo \X Thread)]
            /\ batch \in [Thread -> 0 .. Batches - 1]
        OBVIOUS
      <4>2. 0 \in 0 .. Batches - 1
        BY ONLY SizeAssumption
      <4>3. QED
        BY ONLY <3>1, <3>2, <4>1, <4>2, t \in Thread
    <3>4. QED
      BY <1>13, <2>2, <3>2, <3>3, AdvanceFacts DEF ScanBatch
  <2>3. QED
    BY <2>1, <2>2
<1>14. ASSUME NEW t \in Thread, QueryFails(t)
      PROVE  TypeOK'
  BY <1>14 DEF QueryFails
<1>15. ASSUME NEW t \in Thread, Close(t)
      PROVE  TypeOK'
  BY <1>15 DEF Close
<1>16. ASSUME NEW t \in Thread, CloseFails(t)
      PROVE  TypeOK'
  BY <1>16 DEF CloseFails
<1>17. CASE UNCHANGED vars
  BY <1>17 DEF vars
<1>18. QED
  BY <1>1, <1>2, <1>3, <1>4, <1>5, <1>6, <1>7, <1>8, <1>9,
     <1>10, <1>11, <1>12, <1>13, <1>14, <1>15, <1>16, <1>17
     DEF Next, Arrive, Step

\* The locks are taken and left as the "with" blocks say.
LEMMA LockStep ==
    ASSUME IInv, [Next]_vars
    PROVE  LockInv'
<1> USE BuilderFacts DEF IInv, TypeOK, LockInv, PlaceInv, Building, Answers,
                         LookUp, Goto, ReleaseCache, storageVars, buildVars
<1>1. ASSUME NEW t \in Thread, NEW k \in Key, Ask(t, k)
      PROVE  LockInv'
  <2>1. /\ pc'[t] \in {"queued", "answered"} /\ ~Building(t)
        /\ \A s \in Thread \ {t} : pc'[s] = pc[s] /\ kind'[s] = kind[s]
    BY <1>1 DEF Ask
  <2>2. QED
    BY <1>1, <2>1 DEF Ask
<1>2. ASSUME NEW t \in Thread, Analyze(t)
      PROVE  LockInv'
  <2>1. /\ pc'[t] \in {"queued"} /\ ~Building(t)
        /\ \A s \in Thread \ {t} : pc'[s] = pc[s] /\ kind'[s] = kind[s]
    BY <1>2 DEF Analyze
  <2>2. QED
    BY <1>2, <2>1 DEF Analyze
<1>3. ASSUME NEW t \in Thread, Preview(t)
      PROVE  LockInv'
  <2>1. /\ pc'[t] = "call" /\ kind'[t] = "preview" /\ ~Building(t)
        /\ \A s \in Thread \ {t} : pc'[s] = pc[s] /\ kind'[s] = kind[s]
        /\ UNCHANGED <<closed, cacheLock, storageLock>>
    BY <1>3 DEF Preview
  <2>2. pc'[t] \notin {"query", "scan"} /\ kind'[t] \notin Key
    BY <2>1
  <2>3. QED
    BY <2>1, <2>2
<1>4. ASSUME NEW t \in Thread, StartClose(t)
      PROVE  LockInv'
  <2>1. /\ pc'[t] = "closing" /\ kind'[t] = "close" /\ ~Building(t)
        /\ \A s \in Thread \ {t} : pc'[s] = pc[s] /\ kind'[s] = kind[s]
        /\ UNCHANGED <<closed, cacheLock, storageLock>>
    BY <1>4 DEF StartClose
  <2>2. pc'[t] \notin {"query", "scan"} /\ kind'[t] \notin Key
    BY <2>1
  <2>3. QED
    BY <2>1, <2>2
<1>5. ASSUME NEW t \in Thread, Disconnect(t)
      PROVE  LockInv'
  BY <1>5 DEF Disconnect
<1>6. ASSUME NEW t \in Thread, StartWork(t)
      PROVE  LockInv'
  BY <1>6 DEF StartWork
<1>7. ASSUME NEW t \in Thread, EnterCache(t)
      PROVE  LockInv'
  BY <1>7 DEF EnterCache
<1>8. ASSUME NEW t \in Thread, Store(t)
      PROVE  LockInv'
  BY <1>8 DEF Store
<1>9. ASSUME NEW t \in Thread, CallClosed(t)
      PROVE  LockInv'
  BY <1>9 DEF CallClosed
<1>10. ASSUME NEW t \in Thread, CallMemoized(t)
      PROVE  LockInv'
  BY <1>10, AdvanceFacts DEF CallMemoized
<1>11. ASSUME NEW t \in Thread, CallStorage(t)
      PROVE  LockInv'
  BY <1>11 DEF CallStorage
<1>12. ASSUME NEW t \in Thread, EndQuery(t)
      PROVE  LockInv'
  <2>1. /\ pc[t] \in {"query", "scan"} /\ storageLock' = None
        /\ UNCHANGED <<closed, kind, cacheLock>>
    BY <1>12 DEF EndQuery
  <2>2. /\ pc'[t] \in {"call", "answered", "store"}
        /\ \A s \in Thread \ {t} : pc'[s] = pc[s]
        /\ kind[t] \in Key => pc'[t] # "answered"
    BY <1>12, <2>1, AdvanceFacts DEF EndQuery
  <2>3. \A s \in Thread \ {t} : pc[s] \notin {"query", "scan"}
    BY <2>1
  <2>4. QED
    BY <2>1, <2>2, <2>3
<1>13. ASSUME NEW t \in Thread, ScanBatch(t)
      PROVE  LockInv'
  <2>1. CASE batch[t] < Batches - 1
    BY <1>13, <2>1 DEF ScanBatch
  <2>2. CASE ~(batch[t] < Batches - 1)
    <3>1. /\ pc[t] \in {"query", "scan"} /\ storageLock' = None
          /\ UNCHANGED <<closed, kind, cacheLock>>
      BY <1>13, <2>2 DEF ScanBatch
    <3>2. /\ pc'[t] \in {"call", "answered", "store"}
          /\ \A s \in Thread \ {t} : pc'[s] = pc[s]
          /\ kind[t] \in Key => pc'[t] # "answered"
      BY <1>13, <3>1, <2>2, AdvanceFacts DEF ScanBatch
    <3>3. \A s \in Thread \ {t} : pc[s] \notin {"query", "scan"}
      BY <3>1
    <3>4. QED
      BY <3>1, <3>2, <3>3
  <2>3. QED
    BY <2>1, <2>2
<1>14. ASSUME NEW t \in Thread, QueryFails(t)
      PROVE  LockInv'
  BY <1>14 DEF QueryFails
<1>15. ASSUME NEW t \in Thread, Close(t)
      PROVE  LockInv'
  BY <1>15 DEF Close
<1>16. ASSUME NEW t \in Thread, CloseFails(t)
      PROVE  LockInv'
  BY <1>16 DEF CloseFails
<1>17. CASE UNCHANGED vars
  BY <1>17 DEF vars
<1>18. QED
  BY <1>1, <1>2, <1>3, <1>4, <1>5, <1>6, <1>7, <1>8, <1>9,
     <1>10, <1>11, <1>12, <1>13, <1>14, <1>15, <1>16, <1>17
     DEF Next, Arrive, Step

\* A thread moves through its builder call by call.
LEMMA PlaceStep ==
    ASSUME IInv, [Next]_vars
    PROVE  PlaceInv'
<1> USE BuilderFacts DEF IInv, TypeOK, LockInv, PlaceInv, Building, Answers,
                         Call, LookUp, Goto, ReleaseCache, storageVars,
                         buildVars
<1>1. ASSUME NEW t \in Thread, NEW k \in Key, Ask(t, k)
      PROVE  PlaceInv'
  BY <1>1 DEF Ask
<1>2. ASSUME NEW t \in Thread, Analyze(t)
      PROVE  PlaceInv'
  BY <1>2 DEF Analyze
<1>3. ASSUME NEW t \in Thread, Preview(t)
      PROVE  PlaceInv'
  <2>1. /\ kind'[t] = "preview" /\ pc'[t] = "call" /\ step[t] = 1
        /\ \A s \in Thread \ {t} : pc'[s] = pc[s] /\ kind'[s] = kind[s]
    BY <1>3 DEF Preview
  <2>2. step[t] <= Size("preview")
    BY <2>1, PreviewIsOneCall
  <2>3. QED
    BY <1>3, <2>1, <2>2 DEF Preview
<1>4. ASSUME NEW t \in Thread, StartClose(t)
      PROVE  PlaceInv'
  BY <1>4 DEF StartClose
<1>5. ASSUME NEW t \in Thread, Disconnect(t)
      PROVE  PlaceInv'
  BY <1>5 DEF Disconnect
<1>6. ASSUME NEW t \in Thread, StartWork(t)
      PROVE  PlaceInv'
  BY <1>6 DEF StartWork
<1>7. ASSUME NEW t \in Thread, EnterCache(t)
      PROVE  PlaceInv'
  <2>1. /\ pc'[t] \in {"call", "answered"} /\ step[t] = 1 /\ kind[t] \in Key
        /\ \A s \in Thread \ {t} : pc'[s] = pc[s]
    BY <1>7 DEF EnterCache
  <2>2. step[t] <= Size(kind[t])
    BY ONLY <2>1, SizeFacts
  <2>3. QED
    BY <1>7, <2>1, <2>2 DEF EnterCache
<1>8. ASSUME NEW t \in Thread, Store(t)
      PROVE  PlaceInv'
  BY <1>8 DEF Store
<1>9. ASSUME NEW t \in Thread, CallClosed(t)
      PROVE  PlaceInv'
  BY <1>9 DEF CallClosed
<1>10. ASSUME NEW t \in Thread, CallMemoized(t)
      PROVE  PlaceInv'
  BY <1>10, AdvanceFacts DEF CallMemoized
<1>11. ASSUME NEW t \in Thread, CallStorage(t)
      PROVE  PlaceInv'
  BY <1>11 DEF CallStorage
<1>12. ASSUME NEW t \in Thread, EndQuery(t)
      PROVE  PlaceInv'
  BY <1>12, AdvanceFacts DEF EndQuery
<1>13. ASSUME NEW t \in Thread, ScanBatch(t)
      PROVE  PlaceInv'
  <2>1. CASE batch[t] < Batches - 1
    BY <1>13, <2>1 DEF ScanBatch
  <2>2. CASE ~(batch[t] < Batches - 1)
    BY <1>13, <2>2, AdvanceFacts DEF ScanBatch
  <2>3. QED
    BY <2>1, <2>2
<1>14. ASSUME NEW t \in Thread, QueryFails(t)
      PROVE  PlaceInv'
  BY <1>14 DEF QueryFails
<1>15. ASSUME NEW t \in Thread, Close(t)
      PROVE  PlaceInv'
  BY <1>15 DEF Close
<1>16. ASSUME NEW t \in Thread, CloseFails(t)
      PROVE  PlaceInv'
  BY <1>16 DEF CloseFails
<1>17. CASE UNCHANGED vars
  BY <1>17 DEF vars
<1>18. QED
  BY <1>1, <1>2, <1>3, <1>4, <1>5, <1>6, <1>7, <1>8, <1>9,
     <1>10, <1>11, <1>12, <1>13, <1>14, <1>15, <1>16, <1>17
     DEF Next, Arrive, Step

-----------------------------------------------------------------------------
(* What the cached values were made of.                                    *)

Acts(t) == Arrive(t) \/ Disconnect(t) \/ Step(t)

\* A step of one thread leaves the others where they are.
LEMMA OthersStay ==
    ASSUME TypeOK, NEW t \in Thread, Acts(t), NEW s \in Thread \ {t}
    PROVE  /\ pc'[s] = pc[s] /\ kind'[s] = kind[s] /\ step'[s] = step[s]
           /\ used'[s] = used[s] /\ value'[s] = value[s]
<1> USE DEF TypeOK, LookUp, Goto, ReleaseCache, storageVars, buildVars
<1>1. CASE Arrive(t)
  BY <1>1 DEF Arrive, Ask, Analyze, Preview, StartClose
<1>2. CASE Disconnect(t) \/ StartWork(t) \/ EnterCache(t) \/ Store(t)
  BY <1>2 DEF Disconnect, StartWork, EnterCache, Store
<1>3. CASE CallClosed(t) \/ CallStorage(t) \/ QueryFails(t) \/ Close(t) \/ CloseFails(t)
  BY <1>3 DEF CallClosed, CallStorage, QueryFails, Close, CloseFails
<1>4. CASE CallMemoized(t) \/ EndQuery(t)
  BY <1>4 DEF CallMemoized, EndQuery, Advance
<1>5. CASE ScanBatch(t)
  BY <1>5 DEF ScanBatch, Advance
<1>6. QED
  BY <1>1, <1>2, <1>3, <1>4, <1>5 DEF Acts, Step

\* A scan that is kept is never run again.
LEMMA MemoStays ==
    ASSUME IInv, NEW t \in Thread, Acts(t), NEW m \in Memo, memo[m] # None
    PROVE  memo'[m] = memo[m]
<1>1. CASE ScanBatch(t)
  <2>1. pc[t] = "scan" /\ memo[Call(t)] = None
    BY <1>1 DEF ScanBatch, IInv, PlaceInv
  <2>2. memo' = memo \/ memo' = [memo EXCEPT ![Call(t)] = t]
    BY <1>1 DEF ScanBatch
  <2>3. QED
    BY <2>1, <2>2 DEF IInv, TypeOK
<1>2. CASE ~ScanBatch(t)
  BY <1>2 DEF Acts, Arrive, Step, Ask, Analyze, Preview, StartClose, Disconnect,
              StartWork, EnterCache, Store, CallClosed, CallMemoized, CallStorage,
              EndQuery, QueryFails, Close, CloseFails, storageVars
<1>3. QED
  BY <1>1, <1>2

LEMMA ScansBeforeNext ==
    ASSUME NEW k \in DOMAIN Builder, NEW n \in 1 .. 6
    PROVE  ScansBefore(k, n + 1) = ScansBefore(k, n) \cup ({Builder[k][n]} \cap Memo)
<1>1. \A i \in Nat : i \in 1 .. (n + 1) - 1 <=> i \in 1 .. n - 1 \/ i = n
  OBVIOUS
<1>2. QED
  BY <1>1 DEF ScansBefore

LEMMA NoScansBeforeFirst ==
    ASSUME NEW k PROVE ScansBefore(k, 1) = {}
BY DEF ScansBefore

LEMMA AllScansBeforeEnd ==
    ASSUME NEW k \in Key PROVE ScansBefore(k, Size(k) + 1) = Scans(k)
<1>1. DOMAIN Builder[k] = 1 .. Size(k) /\ Size(k) \in 1 .. 6
  BY BuilderFacts
<1>2. 1 .. (Size(k) + 1) - 1 = 1 .. Size(k)
  BY <1>1
<1>3. QED
  BY <1>1, <1>2 DEF ScansBefore, Scans

\* What a thread has read grows with the calls it has come past.
LEMMA SeenStep ==
    ASSUME IInv, NEW t \in Thread, Acts(t)
    PROVE  SeenInv'
<1>1. TypeOK /\ PlaceInv /\ SeenInv /\ MemoInv
  BY DEF IInv
<1>2. ASSUME NEW s \in Thread \ {t}, Building(s)'
      PROVE  Seen(s)'
  <2>1. /\ pc'[s] = pc[s] /\ kind'[s] = kind[s] /\ step'[s] = step[s]
        /\ used'[s] = used[s]
    BY <1>1, OthersStay
  <2>2. Building(s) /\ Seen(s)
    BY <1>1, <1>2, <2>1 DEF SeenInv, Building
  <2>3. QED
    BY <2>1, <2>2 DEF Seen, ScansBefore
<1>3. ASSUME Building(t)'
      PROVE  Seen(t)'
  <2>1. CASE Preview(t) \/ EnterCache(t)
    <3>1. step'[t] = 1 /\ used'[t] = {}
      BY <1>1, <2>1 DEF Preview, EnterCache, buildVars, PlaceInv
    <3>2. QED
      BY <3>1 DEF Seen, ScansBefore
  <2>2. CASE CallStorage(t)
    <3>1. Building(t) /\ UNCHANGED <<kind, step, used>>
      BY <2>2 DEF CallStorage, buildVars, Building
    <3>2. QED
      BY <1>1, <3>1 DEF SeenInv, Seen, ScansBefore
  <2>3. ASSUME pc[t] \in {"call", "query", "scan"}, Advance(t), kind' = kind,
               \/ used'[t] = used[t] /\ Call(t) \notin Memo
               \/ Call(t) \in Memo /\ \E s : used'[t] = used[t] \cup {<<Call(t), s>>}
        PROVE  Seen(t)'
    <3>1. step'[t] = step[t] + 1
      BY <1>1, <2>3, AdvanceFacts
    <3>2. kind[t] \in DOMAIN Builder /\ step[t] \in 1 .. 6
      <4>1. kind[t] \in DOMAIN Builder /\ step[t] <= Size(kind[t])
        BY <1>1, <2>3 DEF PlaceInv, Building
      <4>2. step[t] \in 1 .. 7
        BY <1>1 DEF TypeOK
      <4>3. Size(kind[t]) \in 1 .. 6
        BY <4>1, BuilderFacts
      <4>4. QED
        BY ONLY <4>1, <4>2, <4>3
    <3>3. ScansBefore(kind[t], step'[t]) =
             ScansBefore(kind[t], step[t]) \cup ({Call(t)} \cap Memo)
      BY <3>1, <3>2, ScansBeforeNext DEF Call
    <3>4. {p[1] : p \in used[t]} = ScansBefore(kind[t], step[t])
      BY <1>1, <2>3 DEF SeenInv, Seen, Building
    <3>5. {p[1] : p \in used'[t]} = {p[1] : p \in used[t]} \cup ({Call(t)} \cap Memo)
      <4>1. CASE used'[t] = used[t] /\ Call(t) \notin Memo
        BY <4>1
      <4>2. ASSUME Call(t) \in Memo, NEW s, used'[t] = used[t] \cup {<<Call(t), s>>}
            PROVE  {p[1] : p \in used'[t]} = {p[1] : p \in used[t]} \cup {Call(t)}
        <5>1. <<Call(t), s>>[1] = Call(t)
          OBVIOUS
        <5>2. QED
          BY ONLY <4>2, <5>1
      <4>3. QED
        BY <2>3, <4>1, <4>2
    <3>6. {p[1] : p \in used'[t]} = ScansBefore(kind[t], step'[t])
      BY <3>3, <3>4, <3>5
    <3>7. QED
      BY <2>3, <3>6 DEF Seen, ScansBefore
  <2>4. CASE CallMemoized(t)
    <3>1. used'[t] = used[t] \cup {<<Call(t), memo[Call(t)]>>}
      BY <1>1, <2>4 DEF CallMemoized, TypeOK
    <3>2. QED
      BY <2>3, <2>4, <3>1 DEF CallMemoized
  <2>5. CASE EndQuery(t)
    <3>1. Call(t) \notin Memo
      BY <1>1, <2>5 DEF EndQuery, PlaceInv
    <3>2. /\ pc[t] \in {"call", "query", "scan"} /\ Advance(t)
          /\ kind' = kind /\ used'[t] = used[t]
      BY <2>5 DEF EndQuery
    <3>3. QED
      BY <2>3, <3>1, <3>2
  <2>6. CASE ScanBatch(t) /\ batch[t] < Batches - 1
    <3>1. Building(t) /\ UNCHANGED <<kind, step, used>>
      BY <2>6 DEF ScanBatch, Building
    <3>2. QED
      BY <1>1, <3>1 DEF SeenInv, Seen, ScansBefore
  <2>7. CASE ScanBatch(t) /\ ~(batch[t] < Batches - 1)
    <3>1. Call(t) \in Memo
      BY <1>1, <2>7 DEF ScanBatch, PlaceInv
    <3>2. used'[t] = used[t] \cup {<<Call(t), t>>}
      BY <1>1, <2>7 DEF ScanBatch, TypeOK
    <3>3. QED
      BY <2>3, <2>7, <3>1, <3>2 DEF ScanBatch
  <2>8. CASE \/ Analyze(t) \/ StartClose(t) \/ Disconnect(t) \/ StartWork(t)
             \/ Store(t) \/ CallClosed(t) \/ QueryFails(t) \/ Close(t)
             \/ CloseFails(t) \/ \E k \in Key : Ask(t, k)
    <3>1. pc'[t] \notin {"call", "query", "scan", "store"}
      BY <1>1, <2>8
         DEF TypeOK, Analyze, StartClose, Disconnect, StartWork, Store, CallClosed,
             QueryFails, Close, CloseFails, Ask, LookUp, Goto
    <3>2. QED
      BY <1>3, <3>1 DEF Building
  <2>9. QED
    BY <2>1, <2>2, <2>4, <2>5, <2>6, <2>7, <2>8 DEF Acts, Arrive, Step
<1>4. QED
  BY <1>2, <1>3 DEF SeenInv

\* Only Store changes the cache, and it adds a value that was not there.
LEMMA CacheChange ==
    ASSUME IInv, NEW t \in Thread, Acts(t), NEW k \in Key, cache'[k] # cache[k]
    PROVE  /\ Store(t) /\ kind[t] = k /\ cache[k] = None
           /\ cache'[k] = [by |-> t, used |-> used[t]]
<1>1. Store(t)
  BY DEF Acts, Arrive, Step, Ask, Analyze, Preview, StartClose, Disconnect,
         StartWork, EnterCache, CallClosed, CallMemoized, CallStorage,
         EndQuery, ScanBatch, QueryFails, Close, CloseFails, storageVars
<1>2. kind[t] = k /\ cache'[k] = [by |-> t, used |-> used[t]]
  BY <1>1 DEF Store, IInv, TypeOK
<1>3. cache[kind[t]] = None
  BY <1>1, <1>2 DEF Store, IInv, CacheInv, Building
<1>4. QED
  BY <1>1, <1>2, <1>3

\* What was read from a scan stays what the scan gave.
LEMMA MemoStep ==
    ASSUME IInv, NEW t \in Thread, Acts(t)
    PROVE  MemoInv'
<1>1. TypeOK /\ PlaceInv /\ MemoInv
  BY DEF IInv
<1>2. \A s \in Thread : \A p \in used[s] : p[1] \in Memo /\ memo'[p[1]] = p[2]
  <2>1. ASSUME NEW s \in Thread, NEW p \in used[s]
        PROVE  p[1] \in Memo /\ memo[p[1]] = p[2] /\ p[2] # None
    BY <1>1 DEF TypeOK, MemoInv
  <2>2. QED
    BY <2>1, MemoStays
<1>3. ASSUME NEW p \in used'[t]
      PROVE  memo'[p[1]] = p[2]
  <2>1. CASE used'[t] = used[t]
    BY <1>2, <1>3, <2>1
  <2>2. CASE CallMemoized(t)
    <3>1. /\ used'[t] = used[t] \cup {<<Call(t), memo[Call(t)]>>}
          /\ Call(t) \in Memo /\ memo' = memo
      BY <1>1, <2>2 DEF CallMemoized, TypeOK, storageVars
    <3>2. QED
      BY <1>2, <1>3, <3>1
  <2>3. CASE ScanBatch(t) /\ ~(batch[t] < Batches - 1)
    <3>1. /\ used'[t] = used[t] \cup {<<Call(t), t>>}
          /\ Call(t) \in Memo /\ memo'[Call(t)] = t
      BY <1>1, <2>3 DEF ScanBatch, PlaceInv, TypeOK
    <3>2. QED
      BY <1>2, <1>3, <3>1
  <2>4. used'[t] = used[t] \/ CallMemoized(t)
           \/ (ScanBatch(t) /\ ~(batch[t] < Batches - 1))
    BY DEF Acts, Arrive, Step, Ask, Analyze, Preview, StartClose, Disconnect,
           StartWork, EnterCache, Store, CallClosed, CallStorage, EndQuery, ScanBatch,
           QueryFails, Close, CloseFails, buildVars
  <2>5. QED
    BY <2>1, <2>2, <2>3, <2>4
<1>4. \A s \in Thread : \A p \in used'[s] : memo'[p[1]] = p[2]
  BY <1>1, <1>2, <1>3, OthersStay
<1>5. ASSUME NEW k \in Key, cache'[k] # None, NEW p \in cache'[k].used
      PROVE  memo'[p[1]] = p[2]
  <2>1. CASE cache'[k] = cache[k]
    <3>1. cache[k] \in Value /\ p \in cache[k].used
      BY <1>1, <1>5, <2>1 DEF TypeOK
    <3>2. p[1] \in Memo /\ p[2] # None
      BY <3>1 DEF Value
    <3>3. memo[p[1]] = p[2]
      BY <1>1, <1>5, <2>1 DEF MemoInv
    <3>4. QED
      BY <3>2, <3>3, MemoStays
  <2>2. CASE cache'[k] # cache[k]
    <3>1. cache'[k] = [by |-> t, used |-> used[t]]
      BY <2>2, CacheChange
    <3>2. p \in used[t]
      BY ONLY <1>5, <3>1
    <3>3. QED
      BY <1>2, <3>2
  <2>3. QED
    BY <2>1, <2>2
<1>6. QED
  BY <1>4, <1>5 DEF MemoInv

\* What is cached was built by all the calls of its builder.
LEMMA CompleteStep ==
    ASSUME IInv, NEW t \in Thread, Acts(t)
    PROVE  CachedIsComplete'
<1>1. ASSUME NEW k \in Key, cache'[k] # None
      PROVE  {p[1] : p \in cache'[k].used} = Scans(k)
  <2>1. CASE cache'[k] = cache[k]
    BY <1>1, <2>1 DEF IInv, CachedIsComplete
  <2>2. CASE cache'[k] # cache[k]
    <3>1. /\ Store(t) /\ kind[t] = k
          /\ cache'[k] = [by |-> t, used |-> used[t]]
      BY <2>2, CacheChange
    <3>2. /\ Building(t) /\ step[t] = Size(k) + 1
      BY <3>1 DEF Store, Building, IInv, PlaceInv
    <3>3. {p[1] : p \in used[t]} = ScansBefore(k, Size(k) + 1)
      BY <3>1, <3>2 DEF IInv, SeenInv, Seen
    <3>4. cache'[k].used = used[t]
      BY ONLY <3>1
    <3>5. QED
      BY <3>3, <3>4, AllScansBeforeEnd
  <2>3. QED
    BY <2>1, <2>2
<1>2. QED
  BY <1>1 DEF CachedIsComplete, Scans

\* Whoever builds is alone with the cache, whoever is answered has what it holds.
LEMMA CacheStep ==
    ASSUME IInv, NEW t \in Thread, Acts(t)
    PROVE  CacheInv'
<1>1. TypeOK /\ LockInv /\ PlaceInv /\ CacheInv
  BY DEF IInv
<1>2. ASSUME NEW s \in Thread, kind'[s] \in Key, Building(s)'
      PROVE  cache'[kind'[s]] = None
  <2>1. CASE Store(t)
    <3>1. pc'[t] = "answered" /\ cacheLock = t
      BY <1>1, <2>1 DEF Store, Goto, TypeOK, LockInv, PlaceInv, Building
    <3>2. s # t
      BY <1>2, <3>1 DEF Building
    <3>3. pc'[s] = pc[s] /\ kind'[s] = kind[s]
      BY <1>1, <3>2, OthersStay
    <3>4. cacheLock = s
      BY <1>1, <1>2, <3>3 DEF LockInv, Building
    <3>5. QED
      BY <3>1, <3>2, <3>4
  <2>2. CASE ~Store(t)
    <3>1. cache'[kind'[s]] = cache[kind'[s]]
      BY <1>2, <2>2, CacheChange
    <3>2. CASE Building(s) /\ kind'[s] = kind[s]
      BY <1>1, <1>2, <3>1, <3>2 DEF CacheInv
    <3>3. CASE ~(Building(s) /\ kind'[s] = kind[s])
      <4>1. s = t
        BY <1>1, <1>2, <3>3, OthersStay DEF Building
      <4>2. EnterCache(t)
        BY <1>1, <1>2, <2>2, <3>3, <4>1, BuilderFacts
           DEF TypeOK, PlaceInv, Building, Acts, Arrive, Step, Ask, Analyze, Preview,
               StartClose, Disconnect, StartWork, CallClosed, CallMemoized, CallStorage,
               EndQuery, ScanBatch, QueryFails, Close, CloseFails, LookUp, Goto
      <4>3. kind' = kind /\ cache[kind[t]] = None
        BY <1>1, <1>2, <4>1, <4>2 DEF EnterCache, LookUp, Goto, TypeOK, Building
      <4>4. QED
        BY <3>1, <4>1, <4>3
    <3>4. QED
      BY <3>2, <3>3
  <2>3. QED
    BY <2>1, <2>2
<1>3. ASSUME NEW s \in Thread, kind'[s] \in Key, pc'[s] = "answered"
      PROVE  value'[s] = cache'[kind'[s]] /\ value'[s] # None
  <2>1. CASE s \in Answered /\ kind'[s] = kind[s] /\ value'[s] = value[s]
    <3>1. value[s] = cache[kind[s]] /\ value[s] # None /\ kind[s] \in Key
      BY <1>1, <1>3, <2>1 DEF CacheInv
    <3>2. cache[kind[s]] # None
      BY <3>1
    <3>3. cache'[kind[s]] = cache[kind[s]]
      BY <3>1, <3>2, CacheChange
    <3>4. QED
      BY <2>1, <3>1, <3>3
  <2>2. CASE ~(s \in Answered /\ kind'[s] = kind[s] /\ value'[s] = value[s])
    <3>1. s = t
      BY <1>1, <1>3, <2>2, OthersStay DEF Answered
    <3>2. CASE Store(t)
      <4>1. [by |-> t, used |-> used[t]] \in Value /\ kind[t] \in Key
        BY <1>1, <3>2 DEF Store, TypeOK, PlaceInv, Value
      <4> DEFINE built == [by |-> t, used |-> used[t]]
      <4>3. /\ cache' = [cache EXCEPT ![kind[t]] = built]
            /\ value' = [value EXCEPT ![t] = built] /\ kind' = kind
        BY <3>2 DEF Store
      <4>4. cache'[kind[t]] = built /\ value'[t] = built
        BY <1>1, <4>1, <4>3 DEF TypeOK
      <4>5. built # None
        BY <4>1
      <4>6. QED
        BY <3>1, <4>3, <4>4, <4>5
    <3>3. CASE ~Store(t)
      <4>1. cache' = cache
        BY <3>3 DEF Acts, Arrive, Step, Ask, Analyze, Preview, StartClose, Disconnect,
                    StartWork, EnterCache, CallClosed, CallMemoized, CallStorage,
                    EndQuery, ScanBatch, QueryFails, Close, CloseFails, storageVars
      <4>2. \E k \in Key : /\ kind'[t] = k /\ value'[t] = cache[k]
                           /\ cache[k] # None
        <5>1. CASE \E k \in Key : Ask(t, k)
          BY <1>1, <1>3, <3>1, <5>1 DEF Ask, LookUp, Goto, TypeOK
        <5>2. CASE StartWork(t) \/ EnterCache(t)
          BY <1>1, <1>3, <3>1, <5>2 DEF StartWork, EnterCache, LookUp, Goto, TypeOK
        <5>3. CASE CallMemoized(t) \/ EndQuery(t) \/ ScanBatch(t)
          BY <1>1, <1>3, <3>1, <5>3, AdvanceFacts, BuilderFacts
             DEF CallMemoized, EndQuery, ScanBatch, TypeOK
        <5>4. QED
          BY <1>1, <1>3, <3>1, <3>3, <5>1, <5>2, <5>3
             DEF TypeOK, Acts, Arrive, Step, Analyze, Preview, StartClose, Disconnect,
                 CallClosed, CallStorage, QueryFails, Close, CloseFails, Goto
      <4>3. QED
        BY <3>1, <4>1, <4>2
    <3>4. QED
      BY <3>2, <3>3
  <2>3. QED
    BY <2>1, <2>2
<1>4. QED
  BY <1>2, <1>3 DEF CacheInv, Answered

-----------------------------------------------------------------------------
LEMMA StepIInv == IInv /\ [Next]_vars => IInv'
<1> SUFFICES ASSUME IInv, [Next]_vars PROVE IInv'
  OBVIOUS
<1>1. TypeOK' /\ LockInv' /\ PlaceInv'
  BY TypeStep, LockStep, PlaceStep
<1>2. CASE Next
  <2>1. PICK t \in Thread : Acts(t)
    BY <1>2 DEF Next, Acts
  <2>2. QED
    BY <1>1, <2>1, SeenStep, MemoStep, CacheStep, CompleteStep DEF IInv
<1>3. CASE UNCHANGED vars
  <2>1. SeenInv' /\ MemoInv'
    BY <1>3 DEF IInv, SeenInv, Seen, ScansBefore, MemoInv, Building, vars
  <2>2. CacheInv' /\ CachedIsComplete'
    BY <1>3 DEF IInv, CacheInv, CachedIsComplete, Scans, Answered, Building, vars
  <2>3. QED
    BY <1>1, <2>1, <2>2 DEF IInv
<1>4. QED
  BY <1>2, <1>3

LEMMA Invariant == Spec => []IInv
BY InitIInv, StepIInv, PTL DEF Spec

-----------------------------------------------------------------------------
(* The properties.                                                         *)

\* Every reachable state is well typed, whoever asks for what and in any order.
THEOREM StorageTypes == Spec => []TypeOK
<1>1. IInv => TypeOK
  BY DEF IInv
<1>2. QED
  BY <1>1, Invariant, PTL

\* However many requests run and whenever the dataset is deleted, no query ever
\* reaches a connection that was closed.
THEOREM ClosedStorageIsQuiet == Spec => []NoQueryOnClosedStorage
<1>1. IInv => NoQueryOnClosedStorage
  BY DEF IInv, LockInv, NoQueryOnClosedStorage
<1>2. QED
  BY <1>1, Invariant, PTL

\* Any number of concurrent requests are answered from one build per key and one
\* run of each scan.
THEOREM AnswersAlwaysAgree == Spec => []AnswersAgree
<1>1. ASSUME IInv, NEW s \in Answered, NEW t \in Answered
      PROVE  /\ kind[s] = kind[t] => value[s] = value[t]
             /\ \A p \in value[s].used, q \in value[t].used :
                   p[1] = q[1] => p[2] = q[2]
  <2>1. /\ value[s] = cache[kind[s]] /\ value[s] # None /\ kind[s] \in Key
        /\ value[t] = cache[kind[t]] /\ value[t] # None /\ kind[t] \in Key
    BY <1>1 DEF IInv, CacheInv, Answered
  <2>2. /\ \A p \in value[s].used : memo[p[1]] = p[2]
        /\ \A q \in value[t].used : memo[q[1]] = q[2]
    BY <1>1, <2>1 DEF IInv, MemoInv
  <2>3. QED
    BY <2>1, <2>2
<1>2. IInv => AnswersAgree
  BY <1>1 DEF AnswersAgree
<1>3. QED
  BY <1>2, Invariant, PTL

\* Nothing that an error or a close cut short is ever cached.
THEOREM CacheHoldsWholeBuilds == Spec => []CachedIsComplete
<1>1. IInv => CachedIsComplete
  BY DEF IInv
<1>2. QED
  BY <1>1, Invariant, PTL
-----------------------------------------------------------------------------
(* Progress.  What EveryThreadFinishes needs of the model besides the      *)
(* fairness of Step: somebody can always go on, and every step brings the  *)
(* one thread that takes it closer to its end.                             *)

\* A request or a close that has begun and is not over.
Underway(t) == pc[t] \notin {"idle"} \cup Answers

\* The guards of the disjuncts of Step(t), joined.
Ready(t) ==
    \/ pc[t] \in {"query", "scan", "store"}
    \/ pc[t] = "queued" /\ Cardinality(OnWorker) < Workers
    \/ pc[t] = "want_cache" /\ cacheLock = None
    \/ pc[t] \in {"call", "closing"} /\ storageLock = None

NeverStuck ==
    (\E t \in Thread : Underway(t)) => \E t \in Thread : Ready(t)

\* The phases of a thread, counted down; a build and a close are one phase.
Phase(t) ==
    CASE pc[t] = "idle"       -> 4
      [] pc[t] = "queued"     -> 3
      [] pc[t] = "want_cache" -> 2
      [] pc[t] \in Answers    -> 0
      [] OTHER                -> 1

\* What is left of the call a build is at.
Left(t) ==
    CASE pc[t] = "call" -> Batches + 1
      [] pc[t] = "scan" -> Batches - batch[t]
      [] OTHER          -> 0

\* A later phase, a later call of the builder, or less left of this call.
Closer(t) ==
    \/ Phase(t)' < Phase(t)
    \/ Phase(t)' = Phase(t) /\ step'[t] > step[t]
    \/ Phase(t)' = Phase(t) /\ step'[t] = step[t] /\ Left(t)' < Left(t)

\* Nothing Phase and Left depend on, of any other thread.
OnlyMoves(t) ==
    \A s \in Thread \ {t} :
        pc'[s] = pc[s] /\ step'[s] = step[s] /\ batch'[s] = batch[s]

LEMMA SomebodyIsReady ==
    ASSUME IInv, NEW t \in Thread, Underway(t)
    PROVE  \E s \in Thread : Ready(s)
<1> USE DEF IInv, TypeOK
<1>1. CASE storageLock # None
  <2>1. PICK s \in Thread : storageLock = s
    BY <1>1
  <2>2. pc[s] \in {"query", "scan"}
    BY <2>1 DEF LockInv
  <2>3. QED
    BY <2>2 DEF Ready
<1>2. CASE storageLock = None /\ \E s \in Thread : pc[s] \in {"call", "closing", "store"}
  BY <1>2 DEF Ready
<1>3. CASE /\ storageLock = None
           /\ ~\E s \in Thread : pc[s] \in {"call", "closing", "store"}
  <2>1. \A s \in Thread : pc[s] \notin {"query", "scan", "call", "closing", "store"}
    BY <1>3 DEF LockInv
  <2>2. cacheLock = None
    BY <2>1 DEF LockInv, Building
  <2>3. CASE \E s \in Thread : pc[s] = "want_cache"
    BY <2>2, <2>3 DEF Ready
  <2>4. CASE ~\E s \in Thread : pc[s] = "want_cache"
    <3>1. OnWorker = {}
      BY <2>1, <2>4 DEF OnWorker
    <3>2. Cardinality(OnWorker) = 0
      BY <3>1, FS_EmptySet
    <3>3. pc[t] = "queued"
      BY <2>1, <2>4 DEF Underway
    <3>4. QED
      BY <3>2, <3>3 DEF Ready
  <2>5. QED
    BY <2>3, <2>4
<1>4. QED
  BY <1>1, <1>2, <1>3

\* Going on to the next call, or past the last, is progress.
LEMMA AdvanceIsCloser ==
    ASSUME IInv, NEW t \in Thread, pc[t] \in {"call", "query", "scan"}, Advance(t)
    PROVE  Closer(t)
<1>1. /\ step[t] \in Nat /\ step'[t] = step[t] + 1
      /\ pc'[t] \in {"call", "store", "answered"}
  BY AdvanceFacts DEF IInv, TypeOK
<1>2. Phase(t) = 1
  BY DEF Phase, Answers
<1>3. Phase(t)' = IF pc'[t] = "answered" THEN 0 ELSE 1
  BY <1>1 DEF Phase, Answers
<1>4. QED
  BY <1>1, <1>2, <1>3 DEF Closer

\* Another phase is progress, whatever becomes of the rest.
LEMMA LaterPhase ==
    ASSUME NEW t \in Thread,
           \/ pc[t] = "idle" /\ pc'[t] \in {"queued", "call", "closing"} \cup Answers
           \/ pc[t] = "queued" /\ pc'[t] \in {"want_cache"} \cup Answers
           \/ pc[t] = "want_cache" /\ pc'[t] \in {"call"} \cup Answers
           \/ /\ pc[t] \in {"call", "query", "scan", "store", "closing"}
              /\ pc'[t] \in Answers
    PROVE  Closer(t)
<1> USE DEF Phase, Answers
<1>1. CASE pc[t] = "idle" /\ pc'[t] \in {"queued", "call", "closing"} \cup Answers
  <2>1. Phase(t) = 4 /\ Phase(t)' < 4
    BY <1>1
  <2>2. QED
    BY <2>1 DEF Closer
<1>2. CASE pc[t] = "queued" /\ pc'[t] \in {"want_cache"} \cup Answers
  <2>1. Phase(t) = 3 /\ Phase(t)' < 3
    BY <1>2
  <2>2. QED
    BY <2>1 DEF Closer
<1>3. CASE pc[t] = "want_cache" /\ pc'[t] \in {"call"} \cup Answers
  <2>1. Phase(t) = 2 /\ Phase(t)' < 2
    BY <1>3
  <2>2. QED
    BY <2>1 DEF Closer
<1>4. CASE /\ pc[t] \in {"call", "query", "scan", "store", "closing"}
           /\ pc'[t] \in Answers
  <2>1. Phase(t) = 1 /\ Phase(t)' < 1
    BY <1>4
  <2>2. QED
    BY <2>1 DEF Closer
<1>5. QED
  BY <1>1, <1>2, <1>3, <1>4

LEMMA OneMoves ==
    ASSUME IInv, NEW t \in Thread, Acts(t)
    PROVE  Closer(t) /\ OnlyMoves(t)
<1> USE DEF OnlyMoves, Goto, storageVars, buildVars
<1>0. /\ pc \in [Thread -> {"idle", "queued", "want_cache", "call", "query",
                            "scan", "store", "closing"} \cup Answers]
      /\ step \in [Thread -> 1 .. 7] /\ batch \in [Thread -> 0 .. Batches - 1]
  BY DEF IInv, TypeOK
<1>1. ASSUME NEW k \in Key, Ask(t, k)
      PROVE  Closer(t) /\ OnlyMoves(t)
  BY <1>0, <1>1, LaterPhase DEF Ask, LookUp, Answers
<1>2. CASE Analyze(t)
  BY <1>0, <1>2, LaterPhase DEF Analyze
<1>3. CASE Preview(t)
  BY <1>0, <1>3, LaterPhase DEF Preview
<1>4. CASE StartClose(t)
  BY <1>0, <1>4, LaterPhase DEF StartClose
<1>5. CASE Disconnect(t)
  BY <1>0, <1>5, LaterPhase DEF Disconnect, Answers
<1>6. CASE StartWork(t)
  BY <1>0, <1>6, LaterPhase DEF StartWork, LookUp, Answers
<1>7. CASE EnterCache(t)
  BY <1>0, <1>7, LaterPhase DEF EnterCache, LookUp, Answers
<1>8. CASE Store(t)
  BY <1>0, <1>8, LaterPhase DEF Store, Answers
<1>9. CASE CallClosed(t)
  BY <1>0, <1>9, LaterPhase DEF CallClosed, Answers
<1>10. CASE CallMemoized(t)
  <2>1. Closer(t)
    BY <1>10, AdvanceIsCloser DEF CallMemoized
  <2>2. OnlyMoves(t)
    BY <1>0, <1>10 DEF CallMemoized, Advance
  <2>3. QED
    BY <2>1, <2>2
<1>11. CASE CallStorage(t)
  <2>1. pc[t] = "call" /\ pc'[t] \in {"scan", "query"} /\ UNCHANGED <<step, batch>>
    BY <1>0, <1>11 DEF CallStorage
  <2>2. Phase(t) = 1 /\ Phase(t)' = 1
    BY <2>1 DEF Phase, Answers
  <2>3. batch[t] \in 0 .. Batches - 1
    BY <1>0
  <2>4. Left(t) = Batches + 1 /\ Left(t)' \in 0 .. Batches
    BY <2>1, <2>3 DEF Left
  <2>5. Closer(t)
    BY <2>1, <2>2, <2>4 DEF Closer
  <2>6. OnlyMoves(t)
    BY <1>0, <1>11 DEF CallStorage
  <2>7. QED
    BY <2>5, <2>6
<1>12. CASE EndQuery(t)
  <2>1. Closer(t)
    BY <1>12, AdvanceIsCloser DEF EndQuery
  <2>2. OnlyMoves(t)
    BY <1>0, <1>12 DEF EndQuery, Advance
  <2>3. QED
    BY <2>1, <2>2
<1>13. CASE ScanBatch(t)
  <2>1. CASE batch[t] < Batches - 1
    <3>1. /\ pc[t] = "scan" /\ UNCHANGED <<step, pc>>
          /\ batch' = [batch EXCEPT ![t] = @ + 1]
      BY <1>13, <2>1 DEF ScanBatch
    <3>2. Phase(t)' = Phase(t)
      BY <3>1 DEF Phase
    <3>3. batch[t] \in Nat /\ batch'[t] = batch[t] + 1
      BY <1>0, <3>1
    <3>4. Left(t) = Batches - batch[t] /\ Left(t)' = Batches - (batch[t] + 1)
      BY <3>1, <3>3 DEF Left
    <3>5. QED
      BY <1>0, <3>1, <3>2, <3>3, <3>4 DEF Closer
  <2>2. CASE ~(batch[t] < Batches - 1)
    <3>1. pc[t] = "scan" /\ Advance(t) /\ batch' = [batch EXCEPT ![t] = 0]
      BY <1>13, <2>2 DEF ScanBatch
    <3>2. Closer(t)
      BY <3>1, AdvanceIsCloser
    <3>3. OnlyMoves(t)
      BY <1>0, <3>1 DEF Advance
    <3>4. QED
      BY <3>2, <3>3
  <2>3. QED
    BY <2>1, <2>2
<1>14. CASE QueryFails(t)
  BY <1>0, <1>14, LaterPhase DEF QueryFails, Answers
<1>15. CASE Close(t)
  BY <1>0, <1>15, LaterPhase DEF Close, Answers
<1>16. CASE CloseFails(t)
  BY <1>0, <1>16, LaterPhase DEF CloseFails, Answers
<1>17. QED
  BY <1>1, <1>2, <1>3, <1>4, <1>5, <1>6, <1>7, <1>8, <1>9,
     <1>10, <1>11, <1>12, <1>13, <1>14, <1>15, <1>16
     DEF Acts, Arrive, Step

\* The two locks and the pool never leave everybody waiting: while a request or
\* a close is underway, one of the threads can take its next step, with a single
\* worker as with many.
THEOREM NobodyDeadlocks == Spec => []NeverStuck
<1>1. IInv => NeverStuck
  BY SomebodyIsReady DEF NeverStuck
<1>2. QED
  BY <1>1, Invariant, PTL

\* No step is taken in vain or undoes another's: each brings one thread closer to
\* its answer and moves no other, so none waits for a lock by going round.
THEOREM EveryStepIsProgress ==
    Spec => [][\E t \in Thread : Closer(t) /\ OnlyMoves(t)]_vars
<1>1. ASSUME IInv, [Next]_vars
      PROVE  [\E t \in Thread : Closer(t) /\ OnlyMoves(t)]_vars
  BY <1>1, OneMoves DEF Next, Acts
<1>2. QED
  BY <1>1, Invariant, PTL DEF Spec
=============================================================================
