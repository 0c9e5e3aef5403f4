-------------------------- MODULE RequestBody_proofs --------------------------
(***************************************************************************)
(* Proofs about RequestBody, for any limits and any sizes of files, chunks *)
(* and messages: types, one response, what decides it, the agreement of    *)
(* the two limits and the fate of the temporary file.                      *)
(***************************************************************************)
EXTENDS RequestBody, TLAPS

USE NoneAssumption

LEMMA Sizes ==
    /\ MaxUpload \in Nat /\ Headroom \in Nat /\ Limit \in Nat
    /\ MaxUpload <= Limit
    /\ MaxFile \in Nat /\ MaxFraming \in Nat
    /\ ChunkBytes \in Nat \ {0} /\ MaxMessage \in Nat \ {0}
BY SizeAssumption DEF Limit

USE Sizes

LEMMA Statuses == {200, 400, 401, 413, 422, 500} \subseteq Status
BY DEF Status

\* A wire stays one when a response is added.
LEMMA WireGrows ==
    ASSUME wire \in Seq(Status), NEW x \in Status,
           wire' = wire \/ wire' = <<x>> \/ wire' = Append(wire, x)
    PROVE  wire' \in Seq(Status)
<1>1. <<x>> \in Seq(Status)
  OBVIOUS
<1>2. Append(wire, x) \in Seq(Status)
  OBVIOUS
<1>3. QED
  BY <1>1, <1>2

LEMMA Wires == \A x : Append(<<>>, x) = <<x>> /\ <<x>> # <<>> /\ Len(<<x>>) = 1
OBVIOUS

-----------------------------------------------------------------------------
(* The inductive invariant.                                                *)

Plain  == request.app = "plain"
Upload == request.app = "upload"

\* What has been counted, and what is still to come.
CountInv ==
    /\ request.declared \in {None, Total}
    /\ exceeded <=> received > Limit
    /\ pc = "receiving" => ~exceeded
    /\ pc \in {"signal", "propagated"} => exceeded
    /\ spooled <= received /\ spooled <= Limit
    /\ left + received <= Total
    /\ Upload /\ pc \in {"check", "app", "receiving", "parsed", "copying", "ingesting"}
          => left + received = Total /\ ~exceeded
    /\ pc \in {"parsed", "copying", "ingesting"} => left = 0

\* Before the end, the wire holds what the app sent unless the limit came first.
WireInv ==
    ~Ended =>
        /\ wire = IF started THEN <<answer>> ELSE <<>>
        /\ startedBefore = (exceeded /\ started)
        /\ answer = None => ~started
        /\ Plain /\ answer # None => started \/ exceeded
        /\ Upload /\ started => pc = "returned"
        /\ Upload /\ pc = "returned" => started \/ exceeded
        /\ pc = "returned" => exceeded \/ answer # None

\* Where the request can be, and what its file has come to.
PathInv ==
    /\ Plain => /\ pc \in {"check", "app", "receiving", "signal", "returned",
                           "propagated", "error", "done", "raised"}
                /\ tmp = None
    /\ Upload => pc # "propagated"
    /\ pc \in {"respond", "cleanup"} => answer # None
    /\ pc = "check" => answer = None
    /\ Upload /\ pc \in {"app", "receiving", "signal", "parsed", "copying",
                         "ingesting", "error"} => answer = None
    /\ pc \in {"check", "app", "receiving", "signal", "parsed", "error"} => tmp = None
    /\ pc \in {"check", "app", "receiving", "signal", "parsed"} => copied = 0
    /\ pc = "copying" => tmp = copied /\ copied <= MaxUpload /\ copied <= request.file
    /\ tmp # None => tmp <= MaxUpload
    /\ Upload /\ answer = 200 => request.file <= MaxUpload /\ Total <= Limit
    /\ Upload /\ answer = 413 => request.file > MaxUpload

\* What is on the wire in the end was decided by the limits or by the app.
EndInv ==
    Ended => /\ wire \in {<<413>>, <<500>>, <<answer>>}
             /\ wire = <<413>> => exceeded \/ answer = 413 \/ Total > Limit

IInv ==
    /\ TypeOK
    /\ CountInv
    /\ WireInv
    /\ PathInv
    /\ EndInv
    /\ OneResponse
    /\ CrossingDecides
    /\ TempFileServesOneUpload

-----------------------------------------------------------------------------
LEMMA InitIInv == Init => IInv
<1> SUFFICES ASSUME Init PROVE IInv
  OBVIOUS
<1> USE DEF Init
<1>1. PICK app \in {"plain", "upload"}, f \in 0 .. MaxFile, m \in 0 .. MaxFraming :
        \E d \in {None, f + m} :
          /\ request = [app |-> app, file |-> f, framing |-> m, declared |-> d]
          /\ left = f + m
  OBVIOUS
<1>2. TypeOK
  <2>1. /\ request \in [app : {"plain", "upload"}, file : 0 .. MaxFile,
                       framing : 0 .. MaxFraming,
                       declared : (0 .. MaxFile + MaxFraming) \cup {None}]
        /\ left \in 0 .. MaxFile + MaxFraming
    BY <1>1
  <2>2. wire \in Seq(Status) /\ answer \in Status \cup {None}
    OBVIOUS
  <2>3. received \in 0 .. Limit + MaxMessage /\ copied \in 0 .. MaxUpload + ChunkBytes
    OBVIOUS
  <2>4. QED
    BY <2>1, <2>2, <2>3 DEF TypeOK
<1>3. CountInv
  BY <1>1 DEF CountInv, Total
<1>4. WireInv
  BY DEF WireInv, Ended
<1>5. PathInv
  BY DEF PathInv, Plain, Upload
<1>6. EndInv /\ OneResponse /\ CrossingDecides /\ TempFileServesOneUpload
  BY DEF EndInv, OneResponse, CrossingDecides, TempFileServesOneUpload, Ended
<1>7. QED
  BY <1>2, <1>3, <1>4, <1>5, <1>6 DEF IInv

\* Every step leaves the variables in their types.
LEMMA TypeStep ==
    ASSUME IInv, [Next]_vars
    PROVE  TypeOK'
<1> USE DEF IInv, TypeOK, CountInv, PathInv, Total, Answer, GuardedSend,
            locals, route
<1>1. CASE Declared
  <2>1. wire' \in Seq(Status)
    <3>1. wire \in Seq(Status) /\ 413 \in Status
      BY <1>1, Statuses DEF Declared
    <3>2. wire' = wire \/ wire' = <<413>> \/ wire' = Append(wire, 413)
      BY <1>1 DEF Declared
    <3>3. QED
      BY ONLY <3>1, <3>2, WireGrows
  <2>2. answer' \in Status \cup {None}
    BY <1>1, Statuses DEF Declared
  <2>3. QED
    BY <1>1, <2>1, <2>2 DEF Declared
<1>2. CASE Receive
  BY <1>2 DEF Receive
<1>3. CASE Deliver
  BY <1>3 DEF Deliver
<1>4. CASE Disconnect
  BY <1>4, Statuses DEF Disconnect
<1>5. CASE Exit
  <2>1. wire' \in Seq(Status)
    <3>1. wire \in Seq(Status) /\ 413 \in Status
      BY <1>5, Statuses DEF Exit
    <3>2. wire' = wire \/ wire' = <<413>> \/ wire' = Append(wire, 413)
      BY <1>5 DEF Exit
    <3>3. QED
      BY ONLY <3>1, <3>2, WireGrows
  <2>2. answer' \in Status \cup {None}
    BY <1>5, Statuses DEF Exit
  <2>3. QED
    BY <1>5, <2>1, <2>2 DEF Exit
<1>6. CASE ExitError
  <2>1. wire' \in Seq(Status)
    <3>1. wire \in Seq(Status) /\ 500 \in Status
      BY <1>6, Statuses DEF ExitError
    <3>2. wire' = wire \/ wire' = <<500>> \/ wire' = Append(wire, 500)
      BY <1>6 DEF ExitError
    <3>3. QED
      BY ONLY <3>1, <3>2, WireGrows
  <2>2. answer' \in Status \cup {None}
    BY <1>6, Statuses DEF ExitError
  <2>3. QED
    BY <1>6, <2>1, <2>2 DEF ExitError
<1>7. CASE AppAnswers
  <2>1. wire' \in Seq(Status)
    <3>1. wire \in Seq(Status) /\ 200 \in Status
      BY <1>7, Statuses DEF AppAnswers
    <3>2. wire' = wire \/ wire' = <<200>> \/ wire' = Append(wire, 200)
      BY <1>7 DEF AppAnswers
    <3>3. QED
      BY ONLY <3>1, <3>2, WireGrows
  <2>2. answer' \in Status \cup {None}
    BY <1>7, Statuses DEF AppAnswers
  <2>3. QED
    BY <1>7, <2>1, <2>2 DEF AppAnswers
<1>8. CASE AppReturns
  BY <1>8 DEF AppReturns
<1>9. CASE AppRaises
  BY <1>9 DEF AppRaises
<1>10. CASE AppSignalled
  BY <1>10 DEF AppSignalled
<1>11. CASE FormUnreadable
  BY <1>11, Statuses DEF FormUnreadable
<1>12. CASE FormParsed
  BY <1>12, Statuses DEF FormParsed
<1>13. CASE OpenTemp
  BY <1>13 DEF OpenTemp
<1>14. CASE CopyChunk
  <2>1. copied' \in 0 .. MaxUpload + ChunkBytes /\ tmp' \in Nat \cup {None}
    <3>1. request.file \in Nat /\ copied \in Nat /\ tmp = copied /\ copied <= MaxUpload
      BY <1>14 DEF CopyChunk
    <3>2. Chunk \in 0 .. ChunkBytes
      BY <1>14, <3>1 DEF CopyChunk, Chunk
    <3>3. copied' = copied + Chunk /\ tmp' \in {tmp, tmp + Chunk}
      BY <1>14 DEF CopyChunk
    <3>4. QED
      BY ONLY <3>1, <3>2, <3>3, Sizes
  <2>2. QED
    BY <1>14, <2>1, Statuses DEF CopyChunk
<1>15. CASE CopyFails
  BY <1>15, Statuses DEF CopyFails
<1>16. CASE CopyDone
  BY <1>16 DEF CopyDone
<1>17. CASE Ingest
  BY <1>17, Statuses DEF Ingest
<1>18. CASE Cleanup
  <2>1. tmp' \in {None, tmp} /\ stuck' \in BOOLEAN
    BY <1>18 DEF Cleanup
  <2>2. QED
    BY <1>18, <2>1 DEF Cleanup
<1>19. CASE Respond
  <2>1. wire' \in Seq(Status)
    <3>1. wire \in Seq(Status) /\ answer \in Status
      BY <1>19, Statuses DEF Respond
    <3>2. wire' = wire \/ wire' = <<answer>> \/ wire' = Append(wire, answer)
      BY <1>19 DEF Respond
    <3>3. QED
      BY ONLY <3>1, <3>2, WireGrows
  <2>2. answer' \in Status \cup {None}
    BY <1>19, Statuses DEF Respond
  <2>3. QED
    BY <1>19, <2>1, <2>2 DEF Respond
<1>20. CASE UNCHANGED vars
  BY <1>20 DEF vars
<1>21. QED
  BY <1>1, <1>2, <1>3, <1>4, <1>5, <1>6, <1>7, <1>8, <1>9, <1>10,
     <1>11, <1>12, <1>13, <1>14, <1>15, <1>16, <1>17, <1>18, <1>19, <1>20
     DEF Next, Middleware, PlainApp, UploadApp

\* Bytes are counted once each, and none past the limit are handed on.
LEMMA CountStep ==
    ASSUME IInv, [Next]_vars
    PROVE  CountInv'
<1> USE DEF IInv, TypeOK, CountInv, Total, Upload, Plain, Answer, GuardedSend,
            locals, route
<1>1. CASE Declared
  BY <1>1 DEF Declared
<1>2. CASE Receive
  BY <1>2 DEF Receive
<1>3. CASE Deliver
  <2>1. PICK n \in 1 .. MaxMessage :
          /\ n <= left /\ left' = left - n /\ received' = received + n
          /\ exceeded' = (received' > Limit)
          /\ IF exceeded' THEN pc' = "signal" /\ spooled' = spooled
                          ELSE pc' = "app"    /\ spooled' = spooled + n
    BY <1>3 DEF Deliver
  <2>2. /\ left \in Nat /\ received \in Nat /\ spooled \in Nat /\ Total \in Nat
        /\ UNCHANGED request /\ pc = "receiving"
    BY <1>3 DEF Deliver
  <2>3. CASE received + n > Limit
    <3>1. exceeded' = TRUE /\ pc' = "signal" /\ spooled' = spooled
      BY ONLY <2>1, <2>3
    <3>2. spooled <= received + n /\ left - n + received + n <= Total
      BY <2>1, <2>2
    <3>3. QED
      BY <2>1, <2>2, <2>3, <3>1, <3>2
  <2>4. CASE ~(received + n > Limit)
    BY <2>1, <2>2, <2>4
  <2>5. QED
    BY <2>3, <2>4
<1>4. CASE Disconnect
  BY <1>4 DEF Disconnect
<1>5. CASE Exit
  BY <1>5 DEF Exit
<1>6. CASE ExitError
  BY <1>6 DEF ExitError
<1>7. CASE AppAnswers
  BY <1>7 DEF AppAnswers
<1>8. CASE AppReturns
  BY <1>8 DEF AppReturns
<1>9. CASE AppRaises
  BY <1>9 DEF AppRaises
<1>10. CASE AppSignalled
  BY <1>10 DEF AppSignalled
<1>11. CASE FormUnreadable
  BY <1>11 DEF FormUnreadable
<1>12. CASE FormParsed
  BY <1>12 DEF FormParsed
<1>13. CASE OpenTemp
  BY <1>13 DEF OpenTemp
<1>14. CASE CopyChunk
  BY <1>14 DEF CopyChunk
<1>15. CASE CopyFails
  BY <1>15 DEF CopyFails
<1>16. CASE CopyDone
  BY <1>16 DEF CopyDone
<1>17. CASE Ingest
  BY <1>17 DEF Ingest
<1>18. CASE Cleanup
  BY <1>18 DEF Cleanup
<1>19. CASE Respond
  BY <1>19 DEF Respond
<1>20. CASE UNCHANGED vars
  BY <1>20 DEF vars
<1>21. QED
  BY <1>1, <1>2, <1>3, <1>4, <1>5, <1>6, <1>7, <1>8, <1>9, <1>10,
     <1>11, <1>12, <1>13, <1>14, <1>15, <1>16, <1>17, <1>18, <1>19, <1>20
     DEF Next, Middleware, PlainApp, UploadApp

\* Only the application's answer reaches the wire before the end.
LEMMA WireStep ==
    ASSUME IInv, [Next]_vars
    PROVE  WireInv'
<1> USE DEF IInv, TypeOK, WireInv, PathInv, CountInv, Ended, Upload, Plain,
            Answer, GuardedSend, locals, route
<1>1. CASE Declared
  BY <1>1 DEF Declared
<1>2. CASE Receive
  BY <1>2 DEF Receive
<1>3. CASE Deliver
  BY <1>3 DEF Deliver
<1>4. CASE Disconnect
  BY <1>4 DEF Disconnect
<1>5. CASE Exit
  BY <1>5 DEF Exit
<1>6. CASE ExitError
  BY <1>6 DEF ExitError
<1>7. CASE AppAnswers
  BY <1>7 DEF AppAnswers
<1>8. CASE AppReturns
  BY <1>8 DEF AppReturns
<1>9. CASE AppRaises
  BY <1>9 DEF AppRaises
<1>10. CASE AppSignalled
  BY <1>10 DEF AppSignalled
<1>11. CASE FormUnreadable
  BY <1>11 DEF FormUnreadable
<1>12. CASE FormParsed
  BY <1>12 DEF FormParsed
<1>13. CASE OpenTemp
  BY <1>13 DEF OpenTemp
<1>14. CASE CopyChunk
  BY <1>14 DEF CopyChunk
<1>15. CASE CopyFails
  BY <1>15 DEF CopyFails
<1>16. CASE CopyDone
  BY <1>16 DEF CopyDone
<1>17. CASE Ingest
  BY <1>17 DEF Ingest
<1>18. CASE Cleanup
  BY <1>18 DEF Cleanup
<1>19. CASE Respond
  <2>1. pc = "respond" /\ wire = <<>> /\ ~started /\ answer # None /\ pc' = "returned"
    BY <1>19 DEF Respond
  <2>2. CASE exceeded /\ ~startedBefore
    BY <1>19, <2>1, <2>2 DEF Respond
  <2>3. CASE ~(exceeded /\ ~startedBefore)
    <3>1. started' = TRUE /\ wire' = <<answer>>
      BY <1>19, <2>1, <2>3, Wires DEF Respond
    <3>2. QED
      BY <1>19, <2>1, <2>3, <3>1 DEF Respond
  <2>4. QED
    BY <2>2, <2>3
<1>20. CASE UNCHANGED vars
  BY <1>20 DEF vars
<1>21. QED
  BY <1>1, <1>2, <1>3, <1>4, <1>5, <1>6, <1>7, <1>8, <1>9, <1>10,
     <1>11, <1>12, <1>13, <1>14, <1>15, <1>16, <1>17, <1>18, <1>19, <1>20
     DEF Next, Middleware, PlainApp, UploadApp

\* The route's file follows the copy loop, its answer the two sizes.
LEMMA PathStep ==
    ASSUME IInv, [Next]_vars
    PROVE  PathInv'
<1> USE DEF IInv, TypeOK, PathInv, CountInv, Upload, Plain, Total, Answer,
            GuardedSend, locals, route
<1>1. CASE Declared
  BY <1>1 DEF Declared
<1>2. CASE Receive
  BY <1>2 DEF Receive
<1>3. CASE Deliver
  BY <1>3 DEF Deliver
<1>4. CASE Disconnect
  BY <1>4 DEF Disconnect
<1>5. CASE Exit
  BY <1>5 DEF Exit
<1>6. CASE ExitError
  BY <1>6 DEF ExitError
<1>7. CASE AppAnswers
  BY <1>7 DEF AppAnswers
<1>8. CASE AppReturns
  BY <1>8 DEF AppReturns
<1>9. CASE AppRaises
  BY <1>9 DEF AppRaises
<1>10. CASE AppSignalled
  BY <1>10 DEF AppSignalled
<1>11. CASE FormUnreadable
  BY <1>11 DEF FormUnreadable
<1>12. CASE FormParsed
  BY <1>12 DEF FormParsed
<1>13. CASE OpenTemp
  BY <1>13 DEF OpenTemp
<1>14. CASE CopyChunk
  <2>1. /\ request.file \in Nat /\ copied \in Nat /\ tmp = copied
        /\ copied < request.file /\ copied <= MaxUpload /\ answer = None /\ Upload
    BY <1>14 DEF CopyChunk
  <2>2. Chunk \in Nat /\ copied + Chunk <= request.file
    BY ONLY <2>1, Sizes DEF Chunk
  <2>3. CASE copied + Chunk > MaxUpload
    BY <1>14, <2>1, <2>2, <2>3 DEF CopyChunk
  <2>4. CASE ~(copied + Chunk > MaxUpload)
    BY <1>14, <2>1, <2>2, <2>4 DEF CopyChunk
  <2>5. QED
    BY <2>3, <2>4
<1>15. CASE CopyFails
  BY <1>15 DEF CopyFails
<1>16. CASE CopyDone
  BY <1>16 DEF CopyDone
<1>17. CASE Ingest
  <2>1. request.file <= MaxUpload /\ Total <= Limit
    BY <1>17 DEF Ingest, TempFileServesOneUpload
  <2>2. QED
    BY <1>17, <2>1 DEF Ingest
<1>18. CASE Cleanup
  BY <1>18 DEF Cleanup
<1>19. CASE Respond
  BY <1>19 DEF Respond
<1>20. CASE UNCHANGED vars
  BY <1>20 DEF vars
<1>21. QED
  BY <1>1, <1>2, <1>3, <1>4, <1>5, <1>6, <1>7, <1>8, <1>9, <1>10,
     <1>11, <1>12, <1>13, <1>14, <1>15, <1>16, <1>17, <1>18, <1>19, <1>20
     DEF Next, Middleware, PlainApp, UploadApp

\* The middleware's exit adds the 413 exactly when nothing was sent.
LEMMA EndStep ==
    ASSUME IInv, [Next]_vars
    PROVE  EndInv' /\ OneResponse' /\ CrossingDecides'
<1> USE DEF IInv, TypeOK, WireInv, EndInv, OneResponse, CrossingDecides,
            CountInv, PathInv, Ended, Upload, Plain, Total, Answer,
            GuardedSend, locals, route
<1>1. CASE Declared
  <2>1. ~startedBefore /\ pc = "check" /\ UNCHANGED <<request, exceeded, startedBefore, answer>>
    BY <1>1 DEF Declared
  <2>2. CASE pc' = "done"
    <3>1. wire' = <<413>> /\ Total > Limit
      BY <1>1, <2>2 DEF Declared
    <3>2. Len(wire') = 1 /\ Total' = Total /\ Limit' = Limit
      BY <2>1, <3>1, Wires
    <3>3. QED
      BY ONLY <2>1, <2>2, <3>1, <3>2
         DEF EndInv, OneResponse, CrossingDecides, Ended
  <2>3. CASE pc' # "done"
    <3>1. pc' = "app" /\ wire' = wire /\ Len(wire) <= 1
      BY <1>1, <2>3 DEF Declared
    <3>2. QED
      BY ONLY <3>1 DEF EndInv, OneResponse, CrossingDecides, Ended
  <2>4. QED
    BY <2>2, <2>3
<1>2. CASE Receive
  BY <1>2 DEF Receive
<1>3. CASE Deliver
  BY <1>3 DEF Deliver
<1>4. CASE Disconnect
  BY <1>4 DEF Disconnect
<1>5. CASE Exit
  <2>1. UNCHANGED <<request, exceeded, startedBefore, answer>> /\ Total' = Total
    BY <1>5 DEF Exit
  <2>2. CASE exceeded /\ ~startedBefore
    <3>1. wire' = <<413>>
      <4>1. wire = <<>> /\ wire' = Append(wire, 413)
        BY <1>5, <2>2 DEF Exit
      <4>2. QED
        BY <4>1, Wires
    <3>2. Len(wire') = 1
      BY <3>1, Wires
    <3>3. QED
      BY ONLY <2>1, <2>2, <3>1, <3>2 DEF EndInv, OneResponse, CrossingDecides, Ended
  <2>3. CASE ~(exceeded /\ ~startedBefore)
    <3>1. wire' = <<answer>> /\ pc' \in {"done", "raised"}
      BY <1>5, <2>3 DEF Exit
    <3>2. Len(wire') = 1 /\ (wire' = <<413>> => answer = 413)
      BY ONLY <3>1
    <3>3. QED
      BY ONLY <2>1, <2>3, <3>1, <3>2 DEF EndInv, OneResponse, CrossingDecides, Ended
  <2>4. QED
    BY <2>2, <2>3
<1>6. CASE ExitError
  BY <1>6 DEF ExitError
<1>7. CASE AppAnswers
  BY <1>7 DEF AppAnswers
<1>8. CASE AppReturns
  BY <1>8 DEF AppReturns
<1>9. CASE AppRaises
  BY <1>9 DEF AppRaises
<1>10. CASE AppSignalled
  BY <1>10 DEF AppSignalled
<1>11. CASE FormUnreadable
  BY <1>11 DEF FormUnreadable
<1>12. CASE FormParsed
  BY <1>12 DEF FormParsed
<1>13. CASE OpenTemp
  BY <1>13 DEF OpenTemp
<1>14. CASE CopyChunk
  BY <1>14 DEF CopyChunk
<1>15. CASE CopyFails
  BY <1>15 DEF CopyFails
<1>16. CASE CopyDone
  BY <1>16 DEF CopyDone
<1>17. CASE Ingest
  BY <1>17 DEF Ingest
<1>18. CASE Cleanup
  BY <1>18 DEF Cleanup
<1>19. CASE Respond
  BY <1>19 DEF Respond
<1>20. CASE UNCHANGED vars
  BY <1>20 DEF vars
<1>21. QED
  BY <1>1, <1>2, <1>3, <1>4, <1>5, <1>6, <1>7, <1>8, <1>9, <1>10,
     <1>11, <1>12, <1>13, <1>14, <1>15, <1>16, <1>17, <1>18, <1>19, <1>20
     DEF Next, Middleware, PlainApp, UploadApp

\* The temporary file is whole when ingested and removed on every path.
LEMMA FileStep ==
    ASSUME IInv, [Next]_vars
    PROVE  TempFileServesOneUpload'
<1> USE DEF IInv, TypeOK, PathInv, TempFileServesOneUpload, Ended, Plain,
            Upload, Answer, locals, route
<1>1. CASE Declared
  BY <1>1 DEF Declared
<1>2. CASE Receive
  BY <1>2 DEF Receive
<1>3. CASE Deliver
  BY <1>3 DEF Deliver
<1>4. CASE Disconnect
  BY <1>4 DEF Disconnect
<1>5. CASE Exit
  BY <1>5 DEF Exit
<1>6. CASE ExitError
  BY <1>6 DEF ExitError
<1>7. CASE AppAnswers
  BY <1>7 DEF AppAnswers
<1>8. CASE AppReturns
  BY <1>8 DEF AppReturns
<1>9. CASE AppRaises
  BY <1>9 DEF AppRaises
<1>10. CASE AppSignalled
  BY <1>10 DEF AppSignalled
<1>11. CASE FormUnreadable
  BY <1>11 DEF FormUnreadable
<1>12. CASE FormParsed
  BY <1>12 DEF FormParsed
<1>13. CASE OpenTemp
  BY <1>13 DEF OpenTemp
<1>14. CASE CopyChunk
  BY <1>14 DEF CopyChunk
<1>15. CASE CopyFails
  BY <1>15 DEF CopyFails
<1>16. CASE CopyDone
  BY <1>16 DEF CopyDone
<1>17. CASE Ingest
  BY <1>17 DEF Ingest
<1>18. CASE Cleanup
  BY <1>18 DEF Cleanup
<1>19. CASE Respond
  BY <1>19 DEF Respond
<1>20. CASE UNCHANGED vars
  BY <1>20 DEF vars
<1>21. QED
  BY <1>1, <1>2, <1>3, <1>4, <1>5, <1>6, <1>7, <1>8, <1>9, <1>10,
     <1>11, <1>12, <1>13, <1>14, <1>15, <1>16, <1>17, <1>18, <1>19, <1>20
     DEF Next, Middleware, PlainApp, UploadApp

-----------------------------------------------------------------------------
LEMMA Invariant == Spec => []IInv
<1>1. IInv /\ [Next]_vars => IInv'
  BY TypeStep, CountStep, WireStep, PathStep, EndStep, FileStep DEF IInv
<1>2. QED
  BY <1>1, InitIInv, PTL DEF Spec

-----------------------------------------------------------------------------
(* The properties.                                                         *)

\* Every reachable state is well typed, whatever the limits and the sizes; so no
\* count runs more than one message, or one chunk, past its limit.
THEOREM RequestTypes == Spec => []TypeOK
<1>1. IInv => TypeOK
  BY DEF IInv
<1>2. QED
  BY <1>1, Invariant, PTL

\* One response start reaches the client, whatever the application does and
\* wherever the body crosses the limit.
THEOREM AlwaysOneResponse == Spec => []OneResponse
<1>1. IInv => OneResponse
  BY DEF IInv
<1>2. QED
  BY <1>1, Invariant, PTL

\* The limit answers exactly when it was crossed before the application did.
THEOREM TheLimitDecidesFirst == Spec => []CrossingDecides
<1>1. IInv => CrossingDecides
  BY DEF IInv
<1>2. QED
  BY <1>1, Invariant, PTL

\* The request ceiling and the file limit accept and refuse the same uploads
\* for any limits, headroom, chunk size and cut of the body into messages.
THEOREM LimitsAlwaysAgree == Spec => []LimitsAgree
<1>1. ASSUME IInv PROVE LimitsAgree
  <2>1. spooled <= Limit /\ (tmp # None => tmp <= MaxUpload)
    BY <1>1 DEF IInv, CountInv, PathInv
  <2>2. ASSUME Ended, Upload
        PROVE  /\ wire = <<200>> => request.file <= MaxUpload /\ Total <= Limit
               /\ wire = <<413>> => request.file > MaxUpload \/ Total > Limit
    <3>1. /\ wire \in {<<413>>, <<500>>, <<answer>>}
          /\ wire = <<413>> => exceeded \/ answer = 413 \/ Total > Limit
      BY <1>1, <2>2 DEF IInv, EndInv
    <3>2. /\ answer = 200 => request.file <= MaxUpload /\ Total <= Limit
          /\ answer = 413 => request.file > MaxUpload
      BY <1>1, <2>2 DEF IInv, PathInv
    <3>3. exceeded => Total > Limit
      <4>1. /\ received \in Nat /\ left \in Nat /\ Total \in Nat
            /\ left + received <= Total /\ (exceeded => received > Limit)
        BY <1>1 DEF IInv, TypeOK, CountInv, Total
      <4>2. QED
        BY ONLY <4>1, Sizes
    <3>4. wire = <<200>> => answer = 200
      BY ONLY <3>1
    <3>5. QED
      BY ONLY <3>1, <3>2, <3>3, <3>4
  <2>3. QED
    BY <2>1, <2>2 DEF LimitsAgree, Upload
<1>2. IInv => LimitsAgree
  BY <1>1
<1>3. QED
  BY <1>2, Invariant, PTL

\* The temporary file holds the whole upload when it is ingested, and is gone
\* before any answer, unless its removal failed.
THEOREM TheTempFileIsWholeAndGone == Spec => []TempFileServesOneUpload
<1>1. IInv => TempFileServesOneUpload
  BY DEF IInv
<1>2. QED
  BY <1>1, Invariant, PTL
=============================================================================
