---------------------------- MODULE RequestBody ----------------------------
(***************************************************************************)
(* One HTTP request on its way through the two size limits of an upload:   *)
(*                                                                         *)
(*   backend/main.py            MaxBodySizeMiddleware, the request ceiling *)
(*   backend/routes/dataset.py  upload_dataset, the exact file limit       *)
(*                                                                         *)
(* The middleware wraps an inner application of which it knows nothing:    *)
(* "plain" is any ASGI application, which may answer while a receive is    *)
(* pending and do what it likes with the limit signal; "upload" is FastAPI *)
(* with the upload route.  Sizes are numbers of bytes, in any unit.        *)
(***************************************************************************)
EXTENDS Naturals, Sequences

CONSTANTS
    MaxUpload,      \* MAX_UPLOAD_BYTES
    Headroom,       \* what main.py adds for the multipart framing
    ChunkBytes,     \* UPLOAD_CHUNK_BYTES
    MaxFile, MaxFraming, MaxMessage,    \* bounds on what clients send
    None

ASSUME SizeAssumption ==
    /\ {MaxUpload, Headroom, MaxFile, MaxFraming} \subseteq Nat
    /\ {ChunkBytes, MaxMessage} \subseteq Nat \ {0}

ASSUME NoneAssumption == None \notin Nat

Limit == MaxUpload + Headroom       \* MAX_REQUEST_BODY_BYTES

VARIABLES
    request,        \* [app, file, framing, declared]
    pc,             \* where the request is, in the middleware or in the app
    left,           \* bytes of the body that are still to come
    received, exceeded, started, startedBefore,    \* the middleware's locals
    wire,           \* the statuses of the responses begun, in order
    answer,         \* the status the inner app sends, or None
    spooled,        \* bytes the inner app was handed
    copied,         \* total_bytes of the route's copy loop
    tmp,            \* the size of the route's temporary file, or None
    stuck           \* its removal failed

vars == <<request, pc, left, received, exceeded, started, startedBefore, wire,
          answer, spooled, copied, tmp, stuck>>

Total == request.file + request.framing

Status == {200, 400, 401, 413, 422, 500}

TypeOK ==
    /\ request \in [app : {"plain", "upload"}, file : 0 .. MaxFile,
                    framing : 0 .. MaxFraming,
                    declared : (0 .. MaxFile + MaxFraming) \cup {None}]
    /\ pc \in {"check", "app", "receiving", "signal", "parsed", "copying",
               "ingesting", "cleanup", "respond", "returned", "propagated",
               "error", "done", "raised"}
    /\ left     \in 0 .. MaxFile + MaxFraming
    /\ received \in 0 .. Limit + MaxMessage
    /\ exceeded \in BOOLEAN /\ started \in BOOLEAN
    /\ startedBefore \in BOOLEAN /\ stuck \in BOOLEAN
    /\ wire   \in Seq(Status)
    /\ answer \in Status \cup {None}
    /\ spooled \in Nat
    /\ copied  \in 0 .. MaxUpload + ChunkBytes
    /\ tmp     \in Nat \cup {None}

\* A chunked request declares nothing; a declared length is the body's own,
\* which the server enforces.
Init ==
    /\ \E app \in {"plain", "upload"}, f \in 0 .. MaxFile, m \in 0 .. MaxFraming :
         \E d \in {None, f + m} :
            /\ request = [app |-> app, file |-> f, framing |-> m, declared |-> d]
            /\ left = f + m
    /\ pc = "check"
    /\ received = 0
    /\ exceeded = FALSE
    /\ started = FALSE
    /\ startedBefore = FALSE
    /\ wire = <<>>
    /\ answer = None
    /\ spooled = 0
    /\ copied = 0
    /\ tmp = None
    /\ stuck = FALSE

-----------------------------------------------------------------------------
(* The middleware.                                                         *)

locals == <<received, exceeded, started, startedBefore>>
route  == <<copied, tmp, stuck>>

\* A declared length over the limit is refused unread.
Declared ==
    /\ pc = "check"
    /\ IF request.declared # None /\ request.declared > Limit
       THEN pc' = "done" /\ wire' = <<413>>
       ELSE pc' = "app"  /\ wire' = wire
    /\ UNCHANGED <<request, left, locals, answer, spooled, route>>

\* Mutant: once raised, the signal is not raised again.
ReceiveOn ==
    /\ pc = "app"
    /\ left > 0 \/ request.app = "plain"
    /\ pc' = "receiving"
    /\ UNCHANGED <<request, left, locals, wire, answer, spooled, route>>

\* limited_receive, up to "await receive()".
Receive ==
    /\ pc = "app"
    /\ left > 0 \/ request.app = "plain"
    /\ pc' = IF exceeded THEN "signal" ELSE "receiving"
    /\ UNCHANGED <<request, left, locals, wire, answer, spooled, route>>

\* Mutant: whether the response had started is read before the await.
DeliverEarlyRead ==
    /\ pc = "receiving"
    /\ \E n \in 1 .. MaxMessage :
         /\ n <= left
         /\ left' = left - n
         /\ received' = received + n
         /\ exceeded' = (received' > Limit)
         /\ startedBefore' = FALSE
         /\ IF exceeded' THEN pc' = "signal" /\ spooled' = spooled
                         ELSE pc' = "app"    /\ spooled' = spooled + n
    /\ UNCHANGED <<request, started, wire, answer, route>>

\* Mutant: the message that crosses the limit is still handed on.
DeliverThenRaise ==
    /\ pc = "receiving"
    /\ \E n \in 1 .. MaxMessage :
         /\ n <= left
         /\ left' = left - n
         /\ received' = received + n
         /\ exceeded' = (received' > Limit)
         /\ startedBefore' = (exceeded' /\ started)
         /\ spooled' = spooled + n
         /\ pc' = IF exceeded' THEN "signal" ELSE "app"
    /\ UNCHANGED <<request, started, wire, answer, route>>

\* A message of n bytes arrives: counted, then handed on or turned into the
\* limit signal.
Deliver ==
    /\ pc = "receiving"
    /\ \E n \in 1 .. MaxMessage :
         /\ n <= left
         /\ left' = left - n
         /\ received' = received + n
         /\ exceeded' = (received' > Limit)
         /\ startedBefore' = (exceeded' /\ started)
         /\ IF exceeded' THEN pc' = "signal" /\ spooled' = spooled
                         ELSE pc' = "app"    /\ spooled' = spooled + n
    /\ UNCHANGED <<request, started, wire, answer, route>>

\* http.disconnect instead: not counted.  Request.stream raises
\* ClientDisconnect, which FastAPI answers 400; nothing more will come.
Disconnect ==
    /\ pc = "receiving"
    /\ left' = 0
    /\ IF request.app = "upload" THEN pc' = "respond" /\ answer' = 400
                                 ELSE pc' = "app"     /\ answer' = answer
    /\ UNCHANGED <<request, locals, wire, spooled, route>>

\* guarded_send of a response start.
GuardedSend(status) ==
    IF exceeded /\ ~startedBefore
    THEN UNCHANGED <<started, wire>>
    ELSE started' = TRUE /\ wire' = Append(wire, status)

\* Mutant: the signal is always suppressed, and always answered.
ExitAnyway ==
    /\ pc \in {"returned", "propagated"}
    /\ pc' = "done"
    /\ wire' = IF exceeded THEN Append(wire, 413) ELSE wire
    /\ UNCHANGED <<request, left, locals, answer, spooled, route>>

\* The inner app has returned or let the signal through: the middleware's 413
\* replaces whatever was dropped, unless a response was already on the wire.
Exit ==
    /\ pc \in {"returned", "propagated"}
    /\ pc' = IF pc = "propagated" /\ startedBefore THEN "raised" ELSE "done"
    /\ wire' = IF exceeded /\ ~startedBefore THEN Append(wire, 413) ELSE wire
    /\ UNCHANGED <<request, left, locals, answer, spooled, route>>

\* Any other exception passes; the server's own handler answers it 500 unless a
\* response has begun.
ExitError ==
    /\ pc = "error"
    /\ pc' = "raised"
    /\ wire' = IF wire = <<>> THEN <<500>> ELSE wire
    /\ UNCHANGED <<request, left, locals, answer, spooled, route>>

-----------------------------------------------------------------------------
(* A plain ASGI application.                                               *)

\* It answers, once, at any moment: another of its tasks may be in receive.
AppAnswers ==
    /\ request.app = "plain"
    /\ pc \in {"app", "receiving"}
    /\ answer = None
    /\ answer' = 200
    /\ GuardedSend(200)
    /\ UNCHANGED <<request, pc, left, received, exceeded, startedBefore,
                   spooled, route>>

AppReturns ==
    /\ request.app = "plain"
    /\ pc = "app"
    /\ exceeded \/ answer # None
    /\ pc' = "returned"
    /\ UNCHANGED <<request, left, locals, wire, answer, spooled, route>>

AppRaises ==
    /\ request.app = "plain"
    /\ pc \in {"app", "signal"}
    /\ pc' = "error"
    /\ UNCHANGED <<request, left, locals, wire, answer, spooled, route>>

\* The signal is let through, or swallowed.
AppSignalled ==
    /\ request.app = "plain"
    /\ pc = "signal"
    /\ pc' \in {"propagated", "app"}
    /\ UNCHANGED <<request, left, locals, wire, answer, spooled, route>>

-----------------------------------------------------------------------------
(* FastAPI and the upload route.                                           *)

\* Answer with the given status once the file at hand has been dealt with.
Answer(status, label) == answer' = status /\ pc' = label

\* An error while the form is read is FastAPI's own 400.
FormUnreadable ==
    /\ request.app = "upload"
    /\ pc = "signal"
    /\ Answer(400, "respond")
    /\ UNCHANGED <<request, left, locals, wire, spooled, route>>

\* The whole form is parsed before the dependencies, the validation and the
\* filename checks run.
FormParsed ==
    /\ request.app = "upload"
    /\ pc = "app"
    /\ left = 0
    /\ \/ pc' = "parsed" /\ answer' = answer
       \/ \E status \in {400, 401, 422} : Answer(status, "respond")
    /\ UNCHANGED <<request, left, locals, wire, spooled, route>>

\* NamedTemporaryFile; it raises outside the route's try.
OpenTemp ==
    /\ pc = "parsed"
    /\ \/ pc' = "copying" /\ tmp' = 0
       \/ pc' = "error" /\ tmp' = tmp
    /\ UNCHANGED <<request, left, locals, wire, answer, spooled, copied, stuck>>

Chunk == IF request.file - copied < ChunkBytes
         THEN request.file - copied ELSE ChunkBytes

\* Mutant: the limit is tested before the chunk is added.
CheckThenAdd ==
    /\ pc = "copying"
    /\ copied < request.file
    /\ copied' = copied + Chunk
    /\ IF copied > MaxUpload
       THEN Answer(413, "cleanup") /\ tmp' = tmp
       ELSE tmp' = tmp + Chunk /\ UNCHANGED <<pc, answer>>
    /\ UNCHANGED <<request, left, locals, wire, spooled, stuck>>

\* One chunk: added to the total, checked, and only then written.
CopyChunk ==
    /\ pc = "copying"
    /\ copied < request.file
    /\ copied' = copied + Chunk
    /\ IF copied' > MaxUpload
       THEN Answer(413, "cleanup") /\ tmp' = tmp
       ELSE tmp' = tmp + Chunk /\ UNCHANGED <<pc, answer>>
    /\ UNCHANGED <<request, left, locals, wire, spooled, stuck>>

\* A first chunk that is no text (400), or a failing read or write (500).
CopyFails ==
    /\ pc = "copying"
    /\ copied < request.file
    /\ \/ copied = 0 /\ Answer(400, "cleanup")
       \/ Answer(500, "cleanup")
    /\ UNCHANGED <<request, left, locals, wire, spooled, route>>

CopyDone ==
    /\ pc = "copying"
    /\ copied = request.file
    /\ pc' = "ingesting"
    /\ UNCHANGED <<request, left, locals, wire, answer, spooled, route>>

\* Validation, ingestion and registration, and how they end.
Ingest ==
    /\ pc = "ingesting"
    /\ \E status \in {200, 400, 500} : Answer(status, "cleanup")
    /\ UNCHANGED <<request, left, locals, wire, spooled, route>>

\* Mutant: only a finished copy is cleaned up after.
CleanupOnSuccess ==
    /\ pc = "cleanup"
    /\ pc' = "respond"
    /\ tmp' = IF answer = 200 THEN None ELSE tmp
    /\ UNCHANGED <<request, left, locals, wire, answer, spooled, copied, stuck>>

\* The finally: closed and removed on every path, unless os.remove fails.
Cleanup ==
    /\ pc = "cleanup"
    /\ pc' = "respond"
    /\ \/ tmp' = None /\ stuck' = stuck
       \/ tmp' = tmp  /\ stuck' = TRUE
    /\ UNCHANGED <<request, left, locals, wire, answer, spooled, copied>>

Respond ==
    /\ pc = "respond"
    /\ GuardedSend(answer)
    /\ pc' = "returned"
    /\ UNCHANGED <<request, left, received, exceeded, startedBefore, answer,
                   spooled, route>>

-----------------------------------------------------------------------------
Middleware == Declared \/ Receive \/ Deliver \/ Disconnect \/ Exit \/ ExitError

PlainApp == AppAnswers \/ AppReturns \/ AppRaises \/ AppSignalled

UploadApp ==
    \/ FormUnreadable \/ FormParsed \/ OpenTemp \/ CopyChunk \/ CopyFails
    \/ CopyDone \/ Ingest \/ Cleanup \/ Respond

Next == Middleware \/ PlainApp \/ UploadApp

Spec == Init /\ [][Next]_vars

-----------------------------------------------------------------------------
(* Properties.                                                             *)

Ended == pc \in {"done", "raised"}

\* The client sees one response start, never two, and by the end always one:
\* whatever the inner app does with the limit signal and whenever it answers
\* ("no second response start", MaxBodySizeMiddleware).
OneResponse == Len(wire) <= 1 /\ (Ended => Len(wire) = 1)

\* Crossing the limit decides the answer exactly when nothing was on the wire:
\* then a request that ends in order ends in the 413, else in what the app sent;
\* and the middleware never claims a 413 for a body within the limit.
CrossingDecides ==
    /\ pc = "done" /\ exceeded /\ ~startedBefore => wire = <<413>>
    /\ Ended /\ exceeded /\ startedBefore => wire = <<answer>>
    /\ Ended /\ wire = <<413>> => exceeded \/ answer = 413 \/ Total > Limit

\* The two limits never disagree about an upload: one over either of them is
\* never accepted, one within both is never refused for its size, and declaring
\* the length changes neither (main.py, MAX_REQUEST_BODY_BYTES).  Nor is more
\* than each limit ever on disk, however the body is cut into messages.
LimitsAgree ==
    /\ Ended /\ request.app = "upload" =>
          /\ wire = <<200>> => request.file <= MaxUpload /\ Total <= Limit
          /\ wire = <<413>> => request.file > MaxUpload \/ Total > Limit
    /\ spooled <= Limit
    /\ tmp # None => tmp <= MaxUpload

\* What is ingested is the whole file, and the temporary copy is gone before
\* the answer is sent, on every path, unless removing it failed.
TempFileServesOneUpload ==
    /\ pc = "ingesting" => tmp = request.file
    /\ pc \in {"respond", "returned"} \/ Ended => tmp = None \/ stuck
=============================================================================
