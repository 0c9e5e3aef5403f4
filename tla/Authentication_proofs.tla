------------------------ MODULE Authentication_proofs ------------------------
(***************************************************************************)
(* Proofs about Authentication, for any requests, accounts, limits, clock  *)
(* and number of restarts: the accounting of hashing slots, and what a     *)
(* session promises.                                                       *)
(***************************************************************************)
EXTENDS Authentication, FiniteSetTheorems, SequenceTheorems, TLAPS

LEMMA Sentinel ==
    /\ None \notin Nat /\ None \notin Caller /\ None \notin Row
    /\ Caller = Request /\ 0 \notin Token /\ Token \subseteq Nat
BY SessionsAssumption, AuthAssumption DEF Row

-----------------------------------------------------------------------------
(* What a step does to the requests: it changes one of them.               *)

Requests == req \in [Request -> RequestState]

\* Only r's state changes, if any.
Only(r) == \A q \in Request \ {r} : req'[q] = req[q]

\* What of it does not.
Keeps(r, fields) == \A f \in fields : req'[r][f] = req[r][f]

\* Changing some fields of one request leaves the others alone.
LEMMA OneChanged ==
    ASSUME Requests, NEW r \in Request, NEW s \in RequestState,
           req' = [req EXCEPT ![r] = s]
    PROVE  Requests' /\ Only(r) /\ req'[r] = s
BY DEF Requests, Only

\* A request that ends is still one.
LEMMA EndedType ==
    ASSUME NEW q \in RequestState, NEW pc \in PC
    PROVE  /\ Ended(q, pc) \in RequestState
           /\ Ended(q, pc).pc = pc /\ Ended(q, pc).route = q.route
           /\ Ended(q, pc).answer = q.answer /\ Ended(q, pc).minted = 0
           /\ Ended(q, pc).revoked = q.revoked
           /\ q.route = "me" => Ended(q, pc).now = q.now /\ Ended(q, pc).user = q.user
           /\ Ended(q, pc).now \in {0, q.now}
           /\ q.revoked \/ q.route = "logout" => Ended(q, pc).token = q.token
           /\ Ended(q, pc).token \in {0, q.token}
BY DEF Ended, RequestState

\* The types all the rest builds on; those of the rate limiter's dict are of no
\* consequence here.
Types ==
    /\ StoreTypeOK
    /\ clock \in Nat
    /\ cookie \in [Browser -> Nat]
    /\ Requests
    /\ {slots, waiting, active} \subseteq Int

LEMMA NewType == NewRequest \in RequestState
BY DEF NewRequest, RequestState, PC, Route, Answer

-----------------------------------------------------------------------------
(* What a request is once it has arrived.                                  *)

LEMMA LoginState ==
    ASSUME Types, NEW r \in Request, NEW b \in Browser, NEW e \in Email, NEW g \in BOOLEAN,
           Login(r, b, e, g)
    PROVE  /\ Requests' /\ Only(r)
           /\ req'[r].pc = "retryAfter" /\ req'[r].route = "login"
           /\ req'[r].token = cookie[b] /\ req'[r].now = clock
           /\ Keeps(r, {"user", "row", "failed", "minted", "revoked", "answer"})
<1> DEFINE s1 == [req[r] EXCEPT !.pc = "retryAfter", !.route = "login", !.browser = b]
           s2 == [s1 EXCEPT !.email = e, !.guess = g]
           s3 == [s2 EXCEPT !.token = cookie[b], !.now = clock]
<1>1. s1 \in RequestState /\ s1.pc = "retryAfter" /\ s1.route = "login"
      /\ \A f \in {"user", "row", "failed", "minted", "revoked", "answer"} : s1[f] = req[r][f]
  <2>1. "retryAfter" \in PC /\ "login" \in Route
    BY DEF PC, Route
  <2>2. QED
    BY <2>1 DEF Types, Requests, RequestState
<1>2. req' = [req EXCEPT ![r] = s3]
  BY DEF Login, Types, Requests
<1> HIDE DEF s1
<1>3. s2 \in RequestState /\ s2.pc = s1.pc /\ s2.route = s1.route
      /\ \A f \in {"user", "row", "failed", "minted", "revoked", "answer"} : s2[f] = s1[f]
  BY <1>1 DEF RequestState
<1> HIDE DEF s2
<1>4. s3 \in RequestState /\ s3.pc = s2.pc /\ s3.route = s2.route
      /\ s3.token = cookie[b] /\ s3.now = clock
      /\ \A f \in {"user", "row", "failed", "minted", "revoked", "answer"} : s3[f] = s2[f]
  BY <1>3 DEF RequestState, Types
<1> HIDE DEF s3
<1>5. QED
  BY <1>1, <1>2, <1>3, <1>4, OneChanged DEF Types, Keeps

LEMMA RegisterState ==
    ASSUME Types, NEW r \in Request, NEW a \in Account, Register(r, a)
    PROVE  /\ Requests' /\ Only(r)
           /\ req'[r].pc = "acquire" /\ req'[r].route = "register"
           /\ Keeps(r, {"token", "now", "user", "row", "failed", "minted", "revoked", "answer"})
<1> DEFINE s == [req[r] EXCEPT !.pc = "acquire", !.route = "register", !.email = a]
<1>1. s \in RequestState /\ s.pc = "acquire" /\ s.route = "register"
      /\ \A f \in {"token", "now", "user", "row", "failed", "minted", "revoked", "answer"} :
            s[f] = req[r][f]
  <2>1. "acquire" \in PC /\ "register" \in Route /\ a \in Email
    BY AuthAssumption DEF PC, Route
  <2>2. QED
    BY <2>1 DEF Types, Requests, RequestState
<1>2. req' = [req EXCEPT ![r] = s]
  BY DEF Register, Types, Requests
<1> HIDE DEF s
<1>3. QED
  BY <1>1, <1>2, OneChanged DEF Types, Keeps

LEMMA LogoutState ==
    ASSUME Types, NEW r \in Request, NEW b \in Browser, Logout(r, b)
    PROVE  /\ Requests' /\ Only(r)
           /\ req'[r].pc = IF cookie[b] = 0 THEN "deliver" ELSE "revoke"
           /\ req'[r].answer = IF cookie[b] = 0 THEN 200 ELSE 0
           /\ req'[r].route = "logout" /\ req'[r].token = cookie[b]
           /\ Keeps(r, {"now", "user", "row", "failed", "minted", "revoked"})
<1> DEFINE p == IF cookie[b] = 0 THEN "deliver" ELSE "revoke"
           a == IF cookie[b] = 0 THEN 200 ELSE 0
           s1 == [req[r] EXCEPT !.pc = p, !.answer = a, !.route = "logout"]
           s2 == [s1 EXCEPT !.browser = b, !.token = cookie[b]]
<1>1. p \in PC /\ a \in Answer
  BY DEF PC, Answer
<1>2. req' = [req EXCEPT ![r] = s2]
  BY DEF Logout, Types, Requests
<1> HIDE DEF p, a
<1>3. s1 \in RequestState /\ s1.pc = p /\ s1.answer = a /\ s1.route = "logout"
      /\ \A f \in {"now", "user", "row", "failed", "minted", "revoked"} : s1[f] = req[r][f]
  BY <1>1 DEF Types, Requests, RequestState, Route
<1> HIDE DEF s1
<1>4. s2 \in RequestState /\ s2.pc = s1.pc /\ s2.answer = s1.answer /\ s2.route = s1.route
      /\ s2.token = cookie[b]
      /\ \A f \in {"now", "user", "row", "failed", "minted", "revoked"} : s2[f] = s1[f]
  BY <1>3 DEF RequestState, Types
<1> HIDE DEF s2
<1>5. QED
  BY <1>2, <1>3, <1>4, OneChanged DEF Types, Keeps, p, a

LEMMA MeState ==
    ASSUME Types, NEW r \in Request, NEW b \in Browser, Me(r, b)
    PROVE  /\ Requests' /\ Only(r)
           /\ req'[r].pc = IF cookie[b] = 0 THEN "done" ELSE "begin"
           /\ req'[r].answer = IF cookie[b] = 0 THEN 401 ELSE 0
           /\ req'[r].route = "me" /\ req'[r].token = cookie[b] /\ req'[r].now = clock
           /\ Keeps(r, {"user", "row", "failed", "minted", "revoked"})
<1> DEFINE p == IF cookie[b] = 0 THEN "done" ELSE "begin"
           a == IF cookie[b] = 0 THEN 401 ELSE 0
           s1 == [req[r] EXCEPT !.pc = p, !.answer = a, !.route = "me"]
           s2 == [s1 EXCEPT !.browser = b, !.token = cookie[b], !.now = clock]
<1>1. p \in PC /\ a \in Answer
  BY DEF PC, Answer
<1>2. req' = [req EXCEPT ![r] = s2]
  BY DEF Me, Types, Requests
<1> HIDE DEF p, a
<1>3. s1 \in RequestState /\ s1.pc = p /\ s1.answer = a /\ s1.route = "me"
      /\ \A f \in {"user", "row", "failed", "minted", "revoked"} : s1[f] = req[r][f]
  BY <1>1 DEF Types, Requests, RequestState, Route
<1> HIDE DEF s1
<1>4. s2 \in RequestState /\ s2.pc = s1.pc /\ s2.answer = s1.answer /\ s2.route = s1.route
      /\ s2.token = cookie[b] /\ s2.now = clock
      /\ \A f \in {"user", "row", "failed", "minted", "revoked"} : s2[f] = s1[f]
  BY <1>3 DEF RequestState, Types
<1> HIDE DEF s2
<1>5. QED
  BY <1>2, <1>3, <1>4, OneChanged DEF Types, Keeps, p, a

-----------------------------------------------------------------------------
(* What a request is after a step of its own.                              *)

\* What is none of the answer's business.
Rest == {"route", "token", "user", "row", "failed", "minted", "revoked"}

LEMMA ReplyState ==
    ASSUME Requests, NEW r \in Request, NEW code \in Answer, Reply(r, code)
    PROVE  /\ Requests' /\ Only(r)
           /\ req'[r].pc = "done" /\ req'[r].answer = code /\ req'[r].minted = 0
           /\ Keeps(r, {"route", "revoked"})
           /\ req'[r].now \in {0, req[r].now} /\ req'[r].token \in {0, req[r].token}
           /\ req[r].revoked \/ req[r].route = "logout" => Keeps(r, {"token"})
           /\ req[r].route = "me" => Keeps(r, {"now", "user"})
<1> DEFINE q == [req[r] EXCEPT !.answer = code]
<1>1. q \in RequestState /\ q.answer = code
      /\ q.route = req[r].route /\ q.revoked = req[r].revoked /\ q.now = req[r].now
      /\ q.token = req[r].token /\ q.user = req[r].user
  BY DEF Requests, RequestState
<1>2. req' = [req EXCEPT ![r] = Ended(q, "done")]
  BY DEF Reply
<1> HIDE DEF q
<1>3. "done" \in PC
  BY DEF PC
<1>4. Ended(q, "done") \in RequestState
  BY <1>1, <1>3, EndedType
<1>5. Requests' /\ Only(r) /\ req'[r] = Ended(q, "done")
  BY <1>2, <1>4, OneChanged
<1>6. QED
  BY <1>1, <1>3, <1>5, EndedType DEF Keeps

LEMMA GotoState ==
    ASSUME Requests, clock \in Nat, NEW r \in Request, NEW pc \in PC,
           Goto(r, pc) \/ GotoNow(r, pc)
    PROVE  /\ Requests' /\ Only(r)
           /\ req'[r].pc = pc /\ Keeps(r, Rest \cup {"answer"})
           /\ req'[r].now \in {req[r].now, clock}
           /\ Goto(r, pc) => Keeps(r, {"now"})
<1>1. ASSUME NEW s \in {[req[r] EXCEPT !.pc = pc], [req[r] EXCEPT !.pc = pc, !.now = clock]}
      PROVE  /\ s \in RequestState /\ s.pc = pc /\ s.now \in {req[r].now, clock}
             /\ \A f \in Rest \cup {"answer"} : s[f] = req[r][f]
             /\ s = [req[r] EXCEPT !.pc = pc] => s.now = req[r].now
  BY <1>1 DEF Requests, RequestState, Rest
<1>2. ASSUME Goto(r, pc)
      PROVE  req' = [req EXCEPT ![r] = [req[r] EXCEPT !.pc = pc]]
  BY <1>2 DEF Goto, Requests
<1>3. ASSUME GotoNow(r, pc)
      PROVE  req' = [req EXCEPT ![r] = [req[r] EXCEPT !.pc = pc, !.now = clock]]
  BY <1>3 DEF GotoNow, Requests
<1>4. QED
  BY <1>1, <1>2, <1>3, OneChanged DEF Keeps

LEMMA SendState ==
    ASSUME Requests, NEW r \in Request, NEW code \in Answer, NEW pc \in PC,
           req' = [req EXCEPT ![r].pc = pc, ![r].answer = code]
    PROVE  /\ Requests' /\ Only(r)
           /\ req'[r].pc = pc /\ req'[r].answer = code
           /\ Keeps(r, Rest \cup {"now"})
<1> DEFINE s == [req[r] EXCEPT !.pc = pc, !.answer = code]
<1>1. /\ s \in RequestState /\ s.pc = pc /\ s.answer = code
      /\ \A f \in Rest \cup {"now"} : s[f] = req[r][f]
  BY DEF Requests, RequestState, Rest
<1>2. req' = [req EXCEPT ![r] = s]
  BY DEF Requests
<1> HIDE DEF s
<1>3. QED
  BY <1>1, <1>2, OneChanged DEF Keeps

LEMMA LookupState ==
    ASSUME Types, NEW r \in Request, Lookup(r)
    PROVE  /\ Requests' /\ Only(r)
           /\ req'[r].pc = "acquire"
           /\ Keeps(r, (Rest \ {"user"}) \cup {"now", "answer"})
<1> DEFINE u == IF req[r].email \in Account THEN accounts[req[r].email] ELSE 0
           s == [req[r] EXCEPT !.pc = "acquire", !.user = u]
<1>1. "acquire" \in PC /\ u \in Nat
  BY DEF PC, Types, StoreTypeOK
<1>2. req' = [req EXCEPT ![r] = s]
  BY DEF Lookup, Types, Requests
<1> HIDE DEF u
<1>3. /\ s \in RequestState /\ s.pc = "acquire"
      /\ \A f \in (Rest \ {"user"}) \cup {"now", "answer"} : s[f] = req[r][f]
  BY <1>1 DEF Types, Requests, RequestState, Rest
<1> HIDE DEF s
<1>4. QED
  BY <1>2, <1>3, OneChanged DEF Types, Keeps

LEMMA RevokeState ==
    ASSUME Types, NEW r \in Request, Revoke(r)
    PROVE  /\ Requests' /\ Only(r)
           /\ req'[r].pc = IF req[r].route = "login" THEN "create" ELSE "deliver"
           /\ req'[r].answer = IF req[r].route = "login" THEN 0 ELSE 200
           /\ req'[r].now = clock /\ req'[r].revoked = TRUE
           /\ Keeps(r, Rest \ {"revoked"})
<1> DEFINE p == IF req[r].route = "login" THEN "create" ELSE "deliver"
           a == IF req[r].route = "login" THEN 0 ELSE 200
           s1 == [req[r] EXCEPT !.pc = p, !.now = clock]
           s2 == [s1 EXCEPT !.revoked = TRUE, !.answer = a]
<1>1. p \in PC /\ a \in Answer
  BY DEF PC, Answer
<1>2. req' = [req EXCEPT ![r] = s2]
  BY DEF Revoke, Types, Requests
<1> HIDE DEF p, a
<1>3. /\ s1 \in RequestState /\ s1.pc = p /\ s1.now = clock
      /\ \A f \in Rest \ {"revoked"} : s1[f] = req[r][f]
  BY <1>1 DEF Types, Requests, RequestState, Rest
<1> HIDE DEF s1
<1>4. /\ s2 \in RequestState /\ s2.pc = s1.pc /\ s2.now = s1.now /\ s2.revoked = TRUE
      /\ s2.answer = a /\ \A f \in Rest \ {"revoked"} : s2[f] = s1[f]
  BY <1>1, <1>3 DEF RequestState, Rest
<1> HIDE DEF s2
<1>5. QED
  BY <1>2, <1>3, <1>4, OneChanged DEF Types, Keeps, p, a

LEMMA CreateState ==
    ASSUME Types, NEW r \in Request, Create(r)
    PROVE  /\ Requests' /\ Only(r)
           /\ req'[r].pc = "deliver" /\ req'[r].answer = 200 /\ req'[r].minted = minted + 1
           /\ Keeps(r, (Rest \ {"minted"}) \cup {"now"})
<1>1. PICK code \in Answer, pc \in PC, m \in Nat :
         code = 200 /\ pc = "deliver" /\ m = minted + 1
  BY DEF PC, Answer, Types, StoreTypeOK
<1> DEFINE s1 == [req[r] EXCEPT !.pc = pc, !.answer = code]
           s2 == [s1 EXCEPT !.minted = m]
<1>2. req' = [req EXCEPT ![r] = s2]
  BY <1>1 DEF Create, Types, Requests
<1>3. /\ s1 \in RequestState /\ s1.pc = pc /\ s1.answer = code
      /\ \A f \in Rest \cup {"now"} : s1[f] = req[r][f]
  <2>1. req[r] \in RequestState
    BY DEF Types, Requests
  <2>2. QED
    BY ONLY <2>1 DEF RequestState, Rest
<1> HIDE DEF s1
<1>4. /\ s2 \in RequestState /\ s2.pc = s1.pc /\ s2.answer = s1.answer /\ s2.minted = m
      /\ \A f \in (Rest \ {"minted"}) \cup {"now"} : s2[f] = s1[f]
  BY <1>3 DEF RequestState, Rest
<1> HIDE DEF s2
<1>5. Requests' /\ Only(r) /\ req'[r] = s2
  BY <1>2, <1>4, OneChanged DEF Types
<1>6. Keeps(r, (Rest \ {"minted"}) \cup {"now"})
  BY <1>3, <1>4, <1>5 DEF Keeps
<1>7. QED
  BY <1>1, <1>3, <1>4, <1>5, <1>6

LEMMA BeginState ==
    ASSUME Types, NEW r \in Request, Begin(r), req[r].token \in Token
    PROVE  /\ Requests' /\ Only(r)
           /\ req'[r].pc = "decide" /\ req'[r].row = Joined(req[r].token)
           /\ Keeps(r, (Rest \ {"row"}) \cup {"now", "answer"})
<1> DEFINE w == Joined(req[r].token)
           s == [req[r] EXCEPT !.pc = "decide", !.row = w]
<1>1. "decide" \in PC /\ w \in Row \cup {None}
  BY DEF PC, Types, StoreTypeOK, Joined
<1>2. req' = [req EXCEPT ![r] = s]
  BY DEF Begin, Types, Requests
<1> HIDE DEF w
<1>3. /\ s \in RequestState /\ s.pc = "decide" /\ s.row = w
      /\ \A f \in (Rest \ {"row"}) \cup {"now", "answer"} : s[f] = req[r][f]
  BY <1>1 DEF Types, Requests, RequestState, Rest
<1> HIDE DEF s
<1>4. QED
  BY <1>2, <1>3, OneChanged DEF Types, Keeps, w

LEMMA AcceptState ==
    ASSUME Types, NEW r \in Request, Accept(r)
    PROVE  /\ Requests' /\ Only(r)
           /\ req'[r].pc = "user" /\ req'[r].user = req[r].row.user /\ req'[r].row = None
           /\ Keeps(r, (Rest \ {"row", "user"}) \cup {"now", "answer"})
<1> DEFINE s == [req[r] EXCEPT !.pc = "user", !.user = req[r].row.user, !.row = None]
<1>1. "user" \in PC /\ req[r].row.user \in Nat
  BY DEF PC, Types, Requests, RequestState, Row, Accept, AcceptSession
<1>2. req' = [req EXCEPT ![r] = s]
  BY DEF Accept, Types, Requests
<1>3. /\ s \in RequestState /\ s.pc = "user" /\ s.user = req[r].row.user /\ s.row = None
      /\ \A f \in (Rest \ {"row", "user"}) \cup {"now", "answer"} : s[f] = req[r][f]
  BY <1>1 DEF Types, Requests, RequestState, Rest
<1> HIDE DEF s
<1>4. QED
  BY <1>2, <1>3, OneChanged DEF Types, Keeps

-----------------------------------------------------------------------------
(* The inductive invariant.                                                *)

\* Tokens that have been minted, and 0.
Known == {0} \cup {t \in Token : t <= minted}

\* Where a request of each route can be, with what.
Path(r) ==
    /\ req[r].token \in Known /\ req[r].minted \in Known
    /\ req[r].now <= clock
    /\ req[r].pc = "new" => /\ req[r].route = "none" /\ req[r].user = 0
                            /\ req[r].minted = 0 /\ req[r].answer = 0
    /\ req[r].pc \in {"begin", "decide"}
          => req[r].route = "me" /\ req[r].token # 0 /\ req[r].user = 0
    /\ req[r].pc = "user" => req[r].route = "me"
    /\ req[r].pc = "revoke" => req[r].route \in {"login", "logout"} /\ req[r].token # 0
    /\ req[r].pc \in {"retryAfter", "lookup", "recordFailure", "recordSuccess", "create"}
          => req[r].route = "login"
    /\ req[r].pc \in {"acquire", "queue", "wait", "leave", "giveUp", "hash", "release"}
          => req[r].route \in {"login", "register"}
    /\ req[r].revoked => req[r].pc \in {"create", "deliver", "done", "lost"}

\* What a validation has read is what there is: it has the write lock.
Locked(r) ==
    req[r].pc = "decide" => writer = r /\ req[r].row = Joined(req[r].token)

\* LogoutIsFinal, of one request.
Final(r) ==
    req[r].route = "logout" /\ req[r].answer = 200 /\ req[r].token # 0
        => sessions[req[r].token] = None

StoreInv ==
    /\ \A a, b \in Account : accounts[a] = accounts[b] => a = b \/ accounts[a] = 0
    /\ \A a \in Account : accounts[a] <= lastId
    /\ \A t \in Token : sessions[t] # None => t <= minted
    /\ cookie \in [Browser -> Known]

CountInv ==
    /\ IsFiniteSet(Holding) /\ IsFiniteSet(Hashing) /\ IsFiniteSet(InQueue)
    /\ HashingBounded

IInv ==
    /\ Types
    /\ \A r \in Request : Path(r) /\ Locked(r) /\ Final(r)
    /\ StoreInv
    /\ CountInv

-----------------------------------------------------------------------------
(* What steps do to the store.                                             *)

\* No token comes back, and time goes on.
Forward ==
    /\ clock <= clock' /\ minted <= minted'
    /\ \A t \in Token : t <= minted /\ sessions[t] = None => sessions'[t] = None

\* The other requests have nothing to fear: what they have locked stays.
LEMMA OthersStay ==
    ASSUME Types, Types', Forward, NEW q \in Request, req'[q] = req[q],
           Path(q), Locked(q), Final(q),
           req[q].pc = "decide" => UNCHANGED <<accounts, sessions, writer>>
    PROVE  Path(q)' /\ Locked(q)' /\ Final(q)'
<1>1. Known \subseteq Known'
  <2>1. Token \subseteq Nat /\ minted \in Nat /\ minted' \in Nat /\ minted <= minted'
    BY Sentinel DEF Forward, Types, StoreTypeOK
  <2>2. \A t \in Token : t <= minted => t <= minted'
    BY ONLY <2>1
  <2>3. QED
    BY <2>2 DEF Known
<1>2. Path(q)'
  <2>1. clock \in Nat /\ clock' \in Nat /\ clock <= clock' /\ req[q].now \in Nat
    BY DEF Types, Forward, Requests, RequestState
  <2>2. req[q].now <= clock => req[q].now <= clock'
    BY <2>1
  <2>3. QED
    BY <1>1, <2>2 DEF Path
<1>3. Locked(q)'
  BY DEF Locked, Joined, HasAccount
<1>4. Final(q)'
  BY DEF Final, Path, Known, Forward
<1>5. QED
  BY <1>2, <1>3, <1>4

LEMMA StoreIdle ==
    ASSUME Types, UNCHANGED <<store, clock>>
    PROVE  StoreTypeOK' /\ Forward
BY DEF Types, StoreTypeOK, store, Forward

-----------------------------------------------------------------------------
(* What a step of r makes of r, and of the counters.                       *)

Holders == {"leave", "hash", "release"}
Hashers == {"hash", "release"}
Queuers == {"wait", "leave", "giveUp"}

One(pc, S) == IF pc \in S THEN 1 ELSE 0

\* The counters follow r.
Follow(r) ==
    /\ slots' + One(req'[r].pc, Holders) = slots + One(req[r].pc, Holders)
    /\ active' - One(req'[r].pc, Hashers) = active - One(req[r].pc, Hashers)
    /\ waiting' - One(req'[r].pc, Queuers) = waiting - One(req[r].pc, Queuers)
    /\ waiting' <= waiting \/ waiting' <= MaxWaiting

Own(r) ==
    /\ Requests' /\ Only(r) /\ {slots', waiting', active'} \subseteq Int
    /\ Follow(r)
    /\ Path(r)' /\ Locked(r)' /\ Final(r)'

\* A step to and from states in which a request holds nothing.
LEMMA NothingHeld ==
    ASSUME Types, NEW r \in Request, UNCHANGED <<slots, waiting, active>>,
           req[r].pc \notin Holders \cup Hashers \cup Queuers,
           req'[r].pc \notin Holders \cup Hashers \cup Queuers
    PROVE  Follow(r) /\ {slots', waiting', active'} \subseteq Int
BY LimitsAssumption DEF Follow, One, Types

\* An arrival.
LEMMA OwnArrive ==
    ASSUME IInv, NEW r \in Request, Arrive(r)
    PROVE  Own(r)
<1>1. Types /\ Path(r) /\ req[r].pc = "new" /\ UNCHANGED <<limits, store, clock>>
  BY DEF IInv, Arrive, Login, Register, Logout, Me, At, OnlyReq, OnlyLimits
<1>2. Known' = Known /\ \A b \in Browser : cookie[b] \in Known
  BY <1>1 DEF Known, store, IInv, StoreInv
<1>3. req[r].route = "none" /\ req[r].user = 0 /\ req[r].minted = 0 /\ req[r].answer = 0
      /\ req[r].revoked = FALSE /\ req[r].token \in Known /\ req[r].now <= clock
  BY <1>1 DEF Path, Types, Requests, RequestState
<1>4. 0 \in Known /\ clock' = clock /\ clock <= clock
  BY <1>1 DEF Known, Types
<1> DEFINE Goal == /\ Requests' /\ Only(r)
                   /\ req'[r].pc \in {"retryAfter", "acquire", "revoke", "deliver",
                                      "begin", "done"}
                   /\ Path(r)' /\ Final(r)'
<1>5. Goal
  <2>1. ASSUME NEW b \in Browser, NEW e \in Email, NEW g \in BOOLEAN, Login(r, b, e, g)
        PROVE  Goal
    BY <1>1, <1>2, <1>3, <1>4, <2>1, LoginState DEF Path, Final, Keeps
  <2>2. ASSUME NEW a \in Account, Register(r, a)
        PROVE  Goal
    BY <1>1, <1>2, <1>3, <1>4, <2>2, RegisterState DEF Path, Final, Keeps
  <2>3. ASSUME NEW b \in Browser, Logout(r, b)
        PROVE  Goal
    BY <1>1, <1>2, <1>3, <1>4, <2>3, LogoutState DEF Path, Final, Keeps
  <2>4. ASSUME NEW b \in Browser, Me(r, b)
        PROVE  Goal
    BY <1>1, <1>2, <1>3, <1>4, <2>4, MeState DEF Path, Final, Keeps
  <2>5. QED
    BY <2>1, <2>2, <2>3, <2>4 DEF Arrive
<1>6. Locked(r)'
  BY <1>5 DEF Locked
<1>7. Follow(r) /\ {slots', waiting', active'} \subseteq Int
  <2>1. UNCHANGED <<slots, waiting, active>>
    BY <1>1 DEF limits
  <2>2. QED
    BY <1>1, <1>5, <2>1, NothingHeld DEF Holders, Hashers, Queuers
<1>8. QED
  BY <1>5, <1>6, <1>7 DEF Own

\* What an inactive store means for a step of r.
LEMMA Idle ==
    ASSUME IInv, NEW r \in Request, UNCHANGED <<store, clock>>
    PROVE  /\ Known' = Known /\ 0 \in Known /\ clock \in Nat /\ clock' = clock
           /\ Requests /\ Types /\ Path(r) /\ Final(r)
           /\ sessions' = sessions /\ req[r].now \in Nat /\ req[r].token \in Known
           /\ req[r].revoked \in BOOLEAN
BY DEF IInv, Types, Known, store, Path, Requests, RequestState

\* A step that answers r, holding nothing, and not as a logout.
LEMMA OwnReply ==
    ASSUME IInv, NEW r \in Request, NEW code \in Answer, Reply(r, code),
           UNCHANGED <<store, clock>>, req[r].route # "logout"
    PROVE  /\ Requests' /\ Only(r) /\ req'[r].pc = "done"
           /\ Path(r)' /\ Locked(r)' /\ Final(r)'
<1>1. Requests /\ Path(r) /\ Known' = Known /\ 0 \in Known /\ clock' = clock /\ clock \in Nat
  BY Idle
<1>2. Requests' /\ Only(r) /\ req'[r].pc = "done" /\ req'[r].route # "logout"
      /\ req'[r].minted = 0 /\ req'[r].token \in {0, req[r].token}
      /\ req'[r].now \in {0, req[r].now}
  BY <1>1, ReplyState DEF Keeps
<1>3. QED
  BY <1>1, <1>2 DEF Path, Locked, Final

\* A step of r to another place of its route.
LEMMA OwnGoto ==
    ASSUME IInv, NEW r \in Request, UNCHANGED <<store, clock>>,
           NEW pc \in PC, Goto(r, pc) \/ GotoNow(r, pc),
           req[r].route \in {"login", "register"},
           pc \in {"lookup", "recordFailure", "recordSuccess", "revoke", "create"}
              => req[r].route = "login",
           pc \in {"acquire", "queue", "wait", "leave", "giveUp", "hash", "release",
                   "lookup", "recordFailure", "recordSuccess", "create", "revoke"},
           pc = "revoke" => req[r].token # 0,
           pc # "create" => ~req[r].revoked
    PROVE  /\ Requests' /\ Only(r) /\ req'[r].pc = pc
           /\ Path(r)' /\ Locked(r)' /\ Final(r)'
<1>1. Requests /\ Path(r) /\ Known' = Known /\ clock' = clock /\ clock \in Nat
  BY Idle
<1>2. Requests' /\ Only(r) /\ req'[r].pc = pc /\ Keeps(r, Rest \cup {"answer"})
      /\ req'[r].now \in {req[r].now, clock}
  BY <1>1, GotoState
<1>3. /\ req'[r].route = req[r].route /\ req'[r].token = req[r].token
      /\ req'[r].minted = req[r].minted /\ req'[r].revoked = req[r].revoked
  BY <1>2 DEF Keeps, Rest
<1>4. /\ req'[r].token \in Known' /\ req'[r].minted \in Known' /\ req'[r].now <= clock'
  BY <1>1, <1>2, <1>3 DEF Path
<1>5. Path(r)'
  BY <1>2, <1>3, <1>4 DEF Path
<1>6. QED
  BY <1>2, <1>3, <1>5 DEF Locked, Final

LEMMA OwnAttempt ==
    ASSUME IInv, NEW r \in Request,
           AdmitAttempt(r) \/ RefuseAttempt(r) \/ Lookup(r) \/ LookupFails(r)
    PROVE  Own(r)
<1>1. UNCHANGED <<store, clock>> /\ UNCHANGED <<slots, waiting, active>>
  BY DEF AdmitAttempt, RefuseAttempt, Lookup, LookupFails, RetryAfter, OnlyReq, OnlyLimits,
         limits
<1>2. req[r].pc \in {"retryAfter", "lookup"}
  BY DEF AdmitAttempt, RefuseAttempt, Lookup, LookupFails, At
<1>3. Types /\ Path(r) /\ Known' = Known /\ clock' = clock /\ req[r].route = "login"
      /\ req[r].revoked = FALSE
  BY <1>1, <1>2, Idle DEF Path
<1>4. /\ Requests' /\ Only(r) /\ req'[r].pc \in {"lookup", "acquire", "done"}
      /\ Path(r)' /\ Locked(r)' /\ Final(r)'
  <2>1. CASE AdmitAttempt(r)
    <3>1. Goto(r, "lookup") /\ "lookup" \in PC
      BY <2>1 DEF AdmitAttempt, PC
    <3>2. QED
      BY <3>1, <1>1, <1>3, OwnGoto
  <2>2. CASE RefuseAttempt(r) \/ LookupFails(r)
    <3>1. PICK code \in Answer : Reply(r, code)
      BY <2>2 DEF RefuseAttempt, LookupFails, Answer
    <3>2. QED
      BY <3>1, <1>1, <1>3, OwnReply
  <2>3. CASE Lookup(r)
    <3>1. Requests' /\ Only(r) /\ req'[r].pc = "acquire"
          /\ Keeps(r, (Rest \ {"user"}) \cup {"now", "answer"})
      BY <2>3, <1>3, LookupState
    <3>2. /\ req'[r].route = "login" /\ req'[r].token = req[r].token
          /\ req'[r].minted = req[r].minted /\ req'[r].revoked = FALSE
          /\ req'[r].now = req[r].now
      BY <3>1, <1>3 DEF Keeps, Rest
    <3>3. QED
      BY <1>3, <3>1, <3>2 DEF Path, Locked, Final
  <2>4. QED
    BY <2>1, <2>2, <2>3
<1>5. Follow(r) /\ {slots', waiting', active'} \subseteq Int
  BY <1>1, <1>2, <1>3, <1>4, NothingHeld DEF Holders, Hashers, Queuers
<1>6. QED
  BY <1>4, <1>5 DEF Own

\* Taking, waiting for and giving back a slot.
LEMMA OwnSlot ==
    ASSUME IInv, NEW r \in Request,
           TakeSlot(r) \/ Queue(r) \/ Wait(r) \/ Leave(r) \/ Verify(r) \/ LeaveSlot(r)
    PROVE  Own(r)
<1>1. UNCHANGED <<store, clock>>
  BY DEF TakeSlot, Queue, Wait, Leave, Verify, LeaveSlot, OnlyLimits
<1>2. req[r].pc \in {"acquire", "queue", "wait", "leave", "giveUp", "hash", "release"}
  BY DEF TakeSlot, Queue, Wait, Leave, Verify, LeaveSlot, At
<1>3. Types /\ req[r].route \in {"login", "register"} /\ ~req[r].revoked
  BY <1>1, <1>2, Idle DEF Path
<1>4. slots \in Int /\ waiting \in Int /\ active \in Int /\ MaxWaiting \in Nat
  BY <1>3, LimitsAssumption DEF Types
<1> DEFINE Counts(p, q) ==
              /\ req[r].pc = p
              /\ slots' + One(q, Holders) = slots + One(p, Holders)
              /\ active' - One(q, Hashers) = active - One(p, Hashers)
              /\ waiting' - One(q, Queuers) = waiting - One(p, Queuers)
              /\ waiting' <= waiting \/ waiting' <= MaxWaiting
              /\ slots' \in Int /\ waiting' \in Int /\ active' \in Int
<1> USE DEF One, Holders, Hashers, Queuers
<1> DEFINE Lands(q) ==
              \/ q = "done" /\ \E code \in Answer : Reply(r, code)
              \/ /\ q \in {"queue", "wait", "leave", "giveUp", "hash",
                           "recordFailure", "recordSuccess"}
                 /\ Goto(r, q) \/ GotoNow(r, q)
                 /\ q \in {"recordFailure", "recordSuccess"} => req[r].route = "login"
<1>5. \E p, q \in PC : Counts(p, q) /\ Lands(q)
  <2>1. CASE TakeSlot(r)
    <3>1. CASE AcquireNow /\ Goto(r, "hash")
      <4>1. Counts("acquire", "hash")
        BY <2>1, <3>1, <1>4 DEF TakeSlot, At, AcquireNow
      <4>2. QED
        BY <4>1, <3>1 DEF PC
    <3>2. CASE NoSlot /\ Goto(r, "queue")
      <4>1. Counts("acquire", "queue")
        BY <2>1, <3>2, <1>4 DEF TakeSlot, At, NoSlot, limits
      <4>2. QED
        BY <4>1, <3>2 DEF PC
    <3>3. QED
      BY <2>1, <3>1, <3>2 DEF TakeSlot
  <2>2. CASE Queue(r)
    <3>1. CASE JoinQueue /\ Goto(r, "wait")
      <4>1. Counts("queue", "wait")
        BY <2>2, <3>1, <1>4 DEF Queue, At, JoinQueue, QueueFull
      <4>2. QED
        BY <4>1, <3>1 DEF PC
    <3>2. CASE Reply(r, 503) /\ UNCHANGED limits
      <4>1. Counts("queue", "done")
        BY <2>2, <3>2, <1>4 DEF Queue, At, limits
      <4>2. QED
        BY <4>1, <3>2 DEF PC, Answer
    <3>3. QED
      BY <2>2, <3>1, <3>2 DEF Queue
  <2>3. CASE Wait(r)
    <3>1. CASE AcquireFromQueue /\ Goto(r, "leave")
      <4>1. Counts("wait", "leave")
        BY <2>3, <3>1, <1>4 DEF Wait, At, AcquireFromQueue
      <4>2. QED
        BY <4>1, <3>1 DEF PC
    <3>2. CASE TimeOut /\ Goto(r, "giveUp")
      <4>1. Counts("wait", "giveUp")
        BY <2>3, <3>2, <1>4 DEF Wait, At, TimeOut, NoSlot, limits
      <4>2. QED
        BY <4>1, <3>2 DEF PC
    <3>3. QED
      BY <2>3, <3>1, <3>2 DEF Wait
  <2>4. CASE Leave(r)
    <3>1. CASE At(r, "leave") /\ LeaveQueue /\ Goto(r, "hash")
      <4>1. Counts("leave", "hash")
        BY <3>1, <1>4 DEF At, LeaveQueue
      <4>2. QED
        BY <4>1, <3>1 DEF PC
    <3>2. CASE At(r, "giveUp") /\ GiveUp /\ Reply(r, 503)
      <4>1. Counts("giveUp", "done")
        BY <3>2, <1>4 DEF At, GiveUp
      <4>2. QED
        BY <4>1, <3>2 DEF PC, Answer
    <3>3. QED
      BY <2>4, <3>1, <3>2 DEF Leave
  <2>5. CASE Verify(r)
    <3>1. PICK q \in {"recordSuccess", "recordFailure"} : Goto(r, q) \/ GotoNow(r, q)
      BY <2>5 DEF Verify
    <3>2. Counts("hash", q) /\ req[r].route = "login"
      BY <2>5, <1>4 DEF Verify, At, Release
    <3>3. QED
      BY <3>1, <3>2 DEF PC
  <2>6. CASE LeaveSlot(r)
    <3>1. Counts("release", "done")
      BY <2>6, <1>4 DEF LeaveSlot, At, Release
    <3>2. Reply(r, req[r].answer) /\ req[r].answer \in Answer
      BY <2>6, <1>3 DEF LeaveSlot, Types, Requests, RequestState
    <3>3. QED
      BY <3>1, <3>2 DEF PC
  <2>7. QED
    BY <2>1, <2>2, <2>3, <2>4, <2>5, <2>6
<1>6. PICK p, q \in PC : Counts(p, q) /\ Lands(q)
  BY <1>5
<1>7. /\ Requests' /\ Only(r) /\ req'[r].pc = q
      /\ Path(r)' /\ Locked(r)' /\ Final(r)'
  <2>1. CASE q = "done" /\ \E code \in Answer : Reply(r, code)
    BY <1>1, <1>3, <2>1, OwnReply
  <2>2. CASE /\ q \in {"queue", "wait", "leave", "giveUp", "hash",
                       "recordFailure", "recordSuccess"}
             /\ Goto(r, q) \/ GotoNow(r, q)
             /\ q \in {"recordFailure", "recordSuccess"} => req[r].route = "login"
    BY <1>1, <1>3, <2>2, OwnGoto
  <2>3. QED
    BY <1>6, <2>1, <2>2
<1>8. QED
  BY <1>6, <1>7 DEF Own, Follow

\* Creating an account, inside a slot.
LEMMA OwnCreateUser ==
    ASSUME IInv, NEW r \in Request, CreateUser(r) \/ CreateUserFails(r)
    PROVE  Own(r)
<1>1. Known' = Known /\ clock' = clock /\ UNCHANGED <<slots, waiting, active>>
  BY DEF CreateUser, CreateUserFails, InsertUser, DuplicateEmail, OnlyStore, OnlyReq, OnlyLimits,
         Known, store, limits
<1>2. Types /\ Requests /\ Path(r) /\ req[r].pc = "hash"
  BY DEF CreateUser, CreateUserFails, At, IInv, Types
<1>3. req[r].route = "register" /\ ~req[r].revoked
  BY <1>2 DEF CreateUser, CreateUserFails, Path
<1>4. PICK code \in Answer : req' = [req EXCEPT ![r].pc = "release", ![r].answer = code]
  BY DEF CreateUser, CreateUserFails, Answer
<1>5. Requests' /\ Only(r) /\ req'[r].pc = "release" /\ Keeps(r, Rest \cup {"now"})
  <2>1. "release" \in PC
    BY DEF PC
  <2>2. QED
    BY <1>2, <1>4, <2>1, SendState
<1>6. /\ req'[r].route = "register" /\ req'[r].revoked = req[r].revoked
      /\ req'[r].token = req[r].token /\ req'[r].minted = req[r].minted
      /\ req'[r].now = req[r].now
  BY <1>3, <1>5 DEF Keeps, Rest
<1>7. Path(r)' /\ Locked(r)' /\ Final(r)'
  BY <1>1, <1>2, <1>3, <1>5, <1>6 DEF Path, Locked, Final
<1>8. Follow(r) /\ {slots', waiting', active'} \subseteq Int
  BY <1>1, <1>2, <1>5, LimitsAssumption DEF Follow, One, Holders, Hashers, Queuers, Types
<1>9. QED
  BY <1>5, <1>7, <1>8 DEF Own

LEMMA FailState ==
    ASSUME Types, NEW r \in Request, Fail(r)
    PROVE  /\ Requests' /\ Only(r)
           /\ req'[r].pc = "done" /\ req'[r].route = req[r].route /\ req'[r].minted = 0
           /\ req'[r].token \in {0, req[r].token} /\ req'[r].now \in {0, req[r].now}
           /\ req'[r].answer = 401 /\ req'[r].revoked = req[r].revoked
<1> DEFINE q1 == [req[r] EXCEPT !.answer = 401]
           q  == [q1 EXCEPT !.failed = clock]
<1>1. q \in RequestState /\ q.answer = 401
      /\ \A f \in {"route", "token", "now", "revoked"} : q[f] = req[r][f]
  <2>1. 401 \in Answer /\ clock \in Nat /\ req[r] \in RequestState
    BY DEF Answer, Types, Requests
  <2>2. q1 \in RequestState /\ q1.answer = 401
        /\ \A f \in {"route", "token", "now", "revoked"} : q1[f] = req[r][f]
    BY <2>1 DEF RequestState
  <2> HIDE DEF q1
  <2>3. q \in RequestState /\ q.answer = 401
        /\ \A f \in {"route", "token", "now", "revoked"} : q[f] = q1[f]
    BY <2>1, <2>2 DEF RequestState
  <2>4. QED
    BY <2>2, <2>3
<1>2. req' = [req EXCEPT ![r] = Ended(q, "done")]
  BY DEF Fail
<1> HIDE DEF q
<1>3. "done" \in PC
  BY DEF PC
<1>4. Ended(q, "done") \in RequestState
  BY <1>1, <1>3, EndedType
<1>5. Requests' /\ Only(r) /\ req'[r] = Ended(q, "done")
  BY <1>2, <1>4, OneChanged DEF Types
<1>6. QED
  BY <1>1, <1>3, <1>5, EndedType

\* The outcome of a login's password.
LEMMA OwnOutcome ==
    ASSUME IInv, NEW r \in Request, Fail(r) \/ Succeed(r)
    PROVE  Own(r)
<1>1. UNCHANGED <<store, clock>> /\ UNCHANGED <<slots, waiting, active>>
  BY DEF Fail, Succeed, RecordFailure, RecordSuccess
<1>2. req[r].pc \in {"recordFailure", "recordSuccess"}
  BY DEF Fail, Succeed, At
<1>3. Types /\ Path(r) /\ req[r].route = "login" /\ ~req[r].revoked
      /\ Known' = Known /\ 0 \in Known /\ clock' = clock /\ clock \in Nat
  BY <1>1, <1>2, Idle DEF Path
<1>4. /\ Requests' /\ Only(r) /\ req'[r].pc \in {"done", "revoke", "create"}
      /\ Path(r)' /\ Locked(r)' /\ Final(r)'
  <2>1. CASE Fail(r)
    BY <1>3, <2>1, FailState DEF Path, Locked, Final
  <2>2. CASE Succeed(r)
    <3>1. \/ Goto(r, "revoke") /\ req[r].token # 0
          \/ GotoNow(r, "create")
      BY <2>2 DEF Succeed
    <3>2. "revoke" \in PC /\ "create" \in PC
      BY DEF PC
    <3>3. QED
      BY <1>1, <1>3, <3>1, <3>2, OwnGoto
  <2>3. QED
    BY <2>1, <2>2
<1>5. Follow(r) /\ {slots', waiting', active'} \subseteq Int
  BY <1>1, <1>2, <1>3, <1>4, NothingHeld DEF Holders, Hashers, Queuers
<1>6. QED
  BY <1>4, <1>5 DEF Own

\* Retiring a session, for a login or a logout.
LEMMA OwnRevoke ==
    ASSUME IInv, NEW r \in Request, Revoke(r) \/ RevokeFails(r)
    PROVE  Own(r)
<1>1. Known' = Known /\ clock' = clock /\ UNCHANGED <<slots, waiting, active>>
  BY DEF Revoke, RevokeFails, RevokeSession, OnlyStore, OnlyReq, OnlyLimits, Known, store, limits
<1>2. Types /\ Requests /\ clock \in Nat /\ clock <= clock /\ Path(r) /\ req[r].pc = "revoke"
  BY DEF Revoke, RevokeFails, At, IInv, Types
<1>3. req[r].route \in {"login", "logout"} /\ req[r].token \in Token /\ ~req[r].revoked
  BY <1>2 DEF Path, Known
<1>4. /\ Requests' /\ Only(r) /\ req'[r].pc \in {"create", "deliver"}
      /\ req'[r].pc = "create" => req[r].route = "login"
      /\ req'[r].route = req[r].route /\ req'[r].token = req[r].token
      /\ req'[r].minted = req[r].minted /\ req'[r].now \in {req[r].now, clock}
      /\ req'[r].answer = 200 => sessions'[req[r].token] = None
         \/ req[r].route = "login"
  <2>1. CASE Revoke(r)
    <3>1. sessions'[req[r].token] = None
      BY <1>2, <1>3, <2>1 DEF Revoke, RevokeSession, Types, StoreTypeOK
    <3>2. /\ Requests' /\ Only(r)
          /\ req'[r].pc = IF req[r].route = "login" THEN "create" ELSE "deliver"
          /\ req'[r].now = clock /\ Keeps(r, Rest \ {"revoked"})
      BY <1>2, <2>1, RevokeState
    <3>3. QED
      BY <3>1, <3>2 DEF Keeps, Rest
  <2>2. CASE RevokeFails(r) /\ req[r].route = "login"
    <3>1. GotoNow(r, "create") /\ "create" \in PC
      BY <2>2 DEF RevokeFails, PC
    <3>2. QED
      BY <1>2, <2>2, <3>1, GotoState DEF Keeps, Rest
  <2>3. CASE RevokeFails(r) /\ req[r].route # "login"
    <3>1. PICK pc \in PC, code \in Answer :
             /\ pc = "deliver" /\ code = 503
             /\ req' = [req EXCEPT ![r].pc = pc, ![r].answer = code]
      BY <2>3 DEF RevokeFails, Send, PC, Answer
    <3>2. /\ Requests' /\ Only(r) /\ req'[r].pc = pc /\ req'[r].answer = code
          /\ Keeps(r, Rest \cup {"now"})
      <4>1. Requests /\ req' = [req EXCEPT ![r].pc = pc, ![r].answer = code]
        BY <1>2, <3>1
      <4>2. QED
        BY ONLY <4>1, SendState
    <3>3. QED
      BY <3>1, <3>2 DEF Keeps, Rest
  <2>4. QED
    BY <2>1, <2>2, <2>3
<1>5. Path(r)' /\ Locked(r)' /\ Final(r)'
  BY <1>1, <1>2, <1>3, <1>4 DEF Path, Locked, Final
<1>6. Follow(r) /\ {slots', waiting', active'} \subseteq Int
  BY <1>1, <1>2, <1>4, NothingHeld DEF Holders, Hashers, Queuers
<1>7. QED
  BY <1>4, <1>5, <1>6 DEF Own

\* Opening one.
LEMMA OwnCreate ==
    ASSUME IInv, NEW r \in Request, Create(r) \/ CreateFails(r)
    PROVE  Own(r)
<1>1. Types /\ Path(r) /\ req[r].pc = "create" /\ req[r].route = "login"
      /\ UNCHANGED <<slots, waiting, active, clock>>
  BY DEF Create, CreateFails, At, IInv, OnlyStore, OnlyReq, OnlyLimits, limits, Path
<1>2. /\ Requests' /\ Only(r) /\ req'[r].pc \in {"done", "deliver"}
      /\ Path(r)' /\ Locked(r)' /\ Final(r)'
  <2>1. CASE Create(r)
    <3>1. /\ Requests' /\ Only(r) /\ req'[r].pc = "deliver"
          /\ req'[r].minted = minted + 1 /\ req'[r].route = "login"
          /\ req'[r].token = req[r].token /\ req'[r].now = req[r].now
      BY <1>1, <2>1, CreateState DEF Keeps, Rest
    <3>2. minted \in Nat /\ minted' = minted + 1 /\ minted + 1 \in Token /\ Token \subseteq Nat
      BY <1>1, <2>1, Sentinel DEF Create, CreateSession, Types, StoreTypeOK
    <3>3. minted + 1 \in Known' /\ Known \subseteq Known'
      <4>1. minted + 1 <= minted' /\ \A t \in Token : t <= minted => t <= minted'
        BY ONLY <3>2
      <4>2. QED
        BY <3>2, <4>1 DEF Known
    <3>4. QED
      BY <1>1, <3>1, <3>3 DEF Path, Locked, Final
  <2>2. CASE CreateFails(r)
    <3>1. Reply(r, 503) /\ 503 \in Answer /\ UNCHANGED <<store, clock>>
      BY <2>2 DEF CreateFails, Answer, OnlyReq, OnlyLimits
    <3>2. QED
      BY <1>1, <3>1, OwnReply
  <2>3. QED
    BY <2>1, <2>2
<1>3. Follow(r) /\ {slots', waiting', active'} \subseteq Int
  BY <1>1, <1>2, NothingHeld DEF Holders, Hashers, Queuers
<1>4. QED
  BY <1>2, <1>3 DEF Own

\* The answer arrives.
LEMMA OwnDeliver ==
    ASSUME IInv, NEW r \in Request, Deliver(r)
    PROVE  Own(r)
<1>1. UNCHANGED <<store, clock>> /\ UNCHANGED <<slots, waiting, active>>
      /\ req[r].pc = "deliver" /\ Reply(r, req[r].answer)
  BY DEF Deliver, limits, At
<1>2. Types /\ Requests /\ Path(r) /\ Final(r) /\ Known' = Known /\ 0 \in Known
      /\ clock' = clock /\ clock \in Nat /\ sessions' = sessions
  BY <1>1, Idle DEF Types
<1>3. req[r].answer \in Answer
  BY <1>2 DEF Requests, RequestState
<1>4. /\ Requests' /\ Only(r) /\ req'[r].pc = "done" /\ req'[r].route = req[r].route
      /\ req'[r].answer = req[r].answer /\ req'[r].minted = 0
      /\ req'[r].token \in {0, req[r].token} /\ req'[r].now \in {0, req[r].now}
      /\ req[r].route = "logout" => req'[r].token = req[r].token
  BY <1>1, <1>2, <1>3, ReplyState DEF Keeps
<1>5. Path(r)' /\ Locked(r)' /\ Final(r)'
  BY <1>2, <1>4 DEF Path, Locked, Final
<1>6. Follow(r) /\ {slots', waiting', active'} \subseteq Int
  BY <1>1, <1>2, <1>4, NothingHeld DEF Holders, Hashers, Queuers
<1>7. QED
  BY <1>4, <1>5, <1>6 DEF Own

\* get_current_user and /me.
LEMMA OwnMe ==
    ASSUME IInv, NEW r \in Request,
           \/ Begin(r) \/ BeginFails(r) \/ Accept(r) \/ Drop(r) \/ DecideFails(r)
           \/ ShowUser(r) \/ ShowUserFails(r)
    PROVE  Own(r)
<1>1. UNCHANGED <<slots, waiting, active, clock, minted>>
  BY DEF Begin, BeginFails, Accept, Drop, DecideFails, ShowUser, ShowUserFails, OnlyStore,
         OnlyReq, OnlyLimits, limits, store, BeginImmediate, AcceptSession, DropSession, RollBack
<1>2. req[r].pc \in {"begin", "decide", "user"}
  BY DEF Begin, BeginFails, Accept, Drop, DecideFails, ShowUser, ShowUserFails, At
<1>3. Types /\ Requests /\ Path(r) /\ Locked(r) /\ req[r].route = "me" /\ ~req[r].revoked
      /\ Known' = Known /\ 0 \in Known /\ clock \in Nat
  BY <1>1, <1>2 DEF IInv, Types, Path, Known
<1>4. /\ Requests' /\ Only(r) /\ req'[r].pc \in {"done", "decide", "user"}
      /\ Path(r)' /\ Locked(r)' /\ Final(r)'
  <2>1. CASE Begin(r)
    <3>1. req[r].token \in Token /\ req[r].pc = "begin"
      BY <1>3, <2>1 DEF Begin, At, Path, Known
    <3>2. Requests' /\ Only(r) /\ req'[r].pc = "decide"
          /\ req'[r].row = Joined(req[r].token)
          /\ Keeps(r, (Rest \ {"row"}) \cup {"now", "answer"})
      BY <1>3, <2>1, <3>1, BeginState
    <3>3. /\ req'[r].route = "me" /\ req'[r].token = req[r].token /\ req'[r].now = req[r].now
          /\ req'[r].minted = req[r].minted /\ req'[r].revoked = req[r].revoked
          /\ req'[r].user = req[r].user
      BY <1>3, <3>2 DEF Keeps, Rest
    <3>4. writer' = r /\ UNCHANGED <<accounts, sessions>>
      BY <2>1 DEF Begin, BeginImmediate
    <3>5. Locked(r)'
      BY <3>2, <3>3, <3>4 DEF Locked, Joined, HasAccount
    <3>6. QED
      BY <1>1, <1>3, <3>1, <3>2, <3>3, <3>5 DEF Path, Final
  <2>2. CASE Accept(r)
    <3>1. Requests' /\ Only(r) /\ req'[r].pc = "user"
          /\ Keeps(r, (Rest \ {"row", "user"}) \cup {"now", "answer"})
      BY <1>3, <2>2, AcceptState
    <3>2. /\ req'[r].route = "me" /\ req'[r].token = req[r].token /\ req'[r].now = req[r].now
          /\ req'[r].minted = req[r].minted /\ req'[r].revoked = req[r].revoked
      BY <1>3, <3>1 DEF Keeps, Rest
    <3>3. QED
      BY <1>1, <1>3, <3>1, <3>2 DEF Path, Locked, Final
  <2>3. CASE BeginFails(r) \/ Drop(r) \/ DecideFails(r) \/ ShowUser(r) \/ ShowUserFails(r)
    <3>1. PICK code \in Answer : Reply(r, code)
      BY <2>3 DEF BeginFails, Drop, DecideFails, ShowUser, ShowUserFails, Answer
    <3>2. /\ Requests' /\ Only(r) /\ req'[r].pc = "done" /\ req'[r].route = "me"
          /\ req'[r].minted = 0 /\ req'[r].token \in {0, req[r].token}
          /\ req'[r].now \in {0, req[r].now}
      BY <1>3, <3>1, ReplyState DEF Keeps
    <3>3. QED
      BY <1>1, <1>3, <3>2 DEF Path, Locked, Final
  <2>4. QED
    BY <2>1, <2>2, <2>3
<1>5. Follow(r) /\ {slots', waiting', active'} \subseteq Int
  BY <1>1, <1>2, <1>3, <1>4, NothingHeld DEF Holders, Hashers, Queuers
<1>6. QED
  BY <1>4, <1>5 DEF Own

LEMMA OwnStep ==
    ASSUME IInv, NEW r \in Request, Arrive(r) \/ Step(r)
    PROVE  Own(r)
BY OwnArrive, OwnAttempt, OwnSlot, OwnCreateUser, OwnOutcome, OwnRevoke, OwnCreate,
   OwnDeliver, OwnMe DEF Step

-----------------------------------------------------------------------------
(* What it makes of the store.                                             *)

Stored ==
    /\ StoreTypeOK' /\ StoreInv' /\ Forward
    /\ clock' \in Nat /\ cookie' \in [Browser -> Nat]

LEMMA CookiesKeep ==
    ASSUME IInv, minted' \in Nat, minted <= minted', cookie' = cookie
    PROVE  cookie' \in [Browser -> Known'] /\ cookie' \in [Browser -> Nat]
<1>1. Token \subseteq Nat /\ minted \in Nat /\ cookie \in [Browser -> Known]
      /\ cookie \in [Browser -> Nat]
  BY Sentinel DEF IInv, Types, StoreTypeOK, StoreInv
<1>2. Known \subseteq Known'
  <2>1. \A t \in Token : t <= minted => t <= minted'
    BY ONLY <1>1, minted' \in Nat, minted <= minted'
  <2>2. QED
    BY <2>1 DEF Known
<1>3. QED
  BY <1>1, <1>2

LEMMA StoredIdle ==
    ASSUME IInv, UNCHANGED <<store, clock, cookie>>
    PROVE  Stored
<1>1. StoreTypeOK /\ clock \in Nat /\ minted \in Nat /\ cookie \in [Browser -> Nat] /\ StoreInv
  BY DEF IInv, Types, StoreTypeOK
<1>2. Known' = Known
  BY DEF store, Known
<1>3. QED
  BY <1>1, <1>2 DEF Stored, StoreTypeOK, StoreInv, Forward, store

LEMMA StoredAccount ==
    ASSUME IInv, NEW a, InsertUser(a), UNCHANGED <<clock, cookie>>
    PROVE  Stored
<1>1. StoreTypeOK /\ clock \in Nat /\ minted \in Nat /\ StoreInv /\ lastId \in Nat
  BY DEF IInv, Types, StoreTypeOK
<1>2. accounts' \in [Account -> Nat] /\ lastId' = lastId + 1 /\ lastId' \in Nat
      /\ UNCHANGED <<sessions, minted, writer>>
  <2>1. lastId + 1 \in Nat /\ accounts \in [Account -> Nat]
    BY <1>1 DEF StoreTypeOK
  <2>2. accounts' = [accounts EXCEPT ![a] = lastId + 1]
    BY DEF InsertUser
  <2>3. accounts' \in [Account -> Nat]
    BY ONLY <2>1, <2>2
  <2>4. QED
    BY <2>1, <2>3 DEF InsertUser
<1>3. \A x \in Account : accounts'[x] = (IF x = a THEN lastId + 1 ELSE accounts[x])
                         /\ accounts[x] \in Nat /\ accounts[x] <= lastId
  BY <1>1 DEF InsertUser, StoreTypeOK, StoreInv
<1>4. \A x \in Account : accounts'[x] <= lastId'
  <2>1. \A n \in Nat : n <= lastId => n <= lastId + 1
    BY ONLY <1>1
  <2>2. lastId + 1 <= lastId + 1
    BY <1>1
  <2>3. QED
    BY <1>2, <1>3, <2>1, <2>2
<1>5. \A x, y \in Account : accounts'[x] = accounts'[y] => x = y \/ accounts'[x] = 0
  <2>1. \A n \in Nat : n <= lastId => n # lastId + 1
    BY ONLY <1>1
  <2>2. QED
    BY <1>1, <1>3, <2>1 DEF StoreInv
<1>6. Known' = Known
  BY <1>2 DEF Known
<1>7. StoreTypeOK'
  BY <1>1, <1>2 DEF StoreTypeOK
<1>8. Forward
  BY <1>1, <1>2 DEF Forward
<1>9. StoreInv' /\ clock' \in Nat /\ cookie' \in [Browser -> Nat]
  <2>1. cookie \in [Browser -> Nat] /\ cookie \in [Browser -> Known]
    BY DEF IInv, Types, StoreInv
  <2>2. \A t \in Token : sessions'[t] # None => t <= minted'
    BY <1>1, <1>2 DEF StoreInv
  <2>3. QED
    BY <1>1, <1>4, <1>5, <1>6, <2>1, <2>2 DEF StoreInv
<1>10. QED
  BY <1>7, <1>8, <1>9 DEF Stored

\* Rows go or are written again, and nothing else changes.
LEMMA StoredRows ==
    ASSUME IInv, UNCHANGED <<accounts, lastId, minted, clock, cookie>>,
           writer' \in Caller \cup {None},
           sessions' \in [Token -> Row \cup {None}],
           \A t \in Token : sessions[t] = None => sessions'[t] = None
    PROVE  Stored
<1>1. StoreTypeOK /\ clock \in Nat /\ minted \in Nat /\ StoreInv /\ cookie \in [Browser -> Nat]
  BY DEF IInv, Types, StoreTypeOK
<1>2. Known' = Known
  BY DEF Known
<1>3. QED
  BY <1>1, <1>2 DEF Stored, StoreTypeOK, StoreInv, Forward

LEMMA StoredMinted ==
    ASSUME IInv, NEW u, NEW now \in Nat, CreateSession(u, now), UNCHANGED <<clock, cookie>>
    PROVE  Stored
<1>1. StoreTypeOK /\ clock \in Nat /\ minted \in Nat /\ StoreInv /\ Token \subseteq Nat
      /\ minted + 1 \in Token /\ minted' = minted + 1 /\ UNCHANGED <<accounts, lastId, writer>>
  BY Sentinel DEF IInv, Types, StoreTypeOK, CreateSession
<1>2. /\ minted' \in Nat /\ minted <= minted'
      /\ \A t \in Token : t <= minted => t <= minted' /\ t # minted + 1
      /\ minted + 1 <= minted'
  BY ONLY <1>1
<1>3. cookie' \in [Browser -> Known'] /\ cookie' \in [Browser -> Nat]
  BY <1>2, CookiesKeep
<1>4. u \in Nat
  BY <1>1 DEF CreateSession, HasAccount, StoreTypeOK
<1>5. sessions' \in [Token -> Row \cup {None}]
  <2>1. OpenRow(u, now) \in Row
    BY <1>4 DEF OpenRow, Row
  <2>2. QED
    BY <1>1, <2>1 DEF CreateSession, StoreTypeOK
<1>6. \A t \in Token : t # minted + 1 => sessions'[t] = sessions[t]
  BY <1>1 DEF CreateSession, StoreTypeOK
<1>7. \A t \in Token : /\ sessions'[t] # None => t <= minted'
                       /\ t <= minted /\ sessions[t] = None => sessions'[t] = None
  BY <1>1, <1>2, <1>6 DEF StoreInv
<1>8. QED
  BY <1>1, <1>2, <1>3, <1>5, <1>7 DEF Stored, StoreTypeOK, StoreInv, Forward

\* Whoever holds the write lock keeps the others from the rows and accounts.
Alone(r) == writer \in {None, r} \/ UNCHANGED <<accounts, sessions, writer>>

LEMMA StoredStep ==
    ASSUME IInv, NEW r \in Request, Arrive(r) \/ Step(r)
    PROVE  Stored /\ Alone(r)
<1>1. Types /\ StoreTypeOK /\ Path(r) /\ Locked(r) /\ Caller = Request /\ minted \in Nat
      /\ req[r].now \in Nat /\ 0 \in Known /\ StoreInv
  BY Sentinel DEF IInv, Types, Requests, RequestState, StoreTypeOK, Known
<1>2. CASE UNCHANGED <<store, clock, cookie>>
  BY <1>2, StoredIdle DEF Alone, store
<1>3. CASE CreateUser(r)
  <2>1. InsertUser(req[r].email) \/ UNCHANGED store
    BY <1>3 DEF CreateUser, DuplicateEmail
  <2>2. UNCHANGED <<clock, cookie>>
    BY <1>3 DEF CreateUser, OnlyStore
  <2>3. CASE InsertUser(req[r].email)
    BY <2>2, <2>3, StoredAccount DEF Alone, InsertUser
  <2>4. QED
    BY <1>2, <2>1, <2>2, <2>3
<1>4. CASE Revoke(r)
  <2>1. RevokeSession(req[r].token) /\ UNCHANGED <<clock, cookie>>
    BY <1>4 DEF Revoke, OnlyStore
  <2>2. /\ writer = None /\ UNCHANGED <<accounts, lastId, minted, writer>>
        /\ sessions' \in [Token -> Row \cup {None}]
        /\ \A t \in Token : sessions[t] = None => sessions'[t] = None
    BY <1>1, <2>1 DEF RevokeSession, StoreTypeOK
  <2>3. QED
    BY <2>1, <2>2, StoredRows DEF Alone
<1>5. CASE Create(r)
  BY <1>1, <1>5, StoredMinted DEF Create, OnlyStore, Alone, CreateSession
<1>6. CASE Begin(r)
  <2>1. /\ writer = None /\ writer' = r
        /\ UNCHANGED <<accounts, lastId, sessions, minted, clock, cookie>>
    BY <1>6 DEF Begin, BeginImmediate, OnlyStore
  <2>2. QED
    BY <1>1, <2>1, StoredRows DEF Alone, StoreTypeOK
<1>7. CASE Accept(r) \/ Drop(r) \/ DecideFails(r)
  <2>1. /\ writer = r /\ writer' = None
        /\ UNCHANGED <<accounts, lastId, minted, clock, cookie>>
    BY <1>1, <1>7 DEF Accept, Drop, DecideFails, AcceptSession, DropSession, RollBack,
                      OnlyStore, At, Locked
  <2>2. \A row \in Row : Seen(row, req[r].now) \in Row
    BY <1>1 DEF Seen, Row
  <2>3. /\ sessions' \in [Token -> Row \cup {None}]
        /\ \A t \in Token : sessions[t] = None => sessions'[t] = None
    <3>1. CASE Accept(r)
      <4>1. sessions' = [sessions EXCEPT ![req[r].token] =
                            IF @ = None THEN None ELSE Seen(req[r].row, req[r].now)]
            /\ req[r].row # None
        BY <3>1 DEF Accept, AcceptSession
      <4>2. Seen(req[r].row, req[r].now) \in Row
        BY <1>1, <2>2, <4>1 DEF Types, Requests, RequestState
      <4>3. QED
        BY <1>1, <4>1, <4>2 DEF StoreTypeOK
    <3>2. CASE Drop(r)
      BY <1>1, <3>2 DEF Drop, DropSession, StoreTypeOK
    <3>3. CASE DecideFails(r)
      BY <1>1, <3>3 DEF DecideFails, RollBack, StoreTypeOK
    <3>4. QED
      BY <1>7, <3>1, <3>2, <3>3
  <2>4. QED
    BY <2>1, <2>3, StoredRows DEF Alone
<1>8. CASE Deliver(r)
  <2>1. UNCHANGED <<store, clock>>
        /\ cookie' = [cookie EXCEPT ![req[r].browser] = req[r].minted]
    BY <1>8 DEF Deliver
  <2>2. Known' = Known /\ req[r].minted \in Known /\ req[r].minted \in Nat
    BY <1>1, <2>1 DEF Known, store, Path, Types, Requests, RequestState
  <2>3. cookie' \in [Browser -> Known'] /\ cookie' \in [Browser -> Nat]
    BY <1>1, <2>1, <2>2 DEF StoreInv, Types
  <2>4. StoreTypeOK' /\ Forward /\ clock' \in Nat
    BY <1>1, <2>1 DEF StoreTypeOK, store, Forward, Types
  <2>5. StoreInv'
    BY <1>1, <2>1, <2>3 DEF StoreInv, store
  <2>6. QED
    BY <2>1, <2>3, <2>4, <2>5 DEF Stored, Alone, store
<1>9. QED
  <2>1. \/ UNCHANGED <<store, clock, cookie>>
        \/ CreateUser(r) \/ Revoke(r) \/ Create(r) \/ Begin(r)
        \/ Accept(r) \/ Drop(r) \/ DecideFails(r) \/ Deliver(r)
    <3>1. CASE Arrive(r)
      BY <3>1 DEF Arrive, Login, Register, Logout, Me, OnlyReq, OnlyLimits
    <3>2. CASE AdmitAttempt(r) \/ RefuseAttempt(r) \/ Lookup(r) \/ LookupFails(r)
      BY <3>2 DEF AdmitAttempt, RefuseAttempt, Lookup, LookupFails, OnlyReq, OnlyLimits
    <3>3. CASE TakeSlot(r) \/ Queue(r) \/ Wait(r) \/ Leave(r) \/ Verify(r) \/ LeaveSlot(r)
      BY <3>3 DEF TakeSlot, Queue, Wait, Leave, Verify, LeaveSlot, OnlyLimits
    <3>4. CASE Fail(r) \/ Succeed(r)
      BY <3>4 DEF Fail, Succeed
    <3>5. CASE \/ CreateUserFails(r) \/ RevokeFails(r) \/ CreateFails(r) \/ BeginFails(r)
               \/ ShowUser(r) \/ ShowUserFails(r)
      BY <3>5 DEF CreateUserFails, RevokeFails, CreateFails, BeginFails, ShowUser,
                  ShowUserFails, OnlyReq, OnlyLimits
    <3>6. QED
      BY <3>1, <3>2, <3>3, <3>4, <3>5 DEF Step
  <2>2. QED
    BY <2>1, <1>2, <1>3, <1>4, <1>5, <1>6, <1>7, <1>8

-----------------------------------------------------------------------------
(* Counting the requests at a set of places.                               *)

Among(S) == {q \in Request : req[q].pc \in S}

LEMMA Counts ==
    ASSUME NEW S, NEW r \in Request, Only(r), IsFiniteSet(Among(S))
    PROVE  /\ IsFiniteSet(Among(S)')
           /\ Cardinality(Among(S)) \in Nat
           /\ Cardinality(Among(S)') =
                 Cardinality(Among(S)) + One(req'[r].pc, S) - One(req[r].pc, S)
<1>0. Cardinality(Among(S)) \in Nat
  BY FS_CardinalityType
<1>1. CASE req[r].pc \in S /\ req'[r].pc \in S
  <2>1. Among(S)' = Among(S)
    BY <1>1 DEF Among, Only
  <2>2. QED
    BY <1>0, <1>1, <2>1 DEF One
<1>2. CASE req[r].pc \notin S /\ req'[r].pc \notin S
  <2>1. Among(S)' = Among(S)
    BY <1>2 DEF Among, Only
  <2>2. QED
    BY <1>0, <1>2, <2>1 DEF One
<1>3. CASE req[r].pc \notin S /\ req'[r].pc \in S
  <2>1. Among(S)' = Among(S) \cup {r} /\ r \notin Among(S)
    BY <1>3 DEF Among, Only
  <2>2. IsFiniteSet(Among(S)') /\ Cardinality(Among(S)') = Cardinality(Among(S)) + 1
    BY <2>1, FS_AddElement
  <2>3. QED
    BY <1>0, <1>3, <2>2 DEF One
<1>4. CASE req[r].pc \in S /\ req'[r].pc \notin S
  <2>1. Among(S)' = Among(S) \ {r} /\ r \in Among(S)
    BY <1>4 DEF Among, Only
  <2>2. IsFiniteSet(Among(S)') /\ Cardinality(Among(S)') = Cardinality(Among(S)) - 1
    BY <2>1, FS_RemoveElement
  <2>3. QED
    BY <1>0, <1>4, <2>2 DEF One
<1>5. QED
  BY <1>1, <1>2, <1>3, <1>4

LEMMA Sets ==
    /\ Holding = Among(Holders) /\ Hashing = Among(Hashers) /\ InQueue = Among(Queuers)
BY DEF Holding, Hashing, InQueue, Among, Holders, Hashers, Queuers

LEMMA CountsFollow ==
    ASSUME IInv, NEW r \in Request, Own(r)
    PROVE  CountInv'
<1>1. /\ IsFiniteSet(Among(Holders)) /\ IsFiniteSet(Among(Hashers))
      /\ IsFiniteSet(Among(Queuers)) /\ Only(r)
  BY Sets DEF IInv, CountInv, Own
<1> DEFINE h == Cardinality(Among(Holders))
           a == Cardinality(Among(Hashers))
           w == Cardinality(Among(Queuers))
<1>2. /\ IsFiniteSet(Among(Holders)') /\ h \in Nat
      /\ h' = h + One(req'[r].pc, Holders) - One(req[r].pc, Holders)
  BY <1>1, Counts
<1>3. /\ IsFiniteSet(Among(Hashers)') /\ a \in Nat
      /\ a' = a + One(req'[r].pc, Hashers) - One(req[r].pc, Hashers)
  BY <1>1, Counts
<1>4. /\ IsFiniteSet(Among(Queuers)') /\ w \in Nat
      /\ w' = w + One(req'[r].pc, Queuers) - One(req[r].pc, Queuers)
  BY <1>1, Counts
<1>5. slots + h = MaxConcurrent /\ active = a /\ waiting = w /\ waiting <= MaxWaiting
  BY Sets DEF IInv, CountInv, HashingBounded
<1>6. /\ slots' + One(req'[r].pc, Holders) = slots + One(req[r].pc, Holders)
      /\ active' - One(req'[r].pc, Hashers) = active - One(req[r].pc, Hashers)
      /\ waiting' - One(req'[r].pc, Queuers) = waiting - One(req[r].pc, Queuers)
      /\ waiting' <= waiting \/ waiting' <= MaxWaiting
      /\ {slots, waiting, active, slots', waiting', active'} \subseteq Int
      /\ MaxWaiting \in Nat
  BY LimitsAssumption DEF Own, Follow, IInv, Types
<1>7. \A pc, S : One(pc, S) \in {0, 1}
  BY DEF One
<1> HIDE DEF h, a, w
<1>8. slots' + h' = MaxConcurrent
  BY ONLY <1>2, <1>5, <1>6, <1>7
<1>9. active' = a'
  BY ONLY <1>3, <1>5, <1>6, <1>7
<1>10. waiting' = w' /\ waiting' <= MaxWaiting
  BY ONLY <1>4, <1>5, <1>6, <1>7
<1>11. Holding' = Among(Holders)' /\ Hashing' = Among(Hashers)' /\ InQueue' = Among(Queuers)'
  BY DEF Holding, Hashing, InQueue, Among, Holders, Hashers, Queuers
<1>12. QED
  BY <1>2, <1>3, <1>4, <1>8, <1>9, <1>10, <1>11 DEF CountInv, HashingBounded, h, a, w

-----------------------------------------------------------------------------
(* The steps of nobody, and the invariance.                                *)

LEMMA InitIInv == Init => IInv
<1> SUFFICES ASSUME Init PROVE IInv
  OBVIOUS
<1>1. lastId \in Nat /\ minted \in Nat /\ minted \in Known /\ 0 \in Known
      /\ \A t \in Token : t = minted => t <= minted
  BY Sentinel, SessionsAssumption, FS_CardinalityType DEF Init, StoreInit, Known
<1>2. accounts \in [Account -> Nat] /\ \A a \in Account : accounts[a] <= lastId
  BY <1>1 DEF Init, StoreInit
<1>3. sessions \in [Token -> Row \cup {None}]
  <2>1. \A a \in Members : OpenRow(accounts[a], 0) \in Row
    BY <1>2, SessionsAssumption DEF OpenRow, Row
  <2>2. sessions \in [Token -> {None} \cup {OpenRow(u, 0) : u \in {accounts[a] : a \in Members}}]
    BY DEF Init, StoreInit
  <2>3. QED
    BY <2>1, <2>2
<1>4. req = [r \in Request |-> NewRequest] /\ NewRequest.pc = "new" /\ NewRequest.token = 0
      /\ NewRequest.minted = 0 /\ NewRequest.now = 0 /\ NewRequest.route = "none"
      /\ NewRequest.user = 0 /\ NewRequest.answer = 0 /\ NewRequest.revoked = FALSE
      /\ clock = 0
  BY DEF Init, NewRequest
<1>5. Types
  <2>1. Requests
    BY <1>4, NewType DEF Requests
  <2>2. StoreTypeOK
    BY <1>1, <1>2, <1>3 DEF StoreTypeOK, Init, StoreInit
  <2>3. cookie \in [Browser -> Nat] /\ clock \in Nat
    BY <1>1 DEF Init
  <2>4. {slots, waiting, active} \subseteq Int
    BY LimitsAssumption DEF Init, LimitsInit
  <2>5. QED
    BY <2>1, <2>2, <2>3, <2>4 DEF Types
<1>6. \A r \in Request : Path(r) /\ Locked(r) /\ Final(r)
  BY <1>1, <1>4 DEF Path, Locked, Final
<1>7. StoreInv
  BY <1>1, <1>2 DEF StoreInv, Init, StoreInit
<1>8. CountInv
  <2>1. Holding = {} /\ Hashing = {} /\ InQueue = {}
    BY <1>4 DEF Holding, Hashing, InQueue
  <2>2. slots = MaxConcurrent /\ waiting = 0 /\ active = 0
    BY DEF Init, LimitsInit
  <2>3. QED
    BY <2>1, <2>2, FS_EmptySet, LimitsAssumption DEF CountInv, HashingBounded
<1>9. QED
  BY <1>5, <1>6, <1>7, <1>8 DEF IInv

LEMMA TickStep ==
    ASSUME IInv, Tick
    PROVE  IInv'
<1>1. UNCHANGED <<limits, store, cookie, req>> /\ clock \in Nat /\ clock' = clock + 1
  BY DEF Tick, IInv, Types
<1>2. clock' \in Nat /\ clock <= clock' /\ \A n \in Nat : n <= clock => n <= clock'
  BY ONLY <1>1
<1>3. Types' /\ StoreInv' /\ Forward
  <2>1. Known' = Known
    BY <1>1 DEF Known, store
  <2>2. QED
    BY <1>1, <1>2, <2>1 DEF IInv, Types, StoreTypeOK, Requests, StoreInv, Forward, store, limits
<1>4. \A q \in Request : Path(q)' /\ Locked(q)' /\ Final(q)'
  BY <1>1, <1>3, OthersStay DEF IInv, store
<1>5. CountInv'
  BY <1>1 DEF IInv, CountInv, HashingBounded, Holding, Hashing, InQueue, limits
<1>6. QED
  BY <1>3, <1>4, <1>5 DEF IInv

LEMMA RemoveUserStep ==
    ASSUME IInv, RemoveUser
    PROVE  IInv'
<1>1. PICK a \in Account, cascades \in BOOLEAN : DeleteUser(a, cascades)
  BY DEF RemoveUser
<1>2. UNCHANGED <<limits, clock, cookie, req, lastId, minted, writer>> /\ writer = None
  BY <1>1 DEF RemoveUser, DeleteUser
<1>3. Types /\ StoreTypeOK /\ StoreInv
  BY DEF IInv, Types
<1>4. /\ accounts' = [accounts EXCEPT ![a] = 0] /\ accounts' \in [Account -> Nat]
      /\ sessions' \in [Token -> Row \cup {None}]
      /\ \A t \in Token : sessions[t] = None => sessions'[t] = None
  BY <1>1, <1>3 DEF DeleteUser, StoreTypeOK
<1>5. Types' /\ Forward
  BY <1>2, <1>3, <1>4 DEF Types, StoreTypeOK, Requests, Forward, limits
<1>6. StoreInv'
  <2>1. Known' = Known /\ lastId \in Nat
    BY <1>2, <1>3 DEF Known, StoreTypeOK
  <2>2. \A x \in Account : accounts'[x] \in {0, accounts[x]}
    BY <1>3, <1>4 DEF StoreTypeOK
  <2>3. QED
    BY <1>2, <1>3, <1>4, <2>1, <2>2 DEF StoreInv
<1>7. \A q \in Request : req[q].pc # "decide"
  BY <1>2, Sentinel DEF IInv, Locked
<1>8. \A q \in Request : Path(q)' /\ Locked(q)' /\ Final(q)'
  BY <1>2, <1>3, <1>5, <1>7, OthersStay DEF IInv
<1>9. CountInv'
  BY <1>2 DEF IInv, CountInv, HashingBounded, Holding, Hashing, InQueue, limits
<1>10. QED
  BY <1>5, <1>6, <1>8, <1>9 DEF IInv

LEMMA RestartStep ==
    ASSUME IInv, Restart
    PROVE  IInv'
<1>1. Types /\ StoreTypeOK /\ StoreInv /\ UNCHANGED <<clock, cookie>>
      /\ \A q \in Request : req[q] \in RequestState
  BY DEF Restart, IInv, Types, Requests
<1>2. \A q \in Request :
         req'[q] = IF req[q].pc \in {"new", "done"} THEN req[q] ELSE Ended(req[q], "lost")
  BY DEF Restart
<1>3. "lost" \in PC
  BY DEF PC
<1>4. Stored /\ UNCHANGED minted
  <2>1. UNCHANGED <<accounts, lastId, minted>> /\ writer' = None
    BY DEF Restart, CleanUp, RollBack
  <2>2. /\ sessions' \in [Token -> Row \cup {None}]
        /\ \A t \in Token : sessions[t] = None => sessions'[t] = None
    BY <1>1 DEF Restart, CleanUp, RollBack, StoreTypeOK, Dead
  <2>3. QED
    BY <1>1, <2>1, <2>2, StoredRows
<1>5. Types'
  <2>1. \A q \in Request : req'[q] \in RequestState
    BY <1>1, <1>2, <1>3, EndedType
  <2>2. req' = [q \in Request |-> req'[q]]
    BY DEF Restart
  <2>3. Requests'
    BY <2>1, <2>2 DEF Requests
  <2>4. QED
    BY <1>4, <2>3, LimitsAssumption DEF Types, Stored, Restart, LimitsReset
<1>6. ASSUME NEW q \in Request
      PROVE  Path(q)' /\ Locked(q)' /\ Final(q)'
  <2>1. CASE req[q].pc \in {"new", "done"}
    <3>1. req'[q] = req[q] /\ Path(q) /\ Locked(q) /\ Final(q) /\ req[q].pc # "decide"
      BY <1>2, <2>1 DEF IInv
    <3>2. QED
      BY <1>1, <1>4, <1>5, <3>1, OthersStay DEF Stored
  <2>2. CASE req[q].pc \notin {"new", "done"}
    <3>1. /\ req'[q].pc = "lost" /\ req'[q].route = req[q].route /\ req'[q].minted = 0
          /\ req'[q].answer = req[q].answer
          /\ req'[q].token \in {0, req[q].token} /\ req'[q].now \in {0, req[q].now}
      BY <1>1, <1>2, <1>3, <2>2, EndedType
    <3>2. Path(q) /\ Final(q) /\ Known' = Known /\ 0 \in Known /\ clock' = clock /\ clock \in Nat
      BY <1>1, <1>4 DEF IInv, Known, Types
    <3>3. Path(q)' /\ Locked(q)'
      BY <3>1, <3>2 DEF Path, Locked
    <3>4. Final(q)'
      BY <1>4, <3>1, <3>2 DEF Final, Path, Known, Stored, Forward
    <3>5. QED
      BY <3>3, <3>4
  <2>3. QED
    BY <2>1, <2>2
<1>7. CountInv'
  <2>1. \A q \in Request : req'[q].pc \in {"new", "done", "lost"}
    BY <1>1, <1>2, <1>3, EndedType
  <2>2. Holding' = {} /\ Hashing' = {} /\ InQueue' = {}
    BY <2>1 DEF Holding, Hashing, InQueue
  <2>3. slots' = MaxConcurrent /\ waiting' = 0 /\ active' = 0
    BY DEF Restart, LimitsReset
  <2>4. QED
    BY <2>2, <2>3, FS_EmptySet, LimitsAssumption DEF CountInv, HashingBounded
<1>8. QED
  BY <1>4, <1>5, <1>6, <1>7 DEF IInv, Stored

LEMMA NextIInv ==
    ASSUME IInv, [Next]_vars
    PROVE  IInv'
<1>1. ASSUME NEW r \in Request, Arrive(r) \/ Step(r)
      PROVE  IInv'
  <2>1. Own(r) /\ Stored /\ Alone(r)
    BY <1>1, OwnStep, StoredStep
  <2>2. Types'
    BY <2>1 DEF Types, Own, Stored
  <2>3. ASSUME NEW q \in Request, q # r
        PROVE  Path(q)' /\ Locked(q)' /\ Final(q)'
    <3>1. req'[q] = req[q] /\ Path(q) /\ Locked(q) /\ Final(q)
      BY <2>1, <2>3 DEF Own, Only, IInv
    <3>2. req[q].pc = "decide" => UNCHANGED <<accounts, sessions, writer>>
      BY <2>1, <2>3, <3>1, Sentinel DEF Locked, Alone
    <3>3. QED
      BY <2>1, <2>2, <3>1, <3>2, OthersStay DEF IInv, Stored
  <2>4. Path(r)' /\ Locked(r)' /\ Final(r)'
    BY <2>1 DEF Own
  <2>5. CountInv'
    BY <2>1, CountsFollow
  <2>6. QED
    BY <2>1, <2>2, <2>3, <2>4, <2>5 DEF IInv, Stored
<1>2. CASE UNCHANGED vars
  <2>1. UNCHANGED <<limits, store, clock, cookie, req>>
    BY <1>2 DEF vars
  <2>2. Types' /\ StoreInv' /\ Forward
    BY <2>1 DEF IInv, Types, StoreTypeOK, Requests, StoreInv, Known, Forward, store, limits
  <2>3. \A q \in Request : Path(q)' /\ Locked(q)' /\ Final(q)'
    BY <2>1, <2>2, OthersStay DEF IInv, store
  <2>4. CountInv'
    BY <2>1 DEF IInv, CountInv, HashingBounded, Holding, Hashing, InQueue, limits
  <2>5. QED
    BY <2>2, <2>3, <2>4 DEF IInv
<1>3. QED
  BY <1>1, <1>2, TickStep, RemoveUserStep, RestartStep DEF Next

\* The slots, the queue, the sessions and every request stay in step, for any
\* requests, limits, accounts, tokens, times and number of restarts.
THEOREM Invariance == Spec => []IInv
<1>1. Init => IInv
  BY InitIInv
<1>2. IInv /\ [Next]_vars => IInv'
  BY NextIInv
<1>3. QED
  BY <1>1, <1>2, PTL DEF Spec

\* Slots are never lost nor given out twice, however requests time out, fail or
\* are refused, and no more than MaxWaiting ever wait.
THEOREM HashingAlwaysBounded == Spec => []HashingBounded
<1>1. IInv => HashingBounded
  BY DEF IInv, CountInv
<1>2. QED
  BY <1>1, Invariance, PTL

\* A logout answered with a 200 is final: no validation under way, restart or
\* later login brings its session back.
THEOREM LogoutsAreFinal == Spec => []LogoutIsFinal
<1>1. IInv => LogoutIsFinal
  BY DEF IInv, Final, LogoutIsFinal
<1>2. QED
  BY <1>1, Invariance, PTL

-----------------------------------------------------------------------------
(* The implementation of SessionLedger.                                    *)

Users == {accounts[a] : a \in Account} \ {0}

Live == [t \in Token |-> IF sessions[t] = None THEN None
            ELSE [user |-> sessions[t].user, opened |-> sessions[t].created,
                  used |-> sessions[t].seen]]

Gone == {t \in Token : t <= minted /\ sessions[t] = None}

Made == [r \in Request |-> IF req[r].route = "me" THEN req[r].now ELSE None]

AdmittedAs == [r \in Request |->
                  IF req[r].route = "me" /\ req[r].user # 0 THEN req[r].user ELSE None]

Revoked == [r \in Request |-> IF req[r].revoked THEN req[r].token ELSE None]

LedgerStep == [Ledger!Next]_<<clock, Users, Live, Gone, Made, AdmittedAs, Revoked>>

\* What the ledger sees of a request stays.
SameView(r) ==
    /\ req'[r].route = "me" <=> req[r].route = "me"
    /\ req[r].route = "me" => Keeps(r, {"now", "user"})
    /\ Keeps(r, {"revoked"})
    /\ req[r].revoked => Keeps(r, {"token"})

LEMMA ViewsStay ==
    ASSUME \A r \in Request : SameView(r)
    PROVE  UNCHANGED <<Made, AdmittedAs, Revoked>>
BY DEF SameView, Keeps, Made, AdmittedAs, Revoked

LEMMA OneView ==
    ASSUME NEW r \in Request, Only(r), SameView(r)
    PROVE  UNCHANGED <<Made, AdmittedAs, Revoked>>
<1>1. \A q \in Request : SameView(q)
  BY DEF Only, SameView, Keeps
<1>2. QED
  BY <1>1, ViewsStay

LEMMA RowsStay ==
    ASSUME UNCHANGED <<accounts, sessions, minted>>
    PROVE  UNCHANGED <<Users, Live, Gone>>
BY DEF Users, Live, Gone

LEMMA QuietLedger ==
    ASSUME NEW r \in Request, Only(r), SameView(r), UNCHANGED <<accounts, sessions, minted, clock>>
    PROVE  LedgerStep
BY OneView, RowsStay DEF LedgerStep

LEMMA InitLedger == Init => Ledger!Init
<1> SUFFICES ASSUME Init PROVE Ledger!Init
  OBVIOUS
<1>1. IInv
  BY InitIInv
<1>2. \A t \in Token : Live[t] \in Ledger!Session \cup {None}
  BY <1>1 DEF IInv, Types, StoreTypeOK, Live, Ledger!Session, Row
<1>3. Live \in [Token -> Ledger!Session \cup {None}]
  BY <1>2 DEF Live
<1>4. Gone \subseteq {t \in Token : Live[t] = None}
  BY DEF Gone, Live
<1>5. Users \in SUBSET Nat
  BY <1>1 DEF IInv, Types, StoreTypeOK, Users
<1>6. /\ Made = [r \in Request |-> None] /\ AdmittedAs = [r \in Request |-> None]
      /\ Revoked = [r \in Request |-> None]
  BY DEF Init, NewRequest, Made, AdmittedAs, Revoked
<1>7. clock \in Nat
  BY DEF Init
<1>8. QED
  BY <1>3, <1>4, <1>5, <1>6, <1>7
     DEF Ledger!Init, Users, Live, Gone, Made, AdmittedAs, Revoked

LEMMA ViewReply ==
    ASSUME Requests, NEW r \in Request, NEW code \in Answer, Reply(r, code)
    PROVE  SameView(r) /\ Only(r)
<1>1. /\ Only(r) /\ Keeps(r, {"route", "revoked"})
      /\ req[r].revoked => Keeps(r, {"token"})
      /\ req[r].route = "me" => Keeps(r, {"now", "user"})
  BY ReplyState
<1>2. QED
  BY <1>1 DEF SameView, Keeps

LEMMA ViewGoto ==
    ASSUME Requests, clock \in Nat, NEW r \in Request, NEW pc \in PC,
           Goto(r, pc) \/ GotoNow(r, pc), req[r].route # "me"
    PROVE  SameView(r) /\ Only(r)
<1>1. Only(r) /\ Keeps(r, Rest \cup {"answer"})
  BY GotoState
<1>2. QED
  BY <1>1 DEF SameView, Keeps, Rest

\* Steps that change no row, no account and nothing the ledger sees.
LEMMA IdleLedger ==
    ASSUME IInv, NEW r \in Request,
           \/ \E b \in Browser, e \in Email, g \in BOOLEAN : Login(r, b, e, g)
           \/ \E a \in Account : Register(r, a)
           \/ \E b \in Browser : Logout(r, b)
           \/ AdmitAttempt(r) \/ RefuseAttempt(r) \/ Lookup(r) \/ LookupFails(r)
           \/ TakeSlot(r) \/ Queue(r) \/ Wait(r) \/ Leave(r) \/ Verify(r)
           \/ CreateUserFails(r) \/ LeaveSlot(r) \/ Fail(r) \/ Succeed(r)
           \/ RevokeFails(r) \/ CreateFails(r) \/ Deliver(r) \/ Begin(r) \/ BeginFails(r)
           \/ DecideFails(r) \/ ShowUser(r) \/ ShowUserFails(r)
    PROVE  LedgerStep
<1>1. Types /\ Requests /\ clock \in Nat /\ Path(r)
  BY DEF IInv, Types
<1>2. CASE \/ \E b \in Browser, e \in Email, g \in BOOLEAN : Login(r, b, e, g)
           \/ \E a \in Account : Register(r, a)
           \/ \E b \in Browser : Logout(r, b)
  <2>1. UNCHANGED <<store, clock>> /\ req[r].route = "none" /\ req[r].revoked = FALSE
    BY <1>1, <1>2 DEF Login, Register, Logout, OnlyReq, OnlyLimits, At, Path, Requests,
                      RequestState
  <2>2. Only(r) /\ req'[r].route # "me" /\ Keeps(r, {"revoked"})
    <3>1. ASSUME NEW b \in Browser, NEW e \in Email, NEW g \in BOOLEAN, Login(r, b, e, g)
          PROVE  Only(r) /\ req'[r].route # "me" /\ Keeps(r, {"revoked"})
      BY <1>1, <3>1, LoginState DEF Keeps
    <3>2. ASSUME NEW a \in Account, Register(r, a)
          PROVE  Only(r) /\ req'[r].route # "me" /\ Keeps(r, {"revoked"})
      BY <1>1, <3>2, RegisterState DEF Keeps
    <3>3. ASSUME NEW b \in Browser, Logout(r, b)
          PROVE  Only(r) /\ req'[r].route # "me" /\ Keeps(r, {"revoked"})
      BY <1>1, <3>3, LogoutState DEF Keeps
    <3>4. QED
      BY <1>2, <3>1, <3>2, <3>3
  <2>3. SameView(r)
    BY <2>1, <2>2 DEF SameView
  <2>4. QED
    BY <2>1, <2>2, <2>3, QuietLedger DEF store
<1>3. CASE \/ RefuseAttempt(r) \/ LookupFails(r) \/ LeaveSlot(r) \/ CreateFails(r)
           \/ Deliver(r) \/ BeginFails(r) \/ DecideFails(r) \/ ShowUser(r) \/ ShowUserFails(r)
  <2>1. PICK code \in Answer : Reply(r, code)
    <3>1. req[r].answer \in Answer
      BY <1>1 DEF Requests, RequestState
    <3>2. QED
      BY <1>3, <3>1 DEF RefuseAttempt, LookupFails, LeaveSlot, CreateFails, Deliver,
                        BeginFails, DecideFails, ShowUser, ShowUserFails, Answer
  <2>2. UNCHANGED <<accounts, sessions, minted, clock>>
    BY <1>3 DEF RefuseAttempt, LookupFails, LeaveSlot, CreateFails, Deliver, BeginFails,
                DecideFails, ShowUser, ShowUserFails, RollBack, OnlyReq, OnlyLimits, OnlyStore,
                store
  <2>3. QED
    BY <1>1, <2>1, <2>2, ViewReply, QuietLedger
<1>4. CASE \/ AdmitAttempt(r) \/ TakeSlot(r) \/ Queue(r) \/ Wait(r) \/ Leave(r) \/ Verify(r)
           \/ Succeed(r) \/ RevokeFails(r)
  <2>1. UNCHANGED <<accounts, sessions, minted, clock>>
    BY <1>4 DEF AdmitAttempt, TakeSlot, Queue, Wait, Leave, Verify, Succeed, RevokeFails,
                OnlyLimits, OnlyReq, store
  <2>2. req[r].route # "me"
    BY <1>1, <1>4 DEF AdmitAttempt, TakeSlot, Queue, Wait, Leave, Verify, Succeed,
                      RevokeFails, At, Path
  <2>3. \/ \E pc \in PC : Goto(r, pc) \/ GotoNow(r, pc)
        \/ \E code \in Answer : Reply(r, code)
        \/ Send(r, 503)
    BY <1>4 DEF AdmitAttempt, TakeSlot, Queue, Wait, Leave, Verify, Succeed,
                RevokeFails, PC, Answer
  <2>4. SameView(r) /\ Only(r)
    <3>1. CASE Send(r, 503)
      <4>1. PICK code \in Answer, pc \in PC :
               req' = [req EXCEPT ![r].pc = pc, ![r].answer = code]
        BY <3>1 DEF Send, Answer, PC
      <4>2. Only(r) /\ Keeps(r, Rest \cup {"now"})
        BY ONLY <1>1, <4>1, SendState
      <4>3. QED
        BY <2>2, <4>2 DEF SameView, Keeps, Rest
    <3>2. QED
      BY <1>1, <2>2, <2>3, <3>1, ViewReply, ViewGoto
  <2>5. QED
    BY <2>1, <2>4, QuietLedger
<1>5. CASE Lookup(r)
  <2>1. Only(r) /\ Keeps(r, (Rest \ {"user"}) \cup {"now", "answer"})
    BY <1>1, <1>5, LookupState
  <2>2. UNCHANGED <<accounts, sessions, minted, clock>> /\ req[r].route = "login"
    BY <1>1, <1>5 DEF Lookup, OnlyReq, OnlyLimits, store, At, Path
  <2>3. SameView(r)
    BY <2>1, <2>2 DEF SameView, Keeps, Rest
  <2>4. QED
    BY <2>1, <2>2, <2>3, QuietLedger
<1>6. CASE CreateUserFails(r)
  <2>1. PICK code \in Answer, pc \in PC :
           req' = [req EXCEPT ![r].pc = pc, ![r].answer = code]
    BY <1>6 DEF CreateUserFails, Answer, PC
  <2>2. Only(r) /\ Keeps(r, Rest \cup {"now"})
    BY ONLY <1>1, <2>1, SendState
  <2>3. SameView(r)
    BY <2>2 DEF SameView, Keeps, Rest
  <2>4. UNCHANGED <<accounts, sessions, minted, clock>>
    BY <1>6 DEF CreateUserFails, OnlyReq, OnlyLimits, store
  <2>5. QED
    BY <2>2, <2>3, <2>4, QuietLedger
<1>7. CASE Fail(r)
  <2>1. UNCHANGED <<accounts, sessions, minted, clock>> /\ req[r].route = "login"
        /\ req[r].revoked = FALSE
    BY <1>1, <1>7 DEF Fail, store, At, Path, Requests, RequestState
  <2>2. Only(r) /\ req'[r].route = "login" /\ req'[r].revoked = req[r].revoked
    BY <1>1, <1>7, <2>1, FailState
  <2>3. SameView(r)
    BY <2>1, <2>2 DEF SameView, Keeps
  <2>4. QED
    BY <2>1, <2>2, <2>3, QuietLedger
<1>8. CASE Begin(r)
  <2>1. UNCHANGED <<accounts, sessions, minted, clock>> /\ req[r].token \in Token
    BY <1>1, <1>8 DEF Begin, BeginImmediate, OnlyStore, At, Path, Known
  <2>2. Only(r) /\ Keeps(r, (Rest \ {"row"}) \cup {"now", "answer"})
    BY <1>1, <1>8, <2>1, BeginState
  <2>3. SameView(r)
    BY <2>2 DEF SameView, Keeps, Rest
  <2>4. QED
    BY <2>1, <2>2, <2>3, QuietLedger
<1>9. QED
  BY <1>2, <1>3, <1>4, <1>5, <1>6, <1>7, <1>8

\* A call arrives: the ledger takes down when.
LEMMA MeLedger ==
    ASSUME IInv, NEW r \in Request, NEW b \in Browser, Me(r, b)
    PROVE  LedgerStep
<1>1. Types /\ Path(r) /\ req[r].pc = "new" /\ UNCHANGED <<store, clock>> /\ Requests
  BY DEF IInv, Types, Me, At, OnlyReq, OnlyLimits
<1>2. Only(r) /\ req'[r].route = "me" /\ req'[r].now = clock
      /\ Keeps(r, {"user", "row", "failed", "minted", "revoked"})
  BY <1>1, MeState
<1>3. /\ req'[r].user = 0 /\ req[r].route = "none" /\ req'[r].revoked = req[r].revoked
      /\ req[r].revoked = FALSE
  BY <1>1, <1>2 DEF Keeps, Path, Requests, RequestState
<1>4. Made' = [Made EXCEPT ![r] = clock] /\ Made[r] = None
  BY <1>2, <1>3 DEF Made, Only
<1>5. UNCHANGED <<AdmittedAs, Revoked>>
  BY <1>2, <1>3 DEF AdmittedAs, Revoked, Only
<1>6. UNCHANGED <<Users, Live, Gone>>
  BY <1>1, RowsStay DEF store
<1>7. Ledger!Make(r)
  BY <1>1, <1>4, <1>5, <1>6 DEF Ledger!Make, Made, AdmittedAs, Revoked, Users, Live, Gone
<1>8. QED
  BY <1>7 DEF LedgerStep, Ledger!Next

\* The ledger's steps on a token.
LEMMA CallStep ==
    ASSUME NEW r \in Request, NEW t \in Token,
           Ledger!Admit(r, t) \/ Ledger!Revoke(r, t) \/ Ledger!Issue(t)
    PROVE  Ledger!Next
BY DEF Ledger!Next

\* The rows that go, go to the ledger's ended tokens.
LEMMA RowsEnd ==
    ASSUME IInv, NEW T \in SUBSET Token, minted' = minted,
           \A t \in T : sessions[t] # None \/ t <= minted,
           sessions' = [t \in Token |-> IF t \in T THEN None ELSE sessions[t]]
    PROVE  Ledger!Ends(T)
<1>1. \A t \in T : t <= minted
  BY DEF IInv, StoreInv
<1>2. Live' = [t \in Token |-> IF t \in T THEN None ELSE Live[t]]
  BY DEF Live
<1>3. Gone' = Gone \cup T
  BY <1>1 DEF Gone
<1>4. QED
  BY <1>2, <1>3 DEF Ledger!Ends, Live, Gone

LEMMA RevokeLedger ==
    ASSUME IInv, NEW r \in Request, Revoke(r)
    PROVE  LedgerStep
<1>1. Types /\ Path(r) /\ req[r].pc = "revoke" /\ Requests /\ minted' = minted
      /\ UNCHANGED <<accounts, clock>>
      /\ sessions' = [sessions EXCEPT ![req[r].token] = None]
  BY DEF IInv, Types, Revoke, RevokeSession, At, OnlyStore
<1>2. /\ req[r].token \in Token /\ req[r].token <= minted
      /\ req[r].route \in {"login", "logout"} /\ ~req[r].revoked
  BY <1>1 DEF Path, Known
<1>0. PICK tok \in Token : tok = req[r].token
  BY <1>2
<1>3. Only(r) /\ req'[r].revoked = TRUE /\ Keeps(r, Rest \ {"revoked"})
  BY <1>1, RevokeState
<1>4. req'[r].route = req[r].route /\ req'[r].token = tok
  BY <1>0, <1>3 DEF Keeps, Rest
<1>5. Revoked' = [Revoked EXCEPT ![r] = tok] /\ Revoked[r] = None
  BY <1>0, <1>2, <1>3, <1>4 DEF Revoked, Only
<1>6. UNCHANGED <<Made, AdmittedAs>>
  BY <1>2, <1>3, <1>4 DEF Made, AdmittedAs, Only
<1>7. Ledger!Ends({tok})
  <2>1. sessions' = [t \in Token |-> IF t \in {tok} THEN None ELSE sessions[t]]
    BY <1>0, <1>1 DEF Types, StoreTypeOK
  <2>2. \A t \in {tok} : t <= minted
    BY <1>0, <1>2
  <2>3. QED
    BY <1>1, <2>1, <2>2, RowsEnd
<1>8. Users' = Users
  BY <1>1 DEF Users
<1>9. Ledger!Revoke(r, tok)
  BY <1>1, <1>5, <1>6, <1>7, <1>8
     DEF Ledger!Revoke, Made, AdmittedAs, Revoked, Users
<1>10. Ledger!Next
  BY ONLY <1>0, <1>9, CallStep
<1>11. QED
  BY ONLY <1>10 DEF LedgerStep

LEMMA CreateLedger ==
    ASSUME IInv, NEW r \in Request, Create(r)
    PROVE  LedgerStep
<1>0. PICK tok \in Token : tok = minted + 1
  BY DEF Create, CreateSession
<1> DEFINE u   == req[r].user
           now == req[r].now
<1>1. Types /\ Path(r) /\ Requests /\ minted \in Nat /\ tok \in Token /\ minted' = tok
      /\ UNCHANGED <<accounts, clock>> /\ HasAccount(u) /\ req[r].route = "login"
      /\ sessions' = [sessions EXCEPT ![tok] = OpenRow(u, now)]
  BY <1>0 DEF IInv, Types, StoreTypeOK, Create, CreateSession, At, OnlyStore, Path
<1>2. Token \subseteq Nat
  BY Sentinel
<1>3. /\ ~(tok <= minted) /\ tok <= minted'
      /\ \A t \in Token : t # tok => (t <= minted' <=> t <= minted)
  <2>1. minted \in Nat /\ minted' = minted + 1 /\ tok = minted + 1
    BY <1>0, <1>1
  <2>2. QED
    BY ONLY <1>2, <2>1
<1>4. UNCHANGED <<Made, AdmittedAs, Revoked>>
  <2>1. Only(r) /\ Keeps(r, (Rest \ {"minted"}) \cup {"now"})
    BY <1>1, CreateState
  <2>2. SameView(r)
    BY <2>1 DEF SameView, Keeps, Rest
  <2>3. QED
    BY <2>1, <2>2, OneView
<1>5. u \in Users /\ Users' = Users
  BY <1>1 DEF HasAccount, Users
<1>6. now \in 0 .. clock
  BY <1>1 DEF Path, Types, Requests, RequestState
<1>7. OpenRow(u, now) # None
  <2>1. u \in Nat /\ now \in Nat
    BY <1>1 DEF Types, Requests, RequestState
  <2>2. QED
    BY <2>1, Sentinel DEF OpenRow, Row
<1>8. sessions[tok] = None
  BY <1>1, <1>3 DEF IInv, StoreInv
<1>9. /\ Live[tok] = None /\ tok \notin Gone
      /\ Live' = [Live EXCEPT ![tok] = [user |-> u, opened |-> now, used |-> now]]
      /\ Gone' = Gone
  <2>1. sessions \in [Token -> Row \cup {None}]
    BY <1>1 DEF Types, StoreTypeOK
  <2>2. \A t \in Token : sessions'[t] = IF t = tok THEN OpenRow(u, now) ELSE sessions[t]
    BY <1>1, <2>1
  <2>3. Live[tok] = None /\ tok \notin Gone
    BY <1>1, <1>3, <1>8 DEF Live, Gone
  <2>4. Gone' = Gone
    BY <1>3, <1>7, <1>8, <2>2 DEF Gone
  <2>5. Live'[tok] = [user |-> u, opened |-> now, used |-> now]
    BY <1>1, <1>7, <2>2 DEF Live, OpenRow
  <2>6. \A t \in Token : t # tok => Live'[t] = Live[t]
    BY <2>2 DEF Live
  <2>7. Live' = [Live EXCEPT ![tok] = [user |-> u, opened |-> now, used |-> now]]
    <3>1. Live = [t \in Token |-> Live[t]] /\ Live' = [t \in Token |-> Live'[t]]
      BY DEF Live
    <3>2. tok \in Token
      BY <1>1
    <3>3. QED
      BY ONLY <2>5, <2>6, <3>1, <3>2
  <2>8. QED
    BY <2>3, <2>4, <2>7
<1> HIDE DEF u, now
<1>10. Ledger!Issue(tok)
  BY <1>1, <1>4, <1>5, <1>6, <1>9
     DEF Ledger!Issue, Made, AdmittedAs, Revoked, Users, Live, Gone
<1>11. Ledger!Next
  BY ONLY <1>10, CallStep
<1>12. QED
  BY ONLY <1>11 DEF LedgerStep

\* The other steps of the ledger, in terms of the views.
LEMMA UsersLedger ==
    ASSUME NEW U, NEW T \in SUBSET Token, U \subseteq Users \cup Users',
           \A t \in Token : t \in T <=> Live[t] # None /\ Live[t].user \in U \ Users',
           Ledger!Ends(T), UNCHANGED <<clock, Made, AdmittedAs, Revoked>>
    PROVE  LedgerStep
<1>1. {t \in Token : Live[t] # None /\ Live[t].user \in U \ Users'} = T
  OBVIOUS
<1>2. U \in SUBSET (Users \cup Users')
  OBVIOUS
<1>3. /\ Live' = [t \in Token |-> IF t \in T THEN None ELSE Live[t]]
      /\ Gone' = Gone \cup T
  BY DEF Ledger!Ends, Live, Gone
<1>4. Ledger!Ends({t \in Token : Live[t] # None /\ Live[t].user \in U \ Users'})
  BY <1>1, <1>3 DEF Ledger!Ends, Live, Gone
<1>5. Ledger!ChangeUsers
  BY <1>2, <1>4 DEF Ledger!ChangeUsers, Ledger!Ends, Users, Live, Gone, Made, AdmittedAs, Revoked
<1>6. QED
  BY <1>5 DEF LedgerStep, Ledger!Next

LEMMA ExpireLedger ==
    ASSUME NEW T \in SUBSET Token, \A t \in T : Live[t] # None /\ Ledger!Over(t, clock),
           Ledger!Ends(T), UNCHANGED <<clock, Users, Made, AdmittedAs, Revoked>>
    PROVE  LedgerStep
<1>1. Ledger!Expire(T)
  BY DEF Ledger!Expire, Users, Live, Gone, Made, AdmittedAs, Revoked
<1>2. QED
  BY <1>1 DEF LedgerStep, Ledger!Next

LEMMA LiveRows ==
    ASSUME Types, NEW t \in Token
    PROVE  /\ sessions[t] # None => /\ Live[t] # None /\ sessions[t] \in Row
                                    /\ Live[t].user = sessions[t].user
                                    /\ Live[t].opened = sessions[t].created
                                    /\ Live[t].used = sessions[t].seen
           /\ sessions[t] = None => Live[t] = None
<1>1. ASSUME sessions[t] # None
      PROVE  [user |-> sessions[t].user, opened |-> sessions[t].created,
              used |-> sessions[t].seen] # None /\ sessions[t] \in Row
  BY <1>1, SessionsAssumption DEF Types, StoreTypeOK, Row
<1>2. QED
  BY <1>1 DEF Live

LEMMA CreateUserLedger ==
    ASSUME IInv, NEW r \in Request, CreateUser(r)
    PROVE  LedgerStep
<1>1. Types /\ Requests
  BY DEF IInv, Types
<1>2. PICK code \in Answer, pc \in PC :
         req' = [req EXCEPT ![r].pc = pc, ![r].answer = code]
  <2>1. 201 \in Answer /\ 409 \in Answer /\ "release" \in PC
    BY DEF Answer, PC
  <2>2. \/ req' = [req EXCEPT ![r].pc = "release", ![r].answer = 201]
        \/ req' = [req EXCEPT ![r].pc = "release", ![r].answer = 409]
    BY DEF CreateUser
  <2>3. QED
    BY <2>1, <2>2
<1>3. Only(r) /\ Keeps(r, Rest \cup {"now"})
  BY ONLY <1>1, <1>2, SendState
<1>4. SameView(r)
  BY <1>3 DEF SameView, Keeps, Rest
<1>5. CASE DuplicateEmail(req[r].email)
  <2>1. UNCHANGED <<accounts, sessions, minted, clock>>
    BY <1>5 DEF CreateUser, DuplicateEmail, OnlyStore, store
  <2>2. QED
    BY <1>3, <1>4, <2>1, QuietLedger
<1>6. CASE InsertUser(req[r].email)
  <2>1. UNCHANGED <<sessions, minted, clock>>
    BY <1>6 DEF CreateUser, InsertUser, OnlyStore
  <2>2. sessions' = [t \in Token |-> IF t \in {} THEN None ELSE sessions[t]]
    BY <1>1, <2>1 DEF Types, StoreTypeOK
  <2>3. Ledger!Ends({})
    BY <2>1, <2>2, RowsEnd
  <2>4. UNCHANGED <<Made, AdmittedAs, Revoked>>
    BY <1>3, <1>4, OneView
  <2>5. QED
    BY <2>1, <2>3, <2>4, UsersLedger
<1>7. QED
  BY <1>5, <1>6 DEF CreateUser

\* The accepted row is the one there is, so its holder is let in while live.
LEMMA AcceptLedger ==
    ASSUME IInv, NEW r \in Request, Accept(r)
    PROVE  LedgerStep
<1>1. Types /\ Requests /\ Path(r) /\ Locked(r) /\ req[r].pc = "decide"
      /\ UNCHANGED <<accounts, minted, clock>>
  BY DEF IInv, Types, Accept, AcceptSession, OnlyStore, At
<1>2. PICK tok \in Token : tok = req[r].token
  BY <1>1 DEF Path, Known
<1> DEFINE row == req[r].row
           now == req[r].now
<1>3. /\ row # None /\ ~Expired(row, now) /\ row = sessions[tok] /\ HasAccount(row.user)
      /\ sessions' = [sessions EXCEPT ![tok] = Seen(row, now)]
  BY <1>1, <1>2 DEF Accept, AcceptSession, Locked, Joined
<1>4. row \in Row /\ now \in Nat /\ row.user # 0 /\ row.user \in Users
  BY <1>1, <1>3, LiveRows DEF HasAccount, Users, Requests, RequestState
<1>5. req[r].route = "me" /\ req[r].user = 0
  BY <1>1 DEF Path
<1>6. Only(r) /\ req'[r].user = row.user /\ Keeps(r, {"route", "now", "revoked", "token"})
  BY <1>1, AcceptState DEF Keeps, Rest
<1>7. Made[r] = now /\ AdmittedAs[r] = None /\ UNCHANGED <<Made, Revoked, Users>>
      /\ AdmittedAs' = [AdmittedAs EXCEPT ![r] = row.user]
  BY <1>1, <1>4, <1>5, <1>6 DEF Made, AdmittedAs, Revoked, Users, Only, Keeps
<1>8. Seen(row, now) \in Row /\ Seen(row, now) # None
      /\ Seen(row, now).user = row.user /\ Seen(row, now).created = row.created
      /\ Seen(row, now).seen = IF now > row.seen THEN now ELSE row.seen
  BY <1>4, Sentinel DEF Seen, Row
<1>9. Gone' = Gone
  <2>1. \A t \in Token : sessions'[t] = None <=> sessions[t] = None
    BY <1>1, <1>3, <1>8 DEF Types, StoreTypeOK
  <2>2. QED
    BY <1>1, <2>1 DEF Gone
<1>10. /\ Live[tok] = [user |-> row.user, opened |-> row.created, used |-> row.seen]
       /\ Live[tok] # None
  BY <1>1, <1>3, LiveRows DEF Live
<1>11. Live' = [Live EXCEPT ![tok] = [user |-> row.user, opened |-> row.created,
                                      used |-> IF now > row.seen THEN now ELSE row.seen]]
  <2>1. \A t \in Token : sessions'[t] = IF t = tok THEN Seen(row, now) ELSE sessions[t]
    BY <1>1, <1>3 DEF Types, StoreTypeOK
  <2> HIDE DEF row, now
  <2>2. Live'[tok] = [user |-> row.user, opened |-> row.created,
                      used |-> IF now > row.seen THEN now ELSE row.seen]
    BY <1>8, <2>1 DEF Live
  <2>3. \A t \in Token : t # tok => Live'[t] = Live[t]
    BY <2>1 DEF Live
  <2>4. Live = [t \in Token |-> Live[t]] /\ Live' = [t \in Token |-> Live'[t]]
    BY DEF Live
  <2>5. QED
    BY ONLY <2>2, <2>3, <2>4
<1>12. ~Ledger!Over(tok, now)
  BY <1>3, <1>4, <1>10 DEF Ledger!Over, Expired, Users, Live
<1> HIDE DEF row, now
<1>13. Ledger!Admit(r, tok)
  <2>1. Made[r] # None
    BY <1>4, <1>7, Sentinel
  <2>2. Live' = [Live EXCEPT ![tok].used = IF Made[r] > @ THEN Made[r] ELSE @]
    <3>1. ASSUME NEW x
          PROVE  [Live[tok] EXCEPT !.used = x]
                    = [user |-> row.user, opened |-> row.created, used |-> x]
      BY <1>10
    <3>2. Made[r] = now /\ Live[tok].used = row.seen
      BY <1>7, <1>10
    <3>3. Live' = [Live EXCEPT ![tok] = [Live[tok] EXCEPT
                      !.used = IF Made[r] > Live[tok].used THEN Made[r] ELSE Live[tok].used]]
      BY ONLY <1>11, <3>1, <3>2
    <3>4. QED
      BY ONLY <3>3
  <2>3. AdmittedAs' = [AdmittedAs EXCEPT ![r] = Live[tok].user]
    BY <1>7, <1>10
  <2>4. ~Ledger!Over(tok, Made[r])
    BY <1>7, <1>12 DEF Ledger!Over
  <2>5. QED
    BY <1>1, <1>7, <1>9, <1>10, <2>1, <2>2, <2>3, <2>4
       DEF Ledger!Admit, Users, Live, Gone, Made, AdmittedAs, Revoked
<1>14. Ledger!Next
  BY ONLY <1>13, CallStep
<1>15. QED
  BY ONLY <1>14 DEF LedgerStep

LEMMA OverRows ==
    ASSUME Types, NEW t \in Token, NEW now \in Nat, now <= clock, sessions[t] # None,
           ~HasAccount(sessions[t].user) \/ Expired(sessions[t], now)
    PROVE  Live[t] # None /\ Ledger!Over(t, clock)
<1>1. /\ Live[t] # None /\ sessions[t] \in Row /\ clock \in Nat
      /\ Live[t].user = sessions[t].user /\ Live[t].opened = sessions[t].created
      /\ Live[t].used = sessions[t].seen
  BY LiveRows DEF Types
<1>2. \/ Live[t].user \notin Users
      \/ clock >= Live[t].opened + Lifetime
      \/ clock >= Live[t].used + IdleTimeout
  <2>1. CASE ~HasAccount(sessions[t].user)
    BY <1>1, <2>1 DEF HasAccount, Users
  <2>2. CASE Expired(sessions[t], now)
    <3>1. /\ sessions[t].created \in Nat /\ sessions[t].seen \in Nat
          /\ Lifetime \in Nat /\ IdleTimeout \in Nat
      BY <1>1, SessionsAssumption DEF Row
    <3>2. QED
      BY <1>1, <2>2, <3>1 DEF Expired
  <2>3. QED
    BY <2>1, <2>2
<1>3. QED
  BY <1>1, <1>2 DEF Ledger!Over, Users, Live

\* A dropped row is an orphan or past its deadlines by now.
LEMMA DropLedger ==
    ASSUME IInv, NEW r \in Request, Drop(r)
    PROVE  LedgerStep
<1>1. Types /\ Requests /\ Path(r) /\ Locked(r) /\ req[r].pc = "decide"
      /\ UNCHANGED <<accounts, minted, clock>> /\ Reply(r, 401)
  BY DEF IInv, Types, Drop, DropSession, OnlyStore, At
<1>2. Only(r) /\ SameView(r)
  <2>1. 401 \in Answer
    BY DEF Answer
  <2>2. QED
    BY <1>1, <2>1, ViewReply
<1>3. PICK tok \in Token : tok = req[r].token /\ tok <= minted
  BY <1>1 DEF Path, Known
<1>4. /\ sessions' = [t \in Token |-> IF t \in {tok} THEN None ELSE sessions[t]]
      /\ sessions' = [sessions EXCEPT ![tok] = None]
  BY <1>1, <1>3 DEF Drop, DropSession, Types, StoreTypeOK
<1>5. CASE sessions[tok] = None
  <2>1. sessions' = sessions
    BY <1>1, <1>4, <1>5 DEF Types, StoreTypeOK
  <2>2. QED
    BY <1>1, <1>2, <2>1, QuietLedger
<1>6. CASE sessions[tok] # None
  <2>1. Ledger!Ends({tok})
    BY <1>1, <1>3, <1>4, RowsEnd
  <2>2. \/ ~HasAccount(sessions[tok].user)
        \/ Expired(sessions[tok], req[r].now)
    BY <1>1, <1>3, <1>6 DEF Drop, DropSession, Locked, Joined
  <2>3. req[r].now \in Nat /\ clock \in Nat /\ req[r].now <= clock
    BY <1>1 DEF Path, Requests, RequestState, Types
  <2>4. Live[tok] # None /\ Ledger!Over(tok, clock)
    BY <1>1, <1>6, <2>2, <2>3, OverRows
  <2>5. UNCHANGED <<Made, AdmittedAs, Revoked>> /\ Users' = Users
    BY <1>1, <1>2, OneView DEF Users
  <2>6. QED
    BY <1>1, <2>1, <2>4, <2>5, ExpireLedger
<1>7. QED
  BY <1>5, <1>6

LEMMA TickLedger ==
    ASSUME IInv, Tick
    PROVE  LedgerStep
<1>1. clock \in Nat /\ clock' = clock + 1 /\ UNCHANGED <<accounts, sessions, minted, req>>
  BY DEF IInv, Types, Tick, store
<1>2. clock' > clock
  BY ONLY <1>1
<1>3. UNCHANGED <<Users, Live, Gone, Made, AdmittedAs, Revoked>>
  BY <1>1, RowsStay DEF Made, AdmittedAs, Revoked
<1>4. Ledger!Tick
  BY <1>2, <1>3 DEF Ledger!Tick, Users, Live, Gone, Made, AdmittedAs, Revoked
<1>5. QED
  BY <1>4 DEF LedgerStep, Ledger!Next

\* Only the user's own sessions can go along: no other account has its id.
LEMMA RemoveUserLedger ==
    ASSUME IInv, RemoveUser
    PROVE  LedgerStep
<1>1. PICK a \in Account, cascades \in BOOLEAN : DeleteUser(a, cascades)
  BY DEF RemoveUser
<1>2. Types /\ StoreTypeOK /\ StoreInv /\ UNCHANGED <<clock, req, minted>>
  BY <1>1 DEF IInv, Types, RemoveUser, DeleteUser
<1>3. UNCHANGED <<Made, AdmittedAs, Revoked>>
  BY <1>2 DEF Made, AdmittedAs, Revoked
<1>4. PICK u : u = accounts[a]
  OBVIOUS
<1>5. u \in Users /\ u \notin Users'
  BY <1>1, <1>2, <1>4 DEF DeleteUser, Users, StoreInv, StoreTypeOK
<1>6. PICK T \in SUBSET Token :
         T = {t \in Token : cascades /\ sessions[t] # None /\ sessions[t].user = u}
  OBVIOUS
<1>7. sessions' = [t \in Token |-> IF t \in T THEN None ELSE sessions[t]]
  BY <1>1, <1>4, <1>6 DEF DeleteUser
<1>8. Ledger!Ends(T)
  BY <1>2, <1>6, <1>7, RowsEnd
<1>9. PICK U : U = IF cascades THEN {u} ELSE {}
  OBVIOUS
<1>10. \A t \in Token : t \in T <=> Live[t] # None /\ Live[t].user \in U \ Users'
  BY <1>2, <1>5, <1>6, <1>9, LiveRows
<1>11. U \subseteq Users \cup Users'
  BY <1>5, <1>9
<1>12. QED
  BY <1>2, <1>3, <1>8, <1>10, <1>11, UsersLedger

\* A restart clears away what is over, and forgets requests only.
LEMMA RestartLedger ==
    ASSUME IInv, Restart
    PROVE  LedgerStep
<1>1. Types /\ Requests /\ UNCHANGED <<accounts, minted, clock>>
  BY DEF IInv, Types, Restart, CleanUp, RollBack
<1>2. UNCHANGED <<Made, AdmittedAs, Revoked>>
  <2>1. ASSUME NEW q \in Request
        PROVE  SameView(q)
    <3>1. "lost" \in PC /\ req[q] \in RequestState
      BY <1>1 DEF PC, Requests
    <3>2. /\ Ended(req[q], "lost").route = req[q].route
          /\ Ended(req[q], "lost").revoked = req[q].revoked
          /\ req[q].revoked => Ended(req[q], "lost").token = req[q].token
          /\ req[q].route = "me" => /\ Ended(req[q], "lost").now = req[q].now
                                    /\ Ended(req[q], "lost").user = req[q].user
      BY <3>1, EndedType
    <3>3. req'[q] = req[q] \/ req'[q] = Ended(req[q], "lost")
      BY DEF Restart
    <3>4. QED
      BY <3>2, <3>3 DEF SameView, Keeps
  <2>2. QED
    BY <2>1, ViewsStay
<1>3. CASE CleanUp(clock)
  <2>1. PICK T \in SUBSET Token : T = {t \in Token : Dead(sessions[t], clock)}
    OBVIOUS
  <2>2. sessions' = [t \in Token |-> IF t \in T THEN None ELSE sessions[t]]
    BY <1>3, <2>1 DEF CleanUp
  <2>3. Ledger!Ends(T)
    BY <1>1, <2>1, <2>2, RowsEnd DEF Dead
  <2>4. \A t \in T : Live[t] # None /\ Ledger!Over(t, clock)
    <3>1. clock \in Nat
      BY <1>1 DEF Types
    <3>2. QED
      BY <1>1, <2>1, <3>1, OverRows DEF Dead
  <2>5. Users' = Users
    BY <1>1 DEF Users
  <2>6. QED
    BY <1>1, <1>2, <2>3, <2>4, <2>5, ExpireLedger
<1>4. CASE RollBack
  <2>1. UNCHANGED <<Users, Live, Gone>>
    BY <1>4, RowsStay DEF RollBack
  <2>2. QED
    BY <1>1, <1>2, <2>1 DEF LedgerStep
<1>5. QED
  BY <1>3, <1>4 DEF Restart

LEMMA NextLedger ==
    ASSUME IInv, [Next]_vars
    PROVE  LedgerStep
<1>1. ASSUME NEW r \in Request, Arrive(r) \/ Step(r)
      PROVE  LedgerStep
  BY <1>1, IdleLedger, MeLedger, RevokeLedger, CreateLedger, CreateUserLedger, AcceptLedger,
     DropLedger DEF Arrive, Step
<1>2. CASE UNCHANGED vars
  <2>1. UNCHANGED <<Users, Live, Gone>>
    BY <1>2, RowsStay DEF vars, store
  <2>2. UNCHANGED <<clock, Made, AdmittedAs, Revoked>>
    BY <1>2 DEF vars, Made, AdmittedAs, Revoked
  <2>3. QED
    BY <2>1, <2>2 DEF LedgerStep
<1>3. QED
  BY <1>1, <1>2, TickLedger, RemoveUserLedger, RestartLedger DEF Next

\* The sessions of the database keep every promise of SessionLedger, for any
\* requests, accounts, tokens, deadlines and number of restarts: every step of
\* the routes is a step of the ledger or none.
THEOREM Implementation == Spec => ImplementsLedger
<1>1. Init => Ledger!Init
  BY InitLedger
<1>2. IInv /\ [Next]_vars => LedgerStep
  BY NextLedger
<1>3. QED
  BY <1>1, <1>2, Invariance, PTL
     DEF Spec, ImplementsLedger, Ledger!Spec, Ledger!ledger, LedgerStep, Users, Live, Gone,
         Made, AdmittedAs, Revoked

-----------------------------------------------------------------------------
(* Integers, without the induction theorems of the library.                 *)

\* A finite set of integers has a least element.
LEMMA LeastElement ==
    ASSUME NEW S \in SUBSET Int, S # {}, IsFiniteSet(S)
    PROVE  \E m \in S : \A x \in S : m <= x
<1> DEFINE below(y) == {x \in S : x < y}
<1>1. PICK T \in SUBSET FiniteSubsetsOf(S) : T = {below(y) : y \in S}
  <2>1. \A y \in S : below(y) \in FiniteSubsetsOf(S)
    BY FS_Subset DEF FiniteSubsetsOf
  <2>2. QED
    BY <2>1
<1>2. PICK L \in T : \A U \in T : <<U, L>> \notin StrictSubsetOrdering(S)
  <2>1. T # {}
    BY <1>1
  <2>2. QED
    BY <2>1, FS_StrictSubsetOrderingWellFounded, WFMin
<1>3. PICK m \in S : L = below(m)
  BY <1>1
<1>4. ASSUME NEW x \in S, x < m
      PROVE  FALSE
  <2>1. x \in below(m) /\ x \notin below(x)
    BY <1>4
  <2>2. below(x) \subseteq below(m)
    <3>1. ASSUME NEW y \in S, y < x
          PROVE  y < m
      <4>1. x \in Int /\ y \in Int /\ m \in Int
        OBVIOUS
      <4>2. QED
        BY <4>1, <3>1, <1>4
    <3>2. QED
      BY <3>1
  <2>3. below(x) \in T
    BY <1>1
  <2>4. <<below(x), L>> \in StrictSubsetOrdering(S)
    BY <2>1, <2>2, <1>3 DEF StrictSubsetOrdering
  <2>5. QED
    BY <2>3, <2>4, <1>2
<1>5. QED
  BY <1>4

\* Induction over the natural numbers, of sets: the least counterexample fails.
LEMMA NatSetInduction ==
    ASSUME NEW S, 0 \in S, \A n \in Nat : n \in S => n + 1 \in S
    PROVE  Nat \subseteq S
<1>1. ASSUME NEW x \in Nat, x \notin S
      PROVE  FALSE
  <2> DEFINE T == {n \in 0 .. x : n \notin S}
  <2>1. T # {} /\ T \in SUBSET Int
    BY <1>1
  <2>2. IsFiniteSet(T)
    <3>1. IsFiniteSet(0 .. x)
      BY FS_Interval
    <3>2. QED
      BY <3>1, FS_Subset
  <2>3. PICK m \in T : \A y \in T : m <= y
    BY <2>1, <2>2, LeastElement
  <2>4. m # 0 /\ m \in 0 .. x
    OBVIOUS
  <2>5. m - 1 \in 0 .. x /\ m - 1 \in Nat /\ (m - 1) + 1 = m
    BY <2>4
  <2>6. m - 1 \in S
    <3>1. m - 1 \notin T
      BY <2>3, <2>4, <2>5
    <3>2. QED
      BY <2>5, <3>1
  <2>7. QED
    BY <2>3, <2>5, <2>6
<1>2. QED
  BY <1>1

-----------------------------------------------------------------------------
(* What a deque of the rate limiter knows of the failures under its key.    *)

\* s holds the stamps of some of the failures F, none twice and in the order in
\* which they were recorded: its i-th stamp is that of w[i].
Remembers(s, w, F, at, rec) ==
    /\ w \in [1 .. Len(s) -> F]
    /\ \A i \in 1 .. Len(s) : s[i] = at[w[i]]
    /\ \A i, j \in 1 .. Len(s) : i < j => w[i] # w[j] /\ rec[w[i]] <= rec[w[j]]

\* What it lacks, provided that none was recorded more than e after its stamp, was
\* recorded less than e after the edge of the window, or than each of the n stamps
\* that fill it.
Accounts(s, w, F, at, rec, n, edge) ==
    \A e \in Nat : (\A q \in F : rec[q] <= at[q] + e) =>
        \A q \in F : \/ \E i \in 1 .. Len(s) : w[i] = q
                     \/ rec[q] <= edge + e
                     \/ Len(s) = n /\ \A i \in 1 .. Len(s) : rec[q] <= s[i] + e

\* s is such a deque, with at most n stamps, of the failures F.
Deque(s, F, at, rec, n, edge) ==
    /\ s \in Seq(Nat) /\ Len(s) <= n
    /\ \A q \in F : at[q] \in Nat /\ rec[q] \in Nat
    /\ \E w : Remembers(s, w, F, at, rec) /\ Accounts(s, w, F, at, rec, n, edge)

\* Dropping the first stamps, all of them out of the window, loses no account.
LEMMA DropFirst ==
    ASSUME NEW s, NEW F, NEW at, NEW rec, NEW n \in Nat \ {0}, NEW edge \in Int,
           Deque(s, F, at, rec, n, edge),
           NEW m \in Nat \ {0}, m <= Len(s) + 1, \A i \in 1 .. m - 1 : s[i] <= edge
    PROVE  Deque(SubSeq(s, m, Len(s)), F, at, rec, n, edge)
<1>1. PICK w : Remembers(s, w, F, at, rec) /\ Accounts(s, w, F, at, rec, n, edge)
  BY DEF Deque
<1>2. /\ s \in Seq(Nat) /\ Len(s) \in Nat /\ Len(s) <= n
      /\ \A i \in 1 .. Len(s) : s[i] \in Nat
      /\ \A q \in F : at[q] \in Nat /\ rec[q] \in Nat
  BY LenProperties, ElementOfSeq DEF Deque
<1>3. PICK t \in Seq(Nat) : t = SubSeq(s, m, Len(s))
  <2>1. \A i \in m .. Len(s) : s[i] \in Nat
    BY <1>2
  <2>2. m \in Int /\ Len(s) \in Int
    BY <1>2
  <2>3. SubSeq(s, m, Len(s)) \in Seq(Nat)
    BY <2>1, <2>2, SubSeqProperties
  <2>4. QED
    BY <2>3
<1>4. PICK l \in Nat : l = Len(s) - m + 1
  BY <1>2
<1>5. Len(t) = l /\ \A i \in 1 .. l : t[i] = s[m + i - 1]
  BY <1>2, <1>3, <1>4, SubSeqProperties
<1>6. \A i \in 1 .. l : \E j \in 1 .. Len(s) : j = m + i - 1
  BY <1>2, <1>4
<1>7. PICK v \in [1 .. l -> F] : \A i \in 1 .. l : v[i] = w[m + i - 1]
  <2>1. ASSUME NEW i \in 1 .. l
        PROVE  w[m + i - 1] \in F
    <3>1. PICK j \in 1 .. Len(s) : j = m + i - 1
      BY <1>6
    <3>2. QED
      BY <1>1, <3>1 DEF Remembers
  <2>2. [i \in 1 .. l |-> w[m + i - 1]] \in [1 .. l -> F]
    BY <2>1
  <2>3. QED
    BY <2>2
<1>8. Remembers(t, v, F, at, rec)
  <2>1. ASSUME NEW i \in 1 .. l
        PROVE  t[i] = at[v[i]]
    <3>1. PICK j \in 1 .. Len(s) : j = m + i - 1
      BY <1>6
    <3>2. QED
      BY <1>1, <1>5, <1>7, <3>1 DEF Remembers
  <2>2. ASSUME NEW i \in 1 .. l, NEW j \in 1 .. l, i < j
        PROVE  v[i] # v[j] /\ rec[v[i]] <= rec[v[j]]
    <3>1. PICK a \in 1 .. Len(s), b \in 1 .. Len(s) : a = m + i - 1 /\ b = m + j - 1
      BY <1>6
    <3>2. a < b /\ v[i] = w[a] /\ v[j] = w[b]
      BY <1>7, <2>2, <3>1
    <3>3. QED
      BY <1>1, <3>2 DEF Remembers
  <2>3. QED
    BY <1>5, <1>7, <2>1, <2>2 DEF Remembers
<1>9. Accounts(t, v, F, at, rec, n, edge)
  <2>1. SUFFICES ASSUME NEW e \in Nat, \A q \in F : rec[q] <= at[q] + e, NEW q \in F,
                        \A i \in 1 .. l : v[i] # q, ~(rec[q] <= edge + e)
                 PROVE  Len(t) = n /\ \A i \in 1 .. l : rec[q] <= t[i] + e
    BY <1>5 DEF Accounts
  <2>2. ASSUME NEW i \in 1 .. Len(s), w[i] = q
        PROVE  FALSE
    <3>1. CASE i < m
      <4>1. s[i] = at[q] /\ s[i] <= edge
        BY <1>1, <1>2, <2>1, <2>2, <3>1 DEF Remembers
      <4>2. rec[q] <= at[q] + e /\ at[q] \in Nat /\ rec[q] \in Nat
        BY <1>2, <2>1
      <4>3. QED
        BY <2>1, <4>1, <4>2
    <3>2. CASE i >= m
      <4>1. i - m + 1 \in 1 .. l /\ m + (i - m + 1) - 1 = i
        BY <1>2, <1>4, <3>2
      <4>2. QED
        BY <1>7, <2>1, <2>2, <4>1
    <3>3. QED
      BY <3>1, <3>2, <1>2
  <2>3. Len(s) = n /\ \A i \in 1 .. Len(s) : rec[q] <= s[i] + e
    BY <1>1, <2>1, <2>2 DEF Accounts
  <2>4. m = 1
    <3>1. ASSUME m # 1
          PROVE  FALSE
      <4>1. 1 \in 1 .. m - 1 /\ 1 \in 1 .. Len(s)
        BY <3>1, <2>3, <1>2
      <4>2. s[1] <= edge /\ rec[q] <= s[1] + e /\ s[1] \in Nat /\ rec[q] \in Nat
        BY <4>1, <2>3, <1>2
      <4>3. QED
        BY <4>2, <2>1
    <3>2. QED
      BY <3>1
  <2>5. l = Len(s)
    BY <1>2, <1>4, <2>4
  <2>6. ASSUME NEW i \in 1 .. l
        PROVE  rec[q] <= t[i] + e
    <3>1. m + i - 1 = i
      BY <2>4
    <3>2. QED
      BY <1>5, <2>3, <2>5, <3>1
  <2>7. QED
    BY <1>5, <2>3, <2>5, <2>6
<1>10. QED
  BY <1>2, <1>3, <1>4, <1>5, <1>8, <1>9 DEF Deque

\* A key's deque, pruned, is what is left of it from some stamp on; what goes is
\* out of the window, and the stamp it then starts with is not.
LEMMA PrunedSuffix ==
    ASSUME NEW k, stamps[k] \in Seq(Nat), NEW now \in Int
    PROVE  \E m \in Nat \ {0} :
              /\ m <= Len(stamps[k]) + 1
              /\ Pruned(k, now) = SubSeq(stamps[k], m, Len(stamps[k]))
              /\ \A i \in 1 .. m - 1 : stamps[k][i] <= now - Window
              /\ m <= Len(stamps[k]) => stamps[k][m] > now - Window
<1>1. PICK s \in Seq(Nat) : s = stamps[k]
  OBVIOUS
<1>2. PICK edge \in Int : edge = now - Window
  BY LimitsAssumption
<1>3. PICK l \in Nat : l = Len(s) /\ DOMAIN s = 1 .. l /\ \A i \in 1 .. l : s[i] \in Nat
  BY LenProperties, ElementOfSeq
<1>4. PICK W \in SUBSET (1 .. l) : W = {i \in 1 .. l : s[i] > edge}
  OBVIOUS
<1>5. Pruned(k, now) = IF W = {} THEN <<>> ELSE SubSeq(s, Min(W), l)
  BY <1>1, <1>2, <1>3, <1>4 DEF Pruned
<1>6. CASE W = {}
  <2>1. SubSeq(s, l + 1, l) = <<>>
    BY SubSeqEmpty
  <2>2. \A i \in 1 .. l : s[i] <= edge
    BY <1>3, <1>4, <1>6
  <2>3. PICK m \in Nat \ {0} : m = l + 1
    OBVIOUS
  <2>4. /\ m <= l + 1 /\ Pruned(k, now) = SubSeq(s, m, l)
        /\ \A i \in 1 .. m - 1 : s[i] <= edge
        /\ ~(m <= l)
    BY <1>5, <1>6, <2>1, <2>2, <2>3
  <2>5. QED
    BY <1>1, <1>2, <1>3, <2>4
<1>7. CASE W # {}
  <2>1. IsFiniteSet(W)
    <3>1. IsFiniteSet(1 .. l)
      BY FS_Interval
    <3>2. QED
      BY <3>1, FS_Subset
  <2>2. Min(W) \in W /\ \A x \in W : Min(W) <= x
    <3>1. W \in SUBSET Int
      OBVIOUS
    <3>2. \E x \in W : \A y \in W : x <= y
      BY <1>7, <2>1, <3>1, LeastElement
    <3>3. QED
      BY <3>2 DEF Min
  <2>3. PICK m \in 1 .. l : m = Min(W)
    BY <2>2
  <2>4. \A i \in 1 .. m - 1 : s[i] <= edge
    <3>1. ASSUME NEW i \in 1 .. m - 1, s[i] > edge
          PROVE  FALSE
      <4>1. i \in W
        BY <1>4, <2>3, <3>1
      <4>2. QED
        BY <2>2, <2>3, <4>1
    <3>2. QED
      BY <1>3, <2>3, <3>1
  <2>5. s[m] > edge
    BY <1>4, <2>2, <2>3
  <2>6. m \in Nat \ {0} /\ m <= l + 1
    BY ONLY <2>3, l \in Nat
  <2>7. Pruned(k, now) = SubSeq(s, m, l)
    BY <1>5, <1>7, <2>3
  <2>8. QED
    BY <1>1, <1>2, <1>3, <2>4, <2>5, <2>6, <2>7
<1>8. QED
  BY <1>6, <1>7

\* Time passes: what was out of the window stays out.
LEMMA LaterEdge ==
    ASSUME NEW s, NEW F, NEW at, NEW rec, NEW n, NEW edge \in Int, NEW later \in Int,
           edge <= later, Deque(s, F, at, rec, n, edge)
    PROVE  Deque(s, F, at, rec, n, later)
<1>1. PICK w : Remembers(s, w, F, at, rec) /\ Accounts(s, w, F, at, rec, n, edge)
  BY DEF Deque
<1>2. \A q \in F : rec[q] \in Nat
  BY DEF Deque
<1>3. Accounts(s, w, F, at, rec, n, later)
  <2>1. SUFFICES ASSUME NEW e \in Nat, \A q \in F : rec[q] <= at[q] + e, NEW q \in F,
                        \A i \in 1 .. Len(s) : w[i] # q, ~(rec[q] <= later + e)
                 PROVE  Len(s) = n /\ \A i \in 1 .. Len(s) : rec[q] <= s[i] + e
    BY DEF Accounts
  <2>2. ~(rec[q] <= edge + e)
    BY <1>2, <2>1
  <2>3. QED
    BY <1>1, <2>1, <2>2 DEF Accounts
<1>4. QED
  BY <1>1, <1>3 DEF Deque

\* Only the times of the failures matter.
LEMMA SameTimes ==
    ASSUME NEW s, NEW F, NEW at, NEW rec, NEW at2, NEW rec2, NEW n, NEW edge,
           Deque(s, F, at, rec, n, edge),
           \A q \in F : at2[q] = at[q] /\ rec2[q] = rec[q]
    PROVE  Deque(s, F, at2, rec2, n, edge)
<1>1. PICK w : Remembers(s, w, F, at, rec) /\ Accounts(s, w, F, at, rec, n, edge)
  BY DEF Deque
<1>2. \A i \in 1 .. Len(s) : w[i] \in F
  BY <1>1 DEF Remembers
<1>3. Remembers(s, w, F, at2, rec2)
  BY <1>1, <1>2 DEF Remembers
<1>4. Accounts(s, w, F, at2, rec2, n, edge)
  BY <1>1 DEF Accounts
<1>5. QED
  BY <1>3, <1>4 DEF Deque

\* No failure, no stamp.
LEMMA EmptyDeque ==
    ASSUME NEW at, NEW rec, NEW n \in Nat, NEW edge
    PROVE  Deque(<<>>, {}, at, rec, n, edge)
<1>1. <<>> \in Seq(Nat) /\ Len(<<>>) = 0
  BY EmptySeq
<1>2. PICK w \in [1 .. 0 -> {}] : TRUE
  <2>1. [i \in 1 .. 0 |-> i] \in [1 .. 0 -> {}]
    <3>1. 1 .. 0 = {}
      OBVIOUS
    <3>2. QED
      BY <3>1
  <2>2. QED
    BY <2>1
<1>3. Remembers(<<>>, w, {}, at, rec)
  BY <1>1, <1>2 DEF Remembers
<1>4. Accounts(<<>>, w, {}, at, rec, n, edge)
  BY DEF Accounts
<1>5. QED
  BY <1>1, <1>3, <1>4 DEF Deque

\* Recording a failure later than all the others appends its stamp, at the cost
\* of the first one when the deque is full.
LEMMA PushDeque ==
    ASSUME NEW s, NEW F, NEW at, NEW rec, NEW n \in Nat \ {0}, NEW edge \in Int,
           Deque(s, F, at, rec, n, edge),
           NEW r, r \notin F, at[r] \in Nat, rec[r] \in Nat, at[r] <= rec[r],
           \A q \in F : rec[q] <= rec[r]
    PROVE  Deque(LastOf(Append(s, at[r]), n), F \cup {r}, at, rec, n, edge)
<1>1. PICK w : Remembers(s, w, F, at, rec) /\ Accounts(s, w, F, at, rec, n, edge)
  BY DEF Deque
<1>2. /\ s \in Seq(Nat) /\ Len(s) <= n
      /\ \A q \in F \cup {r} : at[q] \in Nat /\ rec[q] \in Nat
  BY DEF Deque
<1>3. PICK l \in Nat : l = Len(s)
  BY <1>2, LenProperties
<1>4. PICK a \in Seq(Nat) : a = Append(s, at[r])
  BY <1>2, AppendProperties
<1>5. Len(a) = l + 1 /\ a[l + 1] = at[r] /\ \A i \in 1 .. l : a[i] = s[i]
  BY <1>2, <1>3, <1>4, AppendProperties
<1> DEFINE G == F \cup {r}
<1>6. PICK v \in [1 .. l + 1 -> G] : v[l + 1] = r /\ \A i \in 1 .. l : v[i] = w[i]
  <2>1. [i \in 1 .. l + 1 |-> IF i = l + 1 THEN r ELSE w[i]] \in [1 .. l + 1 -> G]
    BY <1>1, <1>3 DEF Remembers
  <2>2. l + 1 \in 1 .. l + 1 /\ \A i \in 1 .. l : i \in 1 .. l + 1 /\ i # l + 1
    OBVIOUS
  <2>3. QED
    BY <2>1, <2>2
<1>7. \A i \in 1 .. l + 1 : i \in 1 .. l \/ i = l + 1
  OBVIOUS
<1>8. \A i \in 1 .. l : w[i] \in F
  BY <1>1, <1>3 DEF Remembers
<1>9. Remembers(a, v, G, at, rec)
  <2>1. ASSUME NEW i \in 1 .. l + 1
        PROVE  a[i] = at[v[i]]
    <3>1. CASE i \in 1 .. l
      BY <1>1, <1>3, <1>5, <1>6, <3>1 DEF Remembers
    <3>2. QED
      BY <1>5, <1>6, <1>7, <3>1
  <2>2. ASSUME NEW i \in 1 .. l + 1, NEW j \in 1 .. l + 1, i < j
        PROVE  v[i] # v[j] /\ rec[v[i]] <= rec[v[j]]
    <3>1. i \in 1 .. l
      BY <2>2
    <3>2. CASE j \in 1 .. l
      BY <1>1, <1>3, <1>6, <2>2, <3>1, <3>2 DEF Remembers
    <3>3. CASE j = l + 1
      BY <1>6, <1>8, <3>1, <3>3
    <3>4. QED
      BY <1>7, <3>2, <3>3
  <2>3. QED
    BY <1>5, <1>6, <2>1, <2>2 DEF Remembers
<1>10. ASSUME NEW e \in Nat, \A q \in G : rec[q] <= at[q] + e, NEW q \in G
       PROVE  \/ \E i \in 1 .. l + 1 : v[i] = q
              \/ rec[q] <= edge + e
              \/ l = n /\ \A i \in 1 .. l + 1 : rec[q] <= a[i] + e
  <2>1. CASE q = r
    BY <1>6, <2>1
  <2>2. CASE q \in F
    <3>1. \/ \E i \in 1 .. l : w[i] = q
          \/ rec[q] <= edge + e
          \/ l = n /\ \A i \in 1 .. l : rec[q] <= s[i] + e
      BY <1>1, <1>3, <1>10, <2>2 DEF Accounts
    <3>2. CASE \E i \in 1 .. l : w[i] = q
      BY <1>6, <3>2
    <3>3. CASE l = n /\ \A i \in 1 .. l : rec[q] <= s[i] + e
      <4>1. rec[q] <= a[l + 1] + e
        <5>1. rec[q] <= rec[r] /\ rec[r] <= at[r] + e
          BY <1>10, <2>2
        <5>2. QED
          BY <1>2, <1>5, <1>10, <2>2, <5>1
      <4>2. QED
        BY <1>5, <1>7, <3>3, <4>1
    <3>4. QED
      BY <3>1, <3>2, <3>3
  <2>3. QED
    BY <2>1, <2>2
<1>11. CASE l < n
  <2>1. LastOf(a, n) = a /\ Len(a) <= n
    BY <1>3, <1>5, <1>11 DEF LastOf
  <2>2. Accounts(a, v, G, at, rec, n, edge)
    <3>1. SUFFICES ASSUME NEW e \in Nat, \A q \in G : rec[q] <= at[q] + e, NEW q \in G
                   PROVE  (\E i \in 1 .. l + 1 : v[i] = q) \/ rec[q] <= edge + e
      BY <1>5 DEF Accounts
    <3>2. ~(l = n)
      BY <1>11
    <3>3. QED
      BY <1>10, <3>1, <3>2
  <2>3. QED
    BY <1>2, <1>4, <1>9, <2>1, <2>2 DEF Deque
<1>12. CASE l = n
  <2>1. PICK t \in Seq(Nat) :
           t = LastOf(a, n) /\ Len(t) = n /\ \A i \in 1 .. n : t[i] = a[i + 1]
    <3>1. LastOf(a, n) = SubSeq(a, 2, n + 1)
      BY <1>5, <1>12 DEF LastOf
    <3>2. \A i \in 2 .. n + 1 : a[i] \in Nat
      BY <1>4, <1>5, <1>12, ElementOfSeq
    <3>3. /\ SubSeq(a, 2, n + 1) \in Seq(Nat)
          /\ Len(SubSeq(a, 2, n + 1)) = n
          /\ \A i \in 1 .. n : SubSeq(a, 2, n + 1)[i] = a[2 + i - 1]
      BY <3>2, SubSeqProperties
    <3>4. \A i \in 1 .. n : 2 + i - 1 = i + 1
      OBVIOUS
    <3>5. QED
      BY <3>1, <3>3, <3>4
  <2>2. \A i \in 1 .. n : \E j \in 1 .. l + 1 : j = i + 1
    BY <1>12
  <2>3. PICK u \in [1 .. n -> G] : \A i \in 1 .. n : u[i] = v[i + 1]
    <3>1. ASSUME NEW i \in 1 .. n
          PROVE  v[i + 1] \in G
      <4>1. PICK j \in 1 .. l + 1 : j = i + 1
        BY <2>2
      <4>2. QED
        BY <1>6, <4>1
    <3>2. [i \in 1 .. n |-> v[i + 1]] \in [1 .. n -> G]
      BY <3>1
    <3>3. QED
      BY <3>2
  <2>4. Remembers(t, u, G, at, rec)
    <3>1. ASSUME NEW i \in 1 .. n
          PROVE  t[i] = at[u[i]]
      <4>1. PICK j \in 1 .. l + 1 : j = i + 1
        BY <2>2
      <4>2. QED
        BY <1>5, <1>9, <2>1, <2>3, <4>1 DEF Remembers
    <3>2. ASSUME NEW i \in 1 .. n, NEW j \in 1 .. n, i < j
          PROVE  u[i] # u[j] /\ rec[u[i]] <= rec[u[j]]
      <4>1. PICK c \in 1 .. l + 1, d \in 1 .. l + 1 : c = i + 1 /\ d = j + 1
        BY <2>2
      <4>2. c < d /\ u[i] = v[c] /\ u[j] = v[d]
        BY <2>3, <3>2, <4>1
      <4>3. \A x, y \in 1 .. l + 1 : x < y => v[x] # v[y] /\ rec[v[x]] <= rec[v[y]]
        BY <1>5, <1>9 DEF Remembers
      <4>4. QED
        BY <4>2, <4>3
    <3>3. QED
      BY <2>1, <2>3, <3>1, <3>2 DEF Remembers
  <2>5. ASSUME NEW e \in Nat, \A q \in G : rec[q] <= at[q] + e, NEW q \in G,
               \A i \in 1 .. n : u[i] # q, ~(rec[q] <= edge + e)
        PROVE  \A i \in 1 .. n : rec[q] <= t[i] + e
    <3>1. ASSUME NEW i \in 1 .. n
          PROVE  rec[q] <= a[i + 1] + e
      <4>1. PICK j \in 1 .. l + 1 : j = i + 1
        BY <2>2
      <4>2. CASE \E c \in 1 .. l + 1 : v[c] = q
        <5>1. PICK c \in 1 .. l + 1 : v[c] = q
          BY <4>2
        <5>2. c = 1
          <6>1. ASSUME c # 1
                PROVE  FALSE
            <7>1. PICK d \in 1 .. n : d + 1 = c
              <8>1. c - 1 \in 1 .. n /\ (c - 1) + 1 = c
                BY <1>12, <6>1
              <8>2. QED
                BY <8>1
            <7>2. QED
              BY <2>3, <2>5, <5>1, <7>1
          <6>2. QED
            BY <6>1
        <5>3. c < j
          BY <4>1, <5>2
        <5>4. rec[q] <= rec[v[j]]
          BY <1>5, <1>9, <5>1, <5>3 DEF Remembers
        <5>5. v[j] \in G /\ a[j] = at[v[j]] /\ rec[v[j]] <= at[v[j]] + e
          BY <1>5, <1>6, <1>9, <2>5 DEF Remembers
        <5>6. at[v[j]] \in Nat /\ rec[v[j]] \in Nat /\ rec[q] \in Nat
          BY <1>2, <2>5, <5>5
        <5>7. rec[q] <= a[j] + e
          BY ONLY <5>4, <5>5, <5>6, e \in Nat
        <5>8. QED
          BY <4>1, <5>7
      <4>3. CASE ~\E c \in 1 .. l + 1 : v[c] = q
        BY <1>10, <2>5, <4>1, <4>3
      <4>4. QED
        BY <4>2, <4>3
    <3>2. QED
      BY <2>1, <3>1
  <2>6. Accounts(t, u, G, at, rec, n, edge)
    <3>1. SUFFICES ASSUME NEW e \in Nat, \A q \in G : rec[q] <= at[q] + e, NEW q \in G,
                          \A i \in 1 .. n : u[i] # q, ~(rec[q] <= edge + e)
                   PROVE  \A i \in 1 .. n : rec[q] <= t[i] + e
      BY <2>1 DEF Accounts
    <3>2. QED
      BY <2>5, <3>1
  <2>7. QED
    BY <1>2, <1>4, <2>1, <2>4, <2>6 DEF Deque
<1>13. QED
  BY <1>2, <1>3, <1>11, <1>12

-----------------------------------------------------------------------------
(* The rate limiter's part of the inductive invariant.                      *)

\* When each request was stamped and when its failure was recorded.
NowOf    == [q \in Request |-> req[q].now]
FailedOf == [q \in Request |-> req[q].failed]

Failed == {q \in Request : req[q].failed # None}

\* A login under way knows its keys, and so does a recorded failure, which was
\* stamped no later than it was recorded.
Attempt(q) ==
    /\ req[q].failed # None
          => /\ req[q].pc = "done" /\ req[q].browser \in Browser /\ req[q].email \in Email
             /\ req[q].now <= req[q].failed /\ req[q].failed <= clock
    /\ req[q].route = "login" /\ req[q].pc \notin {"done", "lost"}
          => req[q].browser \in Browser /\ req[q].email \in Email

DequeOf(k) == Deque(stamps[k], Failures(k), NowOf, FailedOf, Threshold(k), clock - Window)

LimiterInv ==
    /\ stamps = [k \in Key |-> stamps[k]]
    /\ IsFiniteSet(Failed)
    /\ \A q \in Request : Attempt(q) /\ \A k \in Key : <<q, k>> \in forgiven => q \in Failed
    /\ \A k \in Key : DequeOf(k)

LEMMA KeyFacts ==
    /\ \A b \in Browser, e \in Email : KeySet(b, e) \subseteq Key
    /\ \A k \in Key : Threshold(k) \in Nat \ {0}
    /\ Window \in Nat
<1>1. \A b \in Browser, e \in Email : KeySet(b, e) \subseteq Key
  BY AuthAssumption DEF KeySet, Key
<1>2. ASSUME NEW k \in Key
      PROVE  Threshold(k) \in Nat \ {0}
  <2>1. k[1] \in {"pair", "ip", "email"}
    BY DEF Key, PairKey, AddressKey, EmailKey
  <2>2. PairLimit \in Nat \ {0} /\ AddressLimit \in Nat \ {0} /\ EmailLimit \in Nat \ {0}
    BY LimitsAssumption
  <2>3. QED
    BY <2>1, <2>2 DEF Threshold
<1>3. QED
  BY <1>1, <1>2, LimitsAssumption

\* The times of a failure are numbers.
LEMMA FailureTimes ==
    ASSUME Types, LimiterInv, NEW q \in Request, req[q].failed # None
    PROVE  /\ NowOf[q] = req[q].now /\ FailedOf[q] = req[q].failed
           /\ req[q].now \in Nat /\ req[q].failed \in Nat
           /\ req[q].now <= req[q].failed /\ req[q].failed <= clock
<1>1. req[q] \in RequestState /\ Attempt(q)
  BY DEF Types, Requests, LimiterInv
<1>2. QED
  BY <1>1 DEF NowOf, FailedOf, RequestState, Attempt

-----------------------------------------------------------------------------
(* What a step keeps of a request's attempt.                               *)

KeepsInput(r) ==
    /\ req'[r].failed = req[r].failed
    /\ \/ req'[r].pc = "done"
       \/ /\ req'[r].route = req[r].route
          /\ req'[r].browser = req[r].browser /\ req'[r].email = req[r].email

LEMMA InputReply ==
    ASSUME Requests, NEW r \in Request, NEW code, Reply(r, code)
    PROVE  KeepsInput(r)
<1> DEFINE q == [req[r] EXCEPT !.answer = code]
<1>1. q.failed = req[r].failed
  BY DEF Requests, RequestState
<1>2. req'[r] = Ended(q, "done")
  BY DEF Reply, Requests
<1> HIDE DEF q
<1>3. QED
  BY <1>1, <1>2 DEF Ended, KeepsInput

LEMMA InputGoto ==
    ASSUME Requests, NEW r \in Request, NEW pc, Goto(r, pc) \/ GotoNow(r, pc)
    PROVE  KeepsInput(r)
<1>1. \/ req'[r] = [req[r] EXCEPT !.pc = pc]
      \/ req'[r] = [req[r] EXCEPT !.pc = pc, !.now = clock]
  BY DEF Goto, GotoNow, Requests
<1>2. QED
  BY <1>1 DEF KeepsInput, Requests, RequestState

LEMMA InputStep ==
    ASSUME Requests, NEW r \in Request, Step(r), ~Fail(r)
    PROVE  KeepsInput(r)
<1>1. req[r] \in RequestState
  BY DEF Requests
<1>2. CASE AdmitAttempt(r) \/ RefuseAttempt(r) \/ LookupFails(r)
  BY <1>2, InputReply, InputGoto DEF AdmitAttempt, RefuseAttempt, LookupFails
<1>3. CASE Lookup(r)
  <2>1. PICK u : req'[r] = [req[r] EXCEPT !.pc = "acquire", !.user = u]
    BY <1>3 DEF Lookup, Requests
  <2>2. QED
    BY <1>1, <2>1 DEF KeepsInput, RequestState
<1>4. CASE TakeSlot(r) \/ Queue(r) \/ Wait(r) \/ Leave(r)
  BY <1>4, InputReply, InputGoto DEF TakeSlot, Queue, Wait, Leave
<1>5. CASE Verify(r) \/ LeaveSlot(r)
  BY <1>5, InputReply, InputGoto DEF Verify, LeaveSlot
<1>6. CASE CreateUser(r) \/ CreateUserFails(r)
  <2>1. PICK code \in {201, 409, 503} :
           req' = [req EXCEPT ![r].pc = "release", ![r].answer = code]
    BY <1>6 DEF CreateUser, CreateUserFails
  <2>2. req'[r] = [req[r] EXCEPT !.pc = "release", !.answer = code]
    BY <2>1 DEF Requests
  <2>3. QED
    BY <1>1, <2>2 DEF KeepsInput, RequestState
<1>7. CASE Succeed(r)
  BY <1>7, InputGoto DEF Succeed
<1>8. CASE Revoke(r)
  <2>1. PICK pc, code : req' = [req EXCEPT ![r].pc = pc, ![r].now = clock,
                                           ![r].revoked = TRUE, ![r].answer = code]
    BY <1>8 DEF Revoke
  <2>2. req'[r] = [req[r] EXCEPT !.pc = pc, !.now = clock, !.revoked = TRUE, !.answer = code]
    BY <2>1 DEF Requests
  <2>3. QED
    BY <1>1, <2>2 DEF KeepsInput, RequestState
<1>9. CASE RevokeFails(r)
  <2>1. CASE GotoNow(r, "create")
    BY <2>1, InputGoto
  <2>2. CASE Send(r, 503)
    <3>1. req'[r] = [req[r] EXCEPT !.pc = "deliver", !.answer = 503]
      BY <2>2 DEF Send, Requests
    <3>2. QED
      BY <1>1, <3>1 DEF KeepsInput, RequestState
  <2>3. QED
    BY <1>9, <2>1, <2>2 DEF RevokeFails
<1>10. CASE Create(r)
  <2>1. PICK n : req'[r] = [req[r] EXCEPT !.pc = "deliver", !.answer = 200, !.minted = n]
    BY <1>10 DEF Create, Requests
  <2>2. QED
    BY <1>1, <2>1 DEF KeepsInput, RequestState
<1>11. CASE CreateFails(r) \/ Deliver(r) \/ BeginFails(r) \/ Drop(r) \/ DecideFails(r)
            \/ ShowUser(r) \/ ShowUserFails(r)
  BY <1>11, InputReply DEF CreateFails, Deliver, BeginFails, Drop, DecideFails,
                           ShowUser, ShowUserFails
<1>12. CASE Begin(r)
  <2>1. PICK w : req'[r] = [req[r] EXCEPT !.pc = "decide", !.row = w]
    BY <1>12 DEF Begin, Requests
  <2>2. QED
    BY <1>1, <2>1 DEF KeepsInput, RequestState
<1>13. CASE Accept(r)
  <2>1. PICK u : req'[r] = [req[r] EXCEPT !.pc = "user", !.user = u, !.row = None]
    BY <1>13 DEF Accept, Requests
  <2>2. QED
    BY <1>1, <2>1 DEF KeepsInput, RequestState
<1>14. QED
  BY <1>2, <1>3, <1>4, <1>5, <1>6, <1>7, <1>8, <1>9, <1>10, <1>11, <1>12, <1>13 DEF Step

-----------------------------------------------------------------------------
(* What becomes of the failures and of their stamps.                       *)

\* Nobody fails in this step, and time does not go back.
NoFailure ==
    /\ Requests' /\ clock' \in Nat /\ clock <= clock'
    /\ \A q \in Request : \/ req'[q] = req[q]
                          \/ req[q].failed = None /\ req'[q].failed = None

LEMMA EdgeMoves ==
    \A c, d, n \in Nat : c <= d => c - n \in Int /\ d - n \in Int /\ c - n <= d - n
OBVIOUS

\* The failures under a key nothing new is forgiven of stay what they are, and
\* so does what a deque knows of them.
LEMMA FailuresStay ==
    ASSUME Types, LimiterInv, NoFailure, NEW k \in Key,
           \A q \in Request : <<q, k>> \in forgiven' <=> <<q, k>> \in forgiven,
           NEW s, NEW n, Deque(s, Failures(k), NowOf, FailedOf, n, clock - Window)
    PROVE  Deque(s, Failures(k)', NowOf', FailedOf', n, clock' - Window)
<1>1. Failures(k)' = Failures(k)
  <2>1. \A q \in Request : req[q].failed # None \/ req'[q].failed # None => req'[q] = req[q]
    BY DEF NoFailure
  <2>2. QED
    BY <2>1 DEF Failures
<1>2. ASSUME NEW q \in Failures(k)
      PROVE  NowOf'[q] = NowOf[q] /\ FailedOf'[q] = FailedOf[q]
  <2>1. q \in Request /\ req[q].failed # None
    BY DEF Failures
  <2>2. req'[q] = req[q]
    BY <2>1 DEF NoFailure
  <2>3. QED
    BY <2>1, <2>2 DEF NowOf, FailedOf
<1>3. PICK F, at, rec, at2, rec2 : /\ F = Failures(k) /\ at = NowOf /\ rec = FailedOf
                                   /\ at2 = NowOf' /\ rec2 = FailedOf'
  OBVIOUS
<1>4. clock \in Nat /\ clock' \in Nat /\ clock <= clock' /\ Window \in Nat
  BY KeyFacts DEF Types, NoFailure
<1>5. PICK edge \in Int, later \in Int :
         edge = clock - Window /\ later = clock' - Window /\ edge <= later
  BY <1>4, EdgeMoves
<1>6. Deque(s, F, at, rec, n, later)
  BY <1>3, <1>5, LaterEdge
<1>7. Deque(s, F, at2, rec2, n, later)
  BY <1>2, <1>3, <1>6, SameTimes
<1>8. QED
  BY <1>1, <1>3, <1>5, <1>7

\* Nor do the attempts change, but that of a request r that goes on.
LEMMA AttemptsStay ==
    ASSUME Types, LimiterInv, NoFailure,
           \A q \in Request : req'[q] = req[q] \/ Attempt(q)'
    PROVE  Failed' = Failed /\ \A q \in Request : Attempt(q)'
<1>1. Failed' = Failed
  BY DEF NoFailure, Failed
<1>2. ASSUME NEW q \in Request, req'[q] = req[q]
      PROVE  Attempt(q)'
  <2>1. Attempt(q) /\ req[q] \in RequestState
    BY DEF LimiterInv, Types, Requests
  <2>2. req[q].failed # None => req[q].failed \in Nat /\ req[q].failed <= clock'
    BY <2>1, FailureTimes DEF NoFailure, Types
  <2>3. QED
    BY <1>2, <2>1, <2>2 DEF Attempt
<1>3. QED
  BY <1>1, <1>2

\* A step that leaves the stamps and what is forgiven alone.
LEMMA LimiterIdle ==
    ASSUME Types, LimiterInv, NoFailure, UNCHANGED <<stamps, forgiven>>,
           \A q \in Request : req'[q] = req[q] \/ Attempt(q)'
    PROVE  LimiterInv'
<1>1. Failed' = Failed /\ \A q \in Request : Attempt(q)'
  BY AttemptsStay
<1>2. ASSUME NEW k \in Key
      PROVE  DequeOf(k)'
  <2>1. Deque(stamps[k], Failures(k), NowOf, FailedOf, Threshold(k), clock - Window)
    BY DEF LimiterInv, DequeOf
  <2>2. Deque(stamps[k], Failures(k)', NowOf', FailedOf', Threshold(k), clock' - Window)
    BY <2>1, FailuresStay
  <2>3. QED
    BY <2>2 DEF DequeOf
<1>3. QED
  BY <1>1, <1>2 DEF LimiterInv

\* What a request that keeps its input makes of its attempt.
LEMMA AttemptGoesOn ==
    ASSUME Types, LimiterInv, NEW r \in Request, KeepsInput(r),
           req[r].failed = None, req[r].pc \notin {"done", "lost"}
    PROVE  req'[r].failed = None /\ Attempt(r)'
<1>1. Attempt(r)
  BY DEF LimiterInv
<1>2. QED
  BY <1>1 DEF KeepsInput, Attempt

\* Whoever takes a step has not failed.
LEMMA AliveStep ==
    ASSUME Types, LimiterInv, NEW r \in Request, Arrive(r) \/ Step(r)
    PROVE  req[r].failed = None /\ req[r].pc \notin {"done", "lost"}
<1>1. req[r].pc \notin {"done", "lost"}
  <2>1. CASE Arrive(r)
    BY <2>1 DEF Arrive, Login, Register, Logout, Me, At
  <2>2. CASE \/ AdmitAttempt(r) \/ RefuseAttempt(r) \/ Lookup(r) \/ LookupFails(r)
             \/ TakeSlot(r) \/ Queue(r) \/ Wait(r) \/ Leave(r)
    BY <2>2 DEF AdmitAttempt, RefuseAttempt, Lookup, LookupFails, TakeSlot, Queue, Wait,
                Leave, At
  <2>3. CASE \/ Verify(r) \/ CreateUser(r) \/ CreateUserFails(r) \/ LeaveSlot(r)
             \/ Fail(r) \/ Succeed(r) \/ Revoke(r) \/ RevokeFails(r)
    BY <2>3 DEF Verify, CreateUser, CreateUserFails, LeaveSlot, Fail, Succeed, Revoke,
                RevokeFails, At
  <2>4. CASE \/ Create(r) \/ CreateFails(r) \/ Deliver(r) \/ Begin(r) \/ BeginFails(r)
             \/ Accept(r) \/ Drop(r) \/ DecideFails(r) \/ ShowUser(r) \/ ShowUserFails(r)
    BY <2>4 DEF Create, CreateFails, Deliver, Begin, BeginFails, Accept, Drop, DecideFails,
                ShowUser, ShowUserFails, At
  <2>5. QED
    BY <2>1, <2>2, <2>3, <2>4 DEF Step
<1>2. Attempt(r)
  BY DEF LimiterInv
<1>3. QED
  BY <1>1, <1>2 DEF Attempt

-----------------------------------------------------------------------------
(* The steps of the rate limiter.                                          *)

\* A deque that is pruned for a time already past still accounts for everything.
LEMMA PruneStep ==
    ASSUME Types, LimiterInv, NEW k \in Key, NEW now \in Nat, now <= clock
    PROVE  Deque(Pruned(k, now), Failures(k), NowOf, FailedOf, Threshold(k), clock - Window)
<1>0. PICK s, F, at, rec :
         s = stamps[k] /\ F = Failures(k) /\ at = NowOf /\ rec = FailedOf
  OBVIOUS
<1>1. PICK n \in Nat \ {0} : n = Threshold(k)
  BY KeyFacts
<1>2. clock \in Nat /\ Window \in Nat
  BY KeyFacts DEF Types
<1>3. PICK edge \in Int : edge = clock - Window /\ now - Window <= edge
  <2>1. clock - Window \in Int /\ now - Window <= clock - Window
    BY <1>2
  <2>2. QED
    BY <2>1
<1>4. Deque(s, F, at, rec, n, edge)
  BY <1>0, <1>1, <1>3 DEF LimiterInv, DequeOf
<1>5. s \in Seq(Nat)
  BY <1>4 DEF Deque
<1>6. PICK m \in Nat \ {0} :
         /\ m <= Len(s) + 1
         /\ Pruned(k, now) = SubSeq(s, m, Len(s))
         /\ \A i \in 1 .. m - 1 : s[i] <= now - Window
  <2>1. stamps[k] \in Seq(Nat) /\ now \in Int
    BY <1>0, <1>5
  <2>2. \E m \in Nat \ {0} :
           /\ m <= Len(stamps[k]) + 1
           /\ Pruned(k, now) = SubSeq(stamps[k], m, Len(stamps[k]))
           /\ \A i \in 1 .. m - 1 : stamps[k][i] <= now - Window
           /\ m <= Len(stamps[k]) => stamps[k][m] > now - Window
    BY <2>1, PrunedSuffix
  <2>3. QED
    BY <1>0, <2>2
<1>7. \A i \in 1 .. m - 1 : s[i] <= edge
  <2>1. Len(s) \in Nat /\ \A i \in 1 .. Len(s) : s[i] \in Nat
    BY <1>5, LenProperties, ElementOfSeq
  <2>2. now - Window \in Int
    BY <1>2
  <2>3. ASSUME NEW i \in 1 .. m - 1
        PROVE  s[i] <= edge
    <3>1. i \in 1 .. Len(s)
      BY <1>6, <2>1
    <3>2. s[i] \in Nat /\ s[i] <= now - Window
      BY <1>6, <2>1, <3>1
    <3>3. QED
      BY <1>3, <2>2, <3>2
  <2>4. QED
    BY <2>3
<1>8. Deque(SubSeq(s, m, Len(s)), F, at, rec, n, edge)
  BY <1>4, <1>6, <1>7, DropFirst
<1>9. QED
  BY <1>0, <1>1, <1>3, <1>6, <1>8

\* The check before the password.
LEMMA RetryAfterStep ==
    ASSUME Types, LimiterInv, NoFailure, UNCHANGED forgiven,
           \A q \in Request : req'[q] = req[q] \/ Attempt(q)',
           NEW a, NEW e, NEW now \in Nat, now <= clock, RetryAfter(a, e, now)
    PROVE  LimiterInv'
<1>1. Failed' = Failed /\ \A q \in Request : Attempt(q)'
  BY AttemptsStay
<1>2. \A k \in Key : stamps'[k] \in {stamps[k], Pruned(k, now)}
  BY DEF RetryAfter
<1>3. ASSUME NEW k \in Key
      PROVE  DequeOf(k)'
  <2>1. Deque(stamps[k], Failures(k), NowOf, FailedOf, Threshold(k), clock - Window)
    BY DEF LimiterInv, DequeOf
  <2>2. PICK s : s = stamps'[k]
    OBVIOUS
  <2>3. Deque(s, Failures(k), NowOf, FailedOf, Threshold(k), clock - Window)
    BY <1>2, <2>1, <2>2, PruneStep
  <2>4. Deque(s, Failures(k)', NowOf', FailedOf', Threshold(k), clock' - Window)
    BY <2>3, FailuresStay
  <2>5. QED
    BY <2>2, <2>4 DEF DequeOf
<1>4. \A q \in Request, k \in Key : <<q, k>> \in forgiven' => q \in Failed'
  BY <1>1 DEF LimiterInv
<1>5. IsFiniteSet(Failed')
  BY <1>1 DEF LimiterInv
<1>6. stamps' = [k \in Key |-> stamps'[k]]
  BY DEF RetryAfter
<1>7. QED
  BY <1>1, <1>3, <1>4, <1>5, <1>6 DEF LimiterInv

\* A key without failures.
LEMMA NothingLeft ==
    ASSUME NEW k \in Key, stamps'[k] = <<>>, Failures(k)' = {}
    PROVE  DequeOf(k)'
BY EmptyDeque, KeyFacts DEF DequeOf

\* A success wipes out the failures of the pair.
LEMMA SucceedStep ==
    ASSUME Types, LimiterInv, NoFailure, NEW r \in Request, Succeed(r),
           req[r].route = "login",
           \A q \in Request : req'[q] = req[q] \/ Attempt(q)'
    PROVE  LimiterInv'
<1>1. Failed' = Failed /\ \A q \in Request : Attempt(q)'
  BY AttemptsStay
<1>2. PICK p \in Key : p = PairKey(req[r].browser, req[r].email)
  <2>1. req[r].browser \in Browser /\ req[r].email \in Email
    <3>1. Attempt(r) /\ req[r].pc = "recordSuccess"
      BY DEF LimiterInv, Succeed, At
    <3>2. QED
      BY <3>1 DEF Attempt
  <2>2. QED
    BY <2>1, KeyFacts DEF KeySet
<1>3. /\ stamps' = [stamps EXCEPT ![p] = <<>>]
      /\ forgiven' = forgiven \cup {<<q, k>> : q \in Failures(p), k \in {p}}
  BY <1>2 DEF Succeed, RecordSuccess
<1>4. /\ stamps' = [k \in Key |-> stamps'[k]] /\ stamps'[p] = <<>>
      /\ \A k \in Key \ {p} : stamps'[k] = stamps[k]
  <2>1. stamps = [k \in Key |-> stamps[k]]
    BY DEF LimiterInv
  <2>2. QED
    BY <1>3, <2>1
<1>5. ASSUME NEW k \in Key
      PROVE  DequeOf(k)'
  <2>1. CASE k = p
    <3>1. \A q \in Failures(p) : <<q, p>> \in forgiven'
      BY <1>3
    <3>2. \A q \in Request : req'[q].failed # None => req'[q] = req[q]
      BY DEF NoFailure
    <3>3. Failures(p)' = {}
      BY <1>3, <3>1, <3>2 DEF Failures
    <3>4. QED
      BY <1>4, <2>1, <3>3, NothingLeft
  <2>2. CASE k # p
    <3>1. \A q \in Request : <<q, k>> \in forgiven' <=> <<q, k>> \in forgiven
      BY <1>3, <2>2
    <3>2. Deque(stamps[k], Failures(k), NowOf, FailedOf, Threshold(k), clock - Window)
      BY DEF LimiterInv, DequeOf
    <3>3. Deque(stamps[k], Failures(k)', NowOf', FailedOf', Threshold(k), clock' - Window)
      BY <3>1, <3>2, FailuresStay
    <3>4. QED
      BY <1>4, <2>2, <3>3 DEF DequeOf
  <2>3. QED
    BY <2>1, <2>2
<1>6. ASSUME NEW q \in Request, NEW k \in Key, <<q, k>> \in forgiven'
      PROVE  q \in Failed'
  <2>1. Failures(p) \subseteq Failed
    BY DEF Failures, Failed
  <2>2. <<q, k>> \in forgiven \/ q \in Failures(p)
    BY <1>3, <1>6
  <2>3. <<q, k>> \in forgiven => q \in Failed
    BY DEF LimiterInv
  <2>4. QED
    BY <1>1, <2>1, <2>2, <2>3
<1>7. QED
  BY <1>1, <1>4, <1>5, <1>6 DEF LimiterInv

\* A restart forgets and forgives everything.
LEMMA RestartLimits ==
    ASSUME Types, LimiterInv, Restart
    PROVE  LimiterInv'
<1>1. \A q \in Request : /\ req'[q].failed = req[q].failed
                         /\ req[q].failed # None => req'[q] = req[q]
                         /\ req'[q] = req[q] \/ req'[q].pc = "lost"
  <2>1. ASSUME NEW q \in Request
        PROVE  req'[q] = req[q] \/ req'[q] = Ended(req[q], "lost")
    BY DEF Restart
  <2>2. \A q \in Request : req[q].failed # None => req[q].pc = "done"
    BY DEF LimiterInv, Attempt
  <2>3. \A q \in Request : req[q].pc = "done" => req'[q] = req[q]
    BY DEF Restart
  <2>4. \A q \in Request : Ended(req[q], "lost").failed = req[q].failed
                           /\ Ended(req[q], "lost").pc = "lost"
    BY DEF Ended
  <2>5. QED
    BY <2>1, <2>2, <2>3, <2>4
<1>2. Failed' = Failed /\ clock' = clock
  BY <1>1 DEF Failed, Restart
<1>3. ASSUME NEW q \in Request
      PROVE  Attempt(q)'
  <2>1. Attempt(q)
    BY DEF LimiterInv
  <2>2. QED
    BY <1>1, <1>2, <2>1 DEF Attempt
<1>4. forgiven' = Failed \X Key
  BY DEF Restart, Failed
<1>5. ASSUME NEW k \in Key
      PROVE  DequeOf(k)'
  <2>1. stamps'[k] = <<>>
    BY DEF Restart, LimitsReset
  <2>2. Failures(k)' = {}
    BY <1>1, <1>4 DEF Failures, Failed
  <2>3. QED
    BY <2>1, <2>2, NothingLeft
<1>6. stamps' = [k \in Key |-> stamps'[k]]
  BY DEF Restart, LimitsReset
<1>7. QED
  BY <1>2, <1>3, <1>4, <1>5, <1>6 DEF LimiterInv

\* What Fail makes of the request.
LEMMA FailInput ==
    ASSUME Types, LimiterInv, NEW r \in Request, Fail(r), req[r].route = "login"
    PROVE  /\ req[r].browser \in Browser /\ req[r].email \in Email /\ req[r].failed = None
           /\ req'[r].browser = req[r].browser /\ req'[r].email = req[r].email
           /\ req'[r].now = req[r].now /\ req'[r].failed = clock /\ req'[r].pc = "done"
<1>1. req[r].pc = "recordFailure" /\ Attempt(r) /\ clock # None
  BY Sentinel DEF Fail, At, LimiterInv, Types
<1> DEFINE q == [req[r] EXCEPT !.answer = 401, !.failed = clock]
<1>2. q.browser = req[r].browser /\ q.email = req[r].email /\ q.now = req[r].now
      /\ q.failed = clock
  BY DEF Types, Requests, RequestState
<1>3. req'[r] = Ended(q, "done")
  BY DEF Fail, Types, Requests
<1> HIDE DEF q
<1>4. QED
  BY <1>1, <1>2, <1>3 DEF Ended, Attempt

\* A failure is recorded under the keys of its attempt that are not evicted.
LEMMA FailStep ==
    ASSUME Types, LimiterInv, NEW r \in Request, Fail(r), Requests', Only(r),
           req[r].route = "login", req[r].now <= clock
    PROVE  LimiterInv'
<1>1. PICK b \in Browser, e \in Email, now \in Nat :
         b = req[r].browser /\ e = req[r].email /\ now = req[r].now
  BY FailInput DEF Types, Requests, RequestState
<1>2. /\ req[r].failed = None /\ r \notin Failed
      /\ req'[r].browser = b /\ req'[r].email = e /\ req'[r].now = now
      /\ req'[r].failed = clock /\ req'[r].pc = "done"
  BY <1>1, FailInput DEF Failed
<1>3. clock \in Nat /\ clock' = clock /\ clock # None /\ now <= clock
  BY <1>1, Sentinel DEF Fail, Types
<1>4. \A q \in Request \ {r} : req'[q] = req[q]
  BY DEF Only
<1>5. Failed' = Failed \cup {r} /\ IsFiniteSet(Failed')
  <2>1. Failed' = Failed \cup {r}
    BY <1>2, <1>3, <1>4 DEF Failed
  <2>2. IsFiniteSet(Failed)
    BY DEF LimiterInv
  <2>3. QED
    BY <2>1, <2>2, FS_AddElement
<1>6. ASSUME NEW q \in Request
      PROVE  Attempt(q)'
  <2>1. CASE q = r
    BY <1>1, <1>2, <1>3, <2>1 DEF Attempt
  <2>2. CASE q # r
    <3>1. req'[q] = req[q] /\ Attempt(q)
      BY <1>4, <2>2 DEF LimiterInv
    <3>2. QED
      BY <1>3, <3>1 DEF Attempt
  <2>3. QED
    BY <2>1, <2>2
<1>7. PICK E : /\ E = Evicted(b, e)
               /\ forgiven' = forgiven \cup (Failed' \X E)
  BY <1>1 DEF Fail, Failed
<1>8. /\ stamps' = [k \in Key |-> stamps'[k]]
      /\ \A k \in Key : stamps'[k] = IF k \in E THEN <<>>
                                     ELSE IF k \in KeySet(b, e)
                                     THEN LastOf(Append(Pruned(k, now), now), Threshold(k))
                                     ELSE stamps[k]
  BY <1>1, <1>7 DEF Fail, RecordFailure
<1>9. ASSUME NEW k \in Key
      PROVE  DequeOf(k)'
  <2>1. CASE k \in E
    <3>1. \A q \in Failed' : <<q, k>> \in forgiven'
      BY <1>7, <2>1
    <3>2. Failures(k)' = {}
      BY <3>1 DEF Failures, Failed
    <3>3. QED
      BY <1>8, <2>1, <3>2, NothingLeft
  <2>2. CASE k \notin E
    <3>1. \A q \in Request : <<q, k>> \in forgiven' <=> <<q, k>> \in forgiven
      BY <1>7, <2>2
    <3>2. <<r, k>> \notin forgiven
      BY <1>2 DEF LimiterInv
    <3>3. Failures(k)' = Failures(k) \cup (IF k \in KeySet(b, e) THEN {r} ELSE {})
      <4>1. \A q \in Request \ {r} : q \in Failures(k)' <=> q \in Failures(k)
        BY <1>4, <3>1 DEF Failures
      <4>2. r \in Failures(k)' <=> k \in KeySet(b, e)
        BY <1>2, <1>3, <3>1, <3>2 DEF Failures
      <4>3. r \notin Failures(k) /\ Failures(k) \subseteq Request /\ Failures(k)' \subseteq Request
        BY <1>2 DEF Failures
      <4>4. QED
        BY <4>1, <4>2, <4>3
    <3>4. PICK F, at, rec, at2, rec2 :
             /\ F = Failures(k) /\ at = NowOf /\ rec = FailedOf
             /\ at2 = NowOf' /\ rec2 = FailedOf'
      OBVIOUS
    <3>5. \A q \in F : /\ at2[q] = at[q] /\ rec2[q] = rec[q]
                       /\ rec2[q] \in Nat /\ rec2[q] <= clock
      <4>1. ASSUME NEW q \in F
            PROVE  /\ at2[q] = at[q] /\ rec2[q] = rec[q]
                   /\ rec2[q] \in Nat /\ rec2[q] <= clock
        <5>1. q \in Request /\ req[q].failed # None /\ q # r
          BY <1>2, <3>4 DEF Failures
        <5>2. req'[q] = req[q]
          BY <1>4, <5>1
        <5>3. req[q].failed \in Nat /\ req[q].failed <= clock
          BY <5>1, FailureTimes
        <5>4. QED
          BY <3>4, <5>1, <5>2, <5>3 DEF NowOf, FailedOf
      <4>2. QED
        BY <4>1
    <3>6. PICK edge \in Int, n \in Nat \ {0} : edge = clock - Window /\ n = Threshold(k)
      BY <1>3, KeyFacts, EdgeMoves
    <3>7. CASE k \in KeySet(b, e)
      <4>1. PICK s : s = Pruned(k, now)
        OBVIOUS
      <4>2. Deque(s, F, at, rec, n, edge)
        BY <1>3, <3>4, <3>6, <4>1, PruneStep
      <4>3. Deque(s, F, at2, rec2, n, edge)
        BY <3>5, <4>2, SameTimes
      <4>4. /\ r \notin F /\ at2[r] = now /\ rec2[r] = clock
        BY <1>2, <3>4 DEF Failures, NowOf, FailedOf
      <4>5. Deque(LastOf(Append(s, at2[r]), n), F \cup {r}, at2, rec2, n, edge)
        BY <1>3, <3>5, <4>3, <4>4, PushDeque
      <4>6. stamps'[k] = LastOf(Append(s, at2[r]), n) /\ Failures(k)' = F \cup {r}
        BY <1>8, <2>2, <3>3, <3>4, <3>6, <3>7, <4>1, <4>4
      <4>7. QED
        BY <1>3, <3>4, <3>6, <4>5, <4>6 DEF DequeOf
    <3>8. CASE k \notin KeySet(b, e)
      <4>1. PICK s : s = stamps[k]
        OBVIOUS
      <4>2. Deque(s, F, at, rec, n, edge)
        BY <3>4, <3>6, <4>1 DEF LimiterInv, DequeOf
      <4>3. Deque(s, F, at2, rec2, n, edge)
        BY <3>5, <4>2, SameTimes
      <4>4. stamps'[k] = s /\ Failures(k)' = F
        BY <1>8, <2>2, <3>3, <3>4, <3>8, <4>1
      <4>5. QED
        BY <1>3, <3>4, <3>6, <4>3, <4>4 DEF DequeOf
    <3>9. QED
      BY <3>7, <3>8
  <2>3. QED
    BY <2>1, <2>2
<1>10. ASSUME NEW q \in Request, NEW k \in Key, <<q, k>> \in forgiven'
       PROVE  q \in Failed'
  <2>1. <<q, k>> \in forgiven => q \in Failed
    BY DEF LimiterInv
  <2>2. QED
    BY <1>5, <1>7, <1>10, <2>1
<1>11. QED
  BY <1>5, <1>6, <1>8, <1>9, <1>10 DEF LimiterInv

-----------------------------------------------------------------------------
(* Any step.                                                               *)

LEMMA InitLimiter == Init => LimiterInv
<1> SUFFICES ASSUME Init PROVE LimiterInv
  OBVIOUS
<1>1. \A q \in Request : req[q].failed = None /\ req[q].pc = "new" /\ req[q].route = "none"
  BY DEF Init, NewRequest
<1>2. stamps = [k \in Key |-> <<>>] /\ forgiven = {}
  BY DEF Init, LimitsInit
<1>3. IsFiniteSet(Failed)
  <2>1. Failed = {}
    BY <1>1 DEF Failed
  <2>2. QED
    BY <2>1, FS_EmptySet
<1>4. \A q \in Request : Attempt(q)
  BY <1>1 DEF Attempt
<1>5. ASSUME NEW k \in Key
      PROVE  DequeOf(k)
  <2>1. Failures(k) = {} /\ stamps[k] = <<>>
    BY <1>1, <1>2 DEF Failures
  <2>2. QED
    BY <2>1, EmptyDeque, KeyFacts DEF DequeOf
<1>6. QED
  BY <1>2, <1>3, <1>4, <1>5 DEF LimiterInv

\* A request that has just arrived has its input.
LEMMA ArriveAttempt ==
    ASSUME Types, LimiterInv, NEW r \in Request, Arrive(r)
    PROVE  req'[r].failed = None /\ Attempt(r)'
<1>1. req[r].failed = None
  BY AliveStep
<1>2. ASSUME NEW b \in Browser, NEW e \in Email, NEW g \in BOOLEAN, Login(r, b, e, g)
      PROVE  req'[r].failed = None /\ req'[r].browser = b /\ req'[r].email = e
  <2>1. req'[r] = [req[r] EXCEPT !.pc = "retryAfter", !.route = "login", !.browser = b,
                                 !.email = e, !.guess = g, !.token = cookie[b], !.now = clock]
    BY <1>2 DEF Login, Types, Requests
  <2>2. QED
    BY <1>1, <2>1 DEF Types, Requests, RequestState
<1>3. ASSUME NEW a \in Account, Register(r, a)
      PROVE  req'[r].failed = None /\ req'[r].route = "register"
  BY <1>1, <1>3, RegisterState DEF Keeps
<1>4. ASSUME NEW b \in Browser, Logout(r, b)
      PROVE  req'[r].failed = None /\ req'[r].route = "logout"
  BY <1>1, <1>4, LogoutState DEF Keeps
<1>5. ASSUME NEW b \in Browser, Me(r, b)
      PROVE  req'[r].failed = None /\ req'[r].route = "me"
  BY <1>1, <1>5, MeState DEF Keeps
<1>6. QED
  BY <1>2, <1>3, <1>4, <1>5 DEF Arrive, Attempt

\* Which steps touch the limiter.
LEMMA LimiterFrame ==
    ASSUME NEW r \in Request, Arrive(r) \/ Step(r),
           ~Fail(r), ~Succeed(r), ~AdmitAttempt(r), ~RefuseAttempt(r)
    PROVE  UNCHANGED <<stamps, order, forgiven, clock, faults>>
<1>1. CASE \/ Arrive(r) \/ Lookup(r) \/ LookupFails(r) \/ CreateUserFails(r) \/ RevokeFails(r)
           \/ CreateFails(r) \/ BeginFails(r) \/ ShowUser(r) \/ ShowUserFails(r)
  BY <1>1 DEF Arrive, Login, Register, Logout, Me, Lookup, LookupFails, CreateUserFails,
              RevokeFails, CreateFails, BeginFails, ShowUser, ShowUserFails, OnlyReq,
              OnlyLimits, limits
<1>2. CASE TakeSlot(r) \/ Queue(r) \/ Wait(r) \/ Leave(r) \/ Verify(r) \/ LeaveSlot(r)
  BY <1>2 DEF TakeSlot, Queue, Wait, Leave, Verify, LeaveSlot, OnlyLimits, AcquireNow, NoSlot,
              JoinQueue, AcquireFromQueue, TimeOut, LeaveQueue, GiveUp, Release, limits
<1>3. CASE \/ CreateUser(r) \/ Revoke(r) \/ Create(r) \/ Deliver(r) \/ Begin(r)
           \/ Accept(r) \/ Drop(r) \/ DecideFails(r)
  BY <1>3 DEF CreateUser, Revoke, Create, Deliver, Begin, Accept, Drop, DecideFails,
              OnlyStore, limits
<1>4. QED
  BY <1>1, <1>2, <1>3 DEF Step

LEMMA NextLimiter ==
    ASSUME IInv, LimiterInv, [Next]_vars
    PROVE  LimiterInv'
<1>1. Types /\ Types' /\ clock \in Nat /\ clock' \in Nat
  BY NextIInv DEF IInv, Types
<1>2. ASSUME NEW r \in Request, Arrive(r) \/ Step(r)
      PROVE  LimiterInv'
  <2>1. Own(r) /\ Stored /\ Only(r) /\ Requests'
    BY <1>2, OwnStep, StoredStep DEF Own
  <2>2. Path(r) /\ req[r].now \in Nat /\ req[r].now <= clock
    BY <1>1 DEF IInv, Path, Types, Requests, RequestState
  <2>3. req[r].failed = None /\ req[r].pc \notin {"done", "lost"}
    BY <1>1, <1>2, AliveStep
  <2>4. CASE Fail(r)
    <3>1. req[r].route = "login"
      BY <2>2, <2>4 DEF Path, Fail, At
    <3>2. QED
      BY <1>1, <2>1, <2>2, <2>4, <3>1, FailStep
  <2>5. CASE ~Fail(r)
    <3>1. req'[r].failed = None /\ Attempt(r)'
      BY <1>1, <1>2, <2>3, <2>5, InputStep, AttemptGoesOn, ArriveAttempt DEF Types
    <3>2. clock' = clock \/ clock <= clock'
      BY <2>1 DEF Stored, Forward
    <3>3. NoFailure
      BY <1>1, <2>1, <2>3, <3>1, <3>2 DEF NoFailure, Only
    <3>4. \A q \in Request : req'[q] = req[q] \/ Attempt(q)'
      BY <2>1, <3>1 DEF Only
    <3>5. CASE AdmitAttempt(r) \/ RefuseAttempt(r)
      <4>1. /\ RetryAfter(req[r].browser, req[r].email, req[r].now)
            /\ UNCHANGED forgiven
        BY <3>5 DEF AdmitAttempt, RefuseAttempt, OnlyLimits
      <4>2. QED
        BY <1>1, <2>2, <3>3, <3>4, <4>1, RetryAfterStep
    <3>6. CASE Succeed(r)
      <4>1. req[r].route = "login"
        BY <2>2, <3>6 DEF Path, Succeed, At
      <4>2. QED
        BY <1>1, <3>3, <3>4, <3>6, <4>1, SucceedStep
    <3>7. CASE ~AdmitAttempt(r) /\ ~RefuseAttempt(r) /\ ~Succeed(r)
      <4>1. UNCHANGED <<stamps, forgiven>>
        BY <1>2, <2>5, <3>7, LimiterFrame
      <4>2. QED
        BY <1>1, <3>3, <3>4, <4>1, LimiterIdle
    <3>8. QED
      BY <3>5, <3>6, <3>7
  <2>6. QED
    BY <2>4, <2>5
<1>3. ASSUME Tick \/ RemoveUser \/ UNCHANGED vars
      PROVE  LimiterInv'
  <2>1. UNCHANGED <<stamps, forgiven, req>>
    BY <1>3 DEF Tick, RemoveUser, vars, limits
  <2>2. clock <= clock'
    BY <1>1, <1>3 DEF Tick, RemoveUser, vars
  <2>3. NoFailure
    BY <1>1, <2>1, <2>2 DEF NoFailure, Types
  <2>4. QED
    BY <1>1, <2>1, <2>3, LimiterIdle
<1>4. CASE Restart
  BY <1>1, <1>4, RestartLimits
<1>5. QED
  BY <1>2, <1>3, <1>4 DEF Next

\* Whatever is stamped, pruned, evicted and forgiven, in whatever order the
\* attempts overlap, a key's deque holds the failures it should.
THEOREM LimiterInvariance == Spec => [](IInv /\ LimiterInv)
<1>1. Init => IInv /\ LimiterInv
  BY InitIInv, InitLimiter
<1>2. (IInv /\ LimiterInv) /\ [Next]_vars => (IInv /\ LimiterInv)'
  BY NextIInv, NextLimiter
<1>3. QED
  BY <1>1, <1>2, PTL DEF Spec

-----------------------------------------------------------------------------
(* What the deques are good for.                                            *)

\* None of the failures was recorded more than e after its stamp: as many of them in
\* the window less e as the deque can hold are as many stamps left once it is pruned.
LEMMA FullDeque ==
    ASSUME NEW s, NEW F, NEW at, NEW rec, NEW n \in Nat \ {0}, NEW edge \in Int,
           Deque(s, F, at, rec, n, edge),
           NEW e \in Nat, \A q \in F : rec[q] <= at[q] + e,
           NEW S \in SUBSET F, IsFiniteSet(S), Cardinality(S) >= n,
           \A q \in S : rec[q] > edge + e,
           NEW m \in Nat \ {0}, m <= Len(s) + 1, \A i \in 1 .. m - 1 : s[i] <= edge
    PROVE  m <= Len(s) /\ Len(s) - m + 1 >= n
<1>1. PICK w : Remembers(s, w, F, at, rec) /\ Accounts(s, w, F, at, rec, n, edge)
  BY DEF Deque
<1>2. PICK l \in Nat : l = Len(s) /\ \A i \in 1 .. l : s[i] \in Nat
  BY LenProperties, ElementOfSeq DEF Deque
<1>3. \A q \in S : rec[q] \in Nat /\ at[q] \in Nat /\ q \in F
  BY DEF Deque
<1>4. \A i \in 1 .. l : s[i] > edge => i >= m
  <2>1. ASSUME NEW i \in 1 .. l, s[i] > edge, ~(i >= m)
        PROVE  FALSE
    <3>1. i \in 1 .. m - 1 /\ s[i] \in Nat
      BY <1>2, <2>1
    <3>2. s[i] <= edge
      BY <3>1
    <3>3. QED
      BY <2>1, <3>1, <3>2
  <2>2. QED
    BY <2>1
<1>5. CASE \E q \in S : \A i \in 1 .. l : w[i] # q
  <2>1. PICK q \in S : \A i \in 1 .. l : w[i] # q
    BY <1>5
  <2>2. ~(rec[q] <= edge + e)
    BY <1>3
  <2>3. l = n /\ \A i \in 1 .. l : rec[q] <= s[i] + e
    BY <1>1, <1>2, <2>1, <2>2 DEF Accounts
  <2>4. 1 \in 1 .. l
    BY <2>3
  <2>5. s[1] > edge
    BY <1>2, <1>3, <2>3, <2>4
  <2>6. m = 1
    BY <1>4, <2>4, <2>5
  <2>7. QED
    BY <1>2, <2>3, <2>6
<1>6. CASE \A q \in S : \E i \in 1 .. l : w[i] = q
  <2>1. \A q \in S : \E i \in m .. l : w[i] = q
    <3>1. ASSUME NEW q \in S
          PROVE  \E i \in m .. l : w[i] = q
      <4>1. PICK i \in 1 .. l : w[i] = q
        BY <1>6
      <4>2. s[i] = at[q] /\ rec[q] <= at[q] + e /\ rec[q] > edge + e
        BY <1>1, <1>2, <1>3, <4>1 DEF Remembers
      <4>3. i >= m
        BY <1>3, <1>4, <4>2
      <4>4. QED
        BY <4>1, <4>3
    <3>2. QED
      BY <3>1
  <2>2. PICK f \in [S -> m .. l] : \A q \in S : w[f[q]] = q
    <3>1. [q \in S |-> CHOOSE i \in m .. l : w[i] = q] \in [S -> m .. l]
      BY <2>1
    <3>2. \A q \in S : w[CHOOSE i \in m .. l : w[i] = q] = q
      BY <2>1
    <3>3. QED
      BY <3>1, <3>2
  <2>3. f \in Injection(S, m .. l)
    <3>1. \A p, q \in S : f[p] = f[q] => p = q
      BY <2>2
    <3>2. QED
      BY <2>2, <3>1 DEF Injection, IsInjective
  <2>4. /\ IsFiniteSet(m .. l)
        /\ Cardinality(m .. l) = IF m > l THEN 0 ELSE l - m + 1
    BY FS_Interval
  <2>5. Cardinality(S) <= Cardinality(m .. l)
    BY <2>3, <2>4, FS_Injection
  <2>6. Cardinality(S) \in Nat
    BY FS_CardinalityType
  <2>7. QED
    BY <1>2, <2>4, <2>5, <2>6
<1>7. QED
  BY <1>5, <1>6

\* The stamps of a deque from one in the window on are of that many failures
\* recorded in the window, in whatever order.
LEMMA StampsAreFailures ==
    ASSUME NEW s, NEW F, NEW at, NEW rec, NEW n, NEW edge,
           Deque(s, F, at, rec, n, edge), \A q \in F : at[q] <= rec[q],
           NEW low \in Int, NEW m \in Nat \ {0}, m <= Len(s), s[m] > low,
           NEW S, S = {q \in F : rec[q] > low}, IsFiniteSet(S)
    PROVE  Cardinality(S) >= Len(s) - m + 1
<1>1. PICK w : Remembers(s, w, F, at, rec)
  BY DEF Deque
<1>2. PICK l \in Nat : l = Len(s) /\ \A i \in 1 .. l : s[i] \in Nat
  BY LenProperties, ElementOfSeq DEF Deque
<1>3. \A q \in F : at[q] \in Nat /\ rec[q] \in Nat
  BY DEF Deque
<1>4. m \in 1 .. l
  BY <1>2
<1>5. ASSUME NEW i \in m .. l
      PROVE  i \in 1 .. l /\ w[i] \in S
  <2>1. i \in 1 .. l
    OBVIOUS
  <2>2. w[i] \in F /\ w[m] \in F /\ s[m] = at[w[m]]
    BY <1>1, <1>2, <1>4, <2>1 DEF Remembers
  <2>3. rec[w[m]] <= rec[w[i]]
    <3>1. CASE i = m
      BY <1>3, <2>2, <3>1
    <3>2. CASE m < i
      BY <1>1, <1>2, <1>4, <2>1, <3>2 DEF Remembers
    <3>3. QED
      BY <3>1, <3>2
  <2>4. rec[w[i]] > low
    BY <1>3, <2>2, <2>3
  <2>5. QED
    BY <2>1, <2>2, <2>4
<1>6. PICK f \in [m .. l -> S] : \A i \in m .. l : f[i] = w[i]
  <2>1. [i \in m .. l |-> w[i]] \in [m .. l -> S]
    BY <1>5
  <2>2. QED
    BY <2>1
<1>7. f \in Injection(m .. l, S)
  <2>1. ASSUME NEW i \in m .. l, NEW j \in m .. l, f[i] = f[j], i < j
        PROVE  FALSE
    BY <1>1, <1>2, <1>5, <1>6, <2>1 DEF Remembers
  <2>2. \A i, j \in m .. l : f[i] = f[j] => i = j
    <3>1. \A i, j \in m .. l : i = j \/ i < j \/ j < i
      OBVIOUS
    <3>2. QED
      BY <2>1, <3>1
  <2>3. QED
    BY <1>6, <2>2 DEF Injection, IsInjective
<1>8. Cardinality(m .. l) <= Cardinality(S)
  BY <1>7, FS_Injection
<1>9. Cardinality(m .. l) = l - m + 1
  BY <1>4, FS_Interval
<1>10. Cardinality(S) \in Nat
  BY FS_CardinalityType
<1>11. QED
  BY <1>2, <1>8, <1>9, <1>10

-----------------------------------------------------------------------------
(* Who is let through, and who is refused.                                  *)

\* From the check, a request goes on to the password or is refused by a step of
\* the check, and by no other.
LEMMA CheckStep ==
    ASSUME IInv, NEW r \in Request, At(r, "retryAfter"), [Next]_vars,
           req'[r].pc \in {"lookup", "done"}
    PROVE  \/ AdmitAttempt(r) /\ req'[r].pc = "lookup"
           \/ RefuseAttempt(r) /\ req'[r].pc = "done"
<1>1. req[r].pc = "retryAfter" /\ Requests
  BY DEF At, IInv, Types
<1>2. req'[r] # req[r]
  BY <1>1
<1>3. ~UNCHANGED vars /\ ~Tick /\ ~RemoveUser
  BY <1>2 DEF vars, Tick, RemoveUser
<1>4. ~Restart
  <2>1. Restart => req'[r] = Ended(req[r], "lost")
    BY <1>1 DEF Restart
  <2>2. Ended(req[r], "lost").pc = "lost"
    BY DEF Ended
  <2>3. QED
    BY <2>1, <2>2
<1>5. ASSUME NEW q \in Request, Arrive(q) \/ Step(q)
      PROVE  q = r
  BY <1>2, <1>5, OwnStep DEF Own, Only
<1>6. Arrive(r) \/ Step(r)
  BY <1>3, <1>4, <1>5 DEF Next
<1>7. ~Arrive(r)
  BY <1>1 DEF Arrive, Login, Register, Logout, Me, At
<1>8. AdmitAttempt(r) \/ RefuseAttempt(r)
  <2>1. ~(\/ Lookup(r) \/ LookupFails(r) \/ TakeSlot(r) \/ Queue(r) \/ Wait(r) \/ Leave(r)
          \/ Verify(r) \/ CreateUser(r) \/ CreateUserFails(r) \/ LeaveSlot(r)
          \/ Fail(r) \/ Succeed(r))
    BY <1>1 DEF Lookup, LookupFails, TakeSlot, Queue, Wait, Leave, Verify, CreateUser,
                CreateUserFails, LeaveSlot, Fail, Succeed, At
  <2>2. ~(\/ Revoke(r) \/ RevokeFails(r) \/ Create(r) \/ CreateFails(r) \/ Deliver(r)
          \/ Begin(r) \/ BeginFails(r) \/ Accept(r) \/ Drop(r) \/ DecideFails(r)
          \/ ShowUser(r) \/ ShowUserFails(r))
    BY <1>1 DEF Revoke, RevokeFails, Create, CreateFails, Deliver, Begin, BeginFails, Accept,
                Drop, DecideFails, ShowUser, ShowUserFails, At
  <2>3. QED
    BY <1>6, <1>7, <2>1, <2>2 DEF Step
<1>9. AdmitAttempt(r) => req'[r].pc = "lookup"
  BY <1>1 DEF AdmitAttempt, Goto, Requests, RequestState
<1>10. RefuseAttempt(r) => req'[r].pc = "done"
  BY <1>1 DEF RefuseAttempt, Reply, Ended, Requests
<1>11. QED
  BY <1>8, <1>9, <1>10

\* What the check looks at.
LEMMA CheckedKeys ==
    ASSUME IInv, LimiterInv, NEW r \in Request, At(r, "retryAfter")
    PROVE  /\ req[r].now \in Nat /\ req[r].now <= clock
           /\ KeySet(req[r].browser, req[r].email) \subseteq Key
<1>1. Path(r) /\ Attempt(r) /\ req[r].pc = "retryAfter" /\ req[r] \in RequestState
  BY DEF IInv, Types, Requests, LimiterInv, At
<1>2. req[r].now \in Nat /\ req[r].now <= clock /\ req[r].route = "login"
  BY <1>1 DEF Path, RequestState
<1>3. req[r].browser \in Browser /\ req[r].email \in Email
  BY <1>1, <1>2 DEF Attempt
<1>4. QED
  BY <1>2, <1>3, KeyFacts

LEMMA SinceFinite ==
    ASSUME LimiterInv, NEW k, NEW time
    PROVE  IsFiniteSet(Since(k, time))
<1>1. Since(k, time) \subseteq Failed
  BY DEF Since, Failures, Failed
<1>2. QED
  BY <1>1, FS_Subset DEF LimiterInv

LEMMA AdmittedInLimits ==
    ASSUME IInv, LimiterInv, [Next]_vars, NEW r \in Request, Admitted(r),
           NEW k \in KeySet(req[r].browser, req[r].email),
           NEW late \in 0 .. MaxClock, LateAtMost(k, late)
    PROVE  Cardinality(Since(k, clock - Window + late)) < Threshold(k)
<1>1. At(r, "retryAfter") /\ ~IsBlocked(r)
  BY CheckStep DEF Admitted, AdmitAttempt
<1>2. k \in Key /\ req[r].now \in Nat /\ req[r].now <= clock
  BY <1>1, CheckedKeys
<1>3. PICK n \in Nat \ {0} : n = Threshold(k)
  BY <1>2, KeyFacts
<1>4. PICK s, F, at, rec :
         s = stamps[k] /\ F = Failures(k) /\ at = NowOf /\ rec = FailedOf
  OBVIOUS
<1>5. PICK edge \in Int, low \in Int :
         edge = clock - Window /\ low = req[r].now - Window /\ low <= edge
  BY <1>2, KeyFacts, EdgeMoves DEF IInv, Types
<1>6. Deque(s, F, at, rec, n, edge)
  BY <1>2, <1>3, <1>4, <1>5 DEF LimiterInv, DequeOf
<1>7. /\ late \in Nat
      /\ \A q \in F : rec[q] <= at[q] + late /\ rec[q] = req[q].failed
  <2>1. late \in Nat
    OBVIOUS
  <2>2. ASSUME NEW q \in F
        PROVE  rec[q] <= at[q] + late /\ rec[q] = req[q].failed
    <3>1. /\ q \in Request /\ q \in Failures(k)
          /\ req[q].failed - req[q].now <= late
      BY <1>4 DEF Failures, LateAtMost
    <3>2. at[q] = req[q].now /\ rec[q] = req[q].failed
      BY <1>4, <3>1 DEF NowOf, FailedOf
    <3>3. at[q] \in Nat /\ rec[q] \in Nat
      BY <1>6 DEF Deque
    <3>4. QED
      BY <2>1, <3>1, <3>2, <3>3
  <2>3. QED
    BY <2>1, <2>2
<1>8. PICK S \in SUBSET F : S = Since(k, clock - Window + late)
  BY <1>4 DEF Since
<1>9. \A q \in S : rec[q] > edge + late
  BY <1>5, <1>7, <1>8 DEF Since
<1>10. s \in Seq(Nat) /\ Len(s) \in Nat
  BY <1>6, LenProperties DEF Deque
<1>11. PICK m \in Nat \ {0} :
         /\ m <= Len(s) + 1
         /\ Pruned(k, req[r].now) = SubSeq(s, m, Len(s))
         /\ \A i \in 1 .. m - 1 : s[i] <= low
  <2>1. stamps[k] \in Seq(Nat) /\ req[r].now \in Int
    BY <1>2, <1>4, <1>10
  <2>2. \E m \in Nat \ {0} :
           /\ m <= Len(stamps[k]) + 1
           /\ Pruned(k, req[r].now) = SubSeq(stamps[k], m, Len(stamps[k]))
           /\ \A i \in 1 .. m - 1 : stamps[k][i] <= req[r].now - Window
           /\ m <= Len(stamps[k]) => stamps[k][m] > req[r].now - Window
    BY <2>1, PrunedSuffix
  <2>3. QED
    BY <1>4, <1>5, <2>2
<1>12. ASSUME Cardinality(S) >= n
       PROVE  FALSE
  <2>1. IsFiniteSet(S)
    BY <1>8, SinceFinite
  <2>2. m <= Len(s) /\ Len(s) - m + 1 >= n
    <3>1. ASSUME NEW i \in 1 .. m - 1
          PROVE  s[i] <= edge
      <4>1. i \in 1 .. Len(s)
        BY <1>10, <1>11
      <4>2. s[i] \in Nat /\ s[i] <= low
        BY <1>10, <1>11, <4>1, ElementOfSeq
      <4>3. QED
        BY <1>5, <4>2
    <3>2. /\ late \in Nat /\ m <= Len(s) + 1
          /\ \A q \in F : rec[q] <= at[q] + late
      BY <1>7, <1>11
    <3>3. QED
      BY <1>6, <1>9, <1>12, <2>1, <3>1, <3>2, FullDeque
  <2>3. Len(SubSeq(s, m, Len(s))) = Len(s) - m + 1
    <3>1. \A i \in m .. Len(s) : s[i] \in Nat
      BY <1>10, ElementOfSeq
    <3>2. QED
      BY <1>10, <2>2, <3>1, SubSeqProperties
  <2>4. Len(Pruned(k, req[r].now)) >= Threshold(k)
    BY <1>3, <1>11, <2>2, <2>3
  <2>5. QED
    BY <1>1, <2>4 DEF IsBlocked, Blocked
<1>13. Cardinality(S) \in Nat
  BY <1>8, SinceFinite, FS_CardinalityType
<1>14. QED
  BY <1>3, <1>8, <1>12, <1>13

LEMMA RefusedOutOfLimits ==
    ASSUME IInv, LimiterInv, [Next]_vars, NEW r \in Request, Refused(r)
    PROVE  \E k \in KeySet(req[r].browser, req[r].email) :
              Cardinality(Since(k, req[r].now - Window)) >= Threshold(k)
<1>1. At(r, "retryAfter") /\ IsBlocked(r)
  BY CheckStep DEF Refused, RefuseAttempt
<1>2. PICK k \in KeySet(req[r].browser, req[r].email) :
         Len(Pruned(k, req[r].now)) >= Threshold(k)
  BY <1>1 DEF IsBlocked, Blocked
<1>3. k \in Key /\ req[r].now \in Nat /\ req[r].now <= clock
  BY <1>1, CheckedKeys
<1>4. PICK n \in Nat \ {0} : n = Threshold(k)
  BY <1>3, KeyFacts
<1>5. PICK s, F, at, rec, edge :
         s = stamps[k] /\ F = Failures(k) /\ at = NowOf /\ rec = FailedOf
         /\ edge = clock - Window
  OBVIOUS
<1>6. Deque(s, F, at, rec, n, edge)
  BY <1>3, <1>4, <1>5 DEF LimiterInv, DequeOf
<1>7. PICK low \in Int : low = req[r].now - Window
  BY <1>3, KeyFacts
<1>8. s \in Seq(Nat) /\ Len(s) \in Nat /\ \A i \in 1 .. Len(s) : s[i] \in Nat
  BY <1>6, LenProperties, ElementOfSeq DEF Deque
<1>9. PICK m \in Nat \ {0} :
         /\ m <= Len(s) + 1
         /\ Pruned(k, req[r].now) = SubSeq(s, m, Len(s))
         /\ m <= Len(s) => s[m] > low
  <2>1. stamps[k] \in Seq(Nat) /\ req[r].now \in Int
    BY <1>3, <1>5, <1>8
  <2>2. \E m \in Nat \ {0} :
           /\ m <= Len(stamps[k]) + 1
           /\ Pruned(k, req[r].now) = SubSeq(stamps[k], m, Len(stamps[k]))
           /\ \A i \in 1 .. m - 1 : stamps[k][i] <= req[r].now - Window
           /\ m <= Len(stamps[k]) => stamps[k][m] > req[r].now - Window
    BY <2>1, PrunedSuffix
  <2>3. QED
    BY <1>5, <1>7, <2>2
<1>10. m <= Len(s) /\ Len(s) - m + 1 >= n
  <2>1. CASE m <= Len(s)
    <3>1. \A i \in m .. Len(s) : s[i] \in Nat
      BY <1>8
    <3>2. Len(SubSeq(s, m, Len(s))) = Len(s) - m + 1
      BY <1>8, <2>1, <3>1, SubSeqProperties
    <3>3. QED
      BY <1>2, <1>4, <1>9, <2>1, <3>2
  <2>2. CASE m = Len(s) + 1
    <3>1. SubSeq(s, m, Len(s)) = <<>>
      BY <1>8, <2>2, SubSeqEmpty
    <3>2. Len(Pruned(k, req[r].now)) = 0
      BY <1>9, <3>1, EmptySeq
    <3>3. QED
      BY <1>2, <1>4, <3>2
  <2>3. QED
    BY <1>8, <1>9, <2>1, <2>2
<1>11. \A q \in F : at[q] <= rec[q] /\ rec[q] = req[q].failed
  <2>1. ASSUME NEW q \in F
        PROVE  at[q] <= rec[q] /\ rec[q] = req[q].failed
    <3>1. q \in Request /\ req[q].failed # None
      BY <1>5 DEF Failures
    <3>2. QED
      BY <1>5, <3>1, FailureTimes DEF IInv
  <2>2. QED
    BY <2>1
<1>12. PICK S : S = Since(k, req[r].now - Window) /\ S = {q \in F : rec[q] > low}
  BY <1>5, <1>7, <1>11 DEF Since
<1>13. IsFiniteSet(S)
  BY <1>12, SinceFinite
<1>14. Cardinality(S) >= Len(s) - m + 1
  <2>1. (\A q \in F : at[q] <= rec[q]) /\ m <= Len(s) /\ s[m] > low
    BY <1>9, <1>10, <1>11
  <2>2. S = {q \in F : rec[q] > low}
    BY <1>12
  <2>3. QED
    BY ONLY <1>6, <1>13, <2>1, <2>2, StampsAreFailures
<1>15. Cardinality(S) >= n
  BY <1>8, <1>10, <1>13, <1>14, FS_CardinalityType
<1>16. QED
  BY <1>4, <1>12, <1>15

\* However attempts overlap, whatever is pruned, evicted or restarted: a scope
\* that has used up its failures lets nobody through to the password, until the
\* window has passed over them, less the longest delay in recording one.
THEOREM LockedOutIsAlwaysRefused == Spec => LockedOutIsRefused
<1>1. IInv /\ LimiterInv /\ [Next]_vars
         => [\A r \in Request : Admitted(r) =>
                \A k \in KeySet(req[r].browser, req[r].email), late \in 0 .. MaxClock :
                    LateAtMost(k, late) =>
                        Cardinality(Since(k, clock - Window + late)) < Threshold(k)]_vars
  BY AdmittedInLimits
<1>2. QED
  BY <1>1, LimiterInvariance, PTL DEF Spec, LockedOutIsRefused

\* Nobody is refused for failures that were forgiven, have left the window or
\* are not there at all.
THEOREM RefusedOnlyForFailures == Spec => RefusedOnlyWhenLocked
<1>1. IInv /\ LimiterInv /\ [Next]_vars
         => [\A r \in Request : Refused(r) =>
                \E k \in KeySet(req[r].browser, req[r].email) :
                    Cardinality(Since(k, req[r].now - Window)) >= Threshold(k)]_vars
  BY RefusedOutOfLimits
<1>2. QED
  BY <1>1, LimiterInvariance, PTL DEF Spec, RefusedOnlyWhenLocked

-----------------------------------------------------------------------------
(* The dict of the rate limiter, and its bounds.                            *)

\* What Kept is of s and K, step by step.
KeptBy(f, n, s, K) ==
    f = [i \in 0 .. n |-> IF i = 0 THEN <<>>
                          ELSE IF s[i] \in K THEN Append(f[i - 1], s[i]) ELSE f[i - 1]]

LEMMA KeptExists ==
    ASSUME NEW s, NEW K
    PROVE  \A n \in Nat : \E f : KeptBy(f, n, s, K)
<1> DEFINE S == {n \in Nat : \E f : KeptBy(f, n, s, K)}
<1>1. 0 \in S
  <2>1. KeptBy([i \in 0 .. 0 |-> <<>>], 0, s, K)
    BY DEF KeptBy
  <2>2. QED
    BY <2>1
<1>2. ASSUME NEW n \in Nat, n \in S
      PROVE  n + 1 \in S
  <2>1. PICK f : KeptBy(f, n, s, K)
    BY <1>2
  <2>2. PICK last : last = IF s[n + 1] \in K THEN Append(f[n], s[n + 1]) ELSE f[n]
    OBVIOUS
  <2>3. PICK g : g = [i \in 0 .. n + 1 |-> IF i = n + 1 THEN last ELSE f[i]]
    OBVIOUS
  <2>4. ASSUME NEW i \in 0 .. n + 1
        PROVE  g[i] = IF i = 0 THEN <<>>
                      ELSE IF s[i] \in K THEN Append(g[i - 1], s[i]) ELSE g[i - 1]
    <3>1. CASE i = n + 1
      <4>1. i # 0 /\ i - 1 = n /\ n \in 0 .. n + 1 /\ n # n + 1
        BY <3>1
      <4>2. g[i] = last /\ g[i - 1] = f[n]
        BY <2>3, <3>1, <4>1
      <4>3. QED
        BY <2>2, <3>1, <4>1, <4>2
    <3>2. CASE i = 0
      <4>1. 0 # n + 1 /\ 0 \in 0 .. n
        OBVIOUS
      <4>2. QED
        BY <2>1, <2>3, <3>2, <4>1 DEF KeptBy
    <3>3. CASE i \in 1 .. n
      <4>1. /\ i \in 0 .. n /\ i # 0 /\ i # n + 1
            /\ i - 1 \in 0 .. n + 1 /\ i - 1 # n + 1
        BY <3>3
      <4>2. g[i] = f[i] /\ g[i - 1] = f[i - 1]
        BY <2>3, <4>1
      <4>3. QED
        BY <2>1, <4>1, <4>2 DEF KeptBy
    <3>4. QED
      BY <3>1, <3>2, <3>3
  <2>5. KeptBy(g, n + 1, s, K)
    <3>1. g = [i \in 0 .. n + 1 |-> g[i]]
      BY <2>3
    <3>2. QED
      BY <2>4, <3>1 DEF KeptBy
  <2>6. QED
    BY <2>5
<1> HIDE DEF S
<1>3. Nat \subseteq S
  BY <1>1, <1>2, NatSetInduction
<1>4. QED
  BY <1>3 DEF S

\* What appending a key adds to the keys of a sequence.
LEMMA AppendKeys ==
    ASSUME NEW T, NEW t \in Seq(T), NEW x \in T
    PROVE  /\ Append(t, x) \in Seq(T) /\ Len(Append(t, x)) = Len(t) + 1
           /\ KeysOf(Append(t, x)) = KeysOf(t) \cup {x}
<1>1. PICK l \in Nat : l = Len(t)
  BY LenProperties
<1>2. PICK a \in Seq(T) : a = Append(t, x)
  BY AppendProperties
<1>3. Len(a) = l + 1 /\ a[l + 1] = x /\ \A i \in 1 .. l : a[i] = t[i]
  BY <1>1, <1>2, AppendProperties
<1>4. 1 .. l + 1 = 1 .. l \cup {l + 1}
  OBVIOUS
<1>5. KeysOf(a) = {a[i] : i \in 1 .. l} \cup {x}
  BY <1>3, <1>4 DEF KeysOf
<1>6. {a[i] : i \in 1 .. l} = KeysOf(t)
  BY <1>1, <1>3 DEF KeysOf
<1>7. QED
  BY <1>1, <1>2, <1>3, <1>5, <1>6

\* Deleting keys from the dict leaves the others, and no more.
LEMMA KeptKeys ==
    ASSUME NEW T, NEW s \in Seq(T), NEW K
    PROVE  /\ Kept(s, K) \in Seq(T) /\ Len(Kept(s, K)) <= Len(s)
           /\ KeysOf(Kept(s, K)) = KeysOf(s) \cap K
<1>1. PICK l \in Nat : l = Len(s) /\ \A i \in 1 .. l : s[i] \in T
  BY LenProperties, ElementOfSeq
<1> DEFINE kept == CHOOSE f : KeptBy(f, l, s, K)
<1>2. PICK f : f = kept /\ KeptBy(f, l, s, K)
  BY KeptExists
<1>3. Kept(s, K) = f[l]
  BY <1>1, <1>2 DEF Kept, KeptBy
<1> DEFINE Good(i) == /\ f[i] \in Seq(T) /\ Len(f[i]) <= i
                      /\ KeysOf(f[i]) = {s[j] : j \in 1 .. i} \cap K
           S == {i \in Nat : i <= l => Good(i)}
<1>4. 0 \in S
  <2>1. 0 \in 0 .. l
    OBVIOUS
  <2>2. f[0] = <<>>
    BY <1>2, <2>1 DEF KeptBy
  <2>3. <<>> \in Seq(T) /\ Len(<<>>) = 0
    BY EmptySeq
  <2>4. KeysOf(<<>>) = {} /\ {s[j] : j \in 1 .. 0} = {}
    BY <2>3 DEF KeysOf
  <2>5. Good(0)
    <3>1. f[0] \in Seq(T) /\ Len(f[0]) <= 0
      BY <2>2, <2>3
    <3>2. KeysOf(f[0]) = {s[j] : j \in 1 .. 0} \cap K
      BY <2>2, <2>4
    <3>3. QED
      BY <3>1, <3>2
  <2>6. QED
    BY <2>5
<1>5. ASSUME NEW n \in Nat, n \in S
      PROVE  n + 1 \in S
  <2>1. SUFFICES ASSUME n + 1 <= l
                 PROVE  Good(n + 1)
    OBVIOUS
  <2>2. n <= l /\ Good(n)
    BY <1>5, <2>1
  <2>3. n + 1 \in 0 .. l /\ n + 1 # 0 /\ (n + 1) - 1 = n /\ n + 1 \in 1 .. l
    BY <2>1
  <2>4. f[n + 1] = IF s[n + 1] \in K THEN Append(f[n], s[n + 1]) ELSE f[n]
    <3>1. PICK c \in 0 .. l : c = n + 1 /\ c # 0 /\ c - 1 = n
      BY <2>3
    <3>2. f[c] = IF s[c] \in K THEN Append(f[c - 1], s[c]) ELSE f[c - 1]
      BY <1>2, <3>1 DEF KeptBy
    <3>3. QED
      BY <3>1, <3>2
  <2>5. PICK x \in T : x = s[n + 1]
    BY <1>1, <2>3
  <2>6. {s[j] : j \in 1 .. n + 1} = {s[j] : j \in 1 .. n} \cup {x}
    <3>1. 1 .. n + 1 = 1 .. n \cup {n + 1}
      OBVIOUS
    <3>2. QED
      BY <2>5, <3>1
  <2>7. PICK t \in Seq(T) : t = f[n] /\ Len(t) \in Nat
    BY <2>2, LenProperties
  <2>8. CASE x \in K
    <3>1. f[n + 1] = Append(t, x)
      BY <2>4, <2>5, <2>7, <2>8
    <3>2. Len(f[n + 1]) <= n + 1
      BY <2>2, <2>7, <3>1, AppendKeys
    <3>3. KeysOf(f[n + 1]) = ({s[j] : j \in 1 .. n} \cap K) \cup {x}
      BY <2>2, <2>7, <3>1, AppendKeys
    <3>4. f[n + 1] \in Seq(T)
      BY <2>7, <3>1, AppendKeys
    <3>5. QED
      BY <2>6, <2>8, <3>2, <3>3, <3>4
  <2>9. CASE x \notin K
    <3>1. f[n + 1] = f[n]
      BY <2>4, <2>5, <2>9
    <3>2. Len(f[n]) <= n + 1
      BY <2>2, <2>7
    <3>3. QED
      BY <2>2, <2>6, <2>9, <3>1, <3>2
  <2>10. QED
    BY <2>8, <2>9
<1> HIDE DEF S
<1>6. l \in S
  BY <1>4, <1>5, NatSetInduction
<1>7. Good(l)
  BY <1>6 DEF S
<1>8. QED
  BY <1>1, <1>3, <1>7 DEF KeysOf

\* A deque or dict of at most n keeps what was appended last.
LEMMA LastKeys ==
    ASSUME NEW T, NEW s \in Seq(T), NEW n \in Nat \ {0}
    PROVE  /\ LastOf(s, n) \in Seq(T) /\ Len(LastOf(s, n)) <= n
           /\ KeysOf(s) \ {s[i] : i \in 1 .. Len(s) - n} \subseteq KeysOf(LastOf(s, n))
<1>1. PICK l \in Nat : l = Len(s) /\ \A i \in 1 .. l : s[i] \in T
  BY LenProperties, ElementOfSeq
<1>2. CASE l <= n
  BY <1>1, <1>2 DEF LastOf
<1>3. CASE ~(l <= n)
  <2>1. PICK m \in Nat : m = l - n + 1 /\ m <= l /\ l - m + 1 = n /\ m >= 1
    <3>1. l - n + 1 \in Nat /\ l - n + 1 <= l /\ l - (l - n + 1) + 1 = n /\ l - n + 1 >= 1
      BY <1>3
    <3>2. QED
      BY <3>1
  <2>2. PICK t : t = LastOf(s, n) /\ t = SubSeq(s, m, l)
    BY <1>1, <1>3, <2>1 DEF LastOf
  <2>3. \A i \in m .. l : s[i] \in T
    BY <1>1, <2>1
  <2>4. t \in Seq(T) /\ Len(t) = n /\ \A i \in 1 .. n : t[i] = s[m + i - 1]
    <3>1. m \in Int /\ l \in Int
      OBVIOUS
    <3>2. /\ SubSeq(s, m, l) \in Seq(T)
          /\ Len(SubSeq(s, m, l)) = IF m <= l THEN l - m + 1 ELSE 0
          /\ \A i \in 1 .. l - m + 1 : SubSeq(s, m, l)[i] = s[m + i - 1]
      BY <2>3, <3>1, SubSeqProperties
    <3>3. QED
      BY <2>1, <2>2, <3>2
  <2>5. ASSUME NEW i \in 1 .. l, s[i] \notin {s[j] : j \in 1 .. l - n}
        PROVE  s[i] \in KeysOf(t)
    <3>1. i \notin 1 .. l - n
      BY <2>5
    <3>2. i - m + 1 \in 1 .. n /\ m + (i - m + 1) - 1 = i
      BY <2>1, <3>1
    <3>3. t[i - m + 1] = s[i]
      BY <2>4, <3>2
    <3>4. QED
      BY <2>4, <3>2, <3>3 DEF KeysOf
  <2>6. KeysOf(s) \ {s[i] : i \in 1 .. l - n} \subseteq KeysOf(t)
    BY <1>1, <2>5 DEF KeysOf
  <2>7. t \in Seq(T) /\ Len(t) <= n
    BY <2>4
  <2>8. QED
    BY <1>1, <2>2, <2>6, <2>7
<1>4. QED
  BY <1>2, <1>3

Tracked == {k \in Key : stamps[k] # <<>>}

\* What has a stamp is in the dict, which is within its bound; and so are the
\* slots, the time, the faults and what is forgiven.
BoundsInv ==
    /\ slots \in Nat
    /\ clock <= MaxClock /\ faults \in 0 .. MaxFaults
    /\ forgiven \subseteq Request \X Key
    /\ order \in Seq(Key) /\ Len(order) <= MaxTracked
    /\ Tracked \subseteq KeysOf(order)

LEMMA InitBounds == Init => BoundsInv
<1> SUFFICES ASSUME Init PROVE BoundsInv
  OBVIOUS
<1>1. order = <<>> /\ Tracked = {} /\ slots = MaxConcurrent
  BY DEF Init, LimitsInit, Tracked
<1>2. order \in Seq(Key) /\ Len(order) = 0
  BY <1>1, EmptySeq
<1>3. clock = 0 /\ faults = 0 /\ forgiven = {}
  BY DEF Init
<1>4. MaxTracked \in Nat /\ MaxConcurrent \in Nat /\ MaxClock \in Nat /\ MaxFaults \in Nat
  BY LimitsAssumption, AuthAssumption
<1>5. QED
  BY <1>1, <1>2, <1>3, <1>4 DEF BoundsInv

\* No request takes a slot that is not there.
LEMMA SlotsStay ==
    ASSUME slots \in Nat, NEW r \in Request, Arrive(r) \/ Step(r)
    PROVE  slots' \in Nat
<1>1. CASE \/ Arrive(r) \/ Lookup(r) \/ LookupFails(r) \/ CreateUserFails(r) \/ RevokeFails(r)
           \/ CreateFails(r) \/ BeginFails(r) \/ ShowUser(r) \/ ShowUserFails(r)
  BY <1>1 DEF Arrive, Login, Register, Logout, Me, Lookup, LookupFails, CreateUserFails,
              RevokeFails, CreateFails, BeginFails, ShowUser, ShowUserFails, OnlyReq,
              OnlyLimits, limits
<1>2. CASE TakeSlot(r) \/ Queue(r) \/ Wait(r) \/ Leave(r) \/ Verify(r) \/ LeaveSlot(r)
  BY <1>2 DEF TakeSlot, Queue, Wait, Leave, Verify, LeaveSlot, OnlyLimits, AcquireNow, NoSlot,
              JoinQueue, AcquireFromQueue, TimeOut, LeaveQueue, GiveUp, Release, limits
<1>3. CASE \/ CreateUser(r) \/ Revoke(r) \/ Create(r) \/ Deliver(r) \/ Begin(r)
           \/ Accept(r) \/ Drop(r) \/ DecideFails(r)
  BY <1>3 DEF CreateUser, Revoke, Create, Deliver, Begin, Accept, Drop, DecideFails,
              OnlyStore, limits
<1>4. CASE AdmitAttempt(r) \/ RefuseAttempt(r) \/ Fail(r) \/ Succeed(r)
  BY <1>4 DEF AdmitAttempt, RefuseAttempt, Fail, Succeed, RetryAfter, RecordFailure,
              RecordSuccess
<1>5. QED
  BY <1>1, <1>2, <1>3, <1>4 DEF Step

\* A key that was not tracked is not by being pruned.
LEMMA PrunedStays ==
    ASSUME NEW k, stamps[k] = <<>>, NEW now \in Int
    PROVE  Pruned(k, now) = <<>>
<1>1. DOMAIN stamps[k] = {}
  BY EmptySeq, LenProperties
<1>2. QED
  BY <1>1 DEF Pruned

LEMMA RetryAfterBounds ==
    ASSUME BoundsInv, NEW a, NEW e, NEW now \in Int, RetryAfter(a, e, now)
    PROVE  /\ order' \in Seq(Key) /\ Len(order') <= MaxTracked
           /\ Tracked' \subseteq KeysOf(order')
<1>1. order' = Kept(order, Tracked')
  BY DEF RetryAfter, Tracked
<1>2. order \in Seq(Key) /\ Len(order) \in Nat /\ Len(order) <= MaxTracked
  BY LenProperties DEF BoundsInv
<1>3. PICK s \in Seq(Key), K \in SUBSET Key : s = order /\ K = Tracked'
  <2>1. Tracked' \in SUBSET Key
    BY DEF Tracked
  <2>2. QED
    BY <1>2, <2>1
<1>4. /\ Kept(s, K) \in Seq(Key) /\ Len(Kept(s, K)) <= Len(s)
      /\ KeysOf(Kept(s, K)) = KeysOf(s) \cap K
  BY KeptKeys
<1>5. Tracked' \subseteq Tracked
  <2>1. ASSUME NEW k \in Key, stamps[k] = <<>>
        PROVE  stamps'[k] = <<>>
    BY <2>1, PrunedStays DEF RetryAfter
  <2>2. QED
    BY <2>1 DEF Tracked
<1>6. Tracked' \subseteq KeysOf(s)
  BY <1>3, <1>5 DEF BoundsInv
<1>7. MaxTracked \in Nat /\ Len(Kept(s, K)) \in Nat
  BY <1>4, LimitsAssumption, LenProperties
<1>8. QED
  BY <1>1, <1>2, <1>3, <1>4, <1>6, <1>7

LEMMA TouchedKeys ==
    ASSUME order \in Seq(Key), NEW a \in Browser, NEW e \in Email
    PROVE  /\ Touched(a, e) \in Seq(Key)
           /\ KeysOf(Touched(a, e)) = KeysOf(order) \cup KeySet(a, e)
<1>1. KeySet(a, e) \subseteq Key
  BY KeyFacts
<1>2. PICK s \in Seq(Key) : s = Kept(order, Key \ KeySet(a, e))
  BY KeptKeys
<1>3. KeysOf(s) = KeysOf(order) \ KeySet(a, e)
  <2>1. KeysOf(order) \subseteq Key
    BY ElementOfSeq, LenProperties DEF KeysOf
  <2>2. KeysOf(s) = KeysOf(order) \cap (Key \ KeySet(a, e))
    BY <1>2, KeptKeys
  <2>3. QED
    BY <2>1, <2>2
<1>4. PICK p \in Key, i \in Key, m \in Key :
         p = PairKey(a, e) /\ i = AddressKey(a) /\ m = EmailKey(e)
  BY <1>1 DEF KeySet
<1>5. PICK t : t = <<p, i, m>>
  OBVIOUS
<1>6. t \in Seq(Key) /\ Len(t) = 3 /\ t[1] = p /\ t[2] = i /\ t[3] = m
  BY <1>5
<1>7. Keys(a, e) = t /\ KeySet(a, e) = {p, i, m}
  BY <1>4, <1>5 DEF Keys, KeySet
<1>8. Touched(a, e) = s \o t
  BY <1>2, <1>7 DEF Touched
<1>9. PICK l \in Nat : l = Len(s)
  BY LenProperties
<1>10. PICK u \in Seq(Key) : u = s \o t
  BY <1>6, ConcatProperties
<1>11. /\ Len(u) = Len(s) + Len(t)
       /\ \A j \in 1 .. Len(s) + Len(t) :
              u[j] = IF j <= Len(s) THEN s[j] ELSE t[j - Len(s)]
  BY <1>6, <1>10, ConcatProperties
<1>12. Len(u) = l + 3 /\ \A j \in 1 .. l + 3 : u[j] = IF j <= l THEN s[j] ELSE t[j - l]
  BY <1>6, <1>9, <1>11
<1>13. KeysOf(u) = KeysOf(s) \cup {p, i, m}
  <2>1. PICK x, y, z \in 1 .. l + 3 :
           /\ x = l + 1 /\ y = l + 2 /\ z = l + 3
           /\ x - l = 1 /\ y - l = 2 /\ z - l = 3
           /\ ~(x <= l) /\ ~(y <= l) /\ ~(z <= l)
    <3>1. /\ l + 1 \in 1 .. l + 3 /\ l + 2 \in 1 .. l + 3 /\ l + 3 \in 1 .. l + 3
          /\ (l + 1) - l = 1 /\ (l + 2) - l = 2 /\ (l + 3) - l = 3
          /\ ~(l + 1 <= l) /\ ~(l + 2 <= l) /\ ~(l + 3 <= l)
      OBVIOUS
    <3>2. QED
      BY <3>1
  <2>2. 1 .. l + 3 = 1 .. l \cup {x, y, z}
    BY <2>1
  <2>3. u[x] = p /\ u[y] = i /\ u[z] = m
    BY <1>6, <1>12, <2>1
  <2>4. {u[j] : j \in 1 .. l} = KeysOf(s)
    <3>1. \A j \in 1 .. l : u[j] = s[j]
      BY <1>12
    <3>2. KeysOf(s) = {s[j] : j \in 1 .. l}
      BY <1>9 DEF KeysOf
    <3>3. QED
      BY <3>1, <3>2
  <2>5. KeysOf(u) = {u[j] : j \in 1 .. l} \cup {u[x], u[y], u[z]}
    <3>1. KeysOf(u) = {u[j] : j \in 1 .. l + 3}
      BY <1>12 DEF KeysOf
    <3>2. QED
      BY <2>2, <3>1
  <2>6. QED
    BY <2>3, <2>4, <2>5
<1>14. QED
  BY <1>3, <1>7, <1>8, <1>10, <1>13

LEMMA FailBounds ==
    ASSUME BoundsInv, NEW a \in Browser, NEW e \in Email, NEW now \in Int,
           RecordFailure(a, e, now)
    PROVE  /\ order' \in Seq(Key) /\ Len(order') <= MaxTracked
           /\ Tracked' \subseteq KeysOf(order') /\ Evicted(a, e) \subseteq Key
<1>1. order \in Seq(Key)
  BY DEF BoundsInv
<1>2. PICK t \in Seq(Key) : /\ t = Touched(a, e)
                            /\ KeysOf(t) = KeysOf(order) \cup KeySet(a, e)
  BY <1>1, TouchedKeys
<1>3. PICK n \in Nat \ {0} : n = MaxTracked
  BY LimitsAssumption
<1>4. PICK E : E = {t[i] : i \in 1 .. Len(t) - n} /\ E = Evicted(a, e)
  BY <1>2, <1>3 DEF Evicted
<1>5. order' = LastOf(t, n)
  BY <1>2, <1>3 DEF RecordFailure
<1>6. /\ LastOf(t, n) \in Seq(Key) /\ Len(LastOf(t, n)) <= n
      /\ KeysOf(t) \ {t[i] : i \in 1 .. Len(t) - n} \subseteq KeysOf(LastOf(t, n))
  BY LastKeys
<1>7. E \subseteq Key
  <2>1. Len(t) \in Nat /\ \A i \in 1 .. Len(t) : t[i] \in Key
    BY LenProperties, ElementOfSeq
  <2>2. \A i \in 1 .. Len(t) - n : i \in 1 .. Len(t)
    BY <2>1
  <2>3. QED
    BY <1>4, <2>1, <2>2
<1>8. Tracked' \subseteq KeysOf(t) \ E
  <2>1. ASSUME NEW k \in Key, stamps'[k] # <<>>
        PROVE  k \in KeysOf(t) /\ k \notin E
    <3>1. k \notin E
      BY <1>4, <2>1 DEF RecordFailure
    <3>2. k \in KeySet(a, e) \/ stamps'[k] = stamps[k]
      BY <1>4, <3>1 DEF RecordFailure
    <3>3. stamps[k] # <<>> => k \in KeysOf(order)
      BY DEF BoundsInv, Tracked
    <3>4. QED
      BY <1>2, <2>1, <3>1, <3>2, <3>3
  <2>2. QED
    BY <2>1 DEF Tracked
<1>9. QED
  BY <1>3, <1>4, <1>5, <1>6, <1>7, <1>8

LEMMA SucceedBounds ==
    ASSUME BoundsInv, LimiterInv, NEW a \in Browser, NEW e \in Email, RecordSuccess(a, e)
    PROVE  /\ order' \in Seq(Key) /\ Len(order') <= MaxTracked
           /\ Tracked' \subseteq KeysOf(order')
<1>1. PICK p \in Key : p = PairKey(a, e)
  BY KeyFacts DEF KeySet
<1>2. PICK s \in Seq(Key) : s = order /\ Len(s) \in Nat /\ Len(s) <= MaxTracked
  BY LenProperties DEF BoundsInv
<1>3. order' = Kept(s, Key \ {p}) /\ stamps' = [stamps EXCEPT ![p] = <<>>]
  BY <1>1, <1>2 DEF RecordSuccess
<1>4. PICK K : K = Key \ {p}
  OBVIOUS
<1>5. /\ Kept(s, K) \in Seq(Key) /\ Len(Kept(s, K)) <= Len(s)
      /\ KeysOf(Kept(s, K)) = KeysOf(s) \cap K
  BY KeptKeys
<1>6. Tracked' \subseteq Tracked \cap K
  <2>1. stamps'[p] = <<>> /\ \A k \in Key \ {p} : stamps'[k] = stamps[k]
    <3>1. stamps = [k \in Key |-> stamps[k]]
      BY DEF LimiterInv
    <3>2. QED
      BY <1>3, <3>1
  <2>2. QED
    BY <1>4, <2>1 DEF Tracked
<1>7. Tracked \subseteq KeysOf(s)
  BY <1>2 DEF BoundsInv
<1>8. Len(Kept(s, K)) <= MaxTracked
  <2>1. Len(Kept(s, K)) \in Nat /\ MaxTracked \in Nat
    BY <1>5, LenProperties, LimitsAssumption
  <2>2. QED
    BY <1>2, <1>5, <2>1
<1>9. Tracked' \subseteq KeysOf(Kept(s, K))
  BY <1>5, <1>6, <1>7
<1>10. order' = Kept(s, K)
  BY <1>3, <1>4
<1>11. QED
  BY <1>5, <1>8, <1>9, <1>10

LEMMA NextBounds ==
    ASSUME IInv, LimiterInv, BoundsInv, [Next]_vars
    PROVE  BoundsInv'
<1>1. Types /\ clock \in Nat /\ slots \in Nat
  BY DEF IInv, Types, BoundsInv
<1>2. ASSUME NEW r \in Request, Arrive(r) \/ Step(r)
      PROVE  BoundsInv'
  <2>1. slots' \in Nat
    BY <1>1, <1>2, SlotsStay
  <2>2. Path(r) /\ Attempt(r) /\ req[r].now \in Int
    BY <1>1 DEF IInv, LimiterInv, Types, Requests, RequestState
  <2>3. CASE AdmitAttempt(r) \/ RefuseAttempt(r)
    <3>1. /\ RetryAfter(req[r].browser, req[r].email, req[r].now)
          /\ UNCHANGED <<clock, faults, forgiven>>
      BY <2>3 DEF AdmitAttempt, RefuseAttempt, OnlyLimits
    <3>2. /\ order' \in Seq(Key) /\ Len(order') <= MaxTracked
          /\ Tracked' \subseteq KeysOf(order')
      BY <2>2, <3>1, RetryAfterBounds
    <3>3. QED
      BY <2>1, <3>1, <3>2 DEF BoundsInv
  <2>4. CASE Fail(r) \/ Succeed(r)
    <3>1. req[r].browser \in Browser /\ req[r].email \in Email
      BY <2>2, <2>4 DEF Path, Attempt, Fail, Succeed, At
    <3>2. UNCHANGED <<clock, faults>>
      BY <2>4 DEF Fail, Succeed
    <3>3. CASE Fail(r)
      <4>1. RecordFailure(req[r].browser, req[r].email, req[r].now)
        BY <3>3 DEF Fail
      <4>2. /\ order' \in Seq(Key) /\ Len(order') <= MaxTracked
            /\ Tracked' \subseteq KeysOf(order')
            /\ Evicted(req[r].browser, req[r].email) \subseteq Key
        BY <2>2, <3>1, <4>1, FailBounds
      <4>3. PICK E \in SUBSET Key, F \in SUBSET Request : forgiven' = forgiven \cup (F \X E)
        BY <3>3, <4>2 DEF Fail
      <4>4. forgiven' \subseteq Request \X Key
        BY <4>3 DEF BoundsInv
      <4>5. QED
        BY <2>1, <3>2, <4>2, <4>4 DEF BoundsInv
    <3>4. CASE Succeed(r)
      <4>1. RecordSuccess(req[r].browser, req[r].email)
        BY <3>4 DEF Succeed
      <4>2. /\ order' \in Seq(Key) /\ Len(order') <= MaxTracked
            /\ Tracked' \subseteq KeysOf(order')
        BY <3>1, <4>1, SucceedBounds
      <4>3. PICK p \in Key : p = PairKey(req[r].browser, req[r].email)
        BY <3>1, KeyFacts DEF KeySet
      <4>4. forgiven' = forgiven \cup {<<q, k>> : q \in Failures(p), k \in {p}}
        BY <3>4, <4>3 DEF Succeed
      <4>5. Failures(p) \subseteq Request
        BY DEF Failures
      <4>6. forgiven' \subseteq Request \X Key
        BY <4>4, <4>5 DEF BoundsInv
      <4>7. QED
        BY <2>1, <3>2, <4>2, <4>6 DEF BoundsInv
    <3>5. QED
      BY <2>4, <3>3, <3>4
  <2>5. CASE ~Fail(r) /\ ~Succeed(r) /\ ~AdmitAttempt(r) /\ ~RefuseAttempt(r)
    <3>1. UNCHANGED <<stamps, order, forgiven, clock, faults>>
      BY <1>2, <2>5, LimiterFrame
    <3>2. QED
      BY <2>1, <3>1 DEF BoundsInv, Tracked
  <2>6. QED
    BY <2>3, <2>4, <2>5
<1>3. CASE Tick
  <2>1. UNCHANGED <<limits, faults, forgiven>>
    BY <1>3 DEF Tick
  <2>2. clock' <= MaxClock
    BY <1>1, <1>3, AuthAssumption DEF Tick
  <2>3. QED
    BY <2>1, <2>2 DEF BoundsInv, Tracked, limits
<1>4. CASE RemoveUser
  <2>1. UNCHANGED <<limits, clock, forgiven>>
    BY <1>4 DEF RemoveUser
  <2>2. faults' \in 0 .. MaxFaults
    BY <1>4, AuthAssumption DEF RemoveUser, BoundsInv
  <2>3. QED
    BY <2>1, <2>2 DEF BoundsInv, Tracked, limits
<1>5. CASE Restart
  <2>1. /\ slots' = MaxConcurrent /\ order' = <<>> /\ Tracked' = {}
        /\ UNCHANGED clock /\ forgiven' \subseteq Request \X Key
    BY <1>5 DEF Restart, LimitsReset, Tracked
  <2>2. faults' \in 0 .. MaxFaults
    BY <1>5, AuthAssumption DEF Restart, BoundsInv
  <2>3. <<>> \in Seq(Key) /\ Len(<<>>) = 0
    BY EmptySeq
  <2>4. MaxTracked \in Nat /\ MaxConcurrent \in Nat
    BY LimitsAssumption
  <2>5. QED
    BY <2>1, <2>2, <2>3, <2>4 DEF BoundsInv
<1>6. CASE UNCHANGED vars
  BY <1>6 DEF vars, limits, BoundsInv, Tracked
<1>7. QED
  BY <1>2, <1>3, <1>4, <1>5, <1>6 DEF Next

\* Every variable stays within its type and its bounds: no slot is given out that
\* is not there, and the limiter's dict and deques never outgrow their limits.
THEOREM TypeCorrectness == Spec => []TypeOK
<1>1. Init => IInv /\ LimiterInv /\ BoundsInv
  BY InitIInv, InitLimiter, InitBounds
<1>2. IInv /\ LimiterInv /\ BoundsInv /\ [Next]_vars => (IInv /\ LimiterInv /\ BoundsInv)'
  BY NextIInv, NextLimiter, NextBounds
<1>3. IInv /\ LimiterInv /\ BoundsInv => TypeOK
  <2> SUFFICES ASSUME IInv, LimiterInv, BoundsInv
               PROVE  TypeOK
    OBVIOUS
  <2>1. slots \in 0 .. MaxConcurrent /\ waiting \in Nat /\ active \in Nat
    <3>1. /\ Cardinality(Holding) \in Nat /\ Cardinality(Hashing) \in Nat
          /\ Cardinality(InQueue) \in Nat
      BY FS_CardinalityType DEF IInv, CountInv
    <3>2. HashingBounded /\ slots \in Nat /\ MaxConcurrent \in Nat
      BY LimitsAssumption DEF IInv, CountInv, BoundsInv
    <3>3. QED
      BY <3>1, <3>2 DEF HashingBounded
  <2>2. stamps \in [Key -> Seq(Nat)] /\ \A k \in Key : Len(stamps[k]) <= Threshold(k)
    <3>1. \A k \in Key : stamps[k] \in Seq(Nat) /\ Len(stamps[k]) <= Threshold(k)
      BY DEF LimiterInv, DequeOf, Deque
    <3>2. stamps = [k \in Key |-> stamps[k]]
      BY DEF LimiterInv
    <3>3. QED
      BY <3>1, <3>2
  <2>3. LimitsTypeOK
    BY <2>1, <2>2 DEF LimitsTypeOK, BoundsInv, Tracked
  <2>4. clock \in 0 .. MaxClock
    BY AuthAssumption DEF IInv, Types, BoundsInv
  <2>5. QED
    BY <2>3, <2>4 DEF TypeOK, IInv, Types, Requests, BoundsInv
<1>4. QED
  BY <1>1, <1>2, <1>3, PTL DEF Spec

\* A sequence has no more keys than it is long.
LEMMA KeysAtMost ==
    ASSUME NEW s \in Seq(Key)
    PROVE  IsFiniteSet(KeysOf(s)) /\ Cardinality(KeysOf(s)) <= Len(s)
<1>1. PICK l \in Nat : l = Len(s)
  BY LenProperties
<1>2. IsFiniteSet(1 .. l) /\ Cardinality(1 .. l) = l
  BY FS_Interval
<1>3. [i \in 1 .. l |-> s[i]] \in Surjection(1 .. l, KeysOf(s))
  <2>1. [i \in 1 .. l |-> s[i]] \in [1 .. l -> KeysOf(s)]
    BY <1>1 DEF KeysOf
  <2>2. \A x \in KeysOf(s) : \E i \in 1 .. l : s[i] = x
    BY <1>1 DEF KeysOf
  <2>3. QED
    BY <2>1, <2>2 DEF Surjection
<1>4. QED
  BY <1>1, <1>2, <1>3, FS_Surjection

\* However many addresses and emails are tried, and whatever the interleaving,
\* failures are remembered under at most MaxTracked keys.
THEOREM TrackedKeysAreBounded ==
    Spec => [](Cardinality({k \in Key : stamps[k] # <<>>}) <= MaxTracked)
<1>1. TypeOK => Cardinality({k \in Key : stamps[k] # <<>>}) <= MaxTracked
  <2> SUFFICES ASSUME TypeOK
               PROVE  Cardinality({k \in Key : stamps[k] # <<>>}) <= MaxTracked
    OBVIOUS
  <2>1. /\ order \in Seq(Key) /\ Len(order) <= MaxTracked
        /\ {k \in Key : stamps[k] # <<>>} \subseteq KeysOf(order)
    BY DEF TypeOK, LimitsTypeOK
  <2>2. PICK s \in Seq(Key), T \in SUBSET Key : s = order /\ T = {k \in Key : stamps[k] # <<>>}
    BY <2>1
  <2>3. IsFiniteSet(KeysOf(s)) /\ Cardinality(KeysOf(s)) <= Len(s)
    BY KeysAtMost
  <2>4. IsFiniteSet(T) /\ Cardinality(T) <= Cardinality(KeysOf(s))
    BY <2>1, <2>2, <2>3, FS_Subset
  <2>5. /\ Cardinality(T) \in Nat /\ Cardinality(KeysOf(s)) \in Nat
        /\ Len(s) \in Nat /\ MaxTracked \in Nat
    BY <2>3, <2>4, FS_CardinalityType, LenProperties, LimitsAssumption
  <2>6. QED
    BY <2>1, <2>2, <2>3, <2>4, <2>5
<1>2. QED
  BY <1>1, TypeCorrectness, PTL
=============================================================================
