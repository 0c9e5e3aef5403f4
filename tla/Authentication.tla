--------------------------- MODULE Authentication ---------------------------
(***************************************************************************)
(* backend/auth/routes.py and get_current_user: what the auth routes do    *)
(* with the limits, the accounts and the sessions.                         *)
(*                                                                         *)
(* A request runs in a threadpool thread of its own, one step per lock     *)
(* section, transaction or answer.  The clock is read where the code reads *)
(* it, before the lock or the transaction it is meant for: that reading is *)
(* part of the step before, since time that passes in between is time that *)
(* passes before that step.  A restart loses the requests and the limits,  *)
(* which live in memory, and keeps the database and the browsers' cookies. *)
(***************************************************************************)
EXTENDS PasswordLimits, SessionStore

CONSTANTS
    Request,
    Browser,        \* each at an address of its own, with one cookie jar
    MaxClock,       \* bound on the clock
    MaxFaults,      \* bound on restarts and users deleted from outside
    AtMost          \* bound on the requests of each route

ASSUME AuthAssumption ==
    /\ Browser = Address /\ Account \subseteq Email /\ Caller = Request
    /\ 0 \notin Token /\ {MaxClock, MaxFaults} \subseteq Nat
    /\ AtMost \in [{"login", "register", "logout", "me"} -> Nat]

VARIABLES
    clock,      \* the time
    cookie,     \* the session cookie of each browser, 0 without one
    req,        \* each request's route, input, local variables and answer
    faults,     \* restarts and deletions so far
    forgiven    \* history: the failures a key has legitimately forgotten

vars == <<limits, store, clock, cookie, req, faults, forgiven>>

PC == {"new", "retryAfter", "lookup", "acquire", "queue", "wait", "leave", "giveUp",
       "hash", "release", "recordFailure", "recordSuccess", "revoke", "create", "deliver",
       "begin", "decide", "user", "done", "lost"}

Route == {"none", "login", "register", "logout", "me"}

Answer == {0, 200, 201, 401, 409, 429, 503}

RequestState ==
    [pc : PC, route : Route, browser : Browser \cup {None}, email : Email \cup {None},
     guess : BOOLEAN, token : Nat, now : Nat, user : Nat, row : Row \cup {None},
     failed : Nat \cup {None}, minted : Nat, revoked : BOOLEAN, answer : Answer]

TypeOK ==
    /\ LimitsTypeOK
    /\ StoreTypeOK
    /\ clock \in 0 .. MaxClock
    /\ cookie \in [Browser -> Nat]
    /\ req \in [Request -> RequestState]
    /\ faults \in 0 .. MaxFaults
    /\ forgiven \in SUBSET (Request \X Key)

NewRequest ==
    [pc |-> "new", route |-> "none", browser |-> None, email |-> None, guess |-> FALSE,
     token |-> 0, now |-> 0, user |-> 0, row |-> None, failed |-> None, minted |-> 0,
     revoked |-> FALSE, answer |-> 0]

\* The browsers may hold the session of an earlier run.
Init ==
    /\ LimitsInit
    /\ StoreInit
    /\ clock = 0
    /\ cookie \in [Browser -> {0, minted}]
    /\ req = [r \in Request |-> NewRequest]
    /\ faults = 0
    /\ forgiven = {}

-----------------------------------------------------------------------------
At(r, pc) == req[r].pc = pc

Goto(r, pc) == req' = [req EXCEPT ![r].pc = pc]

GotoNow(r, pc) == req' = [req EXCEPT ![r].pc = pc, ![r].now = clock]

\* A request that ends leaves nothing but what the properties still ask about:
\* a validation its outcome, a failure its keys, a revocation its token.
Ended(q, pc) ==
    LET keep(test, value, default) == IF test THEN value ELSE default
    IN  [pc |-> pc, route |-> q.route, answer |-> q.answer, failed |-> q.failed,
         revoked |-> q.revoked, guess |-> FALSE, row |-> None, minted |-> 0,
         browser |-> keep(q.failed # None, q.browser, None),
         email   |-> keep(q.failed # None, q.email, None),
         now     |-> keep(q.failed # None \/ q.route = "me", q.now, 0),
         user    |-> keep(q.route = "me", q.user, 0),
         token   |-> keep(q.revoked \/ q.route = "logout", q.token, 0)]

Reply(r, code) ==
    req' = [req EXCEPT ![r] = Ended([@ EXCEPT !.answer = code], "done")]

\* The answer is on its way; the browser acts on its Set-Cookie when it arrives.
Send(r, code) == req' = [req EXCEPT ![r].pc = "deliver", ![r].answer = code]

OnlyLimits == UNCHANGED <<store, clock, cookie, faults, forgiven>>
OnlyStore  == UNCHANGED <<limits, clock, cookie, faults, forgiven>>
OnlyReq    == OnlyLimits /\ UNCHANGED limits

Expected(route) == Cardinality({q \in Request : req[q].route = route}) < AtMost[route]

\* login's input, and the clock for retry_after.  Emails and guesses stand for
\* what the body holds; a body or origin that is refused changes nothing.
Login(r, b, e, g) ==
    /\ At(r, "new") /\ Expected("login")
    /\ req' = [req EXCEPT ![r] =
                  [@ EXCEPT !.pc = "retryAfter", !.route = "login", !.browser = b,
                            !.email = e, !.guess = g, !.token = cookie[b], !.now = clock]]
    /\ OnlyReq

Register(r, a) ==
    /\ At(r, "new") /\ Expected("register")
    /\ req' = [req EXCEPT ![r] =
                  [@ EXCEPT !.pc = "acquire", !.route = "register", !.email = a]]
    /\ OnlyReq

\* Without a cookie there is nothing to revoke.
Logout(r, b) ==
    /\ At(r, "new") /\ Expected("logout")
    /\ req' = [req EXCEPT ![r] =
                  [@ EXCEPT !.pc = IF cookie[b] = 0 THEN "deliver" ELSE "revoke",
                            !.answer = IF cookie[b] = 0 THEN 200 ELSE 0,
                            !.route = "logout", !.browser = b, !.token = cookie[b]]]
    /\ OnlyReq

\* Any route behind get_current_user; /me asks for the account as well.
Me(r, b) ==
    /\ At(r, "new") /\ Expected("me")
    /\ req' = [req EXCEPT ![r] =
                  [@ EXCEPT !.pc = IF cookie[b] = 0 THEN "done" ELSE "begin",
                            !.answer = IF cookie[b] = 0 THEN 401 ELSE 0,
                            !.route = "me", !.browser = b, !.token = cookie[b], !.now = clock]]
    /\ OnlyReq

-----------------------------------------------------------------------------
(* _login_blocking and _register_blocking, up to the password.              *)

IsBlocked(r) == Blocked(req[r].browser, req[r].email, req[r].now)

AdmitAttempt(r) ==
    /\ At(r, "retryAfter")
    /\ ~IsBlocked(r)
    /\ RetryAfter(req[r].browser, req[r].email, req[r].now)
    /\ Goto(r, "lookup")
    /\ OnlyLimits

RefuseAttempt(r) ==
    /\ At(r, "retryAfter")
    /\ IsBlocked(r)
    /\ RetryAfter(req[r].browser, req[r].email, req[r].now)
    /\ Reply(r, 429)
    /\ OnlyLimits

\* get_user_by_email.
Lookup(r) ==
    /\ At(r, "lookup")
    /\ req' = [req EXCEPT ![r].pc = "acquire",
                          ![r].user = IF req[r].email \in Account
                                      THEN accounts[req[r].email] ELSE 0]
    /\ OnlyReq

LookupFails(r) == At(r, "lookup") /\ Reply(r, 503) /\ OnlyReq

TakeSlot(r) ==
    /\ At(r, "acquire")
    /\ \/ AcquireNow /\ Goto(r, "hash")
       \/ NoSlot /\ Goto(r, "queue")
    /\ OnlyLimits

Queue(r) ==
    /\ At(r, "queue")
    /\ \/ JoinQueue /\ Goto(r, "wait")
       \/ QueueFull /\ Reply(r, 503) /\ UNCHANGED limits
    /\ OnlyLimits

Wait(r) ==
    /\ At(r, "wait")
    /\ \/ AcquireFromQueue /\ Goto(r, "leave")
       \/ TimeOut /\ Goto(r, "giveUp")
    /\ OnlyLimits

Leave(r) ==
    /\ \/ At(r, "leave") /\ LeaveQueue /\ Goto(r, "hash")
       \/ At(r, "giveUp") /\ GiveUp /\ Reply(r, 503)
    /\ OnlyLimits

\* verify_password, against the dummy hash when there is no such account.
Verify(r) ==
    /\ At(r, "hash") /\ req[r].route = "login"
    /\ Release
    /\ IF req[r].user # 0 /\ req[r].guess THEN Goto(r, "recordSuccess")
       ELSE GotoNow(r, "recordFailure")
    /\ OnlyLimits

\* create_user inside the slot: hash_password, then the INSERT.
CreateUser(r) ==
    /\ At(r, "hash") /\ req[r].route = "register"
    /\ \/ InsertUser(req[r].email) /\ req' = [req EXCEPT ![r].pc = "release", ![r].answer = 201]
       \/ DuplicateEmail(req[r].email) /\ req' = [req EXCEPT ![r].pc = "release", ![r].answer = 409]
    /\ OnlyStore

CreateUserFails(r) ==
    /\ At(r, "hash") /\ req[r].route = "register"
    /\ req' = [req EXCEPT ![r].pc = "release", ![r].answer = 503]
    /\ OnlyReq

LeaveSlot(r) ==
    /\ At(r, "release")
    /\ Release
    /\ Reply(r, req[r].answer)
    /\ OnlyLimits

-----------------------------------------------------------------------------
(* The outcome of a login.                                                  *)

\* History: q's failure counts under k, and no success, eviction or restart
\* has wiped it out.
Failures(k) ==
    {q \in Request : /\ req[q].failed # None
                     /\ k \in KeySet(req[q].browser, req[q].email)
                     /\ <<q, k>> \notin forgiven}

Fail(r) ==
    /\ At(r, "recordFailure")
    /\ RecordFailure(req[r].browser, req[r].email, req[r].now)
    /\ req' = [req EXCEPT ![r] =
                  Ended([@ EXCEPT !.answer = 401, !.failed = clock], "done")]
    /\ forgiven' = forgiven \cup
          ({q \in Request : req'[q].failed # None}
              \X Evicted(req[r].browser, req[r].email))
    /\ UNCHANGED <<store, clock, cookie, faults>>

\* A cookie the browser sent is retired first.
Succeed(r) ==
    /\ At(r, "recordSuccess")
    /\ RecordSuccess(req[r].browser, req[r].email)
    /\ IF req[r].token # 0 THEN Goto(r, "revoke") ELSE GotoNow(r, "create")
    /\ forgiven' = forgiven \cup
          {<<q, k>> : q \in Failures(PairKey(req[r].browser, req[r].email)),
                      k \in {PairKey(req[r].browser, req[r].email)}}
    /\ UNCHANGED <<store, clock, cookie, faults>>

\* revoke_session, for login's previous token and for logout.
Revoke(r) ==
    /\ At(r, "revoke")
    /\ RevokeSession(req[r].token)
    /\ req' = [req EXCEPT ![r].pc = IF req[r].route = "login" THEN "create" ELSE "deliver",
                          ![r].now = clock, ![r].revoked = TRUE,
                          ![r].answer = IF req[r].route = "login" THEN 0 ELSE 200]
    /\ OnlyStore

\* Mutant: logout does not look at the outcome.
RevokeFailsQuietly(r) ==
    /\ At(r, "revoke")
    /\ IF req[r].route = "login" THEN GotoNow(r, "create") ELSE Send(r, 200)
    /\ OnlyReq

\* SessionStoreError: login goes on, logout owns up.
RevokeFails(r) ==
    /\ At(r, "revoke")
    /\ IF req[r].route = "login" THEN GotoNow(r, "create") ELSE Send(r, 503)
    /\ OnlyReq

Create(r) ==
    /\ At(r, "create")
    /\ CreateSession(req[r].user, req[r].now)
    /\ req' = [req EXCEPT ![r].pc = "deliver", ![r].answer = 200, ![r].minted = minted + 1]
    /\ OnlyStore

\* The user is gone, or sqlite3.Error.
CreateFails(r) == At(r, "create") /\ Reply(r, 503) /\ OnlyReq

\* The browser takes the cookie of a login, and drops its own after a logout.
Deliver(r) ==
    /\ At(r, "deliver")
    /\ Reply(r, req[r].answer)
    /\ cookie' = [cookie EXCEPT ![req[r].browser] = req[r].minted]
    /\ UNCHANGED <<limits, store, clock, faults, forgiven>>

-----------------------------------------------------------------------------
(* get_current_user, then /me.                                              *)

Begin(r) ==
    /\ At(r, "begin")
    /\ BeginImmediate(r)
    /\ req' = [req EXCEPT ![r].pc = "decide", ![r].row = Joined(req[r].token)]
    /\ OnlyStore

BeginFails(r) == At(r, "begin") /\ Reply(r, 401) /\ OnlyReq

Accept(r) ==
    /\ At(r, "decide")
    /\ AcceptSession(req[r].token, req[r].row, req[r].now)
    /\ req' = [req EXCEPT ![r].pc = "user", ![r].user = req[r].row.user, ![r].row = None]
    /\ OnlyStore

Drop(r) ==
    /\ At(r, "decide")
    /\ DropSession(req[r].token, req[r].row, req[r].now)
    /\ Reply(r, 401)
    /\ OnlyStore

\* Fails closed.
DecideFails(r) ==
    /\ At(r, "decide")
    /\ RollBack
    /\ Reply(r, 401)
    /\ OnlyStore

\* get_user_by_id: the account may be gone by now.
ShowUser(r) ==
    /\ At(r, "user")
    /\ Reply(r, IF HasAccount(req[r].user) THEN 200 ELSE 401)
    /\ OnlyReq

ShowUserFails(r) == At(r, "user") /\ Reply(r, 503) /\ OnlyReq

-----------------------------------------------------------------------------
Tick ==
    /\ clock < MaxClock
    /\ clock' = clock + 1
    /\ UNCHANGED <<limits, store, cookie, req, faults, forgiven>>

RemoveUser ==
    /\ faults < MaxFaults
    /\ faults' = faults + 1
    /\ \E a \in Account, cascades \in BOOLEAN : DeleteUser(a, cascades)
    /\ UNCHANGED <<limits, clock, cookie, req, forgiven>>

\* The process dies and comes back: _cleanup_expired_sessions runs before the
\* first request is served, or fails and is skipped.
Restart ==
    /\ faults < MaxFaults
    /\ faults' = faults + 1
    /\ LimitsReset
    /\ CleanUp(clock) \/ RollBack
    /\ req' = [r \in Request |->
                  IF req[r].pc \in {"new", "done"} THEN req[r]
                  ELSE Ended(req[r], "lost")]
    /\ forgiven' = {q \in Request : req[q].failed # None} \X Key
    /\ UNCHANGED <<clock, cookie>>

Arrive(r) ==
    \/ \E b \in Browser, e \in Email, g \in BOOLEAN : Login(r, b, e, g)
    \/ \E a \in Account : Register(r, a)
    \/ \E b \in Browser : Logout(r, b) \/ Me(r, b)

Step(r) ==
    \/ AdmitAttempt(r) \/ RefuseAttempt(r) \/ Lookup(r) \/ LookupFails(r)
    \/ TakeSlot(r) \/ Queue(r) \/ Wait(r) \/ Leave(r)
    \/ Verify(r) \/ CreateUser(r) \/ CreateUserFails(r) \/ LeaveSlot(r)
    \/ Fail(r) \/ Succeed(r)
    \/ Revoke(r) \/ RevokeFails(r) \/ Create(r) \/ CreateFails(r) \/ Deliver(r)
    \/ Begin(r) \/ BeginFails(r) \/ Accept(r) \/ Drop(r) \/ DecideFails(r)
    \/ ShowUser(r) \/ ShowUserFails(r)

Next ==
    \/ \E r \in Request : Arrive(r) \/ Step(r)
    \/ Tick \/ RemoveUser \/ Restart

Spec == Init /\ [][Next]_vars

-----------------------------------------------------------------------------
(* Properties.                                                              *)

Holding == {r \in Request : req[r].pc \in {"leave", "hash", "release"}}
Hashing == {r \in Request : req[r].pc \in {"hash", "release"}}
InQueue == {r \in Request : req[r].pc \in {"wait", "leave", "giveUp"}}

\* However requests time out, fail or are refused, every slot is either free or
\* held, both counters count exactly who they say, and neither limit is passed:
\* the memory scrypt takes stays bounded.
HashingBounded ==
    /\ slots + Cardinality(Holding) = MaxConcurrent
    /\ active = Cardinality(Hashing)
    /\ waiting = Cardinality(InQueue) /\ waiting <= MaxWaiting

\* A user who logged out with a 200 is logged out for good: no validation that
\* was under way brings the session back.
LogoutIsFinal ==
    \A r \in Request :
        req[r].route = "logout" /\ req[r].answer = 200 /\ req[r].token # 0
            => sessions[req[r].token] = None

Admitted(r) == At(r, "retryAfter") /\ req'[r].pc = "lookup"
Refused(r)  == At(r, "retryAfter") /\ req'[r].pc = "done"

\* No failure under k was recorded more than `late` after its stamp was read: that
\* is how long record_failure waited for the lock.
LateAtMost(k, late) == \A q \in Failures(k) : req[q].failed - req[q].now <= late

\* The failures under k recorded since a time.
Since(k, time) == {q \in Failures(k) : req[q].failed > time}

\* A scope that has used up its failures lets no further attempt through to the
\* password until the window has passed over them, however attempts overlap.  Of
\* failures recorded in another order than they were stamped, the window loses no
\* more than the longest of their delays.
LockedOutIsRefused ==
    [][\A r \in Request : Admitted(r) =>
          \A k \in KeySet(req[r].browser, req[r].email), late \in 0 .. MaxClock :
              LateAtMost(k, late) =>
                  Cardinality(Since(k, clock - Window + late)) < Threshold(k)]_vars

\* A 429 is only ever given for as many failures within the window as some scope
\* allows, even when they were recorded in another order than they were stamped.
RefusedOnlyWhenLocked ==
    [][\A r \in Request : Refused(r) =>
          \E k \in KeySet(req[r].browser, req[r].email) :
              Cardinality(Since(k, req[r].now - Window)) >= Threshold(k)]_vars

\* The sessions keep the promises of SessionLedger, at whatever point the write
\* lock is taken, the clock moves, users vanish or the process restarts.
Ledger == INSTANCE SessionLedger WITH
    Call <- Request,
    time <- clock,
    users <- {accounts[a] : a \in Account} \ {0},
    live <- [t \in Token |-> IF sessions[t] = None THEN None
                ELSE [user |-> sessions[t].user, opened |-> sessions[t].created,
                      used |-> sessions[t].seen]],
    ended <- {t \in Token : t <= minted /\ sessions[t] = None},
    made <- [r \in Request |-> IF req[r].route = "me" THEN req[r].now ELSE None],
    admitted <- [r \in Request |->
                    IF req[r].route = "me" /\ req[r].user # 0 THEN req[r].user ELSE None],
    revoked <- [r \in Request |-> IF req[r].revoked THEN req[r].token ELSE None]

ImplementsLedger == Ledger!Spec
=============================================================================
