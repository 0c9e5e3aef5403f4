---------------------------- MODULE SessionStore ----------------------------
(***************************************************************************)
(* backend/auth/store.py and sessions.py: the accounts and sessions of one *)
(* SQLite database, as operations that the routes of Authentication        *)
(* compose.                                                                *)
(*                                                                         *)
(* Every write needs the database's one write lock.  A statement of its    *)
(* own (revoke, clean up, insert a user) takes it and gives it back in one *)
(* step; validate_session takes it with BEGIN IMMEDIATE, reads the row,    *)
(* decides and writes before it commits.  The time `now` a caller brings   *)
(* was read before it had the lock.  A token is the number of the          *)
(* create_session that minted it: tokens are never minted twice.           *)
(***************************************************************************)
EXTENDS Integers, FiniteSets

CONSTANTS
    Account,        \* normalized emails that somebody registers
    Members,        \* those registered in an earlier run of the process
    Token,          \* numbers of the sessions that may be created
    Caller,         \* whoever may hold the write lock
    IdleTimeout, Lifetime,
    None

ASSUME SessionsAssumption ==
    /\ {IdleTimeout, Lifetime} \subseteq Nat \ {0}
    /\ Members \subseteq Account /\ IsFiniteSet(Members)
    /\ Token \subseteq Nat \ {0}
    /\ None \notin Nat \cup Caller
    /\ None \notin [user : Nat, created : Nat, seen : Nat]
    /\ None \notin [user : Nat, opened : Nat, used : Nat]

VARIABLES
    accounts,   \* the user id of each email that has one, 0 for the others
    lastId,     \* the last user id handed out: uuid4 never repeats one
    sessions,   \* the row of each token, or None
    minted,     \* the last token minted
    writer      \* who holds the write lock, or None

store == <<accounts, lastId, sessions, minted, writer>>

\* expires_at is created_at + Lifetime, written once and never again.
Row == [user : Nat, created : Nat, seen : Nat]

StoreTypeOK ==
    /\ accounts \in [Account -> Nat]
    /\ lastId   \in Nat
    /\ sessions \in [Token -> Row \cup {None}]
    /\ minted   \in Nat
    /\ writer   \in Caller \cup {None}

-----------------------------------------------------------------------------
(* store.py.                                                                *)

HasAccount(user) == user # 0 /\ \E a \in Account : accounts[a] = user

OpenRow(user, now) == [user |-> user, created |-> now, seen |-> now]

\* Members have an account each, and one of them may have a session already.
StoreInit ==
    /\ lastId = Cardinality(Members)
    /\ accounts \in [Account -> 0 .. lastId]
    /\ \A a, b \in Account : accounts[a] = accounts[b] => a = b \/ accounts[a] = 0
    /\ \A a \in Account : a \in Members <=> accounts[a] # 0
    /\ minted \in {0} \cup (Token \cap {1})
    /\ sessions \in [Token -> {None} \cup {OpenRow(u, 0) : u \in {accounts[a] : a \in Members}}]
    /\ \A t \in Token : sessions[t] # None => t = minted
    /\ writer = None

\* create_user's INSERT, for an email nobody has.
InsertUser(a) ==
    /\ writer = None
    /\ accounts[a] = 0
    /\ lastId' = lastId + 1
    /\ accounts' = [accounts EXCEPT ![a] = lastId + 1]
    /\ UNCHANGED <<sessions, minted, writer>>

\* ... for a taken one: the UNIQUE constraint fails.
DuplicateEmail(a) == accounts[a] # 0 /\ UNCHANGED store

\* A user row deleted from outside.  Over a connection that enforces foreign
\* keys the sessions go with it, over any other they stay as orphans.
DeleteUser(a, cascades) ==
    /\ writer = None
    /\ accounts[a] # 0
    /\ accounts' = [accounts EXCEPT ![a] = 0]
    /\ sessions' = [t \in Token |->
                       IF cascades /\ sessions[t] # None /\ sessions[t].user = accounts[a]
                       THEN None ELSE sessions[t]]
    /\ UNCHANGED <<lastId, minted, writer>>

-----------------------------------------------------------------------------
(* sessions.py.                                                             *)

Expired(row, now) == now >= row.created + Lifetime \/ now >= row.seen + IdleTimeout

\* create_session's transaction, for a user that still exists.
CreateSession(user, now) ==
    /\ writer = None
    /\ HasAccount(user)
    /\ minted + 1 \in Token
    /\ minted' = minted + 1
    /\ sessions' = [sessions EXCEPT ![minted + 1] = OpenRow(user, now)]
    /\ UNCHANGED <<accounts, lastId, writer>>

\* revoke_session's DELETE.
RevokeSession(t) ==
    /\ writer = None
    /\ sessions' = [sessions EXCEPT ![t] = None]
    /\ UNCHANGED <<accounts, lastId, minted, writer>>

\* Mutant: a plain BEGIN, which takes no lock before the first write.
BeginDeferred(c) ==
    /\ writer = None
    /\ UNCHANGED store

\* validate_session, BEGIN IMMEDIATE.
BeginImmediate(c) ==
    /\ writer = None
    /\ writer' = c
    /\ UNCHANGED <<accounts, lastId, sessions, minted>>

\* The row its SELECT ... JOIN users finds, or None.
Joined(t) ==
    IF sessions[t] # None /\ HasAccount(sessions[t].user) THEN sessions[t] ELSE None

\* Only ever forward.
Seen(row, now) == IF now > row.seen THEN [row EXCEPT !.seen = now] ELSE row

\* The caller's `row` is live: bump last_seen_at.  The UPDATE finds no row to
\* write when there is none any more.
AcceptSession(t, row, now) ==
    /\ row # None /\ ~Expired(row, now)
    /\ sessions' = [sessions EXCEPT ![t] = IF @ = None THEN None ELSE Seen(row, now)]
    /\ writer' = None
    /\ UNCHANGED <<accounts, lastId, minted>>

\* Unknown, revoked, orphaned or expired: whatever row there is goes.
DropSession(t, row, now) ==
    /\ row # None => Expired(row, now)
    /\ sessions' = [sessions EXCEPT ![t] = None]
    /\ writer' = None
    /\ UNCHANGED <<accounts, lastId, minted>>

\* sqlite3.Error on the way: rolled back.
RollBack ==
    /\ writer' = None
    /\ UNCHANGED <<accounts, lastId, sessions, minted>>

\* What cleanup_expired_sessions deletes.
Dead(row, now) == row # None /\ (Expired(row, now) \/ ~HasAccount(row.user))

\* cleanup_expired_sessions, in one DELETE.
CleanUp(now) ==
    /\ sessions' = [t \in Token |-> IF Dead(sessions[t], now) THEN None ELSE sessions[t]]
    /\ writer' = None
    /\ UNCHANGED <<accounts, lastId, minted>>
=============================================================================
