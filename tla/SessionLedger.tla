---------------------------- MODULE SessionLedger ----------------------------
(***************************************************************************)
(* What sessions promise the holder of a token, whatever the database and  *)
(* its locks do: a token is issued once, admits its holder only while it   *)
(* is live, and once it has ended it admits nobody again.  It ends when a  *)
(* call revokes it, when its user is gone, or by its deadlines, which no   *)
(* call ever moves back: Lifetime after it was opened, IdleTimeout after   *)
(* it was last used.  A call is judged by the time at which it was made.   *)
(***************************************************************************)
EXTENDS Integers

CONSTANTS Token, Call, IdleTimeout, Lifetime, None

VARIABLES
    time,       \* the wall clock
    users,      \* the users there are
    live,       \* the user, opening and last use of each live token
    ended,      \* the tokens that have ended
    made,       \* when each call was made, None before
    admitted,   \* the user each call was let in as, None if it was not
    revoked     \* the token each call revoked, None if it did not

ledger == <<time, users, live, ended, made, admitted, revoked>>

Session == [user : Nat, opened : Nat, used : Nat]

Init ==
    /\ time \in Nat
    /\ users \in SUBSET Nat
    /\ live \in [Token -> Session \cup {None}]
    /\ ended \subseteq {t \in Token : live[t] = None}
    /\ made = [c \in Call |-> None]
    /\ admitted = [c \in Call |-> None]
    /\ revoked = [c \in Call |-> None]

Ends(T) ==
    /\ live' = [t \in Token |-> IF t \in T THEN None ELSE live[t]]
    /\ ended' = ended \cup T

Over(t, now) ==
    \/ live[t].user \notin users
    \/ now >= live[t].opened + Lifetime
    \/ now >= live[t].used + IdleTimeout

Tick ==
    /\ time' > time
    /\ UNCHANGED <<users, live, ended, made, admitted, revoked>>

Make(c) ==
    /\ made[c] = None
    /\ made' = [made EXCEPT ![c] = time]
    /\ UNCHANGED <<time, users, live, ended, admitted, revoked>>

\* A user arrives; one that leaves may take its tokens along.
ChangeUsers ==
    /\ \E U \in SUBSET (users \cup users') :
          Ends({t \in Token : live[t] # None /\ live[t].user \in U \ users'})
    /\ UNCHANGED <<time, made, admitted, revoked>>

\* A token never seen before, opened at the time the call had read.
Issue(t) ==
    /\ live[t] = None /\ t \notin ended
    /\ \E u \in users, opened \in 0 .. time :
          live' = [live EXCEPT ![t] = [user |-> u, opened |-> opened, used |-> opened]]
    /\ UNCHANGED <<time, users, ended, made, admitted, revoked>>

Admit(c, t) ==
    /\ admitted[c] = None /\ made[c] # None
    /\ live[t] # None /\ ~Over(t, made[c])
    /\ admitted' = [admitted EXCEPT ![c] = live[t].user]
    /\ live' = [live EXCEPT ![t].used = IF made[c] > @ THEN made[c] ELSE @]
    /\ UNCHANGED <<time, users, ended, made, revoked>>

Revoke(c, t) ==
    /\ revoked[c] = None
    /\ revoked' = [revoked EXCEPT ![c] = t]
    /\ Ends({t})
    /\ UNCHANGED <<time, users, made, admitted>>

\* Only what is over by now is cleared away.
Expire(T) ==
    /\ \A t \in T : live[t] # None /\ Over(t, time)
    /\ Ends(T)
    /\ UNCHANGED <<time, users, made, admitted, revoked>>

Next ==
    \/ Tick
    \/ ChangeUsers
    \/ \E c \in Call : Make(c)
    \/ \E t \in Token : Issue(t)
    \/ \E c \in Call, t \in Token : Admit(c, t) \/ Revoke(c, t)
    \/ \E T \in SUBSET Token : Expire(T)

Spec == Init /\ [][Next]_ledger
=============================================================================
