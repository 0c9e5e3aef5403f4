--------------------------- MODULE PasswordLimits ---------------------------
(***************************************************************************)
(* backend/auth/limits.py: the two process-wide limits of the auth routes, *)
(* as operations that the routes of Authentication compose.                *)
(*                                                                         *)
(* PasswordWorkLimiter is a bounded semaphore with a bounded queue in      *)
(* front of it: a caller takes a slot at once, or waits for one unless     *)
(* MaxWaiting others do.  LoginRateLimiter counts failures per (address,   *)
(* email), per address and per email over a sliding window: a deque of the *)
(* last stamps for each key, the keys themselves in an OrderedDict whose   *)
(* oldest entries go when there are too many.  Both dicts' lock sections   *)
(* are single steps here; the clock is read before they are entered.       *)
(***************************************************************************)
EXTENDS Integers, Sequences, FiniteSetsExt

CONSTANTS
    Address,        \* client addresses
    Email,          \* normalized emails, those without an account included
    MaxConcurrent,  \* hashing slots
    MaxWaiting,     \* callers that may wait for one
    PairLimit, AddressLimit, EmailLimit,    \* failures each scope allows
    Window,         \* how long a failure counts
    MaxTracked      \* keys kept

ASSUME LimitsAssumption ==
    /\ {MaxConcurrent, PairLimit, AddressLimit, EmailLimit} \subseteq Nat \ {0}
    /\ {Window, MaxTracked} \subseteq Nat \ {0}
    /\ MaxWaiting \in Nat

VARIABLES
    slots,      \* the semaphore's value
    waiting,    \* callers in its queue
    active,     \* callers hashing
    stamps,     \* stamps[k]: the deque of key k, empty when k is not in the dict
    order       \* the dict's keys, the least recently touched first

limits == <<slots, waiting, active, stamps, order>>

-----------------------------------------------------------------------------
PairKey(a, e) == <<"pair", a, e>>
AddressKey(a) == <<"ip", a>>
EmailKey(e)   == <<"email", e>>

Key == {PairKey(a, e) : a \in Address, e \in Email}
           \cup {AddressKey(a) : a \in Address} \cup {EmailKey(e) : e \in Email}

Keys(a, e) == <<PairKey(a, e), AddressKey(a), EmailKey(e)>>

KeySet(a, e) == {PairKey(a, e), AddressKey(a), EmailKey(e)}

Threshold(k) == CASE k[1] = "pair"  -> PairLimit
                  [] k[1] = "ip"    -> AddressLimit
                  [] k[1] = "email" -> EmailLimit

KeysOf(s) == {s[i] : i \in 1 .. Len(s)}

\* The deques and the dict are within their bounds, and whatever has a stamp is
\* in the dict: the memory that failures take is bounded.
LimitsTypeOK ==
    /\ slots   \in 0 .. MaxConcurrent
    /\ waiting \in Nat
    /\ active  \in Nat
    /\ stamps  \in [Key -> Seq(Nat)]
    /\ \A k \in Key : Len(stamps[k]) <= Threshold(k)
    /\ order   \in Seq(Key) /\ Len(order) <= MaxTracked
    /\ {k \in Key : stamps[k] # <<>>} \subseteq KeysOf(order)

LimitsInit ==
    /\ slots = MaxConcurrent
    /\ waiting = 0
    /\ active = 0
    /\ stamps = [k \in Key |-> <<>>]
    /\ order = <<>>

\* A new process starts with new limiters.
LimitsReset ==
    /\ slots' = MaxConcurrent
    /\ waiting' = 0
    /\ active' = 0
    /\ stamps' = [k \in Key |-> <<>>]
    /\ order' = <<>>

-----------------------------------------------------------------------------
(* PasswordWorkLimiter.slot.  A caller takes a slot and counts as active in *)
(* one step: nobody reads the counter in between.                           *)

\* The fast path: acquire(blocking=False) finds a slot.
AcquireNow ==
    /\ slots > 0
    /\ slots' = slots - 1
    /\ active' = active + 1
    /\ UNCHANGED <<waiting, stamps, order>>

\* ... or does not.
NoSlot == slots = 0 /\ UNCHANGED limits

QueueFull == waiting >= MaxWaiting

JoinQueue ==
    /\ ~QueueFull
    /\ waiting' = waiting + 1
    /\ UNCHANGED <<slots, active, stamps, order>>

\* acquire(timeout=...) gets a slot; the caller is still counted as waiting.
AcquireFromQueue ==
    /\ slots > 0
    /\ slots' = slots - 1
    /\ UNCHANGED <<waiting, active, stamps, order>>

\* ... or its time is up, which it notices only while there is no slot.
TimeOut == NoSlot

LeaveQueue ==
    /\ waiting' = waiting - 1
    /\ active' = active + 1
    /\ UNCHANGED <<slots, stamps, order>>

\* Mutant: a caller that got no slot gives one back.
GiveUpAndRelease ==
    /\ waiting' = waiting - 1
    /\ slots' = slots + 1
    /\ UNCHANGED <<active, stamps, order>>

GiveUp ==
    /\ waiting' = waiting - 1
    /\ UNCHANGED <<slots, active, stamps, order>>

\* Mutant: an error on the way out may keep the slot.
ReleaseSometimes ==
    /\ slots' \in {slots, slots + 1}
    /\ active' = active - 1
    /\ UNCHANGED <<waiting, stamps, order>>

\* The finally around the hashing, also when it raises.
Release ==
    /\ slots' = slots + 1
    /\ active' = active - 1
    /\ UNCHANGED <<waiting, stamps, order>>

-----------------------------------------------------------------------------
(* LoginRateLimiter.                                                        *)

\* Mutant: a stamp at the very edge of the window still counts.
PrunedLate(k, now) ==
    LET inWindow == {i \in DOMAIN stamps[k] : stamps[k][i] >= now - Window}
    IN  IF inWindow = {} THEN <<>>
        ELSE SubSeq(stamps[k], Min(inWindow), Len(stamps[k]))

\* _prune: stamps leave from the left while they are out of the window.
Pruned(k, now) ==
    LET inWindow == {i \in DOMAIN stamps[k] : stamps[k][i] > now - Window}
    IN  IF inWindow = {} THEN <<>>
        ELSE SubSeq(stamps[k], Min(inWindow), Len(stamps[k]))

\* A deque with maxlen n keeps the n stamps appended last.
LastOf(s, n) == IF Len(s) <= n THEN s ELSE SubSeq(s, Len(s) - n + 1, Len(s))

\* Mutant: the threshold itself is still allowed.
BlockedAbove(a, e, now) ==
    \E k \in KeySet(a, e) : Len(Pruned(k, now)) > Threshold(k)

\* The dict's keys, in their order, without those that are not in K.
Kept(s, K) ==
    LET kept[i \in 0 .. Len(s)] ==
            IF i = 0 THEN <<>>
            ELSE IF s[i] \in K THEN Append(kept[i - 1], s[i]) ELSE kept[i - 1]
    IN  kept[Len(s)]

\* retry_after: some scope has used up its failures.
Blocked(a, e, now) ==
    \E k \in KeySet(a, e) : Len(Pruned(k, now)) >= Threshold(k)

\* ... and what it leaves behind: the three keys pruned, empty ones deleted.
RetryAfter(a, e, now) ==
    /\ stamps' = [k \in Key |-> IF k \in KeySet(a, e) THEN Pruned(k, now) ELSE stamps[k]]
    /\ order' = Kept(order, {k \in Key : stamps'[k] # <<>>})
    /\ UNCHANGED <<slots, waiting, active>>

\* The keys once the three of (a, e) were touched, and those then evicted.
Touched(a, e) == Kept(order, Key \ KeySet(a, e)) \o Keys(a, e)

Evicted(a, e) ==
    {Touched(a, e)[i] : i \in 1 .. (Len(Touched(a, e)) - MaxTracked)}

\* record_failure.
RecordFailure(a, e, now) ==
    /\ stamps' = [k \in Key |->
                     IF k \in Evicted(a, e) THEN <<>>
                     ELSE IF k \in KeySet(a, e)
                     THEN LastOf(Append(Pruned(k, now), now), Threshold(k))
                     ELSE stamps[k]]
    /\ order' = LastOf(Touched(a, e), MaxTracked)
    /\ UNCHANGED <<slots, waiting, active>>

\* record_success: the pair only.
RecordSuccess(a, e) ==
    /\ stamps' = [stamps EXCEPT ![PairKey(a, e)] = <<>>]
    /\ order' = Kept(order, Key \ {PairKey(a, e)})
    /\ UNCHANGED <<slots, waiting, active>>
=============================================================================
