--------------------------- MODULE DatasetCatalog ---------------------------
(***************************************************************************)
(* What the dataset store promises, without saying how: a dataset is       *)
(* committed to disk before anyone can see it, stays committed for as long *)
(* as it is visible, always belongs to the user who reserved its id, and a *)
(* restart brings back committed datasets only.  DatasetLifecycle, the     *)
(* upload, delete, rollback and recovery code, implements it.              *)
(***************************************************************************)
CONSTANTS Dataset, User, NoUser

VARIABLES
    owner,      \* owner[d]: who reserved the id d
    durable,    \* durable[d]: the owner the disk records for d
    visible     \* visible[d]: the owner the running process serves d to

vars == <<owner, durable, visible>>

Nobody == [d \in Dataset |-> NoUser]

Init == owner = Nobody /\ durable = Nobody /\ visible = Nobody

Reserve(d, u) ==
    /\ owner[d] = NoUser
    /\ owner' = [owner EXCEPT ![d] = u]
    /\ UNCHANGED <<durable, visible>>

Commit(d) ==
    /\ owner[d] # NoUser
    /\ visible[d] = NoUser
    /\ durable' = [durable EXCEPT ![d] = owner[d]]
    /\ UNCHANGED <<owner, visible>>

Publish(d) ==
    /\ durable[d] # NoUser
    /\ visible' = [visible EXCEPT ![d] = durable[d]]
    /\ UNCHANGED <<owner, durable>>

Withdraw(d) ==
    /\ visible' = [visible EXCEPT ![d] = NoUser]
    /\ UNCHANGED <<owner, durable>>

Erase(d) ==
    /\ visible[d] = NoUser
    /\ durable' = [durable EXCEPT ![d] = NoUser]
    /\ UNCHANGED <<owner, visible>>

Crash ==
    /\ visible' = Nobody
    /\ UNCHANGED <<owner, durable>>

\* A restart serves some of the committed datasets (the ones that open).
Restart ==
    /\ visible = Nobody
    /\ \E opened \in SUBSET {d \in Dataset : durable[d] # NoUser} :
          visible' = [d \in Dataset |->
                        IF d \in opened THEN durable[d] ELSE NoUser]
    /\ UNCHANGED <<owner, durable>>

Next ==
    \/ \E d \in Dataset : 
          \/ \E u \in User : Reserve(d, u)
          \/ Commit(d) \/ Publish(d) \/ Withdraw(d) \/ Erase(d)
    \/ Crash
    \/ Restart

Spec == Init /\ [][Next]_vars
=============================================================================
