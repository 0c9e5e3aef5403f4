-------------------------- MODULE MCAuthentication --------------------------
(***************************************************************************)
(* Authentication twice: three attempts at one hashing slot with one place *)
(* in its queue, and three requests around the sessions of one browser.    *)
(***************************************************************************)
EXTENDS Authentication, TLC

Attempts == [login |-> 3, register |-> 1, logout |-> 0, me |-> 0]

Visits == [login |-> 1, register |-> 1, logout |-> 1, me |-> 2]

Symmetry == Permutations(Request)
=============================================================================
