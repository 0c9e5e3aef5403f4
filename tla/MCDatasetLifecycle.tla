------------------------- MODULE MCDatasetLifecycle -------------------------
(* DatasetLifecycle on small sets of users, ids and requests.              *)
EXTENDS DatasetLifecycle, TLC

\* Users, ids and requests are interchangeable.  Safety runs only.
Symmetry == Permutations(User) \cup Permutations(Dataset) \cup Permutations(Request)
=============================================================================
