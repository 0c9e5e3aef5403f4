---------------------------- MODULE MCJobManager ----------------------------
(* JobManager with more jobs than it may retain and fewer workers than jobs. *)
EXTENDS JobManager
=============================================================================
