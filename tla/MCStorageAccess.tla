-------------------------- MODULE MCStorageAccess --------------------------
(* StorageAccess with three requests on one dataset and one or two workers. *)
EXTENDS StorageAccess
=============================================================================
