------------------------------ MODULE Callers ------------------------------
(***************************************************************************)
(* The tasks that call into the repository.  Those of one process share a  *)
(* FileRepository and its FileLock; Tokio runs them concurrently.          *)
(***************************************************************************)

CONSTANT Tasks
=============================================================================
