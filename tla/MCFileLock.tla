----------------------------- MODULE MCFileLock -----------------------------
(***************************************************************************)
(* Instances of FileLock for TLC; the constants are in the .cfg files.     *)
(* The callers and paths are not declared symmetric: the runs check        *)
(* liveness, too.                                                          *)
(***************************************************************************)
EXTENDS FileLock
=============================================================================
