------------------------------ MODULE MCServer ------------------------------
(***************************************************************************)
(* Instances of Server for TLC; the constants are in the .cfg files.  The  *)
(* clients are not declared symmetric: the runs check liveness, too.       *)
(***************************************************************************)
EXTENDS Server
=============================================================================
