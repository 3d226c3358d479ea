------------------------- MODULE MCSessionTransfer -------------------------
(***************************************************************************)
(* Instances of SessionTransfer for TLC; the constants are in the .cfg     *)
(* files.                                                                  *)
(***************************************************************************)
EXTENDS SessionTransfer
=============================================================================
