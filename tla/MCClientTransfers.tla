------------------------- MODULE MCClientTransfers -------------------------
(***************************************************************************)
(* Instances of ClientTransfers for TLC; the constants are in the .cfg     *)
(* files.                                                                  *)
(***************************************************************************)
EXTENDS ClientTransfers
=============================================================================
