---------------------------- MODULE MCFileService ----------------------------
(***************************************************************************)
(* Instances of FileService for TLC; the constants are in the .cfg files.  *)
(***************************************************************************)
EXTENDS FileService, TLC

\* Sessions are interchangeable, and so are paths.
Symmetry == Permutations(Sessions) \cup Permutations(Paths)
=============================================================================
