---------------------------- MODULE MCFileCache ----------------------------
(* FileCache for TLC.  Its run checks a liveness property, so no symmetry. *)
EXTENDS FileCache
=============================================================================
