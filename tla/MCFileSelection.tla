-------------------------- MODULE MCFileSelection --------------------------
(* Model-checking definitions for FileSelection: torrents and files are      *)
(* interchangeable.                                                         *)
EXTENDS FileSelection, TLC

Interchangeable == Permutations(Torrents) \cup Permutations(Files)
=============================================================================
