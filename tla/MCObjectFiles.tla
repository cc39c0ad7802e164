--------------------------- MODULE MCObjectFiles ---------------------------
(* Small instances of ObjectFiles for TLC. *)
EXTENDS ObjectFiles, TLC

Symmetric == Permutations(Workers) \cup Permutations(Objects) \cup Permutations(FileIds)
=============================================================================
