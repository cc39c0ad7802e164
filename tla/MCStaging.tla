----------------------------- MODULE MCStaging ------------------------------
(***************************************************************************)
(* Three requests share the staging directory of one object, for two of    *)
(* its files.                                                              *)
(***************************************************************************)
EXTENDS Staging, TLC

CONSTANTS k1

MCObjectOf == [f \in Files |-> k1]

Symmetric ==
  Permutations(Workers) \cup Permutations(Temps) \cup Permutations(Files)
=============================================================================
