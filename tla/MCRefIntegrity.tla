-------------------------- MODULE MCRefIntegrity ---------------------------
(***************************************************************************)
(* Small instances of RefIntegrity for TLC.                                *)
(***************************************************************************)
EXTENDS RefIntegrity, TLC

Symmetric == Permutations(Workers) \cup Permutations(Entities)
=============================================================================
