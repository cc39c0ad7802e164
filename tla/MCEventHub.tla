----------------------------- MODULE MCEventHub -----------------------------
(* Small instances of EventHub for TLC. *)
EXTENDS EventHub, TLC

Symmetric == Permutations(Publishers) \cup Permutations(Streams)
=============================================================================
