---------------------------- MODULE MCChangeFeed ----------------------------
(***************************************************************************)
(* Small instances of ChangeFeed for TLC.  A behaviour is about an entity, *)
(* about an observation and an object it may own, or about an object with  *)
(* two files, one more than an event names.                                *)
(***************************************************************************)
EXTENDS ChangeFeed, TLC

CONSTANTS e1, o1, x1, f1, f2

MCScenes == {{e1}, {o1, x1}, {x1, f1, f2}}

Symmetric == Permutations(Workers) \cup Permutations(FileIds)
=============================================================================
