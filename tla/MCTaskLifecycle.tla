-------------------------- MODULE MCTaskLifecycle --------------------------
(***************************************************************************)
(* Small instances of TaskLifecycle for TLC.  The two catalogs disagree on *)
(* the second command, so a write validated against the wrong one shows.   *)
(***************************************************************************)
EXTENDS TaskLifecycle, TLC

CONSTANTS k1, k2, c1, c2

\* k1 defines both commands, k2 only the first and only without parameters.
MCAccepts ==
  ({k1} \X {c1, c2} \X (Parameters \cup {Absent})) \cup {<<k2, c1, Absent>>}

Symmetric == Permutations(Workers) \cup Permutations(Tasks)
=============================================================================
