-------------------------- MODULE MCCatalogStartup --------------------------
(***************************************************************************)
(* Two catalog documents and two tasks: a task pinned to each while a      *)
(* third start is under way.                                               *)
(***************************************************************************)
EXTENDS CatalogStartup
=============================================================================
