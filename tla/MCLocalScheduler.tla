-------------------------- MODULE MCLocalScheduler --------------------------
(***************************************************************************)
(* Small instances of LocalScheduler.                                      *)
(***************************************************************************)
EXTENDS LocalScheduler

CONSTANTS n1, n2
=============================================================================
