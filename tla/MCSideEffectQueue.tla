-------------------------- MODULE MCSideEffectQueue --------------------------
(***************************************************************************)
(* Small instances of SideEffectQueue.                                     *)
(***************************************************************************)
EXTENDS SideEffectQueue

CONSTANTS e1, e2, g1, g2
=============================================================================
