------------------------ MODULE MCProjectionRegistry ------------------------
(***************************************************************************)
(* Small instances of ProjectionRegistry.                                  *)
(***************************************************************************)
EXTENDS ProjectionRegistry

CONSTANTS v1, v2, a1, a2
=============================================================================
