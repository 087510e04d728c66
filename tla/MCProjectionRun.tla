--------------------------- MODULE MCProjectionRun ---------------------------
(***************************************************************************)
(* Small instances of ProjectionRun.                                       *)
(***************************************************************************)
EXTENDS ProjectionRun

CONSTANTS i1, i2
=============================================================================
