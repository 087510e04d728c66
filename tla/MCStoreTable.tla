---------------------------- MODULE MCStoreTable ----------------------------
(***************************************************************************)
(* Small instances of StoreTable.                                          *)
(***************************************************************************)
EXTENDS StoreTable

CONSTANTS f1, f2
=============================================================================
