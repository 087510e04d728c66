---------------------------- MODULE MCHookedCall ----------------------------
(* Two plugins: what one hook does, the next one may undo. *)
EXTENDS HookedCall
=============================================================================
