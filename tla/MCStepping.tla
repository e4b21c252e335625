----------------------------- MODULE MCStepping -----------------------------
(***************************************************************************)
(* Stepping for TLC: two or three lua_States, a few activations each.      *)
(***************************************************************************)
EXTENDS Stepping
=============================================================================
