---------------------------- MODULE MCBreakSession ----------------------------
(* BreakSession for TLC: the bound on the user's commands bounds the stops,  *)
(* the update counts and both channels.                                      *)
EXTENDS BreakSession
=============================================================================
