-------------------------- MODULE MCProtectedCalls --------------------------
(* ProtectedCalls for TLC: MaxDepth allows an evaluation inside a stop       *)
(* inside a coroutine inside an evaluation.                                  *)
EXTENDS ProtectedCalls
=============================================================================
