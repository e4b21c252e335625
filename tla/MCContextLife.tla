---------------------------- MODULE MCContextLife ----------------------------
(* ContextLife for TLC: contexts one after another and several at a time,    *)
(* and few places for a lua_State, so that places are used again.            *)
EXTENDS ContextLife, TLC
Symmetric == Permutations(Contexts) \cup Permutations(Addresses)
=============================================================================
