--------------------------- MODULE MCRemoteEngine ---------------------------
(* RemoteEngine for TLC: the bound on the ids each engine draws bounds the   *)
(* commands; IdModulus is small where the ids are to start over.             *)
EXTENDS RemoteEngine
=============================================================================
