---------------------------- MODULE MCCommandPath ----------------------------
(* CommandPath for TLC: two commands of any kind, with and without data; the *)
(* headers and the data may be written in pieces, and the connection may be  *)
(* lost at any point.                                                        *)
EXTENDS CommandPath
=============================================================================
