---------------------------- MODULE MCEchoOutput ----------------------------
(* EchoOutput for TLC: every text of a few characters, with more lines than  *)
(* the queue may hold.                                                       *)
EXTENDS EchoOutput
=============================================================================
