--------------------------- MODULE MCDebuggerStart ---------------------------
(* DebuggerStart for TLC, with and without another program at the port.      *)
EXTENDS DebuggerStart
=============================================================================
