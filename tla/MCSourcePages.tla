---------------------------- MODULE MCSourcePages ----------------------------
(* SourcePages for TLC: two sources with a breakpoint each, of which only    *)
(* one ends in a newline, two stops, and two things the user does whenever   *)
(* they are possible.                                                        *)
EXTENDS SourcePages

MCBreakpoints == [key : Keys, line : {1}]
MCNewlines == [k \in Keys |-> IF k = "k1" THEN 0 ELSE 1]
=============================================================================
