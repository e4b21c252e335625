---------------------------- MODULE FifoChannel ----------------------------
(***************************************************************************)
(* What Connection::WriteCommand promises: commands reach the other end    *)
(* complete, once and in order, up to where the connection is lost.  The   *)
(* channels of the other modules are channels of this kind.                *)
(***************************************************************************)
EXTENDS Sequences, Naturals

CONSTANTS Command

VARIABLES
    written,   (* commands given to WriteCommand                           *)
    delivered  (* commands given to OnRemoteCommand at the other end       *)

vars == <<written, delivered>>

Init == written = <<>> /\ delivered = <<>>

Write ==
    /\ \E c \in Command : written' = Append(written, c)
    /\ UNCHANGED delivered

Deliver ==
    /\ Len(delivered) < Len(written)
    /\ delivered' = Append(delivered, written[Len(delivered) + 1])
    /\ UNCHANGED written

Next == Write \/ Deliver

Spec == Init /\ [][Next]_vars

=============================================================================
