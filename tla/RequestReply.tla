---------------------------- MODULE RequestReply ----------------------------
(***************************************************************************)
(* What RemoteEngine promises to whoever sends a request with a callback:  *)
(* the callback is called at most once, and with the answer to that very   *)
(* request.  A request may stay unanswered, since connections are lost.    *)
(***************************************************************************)
CONSTANT Token   (* the requests there may ever be *)

VARIABLE received   (* of each request made, the answers its callback got *)

RRInit == received = [t \in {} |-> <<>>]

Ask(t) ==
    /\ t \notin DOMAIN received
    /\ received' = [u \in DOMAIN received \cup {t} |->
                       IF u = t THEN <<>> ELSE received[u]]

Reply(t) ==
    /\ t \in DOMAIN received
    /\ received[t] = <<>>
    /\ received' = [received EXCEPT ![t] = <<t>>]

RRNext == \E t \in Token : Ask(t) \/ Reply(t)

RRSpec == RRInit /\ [][RRNext]_received
=============================================================================
