---------------------------- MODULE RemoteEngine ----------------------------
(***************************************************************************)
(* net/remoteengine.cpp at both ends of a connection: command ids, the     *)
(* callbacks that wait for an answer (m_waitResponses), and the session    *)
(* that begins with START_CONNECTION and ends with END_CONNECTION.  A      *)
(* frame outlives its sessions; each of them is with a new context.        *)
(*                                                                         *)
(* Every method of the engine holds the recursive m_mutex, so each is one  *)
(* step.  (OnRemoteCommand lets go of it to push the command it looked up; *)
(* only the program's own logs can then come before it.)  wire[e] stands   *)
(* for the writer's queue and the bytes on their way to e, inbox[e] for    *)
(* the m_readCommands of the program e.                                    *)
(***************************************************************************)
EXTENDS Integers, Sequences, FiniteSets

CONSTANTS
    IdModulus,   (* 2^32 in the code: commandId is a uint32_t              *)
    MaxDrawn,    (* bound: ids an engine draws                             *)
    MaxTogether, (* bound: ids the two engines of a session have drawn     *)
    MaxSessions  (* bound: contexts that connect to the frame              *)

ASSUME EngineAssumption ==
    /\ IdModulus \in Nat /\ IdModulus > 2 /\ IdModulus % 2 = 0
    /\ MaxDrawn \in Nat
    /\ MaxTogether \in Nat
    /\ MaxSessions \in Nat \ {0}

VARIABLES
    counter,       (* m_commandIdCounter                                   *)
    conn,          (* "confirming", "open" (m_connection) or "closed"      *)
    waitResponses, (* m_waitResponses: from ids to the requests' tokens    *)
    wire,          (* to each end, what the other has sent                 *)
    inbox,         (* m_readCommands, with the callback found for each     *)
    evals,         (* requests the context has begun to answer, innermost  *)
                   (* last: an evaluation may stop in a hook               *)
    listening,     (* the frame's connector waits for the next context     *)
    session,       (* history: which context this is                       *)
    drawn,         (* history: ids drawn, without the modulus              *)
    received       (* history: the answers each request's callback got     *)

vars == <<counter, conn, waitResponses, wire, inbox, evals, listening,
          session, drawn, received>>

Ends == {"ctx", "frame"}
Peer(e) == IF e = "ctx" THEN "frame" ELSE "ctx"

(* A token names a command for ever: who drew its id, in which session of   *)
(* the context, and as which draw.  Answers carry the request's token.      *)
Token == [end : Ends, session : 1 .. MaxSessions, nth : 0 .. MaxDrawn]
NoToken == [end |-> "none"]

Message == [kind : {"plain", "request", "answer"},
            id : 0 .. IdModulus - 1, token : Token]
Received == [kind : {"plain", "request", "answer", "end"},
             id : 0 .. IdModulus - 1, token : Token,
             response : Token \cup {NoToken}]

TypeOK ==
    /\ counter \in [Ends -> 0 .. IdModulus - 1]
    /\ conn \in [Ends -> {"confirming", "open", "closed"}]
    /\ DOMAIN waitResponses = Ends
    /\ \A e \in Ends :
          /\ DOMAIN waitResponses[e] \subseteq 0 .. IdModulus - 1
          /\ \A i \in DOMAIN waitResponses[e] : waitResponses[e][i] \in Token
    /\ wire \in [Ends -> Seq(Message)]
    /\ inbox \in [Ends -> Seq(Received)]
    /\ evals \in Seq(Message)
    /\ listening \in BOOLEAN
    /\ session \in 1 .. MaxSessions
    /\ drawn \in [Ends -> 0 .. MaxDrawn]
    /\ DOMAIN received \subseteq Token
    /\ \A t \in DOMAIN received : received[t] \in Seq(Token)

Nothing == [i \in {} |-> NoToken]

-----------------------------------------------------------------------------
(* Ids *)

(* Mutant of FirstId: both programs count alike. *)
SameFirstId(e) == 1

(* RemoteEngine's constructor: "To avoid duplicating the Id."               *)
FirstId(e) == IF e = "ctx" THEN 1 ELSE 2

(* m_commandIdCounter += 2 *)
NextId(id) == (id + 2) % IdModulus

(* The command e draws an id for after it has drawn k for others. *)
Drawn(e, k) == [end |-> e, session |-> session, nth |-> drawn[e] + k]

IdAfter(e, k) == IF k = 0 THEN counter[e] ELSE NextId(counter[e])

(* InitCommandHeader, k times with commandId == 0. *)
Draw(e, k) ==
    /\ drawn[e] + k <= MaxDrawn
    /\ drawn[e] + drawn[Peer(e)] + k <= MaxTogether
    /\ drawn' = [drawn EXCEPT ![e] = @ + k]
    /\ counter' = [counter EXCEPT ![e] =
                      IF k = 0 THEN @
                      ELSE IF k = 1 THEN NextId(@) ELSE NextId(NextId(@))]

-----------------------------------------------------------------------------
(* Commands between the ends *)

Command(kind, id, token) == [kind |-> kind, id |-> id, token |-> token]

(* Connection::WriteCommand: what is sent to an end that closed is lost.    *)
Written(e, msg) ==
    IF conn[Peer(e)] \in {"confirming", "open"}
    THEN [wire EXCEPT ![Peer(e)] = Append(@, msg)] ELSE wire

(* Mutant of Answered: the entry is found but not erased. *)
AnsweredAgain(e, id) == waitResponses[e]

(* What OnRemoteCommand leaves of m_waitResponses. *)
Answered(e, id) ==
    [i \in DOMAIN waitResponses[e] \ {id} |-> waitResponses[e][i]]

(* The callback OnRemoteCommand finds for a command: it looks at nothing    *)
(* but the id, whoever sent the command and whatever it is.                 *)
Callback(e, id) ==
    IF id \in DOMAIN waitResponses[e] THEN waitResponses[e][id] ELSE NoToken

OnRemoteCommand(e, kind, id, token) ==
    /\ waitResponses' = [waitResponses EXCEPT ![e] = Answered(e, id)]
    /\ inbox' = [inbox EXCEPT ![e] = Append(@,
           [kind |-> kind, id |-> id, token |-> token,
            response |-> Callback(e, id)])]

(* SendCommand without a callback. *)
SendPlain(e) ==
    /\ conn[e] = "open"
    /\ Draw(e, 1)
    /\ wire' = Written(e, Command("plain", counter[e], Drawn(e, 0)))
    /\ UNCHANGED <<conn, waitResponses, inbox, evals, listening, session,
                   received>>

(* std::map::insert keeps the entry a key has. *)
Inserted(map, id, token) ==
    IF id \in DOMAIN map THEN map
    ELSE [i \in DOMAIN map \cup {id} |-> IF i = id THEN token ELSE map[i]]

(* SendCommand with a callback. *)
SendRequest(e) ==
    /\ conn[e] = "open"
    /\ Draw(e, 1)
    /\ wire' = Written(e, Command("request", counter[e], Drawn(e, 0)))
    /\ waitResponses' = [waitResponses EXCEPT ![e] =
                            Inserted(@, counter[e], Drawn(e, 0))]
    /\ received' = [t \in DOMAIN received \cup {Drawn(e, 0)} |->
                       IF t = Drawn(e, 0) THEN <<>> ELSE received[t]]
    /\ UNCHANGED <<conn, inbox, evals, listening, session>>

(* OutputLog: a command to the engine's own program, which is looked up     *)
(* among the waiting callbacks like any other, and one to the peer.         *)
OutputLog(e) ==
    /\ LET sends == conn[e] = "open"
       IN  /\ Draw(e, IF sends THEN 2 ELSE 1)
           /\ OnRemoteCommand(e, "plain", counter[e], Drawn(e, 0))
           /\ wire' = IF sends
                      THEN Written(e, Command("plain", IdAfter(e, 1), Drawn(e, 1)))
                      ELSE wire
    /\ UNCHANGED <<conn, evals, listening, session, received>>

(* Connection::HandleReadCommandData. *)
Receive(e) ==
    /\ conn[e] = "open"
    /\ wire[e] # <<>>
    /\ LET msg == Head(wire[e])
       IN  OnRemoteCommand(e, msg.kind, msg.id, msg.token)
    /\ wire' = [wire EXCEPT ![e] = Tail(@)]
    /\ UNCHANGED <<counter, conn, evals, listening, session, drawn, received>>

-----------------------------------------------------------------------------
(* Sessions *)

(* OnConnectionConnected, at either end once the handshake is done there. *)
OnConnectionConnected(e) ==
    /\ conn[e] = "confirming"
    /\ Draw(e, 1)
    /\ conn' = [conn EXCEPT ![e] = "open"]
    /\ OnRemoteCommand(e, "plain", counter[e], Drawn(e, 0))
    /\ UNCHANGED <<wire, evals, listening, session, received>>

(* OnConnectionClosed: the peer closed, or the network failed; what was not *)
(* read is lost.                                                            *)
OnConnectionClosed(e) ==
    /\ conn[e] = "open"
    /\ Draw(e, 1)
    /\ conn' = [conn EXCEPT ![e] = "closed"]
    /\ wire' = [wire EXCEPT ![e] = <<>>]
    /\ OnRemoteCommand(e, "end", counter[e], Drawn(e, 0))
    /\ UNCHANGED <<evals, listening, session, received>>

(* A new context connects to the frame that listens again. *)
NewSession ==
    /\ listening
    /\ listening' = FALSE
    /\ conn["ctx"] = "closed"
    /\ session < MaxSessions
    /\ session' = session + 1
    /\ conn' = [e \in Ends |-> "confirming"]
    /\ wire' = [e \in Ends |-> <<>>]
    /\ counter' = [counter EXCEPT !["ctx"] = FirstId("ctx")]
    /\ drawn' = [drawn EXCEPT !["ctx"] = 0]
    /\ waitResponses' = [waitResponses EXCEPT !["ctx"] = Nothing]
    /\ inbox' = [inbox EXCEPT !["ctx"] = <<>>]
    /\ evals' = <<>>
    /\ UNCHANGED received

-----------------------------------------------------------------------------
(* The programs on top of the engine: Context::HandleCommand and            *)
(* Mediator::ProcessAllRemoteCommands.                                      *)

Takes(e) ==
    /\ inbox[e] # <<>>
    /\ inbox' = [inbox EXCEPT ![e] = Tail(@)]

(* Command::CallResponse *)
CallResponse(e) ==
    /\ Takes(e)
    /\ LET cmd == Head(inbox[e])
       IN  /\ cmd.response # NoToken
           /\ received' = [received EXCEPT ![cmd.response] = Append(@, cmd.token)]
    /\ UNCHANGED <<counter, conn, waitResponses, wire, evals, listening,
                   session, drawn>>

(* A command that is not answered; END_CONNECTION makes the frame listen,   *)
(* unless it already has a connection.  An answer nobody waits for fails an *)
(* assertion, and is ignored where assertions are compiled away.            *)
Process(e) ==
    /\ Takes(e)
    /\ LET cmd == Head(inbox[e])
       IN  /\ cmd.response = NoToken
           /\ cmd.kind # "request"
           /\ listening' = (listening \/ (e = "frame" /\ cmd.kind = "end"
                                                      /\ conn[e] # "open"))
    /\ UNCHANGED <<counter, conn, waitResponses, wire, evals, session, drawn,
                   received>>

(* Mutant of AnswerId: an id of its own. *)
FreshAnswerId(e, id) == counter[e]

(* InitCommandHeader for an answer: the request's id, except that           *)
(* commandId == 0 asks for a new one.                                       *)
AnswerId(e, id) == IF id = 0 THEN counter[e] ELSE id

(* ResponseCommand *)
Response(e, request) ==
    IF conn[e] = "open"
    THEN /\ Draw(e, IF request.id = 0 THEN 1 ELSE 0)
         /\ wire' = Written(e, Command("answer", AnswerId(e, request.id),
                                       request.token))
    ELSE UNCHANGED <<counter, drawn, wire>>

IsRequest(cmd) == cmd.response = NoToken /\ cmd.kind = "request"

(* The frame answers an UPDATE_SOURCE while it processes it. *)
FrameAnswers ==
    /\ Takes("frame")
    /\ IsRequest(Head(inbox["frame"]))
    /\ Response("frame", Head(inbox["frame"]))
    /\ UNCHANGED <<conn, waitResponses, evals, listening, session, received>>

(* The context evaluates what it is asked; a hook the evaluation runs into  *)
(* may take the next request before this one is answered.                   *)
ContextEvaluates ==
    /\ Takes("ctx")
    /\ LET cmd == Head(inbox["ctx"])
       IN  /\ IsRequest(cmd)
           /\ evals' = Append(evals, Command("request", cmd.id, cmd.token))
    /\ UNCHANGED <<counter, conn, waitResponses, wire, listening, session,
                   drawn, received>>

ContextAnswers ==
    /\ evals # <<>>
    /\ Response("ctx", evals[Len(evals)])
    /\ evals' = SubSeq(evals, 1, Len(evals) - 1)
    /\ UNCHANGED <<conn, waitResponses, inbox, listening, session, received>>

-----------------------------------------------------------------------------

Init ==
    /\ counter = [e \in Ends |-> FirstId(e)]
    /\ conn = [e \in Ends |-> "confirming"]
    /\ waitResponses = [e \in Ends |-> Nothing]
    /\ wire = [e \in Ends |-> <<>>]
    /\ inbox = [e \in Ends |-> <<>>]
    /\ evals = <<>>
    /\ listening = FALSE
    /\ session = 1
    /\ drawn = [e \in Ends |-> 0]
    /\ received = Nothing

Engine(e) ==
    \/ SendPlain(e)
    \/ SendRequest(e)
    \/ OutputLog(e)
    \/ Receive(e)
    \/ OnConnectionConnected(e)
    \/ OnConnectionClosed(e)

Program(e) == CallResponse(e) \/ Process(e)

Next ==
    \/ \E e \in Ends : Engine(e) \/ Program(e)
    \/ FrameAnswers
    \/ ContextEvaluates
    \/ ContextAnswers
    \/ NewSession

Spec == Init /\ [][Next]_vars

(* Each thread runs for ever: the two connection threads, the frame's GUI   *)
(* thread and the Lua thread, in its hook; evaluations are taken to end.    *)
FairSpec ==
    /\ Spec
    /\ \A e \in Ends : WF_vars(Receive(e) \/ OnConnectionConnected(e))
    /\ WF_vars(Program("frame") \/ FrameAnswers)
    /\ WF_vars(Program("ctx") \/ ContextEvaluates \/ ContextAnswers)

-----------------------------------------------------------------------------
(* Properties *)

(* OnRemoteCommand looks a callback up by nothing but the id: what it finds *)
(* one for is the answer to the request the callback was given with.        *)
CallbacksGetTheirAnswer ==
    \A e \in Ends : \A i \in DOMAIN inbox[e] :
        LET cmd == inbox[e][i]
        IN  cmd.response # NoToken =>
                cmd.kind = "answer" /\ cmd.response = cmd.token

(* Each answer finds a callback; both programs assert that they never see   *)
(* an answer as a command of its own ("Invalid remote command.").           *)
AnswersFindTheirCallback ==
    \A e \in Ends : \A i \in DOMAIN inbox[e] :
        inbox[e][i].kind = "answer" => inbox[e][i].response # NoToken

(* The places where a request of e, or its answer, can be. *)
Carries(msgs, kinds, t) ==
    {i \in DOMAIN msgs : msgs[i].kind \in kinds /\ msgs[i].token = t}

Places(e, t) ==
    Cardinality(Carries(wire[Peer(e)], {"request"}, t))
    + Cardinality(Carries(inbox[Peer(e)], {"request"}, t))
    + (IF e = "frame" THEN Cardinality(Carries(evals, {"request"}, t)) ELSE 0)
    + Cardinality(Carries(wire[e], {"answer"}, t))

(* While the connection lasts, a callback waits exactly for a request that  *)
(* is on its way, being answered, or answered and on its way back.          *)
WaitingIsOnItsWay ==
    (\A e \in Ends : conn[e] = "open") =>
        \A e \in Ends : \A t \in DOMAIN received :
            (t.end = e /\ t.session = session) =>
                Places(e, t) =
                    IF \E i \in DOMAIN waitResponses[e] : waitResponses[e][i] = t
                    THEN 1 ELSE 0

(* Answers and callbacks belong together one to one (remoteengine.cpp:205). *)
AnswersMeetCallbacks == AnswersFindTheirCallback /\ WaitingIsOnItsWay

(* The requests of an engine as RequestReply has them. *)
Requests == INSTANCE RequestReply WITH Token <- Token, received <- received
ImplementsRequestReply == Requests!RRSpec

(* Every request is answered, unless the connection is lost. *)
Waits(e) == \E i \in DOMAIN waitResponses[e] :
                waitResponses[e][i].session = session
EveryRequestIsAnswered ==
    \A e \in Ends : conn[e] = "open" /\ Waits(e) ~>
        ~Waits(e) \/ (\E f \in Ends : conn[f] # "open")
=============================================================================
