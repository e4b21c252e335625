------------------------ MODULE RemoteEngine_proofs ------------------------
(***************************************************************************)
(* Proofs about RemoteEngine, for any number of sessions and commands as   *)
(* long as the ids do not start over (NoWrap).                             *)
(*                                                                         *)
(* The argument: an id is a function of who drew it and when (IdOf), so it *)
(* names its request among all that can still be answered.  A callback is  *)
(* in m_waitResponses or with a command in the inbox, never in both, and   *)
(* has not been called in either case.                                     *)
(***************************************************************************)
EXTENDS RemoteEngine, SequenceFacts

NoWrap == 2 * MaxDrawn + 2 < IdModulus

IdOf(t) == FirstId(t.end) + 2 * t.nth

(* Drawn by the frame, or by the context of this session. *)
Live(t) ==
    /\ t \in Token
    /\ t.nth < drawn[t.end]
    /\ t.end = "ctx" => t.session = session

Counters == \A e \in Ends : counter[e] = FirstId(e) + 2 * drawn[e]

(* Not called yet. *)
Pending(t) == t \in DOMAIN received /\ received[t] = <<>>

WaitingInv ==
    \A e \in Ends : \A i \in DOMAIN waitResponses[e] :
        LET t == waitResponses[e][i]
        IN  t.end = e /\ IdOf(t) = i /\ Live(t) /\ Pending(t)

WireInv ==
    \A e \in Ends : \A k \in DOMAIN wire[e] :
        LET m == wire[e][k]
        IN  /\ Live(m.token)
            /\ m.id = IdOf(m.token)
            /\ m.kind # "plain" => m.token \in DOMAIN received
            /\ IF m.kind = "answer" THEN m.token.end = e ELSE m.token.end = Peer(e)

EvalsInv ==
    \A k \in DOMAIN evals :
        LET m == evals[k]
        IN  /\ Live(m.token)
            /\ m.id = IdOf(m.token)
            /\ m.token \in DOMAIN received
            /\ m.token.end = "frame"
            /\ m.kind = "request"

RequestsInv ==
    \A e \in Ends : \A k \in DOMAIN inbox[e] :
        LET m == inbox[e][k]
        IN  m.kind = "request" => /\ Live(m.token)
                                  /\ m.id = IdOf(m.token)
                                  /\ m.token \in DOMAIN received
                                  /\ m.token.end = Peer(e)

CallbacksInv ==
    \A e \in Ends : \A k \in DOMAIN inbox[e] :
        LET t == inbox[e][k].response
        IN  t # NoToken =>
               /\ inbox[e][k].kind = "answer" /\ inbox[e][k].token = t
               /\ t.end = e
               /\ Pending(t)
               /\ \A i \in DOMAIN waitResponses[e] : waitResponses[e][i] # t
               /\ \A l \in DOMAIN inbox[e] : l # k => inbox[e][l].response # t

(* The frame listens only when it has processed all of the old session. *)
SessionsInv ==
    /\ \A k \in DOMAIN inbox["frame"] :
          inbox["frame"][k].kind = "end" =>
             /\ conn["frame"] = "closed" /\ ~listening
             /\ \A l \in DOMAIN inbox["frame"] :
                   /\ inbox["frame"][l].kind = "end" => l = k
                   /\ inbox["frame"][l].kind = "request" => l < k
    /\ listening => /\ conn["frame"] = "closed"
                    /\ \A k \in DOMAIN inbox["frame"] :
                          inbox["frame"][k].kind # "request"

ReceivedInv ==
    \A t \in DOMAIN received :
        /\ t.session <= session
        /\ t.end = "frame" \/ t.session = session => t.nth < drawn[t.end]
        /\ t.end = "frame" => \A u \in DOMAIN received :
                                  u.end = "frame" /\ u.nth = t.nth => u = t

EngineInv ==
    /\ TypeOK
    /\ Counters
    /\ WaitingInv
    /\ WireInv
    /\ EvalsInv
    /\ RequestsInv
    /\ CallbacksInv
    /\ SessionsInv
    /\ ReceivedInv
-----------------------------------------------------------------------------
(* Types *)

LEMMA ModTyped ==
    ASSUME EngineAssumption, NEW id \in 0 .. IdModulus - 1
    PROVE  NextId(id) \in 0 .. IdModulus - 1
<1>1. IdModulus \in Nat /\ IdModulus > 2
  BY DEF EngineAssumption
<1> QED
  BY <1>1 DEF NextId

LEMMA DrawTyped ==
    ASSUME EngineAssumption, TypeOK, NEW e \in Ends, NEW k \in {0, 1, 2}, Draw(e, k)
    PROVE  /\ counter' \in [Ends -> 0 .. IdModulus - 1]
           /\ drawn' \in [Ends -> 0 .. MaxDrawn]
           /\ drawn'[e] = drawn[e] + k
           /\ \A f \in Ends : f # e => drawn'[f] = drawn[f]
           /\ \A j \in {0, 1} : j < k => /\ Drawn(e, j) \in Token
                                        /\ IdAfter(e, j) \in 0 .. IdModulus - 1
<1>1. /\ counter[e] \in 0 .. IdModulus - 1
      /\ counter \in [Ends -> 0 .. IdModulus - 1]
      /\ drawn \in [Ends -> 0 .. MaxDrawn]
      /\ session \in 1 .. MaxSessions
      /\ MaxDrawn \in Nat
  BY DEF TypeOK, EngineAssumption
<1>2. /\ NextId(counter[e]) \in 0 .. IdModulus - 1
      /\ NextId(NextId(counter[e])) \in 0 .. IdModulus - 1
  BY <1>1, ModTyped
<1>3. counter' \in [Ends -> 0 .. IdModulus - 1]
  BY <1>1, <1>2 DEF Draw
<1>4. /\ drawn' \in [Ends -> 0 .. MaxDrawn]
      /\ drawn'[e] = drawn[e] + k
      /\ \A f \in Ends : f # e => drawn'[f] = drawn[f]
  BY <1>1 DEF Draw
<1>5. ASSUME NEW j \in {0, 1}, j < k
      PROVE  Drawn(e, j) \in Token
  <2>1. drawn[e] + j \in 0 .. MaxDrawn
    BY <1>1, <1>5 DEF Draw
  <2> QED
    BY <1>1, <2>1 DEF Drawn, Token
<1>6. \A j \in {0, 1} : IdAfter(e, j) \in 0 .. IdModulus - 1
  BY <1>1, <1>2 DEF IdAfter
<1> QED
  BY <1>3, <1>4, <1>5, <1>6

LEMMA WrittenTyped ==
    ASSUME TypeOK, NEW e \in Ends, NEW m \in Message
    PROVE  Written(e, m) \in [Ends -> Seq(Message)]
<1>1. wire \in [Ends -> Seq(Message)] /\ Peer(e) \in Ends
  BY DEF TypeOK, Peer, Ends
<1>2. Append(wire[Peer(e)], m) \in Seq(Message)
  BY <1>1, AppendFacts
<1> QED
  BY <1>1, <1>2 DEF Written

LEMMA DeliverTyped ==
    ASSUME TypeOK, NEW e \in Ends, NEW kind \in {"plain", "request", "answer", "end"},
           NEW id \in 0 .. IdModulus - 1, NEW token \in Token,
           OnRemoteCommand(e, kind, id, token)
    PROVE  /\ inbox' \in [Ends -> Seq(Received)]
           /\ DOMAIN waitResponses' = Ends
           /\ \A f \in Ends :
                 /\ DOMAIN waitResponses'[f] \subseteq 0 .. IdModulus - 1
                 /\ \A i \in DOMAIN waitResponses'[f] : waitResponses'[f][i] \in Token
<1> DEFINE cmd == [kind |-> kind, id |-> id, token |-> token,
                   response |-> Callback(e, id)]
<1>1. Callback(e, id) \in Token \cup {NoToken}
  BY DEF TypeOK, Callback
<1>2. cmd \in Received
  BY <1>1 DEF Received
<1>3. inbox \in [Ends -> Seq(Received)]
  BY DEF TypeOK
<1>4. Append(inbox[e], cmd) \in Seq(Received)
  BY <1>2, <1>3, AppendFacts
<1>5. inbox' = [inbox EXCEPT ![e] = Append(@, cmd)]
  BY DEF OnRemoteCommand
<1>6. inbox' \in [Ends -> Seq(Received)]
  BY <1>3, <1>4, <1>5
<1> QED
  BY <1>6 DEF TypeOK, OnRemoteCommand, Answered

LEMMA TypeStep == EngineAssumption /\ TypeOK /\ [Next]_vars => TypeOK'
<1> SUFFICES ASSUME EngineAssumption, TypeOK, [Next]_vars
             PROVE  TypeOK'
  OBVIOUS
<1>0. CASE UNCHANGED vars
  BY <1>0 DEF vars, TypeOK
<1>1. ASSUME NEW e \in Ends, SendPlain(e) PROVE TypeOK'
  <2>1. Draw(e, 1) /\ 1 \in {0, 1, 2}
    BY <1>1 DEF SendPlain
  <2>2. Drawn(e, 0) \in Token /\ counter[e] \in 0 .. IdModulus - 1
    BY <2>1, DrawTyped DEF TypeOK
  <2>3. Command("plain", counter[e], Drawn(e, 0)) \in Message
    BY <2>2 DEF Command, Message
  <2>4. wire' \in [Ends -> Seq(Message)]
    BY <1>1, <2>3, WrittenTyped DEF SendPlain
  <2> QED
    BY <1>1, <2>1, <2>4, DrawTyped DEF SendPlain, TypeOK
<1>2. ASSUME NEW e \in Ends, SendRequest(e) PROVE TypeOK'
  <2>1. Draw(e, 1) /\ 1 \in {0, 1, 2}
    BY <1>2 DEF SendRequest
  <2>2. Drawn(e, 0) \in Token /\ counter[e] \in 0 .. IdModulus - 1
    BY <2>1, DrawTyped DEF TypeOK
  <2>3. Command("request", counter[e], Drawn(e, 0)) \in Message
    BY <2>2 DEF Command, Message
  <2>4. wire' \in [Ends -> Seq(Message)]
    BY <1>2, <2>3, WrittenTyped DEF SendRequest
  <2>5. /\ DOMAIN waitResponses' = Ends
        /\ \A f \in Ends :
              /\ DOMAIN waitResponses'[f] \subseteq 0 .. IdModulus - 1
              /\ \A i \in DOMAIN waitResponses'[f] : waitResponses'[f][i] \in Token
    BY <1>2, <2>2 DEF SendRequest, Inserted, TypeOK
  <2>6. /\ DOMAIN received' \subseteq Token
        /\ \A t \in DOMAIN received' : received'[t] \in Seq(Token)
    BY <1>2, <2>2 DEF SendRequest, TypeOK
  <2>7. /\ counter' \in [Ends -> 0 .. IdModulus - 1]
        /\ drawn' \in [Ends -> 0 .. MaxDrawn]
    BY <2>1, DrawTyped
  <2> QED
    BY <1>2, <2>4, <2>5, <2>6, <2>7 DEF SendRequest, TypeOK
<1>3. ASSUME NEW e \in Ends, OutputLog(e) PROVE TypeOK'
  <2> DEFINE k == IF conn[e] = "open" THEN 2 ELSE 1
  <2>1. Draw(e, k) /\ k \in {0, 1, 2}
    BY <1>3 DEF OutputLog
  <2>2. Drawn(e, 0) \in Token /\ counter[e] \in 0 .. IdModulus - 1
    BY <2>1, DrawTyped DEF TypeOK
  <2>3. OnRemoteCommand(e, "plain", counter[e], Drawn(e, 0))
    BY <1>3 DEF OutputLog
  <2>4. wire' \in [Ends -> Seq(Message)]
    <3>1. CASE conn[e] = "open"
      <4>1. Drawn(e, 1) \in Token /\ IdAfter(e, 1) \in 0 .. IdModulus - 1
        BY <2>1, <3>1, DrawTyped
      <4>2. Command("plain", IdAfter(e, 1), Drawn(e, 1)) \in Message
        BY <4>1 DEF Command, Message
      <4> QED
        BY <1>3, <3>1, <4>2, WrittenTyped DEF OutputLog
    <3>2. CASE conn[e] # "open"
      BY <1>3, <3>2 DEF OutputLog, TypeOK
    <3> QED
      BY <3>1, <3>2
  <2>5. /\ counter' \in [Ends -> 0 .. IdModulus - 1]
        /\ drawn' \in [Ends -> 0 .. MaxDrawn]
    BY <2>1, DrawTyped
  <2> QED
    BY <1>3, <2>2, <2>3, <2>4, <2>5, DeliverTyped DEF OutputLog, TypeOK
<1>4. ASSUME NEW e \in Ends, Receive(e) PROVE TypeOK'
  <2>1. wire \in [Ends -> Seq(Message)] /\ wire[e] \in Seq(Message) /\ wire[e] # <<>>
    BY <1>4 DEF Receive, TypeOK
  <2>2. Head(wire[e]) \in Message /\ Tail(wire[e]) \in Seq(Message)
    BY <2>1, TailFacts
  <2>3. wire' \in [Ends -> Seq(Message)]
    BY <1>4, <2>1, <2>2 DEF Receive
  <2> DEFINE m == Head(wire[e])
  <2>4. /\ m.kind \in {"plain", "request", "answer", "end"}
        /\ m.id \in 0 .. IdModulus - 1 /\ m.token \in Token
        /\ OnRemoteCommand(e, m.kind, m.id, m.token)
    BY <1>4, <2>2 DEF Receive, Message
  <2>5. PICK kind, id, token : kind = m.kind /\ id = m.id /\ token = m.token
    OBVIOUS
  <2> HIDE DEF m
  <2>6. /\ kind \in {"plain", "request", "answer", "end"}
        /\ id \in 0 .. IdModulus - 1 /\ token \in Token
        /\ OnRemoteCommand(e, kind, id, token)
    BY <2>4, <2>5
  <2>7. /\ waitResponses' = [waitResponses EXCEPT ![e] = Answered(e, id)]
        /\ inbox' \in [Ends -> Seq(Received)]
        /\ DOMAIN waitResponses' = Ends
        /\ \A f \in Ends :
              /\ DOMAIN waitResponses'[f] \subseteq 0 .. IdModulus - 1
              /\ \A i \in DOMAIN waitResponses'[f] : waitResponses'[f][i] \in Token
    BY <2>6, DeliverTyped DEF OnRemoteCommand
  <2> QED
    BY <1>4, <2>3, <2>7 DEF Receive, TypeOK
<1>5. ASSUME NEW e \in Ends, OnConnectionConnected(e) PROVE TypeOK'
  <2>1. Draw(e, 1) /\ 1 \in {0, 1, 2}
    BY <1>5 DEF OnConnectionConnected
  <2>2. Drawn(e, 0) \in Token /\ counter[e] \in 0 .. IdModulus - 1
    BY <2>1, DrawTyped DEF TypeOK
  <2>3. OnRemoteCommand(e, "plain", counter[e], Drawn(e, 0))
    BY <1>5 DEF OnConnectionConnected
  <2> QED
    BY <1>5, <2>1, <2>2, <2>3, DrawTyped, DeliverTyped DEF OnConnectionConnected, TypeOK
<1>6. ASSUME NEW e \in Ends, OnConnectionClosed(e) PROVE TypeOK'
  <2>1. Draw(e, 1) /\ 1 \in {0, 1, 2}
    BY <1>6 DEF OnConnectionClosed
  <2>2. Drawn(e, 0) \in Token /\ counter[e] \in 0 .. IdModulus - 1
    BY <2>1, DrawTyped DEF TypeOK
  <2>3. OnRemoteCommand(e, "end", counter[e], Drawn(e, 0))
    BY <1>6 DEF OnConnectionClosed
  <2>4. wire' \in [Ends -> Seq(Message)]
    BY <1>6 DEF OnConnectionClosed, TypeOK
  <2> QED
    BY <1>6, <2>1, <2>2, <2>3, <2>4, DrawTyped, DeliverTyped DEF OnConnectionClosed, TypeOK
<1>7. ASSUME NEW e \in Ends, Takes(e)
      PROVE  inbox' \in [Ends -> Seq(Received)] /\ Head(inbox[e]) \in Received
  <2>1. inbox \in [Ends -> Seq(Received)] /\ inbox[e] \in Seq(Received) /\ inbox[e] # <<>>
    BY <1>7 DEF Takes, TypeOK
  <2>2. Head(inbox[e]) \in Received /\ Tail(inbox[e]) \in Seq(Received)
    BY <2>1, TailFacts
  <2> QED
    BY <1>7, <2>1, <2>2 DEF Takes
<1>8. ASSUME NEW e \in Ends, CallResponse(e) PROVE TypeOK'
  <2>1. inbox' \in [Ends -> Seq(Received)] /\ Head(inbox[e]).token \in Token
    BY <1>7, <1>8 DEF CallResponse, Received
  <2>2. \A t \in DOMAIN received : /\ received[t] \in Seq(Token)
                                  /\ Append(received[t], Head(inbox[e]).token) \in Seq(Token)
    BY <2>1, AppendFacts DEF TypeOK
  <2>3. /\ DOMAIN received' \subseteq Token
        /\ \A t \in DOMAIN received' : received'[t] \in Seq(Token)
    BY <1>8, <2>2 DEF CallResponse, TypeOK
  <2> QED
    BY <1>8, <2>1, <2>3 DEF CallResponse, TypeOK
<1>9. ASSUME NEW e \in Ends, Process(e) PROVE TypeOK'
  <2>1. Takes(e)
    BY <1>9 DEF Process
  <2> QED
    BY <1>7, <1>9, <2>1 DEF Process, TypeOK
<1>10. ASSUME NEW e \in Ends, NEW m \in Message, Response(e, m)
       PROVE  /\ counter' \in [Ends -> 0 .. IdModulus - 1]
              /\ drawn' \in [Ends -> 0 .. MaxDrawn]
              /\ wire' \in [Ends -> Seq(Message)]
  <2>1. CASE conn[e] = "open"
    <3>1. AnswerId(e, m.id) \in 0 .. IdModulus - 1 /\ m.token \in Token
      BY DEF AnswerId, TypeOK, Message
    <3>2. Command("answer", AnswerId(e, m.id), m.token) \in Message
      BY <3>1 DEF Command, Message
    <3>3. Draw(e, IF m.id = 0 THEN 1 ELSE 0) /\ (IF m.id = 0 THEN 1 ELSE 0) \in {0, 1, 2}
      BY <1>10, <2>1 DEF Response
    <3> QED
      BY <1>10, <2>1, <3>2, <3>3, DrawTyped, WrittenTyped DEF Response
  <2>2. CASE conn[e] # "open"
    BY <1>10, <2>2 DEF Response, TypeOK
  <2> QED
    BY <2>1, <2>2
<1>11. CASE FrameAnswers
  <2> DEFINE m == Head(inbox["frame"])
  <2>1. "frame" \in Ends /\ Takes("frame") /\ IsRequest(m) /\ Response("frame", m)
    BY <1>11 DEF FrameAnswers, Ends
  <2>2. inbox' \in [Ends -> Seq(Received)] /\ m \in Received
    BY <1>7, <2>1
  <2> DEFINE c == [kind |-> "request", id |-> m.id, token |-> m.token]
  <2>3. c \in Message
    BY <2>1, <2>2 DEF IsRequest, Received, Message
  <2>4. Response("frame", c)
    BY <2>1 DEF Response
  <2> QED
    BY <1>10, <1>11, <2>1, <2>2, <2>3, <2>4 DEF FrameAnswers, TypeOK
<1>12. CASE ContextEvaluates
  <2> DEFINE m == Head(inbox["ctx"])
  <2>1. "ctx" \in Ends /\ Takes("ctx")
    BY <1>12 DEF ContextEvaluates, Ends
  <2>2. inbox' \in [Ends -> Seq(Received)] /\ m \in Received
    BY <1>7, <2>1
  <2>3. Command("request", m.id, m.token) \in Message
    BY <2>2 DEF Command, Received, Message
  <2>4. evals' \in Seq(Message)
    BY <1>12, <2>3, AppendFacts DEF ContextEvaluates, TypeOK
  <2> QED
    BY <1>12, <2>2, <2>4 DEF ContextEvaluates, TypeOK
<1>13. CASE ContextAnswers
  <2>1. evals \in Seq(Message) /\ evals # <<>>
    BY <1>13 DEF ContextAnswers, TypeOK
  <2>2. evals[Len(evals)] \in Message /\ evals' \in Seq(Message)
    BY <1>13, <2>1, FrontFacts DEF ContextAnswers
  <2>3. Response("ctx", evals[Len(evals)]) /\ "ctx" \in Ends
    BY <1>13 DEF ContextAnswers, Ends
  <2> QED
    BY <1>10, <1>13, <2>2, <2>3 DEF ContextAnswers, TypeOK
<1>14. CASE NewSession
  <2>1. FirstId("ctx") \in 0 .. IdModulus - 1 /\ 0 \in 0 .. MaxDrawn
    BY DEF FirstId, EngineAssumption
  <2>2. session' \in 1 .. MaxSessions
    BY <1>14 DEF NewSession, TypeOK, EngineAssumption
  <2>0. /\ <<>> \in Seq(Received) /\ <<>> \in Seq(Message)
        /\ inbox \in [Ends -> Seq(Received)]
    BY DEF TypeOK
  <2>3. /\ counter' \in [Ends -> 0 .. IdModulus - 1]
        /\ drawn' \in [Ends -> 0 .. MaxDrawn]
    BY <1>14, <2>1 DEF NewSession, TypeOK
  <2>5. inbox' \in [Ends -> Seq(Received)]
    BY <1>14, <2>0 DEF NewSession
  <2>6. wire' \in [Ends -> Seq(Message)] /\ evals' \in Seq(Message)
    BY <1>14, <2>0 DEF NewSession
  <2>4. /\ DOMAIN waitResponses' = Ends
        /\ \A f \in Ends :
              /\ DOMAIN waitResponses'[f] \subseteq 0 .. IdModulus - 1
              /\ \A i \in DOMAIN waitResponses'[f] : waitResponses'[f][i] \in Token
    BY <1>14 DEF NewSession, TypeOK, Nothing
  <2> QED
    BY <1>14, <2>2, <2>3, <2>4, <2>5, <2>6 DEF NewSession, TypeOK
<1> QED
  BY <1>0, <1>1, <1>2, <1>3, <1>4, <1>5, <1>6, <1>8, <1>9, <1>11, <1>12, <1>13, <1>14
     DEF Next, Engine, Program

LEMMA InitTyped == EngineAssumption /\ Init => TypeOK
<1> SUFFICES ASSUME EngineAssumption, Init PROVE TypeOK
  OBVIOUS
<1>1. FirstId("ctx") \in 0 .. IdModulus - 1 /\ FirstId("frame") \in 0 .. IdModulus - 1
  BY DEF FirstId, EngineAssumption
<1>2. counter \in [Ends -> 0 .. IdModulus - 1] /\ drawn \in [Ends -> 0 .. MaxDrawn]
  BY <1>1 DEF Init, Ends, EngineAssumption
<1>3. <<>> \in Seq(Received) /\ <<>> \in Seq(Message)
  OBVIOUS
<1>4. /\ wire \in [Ends -> Seq(Message)]
      /\ inbox \in [Ends -> Seq(Received)]
      /\ evals \in Seq(Message)
  BY <1>3 DEF Init
<1>5. /\ DOMAIN waitResponses = Ends
      /\ \A e \in Ends : DOMAIN waitResponses[e] = {}
      /\ DOMAIN received = {}
  BY DEF Init, Nothing
<1>6. session \in 1 .. MaxSessions
  BY DEF Init, EngineAssumption
<1> QED
  BY <1>2, <1>4, <1>5, <1>6 DEF Init, TypeOK

(* The engine's maps, counters and queues hold what they are declared to    *)
(* hold, also once the ids start over.                                      *)
THEOREM EngineTypeCorrect == Spec => []TypeOK
<1>1. EngineAssumption /\ Init => TypeOK
  BY InitTyped
<1> QED
  BY <1>1, TypeStep, EngineAssumption, PTL DEF Spec
-----------------------------------------------------------------------------
(* The invariant, and what each kind of step does to its parts              *)

LEMMA NextIdNoWrap ==
    ASSUME EngineAssumption, NoWrap, NEW n \in 0 .. MaxDrawn, NEW f \in {1, 2}
    PROVE  n + 1 <= MaxDrawn => NextId(f + 2 * n) = f + 2 * (n + 1)
<1>1. \A a \in Nat, b \in Nat : a < b => a % b = a
  OBVIOUS
<1>2. /\ MaxDrawn \in Nat /\ IdModulus \in Nat
      /\ 2 * MaxDrawn + 2 < IdModulus
  BY DEF EngineAssumption, NoWrap
<1>3. ASSUME n + 1 <= MaxDrawn PROVE f + 2 * n + 2 \in Nat /\ f + 2 * n + 2 < IdModulus
  BY <1>2, <1>3
<1>4. (f + 2 * n) + 2 = f + 2 * (n + 1)
  OBVIOUS
<1> QED
  BY <1>1, <1>2, <1>3, <1>4 DEF NextId

(* What drawing ids does: the new tokens are live and nobody has them yet.  *)
LEMMA DrawFacts ==
    ASSUME EngineAssumption, NoWrap, TypeOK, Counters, ReceivedInv,
           NEW e \in Ends, NEW k \in {0, 1, 2}, Draw(e, k), session' = session
    PROVE  /\ Counters'
           /\ \A t : Live(t) => Live(t)'
           /\ \A j \in {0, 1} : \A d : j < k /\ d = Drawn(e, j) =>
                     /\ d.end = e /\ IdOf(d) = IdAfter(e, j)
                     /\ Live(d)'
                     /\ ~Live(d)
                     /\ d \notin DOMAIN received
                     /\ \A t : Live(t) /\ t.end = e => IdOf(t) # IdAfter(e, j)
                     /\ \A t \in DOMAIN received :
                           t.end = "frame" /\ e = "frame" => t.nth # d.nth
<1> USE DEF Ends
<1>1. /\ counter \in [Ends -> 0 .. IdModulus - 1]
      /\ drawn \in [Ends -> 0 .. MaxDrawn] /\ drawn[e] \in Nat
      /\ drawn[e] + k <= MaxDrawn
      /\ MaxDrawn \in Nat
  BY DEF TypeOK, EngineAssumption, Draw
<1>2. /\ drawn' \in [Ends -> 0 .. MaxDrawn]
      /\ drawn'[e] = drawn[e] + k
      /\ \A f \in Ends : f # e => drawn'[f] = drawn[f]
      /\ \A j \in {0, 1} : j < k => Drawn(e, j) \in Token
  BY DrawTyped
<1>3. FirstId(e) \in {1, 2} /\ counter[e] = FirstId(e) + 2 * drawn[e]
  BY DEF FirstId, Counters
<1>4. k >= 1 => NextId(counter[e]) = FirstId(e) + 2 * (drawn[e] + 1)
  BY <1>1, <1>3, NextIdNoWrap
<1>5. k = 2 => NextId(NextId(counter[e])) = FirstId(e) + 2 * (drawn[e] + 2)
  <2>1. SUFFICES ASSUME k = 2
                 PROVE  NextId(NextId(counter[e])) = FirstId(e) + 2 * (drawn[e] + 2)
    OBVIOUS
  <2>2. drawn[e] + 1 \in 0 .. MaxDrawn /\ (drawn[e] + 1) + 1 <= MaxDrawn
    BY <1>1, <2>1
  <2>3. NextId(FirstId(e) + 2 * (drawn[e] + 1)) = FirstId(e) + 2 * ((drawn[e] + 1) + 1)
    BY <1>3, <2>2, NextIdNoWrap
  <2>4. (drawn[e] + 1) + 1 = drawn[e] + 2
    BY <1>1
  <2> QED
    BY <1>4, <2>1, <2>3, <2>4
<1>6. counter'[e] = FirstId(e) + 2 * (drawn[e] + k)
  BY <1>1, <1>3, <1>4, <1>5 DEF Draw
<1>7. \A f \in Ends : f # e => counter'[f] = counter[f]
  BY <1>1 DEF Draw
<1>8. Counters'
  BY <1>2, <1>6, <1>7 DEF Counters
<1>9. ASSUME NEW t, Live(t) PROVE Live(t)'
  <2>1. t \in Token /\ t.end \in Ends /\ t.nth \in Nat /\ t.nth < drawn[t.end]
    BY <1>9 DEF Live, Token
  <2>2. drawn[t.end] \in Nat /\ drawn'[t.end] \in Nat /\ drawn[t.end] <= drawn'[t.end]
    BY <1>1, <1>2, <2>1
  <2>3. t.nth < drawn'[t.end]
    BY <2>1, <2>2
  <2> QED
    BY <1>9, <2>3 DEF Live
<1>10. ASSUME NEW j \in {0, 1}, NEW d, j < k, d = Drawn(e, j)
       PROVE      /\ d.end = e /\ IdOf(d) = IdAfter(e, j)
                  /\ Live(d)'
                  /\ ~Live(d)
                  /\ d \notin DOMAIN received
                  /\ \A t : Live(t) /\ t.end = e => IdOf(t) # IdAfter(e, j)
                  /\ \A t \in DOMAIN received :
                        t.end = "frame" /\ e = "frame" => t.nth # d.nth
  <2>1. d \in Token /\ d.end = e /\ d.nth = drawn[e] + j /\ d.session = session
    BY <1>2, <1>10 DEF Drawn
  <2>2. drawn[e] + j < drawn[e] + k /\ ~(drawn[e] + j < drawn[e])
    BY <1>1, <1>10
  <2>3. Live(d)'
    BY <1>2, <2>1, <2>2 DEF Live
  <2>4. ~Live(d)
    BY <2>1, <2>2 DEF Live
  <2>5. IdAfter(e, j) = FirstId(e) + 2 * (drawn[e] + j)
    BY <1>1, <1>3, <1>4, <1>10 DEF IdAfter
  <2>6. IdOf(d) = IdAfter(e, j)
    BY <2>1, <2>5 DEF IdOf
  <2>7. d \notin DOMAIN received
    <3>1. SUFFICES ASSUME d \in DOMAIN received PROVE FALSE
      OBVIOUS
    <3>2. d.nth < drawn[d.end]
      BY <2>1, <3>1 DEF ReceivedInv
    <3> QED
      BY <2>1, <2>2, <3>2
  <2>8. ASSUME NEW t, Live(t), t.end = e PROVE IdOf(t) # IdAfter(e, j)
    <3>1. t.nth \in Nat /\ t.nth < drawn[e]
      BY <2>8 DEF Live, Token
    <3>2. 2 * t.nth # 2 * (drawn[e] + j)
      BY <1>1, <3>1
    <3> QED
      BY <1>1, <1>3, <2>5, <2>8, <3>1, <3>2 DEF IdOf
  <2>9. \A t \in DOMAIN received :
            t.end = "frame" /\ e = "frame" => t.nth # d.nth
    BY <2>1, <2>2 DEF ReceivedInv
  <2> QED
    BY <2>1, <2>3, <2>4, <2>6, <2>7, <2>8, <2>9
<1> QED
  BY <1>8, <1>9, <1>10

(* Ids tell apart the commands of the two ends, and the requests of one.    *)
LEMMA IdsDiffer ==
    ASSUME NEW s, NEW t, Live(s), Live(t), IdOf(s) = IdOf(t)
    PROVE  s.end = t.end /\ s.nth = t.nth
<1>1. s.end \in Ends /\ t.end \in Ends /\ s.nth \in Nat /\ t.nth \in Nat
  BY DEF Live, Token
<1> QED
  BY <1>1 DEF IdOf, FirstId, Ends

LEMMA SameToken ==
    ASSUME ReceivedInv, NEW s \in DOMAIN received, NEW t \in DOMAIN received,
           Live(s), Live(t), IdOf(s) = IdOf(t)
    PROVE  s = t
<1>1. s.end = t.end /\ s.nth = t.nth /\ s \in Token /\ t \in Token
  BY IdsDiffer DEF Live
<1>2. CASE s.end = "frame"
  BY <1>1, <1>2 DEF ReceivedInv
<1>3. CASE s.end = "ctx"
  <2>1. s.session = t.session
    BY <1>1, <1>3 DEF Live
  <2> QED
    BY <1>1, <2>1 DEF Token
<1>4. s.end \in Ends
  BY <1>1 DEF Token
<1> QED
  BY <1>2, <1>3, <1>4 DEF Ends

(* What is written is live, so the peer's queue stays in order. *)
LEMMA WriteKeeps ==
    ASSUME TypeOK, WireInv, NEW e \in Ends, NEW m \in Message,
           wire' = Written(e, m),
           \A t : Live(t) => Live(t)',
           DOMAIN received \subseteq DOMAIN received',
           Live(m.token)', m.id = IdOf(m.token),
           m.kind # "plain" => m.token \in DOMAIN received',
           IF m.kind = "answer" THEN m.token.end = Peer(e) ELSE m.token.end = e
    PROVE  WireInv'
<1>1. wire \in [Ends -> Seq(Message)] /\ Peer(e) \in Ends /\ Peer(Peer(e)) = e
  BY DEF TypeOK, Peer, Ends
<1>2. /\ wire[Peer(e)] \in Seq(Message)
      /\ Append(wire[Peer(e)], m)[Len(wire[Peer(e)]) + 1] = m
      /\ \A k \in DOMAIN wire[Peer(e)] :
            Append(wire[Peer(e)], m)[k] = wire[Peer(e)][k]
      /\ \A k \in DOMAIN Append(wire[Peer(e)], m) :
            k \in DOMAIN wire[Peer(e)] \/ k = Len(wire[Peer(e)]) + 1
  BY <1>1, AppendFacts
<1> SUFFICES ASSUME NEW f \in Ends, NEW k \in DOMAIN wire'[f], NEW w, w = wire'[f][k]
             PROVE  /\ Live(w.token)'
                    /\ w.id = IdOf(w.token)
                    /\ w.kind # "plain" => w.token \in DOMAIN received'
                    /\ IF w.kind = "answer" THEN w.token.end = f
                       ELSE w.token.end = Peer(f)
  BY DEF WireInv
<1>3. \/ k \in DOMAIN wire[f] /\ wire'[f][k] = wire[f][k]
      \/ f = Peer(e) /\ wire'[f][k] = m
  BY <1>1, <1>2 DEF Written
<1>4. CASE k \in DOMAIN wire[f] /\ wire'[f][k] = wire[f][k]
  BY <1>4 DEF WireInv
<1>5. CASE f = Peer(e) /\ wire'[f][k] = m
  BY <1>1, <1>5
<1> QED
  BY <1>3, <1>4, <1>5

(* The command an end is given finds its own callback, or none. *)
LEMMA DeliverKeeps ==
    ASSUME TypeOK, WaitingInv, RequestsInv, CallbacksInv, ReceivedInv,
           NEW e \in Ends, NEW kind \in {"plain", "request", "answer", "end"},
           NEW id \in 0 .. IdModulus - 1, NEW token \in Token,
           OnRemoteCommand(e, kind, id, token),
           \A t : Live(t) => Live(t)', received' = received,
           id \in DOMAIN waitResponses[e] =>
               /\ kind = "answer" /\ token \in DOMAIN received
               /\ Live(token) /\ IdOf(token) = id,
           kind = "request" =>
               /\ Live(token)' /\ id = IdOf(token)
               /\ token \in DOMAIN received /\ token.end = Peer(e)
    PROVE  WaitingInv' /\ RequestsInv' /\ CallbacksInv'
<1> DEFINE cmd == [kind |-> kind, id |-> id, token |-> token,
                   response |-> Callback(e, id)]
           n == Len(inbox[e]) + 1
<1>1. \A t : Pending(t)' <=> Pending(t)
  BY DEF Pending
<1>2. /\ DOMAIN waitResponses = Ends
      /\ \A f \in Ends : f # e => waitResponses'[f] = waitResponses[f]
      /\ waitResponses'[e] = Answered(e, id)
  BY DEF OnRemoteCommand, TypeOK
<1>3. /\ DOMAIN waitResponses'[e] = DOMAIN waitResponses[e] \ {id}
      /\ \A i \in DOMAIN waitResponses'[e] : waitResponses'[e][i] = waitResponses[e][i]
  BY <1>2 DEF Answered
<1>4. \A f \in Ends : \A i : i \in DOMAIN waitResponses'[f] =>
          i \in DOMAIN waitResponses[f] /\ waitResponses'[f][i] = waitResponses[f][i]
  BY <1>2, <1>3
<1>5. WaitingInv'
  BY <1>1, <1>4 DEF WaitingInv
<1>6. /\ inbox \in [Ends -> Seq(Received)] /\ cmd \in Received
      /\ inbox' = [inbox EXCEPT ![e] = Append(@, cmd)]
  <2>1. Callback(e, id) \in Token \cup {NoToken}
    BY DEF TypeOK, Callback
  <2> QED
    BY <2>1 DEF Received, OnRemoteCommand, TypeOK
<1>7. /\ \A f \in Ends : f # e => inbox'[f] = inbox[f]
      /\ n \in DOMAIN inbox'[e] /\ inbox'[e][n] = cmd /\ n \notin DOMAIN inbox[e]
      /\ \A k \in DOMAIN inbox[e] : k \in DOMAIN inbox'[e] /\ inbox'[e][k] = inbox[e][k]
      /\ \A k \in DOMAIN inbox'[e] : k \in DOMAIN inbox[e] \/ k = n
  <2>1. inbox[e] \in Seq(Received) /\ inbox'[e] = Append(inbox[e], cmd)
    BY <1>6
  <2>2. /\ DOMAIN Append(inbox[e], cmd) = 1 .. Len(inbox[e]) + 1
        /\ DOMAIN inbox[e] = 1 .. Len(inbox[e]) /\ Len(inbox[e]) \in Nat
        /\ Append(inbox[e], cmd)[Len(inbox[e]) + 1] = cmd
        /\ \A i \in DOMAIN inbox[e] : Append(inbox[e], cmd)[i] = inbox[e][i]
        /\ \A i \in DOMAIN Append(inbox[e], cmd) :
              i \in DOMAIN inbox[e] \/ i = Len(inbox[e]) + 1
        /\ Len(inbox[e]) + 1 \notin DOMAIN inbox[e]
    BY <1>6, <2>1, AppendFacts
  <2>3. \A j \in Nat : j + 1 \in 1 .. j + 1 /\ \A i \in 1 .. j : i \in 1 .. j + 1
    OBVIOUS
  <2>4. \A f \in Ends : f # e => inbox'[f] = inbox[f]
    BY <1>6
  <2> HIDE DEF cmd
  <2> QED
    BY <2>1, <2>2, <2>3, <2>4
<1>8. RequestsInv'
  <2> SUFFICES ASSUME NEW f \in Ends, NEW k \in DOMAIN inbox'[f], NEW m,
                      m = inbox'[f][k], m.kind = "request"
               PROVE  /\ Live(m.token)' /\ m.id = IdOf(m.token)
                      /\ m.token \in DOMAIN received'
                      /\ m.token.end = Peer(f)
    BY DEF RequestsInv
  <2>1. CASE k \in DOMAIN inbox[f] /\ inbox'[f][k] = inbox[f][k]
    BY <2>1 DEF RequestsInv
  <2>2. CASE f = e /\ k = n
    BY <1>7, <2>2
  <2> QED
    BY <1>7, <2>1, <2>2
<1>9. ASSUME cmd.response # NoToken
      PROVE  /\ kind = "answer" /\ token = cmd.response
             /\ token.end = e /\ Pending(token)
             /\ \A i \in DOMAIN waitResponses'[e] : waitResponses'[e][i] # token
             /\ \A l \in DOMAIN inbox[e] : inbox[e][l].response # token
  <2>1. id \in DOMAIN waitResponses[e] /\ cmd.response = waitResponses[e][id]
    BY <1>9 DEF Callback
  <2> DEFINE t == waitResponses[e][id]
  <2>2. t.end = e /\ IdOf(t) = id /\ Live(t) /\ Pending(t)
    BY <2>1 DEF WaitingInv
  <2>3. kind = "answer" /\ token \in DOMAIN received /\ Live(token) /\ IdOf(token) = id
    BY <2>1
  <2>4. t \in DOMAIN received
    BY <2>2 DEF Pending
  <2>5. token = t
    BY <2>2, <2>3, <2>4, SameToken
  <2>6. \A i \in DOMAIN waitResponses'[e] : waitResponses'[e][i] # token
    <3>1. SUFFICES ASSUME NEW i \in DOMAIN waitResponses'[e],
                          waitResponses'[e][i] = token
                   PROVE  FALSE
      OBVIOUS
    <3>2. i \in DOMAIN waitResponses[e] /\ i # id /\ waitResponses[e][i] = token
      BY <1>3, <3>1
    <3>3. IdOf(token) = i
      BY <3>2 DEF WaitingInv
    <3> QED
      BY <2>3, <3>2, <3>3
  <2>7. \A l \in DOMAIN inbox[e] : inbox[e][l].response # token
    <3>1. SUFFICES ASSUME NEW l \in DOMAIN inbox[e], inbox[e][l].response = token
                   PROVE  FALSE
      OBVIOUS
    <3>2. token # NoToken
      BY <1>9, <2>1, <2>5
    <3> QED
      BY <2>1, <2>5, <3>1, <3>2 DEF CallbacksInv
  <2> QED
    BY <2>1, <2>2, <2>3, <2>5, <2>6, <2>7
<1>10. CallbacksInv'
  <2> SUFFICES ASSUME NEW f \in Ends, NEW k \in DOMAIN inbox'[f], NEW t,
                      t = inbox'[f][k].response, t # NoToken
               PROVE  /\ inbox'[f][k].kind = "answer" /\ inbox'[f][k].token = t
                      /\ t.end = f
                      /\ Pending(t)'
                      /\ \A i \in DOMAIN waitResponses'[f] : waitResponses'[f][i] # t
                      /\ \A l \in DOMAIN inbox'[f] : l # k => inbox'[f][l].response # t
    BY DEF CallbacksInv
  <2>1. CASE f # e
    <3>1. k \in DOMAIN inbox[f] /\ inbox'[f] = inbox[f] /\ waitResponses'[f] = waitResponses[f]
      BY <1>2, <1>7, <2>1
    <3> QED
      BY <1>1, <3>1 DEF CallbacksInv
  <2>2. CASE f = e /\ k = n
    <3>1. inbox'[f][k] = cmd /\ t = cmd.response
      BY <1>7, <2>2
    <3>2. \A l \in DOMAIN inbox'[f] : l # k =>
              l \in DOMAIN inbox[e] /\ inbox'[f][l] = inbox[e][l]
      BY <1>7, <2>2
    <3>3. cmd.kind = kind /\ cmd.token = token
      OBVIOUS
    <3> HIDE DEF cmd
    <3> QED
      BY <1>1, <1>9, <2>2, <3>1, <3>2, <3>3
  <2>3. CASE f = e /\ k # n
    <3>1. k \in DOMAIN inbox[e] /\ inbox'[e][k] = inbox[e][k] /\ t = inbox[e][k].response
      BY <1>7, <2>3
    <3>2. /\ inbox[e][k].kind = "answer" /\ inbox[e][k].token = t
          /\ t.end = e /\ Pending(t)
          /\ \A i \in DOMAIN waitResponses[e] : waitResponses[e][i] # t
          /\ \A l \in DOMAIN inbox[e] : l # k => inbox[e][l].response # t
      BY <3>1 DEF CallbacksInv
    <3>3. cmd.response # t
      <4>1. SUFFICES ASSUME cmd.response = t PROVE FALSE
        OBVIOUS
      <4>2. \A l \in DOMAIN inbox[e] : inbox[e][l].response # token
        BY <1>9, <4>1
      <4> QED
        BY <1>9, <3>1, <4>1, <4>2
    <3>4. \A l \in DOMAIN inbox'[e] : l # k => inbox'[e][l].response # t
      <4> HIDE DEF cmd
      <4> QED
        BY <1>7, <3>2, <3>3
    <3> QED
      BY <1>1, <1>4, <2>3, <3>1, <3>2, <3>4
  <2> QED
    BY <2>1, <2>2, <2>3
<1> QED
  BY <1>5, <1>8, <1>10

(* Taking the first command out concerns no callback but its own. *)
LEMMA TakeKeeps ==
    ASSUME TypeOK, WaitingInv, RequestsInv, CallbacksInv,
           NEW e \in Ends, Takes(e), waitResponses' = waitResponses,
           \A t : Live(t) => Live(t)', DOMAIN received' = DOMAIN received,
           \A t : Pending(t) /\ t # Head(inbox[e]).response => Pending(t)',
           Head(inbox[e]).response = NoToken => received' = received
    PROVE  WaitingInv' /\ RequestsInv' /\ CallbacksInv'
<1> DEFINE first == Head(inbox[e]).response
<1>1. /\ inbox[e] \in Seq(Received) /\ inbox[e] # <<>>
      /\ inbox \in [Ends -> Seq(Received)]
      /\ inbox' = [inbox EXCEPT ![e] = Tail(@)]
  BY DEF Takes, TypeOK
<1>2. /\ 1 \in DOMAIN inbox[e] /\ first = inbox[e][1].response
      /\ \A k \in DOMAIN Tail(inbox[e]) : /\ k + 1 \in DOMAIN inbox[e] /\ k + 1 # 1
                                          /\ k \in Nat
                                          /\ Tail(inbox[e])[k] = inbox[e][k + 1]
  BY <1>1, TailFacts
<1>3. /\ \A f \in Ends : f # e => inbox'[f] = inbox[f]
      /\ \A k \in DOMAIN inbox'[e] : /\ k + 1 \in DOMAIN inbox[e] /\ k + 1 # 1
                                     /\ k \in Nat
                                     /\ inbox'[e][k] = inbox[e][k + 1]
  BY <1>1, <1>2
<1>4. first # NoToken =>
          /\ first.end = e
          /\ \A i \in DOMAIN waitResponses[e] : waitResponses[e][i] # first
          /\ \A l \in DOMAIN inbox[e] : l # 1 => inbox[e][l].response # first
  BY <1>2 DEF CallbacksInv
<1>5. ASSUME NEW t, Pending(t), t # first \/ first = NoToken PROVE Pending(t)'
  BY <1>5 DEF Pending
<1>6. WaitingInv'
  <2> SUFFICES ASSUME NEW f \in Ends, NEW i \in DOMAIN waitResponses[f], NEW t,
                      t = waitResponses[f][i]
               PROVE  t.end = f /\ IdOf(t) = i /\ Live(t)' /\ Pending(t)'
    BY DEF WaitingInv
  <2>1. t.end = f /\ IdOf(t) = i /\ Live(t) /\ Pending(t)
    BY DEF WaitingInv
  <2>2. t # first \/ first = NoToken
    BY <1>4, <2>1
  <2> QED
    BY <1>5, <2>1, <2>2
<1>7. RequestsInv'
  <2> SUFFICES ASSUME NEW f \in Ends, NEW k \in DOMAIN inbox'[f], NEW m,
                      m = inbox'[f][k], m.kind = "request"
               PROVE  /\ Live(m.token)' /\ m.id = IdOf(m.token)
                      /\ m.token \in DOMAIN received'
                      /\ m.token.end = Peer(f)
    BY DEF RequestsInv
  <2>1. \E l \in DOMAIN inbox[f] : inbox'[f][k] = inbox[f][l]
    BY <1>3
  <2> QED
    BY <2>1 DEF RequestsInv
<1>8. CallbacksInv'
  <2> SUFFICES ASSUME NEW f \in Ends, NEW k \in DOMAIN inbox'[f], NEW t,
                      t = inbox'[f][k].response, t # NoToken
               PROVE  /\ inbox'[f][k].kind = "answer" /\ inbox'[f][k].token = t
                      /\ t.end = f
                      /\ Pending(t)'
                      /\ \A i \in DOMAIN waitResponses'[f] : waitResponses'[f][i] # t
                      /\ \A l \in DOMAIN inbox'[f] : l # k => inbox'[f][l].response # t
    BY DEF CallbacksInv
  <2>1. CASE f # e
    <3>1. k \in DOMAIN inbox[f] /\ inbox'[f] = inbox[f]
      BY <1>3, <2>1
    <3>2. t.end = f /\ Pending(t)
      BY <3>1 DEF CallbacksInv
    <3>3. t # first \/ first = NoToken
      BY <1>4, <2>1, <3>2
    <3>4. Pending(t)'
      BY <1>5, <3>2, <3>3
    <3> QED
      BY <3>1, <3>4 DEF CallbacksInv
  <2>2. CASE f = e
    <3>1. /\ k + 1 \in DOMAIN inbox[e] /\ k + 1 # 1
          /\ inbox'[e][k] = inbox[e][k + 1] /\ t = inbox[e][k + 1].response
      BY <1>3, <2>2
    <3>2. /\ inbox[e][k + 1].kind = "answer" /\ inbox[e][k + 1].token = t
          /\ t.end = e /\ Pending(t)
          /\ \A i \in DOMAIN waitResponses[e] : waitResponses[e][i] # t
          /\ \A l \in DOMAIN inbox[e] : l # k + 1 => inbox[e][l].response # t
      BY <3>1 DEF CallbacksInv
    <3>3. t # first \/ first = NoToken
      BY <1>4, <3>1
    <3>4. Pending(t)'
      BY <1>5, <3>2, <3>3
    <3>5. \A l \in DOMAIN inbox'[e] : l # k => inbox'[e][l].response # t
      <4>1. \A l \in DOMAIN inbox'[e] : l # k => l + 1 # k + 1
        BY <1>3, <2>2
      <4> QED
        BY <1>3, <3>2, <4>1
    <3> QED
      BY <2>2, <3>1, <3>2, <3>4, <3>5
  <2> QED
    BY <2>1, <2>2
<1> QED
  BY <1>6, <1>7, <1>8

(* The frame is given a command of the session it is in, or its end. *)
LEMMA DeliverKeepsSessions ==
    ASSUME TypeOK, SessionsInv, NEW e \in Ends,
           NEW kind \in {"plain", "request", "answer", "end"},
           NEW id \in 0 .. IdModulus - 1, NEW token \in Token,
           OnRemoteCommand(e, kind, id, token), listening' = listening,
           kind = "request" => conn[e] = "open",
           kind = "end" => conn[e] = "open" /\ conn'[e] = "closed",
           \/ conn'["frame"] = conn["frame"]
           \/ conn["frame"] = "confirming"
           \/ e = "frame" /\ kind = "end"
    PROVE  SessionsInv'
<1> DEFINE cmd == [kind |-> kind, id |-> id, token |-> token,
                   response |-> Callback(e, id)]
           box == inbox["frame"]
           n == Len(box) + 1
<1>1. CASE e # "frame"
  <2>1. inbox'["frame"] = box
    BY <1>1 DEF OnRemoteCommand, TypeOK, Ends
  <2> QED
    BY <1>1, <2>1 DEF SessionsInv
<1>2. CASE e = "frame"
  <2>1. /\ inbox \in [Ends -> Seq(Received)] /\ cmd \in Received /\ box \in Seq(Received)
        /\ inbox'["frame"] = Append(box, cmd)
    <3>1. Callback(e, id) \in Token \cup {NoToken}
      BY DEF TypeOK, Callback
    <3> QED
      BY <1>2, <3>1 DEF Received, OnRemoteCommand, TypeOK
  <2>2. /\ DOMAIN box = 1 .. Len(box) /\ Len(box) \in Nat
        /\ inbox'["frame"][n] = cmd
        /\ \A k \in DOMAIN box : inbox'["frame"][k] = box[k]
        /\ \A k \in DOMAIN inbox'["frame"] : k \in DOMAIN box \/ k = n
    BY <2>1, AppendFacts
  <2>3. \A k \in DOMAIN box : k < n
    BY <2>2
  <2>4. CASE \E k \in DOMAIN box : box[k].kind = "end"
    <3>1. conn["frame"] = "closed" /\ ~listening
      BY <2>4 DEF SessionsInv
    <3>2. kind \notin {"request", "end"} /\ conn'["frame"] = "closed"
      BY <1>2, <3>1
    <3>3. cmd.kind \notin {"request", "end"}
      BY <3>2
    <3> HIDE DEF cmd, n
    <3> QED
      BY <2>2, <3>1, <3>2, <3>3 DEF SessionsInv
  <2>5. CASE \A k \in DOMAIN box : box[k].kind # "end"
    <3>1. cmd.kind = kind
      OBVIOUS
    <3>2. CASE kind = "end"
      <4>1. conn["frame"] = "open" /\ conn'["frame"] = "closed" /\ ~listening
        BY <1>2, <3>2 DEF SessionsInv
      <4> HIDE DEF cmd, n
      <4> QED
        BY <2>2, <2>3, <2>5, <3>1, <3>2, <4>1 DEF SessionsInv
    <3>3. CASE kind # "end"
      <4>1. listening => kind # "request" /\ conn'["frame"] = "closed"
        BY <1>2, <3>3 DEF SessionsInv
      <4> HIDE DEF cmd, n
      <4> QED
        BY <2>2, <2>5, <3>1, <3>3, <4>1 DEF SessionsInv
    <3> QED
      BY <3>2, <3>3
  <2> QED
    BY <2>4, <2>5
<1> QED
  BY <1>1, <1>2

(* The frame listens once it takes the END_CONNECTION, behind which nothing *)
(* of the old session is.                                                   *)
LEMMA TakeKeepsSessions ==
    ASSUME TypeOK, SessionsInv, NEW e \in Ends, Takes(e), conn' = conn,
           listening' = (listening \/ (e = "frame" /\ Head(inbox[e]).kind = "end"
                                                   /\ conn[e] # "open"))
    PROVE  SessionsInv'
<1> DEFINE box == inbox["frame"]
<1>0. inbox \in [Ends -> Seq(Received)] /\ box \in Seq(Received)
  BY DEF TypeOK, Ends
<1>1. CASE e # "frame"
  <2>1. inbox'["frame"] = box /\ listening' = listening
    BY <1>0, <1>1 DEF Takes, Ends, TypeOK
  <2> QED
    BY <2>1 DEF SessionsInv
<1>2. CASE e = "frame"
  <2>1. box # <<>> /\ inbox'["frame"] = Tail(box)
    BY <1>0, <1>2 DEF Takes
  <2>2. /\ Head(box) = box[1] /\ 1 \in DOMAIN box
        /\ \A k \in DOMAIN inbox'["frame"] :
              /\ k + 1 \in DOMAIN box /\ k + 1 # 1 /\ k \in Nat
              /\ inbox'["frame"][k] = box[k + 1]
    BY <1>0, <2>1, TailFacts
  <2>3. \A k \in Nat, l \in Nat : /\ (l + 1 = k + 1 <=> l = k)
                                 /\ (l + 1 < k + 1 <=> l < k)
                                 /\ ~(l + 1 < 1)
    OBVIOUS
  <2>4. CASE box[1].kind = "end"
    <3>1. /\ conn["frame"] = "closed"
          /\ \A k \in DOMAIN inbox'["frame"] : inbox'["frame"][k].kind \notin {"end", "request"}
      BY <2>2, <2>3, <2>4 DEF SessionsInv
    <3> QED
      BY <3>1 DEF SessionsInv
  <2>5. CASE box[1].kind # "end"
    <3>1. listening' = listening
      BY <1>2, <2>2, <2>5 DEF TypeOK
    <3>2. ASSUME NEW k \in DOMAIN inbox'["frame"], inbox'["frame"][k].kind = "end"
          PROVE  /\ conn["frame"] = "closed" /\ ~listening
                 /\ \A l \in DOMAIN inbox'["frame"] :
                       /\ inbox'["frame"][l].kind = "end" => l = k
                       /\ inbox'["frame"][l].kind = "request" => l < k
      <4>1. k + 1 \in DOMAIN box /\ box[k + 1].kind = "end"
        BY <2>2, <3>2
      <4>2. /\ conn["frame"] = "closed" /\ ~listening
            /\ \A q \in DOMAIN box : /\ box[q].kind = "end" => q = k + 1
                                     /\ box[q].kind = "request" => q < k + 1
        BY <4>1 DEF SessionsInv
      <4>3. ASSUME NEW l \in DOMAIN inbox'["frame"]
            PROVE  /\ inbox'["frame"][l].kind = "end" => l = k
                   /\ inbox'["frame"][l].kind = "request" => l < k
        <5>1. PICK j : j = l + 1
          OBVIOUS
        <5>2. j \in DOMAIN box /\ inbox'["frame"][l] = box[j]
          BY <2>2, <5>1
        <5>3. /\ (j = k + 1 => l = k)
              /\ (j < k + 1 => l < k)
          BY <2>2, <2>3, <5>1
        <5>4. /\ box[j].kind = "end" => j = k + 1
              /\ box[j].kind = "request" => j < k + 1
          BY <4>2, <5>2
        <5> HIDE DEF box
        <5> QED
          BY ONLY <5>2, <5>3, <5>4
      <4> QED
        BY <4>2, <4>3
    <3>3. listening => /\ conn["frame"] = "closed"
                       /\ \A k \in DOMAIN inbox'["frame"] :
                             inbox'["frame"][k].kind # "request"
      BY <2>2 DEF SessionsInv
    <3> QED
      BY <3>1, <3>2, <3>3 DEF SessionsInv
  <2> QED
    BY <2>4, <2>5
<1> QED
  BY <1>1, <1>2

LEMMA InitKeepsAll == EngineAssumption /\ NoWrap /\ Init => EngineInv
<1> SUFFICES ASSUME EngineAssumption, Init PROVE EngineInv
  OBVIOUS
<1>1. TypeOK
  BY InitTyped
<1>2. /\ \A e \in Ends : /\ wire[e] = <<>> /\ inbox[e] = <<>> /\ drawn[e] = 0
                         /\ counter[e] = FirstId(e)
                         /\ DOMAIN waitResponses[e] = {}
      /\ evals = <<>> /\ DOMAIN received = {} /\ ~listening
  BY DEF Init, Nothing
<1>3. Counters
  BY <1>2 DEF Counters, FirstId
<1>4. "frame" \in Ends
  BY DEF Ends
<1> QED
  BY <1>1, <1>2, <1>3, <1>4
     DEF EngineInv, WaitingInv, WireInv, EvalsInv, RequestsInv, CallbacksInv,
         SessionsInv, ReceivedInv

(* A step that sends nothing and takes nothing from the other parts. *)
LEMMA KeptParts ==
    ASSUME EngineInv, \A t : Live(t) => Live(t)',
           DOMAIN received \subseteq DOMAIN received'
    PROVE  /\ evals' = evals => EvalsInv'
           /\ wire' = wire => WireInv'
           /\ inbox' = inbox => RequestsInv'
           /\ inbox' = inbox /\ conn' = conn /\ listening' = listening => SessionsInv'
BY DEF EngineInv, EvalsInv, WireInv, RequestsInv, SessionsInv

(* What has been asked stays asked while ids are drawn. *)
LEMMA DrawKeepsReceived ==
    ASSUME EngineAssumption, TypeOK, ReceivedInv, NEW e \in Ends,
           NEW k \in {0, 1, 2}, Draw(e, k), session' = session, received' = received
    PROVE  ReceivedInv'
<1>1. /\ drawn \in [Ends -> 0 .. MaxDrawn]
      /\ drawn'[e] = drawn[e] + k
      /\ \A f \in Ends : f # e => drawn'[f] = drawn[f]
  BY DrawTyped DEF TypeOK
<1>2. \A t \in DOMAIN received : t.end \in Ends /\ t.nth \in Nat
  BY SMTT(40) DEF TypeOK, Token, EngineAssumption
<1>3. \A f \in Ends : drawn[f] \in Int /\ drawn'[f] \in Int /\ drawn[f] <= drawn'[f]
  BY <1>1 DEF EngineAssumption
<1>4. \A t \in DOMAIN received : t.nth < drawn[t.end] => t.nth < drawn'[t.end]
  BY <1>2, <1>3
<1> QED
  BY <1>4 DEF ReceivedInv

LEMMA SendPlainKeeps ==
    ASSUME EngineAssumption, NoWrap, EngineInv, TypeOK', NEW e \in Ends, SendPlain(e)
    PROVE  EngineInv'
<1>1. Draw(e, 1) /\ 1 \in {0, 1, 2} /\ 0 \in {0, 1} /\ session' = session
  BY DEF SendPlain
<1>2. PICK d : d = Drawn(e, 0)
  OBVIOUS
<1>3. PICK m : m = Command("plain", counter[e], d)
  OBVIOUS
<1>4. /\ Counters' /\ \A t : Live(t) => Live(t)'
      /\ d.end = e /\ IdOf(d) = counter[e] /\ Live(d)'
  <2>1. IdAfter(e, 0) = counter[e] /\ 0 < 1
    BY DEF IdAfter
  <2> QED
    BY <1>1, <1>2, <2>1, DrawFacts DEF EngineInv
<1>5. /\ received' = received /\ inbox' = inbox /\ evals' = evals
      /\ waitResponses' = waitResponses /\ conn' = conn /\ listening' = listening
      /\ wire' = Written(e, m)
  BY <1>2, <1>3 DEF SendPlain
<1>6. m \in Message /\ m.kind = "plain" /\ m.token = d /\ m.id = IdOf(d)
  BY <1>3, <1>4 DEF Command, Message, EngineInv, TypeOK, Live
<1>7. WireInv'
  BY <1>4, <1>5, <1>6, WriteKeeps DEF EngineInv
<1>8. ReceivedInv'
  BY <1>1, <1>5, DrawKeepsReceived DEF EngineInv
<1>9. WaitingInv' /\ CallbacksInv'
  BY <1>4, <1>5 DEF EngineInv, WaitingInv, CallbacksInv, Pending
<1> QED
  BY <1>4, <1>5, <1>7, <1>8, <1>9, KeptParts DEF EngineInv

LEMMA SendRequestKeeps ==
    ASSUME EngineAssumption, NoWrap, EngineInv, TypeOK', NEW e \in Ends, SendRequest(e)
    PROVE  EngineInv'
<1>1. Draw(e, 1) /\ 1 \in {0, 1, 2} /\ 0 \in {0, 1} /\ session' = session
  BY DEF SendRequest
<1>2. PICK d : d = Drawn(e, 0)
  OBVIOUS
<1>3. PICK m : m = Command("request", counter[e], d)
  OBVIOUS
<1>4. /\ Counters' /\ \A t : Live(t) => Live(t)'
      /\ d.end = e /\ IdOf(d) = counter[e] /\ Live(d)'
      /\ d \notin DOMAIN received
      /\ \A t : Live(t) /\ t.end = e => IdOf(t) # counter[e]
      /\ \A t \in DOMAIN received : t.end = "frame" /\ e = "frame" => t.nth # d.nth
  <2>1. IdAfter(e, 0) = counter[e] /\ 0 < 1
    BY DEF IdAfter
  <2> QED
    BY <1>1, <1>2, <2>1, DrawFacts DEF EngineInv
<1>5. /\ inbox' = inbox /\ evals' = evals
      /\ conn' = conn /\ listening' = listening
      /\ wire' = Written(e, m)
      /\ waitResponses' = [waitResponses EXCEPT ![e] = Inserted(@, counter[e], d)]
      /\ received' = [t \in DOMAIN received \cup {d} |->
                         IF t = d THEN <<>> ELSE received[t]]
  BY <1>2, <1>3 DEF SendRequest
<1>6. m \in Message /\ m.kind = "request" /\ m.token = d /\ m.id = IdOf(d)
  BY <1>3, <1>4 DEF Command, Message, EngineInv, TypeOK, Live
<1>7. /\ \A t : Pending(t) => Pending(t)'
      /\ Pending(d)'
      /\ DOMAIN received \subseteq DOMAIN received'
  BY <1>4, <1>5 DEF Pending
<1>8. WireInv'
  BY <1>4, <1>5, <1>6, <1>7, WriteKeeps DEF EngineInv, Pending
<1>9. ReceivedInv'
  <2>1. /\ drawn \in [Ends -> 0 .. MaxDrawn] /\ drawn' \in [Ends -> 0 .. MaxDrawn]
        /\ drawn'[e] = drawn[e] + 1
        /\ \A f \in Ends : f # e => drawn'[f] = drawn[f]
    BY <1>1, DrawTyped DEF EngineInv, TypeOK
  <2>2. \A f \in Ends : drawn[f] \in Int /\ drawn'[f] \in Int /\ drawn[f] <= drawn'[f]
    <3>1. \A n \in 0 .. MaxDrawn : n \in Int /\ n <= n /\ n <= n + 1
      BY DEF EngineAssumption
    <3> QED
      BY <2>1, <3>1
  <2>3. \A t \in DOMAIN received : t.end \in Ends /\ t.nth \in Nat
    <3>1. DOMAIN received \subseteq Token
      BY DEF EngineInv, TypeOK
    <3> QED
      BY <3>1 DEF Token, EngineAssumption
  <2>4. \A t \in DOMAIN received : t.nth < drawn[t.end] => t.nth < drawn'[t.end]
    BY <2>2, <2>3
  <2>5. d.session = session /\ session \in Int /\ d.nth < drawn'[d.end]
    BY <1>2, <1>4 DEF Drawn, Live, EngineInv, TypeOK, EngineAssumption
  <2>6. \A t \in DOMAIN received' : t \in DOMAIN received \/ t = d
    BY <1>5
  <2>7. \A t \in DOMAIN received' :
            /\ t.session <= session'
            /\ t.end = "frame" \/ t.session = session' => t.nth < drawn'[t.end]
    BY <1>1, <2>4, <2>5, <2>6 DEF EngineInv, ReceivedInv
  <2>8. \A t, u \in DOMAIN received' :
            t.end = "frame" /\ u.end = "frame" /\ u.nth = t.nth => u = t
    BY <1>4, <2>6 DEF EngineInv, ReceivedInv
  <2> QED
    BY <2>7, <2>8 DEF ReceivedInv
<1>10. waitResponses'[e] = Inserted(waitResponses[e], counter[e], d)
       /\ \A f \in Ends : f # e => waitResponses'[f] = waitResponses[f]
  BY <1>5 DEF EngineInv, TypeOK
<1>11. counter[e] \notin DOMAIN waitResponses[e]
  BY <1>4 DEF EngineInv, WaitingInv
<1>12. \A f \in Ends : \A i : i \in DOMAIN waitResponses'[f] =>
           \/ i \in DOMAIN waitResponses[f] /\ waitResponses'[f][i] = waitResponses[f][i]
           \/ f = e /\ i = counter[e] /\ waitResponses'[f][i] = d
  BY <1>10, <1>11 DEF Inserted
<1>13. WaitingInv'
  <2> SUFFICES ASSUME NEW f \in Ends, NEW i \in DOMAIN waitResponses'[f], NEW t,
                      t = waitResponses'[f][i]
               PROVE  t.end = f /\ IdOf(t) = i /\ Live(t)' /\ Pending(t)'
    BY DEF WaitingInv
  <2>1. CASE i \in DOMAIN waitResponses[f] /\ t = waitResponses[f][i]
    BY <1>4, <1>7, <2>1 DEF EngineInv, WaitingInv
  <2>2. CASE f = e /\ i = counter[e] /\ t = d
    BY <1>4, <1>7, <2>2
  <2> QED
    BY <1>12, <2>1, <2>2
<1>14. CallbacksInv'
  <2> SUFFICES ASSUME NEW f \in Ends, NEW k \in DOMAIN inbox[f], NEW t,
                      t = inbox[f][k].response, t # NoToken
               PROVE  /\ inbox[f][k].kind = "answer" /\ inbox[f][k].token = t
                      /\ t.end = f
                      /\ Pending(t)'
                      /\ \A i \in DOMAIN waitResponses'[f] : waitResponses'[f][i] # t
                      /\ \A l \in DOMAIN inbox[f] : l # k => inbox[f][l].response # t
    BY <1>5 DEF CallbacksInv
  <2>1. /\ inbox[f][k].kind = "answer" /\ inbox[f][k].token = t
        /\ t.end = f
        /\ Pending(t)
        /\ \A i \in DOMAIN waitResponses[f] : waitResponses[f][i] # t
        /\ \A l \in DOMAIN inbox[f] : l # k => inbox[f][l].response # t
    BY DEF EngineInv, CallbacksInv
  <2>2. t # d
    BY <1>4, <2>1 DEF Pending
  <2> QED
    BY <1>7, <1>12, <2>1, <2>2
<1> QED
  BY <1>4, <1>5, <1>7, <1>8, <1>9, <1>13, <1>14, KeptParts DEF EngineInv

(* A command of its own that an end is given with a freshly drawn id. *)
LEMMA LocalCommandKeeps ==
    ASSUME EngineAssumption, NoWrap, EngineInv, TypeOK', NEW e \in Ends,
           NEW k \in {1, 2}, Draw(e, k), NEW kind \in {"plain", "end"},
           OnRemoteCommand(e, kind, counter[e], Drawn(e, 0)),
           session' = session, received' = received, listening' = listening,
           evals' = evals,
           kind = "end" => conn[e] = "open" /\ conn'[e] = "closed",
           \/ conn'["frame"] = conn["frame"]
           \/ conn["frame"] = "confirming"
           \/ e = "frame" /\ kind = "end"
    PROVE  /\ Counters' /\ WaitingInv' /\ EvalsInv' /\ RequestsInv'
           /\ CallbacksInv' /\ SessionsInv' /\ ReceivedInv'
           /\ \A t : Live(t) => Live(t)'
<1>1. k \in {0, 1, 2} /\ 0 \in {0, 1} /\ 0 < k
  OBVIOUS
<1>2. PICK d : d = Drawn(e, 0)
  OBVIOUS
<1>3. PICK c : c = counter[e]
  OBVIOUS
<1>4. /\ Counters' /\ \A t : Live(t) => Live(t)'
      /\ d \in Token
      /\ \A t : Live(t) /\ t.end = e => IdOf(t) # c
  <2>1. IdAfter(e, 0) = counter[e]
    BY DEF IdAfter
  <2>2. d \in Token
    BY <1>1, <1>2, DrawTyped DEF EngineInv
  <2> QED
    BY <1>1, <1>2, <1>3, <2>1, <2>2, DrawFacts DEF EngineInv
<1>5. c \notin DOMAIN waitResponses[e]
  BY <1>4 DEF EngineInv, WaitingInv
<1>6. /\ OnRemoteCommand(e, kind, c, d) /\ c \in 0 .. IdModulus - 1
      /\ kind \in {"plain", "request", "answer", "end"} /\ kind # "request"
  BY <1>2, <1>3 DEF EngineInv, TypeOK
<1>7. WaitingInv' /\ RequestsInv' /\ CallbacksInv'
  BY <1>4, <1>5, <1>6, DeliverKeeps DEF EngineInv
<1>8. SessionsInv'
  BY <1>4, <1>6, DeliverKeepsSessions DEF EngineInv
<1>9. ReceivedInv'
  BY <1>1, DrawKeepsReceived DEF EngineInv
<1> QED
  BY <1>4, <1>7, <1>8, <1>9, KeptParts

LEMMA OutputLogKeeps ==
    ASSUME EngineAssumption, NoWrap, EngineInv, TypeOK', NEW e \in Ends, OutputLog(e)
    PROVE  EngineInv'
<1> DEFINE k == IF conn[e] = "open" THEN 2 ELSE 1
<1>1. Draw(e, k) /\ k \in {1, 2} /\ k \in {0, 1, 2} /\ session' = session
  BY DEF OutputLog
<1>2. /\ received' = received /\ evals' = evals /\ conn' = conn
      /\ listening' = listening
      /\ OnRemoteCommand(e, "plain", counter[e], Drawn(e, 0))
  BY DEF OutputLog
<1>3. /\ Counters' /\ WaitingInv' /\ EvalsInv' /\ RequestsInv'
      /\ CallbacksInv' /\ SessionsInv' /\ ReceivedInv'
      /\ \A t : Live(t) => Live(t)'
  BY <1>1, <1>2, LocalCommandKeeps
<1>4. CASE conn[e] # "open"
  <2>1. wire' = wire
    BY <1>4 DEF OutputLog
  <2> QED
    BY <1>2, <1>3, <2>1, KeptParts DEF EngineInv
<1>5. CASE conn[e] = "open"
  <2>1. PICK d : d = Drawn(e, 1)
    OBVIOUS
  <2>2. PICK m : m = Command("plain", IdAfter(e, 1), d)
    OBVIOUS
  <2>3. /\ d.end = e /\ IdOf(d) = IdAfter(e, 1) /\ Live(d)'
    <3>1. 1 \in {0, 1} /\ 1 < k
      BY <1>5
    <3> QED
      BY <1>1, <2>1, <3>1, DrawFacts DEF EngineInv
  <2>4. m \in Message /\ m.kind = "plain" /\ m.token = d /\ m.id = IdOf(d)
    <3>1. IdAfter(e, 1) \in 0 .. IdModulus - 1 /\ d \in Token
      <4>1. 1 \in {0, 1} /\ 1 < k
        BY <1>5
      <4> QED
        BY <1>1, <2>1, <4>1, DrawTyped DEF EngineInv
    <3> QED
      BY <2>2, <2>3, <3>1 DEF Command, Message
  <2>5. wire' = Written(e, m)
    BY <1>5, <2>1, <2>2 DEF OutputLog
  <2>6. WireInv'
    BY <1>2, <1>3, <2>3, <2>4, <2>5, WriteKeeps DEF EngineInv
  <2> QED
    BY <1>3, <2>6 DEF EngineInv
<1> QED
  BY <1>4, <1>5

LEMMA ConnectionKeeps ==
    ASSUME EngineAssumption, NoWrap, EngineInv, TypeOK', NEW e \in Ends,
           OnConnectionConnected(e) \/ OnConnectionClosed(e)
    PROVE  EngineInv'
<1>0. 1 \in {1, 2} /\ conn \in [Ends -> {"confirming", "open", "closed"}]
      /\ wire \in [Ends -> Seq(Message)]
  BY DEF EngineInv, TypeOK
<1>1. CASE OnConnectionConnected(e)
  <2>1. /\ Draw(e, 1) /\ session' = session /\ received' = received
        /\ listening' = listening /\ evals' = evals /\ wire' = wire
        /\ OnRemoteCommand(e, "plain", counter[e], Drawn(e, 0))
        /\ conn'["frame"] = conn["frame"] \/ conn["frame"] = "confirming"
    BY <1>0, <1>1 DEF OnConnectionConnected, Ends
  <2>2. /\ Counters' /\ WaitingInv' /\ EvalsInv' /\ RequestsInv'
        /\ CallbacksInv' /\ SessionsInv' /\ ReceivedInv'
        /\ \A t : Live(t) => Live(t)'
    BY <1>0, <2>1, LocalCommandKeeps
  <2> QED
    BY <2>1, <2>2, KeptParts DEF EngineInv
<1>2. CASE OnConnectionClosed(e)
  <2>1. /\ Draw(e, 1) /\ session' = session /\ received' = received
        /\ listening' = listening /\ evals' = evals
        /\ wire' = [wire EXCEPT ![e] = <<>>]
        /\ OnRemoteCommand(e, "end", counter[e], Drawn(e, 0))
        /\ conn[e] = "open" /\ conn'[e] = "closed"
        /\ conn'["frame"] = conn["frame"] \/ e = "frame"
    BY <1>0, <1>2 DEF OnConnectionClosed, Ends
  <2>2. /\ Counters' /\ WaitingInv' /\ EvalsInv' /\ RequestsInv'
        /\ CallbacksInv' /\ SessionsInv' /\ ReceivedInv'
        /\ \A t : Live(t) => Live(t)'
    BY <1>0, <2>1, LocalCommandKeeps
  <2>3. \A f \in Ends : \A k : k \in DOMAIN wire'[f] =>
            k \in DOMAIN wire[f] /\ wire'[f][k] = wire[f][k]
    BY <1>0, <2>1
  <2>4. WireInv'
    BY <2>1, <2>2, <2>3 DEF EngineInv, WireInv
  <2> QED
    BY <2>2, <2>4 DEF EngineInv
<1> QED
  BY <1>1, <1>2

(* Nothing is drawn where nothing is drawn. *)
LEMMA DrawNone ==
    ASSUME EngineAssumption, TypeOK, NEW e \in Ends, Draw(e, 0)
    PROVE  counter' = counter /\ drawn' = drawn
<1>1. /\ counter \in [Ends -> 0 .. IdModulus - 1]
      /\ drawn \in [Ends -> 0 .. MaxDrawn]
  BY DEF TypeOK
<1>2. drawn[e] + 0 = drawn[e]
  BY <1>1 DEF EngineAssumption
<1> QED
  BY <1>1, <1>2 DEF Draw

LEMMA ReceiveKeeps ==
    ASSUME EngineAssumption, NoWrap, EngineInv, TypeOK', NEW e \in Ends, Receive(e)
    PROVE  EngineInv'
<1>1. /\ wire \in [Ends -> Seq(Message)] /\ wire[e] \in Seq(Message)
      /\ wire[e] # <<>> /\ wire' = [wire EXCEPT ![e] = Tail(@)]
      /\ conn[e] = "open" /\ conn' = conn /\ listening' = listening
      /\ received' = received /\ evals' = evals /\ drawn' = drawn
      /\ counter' = counter /\ session' = session
  BY DEF Receive, EngineInv, TypeOK
<1>2. PICK m : m = Head(wire[e])
  OBVIOUS
<1>3. /\ m \in Message /\ m = wire[e][1] /\ 1 \in DOMAIN wire[e]
      /\ \A k \in DOMAIN Tail(wire[e]) :
            k + 1 \in DOMAIN wire[e] /\ Tail(wire[e])[k] = wire[e][k + 1]
  BY <1>1, <1>2, TailFacts
<1>4. /\ m.kind \in {"plain", "request", "answer"} /\ m.token \in Token
      /\ m.id \in 0 .. IdModulus - 1
      /\ m.kind \in {"plain", "request", "answer", "end"} /\ m.kind # "end"
      /\ OnRemoteCommand(e, m.kind, m.id, m.token)
  BY <1>2, <1>3 DEF Message, Receive
<1>5. /\ Live(m.token) /\ m.id = IdOf(m.token)
      /\ m.kind # "plain" => m.token \in DOMAIN received
      /\ IF m.kind = "answer" THEN m.token.end = e ELSE m.token.end = Peer(e)
  BY <1>3 DEF EngineInv, WireInv
<1>6. \A t : Live(t) => Live(t)'
  BY <1>1 DEF Live
<1>7. m.id \in DOMAIN waitResponses[e] => m.kind = "answer"
  <2>1. SUFFICES ASSUME m.id \in DOMAIN waitResponses[e] PROVE m.kind = "answer"
    OBVIOUS
  <2>2. PICK t : t = waitResponses[e][m.id]
    OBVIOUS
  <2>3. t.end = e /\ IdOf(t) = m.id /\ Live(t)
    BY <2>1, <2>2 DEF EngineInv, WaitingInv
  <2>4. m.token.end = e
    BY <1>5, <2>3, IdsDiffer
  <2> QED
    BY <1>5, <2>4 DEF Peer, Ends
<1>8. WaitingInv' /\ RequestsInv' /\ CallbacksInv'
  <2>1. m.kind = "request" => /\ Live(m.token)' /\ m.id = IdOf(m.token)
                              /\ m.token \in DOMAIN received
                              /\ m.token.end = Peer(e)
    BY <1>5, <1>6
  <2>2. m.id \in DOMAIN waitResponses[e] =>
            /\ m.kind = "answer" /\ m.token \in DOMAIN received
            /\ Live(m.token) /\ IdOf(m.token) = m.id
    BY <1>5, <1>7
  <2> QED
    BY <1>1, <1>4, <1>6, <2>1, <2>2, DeliverKeeps DEF EngineInv
<1>9. SessionsInv'
  BY <1>1, <1>4, DeliverKeepsSessions DEF EngineInv
<1>10. \A f \in Ends : \A k : k \in DOMAIN wire'[f] =>
           \E l \in DOMAIN wire[f] : wire'[f][k] = wire[f][l]
  BY <1>1, <1>3
<1>11. WireInv'
  <2> SUFFICES ASSUME NEW f \in Ends, NEW k \in DOMAIN wire'[f], NEW w, w = wire'[f][k]
               PROVE  /\ Live(w.token)'
                      /\ w.id = IdOf(w.token)
                      /\ w.kind # "plain" => w.token \in DOMAIN received'
                      /\ IF w.kind = "answer" THEN w.token.end = f
                         ELSE w.token.end = Peer(f)
    BY DEF WireInv
  <2>1. PICK l \in DOMAIN wire[f] : w = wire[f][l]
    BY <1>10
  <2> QED
    BY <1>1, <1>6, <2>1 DEF EngineInv, WireInv
<1>12. Counters' /\ ReceivedInv'
  BY <1>1 DEF EngineInv, Counters, ReceivedInv
<1> QED
  BY <1>1, <1>6, <1>8, <1>9, <1>11, <1>12, KeptParts DEF EngineInv

(* The programs take a command: its callback, or what they do with it.      *)
LEMMA CallResponseKeeps ==
    ASSUME EngineAssumption, EngineInv, TypeOK', NEW e \in Ends, CallResponse(e)
    PROVE  EngineInv'
<1>1. /\ Takes(e) /\ waitResponses' = waitResponses /\ conn' = conn
      /\ listening' = listening /\ wire' = wire /\ evals' = evals
      /\ drawn' = drawn /\ counter' = counter /\ session' = session
  BY DEF CallResponse
<1>2. PICK t : t = Head(inbox[e]).response
  OBVIOUS
<1>3. /\ t # NoToken /\ DOMAIN received' = DOMAIN received
      /\ \A u : u # t /\ u \in DOMAIN received => received'[u] = received[u]
  BY <1>2 DEF CallResponse
<1>4. \A u : Live(u) => Live(u)'
  BY <1>1 DEF Live
<1>5. \A u : Pending(u) /\ u # t => Pending(u)'
  BY <1>3 DEF Pending
<1>6. WaitingInv' /\ RequestsInv' /\ CallbacksInv'
  BY <1>1, <1>2, <1>3, <1>4, <1>5, TakeKeeps DEF EngineInv
<1>7. Head(inbox[e]).kind # "end"
  <2>1. inbox[e] \in Seq(Received) /\ inbox[e] # <<>>
    BY <1>1 DEF Takes, EngineInv, TypeOK
  <2>2. Head(inbox[e]) = inbox[e][1] /\ 1 \in DOMAIN inbox[e]
    BY <2>1, TailFacts
  <2> QED
    BY <1>2, <1>3, <2>2 DEF EngineInv, CallbacksInv
<1>8. SessionsInv'
  <2>1. listening' = (listening \/ (e = "frame" /\ Head(inbox[e]).kind = "end"
                                                /\ conn[e] # "open"))
    BY <1>1, <1>7 DEF EngineInv, TypeOK
  <2> QED
    BY <1>1, <2>1, TakeKeepsSessions DEF EngineInv
<1>9. Counters' /\ ReceivedInv'
  BY <1>1, <1>3 DEF EngineInv, Counters, ReceivedInv
<1> QED
  BY <1>1, <1>3, <1>4, <1>6, <1>8, <1>9, KeptParts DEF EngineInv

LEMMA TakenKeeps ==
    ASSUME EngineInv, NEW e \in Ends, Takes(e),
           Head(inbox[e]).response = NoToken,
           waitResponses' = waitResponses, conn' = conn, received' = received,
           drawn' = drawn, counter' = counter, session' = session,
           listening' = (listening \/ (e = "frame" /\ Head(inbox[e]).kind = "end"
                                                   /\ conn[e] # "open"))
    PROVE  /\ Counters' /\ WaitingInv' /\ RequestsInv' /\ CallbacksInv'
           /\ SessionsInv' /\ ReceivedInv'
           /\ \A t : Live(t) => Live(t)'
<1>1. \A t : Live(t) => Live(t)'
  BY DEF Live
<1>2. \A t : Pending(t) => Pending(t)'
  BY DEF Pending
<1>3. WaitingInv' /\ RequestsInv' /\ CallbacksInv'
  BY <1>1, <1>2, TakeKeeps DEF EngineInv
<1>4. SessionsInv'
  BY TakeKeepsSessions DEF EngineInv
<1>5. Counters' /\ ReceivedInv'
  BY DEF EngineInv, Counters, ReceivedInv
<1> QED
  BY <1>1, <1>3, <1>4, <1>5

LEMMA ProcessKeeps ==
    ASSUME EngineAssumption, EngineInv, TypeOK', NEW e \in Ends, Process(e)
    PROVE  EngineInv'
<1>1. /\ Takes(e) /\ Head(inbox[e]).response = NoToken
      /\ waitResponses' = waitResponses /\ conn' = conn
      /\ wire' = wire /\ evals' = evals /\ received' = received
      /\ drawn' = drawn /\ counter' = counter /\ session' = session
      /\ listening' = (listening \/ (e = "frame" /\ Head(inbox[e]).kind = "end"
                                                 /\ conn[e] # "open"))
  BY DEF Process
<1>2. /\ Counters' /\ WaitingInv' /\ RequestsInv' /\ CallbacksInv'
      /\ SessionsInv' /\ ReceivedInv'
      /\ \A t : Live(t) => Live(t)'
  BY <1>1, TakenKeeps
<1> QED
  BY <1>1, <1>2, KeptParts DEF EngineInv

(* An answer bears the id of its request: no id in use is 0. *)
LEMMA ResponseWrites ==
    ASSUME EngineAssumption, NoWrap, TypeOK, NEW e \in Ends, NEW r,
           Live(r.token), r.id = IdOf(r.token), Response(e, r)
    PROVE  /\ drawn' = drawn /\ counter' = counter
           /\ conn[e] # "open" => wire' = wire
           /\ conn[e] = "open" =>
                 \E m \in Message : /\ wire' = Written(e, m)
                                    /\ m.kind = "answer" /\ m.token = r.token
                                    /\ m.id = IdOf(m.token)
<1>1. r.token \in Token /\ r.token.end \in Ends /\ r.token.nth \in Nat
  BY DEF Live, Token
<1>2. r.id \in Nat /\ r.id > 0
  BY <1>1 DEF IdOf, FirstId
<1>3. CASE conn[e] # "open"
  BY <1>3 DEF Response
<1>4. CASE conn[e] = "open"
  <2>1. Draw(e, 0) /\ AnswerId(e, r.id) = r.id
    BY <1>2, <1>4 DEF Response, AnswerId
  <2>2. PICK m : m = Command("answer", r.id, r.token)
    OBVIOUS
  <2>3. wire' = Written(e, m)
    BY <1>4, <2>1, <2>2 DEF Response
  <2>4. r.id \in 0 .. IdModulus - 1
    <3>1. r.token.nth <= MaxDrawn /\ MaxDrawn \in Nat /\ IdModulus \in Nat
      BY DEF Live, Token, EngineAssumption
    <3> QED
      BY <1>1, <1>2, <3>1 DEF NoWrap, IdOf, FirstId
  <2>5. m \in Message /\ m.kind = "answer" /\ m.id = IdOf(m.token) /\ m.token = r.token
    BY <1>1, <2>2, <2>4 DEF Command, Message
  <2> QED
    BY <1>4, <2>1, <2>3, <2>5, DrawNone
<1> QED
  BY <1>3, <1>4

LEMMA ResponseKeeps ==
    ASSUME EngineAssumption, NoWrap, EngineInv, NEW e \in Ends, NEW r,
           Live(r.token), r.id = IdOf(r.token), r.token \in DOMAIN received,
           r.token.end = Peer(e), received' = received, session' = session,
           Response(e, r)
    PROVE  WireInv' /\ drawn' = drawn /\ counter' = counter
<1>1. /\ drawn' = drawn /\ counter' = counter
      /\ conn[e] # "open" => wire' = wire
      /\ conn[e] = "open" =>
            \E m \in Message : /\ wire' = Written(e, m)
                               /\ m.kind = "answer" /\ m.token = r.token
                               /\ m.id = IdOf(m.token)
  BY ResponseWrites DEF EngineInv
<1>2. \A t : Live(t) => Live(t)'
  BY <1>1 DEF Live
<1>3. CASE conn[e] # "open"
  BY <1>1, <1>2, <1>3, KeptParts
<1>4. CASE conn[e] = "open"
  <2>1. PICK m \in Message : /\ wire' = Written(e, m)
                             /\ m.kind = "answer" /\ m.token = r.token
                             /\ m.id = IdOf(m.token)
    BY <1>1, <1>4
  <2>2. WireInv'
    BY <1>2, <2>1, WriteKeeps DEF EngineInv
  <2> QED
    BY <1>1, <2>2
<1> QED
  BY <1>3, <1>4

(* The request at the head of an inbox. *)
LEMMA HeadRequest ==
    ASSUME EngineInv, NEW e \in Ends, Takes(e), IsRequest(Head(inbox[e])),
           NEW r, r = Head(inbox[e])
    PROVE  /\ Live(r.token) /\ r.id = IdOf(r.token)
           /\ r.token \in DOMAIN received /\ r.token.end = Peer(e)
           /\ r.kind = "request" /\ r.response = NoToken
<1>1. inbox[e] \in Seq(Received) /\ inbox[e] # <<>>
  BY DEF Takes, EngineInv, TypeOK
<1>2. r = inbox[e][1] /\ 1 \in DOMAIN inbox[e]
  BY <1>1, TailFacts
<1> QED
  BY <1>2 DEF EngineInv, RequestsInv, IsRequest

LEMMA FrameAnswersKeeps ==
    ASSUME EngineAssumption, NoWrap, EngineInv, TypeOK', FrameAnswers
    PROVE  EngineInv'
<1>1. "frame" \in Ends /\ Takes("frame") /\ IsRequest(Head(inbox["frame"]))
  BY DEF FrameAnswers, Ends
<1>2. PICK r : r = Head(inbox["frame"])
  OBVIOUS
<1>3. /\ Live(r.token) /\ r.id = IdOf(r.token)
      /\ r.token \in DOMAIN received /\ r.token.end = Peer("frame")
      /\ r.kind = "request" /\ r.response = NoToken
  BY <1>1, <1>2, HeadRequest
<1>4. /\ Response("frame", r) /\ conn' = conn /\ waitResponses' = waitResponses
      /\ evals' = evals /\ listening' = listening /\ session' = session
      /\ received' = received
  BY <1>2 DEF FrameAnswers
<1>5. WireInv' /\ drawn' = drawn /\ counter' = counter
  BY <1>1, <1>3, <1>4, ResponseKeeps
<1>6. listening' = (listening \/ ("frame" = "frame" /\ Head(inbox["frame"]).kind = "end"
                                                   /\ conn["frame"] # "open"))
  BY <1>2, <1>3, <1>4 DEF EngineInv, TypeOK
<1>7. /\ Counters' /\ WaitingInv' /\ RequestsInv' /\ CallbacksInv'
      /\ SessionsInv' /\ ReceivedInv'
      /\ \A t : Live(t) => Live(t)'
  BY <1>1, <1>2, <1>3, <1>4, <1>5, <1>6, TakenKeeps
<1> QED
  BY <1>4, <1>5, <1>7, KeptParts DEF EngineInv

LEMMA ContextEvaluatesKeeps ==
    ASSUME EngineAssumption, EngineInv, TypeOK', ContextEvaluates
    PROVE  EngineInv'
<1>1. "ctx" \in Ends /\ Takes("ctx") /\ IsRequest(Head(inbox["ctx"]))
  BY DEF ContextEvaluates, Ends
<1>2. PICK r : r = Head(inbox["ctx"])
  OBVIOUS
<1>3. /\ Live(r.token) /\ r.id = IdOf(r.token)
      /\ r.token \in DOMAIN received /\ r.token.end = "frame"
      /\ r.kind = "request" /\ r.response = NoToken
  BY <1>1, <1>2, HeadRequest DEF Peer
<1>4. PICK m : m = Command("request", r.id, r.token)
  OBVIOUS
<1>5. /\ conn' = conn /\ waitResponses' = waitResponses /\ counter' = counter
      /\ wire' = wire /\ listening' = listening /\ session' = session
      /\ received' = received /\ drawn' = drawn /\ evals' = Append(evals, m)
  BY <1>2, <1>4 DEF ContextEvaluates
<1>6. listening' = (listening \/ ("ctx" = "frame" /\ Head(inbox["ctx"]).kind = "end"
                                                 /\ conn["ctx"] # "open"))
  BY <1>5 DEF EngineInv, TypeOK
<1>7. /\ Counters' /\ WaitingInv' /\ RequestsInv' /\ CallbacksInv'
      /\ SessionsInv' /\ ReceivedInv'
      /\ \A t : Live(t) => Live(t)'
  BY <1>1, <1>2, <1>3, <1>5, <1>6, TakenKeeps
<1>8. m.id = r.id /\ m.token = r.token /\ m.kind = "request" /\ m \in Message
  <2>1. inbox["ctx"] \in Seq(Received) /\ inbox["ctx"] # <<>>
    BY <1>1 DEF Takes, EngineInv, TypeOK
  <2>2. r \in Received
    BY <1>2, <2>1, TailFacts
  <2> QED
    BY <1>4, <2>2 DEF Command, Message, Received
<1>9. \A k \in DOMAIN evals' : \/ k \in DOMAIN evals /\ evals'[k] = evals[k]
                              \/ evals'[k] = m
  <2>1. evals \in Seq(Message)
    BY DEF EngineInv, TypeOK
  <2> QED
    BY <1>5, <1>8, <2>1, AppendFacts
<1>10. EvalsInv'
  <2> SUFFICES ASSUME NEW k \in DOMAIN evals', NEW w, w = evals'[k]
               PROVE  /\ Live(w.token)' /\ w.id = IdOf(w.token)
                      /\ w.token \in DOMAIN received' /\ w.token.end = "frame"
                      /\ w.kind = "request"
    BY DEF EvalsInv
  <2>1. CASE k \in DOMAIN evals /\ w = evals[k]
    BY <1>5, <1>7, <2>1 DEF EngineInv, EvalsInv
  <2>2. CASE w = m
    BY <1>3, <1>5, <1>7, <1>8, <2>2
  <2> QED
    BY <1>9, <2>1, <2>2
<1> QED
  BY <1>5, <1>7, <1>10, KeptParts DEF EngineInv

LEMMA ContextAnswersKeeps ==
    ASSUME EngineAssumption, NoWrap, EngineInv, TypeOK', ContextAnswers
    PROVE  EngineInv'
<1>1. evals \in Seq(Message) /\ evals # <<>> /\ "ctx" \in Ends
  BY DEF ContextAnswers, EngineInv, TypeOK, Ends
<1>2. /\ Len(evals) \in DOMAIN evals
      /\ \A k \in DOMAIN evals' : k \in DOMAIN evals /\ evals'[k] = evals[k]
  BY <1>1, FrontFacts DEF ContextAnswers
<1>3. PICK r : r = evals[Len(evals)]
  OBVIOUS
<1>4. /\ Live(r.token) /\ r.id = IdOf(r.token)
      /\ r.token \in DOMAIN received /\ r.token.end = Peer("ctx")
  BY <1>2, <1>3 DEF EngineInv, EvalsInv, Peer
<1>5. /\ Response("ctx", r) /\ conn' = conn /\ waitResponses' = waitResponses
      /\ inbox' = inbox /\ listening' = listening /\ session' = session
      /\ received' = received
  BY <1>3 DEF ContextAnswers
<1>6. WireInv' /\ drawn' = drawn /\ counter' = counter
  BY <1>1, <1>4, <1>5, ResponseKeeps
<1>7. \A t : Live(t) => Live(t)'
  BY <1>5, <1>6 DEF Live
<1>8. EvalsInv'
  <2> SUFFICES ASSUME NEW k \in DOMAIN evals', NEW w, w = evals'[k]
               PROVE  /\ Live(w.token)' /\ w.id = IdOf(w.token)
                      /\ w.token \in DOMAIN received' /\ w.token.end = "frame"
                      /\ w.kind = "request"
    BY DEF EvalsInv
  <2> QED
    BY <1>2, <1>5, <1>7 DEF EngineInv, EvalsInv
<1>9. WaitingInv' /\ CallbacksInv'
  BY <1>5, <1>7 DEF EngineInv, WaitingInv, CallbacksInv, Pending
<1>10. Counters' /\ ReceivedInv'
  BY <1>5, <1>6 DEF EngineInv, Counters, ReceivedInv
<1> QED
  BY <1>5, <1>6, <1>7, <1>8, <1>9, <1>10, KeptParts DEF EngineInv

(* A new context starts with nothing; what the frame still waits for from   *)
(* the old one keeps its id, and the frame draws no id twice.               *)
LEMMA NewSessionKeeps ==
    ASSUME EngineAssumption, EngineInv, TypeOK', NewSession
    PROVE  EngineInv'
<1> USE DEF Ends
<1>1. /\ listening /\ ~listening' /\ session' = session + 1 /\ session \in Int
      /\ received' = received /\ evals' = <<>>
      /\ \A e \in Ends : wire'[e] = <<>>
      /\ inbox'["ctx"] = <<>> /\ inbox'["frame"] = inbox["frame"]
      /\ DOMAIN waitResponses'["ctx"] = {}
      /\ waitResponses'["frame"] = waitResponses["frame"]
      /\ drawn'["ctx"] = 0 /\ drawn'["frame"] = drawn["frame"]
      /\ counter'["ctx"] = FirstId("ctx") /\ counter'["frame"] = counter["frame"]
  BY DEF NewSession, EngineInv, TypeOK, EngineAssumption, Nothing
<1>2. \A t : Live(t) /\ t.end = "frame" => Live(t)'
  BY <1>1 DEF Live
<1>3. \A k \in DOMAIN inbox["frame"] : inbox["frame"][k].kind \notin {"end", "request"}
  BY <1>1 DEF EngineInv, SessionsInv
<1>4. Counters'
  BY <1>1 DEF EngineInv, Counters, FirstId
<1>5. \A t : Pending(t) => Pending(t)'
  BY <1>1 DEF Pending
<1>6. WaitingInv'
  BY <1>1, <1>2, <1>5 DEF EngineInv, WaitingInv
<1>7. RequestsInv'
  BY <1>1, <1>3 DEF RequestsInv
<1>8. CallbacksInv'
  BY <1>1, <1>5 DEF EngineInv, CallbacksInv
<1>9. WireInv' /\ EvalsInv'
  BY <1>1 DEF WireInv, EvalsInv
<1>10. SessionsInv'
  BY <1>1, <1>3 DEF SessionsInv
<1>11. ReceivedInv'
  <2>1. \A t \in DOMAIN received : t.session \in Int /\ t.session <= session
    <3>1. DOMAIN received \subseteq Token
      BY DEF EngineInv, TypeOK
    <3> QED
      BY <3>1 DEF EngineInv, ReceivedInv, Token, EngineAssumption
  <2>2. \A t \in DOMAIN received : t.session <= session + 1 /\ t.session # session + 1
    BY <1>1, <2>1
  <2> QED
    BY <1>1, <2>2 DEF EngineInv, ReceivedInv
<1> QED
  BY <1>4, <1>6, <1>7, <1>8, <1>9, <1>10, <1>11 DEF EngineInv
-----------------------------------------------------------------------------
(* Theorems *)

LEMMA EngineStep ==
    EngineAssumption /\ NoWrap /\ EngineInv /\ [Next]_vars => EngineInv'
<1> SUFFICES ASSUME EngineAssumption, NoWrap, EngineInv, [Next]_vars
             PROVE  EngineInv'
  OBVIOUS
<1>1. TypeOK'
  BY TypeStep DEF EngineInv
<1>2. CASE UNCHANGED vars
  BY <1>1, <1>2 DEF vars, EngineInv, Counters, WaitingInv, WireInv, EvalsInv,
     RequestsInv, CallbacksInv, SessionsInv, ReceivedInv, Live, Pending
<1>3. ASSUME NEW e \in Ends, Engine(e) PROVE EngineInv'
  BY <1>1, <1>3, SendPlainKeeps, SendRequestKeeps, OutputLogKeeps, ReceiveKeeps,
     ConnectionKeeps DEF Engine
<1>4. ASSUME NEW e \in Ends, Program(e) PROVE EngineInv'
  BY <1>1, <1>4, CallResponseKeeps, ProcessKeeps DEF Program
<1> QED
  BY <1>1, <1>2, <1>3, <1>4, FrameAnswersKeeps, ContextEvaluatesKeeps,
     ContextAnswersKeeps, NewSessionKeeps DEF Next

(* A callback is only ever called with the answer to its own request, for   *)
(* any number of sessions and commands, as long as no engine draws so many  *)
(* ids that they start over.                                                *)
THEOREM CallbacksAreTheirOwn == NoWrap => (Spec => []CallbacksGetTheirAnswer)
<1> SUFFICES ASSUME NoWrap PROVE Spec => []CallbacksGetTheirAnswer
  OBVIOUS
<1>1. Init => EngineInv
  BY InitKeepsAll, EngineAssumption
<1>2. EngineInv /\ [Next]_vars => EngineInv'
  BY EngineStep, EngineAssumption
<1>3. EngineInv => CallbacksGetTheirAnswer
  BY DEF EngineInv, CallbacksInv, CallbacksGetTheirAnswer
<1> QED
  BY <1>1, <1>2, <1>3, PTL DEF Spec

(* What a step does to the callbacks' calls: nothing, a new request, or the *)
(* one call of one callback.                                                *)
LEMMA ReceivedStep ==
    ASSUME EngineAssumption, NoWrap, EngineInv, [Next]_vars
    PROVE  [Requests!RRNext]_received
<1>1. ASSUME NEW e \in Ends, SendRequest(e) PROVE Requests!RRNext
  <2>1. Draw(e, 1) /\ 1 \in {0, 1, 2} /\ 0 \in {0, 1} /\ session' = session /\ 0 < 1
    BY <1>1 DEF SendRequest
  <2>2. PICK d : d = Drawn(e, 0)
    OBVIOUS
  <2>3. d \notin DOMAIN received /\ d \in Token
    BY <2>1, <2>2, DrawFacts, DrawTyped DEF EngineInv
  <2>4. Requests!Ask(d)
    BY <1>1, <2>2, <2>3 DEF SendRequest, Requests!Ask
  <2> QED
    BY <2>3, <2>4 DEF Requests!RRNext
<1>2. ASSUME NEW e \in Ends, CallResponse(e) PROVE Requests!RRNext
  <2>1. inbox[e] \in Seq(Received) /\ inbox[e] # <<>>
    BY <1>2 DEF CallResponse, Takes, EngineInv, TypeOK
  <2>2. Head(inbox[e]) = inbox[e][1] /\ 1 \in DOMAIN inbox[e]
    BY <2>1, TailFacts
  <2>3. PICK t : t = Head(inbox[e]).response
    OBVIOUS
  <2>4. t # NoToken /\ Head(inbox[e]).token = t /\ Pending(t)
    BY <1>2, <2>2, <2>3 DEF CallResponse, EngineInv, CallbacksInv
  <2>5. t \in Token /\ t \in DOMAIN received /\ received[t] = <<>>
    BY <2>4 DEF Pending, EngineInv, TypeOK
  <2>6. received' = [received EXCEPT ![t] = Append(@, t)]
    BY <1>2, <2>3, <2>4 DEF CallResponse
  <2>7. received' = [received EXCEPT ![t] = <<t>>]
    BY <2>5, <2>6
  <2>8. Requests!Reply(t)
    BY <2>5, <2>7 DEF Requests!Reply
  <2> QED
    BY <2>5, <2>8 DEF Requests!RRNext
<1> QED
  BY <1>1, <1>2 DEF Next, Engine, Program, vars, SendPlain, OutputLog, Receive,
     OnConnectionConnected, OnConnectionClosed, Process, FrameAnswers,
     ContextEvaluates, ContextAnswers, NewSession

(* The engine gives every request at most one answer, its own.              *)
THEOREM EngineImplementsRequestReply == NoWrap => (Spec => ImplementsRequestReply)
<1> SUFFICES ASSUME NoWrap PROVE Spec => ImplementsRequestReply
  OBVIOUS
<1>1. Init => EngineInv
  BY InitKeepsAll, EngineAssumption
<1>2. EngineInv /\ [Next]_vars => EngineInv'
  BY EngineStep, EngineAssumption
<1>3. EngineInv /\ [Next]_vars => [Requests!RRNext]_received
  BY ReceivedStep, EngineAssumption
<1>4. Init => Requests!RRInit
  BY DEF Init, Nothing, Requests!RRInit
<1> QED
  BY <1>1, <1>2, <1>3, <1>4, PTL DEF Spec, ImplementsRequestReply, Requests!RRSpec

-----------------------------------------------------------------------------
(* Where requests and answers are                                           *)

OfToken(kind, t) == {m \in Message \cup Received : m.kind = kind /\ m.token = t}
Asks(s, t) == HowMany(s, OfToken("request", t))
Replies(s, t) == HowMany(s, OfToken("answer", t))

Asking(m, t) == IF m.kind = "request" /\ m.token = t THEN 1 ELSE 0
Replying(m, t) == IF m.kind = "answer" /\ m.token = t THEN 1 ELSE 0

LEMMA OneOf ==
    ASSUME NEW m \in Message \cup Received, NEW t
    PROVE  /\ OneIf(m, OfToken("request", t)) = Asking(m, t)
           /\ OneIf(m, OfToken("answer", t)) = Replying(m, t)
           /\ Asking(m, t) \in {0, 1} /\ Replying(m, t) \in {0, 1}
BY DEF OneIf, OfToken, Asking, Replying

LEMMA CarriesCounts ==
    ASSUME NEW S \in SUBSET (Message \cup Received), NEW s \in Seq(S), NEW t
    PROVE  /\ Cardinality(Carries(s, {"request"}, t)) = Asks(s, t)
           /\ Cardinality(Carries(s, {"answer"}, t)) = Replies(s, t)
           /\ Asks(s, t) \in Nat /\ Replies(s, t) \in Nat
           /\ \A i \in DOMAIN s : s[i].kind = "answer" => Replies(s, s[i].token) # 0
           /\ (\A i \in DOMAIN s : s[i].token # t \/ s[i].kind # "request")
                 => Asks(s, t) = 0
           /\ (\A i \in DOMAIN s : s[i].token # t \/ s[i].kind # "answer")
                 => Replies(s, t) = 0
<1>1. \A i \in DOMAIN s : s[i] \in Message \cup Received
  BY LenProperties, ElementOfSeq
<1>2. /\ Carries(s, {"request"}, t) = Where(s, OfToken("request", t))
      /\ Carries(s, {"answer"}, t) = Where(s, OfToken("answer", t))
  BY <1>1 DEF Carries, Where, OfToken
<1>3. \A i \in DOMAIN s : s[i].kind = "answer" => s[i] \in OfToken("answer", s[i].token)
  BY <1>1 DEF OfToken
<1>4. /\ Asks(s, t) \in Nat /\ Replies(s, t) \in Nat
      /\ Asks(s, t) = 0 <=> \A i \in DOMAIN s : s[i] \notin OfToken("request", t)
      /\ Replies(s, t) = 0 <=> \A i \in DOMAIN s : s[i] \notin OfToken("answer", t)
  BY HowManyNat DEF Asks, Replies
<1>5. \A u : Replies(s, u) = 0 <=> \A i \in DOMAIN s : s[i] \notin OfToken("answer", u)
  BY HowManyNat DEF Replies
<1>6. \A i \in DOMAIN s : s[i].kind = "answer" => Replies(s, s[i].token) # 0
  BY <1>3, <1>5
<1>7. \A i \in DOMAIN s :
          /\ s[i].token # t \/ s[i].kind # "request" => s[i] \notin OfToken("request", t)
          /\ s[i].token # t \/ s[i].kind # "answer" => s[i] \notin OfToken("answer", t)
  BY DEF OfToken
<1>8. /\ Cardinality(Carries(s, {"request"}, t)) = Asks(s, t)
      /\ Cardinality(Carries(s, {"answer"}, t)) = Replies(s, t)
  BY <1>2 DEF Asks, Replies, HowMany
<1> QED
  BY <1>4, <1>6, <1>7, <1>8

LEMMA QueueCounts ==
    ASSUME NEW S \in SUBSET (Message \cup Received), NEW s \in Seq(S), NEW t
    PROVE  /\ \A m \in S : /\ Asks(Append(s, m), t) = Asks(s, t) + Asking(m, t)
                           /\ Replies(Append(s, m), t) = Replies(s, t) + Replying(m, t)
           /\ s # <<>> =>
                 /\ Asks(s, t) = Asks(Tail(s), t) + Asking(Head(s), t)
                 /\ Replies(s, t) = Replies(Tail(s), t) + Replying(Head(s), t)
                 /\ Asks(s, t) = Asks(SubSeq(s, 1, Len(s) - 1), t)
                                    + Asking(s[Len(s)], t)
<1> DEFINE A == OfToken("request", t)
           B == OfToken("answer", t)
<1>1. ASSUME NEW m \in S
      PROVE  /\ Asks(Append(s, m), t) = Asks(s, t) + Asking(m, t)
             /\ Replies(Append(s, m), t) = Replies(s, t) + Replying(m, t)
  <2>1. /\ HowMany(Append(s, m), A) = HowMany(s, A) + OneIf(m, A)
        /\ HowMany(Append(s, m), B) = HowMany(s, B) + OneIf(m, B)
    BY AppendCounts
  <2>2. OneIf(m, A) = Asking(m, t) /\ OneIf(m, B) = Replying(m, t)
    BY OneOf
  <2> QED
    BY <2>1, <2>2 DEF Asks, Replies
<1>2. ASSUME s # <<>>
      PROVE  /\ Asks(s, t) = Asks(Tail(s), t) + Asking(Head(s), t)
             /\ Replies(s, t) = Replies(Tail(s), t) + Replying(Head(s), t)
  <2>1. /\ HowMany(s, A) = HowMany(Tail(s), A) + OneIf(Head(s), A)
        /\ HowMany(s, B) = HowMany(Tail(s), B) + OneIf(Head(s), B)
    BY <1>2, TailCounts
  <2>2. Head(s) \in S
    BY <1>2, TailFacts
  <2>3. OneIf(Head(s), A) = Asking(Head(s), t) /\ OneIf(Head(s), B) = Replying(Head(s), t)
    BY <2>2, OneOf
  <2> QED
    BY <2>1, <2>3 DEF Asks, Replies
<1>3. ASSUME s # <<>>
      PROVE  Asks(s, t) = Asks(SubSeq(s, 1, Len(s) - 1), t) + Asking(s[Len(s)], t)
  <2>1. HowMany(s, A) = HowMany(SubSeq(s, 1, Len(s) - 1), A) + OneIf(s[Len(s)], A)
    BY <1>3, FrontCounts
  <2>2. s[Len(s)] \in S
    BY <1>3, FrontFacts
  <2>3. OneIf(s[Len(s)], A) = Asking(s[Len(s)], t)
    BY <2>2, OneOf
  <2> QED
    BY <2>1, <2>3 DEF Asks
<1> QED
  BY <1>1, <1>2, <1>3

(* Nobody is asked before the connection is confirmed. *)
ConfirmingInv ==
    \A e \in Ends : conn[e] = "confirming" =>
        /\ \A k \in DOMAIN inbox[e] : inbox[e][k].kind # "request"
        /\ e = "ctx" => evals = <<>>

(* Requests of the frame, and of the context of this session, that are on   *)
(* their way, being answered, or answered and on their way back.            *)
Held(t) ==
    Asks(wire[Peer(t.end)], t) + Asks(inbox[Peer(t.end)], t)
    + (IF t.end = "frame" THEN Asks(evals, t) ELSE 0) + Replies(wire[t.end], t)

WaitingFor(t) ==
    IF \E i \in DOMAIN waitResponses[t.end] : waitResponses[t.end][i] = t
    THEN 1 ELSE 0

Linked == \A e \in Ends : conn[e] # "closed"
Current(t) == t \in DOMAIN received /\ (t.end = "frame" \/ t.session = session)

(* A callback waits for what is nowhere else only if something was lost.    *)
Balance(t) ==
    /\ Held(t) <= WaitingFor(t)
    /\ Linked /\ t.session = session => Held(t) = WaitingFor(t)
BalanceInv == \A t : Current(t) => Balance(t)

(* No answer in an inbox is without its callback. *)
PlacesInv == ConfirmingInv /\ BalanceInv /\ AnswersFindTheirCallback

LEMMA HeldFacts ==
    ASSUME TypeOK, NEW t, t.end \in Ends
    PROVE  /\ Asks(wire[Peer(t.end)], t) \in Nat
           /\ Asks(inbox[Peer(t.end)], t) \in Nat
           /\ Asks(evals, t) \in Nat
           /\ Replies(wire[t.end], t) \in Nat
           /\ Held(t) \in Nat /\ WaitingFor(t) \in {0, 1}
           /\ Places(t.end, t) = Held(t)
<1>1. /\ Message \in SUBSET (Message \cup Received)
      /\ Received \in SUBSET (Message \cup Received)
  OBVIOUS
<1>2. Peer(t.end) \in Ends
  BY DEF Peer, Ends
<1>3. /\ wire[Peer(t.end)] \in Seq(Message) /\ wire[t.end] \in Seq(Message)
      /\ inbox[Peer(t.end)] \in Seq(Received) /\ evals \in Seq(Message)
  BY <1>2 DEF TypeOK
<1>4. /\ Asks(wire[Peer(t.end)], t) \in Nat
      /\ Cardinality(Carries(wire[Peer(t.end)], {"request"}, t)) = Asks(wire[Peer(t.end)], t)
  BY <1>1, <1>3, CarriesCounts
<1>5. /\ Asks(inbox[Peer(t.end)], t) \in Nat
      /\ Cardinality(Carries(inbox[Peer(t.end)], {"request"}, t)) = Asks(inbox[Peer(t.end)], t)
  BY <1>1, <1>3, CarriesCounts
<1>6. /\ Asks(evals, t) \in Nat
      /\ Cardinality(Carries(evals, {"request"}, t)) = Asks(evals, t)
  BY <1>1, <1>3, CarriesCounts
<1>7. /\ Replies(wire[t.end], t) \in Nat
      /\ Cardinality(Carries(wire[t.end], {"answer"}, t)) = Replies(wire[t.end], t)
  BY <1>1, <1>3, CarriesCounts
<1>8. Held(t) \in Nat
  BY <1>4, <1>5, <1>6, <1>7 DEF Held
<1>9. Places(t.end, t) = Held(t)
  BY <1>4, <1>5, <1>6, <1>7 DEF Held, Places
<1> QED
  BY <1>4, <1>5, <1>6, <1>7, <1>8, <1>9 DEF WaitingFor

(* What is written, given and taken, in numbers. *)
LEMMA WrittenCounts ==
    ASSUME TypeOK, NEW e \in Ends, NEW m \in Message, wire' = Written(e, m), NEW t,
           NEW f \in Ends
    PROVE  LET arrives == f = Peer(e) /\ conn[f] # "closed"
           IN  /\ Asks(wire'[f], t)
                    = Asks(wire[f], t) + (IF arrives THEN Asking(m, t) ELSE 0)
               /\ Replies(wire'[f], t)
                    = Replies(wire[f], t) + (IF arrives THEN Replying(m, t) ELSE 0)
<1>1. /\ wire[f] \in Seq(Message) /\ wire \in [Ends -> Seq(Message)]
      /\ Peer(e) \in Ends /\ conn[Peer(e)] \in {"confirming", "open", "closed"}
      /\ Message \in SUBSET (Message \cup Received)
  BY DEF TypeOK, Peer, Ends
<1>2. /\ Asks(wire[f], t) \in Nat /\ Replies(wire[f], t) \in Nat
      /\ Asks(Append(wire[f], m), t) = Asks(wire[f], t) + Asking(m, t)
      /\ Replies(Append(wire[f], m), t) = Replies(wire[f], t) + Replying(m, t)
  BY <1>1, CarriesCounts, QueueCounts
<1>3. CASE f = Peer(e) /\ conn[f] # "closed"
  <2>1. wire'[f] = Append(wire[f], m)
    BY <1>1, <1>3 DEF Written
  <2> QED
    BY <1>2, <1>3, <2>1
<1>4. CASE ~(f = Peer(e) /\ conn[f] # "closed")
  <2>1. wire'[f] = wire[f]
    BY <1>1, <1>4 DEF Written
  <2> QED
    BY <1>2, <1>4, <2>1
<1> QED
  BY <1>3, <1>4

LEMMA DeliveredCounts ==
    ASSUME TypeOK, NEW e \in Ends, NEW kind, NEW id, NEW token, NEW t, NEW f \in Ends,
           OnRemoteCommand(e, kind, id, token), TypeOK'
    PROVE  Asks(inbox'[f], t)
              = Asks(inbox[f], t)
                + (IF f = e /\ kind = "request" /\ token = t THEN 1 ELSE 0)
<1> DEFINE m == [kind |-> kind, id |-> id, token |-> token,
                 response |-> Callback(e, id)]
<1>1. /\ inbox[f] \in Seq(Received) /\ inbox'[f] \in Seq(Received)
      /\ inbox \in [Ends -> Seq(Received)]
      /\ inbox' = [inbox EXCEPT ![e] = Append(@, m)]
      /\ Received \in SUBSET (Message \cup Received)
  BY DEF TypeOK, OnRemoteCommand
<1>2. Asks(inbox[f], t) \in Nat
  BY <1>1, CarriesCounts
<1>3. CASE f = e
  <2>1. inbox'[f] = Append(inbox[f], m)
    BY <1>1, <1>3
  <2>2. m \in Received
    <3>1. Len(inbox[f]) + 1 \in DOMAIN Append(inbox[f], m)
      BY <1>1
    <3>2. Append(inbox[f], m)[Len(inbox[f]) + 1] = m
      BY <1>1
    <3> QED
      BY <1>1, <2>1, <3>1, <3>2, ElementOfSeq, LenProperties
  <2>3. Asks(Append(inbox[f], m), t) = Asks(inbox[f], t) + Asking(m, t)
    BY <1>1, <2>2, QueueCounts
  <2>4. Asking(m, t) = IF kind = "request" /\ token = t THEN 1 ELSE 0
    BY DEF Asking
  <2> QED
    BY <1>2, <1>3, <2>1, <2>3, <2>4
<1>4. CASE f # e
  <2>1. inbox'[f] = inbox[f]
    BY <1>1, <1>4
  <2> QED
    BY <1>2, <1>4, <2>1
<1> QED
  BY <1>3, <1>4

LEMMA TakenCounts ==
    ASSUME TypeOK, NEW e \in Ends, Takes(e), NEW t, NEW f \in Ends
    PROVE  /\ Asks(inbox'[f], t) \in Nat
           /\ Asks(inbox[f], t) = Asks(inbox'[f], t)
                  + (IF f = e THEN Asking(Head(inbox[e]), t) ELSE 0)
<1>1. /\ inbox[f] \in Seq(Received) /\ inbox \in [Ends -> Seq(Received)]
      /\ inbox[e] \in Seq(Received) /\ inbox[e] # <<>>
      /\ inbox' = [inbox EXCEPT ![e] = Tail(@)]
      /\ Received \in SUBSET (Message \cup Received)
  BY DEF TypeOK, Takes
<1>2. Asks(inbox[f], t) \in Nat
  BY <1>1, CarriesCounts
<1>3. CASE f = e
  <2>1. inbox'[f] = Tail(inbox[e]) /\ Tail(inbox[e]) \in Seq(Received)
    BY <1>1, <1>3, TailFacts
  <2>2. Asks(inbox[e], t) = Asks(Tail(inbox[e]), t) + Asking(Head(inbox[e]), t)
    BY <1>1, QueueCounts
  <2>3. Asks(Tail(inbox[e]), t) \in Nat
    BY <1>1, <2>1, CarriesCounts
  <2> QED
    BY <1>3, <2>1, <2>2, <2>3
<1>4. CASE f # e
  <2>1. inbox'[f] = inbox[f]
    BY <1>1, <1>4
  <2> QED
    BY <1>2, <1>4, <2>1
<1> QED
  BY <1>3, <1>4

LEMMA PeerFacts ==
    ASSUME NEW e \in Ends
    PROVE  Peer(e) \in Ends /\ Peer(e) # e /\ Peer(Peer(e)) = e
BY DEF Peer, Ends

LEMMA CurrentFacts ==
    ASSUME TypeOK, NEW t, Current(t)
    PROVE  t \in Token /\ t.end \in Ends /\ Peer(t.end) \in Ends /\ t # NoToken
<1>1. t \in Token
  BY DEF TypeOK, Current
<1> QED
  BY <1>1 DEF Token, Peer, Ends, NoToken

LEMMA HeldIsNat == TypeOK => \A t : t.end \in Ends => Held(t) \in Nat
BY HeldFacts

LEMMA HeldStaysNat == TypeOK' => \A t : t.end \in Ends => Held(t)' \in Nat
<1>1. (TypeOK => \A t : t.end \in Ends => Held(t) \in Nat)'
  BY HeldIsNat, PTL
<1> QED
  BY <1>1

(* Neither commands nor callbacks are made, and none is lost while both     *)
(* ends are connected.                                                      *)
LEMMA BalanceKeeps ==
    ASSUME TypeOK, TypeOK', BalanceInv, session' = session,
           DOMAIN received' = DOMAIN received, Linked' => Linked,
           \A t : Current(t) =>
               /\ WaitingFor(t)' = WaitingFor(t)
               /\ Held(t)' <= Held(t) /\ (Linked' => Held(t)' = Held(t))
    PROVE  BalanceInv'
<1> SUFFICES ASSUME NEW t, Current(t)' PROVE Balance(t)'
  BY DEF BalanceInv
<1>1. Current(t) /\ Balance(t)
  BY DEF Current, BalanceInv
<1>2. /\ Held(t) \in Nat /\ WaitingFor(t) \in {0, 1}
  BY <1>1, CurrentFacts, HeldFacts
<1>3. Held(t)' \in Nat
  BY <1>1, CurrentFacts, HeldStaysNat
<1>4. /\ WaitingFor(t)' = WaitingFor(t)
      /\ Held(t)' <= Held(t) /\ (Linked' => Held(t)' = Held(t))
  BY <1>1
<1>5. /\ Held(t) <= WaitingFor(t)
      /\ Linked /\ t.session = session => Held(t) = WaitingFor(t)
  BY <1>1 DEF Balance
<1>6. Held(t)' <= WaitingFor(t)'
  BY ONLY <1>2, <1>3, <1>4, <1>5
<1> QED
  BY <1>4, <1>5, <1>6 DEF Balance

(* What is put in an inbox and what is taken from it.                       *)
LEMMA DeliverKeepsBoxes ==
    ASSUME TypeOK, ConfirmingInv, AnswersFindTheirCallback,
           NEW e \in Ends, NEW kind, NEW id, NEW token,
           OnRemoteCommand(e, kind, id, token), evals' = evals,
           \A f \in Ends : conn'[f] = "confirming" => conn[f] = "confirming",
           kind = "request" => conn'[e] # "confirming",
           kind = "answer" => Callback(e, id) # NoToken
    PROVE  ConfirmingInv' /\ AnswersFindTheirCallback'
<1>1. PICK m : m = [kind |-> kind, id |-> id, token |-> token,
                    response |-> Callback(e, id)]
  OBVIOUS
<1>2. /\ inbox \in [Ends -> Seq(Received)]
      /\ inbox' = [inbox EXCEPT ![e] = Append(@, m)]
      /\ m.kind = kind /\ m.response = Callback(e, id)
  BY <1>1 DEF TypeOK, OnRemoteCommand
<1>3. \A f \in Ends : \A k \in DOMAIN inbox'[f] :
          \/ k \in DOMAIN inbox[f] /\ inbox'[f][k] = inbox[f][k]
          \/ f = e /\ inbox'[f][k] = m
  BY <1>2
<1>4. ConfirmingInv'
  BY <1>2, <1>3 DEF ConfirmingInv
<1>5. AnswersFindTheirCallback'
  BY <1>2, <1>3 DEF AnswersFindTheirCallback
<1> QED
  BY <1>4, <1>5

LEMMA TakeKeepsBoxes ==
    ASSUME TypeOK, ConfirmingInv, AnswersFindTheirCallback,
           NEW e \in Ends, Takes(e), conn' = conn,
           conn["ctx"] = "confirming" => evals' = <<>>
    PROVE  ConfirmingInv' /\ AnswersFindTheirCallback'
<1>1. /\ inbox[e] \in Seq(Received) /\ inbox[e] # <<>>
      /\ inbox \in [Ends -> Seq(Received)]
      /\ inbox' = [inbox EXCEPT ![e] = Tail(@)]
  BY DEF Takes, TypeOK
<1>2. \A k \in DOMAIN Tail(inbox[e]) :
          k + 1 \in DOMAIN inbox[e] /\ Tail(inbox[e])[k] = inbox[e][k + 1]
  BY <1>1, TailFacts
<1>3. \A f \in Ends : \A k \in DOMAIN inbox'[f] :
          \E l \in DOMAIN inbox[f] : inbox'[f][k] = inbox[f][l]
  BY <1>1, <1>2
<1>4. ConfirmingInv'
  BY <1>3 DEF ConfirmingInv
<1>5. AnswersFindTheirCallback'
  BY <1>3 DEF AnswersFindTheirCallback
<1> QED
  BY <1>4, <1>5

LEMMA SendPlainPlaces ==
    ASSUME EngineAssumption, NoWrap, EngineInv, TypeOK', PlacesInv,
           NEW e \in Ends, SendPlain(e)
    PROVE  PlacesInv'
<1>1. PICK m : m = Command("plain", counter[e], Drawn(e, 0))
  OBVIOUS
<1>2. /\ inbox' = inbox /\ evals' = evals /\ conn' = conn /\ session' = session
      /\ received' = received /\ waitResponses' = waitResponses
      /\ wire' = Written(e, m) /\ Draw(e, 1) /\ TypeOK
  BY <1>1 DEF SendPlain, EngineInv
<1>3. m \in Message /\ m.kind = "plain"
  <2>1. Drawn(e, 0) \in Token /\ counter[e] \in 0 .. IdModulus - 1
    BY SMTT(40), <1>2, DrawTyped DEF TypeOK
  <2> QED
    BY <1>1, <2>1 DEF Command, Message
<1>4. ASSUME NEW t, Current(t) PROVE Held(t)' = Held(t) /\ WaitingFor(t)' = WaitingFor(t)
  <2>1. t.end \in Ends /\ Peer(t.end) \in Ends
    BY <1>2, <1>4, CurrentFacts
  <2>2. Asking(m, t) = 0 /\ Replying(m, t) = 0
    BY <1>3 DEF Asking, Replying
  <2>3. /\ Asks(wire[Peer(t.end)], t) \in Nat /\ Replies(wire[t.end], t) \in Nat
    BY <1>2, <2>1, HeldFacts
  <2>4. /\ Asks(wire'[Peer(t.end)], t) = Asks(wire[Peer(t.end)], t)
        /\ Replies(wire'[t.end], t) = Replies(wire[t.end], t)
    BY <1>2, <1>3, <2>1, <2>2, <2>3, WrittenCounts
  <2> QED
    BY <1>2, <2>4 DEF Held, WaitingFor
<1>5. \A t : Current(t) => Held(t) \in Nat
  BY <1>2, CurrentFacts, HeldFacts
<1>6. BalanceInv'
  <2>1. \A t : Current(t) => /\ WaitingFor(t)' = WaitingFor(t)
                             /\ Held(t)' <= Held(t) /\ (Linked' => Held(t)' = Held(t))
    BY <1>4, <1>5
  <2>2. DOMAIN received' = DOMAIN received /\ (Linked' => Linked) /\ BalanceInv
    BY <1>2 DEF Linked, PlacesInv
  <2> QED
    BY <1>2, <2>1, <2>2, BalanceKeeps
<1> QED
  BY <1>2, <1>6 DEF PlacesInv, ConfirmingInv, AnswersFindTheirCallback

(* Nobody carries a command that was not asked yet. *)
LEMMA NothingHeld ==
    ASSUME EngineInv, NEW t, t \notin DOMAIN received, t.end \in Ends
    PROVE  Held(t) = 0
<1>1. Peer(t.end) \in Ends
  BY PeerFacts
<1>2. /\ wire[Peer(t.end)] \in Seq(Message) /\ wire[t.end] \in Seq(Message)
      /\ inbox[Peer(t.end)] \in Seq(Received) /\ evals \in Seq(Message)
      /\ Message \in SUBSET (Message \cup Received)
      /\ Received \in SUBSET (Message \cup Received)
  BY <1>1 DEF EngineInv, TypeOK
<1>3. Asks(wire[Peer(t.end)], t) = 0
  <2>1. \A i \in DOMAIN wire[Peer(t.end)] :
            wire[Peer(t.end)][i].token # t \/ wire[Peer(t.end)][i].kind # "request"
    BY <1>1 DEF EngineInv, WireInv
  <2> QED
    BY <1>2, <2>1, CarriesCounts
<1>4. Replies(wire[t.end], t) = 0
  <2>1. \A i \in DOMAIN wire[t.end] :
            wire[t.end][i].token # t \/ wire[t.end][i].kind # "answer"
    BY DEF EngineInv, WireInv
  <2> QED
    BY <1>2, <2>1, CarriesCounts
<1>5. Asks(inbox[Peer(t.end)], t) = 0
  <2>1. \A i \in DOMAIN inbox[Peer(t.end)] :
            inbox[Peer(t.end)][i].token # t \/ inbox[Peer(t.end)][i].kind # "request"
    BY <1>1 DEF EngineInv, RequestsInv
  <2> QED
    BY <1>2, <2>1, CarriesCounts
<1>6. Asks(evals, t) = 0
  <2>1. \A i \in DOMAIN evals : evals[i].token # t \/ evals[i].kind # "request"
    BY DEF EngineInv, EvalsInv
  <2> QED
    BY <1>2, <2>1, CarriesCounts
<1> QED
  BY <1>3, <1>4, <1>5, <1>6 DEF Held

(* A new request waits, and is on its way unless the peer is gone. *)
LEMMA SendRequestPlaces ==
    ASSUME EngineAssumption, NoWrap, EngineInv, TypeOK', PlacesInv,
           NEW e \in Ends, SendRequest(e)
    PROVE  PlacesInv'
<1>1. PICK d, m : d = Drawn(e, 0) /\ m = Command("request", counter[e], d)
  OBVIOUS
<1>2. /\ inbox' = inbox /\ evals' = evals /\ conn' = conn /\ session' = session
      /\ DOMAIN received' = DOMAIN received \cup {d}
      /\ waitResponses' = [waitResponses EXCEPT ![e] = Inserted(@, counter[e], d)]
      /\ wire' = Written(e, m) /\ Draw(e, 1) /\ TypeOK
  BY <1>1 DEF SendRequest, EngineInv
<1>3. /\ d.end = e /\ d.session = session /\ d \notin DOMAIN received
      /\ \A t : Live(t) /\ t.end = e => IdOf(t) # counter[e]
      /\ d \in Token
  <2>1. IdAfter(e, 0) = counter[e] /\ 0 < 1 /\ 0 \in {0, 1} /\ 1 \in {0, 1, 2}
    BY DEF IdAfter
  <2>2. d.session = session
    BY <1>1 DEF Drawn
  <2> QED
    BY <1>1, <1>2, <2>1, <2>2, DrawFacts, DrawTyped DEF EngineInv
<1>4. m \in Message /\ m.kind = "request" /\ m.token = d
  <2>1. counter[e] \in 0 .. IdModulus - 1
    BY <1>2 DEF TypeOK
  <2> QED
    BY <1>1, <1>3, <2>1 DEF Command, Message
<1>5. counter[e] \notin DOMAIN waitResponses[e]
  BY <1>3 DEF EngineInv, WaitingInv
<1>6. /\ DOMAIN waitResponses'[e] = DOMAIN waitResponses[e] \cup {counter[e]}
      /\ waitResponses'[e][counter[e]] = d
      /\ \A i \in DOMAIN waitResponses[e] : waitResponses'[e][i] = waitResponses[e][i]
      /\ \A f \in Ends : f # e => waitResponses'[f] = waitResponses[f]
  BY <1>2, <1>5 DEF TypeOK, Inserted
<1>7. ASSUME NEW t, Current(t)' PROVE Balance(t)'
  <2>1. t \in Token /\ t.end \in Ends /\ Peer(t.end) \in Ends /\ Peer(t.end) # t.end
    <3>1. t \in DOMAIN received'
      BY <1>7 DEF Current
    <3>2. t \in Token
      BY <1>2, <1>3, <3>1 DEF TypeOK
    <3> QED
      BY <3>2, PeerFacts DEF Token
  <2>2. /\ Asks(wire[Peer(t.end)], t) \in Nat /\ Asks(inbox[Peer(t.end)], t) \in Nat
        /\ Asks(evals, t) \in Nat /\ Replies(wire[t.end], t) \in Nat
    BY <1>2, <2>1, HeldFacts
  <2>3. Replying(m, t) = 0 /\ Asking(m, t) = IF t = d THEN 1 ELSE 0
    BY <1>4 DEF Asking, Replying
  <2>4. Replies(wire'[t.end], t) = Replies(wire[t.end], t)
    BY <1>2, <1>4, <2>1, <2>2, <2>3, WrittenCounts
  <2>5. Asks(wire'[Peer(t.end)], t) = Asks(wire[Peer(t.end)], t)
           + (IF Peer(t.end) = Peer(e) /\ conn[Peer(t.end)] # "closed"
              THEN Asking(m, t) ELSE 0)
    BY <1>2, <1>4, <2>1, WrittenCounts
  <2>6. CASE t # d
    <3>1. Current(t)
      BY <1>2, <1>7, <2>6 DEF Current
    <3>2. Held(t)' = Held(t)
      BY <1>2, <2>2, <2>3, <2>4, <2>5, <2>6 DEF Held
    <3>3. WaitingFor(t)' = WaitingFor(t)
      BY <1>6, <2>1, <2>6 DEF WaitingFor
    <3>4. Balance(t)
      BY <3>1 DEF PlacesInv, BalanceInv
    <3>5. Linked' => Linked
      BY <1>2 DEF Linked
    <3> QED
      BY <1>2, <3>2, <3>3, <3>4, <3>5 DEF Balance
  <2>7. CASE t = d
    <3>1. Held(t) = 0
      BY <1>3, <2>1, <2>7, NothingHeld
    <3>2. /\ Asks(wire[Peer(t.end)], t) = 0 /\ Asks(inbox[Peer(t.end)], t) = 0
          /\ (t.end = "frame" => Asks(evals, t) = 0) /\ Replies(wire[t.end], t) = 0
      BY <2>2, <3>1 DEF Held
    <3>3. Held(t)' = IF conn[Peer(e)] # "closed" THEN 1 ELSE 0
      BY <1>2, <1>3, <2>3, <2>4, <2>5, <2>7, <3>2 DEF Held
    <3>4. WaitingFor(t)' = 1
      BY <1>3, <1>6, <2>7 DEF WaitingFor
    <3>5. Linked' => conn[Peer(e)] # "closed"
      BY <1>2, PeerFacts DEF Linked
    <3> QED
      BY <3>3, <3>4, <3>5 DEF Balance
  <2> QED
    BY <2>6, <2>7
<1>8. BalanceInv'
  BY <1>7 DEF BalanceInv
<1> QED
  BY <1>2, <1>8 DEF PlacesInv, ConfirmingInv, AnswersFindTheirCallback

(* A command of its own takes no callback. *)
LEMMA LocalCommandPlaces ==
    ASSUME EngineAssumption, NoWrap, EngineInv, TypeOK', PlacesInv, NEW e \in Ends,
           NEW k \in {1, 2}, Draw(e, k), NEW kind \in {"plain", "end"},
           OnRemoteCommand(e, kind, counter[e], Drawn(e, 0)),
           session' = session, received' = received, evals' = evals,
           \A f \in Ends : conn'[f] = "confirming" => conn[f] = "confirming"
    PROVE  /\ \A t : t.end \in Ends => WaitingFor(t)' = WaitingFor(t)
           /\ ConfirmingInv' /\ AnswersFindTheirCallback'
           /\ \A t : \A f \in Ends : Asks(inbox'[f], t) = Asks(inbox[f], t)
<1>1. \A t : Live(t) /\ t.end = e => IdOf(t) # counter[e]
  <2>1. IdAfter(e, 0) = counter[e] /\ 0 < k /\ 0 \in {0, 1} /\ k \in {0, 1, 2}
    BY DEF IdAfter
  <2>2. PICK d : d = Drawn(e, 0)
    OBVIOUS
  <2> QED
    BY <2>1, <2>2, DrawFacts DEF EngineInv
<1>2. counter[e] \notin DOMAIN waitResponses[e]
  BY <1>1 DEF EngineInv, WaitingInv
<1>3. ASSUME NEW t, t.end \in Ends PROVE WaitingFor(t)' = WaitingFor(t)
  <2>1. /\ DOMAIN waitResponses' = Ends
        /\ DOMAIN waitResponses'[e] = DOMAIN waitResponses[e]
        /\ \A i \in DOMAIN waitResponses[e] : waitResponses'[e][i] = waitResponses[e][i]
        /\ \A f \in Ends \ {e} : waitResponses'[f] = waitResponses[f]
    <3>1. PICK A : A = Answered(e, counter[e])
      OBVIOUS
    <3>2. /\ DOMAIN A = DOMAIN waitResponses[e]
          /\ \A i \in DOMAIN waitResponses[e] : A[i] = waitResponses[e][i]
      BY <1>2, <3>1 DEF Answered
    <3>3. waitResponses' = [waitResponses EXCEPT ![e] = A] /\ DOMAIN waitResponses = Ends
      BY <3>1 DEF OnRemoteCommand, EngineInv, TypeOK
    <3> QED
      BY ONLY <3>2, <3>3, e \in Ends
  <2> QED
    BY <1>3, <2>1 DEF WaitingFor
<1>4. PICK id, token : id = counter[e] /\ token = Drawn(e, 0)
  OBVIOUS
<1>5. OnRemoteCommand(e, kind, id, token) /\ TypeOK
  BY <1>4 DEF EngineInv
<1>6. ConfirmingInv' /\ AnswersFindTheirCallback'
  BY <1>5, DeliverKeepsBoxes DEF PlacesInv
<1>7. ASSUME NEW t, NEW f \in Ends PROVE Asks(inbox'[f], t) = Asks(inbox[f], t)
  <2>1. Asks(inbox[f], t) \in Nat
    <3>1. inbox[f] \in Seq(Received) /\ Received \in SUBSET (Message \cup Received)
      BY <1>5 DEF TypeOK
    <3> QED
      BY <3>1, CarriesCounts
  <2>2. kind # "request"
    OBVIOUS
  <2>3. Asks(inbox'[f], t) = Asks(inbox[f], t)
            + (IF f = e /\ kind = "request" /\ token = t THEN 1 ELSE 0)
    BY <1>5, DeliveredCounts
  <2> QED
    BY ONLY <2>1, <2>2, <2>3
<1> QED
  BY <1>3, <1>6, <1>7

LEMMA PlainCounts ==
    ASSUME TypeOK, NEW e \in Ends, NEW m \in Message, m.kind = "plain",
           wire' = Written(e, m)
    PROVE  \A t : \A f \in Ends : /\ Asks(wire'[f], t) = Asks(wire[f], t)
                                  /\ Replies(wire'[f], t) = Replies(wire[f], t)
<1> SUFFICES ASSUME NEW t, NEW f \in Ends
             PROVE  /\ Asks(wire'[f], t) = Asks(wire[f], t)
                    /\ Replies(wire'[f], t) = Replies(wire[f], t)
  OBVIOUS
<1>1. Asking(m, t) = 0 /\ Replying(m, t) = 0
  BY DEF Asking, Replying
<1>2. Asks(wire[f], t) \in Nat /\ Replies(wire[f], t) \in Nat
  <2>1. wire[f] \in Seq(Message) /\ Message \in SUBSET (Message \cup Received)
    BY DEF TypeOK
  <2> QED
    BY <2>1, CarriesCounts
<1>3. PICK a \in Nat, b \in Nat : /\ a = 0 /\ b = 0
                                  /\ Asks(wire'[f], t) = Asks(wire[f], t) + a
                                  /\ Replies(wire'[f], t) = Replies(wire[f], t) + b
  BY <1>1, WrittenCounts
<1> QED
  BY <1>2, <1>3

(* A log is kept at home, and sent as a command that asks for nothing. *)
LEMMA OutputLogPlaces ==
    ASSUME EngineAssumption, NoWrap, EngineInv, TypeOK', PlacesInv,
           NEW e \in Ends, OutputLog(e)
    PROVE  PlacesInv'
<1>1. PICK k : k = IF conn[e] = "open" THEN 2 ELSE 1
  OBVIOUS
<1>2. /\ k \in {1, 2} /\ Draw(e, k) /\ evals' = evals /\ conn' = conn
      /\ session' = session /\ received' = received /\ TypeOK
      /\ OnRemoteCommand(e, "plain", counter[e], Drawn(e, 0))
  BY <1>1 DEF OutputLog, EngineInv
<1>3. /\ \A t : t.end \in Ends => WaitingFor(t)' = WaitingFor(t)
      /\ ConfirmingInv' /\ AnswersFindTheirCallback'
      /\ \A t : \A f \in Ends : Asks(inbox'[f], t) = Asks(inbox[f], t)
  BY <1>2, LocalCommandPlaces
<1>4. \A t : \A f \in Ends : /\ Asks(wire'[f], t) = Asks(wire[f], t)
                             /\ Replies(wire'[f], t) = Replies(wire[f], t)
  <2>1. CASE conn[e] # "open"
    <3>1. wire' = wire
      BY <2>1 DEF OutputLog
    <3> QED
      BY <3>1
  <2>2. CASE conn[e] = "open"
    <3>1. PICK d, i, m : d = Drawn(e, 1) /\ i = IdAfter(e, 1) /\ m = Command("plain", i, d)
      OBVIOUS
    <3>2. wire' = Written(e, m)
      BY <2>2, <3>1 DEF OutputLog
    <3>3. d \in Token /\ i \in 0 .. IdModulus - 1
      <4>1. k = 2
        BY <1>1, <2>2
      <4> QED
        BY <1>2, <3>1, <4>1, DrawTyped
    <3>4. m \in Message /\ m.kind = "plain"
      BY <3>1, <3>3 DEF Command, Message
    <3> QED
      BY <1>2, <3>2, <3>4, PlainCounts
  <2> QED
    BY <2>1, <2>2
<1>5. ASSUME NEW t, Current(t)
      PROVE  /\ WaitingFor(t)' = WaitingFor(t)
             /\ Held(t)' <= Held(t) /\ (Linked' => Held(t)' = Held(t))
  <2>1. t.end \in Ends /\ Peer(t.end) \in Ends
    BY <1>2, <1>5, CurrentFacts
  <2>2. Held(t)' = Held(t)
    BY <1>2, <1>3, <1>4, <2>1 DEF Held
  <2>3. Held(t) \in Nat
    BY <1>2, <2>1, HeldFacts
  <2> QED
    BY <1>3, <2>1, <2>2, <2>3
<1>6. BalanceInv'
  <2>1. DOMAIN received' = DOMAIN received /\ (Linked' => Linked) /\ BalanceInv
    BY <1>2 DEF Linked, PlacesInv
  <2> QED
    BY <1>2, <1>5, <2>1, BalanceKeeps
<1> QED
  BY <1>3, <1>6 DEF PlacesInv

LEMMA ConnectedPlaces ==
    ASSUME EngineAssumption, NoWrap, EngineInv, TypeOK', PlacesInv,
           NEW e \in Ends, OnConnectionConnected(e)
    PROVE  PlacesInv'
<1>1. /\ 1 \in {1, 2} /\ Draw(e, 1) /\ evals' = evals /\ wire' = wire
      /\ session' = session /\ received' = received /\ TypeOK
      /\ OnRemoteCommand(e, "plain", counter[e], Drawn(e, 0))
      /\ conn \in [Ends -> {"confirming", "open", "closed"}]
      /\ conn[e] = "confirming" /\ conn' = [conn EXCEPT ![e] = "open"]
  BY DEF OnConnectionConnected, EngineInv, TypeOK
<1>2. /\ \A f \in Ends : conn'[f] = "confirming" => conn[f] = "confirming"
      /\ Linked' => Linked
  BY <1>1 DEF Linked
<1>3. /\ \A t : t.end \in Ends => WaitingFor(t)' = WaitingFor(t)
      /\ ConfirmingInv' /\ AnswersFindTheirCallback'
      /\ \A t : \A f \in Ends : Asks(inbox'[f], t) = Asks(inbox[f], t)
  BY <1>1, <1>2, LocalCommandPlaces
<1>4. ASSUME NEW t, Current(t)
      PROVE  /\ WaitingFor(t)' = WaitingFor(t)
             /\ Held(t)' <= Held(t) /\ (Linked' => Held(t)' = Held(t))
  <2>1. t.end \in Ends /\ Peer(t.end) \in Ends
    BY <1>1, <1>4, CurrentFacts
  <2>2. Held(t)' = Held(t)
    BY <1>1, <1>3, <2>1 DEF Held
  <2>3. Held(t) \in Nat
    BY <1>1, <2>1, HeldFacts
  <2> QED
    BY <1>3, <2>1, <2>2, <2>3
<1>5. BalanceInv'
  <2>1. DOMAIN received' = DOMAIN received /\ BalanceInv
    BY <1>1 DEF PlacesInv
  <2> QED
    BY <1>1, <1>2, <1>4, <2>1, BalanceKeeps
<1> QED
  BY <1>3, <1>5 DEF PlacesInv

LEMMA EmptyCounts ==
    \A t : Asks(<<>>, t) = 0 /\ Replies(<<>>, t) = 0
BY NoneInNothing DEF Asks, Replies

(* What was on its way to an end that closes is lost: its callbacks wait    *)
(* for what is nowhere.                                                     *)
LEMMA ClosedPlaces ==
    ASSUME EngineAssumption, NoWrap, EngineInv, TypeOK', PlacesInv,
           NEW e \in Ends, OnConnectionClosed(e)
    PROVE  PlacesInv'
<1>1. /\ 1 \in {1, 2} /\ Draw(e, 1) /\ evals' = evals
      /\ wire \in [Ends -> Seq(Message)] /\ wire' = [wire EXCEPT ![e] = <<>>]
      /\ session' = session /\ received' = received /\ TypeOK
      /\ OnRemoteCommand(e, "end", counter[e], Drawn(e, 0))
      /\ conn \in [Ends -> {"confirming", "open", "closed"}]
      /\ conn' = [conn EXCEPT ![e] = "closed"]
  BY DEF OnConnectionClosed, EngineInv, TypeOK
<1>2. /\ \A f \in Ends : conn'[f] = "confirming" => conn[f] = "confirming"
      /\ ~Linked'
  BY <1>1 DEF Linked
<1>3. /\ \A t : t.end \in Ends => WaitingFor(t)' = WaitingFor(t)
      /\ ConfirmingInv' /\ AnswersFindTheirCallback'
      /\ \A t : \A f \in Ends : Asks(inbox'[f], t) = Asks(inbox[f], t)
  BY <1>1, <1>2, LocalCommandPlaces
<1>4. ASSUME NEW t, Current(t)
      PROVE  /\ WaitingFor(t)' = WaitingFor(t)
             /\ Held(t)' <= Held(t) /\ (Linked' => Held(t)' = Held(t))
  <2>1. t.end \in Ends /\ Peer(t.end) \in Ends
    BY <1>1, <1>4, CurrentFacts
  <2>2. /\ Asks(wire[Peer(t.end)], t) \in Nat /\ Asks(inbox[Peer(t.end)], t) \in Nat
        /\ Asks(evals, t) \in Nat /\ Replies(wire[t.end], t) \in Nat
    BY <1>1, <2>1, HeldFacts
  <2>3. /\ Asks(wire'[Peer(t.end)], t) \in {0, Asks(wire[Peer(t.end)], t)}
        /\ Replies(wire'[t.end], t) \in {0, Replies(wire[t.end], t)}
    BY <1>1, <2>1, EmptyCounts
  <2>4. Held(t)' <= Held(t)
    <3>1. /\ Asks(wire'[Peer(t.end)], t) <= Asks(wire[Peer(t.end)], t)
          /\ Asks(wire'[Peer(t.end)], t) \in Nat
      BY ONLY <2>2, <2>3
    <3>2. /\ Replies(wire'[t.end], t) <= Replies(wire[t.end], t)
          /\ Replies(wire'[t.end], t) \in Nat
      BY ONLY <2>2, <2>3
    <3>3. Asks(inbox'[Peer(t.end)], t) = Asks(inbox[Peer(t.end)], t)
      BY <1>3, <2>1
    <3> QED
      BY ONLY <1>1, <2>2, <3>1, <3>2, <3>3 DEF Held
  <2> QED
    BY <1>2, <1>3, <2>1, <2>4
<1>5. BalanceInv'
  <2>1. DOMAIN received' = DOMAIN received /\ (Linked' => Linked) /\ BalanceInv
    BY <1>1, <1>2 DEF PlacesInv
  <2> QED
    BY <1>1, <1>4, <2>1, BalanceKeeps
<1> QED
  BY <1>3, <1>5 DEF PlacesInv

(* What is read goes from the wire to the inbox; an answer is held no more. *)
LEMMA ReceiveHeld ==
    ASSUME TypeOK, TypeOK', NEW e \in Ends, Receive(e), NEW m, m = Head(wire[e]),
           NEW t, t.end \in Ends
    PROVE  /\ Held(t)' = Held(t) - (IF t.end = e THEN Replying(m, t) ELSE 0)
           /\ Replying(m, t) <= Replies(wire[e], t)
<1>1. /\ wire \in [Ends -> Seq(Message)] /\ wire[e] \in Seq(Message)
      /\ wire[e] # <<>> /\ wire' = [wire EXCEPT ![e] = Tail(@)]
      /\ evals' = evals /\ OnRemoteCommand(e, m.kind, m.id, m.token)
      /\ Message \in SUBSET (Message \cup Received)
  BY DEF Receive, TypeOK
<1>2. /\ m \in Message /\ Tail(wire[e]) \in Seq(Message)
  BY <1>1, TailFacts
<1>3. /\ Asks(wire[e], t) = Asks(wire'[e], t) + Asking(m, t)
      /\ Replies(wire[e], t) = Replies(wire'[e], t) + Replying(m, t)
      /\ Asks(wire'[e], t) \in Nat /\ Replies(wire'[e], t) \in Nat
  <2>1. wire'[e] = Tail(wire[e])
    BY <1>1
  <2>2. /\ Asks(wire[e], t) = Asks(Tail(wire[e]), t) + Asking(Head(wire[e]), t)
        /\ Replies(wire[e], t) = Replies(Tail(wire[e]), t) + Replying(Head(wire[e]), t)
    BY <1>1, QueueCounts
  <2>3. Asks(Tail(wire[e]), t) \in Nat /\ Replies(Tail(wire[e]), t) \in Nat
    BY <1>1, <1>2, CarriesCounts
  <2> QED
    BY <2>1, <2>2, <2>3
<1>4. Asking(m, t) \in {0, 1} /\ Replying(m, t) \in {0, 1}
  BY <1>2, OneOf
<1>5. \A f \in Ends \ {e} : wire'[f] = wire[f]
  BY <1>1
<1>6. \A f \in Ends : Asks(inbox'[f], t)
          = Asks(inbox[f], t) + (IF f = e THEN Asking(m, t) ELSE 0)
  <2>1. \A f \in Ends : Asks(inbox'[f], t)
            = Asks(inbox[f], t)
              + (IF f = e /\ m.kind = "request" /\ m.token = t THEN 1 ELSE 0)
    <3>1. PICK kind, id, token : kind = m.kind /\ id = m.id /\ token = m.token
      OBVIOUS
    <3>2. OnRemoteCommand(e, kind, id, token) /\ TypeOK
      BY <1>1, <3>1
    <3>3. ASSUME NEW f \in Ends
          PROVE  Asks(inbox'[f], t) = Asks(inbox[f], t)
                    + (IF f = e /\ kind = "request" /\ token = t THEN 1 ELSE 0)
      BY <3>2, DeliveredCounts
    <3> QED
      BY ONLY <3>1, <3>3
  <2> QED
    BY <2>1 DEF Asking
<1>7. /\ Asks(wire[Peer(t.end)], t) \in Nat /\ Asks(inbox[Peer(t.end)], t) \in Nat
      /\ Asks(evals, t) \in Nat /\ Replies(wire[t.end], t) \in Nat
  BY HeldFacts
<1>8. PICK v \in Nat : v = (IF t.end = "frame" THEN Asks(evals, t) ELSE 0)
  BY <1>7
<1>9. /\ Held(t) = Asks(wire[Peer(t.end)], t) + Asks(inbox[Peer(t.end)], t)
                      + v + Replies(wire[t.end], t)
      /\ Held(t)' = Asks(wire'[Peer(t.end)], t) + Asks(inbox'[Peer(t.end)], t)
                      + v + Replies(wire'[t.end], t)
  BY <1>1, <1>8 DEF Held
<1>10. Peer(t.end) \in Ends /\ (Peer(t.end) = e <=> t.end # e)
  BY DEF Peer, Ends
<1>11. CASE t.end = e
  <2>1. /\ Asks(wire'[Peer(t.end)], t) = Asks(wire[Peer(t.end)], t)
        /\ Asks(inbox'[Peer(t.end)], t) = Asks(inbox[Peer(t.end)], t)
    BY <1>5, <1>6, <1>7, <1>10, <1>11
  <2> QED
    BY ONLY <1>3, <1>4, <1>7, <1>9, <1>11, <2>1
<1>12. CASE t.end # e
  <2>1. /\ Asks(wire'[Peer(t.end)], t) + Asking(m, t) = Asks(wire[Peer(t.end)], t)
        /\ Asks(wire'[Peer(t.end)], t) \in Nat
        /\ Asks(inbox'[Peer(t.end)], t) = Asks(inbox[Peer(t.end)], t) + Asking(m, t)
        /\ Replies(wire'[t.end], t) = Replies(wire[t.end], t)
    BY <1>3, <1>5, <1>6, <1>10, <1>12
  <2>2. Held(t)' = Held(t)
    BY ONLY <1>4, <1>7, <1>9, <2>1
  <2>3. Held(t) \in Nat /\ Replying(m, t) <= Replies(wire[e], t)
    BY <1>3, <1>4, HeldFacts
  <2> QED
    BY ONLY <1>12, <2>2, <2>3
<1> QED
  BY <1>11, <1>12

(* The callback found for an answer is the one that waits for it, so it     *)
(* waits no more; no other command finds one.                               *)
LEMMA ReceiveWaits ==
    ASSUME EngineInv, PlacesInv, NEW e \in Ends, Receive(e),
           NEW m, m = Head(wire[e])
    PROVE  /\ m.kind = "answer" => Callback(e, m.id) # NoToken
           /\ \A t : t.end \in Ends =>
                 WaitingFor(t)' = WaitingFor(t)
                                     - (IF t.end = e THEN Replying(m, t) ELSE 0)
<1>1. /\ wire[e] \in Seq(Message) /\ wire[e] # <<>> /\ TypeOK
      /\ OnRemoteCommand(e, m.kind, m.id, m.token)
  BY DEF Receive, EngineInv, TypeOK
<1>2. /\ m \in Message /\ m = wire[e][1] /\ 1 \in DOMAIN wire[e]
  BY <1>1, TailFacts
<1>3. /\ Live(m.token) /\ m.id = IdOf(m.token)
      /\ m.kind # "plain" => m.token \in DOMAIN received
      /\ IF m.kind = "answer" THEN m.token.end = e ELSE m.token.end = Peer(e)
  BY <1>2 DEF EngineInv, WireInv
<1>4. m.id \in DOMAIN waitResponses[e] => m.kind = "answer"
  <2>1. SUFFICES ASSUME m.id \in DOMAIN waitResponses[e] PROVE m.kind = "answer"
    OBVIOUS
  <2>2. PICK t : t = waitResponses[e][m.id]
    OBVIOUS
  <2>3. t.end = e /\ IdOf(t) = m.id /\ Live(t)
    BY <2>1, <2>2 DEF EngineInv, WaitingInv
  <2>4. m.token.end = e
    BY <1>3, <2>3, IdsDiffer
  <2> QED
    BY <1>3, <2>4, PeerFacts
<1>5. /\ DOMAIN waitResponses' = Ends
      /\ DOMAIN waitResponses'[e] = DOMAIN waitResponses[e] \ {m.id}
      /\ \A i \in DOMAIN waitResponses'[e] : waitResponses'[e][i] = waitResponses[e][i]
      /\ \A f \in Ends \ {e} : waitResponses'[f] = waitResponses[f]
  <2>1. PICK A : A = Answered(e, m.id)
    OBVIOUS
  <2>2. /\ DOMAIN A = DOMAIN waitResponses[e] \ {m.id}
        /\ \A i \in DOMAIN A : A[i] = waitResponses[e][i]
    BY <2>1 DEF Answered
  <2>3. waitResponses' = [waitResponses EXCEPT ![e] = A] /\ DOMAIN waitResponses = Ends
    BY <1>1, <2>1 DEF OnRemoteCommand, TypeOK
  <2> QED
    BY ONLY <2>2, <2>3, e \in Ends
<1>6. CASE m.kind # "answer"
  <2>1. m.id \notin DOMAIN waitResponses[e]
    BY <1>4, <1>6
  <2>2. \A t : Replying(m, t) = 0
    BY <1>6 DEF Replying
  <2>3. ASSUME NEW t, t.end \in Ends PROVE WaitingFor(t)' = WaitingFor(t)
    BY <1>5, <2>1, <2>3 DEF WaitingFor
  <2>4. \A t : WaitingFor(t) \in {0, 1}
    BY DEF WaitingFor
  <2> QED
    BY <1>6, <2>2, <2>3, <2>4
<1>7. CASE m.kind = "answer"
  <2>1. PICK a : a = m.token
    OBVIOUS
  <2>2. /\ a.end = e /\ a \in DOMAIN received /\ Current(a)
    BY <1>3, <1>7, <2>1 DEF Current, Live, Ends
  <2>3. Held(a) # 0
    <3>1. Replies(wire[e], a) # 0
      <4>1. Message \in SUBSET (Message \cup Received)
        OBVIOUS
      <4> QED
        BY <1>1, <1>2, <1>7, <2>1, <4>1, CarriesCounts
    <3>2. /\ Asks(wire[Peer(a.end)], a) \in Nat /\ Asks(inbox[Peer(a.end)], a) \in Nat
          /\ Asks(evals, a) \in Nat /\ Replies(wire[e], a) \in Nat
      BY <1>1, <2>2, HeldFacts
    <3> QED
      BY <2>2, <3>1, <3>2 DEF Held
  <2>4. WaitingFor(a) = 1
    <3>1. Held(a) \in Nat /\ WaitingFor(a) \in {0, 1} /\ Held(a) <= WaitingFor(a)
      BY <1>1, <2>2, HeldFacts DEF PlacesInv, BalanceInv, Balance
    <3> QED
      BY <2>3, <3>1
  <2>5. PICK i \in DOMAIN waitResponses[e] : waitResponses[e][i] = a
    BY <2>2, <2>4 DEF WaitingFor
  <2>6. \A j \in DOMAIN waitResponses[e] : waitResponses[e][j] = a <=> j = m.id
    <3>1. \A j \in DOMAIN waitResponses[e] : waitResponses[e][j] = a => j = m.id
      BY <1>3, <2>1 DEF EngineInv, WaitingInv
    <3> QED
      BY <2>5, <3>1
  <2>7. Callback(e, m.id) # NoToken
    <3>1. a # NoToken
      BY <1>1, <2>2, CurrentFacts
    <3> QED
      BY <2>5, <2>6, <3>1 DEF Callback
  <2>8. ASSUME NEW t, t.end \in Ends
        PROVE  WaitingFor(t)' = WaitingFor(t) - (IF t.end = e THEN Replying(m, t) ELSE 0)
    <3>1. Replying(m, t) = IF t = a THEN 1 ELSE 0
      BY <1>7, <2>1 DEF Replying
    <3>2. CASE t = a
      <4>1. WaitingFor(a)' = 0
        BY <1>5, <2>2, <2>6 DEF WaitingFor
      <4> QED
        BY <2>2, <2>4, <3>1, <3>2, <4>1
    <3>3. CASE t # a
      <4>1. WaitingFor(t)' = WaitingFor(t)
        <5>1. CASE t.end # e
          BY <1>5, <2>8, <5>1 DEF WaitingFor
        <5>2. CASE t.end = e
          BY <1>5, <2>6, <3>3, <5>2 DEF WaitingFor
        <5> QED
          BY <5>1, <5>2
      <4>2. WaitingFor(t) \in {0, 1}
        BY DEF WaitingFor
      <4> QED
        BY <3>1, <3>3, <4>1, <4>2
    <3> QED
      BY <3>2, <3>3
  <2> QED
    BY <2>7, <2>8
<1> QED
  BY <1>6, <1>7

LEMMA ReceivePlaces ==
    ASSUME EngineInv, TypeOK', PlacesInv, NEW e \in Ends, Receive(e)
    PROVE  PlacesInv'
<1>1. PICK m : m = Head(wire[e])
  OBVIOUS
<1>2. /\ TypeOK /\ conn' = conn /\ session' = session /\ received' = received
      /\ evals' = evals /\ conn[e] = "open"
      /\ OnRemoteCommand(e, m.kind, m.id, m.token)
  BY <1>1 DEF Receive, EngineInv
<1>3. /\ m.kind = "answer" => Callback(e, m.id) # NoToken
      /\ \A t : t.end \in Ends =>
            WaitingFor(t)' = WaitingFor(t) - (IF t.end = e THEN Replying(m, t) ELSE 0)
  BY <1>1, ReceiveWaits
<1>4. ConfirmingInv' /\ AnswersFindTheirCallback'
  <2>1. PICK k, i, u : k = m.kind /\ i = m.id /\ u = m.token
    OBVIOUS
  <2>2. /\ OnRemoteCommand(e, k, i, u)
        /\ k = "answer" => Callback(e, i) # NoToken
    BY <1>2, <1>3, <2>1
  <2>3. /\ \A f \in Ends : conn'[f] = "confirming" => conn[f] = "confirming"
        /\ conn'[e] # "confirming"
    BY <1>2
  <2> QED
    BY <1>2, <2>2, <2>3, DeliverKeepsBoxes DEF PlacesInv
<1>5. ASSUME NEW t, Current(t)' PROVE Balance(t)'
  <2>1. Current(t) /\ Balance(t)
    BY <1>2, <1>5 DEF Current, PlacesInv, BalanceInv
  <2>2. t.end \in Ends
    BY <1>2, <2>1, CurrentFacts
  <2>3. PICK r : r = IF t.end = e THEN Replying(m, t) ELSE 0
    OBVIOUS
  <2>4. r \in Int
    BY <2>3 DEF Replying
  <2>5. WaitingFor(t)' = WaitingFor(t) - r /\ Held(t)' = Held(t) - r
    BY <1>1, <1>2, <1>3, <2>2, <2>3, ReceiveHeld
  <2>6. Held(t) \in Nat /\ WaitingFor(t) \in {0, 1}
    BY <1>2, <2>2, HeldFacts
  <2>7. Linked' => Linked
    BY <1>2 DEF Linked
  <2>8. /\ Held(t)' <= WaitingFor(t)'
        /\ Held(t) = WaitingFor(t) => Held(t)' = WaitingFor(t)'
    <3>1. Held(t) <= WaitingFor(t)
      BY <2>1 DEF Balance
    <3> QED
      BY ONLY <2>4, <2>5, <2>6, <3>1
  <2> QED
    BY <1>2, <2>1, <2>7, <2>8 DEF Balance
<1> QED
  BY <1>4, <1>5 DEF PlacesInv, BalanceInv

(* A command that is no request carries none away. *)
LEMMA TakePlainPlaces ==
    ASSUME EngineInv, TypeOK', PlacesInv, NEW e \in Ends, Takes(e),
           Head(inbox[e]).kind # "request",
           wire' = wire, evals' = evals, conn' = conn, session' = session,
           waitResponses' = waitResponses, DOMAIN received' = DOMAIN received
    PROVE  PlacesInv'
<1>0. TypeOK
  BY DEF EngineInv
<1>1. ASSUME NEW t, NEW f \in Ends PROVE Asks(inbox'[f], t) = Asks(inbox[f], t)
  <2>1. Asking(Head(inbox[e]), t) = 0
    BY DEF Asking
  <2>2. /\ Asks(inbox'[f], t) \in Nat
        /\ Asks(inbox[f], t) = Asks(inbox'[f], t)
               + (IF f = e THEN Asking(Head(inbox[e]), t) ELSE 0)
    BY <1>0, TakenCounts
  <2> QED
    BY ONLY <2>1, <2>2
<1>2. ASSUME NEW t, Current(t)
      PROVE  /\ WaitingFor(t)' = WaitingFor(t)
             /\ Held(t)' <= Held(t) /\ (Linked' => Held(t)' = Held(t))
  <2>1. t.end \in Ends /\ Peer(t.end) \in Ends
    BY <1>0, <1>2, CurrentFacts
  <2>2. Held(t)' = Held(t)
    BY <1>1, <2>1 DEF Held
  <2>3. WaitingFor(t)' = WaitingFor(t)
    BY DEF WaitingFor
  <2>4. Held(t) \in Nat
    BY <1>0, <2>1, HeldFacts
  <2> QED
    BY <2>2, <2>3, <2>4
<1>3. BalanceInv'
  <2>1. (Linked' => Linked) /\ BalanceInv
    BY DEF Linked, PlacesInv
  <2> QED
    BY <1>0, <1>2, <2>1, BalanceKeeps
<1>4. ConfirmingInv' /\ AnswersFindTheirCallback'
  <2>1. "ctx" \in Ends
    BY DEF Ends
  <2>2. conn["ctx"] = "confirming" => evals' = <<>>
    BY <2>1 DEF PlacesInv, ConfirmingInv
  <2> QED
    BY <1>0, <2>2, TakeKeepsBoxes DEF PlacesInv
<1> QED
  BY <1>3, <1>4 DEF PlacesInv

LEMMA ProgramPlaces ==
    ASSUME EngineInv, TypeOK', PlacesInv, NEW e \in Ends, Program(e)
    PROVE  PlacesInv'
<1>1. /\ Takes(e) /\ wire' = wire /\ evals' = evals /\ conn' = conn
      /\ session' = session /\ waitResponses' = waitResponses
  BY DEF Program, CallResponse, Process
<1>2. DOMAIN received' = DOMAIN received
  BY DEF Program, CallResponse, Process
<1>3. Head(inbox[e]).kind # "request"
  <2>1. inbox[e] \in Seq(Received) /\ inbox[e] # <<>>
    BY <1>1 DEF Takes, EngineInv, TypeOK
  <2>2. Head(inbox[e]) = inbox[e][1] /\ 1 \in DOMAIN inbox[e]
    BY <2>1, TailFacts
  <2>3. CASE CallResponse(e)
    <3>1. Head(inbox[e]).response # NoToken
      BY <2>3 DEF CallResponse
    <3> QED
      BY <2>2, <3>1 DEF EngineInv, CallbacksInv
  <2>4. CASE Process(e)
    BY <2>4 DEF Process
  <2> QED
    BY <2>3, <2>4 DEF Program
<1> QED
  BY <1>1, <1>2, <1>3, TakePlainPlaces

(* The answer is on its way once the request is taken, unless one of the    *)
(* two ends is closed.                                                      *)
LEMMA ResponseCounts ==
    ASSUME EngineAssumption, NoWrap, TypeOK, NEW e \in Ends, NEW r,
           Live(r.token), r.id = IdOf(r.token), r.token.end = Peer(e),
           Response(e, r), conn[e] # "confirming", NEW t, t.end \in Ends
    PROVE  LET a == IF r.token = t THEN 1 ELSE 0
           IN  /\ Asks(wire'[Peer(t.end)], t) = Asks(wire[Peer(t.end)], t)
               /\ \E n \in {0, a} : /\ Replies(wire'[t.end], t) = Replies(wire[t.end], t) + n
                                    /\ Linked => n = a
<1>1. /\ conn[e] # "open" => wire' = wire
      /\ conn[e] = "open" =>
            \E m \in Message : /\ wire' = Written(e, m)
                               /\ m.kind = "answer" /\ m.token = r.token
                               /\ m.id = IdOf(m.token)
  BY ResponseWrites
<1>2. /\ Asks(wire[Peer(t.end)], t) \in Nat /\ Replies(wire[t.end], t) \in Nat
      /\ Peer(t.end) \in Ends /\ Peer(e) \in Ends
      /\ conn[e] \in {"confirming", "open", "closed"}
  BY HeldFacts, PeerFacts DEF TypeOK
<1>3. CASE conn[e] # "open"
  <2>1. wire' = wire /\ ~Linked
    BY <1>1, <1>2, <1>3 DEF Linked
  <2> QED
    BY <1>2, <2>1
<1>4. CASE conn[e] = "open"
  <2>1. PICK m \in Message : /\ wire' = Written(e, m)
                             /\ m.kind = "answer" /\ m.token = r.token
    BY <1>1, <1>4
  <2>2. Asking(m, t) = 0 /\ Replying(m, t) = IF r.token = t THEN 1 ELSE 0
    BY <2>1 DEF Asking, Replying
  <2>3. /\ Asks(wire'[Peer(t.end)], t) = Asks(wire[Peer(t.end)], t)
              + (IF Peer(t.end) = Peer(e) /\ conn[Peer(t.end)] # "closed"
                 THEN Asking(m, t) ELSE 0)
        /\ Replies(wire'[t.end], t) = Replies(wire[t.end], t)
              + (IF t.end = Peer(e) /\ conn[t.end] # "closed" THEN Replying(m, t) ELSE 0)
    <3>1. PICK f \in Ends, g \in Ends : f = Peer(t.end) /\ g = t.end
      BY <1>2
    <3>2. Asks(wire'[f], t) = Asks(wire[f], t)
              + (IF f = Peer(e) /\ conn[f] # "closed" THEN Asking(m, t) ELSE 0)
      BY <2>1, WrittenCounts
    <3>3. Replies(wire'[g], t) = Replies(wire[g], t)
              + (IF g = Peer(e) /\ conn[g] # "closed" THEN Replying(m, t) ELSE 0)
      BY <2>1, WrittenCounts
    <3> QED
      BY ONLY <3>1, <3>2, <3>3
  <2>4. Asks(wire'[Peer(t.end)], t) = Asks(wire[Peer(t.end)], t)
    BY <1>2, <2>2, <2>3
  <2>5. PICK n : n = IF t.end = Peer(e) /\ conn[t.end] # "closed"
                     THEN Replying(m, t) ELSE 0
    OBVIOUS
  <2>6. r.token = t => t.end = Peer(e)
    OBVIOUS
  <2>7. Linked => conn[Peer(e)] # "closed"
    BY <1>2 DEF Linked
  <2> QED
    BY <2>2, <2>3, <2>4, <2>5, <2>6, <2>7
<1> QED
  BY <1>3, <1>4

LEMMA FrameAnswersPlaces ==
    ASSUME EngineAssumption, NoWrap, EngineInv, TypeOK', PlacesInv, FrameAnswers
    PROVE  PlacesInv'
<1>1. /\ "frame" \in Ends /\ Takes("frame") /\ IsRequest(Head(inbox["frame"]))
      /\ conn' = conn /\ waitResponses' = waitResponses /\ evals' = evals
      /\ session' = session /\ received' = received /\ TypeOK
  BY DEF FrameAnswers, Ends, EngineInv
<1>2. PICK r : r = Head(inbox["frame"])
  OBVIOUS
<1>3. /\ Live(r.token) /\ r.id = IdOf(r.token) /\ r.token.end = Peer("frame")
      /\ r.kind = "request" /\ Response("frame", r)
  BY <1>1, <1>2, HeadRequest DEF FrameAnswers
<1>4. conn["frame"] # "confirming"
  <2>1. inbox["frame"] \in Seq(Received) /\ inbox["frame"] # <<>>
    BY <1>1 DEF Takes, TypeOK
  <2>2. r = inbox["frame"][1] /\ 1 \in DOMAIN inbox["frame"]
    BY <1>2, <2>1, TailFacts
  <2> QED
    BY <1>1, <1>3, <2>2 DEF PlacesInv, ConfirmingInv
<1>5. ASSUME NEW t, Current(t)
      PROVE  /\ WaitingFor(t)' = WaitingFor(t)
             /\ Held(t)' <= Held(t) /\ (Linked' => Held(t)' = Held(t))
  <2>1. t.end \in Ends /\ Peer(t.end) \in Ends
    BY <1>1, <1>5, CurrentFacts
  <2>2. PICK a : a = IF r.token = t THEN 1 ELSE 0
    OBVIOUS
  <2>3. PICK n \in {0, a} :
            /\ Asks(wire'[Peer(t.end)], t) = Asks(wire[Peer(t.end)], t)
            /\ Replies(wire'[t.end], t) = Replies(wire[t.end], t) + n
            /\ Linked => n = a
    BY <1>1, <1>3, <1>4, <2>1, <2>2, ResponseCounts
  <2>4. /\ Asks(inbox'[Peer(t.end)], t) \in Nat
        /\ Asks(inbox[Peer(t.end)], t) = Asks(inbox'[Peer(t.end)], t) + a
    <3>1. Asking(r, t) = a
      BY <1>3, <2>2 DEF Asking
    <3>2. /\ Asks(inbox'[Peer(t.end)], t) \in Nat
          /\ Asks(inbox[Peer(t.end)], t) = Asks(inbox'[Peer(t.end)], t)
                + (IF Peer(t.end) = "frame" THEN Asking(r, t) ELSE 0)
      BY <1>1, <1>2, <2>1, TakenCounts
    <3>3. a = 1 => Peer(t.end) = "frame"
      BY <1>1, <1>3, <2>2, PeerFacts
    <3> QED
      BY <2>2, <3>1, <3>2, <3>3
  <2>5. /\ Asks(wire[Peer(t.end)], t) \in Nat /\ Asks(evals, t) \in Nat
        /\ Replies(wire[t.end], t) \in Nat
    BY <1>1, <2>1, HeldFacts
  <2>6. PICK v \in Nat : v = IF t.end = "frame" THEN Asks(evals, t) ELSE 0
    BY <2>5
  <2>7. /\ Held(t) = Asks(wire[Peer(t.end)], t) + Asks(inbox[Peer(t.end)], t)
                        + v + Replies(wire[t.end], t)
        /\ Held(t)' = Asks(wire'[Peer(t.end)], t) + Asks(inbox'[Peer(t.end)], t)
                        + v + Replies(wire'[t.end], t)
    BY <1>1, <2>6 DEF Held
  <2>8. Held(t)' <= Held(t) /\ (n = a => Held(t)' = Held(t))
    BY ONLY <2>2, <2>3, <2>4, <2>5, <2>6, <2>7
  <2>9. WaitingFor(t)' = WaitingFor(t) /\ (Linked' => Linked)
    BY <1>1 DEF WaitingFor, Linked
  <2> QED
    BY <2>3, <2>8, <2>9
<1>6. BalanceInv'
  <2>1. DOMAIN received' = DOMAIN received /\ (Linked' => Linked) /\ BalanceInv
    BY <1>1 DEF Linked, PlacesInv
  <2> QED
    BY <1>1, <1>5, <2>1, BalanceKeeps
<1>7. ConfirmingInv' /\ AnswersFindTheirCallback'
  <2>1. conn["ctx"] = "confirming" => evals' = <<>>
    BY <1>1 DEF PlacesInv, ConfirmingInv, Ends
  <2> QED
    BY <1>1, <2>1, TakeKeepsBoxes DEF PlacesInv
<1> QED
  BY <1>6, <1>7 DEF PlacesInv

LEMMA ContextEvaluatesPlaces ==
    ASSUME EngineAssumption, EngineInv, TypeOK', PlacesInv, ContextEvaluates
    PROVE  PlacesInv'
<1>1. /\ "ctx" \in Ends /\ Takes("ctx") /\ IsRequest(Head(inbox["ctx"]))
      /\ conn' = conn /\ waitResponses' = waitResponses /\ wire' = wire
      /\ session' = session /\ received' = received /\ TypeOK
  BY DEF ContextEvaluates, Ends, EngineInv
<1>2. PICK r : r = Head(inbox["ctx"])
  OBVIOUS
<1>3. r.kind = "request" /\ r.token.end = "frame"
  BY <1>1, <1>2, HeadRequest DEF Peer
<1>4. /\ inbox["ctx"] \in Seq(Received) /\ inbox["ctx"] # <<>>
      /\ r \in Received /\ r = inbox["ctx"][1] /\ 1 \in DOMAIN inbox["ctx"]
  <2>1. inbox["ctx"] \in Seq(Received) /\ inbox["ctx"] # <<>>
    BY <1>1 DEF Takes, TypeOK
  <2> QED
    BY <1>2, <2>1, TailFacts
<1>5. conn["ctx"] # "confirming"
  BY <1>1, <1>3, <1>4 DEF PlacesInv, ConfirmingInv
<1>6. PICK m \in Message : /\ m = Command("request", r.id, r.token)
                           /\ evals' = Append(evals, m)
  BY <1>2, <1>4 DEF ContextEvaluates, Command, Message, Received
<1>7. ASSUME NEW t, Current(t)
      PROVE  /\ WaitingFor(t)' = WaitingFor(t)
             /\ Held(t)' <= Held(t) /\ (Linked' => Held(t)' = Held(t))
  <2>1. t.end \in Ends /\ Peer(t.end) \in Ends
    BY <1>1, <1>7, CurrentFacts
  <2>2. PICK a : a = Asking(r, t)
    OBVIOUS
  <2>3. a \in {0, 1} /\ Asking(m, t) = a
    BY <1>3, <1>6, <2>2 DEF Asking, Command
  <2>4. /\ Asks(inbox'[Peer(t.end)], t) \in Nat
        /\ Asks(inbox[Peer(t.end)], t) = Asks(inbox'[Peer(t.end)], t)
              + (IF Peer(t.end) = "ctx" THEN a ELSE 0)
    BY <1>1, <1>2, <2>1, <2>2, TakenCounts
  <2>5. Asks(evals', t) = Asks(evals, t) + a
    <3>1. evals \in Seq(Message) /\ Message \in SUBSET (Message \cup Received)
      BY <1>1 DEF TypeOK
    <3> QED
      BY <1>6, <2>3, <3>1, QueueCounts
  <2>6. /\ Asks(wire[Peer(t.end)], t) \in Nat /\ Asks(evals, t) \in Nat
        /\ Replies(wire[t.end], t) \in Nat
    BY <1>1, <2>1, HeldFacts
  <2>7. Peer(t.end) = "ctx" <=> t.end = "frame"
    BY <2>1 DEF Peer, Ends
  <2>8. Held(t)' = Held(t)
    <3>1. CASE t.end = "frame"
      BY <1>1, <2>3, <2>4, <2>5, <2>6, <2>7, <3>1 DEF Held
    <3>2. CASE t.end # "frame"
      BY <1>1, <2>4, <2>6, <2>7, <3>2 DEF Held
    <3> QED
      BY <3>1, <3>2
  <2>9. WaitingFor(t)' = WaitingFor(t) /\ Held(t) \in Nat
    BY <1>1, <2>1, HeldFacts DEF WaitingFor
  <2> QED
    BY <2>8, <2>9
<1>8. BalanceInv'
  <2>1. DOMAIN received' = DOMAIN received /\ (Linked' => Linked) /\ BalanceInv
    BY <1>1 DEF Linked, PlacesInv
  <2> QED
    BY <1>1, <1>7, <2>1, BalanceKeeps
<1>9. ConfirmingInv' /\ AnswersFindTheirCallback'
  BY <1>1, <1>5, TakeKeepsBoxes DEF PlacesInv
<1> QED
  BY <1>8, <1>9 DEF PlacesInv

LEMMA ContextAnswersPlaces ==
    ASSUME EngineAssumption, NoWrap, EngineInv, TypeOK', PlacesInv, ContextAnswers
    PROVE  PlacesInv'
<1>1. /\ evals \in Seq(Message) /\ evals # <<>> /\ "ctx" \in Ends
      /\ evals' = SubSeq(evals, 1, Len(evals) - 1)
      /\ conn' = conn /\ waitResponses' = waitResponses /\ inbox' = inbox
      /\ session' = session /\ received' = received /\ TypeOK
  BY DEF ContextAnswers, EngineInv, TypeOK, Ends
<1>2. PICK r : r = evals[Len(evals)]
  OBVIOUS
<1>3. Len(evals) \in DOMAIN evals /\ evals' \in Seq(Message)
  BY <1>1, FrontFacts
<1>4. /\ Live(r.token) /\ r.id = IdOf(r.token) /\ r.token.end = Peer("ctx")
      /\ r.token.end = "frame" /\ r.kind = "request" /\ Response("ctx", r)
  BY <1>2, <1>3 DEF EngineInv, EvalsInv, Peer, ContextAnswers
<1>5. conn["ctx"] # "confirming"
  BY <1>1 DEF PlacesInv, ConfirmingInv
<1>6. ASSUME NEW t, Current(t)
      PROVE  /\ WaitingFor(t)' = WaitingFor(t)
             /\ Held(t)' <= Held(t) /\ (Linked' => Held(t)' = Held(t))
  <2>1. t.end \in Ends /\ Peer(t.end) \in Ends
    BY <1>1, <1>6, CurrentFacts
  <2>2. PICK a : a = IF r.token = t THEN 1 ELSE 0
    OBVIOUS
  <2>3. PICK n \in {0, a} :
            /\ Asks(wire'[Peer(t.end)], t) = Asks(wire[Peer(t.end)], t)
            /\ Replies(wire'[t.end], t) = Replies(wire[t.end], t) + n
            /\ Linked => n = a
    BY <1>1, <1>4, <1>5, <2>1, <2>2, ResponseCounts
  <2>4. Asks(evals', t) \in Nat /\ Asks(evals, t) = Asks(evals', t) + a
    <3>1. Message \in SUBSET (Message \cup Received)
      OBVIOUS
    <3>2. Asking(r, t) = a
      BY <1>4, <2>2 DEF Asking
    <3>3. Asks(evals, t) = Asks(SubSeq(evals, 1, Len(evals) - 1), t)
                               + Asking(evals[Len(evals)], t)
      BY <1>1, <3>1, QueueCounts
    <3>4. Asks(evals', t) \in Nat
      BY <1>3, <3>1, CarriesCounts
    <3> QED
      BY <1>1, <1>2, <3>2, <3>3, <3>4
  <2>5. /\ Asks(wire[Peer(t.end)], t) \in Nat /\ Asks(inbox[Peer(t.end)], t) \in Nat
        /\ Replies(wire[t.end], t) \in Nat
    BY <1>1, <2>1, HeldFacts
  <2>6. Held(t)' <= Held(t) /\ (n = a => Held(t)' = Held(t))
    <3>1. CASE t.end = "frame"
      <4>1. /\ Held(t) = Asks(wire[Peer(t.end)], t) + Asks(inbox[Peer(t.end)], t)
                            + Asks(evals, t) + Replies(wire[t.end], t)
            /\ Held(t)' = Asks(wire'[Peer(t.end)], t) + Asks(inbox[Peer(t.end)], t)
                            + Asks(evals', t) + Replies(wire'[t.end], t)
        BY <1>1, <3>1 DEF Held
      <4> QED
        BY ONLY <2>2, <2>3, <2>4, <2>5, <4>1
    <3>2. CASE t.end # "frame"
      <4>1. a = 0
        BY <1>4, <2>2, <3>2
      <4>2. n = 0
        BY <2>3, <4>1
      <4> QED
        BY <1>1, <2>3, <2>5, <3>2, <4>2 DEF Held
    <3> QED
      BY <3>1, <3>2
  <2>7. WaitingFor(t)' = WaitingFor(t) /\ (Linked' => Linked)
    BY <1>1 DEF WaitingFor, Linked
  <2> QED
    BY <2>3, <2>6, <2>7
<1>7. BalanceInv'
  <2>1. DOMAIN received' = DOMAIN received /\ (Linked' => Linked) /\ BalanceInv
    BY <1>1 DEF Linked, PlacesInv
  <2> QED
    BY <1>1, <1>6, <2>1, BalanceKeeps
<1>8. ConfirmingInv' /\ AnswersFindTheirCallback'
  BY <1>1, <1>5 DEF PlacesInv, ConfirmingInv, AnswersFindTheirCallback
<1> QED
  BY <1>7, <1>8 DEF PlacesInv

(* What the frame still asks the old context is nowhere, and waits in vain. *)
LEMMA NewSessionPlaces ==
    ASSUME EngineAssumption, EngineInv, TypeOK', PlacesInv, NewSession
    PROVE  PlacesInv'
<1> USE DEF Ends
<1>1. /\ listening /\ session' = session + 1 /\ session \in Int
      /\ received' = received /\ evals' = <<>> /\ TypeOK
      /\ \A e \in Ends : wire'[e] = <<>>
      /\ inbox'["ctx"] = <<>> /\ inbox'["frame"] = inbox["frame"]
      /\ waitResponses'["frame"] = waitResponses["frame"]
  BY DEF NewSession, EngineInv, TypeOK, EngineAssumption
<1>2. \A k \in DOMAIN inbox["frame"] : inbox["frame"][k].kind # "request"
  BY <1>1 DEF EngineInv, SessionsInv
<1>3. \A t \in DOMAIN received : t \in Token /\ t.session # session + 1
  <2>1. \A t \in DOMAIN received : t \in Token /\ t.session \in Int /\ t.session <= session
    <3>1. DOMAIN received \subseteq Token
      BY <1>1 DEF TypeOK
    <3> QED
      BY <3>1 DEF EngineInv, ReceivedInv, Token, EngineAssumption
  <2> QED
    BY ONLY <1>1, <2>1
<1>4. ASSUME NEW t, Current(t)' PROVE Balance(t)'
  <2>1. t \in DOMAIN received /\ t.end = "frame" /\ t.session # session'
    BY <1>1, <1>3, <1>4 DEF Current
  <2>2. Held(t)' = 0
    BY <1>1, <2>1, EmptyCounts DEF Held, Peer
  <2>3. WaitingFor(t)' \in {0, 1}
    BY DEF WaitingFor
  <2> QED
    BY <2>1, <2>2, <2>3 DEF Balance
<1>5. ConfirmingInv'
  BY <1>1, <1>2 DEF ConfirmingInv
<1>6. AnswersFindTheirCallback'
  BY <1>1 DEF PlacesInv, AnswersFindTheirCallback
<1> QED
  BY <1>4, <1>5, <1>6 DEF PlacesInv, BalanceInv

LEMMA InitPlaces == Init => PlacesInv
<1> SUFFICES ASSUME Init PROVE PlacesInv
  OBVIOUS
<1>1. BalanceInv
  BY DEF Init, Nothing, BalanceInv, Current
<1>2. \A e \in Ends : inbox[e] = <<>>
  BY DEF Init
<1>3. ConfirmingInv /\ AnswersFindTheirCallback
  BY <1>2 DEF ConfirmingInv, AnswersFindTheirCallback, Init
<1> QED
  BY <1>1, <1>3 DEF PlacesInv

LEMMA PlacesStep ==
    EngineAssumption /\ NoWrap /\ EngineInv /\ PlacesInv /\ [Next]_vars => PlacesInv'
<1> SUFFICES ASSUME EngineAssumption, NoWrap, EngineInv, PlacesInv, [Next]_vars
             PROVE  PlacesInv'
  OBVIOUS
<1>1. TypeOK'
  BY TypeStep DEF EngineInv
<1>2. CASE UNCHANGED vars
  BY <1>2 DEF vars, PlacesInv, ConfirmingInv, AnswersFindTheirCallback, BalanceInv,
     Balance, Current, Linked, Held, WaitingFor
<1>3. ASSUME NEW e \in Ends, Engine(e) PROVE PlacesInv'
  BY <1>1, <1>3, SendPlainPlaces, SendRequestPlaces, OutputLogPlaces, ReceivePlaces,
     ConnectedPlaces, ClosedPlaces DEF Engine
<1>4. ASSUME NEW e \in Ends, Program(e) PROVE PlacesInv'
  BY <1>1, <1>4, ProgramPlaces
<1> QED
  BY <1>1, <1>2, <1>3, <1>4, FrameAnswersPlaces, ContextEvaluatesPlaces,
     ContextAnswersPlaces, NewSessionPlaces DEF Next

(* No answer comes without its callback, and while both ends are connected  *)
(* each callback waits for exactly one request or answer, somewhere between *)
(* the two programs (m_waitResponses, remoteengine.cpp:205), for any number *)
(* of sessions and commands whose ids do not start over.                    *)
THEOREM AnswersAlwaysMeet == NoWrap => (Spec => []AnswersMeetCallbacks)
<1> SUFFICES ASSUME NoWrap PROVE Spec => []AnswersMeetCallbacks
  OBVIOUS
<1>1. Init => EngineInv /\ PlacesInv
  BY InitKeepsAll, InitPlaces, EngineAssumption
<1>2. EngineInv /\ PlacesInv /\ [Next]_vars => EngineInv' /\ PlacesInv'
  BY EngineStep, PlacesStep, EngineAssumption
<1>3. EngineInv /\ PlacesInv => AnswersMeetCallbacks
  <2> SUFFICES ASSUME EngineInv, PlacesInv PROVE WaitingIsOnItsWay
    BY DEF PlacesInv, AnswersMeetCallbacks
  <2>1. ASSUME \A e \in Ends : conn[e] = "open", NEW e \in Ends,
               NEW t \in DOMAIN received, t.end = e, t.session = session
        PROVE  Places(e, t) = WaitingFor(t)
    <3>1. Linked /\ Current(t)
      BY <2>1 DEF Linked, Current
    <3>2. Held(t) = WaitingFor(t)
      BY <2>1, <3>1 DEF PlacesInv, BalanceInv, Balance
    <3>3. Places(t.end, t) = Held(t)
      BY <2>1, HeldFacts DEF EngineInv
    <3> QED
      BY <2>1, <3>2, <3>3
  <2> QED
    BY <2>1 DEF WaitingIsOnItsWay, WaitingFor
<1> QED
  BY <1>1, <1>2, <1>3, PTL DEF Spec

=============================================================================
