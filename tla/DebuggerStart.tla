---------------------------- MODULE DebuggerStart ----------------------------
(***************************************************************************)
(* How a context finds its frame: Context::CreateDebuggerFrame with its    *)
(* two attempts, RemoteEngine::StartContext and StartFrame, the connectors *)
(* and their handshake (net/connection.cpp), and the callbacks by which    *)
(* they tell the engine.                                                   *)
(*                                                                         *)
(* Three threads act: the Lua thread of the context, the frame's GUI       *)
(* thread, and the connection thread of each engine, which runs one        *)
(* completion handler at a time.  The first attempt's connector may still  *)
(* be at work during the second attempt and after it.                      *)
(***************************************************************************)
EXTENDS FiniteSets, Integers

CONSTANTS
    Others,   (* programs that are neither, and use the frame's port       *)
    MaxFaults (* bound: what else than the two programs' own steps fails   *)

ASSUME StartAssumption ==
    /\ Others \cap {"c1", "c2", "acceptor", "none"} = {}
    /\ MaxFaults \in Nat

VARIABLES
    luaPc,      (* the Lua thread, in CreateDebuggerFrame or after it      *)
    attempt,    (* times                                                   *)
    late,       (* WaitForDebuggerFrame's 10 seconds are over              *)
    isFailed,   (* m_isFailed of the context's engine                      *)
    fpc,        (* the frame's GUI thread                                  *)
    launched,   (* a second lldebug_frame process is about to start        *)
    connection, (* m_connection of each engine                             *)
    held,       (* m_connector of each engine                              *)
    connector,  (* each Connector: what it does, the handlers it waits     *)
                (* for, m_handleCommandCount, and m_connection # NULL      *)
    accepted,   (* the client the frame's connector has accepted           *)
    inEnd,      (* an END_CONNECTION is in this end's m_readCommands       *)
    link,       (* TCP connections: in the frame's backlog, or accepted    *)
    wrote,      (* START_CONNECTIONs (or junk) written on them, by side    *)
    shut,       (* the sides that have closed their socket                 *)
    twice,      (* history: Failed() has run without an m_connection       *)
    timedOut,   (* history: an attempt was left at its deadline            *)
    faults      (* bound: what has failed from outside                     *)

luaVars == <<luaPc, attempt, late, timedOut>>
tcpVars == <<link, wrote, shut>>
startVars == <<luaVars, isFailed, fpc, launched, connection, held, connector,
          accepted, inEnd, tcpVars, twice, faults>>

Attempts == {"c1", "c2"}
Clients == Attempts \cup Others
Connectors == Attempts \cup {"acceptor"}
Ends == {"ctx", "frame"}
Nobody == "none"

StartTypeOK ==
    /\ luaPc \in {"connect", "started", "wait", "tested", "execute", "running",
               "gaveup", "gone"}
    /\ attempt \in Attempts
    /\ late \in BOOLEAN
    /\ isFailed \in BOOLEAN
    /\ fpc \in {"absent", "launch", "starting", "idle", "exited"}
    /\ launched \in BOOLEAN
    /\ connection \in [Ends -> Clients \cup {Nobody}]
    /\ held \in [Ends -> Connectors \cup {Nobody}]
    /\ connector \in [Connectors ->
          [stage : {"unused", "resolving", "connecting", "accepting",
                    "confirming", "over"},
           pending : SUBSET {"write", "read"}, count : 0 .. 2, has : BOOLEAN]]
    /\ accepted \in Clients \cup {Nobody}
    /\ inEnd \in [Ends -> BOOLEAN]
    /\ link \in [Clients -> {"none", "queued", "accepted"}]
    /\ wrote \in [Clients -> SUBSET {"client", "server", "junk"}]
    /\ shut \in [Clients -> SUBSET {"client", "server"}]
    /\ twice \in BOOLEAN
    /\ timedOut \in BOOLEAN
    /\ faults \in 0 .. MaxFaults

NewConnector(stage) ==
    [stage |-> stage, pending |-> {}, count |-> 0, has |-> stage # "unused"]

StartInit ==
    /\ luaPc = "connect"
    /\ attempt = "c1"
    /\ late = FALSE
    /\ isFailed = FALSE
    /\ fpc \in {"absent", "launch"}
    /\ launched = FALSE
    /\ connection = [e \in Ends |-> Nobody]
    /\ held = [e \in Ends |-> Nobody]
    /\ connector = [k \in Connectors |-> NewConnector("unused")]
    /\ accepted = Nobody
    /\ inEnd = [e \in Ends |-> FALSE]
    /\ link = [c \in Clients |-> "none"]
    /\ wrote = [c \in Clients |-> {}]
    /\ shut = [c \in Clients |-> {}]
    /\ twice = FALSE
    /\ timedOut = FALSE
    /\ faults = 0

Fault == faults < MaxFaults /\ faults' = faults + 1

-----------------------------------------------------------------------------
(* Sockets *)

Engine(k) == IF k = "acceptor" THEN "frame" ELSE "ctx"
Side(k) == IF k = "acceptor" THEN "server" ELSE "client"
OtherSide(k) == IF k = "acceptor" THEN "client" ELSE "server"
Line(k) == IF k = "acceptor" THEN accepted ELSE k

(* m_acceptor is open as long as its ServerConnector lives: as long as      *)
(* m_connector or a handler to come refers to it.                           *)
AcceptorOpen ==
    \/ held["frame"] = "acceptor"
    \/ connector["acceptor"].stage \in {"accepting", "confirming"}
    \/ connector["acceptor"].pending # {}

(* closed after this step.  An acceptor that closes in it resets whoever is *)
(* in its backlog.                                                          *)
ShutAfter(closed) ==
    shut' = [c \in Clients |->
               IF link[c] = "queued" /\ ~AcceptorOpen'
               THEN closed[c] \cup {"server"} ELSE closed[c]]

Closing(c, side) == [shut EXCEPT ![c] = @ \cup {side}]

(* The operating system closes what a process leaves behind. *)
ClosingAll(side) ==
    [c \in Clients |->
       IF link[c] # "none" /\ (side = "client" => c \in Attempts)
       THEN shut[c] \cup {side} ELSE shut[c]]

-----------------------------------------------------------------------------
(* The handlers of a Connector, on its engine's connection thread *)

(* The message is sent, some time after BeginConfirmCommand. *)
SendStart(k) ==
    /\ "write" \in connector[k].pending
    /\ connector[k].has
    /\ Side(k) \notin wrote[Line(k)]
    /\ wrote' = [wrote EXCEPT ![Line(k)] = @ \cup {Side(k)}]
    /\ UNCHANGED <<luaVars, isFailed, fpc, launched, connection, held,
                   connector, accepted, inEnd, link, shut, twice, faults>>

(* What the handler of a write or read is told.  Failed() destroys the      *)
(* socket (has), which ends what still waits on it with an error.           *)
Outcomes(k, op) ==
    LET gone == OtherSide(k) \in shut[Line(k)] \/ ~connector[k].has
        answer == wrote[Line(k)] \cap {OtherSide(k), "junk"}
    IN  IF op = "write"
        THEN IF Side(k) \in wrote[Line(k)] THEN {"ok"}
             ELSE {o \in {"error"} : gone}
        ELSE {o \in {"ok"} : OtherSide(k) \in answer}
               \cup {o \in {"error"} : "junk" \in answer \/ gone}

(* Mutant of Needed: either handler will do. *)
NeededOne == 1

(* m_handleCommandCount >= 2 *)
Needed == 2

(* Mutant of Connected: the engine takes any connection. *)
ConnectedAlways(k) ==
    /\ connection' = [connection EXCEPT ![Engine(k)] = Line(k)]
    /\ held' = [held EXCEPT ![Engine(k)] = Nobody]
    /\ ShutAfter(shut)
    /\ UNCHANGED isFailed

(* Connector::Connected and RemoteEngine::OnConnectionConnected.  Either    *)
(* the engine now refers to the connection, or nobody does.                 *)
Connected(k) ==
    /\ IF connection[Engine(k)] # Nobody
       THEN /\ UNCHANGED <<connection, held>>
            /\ ShutAfter(Closing(Line(k), Side(k)))
       ELSE /\ connection' = [connection EXCEPT ![Engine(k)] = Line(k)]
            /\ held' = [held EXCEPT ![Engine(k)] = Nobody]
            /\ ShutAfter(shut)
    /\ UNCHANGED isFailed

(* Connector::Failed and RemoteEngine::OnConnectionFailed. *)
Failed(k) ==
    /\ held' = [held EXCEPT ![Engine(k)] = Nobody]
    /\ isFailed' = (isFailed \/ Engine(k) = "ctx")
    /\ ShutAfter(IF Line(k) = Nobody THEN shut ELSE Closing(Line(k), Side(k)))
    /\ UNCHANGED connection

(* m_connection->Failed() on a null pointer: the process is killed.         *)
Killed(e) ==
    /\ twice' = TRUE
    /\ connection' = [connection EXCEPT ![e] = Nobody]
    /\ held' = [held EXCEPT ![e] = Nobody]
    /\ connector' = [k \in Connectors |->
          IF Engine(k) = e THEN [NewConnector("over") EXCEPT !.has = FALSE]
          ELSE connector[k]]
    /\ inEnd' = [inEnd EXCEPT ![e] = FALSE]
    /\ luaPc' = IF e = "ctx" THEN "gone" ELSE luaPc
    /\ fpc' = IF e = "frame" THEN "exited" ELSE fpc
    /\ ShutAfter(ClosingAll(IF e = "ctx" THEN "client" ELSE "server"))

(* HandleConfirmCommand, the handler of both the write and the read. *)
HandleConfirmCommand(k, op) ==
    /\ op \in connector[k].pending
    /\ \E outcome \in Outcomes(k, op) :
          LET count == connector[k].count + 1
              After(stage, c, has) ==
                  connector' = [connector EXCEPT ![k] =
                      [stage |-> stage, pending |-> @.pending \ {op},
                       count |-> c, has |-> has]]
          IN  \/ /\ outcome = "ok" /\ count < Needed
                 /\ After(connector[k].stage, count, connector[k].has)
                 /\ UNCHANGED <<connection, held, isFailed, inEnd, luaPc, fpc,
                                twice>>
                 /\ ShutAfter(shut)
              \/ /\ outcome = "ok" /\ count >= Needed
                 /\ After("over", count, FALSE)
                 /\ Connected(k)
                 /\ UNCHANGED <<inEnd, luaPc, fpc, twice>>
              \/ /\ outcome = "error" /\ connector[k].has
                 /\ After("over", connector[k].count, FALSE)
                 /\ Failed(k)
                 /\ UNCHANGED <<inEnd, luaPc, fpc, twice>>
              \/ /\ outcome = "error" /\ ~connector[k].has
                 /\ Killed(Engine(k))
                 /\ UNCHANGED isFailed
    /\ UNCHANGED <<attempt, late, timedOut, launched, accepted, link, wrote, faults>>

BeginConfirmCommand(k) ==
    connector' = [connector EXCEPT ![k] =
        [stage |-> "confirming", pending |-> {"write", "read"}, count |-> 0,
         has |-> TRUE]]

FailEarly(k) ==
    /\ connector' = [connector EXCEPT ![k].stage = "over", ![k].has = FALSE]
    /\ Failed(k)
    /\ UNCHANGED <<luaVars, fpc, launched, accepted, inEnd, link, wrote,
                   twice>>

(* HandleResolve.  The service may be unknown: external. *)
HandleResolve(k) ==
    /\ connector[k].stage = "resolving"
    /\ \/ /\ connector' = [connector EXCEPT ![k].stage = "connecting"]
          /\ UNCHANGED <<luaVars, isFailed, fpc, launched, connection, held,
                         accepted, inEnd, tcpVars, twice, faults>>
       \/ FailEarly(k) /\ Fault

(* HandleConnect: refused by every endpoint, or established by the frame's  *)
(* operating system, before anyone accepts it.                              *)
HandleConnect(k) ==
    /\ connector[k].stage = "connecting"
    /\ \/ /\ ~AcceptorOpen
          /\ FailEarly(k)
          /\ UNCHANGED faults
       \/ /\ AcceptorOpen
          /\ link' = [link EXCEPT ![k] = "queued"]
          /\ BeginConfirmCommand(k)
          /\ UNCHANGED <<luaVars, isFailed, fpc, launched, connection, held,
                         accepted, inEnd, wrote, shut, twice, faults>>

(* ServerConnector::HandleAccept: the connector accepts once. *)
HandleAccept ==
    /\ connector["acceptor"].stage = "accepting"
    /\ \E c \in Clients :
          /\ link[c] = "queued"
          /\ link' = [link EXCEPT ![c] = "accepted"]
          /\ accepted' = c
    /\ BeginConfirmCommand("acceptor")
    /\ UNCHANGED <<luaVars, isFailed, fpc, launched, connection, held, inEnd,
                   wrote, shut, twice, faults>>

(* Mutant of EndTold: nobody is told. *)
EndUntold(e) == inEnd

(* OnRemoteCommand(END_CONNECTION) *)
EndTold(e) == [inEnd EXCEPT ![e] = TRUE]

(* Mutant of Released: the engine keeps its connector. *)
KeptConnector(e) == held

(* OnConnectionClosed: m_connector.reset() *)
Released(e) == [held EXCEPT ![e] = Nobody]

(* The read of an open connection fails: DoClose, OnConnectionClosed. *)
DoClose(e) ==
    LET side == IF e = "ctx" THEN "client" ELSE "server"
    IN  /\ connection[e] # Nobody
        /\ shut[connection[e]] \ {side} # {}
        /\ connection' = [connection EXCEPT ![e] = Nobody]
        /\ held' = Released(e)
        /\ inEnd' = EndTold(e)
        /\ UNCHANGED connector
        /\ ShutAfter(Closing(connection[e], side))
        /\ UNCHANGED <<luaVars, isFailed, fpc, launched, accepted, link,
                       wrote, twice, faults>>

-----------------------------------------------------------------------------
(* The Lua thread: CreateDebuggerFrame *)

frameSide == <<fpc, launched, accepted, link, wrote, shut, twice>>

(* RemoteEngine::StartContext, whose connector starts to resolve ... *)
StartContext ==
    /\ luaPc = "connect"
    /\ late' = FALSE
    /\ IF connection["ctx"] # Nobody
       THEN luaPc' = "wait" /\ UNCHANGED connector
       ELSE /\ luaPc' = "started"
            /\ connector' =
                  [connector EXCEPT ![attempt] = NewConnector("resolving")]
    /\ UNCHANGED <<attempt, timedOut, isFailed, connection, held, inEnd, frameSide,
                   faults>>

(* ... before it says, without m_mutex, that nothing has failed yet. *)
StoreConnector ==
    /\ luaPc = "started"
    /\ luaPc' = "wait"
    /\ isFailed' = FALSE
    /\ held' = [held EXCEPT !["ctx"] = attempt]
    /\ UNCHANGED <<attempt, late, timedOut, connection, connector, inEnd, frameSide,
                   faults>>

(* WaitForDebuggerFrame: while (!m_engine->IsConnecting()) *)
TestConnecting ==
    /\ luaPc = "wait"
    /\ luaPc' = IF connection["ctx"] # Nobody THEN "running" ELSE "tested"
    /\ UNCHANGED <<attempt, late, timedOut, isFailed, connection, held, connector,
                   inEnd, frameSide, faults>>

(* Mutant of GivesUpWaiting: only a failure ends the wait. *)
FailedOnly == isFailed

(* Mutant of GivesUpWaiting: it looks once. *)
AtOnce == TRUE

(* IsFailed, an END_CONNECTION in HandleCommand, or the deadline.           *)
GivesUpWaiting == isFailed \/ inEnd["ctx"] \/ late

TestFailed ==
    /\ luaPc = "tested"
    /\ IF GivesUpWaiting
       THEN /\ luaPc' = IF attempt = "c1" THEN "execute" ELSE "gaveup"
            /\ attempt' = "c2"
            /\ timedOut' = (timedOut \/ late)
       ELSE luaPc' = "wait" /\ UNCHANGED <<attempt, timedOut>>
    /\ inEnd' = [inEnd EXCEPT !["ctx"] = @ /\ isFailed]
    /\ UNCHANGED <<late, isFailed, connection, held, connector, frameSide,
                   faults>>

(* ExecuteFrame returns once the process is on its way, or fails. *)
ExecuteFrame ==
    /\ luaPc = "execute"
    /\ \/ /\ luaPc' = "connect"
          /\ launched' = TRUE
          /\ UNCHANGED faults
       \/ /\ luaPc' = "gaveup"
          /\ Fault
          /\ UNCHANGED launched
    /\ UNCHANGED <<attempt, late, timedOut, isFailed, fpc, connection, held, connector,
                   accepted, inEnd, tcpVars, twice>>

(* The clock. *)
DeadlinePasses ==
    /\ luaPc \in {"wait", "tested"}
    /\ ~late
    /\ late' = TRUE
    /\ UNCHANGED <<luaPc, attempt, timedOut, isFailed, fpc, launched, connection, held,
                   connector, accepted, inEnd, tcpVars, twice, faults>>

(* The program ends, debugged or not. *)
ContextExits ==
    /\ luaPc \in {"running", "gaveup"}
    /\ luaPc' = "gone"
    /\ connection' = [connection EXCEPT !["ctx"] = Nobody]
    /\ held' = [held EXCEPT !["ctx"] = Nobody]
    /\ connector' = [k \in Connectors |->
          IF k \in Attempts THEN [NewConnector("over") EXCEPT !.has = FALSE]
          ELSE connector[k]]
    /\ inEnd' = [inEnd EXCEPT !["ctx"] = FALSE]
    /\ ShutAfter(ClosingAll("client"))
    /\ UNCHANGED <<attempt, late, timedOut, isFailed, fpc, launched, accepted, link,
                   wrote, twice, faults>>

-----------------------------------------------------------------------------
(* The frame's GUI thread *)

contextSide == <<luaVars, isFailed, launched, wrote, twice>>

LeaveFrame ==
    /\ connection' = [connection EXCEPT !["frame"] = Nobody]
    /\ held' = [held EXCEPT !["frame"] = Nobody]
    /\ inEnd' = [inEnd EXCEPT !["frame"] = FALSE]
    /\ connector' = [connector EXCEPT !["acceptor"] =
                        [NewConnector("over") EXCEPT !.has = FALSE]]
    /\ ShutAfter(ClosingAll("server"))

(* Mediator::Initialize, or ProcessRemoteCommand for an END_CONNECTION:     *)
(* StartFrame, and the frame shuts down when it cannot listen.  The port    *)
(* may be in use (no reuse_address), by this frame or from outside.         *)
StartFrame ==
    /\ fpc = "launch" \/ (fpc = "idle" /\ inEnd["frame"])
    /\ \/ /\ ~AcceptorOpen
          /\ fpc' = "starting"
          /\ connector' =
                [connector EXCEPT !["acceptor"] = NewConnector("accepting")]
          /\ accepted' = Nobody
          /\ inEnd' = [inEnd EXCEPT !["frame"] = FALSE]
          /\ UNCHANGED <<connection, held, shut, faults>>
       \/ /\ fpc' = "exited"
          /\ LeaveFrame
          /\ IF AcceptorOpen THEN UNCHANGED faults ELSE Fault
          /\ UNCHANGED accepted
    /\ UNCHANGED <<contextSide, link>>

(* m_connector = connector, after the connector has begun to accept. *)
StoreAcceptor ==
    /\ fpc = "starting"
    /\ fpc' = "idle"
    /\ held' = [held EXCEPT !["frame"] = "acceptor"]
    /\ UNCHANGED <<contextSide, connection, connector, accepted, inEnd, link,
                   shut, faults>>

(* The connector gave up: nobody accepts, and no END_CONNECTION will come.  *)
Deaf ==
    /\ fpc = "idle" /\ connection["frame"] = Nobody /\ ~inEnd["frame"]
    /\ connector["acceptor"].stage = "over" /\ ~AcceptorOpen

(* The user closes the frame. *)
FrameExits ==
    /\ fpc = "idle"
    /\ fpc' = "exited"
    /\ Fault
    /\ LeaveFrame
    /\ UNCHANGED <<contextSide, accepted, link>>

(* The process ExecuteFrame started reaches OnInit.  It becomes the frame   *)
(* unless another one has the port; one that has lost it is left behind.    *)
LaunchedFrameStarts ==
    /\ launched
    /\ launched' = FALSE
    /\ IF fpc \in {"absent", "exited"} \/ Deaf
          \/ (fpc = "idle" /\ inEnd["frame"])
       THEN fpc' = "launch" /\ LeaveFrame
       ELSE UNCHANGED <<fpc, connection, held, connector, inEnd, shut>>
    /\ UNCHANGED <<luaVars, isFailed, accepted, link, wrote, twice, faults>>

-----------------------------------------------------------------------------
(* Other programs that connect to the port: external *)

OtherConnects(c) ==
    /\ link[c] = "none"
    /\ AcceptorOpen
    /\ link' = [link EXCEPT ![c] = "queued"]
    /\ Fault
    /\ UNCHANGED <<luaVars, isFailed, fpc, launched, connection, held,
                   connector, accepted, inEnd, wrote, shut, twice>>

OtherWrites(c) ==
    /\ link[c] # "none"
    /\ "client" \notin shut[c]
    /\ wrote[c] \cap {"client", "junk"} = {}
    /\ \E what \in {"client", "junk"} :
          wrote' = [wrote EXCEPT ![c] = @ \cup {what}]
    /\ UNCHANGED <<luaVars, isFailed, fpc, launched, connection, held,
                   connector, accepted, inEnd, link, shut, twice, faults>>

OtherCloses(c) ==
    /\ link[c] # "none"
    /\ "client" \notin shut[c]
    /\ shut' = Closing(c, "client")
    /\ UNCHANGED <<luaVars, isFailed, fpc, launched, connection, held,
                   connector, accepted, inEnd, link, wrote, twice, faults>>

-----------------------------------------------------------------------------
Handlers ==
    \/ \E k \in Connectors :
          \/ SendStart(k)
          \/ \E op \in {"write", "read"} : HandleConfirmCommand(k, op)
    \/ \E k \in Attempts : HandleResolve(k) \/ HandleConnect(k)
    \/ HandleAccept
    \/ \E e \in Ends : DoClose(e)

LuaThread ==
    \/ StartContext \/ StoreConnector
    \/ TestConnecting \/ TestFailed
    \/ ExecuteFrame

GUIThread == StartFrame \/ StoreAcceptor

StartNext ==
    \/ Handlers
    \/ LuaThread
    \/ DeadlinePasses
    \/ ContextExits
    \/ GUIThread
    \/ FrameExits
    \/ LaunchedFrameStarts
    \/ \E c \in Others : OtherConnects(c) \/ OtherWrites(c) \/ OtherCloses(c)

StartSpec == StartInit /\ [][StartNext]_startVars

(* The Lua thread runs and time passes, whatever the frame does.            *)
FairStartSpec == StartSpec /\ WF_startVars(LuaThread) /\ WF_startVars(DeadlinePasses)

-----------------------------------------------------------------------------
(* Properties *)

(* Whoever has an open connection has it with somebody: the other end has   *)
(* the same connection, or is about to, or has closed it.  Each end decides *)
(* alone, on its two handlers (connection.cpp:79-85).  And the types.       *)
SessionHasTwoEnds ==
    /\ StartTypeOK
    /\ connection["ctx"] # Nobody =>
          LET c == connection["ctx"]
          IN  \/ "server" \in shut[c]
              \/ connection["frame"] = c
              \/ /\ accepted = c
                 /\ connector["acceptor"].stage = "confirming"
    /\ connection["frame"] \in Attempts =>
          LET c == connection["frame"]
          IN  \/ "client" \in shut[c]
              \/ connection["ctx"] = c
              \/ connector[c].stage = "confirming"

(* An attempt that is over has either become the engine's connection or     *)
(* closed its socket: a late first attempt leaves no frame in a session     *)
(* with nobody (context.cpp:208, remoteengine.cpp:172).                     *)
NoSocketIsForgotten ==
    \A k \in Attempts :
       connector[k].stage = "over" /\ link[k] # "none" =>
          connection["ctx"] = k \/ "client" \in shut[k]

(* When a session ends, the port is free for the next StartFrame.  The      *)
(* engine may have stored its connector after the handshake was over, and   *)
(* kept the port open with it (remoteengine.cpp:103, 191).                  *)
EndOfSessionFreesPort ==
    [][connection["frame"] # Nobody /\ connection'["frame"] = Nobody
          /\ fpc' = "idle" => ~AcceptorOpen']_startVars

(* The program gets to run: CreateDebuggerFrame returns, although its reset *)
(* of m_isFailed may wipe out a failure (remoteengine.cpp:120).             *)
StartReturns == <>(luaPc \in {"running", "gaveup", "gone"})

(* Connector::Failed runs twice, and the second time without a connection,  *)
(* only if the peer has closed too or sent what is no START_CONNECTION: not *)
(* between two programs that get through (connection.cpp:77, 108).          *)
KilledOnlyByItsPeer ==
    twice => \E c \in Clients : shut[c] = {"client", "server"} \/ "junk" \in wrote[c]

(* mediator.cpp:160: "Try to start accepting, if possible. Otherwise we     *)
(* shut down this program."  It does, but for a peer that did not get       *)
(* through the handshake.                                                   *)
FrameAcceptsAgain ==
    Deaf => /\ connector["acceptor"].count < 2
            /\ \/ "junk" \in wrote[accepted]
               \/ "client" \in shut[accepted]

(* A handshake that failed does harm only if the peer made it fail.         *)
FailsOnlyByItsPeer == KilledOnlyByItsPeer /\ FrameAcceptsAgain

(* CreateDebuggerFrame says that "the frame was not found" (context.cpp:    *)
(* 223), and the frame that was started is not used (213), only if an       *)
(* attempt was left at its deadline, whose connector nobody stops; else     *)
(* there is no session, and the frame could not be started or did not       *)
(* listen yet.                                                              *)
GivenUpForACause ==
    luaPc = "gaveup" =>
       \/ timedOut
       \/ connection["ctx"] = Nobody /\ (faults > 0 \/ link["c2"] = "none")

=============================================================================
