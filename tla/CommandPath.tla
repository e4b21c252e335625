---------------------------- MODULE CommandPath ----------------------------
(***************************************************************************)
(* A command's way from the frame's WriteCommand to the context's          *)
(* HandleCommand: Connection carries the bytes, its read handlers call     *)
(* Context::OnRemoteCommand on the connection thread, and CommandLoop's    *)
(* Lua thread takes the commands while the program is stopped.  The        *)
(* connection thread is busy between Arrive and Notify: it reads nothing   *)
(* more meanwhile, and does not close.                                     *)
(***************************************************************************)
EXTENDS CommandLoop

CONSTANTS
    HeaderSize,  (* pieces a header may be written in                      *)
    DataSizes    (* bound: pieces of a command's data                      *)

ASSUME PathAssumption ==
    /\ HeaderSize \in Nat \ {0}
    /\ DataSizes \subseteq Nat

VARIABLES service, writeQueue, ops, isConnected, broken, stream, reading,
          inPart, written, delivered

netState == <<service, writeQueue, ops, isConnected, broken, stream, reading,
              inPart, written, delivered>>

Conn == INSTANCE Connection WITH queue <- writeQueue

PathInit == Init /\ Conn!Init

-----------------------------------------------------------------------------

(* What a read handler leads to: OnRemoteCommand once a command is whole.   *)
Received == IF delivered' # delivered THEN Arrive ELSE UNCHANGED vars

Receive ==
    /\ net = "idle"
    /\ Conn!ReadHeader \/ Conn!ReadData
    /\ Received

(* DoClose of the context's end, which tells the engine. *)
Close == Conn!CloseReader /\ OnConnectionClosed

(* The frame's end, and the network. *)
Write ==
    /\ Conn!WriteCommand \/ Conn!CloseWriter \/ Conn!WriteFails \/ Conn!Break
    /\ UNCHANGED vars
RunHandler == Conn!RunHandler /\ UNCHANGED vars
WriteSome == Conn!WriteSome /\ UNCHANGED vars

(* The rest of OnRemoteCommand, and the program. *)
Finish == (Push \/ Notify) /\ UNCHANGED netState
LuaLoop == Loop /\ UNCHANGED netState
Hook == HookCallback /\ UNCHANGED netState

PathNext ==
    \/ Write \/ RunHandler \/ WriteSome
    \/ Receive \/ Close \/ Finish
    \/ LuaLoop \/ Hook

pathVars == <<vars, netState>>

PathSpec == PathInit /\ [][PathNext]_pathVars

(* The connection threads poll, the network carries what it has, and the    *)
(* Lua thread runs; nothing makes the program execute another line, the     *)
(* user send a command or the connection close.                             *)
FairPathSpec ==
    /\ PathSpec
    /\ WF_pathVars(RunHandler)
    /\ WF_pathVars(WriteSome)
    /\ WF_pathVars(Receive)
    /\ WF_pathVars(Finish)
    /\ WF_pathVars(LuaLoop)

-----------------------------------------------------------------------------
(* Properties *)

(* Connection's, of the frame's end: see there.                             *)
MemoryIsKept == Conn!MemoryIsKept
CarriesInOrder == Conn!ImplementsFifo

(* A command the frame writes during a stop is handled, however its bytes   *)
(* are cut and whenever the loop is notified, unless the connection is      *)
(* lost, the program goes on, or a header was written in part               *)
(* (connection.cpp:375-400, context.cpp:490-493, 873-879).                  *)
EveryCommandIsHandled ==
    \A n \in 1 .. MaxCommands :
       Len(written) >= n /\ lua \in InHook \cup {"waiting"}
          ~> \/ Len(handled) >= n
             \/ broken \/ inPart
             \/ lua \in {"outside", "raised"}

=============================================================================
