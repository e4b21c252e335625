----------------------------- MODULE CommandLoop -----------------------------
(***************************************************************************)
(* The loop at the end of Context::HookCallback, on the Lua thread, against *)
(* Context::OnRemoteCommand on the connection thread.  The Lua thread holds *)
(* Context::m_mutex in the hook except while it waits on m_commandCond; the *)
(* connection thread pushes and notifies without it, and holds the engine's *)
(* mutex meanwhile when it reports that the connection is closed.  What     *)
(* m_readCommands promises is FifoChannel.                                  *)
(***************************************************************************)
EXTENDS Integers, Sequences

CONSTANTS MaxCommands (* bound: commands that arrive                       *)

ASSUME LoopAssumption == MaxCommands \in Nat

VARIABLES
    lua,         (* where the Lua thread is in the loop                    *)
    isBreak,     (* m_debugState = DEBUGSTATE_BREAK                        *)
    front,       (* the command HandleCommand copied from the front        *)
    queue,       (* m_readCommands                                         *)
    net,         (* where the connection thread is in OnRemoteCommand      *)
    arriving,    (* the command it has                                     *)
    engineMutex, (* who holds RemoteEngine::m_mutex across steps           *)
    isWoken,     (* m_commandCond was notified during this wait            *)
    isConnecting,(* m_engine->IsConnecting()                               *)
    pushed,      (* history: commands pushed                               *)
    handled      (* history: commands handled                              *)

vars == <<lua, isBreak, front, queue, net, arriving, engineMutex, isWoken,
          isConnecting, pushed, handled>>

Kinds == {"break", "resume", "request", "end"}
Command == [id : 1 .. MaxCommands + 1, kind : Kinds]
NoCommand == [id |-> 0, kind |-> "end"]

(* Where the Lua thread holds Context::m_mutex.                             *)
InHook == {"test", "pop", "check", "update", "sleep"}

(* The types; and a mutex is held only by a thread that is in the middle of *)
(* an operation (remoteengine.cpp:187).                                     *)
TypeOK ==
    /\ lua \in InHook \cup {"outside", "waiting", "raised"}
    /\ isBreak \in BOOLEAN /\ isWoken \in BOOLEAN /\ isConnecting \in BOOLEAN
    /\ front \in Command \cup {NoCommand}
    /\ arriving \in Command \cup {NoCommand}
    /\ net \in {"idle", "push", "notify"}
    /\ engineMutex \in {"free", "net"}
    /\ engineMutex = "net" => net # "idle"
    /\ queue \in Seq(Command) /\ pushed \in Seq(Command)
    /\ handled \in Seq(Command)

Init ==
    /\ lua = "outside"
    /\ isBreak = FALSE
    /\ front = NoCommand
    /\ queue = <<>>
    /\ net = "idle"
    /\ arriving = NoCommand
    /\ engineMutex = "free"
    /\ isWoken = FALSE
    /\ isConnecting = TRUE
    /\ pushed = <<>>
    /\ handled = <<>>

-----------------------------------------------------------------------------
(* The connection thread *)

luaVars == <<lua, isBreak, front, handled>>

(* RemoteEngine::OnRemoteCommand unlocks before it calls back.              *)
Arrive ==
    /\ net = "idle" /\ isConnecting
    /\ Len(pushed) < MaxCommands
    /\ \E kind \in Kinds \ {"end"} :
          arriving' = [id |-> Len(pushed) + 1, kind |-> kind]
    /\ net' = "push"
    /\ UNCHANGED <<luaVars, queue, engineMutex, isWoken, isConnecting, pushed>>

(* OnConnectionClosed has a lock of its own around that call.               *)
OnConnectionClosed ==
    /\ net = "idle" /\ isConnecting
    /\ isConnecting' = FALSE
    /\ arriving' = [id |-> Len(pushed) + 1, kind |-> "end"]
    /\ engineMutex' = "net"
    /\ net' = "push"
    /\ UNCHANGED <<luaVars, queue, isWoken, pushed>>

(* Mutant of MayPush: OnRemoteCommand locks Context::m_mutex. *)
MayPushLocked == lua \notin InHook

(* OnRemoteCommand takes no mutex but the queue's. *)
MayPush == TRUE

Push ==
    /\ net = "push" /\ MayPush
    /\ queue' = Append(queue, arriving)
    /\ pushed' = Append(pushed, arriving)
    /\ net' = "notify"
    /\ UNCHANGED <<luaVars, arriving, engineMutex, isWoken, isConnecting>>

Notify ==
    /\ net = "notify"
    /\ isWoken' = (lua = "waiting")
    /\ engineMutex' = "free"
    /\ net' = "idle"
    /\ UNCHANGED <<luaVars, queue, arriving, isConnecting, pushed>>

-----------------------------------------------------------------------------
(* The Lua thread *)

netVars == <<net, arriving, engineMutex, isConnecting, pushed>>

(* A line hook, of the program or of what the host calls after an error; a  *)
(* step or a breakpoint may stop here.                                      *)
HookCallback ==
    /\ lua \in {"outside", "raised"}
    /\ lua' = "test"
    /\ isBreak' \in {isBreak, TRUE}
    /\ UNCHANGED <<front, queue, isWoken, handled, netVars>>

(* Mutant of Front: pop comes first. *)
FrontAfterPop == queue[IF Len(queue) > 1 THEN 2 ELSE 1]

Front == Head(queue)

(* HandleCommand's loop: empty and front, each under the queue's mutex.     *)
TestQueue ==
    /\ lua = "test"
    /\ IF queue = <<>> THEN lua' = "check" /\ UNCHANGED front
       ELSE lua' = "pop" /\ front' = Front
    /\ UNCHANGED <<isBreak, queue, isWoken, handled, netVars>>

(* pop, and the handler: a change of state or an answer is sent, for which  *)
(* the engine is locked; END_CONNECTION returns -1, which raises.           *)
PopAndHandle ==
    /\ lua = "pop"
    /\ front.kind \in {"break", "resume", "request"} => engineMutex = "free"
    /\ queue' = Tail(queue)
    /\ handled' = Append(handled, front)
    /\ isBreak' = CASE front.kind = "break" -> TRUE
                    [] front.kind = "resume" -> FALSE
                    [] OTHER -> isBreak
    /\ lua' = IF front.kind = "end" THEN "raised" ELSE "test"
    /\ UNCHANGED <<front, isWoken, netVars>>

(* IsConnecting locks the engine.  An error, the end of the loop, or a stop *)
Check ==
    /\ lua = "check" /\ engineMutex = "free"
    /\ lua' = IF ~isConnecting THEN "raised"
              ELSE IF isBreak THEN "update" ELSE "outside"
    /\ UNCHANGED <<isBreak, front, queue, isWoken, handled, netVars>>

(* SendUpdateSource, and the test before the wait. *)
Update ==
    /\ lua = "update" /\ engineMutex = "free"
    /\ lua' = IF queue = <<>> THEN "sleep" ELSE "test"
    /\ UNCHANGED <<isBreak, front, queue, isWoken, handled, netVars>>

(* timed_wait unlocks and waits, whatever was pushed since the test.        *)
TimedWait ==
    /\ lua = "sleep"
    /\ lua' = "waiting"
    /\ isWoken' = FALSE
    /\ UNCHANGED <<isBreak, front, queue, handled, netVars>>

(* Mutant of TimesOut: wait in the place of timed_wait. *)
TimesOutNever == FALSE

(* After one second. *)
TimesOut == TRUE

WakeUp ==
    /\ lua = "waiting"
    /\ isWoken \/ TimesOut
    /\ lua' = "test"
    /\ UNCHANGED <<isBreak, front, queue, isWoken, handled, netVars>>

(* The loop once it is entered. *)
Loop == TestQueue \/ PopAndHandle \/ Check \/ Update \/ TimedWait \/ WakeUp

Next ==
    \/ Arrive \/ OnConnectionClosed \/ Push \/ Notify
    \/ HookCallback \/ Loop

Spec == Init /\ [][Next]_vars

-----------------------------------------------------------------------------
(* Properties *)

(* HandleCommand copies the front and pops it under two locks while the     *)
(* connection thread pushes; every command is handled once and in the order *)
(* in which it was pushed (context.cpp:499-501).                            *)
Fifo == INSTANCE FifoChannel WITH written <- pushed, delivered <- handled
ImplementsFifo == Fifo!Spec

(* A stop does not outlive its connection: the hook raises an error, and    *)
(* neither thread waits for the other's mutex for ever (context.cpp:846).   *)
LossEndsTheStop ==
    ~isConnecting /\ lua \in InHook \cup {"waiting"}
       ~> lua \in {"outside", "raised"}

=============================================================================
