---------------------------- MODULE BreakSession ----------------------------
(***************************************************************************)
(* A stop of the debuggee as the two processes see it: the loop at the end *)
(* of Context::HookCallback on one side, Mediator::ProcessRemoteCommand on *)
(* the other, and between them one TCP connection, which is one FIFO       *)
(* channel each way.  A channel stands for the writer's queue, the bytes   *)
(* on their way and the reader's m_readCommands: since the network may     *)
(* delay any suffix of it, "m_readCommands is empty" may hold at any time. *)
(*                                                                         *)
(* The Lua program is abstracted to "a line hook is called" and "a         *)
(* step-over or step-return is ended outside of a line hook"; Stepping     *)
(* says when that is.                                                      *)
(***************************************************************************)
EXTENDS Integers, Sequences, FiniteSets, DebugState

CONSTANTS
    MaxCommands (* bound: what the user does at the frame                  *)

ASSUME SessionAssumption == MaxCommands \in Nat

VARIABLES
    pc,              (* "start" (WaitForDebuggerFrame), "lua" or "hook"    *)
    debugState,      (* m_debugState                                       *)
    prevState,       (* the hook's local: "BREAK" once it has announced    *)
    isMustUpdate,    (* m_isMustUpdate                                     *)
    waitUpdateCount, (* m_waitUpdateCount                                  *)
    updateCount,     (* Context::m_updateCount                             *)
    frameCount,      (* Mediator::m_updateCount                            *)
    stackFrame,      (* Mediator::m_stackFrame: 0 is the innermost one,    *)
                     (* k one that was chosen after the k-th UPDATE_SOURCE *)
    frameState,      (* what the last CHANGED_STATE told the views         *)
    c2f, f2c,        (* the two channels                                   *)
    up,              (* the ends ("ctx", "frame") that have m_connection   *)
    issued,          (* bound: what the user has done                      *)
    announced,       (* history: UPDATE_SOURCEs, sent or lost              *)
    stopAt,          (* history: the UPDATE_SOURCE that announced the stop *)
    seen             (* history: UPDATE_SOURCEs processed by the frame     *)

ctxVars == <<pc, debugState, prevState, isMustUpdate, waitUpdateCount,
             updateCount, announced, stopAt>>
frameVars == <<frameCount, stackFrame, frameState, issued, seen>>
vars == <<ctxVars, frameVars, c2f, f2c, up>>

(* What the user's commands ask for; a RESUME asks for "RUNNING".           *)
Requests == DebugStates

(* flag is isBreak of a CHANGED_STATE, isRefreshOnly of an UPDATE_SOURCE;   *)
(* VARLIST is the answer to an EVAL.                                        *)
CtxMessages ==
    [type : {"CHANGED_STATE", "UPDATE_SOURCE", "VARLIST", "END_CONNECTION"},
     flag : BOOLEAN, count : Nat, tag : Nat]

(* tag is history: how many UPDATE_SOURCEs the context has made, or the     *)
(* frame has answered, with and before this message.                        *)
FrameMessages ==
    [type : Requests \cup {"SUCCESSED", "SET_UPDATECOUNT", "EVAL",
                           "FORCE_UPDATESOURCE", "END_CONNECTION"},
     count : Nat, tag : Nat]

TypeOK ==
    /\ pc \in {"start", "lua", "hook"}
    /\ debugState \in DebugStates
    /\ prevState \in DebugStates
    /\ isMustUpdate \in BOOLEAN
    /\ waitUpdateCount \in Nat
    /\ updateCount \in Nat
    /\ frameCount \in Nat
    /\ stackFrame \in Nat
    /\ frameState \in {"none", "break", "run"}
    /\ c2f \in Seq(CtxMessages)
    /\ f2c \in Seq(FrameMessages)
    /\ up \subseteq {"ctx", "frame"}
    /\ issued \in Nat
    /\ announced \in Nat
    /\ stopAt \in Nat
    /\ seen \in Nat

Init ==
    /\ pc = "start"
    /\ debugState = "STEPINTO"
    /\ prevState = "RUNNING"
    /\ isMustUpdate = FALSE
    /\ waitUpdateCount = 0
    /\ updateCount = 0
    /\ frameCount = 0
    /\ stackFrame = 0
    /\ frameState = "none"
    /\ c2f = <<>>
    /\ f2c = <<>>
    /\ up = {"ctx", "frame"}
    /\ issued = 0
    /\ announced = 0
    /\ stopAt = 0
    /\ seen = 0

-----------------------------------------------------------------------------
(* The connection *)

Linked == up = {"ctx", "frame"}

(* SendCommand and ResponseCommand: nothing is sent without m_connection,   *)
(* and what is sent to an end that has closed is lost.                      *)
ToFrame(msgs) == c2f' = IF Linked THEN c2f \o msgs ELSE c2f
ToContext(msgs) == f2c' = IF Linked THEN f2c \o msgs ELSE f2c

CtxMessage(type, flag, count, tag) ==
    <<[type |-> type, flag |-> flag, count |-> count, tag |-> tag]>>

FrameMessage(type, count, tag) ==
    <<[type |-> type, count |-> count, tag |-> tag]>>

(* An end loses the connection (OnConnectionClosed): of what was on its way *)
(* to it only a prefix arrives, then the END_CONNECTION it tells itself.    *)
CloseContextEnd ==
    /\ "ctx" \in up
    /\ pc # "start"
    /\ up' = up \ {"ctx"}
    /\ \E n \in 0 .. Len(f2c) :
          f2c' = SubSeq(f2c, 1, n) \o FrameMessage("END_CONNECTION", 0, 0)
    /\ UNCHANGED <<ctxVars, frameVars, c2f>>

CloseFrameEnd ==
    /\ "frame" \in up
    /\ pc # "start"
    /\ up' = up \ {"frame"}
    /\ \E n \in 0 .. Len(c2f) :
          c2f' = SubSeq(c2f, 1, n) \o CtxMessage("END_CONNECTION", FALSE, 0, 0)
    /\ UNCHANGED <<ctxVars, frameVars, f2c>>

-----------------------------------------------------------------------------
(* The context *)

(* Mutant of ChangedState: a step that ends is not told. *)
ChangedStateButSteps(req, waiting) ==
    IF TakesEffect(debugState, req, waiting) /\ debugState \notin CountedSteps
    THEN CtxMessage("CHANGED_STATE", req = "BREAK", 0, announced)
    ELSE <<>>

(* SendChangedState, told whenever SetDebugState enters or leaves BREAK.    *)
ChangedState(req, waiting) ==
    IF TakesEffect(debugState, req, waiting)
    THEN CtxMessage("CHANGED_STATE", req = "BREAK", 0, announced)
    ELSE <<>>

SetDebugState(req) ==
    /\ debugState' = StateAfter(debugState, req, waitUpdateCount > 0)
    /\ ToFrame(ChangedState(req, waitUpdateCount > 0))

(* The frame is connected: Initialize returns to the host program. *)
Start ==
    /\ pc = "start"
    /\ pc' = "lua"
    /\ UNCHANGED <<debugState, prevState, isMustUpdate, waitUpdateCount,
                   updateCount, announced, stopAt, frameVars, c2f, f2c, up>>

(* HookCallback at a line, up to the loop: stops if a step or a breakpoint  *)
(* says so, as a step-into always does.                                     *)
HookLine ==
    /\ pc = "lua"
    /\ pc' = "hook"
    /\ prevState' = "RUNNING"
    /\ \/ SetDebugState("BREAK")
       \/ debugState # "STEPINTO" /\ UNCHANGED <<debugState, c2f>>
    /\ UNCHANGED <<isMustUpdate, waitUpdateCount, updateCount, announced,
                   stopAt, frameVars, f2c, up>>

(* A return, or the end of a coroutine, ends the step in progress. *)
StopOutsideLine ==
    /\ pc = "lua"
    /\ debugState \in CountedSteps
    /\ SetDebugState("BREAK")
    /\ UNCHANGED <<pc, prevState, isMustUpdate, waitUpdateCount, updateCount,
                   announced, stopAt, frameVars, f2c, up>>

(* HandleCommand takes the first command. *)
Receives(type) ==
    /\ pc \in {"start", "hook"}
    /\ f2c # <<>>
    /\ Head(f2c).type = type
    /\ f2c' = Tail(f2c)

HandleRequest(req) ==
    /\ Receives(req)
    /\ SetDebugState(req)
    /\ UNCHANGED <<pc, prevState, isMustUpdate, waitUpdateCount, updateCount,
                   announced, stopAt, frameVars, up>>

(* UpdateResponseWaiter: the frame has processed an UPDATE_SOURCE. *)
HandleSuccessed ==
    /\ Receives("SUCCESSED")
    /\ waitUpdateCount' = waitUpdateCount - 1
    /\ UNCHANGED <<pc, debugState, prevState, isMustUpdate, updateCount,
                   announced, stopAt, frameVars, c2f, up>>

HandleSetUpdateCount ==
    /\ Receives("SET_UPDATECOUNT")
    /\ updateCount' = IF Head(f2c).count > updateCount
                      THEN Head(f2c).count ELSE updateCount
    /\ UNCHANGED <<pc, debugState, prevState, isMustUpdate, waitUpdateCount,
                   announced, stopAt, frameVars, c2f, up>>

HandleForceUpdateSource ==
    /\ Receives("FORCE_UPDATESOURCE")
    /\ isMustUpdate' = TRUE
    /\ UNCHANGED <<pc, debugState, prevState, waitUpdateCount, updateCount,
                   announced, stopAt, frameVars, c2f, up>>

(* An evaluation is answered from within HandleCommand. *)
HandleEval ==
    /\ Receives("EVAL")
    /\ ToFrame(CtxMessage("VARLIST", FALSE, 0, announced))
    /\ UNCHANGED <<ctxVars, frameVars, up>>

(* HandleCommand returns -1, or the connection is found lost after it: the  *)
(* hook raises a Lua error, and the program goes on if that is caught.      *)
HandleEndConnection ==
    /\ pc = "hook"
    /\ \/ "ctx" \notin up /\ UNCHANGED f2c
       \/ Receives("END_CONNECTION")
    /\ pc' = "lua"
    /\ UNCHANGED <<debugState, prevState, isMustUpdate, waitUpdateCount,
                   updateCount, announced, stopAt, frameVars, c2f, up>>

(* "Break this loop if the state isn't STATE_BREAK." *)
LeaveHook ==
    /\ pc = "hook"
    /\ "ctx" \in up
    /\ debugState # "BREAK"
    /\ pc' = "lua"
    /\ UNCHANGED <<debugState, prevState, isMustUpdate, waitUpdateCount,
                   updateCount, announced, stopAt, frameVars, c2f, f2c, up>>

(* Mutant of IsRefreshOnly: the state of now. *)
IsRefreshOnlyByState == debugState = "BREAK"

(* "If the state has been 'break', this update is only for refresh." *)
IsRefreshOnly == prevState = "BREAK"

(* Mutant of MustAnnounce: only what FORCE_UPDATESOURCE asks for. *)
MustAnnounceIfForced == isMustUpdate

(* m_isMustUpdate || prevState != DEBUGSTATE_BREAK *)
MustAnnounce == isMustUpdate \/ prevState # "BREAK"

(* The rest of the loop's body; SendUpdateSource constructs the waiter,     *)
(* which counts, whether the command is sent or not.                        *)
SendUpdateSource ==
    /\ pc = "hook"
    /\ "ctx" \in up
    /\ debugState = "BREAK"
    /\ MustAnnounce
    /\ isMustUpdate' = FALSE
    /\ updateCount' = updateCount + 1
    /\ ToFrame(CtxMessage("UPDATE_SOURCE", IsRefreshOnly, updateCount + 1,
                          announced + 1))
    /\ waitUpdateCount' = waitUpdateCount + 1
    /\ prevState' = debugState
    /\ announced' = announced + 1
    /\ stopAt' = IF prevState = "BREAK" THEN stopAt ELSE announced'
    /\ UNCHANGED <<pc, debugState, frameVars, f2c, up>>

-----------------------------------------------------------------------------
(* The frame *)

(* ProcessAllRemoteCommands takes the first command. *)
Processes(type) ==
    /\ c2f # <<>>
    /\ Head(c2f).type = type
    /\ c2f' = Tail(c2f)

OnChangedState ==
    /\ Processes("CHANGED_STATE")
    /\ frameState' = IF Head(c2f).flag THEN "break" ELSE "run"
    /\ UNCHANGED <<ctxVars, frameCount, stackFrame, issued, seen, f2c, up>>

(* Mutant of CountsOnItsOwn: the context is not told. *)
CountsSilently(count) == <<>>

(* A SET_UPDATECOUNT for a count that is not newer than the frame's.        *)
CountsOnItsOwn(count) ==
    IF count > frameCount THEN <<>>
    ELSE FrameMessage("SET_UPDATECOUNT", frameCount + 1, seen)

(* ResponseSuccessed, once the views have been told. *)
AnswersUpdate(refreshOnly) == FrameMessage("SUCCESSED", 0, seen + 1)

OnUpdateSource ==
    /\ Processes("UPDATE_SOURCE")
    /\ LET count == Head(c2f).count
           refreshOnly == Head(c2f).flag
       IN  /\ frameCount' = IF count > frameCount THEN count ELSE frameCount + 1
           /\ stackFrame' = IF refreshOnly THEN stackFrame ELSE 0
           /\ ToContext(CountsOnItsOwn(count) \o AnswersUpdate(refreshOnly))
    /\ seen' = seen + 1
    /\ UNCHANGED <<ctxVars, frameState, issued, up>>

(* EvalResponseHandler: a successful evaluation refreshes the views. *)
OnVarList ==
    /\ Processes("VARLIST")
    /\ \/ ToContext(FrameMessage("FORCE_UPDATESOURCE", 0, seen))
       \/ UNCHANGED f2c
    /\ UNCHANGED <<ctxVars, frameVars, up>>

(* The frame forgets the session, to listen for another one. *)
OnEndConnection ==
    /\ Processes("END_CONNECTION")
    /\ frameCount' = 0
    /\ stackFrame' = 0
    /\ frameState' = "none"
    /\ UNCHANGED <<ctxVars, issued, seen, f2c, up>>

(* The user: a menu command, which is sent whatever the state ...           *)
UserRequest(req) ==
    /\ issued < MaxCommands
    /\ issued' = issued + 1
    /\ ToContext(FrameMessage(req, 0, seen))
    /\ UNCHANGED <<ctxVars, frameCount, stackFrame, frameState, seen, c2f, up>>

(* ... a line of the interactive view ...                                   *)
UserEval ==
    /\ issued < MaxCommands
    /\ issued' = issued + 1
    /\ ToContext(FrameMessage("EVAL", 0, seen))
    /\ UNCHANGED <<ctxVars, frameCount, stackFrame, frameState, seen, c2f, up>>

(* ... or a line of the backtrace (FocusBacktraceLine), which is filled by  *)
(* an UPDATE_SOURCE and disabled while the program runs.                    *)
UserFocusBacktrace ==
    /\ issued < MaxCommands
    /\ seen > 0
    /\ frameState # "run"
    /\ issued' = issued + 1
    /\ frameCount' = frameCount + 1
    /\ ToContext(FrameMessage("SET_UPDATECOUNT", frameCount + 1, seen))
    /\ stackFrame' = seen
    /\ UNCHANGED <<ctxVars, frameState, seen, c2f, up>>

-----------------------------------------------------------------------------

Handle ==
    \/ \E req \in Requests : HandleRequest(req)
    \/ HandleSuccessed
    \/ HandleSetUpdateCount
    \/ HandleForceUpdateSource
    \/ HandleEval
    \/ HandleEndConnection

Process ==
    \/ OnChangedState
    \/ OnUpdateSource
    \/ OnVarList
    \/ OnEndConnection

User ==
    \/ \E req \in Requests : UserRequest(req)
    \/ UserEval
    \/ UserFocusBacktrace

Next ==
    \/ Start
    \/ HookLine
    \/ StopOutsideLine
    \/ Handle
    \/ LeaveHook
    \/ SendUpdateSource
    \/ Process
    \/ User
    \/ CloseContextEnd
    \/ CloseFrameEnd

Spec == Init /\ [][Next]_vars

(* The loop in the hook wakes up at the latest after a second; the frame    *)
(* gets an idle event for each command; and the network delivers.           *)
FairSpec ==
    /\ Spec
    /\ WF_vars(Handle)
    /\ WF_vars(SendUpdateSource)
    /\ WF_vars(Process)

-----------------------------------------------------------------------------
(* Properties *)

Count(msgs, type) == Cardinality({i \in DOMAIN msgs : msgs[i].type = type})

(* m_waitUpdateCount is the number of UPDATE_SOURCEs on their way to the    *)
(* frame and of answers on their way back: none is lost, counted twice or   *)
(* taken for the answer to something else.                                  *)
WaitCountExact ==
    Linked => waitUpdateCount = Count(c2f, "UPDATE_SOURCE")
                                + Count(f2c, "SUCCESSED")

(* SetDebugState under m_waitUpdateCount: a command to go on is obeyed if   *)
(* and only if the user had been shown all that was announced of the stop   *)
(* when giving it.                                                          *)
ObeyedIffInformed ==
    [][ \A req \in Requests \ {"BREAK"} :
          HandleRequest(req) /\ debugState = "BREAK" =>
            (debugState' # "BREAK" <=> Head(f2c).tag = announced) ]_vars

(* What the views were last told, or will be told last by the CHANGED_STATEs *)
(* on their way, is whether the program is stopped.                         *)
FrameBelief ==
    LET told == {i \in DOMAIN c2f : c2f[i].type = "CHANGED_STATE"}
        stopped == debugState = "BREAK"
    IN  Linked =>
            IF told = {} THEN frameState = "break" <=> stopped
            ELSE \E i \in told : /\ \A j \in told : j <= i
                                 /\ c2f[i].flag <=> stopped

(* The update counts, by which the frame tells stale answers from new ones, *)
(* agree whenever the processes have heard each other out.                  *)
CountsConverge ==
    Linked /\ c2f = <<>> /\ f2c = <<>> => frameCount = updateCount

(* Once a stop is shown, a stack frame the user chose at an earlier one is  *)
(* no longer what evaluations refer to.                                     *)
ChosenFrameIsOfThisStop ==
    /\ Linked
    /\ pc = "hook"
    /\ prevState = "BREAK"
    /\ \A i \in DOMAIN c2f : c2f[i].type = "UPDATE_SOURCE" => c2f[i].flag
    => stackFrame = 0 \/ stackFrame >= stopAt

(* Every stop in a line hook is shown and answered for, so that the user    *)
(* can go on, unless it is ended before or the connection is lost.          *)
EveryStopIsShown ==
    pc = "hook" /\ debugState = "BREAK" ~>
        \/ prevState = "BREAK" /\ waitUpdateCount = 0
        \/ debugState # "BREAK"
        \/ ~Linked
=============================================================================
