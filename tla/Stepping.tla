------------------------------ MODULE Stepping ------------------------------
(***************************************************************************)
(* The stepping half of class Context (lldebug/src/context/context.cpp):   *)
(* the hook that counts calls per lua_State and decides where to stop, the *)
(* coroutine bookkeeping of coroutine.resume, and SetDebugState.           *)
(*                                                                         *)
(* Each action is what one entry of the code does while it holds m_mutex.  *)
(* The conversation with the frame is abstracted to "some request is       *)
(* handled now" and to whether an UPDATE_SOURCE is unanswered; module      *)
(* BreakSession models it.                                                 *)
(***************************************************************************)
EXTENDS LuaThreads, DebugState

CONSTANTS
    MaxCalls,   (* bound: how far CoroutineInfo::call may drift            *)
    Resteps,    (* TRUE: requests also arrive while a step is in progress  *)
    LuaErrors,  (* TRUE: Lua errors are caught by pcall                    *)
    HostResume  (* TRUE: the host drives coroutines with lldebug_resume    *)

ASSUME SteppingAssumption ==
    /\ MaxCalls \in Nat
    /\ Resteps \in BOOLEAN
    /\ LuaErrors \in BOOLEAN
    /\ HostResume \in BOOLEAN

VARIABLES
    pc,         (* where the Lua thread is: "start" (WaitForDebuggerFrame),*)
                (* "lua" or "hook" (the loop at the end of HookCallback)   *)
    debugState, (* m_debugState                                            *)
    stepinfo,   (* m_stepinfo                                              *)
    coroutines, (* m_coroutines                                            *)
    base,       (* history: frames[t] when t was last resumed              *)
    origin      (* history: where the counted step in progress was given   *)

ctxVars == <<debugState, stepinfo, coroutines>>
vars == <<luaVars, pc, ctxVars, base, origin>>

CoroutineInfo == [L : Threads, call : Int]

NoStep == [L |-> Main, frames |-> 0]

TypeOK ==
    /\ LuaTypeOK
    /\ pc \in {"start", "lua", "hook"}
    /\ debugState \in DebugStates
    /\ stepinfo \in CoroutineInfo
    /\ coroutines \in Seq(CoroutineInfo)
    /\ coroutines # <<>>
    /\ base \in [Threads -> Nat]
    /\ origin \in [L : Threads, frames : Nat]

-----------------------------------------------------------------------------

(* m_coroutines.back() *)
Back == coroutines[Len(coroutines)]

WithBack(info) == [coroutines EXCEPT ![Len(coroutines)] = info]

(* Mutant of WithinStep: the lua_State is not compared. *)
WithinStepOfAnyThread(info) == info.call <= stepinfo.call

(* m_stepinfo.L == info.L && info.call <= m_stepinfo.call *)
WithinStep(info) == stepinfo.L = info.L /\ info.call <= stepinfo.call

(* The origin of the step, as the user sees it: set by the request that     *)
(* starts a counted step, dropped when that step is over.                   *)
Track(req) ==
    origin' = IF debugState' \notin CountedSteps THEN NoStep
              ELSE IF debugState = debugState' THEN origin
              ELSE [L |-> Top, frames |-> frames[Top]]

(* SetDebugState(req). *)
SetDebugState(req, waiting) ==
    /\ debugState' = StateAfter(debugState, req, waiting)
    /\ stepinfo' = IF RecordsStep(debugState, req, waiting) THEN Back
                   ELSE stepinfo
    /\ Track(req)

(* SetDebugState(DEBUGSTATE_BREAK) under a condition. *)
BreakIf(cond) ==
    IF cond THEN SetDebugState("BREAK", FALSE)
    ELSE UNCHANGED <<debugState, stepinfo, origin>>

(* Context::Initialize: STEPINTO, one entry for the main lua_State.         *)
Init ==
    /\ LuaInit
    /\ pc = "start"
    /\ debugState = "STEPINTO"
    /\ stepinfo = [L |-> Main, call |-> 0]
    /\ coroutines = <<[L |-> Main, call |-> 0]>>
    /\ base = [t \in Threads |-> 0]
    /\ origin = NoStep

(* The frame is connected and Initialize returns to the host program.       *)
Start ==
    /\ pc = "start"
    /\ pc' = "lua"
    /\ UNCHANGED <<luaVars, ctxVars, base, origin>>

(* LUA_HOOKCALL *)
HookCall ==
    /\ pc = "lua"
    /\ \E isNative \in BOOLEAN : LuaCall(isNative)
    /\ coroutines' = WithBack([Back EXCEPT !.call = @ + 1])
    /\ UNCHANGED <<pc, debugState, stepinfo, base, origin>>

(* The condition under which a return ends a step-return.                   *)
StopsAtReturn == debugState = "STEPRETURN" /\ WithinStep(Back)

(* Mutant of HookReturn: a return that ends the step is not counted. *)
HookReturnBreakFirst ==
    /\ pc = "lua"
    /\ LuaReturn
    /\ BreakIf(StopsAtReturn)
    /\ coroutines' = IF StopsAtReturn THEN coroutines
                     ELSE WithBack([Back EXCEPT !.call = @ - 1])
    /\ UNCHANGED <<pc, base>>

(* LUA_HOOKRET and LUA_HOOKTAILRET *)
HookReturn ==
    /\ pc = "lua"
    /\ LuaReturn
    /\ BreakIf(StopsAtReturn)
    /\ coroutines' = WithBack([Back EXCEPT !.call = @ - 1])
    /\ UNCHANGED <<pc, base>>

(* The switch "Stop running if need." *)
StopsAtLine ==
    \/ debugState = "STEPOVER" /\ WithinStep(Back)
    \/ debugState = "STEPINTO"

(* LUA_HOOKLINE, up to the loop that handles the commands.                  *)
HookLine(isBreakpoint) ==
    /\ pc = "lua"
    /\ LuaLine
    /\ BreakIf(StopsAtLine \/ isBreakpoint)
    /\ pc' = "hook"
    /\ UNCHANGED <<coroutines, base>>

(* A request that finds a step in progress, and is ignored.                 *)
Overtaken(req) ==
    /\ debugState \in Steps
    /\ req \notin {debugState, "BREAK"}

(* HandleCommand takes a STEPINTO, STEPOVER, STEPRETURN, BREAK or RESUME.   *)
HandleRequest(req) ==
    /\ pc \in {"start", "hook"}
    /\ Overtaken(req) => Resteps
    /\ \E waiting \in BOOLEAN : SetDebugState(req, waiting)
    /\ UNCHANGED <<luaVars, pc, coroutines, base>>

(* "Break this loop if the state isn't STATE_BREAK."                        *)
LeaveHook ==
    /\ pc = "hook"
    /\ debugState # "BREAK"
    /\ pc' = "lua"
    /\ UNCHANGED <<luaVars, ctxVars, base, origin>>

-----------------------------------------------------------------------------

(* auxresume up to lua_resume: BeginCoroutine(co).                          *)
BeginCoroutine ==
    /\ pc = "lua"
    /\ \E co \in Threads :
          /\ LuaResume(co)
          /\ coroutines' = Append(coroutines, [L |-> co, call |-> 0])
          /\ base' = [base EXCEPT ![co] = frames[co]]
    /\ UNCHANGED <<pc, debugState, stepinfo, origin>>

(* Mutant of EndForcesBreak: only a step-over is ended. *)
EndForcesBreakOnStepOver(L) == debugState = "STEPOVER" /\ stepinfo.L = L

(* "When it goes through the coroutine set break mark, we force to break."  *)
EndForcesBreak(L) == debugState \in CountedSteps /\ stepinfo.L = L

(* auxresume after lua_resume: EndCoroutine(co).  A thread resumed by the   *)
(* host has no entry of its own, and lldebug_resume does not call this.     *)
EndCoroutine ==
    /\ pc = "lua"
    /\ Back.L = Top
    /\ LuaYield \/ LuaFinish \/ LuaFail
    /\ BreakIf(EndForcesBreak(Top))
    /\ coroutines' = Popped(coroutines)
    /\ UNCHANGED <<pc, base>>

(* lua_resume fails at once: BeginCoroutine(co), then EndCoroutine(co).     *)
ResumeRefused ==
    /\ pc = "lua"
    /\ \E co \in Threads :
          /\ LuaResumeRefused(co)
          /\ BreakIf(EndForcesBreak(co))
    /\ UNCHANGED <<pc, coroutines, base>>

(* Bound: the two ways in which CoroutineInfo::call loses touch with the     *)
(* activations are taken only while it is within MaxCalls.                  *)
CountMayDrift == Back.call \in -MaxCalls .. MaxCalls

(* An error caught by pcall: the hook is not told of the lost activations.  *)
CaughtError ==
    /\ LuaErrors
    /\ pc = "lua"
    /\ CountMayDrift
    /\ \E left \in 0..MaxDepth : LuaUnwind(left)
    /\ UNCHANGED <<pc, ctxVars, base, origin>>

(* Context::Resume and its return: m_coroutines is not told.                *)
HostResumeBegin ==
    /\ HostResume
    /\ pc = "lua"
    /\ CountMayDrift
    /\ \E co \in Threads :
          /\ LuaHostResume(co)
          /\ base' = [base EXCEPT ![co] = frames[co]]
    /\ UNCHANGED <<pc, ctxVars, origin>>

HostResumeEnd ==
    /\ HostResume
    /\ pc = "lua"
    /\ Back.L # Top
    /\ LuaYield \/ LuaFinish \/ LuaFail
    /\ UNCHANGED <<pc, ctxVars, base, origin>>

Next ==
    \/ Start
    \/ HookCall
    \/ HookReturn
    \/ \E isBreakpoint \in BOOLEAN : HookLine(isBreakpoint)
    \/ \E req \in DebugStates : HandleRequest(req)
    \/ LeaveHook
    \/ BeginCoroutine
    \/ EndCoroutine
    \/ ResumeRefused
    \/ CaughtError
    \/ HostResumeBegin
    \/ HostResumeEnd

Spec == Init /\ [][Next]_vars

-----------------------------------------------------------------------------
(* Properties *)

(* "Saving the call count of each lua_State object" (context.h:204-208):    *)
(* the count of each resumed thread is the number of its activations, from  *)
(* where it was resumed.                                                    *)
CallCountOfEach ==
    \A i \in DOMAIN coroutines :
        LET t == coroutines[i].L IN coroutines[i].call = frames[t] - base[t]

(* A step-over or step-return in progress is measured against a thread that *)
(* is still running, so that something can end it: EndCoroutine never pops  *)
(* the thread a step waits for without breaking.                            *)
StepTargetRuns ==
    debugState \in CountedSteps =>
        \E i \in DOMAIN coroutines : coroutines[i].L = stepinfo.L

(* "ignore" (context.cpp:731): a request that finds a step in progress      *)
(* leaves that step as it was.                                              *)
IgnoredRequestHasNoEffect ==
    [][ \A req \in DebugStates :
          HandleRequest(req) /\ Overtaken(req) => UNCHANGED ctxVars ]_vars

(* The counters implement the stepping commands the user is promised.       *)
Semantics == INSTANCE StepSemantics WITH mode <- debugState

ImplementsStepSemantics == Semantics!SemSpec
=============================================================================
