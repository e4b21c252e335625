---------------------------- MODULE StepSemantics ----------------------------
(***************************************************************************)
(* What the stepping commands promise to the user, in terms of the         *)
(* activations of the Lua program and without any counter kept by the      *)
(* debugger:                                                               *)
(*                                                                         *)
(*   - a step-into stops at the next line, whatever the thread;            *)
(*   - a step-over stops at the first line of the thread it was given in   *)
(*     that is not in a function called since;                             *)
(*   - a step-return stops when the function it was given in returns;      *)
(*   - both stop when that thread yields or ends;                          *)
(*   - besides those only a breakpoint or the user's Break stops, and      *)
(*     a request given while the debuggee runs has no effect.              *)
(*                                                                         *)
(* Stepping implements it with m_coroutines and m_stepinfo.                *)
(***************************************************************************)
EXTENDS LuaThreads, DebugState

VARIABLES
    pc,         (* "start", "lua" or "hook", the line hook's loop          *)
    mode,       (* as m_debugState                                         *)
    origin      (* where the counted step in progress was given            *)

semVars == <<luaVars, pc, mode, origin>>

NoStep == [L |-> Main, frames |-> 0]

Here == [L |-> Top, frames |-> frames[Top]]

(* The innermost activation of Top is not deeper than the origin's. *)
BackAtOrigin == Top = origin.L /\ frames[Top] <= origin.frames

SemInit ==
    /\ LuaInit
    /\ pc = "start"
    /\ mode = "STEPINTO"
    /\ origin = NoStep

(* mode becomes m; the origin lasts as long as a counted step. *)
Enter(m) ==
    /\ mode' = m
    /\ origin' = IF m \in CountedSteps THEN origin ELSE NoStep

StopIf(cond) == IF cond THEN Enter("BREAK") ELSE UNCHANGED <<mode, origin>>

SemStart ==
    /\ pc = "start"
    /\ pc' = "lua"
    /\ UNCHANGED <<luaVars, mode, origin>>

SemCall ==
    /\ pc = "lua"
    /\ \E isNative \in BOOLEAN : LuaCall(isNative)
    /\ UNCHANGED <<pc, mode, origin>>

SemReturn ==
    /\ pc = "lua"
    /\ LuaReturn
    /\ StopIf(mode = "STEPRETURN" /\ BackAtOrigin)
    /\ UNCHANGED pc

SemLine(isBreakpoint) ==
    /\ pc = "lua"
    /\ LuaLine
    /\ StopIf(\/ isBreakpoint
              \/ mode = "STEPINTO"
              \/ mode = "STEPOVER" /\ BackAtOrigin)
    /\ pc' = "hook"

(* The user's request; one that comes too early for the stop is ignored. *)
SemRequest(req) ==
    /\ pc \in {"start", "hook"}
    /\ \/ UNCHANGED <<mode, origin>>
       \/ /\ mode # "BREAK"
          /\ req = "BREAK"
          /\ Enter("BREAK")
       \/ /\ mode = "BREAK"
          /\ mode' = req
          /\ origin' = IF req \in CountedSteps THEN Here ELSE NoStep
    /\ UNCHANGED <<luaVars, pc>>

SemGoOn ==
    /\ pc = "hook"
    /\ mode # "BREAK"
    /\ pc' = "lua"
    /\ UNCHANGED <<luaVars, mode, origin>>

SemResume ==
    /\ pc = "lua"
    /\ \E co \in Threads : LuaResume(co)
    /\ UNCHANGED <<pc, mode, origin>>

(* A resume that Lua refuses may still end the step given in co. *)
SemResumeRefused ==
    /\ pc = "lua"
    /\ \E co \in Threads :
          /\ LuaResumeRefused(co)
          /\ StopIf(mode \in CountedSteps /\ origin.L = co)
    /\ UNCHANGED pc

SemLeave ==
    /\ pc = "lua"
    /\ LuaYield \/ LuaFinish \/ LuaFail
    /\ StopIf(mode \in CountedSteps /\ origin.L = Top)
    /\ UNCHANGED pc

SemNext ==
    \/ SemStart
    \/ SemCall
    \/ SemReturn
    \/ \E isBreakpoint \in BOOLEAN : SemLine(isBreakpoint)
    \/ \E req \in DebugStates : SemRequest(req)
    \/ SemGoOn
    \/ SemResume
    \/ SemResumeRefused
    \/ SemLeave

SemSpec == SemInit /\ [][SemNext]_semVars
=============================================================================
