----------------------------- MODULE DebugState -----------------------------
(***************************************************************************)
(* The values of Context::m_debugState and the decision that               *)
(* Context::SetDebugState takes (lldebug/src/context/context.cpp:675-750), *)
(* as operators of the current state, the requested one and whether an     *)
(* UPDATE_SOURCE is still unanswered (m_waitUpdateCount > 0).              *)
(*                                                                         *)
(* DEBUGSTATE_INITIAL is left out: Initialize stores STEPINTO before the   *)
(* hook can run and before the engine is started, and nothing goes back.   *)
(***************************************************************************)

(* The three requests that let the debuggee run up to a nearby stop. *)
Steps == {"STEPINTO", "STEPOVER", "STEPRETURN"}

(* The two that are measured against m_stepinfo. *)
CountedSteps == {"STEPOVER", "STEPRETURN"}

DebugStates == {"RUNNING", "BREAK"} \cup Steps

(* Mutant of ReturnsEarly: the unconfirmed stop is not looked at. *)
ReturnsEarlyIfSame(cur, req, waiting) == req = cur

(* The request is the current state, or a stop the frame has not confirmed  *)
(* yet is asked to end: SetDebugState returns at once.                      *)
ReturnsEarly(cur, req, waiting) ==
    \/ req = cur
    \/ cur = "BREAK" /\ waiting

(* The requests that take effect; the others are ignored. *)
TakesEffect(cur, req, waiting) ==
    /\ ~ReturnsEarly(cur, req, waiting)
    /\ cur # "BREAK" => req = "BREAK"

(* m_debugState after SetDebugState(req). *)
StateAfter(cur, req, waiting) ==
    IF TakesEffect(cur, req, waiting) THEN req ELSE cur

(* The tail of SetDebugState, "Set stepinfo that has lua_State* and call    *)
(* count": reached by every call that did not return early, an ignored      *)
(* request included.                                                        *)
RecordsStep(cur, req, waiting) ==
    /\ ~ReturnsEarly(cur, req, waiting)
    /\ StateAfter(cur, req, waiting) \in CountedSteps
=============================================================================
