--------------------------- MODULE ProtectedCalls ---------------------------
(***************************************************************************)
(* Calls that catch errors, nested as Lua and the host program nest them:  *)
(* Context::PCall and Resume, which report an error unless m_isCallSuccess *)
(* is set, the pcall and coroutine.resume of the Lua program, which report *)
(* nothing, and the frame's evaluations, which run inside the loop of      *)
(* HookCallback with m_isEnabled of their own (scoped_lua).                *)
(***************************************************************************)
EXTENDS Integers, Sequences, SequencesExt

CONSTANTS
    MaxDepth (* bound: calls on the stack                                  *)

ASSUME CallsAssumption == MaxDepth \in Nat \ {0}

VARIABLES
    stack,       (* the calls that can catch an error, and the hooks that  *)
                 (* have stopped; innermost last                           *)
    isCallSuccess, (* m_isCallSuccess                                      *)
    isEnabled,   (* m_isEnabled                                            *)
    connected,   (* the engine has its m_connection                        *)
    raised,      (* the error that is unwinding the stack                  *)
    caught       (* what the last PCall or Resume that caught did          *)

callVars == <<stack, isCallSuccess, isEnabled, connected, raised, caught>>

HostCalls == {"PCall", "Resume"}
ScriptCalls == {"pcall", "resume"}

(* old and debug are scoped_lua's m_isOldEnabled and withDebug.  inside is  *)
(* history: a host call in this one succeeded, or met a lost connection.    *)
Call == [kind : HostCalls \cup ScriptCalls \cup {"eval", "stop"},
         old : BOOLEAN, debug : BOOLEAN, inside : BOOLEAN]

CallsTypeOK ==
    /\ stack \in Seq(Call) /\ Len(stack) <= MaxDepth
    /\ isCallSuccess \in BOOLEAN
    /\ isEnabled \in BOOLEAN
    /\ connected \in BOOLEAN
    /\ raised \in {"none", "error", "quit"}
    /\ caught \in [what : {"none", "error", "quit"}, reported : BOOLEAN,
                   inside : BOOLEAN]

NothingCaught == [what |-> "none", reported |-> FALSE, inside |-> FALSE]

CallsInit ==
    /\ stack = <<>>
    /\ isCallSuccess \in BOOLEAN (* the constructor does not set it         *)
    /\ isEnabled = TRUE
    /\ connected = TRUE
    /\ raised = "none"
    /\ caught = NothingCaught

-----------------------------------------------------------------------------
Top == Last(stack)
Below == Front(stack)
TopIs(kinds) == stack # <<>> /\ Top.kind \in kinds

(* Lua or host code runs: nothing unwinds, and no hook has stopped it. *)
Running == raised = "none" /\ ~TopIs({"stop"})

(* scoped_lua::init *)
Pushed(kind, debug) ==
    [kind |-> kind, old |-> isEnabled, debug |-> debug, inside |-> FALSE]

Push(kind, debug) ==
    /\ Len(stack) < MaxDepth
    /\ stack' = Append(stack, Pushed(kind, debug))

(* Every host call on the stack has something inside now. *)
Marked(s) ==
    [i \in DOMAIN s |->
       IF s[i].kind \in HostCalls THEN [s[i] EXCEPT !.inside = TRUE] ELSE s[i]]

(* Lua calls no hook from a hook of the same thread: external. *)
HooksAllowed ==
    \A i \in DOMAIN stack : stack[i].kind = "stop" =>
       \E j \in i + 1 .. Len(stack) : stack[j].kind \in {"resume", "Resume"}

(* Mutant of BeginHostCall: the flag of an earlier call is kept. *)
BeginHostCallUnset == isCallSuccess

(* m_isCallSuccess = false *)
BeginHostCall == FALSE

(* PCall and Resume, up to lua_pcall and lua_resume. *)
CallHost ==
    /\ Running
    /\ \E kind \in HostCalls : Push(kind, FALSE)
    /\ isCallSuccess' = BeginHostCall
    /\ UNCHANGED <<isEnabled, connected, raised, caught>>

(* The program's own pcall, and coroutine.resume (auxresume). *)
CallScript ==
    /\ Running
    /\ \E kind \in ScriptCalls : Push(kind, FALSE)
    /\ UNCHANGED <<isCallSuccess, isEnabled, connected, raised, caught>>

(* ret == 0 || ret == LUA_YIELD *)
ReturnHost ==
    /\ Running /\ TopIs(HostCalls)
    /\ stack' = Marked(Below)
    /\ isCallSuccess' = TRUE
    /\ UNCHANGED <<isEnabled, connected, raised, caught>>

ReturnScript ==
    /\ Running /\ TopIs(ScriptCalls)
    /\ stack' = Below
    /\ UNCHANGED <<isCallSuccess, isEnabled, connected, raised, caught>>

(* An error of the program. *)
RaiseError ==
    /\ Running /\ stack # <<>>
    /\ raised' = "error"
    /\ UNCHANGED <<stack, isCallSuccess, isEnabled, connected, caught>>

(* lldebug_assert, which openbase registers as the program's assert: it     *)
(* fails for nil and for true.                                              *)
lldebug_assert ==
    /\ Running /\ stack # <<>>
    /\ \E value \in {"nil", "false", "true", "other"} :
          raised' = IF value \in {"nil", "true"} THEN "error" ELSE "none"
    /\ UNCHANGED <<stack, isCallSuccess, isEnabled, connected, caught>>

(* Mutant of QuitMark: the hook only raises. *)
QuitUnmarked == isCallSuccess

(* m_isCallSuccess = true, before luaL_error(L, "") *)
QuitMark == TRUE

(* A line hook: it passes, stops, or finds that the connection is lost.     *)
LineHook ==
    /\ Running /\ stack # <<>>
    /\ HooksAllowed /\ isEnabled
    /\ IF connected
       THEN Push("stop", FALSE) /\ UNCHANGED <<isCallSuccess, raised>>
       ELSE /\ stack' = Marked(stack)
            /\ isCallSuccess' = QuitMark
            /\ raised' = "quit"
    /\ UNCHANGED <<isEnabled, connected, caught>>

(* The loop of a stopped hook goes on to the program, or finds the          *)
(* connection lost.                                                         *)
LeaveStop ==
    /\ raised = "none" /\ TopIs({"stop"})
    /\ IF connected
       THEN stack' = Below /\ UNCHANGED <<isCallSuccess, raised>>
       ELSE /\ stack' = Marked(Below)
            /\ isCallSuccess' = QuitMark
            /\ raised' = "quit"
    /\ UNCHANGED <<isEnabled, connected, caught>>

(* HandleCommand, in the loop of a stopped hook: an evaluation with hooks,  *)
(* or a listing of variables, whose tostring runs without them.             *)
Evaluate ==
    /\ raised = "none" /\ TopIs({"stop"})
    /\ \E debug \in BOOLEAN :
          /\ Push("eval", debug)
          /\ isEnabled' = debug
    /\ UNCHANGED <<isCallSuccess, connected, raised, caught>>

(* Mutant of Restored: an evaluation leaves the hooks as it had them. *)
RestoredNot(call) == call.debug

(* ~scoped_lua *)
Restored(call) == call.old

(* An evaluation ends, or fails: LuaEval's lua_pcall catches, and           *)
(* ~scoped_lua runs in both cases.                                          *)
LeaveEval ==
    /\ TopIs({"eval"})
    /\ stack' = Below
    /\ isEnabled' = Restored(Top)
    /\ raised' = "none"
    /\ UNCHANGED <<isCallSuccess, connected, caught>>

(* PCall and Resume, after an error: "if (m_isCallSuccess)". *)
CatchHost ==
    /\ raised # "none" /\ TopIs(HostCalls)
    /\ caught' = [what |-> raised, reported |-> ~isCallSuccess,
                  inside |-> Top.inside]
    /\ stack' = Below
    /\ raised' = "none"
    /\ UNCHANGED <<isCallSuccess, isEnabled, connected>>

CatchScript ==
    /\ raised # "none" /\ TopIs(ScriptCalls)
    /\ stack' = Below
    /\ raised' = "none"
    /\ UNCHANGED <<isCallSuccess, isEnabled, connected, caught>>

LoseConnection ==
    /\ connected
    /\ connected' = FALSE
    /\ UNCHANGED <<stack, isCallSuccess, isEnabled, raised, caught>>

CallsNext ==
    \/ CallHost \/ CallScript
    \/ ReturnHost \/ ReturnScript
    \/ RaiseError \/ lldebug_assert
    \/ LineHook \/ LeaveStop
    \/ Evaluate \/ LeaveEval
    \/ CatchHost \/ CatchScript
    \/ LoseConnection

CallsSpec == CallsInit /\ [][CallsNext]_callVars

-----------------------------------------------------------------------------
(* Properties *)

(* The error that ends a program whose frame is gone is not shown to anyone *)
(* as an error of the program, however the calls are nested                 *)
(* (context.cpp:847, 1178).                                                 *)
QuitIsSilent == caught.what = "quit" => ~caught.reported

(* m_isCallSuccess is one flag for all calls: an error may go unreported    *)
(* only if a host call inside the failing one succeeded or lost the         *)
(* connection, never because of a call before it (context.cpp:1171).        *)
UnreportedHasACauseInside ==
    caught.what = "error" /\ ~caught.reported => caught.inside

(* Whether hooks are called is what the innermost evaluation asked for,     *)
(* whichever way the ones inside it ended (luautils.cpp:482).  And the      *)
(* types.                                                                   *)
EnabledIsInnermosts ==
    LET evals == {i \in DOMAIN stack : stack[i].kind = "eval"}
    IN  CallsTypeOK /\ isEnabled = (evals # {} => stack[Max(evals)].debug)

=============================================================================
