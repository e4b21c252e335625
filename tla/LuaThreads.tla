----------------------------- MODULE LuaThreads -----------------------------
(***************************************************************************)
(* The debugged Lua program, as far as the debugger's hooks can tell one   *)
(* program from another: which lua_States are running, nested by resume,   *)
(* and how many function activations each has.  Lua 5.1 is not part of the *)
(* repository; these action fragments say which hooks and coroutine calls  *)
(* it makes, in which order, as lldebug's hook and its coroutine.create /  *)
(* coroutine.resume replacements rely on.                                  *)
(*                                                                         *)
(* A lost tail-called frame counts as an activation until its TAILRET, so  *)
(* that every CALL hook has one RET or TAILRET.  A thread stands for a     *)
(* lua_State address: after it finished or failed it may be started again, *)
(* which is a new coroutine at the same address.                           *)
(***************************************************************************)
EXTENDS Integers, Sequences

CONSTANTS
    Threads,    (* the lua_States                                          *)
    Main,       (* the one made by lua_open                                *)
    MaxDepth    (* bound: activations of one thread                        *)

ASSUME LuaAssumption ==
    /\ Main \in Threads
    /\ MaxDepth \in Nat \ {0}

VARIABLES
    frames,     (* frames[t]: activations of thread t                      *)
    native,     (* native[t]: the innermost one is a C function such as    *)
                (* coroutine.resume or coroutine.yield                     *)
    lua         (* the running threads, outermost first                    *)

luaVars == <<frames, native, lua>>

LuaTypeOK ==
    /\ frames \in [Threads -> Nat]
    /\ native \in [Threads -> BOOLEAN]
    /\ lua \in Seq(Threads)
    /\ lua # <<>>

(* The thread whose hooks fire. *)
Top == lua[Len(lua)]

Popped(s) == SubSeq(s, 1, Len(s) - 1)

IsRunning(t) == \E i \in DOMAIN lua : lua[i] = t

LuaInit ==
    /\ frames = [t \in Threads |-> 0]
    /\ native = [t \in Threads |-> FALSE]
    /\ lua = <<Main>>

(* A function is called; the body of a coroutine is a Lua function. *)
LuaCall(isNative) ==
    /\ ~native[Top]
    /\ frames[Top] < MaxDepth
    /\ isNative => frames[Top] > 0
    /\ frames' = [frames EXCEPT ![Top] = @ + 1]
    /\ native' = [native EXCEPT ![Top] = isNative]
    /\ UNCHANGED lua

(* The innermost function returns. *)
LuaReturn ==
    /\ frames[Top] > 0
    /\ frames' = [frames EXCEPT ![Top] = @ - 1]
    /\ native' = [native EXCEPT ![Top] = FALSE]
    /\ UNCHANGED lua

(* A new line of a Lua function is reached. *)
LuaLine ==
    /\ frames[Top] > 0
    /\ ~native[Top]
    /\ UNCHANGED luaVars

(* coroutine.resume(co), co being fresh or suspended in a yield. *)
LuaResume(co) ==
    /\ native[Top]
    /\ ~IsRunning(co)
    /\ lua' = Append(lua, co)
    /\ UNCHANGED <<frames, native>>

(* coroutine.resume(co) of a coroutine that is itself running. *)
LuaResumeRefused(co) ==
    /\ native[Top]
    /\ IsRunning(co)
    /\ co # Main
    /\ UNCHANGED luaVars

(* coroutine.yield: the thread stays inside the C function. *)
LuaYield ==
    /\ Len(lua) > 1
    /\ native[Top]
    /\ lua' = Popped(lua)
    /\ UNCHANGED <<frames, native>>

(* The body of a coroutine has returned. *)
LuaFinish ==
    /\ Len(lua) > 1
    /\ frames[Top] = 0
    /\ lua' = Popped(lua)
    /\ UNCHANGED <<frames, native>>

(* An error nobody catches inside the coroutine. *)
LuaFail ==
    /\ Len(lua) > 1
    /\ frames[Top] > 0
    /\ lua' = Popped(lua)
    /\ frames' = [frames EXCEPT ![Top] = 0]
    /\ native' = [native EXCEPT ![Top] = FALSE]

(* An error caught by a pcall of the same thread, or of the host for the    *)
(* main thread: left activations remain, and no RET hook is called for the  *)
(* others.                                                                  *)
LuaUnwind(left) ==
    /\ left < frames[Top]
    /\ left = 0 => Top = Main
    /\ frames' = [frames EXCEPT ![Top] = left]
    /\ native' = [native EXCEPT ![Top] = FALSE]
    /\ UNCHANGED lua

(* lldebug_resume(co) from the host's C code, outside any Lua function. *)
LuaHostResume(co) ==
    /\ lua = <<Main>>
    /\ frames[Main] = 0
    /\ co # Main
    /\ lua' = Append(lua, co)
    /\ UNCHANGED <<frames, native>>
=============================================================================
