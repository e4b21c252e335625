----------------------------- MODULE ContextLife -----------------------------
(***************************************************************************)
(* The life of the contexts of a process and of the processes after it:    *)
(* lldebug_open, the script's LoadConfig, lldebug_close, which takes the   *)
(* context out of ContextManager's map, and the SaveConfig of its          *)
(* destructor; ContextManager composed with ConfigFile.  A context is used *)
(* once.  Contexts may live in several threads; the properties say what    *)
(* holds when they do not, and when they do.                               *)
(***************************************************************************)
EXTENDS ContextManager, Integers

CONSTANTS MaxSessions (* bound: contexts that load the script              *)

ASSUME LifeAssumption == MaxSessions \in Nat

VARIABLES
    pc, session, loaded, handle, files, tmp, target, sessions, last, lost,
    together, (* history: a context was opened before another was saved    *)
    killed    (* history: the process was killed and started again         *)

configVars == <<pc, session, loaded, handle, files, tmp, target, sessions,
                last, lost>>

Cfg == INSTANCE ConfigFile

lifeVars == <<vars, configVars, together, killed>>

LifeInit ==
    /\ Init
    /\ Cfg!Init
    /\ together = FALSE
    /\ killed = FALSE

(* In ~Context, or in the script. *)
AtWork == {c \in Contexts : c \in Open \/ pc[c] # "off"}

-----------------------------------------------------------------------------

OpenContext ==
    /\ \E c \in Contexts, L \in Addresses : lldebug_open(c, L)
    /\ together' = (together \/ AtWork # {})
    /\ UNCHANGED <<configVars, killed>>

(* LoadFile of the first file, which names the config file. *)
LoadFile(c) ==
    /\ c \in Open /\ session[c] = 0
    /\ Cfg!LoadConfig(c)
    /\ UNCHANGED <<vars, together, killed>>

Coroutines ==
    /\ \E L \in Addresses :
          Collect(L) \/ \E NL \in Addresses : NewThread(L, NL)
    /\ UNCHANGED <<configVars, together, killed>>

CloseContext ==
    /\ \E L \in Addresses : lldebug_close(L)
    /\ UNCHANGED <<configVars, together, killed>>

(* The destructor of a context that was closed. *)
Destroyed(c) == main[c] = "closed"

SaveContext(c) ==
    /\ Destroyed(c)
    /\ Cfg!SaveConfig(c)
    /\ UNCHANGED <<vars, together, killed>>

(* The process is killed: its memory goes, the files stay. *)
Kill ==
    /\ AtWork # {}
    /\ map' = [L \in {} |-> None]
    /\ owner' = [L \in Addresses |-> None]
    /\ main' = [c \in Contexts |-> IF c \in Open THEN "closed" ELSE main[c]]
    /\ Cfg!Crash
    /\ killed' = TRUE
    /\ UNCHANGED <<overlap, together>>

LifeNext ==
    \/ OpenContext \/ Coroutines \/ CloseContext
    \/ \E c \in Contexts : LoadFile(c) \/ SaveContext(c)
    \/ Kill

LifeSpec == LifeInit /\ [][LifeNext]_lifeVars

-----------------------------------------------------------------------------
(* Properties *)

(* configfile.h: "Save file only when the output was successed."  A config  *)
(* file that is there holds all of one session's breakpoints, wherever the  *)
(* process was killed; not if the disk was full, which the stream does not  *)
(* tell, or if two contexts share the temporary file.                       *)
TargetIsWhole ==
    target # 0 /\ ~lost /\ ~together => files[target].state = "whole"

(* Between the removal of the old file and the renaming of the new one      *)
(* neither is under its name (configfile.cpp:177): the new one is complete  *)
(* by then, and stays where a user can find it until the next session of    *)
(* the script saves.                                                        *)
CrashLeavesACopy ==
    target = 0 /\ last # 0 /\ ~lost /\ ~together =>
       \/ tmp # 0 /\ files[tmp].state = "whole"
       \/ \E c \in Contexts : session[c] > last /\ loaded[c] = 0

(* The config file is whole, or its new content is; and the types.          *)
ConfigIsKept == Cfg!TypeOK /\ TargetIsWhole /\ CrashLeavesACopy

(* Closing a context is enough to keep its breakpoints: lldebug_close finds *)
(* it in the map, whatever its coroutines and those of earlier contexts     *)
(* left there, its destructor saves, and the next session begins with just  *)
(* those (context.cpp:271, 291, 1039).  If something was killed, or a disk  *)
(* was full, it begins with those that were committed last, or with none.   *)
BreakpointsAreKept ==
    [][\A c \in Contexts :
          session'[c] # session[c] /\ ~together =>
             IF killed \/ lost THEN loaded'[c] \in {0, last}
             ELSE loaded'[c] = session'[c] - 1]_lifeVars

=============================================================================
