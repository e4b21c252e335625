--------------------------- MODULE Stepping_proofs ---------------------------
(***************************************************************************)
(* Proofs about Stepping, for any set of lua_States and any depth.         *)
(***************************************************************************)
EXTENDS Stepping, SequenceTheorems, TLAPS

(* What the environment guarantees: the main thread is the outermost one    *)
(* and no thread runs twice.                                                *)
LuaInv ==
    /\ LuaTypeOK
    /\ lua[1] = Main
    /\ \A i, j \in DOMAIN lua : lua[i] = lua[j] => i = j

(* Popping keeps all elements but the last. *)
LEMMA PoppedProperties ==
    ASSUME NEW S, NEW s \in Seq(S), s # <<>>
    PROVE  /\ Popped(s) \in Seq(S)
           /\ Len(Popped(s)) = Len(s) - 1
           /\ \A i \in 1 .. Len(s) - 1 : Popped(s)[i] = s[i]
<1>1. Len(s) \in Nat /\ Len(s) > 0
  BY EmptySeq, LenProperties
<1>2. \A i \in 1 .. Len(s) - 1 : s[i] \in S
  BY <1>1, ElementOfSeq
<1>3. /\ SubSeq(s, 1, Len(s) - 1) \in Seq(S)
      /\ Len(SubSeq(s, 1, Len(s) - 1))
           = IF 1 <= Len(s) - 1 THEN (Len(s) - 1) - 1 + 1 ELSE 0
      /\ \A i \in 1 .. (Len(s) - 1) - 1 + 1 :
            SubSeq(s, 1, Len(s) - 1)[i] = s[1 + i - 1]
  <2>1. 1 \in Int /\ Len(s) - 1 \in Int
    BY <1>1
  <2> QED
    BY ONLY <1>2, <2>1, SubSeqProperties
<1>4. \A i \in 1 .. Len(s) - 1 : 1 + i - 1 = i
  BY <1>1
<1>5. (Len(s) - 1) - 1 + 1 = Len(s) - 1
  BY <1>1
<1>6. (IF 1 <= Len(s) - 1 THEN (Len(s) - 1) - 1 + 1 ELSE 0) = Len(s) - 1
  <2>1. \A n \in Nat : n > 0 => (IF 1 <= n - 1 THEN (n - 1) - 1 + 1 ELSE 0) = n - 1
    OBVIOUS
  <2> QED
    BY ONLY <1>1, <2>1
<1>7. Len(Popped(s)) = Len(s) - 1
  BY ONLY <1>3, <1>6 DEF Popped
<1> QED
  BY <1>3, <1>4, <1>5, <1>7 DEF Popped

(* Every move of the Lua program keeps LuaInv. *)
LEMMA LuaStepKeepsInv ==
    ASSUME LuaInv,
           \/ \E n \in BOOLEAN : LuaCall(n)
           \/ LuaReturn
           \/ LuaLine
           \/ \E co \in Threads : LuaResume(co)
           \/ \E co \in Threads : LuaResumeRefused(co)
           \/ LuaYield
           \/ LuaFinish
           \/ LuaFail
           \/ \E left \in 0 .. MaxDepth : LuaUnwind(left)
           \/ \E co \in Threads : LuaHostResume(co)
           \/ UNCHANGED luaVars
    PROVE  LuaInv'
<1> USE LuaAssumption
<1>0. /\ Len(lua) \in Nat /\ Len(lua) >= 1
      /\ DOMAIN lua = 1 .. Len(lua)
      /\ \A i \in 1 .. Len(lua) : lua[i] \in Threads
      /\ Top \in Threads
  <2>1. Len(lua) \in Nat /\ DOMAIN lua = 1 .. Len(lua) /\ Len(lua) >= 1
    BY LenProperties, EmptySeq DEF LuaInv, LuaTypeOK
  <2>2. \A i \in 1 .. Len(lua) : lua[i] \in Threads
    BY <2>1, ElementOfSeq DEF LuaInv, LuaTypeOK
  <2> QED
    BY <2>1, <2>2 DEF Top
<1>1. CASE UNCHANGED lua /\ UNCHANGED <<frames, native>>
  BY <1>1 DEF LuaInv, LuaTypeOK
<1>2. CASE \E n \in BOOLEAN : LuaCall(n)
  BY <1>0, <1>2 DEF LuaInv, LuaTypeOK, LuaCall
<1>3. CASE LuaReturn
  BY <1>0, <1>3 DEF LuaInv, LuaTypeOK, LuaReturn
<1>4. ASSUME NEW co \in Threads,
             lua' = Append(lua, co), ~IsRunning(co), UNCHANGED <<frames, native>>
      PROVE  LuaInv'
  <2>1. /\ lua' \in Seq(Threads)
        /\ Len(lua') = Len(lua) + 1
        /\ \A i \in 1 .. Len(lua) : lua'[i] = lua[i]
        /\ lua'[Len(lua) + 1] = co
    BY <1>0, <1>4, AppendProperties DEF LuaInv, LuaTypeOK
  <2>2. DOMAIN lua' = 1 .. Len(lua) + 1
    BY <2>1, LenProperties
  <2>3. \A i \in 1 .. Len(lua) : lua[i] # co
    BY <1>0, <1>4 DEF IsRunning
  <2>4. lua' # <<>>
    BY <2>1, <1>0, EmptySeq
  <2>5. \A i, j \in DOMAIN lua' : lua'[i] = lua'[j] => i = j
    BY <2>1, <2>2, <2>3, <1>0 DEF LuaInv
  <2> QED
    BY <1>0, <1>4, <2>1, <2>4, <2>5 DEF LuaInv, LuaTypeOK
<1>5. ASSUME Len(lua) > 1, lua' = Popped(lua),
             frames' \in [Threads -> Nat], native' \in [Threads -> BOOLEAN]
      PROVE  LuaInv'
  <2>1. /\ lua' \in Seq(Threads)
        /\ Len(lua') = Len(lua) - 1
        /\ \A i \in 1 .. Len(lua) - 1 : lua'[i] = lua[i]
    BY <1>0, <1>5, PoppedProperties DEF LuaInv, LuaTypeOK
  <2>2. DOMAIN lua' = 1 .. Len(lua) - 1
    BY <2>1, LenProperties
  <2>3. lua' # <<>>
    BY <2>1, <1>0, <1>5, EmptySeq
  <2>4. lua'[1] = Main
    BY <1>0, <1>5, <2>1 DEF LuaInv
  <2>5. \A i, j \in DOMAIN lua' : lua'[i] = lua'[j] => i = j
    BY <1>0, <2>1, <2>2 DEF LuaInv
  <2> QED
    BY <1>5, <2>1, <2>3, <2>4, <2>5 DEF LuaInv, LuaTypeOK
<1>6. CASE LuaYield \/ LuaFinish
  BY <1>5, <1>6 DEF LuaYield, LuaFinish, LuaInv, LuaTypeOK
<1>7. CASE LuaFail
  <2>1. /\ frames' \in [Threads -> Nat]
        /\ native' \in [Threads -> BOOLEAN]
    BY <1>0, <1>7 DEF LuaFail, LuaInv, LuaTypeOK
  <2> QED
    BY <1>5, <1>7, <2>1 DEF LuaFail
<1>8. CASE \E left \in 0 .. MaxDepth : LuaUnwind(left)
  BY <1>0, <1>8 DEF LuaInv, LuaTypeOK, LuaUnwind
<1>9. CASE \E co \in Threads : LuaResume(co)
  BY <1>4, <1>9 DEF LuaResume
<1>10. CASE \E co \in Threads : LuaHostResume(co)
  <2>1. PICK co \in Threads : LuaHostResume(co)
    BY <1>10
  <2>2. ~IsRunning(co)
    BY <2>1, <1>0 DEF LuaHostResume, IsRunning
  <2> QED
    BY <1>4, <2>1, <2>2 DEF LuaHostResume
<1> QED
  BY <1>1, <1>2, <1>3, <1>6, <1>7, <1>8, <1>9, <1>10
  DEF LuaLine, LuaResumeRefused, luaVars

-----------------------------------------------------------------------------

(* TypeOK made inductive: an entry other than the main thread's is popped   *)
(* only if there is one.                                                    *)
TypeInv ==
    /\ TypeOK
    /\ LuaInv
    /\ coroutines[1].L = Main

(* Facts about the two ends of the sequences of a state that satisfies      *)
(* TypeInv.                                                                 *)
LEMMA TypeInvFacts ==
    ASSUME TypeInv
    PROVE  /\ Len(coroutines) \in Nat \ {0}
           /\ DOMAIN coroutines = 1 .. Len(coroutines)
           /\ \A i \in 1 .. Len(coroutines) : coroutines[i] \in CoroutineInfo
           /\ Back \in CoroutineInfo
           /\ Len(lua) \in Nat \ {0}
           /\ DOMAIN lua = 1 .. Len(lua)
           /\ \A i \in 1 .. Len(lua) : lua[i] \in Threads
           /\ Top \in Threads
           /\ NoStep \in [L : Threads, frames : Nat]
           /\ [L |-> Top, frames |-> frames[Top]] \in [L : Threads, frames : Nat]
<1>1. /\ Len(coroutines) \in Nat \ {0}
      /\ DOMAIN coroutines = 1 .. Len(coroutines)
  BY LenProperties, EmptySeq DEF TypeInv, TypeOK
<1>2. \A i \in 1 .. Len(coroutines) : coroutines[i] \in CoroutineInfo
  BY <1>1, ElementOfSeq DEF TypeInv, TypeOK
<1>3. /\ Len(lua) \in Nat \ {0}
      /\ DOMAIN lua = 1 .. Len(lua)
  BY LenProperties, EmptySeq DEF TypeInv, LuaInv, LuaTypeOK
<1>4. \A i \in 1 .. Len(lua) : lua[i] \in Threads
  BY <1>3, ElementOfSeq DEF TypeInv, LuaInv, LuaTypeOK
<1>5. Back \in CoroutineInfo
  BY <1>1, <1>2 DEF Back
<1>6. Top \in Threads
  BY <1>3, <1>4 DEF Top
<1>7. frames[Top] \in Nat
  BY <1>6 DEF TypeInv, LuaInv, LuaTypeOK
<1> QED
  BY <1>1, <1>2, <1>3, <1>4, <1>5, <1>6, <1>7, LuaAssumption DEF NoStep

(* Replacing the innermost entry by one of the same thread.                 *)
LEMMA WithBackProperties ==
    ASSUME TypeInv, NEW info \in CoroutineInfo
    PROVE  /\ WithBack(info) \in Seq(CoroutineInfo)
           /\ Len(WithBack(info)) = Len(coroutines)
           /\ \A i \in 1 .. Len(coroutines) :
                 WithBack(info)[i] = IF i = Len(coroutines) THEN info
                                     ELSE coroutines[i]
<1>1. Len(coroutines) \in 1 .. Len(coroutines)
  BY TypeInvFacts
<1> QED
  BY <1>1, ExceptSeq DEF WithBack, TypeInv, TypeOK

(* SetDebugState keeps the types of what it writes.                         *)
LEMMA SetDebugStateType ==
    ASSUME TypeInv, NEW req \in DebugStates, NEW waiting \in BOOLEAN,
           SetDebugState(req, waiting)
    PROVE  /\ debugState' \in DebugStates
           /\ stepinfo' \in CoroutineInfo
           /\ origin' \in [L : Threads, frames : Nat]
<1>1. debugState' \in DebugStates
  BY DEF SetDebugState, StateAfter, TypeInv, TypeOK
<1>2. stepinfo' \in CoroutineInfo
  BY TypeInvFacts DEF SetDebugState, TypeInv, TypeOK
<1>3. origin' \in [L : Threads, frames : Nat]
  BY TypeInvFacts DEF SetDebugState, Track, TypeInv, TypeOK
<1> QED
  BY <1>1, <1>2, <1>3

LEMMA BreakIfType ==
    ASSUME TypeInv, NEW cond \in BOOLEAN, BreakIf(cond)
    PROVE  /\ debugState' \in DebugStates
           /\ stepinfo' \in CoroutineInfo
           /\ origin' \in [L : Threads, frames : Nat]
<1>1. "BREAK" \in DebugStates
  BY DEF DebugStates
<1>2. CASE SetDebugState("BREAK", FALSE)
  BY <1>1, <1>2, SetDebugStateType
<1>3. CASE UNCHANGED <<debugState, stepinfo, origin>>
  BY <1>3 DEF TypeInv, TypeOK
<1> QED
  BY <1>2, <1>3 DEF BreakIf

LEMMA InitTypeInv == Init => TypeInv
<1> SUFFICES ASSUME Init PROVE TypeInv
  OBVIOUS
<1>1. LuaInv
  <2>1. Len(<<Main>>) = 1 /\ DOMAIN <<Main>> = 1 .. 1
    OBVIOUS
  <2> QED
    BY <2>1, LuaAssumption DEF Init, LuaInit, LuaInv, LuaTypeOK
<1>2. <<[L |-> Main, call |-> 0]>> \in Seq(CoroutineInfo)
  BY LuaAssumption DEF CoroutineInfo
<1> QED
  BY <1>1, <1>2, LuaAssumption
  DEF Init, TypeInv, TypeOK, LuaInv, CoroutineInfo, NoStep, DebugStates, Steps

(* The Lua program moves in every step as LuaStepKeepsInv requires.         *)
LEMMA NextKeepsLuaInv ==
    ASSUME TypeInv, [Next]_vars
    PROVE  LuaInv'
<1>1. LuaInv
  BY DEF TypeInv
<1> QED
  BY <1>1, LuaStepKeepsInv
  DEF Next, vars, luaVars, Start, HookCall, HookReturn, HookLine, HandleRequest,
      LeaveHook, BeginCoroutine, EndCoroutine, ResumeRefused, CaughtError,
      HostResumeBegin, HostResumeEnd, LuaLine, LuaResumeRefused

LEMMA NextKeepsTypeInv == TypeInv /\ [Next]_vars => TypeInv'
<1> SUFFICES ASSUME TypeInv, [Next]_vars PROVE TypeInv'
  OBVIOUS
<1> USE LuaAssumption
<1>0. LuaInv'
  BY NextKeepsLuaInv
<1>1. ASSUME pc' \in {"start", "lua", "hook"},
             debugState' \in DebugStates,
             stepinfo' \in CoroutineInfo,
             origin' \in [L : Threads, frames : Nat],
             base' \in [Threads -> Nat],
             coroutines' \in Seq(CoroutineInfo), coroutines' # <<>>,
             coroutines'[1].L = Main
      PROVE  TypeInv'
  BY <1>0, <1>1 DEF TypeInv, TypeOK, LuaInv
<1>2. CASE UNCHANGED vars
  BY <1>1, <1>2 DEF vars, ctxVars, TypeInv, TypeOK
<1>3. CASE Start \/ LeaveHook
  BY <1>1, <1>3 DEF Start, LeaveHook, ctxVars, TypeInv, TypeOK
<1>4. ASSUME NEW n \in Int, coroutines' = WithBack([Back EXCEPT !.call = n])
      PROVE  /\ coroutines' \in Seq(CoroutineInfo)
             /\ coroutines' # <<>>
             /\ coroutines'[1].L = Main
  <2>1. [Back EXCEPT !.call = n] \in CoroutineInfo
    BY TypeInvFacts DEF CoroutineInfo
  <2>2. /\ coroutines' \in Seq(CoroutineInfo)
        /\ Len(coroutines') = Len(coroutines)
        /\ coroutines'[1] = IF 1 = Len(coroutines) THEN [Back EXCEPT !.call = n]
                            ELSE coroutines[1]
    <3>1. 1 \in 1 .. Len(coroutines)
      BY TypeInvFacts
    <3>2. /\ WithBack([Back EXCEPT !.call = n]) \in Seq(CoroutineInfo)
          /\ Len(WithBack([Back EXCEPT !.call = n])) = Len(coroutines)
          /\ WithBack([Back EXCEPT !.call = n])[1]
               = IF 1 = Len(coroutines) THEN [Back EXCEPT !.call = n]
                 ELSE coroutines[1]
      BY ONLY TypeInv, <2>1, <3>1, WithBackProperties
    <3> QED
      BY ONLY <1>4, <3>2
  <2>3. coroutines' # <<>>
    BY <2>2, TypeInvFacts, EmptySeq
  <2>4. [Back EXCEPT !.call = n].L = Back.L
    BY TypeInvFacts DEF CoroutineInfo
  <2> QED
    BY <2>2, <2>3, <2>4 DEF Back, TypeInv
<1>5. CASE HookCall
  <2>1. Back.call + 1 \in Int
    BY TypeInvFacts DEF CoroutineInfo
  <2> QED
    BY <1>1, <1>4, <1>5, <2>1 DEF HookCall, TypeInv, TypeOK
<1>6. CASE HookReturn
  <2>1. Back.call - 1 \in Int
    BY TypeInvFacts DEF CoroutineInfo
  <2>2. StopsAtReturn \in BOOLEAN
    BY DEF StopsAtReturn
  <2> QED
    BY <1>1, <1>4, <1>6, <2>1, <2>2, BreakIfType DEF HookReturn, TypeInv, TypeOK
<1>7. ASSUME NEW isBreakpoint \in BOOLEAN, HookLine(isBreakpoint)
      PROVE  TypeInv'
  <2>1. (StopsAtLine \/ isBreakpoint) \in BOOLEAN
    BY DEF StopsAtLine
  <2> QED
    BY <1>1, <1>7, <2>1, BreakIfType DEF HookLine, TypeInv, TypeOK
<1>8. ASSUME NEW req \in DebugStates, HandleRequest(req)
      PROVE  TypeInv'
  BY <1>1, <1>8, SetDebugStateType DEF HandleRequest, TypeInv, TypeOK
<1>9. CASE BeginCoroutine
  <2>1. PICK co \in Threads :
          /\ coroutines' = Append(coroutines, [L |-> co, call |-> 0])
          /\ base' = [base EXCEPT ![co] = frames[co]]
    BY <1>9 DEF BeginCoroutine
  <2>2. [L |-> co, call |-> 0] \in CoroutineInfo
    BY DEF CoroutineInfo
  <2>3. /\ coroutines' \in Seq(CoroutineInfo)
        /\ coroutines' # <<>>
        /\ coroutines'[1] = coroutines[1]
    BY <2>1, <2>2, AppendProperties, TypeInvFacts DEF TypeInv, TypeOK
  <2>4. base' \in [Threads -> Nat]
    BY <2>1 DEF TypeInv, TypeOK, LuaTypeOK
  <2> QED
    BY <1>1, <1>9, <2>3, <2>4 DEF BeginCoroutine, TypeInv, TypeOK
<1>10. CASE EndCoroutine
  <2>0. Len(lua) > 1
    BY <1>10 DEF EndCoroutine, LuaYield, LuaFinish, LuaFail
  <2>1. Top # Main
    BY <2>0, TypeInvFacts DEF Top, TypeInv, LuaInv
  <2>2. Len(coroutines) > 1
    BY <1>10, <2>1, TypeInvFacts DEF EndCoroutine, Back, TypeInv
  <2>3. /\ coroutines' \in Seq(CoroutineInfo)
        /\ Len(coroutines') = Len(coroutines) - 1
        /\ coroutines'[1] = coroutines[1]
    BY SMTT(40), <1>10, <2>2, PoppedProperties, TypeInvFacts
    DEF EndCoroutine, TypeInv, TypeOK
  <2>4. coroutines' # <<>>
    BY <2>2, <2>3, TypeInvFacts, EmptySeq
  <2>5. EndForcesBreak(Top) \in BOOLEAN
    BY DEF EndForcesBreak
  <2> QED
    BY <1>1, <1>10, <2>3, <2>4, <2>5, BreakIfType DEF EndCoroutine, TypeInv, TypeOK
<1>11. CASE ResumeRefused
  <2>1. PICK co \in Threads : BreakIf(EndForcesBreak(co))
    BY <1>11 DEF ResumeRefused
  <2>2. EndForcesBreak(co) \in BOOLEAN
    BY DEF EndForcesBreak
  <2> QED
    BY <1>1, <1>11, <2>1, <2>2, BreakIfType DEF ResumeRefused, TypeInv, TypeOK
<1>12. CASE CaughtError \/ HostResumeEnd
  BY <1>1, <1>12 DEF CaughtError, HostResumeEnd, ctxVars, TypeInv, TypeOK
<1>13. CASE HostResumeBegin
  <2>1. base' \in [Threads -> Nat]
    BY <1>13 DEF HostResumeBegin, TypeInv, TypeOK, LuaTypeOK
  <2> QED
    BY <1>1, <1>13, <2>1 DEF HostResumeBegin, ctxVars, TypeInv, TypeOK
<1> QED
  BY <1>2, <1>3, <1>5, <1>6, <1>7, <1>8, <1>9, <1>10, <1>11, <1>12, <1>13 DEF Next

LEMMA TypeInvAlways == Spec => []TypeInv
  BY InitTypeInv, NextKeepsTypeInv, PTL DEF Spec

(* The variables of the debugger and of the program stay in their types,    *)
(* and m_coroutines.back() always exists: EndCoroutine never empties the    *)
(* list, even when the host resumes coroutines behind the debugger's back.  *)
THEOREM SteppingTypeCorrect == Spec => []TypeOK
<1>1. TypeInv => TypeOK
  BY DEF TypeInv
<1> QED
  BY <1>1, TypeInvAlways, PTL

-----------------------------------------------------------------------------

(* SetDebugState leaves either an unmeasured state, or the old step, or a   *)
(* step measured against m_coroutines.back().                               *)
LEMMA SetDebugStateTarget ==
    ASSUME NEW req, NEW waiting, SetDebugState(req, waiting)
    PROVE  \/ debugState' \notin CountedSteps
           \/ debugState' = debugState /\ stepinfo' = stepinfo
           \/ stepinfo' = Back
  BY DEF SetDebugState, StateAfter, RecordsStep, TakesEffect, ReturnsEarly

LEMMA BreakIfTarget ==
    ASSUME NEW cond, BreakIf(cond)
    PROVE  /\ \/ debugState' \notin CountedSteps
              \/ debugState' = debugState /\ stepinfo' = stepinfo
           /\ cond => debugState' = "BREAK"
  BY DEF BreakIf, SetDebugState, StateAfter, RecordsStep, TakesEffect,
         ReturnsEarly, CountedSteps

(* The entry of an index still belongs to the same thread.                  *)
LEMMA NextKeepsTarget ==
    TypeInv /\ StepTargetRuns /\ [Next]_vars => StepTargetRuns'
<1> SUFFICES ASSUME TypeInv, StepTargetRuns, [Next]_vars,
                    debugState' \in CountedSteps
             PROVE  \E i \in DOMAIN coroutines' : coroutines'[i].L = stepinfo'.L
  BY DEF StepTargetRuns
<1>1. ASSUME debugState' = debugState, stepinfo' = stepinfo,
             UNCHANGED coroutines
      PROVE  \E i \in DOMAIN coroutines' : coroutines'[i].L = stepinfo'.L
  BY <1>1 DEF StepTargetRuns
<1>2. CASE UNCHANGED vars \/ Start \/ LeaveHook \/ CaughtError
           \/ HostResumeBegin \/ HostResumeEnd
  BY <1>1, <1>2 DEF vars, ctxVars, Start, LeaveHook, CaughtError,
                    HostResumeBegin, HostResumeEnd
<1>3. ASSUME NEW n \in Int, coroutines' = WithBack([Back EXCEPT !.call = n]),
             debugState' = debugState, stepinfo' = stepinfo
      PROVE  \E i \in DOMAIN coroutines' : coroutines'[i].L = stepinfo'.L
  <2>1. PICK i \in 1 .. Len(coroutines) : coroutines[i].L = stepinfo.L
    BY <1>3, TypeInvFacts DEF StepTargetRuns
  <2>2. DOMAIN coroutines' = DOMAIN coroutines
    BY <1>3 DEF WithBack
  <2>3. coroutines'[i].L = coroutines[i].L
    BY <1>3, <2>1, TypeInvFacts DEF WithBack, Back, CoroutineInfo
  <2> QED
    BY <1>3, <2>1, <2>2, <2>3, TypeInvFacts
<1>4. CASE HookCall
  <2>1. Back.call + 1 \in Int
    BY TypeInvFacts DEF CoroutineInfo
  <2> QED
    BY <1>3, <1>4, <2>1 DEF HookCall
<1>5. CASE HookReturn
  <2>1. Back.call - 1 \in Int
    BY TypeInvFacts DEF CoroutineInfo
  <2>2. debugState' = debugState /\ stepinfo' = stepinfo
    BY <1>5, BreakIfTarget DEF HookReturn
  <2> QED
    BY <1>3, <1>5, <2>1, <2>2 DEF HookReturn
<1>6. CASE \E isBreakpoint \in BOOLEAN : HookLine(isBreakpoint)
  BY <1>1, <1>6, BreakIfTarget DEF HookLine
<1>7. CASE \E req \in DebugStates : HandleRequest(req)
  <2>1. UNCHANGED coroutines
    BY <1>7 DEF HandleRequest
  <2>2. CASE debugState' = debugState /\ stepinfo' = stepinfo
    BY <1>1, <2>1, <2>2
  <2>3. CASE stepinfo' = Back
    BY <2>1, <2>3, TypeInvFacts DEF Back
  <2> QED
    BY <1>7, <2>2, <2>3, SetDebugStateTarget DEF HandleRequest
<1>8. CASE BeginCoroutine
  <2>1. PICK co \in Threads :
          coroutines' = Append(coroutines, [L |-> co, call |-> 0])
    BY <1>8 DEF BeginCoroutine
  <2>2. PICK i \in 1 .. Len(coroutines) : coroutines[i].L = stepinfo.L
    BY <1>8, TypeInvFacts DEF StepTargetRuns, BeginCoroutine
  <2>3. [L |-> co, call |-> 0] \in CoroutineInfo
    BY DEF CoroutineInfo
  <2>4. /\ coroutines'[i] = coroutines[i]
        /\ coroutines' \in Seq(CoroutineInfo)
        /\ Len(coroutines') = Len(coroutines) + 1
    BY <2>1, <2>3, AppendProperties DEF TypeInv, TypeOK
  <2>5. i \in DOMAIN coroutines'
    BY <2>4, LenProperties, TypeInvFacts
  <2> QED
    BY <1>8, <2>2, <2>4, <2>5 DEF BeginCoroutine
<1>9. CASE EndCoroutine
  <2>1. /\ debugState' = debugState /\ stepinfo' = stepinfo
        /\ ~EndForcesBreak(Top)
    BY <1>9, BreakIfTarget DEF EndCoroutine, CountedSteps
  <2>2. PICK i \in 1 .. Len(coroutines) : coroutines[i].L = stepinfo.L
    BY <2>1, TypeInvFacts DEF StepTargetRuns
  <2>3. i # Len(coroutines)
    BY <1>9, <2>1, <2>2 DEF EndForcesBreak, EndCoroutine, Back
  <2>4. /\ coroutines' \in Seq(CoroutineInfo)
        /\ Len(coroutines') = Len(coroutines) - 1
        /\ coroutines'[i] = coroutines[i]
    BY SMTT(40), <1>9, <2>3, PoppedProperties, TypeInvFacts DEF EndCoroutine, TypeInv, TypeOK
  <2>5. i \in DOMAIN coroutines'
    BY <2>3, <2>4, LenProperties, TypeInvFacts
  <2> QED
    BY <2>1, <2>2, <2>4, <2>5
<1>10. CASE ResumeRefused
  <2>1. UNCHANGED coroutines /\ debugState' = debugState /\ stepinfo' = stepinfo
    BY <1>10, BreakIfTarget DEF ResumeRefused
  <2> QED
    BY <1>1, <2>1
<1> QED
  BY <1>2, <1>4, <1>5, <1>6, <1>7, <1>8, <1>9, <1>10 DEF Next

(* A step-over or step-return in progress always has its thread among the   *)
(* entries of m_coroutines, so EndCoroutine will end it at the latest.      *)
(* It holds whatever requests, errors or host resumptions come in between.  *)
THEOREM StepTargetAlwaysRuns == Spec => []StepTargetRuns
<1>1. Init => StepTargetRuns
  BY DEF Init, StepTargetRuns, CountedSteps
<1> QED
  BY <1>1, NextKeepsTarget, TypeInvAlways, PTL DEF Spec

-----------------------------------------------------------------------------

(* The entries cs of m_coroutines are the running threads ls, in the same   *)
(* order, and each counts the activations f of its thread above b.          *)
Counts(cs, ls, f, b) ==
    /\ Len(cs) = Len(ls)
    /\ \A i \in 1 .. Len(ls) : /\ cs[i].L = ls[i]
                               /\ cs[i].call = f[ls[i]] - b[ls[i]]

CountInv == TypeInv /\ Counts(coroutines, lua, frames, base)

(* Counts depends only on the length and the entries. *)
LEMMA CountsOf ==
    ASSUME NEW n \in Nat, NEW cs, NEW ls, NEW f, NEW b,
           Len(cs) = n, Len(ls) = n,
           \A i \in 1 .. n : /\ cs[i].L = ls[i]
                             /\ cs[i].call = f[ls[i]] - b[ls[i]]
    PROVE  Counts(cs, ls, f, b)
  BY DEF Counts

(* A thread is resumed: its activations become its base. *)
LEMMA CountsPush ==
    ASSUME NEW cs \in Seq(CoroutineInfo), NEW ls \in Seq(Threads),
           NEW f \in [Threads -> Nat], NEW b \in [Threads -> Nat],
           NEW co \in Threads,
           Counts(cs, ls, f, b),
           \A i \in 1 .. Len(ls) : ls[i] # co
    PROVE  Counts(Append(cs, [L |-> co, call |-> 0]), Append(ls, co),
                  f, [b EXCEPT ![co] = f[co]])
<1> DEFINE e == [L |-> co, call |-> 0]
           n == Len(ls)
           d == Append(cs, e)
           m == Append(ls, co)
           c == [b EXCEPT ![co] = f[co]]
<1>1. n \in Nat /\ Len(cs) = n
  BY LenProperties DEF Counts
<1>2. e \in CoroutineInfo
  BY DEF CoroutineInfo
<1>3. Len(d) = n + 1 /\ d[n + 1] = e /\ \A i \in 1 .. n : d[i] = cs[i]
  BY <1>1, <1>2, AppendProperties
<1>4. Len(m) = n + 1 /\ m[n + 1] = co /\ \A i \in 1 .. n : m[i] = ls[i]
  BY <1>1, AppendProperties
<1>5. c[co] = f[co] /\ \A t \in Threads : t # co => c[t] = b[t]
  OBVIOUS
<1>6. \A i \in 1 .. n : ls[i] \in Threads /\ ls[i] # co
  BY ElementOfSeq
<1>7. \A i \in 1 .. n : d[i].L = m[i] /\ d[i].call = f[m[i]] - c[m[i]]
  BY <1>3, <1>4, <1>5, <1>6 DEF Counts
<1>8. d[n + 1].L = m[n + 1] /\ d[n + 1].call = f[m[n + 1]] - c[m[n + 1]]
  <2>1. f[co] \in Nat
    OBVIOUS
  <2>2. f[co] - f[co] = 0
    BY <2>1
  <2> HIDE DEF d, m, c
  <2> QED
    BY <1>3, <1>4, <1>5, <2>2
<1>9. \A i \in 1 .. n + 1 : i \in 1 .. n \/ i = n + 1
  BY <1>1
<1> HIDE DEF d, m, c, n
<1>10. \A i \in 1 .. n + 1 : d[i].L = m[i] /\ d[i].call = f[m[i]] - c[m[i]]
  BY <1>7, <1>8, <1>9
<1>11. n + 1 \in Nat
  BY <1>1
<1>12. Counts(d, m, f, c)
  BY ONLY <1>3, <1>4, <1>10, <1>11, CountsOf
<1> QED
  BY <1>12 DEF d, m, c

(* The innermost thread yields or ends: what becomes of its activations is  *)
(* of no consequence.                                                       *)
LEMMA CountsPop ==
    ASSUME NEW cs \in Seq(CoroutineInfo), NEW ls \in Seq(Threads),
           ls # <<>>, NEW f, NEW g, NEW b,
           Counts(cs, ls, f, b),
           \A i \in 1 .. Len(ls) - 1 : g[ls[i]] = f[ls[i]]
    PROVE  Counts(Popped(cs), Popped(ls), g, b)
<1> DEFINE n == Len(ls)
           d == Popped(cs)
           m == Popped(ls)
<1>1. n \in Nat /\ n > 0 /\ Len(cs) = n /\ cs # <<>>
  BY LenProperties, EmptySeq DEF Counts
<1>2. Len(d) = n - 1 /\ \A i \in 1 .. n - 1 : d[i] = cs[i]
  BY <1>1, PoppedProperties
<1>3. Len(m) = n - 1 /\ \A i \in 1 .. n - 1 : m[i] = ls[i]
  BY PoppedProperties
<1>4. \A i \in 1 .. n - 1 : i \in 1 .. n
  BY <1>1
<1>5. \A i \in 1 .. n - 1 : cs[i].L = ls[i] /\ cs[i].call = g[ls[i]] - b[ls[i]]
  BY <1>4 DEF Counts
<1> HIDE DEF d, m, n
<1>6. \A i \in 1 .. n - 1 : d[i].L = m[i] /\ d[i].call = g[m[i]] - b[m[i]]
  BY <1>2, <1>3, <1>5
<1>7. n - 1 \in Nat
  BY <1>1
<1>8. Counts(d, m, g, b)
  BY ONLY <1>2, <1>3, <1>6, <1>7, CountsOf
<1> QED
  BY <1>8 DEF d, m

(* Counting a call or a return of the innermost activation. *)
LEMMA CountsTop ==
    ASSUME NEW cs \in Seq(CoroutineInfo), NEW ls \in Seq(Threads),
           ls # <<>>, NEW k \in Int, NEW e \in CoroutineInfo,
           NEW f \in [Threads -> Nat], NEW g, NEW b \in [Threads -> Nat],
           \A i, j \in 1 .. Len(ls) : ls[i] = ls[j] => i = j,
           Counts(cs, ls, f, b),
           e.L = cs[Len(cs)].L,
           e.call = cs[Len(cs)].call + k,
           g = [f EXCEPT ![ls[Len(ls)]] = @ + k]
    PROVE  Counts([cs EXCEPT ![Len(cs)] = e], ls, g, b)
<1> DEFINE n == Len(ls)
           d == [cs EXCEPT ![n] = e]
<1>1. n \in Nat /\ n > 0 /\ Len(cs) = n /\ cs # <<>> /\ n \in 1 .. n
  BY LenProperties, EmptySeq DEF Counts
<1>2. \A i \in 1 .. n : ls[i] \in Threads
  BY ElementOfSeq
<1>3. Len(d) = n /\ d[n] = e /\ \A i \in 1 .. n : i # n => d[i] = cs[i]
  BY <1>1, ExceptSeq, LenProperties
<1>4. /\ cs[n].L = ls[n] /\ cs[n].call = f[ls[n]] - b[ls[n]]
      /\ \A i \in 1 .. n : /\ cs[i].L = ls[i]
                           /\ cs[i].call = f[ls[i]] - b[ls[i]]
  BY <1>1 DEF Counts
<1>5. \A i \in 1 .. n : i # n => ls[i] # ls[n]
  BY <1>1
<1>6. /\ g[ls[n]] = f[ls[n]] + k
      /\ \A i \in 1 .. n : i # n => g[ls[i]] = f[ls[i]]
  BY <1>1, <1>2, <1>5
<1>7. f[ls[n]] \in Nat /\ b[ls[n]] \in Nat
  BY <1>1, <1>2
<1>8. e.L = ls[n] /\ e.call = g[ls[n]] - b[ls[n]]
  <2>1. e.call = (f[ls[n]] - b[ls[n]]) + k
    BY <1>1, <1>4
  <2>2. \A x, y \in Nat : (x - y) + k = (x + k) - y
    OBVIOUS
  <2> QED
    BY <1>1, <1>4, <1>6, <1>7, <2>1, <2>2
<1> HIDE DEF d, n
<1>9. \A i \in 1 .. n : d[i].L = ls[i] /\ d[i].call = g[ls[i]] - b[ls[i]]
  BY <1>3, <1>4, <1>6, <1>8
<1>10. Len(ls) = n
  BY DEF n
<1>11. Counts(d, ls, g, b)
  BY ONLY <1>1, <1>3, <1>9, <1>10, CountsOf
<1> QED
  BY <1>1, <1>11 DEF d, n

LEMMA NextKeepsCountInv ==
    ASSUME ~LuaErrors, ~HostResume
    PROVE  CountInv /\ [Next]_vars => CountInv'
<1> SUFFICES ASSUME CountInv, [Next]_vars
             PROVE  Counts(coroutines, lua, frames, base)'
  BY NextKeepsTypeInv DEF CountInv
<1>1. TypeInv /\ Counts(coroutines, lua, frames, base)
  BY DEF CountInv
<1>2. /\ lua \in Seq(Threads) /\ lua # <<>>
      /\ coroutines \in Seq(CoroutineInfo)
      /\ frames \in [Threads -> Nat] /\ base \in [Threads -> Nat]
      /\ \A i, j \in 1 .. Len(lua) : lua[i] = lua[j] => i = j
      /\ Back \in CoroutineInfo
      /\ Top = lua[Len(lua)] /\ Back = coroutines[Len(coroutines)]
  BY <1>1, TypeInvFacts DEF TypeInv, TypeOK, LuaTypeOK, LuaInv, Top, Back
<1>3. CASE UNCHANGED <<frames, lua, coroutines, base>>
  BY <1>1, <1>3 DEF Counts
<1>4. CASE UNCHANGED vars \/ Start \/ LeaveHook \/ ResumeRefused
           \/ (\E isBreakpoint \in BOOLEAN : HookLine(isBreakpoint))
           \/ (\E req \in DebugStates : HandleRequest(req))
  BY <1>3, <1>4
  DEF vars, ctxVars, luaVars, Start, LeaveHook, ResumeRefused, HookLine,
      HandleRequest, LuaLine, LuaResumeRefused
<1>5. ASSUME NEW k \in {1, -1},
             UNCHANGED <<lua, base>>,
             frames' = [frames EXCEPT ![Top] = @ + k],
             coroutines' = WithBack([Back EXCEPT !.call = @ + k])
      PROVE  Counts(coroutines, lua, frames, base)'
  <2> DEFINE e == [Back EXCEPT !.call = @ + k]
  <2>1. e \in CoroutineInfo /\ e.L = Back.L /\ e.call = Back.call + k
    <3>1. \A i \in CoroutineInfo, j \in Int :
             LET x == [i EXCEPT !.call = @ + j]
             IN x \in CoroutineInfo /\ x.L = i.L /\ x.call = i.call + j
      BY DEF CoroutineInfo
    <3>2. k \in Int
      OBVIOUS
    <3> QED
      BY ONLY <1>2, <3>1, <3>2 DEF e
  <2>2. k \in Int
    OBVIOUS
  <2>3. /\ frames' = [frames EXCEPT ![lua[Len(lua)]] = @ + k]
        /\ coroutines' = [coroutines EXCEPT ![Len(coroutines)] = e]
    BY <1>2, <1>5 DEF WithBack
  <2>4. Counts([coroutines EXCEPT ![Len(coroutines)] = e], lua, frames', base)
    <3> HIDE DEF e
    <3> QED
      BY ONLY <1>1, <1>2, <2>1, <2>2, <2>3, CountsTop
  <2> QED
    BY <1>5, <2>3, <2>4
<1>6. CASE HookCall
  BY <1>5, <1>6 DEF HookCall, LuaCall
<1>7. CASE HookReturn
  <2>1. frames[Top] - 1 = frames[Top] + (-1) /\ Back.call - 1 = Back.call + (-1)
    BY <1>1, <1>2, TypeInvFacts DEF CoroutineInfo
  <2>2. /\ UNCHANGED <<lua, base>>
        /\ frames' = [frames EXCEPT ![Top] = frames[Top] + (-1)]
        /\ coroutines' = WithBack([Back EXCEPT !.call = Back.call + (-1)])
    BY <1>7, <2>1 DEF HookReturn, LuaReturn
  <2> QED
    BY <1>5, <2>2
<1>8. CASE BeginCoroutine
  <2>1. PICK co \in Threads :
          /\ LuaResume(co)
          /\ coroutines' = Append(coroutines, [L |-> co, call |-> 0])
          /\ base' = [base EXCEPT ![co] = frames[co]]
    BY <1>8 DEF BeginCoroutine
  <2>2. lua' = Append(lua, co) /\ UNCHANGED frames
    BY <2>1 DEF LuaResume
  <2>3. \A i \in 1 .. Len(lua) : lua[i] # co
    BY <1>1, <2>1, TypeInvFacts DEF LuaResume, IsRunning
  <2>4. Counts(Append(coroutines, [L |-> co, call |-> 0]), Append(lua, co),
               frames, [base EXCEPT ![co] = frames[co]])
    BY <1>1, <1>2, <2>3, CountsPush
  <2> QED
    BY <2>1, <2>2, <2>4
<1>9. CASE EndCoroutine
  <2>1. /\ lua' = Popped(lua)
        /\ coroutines' = Popped(coroutines)
        /\ UNCHANGED base
        /\ \A t \in Threads : t # Top => frames'[t] = frames[t]
    BY <1>2, <1>9 DEF EndCoroutine, LuaYield, LuaFinish, LuaFail
  <2>2. ASSUME NEW i \in 1 .. Len(lua) - 1 PROVE frames'[lua[i]] = frames[lua[i]]
    <3>1. Len(lua) \in Nat /\ \A j \in 1 .. Len(lua) : lua[j] \in Threads
      BY <1>1, TypeInvFacts
    <3>2. i \in 1 .. Len(lua) /\ i # Len(lua) /\ Len(lua) \in 1 .. Len(lua)
      BY ONLY <2>2, <3>1
    <3> QED
      BY ONLY <1>2, <2>1, <3>1, <3>2
  <2>3. Counts(Popped(coroutines), Popped(lua), frames', base)
    BY <1>1, <1>2, <2>2, CountsPop
  <2> QED
    BY <2>1, <2>3
<1>10. CASE CaughtError \/ HostResumeBegin \/ HostResumeEnd
  BY <1>10 DEF CaughtError, HostResumeBegin, HostResumeEnd
<1> QED
  BY <1>4, <1>6, <1>7, <1>8, <1>9, <1>10 DEF Next

LEMMA CountInvAlways ==
    ASSUME ~LuaErrors, ~HostResume
    PROVE  Spec => []CountInv
<1>1. Init => CountInv
  <2> SUFFICES ASSUME Init PROVE Counts(coroutines, lua, frames, base)
    BY InitTypeInv DEF CountInv
  <2>1. /\ Len(coroutines) = 1
        /\ coroutines[1] = [L |-> Main, call |-> 0]
        /\ Len(lua) = 1 /\ lua[1] = Main
    BY DEF Init, LuaInit
  <2> QED
    BY <2>1, LuaAssumption DEF Init, LuaInit, Counts
<1> QED
  BY <1>1, NextKeepsCountInv, PTL DEF Spec

(* As long as no Lua error is caught and no coroutine is driven by          *)
(* lldebug_resume, CoroutineInfo::call is exactly the number of activations *)
(* its thread has gained since it was resumed.                              *)
THEOREM CallCountsAreExact ==
    ASSUME ~LuaErrors, ~HostResume
    PROVE  Spec => []CallCountOfEach
<1>1. CountInv => CallCountOfEach
  BY TypeInvFacts DEF CountInv, Counts, CallCountOfEach
<1> QED
  BY <1>1, CountInvAlways, PTL

-----------------------------------------------------------------------------

(* m_stepinfo measures the step where the user gave it: in the same thread, *)
(* and its count is that of the origin's activations.  Without a counted    *)
(* step there is no origin.                                                 *)
OriginInv ==
    IF debugState \in CountedSteps
    THEN /\ stepinfo.L = origin.L
         /\ stepinfo.call = origin.frames - base[origin.L]
    ELSE origin = NoStep

StepInv == CountInv /\ StepTargetRuns /\ OriginInv

(* The innermost entry of m_coroutines is of the running thread, and counts *)
(* its activations.                                                         *)
LEMMA BackIsTop ==
    ASSUME CountInv
    PROVE  /\ Back.L = Top /\ Back.call = frames[Top] - base[Top]
           /\ Top \in Threads /\ frames[Top] \in Nat /\ base[Top] \in Nat
<1>1. Len(coroutines) = Len(lua) /\ Len(lua) \in 1 .. Len(lua)
  BY TypeInvFacts DEF CountInv, Counts
<1>2. Back.L = Top /\ Back.call = frames[Top] - base[Top]
  BY <1>1 DEF CountInv, Counts, Back, Top
<1> QED
  BY <1>2, TypeInvFacts DEF CountInv, TypeInv, TypeOK, LuaTypeOK

(* So the comparison of the counts is the one of the activations.           *)
LEMMA WithinStepIsBack ==
    ASSUME StepInv, debugState \in CountedSteps
    PROVE  WithinStep(Back) <=> Semantics!BackAtOrigin
<1>1. /\ Back.L = Top /\ Back.call = frames[Top] - base[Top]
      /\ frames[Top] \in Nat /\ base[Top] \in Nat
  BY BackIsTop DEF StepInv
<1>2. /\ stepinfo.L = origin.L
      /\ stepinfo.call = origin.frames - base[origin.L]
      /\ origin.frames \in Nat
  BY DEF StepInv, OriginInv, CountInv, TypeInv, TypeOK
<1>3. \A x, y, z \in Nat : x - z <= y - z <=> x <= y
  OBVIOUS
<1> QED
  BY <1>1, <1>2, <1>3 DEF WithinStep, Semantics!BackAtOrigin, Semantics!Top, Top

(* A stop of the code is a stop of the semantics. *)
LEMMA BreakIfStops ==
    ASSUME OriginInv, NEW cond, BreakIf(cond)
    PROVE  /\ Semantics!StopIf(cond)
           /\ UNCHANGED base => OriginInv'
<1>1. "BREAK" \notin CountedSteps
  BY DEF CountedSteps
<1>2. CASE cond
  <2>1. debugState' = "BREAK" /\ origin' = NoStep
    BY <1>1, <1>2 DEF BreakIf, SetDebugState, StateAfter, TakesEffect,
       ReturnsEarly, Track
  <2> QED
    BY <1>1, <1>2, <2>1 DEF OriginInv, NoStep, Semantics!StopIf,
       Semantics!Enter, Semantics!NoStep, Semantics!CountedSteps, CountedSteps
<1>3. CASE ~cond
  BY <1>3 DEF BreakIf, OriginInv, Semantics!StopIf, NoStep
<1> QED
  BY <1>2, <1>3

(* A request is obeyed, or leaves the step as it is. *)
LEMMA RequestIsObeyed ==
    ASSUME StepInv, ~Resteps, NEW req \in DebugStates, HandleRequest(req)
    PROVE  /\ Semantics!SemRequest(req)
           /\ OriginInv'
<1>1. /\ OriginInv /\ CountInv /\ debugState \in DebugStates
      /\ UNCHANGED <<luaVars, pc, base>> /\ pc \in {"start", "hook"}
  BY DEF StepInv, CountInv, TypeInv, TypeOK, HandleRequest
<1>2. PICK waiting \in BOOLEAN : SetDebugState(req, waiting)
  BY DEF HandleRequest
<1>3. CASE UNCHANGED <<debugState, stepinfo, origin>>
  BY <1>1, <1>3
  DEF OriginInv, Semantics!SemRequest, Semantics!luaVars, luaVars
<1>4. CASE debugState # "BREAK" /\ req = "BREAK"
  <2>1. debugState' = "BREAK" /\ origin' = NoStep
    BY <1>2, <1>4 DEF SetDebugState, StateAfter, TakesEffect, ReturnsEarly,
       Track, CountedSteps
  <2> QED
    BY <1>1, <1>4, <2>1 DEF OriginInv, Semantics!SemRequest, Semantics!Enter,
       Semantics!luaVars, luaVars, CountedSteps, Semantics!CountedSteps,
       NoStep, Semantics!NoStep
<1>5. CASE debugState = "BREAK" /\ TakesEffect(debugState, req, waiting)
  <2>1. debugState' = req /\ req # "BREAK"
    BY <1>2, <1>5 DEF SetDebugState, StateAfter, TakesEffect, ReturnsEarly
  <2>2. origin' = IF req \in CountedSteps
                  THEN [L |-> Top, frames |-> frames[Top]] ELSE NoStep
    BY <1>2, <1>5, <2>1 DEF SetDebugState, Track
  <2>3. req \in CountedSteps => stepinfo' = Back
    BY <1>2, <1>5, <2>1 DEF SetDebugState, RecordsStep, StateAfter, TakesEffect
  <2>4. OriginInv'
    BY <1>1, <2>1, <2>2, <2>3, BackIsTop DEF OriginInv, NoStep
  <2>5. Semantics!SemRequest(req)
    BY <1>1, <1>5, <2>1, <2>2 DEF Semantics!SemRequest, Semantics!luaVars,
       luaVars, CountedSteps, Semantics!CountedSteps, NoStep, Semantics!NoStep,
       Semantics!Here, Semantics!Top, Top
  <2> QED
    BY <2>4, <2>5
<1>6. CASE /\ ~TakesEffect(debugState, req, waiting)
           /\ debugState = "BREAK" \/ req # "BREAK"
  <2>1. debugState' = debugState
    BY <1>2, <1>6 DEF SetDebugState, StateAfter
  <2>2. stepinfo' = stepinfo
    <3>1. ~Overtaken(req)
      BY DEF HandleRequest
    <3> QED
      BY <1>1, <1>2, <1>6, <2>1, <3>1
      DEF SetDebugState, RecordsStep, StateAfter, Overtaken, ReturnsEarly,
          TakesEffect, Steps, CountedSteps
  <2>3. origin' = origin
    BY <1>1, <1>2, <2>1 DEF SetDebugState, Track, OriginInv
  <2> QED
    BY <1>3, <2>1, <2>2, <2>3
<1> QED
  BY <1>4, <1>5, <1>6 DEF TakesEffect, ReturnsEarly

LEMMA StepInvAlways ==
    ASSUME ~LuaErrors, ~HostResume, ~Resteps
    PROVE  Spec => []StepInv
<1>1. Init => OriginInv
  BY DEF Init, OriginInv, CountedSteps, NoStep
<1>2. ASSUME StepInv, [Next]_vars
      PROVE  OriginInv'
  <2>1. OriginInv /\ CountInv /\ StepTargetRuns
    BY <1>2 DEF StepInv
  <2>2. CASE UNCHANGED <<debugState, stepinfo, origin, base>>
    BY <2>1, <2>2 DEF OriginInv
  <2>3. CASE UNCHANGED vars \/ Start \/ HookCall \/ LeaveHook
    BY <2>2, <2>3 DEF vars, ctxVars, Start, HookCall, LeaveHook
  <2>4. CASE \/ HookReturn \/ EndCoroutine \/ ResumeRefused
             \/ \E isBreakpoint \in BOOLEAN : HookLine(isBreakpoint)
    BY <2>1, <2>4, BreakIfStops
    DEF HookReturn, EndCoroutine, ResumeRefused, HookLine
  <2>5. ASSUME NEW req \in DebugStates, HandleRequest(req)
        PROVE  OriginInv'
    BY <1>2, <2>5, RequestIsObeyed
  <2>6. CASE BeginCoroutine
    <3>1. PICK co \in Threads :
             LuaResume(co) /\ base' = [base EXCEPT ![co] = frames[co]]
      BY <2>6 DEF BeginCoroutine
    <3>2. UNCHANGED <<debugState, stepinfo, origin>>
      BY <2>6 DEF BeginCoroutine
    <3>3. debugState \in CountedSteps => base'[origin.L] = base[origin.L]
      <4> SUFFICES ASSUME debugState \in CountedSteps
                   PROVE  base'[origin.L] = base[origin.L]
        OBVIOUS
      <4>1. PICK i \in 1 .. Len(coroutines) : coroutines[i].L = stepinfo.L
        BY <2>1, TypeInvFacts DEF StepTargetRuns, CountInv
      <4>2. lua[i] = origin.L /\ i \in DOMAIN lua
        BY <2>1, <4>1, TypeInvFacts DEF CountInv, Counts, OriginInv
      <4>3. origin.L # co
        BY <3>1, <4>2 DEF LuaResume, IsRunning
      <4> QED
        BY <2>1, <3>1, <4>3 DEF CountInv, TypeInv, TypeOK
    <3> QED
      BY <2>1, <3>2, <3>3 DEF OriginInv
  <2>7. CASE CaughtError \/ HostResumeBegin \/ HostResumeEnd
    BY <2>7 DEF CaughtError, HostResumeBegin, HostResumeEnd
  <2> QED
    BY <1>2, <2>3, <2>4, <2>5, <2>6, <2>7 DEF Next
<1>3. StepInv /\ [Next]_vars => OriginInv'
  BY <1>2
<1> QED
  BY <1>1, <1>3, CountInvAlways, StepTargetAlwaysRuns, PTL DEF Spec, StepInv

(* Every step of the hook and of SetDebugState is one of the semantics.     *)
LEMMA StepIsSemStep ==
    ASSUME ~LuaErrors, ~HostResume, ~Resteps, StepInv, [Next]_vars
    PROVE  [Semantics!SemNext]_(Semantics!semVars)
<1>1. OriginInv /\ CountInv
  BY DEF StepInv
<1>2. CASE UNCHANGED vars
  BY <1>2 DEF vars, luaVars, ctxVars, Semantics!semVars, Semantics!luaVars
<1>3. CASE Start
  BY <1>3 DEF Start, ctxVars, luaVars, Semantics!SemNext, Semantics!SemStart,
     Semantics!luaVars
<1>4. CASE HookCall
  BY <1>4 DEF HookCall, LuaCall, Top, Semantics!SemNext, Semantics!SemCall,
     Semantics!LuaCall, Semantics!Top
<1>5. CASE HookReturn
  <2>1. StopsAtReturn <=> debugState = "STEPRETURN" /\ Semantics!BackAtOrigin
    BY WithinStepIsBack DEF StopsAtReturn, CountedSteps
  <2>2. Semantics!StopIf(debugState = "STEPRETURN" /\ Semantics!BackAtOrigin)
    BY <1>1, <1>5, <2>1, BreakIfStops DEF HookReturn, Semantics!StopIf
  <2> QED
    BY <1>5, <2>2 DEF HookReturn, LuaReturn, Top, Semantics!SemNext,
       Semantics!SemReturn, Semantics!LuaReturn, Semantics!Top
<1>6. ASSUME NEW isBreakpoint \in BOOLEAN, HookLine(isBreakpoint)
      PROVE  Semantics!SemLine(isBreakpoint)
  <2> DEFINE stops == \/ isBreakpoint
                      \/ debugState = "STEPINTO"
                      \/ debugState = "STEPOVER" /\ Semantics!BackAtOrigin
  <2>1. (StopsAtLine \/ isBreakpoint) <=> stops
    BY WithinStepIsBack DEF StopsAtLine, CountedSteps
  <2>2. Semantics!StopIf(stops)
    BY <1>1, <1>6, <2>1, BreakIfStops DEF HookLine, Semantics!StopIf
  <2> QED
    BY <1>6, <2>2 DEF HookLine, LuaLine, luaVars, Top, Semantics!SemLine,
       Semantics!LuaLine, Semantics!luaVars, Semantics!Top
<1>7. CASE \E req \in DebugStates : HandleRequest(req)
  BY <1>7, RequestIsObeyed DEF Semantics!SemNext, Semantics!DebugStates,
     DebugStates, Semantics!Steps, Steps
<1>8. CASE LeaveHook
  BY <1>8 DEF LeaveHook, ctxVars, luaVars, Semantics!SemNext,
     Semantics!SemGoOn, Semantics!luaVars
<1>9. CASE BeginCoroutine
  BY <1>9 DEF BeginCoroutine, LuaResume, IsRunning, Top, Semantics!SemNext,
     Semantics!SemResume, Semantics!LuaResume, Semantics!IsRunning, Semantics!Top
<1>10. ASSUME NEW t \in Threads
       PROVE  EndForcesBreak(t)
                <=> debugState \in Semantics!CountedSteps /\ origin.L = t
  BY <1>1 DEF EndForcesBreak, OriginInv, Semantics!CountedSteps, CountedSteps
<1>11. CASE EndCoroutine
  <2>1. Top = Semantics!Top /\ Top \in Threads
    BY <1>1, BackIsTop DEF Top, Semantics!Top
  <2>2. Semantics!StopIf(debugState \in Semantics!CountedSteps
                         /\ origin.L = Semantics!Top)
    BY <1>1, <1>10, <1>11, <2>1, BreakIfStops DEF EndCoroutine, Semantics!StopIf
  <2>3. Semantics!LuaYield \/ Semantics!LuaFinish \/ Semantics!LuaFail
    BY <1>11, <2>1 DEF EndCoroutine, LuaYield, LuaFinish, LuaFail, Popped,
       Semantics!LuaYield, Semantics!LuaFinish, Semantics!LuaFail,
       Semantics!Popped
  <2> QED
    BY <1>11, <2>2, <2>3 DEF EndCoroutine, Semantics!SemNext, Semantics!SemLeave
<1>12. CASE ResumeRefused
  <2>1. PICK co \in Threads : LuaResumeRefused(co) /\ BreakIf(EndForcesBreak(co))
    BY <1>12 DEF ResumeRefused
  <2>2. Semantics!StopIf(debugState \in Semantics!CountedSteps /\ origin.L = co)
    BY <1>1, <1>10, <2>1, BreakIfStops DEF Semantics!StopIf
  <2> QED
    BY <1>12, <2>1, <2>2 DEF ResumeRefused, LuaResumeRefused, IsRunning, Top,
       luaVars, Semantics!SemNext, Semantics!SemResumeRefused,
       Semantics!LuaResumeRefused, Semantics!IsRunning, Semantics!Top,
       Semantics!luaVars
<1>13. CASE CaughtError \/ HostResumeBegin \/ HostResumeEnd
  BY <1>13 DEF CaughtError, HostResumeBegin, HostResumeEnd
<1>14. CASE \E isBreakpoint \in BOOLEAN : HookLine(isBreakpoint)
  BY <1>6, <1>14 DEF Semantics!SemNext
<1> QED
  BY <1>2, <1>3, <1>4, <1>5, <1>7, <1>8, <1>9, <1>11, <1>12, <1>13, <1>14
  DEF Next

(* The counters of the hook do what the stepping commands promise in terms  *)
(* of activations, whatever the program calls, resumes and yields, as long  *)
(* as no error is caught, the host drives no coroutine and no request comes *)
(* during a step (context.cpp:731-750, 764-846).                            *)
THEOREM CountersImplementSteps ==
    ASSUME ~LuaErrors, ~HostResume, ~Resteps
    PROVE  Spec => ImplementsStepSemantics
<1>1. Init => Semantics!SemInit
  BY DEF Init, LuaInit, NoStep, Semantics!SemInit, Semantics!LuaInit,
     Semantics!NoStep
<1>2. StepInv /\ [Next]_vars => [Semantics!SemNext]_(Semantics!semVars)
  BY StepIsSemStep
<1> QED
  BY <1>1, <1>2, StepInvAlways, PTL
  DEF Spec, ImplementsStepSemantics, Semantics!SemSpec

=============================================================================
