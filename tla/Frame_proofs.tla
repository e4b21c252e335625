----------------------------- MODULE Frame_proofs -----------------------------
(***************************************************************************)
(* Proofs about FrameViews, for any watches and any number of stops and of *)
(* acts of the user.                                                       *)
(***************************************************************************)
EXTENDS FrameViews, SequenceFacts

-----------------------------------------------------------------------------
(* The commands on their way *)

VarsReq == [type : {"VARS"}, watch : Watches, count : Nat, frame : Nat, late : BOOLEAN]
FieldsReq == [type : {"FIELDS"}, watch : Watches, count : Nat, id : Nat \ {0}, of : Nat]
EvalReq == [type : {"EVAL"}, frame : Nat, late : BOOLEAN]
BacktraceReq == [type : {"BACKTRACE"}]
ResumeReq == [type : {"RESUME"}]
ForceReq == [type : {"FORCE_UPDATESOURCE"}]
SuccessMsg == [type : {"SUCCESSED"}]
ContextMsg == VarsReq \cup FieldsReq \cup EvalReq \cup BacktraceReq \cup ResumeReq
                 \cup ForceReq \cup SuccessMsg

VarsAns == [type : {"VARS"}, watch : Watches, count : Nat, frame : Nat,
            late : BOOLEAN, data : Nat, has : BOOLEAN]
FieldsAns == [type : {"FIELDS"}, watch : Watches, count : Nat, id : Nat \ {0},
              of : Nat, data : Nat]
BacktraceAns == [type : {"BACKTRACE"}, stack : Nat]
ValuesAns == [type : {"VALUES"}, successed : BOOLEAN]
StateMsg == [type : {"CHANGED_STATE"}, isBreak : BOOLEAN]
UpdateMsg == [type : {"UPDATE_SOURCE"}, isRefreshOnly : BOOLEAN]
FrameMsg == VarsAns \cup FieldsAns \cup BacktraceAns \cup ValuesAns \cup StateMsg
               \cup UpdateMsg

(* The root item of a watch has no id of its own. *)
TypesInv ==
    /\ TypeOK
    /\ c2f \in Seq(FrameMsg) /\ f2c \in Seq(ContextMsg)
    /\ \A w \in Watches : item[w].id = 0 => item[w] = NoItem

(* What a command is, by its type. *)
LEMMA ContextKinds ==
    ASSUME NEW m \in ContextMsg
    PROVE  /\ m.type = "VARS" => m \in VarsReq
           /\ m.type = "FIELDS" => m \in FieldsReq
           /\ m.type = "EVAL" => m \in EvalReq
           /\ m.type = "BACKTRACE" => m \in BacktraceReq
           /\ m.type = "RESUME" => m \in ResumeReq
           /\ m.type = "FORCE_UPDATESOURCE" => m \in ForceReq
           /\ m.type = "SUCCESSED" => m \in SuccessMsg
  BY DEF ContextMsg, VarsReq, FieldsReq, EvalReq, BacktraceReq, ResumeReq, ForceReq,
         SuccessMsg

LEMMA FrameKinds ==
    ASSUME NEW m \in FrameMsg
    PROVE  /\ m.type = "VARS" => m \in VarsAns
           /\ m.type = "FIELDS" => m \in FieldsAns
           /\ m.type = "BACKTRACE" => m \in BacktraceAns
           /\ m.type = "VALUES" => m \in ValuesAns
           /\ m.type = "CHANGED_STATE" => m \in StateMsg
           /\ m.type = "UPDATE_SOURCE" => m \in UpdateMsg
  BY DEF FrameMsg, VarsAns, FieldsAns, BacktraceAns, ValuesAns, StateMsg, UpdateMsg

LEMMA KindTypes ==
    /\ \A m \in VarsReq : m.type = "VARS"
    /\ \A m \in VarsAns : m.type = "VARS"
    /\ \A m \in FieldsReq : m.type = "FIELDS"
    /\ \A m \in FieldsAns : m.type = "FIELDS"
    /\ \A m \in EvalReq : m.type = "EVAL"
    /\ \A m \in BacktraceReq : m.type = "BACKTRACE"
    /\ \A m \in BacktraceAns : m.type = "BACKTRACE"
    /\ \A m \in ResumeReq : m.type = "RESUME"
    /\ \A m \in ForceReq : m.type = "FORCE_UPDATESOURCE"
    /\ \A m \in SuccessMsg : m.type = "SUCCESSED"
    /\ \A m \in ValuesAns : m.type = "VALUES"
    /\ \A m \in StateMsg : m.type = "CHANGED_STATE"
    /\ \A m \in UpdateMsg : m.type = "UPDATE_SOURCE"
  BY DEF VarsReq, FieldsReq, EvalReq, BacktraceReq, ResumeReq, ForceReq,
         SuccessMsg, VarsAns, FieldsAns, BacktraceAns, ValuesAns, StateMsg, UpdateMsg

(* The commands that are sent. *)
StateOf(b) == [type |-> "CHANGED_STATE", isBreak |-> b]
UpdateOf(r) == [type |-> "UPDATE_SOURCE", isRefreshOnly |-> r]
BacktraceOf(s) == [type |-> "BACKTRACE", stack |-> s]
ValuesOf(s) == [type |-> "VALUES", successed |-> s]
EvalOf(f, l) == [type |-> "EVAL", frame |-> f, late |-> l]
TheBacktrace == [type |-> "BACKTRACE"]
TheResume == [type |-> "RESUME"]
TheForce == [type |-> "FORCE_UPDATESOURCE"]
TheSuccess == [type |-> "SUCCESSED"]

LEMMA SentTypes ==
    /\ \A b \in BOOLEAN : /\ StateOf(b) \in StateMsg /\ StateOf(b).isBreak = b
                          /\ UpdateOf(b) \in UpdateMsg /\ UpdateOf(b).isRefreshOnly = b
                          /\ ValuesOf(b) \in ValuesAns /\ ValuesOf(b).successed = b
                          /\ \A f \in Nat : /\ EvalOf(f, b) \in EvalReq
                                            /\ EvalOf(f, b).frame = f
                                            /\ EvalOf(f, b).late = b
    /\ \A s \in Nat : BacktraceOf(s) \in BacktraceAns /\ BacktraceOf(s).stack = s
    /\ TheBacktrace \in BacktraceReq /\ TheResume \in ResumeReq
    /\ TheForce \in ForceReq /\ TheSuccess \in SuccessMsg
  BY DEF StateOf, UpdateOf, BacktraceOf, ValuesOf, EvalOf, TheBacktrace, TheResume,
         TheForce, TheSuccess, EvalReq, BacktraceReq, ResumeReq, ForceReq, SuccessMsg,
         BacktraceAns, ValuesAns, StateMsg, UpdateMsg

LEMMA AnswerTypes ==
    ASSUME TypeOK
    PROVE  /\ \A m \in VarsReq :
                 /\ VarsAnswer(m) \in VarsAns
                 /\ VarsAnswer(m).watch = m.watch /\ VarsAnswer(m).count = m.count
                 /\ VarsAnswer(m).frame = m.frame /\ VarsAnswer(m).data = data
           /\ \A m \in FieldsReq :
                 /\ FieldsAnswer(m) \in FieldsAns
                 /\ FieldsAnswer(m).watch = m.watch /\ FieldsAnswer(m).count = m.count
                 /\ FieldsAnswer(m).id = m.id /\ FieldsAnswer(m).of = m.of
                 /\ FieldsAnswer(m).data = data
<1>1. data \in Nat /\ has \in BOOLEAN
  BY DEF TypeOK
<1>2. ASSUME NEW m \in VarsReq
      PROVE  /\ VarsAnswer(m) \in VarsAns
             /\ VarsAnswer(m).watch = m.watch /\ VarsAnswer(m).count = m.count
             /\ VarsAnswer(m).frame = m.frame /\ VarsAnswer(m).data = data
  BY <1>1 DEF VarsAnswer, VarsReq, VarsAns
<1>3. ASSUME NEW m \in FieldsReq
      PROVE  /\ FieldsAnswer(m) \in FieldsAns
             /\ FieldsAnswer(m).watch = m.watch /\ FieldsAnswer(m).count = m.count
             /\ FieldsAnswer(m).id = m.id /\ FieldsAnswer(m).of = m.of
             /\ FieldsAnswer(m).data = data
  BY <1>1 DEF FieldsAnswer, FieldsReq, FieldsAns
<1> QED
  BY <1>2, <1>3

(* The commands u ask for the roots of ws; the others of them are in B.      *)
Asks(u, ws, n, fr, B) ==
    /\ u \in Seq(ContextMsg)
    /\ \A i \in DOMAIN u :
          \/ /\ u[i] \in VarsReq /\ u[i].watch \in ws
             /\ u[i].count = n /\ u[i].frame = fr /\ u[i].late = late'
          \/ u[i] \in B
    /\ \A w \in ws : \E i \in DOMAIN u : u[i] \in VarsReq /\ u[i].watch = w

(* What is asked of the roots: of each watch, once. *)
LEMMA VarsOfFacts ==
    ASSUME NEW ws \in SUBSET Watches, NEW n \in Nat, NEW fr \in Nat, late' \in BOOLEAN
    PROVE  Asks(VarsOf(ws, n, fr), ws, n, fr, {})
<1>1. IsFiniteSet(ws)
  BY ViewsAssumption, FS_Subset
<1> DEFINE k == Cardinality(ws)
           f == SetToSeq(ws)
           v == VarsOf(ws, n, fr)
<1>2. k \in Nat
  BY <1>1, FS_CardinalityType
<1>3. f \in [1 .. k -> ws] /\ IsInjective(f)
  <2>1. \E g : g \in Bijection(1 .. k, ws)
    BY <1>1, FS_CardinalityType, FS_NatBijection DEF ExistsBijection
  <2>2. PICK g : g \in Bijection(1 .. k, ws)
    BY <2>1
  <2>3. g \in [1 .. k -> ws] /\ IsInjective(g)
    BY <2>2 DEF Bijection, Injection, IsInjective
  <2> QED
    BY <2>3 DEF SetToSeq
<1>4. \A w \in ws : \E i \in 1 .. k : f[i] = w
  <2>1. f \in Injection(1 .. k, ws)
    BY <1>3 DEF Injection, IsInjective
  <2>2. IsFiniteSet(1 .. k) /\ Cardinality(1 .. k) = k
    BY <1>2, FS_Interval
  <2>3. f \in Surjection(1 .. k, ws)
    BY <1>1, <2>1, <2>2, FS_Injection
  <2> QED
    BY <2>3 DEF Surjection
<1>5. v = [i \in 1 .. k |-> Vars(f[i], n, fr)]
  BY DEF VarsOf
<1>6. ASSUME NEW w \in ws
      PROVE  /\ Vars(w, n, fr) \in VarsReq /\ Vars(w, n, fr).watch = w
             /\ Vars(w, n, fr).count = n /\ Vars(w, n, fr).frame = fr
             /\ Vars(w, n, fr).late = late'
  BY DEF Vars, VarsReq
<1> HIDE DEF k, f, v
<1>7. DOMAIN v = 1 .. k /\ \A i \in 1 .. k : v[i] = Vars(f[i], n, fr) /\ f[i] \in ws
  BY <1>3, <1>5
<1>8. v \in Seq(VarsReq)
  BY <1>2, <1>5, <1>6, <1>7
<1>9. v \in Seq(ContextMsg)
  BY <1>8 DEF ContextMsg
<1>10. Asks(v, ws, n, fr, {})
  BY <1>4, <1>6, <1>7, <1>9 DEF Asks
<1> QED
  BY <1>10 DEF v

-----------------------------------------------------------------------------
(* The steps of the channels *)

LEMMA ReceivesDoes ==
    ASSUME TypesInv, NEW type, Receives(type)
    PROVE  /\ f2c \in Seq(ContextMsg) /\ f2c # <<>>
           /\ Head(f2c) \in ContextMsg /\ Head(f2c).type = type
           /\ f2c' = Tail(f2c) /\ f2c' \in Seq(ContextMsg)
  BY TailFacts DEF Receives, TypesInv

LEMMA ProcessesDoes ==
    ASSUME TypesInv, NEW type, Processes(type)
    PROVE  /\ c2f \in Seq(FrameMsg) /\ c2f # <<>>
           /\ Head(c2f) \in FrameMsg /\ Head(c2f).type = type
           /\ c2f' = Tail(c2f) /\ c2f' \in Seq(FrameMsg)
  BY TailFacts DEF Processes, TypesInv

LEMMA ToFrameDoes ==
    ASSUME TypesInv
    PROVE  /\ ToFrame(<<>>) => c2f' = c2f
           /\ \A m \in FrameMsg : ToFrame(<<m>>) =>
                 c2f' = Append(c2f, m) /\ c2f' \in Seq(FrameMsg)
<1>1. c2f \in Seq(FrameMsg)
  BY DEF TypesInv
<1>2. c2f \o <<>> = c2f
  BY <1>1, ConcatEmptySeq
<1>3. \A m \in FrameMsg : c2f \o <<m>> = Append(c2f, m) /\ Append(c2f, m) \in Seq(FrameMsg)
  BY <1>1, AppendIsConcat, AppendProperties
<1> QED
  BY <1>2, <1>3 DEF ToFrame

LEMMA ToContextDoes ==
    ASSUME TypesInv
    PROVE  /\ ToContext(<<>>) => f2c' = f2c
           /\ \A u \in Seq(ContextMsg) : ToContext(u) =>
                 f2c' = f2c \o u /\ f2c' \in Seq(ContextMsg)
<1>1. f2c \in Seq(ContextMsg)
  BY DEF TypesInv
<1>2. f2c \o <<>> = f2c
  BY <1>1, ConcatEmptySeq
<1>3. \A u \in Seq(ContextMsg) : f2c \o u \in Seq(ContextMsg)
  BY <1>1, ConcatProperties
<1> QED
  BY <1>2, <1>3 DEF ToContext

(* A queue of one command. *)
LEMMA Single ==
    ASSUME NEW S, NEW m \in S
    PROVE  /\ <<m>> \in Seq(S) /\ DOMAIN <<m>> = {1} /\ <<m>>[1] = m
           /\ \A A : NoneIn(<<m>>, A) <=> m \notin A
           /\ \A A, B : NoneAfter(<<m>>, A, B)
<1>1. <<m>> \in Seq(S) /\ DOMAIN <<m>> = {1} /\ <<m>>[1] = m
  OBVIOUS
<1>2. ~(1 < 1)
  OBVIOUS
<1> QED
  BY <1>1, <1>2 DEF NoneIn, NoneAfter

(* The request for the fields of a variable. *)
LEMMA FieldsFacts ==
    ASSUME NEW w \in Watches, NEW n \in Nat, NEW i, i.id \in Nat \ {0}, i.of \in Nat
    PROVE  /\ Fields(w, n, i) \in FieldsReq
           /\ Fields(w, n, i).watch = w /\ Fields(w, n, i).count = n
           /\ Fields(w, n, i).id = i.id /\ Fields(w, n, i).of = i.of
  BY DEF Fields, FieldsReq

(* What OnUpdateSource and FocusBacktraceLine ask for, the former with the   *)
(* answer of the update.                                                     *)
BacktraceIfEnabled == IF enabled THEN Backtrace ELSE <<>>
Asked(fr) == VarsOf(Refreshed, count + 1, fr) \o BacktraceIfEnabled

LEMMA AskedFacts ==
    ASSUME TypesInv, NEW fr \in Nat, late' \in BOOLEAN
    PROVE  /\ Asked(fr) \in Seq(ContextMsg)
           /\ \A i \in DOMAIN Asked(fr) :
                 LET m == Asked(fr)[i]
                 IN  \/ /\ m \in VarsReq /\ m.watch \in Refreshed
                        /\ m.count = count + 1 /\ m.frame = fr /\ m.late = late'
                     \/ m \in BacktraceReq
           /\ \A w \in Refreshed : \E i \in DOMAIN Asked(fr) :
                 Asked(fr)[i] \in VarsReq /\ Asked(fr)[i].watch = w
           /\ enabled => ~NoneIn(Asked(fr), BacktraceReq)
           /\ ToContext(Asked(fr) \o <<TheSuccess>>)
                 => f2c' = Append(f2c \o Asked(fr), TheSuccess)
<1> DEFINE v == VarsOf(Refreshed, count + 1, fr)
           b == BacktraceIfEnabled
<1>1. Refreshed \in SUBSET Watches /\ count + 1 \in Nat
  BY DEF Refreshed, TypesInv, TypeOK
<1>2. /\ v \in Seq(ContextMsg)
      /\ \A i \in DOMAIN v : /\ v[i] \in VarsReq /\ v[i].watch \in Refreshed
                             /\ v[i].count = count + 1 /\ v[i].frame = fr
                             /\ v[i].late = late'
      /\ \A w \in Refreshed : \E i \in DOMAIN v : v[i].watch = w
  <2>1. Asks(v, Refreshed, count + 1, fr, {})
    BY <1>1, VarsOfFacts
  <2> HIDE DEF v
  <2> QED
    BY <2>1 DEF Asks
<1>3. TheBacktrace \in BacktraceReq /\ TheBacktrace \in ContextMsg
      /\ TheSuccess \in ContextMsg
  BY SentTypes DEF ContextMsg
<1>4. Backtrace = <<TheBacktrace>>
  BY DEF Backtrace, TheBacktrace
<1>5. /\ b \in Seq(ContextMsg)
      /\ \A i \in DOMAIN b : b[i] \in BacktraceReq
      /\ enabled => ~NoneIn(b, BacktraceReq)
  <2>1. CASE enabled
    BY <1>3, <1>4, <2>1, Single DEF BacktraceIfEnabled
  <2>2. CASE ~enabled
    BY <2>2 DEF BacktraceIfEnabled
  <2> QED
    BY <2>1, <2>2
<1> HIDE DEF v, b
<1>6. Asked(fr) = v \o b
  BY DEF Asked, v, b
<1>7. /\ v \o b \in Seq(ContextMsg)
      /\ \A i \in DOMAIN v : i \in DOMAIN (v \o b) /\ (v \o b)[i] = v[i]
      /\ \A i \in DOMAIN (v \o b) :
            \/ i \in DOMAIN v /\ (v \o b)[i] = v[i]
            \/ \E j \in DOMAIN b : (v \o b)[i] = b[j]
  BY <1>2, <1>5, ConcatPlaces
<1>8. enabled => ~NoneIn(v \o b, BacktraceReq)
  BY <1>2, <1>5, ConcatOrder
<1>9. ASSUME ToContext(Asked(fr) \o <<TheSuccess>>)
      PROVE  f2c' = Append(f2c \o Asked(fr), TheSuccess)
  <2>1. f2c \in Seq(ContextMsg) /\ <<TheSuccess>> \in Seq(ContextMsg)
    BY <1>3 DEF TypesInv
  <2>2. f2c \o (Asked(fr) \o <<TheSuccess>>) = (f2c \o Asked(fr)) \o <<TheSuccess>>
    BY <1>6, <1>7, <2>1, ConcatAssociative
  <2>3. f2c \o Asked(fr) \in Seq(ContextMsg)
    BY <1>6, <1>7, <2>1, ConcatProperties
  <2>4. (f2c \o Asked(fr)) \o <<TheSuccess>> = Append(f2c \o Asked(fr), TheSuccess)
    BY <1>3, <2>3, AppendIsConcat
  <2> QED
    BY <1>9, <2>2, <2>4 DEF ToContext
<1> QED
  BY <1>2, <1>5, <1>6, <1>7, <1>8, <1>9

-----------------------------------------------------------------------------
(* The steps, with the commands they take and send *)

LEMMA RunDoes ==
    ASSUME TypesInv, Run
    PROVE  /\ ~stopped /\ ~prevBreak' /\ data' = data + 1 /\ data' \in Nat
           /\ has' \in BOOLEAN /\ stack' \in Nat /\ stopped' \in BOOLEAN
           /\ moves' \in 0 .. MaxMoves
           /\ \/ ~stopped' /\ c2f' = c2f
              \/ stopped' /\ c2f' = Append(c2f, StateOf(TRUE)) /\ c2f' \in Seq(FrameMsg)
           /\ UNCHANGED <<isMustUpdate, wait, f2c, trees, frame, silent>>
<1>1. StateOf(TRUE) \in FrameMsg /\ ChangedState(TRUE) = <<StateOf(TRUE)>>
  BY SentTypes DEF FrameMsg, ChangedState, StateOf
<1>2. moves' \in 0 .. MaxMoves
  BY ViewsAssumption DEF Run, TypesInv, TypeOK
<1>3. ASSUME stopped' PROVE c2f' = Append(c2f, StateOf(TRUE)) /\ c2f' \in Seq(FrameMsg)
  <2>1. ToFrame(<<StateOf(TRUE)>>)
    BY <1>1, <1>3 DEF Run
  <2> QED
    BY <1>1, <2>1, ToFrameDoes
<1>4. ASSUME ~stopped' PROVE c2f' = c2f
  <2>1. ToFrame(<<>>)
    BY <1>4 DEF Run
  <2> QED
    BY <2>1, ToFrameDoes
<1>5. data' = data + 1 /\ data' \in Nat /\ stack' \in Nat
  BY DEF Run, TypesInv, TypeOK
<1>6. ~stopped /\ ~prevBreak' /\ has' \in BOOLEAN /\ stopped' \in BOOLEAN
  BY DEF Run
<1>7. UNCHANGED <<isMustUpdate, wait, f2c, trees, frame, silent>>
  BY DEF Run
<1> QED
  BY <1>2, <1>3, <1>4, <1>5, <1>6, <1>7

LEMMA SendUpdateSourceDoes ==
    ASSUME TypesInv, SendUpdateSource
    PROVE  /\ stopped /\ (isMustUpdate \/ ~prevBreak)
           /\ ~isMustUpdate' /\ prevBreak' /\ wait' = wait + 1 /\ wait' \in Nat
           /\ c2f' = Append(c2f, UpdateOf(prevBreak)) /\ c2f' \in Seq(FrameMsg)
           /\ prevBreak \in BOOLEAN
           /\ UNCHANGED <<program, stopped, f2c, trees, frame, silent>>
<1>1. UpdateOf(prevBreak) \in FrameMsg
  BY SentTypes DEF FrameMsg, TypesInv, TypeOK
<1>2. ToFrame(<<UpdateOf(prevBreak)>>)
  BY DEF SendUpdateSource, UpdateOf
<1> QED
  BY <1>1, <1>2, ToFrameDoes DEF SendUpdateSource, TypesInv, TypeOK

LEMMA HandleResumeDoes ==
    ASSUME TypesInv, HandleResume
    PROVE  /\ f2c # <<>> /\ Head(f2c) \in ResumeReq /\ f2c' = Tail(f2c)
           /\ \/ /\ stopped /\ wait = 0 /\ ~stopped'
                 /\ c2f' = Append(c2f, StateOf(FALSE)) /\ c2f' \in Seq(FrameMsg)
              \/ ~(stopped /\ wait = 0) /\ stopped' = stopped /\ c2f' = c2f
           /\ UNCHANGED <<program, prevBreak, isMustUpdate, wait, trees, frame, silent>>
<1>1. StateOf(FALSE) \in FrameMsg /\ ChangedState(FALSE) = <<StateOf(FALSE)>>
  BY SentTypes DEF FrameMsg, ChangedState, StateOf
<1>2. f2c # <<>> /\ Head(f2c) \in ResumeReq /\ f2c' = Tail(f2c)
  BY ReceivesDoes, ContextKinds DEF HandleResume
<1>3. CASE Obeys
  <2>1. ToFrame(<<StateOf(FALSE)>>)
    BY <1>1, <1>3 DEF HandleResume
  <2> QED
    BY <1>1, <1>2, <1>3, <2>1, ToFrameDoes DEF HandleResume, Obeys
<1>4. CASE ~Obeys
  <2>1. ToFrame(<<>>)
    BY <1>4 DEF HandleResume
  <2>2. stopped \in BOOLEAN
    BY DEF TypesInv, TypeOK
  <2> QED
    BY <1>2, <1>4, <2>1, <2>2, ToFrameDoes DEF HandleResume, Obeys
<1> QED
  BY <1>3, <1>4

LEMMA HandleForceDoes ==
    ASSUME TypesInv, HandleForceUpdateSource
    PROVE  /\ f2c # <<>> /\ Head(f2c) \in ForceReq /\ f2c' = Tail(f2c)
           /\ isMustUpdate'
           /\ UNCHANGED <<program, stopped, prevBreak, wait, c2f, trees, frame, silent>>
  BY ReceivesDoes, ContextKinds DEF HandleForceUpdateSource

LEMMA HandleSuccessedDoes ==
    ASSUME TypesInv, HandleSuccessed
    PROVE  /\ f2c # <<>> /\ Head(f2c) \in SuccessMsg /\ f2c' = Tail(f2c)
           /\ wait' = wait - 1
           /\ UNCHANGED <<program, stopped, prevBreak, isMustUpdate, c2f, trees, frame,
                          silent>>
  BY ReceivesDoes, ContextKinds DEF HandleSuccessed, Answered

LEMMA HandleRequestDoes ==
    ASSUME TypesInv, HandleRequest
    PROVE  /\ f2c # <<>> /\ f2c' = Tail(f2c)
           /\ \/ /\ Head(f2c) \in VarsReq
                 /\ c2f' = Append(c2f, VarsAnswer(Head(f2c)))
              \/ /\ Head(f2c) \in FieldsReq
                 /\ c2f' = Append(c2f, FieldsAnswer(Head(f2c)))
              \/ /\ Head(f2c) \in BacktraceReq
                 /\ c2f' = Append(c2f, BacktraceOf(stack))
           /\ c2f' \in Seq(FrameMsg)
           /\ UNCHANGED <<program, loop, trees, frame, silent>>
<1>1. /\ BacktraceOf(stack) \in FrameMsg
      /\ \A m \in VarsReq : VarsAnswer(m) \in FrameMsg
      /\ \A m \in FieldsReq : FieldsAnswer(m) \in FrameMsg
  BY SentTypes, AnswerTypes DEF FrameMsg, TypesInv, TypeOK
<1>2. CASE Receives("VARS") /\ ToFrame(<<VarsAnswer(Head(f2c))>>)
  <2>1. f2c # <<>> /\ Head(f2c) \in VarsReq /\ f2c' = Tail(f2c)
    BY <1>2, ReceivesDoes, ContextKinds
  <2> QED
    BY <1>1, <1>2, <2>1, ToFrameDoes DEF HandleRequest
<1>3. CASE Receives("FIELDS") /\ ToFrame(<<FieldsAnswer(Head(f2c))>>)
  <2>1. f2c # <<>> /\ Head(f2c) \in FieldsReq /\ f2c' = Tail(f2c)
    BY <1>3, ReceivesDoes, ContextKinds
  <2> QED
    BY <1>1, <1>3, <2>1, ToFrameDoes DEF HandleRequest
<1>4. CASE Receives("BACKTRACE") /\ ToFrame(<<BacktraceOf(stack)>>)
  <2>1. f2c # <<>> /\ Head(f2c) \in BacktraceReq /\ f2c' = Tail(f2c)
    BY <1>4, ReceivesDoes, ContextKinds
  <2> QED
    BY <1>1, <1>4, <2>1, ToFrameDoes DEF HandleRequest
<1> QED
  BY <1>2, <1>3, <1>4 DEF HandleRequest, BacktraceOf

LEMMA HandleEvalDoes ==
    ASSUME TypesInv, HandleEval
    PROVE  /\ f2c # <<>> /\ Head(f2c) \in EvalReq /\ f2c' = Tail(f2c)
           /\ \E changes, successed \in BOOLEAN :
                 /\ data' = IF changes THEN data + 1 ELSE data
                 /\ c2f' = Append(c2f, ValuesOf(successed))
                 /\ silent' = (silent \/ (changes /\ ~successed))
           /\ c2f' \in Seq(FrameMsg) /\ data' \in Nat /\ silent' \in BOOLEAN
           /\ UNCHANGED <<has, stack, moves, loop, trees, frame>>
<1>1. \A s \in BOOLEAN : ValuesOf(s) \in FrameMsg
  BY SentTypes DEF FrameMsg
<1>2. f2c # <<>> /\ Head(f2c) \in EvalReq /\ f2c' = Tail(f2c)
  BY ReceivesDoes, ContextKinds DEF HandleEval
<1>3. PICK changes \in BOOLEAN, successed \in BOOLEAN :
         /\ data' = IF changes THEN data + 1 ELSE data
         /\ ToFrame(<<ValuesOf(successed)>>)
         /\ silent' = (silent \/ (changes /\ ~successed))
  BY DEF HandleEval, ValuesOf
<1>4. c2f' = Append(c2f, ValuesOf(successed)) /\ c2f' \in Seq(FrameMsg)
  BY <1>1, <1>3, ToFrameDoes
<1>5. data' \in Nat /\ silent' \in BOOLEAN
  BY <1>3 DEF TypesInv, TypeOK
<1> QED
  BY <1>2, <1>3, <1>4, <1>5 DEF HandleEval

RootRec == [req : Counts, upd : Counts, data : Nat, stack : Nat]
ItemRec == [id : Nat, req : Counts, upd : Counts, of : Nat, fields : Seq(Nat)]

(* The item after its root was updated, and after its fields were.           *)
NewItem(m) ==
    [id |-> IF item[m.watch] = NoItem THEN count + 1 ELSE item[m.watch].id,
     req |-> count, upd |-> -1, of |-> m.data,
     fields |-> IF item[m.watch] = NoItem THEN <<>> ELSE item[m.watch].fields]
Filled(m) ==
    [id |-> item[m.watch].id, req |-> count, upd |-> count, of |-> item[m.watch].of,
     fields |-> <<m.of, m.data>>]

LEMMA ItemFacts ==
    ASSUME TypesInv
    PROVE  /\ NoItem \in ItemRec /\ NoItem.id = 0 /\ NoItem.upd = -1
           /\ \A m \in VarsAns :
                 /\ NewItem(m) \in ItemRec /\ NewItem(m).id \in Nat \ {0}
                 /\ NewItem(m).upd = -1 /\ NewItem(m).of = m.data
                 /\ NewItem(m) # NoItem
           /\ \A m \in FieldsAns :
                 /\ Filled(m) \in ItemRec /\ Filled(m).id = item[m.watch].id
                 /\ Filled(m).upd = count /\ Filled(m).of = item[m.watch].of
                 /\ Filled(m).fields = <<m.of, m.data>>
<1>1. NoItem \in ItemRec /\ NoItem.id = 0 /\ NoItem.upd = -1
  BY DEF NoItem, ItemRec, Counts
<1>2. count \in Nat /\ count \in Counts /\ -1 \in Counts /\ item \in [Watches -> ItemRec]
  BY DEF TypesInv, TypeOK, Counts, ItemRec
<1>3. \A w \in Watches : /\ item[w] \in ItemRec
                         /\ item[w] # NoItem => item[w].id # 0
  BY <1>2 DEF TypesInv
<1>4. \A m \in VarsAns : m.watch \in Watches /\ m.data \in Nat
  BY DEF VarsAns
<1>5. \A m \in FieldsAns : m.watch \in Watches /\ m.data \in Nat /\ m.of \in Nat
  BY DEF FieldsAns
<1>6. ASSUME NEW m \in VarsAns
      PROVE  /\ NewItem(m) \in ItemRec /\ NewItem(m).id \in Nat \ {0}
             /\ NewItem(m).upd = -1 /\ NewItem(m).of = m.data
  <2> DEFINE i == item[m.watch]
             id == IF i = NoItem THEN count + 1 ELSE i.id
             fields == IF i = NoItem THEN <<>> ELSE i.fields
  <2>1. i \in ItemRec /\ (i # NoItem => i.id # 0) /\ m.data \in Nat
    BY <1>3, <1>4
  <2>2. i.id \in Nat /\ i.fields \in Seq(Nat)
    BY <2>1 DEF ItemRec
  <2> HIDE DEF i
  <2>3. id \in Nat \ {0} /\ fields \in Seq(Nat)
    BY <1>2, <2>1, <2>2
  <2>4. NewItem(m) = [id |-> id, req |-> count, upd |-> -1, of |-> m.data,
                      fields |-> fields]
    BY DEF NewItem, i
  <2> HIDE DEF id, fields
  <2> QED
    BY <1>2, <2>1, <2>3, <2>4 DEF ItemRec
<1>7. ASSUME NEW m \in FieldsAns
      PROVE  /\ Filled(m) \in ItemRec /\ Filled(m).id = item[m.watch].id
             /\ Filled(m).upd = count /\ Filled(m).of = item[m.watch].of
             /\ Filled(m).fields = <<m.of, m.data>>
  <2>1. item[m.watch] \in ItemRec /\ <<m.of, m.data>> \in Seq(Nat)
    BY <1>3, <1>5
  <2>2. item[m.watch].id \in Nat /\ item[m.watch].of \in Nat
    BY <2>1 DEF ItemRec
  <2> QED
    BY <1>2, <2>1, <2>2 DEF Filled, ItemRec
<1>8. \A m \in VarsAns : NewItem(m) # NoItem
  BY <1>1, <1>6
<1> QED
  BY <1>1, <1>6, <1>7, <1>8

LEMMA OnVarsDoes ==
    ASSUME TypesInv, OnVars
    PROVE  LET m == Head(c2f)
               w == m.watch
           IN  /\ c2f # <<>> /\ m \in VarsAns /\ w \in Watches
               /\ c2f' = Tail(c2f) /\ c2f' \in Seq(FrameMsg)
               /\ \/ ~(m.count = count /\ root[w].upd # count)
                     /\ UNCHANGED <<root, item, f2c>>
                  \/ /\ m.count = count /\ root[w].upd # count
                     /\ root' = [root EXCEPT ![w] = [req |-> count, upd |-> count,
                                                     data |-> m.data, stack |-> m.frame]]
                     /\ \/ /\ m.has
                           /\ item' = [item EXCEPT ![w] = NewItem(m)]
                           /\ f2c' = Append(f2c, Fields(w, count, NewItem(m)))
                           /\ Fields(w, count, NewItem(m)) \in FieldsReq
                           /\ f2c' \in Seq(ContextMsg)
                        \/ /\ ~m.has
                           /\ item' = [item EXCEPT ![w] = NoItem]
                           /\ f2c' = f2c
               /\ UNCHANGED <<program, loop, shown, early, frame, silent>>
<1> DEFINE m == Head(c2f)
           w == m.watch
           i == NewItem(m)
<1>1. c2f # <<>> /\ m \in VarsAns /\ c2f' = Tail(c2f) /\ c2f' \in Seq(FrameMsg)
  BY ProcessesDoes, FrameKinds DEF OnVars
<1>2. w \in Watches /\ m.has \in BOOLEAN
  BY <1>1 DEF VarsAns
<1>3. i \in ItemRec /\ i.id \in Nat \ {0}
  BY <1>1, ItemFacts
<1>4. i.of \in Nat /\ count \in Nat
  BY <1>3 DEF ItemRec, TypesInv, TypeOK
<1>5. Fields(w, count, i) \in FieldsReq
  BY <1>2, <1>3, <1>4, FieldsFacts
<1>6. Fields(w, count, i) \in ContextMsg /\ <<Fields(w, count, i)>> \in Seq(ContextMsg)
  BY <1>5 DEF ContextMsg
<1>7. UNCHANGED <<program, loop, shown, early, frame, silent>>
  BY DEF OnVars
<1>8. CASE ~(IsCurrent(m.count) /\ root[w].upd # count)
  BY <1>1, <1>2, <1>7, <1>8 DEF OnVars, IsCurrent
<1>9. CASE IsCurrent(m.count) /\ root[w].upd # count
  <2>1. UpdateRoot(m) /\ m.count = count
    BY <1>9 DEF OnVars, IsCurrent
  <2>2. /\ root' = [root EXCEPT ![w] = [req |-> count, upd |-> count,
                                        data |-> m.data, stack |-> m.frame]]
        /\ item' = [item EXCEPT ![w] = IF m.has THEN i ELSE NoItem]
        /\ ToContext(IF m.has THEN Children(w, i) ELSE <<>>)
    BY <2>1 DEF UpdateRoot, NewItem
  <2>3. ASSUME m.has PROVE /\ item' = [item EXCEPT ![w] = i]
                           /\ f2c' = Append(f2c, Fields(w, count, i))
                           /\ f2c' \in Seq(ContextMsg)
    <3>1. ToContext(<<Fields(w, count, i)>>)
      BY <2>2, <2>3 DEF Children
    <3>2. f2c' = f2c \o <<Fields(w, count, i)>> /\ f2c' \in Seq(ContextMsg)
      BY <1>6, <3>1, ToContextDoes
    <3> QED
      BY <1>6, <2>2, <2>3, <3>2, AppendIsConcat DEF TypesInv
  <2>4. ASSUME ~m.has PROVE item' = [item EXCEPT ![w] = NoItem] /\ f2c' = f2c
    BY <2>2, <2>4, ToContextDoes
  <2> QED
    BY <1>1, <1>2, <1>5, <1>7, <1>9, <2>1, <2>2, <2>3, <2>4
<1> QED
  BY <1>8, <1>9

LEMMA OnFieldsDoes ==
    ASSUME TypesInv, OnFields
    PROVE  LET m == Head(c2f)
               w == m.watch
           IN  /\ c2f # <<>> /\ m \in FieldsAns /\ w \in Watches
               /\ c2f' = Tail(c2f) /\ c2f' \in Seq(FrameMsg)
               /\ \/ ~(m.count = count /\ item[w].id = m.id /\ item[w].upd # count)
                     /\ item' = item
                  \/ /\ m.count = count /\ item[w].id = m.id /\ item[w].upd # count
                     /\ item' = [item EXCEPT ![w] = Filled(m)]
               /\ UNCHANGED <<program, loop, f2c, shown, root, early, frame, silent>>
<1> DEFINE m == Head(c2f)
           w == m.watch
<1>1. c2f # <<>> /\ m \in FieldsAns /\ c2f' = Tail(c2f) /\ c2f' \in Seq(FrameMsg)
  BY ProcessesDoes, FrameKinds DEF OnFields
<1>2. w \in Watches
  BY <1>1 DEF FieldsAns
<1>3. UNCHANGED <<program, loop, f2c, shown, root, early, frame, silent>>
  BY DEF OnFields, UpdateItem
<1>4. CASE ~(IsCurrent(m.count) /\ item[w].id = m.id /\ item[w].upd # count)
  BY <1>1, <1>2, <1>3, <1>4 DEF OnFields, IsCurrent
<1>5. CASE IsCurrent(m.count) /\ item[w].id = m.id /\ item[w].upd # count
  <2>1. UpdateItem(m) /\ m.count = count
    BY <1>5 DEF OnFields, IsCurrent
  <2>4. item' = [item EXCEPT ![w] = Filled(m)]
    BY <2>1 DEF UpdateItem, Filled
  <2> QED
    BY <1>1, <1>2, <1>3, <1>5, <2>1, <2>4
<1> QED
  BY <1>4, <1>5

LEMMA OnBacktraceDoes ==
    ASSUME TypesInv, OnBacktrace
    PROVE  /\ c2f # <<>> /\ Head(c2f) \in BacktraceAns
           /\ c2f' = Tail(c2f) /\ c2f' \in Seq(FrameMsg)
           /\ backtrace' = Head(c2f).stack /\ backtrace' \in Nat
           /\ UNCHANGED <<program, loop, f2c, trees, count, chosen, enabled, actions,
                          late, edited, silent>>
<1>1. c2f # <<>> /\ Head(c2f) \in BacktraceAns /\ c2f' = Tail(c2f)
      /\ c2f' \in Seq(FrameMsg)
  BY ProcessesDoes, FrameKinds DEF OnBacktrace
<1>2. Head(c2f).stack \in Nat
  BY <1>1 DEF BacktraceAns
<1> QED
  BY <1>1, <1>2 DEF OnBacktrace, IsSameContents

LEMMA OnValuesDoes ==
    ASSUME TypesInv, OnValues
    PROVE  /\ c2f # <<>> /\ Head(c2f) \in ValuesAns
           /\ c2f' = Tail(c2f) /\ c2f' \in Seq(FrameMsg)
           /\ \/ /\ Head(c2f).successed
                 /\ f2c' = Append(f2c, TheForce) /\ f2c' \in Seq(ContextMsg)
              \/ ~Head(c2f).successed /\ f2c' = f2c
           /\ UNCHANGED <<program, loop, trees, frame, silent>>
<1>1. c2f # <<>> /\ Head(c2f) \in ValuesAns /\ c2f' = Tail(c2f)
      /\ c2f' \in Seq(FrameMsg)
  BY ProcessesDoes, FrameKinds DEF OnValues
<1>2. TheForce \in ContextMsg /\ <<TheForce>> \in Seq(ContextMsg)
  BY SentTypes DEF ContextMsg
<1>3. ASSUME Head(c2f).successed
      PROVE  f2c' = Append(f2c, TheForce) /\ f2c' \in Seq(ContextMsg)
  <2>1. ToContext(<<TheForce>>)
    BY <1>3 DEF OnValues, TheForce
  <2>2. f2c' = f2c \o <<TheForce>> /\ f2c' \in Seq(ContextMsg)
    BY <1>2, <2>1, ToContextDoes
  <2> QED
    BY <1>2, <2>2, AppendIsConcat DEF TypesInv
<1>4. ASSUME ~Head(c2f).successed PROVE f2c' = f2c
  BY <1>4, ToContextDoes DEF OnValues
<1>5. UNCHANGED <<program, loop, trees, frame, silent>>
  BY DEF OnValues
<1> QED
  BY <1>1, <1>3, <1>4, <1>5

LEMMA OnChangedStateDoes ==
    ASSUME TypesInv, OnChangedState
    PROVE  /\ c2f # <<>> /\ Head(c2f) \in StateMsg
           /\ c2f' = Tail(c2f) /\ c2f' \in Seq(FrameMsg)
           /\ enabled' = Head(c2f).isBreak /\ enabled' \in BOOLEAN
           /\ \/ /\ enabled'
                 /\ f2c' = Append(f2c, TheBacktrace) /\ f2c' \in Seq(ContextMsg)
              \/ ~enabled' /\ f2c' = f2c
           /\ UNCHANGED <<program, loop, trees, count, chosen, backtrace, actions, late,
                          edited, silent>>
<1>1. c2f # <<>> /\ Head(c2f) \in StateMsg /\ c2f' = Tail(c2f)
      /\ c2f' \in Seq(FrameMsg)
  BY ProcessesDoes, FrameKinds DEF OnChangedState
<1>2. TheBacktrace \in ContextMsg /\ <<TheBacktrace>> \in Seq(ContextMsg)
  BY SentTypes DEF ContextMsg
<1>3. enabled' = Head(c2f).isBreak /\ enabled' \in BOOLEAN
  BY <1>1 DEF OnChangedState, StateMsg
<1>4. ASSUME enabled'
      PROVE  f2c' = Append(f2c, TheBacktrace) /\ f2c' \in Seq(ContextMsg)
  <2>1. ToContext(<<TheBacktrace>>)
    BY <1>4 DEF OnChangedState, TheBacktrace, Backtrace
  <2>2. f2c' = f2c \o <<TheBacktrace>> /\ f2c' \in Seq(ContextMsg)
    BY <1>2, <2>1, ToContextDoes
  <2> QED
    BY <1>2, <2>2, AppendIsConcat DEF TypesInv
<1>5. ASSUME ~enabled' PROVE f2c' = f2c
  BY <1>5, ToContextDoes DEF OnChangedState
<1>6. UNCHANGED <<program, loop, trees, count, chosen, backtrace, actions, late,
                  edited, silent>>
  BY DEF OnChangedState
<1> QED
  BY <1>1, <1>3, <1>4, <1>5, <1>6

(* A watch asks for its root: the request is noted with the item.            *)
RootsAsked(ws, n) ==
    /\ root' \in [Watches -> RootRec]
    /\ \A w \in Watches : /\ root'[w].req = IF w \in ws THEN n ELSE root[w].req
                          /\ root'[w].upd = root[w].upd
                          /\ root'[w].data = root[w].data
                          /\ root'[w].stack = root[w].stack

LEMMA RequestRootsDoes ==
    ASSUME TypesInv, NEW ws \in SUBSET Watches, NEW n \in Nat, RequestRoots(ws, n)
    PROVE  RootsAsked(ws, n)
<1>1. root \in [Watches -> RootRec] /\ n \in Counts
  BY DEF TypesInv, TypeOK, RootRec, Counts
<1>2. ASSUME NEW r \in RootRec
      PROVE  /\ [r EXCEPT !.req = n] \in RootRec /\ [r EXCEPT !.req = n].req = n
             /\ [r EXCEPT !.req = n].upd = r.upd
             /\ [r EXCEPT !.req = n].data = r.data
             /\ [r EXCEPT !.req = n].stack = r.stack
  BY <1>1 DEF RootRec
<1>3. ASSUME NEW w \in Watches
      PROVE  root'[w] = IF w \in ws THEN [root[w] EXCEPT !.req = n] ELSE root[w]
  BY DEF RequestRoots
<1>4. DOMAIN root' = Watches /\ root' = [w \in Watches |-> root'[w]]
  BY DEF RequestRoots
<1>5. \A w \in Watches : root[w] \in RootRec
  BY <1>1
<1>6. ASSUME NEW w \in Watches
      PROVE  /\ root'[w] \in RootRec
             /\ root'[w].req = IF w \in ws THEN n ELSE root[w].req
             /\ root'[w].upd = root[w].upd /\ root'[w].data = root[w].data
             /\ root'[w].stack = root[w].stack
  <2>1. CASE w \in ws
    <3>1. root'[w] = [root[w] EXCEPT !.req = n] /\ root[w] \in RootRec
      BY <1>3, <1>5, <2>1
    <3> QED
      BY <1>2, <2>1, <3>1
  <2>2. CASE w \notin ws
    BY <1>3, <1>5, <2>2
  <2> QED
    BY <2>1, <2>2
<1>7. root' \in [Watches -> RootRec]
  BY <1>4, <1>6
<1> QED
  BY <1>6, <1>7 DEF RootsAsked

(* The fields of a variable are asked for.                                   *)
FieldsAsked(w) ==
    /\ item' \in [Watches -> ItemRec]
    /\ \A v \in Watches :
          /\ item'[v].id = item[v].id /\ item'[v].upd = item[v].upd
          /\ item'[v].of = item[v].of /\ item'[v].fields = item[v].fields
          /\ item'[v].id = 0 => item'[v] = NoItem
    /\ early' \in [Watches -> BOOLEAN]
    /\ early' = [early EXCEPT ![w] =
                    early[w] \/ (root[w].req = count /\ root[w].upd # count)]
    /\ \A v \in Watches : ~early'[v] => ~early[v]
    /\ Fields(w, count, item[w]) \in FieldsReq
    /\ f2c' = Append(f2c, Fields(w, count, item[w]))
    /\ f2c' \in Seq(ContextMsg)

LEMMA RequestFieldsDoes ==
    ASSUME TypesInv, NEW w \in Watches, item[w] # NoItem, RequestFields(w)
    PROVE  FieldsAsked(w)
<1>1. item \in [Watches -> ItemRec] /\ early \in [Watches -> BOOLEAN] /\ count \in Nat
  BY DEF TypesInv, TypeOK, ItemRec
<1>2. count \in Counts /\ item' = [item EXCEPT ![w].req = count]
  BY <1>1 DEF RequestFields, Counts
<1>3. ASSUME NEW i \in ItemRec
      PROVE  /\ [i EXCEPT !.req = count] \in ItemRec
             /\ [i EXCEPT !.req = count].id = i.id
             /\ [i EXCEPT !.req = count].upd = i.upd
             /\ [i EXCEPT !.req = count].of = i.of
             /\ [i EXCEPT !.req = count].fields = i.fields
  BY <1>2 DEF ItemRec
<1>4. item' = [item EXCEPT ![w] = [item[w] EXCEPT !.req = count]]
  BY <1>2
<1> DEFINE k == [item[w] EXCEPT !.req = count]
<1>5. item[w] \in ItemRec /\ k \in ItemRec
  BY <1>1, <1>3
<1>6. k.id = item[w].id /\ k.upd = item[w].upd /\ k.of = item[w].of
      /\ k.fields = item[w].fields
  BY <1>3, <1>5
<1>7. item' = [item EXCEPT ![w] = k]
  BY <1>4
<1> HIDE DEF k
<1>8. item' \in [Watches -> ItemRec] /\ item'[w] = k
      /\ \A v \in Watches : v # w => item'[v] = item[v]
  BY <1>1, <1>5, <1>7
<1>9. item[w].id # 0
  BY DEF TypesInv
<1>10. \A v \in Watches :
          /\ item'[v].id = item[v].id /\ item'[v].upd = item[v].upd
          /\ item'[v].of = item[v].of /\ item'[v].fields = item[v].fields
          /\ item'[v].id = 0 => item'[v] = NoItem
  BY <1>6, <1>8, <1>9 DEF TypesInv
<1>11. early' = [early EXCEPT ![w] =
                    early[w] \/ (root[w].req = count /\ root[w].upd # count)]
  BY DEF RequestFields
<1>12. early' \in [Watches -> BOOLEAN] /\ \A v \in Watches : ~early'[v] => ~early[v]
  BY <1>1, <1>11, Zenon
<1>13. Fields(w, count, item[w]) \in FieldsReq
  <2>1. item[w].id \in Nat \ {0} /\ item[w].of \in Nat
    BY <1>5, <1>9 DEF ItemRec
  <2> QED
    BY <1>1, <2>1, FieldsFacts
<1>14. Fields(w, count, item[w]) \in ContextMsg
       /\ <<Fields(w, count, item[w])>> \in Seq(ContextMsg)
  BY <1>13 DEF ContextMsg
<1>15. f2c' = f2c \o <<Fields(w, count, item[w])>> /\ f2c' \in Seq(ContextMsg)
  BY <1>14, ToContextDoes DEF RequestFields
<1>16. f2c' = Append(f2c, Fields(w, count, item[w]))
  BY <1>14, <1>15, AppendIsConcat DEF TypesInv
<1> QED
  BY <1>8, <1>10, <1>11, <1>12, <1>13, <1>15, <1>16 DEF FieldsAsked

LEMMA OnUpdateSourceDoes ==
    ASSUME TypesInv, OnUpdateSource
    PROVE  /\ c2f # <<>> /\ Head(c2f) \in UpdateMsg
           /\ c2f' = Tail(c2f) /\ c2f' \in Seq(FrameMsg)
           /\ chosen' = (IF Head(c2f).isRefreshOnly THEN chosen ELSE 0)
           /\ chosen' \in Nat
           /\ late' = (late /\ Head(c2f).isRefreshOnly) /\ late' \in BOOLEAN
           /\ \E u : /\ Asks(u, Refreshed, count + 1, chosen', BacktraceReq)
                     /\ enabled => ~NoneIn(u, BacktraceReq)
                     /\ f2c' = Append(f2c \o u, TheSuccess)
                     /\ f2c \o u \in Seq(ContextMsg)
           /\ f2c' \in Seq(ContextMsg)
           /\ count' = count + 1 /\ RootsAsked(Refreshed, count + 1)
           /\ ~edited' /\ ~silent' /\ early' = [w \in Watches |-> FALSE]
           /\ UNCHANGED <<program, loop, shown, item, enabled, backtrace, actions>>
<1>1. c2f # <<>> /\ Head(c2f) \in UpdateMsg /\ c2f' = Tail(c2f)
      /\ c2f' \in Seq(FrameMsg)
  BY ProcessesDoes, FrameKinds DEF OnUpdateSource
<1>2. Head(c2f).isRefreshOnly \in BOOLEAN
  BY <1>1 DEF UpdateMsg
<1> DEFINE fr == FrameAfter(Head(c2f).isRefreshOnly)
<1>3. chosen' = fr /\ fr = (IF Head(c2f).isRefreshOnly THEN chosen ELSE 0)
  BY DEF OnUpdateSource, FrameAfter
<1>4. late' = (late /\ Head(c2f).isRefreshOnly)
  BY DEF OnUpdateSource
<1>5. late' \in BOOLEAN
  BY <1>4
<1>6. fr \in Nat /\ count + 1 \in Nat /\ Refreshed \in SUBSET Watches
  BY <1>2, <1>3 DEF TypesInv, TypeOK, Refreshed
<1>7. ToContext(Asked(fr) \o <<TheSuccess>>)
  BY DEF OnUpdateSource, Asked, BacktraceIfEnabled, TheSuccess
<1> HIDE DEF fr
<1>8. /\ Asked(fr) \in Seq(ContextMsg)
      /\ Asks(Asked(fr), Refreshed, count + 1, fr, BacktraceReq)
      /\ enabled => ~NoneIn(Asked(fr), BacktraceReq)
      /\ f2c' = Append(f2c \o Asked(fr), TheSuccess)
  BY <1>5, <1>6, <1>7, AskedFacts DEF Asks
<1>9. f2c \o Asked(fr) \in Seq(ContextMsg) /\ TheSuccess \in ContextMsg
  BY <1>8, ConcatProperties, SentTypes DEF TypesInv, ContextMsg
<1>10. f2c' \in Seq(ContextMsg)
  BY <1>8, <1>9, AppendProperties
<1>11. RootsAsked(Refreshed, count + 1)
  BY <1>6, RequestRootsDoes DEF OnUpdateSource
<1>12. /\ count' = count + 1 /\ early' = [w \in Watches |-> FALSE]
       /\ UNCHANGED <<program, loop, shown, item, enabled, backtrace, actions>>
  BY DEF OnUpdateSource
<1>13. ~edited' /\ ~silent'
  BY DEF OnUpdateSource
<1>14. \E u : /\ Asks(u, Refreshed, count + 1, chosen', BacktraceReq)
              /\ enabled => ~NoneIn(u, BacktraceReq)
              /\ f2c' = Append(f2c \o u, TheSuccess)
              /\ f2c \o u \in Seq(ContextMsg)
  BY <1>3, <1>8, <1>9
<1> QED
  BY <1>1, <1>3, <1>4, <1>5, <1>6, <1>10, <1>11, <1>12, <1>13, <1>14

LEMMA ResumeDoes ==
    ASSUME TypesInv, Resume
    PROVE  /\ actions' \in 0 .. MaxActions /\ late'
           /\ f2c' = Append(f2c, TheResume) /\ f2c' \in Seq(ContextMsg)
           /\ UNCHANGED <<program, loop, c2f, trees, count, chosen, enabled, backtrace,
                          edited, silent>>
<1>1. actions' \in 0 .. MaxActions
  BY ViewsAssumption DEF Resume, Acts, TypesInv, TypeOK
<1>2. TheResume \in ContextMsg /\ <<TheResume>> \in Seq(ContextMsg)
  BY SentTypes DEF ContextMsg
<1>3. f2c' = f2c \o <<TheResume>> /\ f2c' \in Seq(ContextMsg)
  BY <1>2, ToContextDoes DEF Resume, TheResume
<1>4. f2c' = Append(f2c, TheResume)
  BY <1>2, <1>3, AppendIsConcat DEF TypesInv
<1> QED
  BY <1>1, <1>3, <1>4 DEF Resume

LEMMA EvalDoes ==
    ASSUME TypesInv, Eval
    PROVE  /\ actions' \in 0 .. MaxActions /\ enabled
           /\ EvalOf(chosen, late) \in EvalReq
           /\ f2c' = Append(f2c, EvalOf(chosen, late)) /\ f2c' \in Seq(ContextMsg)
           /\ UNCHANGED <<program, loop, c2f, trees, count, chosen, enabled, backtrace,
                          late, edited, silent>>
<1>1. actions' \in 0 .. MaxActions
  BY ViewsAssumption DEF Eval, Acts, TypesInv, TypeOK
<1> DEFINE m == EvalOf(chosen, late)
<1>2. chosen \in Nat /\ late \in BOOLEAN
  BY DEF TypesInv, TypeOK
<1>3. m \in EvalReq
  BY <1>2, SentTypes
<1>4. ToContext(<<m>>)
  BY DEF Eval, EvalOf
<1> HIDE DEF m
<1>5. m \in ContextMsg /\ <<m>> \in Seq(ContextMsg)
  BY <1>3 DEF ContextMsg
<1>6. f2c' = f2c \o <<m>> /\ f2c' \in Seq(ContextMsg)
  BY <1>4, <1>5, ToContextDoes
<1>7. f2c' = Append(f2c, m)
  BY <1>5, <1>6, AppendIsConcat DEF TypesInv
<1>8. enabled /\ UNCHANGED <<program, loop, c2f, trees, count, chosen, enabled,
                             backtrace, late, edited, silent>>
  BY DEF Eval
<1> QED
  BY <1>1, <1>3, <1>6, <1>7, <1>8 DEF m

LEMMA FocusDoes ==
    ASSUME TypesInv, FocusBacktraceLine
    PROVE  /\ actions' \in 0 .. MaxActions /\ enabled /\ backtrace # 0
           /\ count' = count + 1 /\ chosen' = backtrace
           /\ late' = (late \/ Awaited("BACKTRACE")) /\ late' \in BOOLEAN
           /\ RootsAsked(Refreshed, count + 1)
           /\ \E u : Asks(u, Refreshed, count + 1, chosen', {}) /\ f2c' = f2c \o u
           /\ f2c' \in Seq(ContextMsg)
           /\ UNCHANGED <<program, loop, c2f, shown, item, early, enabled, backtrace,
                          edited, silent>>
<1>1. actions' \in 0 .. MaxActions
  BY ViewsAssumption DEF FocusBacktraceLine, Acts, TypesInv, TypeOK
<1>2. late' = (late \/ Awaited("BACKTRACE"))
  BY DEF FocusBacktraceLine
<1>3. late' \in BOOLEAN
  BY <1>2
<1>4. backtrace \in Nat /\ count + 1 \in Nat /\ Refreshed \in SUBSET Watches
  BY DEF TypesInv, TypeOK, Refreshed
<1> DEFINE u == VarsOf(Refreshed, count + 1, backtrace)
<1>5. chosen' = backtrace /\ ToContext(u)
  BY DEF FocusBacktraceLine
<1>6. Asks(u, Refreshed, count + 1, backtrace, {})
  BY <1>3, <1>4, VarsOfFacts
<1> HIDE DEF u
<1>7. f2c' = f2c \o u /\ f2c' \in Seq(ContextMsg)
  BY <1>5, <1>6, ToContextDoes DEF Asks
<1>8. RootsAsked(Refreshed, count + 1)
  BY <1>4, RequestRootsDoes DEF FocusBacktraceLine
<1>9. \E x : Asks(x, Refreshed, count + 1, chosen', {}) /\ f2c' = f2c \o x
  BY <1>5, <1>6, <1>7
<1>10. /\ enabled /\ backtrace # 0 /\ count' = count + 1
       /\ UNCHANGED <<program, loop, c2f, shown, item, early, enabled, backtrace,
                      edited, silent>>
  BY DEF FocusBacktraceLine
<1> QED
  BY <1>1, <1>2, <1>3, <1>5, <1>7, <1>8, <1>9, <1>10

LEMMA EditLabelDoes ==
    ASSUME TypesInv, EditLabel
    PROVE  /\ actions' \in 0 .. MaxActions /\ enabled /\ count' = count + 1 /\ edited'
           /\ UNCHANGED <<program, loop, c2f, f2c, trees, chosen, enabled, backtrace,
                          late, silent>>
  BY ViewsAssumption DEF EditLabel, Acts, TypesInv, TypeOK

LEMMA ExpandDoes ==
    ASSUME TypesInv, NEW w \in Watches, Expand(w)
    PROVE  /\ actions' \in 0 .. MaxActions /\ enabled /\ item[w] # NoItem
           /\ FieldsAsked(w)
           /\ UNCHANGED <<program, loop, c2f, shown, root, count, chosen, enabled,
                          backtrace, late, edited, silent>>
<1>1. actions' \in 0 .. MaxActions
  BY ViewsAssumption DEF Expand, Acts, TypesInv, TypeOK
<1>2. FieldsAsked(w)
  BY RequestFieldsDoes DEF Expand
<1> QED
  BY <1>1, <1>2 DEF Expand

LEMMA HideDoes ==
    ASSUME TypesInv, NEW w \in Watches, Hide(w)
    PROVE  /\ actions' \in 0 .. MaxActions
           /\ shown' \in [Watches -> BOOLEAN] /\ \A v \in Watches : shown'[v] => shown[v]
           /\ UNCHANGED <<program, loop, c2f, f2c, root, item, early, count, chosen,
                          enabled, backtrace, late, edited, silent>>
<1>1. actions' \in 0 .. MaxActions
  BY ViewsAssumption DEF Hide, Acts, TypesInv, TypeOK
<1>2. shown' \in [Watches -> BOOLEAN] /\ \A v \in Watches : shown'[v] => shown[v]
  <2>1. shown \in [Watches -> BOOLEAN] /\ shown' = [shown EXCEPT ![w] = FALSE]
    BY DEF Hide, TypesInv, TypeOK
  <2> QED
    BY <2>1, Zenon
<1> QED
  BY <1>1, <1>2 DEF Hide

LEMMA ShowDoes ==
    ASSUME TypesInv, NEW w \in Watches, Show(w)
    PROVE  /\ actions' \in 0 .. MaxActions
           /\ shown' \in [Watches -> BOOLEAN]
           /\ \A v \in Watches : shown'[v] => shown[v] \/ v = w
           /\ UNCHANGED <<program, loop, c2f, count, chosen, enabled, backtrace, late,
                          edited, silent>>
           /\ \/ /\ enabled /\ root[w].req < count
                 /\ RootsAsked({w}, count)
                 /\ \E u : Asks(u, {w}, count, chosen, {}) /\ f2c' = f2c \o u
                 /\ f2c' \in Seq(ContextMsg)
                 /\ UNCHANGED <<item, early>>
              \/ /\ enabled => root[w].req >= count
                 /\ root' = root
                 /\ item[w] # NoItem /\ FieldsAsked(w)
              \/ /\ enabled => root[w].req >= count
                 /\ UNCHANGED <<root, item, early, f2c>>
<1>1. actions' \in 0 .. MaxActions
  BY ViewsAssumption DEF Show, Acts, TypesInv, TypeOK
<1>2. shown' \in [Watches -> BOOLEAN] /\ \A v \in Watches : shown'[v] => shown[v] \/ v = w
  <2>1. shown \in [Watches -> BOOLEAN] /\ shown' = [shown EXCEPT ![w] = TRUE]
    BY DEF Show, TypesInv, TypeOK
  <2> QED
    BY <2>1, Zenon
<1>3. UNCHANGED <<program, loop, c2f, count, chosen, enabled, backtrace, edited, silent>>
  BY DEF Show
<1>4. late' = late
  BY DEF Show
<1>5. CASE enabled /\ root[w].req < count
  <2>1. RootsAsked({w}, count)
    <3>1. {w} \in SUBSET Watches /\ count \in Nat
      BY DEF TypesInv, TypeOK
    <3> QED
      BY <1>5, <3>1, RequestRootsDoes DEF Show
  <2> DEFINE m == Vars(w, count, chosen)
  <2>2. ToContext(<<m>>) /\ UNCHANGED <<item, early>>
    BY <1>5 DEF Show
  <2>3. /\ m \in VarsReq /\ m.watch = w /\ m.count = count
        /\ m.frame = chosen /\ m.late = late'
    <3>1. count \in Nat /\ chosen \in Nat /\ late' \in BOOLEAN
      BY <1>4 DEF TypesInv, TypeOK
    <3> QED
      BY <3>1 DEF Vars, VarsReq
  <2> HIDE DEF m
  <2> DEFINE u == <<m>>
  <2>4. u \in Seq(ContextMsg) /\ DOMAIN u = {1} /\ u[1] = m
    BY <2>3 DEF ContextMsg
  <2>5. Asks(u, {w}, count, chosen, {})
    <3> HIDE DEF u
    <3> QED
      BY <2>3, <2>4 DEF Asks
  <2>6. f2c' = f2c \o u /\ f2c' \in Seq(ContextMsg)
    BY <2>2, <2>4, ToContextDoes
  <2>7. \E x : Asks(x, {w}, count, chosen, {}) /\ f2c' = f2c \o x
    BY <2>5, <2>6
  <2> QED
    BY <1>1, <1>2, <1>3, <1>4, <1>5, <2>1, <2>2, <2>6, <2>7
<1>6. CASE ~(enabled /\ root[w].req < count)
  <2>1. root' = root /\ (enabled => ~(root[w].req < count))
    BY <1>6 DEF Show
  <2>2. root[w].req \in Int /\ count \in Int
    <3>1. root[w] \in RootRec /\ count \in Nat
      BY DEF TypesInv, TypeOK, RootRec
    <3> QED
      BY <3>1 DEF RootRec, Counts
  <2>3. enabled => root[w].req >= count
    BY <2>1, <2>2
  <2>4. CASE enabled /\ item[w] # NoItem /\ item[w].req < count
    <3>1. RequestFields(w)
      BY <1>6, <2>4 DEF Show
    <3>2. FieldsAsked(w)
      BY <2>4, <3>1, RequestFieldsDoes
    <3> QED
      BY <1>1, <1>2, <1>3, <1>4, <2>1, <2>3, <2>4, <3>2
  <2>5. CASE ~(enabled /\ item[w] # NoItem /\ item[w].req < count)
    <3>1. UNCHANGED <<item, early, f2c>>
      BY <1>6, <2>5 DEF Show
    <3> QED
      BY <1>1, <1>2, <1>3, <1>4, <2>1, <2>3, <3>1
  <2> QED
    BY <2>4, <2>5
<1> QED
  BY <1>5, <1>6

-----------------------------------------------------------------------------
(* Type correctness, with the commands on their way *)

LEMMA TypesInit == ASSUME Init PROVE TypesInv
<1>1. TypeOK
  <2>1. \A w \in Watches : root[w] = [req |-> -1, upd |-> -1, data |-> 0, stack |-> 0]
    BY DEF Init
  <2>2. [req |-> -1, upd |-> -1, data |-> 0, stack |-> 0]
           \in [req : Counts, upd : Counts, data : Nat, stack : Nat]
    BY DEF Counts
  <2>3. root \in [Watches -> [req : Counts, upd : Counts, data : Nat, stack : Nat]]
    BY <2>2 DEF Init
  <2>4. NoItem \in [id : Nat, req : Counts, upd : Counts, of : Nat, fields : Seq(Nat)]
    BY DEF NoItem, Counts
  <2>5. item \in [Watches -> [id : Nat, req : Counts, upd : Counts, of : Nat,
                              fields : Seq(Nat)]]
    BY <2>4 DEF Init
  <2>6. early \in [Watches -> BOOLEAN] /\ shown \in [Watches -> BOOLEAN]
    BY DEF Init
  <2>7. 0 \in 0 .. MaxMoves /\ 0 \in 0 .. MaxActions
    BY ViewsAssumption
  <2> QED
    BY <2>3, <2>5, <2>6, <2>7 DEF Init, TypeOK
<1>2. c2f \in Seq(FrameMsg) /\ f2c \in Seq(ContextMsg)
  BY DEF Init
<1>3. \A w \in Watches : item[w] = NoItem
  BY DEF Init
<1> QED
  BY <1>1, <1>2, <1>3 DEF TypesInv

(* The update answers that are awaited: for each UPDATE_SOURCE and each       *)
(* answer on its way, and only in a stop that has been told.                 *)
WaitInv ==
    /\ HowMany(c2f, UpdateMsg) + HowMany(f2c, SuccessMsg) <= wait
    /\ wait > 0 => stopped /\ prevBreak

LEMMA Counted ==
    ASSUME NEW S, NEW s \in Seq(S), NEW A
    PROVE  /\ HowMany(s, A) \in Nat
           /\ \A m \in S : /\ m \in A => HowMany(Append(s, m), A) = HowMany(s, A) + 1
                           /\ m \notin A => HowMany(Append(s, m), A) = HowMany(s, A)
           /\ s # <<>> => /\ HowMany(Tail(s), A) \in Nat
                          /\ Head(s) \in A => HowMany(s, A) = HowMany(Tail(s), A) + 1
                          /\ Head(s) \notin A => HowMany(s, A) = HowMany(Tail(s), A)
<1>1. HowMany(s, A) \in Nat
  BY HowManyNat
<1>2. \A m \in S : /\ m \in A => HowMany(Append(s, m), A) = HowMany(s, A) + 1
                   /\ m \notin A => HowMany(Append(s, m), A) = HowMany(s, A)
  BY <1>1, AppendCounts DEF OneIf
<1>3. s # <<>> => /\ HowMany(Tail(s), A) \in Nat
                  /\ Head(s) \in A => HowMany(s, A) = HowMany(Tail(s), A) + 1
                  /\ Head(s) \notin A => HowMany(s, A) = HowMany(Tail(s), A)
  <2> HAVE s # <<>>
  <2>1. Tail(s) \in Seq(S)
    BY TailFacts
  <2>2. HowMany(Tail(s), A) \in Nat
    BY <2>1, HowManyNat
  <2> QED
    BY <2>2, TailCounts DEF OneIf
<1> QED
  BY <1>1, <1>2, <1>3

LEMMA TypesStep == ASSUME TypesInv, WaitInv, [Next]_vars PROVE TypesInv'
<1>a. /\ root \in [Watches -> RootRec] /\ item \in [Watches -> ItemRec]
      /\ count \in Nat /\ \A w \in Watches : item[w].id = 0 => item[w] = NoItem
  BY DEF TypesInv, TypeOK, RootRec, ItemRec
<1> USE DEF program, loop, trees, frame
<1>1. CASE Run
  <2>1. prevBreak' = FALSE
    BY <1>1 DEF Run
  <2>2. c2f' \in Seq(FrameMsg)
    BY <1>1, RunDoes DEF TypesInv
  <2> QED
    BY <1>1, <2>1, <2>2, RunDoes DEF TypesInv, TypeOK
<1>2. CASE SendUpdateSource
  <2>1. isMustUpdate' = FALSE /\ prevBreak' = TRUE
    BY <1>2 DEF SendUpdateSource
  <2> QED
    BY <1>2, <2>1, SendUpdateSourceDoes DEF TypesInv, TypeOK
<1>3. CASE HandleResume
  <2>1. f2c' \in Seq(ContextMsg)
    BY <1>3, HandleResumeDoes, TailFacts DEF TypesInv
  <2>2. stopped' \in BOOLEAN
    BY <1>3 DEF HandleResume
  <2>3. c2f' \in Seq(FrameMsg)
    BY <1>3, HandleResumeDoes DEF TypesInv
  <2> QED
    BY <1>3, <2>1, <2>2, <2>3, HandleResumeDoes DEF TypesInv, TypeOK
<1>4. CASE HandleForceUpdateSource
  <2>1. f2c' \in Seq(ContextMsg)
    BY <1>4, HandleForceDoes, TailFacts DEF TypesInv
  <2>2. isMustUpdate' = TRUE
    BY <1>4 DEF HandleForceUpdateSource
  <2> QED
    BY <1>4, <2>1, <2>2, HandleForceDoes DEF TypesInv, TypeOK
<1>5. CASE HandleRequest
  <2>1. f2c' \in Seq(ContextMsg)
    BY <1>5, HandleRequestDoes, TailFacts DEF TypesInv
  <2> QED
    BY <1>5, <2>1, HandleRequestDoes DEF TypesInv, TypeOK
<1>6. CASE HandleEval
  <2>1. f2c' \in Seq(ContextMsg)
    BY <1>6, HandleEvalDoes, TailFacts DEF TypesInv
  <2> QED
    BY <1>6, <2>1, HandleEvalDoes DEF TypesInv, TypeOK
<1>7. CASE OnVars
  <2> DEFINE m == Head(c2f)
             w == m.watch
             r == [req |-> count, upd |-> count, data |-> m.data, stack |-> m.frame]
  <2>1. m \in VarsAns /\ w \in Watches
    BY <1>7, OnVarsDoes
  <2>2. m.data \in Nat /\ m.frame \in Nat
    BY <2>1 DEF VarsAns
  <2>3. r \in RootRec
    BY <1>a, <2>2 DEF RootRec, Counts
  <2>4. NewItem(m) \in ItemRec /\ NewItem(m).id # 0 /\ NoItem \in ItemRec
    BY <2>1, ItemFacts
  <2> HIDE DEF m, w, r
  <2>5. root' = root \/ root' = [root EXCEPT ![w] = r]
    BY <1>7, OnVarsDoes DEF m, w, r
  <2>6. root' \in [Watches -> RootRec]
    BY <1>a, <2>3, <2>5
  <2>7. \/ item' = item \/ item' = [item EXCEPT ![w] = NewItem(m)]
        \/ item' = [item EXCEPT ![w] = NoItem]
    BY <1>7, OnVarsDoes DEF m, w
  <2>8. item' \in [Watches -> ItemRec]
        /\ \A v \in Watches : item'[v].id = 0 => item'[v] = NoItem
    BY <1>a, <2>1, <2>4, <2>7
  <2>9. f2c' \in Seq(ContextMsg) /\ c2f' \in Seq(FrameMsg)
    BY <1>7, OnVarsDoes DEF TypesInv
  <2> QED
    BY <1>7, <2>6, <2>8, <2>9, OnVarsDoes DEF TypesInv, TypeOK, RootRec, ItemRec
<1>8. CASE OnFields
  <2> DEFINE m == Head(c2f)
             w == m.watch
  <2>1. m \in FieldsAns /\ w \in Watches
    BY <1>8, OnFieldsDoes
  <2>2. Filled(m) \in ItemRec /\ Filled(m).id = item[w].id /\ Filled(m).upd = count
    BY <2>1, ItemFacts
  <2>3. m.id # 0
    BY <2>1 DEF FieldsAns
  <2> HIDE DEF m, w
  <2>4. item' = item \/ (item' = [item EXCEPT ![w] = Filled(m)] /\ item[w].id = m.id)
    BY <1>8, OnFieldsDoes DEF m, w
  <2>5. item' \in [Watches -> ItemRec]
        /\ \A v \in Watches : item'[v].id = 0 => item'[v] = NoItem
    BY <1>a, <2>1, <2>2, <2>3, <2>4
  <2> QED
    BY <1>8, <2>5, OnFieldsDoes DEF TypesInv, TypeOK, RootRec, ItemRec
<1>9. CASE OnBacktrace
  BY <1>9, OnBacktraceDoes DEF TypesInv, TypeOK
<1>10. CASE OnValues
  BY <1>10, OnValuesDoes DEF TypesInv, TypeOK
<1>11. CASE OnChangedState
  BY <1>11, OnChangedStateDoes DEF TypesInv, TypeOK
<1>12. CASE OnUpdateSource
  <2>1. early' \in [Watches -> BOOLEAN]
    BY <1>12 DEF OnUpdateSource
  <2>5. count' \in Nat
    BY <1>a, <1>12 DEF OnUpdateSource
  <2>2. edited' = FALSE /\ silent' = FALSE
    BY <1>12 DEF OnUpdateSource
  <2>3. root' \in [Watches -> RootRec]
    BY <1>12, OnUpdateSourceDoes DEF RootsAsked
  <2>4. /\ c2f' \in Seq(FrameMsg) /\ f2c' \in Seq(ContextMsg)
        /\ chosen' \in Nat /\ late' \in BOOLEAN
        /\ UNCHANGED <<program, loop, shown, item, enabled, backtrace, actions>>
    BY <1>12, OnUpdateSourceDoes
  <2> QED
    BY <2>1, <2>2, <2>3, <2>4, <2>5 DEF TypesInv, TypeOK, RootRec
<1>13. CASE Resume
  <2>1. late' = TRUE
    BY <1>13 DEF Resume
  <2> QED
    BY <1>13, <2>1, ResumeDoes DEF TypesInv, TypeOK
<1>14. CASE Eval
  BY <1>14, EvalDoes DEF TypesInv, TypeOK
<1>15. CASE FocusBacktraceLine
  <2>1. root' \in [Watches -> RootRec]
    BY <1>15, FocusDoes DEF RootsAsked
  <2>2. count' \in Nat /\ chosen' \in Nat
    BY <1>a, <1>15, FocusDoes DEF TypesInv, TypeOK
  <2>3. /\ actions' \in 0 .. MaxActions /\ late' \in BOOLEAN /\ f2c' \in Seq(ContextMsg)
        /\ UNCHANGED <<program, loop, c2f, shown, item, early, enabled, backtrace,
                       edited, silent>>
    BY <1>15, FocusDoes
  <2> QED
    BY <2>1, <2>2, <2>3 DEF TypesInv, TypeOK, RootRec
<1>16. CASE EditLabel
  <2>1. edited' = TRUE /\ count' \in Nat
    BY <1>a, <1>16 DEF EditLabel
  <2> QED
    BY <1>16, <2>1, EditLabelDoes DEF TypesInv, TypeOK
<1>17. ASSUME NEW w \in Watches, Expand(w) PROVE TypesInv'
  <2>1. /\ item' \in [Watches -> ItemRec] /\ early' \in [Watches -> BOOLEAN]
        /\ \A v \in Watches : item'[v].id = 0 => item'[v] = NoItem
        /\ f2c' \in Seq(ContextMsg)
    BY <1>17, ExpandDoes DEF FieldsAsked
  <2>2. /\ actions' \in 0 .. MaxActions
        /\ UNCHANGED <<program, loop, c2f, shown, root, count, chosen, enabled,
                       backtrace, late, edited, silent>>
    BY <1>17, ExpandDoes
  <2> QED
    BY <2>1, <2>2 DEF TypesInv, TypeOK, ItemRec
<1>18. ASSUME NEW w \in Watches, Hide(w) PROVE TypesInv'
  BY <1>18, HideDoes DEF TypesInv, TypeOK
<1>19. ASSUME NEW w \in Watches, Show(w) PROVE TypesInv'
  <2>1. /\ actions' \in 0 .. MaxActions /\ shown' \in [Watches -> BOOLEAN]
        /\ UNCHANGED <<program, loop, c2f, count, chosen, enabled, backtrace, late,
                       edited, silent>>
    BY <1>19, ShowDoes
  <2>2. \/ /\ RootsAsked({w}, count) /\ f2c' \in Seq(ContextMsg)
           /\ UNCHANGED <<item, early>>
        \/ root' = root /\ FieldsAsked(w)
        \/ UNCHANGED <<root, item, early, f2c>>
    BY <1>19, ShowDoes
  <2>3. /\ root' \in [Watches -> RootRec] /\ item' \in [Watches -> ItemRec]
        /\ early' \in [Watches -> BOOLEAN] /\ f2c' \in Seq(ContextMsg)
        /\ \A v \in Watches : item'[v].id = 0 => item'[v] = NoItem
    <3>1. f2c \in Seq(ContextMsg) /\ early \in [Watches -> BOOLEAN]
      BY DEF TypesInv, TypeOK
    <3> QED
      BY <1>a, <2>2, <3>1 DEF RootsAsked, FieldsAsked
  <2> QED
    BY <2>1, <2>3 DEF TypesInv, TypeOK, RootRec, ItemRec
<1>20. CASE HandleSuccessed
  <2>1. f2c \in Seq(ContextMsg) /\ c2f \in Seq(FrameMsg) /\ f2c # <<>>
        /\ Head(f2c) \in SuccessMsg
    BY <1>20, HandleSuccessedDoes DEF TypesInv
  <2>2. /\ HowMany(c2f, UpdateMsg) \in Nat /\ HowMany(Tail(f2c), SuccessMsg) \in Nat
        /\ HowMany(f2c, SuccessMsg) = HowMany(Tail(f2c), SuccessMsg) + 1
    BY <2>1, Counted
  <2>3. wait - 1 \in Nat
    BY <2>2 DEF WaitInv, TypesInv, TypeOK
  <2>4. Tail(f2c) \in Seq(ContextMsg)
    BY <2>1, TailFacts
  <2> QED
    BY <1>20, <2>3, <2>4, HandleSuccessedDoes DEF TypesInv, TypeOK
<1>21. CASE UNCHANGED vars
  BY <1>21 DEF vars, TypesInv, TypeOK
<1> QED
  BY <1>1, <1>2, <1>3, <1>4, <1>5, <1>6, <1>7, <1>8, <1>9, <1>10, <1>11, <1>12,
     <1>13, <1>14, <1>15, <1>16, <1>17, <1>18, <1>19, <1>20, <1>21
  DEF Next, Context, Frame, User

(* Commands of different types are different.                                *)
LEMMA KindsDiffer ==
    /\ \A m : m \in VarsReq => /\ m \notin FieldsReq /\ m \notin EvalReq
                               /\ m \notin BacktraceReq /\ m \notin ResumeReq
                               /\ m \notin ForceReq /\ m \notin SuccessMsg
    /\ \A m : m \in FieldsReq => /\ m \notin VarsReq /\ m \notin EvalReq
                                 /\ m \notin BacktraceReq /\ m \notin ResumeReq
                                 /\ m \notin ForceReq /\ m \notin SuccessMsg
    /\ \A m : m \in EvalReq => /\ m \notin VarsReq /\ m \notin FieldsReq
                               /\ m \notin BacktraceReq /\ m \notin ResumeReq
                               /\ m \notin ForceReq /\ m \notin SuccessMsg
    /\ \A m : m \in BacktraceReq => /\ m \notin VarsReq /\ m \notin FieldsReq
                                    /\ m \notin EvalReq /\ m \notin ResumeReq
                                    /\ m \notin ForceReq /\ m \notin SuccessMsg
    /\ \A m : m \in ResumeReq => /\ m \notin VarsReq /\ m \notin FieldsReq
                                 /\ m \notin EvalReq /\ m \notin BacktraceReq
                                 /\ m \notin ForceReq /\ m \notin SuccessMsg
    /\ \A m : m \in ForceReq => /\ m \notin VarsReq /\ m \notin FieldsReq
                                /\ m \notin EvalReq /\ m \notin BacktraceReq
                                /\ m \notin ResumeReq /\ m \notin SuccessMsg
    /\ \A m : m \in SuccessMsg => /\ m \notin VarsReq /\ m \notin FieldsReq
                                  /\ m \notin EvalReq /\ m \notin BacktraceReq
                                  /\ m \notin ResumeReq /\ m \notin ForceReq
    /\ \A m : m \in VarsAns => /\ m \notin FieldsAns /\ m \notin BacktraceAns
                               /\ m \notin ValuesAns /\ m \notin StateMsg
                               /\ m \notin UpdateMsg
    /\ \A m : m \in FieldsAns => /\ m \notin VarsAns /\ m \notin BacktraceAns
                                 /\ m \notin ValuesAns /\ m \notin StateMsg
                                 /\ m \notin UpdateMsg
    /\ \A m : m \in BacktraceAns => /\ m \notin VarsAns /\ m \notin FieldsAns
                                    /\ m \notin ValuesAns /\ m \notin StateMsg
                                    /\ m \notin UpdateMsg
    /\ \A m : m \in ValuesAns => /\ m \notin VarsAns /\ m \notin FieldsAns
                                 /\ m \notin BacktraceAns /\ m \notin StateMsg
                                 /\ m \notin UpdateMsg
    /\ \A m : m \in StateMsg => /\ m \notin VarsAns /\ m \notin FieldsAns
                                /\ m \notin BacktraceAns /\ m \notin ValuesAns
                                /\ m \notin UpdateMsg
    /\ \A m : m \in UpdateMsg => /\ m \notin VarsAns /\ m \notin FieldsAns
                                 /\ m \notin BacktraceAns /\ m \notin ValuesAns
                                 /\ m \notin StateMsg
  BY KindTypes

-----------------------------------------------------------------------------
(* The commands of the stop *)

Fresh == {m \in UpdateMsg : ~m.isRefreshOnly}
Ons == {m \in StateMsg : m.isBreak}
Offs == {m \in StateMsg : ~m.isBreak}
Of(s) == {m \in BacktraceAns : m.stack = s}

OtherAns == VarsAns \cup FieldsAns \cup ValuesAns
OtherReq == VarsReq \cup FieldsReq \cup EvalReq \cup ForceReq

(* A step that is not about the stop: of the commands that are, it takes and *)
(* sends none, but for RESUME, after which the user has been late.           *)
Aside ==
    /\ UNCHANGED <<stopped, prevBreak, wait, enabled, stack, backtrace>>
    /\ \/ c2f' = c2f
       \/ \E m \in OtherAns : c2f' = Append(c2f, m)
       \/ c2f # <<>> /\ Head(c2f) \in OtherAns /\ c2f' = Tail(c2f)
    /\ \/ f2c' = f2c
       \/ \E m \in OtherReq : f2c' = Append(f2c, m)
       \/ late' /\ \E m \in ResumeReq : f2c' = Append(f2c, m)
       \/ \E u \in Seq(ContextMsg) :
             (\A i \in DOMAIN u : u[i] \in VarsReq) /\ f2c' = f2c \o u
       \/ f2c # <<>> /\ Head(f2c) \in OtherReq /\ f2c' = Tail(f2c)
    /\ \/ chosen' = chosen
       \/ /\ chosen' = backtrace /\ backtrace # 0
          /\ late' \/ (NoneIn(c2f, BacktraceAns) /\ NoneIn(f2c, BacktraceReq))
    /\ late => late'

LEMMA AsideSteps ==
    ASSUME TypesInv, [Next]_vars
    PROVE  \/ Aside
           \/ Run \/ SendUpdateSource \/ HandleResume \/ HandleSuccessed
           \/ HandleRequest /\ Head(f2c) \in BacktraceReq
           \/ OnBacktrace \/ OnChangedState \/ OnUpdateSource
<1> USE DEF program, loop, trees, frame
<1>a. ASSUME NEW ws, NEW n, NEW fr, NEW u, Asks(u, ws, n, fr, {})
      PROVE  u \in Seq(ContextMsg) /\ \A i \in DOMAIN u : u[i] \in VarsReq
  BY <1>a DEF Asks
<1>b. TheForce \in OtherReq /\ TheResume \in ResumeReq
  BY SentTypes DEF OtherReq
<1>1. CASE HandleForceUpdateSource
  BY <1>1, HandleForceDoes DEF Aside, OtherReq
<1>2. CASE HandleRequest /\ Head(f2c) \notin BacktraceReq
  <2>1. \/ Head(f2c) \in VarsReq /\ c2f' = Append(c2f, VarsAnswer(Head(f2c)))
        \/ Head(f2c) \in FieldsReq /\ c2f' = Append(c2f, FieldsAnswer(Head(f2c)))
    BY <1>2, HandleRequestDoes
  <2>2. Head(f2c) \in OtherReq /\ \E m \in OtherAns : c2f' = Append(c2f, m)
    BY <2>1, AnswerTypes DEF OtherReq, OtherAns, TypesInv
  <2>3. /\ f2c # <<>> /\ f2c' = Tail(f2c)
        /\ UNCHANGED <<program, loop, trees, frame, silent>>
    BY <1>2, HandleRequestDoes
  <2> QED
    BY <2>2, <2>3 DEF Aside
<1>3. CASE HandleEval
  <2>1. Head(f2c) \in OtherReq /\ f2c # <<>> /\ f2c' = Tail(f2c)
    BY <1>3, HandleEvalDoes DEF OtherReq
  <2>2. \E m \in OtherAns : c2f' = Append(c2f, m)
    BY <1>3, HandleEvalDoes, SentTypes DEF OtherAns
  <2>3. UNCHANGED <<has, stack, moves, loop, trees, frame>>
    BY <1>3, HandleEvalDoes
  <2> QED
    BY <2>1, <2>2, <2>3 DEF Aside
<1>4. CASE OnVars
  <2>1. c2f # <<>> /\ Head(c2f) \in OtherAns /\ c2f' = Tail(c2f)
    BY <1>4, OnVarsDoes DEF OtherAns
  <2>2. f2c' = f2c \/ \E m \in OtherReq : f2c' = Append(f2c, m)
    BY <1>4, OnVarsDoes DEF OtherReq
  <2>3. UNCHANGED <<program, loop, frame>>
    BY <1>4, OnVarsDoes
  <2> QED
    BY <2>1, <2>2, <2>3 DEF Aside
<1>5. CASE OnFields
  <2>1. c2f # <<>> /\ Head(c2f) \in OtherAns /\ c2f' = Tail(c2f)
    BY <1>5, OnFieldsDoes DEF OtherAns
  <2> QED
    BY <1>5, <2>1, OnFieldsDoes DEF Aside
<1>6. CASE OnValues
  <2>1. c2f # <<>> /\ Head(c2f) \in OtherAns /\ c2f' = Tail(c2f)
    BY <1>6, OnValuesDoes DEF OtherAns
  <2>2. f2c' = f2c \/ \E m \in OtherReq : f2c' = Append(f2c, m)
    BY <1>b, <1>6, OnValuesDoes
  <2> QED
    BY <1>6, <2>1, <2>2, OnValuesDoes DEF Aside
<1>7. CASE Resume
  BY <1>b, <1>7, ResumeDoes DEF Aside
<1>8. CASE Eval
  <2>1. \E m \in OtherReq : f2c' = Append(f2c, m)
    BY <1>8, EvalDoes DEF OtherReq
  <2> QED
    BY <1>8, <2>1, EvalDoes DEF Aside
<1>9. CASE FocusBacktraceLine
  <2>1. \E u \in Seq(ContextMsg) :
           (\A i \in DOMAIN u : u[i] \in VarsReq) /\ f2c' = f2c \o u
    BY <1>a, <1>9, FocusDoes
  <2>2. late' = (late \/ Awaited("BACKTRACE")) /\ chosen' = backtrace /\ backtrace # 0
    BY <1>9, FocusDoes
  <2>3. ~Awaited("BACKTRACE") => NoneIn(c2f, BacktraceAns) /\ NoneIn(f2c, BacktraceReq)
    <3> SUFFICES ASSUME ~Awaited("BACKTRACE")
                 PROVE  NoneIn(c2f, BacktraceAns) /\ NoneIn(f2c, BacktraceReq)
      OBVIOUS
    <3>1. /\ \A i \in DOMAIN c2f : c2f[i].type # "BACKTRACE"
          /\ \A i \in DOMAIN f2c : f2c[i].type # "BACKTRACE"
      BY DEF Awaited, Range
    <3> QED
      BY <3>1, KindTypes DEF NoneIn
  <2> QED
    BY <1>9, <2>1, <2>2, <2>3, FocusDoes DEF Aside
<1>10. CASE EditLabel
  BY <1>10, EditLabelDoes DEF Aside
<1>11. ASSUME NEW w \in Watches, Expand(w) PROVE Aside
  <2>1. \E m \in OtherReq : f2c' = Append(f2c, m)
    BY <1>11, ExpandDoes DEF FieldsAsked, OtherReq
  <2> QED
    BY <1>11, <2>1, ExpandDoes DEF Aside
<1>12. ASSUME NEW w \in Watches, Hide(w) PROVE Aside
  BY <1>12, HideDoes DEF Aside
<1>13. ASSUME NEW w \in Watches, Show(w) PROVE Aside
  <2>1. UNCHANGED <<program, loop, c2f, chosen, enabled, backtrace, late>>
    BY <1>13, ShowDoes
  <2>2. \/ f2c' = f2c
        \/ \E m \in OtherReq : f2c' = Append(f2c, m)
        \/ \E u \in Seq(ContextMsg) :
              (\A i \in DOMAIN u : u[i] \in VarsReq) /\ f2c' = f2c \o u
    BY <1>a, <1>13, ShowDoes DEF FieldsAsked, OtherReq
  <2> QED
    BY <2>1, <2>2 DEF Aside
<1>14. CASE UNCHANGED vars
  BY <1>14 DEF vars, Aside
<1> QED
  BY <1>1, <1>2, <1>3, <1>4, <1>5, <1>6, <1>7, <1>8, <1>9, <1>10, <1>11, <1>12,
     <1>13, <1>14
  DEF Next, Context, Frame, User

(* The queue s becomes r, and no command of X comes or goes.                 *)
Passes(S, X, s, r) ==
    \/ r = s
    \/ \E m \in S : m \notin X /\ r = Append(s, m)
    \/ s # <<>> /\ Head(s) \notin X /\ r = Tail(s)

LEMMA Bystander ==
    ASSUME NEW S, NEW s \in Seq(S), NEW X, NEW r, Passes(S, X, s, r)
    PROVE  /\ \A A \in SUBSET X : NoneIn(r, A) <=> NoneIn(s, A)
           /\ \A A \in SUBSET X : HowMany(r, A) = HowMany(s, A)
           /\ \A A \in SUBSET X : \A B : LastIn(s, A, B) => LastIn(r, A, B)
           /\ \A A, B \in SUBSET X : NoneAfter(s, A, B) => NoneAfter(r, A, B)
           /\ \A A, B \in SUBSET X : Followed(s, A, B) => Followed(r, A, B)
           /\ \A A, B, U \in SUBSET X : \A b :
                 /\ OnBefore(s, b, A, B, U) => OnBefore(r, b, A, B, U)
                 /\ OnLast(s, b, A, B) => OnLast(r, b, A, B)
<1>1. CASE r = s
  BY <1>1
<1>2. ASSUME NEW m \in S, m \notin X, r = Append(s, m)
      PROVE  /\ \A A \in SUBSET X : NoneIn(r, A) <=> NoneIn(s, A)
             /\ \A A \in SUBSET X : HowMany(r, A) = HowMany(s, A)
             /\ \A A \in SUBSET X : \A B : LastIn(s, A, B) => LastIn(r, A, B)
             /\ \A A, B \in SUBSET X : NoneAfter(s, A, B) => NoneAfter(r, A, B)
             /\ \A A, B \in SUBSET X : Followed(s, A, B) => Followed(r, A, B)
             /\ \A A, B, U \in SUBSET X : \A b :
                   /\ OnBefore(s, b, A, B, U) => OnBefore(r, b, A, B, U)
                   /\ OnLast(s, b, A, B) => OnLast(r, b, A, B)
  <2>0. \A A \in SUBSET X : m \notin A
    BY <1>2
  <2>1. \A A \in SUBSET X : NoneIn(r, A) <=> NoneIn(s, A)
    BY <1>2, <2>0, AppendOrder
  <2>2. \A A \in SUBSET X : HowMany(r, A) = HowMany(s, A)
    BY <1>2, <2>0, Counted
  <2>3. \A A \in SUBSET X : \A B : LastIn(s, A, B) => LastIn(r, A, B)
    BY <1>2, <2>0, AppendOrder
  <2>4. \A A, B \in SUBSET X : NoneAfter(s, A, B) => NoneAfter(r, A, B)
    BY <1>2, <2>0, AppendAfter
  <2>5. \A A, B \in SUBSET X : Followed(s, A, B) => Followed(r, A, B)
    BY <1>2, <2>0, AppendOrder
  <2>6. \A A, B, U \in SUBSET X : \A b :
           /\ OnBefore(s, b, A, B, U) => OnBefore(r, b, A, B, U)
           /\ OnLast(s, b, A, B) => OnLast(r, b, A, B)
    BY <1>2, <2>0, SwitchAppend
  <2> QED
    BY <2>1, <2>2, <2>3, <2>4, <2>5, <2>6
<1>3. ASSUME s # <<>>, Head(s) \notin X, r = Tail(s)
      PROVE  /\ \A A \in SUBSET X : NoneIn(r, A) <=> NoneIn(s, A)
             /\ \A A \in SUBSET X : HowMany(r, A) = HowMany(s, A)
             /\ \A A \in SUBSET X : \A B : LastIn(s, A, B) => LastIn(r, A, B)
             /\ \A A, B \in SUBSET X : NoneAfter(s, A, B) => NoneAfter(r, A, B)
             /\ \A A, B \in SUBSET X : Followed(s, A, B) => Followed(r, A, B)
             /\ \A A, B, U \in SUBSET X : \A b :
                   /\ OnBefore(s, b, A, B, U) => OnBefore(r, b, A, B, U)
                   /\ OnLast(s, b, A, B) => OnLast(r, b, A, B)
  <2>0. \A A \in SUBSET X : Head(s) \notin A
    BY <1>3
  <2>1. \A A \in SUBSET X : NoneIn(r, A) <=> NoneIn(s, A)
    BY <1>3, <2>0, TailOrder
  <2>2. \A A \in SUBSET X : HowMany(r, A) = HowMany(s, A)
    BY <1>3, <2>0, Counted
  <2>3. \A A \in SUBSET X : \A B : LastIn(s, A, B) => LastIn(r, A, B)
    BY <1>3, TailOrder
  <2>4. \A A, B \in SUBSET X : NoneAfter(s, A, B) => NoneAfter(r, A, B)
    BY <1>3, TailAfter
  <2>5. \A A, B \in SUBSET X : Followed(s, A, B) => Followed(r, A, B)
    BY <1>3, TailOrder
  <2>6. \A A, B, U \in SUBSET X : \A b :
           /\ OnBefore(s, b, A, B, U) => OnBefore(r, b, A, B, U)
           /\ OnLast(s, b, A, B) => OnLast(r, b, A, B)
    BY <1>3, <2>0, SwitchTail
  <2> QED
    BY <2>1, <2>2, <2>3, <2>4, <2>5, <2>6
<1> QED
  BY <1>1, <1>2, <1>3 DEF Passes

LEMMA AsideKeeps ==
    ASSUME TypesInv, Aside
    PROVE  /\ UNCHANGED <<stopped, prevBreak, wait, enabled, stack, backtrace>>
           /\ HowMany(c2f', UpdateMsg) = HowMany(c2f, UpdateMsg)
           /\ HowMany(f2c', SuccessMsg) = HowMany(f2c, SuccessMsg)
           /\ NoneIn(c2f', Fresh) <=> NoneIn(c2f, Fresh)
           /\ NoneIn(c2f', StateMsg) <=> NoneIn(c2f, StateMsg)
           /\ NoneIn(c2f', BacktraceAns) <=> NoneIn(c2f, BacktraceAns)
           /\ NoneIn(f2c', BacktraceReq) <=> NoneIn(f2c, BacktraceReq)
           /\ \A B : LastIn(c2f, BacktraceAns, B) => LastIn(c2f', BacktraceAns, B)
           /\ NoneAfter(c2f, Fresh, StateMsg) => NoneAfter(c2f', Fresh, StateMsg)
           /\ OnBefore(c2f, enabled, Ons, Offs, UpdateMsg)
                 => OnBefore(c2f', enabled, Ons, Offs, UpdateMsg)
           /\ OnLast(c2f, enabled, Ons, Offs) => OnLast(c2f', enabled, Ons, Offs)
           /\ Followed(f2c, ResumeReq, SuccessMsg)
                 => late' \/ Followed(f2c', ResumeReq, SuccessMsg)
<1> DEFINE X == StateMsg \cup UpdateMsg \cup BacktraceAns
           Y == SuccessMsg \cup BacktraceReq \cup ResumeReq
           Z == SuccessMsg \cup BacktraceReq
<1>1. c2f \in Seq(FrameMsg) /\ f2c \in Seq(ContextMsg)
  BY DEF TypesInv
<1>2. /\ Fresh \in SUBSET X /\ StateMsg \in SUBSET X /\ BacktraceAns \in SUBSET X
      /\ UpdateMsg \in SUBSET X /\ Ons \in SUBSET X /\ Offs \in SUBSET X
  BY DEF Fresh, Ons, Offs
<1>3. \A m : m \in OtherAns => m \in FrameMsg /\ m \notin X
  BY KindsDiffer DEF OtherAns, FrameMsg
<1>4. Passes(FrameMsg, X, c2f, c2f')
  BY <1>3 DEF Aside, Passes
<1> HIDE DEF X
<1>5. /\ \A A \in SUBSET X : NoneIn(c2f', A) <=> NoneIn(c2f, A)
      /\ \A A \in SUBSET X : HowMany(c2f', A) = HowMany(c2f, A)
      /\ \A A \in SUBSET X : \A B : LastIn(c2f, A, B) => LastIn(c2f', A, B)
      /\ \A A, B \in SUBSET X : NoneAfter(c2f, A, B) => NoneAfter(c2f', A, B)
      /\ \A A, B, U \in SUBSET X : \A b :
            /\ OnBefore(c2f, b, A, B, U) => OnBefore(c2f', b, A, B, U)
            /\ OnLast(c2f, b, A, B) => OnLast(c2f', b, A, B)
  BY <1>1, <1>4, Bystander
<1>6. /\ HowMany(c2f', UpdateMsg) = HowMany(c2f, UpdateMsg)
      /\ NoneIn(c2f', Fresh) <=> NoneIn(c2f, Fresh)
      /\ NoneIn(c2f', StateMsg) <=> NoneIn(c2f, StateMsg)
      /\ NoneIn(c2f', BacktraceAns) <=> NoneIn(c2f, BacktraceAns)
  BY <1>2, <1>5
<1>7. /\ \A B : LastIn(c2f, BacktraceAns, B) => LastIn(c2f', BacktraceAns, B)
      /\ NoneAfter(c2f, Fresh, StateMsg) => NoneAfter(c2f', Fresh, StateMsg)
      /\ OnBefore(c2f, enabled, Ons, Offs, UpdateMsg)
            => OnBefore(c2f', enabled, Ons, Offs, UpdateMsg)
      /\ OnLast(c2f, enabled, Ons, Offs) => OnLast(c2f', enabled, Ons, Offs)
  BY <1>2, <1>5
<1>8. /\ HowMany(f2c', SuccessMsg) = HowMany(f2c, SuccessMsg)
      /\ NoneIn(f2c', BacktraceReq) <=> NoneIn(f2c, BacktraceReq)
      /\ Followed(f2c, ResumeReq, SuccessMsg)
            => late' \/ Followed(f2c', ResumeReq, SuccessMsg)
  <2>1. /\ SuccessMsg \in SUBSET Y /\ BacktraceReq \in SUBSET Y /\ ResumeReq \in SUBSET Y
        /\ SuccessMsg \in SUBSET Z /\ BacktraceReq \in SUBSET Z
    OBVIOUS
  <2>2. \A m : m \in OtherReq => m \in ContextMsg /\ m \notin Y
    BY KindsDiffer DEF OtherReq, ContextMsg
  <2>3. \A m : m \in ResumeReq => m \in ContextMsg /\ m \notin Z
    BY KindsDiffer DEF ContextMsg
  <2>4. CASE Passes(ContextMsg, Y, f2c, f2c')
    <3> HIDE DEF Y, Z
    <3>1. /\ \A A \in SUBSET Y : NoneIn(f2c', A) <=> NoneIn(f2c, A)
          /\ \A A \in SUBSET Y : HowMany(f2c', A) = HowMany(f2c, A)
          /\ \A A, B \in SUBSET Y : Followed(f2c, A, B) => Followed(f2c', A, B)
      BY <1>1, <2>4, Bystander
    <3> QED
      BY <2>1, <3>1
  <2>5. CASE late' /\ Passes(ContextMsg, Z, f2c, f2c')
    <3> HIDE DEF Y, Z
    <3>1. /\ \A A \in SUBSET Z : NoneIn(f2c', A) <=> NoneIn(f2c, A)
          /\ \A A \in SUBSET Z : HowMany(f2c', A) = HowMany(f2c, A)
      BY <1>1, <2>5, Bystander
    <3> QED
      BY <2>1, <2>5, <3>1
  <2>6. ASSUME NEW u \in Seq(ContextMsg), \A i \in DOMAIN u : u[i] \in VarsReq,
               f2c' = f2c \o u
        PROVE  /\ HowMany(f2c', SuccessMsg) = HowMany(f2c, SuccessMsg)
               /\ NoneIn(f2c', BacktraceReq) <=> NoneIn(f2c, BacktraceReq)
               /\ Followed(f2c, ResumeReq, SuccessMsg)
                     => Followed(f2c', ResumeReq, SuccessMsg)
    <3>1. NoneIn(u, SuccessMsg) /\ NoneIn(u, BacktraceReq) /\ NoneIn(u, ResumeReq)
      BY <2>6, KindsDiffer DEF NoneIn
    <3> QED
      BY <1>1, <2>6, <3>1, ConcatOrder
  <2>7. \/ Passes(ContextMsg, Y, f2c, f2c')
        \/ late' /\ Passes(ContextMsg, Z, f2c, f2c')
        \/ \E u \in Seq(ContextMsg) :
             (\A i \in DOMAIN u : u[i] \in VarsReq) /\ f2c' = f2c \o u
    <3> HIDE DEF Y, Z
    <3> QED
      BY <2>2, <2>3 DEF Aside, Passes
  <2> HIDE DEF Y, Z
  <2> QED
    BY <2>4, <2>5, <2>6, <2>7
<1> QED
  BY <1>6, <1>7, <1>8 DEF Aside

LEMMA NoCounts ==
    ASSUME Init
    PROVE  WaitInv
  BY NoneInNothing DEF Init, WaitInv

(* Each UPDATE_SOURCE is answered once: an answer is sent when the command   *)
(* is taken.                                                                 *)
LEMMA WaitStep == ASSUME TypesInv, WaitInv, [Next]_vars PROVE WaitInv'
<1> USE DEF program, loop, trees, frame
<1> DEFINE c == HowMany(c2f, UpdateMsg)
           s == HowMany(f2c, SuccessMsg)
           cn == HowMany(c2f', UpdateMsg)
           sn == HowMany(f2c', SuccessMsg)
<1>a. c2f \in Seq(FrameMsg) /\ f2c \in Seq(ContextMsg) /\ wait \in Nat
  BY DEF TypesInv, TypeOK
<1>b. c \in Nat /\ s \in Nat
  BY <1>a, HowManyNat
<1>c. c + s <= wait /\ (wait > 0 => stopped /\ prevBreak)
  BY DEF WaitInv
<1> SUFFICES cn + sn <= wait' /\ (wait' > 0 => stopped' /\ prevBreak')
  BY DEF WaitInv
<1>d. \A m : /\ m \in StateMsg => m \notin UpdateMsg
             /\ m \in BacktraceAns => m \notin UpdateMsg
             /\ m \in ResumeReq => m \notin SuccessMsg
             /\ m \in BacktraceReq => m \notin SuccessMsg
  BY KindsDiffer
<1>e. /\ StateOf(TRUE) \in StateMsg /\ StateOf(FALSE) \in StateMsg
      /\ StateOf(TRUE) \in FrameMsg /\ StateOf(FALSE) \in FrameMsg
      /\ \A b \in BOOLEAN : UpdateOf(b) \in UpdateMsg /\ UpdateOf(b) \in FrameMsg
      /\ BacktraceOf(stack) \in BacktraceAns /\ BacktraceOf(stack) \in FrameMsg
      /\ TheBacktrace \in BacktraceReq /\ TheBacktrace \in ContextMsg
      /\ TheSuccess \in SuccessMsg /\ TheSuccess \in ContextMsg
  BY SentTypes DEF FrameMsg, ContextMsg, TypesInv, TypeOK
<1>f. \A m \in FrameMsg : m \notin UpdateMsg /\ c2f' = Append(c2f, m) => cn = c
  BY <1>a, Counted
<1>g. c2f # <<>> /\ c2f' = Tail(c2f) /\ Head(c2f) \notin UpdateMsg => cn = c
  BY <1>a, Counted
<1>h. f2c # <<>> /\ f2c' = Tail(f2c) /\ Head(f2c) \notin SuccessMsg => sn = s
  BY <1>a, Counted
<1>i. \A m \in ContextMsg : m \notin SuccessMsg /\ f2c' = Append(f2c, m) => sn = s
  BY <1>a, Counted
<1>j. (c2f' = c2f => cn = c) /\ (f2c' = f2c => sn = s)
  OBVIOUS
<1>1. CASE Aside
  <2>1. cn = c /\ sn = s /\ wait' = wait /\ stopped' = stopped /\ prevBreak' = prevBreak
    BY <1>1, AsideKeeps
  <2> HIDE DEF c, s, cn, sn
  <2> QED
    BY <1>c, <2>1
<1>2. CASE Run
  <2>1. cn = c /\ sn = s
    BY <1>2, <1>d, <1>e, <1>f, <1>j, RunDoes
  <2>2. wait' = wait /\ ~stopped
    BY <1>2, RunDoes
  <2> HIDE DEF c, s, cn, sn
  <2>3. ~(wait > 0)
    BY <1>c, <2>2
  <2> QED
    BY <1>c, <2>1, <2>2, <2>3
<1>3. CASE SendUpdateSource
  <2>1. cn = c + 1
    <3>1. c2f' = Append(c2f, UpdateOf(prevBreak)) /\ prevBreak \in BOOLEAN
      BY <1>3, SendUpdateSourceDoes
    <3> QED
      BY <1>a, <1>e, <3>1, Counted
  <2>2. sn = s
    BY <1>3, <1>j, SendUpdateSourceDoes
  <2>3. wait' = wait + 1 /\ stopped' /\ prevBreak'
    BY <1>3, SendUpdateSourceDoes
  <2> HIDE DEF c, s, cn, sn
  <2> QED
    BY <1>a, <1>b, <1>c, <2>1, <2>2, <2>3
<1>4. CASE HandleResume
  <2>1. cn = c /\ sn = s
    BY <1>4, <1>d, <1>e, <1>f, <1>h, <1>j, HandleResumeDoes
  <2>2. /\ wait' = wait /\ prevBreak' = prevBreak
        /\ stopped' = stopped \/ (stopped /\ wait = 0)
    BY <1>4, HandleResumeDoes
  <2> HIDE DEF c, s, cn, sn
  <2> QED
    BY <1>c, <2>1, <2>2
<1>5. CASE HandleSuccessed
  <2>1. s = sn + 1 /\ sn \in Nat
    <3>1. f2c # <<>> /\ Head(f2c) \in SuccessMsg /\ f2c' = Tail(f2c)
      BY <1>5, HandleSuccessedDoes
    <3> QED
      BY <1>a, <3>1, Counted
  <2>2. cn = c
    BY <1>5, <1>j, HandleSuccessedDoes
  <2>3. wait' = wait - 1 /\ stopped' = stopped /\ prevBreak' = prevBreak
    BY <1>5, HandleSuccessedDoes
  <2> HIDE DEF c, s, cn, sn
  <2> QED
    BY <1>a, <1>b, <1>c, <2>1, <2>2, <2>3
<1>6. CASE HandleRequest /\ Head(f2c) \in BacktraceReq
  <2>1. c2f' = Append(c2f, BacktraceOf(stack)) /\ f2c # <<>> /\ f2c' = Tail(f2c)
    BY <1>6, HandleRequestDoes, KindsDiffer
  <2>2. cn = c /\ sn = s
    BY <1>6, <1>d, <1>e, <1>f, <1>h, <2>1
  <2>3. wait' = wait /\ stopped' = stopped /\ prevBreak' = prevBreak
    BY <1>6, HandleRequestDoes
  <2> HIDE DEF c, s, cn, sn
  <2> QED
    BY <1>c, <2>2, <2>3
<1>7. CASE OnBacktrace
  <2>1. cn = c /\ sn = s
    BY <1>7, <1>d, <1>g, <1>j, OnBacktraceDoes
  <2>2. wait' = wait /\ stopped' = stopped /\ prevBreak' = prevBreak
    BY <1>7, OnBacktraceDoes
  <2> HIDE DEF c, s, cn, sn
  <2> QED
    BY <1>c, <2>1, <2>2
<1>8. CASE OnChangedState
  <2>1. cn = c /\ sn = s
    BY <1>8, <1>d, <1>e, <1>g, <1>i, <1>j, OnChangedStateDoes
  <2>2. wait' = wait /\ stopped' = stopped /\ prevBreak' = prevBreak
    BY <1>8, OnChangedStateDoes
  <2> HIDE DEF c, s, cn, sn
  <2> QED
    BY <1>c, <2>1, <2>2
<1>9. CASE OnUpdateSource
  <2>1. c = cn + 1 /\ cn \in Nat
    <3>1. c2f # <<>> /\ Head(c2f) \in UpdateMsg /\ c2f' = Tail(c2f)
      BY <1>9, OnUpdateSourceDoes
    <3> QED
      BY <1>a, <3>1, Counted
  <2>2. sn = s + 1
    <3>1. PICK u : /\ Asks(u, Refreshed, count + 1, chosen', BacktraceReq)
                   /\ f2c' = Append(f2c \o u, TheSuccess)
                   /\ f2c \o u \in Seq(ContextMsg)
      BY <1>9, OnUpdateSourceDoes
    <3>2. u \in Seq(ContextMsg) /\ NoneIn(u, SuccessMsg)
      BY <3>1, KindsDiffer DEF Asks, NoneIn
    <3>3. HowMany(f2c \o u, SuccessMsg) = s
      BY <1>a, <3>2, ConcatOrder
    <3> DEFINE v == f2c \o u
    <3>4. v \in Seq(ContextMsg) /\ f2c' = Append(v, TheSuccess)
          /\ HowMany(v, SuccessMsg) = s
      BY <3>1, <3>3
    <3> HIDE DEF v
    <3>5. HowMany(Append(v, TheSuccess), SuccessMsg) = HowMany(v, SuccessMsg) + 1
      BY <1>e, <3>4, Counted
    <3> QED
      BY <3>4, <3>5
  <2>3. wait' = wait /\ stopped' = stopped /\ prevBreak' = prevBreak
    BY <1>9, OnUpdateSourceDoes
  <2> HIDE DEF c, s, cn, sn
  <2> QED
    BY <1>a, <1>b, <1>c, <2>1, <2>2, <2>3
<1> QED
  BY <1>1, <1>2, <1>3, <1>4, <1>5, <1>6, <1>7, <1>8, <1>9, AsideSteps

(* A stop that has been told, and its first update has been taken.           *)
Told == stopped /\ prevBreak
Shown == Told /\ NoneIn(c2f, Fresh)

(* The views are enabled by the time an update comes, and while the stop is  *)
(* shown nothing is on its way that disables them.                           *)
StateInv ==
    /\ OnBefore(c2f, enabled, Ons, Offs, UpdateMsg)
    /\ stopped => OnLast(c2f, enabled, Ons, Offs)
    /\ Told => NoneAfter(c2f, Fresh, StateMsg)
    /\ Shown => enabled /\ NoneIn(c2f, StateMsg)

(* None is awaited: none is on its way.                                      *)
LEMMA NoUpdates ==
    ASSUME TypesInv, WaitInv, wait = 0
    PROVE  NoneIn(c2f, UpdateMsg) /\ NoneIn(f2c, SuccessMsg)
<1>1. /\ HowMany(c2f, UpdateMsg) \in Nat /\ HowMany(f2c, SuccessMsg) \in Nat
      /\ HowMany(c2f, UpdateMsg) = 0 => \A i \in DOMAIN c2f : c2f[i] \notin UpdateMsg
      /\ HowMany(f2c, SuccessMsg) = 0 => \A i \in DOMAIN f2c : f2c[i] \notin SuccessMsg
  BY HowManyNat DEF TypesInv
<1>2. HowMany(c2f, UpdateMsg) = 0 /\ HowMany(f2c, SuccessMsg) = 0
  BY <1>1 DEF WaitInv
<1> QED
  BY <1>1, <1>2 DEF NoneIn

LEMMA StateInit == Init => StateInv
<1> SUFFICES ASSUME Init PROVE StateInv
  OBVIOUS
<1>1. c2f = <<>> /\ ~stopped
  BY DEF Init
<1>2. OnBefore(c2f, enabled, Ons, Offs, UpdateMsg)
  BY <1>1 DEF OnBefore
<1> QED
  BY <1>1, <1>2 DEF StateInv, Told, Shown

LEMMA StateStep ==
    ASSUME TypesInv, WaitInv, StateInv, [Next]_vars
    PROVE  StateInv'
<1> USE DEF program, loop, trees, frame
<1>a. c2f \in Seq(FrameMsg) /\ stopped \in BOOLEAN /\ enabled \in BOOLEAN
  BY DEF TypesInv, TypeOK
<1> SUFFICES /\ OnBefore(c2f', enabled', Ons, Offs, UpdateMsg)
             /\ stopped' => OnLast(c2f', enabled', Ons, Offs)
             /\ stopped' /\ prevBreak' => NoneAfter(c2f', Fresh, StateMsg)
             /\ stopped' /\ prevBreak' /\ NoneIn(c2f', Fresh)
                   => enabled' /\ NoneIn(c2f', StateMsg)
  BY DEF StateInv, Told, Shown
<1>b. /\ OnBefore(c2f, enabled, Ons, Offs, UpdateMsg)
      /\ stopped => OnLast(c2f, enabled, Ons, Offs)
      /\ stopped /\ prevBreak => NoneAfter(c2f, Fresh, StateMsg)
      /\ stopped /\ prevBreak /\ NoneIn(c2f, Fresh) => enabled /\ NoneIn(c2f, StateMsg)
  BY DEF StateInv, Told, Shown
<1>c. /\ \A m : m \in StateMsg => m \notin UpdateMsg /\ m \notin Fresh
      /\ \A m : m \in UpdateMsg => m \notin StateMsg /\ m \notin Ons /\ m \notin Offs
      /\ \A m : m \in BacktraceAns => /\ m \notin StateMsg /\ m \notin UpdateMsg
                                      /\ m \notin Fresh /\ m \notin Ons /\ m \notin Offs
  BY KindsDiffer DEF Fresh, Ons, Offs
<1>d. /\ StateOf(TRUE) \in StateMsg /\ StateOf(TRUE) \in Ons /\ StateOf(TRUE) \in FrameMsg
      /\ StateOf(FALSE) \in StateMsg /\ StateOf(FALSE) \in FrameMsg
  BY SentTypes DEF Ons, FrameMsg
<1>1. CASE Aside
  BY <1>b, <1>1, AsideKeeps
<1>2. CASE Run
  <2>1. /\ enabled' = enabled /\ ~prevBreak'
        /\ \/ ~stopped' /\ c2f' = c2f
           \/ stopped' /\ c2f' = Append(c2f, StateOf(TRUE))
    BY <1>2, RunDoes
  <2>2. CASE ~stopped' /\ c2f' = c2f
    BY <1>b, <2>1, <2>2
  <2>3. CASE stopped' /\ c2f' = Append(c2f, StateOf(TRUE))
    <3>1. OnBefore(c2f', enabled, Ons, Offs, UpdateMsg)
      BY <1>a, <1>b, <1>c, <1>d, <2>3, SwitchAppend
    <3>2. OnLast(c2f', enabled, Ons, Offs)
      BY <1>a, <1>b, <1>c, <1>d, <2>3, SwitchAppend
    <3> QED
      BY <2>1, <3>1, <3>2
  <2> QED
    BY <2>1, <2>2, <2>3
<1>3. CASE SendUpdateSource
  <2> DEFINE m == UpdateOf(prevBreak)
  <2>1. /\ c2f' = Append(c2f, m) /\ stopped /\ stopped' /\ prevBreak'
        /\ enabled' = enabled /\ prevBreak \in BOOLEAN
    BY <1>3, SendUpdateSourceDoes
  <2>2. m \in UpdateMsg /\ m \in FrameMsg /\ (m \notin Fresh => prevBreak)
    BY <2>1, SentTypes DEF Fresh, FrameMsg
  <2> HIDE DEF m
  <2>3. OnLast(c2f, enabled, Ons, Offs)
    BY <1>b, <2>1
  <2>4. OnBefore(c2f', enabled, Ons, Offs, UpdateMsg)
    BY <1>a, <1>b, <2>1, <2>2, <2>3, SwitchAppend
  <2>5. OnLast(c2f', enabled, Ons, Offs)
    BY <1>a, <1>c, <2>1, <2>2, <2>3, SwitchAppend
  <2>6. NoneAfter(c2f', Fresh, StateMsg)
    <3>1. CASE prevBreak
      BY <1>a, <1>b, <1>c, <2>1, <2>2, <3>1, AppendAfter
    <3>2. CASE ~prevBreak
      <4>1. wait = 0
        BY <1>a, <3>2 DEF WaitInv, TypesInv, TypeOK
      <4>2. NoneIn(c2f, UpdateMsg)
        BY <4>1, NoUpdates
      <4>3. NoneIn(c2f, Fresh)
        BY <4>2 DEF NoneIn, Fresh
      <4> QED
        <5>1. NoneAfter(c2f, Fresh, StateMsg)
          BY <4>3 DEF NoneIn, NoneAfter
        <5> QED
          BY <1>a, <1>c, <2>1, <2>2, <5>1, AppendAfter
    <3> QED
      BY <3>1, <3>2
  <2>7. ASSUME NoneIn(c2f', Fresh) PROVE enabled /\ NoneIn(c2f', StateMsg)
    <3>1. NoneIn(c2f, Fresh) /\ m \notin Fresh
      BY <1>a, <2>1, <2>2, <2>7, AppendOrder
    <3>2. enabled /\ NoneIn(c2f, StateMsg)
      BY <1>b, <2>1, <2>2, <3>1
    <3> QED
      BY <1>a, <1>c, <2>1, <2>2, <3>2, AppendOrder
  <2> QED
    BY <2>1, <2>4, <2>5, <2>6, <2>7
<1>4. CASE HandleResume
  <2>1. /\ enabled' = enabled /\ prevBreak' = prevBreak
        /\ \/ ~stopped' /\ c2f' = Append(c2f, StateOf(FALSE))
           \/ stopped' = stopped /\ c2f' = c2f
    BY <1>4, HandleResumeDoes
  <2>2. CASE ~stopped' /\ c2f' = Append(c2f, StateOf(FALSE))
    <3>1. OnBefore(c2f', enabled, Ons, Offs, UpdateMsg)
      BY <1>a, <1>b, <1>c, <1>d, <2>2, SwitchAppend
    <3> QED
      BY <2>1, <2>2, <3>1
  <2>3. CASE stopped' = stopped /\ c2f' = c2f
    BY <1>b, <2>1, <2>3
  <2> QED
    BY <2>1, <2>2, <2>3
<1>5. CASE HandleSuccessed
  BY <1>b, <1>5, HandleSuccessedDoes
<1>6. CASE HandleRequest /\ Head(f2c) \in BacktraceReq
  <2> DEFINE m == BacktraceOf(stack)
             X == StateMsg \cup UpdateMsg
  <2>1. /\ c2f' = Append(c2f, m)
        /\ stopped' = stopped /\ enabled' = enabled /\ prevBreak' = prevBreak
    BY <1>6, HandleRequestDoes, KindsDiffer
  <2>2. m \in FrameMsg /\ m \notin X
    BY <1>c, SentTypes DEF FrameMsg, TypesInv, TypeOK
  <2>3. Passes(FrameMsg, X, c2f, c2f')
    BY <2>1, <2>2 DEF Passes
  <2>4. /\ Fresh \in SUBSET X /\ StateMsg \in SUBSET X /\ UpdateMsg \in SUBSET X
        /\ Ons \in SUBSET X /\ Offs \in SUBSET X
    BY DEF Fresh, Ons, Offs
  <2> HIDE DEF m, X
  <2>5. /\ OnBefore(c2f, enabled, Ons, Offs, UpdateMsg)
              => OnBefore(c2f', enabled, Ons, Offs, UpdateMsg)
        /\ OnLast(c2f, enabled, Ons, Offs) => OnLast(c2f', enabled, Ons, Offs)
    BY <1>a, <2>3, <2>4, Bystander
  <2>6. /\ NoneAfter(c2f, Fresh, StateMsg) => NoneAfter(c2f', Fresh, StateMsg)
        /\ NoneIn(c2f', Fresh) <=> NoneIn(c2f, Fresh)
        /\ NoneIn(c2f', StateMsg) <=> NoneIn(c2f, StateMsg)
    BY <1>a, <2>3, <2>4, Bystander
  <2> QED
    BY <1>b, <2>1, <2>5, <2>6
<1>7. CASE OnBacktrace
  <2> DEFINE X == StateMsg \cup UpdateMsg
  <2>1. /\ c2f # <<>> /\ Head(c2f) \in BacktraceAns /\ c2f' = Tail(c2f)
        /\ stopped' = stopped /\ enabled' = enabled /\ prevBreak' = prevBreak
    BY <1>7, OnBacktraceDoes
  <2>2. Head(c2f) \notin X
    BY <1>c, <2>1
  <2>3. Passes(FrameMsg, X, c2f, c2f')
    BY <2>1, <2>2 DEF Passes
  <2>4. /\ Fresh \in SUBSET X /\ StateMsg \in SUBSET X /\ UpdateMsg \in SUBSET X
        /\ Ons \in SUBSET X /\ Offs \in SUBSET X
    BY DEF Fresh, Ons, Offs
  <2> HIDE DEF X
  <2>5. /\ OnBefore(c2f, enabled, Ons, Offs, UpdateMsg)
              => OnBefore(c2f', enabled, Ons, Offs, UpdateMsg)
        /\ OnLast(c2f, enabled, Ons, Offs) => OnLast(c2f', enabled, Ons, Offs)
    BY <1>a, <2>3, <2>4, Bystander
  <2>6. /\ NoneAfter(c2f, Fresh, StateMsg) => NoneAfter(c2f', Fresh, StateMsg)
        /\ NoneIn(c2f', Fresh) <=> NoneIn(c2f, Fresh)
        /\ NoneIn(c2f', StateMsg) <=> NoneIn(c2f, StateMsg)
    BY <1>a, <2>3, <2>4, Bystander
  <2> QED
    BY <1>b, <2>1, <2>5, <2>6
<1>8. CASE OnChangedState
  <2> DEFINE m == Head(c2f)
  <2>1. /\ c2f # <<>> /\ m \in StateMsg /\ c2f' = Tail(c2f) /\ enabled' = m.isBreak
        /\ stopped' = stopped /\ prevBreak' = prevBreak
    BY <1>8, OnChangedStateDoes
  <2>2. (m \in Ons => enabled') /\ (m \notin Offs => enabled') /\ m \notin Fresh
    BY <1>c, <2>1 DEF Ons, Offs
  <2> HIDE DEF m
  <2>3. /\ OnBefore(c2f', enabled', Ons, Offs, UpdateMsg)
        /\ stopped' => OnLast(c2f', enabled', Ons, Offs)
    BY <1>a, <1>b, <2>1, <2>2, SwitchTail DEF m
  <2>4. stopped' /\ prevBreak' => NoneAfter(c2f', Fresh, StateMsg)
    BY <1>a, <1>b, <2>1, TailAfter
  <2>5. ~(stopped' /\ prevBreak' /\ NoneIn(c2f', Fresh))
    <3>1. NoneIn(c2f', Fresh) => NoneIn(c2f, Fresh)
      BY <1>a, <2>1, <2>2, TailOrder DEF m
    <3>2. ~NoneIn(c2f, StateMsg)
      BY <1>a, <2>1, TailOrder DEF m
    <3> QED
      BY <1>b, <2>1, <3>1, <3>2
  <2> QED
    BY <2>3, <2>4, <2>5
<1>9. CASE OnUpdateSource
  <2> DEFINE m == Head(c2f)
  <2>1. /\ c2f # <<>> /\ m \in UpdateMsg /\ c2f' = Tail(c2f) /\ enabled' = enabled
        /\ stopped' = stopped /\ prevBreak' = prevBreak
    BY <1>9, OnUpdateSourceDoes
  <2>2. m \notin Ons /\ m \notin Offs /\ m \notin StateMsg
    BY <1>c, <2>1
  <2>3. enabled
    BY <1>a, <1>b, <2>1, SwitchHead
  <2> HIDE DEF m
  <2>4. /\ OnBefore(c2f', enabled, Ons, Offs, UpdateMsg)
        /\ stopped => OnLast(c2f', enabled, Ons, Offs)
    BY <1>a, <1>b, <2>1, <2>2, SwitchTail DEF m
  <2>5. stopped /\ prevBreak => NoneAfter(c2f', Fresh, StateMsg)
    BY <1>a, <1>b, <2>1, TailAfter
  <2>6. ASSUME stopped, prevBreak, NoneIn(c2f', Fresh) PROVE NoneIn(c2f', StateMsg)
    <3>1. CASE m \in Fresh
      BY <1>a, <1>b, <2>1, <2>6, <3>1, TailAfter DEF m
    <3>2. CASE m \notin Fresh
      <4>1. NoneIn(c2f, Fresh)
        BY <1>a, <2>1, <2>6, <3>2, TailOrder DEF m
      <4>2. NoneIn(c2f, StateMsg)
        BY <1>b, <2>6, <4>1
      <4> QED
        BY <1>a, <2>1, <4>2, TailOrder
    <3> QED
      BY <3>1, <3>2
  <2> QED
    BY <2>1, <2>3, <2>4, <2>5, <2>6
<1> QED
  BY <1>1, <1>2, <1>3, <1>4, <1>5, <1>6, <1>7, <1>8, <1>9, AsideSteps

LEMMA UpdateFacts ==
    ASSUME TypesInv, WaitInv, StateInv, OnUpdateSource
    PROVE  /\ stopped /\ prevBreak /\ enabled
           /\ ~NoneIn(f2c', BacktraceReq)
           /\ Followed(f2c', ResumeReq, SuccessMsg)
<1>1. c2f \in Seq(FrameMsg) /\ f2c \in Seq(ContextMsg)
  BY DEF TypesInv
<1>2. c2f # <<>> /\ Head(c2f) \in UpdateMsg
  BY OnUpdateSourceDoes
<1>3. enabled
  BY <1>1, <1>2, SwitchHead DEF StateInv
<1>4. stopped /\ prevBreak
  <2>1. ~NoneIn(c2f, UpdateMsg)
    BY <1>1, <1>2, TailOrder
  <2>2. wait # 0
    BY <2>1, NoUpdates
  <2> QED
    BY <2>2 DEF WaitInv, TypesInv, TypeOK
<1>5. PICK u : /\ Asks(u, Refreshed, count + 1, chosen', BacktraceReq)
               /\ enabled => ~NoneIn(u, BacktraceReq)
               /\ f2c' = Append(f2c \o u, TheSuccess)
               /\ f2c \o u \in Seq(ContextMsg)
  BY OnUpdateSourceDoes
<1> DEFINE v == f2c \o u
<1>6. u \in Seq(ContextMsg)
  BY <1>5 DEF Asks
<1>7. ~NoneIn(v, BacktraceReq)
  BY <1>1, <1>3, <1>5, <1>6, ConcatOrder
<1>8. v \in Seq(ContextMsg) /\ f2c' = Append(v, TheSuccess)
  BY <1>5
<1> HIDE DEF v
<1>9. /\ TheSuccess \in SuccessMsg /\ TheSuccess \in ContextMsg
      /\ TheSuccess \notin ResumeReq
  BY SentTypes, KindsDiffer DEF ContextMsg
<1>10. ~NoneIn(f2c', BacktraceReq)
  BY <1>7, <1>8, <1>9, AppendOrder
<1>11. Followed(f2c', ResumeReq, SuccessMsg)
  BY <1>8, <1>9, AppendOrder
<1> QED
  BY <1>3, <1>4, <1>10, <1>11

(* The backtrace of the stop is asked for, on its way, or there; what the    *)
(* view shows is then the stack, or one of B.                                *)
BacktraceComes(B) ==
    NoneIn(f2c, BacktraceReq) =>
        /\ LastIn(c2f, BacktraceAns, Of(stack))
        /\ NoneIn(c2f, BacktraceAns) => backtrace \in B \cup {stack}

BacktraceInv == Shown => BacktraceComes({})

(* The backtrace comes, if it did before a step of one of these kinds.       *)
LEMMA BacktraceKept ==
    ASSUME TypesInv, NEW B, BacktraceComes(B),
           \/ Aside
           \/ SendUpdateSource
           \/ HandleResume /\ stopped' = stopped
           \/ HandleSuccessed
           \/ HandleRequest /\ Head(f2c) \in BacktraceReq
           \/ OnBacktrace
           \/ OnChangedState
    PROVE  BacktraceComes(B)'
<1> USE DEF program, loop, trees, frame
<1>a. c2f \in Seq(FrameMsg) /\ f2c \in Seq(ContextMsg)
  BY DEF TypesInv
<1> SUFFICES ASSUME NoneIn(f2c', BacktraceReq)
             PROVE  /\ LastIn(c2f', BacktraceAns, Of(stack'))
                    /\ NoneIn(c2f', BacktraceAns) => backtrace' \in B \cup {stack'}
  BY DEF BacktraceComes, Of
<1>b. NoneIn(f2c, BacktraceReq) =>
         /\ LastIn(c2f, BacktraceAns, Of(stack))
         /\ NoneIn(c2f, BacktraceAns) => backtrace \in B \cup {stack}
  BY DEF BacktraceComes
<1>1. CASE Aside
  BY <1>b, <1>1, AsideKeeps
<1>2. CASE SendUpdateSource
  <2> DEFINE m == UpdateOf(prevBreak)
  <2>1. /\ c2f' = Append(c2f, m) /\ f2c' = f2c /\ prevBreak \in BOOLEAN
        /\ stack' = stack /\ backtrace' = backtrace
    BY <1>2, SendUpdateSourceDoes
  <2>2. m \in FrameMsg /\ m \notin BacktraceAns
    BY <2>1, SentTypes, KindsDiffer DEF FrameMsg
  <2> HIDE DEF m
  <2>3. /\ LastIn(c2f, BacktraceAns, Of(stack)) => LastIn(c2f', BacktraceAns, Of(stack))
        /\ NoneIn(c2f', BacktraceAns) => NoneIn(c2f, BacktraceAns)
    BY <1>a, <2>1, <2>2, AppendOrder
  <2> QED
    BY <1>b, <2>1, <2>3
<1>3. CASE HandleResume /\ stopped' = stopped
  <2>1. /\ f2c # <<>> /\ Head(f2c) \in ResumeReq /\ f2c' = Tail(f2c)
        /\ stack' = stack /\ backtrace' = backtrace /\ c2f' = c2f
    BY <1>3, HandleResumeDoes
  <2>2. NoneIn(f2c, BacktraceReq)
    BY <1>a, <2>1, KindsDiffer, TailOrder
  <2> QED
    BY <1>b, <2>1, <2>2
<1>4. CASE HandleSuccessed
  <2>1. /\ f2c # <<>> /\ Head(f2c) \in SuccessMsg /\ f2c' = Tail(f2c)
        /\ stack' = stack /\ backtrace' = backtrace /\ c2f' = c2f
    BY <1>4, HandleSuccessedDoes
  <2>2. NoneIn(f2c, BacktraceReq)
    BY <1>a, <2>1, KindsDiffer, TailOrder
  <2> QED
    BY <1>b, <2>1, <2>2
<1>5. CASE HandleRequest /\ Head(f2c) \in BacktraceReq
  <2> DEFINE m == BacktraceOf(stack)
  <2>1. c2f' = Append(c2f, m) /\ stack' = stack
    BY <1>5, HandleRequestDoes, KindsDiffer
  <2>2. m \in BacktraceAns /\ m \in Of(stack) /\ m \in FrameMsg
    BY SentTypes DEF Of, FrameMsg, TypesInv, TypeOK
  <2> HIDE DEF m
  <2>3. LastIn(c2f', BacktraceAns, Of(stack)) /\ ~NoneIn(c2f', BacktraceAns)
    BY <1>a, <2>1, <2>2, AppendOrder
  <2> QED
    BY <2>1, <2>3
<1>6. CASE OnBacktrace
  <2>1. /\ c2f # <<>> /\ Head(c2f) \in BacktraceAns /\ c2f' = Tail(c2f)
        /\ f2c' = f2c /\ stack' = stack /\ backtrace' = Head(c2f).stack
    BY <1>6, OnBacktraceDoes
  <2>2. LastIn(c2f, BacktraceAns, Of(stack))
    BY <1>b, <2>1
  <2>3. /\ LastIn(c2f', BacktraceAns, Of(stack))
        /\ NoneIn(c2f', BacktraceAns) => Head(c2f) \in Of(stack)
    BY <1>a, <2>1, <2>2, TailOrder
  <2> QED
    BY <2>1, <2>3 DEF Of
<1>7. CASE OnChangedState
  <2>1. /\ c2f # <<>> /\ Head(c2f) \in StateMsg /\ c2f' = Tail(c2f)
        /\ stack' = stack /\ backtrace' = backtrace
        /\ f2c' = f2c \/ f2c' = Append(f2c, TheBacktrace)
    BY <1>7, OnChangedStateDoes
  <2>2. NoneIn(f2c, BacktraceReq)
    <3>1. TheBacktrace \in ContextMsg
      BY SentTypes DEF ContextMsg
    <3> QED
      BY <1>a, <2>1, <3>1, AppendOrder
  <2>3. /\ LastIn(c2f, BacktraceAns, Of(stack)) => LastIn(c2f', BacktraceAns, Of(stack))
        /\ NoneIn(c2f', BacktraceAns) => NoneIn(c2f, BacktraceAns)
    BY <1>a, <2>1, KindsDiffer, TailOrder
  <2> QED
    BY <1>b, <2>1, <2>2, <2>3
<1> QED
  BY <1>1, <1>2, <1>3, <1>4, <1>5, <1>6, <1>7

(* A stop comes to be shown by an update only.                               *)
LEMMA ShownBefore ==
    ASSUME TypesInv, [Next]_vars, Shown'
    PROVE  \/ OnUpdateSource
           \/ Shown /\ (HandleResume => stopped' = stopped) /\ ~Run
<1> USE DEF program, loop, trees, frame
<1>a. c2f \in Seq(FrameMsg) /\ stopped \in BOOLEAN
  BY DEF TypesInv, TypeOK
<1>b. stopped' /\ prevBreak' /\ NoneIn(c2f', Fresh)
  BY DEF Shown, Told
<1>c. ~Run
  BY <1>b, RunDoes
<1>d. HandleResume => stopped' = stopped
  BY <1>b, HandleResumeDoes
<1>e. ASSUME stopped, prevBreak, NoneIn(c2f, Fresh) PROVE Shown
  BY <1>e DEF Shown, Told
<1>f. /\ \A m : m \in StateMsg => m \notin Fresh
      /\ \A m : m \in BacktraceAns => m \notin Fresh
  BY KindsDiffer DEF Fresh
<1>1. CASE Aside
  BY <1>1, <1>b, <1>c, <1>d, <1>e, AsideKeeps
<1>2. CASE SendUpdateSource
  <2> DEFINE m == UpdateOf(prevBreak)
  <2>1. c2f' = Append(c2f, m) /\ stopped /\ prevBreak \in BOOLEAN
    BY <1>2, SendUpdateSourceDoes
  <2>2. m \in UpdateMsg /\ m \in FrameMsg /\ (m \notin Fresh => prevBreak)
    BY <2>1, SentTypes DEF Fresh, FrameMsg
  <2> HIDE DEF m
  <2>3. NoneIn(c2f, Fresh) /\ m \notin Fresh
    BY <1>a, <1>b, <2>1, <2>2, AppendOrder
  <2> QED
    BY <1>c, <1>d, <1>e, <2>1, <2>2, <2>3
<1>3. CASE HandleResume
  <2>1. prevBreak' = prevBreak /\ (stopped' => c2f' = c2f)
    BY <1>3, HandleResumeDoes
  <2> QED
    BY <1>b, <1>c, <1>d, <1>e, <1>3, <2>1
<1>4. CASE HandleSuccessed
  <2>1. stopped' = stopped /\ c2f' = c2f /\ prevBreak' = prevBreak
    BY <1>4, HandleSuccessedDoes
  <2> QED
    BY <1>b, <1>c, <1>d, <1>e, <2>1
<1>5. CASE HandleRequest /\ Head(f2c) \in BacktraceReq
  <2>1. /\ stopped' = stopped /\ prevBreak' = prevBreak
        /\ c2f' = Append(c2f, BacktraceOf(stack))
    BY <1>5, HandleRequestDoes, KindsDiffer
  <2>2. BacktraceOf(stack) \in FrameMsg
    BY SentTypes DEF FrameMsg, TypesInv, TypeOK
  <2>3. NoneIn(c2f, Fresh)
    BY <1>a, <1>b, <2>1, <2>2, AppendOrder
  <2> QED
    BY <1>b, <1>c, <1>d, <1>e, <2>1, <2>3
<1>6. CASE OnBacktrace
  <2>1. /\ c2f # <<>> /\ Head(c2f) \in BacktraceAns /\ c2f' = Tail(c2f)
        /\ stopped' = stopped /\ prevBreak' = prevBreak
    BY <1>6, OnBacktraceDoes
  <2>2. NoneIn(c2f, Fresh)
    BY <1>a, <1>b, <1>f, <2>1, TailOrder
  <2> QED
    BY <1>b, <1>c, <1>d, <1>e, <2>1, <2>2
<1>7. CASE OnChangedState
  <2>1. /\ c2f # <<>> /\ Head(c2f) \in StateMsg /\ c2f' = Tail(c2f)
        /\ stopped' = stopped /\ prevBreak' = prevBreak
    BY <1>7, OnChangedStateDoes
  <2>2. NoneIn(c2f, Fresh)
    BY <1>a, <1>b, <1>f, <2>1, TailOrder
  <2> QED
    BY <1>b, <1>c, <1>d, <1>e, <2>1, <2>2
<1> QED
  BY <1>c, <1>1, <1>2, <1>3, <1>4, <1>5, <1>6, <1>7, AsideSteps

LEMMA BacktraceStep ==
    ASSUME TypesInv, WaitInv, StateInv, BacktraceInv, [Next]_vars
    PROVE  BacktraceInv'
<1> SUFFICES ASSUME Shown' PROVE BacktraceComes({})'
  BY DEF BacktraceInv
<1>1. CASE OnUpdateSource
  BY <1>1, UpdateFacts DEF BacktraceComes
<1>2. CASE Shown /\ (HandleResume => stopped' = stopped) /\ ~Run /\ ~OnUpdateSource
  BY <1>2, AsideSteps, BacktraceKept DEF BacktraceInv
<1> QED
  BY <1>1, <1>2, ShownBefore

(* Nothing of a stop has been seen yet.                                      *)
NeverStopped ==
    /\ NoneIn(c2f, StateMsg) /\ NoneIn(c2f, BacktraceAns) /\ NoneIn(f2c, BacktraceReq)
    /\ backtrace = 0 /\ chosen = 0

(* As long as the user has not been late the program stays stopped: a RESUME *)
(* on its way comes before the answer that is awaited, and is not obeyed.    *)
(* The stack frame that is chosen is then one of the stop.                   *)
LateInv ==
    ~late =>
        /\ Followed(f2c, ResumeReq, SuccessMsg)
        /\ stopped \/ NeverStopped
        /\ chosen \in {0, stack}
        /\ BacktraceComes({0})

LEMMA LateInit == Init => LateInv
<1> SUFFICES ASSUME Init PROVE LateInv
  OBVIOUS
<1>1. c2f = <<>> /\ f2c = <<>> /\ backtrace = 0 /\ chosen = 0
  BY DEF Init
<1>2. \A A : NoneIn(c2f, A) /\ NoneIn(f2c, A)
  BY <1>1 DEF NoneIn
<1>3. Followed(f2c, ResumeReq, SuccessMsg) /\ LastIn(c2f, BacktraceAns, Of(stack))
  BY <1>1 DEF Followed, LastIn
<1> QED
  BY <1>1, <1>2, <1>3 DEF LateInv, NeverStopped, BacktraceComes

LEMMA LateStep ==
    ASSUME TypesInv, WaitInv, StateInv, LateInv, [Next]_vars
    PROVE  LateInv'
<1> USE DEF program, loop, trees, frame
<1>a. c2f \in Seq(FrameMsg) /\ f2c \in Seq(ContextMsg) /\ stopped \in BOOLEAN
  BY DEF TypesInv, TypeOK
<1> SUFFICES ASSUME ~late'
             PROVE  /\ Followed(f2c', ResumeReq, SuccessMsg)
                    /\ stopped' \/ NeverStopped'
                    /\ chosen' \in {0, stack'}
                    /\ BacktraceComes({0})'
  BY DEF LateInv
<1> DEFINE Never == /\ NoneIn(c2f', StateMsg) /\ NoneIn(c2f', BacktraceAns)
                    /\ NoneIn(f2c', BacktraceReq) /\ backtrace' = 0 /\ chosen' = 0
<1>b. ~late => /\ Followed(f2c, ResumeReq, SuccessMsg)
               /\ stopped \/ NeverStopped
               /\ chosen \in {0, stack}
               /\ BacktraceComes({0})
  BY DEF LateInv
<1>c. Never => NeverStopped'
  BY DEF NeverStopped
<1>d. \A m : /\ m \in UpdateMsg => m \notin StateMsg /\ m \notin BacktraceAns
             /\ m \in BacktraceAns => m \notin StateMsg
             /\ m \in ResumeReq => m \notin BacktraceReq
             /\ m \in SuccessMsg => m \notin BacktraceReq
  BY KindsDiffer
<1> HIDE DEF Never
<1>1. CASE Aside
  <2>1. ~late
    BY <1>1 DEF Aside
  <2>2. /\ UNCHANGED <<stopped, stack, backtrace>>
        /\ Followed(f2c', ResumeReq, SuccessMsg)
        /\ NoneIn(c2f', StateMsg) <=> NoneIn(c2f, StateMsg)
        /\ NoneIn(c2f', BacktraceAns) <=> NoneIn(c2f, BacktraceAns)
        /\ NoneIn(f2c', BacktraceReq) <=> NoneIn(f2c, BacktraceReq)
    BY <1>1, <1>b, <2>1, AsideKeeps
  <2>3. \/ chosen' = chosen
        \/ /\ chosen' = backtrace /\ backtrace # 0
           /\ NoneIn(c2f, BacktraceAns) /\ NoneIn(f2c, BacktraceReq)
    BY <1>1 DEF Aside
  <2>4. chosen' \in {0, stack'}
    BY <1>b, <2>1, <2>2, <2>3 DEF BacktraceComes
  <2>5. stopped' \/ NeverStopped'
    BY <1>b, <1>c, <2>1, <2>2, <2>3 DEF Never, NeverStopped
  <2>6. BacktraceComes({0})'
    BY <1>1, <1>b, <2>1, BacktraceKept
  <2> QED
    BY <2>2, <2>4, <2>5, <2>6
<1>2. CASE Run
  <2>1. /\ late' = late /\ ~stopped /\ f2c' = f2c /\ chosen' = chosen
        /\ backtrace' = backtrace
        /\ \/ ~stopped' /\ c2f' = c2f
           \/ stopped' /\ c2f' = Append(c2f, StateOf(TRUE))
    BY <1>2, RunDoes
  <2>2. NeverStopped /\ Followed(f2c, ResumeReq, SuccessMsg)
    BY <1>b, <2>1
  <2>3. stopped' \/ NeverStopped'
    BY <1>c, <2>1, <2>2 DEF Never, NeverStopped
  <2>4. NoneIn(c2f', BacktraceAns)
    <3>1. StateOf(TRUE) \in FrameMsg /\ StateOf(TRUE) \notin BacktraceAns
      BY SentTypes, KindsDiffer DEF FrameMsg
    <3>2. NoneIn(c2f, BacktraceAns)
      BY <2>2 DEF NeverStopped
    <3>3. NoneIn(Append(c2f, StateOf(TRUE)), BacktraceAns)
      BY <1>a, <3>1, <3>2, AppendOrder
    <3> QED
      BY <2>1, <3>2, <3>3
  <2>5. LastIn(c2f', BacktraceAns, Of(stack'))
    BY <2>4 DEF LastIn, NoneIn
  <2>6. BacktraceComes({0})'
    BY <2>1, <2>2, <2>5 DEF BacktraceComes, NeverStopped, Of
  <2> QED
    BY <2>1, <2>2, <2>3, <2>6 DEF NeverStopped
<1>3. CASE SendUpdateSource
  <2>1. late' = late /\ stopped' = stopped /\ stopped /\ f2c' = f2c /\ chosen' = chosen
        /\ stack' = stack
    BY <1>3, SendUpdateSourceDoes
  <2>2. BacktraceComes({0})'
    BY <1>3, <1>b, <2>1, BacktraceKept
  <2> QED
    BY <1>b, <2>1, <2>2
<1>4. CASE HandleResume
  <2>1. /\ late' = late /\ f2c # <<>> /\ Head(f2c) \in ResumeReq /\ f2c' = Tail(f2c)
        /\ chosen' = chosen /\ stack' = stack /\ backtrace' = backtrace
        /\ (stopped' = stopped /\ c2f' = c2f) \/ (stopped /\ wait = 0)
    BY <1>4, HandleResumeDoes
  <2>2. Followed(f2c, ResumeReq, SuccessMsg)
    BY <1>b, <2>1
  <2>3. ~NoneIn(Tail(f2c), SuccessMsg) /\ Followed(f2c', ResumeReq, SuccessMsg)
    BY <1>a, <2>1, <2>2, TailOrder
  <2>4. ~NoneIn(f2c, SuccessMsg)
    BY <1>a, <2>1, <2>3, TailOrder
  <2>5. stopped' = stopped /\ c2f' = c2f
    BY <2>1, <2>4, NoUpdates
  <2>6. NoneIn(f2c, BacktraceReq) => NoneIn(f2c', BacktraceReq)
    BY <1>a, <2>1, TailOrder
  <2>7. stopped' \/ NeverStopped'
    BY <1>b, <1>c, <2>1, <2>5, <2>6 DEF Never, NeverStopped
  <2>8. BacktraceComes({0})'
    BY <1>4, <1>b, <2>1, <2>5, BacktraceKept
  <2> QED
    BY <1>b, <2>1, <2>3, <2>7, <2>8
<1>5. CASE HandleSuccessed
  <2>1. /\ late' = late /\ f2c # <<>> /\ Head(f2c) \in SuccessMsg /\ f2c' = Tail(f2c)
        /\ chosen' = chosen /\ stack' = stack /\ backtrace' = backtrace
        /\ stopped' = stopped /\ c2f' = c2f
    BY <1>5, HandleSuccessedDoes
  <2>2. Followed(f2c', ResumeReq, SuccessMsg)
    BY <1>a, <1>b, <2>1, TailOrder
  <2>3. stopped
    <3>1. ~NoneIn(f2c, SuccessMsg)
      BY <1>a, <2>1, TailOrder
    <3>2. wait # 0
      BY <3>1, NoUpdates
    <3> QED
      BY <3>2 DEF WaitInv, TypesInv, TypeOK
  <2>4. BacktraceComes({0})'
    BY <1>5, <1>b, <2>1, BacktraceKept
  <2> QED
    BY <1>b, <2>1, <2>2, <2>3, <2>4
<1>6. CASE HandleRequest /\ Head(f2c) \in BacktraceReq
  <2>1. /\ late' = late /\ f2c # <<>> /\ f2c' = Tail(f2c)
        /\ chosen' = chosen /\ stack' = stack /\ stopped' = stopped
    BY <1>6, HandleRequestDoes
  <2>2. ~NoneIn(f2c, BacktraceReq)
    BY <1>a, <1>6, <2>1, TailOrder
  <2>3. stopped /\ Followed(f2c', ResumeReq, SuccessMsg)
    BY <1>a, <1>b, <2>1, <2>2, TailOrder DEF NeverStopped
  <2>4. BacktraceComes({0})'
    BY <1>6, <1>b, <2>1, BacktraceKept
  <2> QED
    BY <1>b, <2>1, <2>3, <2>4
<1>7. CASE OnBacktrace
  <2>1. /\ late' = late /\ c2f # <<>> /\ Head(c2f) \in BacktraceAns /\ f2c' = f2c
        /\ chosen' = chosen /\ stack' = stack /\ stopped' = stopped
    BY <1>7, OnBacktraceDoes
  <2>2. ~NoneIn(c2f, BacktraceAns)
    BY <1>a, <2>1, TailOrder
  <2>3. BacktraceComes({0})'
    BY <1>7, <1>b, <2>1, BacktraceKept
  <2> QED
    BY <1>b, <2>1, <2>2, <2>3 DEF NeverStopped
<1>8. CASE OnChangedState
  <2>1. /\ late' = late /\ c2f # <<>> /\ Head(c2f) \in StateMsg
        /\ f2c' = f2c \/ f2c' = Append(f2c, TheBacktrace)
        /\ chosen' = chosen /\ stack' = stack /\ stopped' = stopped
    BY <1>8, OnChangedStateDoes
  <2>2. ~NoneIn(c2f, StateMsg)
    BY <1>a, <2>1, TailOrder
  <2>3. BacktraceComes({0})'
    BY <1>8, <1>b, <2>1, BacktraceKept
  <2>4. Followed(f2c', ResumeReq, SuccessMsg)
    <3>1. TheBacktrace \in ContextMsg /\ TheBacktrace \notin ResumeReq
      BY SentTypes, KindsDiffer DEF ContextMsg
    <3>2. Followed(Append(f2c, TheBacktrace), ResumeReq, SuccessMsg)
      BY <1>a, <1>b, <2>1, <3>1, AppendOrder
    <3> QED
      BY <1>b, <2>1, <3>2
  <2> QED
    BY <1>b, <2>1, <2>2, <2>3, <2>4 DEF NeverStopped
<1>9. CASE OnUpdateSource
  <2>1. /\ stopped' = stopped /\ stack' = stack
        /\ late' = (late /\ Head(c2f).isRefreshOnly) /\ Head(c2f) \in UpdateMsg
        /\ chosen' = (IF Head(c2f).isRefreshOnly THEN chosen ELSE 0)
    BY <1>9, OnUpdateSourceDoes
  <2>2. Head(c2f).isRefreshOnly \in BOOLEAN
    BY <2>1 DEF UpdateMsg
  <2>3. chosen' \in {0, stack'}
    BY <1>b, <2>1, <2>2
  <2> QED
    BY <1>9, <2>1, <2>3, UpdateFacts DEF BacktraceComes
<1> QED
  BY <1>1, <1>2, <1>3, <1>4, <1>5, <1>6, <1>7, <1>8, <1>9, AsideSteps

(* A request that names a stack frame, made before the user was late.        *)
Framed == {m \in VarsReq \cup EvalReq : ~m.late /\ m.frame # 0}
Elsewhere(s) == {m \in Framed : m.frame # s}

(* Such a request is of this stack, and the program is stopped until it has  *)
(* been handled.                                                             *)
InTime(f) ==
    /\ FollowedFor(f, ResumeReq, SuccessMsg, Framed)
    /\ stopped \/ NoneIn(f, Framed)
    /\ NoneIn(f, Elsewhere(stack))
FramesInv == InTime(f2c)

LEMMA FramesInit == Init => FramesInv
<1> SUFFICES ASSUME Init PROVE FramesInv
  OBVIOUS
<1>1. f2c = <<>>
  BY DEF Init
<1>2. (\A A : NoneIn(f2c, A)) /\ FollowedFor(f2c, ResumeReq, SuccessMsg, Framed)
  BY <1>1 DEF NoneIn, FollowedFor
<1> QED
  BY <1>2 DEF FramesInv, InTime

LEMMA InTimeAppend ==
    ASSUME NEW f \in Seq(ContextMsg), InTime(f), NEW m \in ContextMsg, m \notin Framed
    PROVE  InTime(Append(f, m))
<1>1. m \notin Elsewhere(stack)
  BY DEF Elsewhere
<1>2. FollowedFor(Append(f, m), ResumeReq, SuccessMsg, Framed)
  BY AppendAfter DEF InTime
<1>3. /\ NoneIn(f, Framed) => NoneIn(Append(f, m), Framed)
      /\ NoneIn(Append(f, m), Elsewhere(stack))
  BY <1>1, AppendOrder DEF InTime
<1> QED
  BY <1>2, <1>3 DEF InTime

LEMMA InTimeTail ==
    ASSUME NEW f \in Seq(ContextMsg), f # <<>>, InTime(f)
    PROVE  /\ InTime(Tail(f))
           /\ Head(f) \in ResumeReq /\ NoneIn(f, SuccessMsg) => NoneIn(Tail(f), Framed)
<1>1. FollowedFor(Tail(f), ResumeReq, SuccessMsg, Framed)
  BY TailAfter DEF InTime
<1>2. /\ NoneIn(f, Framed) => NoneIn(Tail(f), Framed)
      /\ NoneIn(Tail(f), Elsewhere(stack))
  BY TailOrder DEF InTime
<1>3. ASSUME Head(f) \in ResumeReq, NoneIn(f, SuccessMsg) PROVE NoneIn(Tail(f), Framed)
  <2>1. NoneIn(Tail(f), SuccessMsg)
    BY <1>3, TailOrder
  <2> QED
    BY <1>3, <2>1, TailAfter DEF InTime
<1> QED
  BY <1>1, <1>2, <1>3 DEF InTime

(* The requests u name the frame fr: none of them is in question, or the     *)
(* program stays stopped until they have been handled.                       *)
LEMMA InTimeAsked ==
    ASSUME InTime(f2c), TypesInv, NEW u \in Seq(ContextMsg), NoneIn(u, ResumeReq),
           \/ NoneIn(u, Framed)
           \/ /\ stopped /\ Followed(f2c, ResumeReq, SuccessMsg)
              /\ NoneIn(u, Elsewhere(stack))
    PROVE  InTime(f2c \o u)
<1>a. f2c \in Seq(ContextMsg)
  BY DEF TypesInv
<1>b. /\ FollowedFor(f2c, ResumeReq, SuccessMsg, Framed)
      /\ stopped \/ NoneIn(f2c, Framed)
      /\ NoneIn(f2c, Elsewhere(stack))
  BY DEF InTime
<1>1. NoneIn(u, Elsewhere(stack))
  BY DEF NoneIn, Elsewhere
<1>2. NoneIn(f2c \o u, Elsewhere(stack))
  BY <1>a, <1>b, <1>1, ConcatOrder
<1>3. CASE NoneIn(u, Framed)
  <2>1. FollowedFor(f2c \o u, ResumeReq, SuccessMsg, Framed)
    BY <1>a, <1>b, <1>3, ConcatOrder
  <2>2. NoneIn(f2c, Framed) => NoneIn(f2c \o u, Framed)
    BY <1>a, <1>3, ConcatOrder
  <2> QED
    BY <1>b, <1>2, <2>1, <2>2 DEF InTime
<1>4. CASE stopped /\ Followed(f2c, ResumeReq, SuccessMsg)
  <2>1. FollowedFor(f2c \o u, ResumeReq, SuccessMsg, Framed)
    BY <1>a, <1>4, ConcatOrder
  <2> QED
    BY <1>2, <1>4, <2>1 DEF InTime
<1> QED
  BY <1>3, <1>4

LEMMA AskedInTime ==
    ASSUME InTime(f2c), TypesInv, LateInv, NEW ws, NEW n, NEW fr, NEW u, NEW l,
           Asks(u, ws, n, fr, BacktraceReq) \/ Asks(u, ws, n, fr, {}),
           late' = l, ~l /\ fr # 0 => ~late /\ stopped /\ fr = stack
    PROVE  u \in Seq(ContextMsg) /\ InTime(f2c \o u)
<1>1. /\ u \in Seq(ContextMsg)
      /\ \A i \in DOMAIN u : \/ u[i] \in VarsReq /\ u[i].frame = fr /\ u[i].late = l
                             \/ u[i] \in BacktraceReq
  BY DEF Asks
<1>2. NoneIn(u, ResumeReq)
  BY <1>1, KindsDiffer DEF NoneIn
<1>3. \A m : m \in BacktraceReq => m \notin Framed
  BY KindsDiffer DEF Framed
<1>4. CASE l \/ fr = 0
  <2>1. NoneIn(u, Framed)
    BY <1>1, <1>3, <1>4 DEF NoneIn, Framed
  <2> QED
    BY <1>1, <1>2, <2>1, InTimeAsked
<1>5. CASE ~l /\ fr # 0
  <2>1. NoneIn(u, Elsewhere(stack))
    BY <1>1, <1>3, <1>5 DEF NoneIn, Elsewhere
  <2>2. stopped /\ Followed(f2c, ResumeReq, SuccessMsg)
    BY <1>5 DEF LateInv
  <2> QED
    BY <1>1, <1>2, <2>1, <2>2, InTimeAsked
<1> QED
  BY <1>4, <1>5

LEMMA FramesStep ==
    ASSUME TypesInv, WaitInv, StateInv, LateInv, FramesInv, [Next]_vars
    PROVE  FramesInv'
<1> USE DEF program, loop, trees, frame
<1>a. f2c \in Seq(ContextMsg) /\ InTime(f2c) /\ stopped \in BOOLEAN
  BY DEF TypesInv, TypeOK, FramesInv
<1>b. ASSUME stopped' = stopped, stack' = stack, InTime(f2c') PROVE FramesInv'
  BY <1>b DEF FramesInv, InTime
<1>c. \A m : /\ m \in FieldsReq => m \notin Framed
             /\ m \in BacktraceReq => m \notin Framed
             /\ m \in ResumeReq => m \notin Framed
             /\ m \in ForceReq => m \notin Framed
             /\ m \in SuccessMsg => m \notin Framed
  BY KindsDiffer DEF Framed
<1>d. /\ TheForce \in ContextMsg /\ TheForce \notin Framed
      /\ TheBacktrace \in ContextMsg /\ TheBacktrace \notin Framed
      /\ TheResume \in ContextMsg /\ TheResume \notin Framed
      /\ TheSuccess \in ContextMsg /\ TheSuccess \notin Framed
      /\ \A m \in FieldsReq : m \in ContextMsg /\ m \notin Framed
  BY <1>c, SentTypes DEF ContextMsg
<1>e. \A m \in ContextMsg : m \notin Framed /\ f2c' = Append(f2c, m) => InTime(f2c')
  BY <1>a, InTimeAppend
<1>f. f2c # <<>> /\ f2c' = Tail(f2c) => InTime(f2c')
  BY <1>a, InTimeTail
<1>1. CASE Run
  <2>1. ~stopped /\ f2c' = f2c
    BY <1>1, RunDoes
  <2>2. NoneIn(f2c, Framed) /\ FollowedFor(f2c, ResumeReq, SuccessMsg, Framed)
    BY <1>a, <2>1 DEF InTime
  <2>3. NoneIn(f2c, Elsewhere(stack'))
    BY <2>2 DEF NoneIn, Elsewhere
  <2> QED
    BY <2>1, <2>2, <2>3 DEF FramesInv, InTime, Elsewhere
<1>2. CASE SendUpdateSource
  BY <1>a, <1>b, <1>2, SendUpdateSourceDoes
<1>3. CASE HandleResume
  <2>1. /\ f2c # <<>> /\ Head(f2c) \in ResumeReq /\ f2c' = Tail(f2c) /\ stack' = stack
        /\ stopped' = stopped \/ (stopped /\ wait = 0)
    BY <1>3, HandleResumeDoes
  <2>2. InTime(f2c')
    BY <1>f, <2>1
  <2>3. CASE stopped' = stopped
    BY <1>b, <2>1, <2>2, <2>3
  <2>4. CASE wait = 0
    <3>1. NoneIn(f2c', Framed)
      BY <1>a, <2>1, <2>4, NoUpdates, InTimeTail
    <3>2. NoneIn(f2c', Elsewhere(stack')) /\ FollowedFor(f2c', ResumeReq, SuccessMsg, Framed)
      BY <2>1, <2>2 DEF InTime
    <3> QED
      BY <3>1, <3>2 DEF FramesInv, InTime
  <2> QED
    BY <2>1, <2>3, <2>4
<1>4. CASE HandleForceUpdateSource
  BY <1>b, <1>f, <1>4, HandleForceDoes
<1>5. CASE HandleSuccessed
  BY <1>b, <1>f, <1>5, HandleSuccessedDoes
<1>6. CASE HandleRequest
  BY <1>b, <1>f, <1>6, HandleRequestDoes
<1>7. CASE HandleEval
  BY <1>b, <1>f, <1>7, HandleEvalDoes
<1>8. CASE OnVars
  <2>1. f2c' = f2c \/ \E m \in FieldsReq : f2c' = Append(f2c, m)
    BY <1>8, OnVarsDoes
  <2>2. InTime(f2c')
    BY <1>a, <1>d, <1>e, <2>1
  <2> QED
    BY <1>b, <1>8, <2>2, OnVarsDoes
<1>9. CASE OnFields
  BY <1>a, <1>b, <1>9, OnFieldsDoes
<1>10. CASE OnBacktrace
  BY <1>a, <1>b, <1>10, OnBacktraceDoes
<1>11. CASE OnValues
  BY <1>a, <1>b, <1>d, <1>e, <1>11, OnValuesDoes
<1>12. CASE OnChangedState
  BY <1>a, <1>b, <1>d, <1>e, <1>12, OnChangedStateDoes
<1>13. CASE OnUpdateSource
  <2>1. /\ stopped' = stopped /\ stack' = stack
        /\ late' = (late /\ Head(c2f).isRefreshOnly) /\ Head(c2f) \in UpdateMsg
        /\ chosen' = (IF Head(c2f).isRefreshOnly THEN chosen ELSE 0)
    BY <1>13, OnUpdateSourceDoes
  <2>2. Head(c2f).isRefreshOnly \in BOOLEAN
    BY <2>1 DEF UpdateMsg
  <2>3. stopped
    BY <1>13, UpdateFacts
  <2>4. ~late' /\ chosen' # 0 => ~late /\ stopped /\ chosen' = stack
    BY <2>1, <2>2, <2>3 DEF LateInv
  <2>5. PICK u : /\ Asks(u, Refreshed, count + 1, chosen', BacktraceReq)
                 /\ f2c' = Append(f2c \o u, TheSuccess)
                 /\ f2c \o u \in Seq(ContextMsg)
    BY <1>13, OnUpdateSourceDoes
  <2>6. InTime(f2c \o u)
    BY <1>a, <2>4, <2>5, AskedInTime
  <2>7. InTime(f2c')
    BY <1>d, <2>5, <2>6, InTimeAppend
  <2> QED
    BY <1>b, <2>1, <2>7
<1>14. CASE Resume
  BY <1>b, <1>d, <1>e, <1>14, ResumeDoes
<1>15. CASE Eval
  <2> DEFINE m == EvalOf(chosen, late)
             u == <<m>>
  <2>1. /\ f2c' = Append(f2c, m) /\ m \in EvalReq
        /\ stopped' = stopped /\ stack' = stack
    BY <1>15, EvalDoes
  <2>2. m.frame = chosen /\ m.late = late
    BY SentTypes DEF TypesInv, TypeOK
  <2>3. m \in ContextMsg /\ m \notin ResumeReq
    BY <2>1, KindsDiffer DEF ContextMsg
  <2> HIDE DEF m
  <2>4. u \in Seq(ContextMsg) /\ \A A : NoneIn(u, A) <=> m \notin A
    BY <2>3, Single
  <2>5. f2c' = f2c \o u
    BY <1>a, <2>1, <2>3, AppendIsConcat
  <2>6. \/ m \notin Framed
        \/ /\ stopped /\ Followed(f2c, ResumeReq, SuccessMsg)
           /\ m \notin Elsewhere(stack)
    BY <2>2 DEF Framed, Elsewhere, LateInv, NeverStopped
  <2> HIDE DEF u
  <2>7. InTime(f2c \o u)
    BY <1>a, <2>3, <2>4, <2>6, InTimeAsked
  <2> QED
    BY <1>b, <2>1, <2>5, <2>7
<1>16. CASE FocusBacktraceLine
  <2>1. /\ stopped' = stopped /\ stack' = stack /\ chosen' = backtrace /\ backtrace # 0
        /\ late' = (late \/ Awaited("BACKTRACE"))
    BY <1>16, FocusDoes
  <2>2. ~late' /\ chosen' # 0 => ~late /\ stopped /\ chosen' = stack
    <3> SUFFICES ASSUME ~late' PROVE ~late /\ stopped /\ backtrace = stack
      BY <2>1
    <3>1. ~late /\ ~Awaited("BACKTRACE")
      BY <2>1
    <3>2. NoneIn(c2f, BacktraceAns) /\ NoneIn(f2c, BacktraceReq)
      <4>1. /\ \A i \in DOMAIN c2f : c2f[i].type # "BACKTRACE"
            /\ \A i \in DOMAIN f2c : f2c[i].type # "BACKTRACE"
        BY <3>1 DEF Awaited, Range
      <4> QED
        BY <4>1, KindTypes DEF NoneIn
    <3> QED
      BY <2>1, <3>1, <3>2 DEF LateInv, BacktraceComes, NeverStopped
  <2>3. PICK u : Asks(u, Refreshed, count + 1, chosen', {}) /\ f2c' = f2c \o u
    BY <1>16, FocusDoes
  <2>4. InTime(f2c \o u)
    BY <1>a, <2>2, <2>3, AskedInTime
  <2> QED
    BY <1>b, <2>1, <2>3, <2>4
<1>17. CASE EditLabel
  BY <1>a, <1>b, <1>17, EditLabelDoes
<1>18. ASSUME NEW w \in Watches, Expand(w) PROVE FramesInv'
  <2>1. \E m \in FieldsReq : f2c' = Append(f2c, m)
    BY <1>18, ExpandDoes DEF FieldsAsked
  <2>2. InTime(f2c')
    BY <1>d, <1>e, <2>1
  <2> QED
    BY <1>b, <1>18, <2>2, ExpandDoes
<1>19. ASSUME NEW w \in Watches, Hide(w) PROVE FramesInv'
  BY <1>a, <1>b, <1>19, HideDoes
<1>20. ASSUME NEW w \in Watches, Show(w) PROVE FramesInv'
  <2>1. stopped' = stopped /\ stack' = stack /\ late' = late /\ chosen' = chosen
    BY <1>20, ShowDoes
  <2>2. CASE f2c' = f2c \/ \E m \in FieldsReq : f2c' = Append(f2c, m)
    <3>1. InTime(f2c')
      BY <1>a, <1>d, <1>e, <2>2
    <3> QED
      BY <1>b, <2>1, <3>1
  <2>3. ASSUME NEW u, Asks(u, {w}, count, chosen, {}), f2c' = f2c \o u PROVE FramesInv'
    <3>1. ~late /\ chosen # 0 => ~late /\ stopped /\ chosen = stack
      BY DEF LateInv, NeverStopped
    <3>2. InTime(f2c \o u)
      BY <1>a, <2>1, <2>3, <3>1, AskedInTime
    <3> QED
      BY <1>b, <2>1, <2>3, <3>2
  <2> QED
    BY <1>20, <2>2, <2>3, ShowDoes DEF FieldsAsked
<1>21. CASE UNCHANGED vars
  BY <1>a, <1>b, <1>21 DEF vars
<1> QED
  BY <1>1, <1>2, <1>3, <1>4, <1>5, <1>6, <1>7, <1>8, <1>9, <1>10, <1>11, <1>12,
     <1>13, <1>14, <1>15, <1>16, <1>17, <1>18, <1>19, <1>20, <1>21
  DEF Next, Context, Frame, User

LEMMA BacktraceInit == Init => BacktraceInv
<1> SUFFICES ASSUME Init PROVE BacktraceInv
  OBVIOUS
<1>1. ~stopped
  BY DEF Init
<1> QED
  BY <1>1 DEF BacktraceInv, Shown, Told

LEMMA InTimeMeans ==
    ASSUME TypesInv, FramesInv
    PROVE  FramesAreOfTheStop
<1> SUFFICES ASSUME NEW i \in DOMAIN f2c, f2c[i].type \in {"VARS", "EVAL"},
                    ~f2c[i].late, f2c[i].frame # 0
             PROVE  f2c[i].frame = stack
  BY DEF FramesAreOfTheStop
<1>1. f2c[i] \in ContextMsg
  BY DEF TypesInv
<1>2. f2c[i] \in Framed
  BY <1>1, ContextKinds DEF Framed
<1>3. f2c[i] \notin Elsewhere(stack)
  BY DEF FramesInv, InTime, NoneIn
<1> QED
  BY <1>2, <1>3 DEF Elsewhere

StopInv == TypesInv /\ WaitInv /\ StateInv /\ LateInv /\ FramesInv

(* A request that names a stack frame is handled in the stop in which that   *)
(* frame was chosen, unless the user was late: so the context never looks up *)
(* the variables of a frame of another stack (context.cpp, HandleCommand's   *)
(* requests with a LuaStackFrame; interactiveview.cpp:327).                  *)
THEOREM FramesOfTheStop == Spec => []FramesAreOfTheStop
<1>1. Init => StopInv
  BY TypesInit, NoCounts, StateInit, LateInit, FramesInit DEF StopInv
<1>2. StopInv /\ [Next]_vars => StopInv'
  BY TypesStep, WaitStep, StateStep, LateStep, FramesStep DEF StopInv
<1>3. StopInv => FramesAreOfTheStop
  BY InTimeMeans DEF StopInv
<1> QED
  BY <1>1, <1>2, <1>3, PTL DEF Spec

-----------------------------------------------------------------------------
(* The steps, as one watch sees them *)

VarsMsg == VarsReq \cup VarsAns
FieldsMsg == FieldsReq \cup FieldsAns
Traffic == VarsMsg \cup FieldsMsg
MsgsOf(w) == {m \in Traffic : m.watch = w}

RootSame(w) ==
    /\ root'[w].req = root[w].req /\ root'[w].upd = root[w].upd
    /\ root'[w].data = root[w].data /\ root'[w].stack = root[w].stack
ItemSame(w) ==
    /\ item'[w].id = item[w].id /\ item'[w].upd = item[w].upd
    /\ item'[w].of = item[w].of /\ item'[w].fields = item[w].fields
CountSame(w) ==
    /\ count' = count /\ chosen' = chosen
    /\ ~early'[w] => ~early[w]
Same(w) == RootSame(w) /\ ItemSame(w) /\ CountSame(w)

(* Nothing happens to it or to what it asked.                                *)
Untouched(w) ==
    /\ Same(w)
    /\ Passes(FrameMsg, MsgsOf(w), c2f, c2f')
    /\ \/ Passes(ContextMsg, MsgsOf(w), f2c, f2c')
       \/ \E u \in Seq(ContextMsg) : NoneIn(u, MsgsOf(w)) /\ f2c' = f2c \o u

(* A request of it is answered.                                              *)
Relayed(w) ==
    /\ Same(w)
    /\ f2c # <<>> /\ f2c' = Tail(f2c) /\ Head(f2c).watch = w
    /\ \/ Head(f2c) \in VarsReq /\ c2f' = Append(c2f, VarsAnswer(Head(f2c)))
       \/ Head(f2c) \in FieldsReq /\ c2f' = Append(c2f, FieldsAnswer(Head(f2c)))

(* An answer comes and is not taken.                                         *)
Dropped(w) ==
    /\ Same(w)
    /\ c2f # <<>> /\ c2f' = Tail(c2f) /\ Head(c2f).watch = w /\ f2c' = f2c
    /\ LET m == Head(c2f)
       IN  \/ m \in VarsAns /\ ~(m.count = count /\ root[w].upd # count)
           \/ m \in FieldsAns /\ ~(m.count = count /\ item[w].id = m.id
                                                    /\ item[w].upd # count)

(* The answer for its root is taken.                                         *)
RootTaken(w) ==
    /\ CountSame(w)
    /\ c2f # <<>> /\ c2f' = Tail(c2f)
    /\ LET m == Head(c2f)
       IN  /\ m \in VarsAns /\ m.watch = w /\ m.count = count
           /\ root[w].upd # count
           /\ root'[w].req = count /\ root'[w].upd = count
           /\ root'[w].data = m.data /\ root'[w].stack = m.frame
           /\ item'[w].upd = -1
           /\ \/ item'[w].id = 0 /\ f2c' = f2c
              \/ /\ item'[w].of = m.data
                 /\ \E q \in FieldsReq : /\ q.watch = w /\ q.count = count
                                         /\ q.id = item'[w].id /\ q.of = m.data
                                         /\ f2c' = Append(f2c, q)

(* The answer for its item is taken.                                         *)
ItemTaken(w) ==
    /\ CountSame(w) /\ RootSame(w)
    /\ c2f # <<>> /\ c2f' = Tail(c2f) /\ f2c' = f2c
    /\ LET m == Head(c2f)
       IN  /\ m \in FieldsAns /\ m.watch = w /\ m.count = count
           /\ item[w].id = m.id /\ item[w].upd # count
           /\ item'[w].id = item[w].id /\ item'[w].upd = count
           /\ item'[w].of = item[w].of /\ item'[w].fields = <<m.of, m.data>>

(* It asks for its fields, and for its root.                                 *)
AsksFields(w) ==
    /\ Same(w)
    /\ ~early'[w] => root[w].req # count \/ root[w].upd = count
    /\ c2f' = c2f
    /\ \E q \in FieldsReq : /\ q.watch = w /\ q.count = count
                            /\ q.id = item[w].id /\ q.of = item[w].of
                            /\ f2c' = Append(f2c, q)
AsksRoot(w) ==
    /\ CountSame(w) /\ ItemSame(w)
    /\ root'[w].req = count /\ root'[w].upd = root[w].upd
    /\ root'[w].data = root[w].data /\ root'[w].stack = root[w].stack
    /\ c2f' = c2f
    /\ \E u : Asks(u, {w}, count, chosen, {}) /\ f2c' = f2c \o u

(* The count goes up, and some ask for their roots.                          *)
Ticked(w) ==
    /\ count' = count + 1 /\ ItemSame(w)
    /\ root'[w].upd = root[w].upd
    /\ root'[w].data = root[w].data /\ root'[w].stack = root[w].stack
    /\ Passes(FrameMsg, Traffic, c2f, c2f')
    /\ \E ws, u : /\ Asks(u, ws, count + 1, chosen', BacktraceReq)
                  /\ \/ f2c' = f2c \o u
                     \/ /\ f2c' = Append(f2c \o u, TheSuccess)
                        /\ f2c \o u \in Seq(ContextMsg)
                  /\ root'[w].req = IF w \in ws THEN count + 1 ELSE root[w].req

LEMMA TrafficKinds ==
    /\ \A m : m \in EvalReq \/ m \in BacktraceReq \/ m \in ResumeReq \/ m \in ForceReq
              \/ m \in SuccessMsg \/ m \in BacktraceAns \/ m \in ValuesAns
              \/ m \in StateMsg \/ m \in UpdateMsg => m \notin Traffic
    /\ \A w : MsgsOf(w) \in SUBSET Traffic
    /\ \A m \in Traffic : m.type \in {"VARS", "FIELDS"}
<1>1. \A m \in Traffic : m.type \in {"VARS", "FIELDS"}
  BY KindTypes DEF Traffic, VarsMsg, FieldsMsg
<1>2. ASSUME NEW m,
             \/ m \in EvalReq \/ m \in BacktraceReq \/ m \in ResumeReq \/ m \in ForceReq
             \/ m \in SuccessMsg \/ m \in BacktraceAns \/ m \in ValuesAns
             \/ m \in StateMsg \/ m \in UpdateMsg
      PROVE  m.type \notin {"VARS", "FIELDS"}
  BY <1>2, KindTypes
<1> QED
  BY <1>1, <1>2 DEF MsgsOf

LEMMA TickedByUpdate ==
    ASSUME TypesInv, OnUpdateSource, NEW w \in Watches
    PROVE  Ticked(w)
<1>1. /\ c2f # <<>> /\ Head(c2f) \in UpdateMsg /\ c2f' = Tail(c2f)
      /\ count' = count + 1 /\ RootsAsked(Refreshed, count + 1) /\ item' = item
  BY OnUpdateSourceDoes
<1>2. Passes(FrameMsg, Traffic, c2f, c2f')
  BY <1>1, TrafficKinds DEF Passes
<1>3. PICK u : /\ Asks(u, Refreshed, count + 1, chosen', BacktraceReq)
               /\ f2c' = Append(f2c \o u, TheSuccess)
               /\ f2c \o u \in Seq(ContextMsg)
  BY OnUpdateSourceDoes
<1> QED
  BY <1>1, <1>2, <1>3 DEF Ticked, RootsAsked, ItemSame

LEMMA TickedByUser ==
    ASSUME TypesInv, FocusBacktraceLine \/ EditLabel, NEW w \in Watches
    PROVE  Ticked(w)
<1>a. root \in [Watches -> RootRec] /\ f2c \in Seq(ContextMsg)
  BY DEF TypesInv, TypeOK, RootRec
<1>1. CASE FocusBacktraceLine
  <2>1. PICK u : Asks(u, Refreshed, count + 1, chosen', {}) /\ f2c' = f2c \o u
    BY <1>1, FocusDoes
  <2>2. Asks(u, Refreshed, count + 1, chosen', BacktraceReq)
    BY <2>1 DEF Asks
  <2>3. Passes(FrameMsg, Traffic, c2f, c2f')
    BY <1>1, FocusDoes DEF Passes
  <2>4. RootsAsked(Refreshed, count + 1) /\ count' = count + 1 /\ item' = item
    BY <1>1, FocusDoes
  <2> QED
    BY <2>1, <2>2, <2>3, <2>4 DEF Ticked, RootsAsked, ItemSame
<1>2. CASE EditLabel
  <2>1. /\ count' = count + 1 /\ c2f' = c2f /\ f2c' = f2c
        /\ root' = root /\ item' = item
    BY <1>2, EditLabelDoes DEF trees
  <2>2. Passes(FrameMsg, Traffic, c2f, c2f')
    BY <2>1 DEF Passes
  <2> DEFINE u == <<>>
             ws == {}
  <2>3. Asks(u, ws, count + 1, chosen', BacktraceReq)
    BY DEF Asks
  <2>4. f2c' = f2c \o u
    BY <1>a, <2>1, ConcatEmptySeq
  <2>5. root'[w].req = IF w \in ws THEN count + 1 ELSE root[w].req
    BY <2>1
  <2> HIDE DEF u, ws
  <2> QED
    BY <2>1, <2>2, <2>3, <2>4, <2>5 DEF Ticked, ItemSame
<1> QED
  BY <1>1, <1>2

LEMMA WatchSteps ==
    ASSUME TypesInv, [Next]_vars, NEW w \in Watches
    PROVE  \/ Untouched(w) \/ Relayed(w) \/ Dropped(w) \/ RootTaken(w) \/ ItemTaken(w)
           \/ AsksFields(w) \/ AsksRoot(w) \/ Ticked(w)
<1> USE DEF program, loop, trees, frame
<1>a. /\ c2f \in Seq(FrameMsg) /\ f2c \in Seq(ContextMsg)
      /\ \A v \in Watches : early[v] \in BOOLEAN
      /\ \A v \in Watches : item[v] # NoItem => item[v].id # 0
  BY DEF TypesInv, TypeOK
<1>b. ASSUME UNCHANGED <<root, item, early, count, chosen>> PROVE Same(w)
  BY <1>b DEF Same, RootSame, ItemSame, CountSame
<1>c. /\ Traffic \in SUBSET Traffic /\ MsgsOf(w) \in SUBSET Traffic
      /\ \A m : m \notin Traffic => m \notin MsgsOf(w)
      /\ \A m \in Traffic : m.watch # w => m \notin MsgsOf(w)
  BY DEF MsgsOf
<1>d. /\ Passes(FrameMsg, MsgsOf(w), c2f, c2f) /\ Passes(ContextMsg, MsgsOf(w), f2c, f2c)
      /\ \A m \in FrameMsg : m \notin MsgsOf(w)
             => Passes(FrameMsg, MsgsOf(w), c2f, Append(c2f, m))
      /\ \A m \in ContextMsg : m \notin MsgsOf(w)
             => Passes(ContextMsg, MsgsOf(w), f2c, Append(f2c, m))
      /\ c2f # <<>> /\ Head(c2f) \notin MsgsOf(w)
             => Passes(FrameMsg, MsgsOf(w), c2f, Tail(c2f))
      /\ f2c # <<>> /\ Head(f2c) \notin MsgsOf(w)
             => Passes(ContextMsg, MsgsOf(w), f2c, Tail(f2c))
  BY DEF Passes
<1>e. /\ \A m \in VarsReq : m \in Traffic /\ m \in ContextMsg
      /\ \A m \in FieldsReq : m \in Traffic /\ m \in ContextMsg
      /\ \A m \in VarsAns : m \in Traffic /\ m \in FrameMsg
      /\ \A m \in FieldsAns : m \in Traffic /\ m \in FrameMsg
  BY DEF Traffic, VarsMsg, FieldsMsg, ContextMsg, FrameMsg
<1>f. /\ \A b \in BOOLEAN : /\ StateOf(b) \in FrameMsg /\ StateOf(b) \notin MsgsOf(w)
                            /\ UpdateOf(b) \in FrameMsg /\ UpdateOf(b) \notin MsgsOf(w)
                            /\ ValuesOf(b) \in FrameMsg /\ ValuesOf(b) \notin MsgsOf(w)
      /\ TheBacktrace \in ContextMsg /\ TheBacktrace \notin MsgsOf(w)
      /\ TheResume \in ContextMsg /\ TheResume \notin MsgsOf(w)
      /\ TheForce \in ContextMsg /\ TheForce \notin MsgsOf(w)
  BY <1>c, SentTypes, TrafficKinds DEF FrameMsg, ContextMsg
<1>1. CASE Run
  <2>1. /\ f2c' = f2c /\ UNCHANGED <<root, item, early, count, chosen>>
        /\ c2f' = c2f \/ c2f' = Append(c2f, StateOf(TRUE))
    BY <1>1, RunDoes
  <2> QED
    BY <1>b, <1>d, <1>f, <2>1 DEF Untouched
<1>2. CASE SendUpdateSource
  <2>1. /\ f2c' = f2c /\ UNCHANGED <<root, item, early, count, chosen>>
        /\ c2f' = Append(c2f, UpdateOf(prevBreak)) /\ prevBreak \in BOOLEAN
    BY <1>2, SendUpdateSourceDoes
  <2> QED
    BY <1>b, <1>d, <1>f, <2>1 DEF Untouched
<1>3. CASE HandleResume
  <2>1. /\ f2c # <<>> /\ Head(f2c) \in ResumeReq /\ f2c' = Tail(f2c)
        /\ UNCHANGED <<root, item, early, count, chosen>>
        /\ c2f' = c2f \/ c2f' = Append(c2f, StateOf(FALSE))
    BY <1>3, HandleResumeDoes
  <2>2. Passes(ContextMsg, MsgsOf(w), f2c, f2c')
    BY <1>c, <1>d, <2>1, TrafficKinds
  <2> QED
    BY <1>b, <1>d, <1>f, <2>1, <2>2 DEF Untouched
<1>4. CASE HandleForceUpdateSource
  <2>1. /\ f2c # <<>> /\ Head(f2c) \in ForceReq /\ f2c' = Tail(f2c) /\ c2f' = c2f
        /\ UNCHANGED <<root, item, early, count, chosen>>
    BY <1>4, HandleForceDoes
  <2>2. Passes(ContextMsg, MsgsOf(w), f2c, f2c')
    BY <1>c, <1>d, <2>1, TrafficKinds
  <2> QED
    BY <1>b, <1>d, <2>1, <2>2 DEF Untouched
<1>5. CASE HandleSuccessed
  <2>1. /\ f2c # <<>> /\ Head(f2c) \in SuccessMsg /\ f2c' = Tail(f2c) /\ c2f' = c2f
        /\ UNCHANGED <<root, item, early, count, chosen>>
    BY <1>5, HandleSuccessedDoes
  <2>2. Passes(ContextMsg, MsgsOf(w), f2c, f2c')
    BY <1>c, <1>d, <2>1, TrafficKinds
  <2> QED
    BY <1>b, <1>d, <2>1, <2>2 DEF Untouched
<1>6. CASE HandleRequest
  <2> DEFINE m == Head(f2c)
  <2>1. /\ f2c # <<>> /\ f2c' = Tail(f2c)
        /\ UNCHANGED <<root, item, early, count, chosen>>
        /\ \/ m \in VarsReq /\ c2f' = Append(c2f, VarsAnswer(m))
           \/ m \in FieldsReq /\ c2f' = Append(c2f, FieldsAnswer(m))
           \/ m \in BacktraceReq /\ c2f' = Append(c2f, BacktraceOf(stack))
    BY <1>6, HandleRequestDoes
  <2>2. CASE m \in VarsReq /\ c2f' = Append(c2f, VarsAnswer(m))
    <3>1. VarsAnswer(m) \in VarsAns /\ VarsAnswer(m).watch = m.watch
      BY <2>2, AnswerTypes DEF TypesInv
    <3>2. CASE m.watch = w
      BY <1>b, <2>1, <2>2, <3>2 DEF Relayed
    <3>3. CASE m.watch # w
      BY <1>b, <1>c, <1>d, <1>e, <2>1, <2>2, <3>1, <3>3 DEF Untouched
    <3> QED
      BY <3>2, <3>3
  <2>3. CASE m \in FieldsReq /\ c2f' = Append(c2f, FieldsAnswer(m))
    <3>1. FieldsAnswer(m) \in FieldsAns /\ FieldsAnswer(m).watch = m.watch
      BY <2>3, AnswerTypes DEF TypesInv
    <3>2. CASE m.watch = w
      BY <1>b, <2>1, <2>3, <3>2 DEF Relayed
    <3>3. CASE m.watch # w
      BY <1>b, <1>c, <1>d, <1>e, <2>1, <2>3, <3>1, <3>3 DEF Untouched
    <3> QED
      BY <3>2, <3>3
  <2>4. CASE m \in BacktraceReq /\ c2f' = Append(c2f, BacktraceOf(stack))
    <3>1. BacktraceOf(stack) \in BacktraceAns /\ BacktraceOf(stack) \in FrameMsg
      BY SentTypes DEF TypesInv, TypeOK, FrameMsg
    <3>2. m \notin MsgsOf(w) /\ BacktraceOf(stack) \notin MsgsOf(w)
      BY <1>c, <2>4, <3>1, TrafficKinds
    <3> QED
      BY <1>b, <1>d, <2>1, <2>4, <3>1, <3>2 DEF Untouched
  <2> QED
    BY <2>1, <2>2, <2>3, <2>4
<1>7. CASE HandleEval
  <2>1. /\ f2c # <<>> /\ Head(f2c) \in EvalReq /\ f2c' = Tail(f2c)
        /\ UNCHANGED <<root, item, early, count, chosen>>
        /\ \E s \in BOOLEAN : c2f' = Append(c2f, ValuesOf(s))
    BY <1>7, HandleEvalDoes
  <2>2. Passes(ContextMsg, MsgsOf(w), f2c, f2c')
    BY <1>c, <1>d, <2>1, TrafficKinds
  <2>3. Passes(FrameMsg, MsgsOf(w), c2f, c2f')
    BY <1>d, <1>f, <2>1
  <2> QED
    BY <1>b, <2>1, <2>2, <2>3 DEF Untouched
<1>8. CASE OnVars
  <2> DEFINE m == Head(c2f)
             v == m.watch
  <2>1. /\ c2f # <<>> /\ m \in VarsAns /\ v \in Watches /\ c2f' = Tail(c2f)
        /\ UNCHANGED <<early, count, chosen>>
    BY <1>8, OnVarsDoes
  <2>2. CASE ~(m.count = count /\ root[v].upd # count)
    <3>1. UNCHANGED <<root, item, early, count, chosen, f2c>>
      BY <1>8, <2>2, OnVarsDoes
    <3>2. CASE v = w
      BY <1>b, <2>1, <2>2, <3>1, <3>2 DEF Dropped
    <3>3. CASE v # w
      BY <1>b, <1>c, <1>d, <1>e, <2>1, <3>1, <3>3 DEF Untouched
    <3> QED
      BY <3>2, <3>3
  <2>3. CASE m.count = count /\ root[v].upd # count
    <3> DEFINE r == [req |-> count, upd |-> count, data |-> m.data, stack |-> m.frame]
               q == Fields(v, count, NewItem(m))
    <3>1. /\ root' = [root EXCEPT ![v] = r]
          /\ \/ /\ item' = [item EXCEPT ![v] = NewItem(m)]
                /\ f2c' = Append(f2c, q) /\ q \in FieldsReq
             \/ item' = [item EXCEPT ![v] = NoItem] /\ f2c' = f2c
      BY <1>8, <2>3, OnVarsDoes
    <3>2. /\ r.req = count /\ r.upd = count /\ r.data = m.data /\ r.stack = m.frame
      OBVIOUS
    <3>3. /\ NewItem(m).upd = -1 /\ NewItem(m).of = m.data /\ NewItem(m).id # 0
          /\ NoItem.id = 0 /\ NoItem.upd = -1
      BY <2>1, ItemFacts
    <3>4. q.watch = v /\ q.count = count /\ q.id = NewItem(m).id /\ q.of = NewItem(m).of
      <4>1. NewItem(m) \in ItemRec
        BY <2>1, ItemFacts
      <4>2. NewItem(m).id \in Nat \ {0} /\ NewItem(m).of \in Nat /\ count \in Nat
        BY <3>3, <4>1 DEF ItemRec, TypesInv, TypeOK
      <4> QED
        BY <2>1, <4>2, FieldsFacts
    <3>5. v \in DOMAIN root /\ v \in DOMAIN item /\ w \in DOMAIN root /\ w \in DOMAIN item
      BY <2>1 DEF TypesInv, TypeOK
    <3>6. CountSame(w)
      BY <2>1 DEF CountSame
    <3> HIDE DEF r, q, m
    <3>7. CASE v = w
      <4>1. root'[w] = r
        BY <3>1, <3>5, <3>7
      <4>2. CASE item' = [item EXCEPT ![v] = NewItem(m)] /\ f2c' = Append(f2c, q)
                 /\ q \in FieldsReq
        <5>1. item'[w] = NewItem(m)
          BY <3>5, <3>7, <4>2
        <5> QED
          BY <2>1, <2>3, <3>2, <3>3, <3>4, <3>6, <3>7, <4>1, <4>2, <5>1 DEF RootTaken, m
      <4>3. CASE item' = [item EXCEPT ![v] = NoItem] /\ f2c' = f2c
        <5>1. item'[w] = NoItem
          BY <3>5, <3>7, <4>3
        <5> QED
          BY <2>1, <2>3, <3>2, <3>3, <3>6, <3>7, <4>1, <4>3, <5>1 DEF RootTaken, m
      <4> QED
        BY <3>1, <4>2, <4>3
    <3>8. CASE v # w
      <4>1. root'[w] = root[w] /\ item'[w] = item[w]
        BY <3>1, <3>5, <3>8
      <4>2. Same(w)
        BY <3>6, <4>1 DEF Same, RootSame, ItemSame
      <4>3. Passes(FrameMsg, MsgsOf(w), c2f, c2f')
        BY <1>c, <1>d, <1>e, <2>1, <3>8 DEF m
      <4>4. Passes(ContextMsg, MsgsOf(w), f2c, f2c')
        BY <1>c, <1>d, <1>e, <3>1, <3>4, <3>8
      <4> QED
        BY <4>2, <4>3, <4>4 DEF Untouched
    <3> QED
      BY <3>7, <3>8
  <2> QED
    BY <2>2, <2>3
<1>9. CASE OnFields
  <2> DEFINE m == Head(c2f)
             v == m.watch
  <2>1. /\ c2f # <<>> /\ m \in FieldsAns /\ v \in Watches /\ c2f' = Tail(c2f)
        /\ UNCHANGED <<f2c, root, early, count, chosen>>
    BY <1>9, OnFieldsDoes
  <2>2. CASE ~(m.count = count /\ item[v].id = m.id /\ item[v].upd # count)
    <3>1. item' = item
      BY <1>9, <2>2, OnFieldsDoes
    <3>2. CASE v = w
      BY <1>b, <2>1, <2>2, <3>1, <3>2 DEF Dropped
    <3>3. CASE v # w
      BY <1>b, <1>c, <1>d, <1>e, <2>1, <3>1, <3>3 DEF Untouched
    <3> QED
      BY <3>2, <3>3
  <2>3. CASE m.count = count /\ item[v].id = m.id /\ item[v].upd # count
    <3>1. item' = [item EXCEPT ![v] = Filled(m)]
      BY <1>9, <2>3, OnFieldsDoes
    <3>2. /\ Filled(m).id = item[v].id /\ Filled(m).upd = count
          /\ Filled(m).of = item[v].of /\ Filled(m).fields = <<m.of, m.data>>
      BY <2>1, ItemFacts
    <3>3. v \in DOMAIN item /\ w \in DOMAIN item
      BY <2>1 DEF TypesInv, TypeOK
    <3>4. CountSame(w) /\ RootSame(w)
      BY <2>1 DEF CountSame, RootSame
    <3> HIDE DEF m
    <3>5. CASE v = w
      <4>1. item'[w] = Filled(m)
        BY <3>1, <3>3, <3>5
      <4> QED
        BY <2>1, <2>3, <3>2, <3>4, <3>5, <4>1 DEF ItemTaken, m
    <3>6. CASE v # w
      <4>1. item'[w] = item[w]
        BY <3>1, <3>3, <3>6
      <4>2. Same(w)
        BY <3>4, <4>1 DEF Same, ItemSame
      <4>3. Passes(FrameMsg, MsgsOf(w), c2f, c2f')
        BY <1>c, <1>d, <1>e, <2>1, <3>6 DEF m
      <4> QED
        BY <1>d, <2>1, <4>2, <4>3 DEF Untouched
    <3> QED
      BY <3>5, <3>6
  <2> QED
    BY <2>2, <2>3
<1>10. CASE OnBacktrace
  <2>1. /\ c2f # <<>> /\ Head(c2f) \in BacktraceAns /\ c2f' = Tail(c2f) /\ f2c' = f2c
        /\ UNCHANGED <<root, item, early, count, chosen>>
    BY <1>10, OnBacktraceDoes
  <2>2. Passes(FrameMsg, MsgsOf(w), c2f, c2f')
    BY <1>c, <1>d, <2>1, TrafficKinds
  <2> QED
    BY <1>b, <1>d, <2>1, <2>2 DEF Untouched
<1>11. CASE OnValues
  <2>1. /\ c2f # <<>> /\ Head(c2f) \in ValuesAns /\ c2f' = Tail(c2f)
        /\ f2c' = f2c \/ f2c' = Append(f2c, TheForce)
        /\ UNCHANGED <<root, item, early, count, chosen>>
    BY <1>11, OnValuesDoes
  <2>2. Passes(FrameMsg, MsgsOf(w), c2f, c2f')
    BY <1>c, <1>d, <2>1, TrafficKinds
  <2> QED
    BY <1>b, <1>d, <1>f, <2>1, <2>2 DEF Untouched
<1>12. CASE OnChangedState
  <2>1. /\ c2f # <<>> /\ Head(c2f) \in StateMsg /\ c2f' = Tail(c2f)
        /\ f2c' = f2c \/ f2c' = Append(f2c, TheBacktrace)
        /\ UNCHANGED <<root, item, early, count, chosen>>
    BY <1>12, OnChangedStateDoes
  <2>2. Passes(FrameMsg, MsgsOf(w), c2f, c2f')
    BY <1>c, <1>d, <2>1, TrafficKinds
  <2> QED
    BY <1>b, <1>d, <1>f, <2>1, <2>2 DEF Untouched
<1>13. CASE OnUpdateSource \/ FocusBacktraceLine \/ EditLabel
  BY <1>13, TickedByUpdate, TickedByUser
<1>14. CASE Resume
  <2>1. /\ f2c' = Append(f2c, TheResume) /\ c2f' = c2f
        /\ UNCHANGED <<root, item, early, count, chosen>>
    BY <1>14, ResumeDoes
  <2> QED
    BY <1>b, <1>d, <1>f, <2>1 DEF Untouched
<1>15. CASE Eval
  <2>1. /\ \E m \in EvalReq : f2c' = Append(f2c, m)
        /\ c2f' = c2f
        /\ UNCHANGED <<root, item, early, count, chosen>>
    BY <1>15, EvalDoes
  <2>2. \A m \in EvalReq : m \in ContextMsg /\ m \notin MsgsOf(w)
    BY <1>c, TrafficKinds DEF ContextMsg
  <2>3. Passes(ContextMsg, MsgsOf(w), f2c, f2c')
    BY <1>d, <2>1, <2>2
  <2> QED
    BY <1>b, <1>d, <2>1, <2>3 DEF Untouched
<1>16. ASSUME NEW v \in Watches, FieldsAsked(v),
              UNCHANGED <<root, count, chosen, c2f>>
       PROVE  Untouched(w) \/ AsksFields(w)
  <2> DEFINE q == Fields(v, count, item[v])
  <2>1. /\ q \in FieldsReq /\ f2c' = Append(f2c, q)
        /\ ItemSame(w) /\ RootSame(w) /\ CountSame(w)
    BY <1>16 DEF FieldsAsked, ItemSame, RootSame, CountSame
  <2>2. q.watch = v /\ q.count = count /\ q.id = item[v].id /\ q.of = item[v].of
    BY DEF Fields
  <2>3. early' = [early EXCEPT ![v] =
                     early[v] \/ (root[v].req = count /\ root[v].upd # count)]
    BY <1>16 DEF FieldsAsked
  <2> HIDE DEF q
  <2>4. CASE v = w
    <3>1. w \in DOMAIN early
      BY DEF TypesInv, TypeOK
    <3>2. early'[w] = (early[w] \/ (root[w].req = count /\ root[w].upd # count))
      BY <2>3, <2>4, <3>1, Zenon
    <3>3. ~early'[w] => root[w].req # count \/ root[w].upd = count
      BY <3>2
    <3> QED
      BY <1>16, <2>1, <2>2, <2>4, <3>3 DEF AsksFields, Same
  <2>5. CASE v # w
    <3>1. q \in ContextMsg /\ q \notin MsgsOf(w)
      BY <1>c, <1>e, <2>1, <2>2, <2>5
    <3> QED
      BY <1>d, <1>16, <2>1, <3>1 DEF Untouched, Same
  <2> QED
    BY <2>4, <2>5
<1>17. ASSUME NEW v \in Watches, Expand(v) PROVE Untouched(w) \/ AsksFields(w)
  BY <1>16, <1>17, ExpandDoes
<1>18. ASSUME NEW v \in Watches, Hide(v) PROVE Untouched(w)
  <2>1. UNCHANGED <<root, item, early, count, chosen, c2f, f2c>>
    BY <1>18, HideDoes
  <2> QED
    BY <1>b, <1>d, <2>1 DEF Untouched
<1>19. ASSUME NEW v \in Watches, Show(v)
       PROVE  Untouched(w) \/ AsksFields(w) \/ AsksRoot(w)
  <2>1. UNCHANGED <<count, chosen, c2f>>
    BY <1>19, ShowDoes
  <2>2. CASE UNCHANGED <<root, item, early, f2c>>
    BY <1>b, <1>d, <2>1, <2>2 DEF Untouched
  <2>3. CASE root' = root /\ FieldsAsked(v)
    BY <1>16, <2>1, <2>3
  <2>4. ASSUME RootsAsked({v}, count), UNCHANGED <<item, early>>,
               NEW u, Asks(u, {v}, count, chosen, {}), f2c' = f2c \o u
        PROVE  Untouched(w) \/ AsksRoot(w)
    <3>1. CountSame(w) /\ ItemSame(w)
      BY <2>1, <2>4 DEF CountSame, ItemSame
    <3>2. CASE v = w
      BY <2>1, <2>4, <3>1, <3>2 DEF AsksRoot, RootsAsked
    <3>3. CASE v # w
      <4>1. RootSame(w)
        BY <2>4, <3>3 DEF RootsAsked, RootSame
      <4>2. u \in Seq(ContextMsg) /\ NoneIn(u, MsgsOf(w))
        BY <1>c, <1>e, <2>4, <3>3 DEF Asks, NoneIn
      <4> QED
        BY <1>d, <2>1, <2>4, <3>1, <4>1, <4>2 DEF Untouched, Same
    <3> QED
      BY <3>2, <3>3
  <2> QED
    BY <1>19, <2>2, <2>3, <2>4, ShowDoes
<1>20. CASE UNCHANGED vars
  <2>1. UNCHANGED <<root, item, early, count, chosen, c2f, f2c>>
    BY <1>20 DEF vars
  <2> QED
    BY <1>b, <1>d, <2>1 DEF Untouched
<1> QED
  BY <1>1, <1>2, <1>3, <1>4, <1>5, <1>6, <1>7, <1>8, <1>9, <1>10, <1>11, <1>12,
     <1>13, <1>14, <1>15, <1>17, <1>18, <1>19, <1>20
  DEF Next, Context, Frame, User

-----------------------------------------------------------------------------
(* What holds of each watch *)

Nowhere(c, f, A) == NoneIn(c, A) /\ NoneIn(f, A)
(* None of B was sent after one of A: what is in f will follow what is in c. *)
Ordered(c, f, A, B) ==
    NoneAfter(c, A, B) /\ NoneAfter(f, A, B) /\ (NoneIn(c, A) \/ NoneIn(f, B))

VarsAt(w, n) == {m \in VarsMsg : m.watch = w /\ m.count = n}
FieldsAt(w, n) == {m \in FieldsMsg : m.watch = w /\ m.count = n}
FieldsOf(w, n, id) == {m \in FieldsAt(w, n) : m.id = id}
Newer(w, n) == {m \in Traffic : m.watch = w /\ m.count > n}
Unasked(w, n) == {m \in VarsMsg : m.watch = w /\ m.count > n}
Stray(w, n, fr) == {m \in VarsAt(w, n) : m.frame # fr}
OfOther(w, n, o) == {m \in FieldsAt(w, n) : m.of # o}

(* No count is ahead of the count, and no root's of its own request.         *)
CountInv(w) ==
    /\ root[w].req <= count /\ root[w].upd <= root[w].req /\ item[w].upd <= count
    /\ Nowhere(c2f, f2c, Newer(w, count))
    /\ Nowhere(c2f, f2c, Unasked(w, root[w].req))

(* What has been asked for at this count and is not there is on its way.     *)
AnswerInv(w) ==
    /\ root[w].req = count /\ root[w].upd # count
          => ~Nowhere(c2f, f2c, VarsAt(w, count))
    /\ root[w].upd = count /\ item[w].id # 0 /\ item[w].upd # count
          => ~Nowhere(c2f, f2c, FieldsOf(w, count, item[w].id))

(* At this count all is of the chosen frame.                                 *)
ChosenInv(w) ==
    /\ Nowhere(c2f, f2c, Stray(w, count, chosen))
    /\ root[w].upd = count => root[w].stack = chosen

(* The fields are of the root's value, and none of an earlier value follows  *)
(* its answer, unless they were asked for early.                             *)
ValueInv(w) ==
    /\ item[w].id # 0 => item[w].of = root[w].data
    /\ item[w].upd = count => Len(item[w].fields) = 2
    /\ ~early[w] /\ root[w].upd # count
          => Ordered(c2f, f2c, VarsAt(w, count), FieldsAt(w, count))
    /\ ~early[w] /\ root[w].upd = count /\ item[w].id # 0 =>
          /\ Nowhere(c2f, f2c, OfOther(w, count, item[w].of))
          /\ item[w].upd = count => item[w].fields[1] = item[w].of

WatchInv(w) == CountInv(w) /\ AnswerInv(w) /\ ChosenInv(w) /\ ValueInv(w)

(* What has been answered at this count is the program's data.               *)
Outdated(w, n, d) ==
    {m \in VarsAns \cup FieldsAns : m.watch = w /\ m.count = n /\ m.data # d}
DataInv(w) ==
    /\ NoneIn(c2f, Outdated(w, count, data))
    /\ root[w].upd = count => root[w].data = data
    /\ item[w].upd = count => item[w].fields[2] = data

LEMMA SetsOf ==
    \A w, n, x :
        /\ VarsAt(w, n) \in SUBSET MsgsOf(w) /\ FieldsAt(w, n) \in SUBSET MsgsOf(w)
        /\ FieldsOf(w, n, x) \in SUBSET MsgsOf(w) /\ Newer(w, n) \in SUBSET MsgsOf(w)
        /\ Unasked(w, n) \in SUBSET MsgsOf(w) /\ Stray(w, n, x) \in SUBSET MsgsOf(w)
        /\ OfOther(w, n, x) \in SUBSET MsgsOf(w) /\ Outdated(w, n, x) \in SUBSET MsgsOf(w)
  BY DEF VarsAt, FieldsAt, FieldsOf, Newer, Unasked, Stray, OfOther, Outdated, MsgsOf,
         Traffic, VarsMsg, FieldsMsg

LEMMA WatchTypes ==
    ASSUME TypesInv, NEW w \in Watches
    PROVE  /\ count \in Nat /\ root[w].req \in Int /\ root[w].upd \in Int
           /\ item[w].upd \in Int /\ item[w].id \in Nat
           /\ c2f \in Seq(FrameMsg) /\ f2c \in Seq(ContextMsg)
<1>1. count \in Nat /\ root[w] \in RootRec /\ item[w] \in ItemRec
  BY DEF TypesInv, TypeOK, RootRec, ItemRec
<1>2. count \in Nat /\ root[w].req \in Int /\ root[w].upd \in Int
      /\ item[w].upd \in Int /\ item[w].id \in Nat
  BY <1>1 DEF RootRec, ItemRec, Counts
<1> QED
  BY <1>2 DEF TypesInv

(* What the channels hold of a watch that is not touched.                    *)
LEMMA UntouchedTraffic ==
    ASSUME TypesInv, NEW w \in Watches, Untouched(w)
    PROVE  /\ \A A \in SUBSET MsgsOf(w) : /\ NoneIn(c2f', A) <=> NoneIn(c2f, A)
                                          /\ NoneIn(f2c', A) <=> NoneIn(f2c, A)
           /\ \A A, B \in SUBSET MsgsOf(w) :
                 Ordered(c2f, f2c, A, B) => Ordered(c2f', f2c', A, B)
<1> DEFINE X == MsgsOf(w)
<1>a. c2f \in Seq(FrameMsg) /\ f2c \in Seq(ContextMsg)
  BY DEF TypesInv
<1>1. Passes(FrameMsg, X, c2f, c2f')
  BY DEF Untouched
<1>2. \/ Passes(ContextMsg, X, f2c, f2c')
      \/ \E u \in Seq(ContextMsg) : NoneIn(u, X) /\ f2c' = f2c \o u
  BY DEF Untouched
<1> HIDE DEF X
<1>3. /\ \A A \in SUBSET X : NoneIn(c2f', A) <=> NoneIn(c2f, A)
      /\ \A A, B \in SUBSET X : NoneAfter(c2f, A, B) => NoneAfter(c2f', A, B)
  BY <1>a, <1>1, Bystander
<1>4. /\ \A A \in SUBSET X : NoneIn(f2c', A) <=> NoneIn(f2c, A)
      /\ \A A, B \in SUBSET X : NoneAfter(f2c, A, B) => NoneAfter(f2c', A, B)
  <2>1. CASE Passes(ContextMsg, X, f2c, f2c')
    BY <1>a, <2>1, Bystander
  <2>2. ASSUME NEW u \in Seq(ContextMsg), NoneIn(u, X), f2c' = f2c \o u
        PROVE  /\ \A A \in SUBSET X : NoneIn(f2c', A) <=> NoneIn(f2c, A)
               /\ \A A, B \in SUBSET X : NoneAfter(f2c, A, B) => NoneAfter(f2c', A, B)
    <3>1. \A A \in SUBSET X : NoneIn(u, A)
      BY <2>2 DEF NoneIn
    <3>2. \A A, B \in SUBSET X : NoneAfter(u, A, B)
      BY <3>1 DEF NoneIn, NoneAfter
    <3>3. \A A \in SUBSET X : NoneIn(f2c', A) <=> NoneIn(f2c, A)
      BY <1>a, <2>2, <3>1, ConcatOrder
    <3>4. \A A, B \in SUBSET X : NoneAfter(f2c, A, B) => NoneAfter(f2c', A, B)
      BY <1>a, <2>2, <3>1, <3>2, ConcatOrder
    <3> QED
      BY <3>3, <3>4
  <2> QED
    BY <1>2, <2>1, <2>2
<1>5. ASSUME NEW A \in SUBSET X, NEW B \in SUBSET X, Ordered(c2f, f2c, A, B)
      PROVE  Ordered(c2f', f2c', A, B)
  BY <1>3, <1>4, <1>5 DEF Ordered
<1> QED
  BY <1>3, <1>4, <1>5 DEF X

LEMMA UntouchedStep ==
    ASSUME TypesInv, NEW w \in Watches, Untouched(w)
    PROVE  /\ WatchInv(w) => WatchInv(w)'
           /\ DataInv(w) /\ data' = data => DataInv(w)'
<1>1. Same(w)
  BY DEF Untouched
<1>2. /\ \A A \in SUBSET MsgsOf(w) : Nowhere(c2f', f2c', A) <=> Nowhere(c2f, f2c, A)
      /\ \A A \in SUBSET MsgsOf(w) : NoneIn(c2f', A) <=> NoneIn(c2f, A)
      /\ \A A, B \in SUBSET MsgsOf(w) :
            Ordered(c2f, f2c, A, B) => Ordered(c2f', f2c', A, B)
  BY UntouchedTraffic DEF Nowhere
<1>3. CountInv(w) => CountInv(w)'
  BY <1>1, <1>2, SetsOf DEF CountInv, Same, RootSame, ItemSame, CountSame
<1>4. AnswerInv(w) => AnswerInv(w)'
  BY <1>1, <1>2, SetsOf DEF AnswerInv, Same, RootSame, ItemSame, CountSame
<1>5. ChosenInv(w) => ChosenInv(w)'
  BY <1>1, <1>2, SetsOf DEF ChosenInv, Same, RootSame, ItemSame, CountSame
<1>6. ValueInv(w) => ValueInv(w)'
  BY <1>1, <1>2, SetsOf DEF ValueInv, Same, RootSame, ItemSame, CountSame
<1>7. DataInv(w) /\ data' = data => DataInv(w)'
  BY <1>1, <1>2, SetsOf DEF DataInv, Same, RootSame, ItemSame, CountSame
<1> QED
  BY <1>3, <1>4, <1>5, <1>6, <1>7 DEF WatchInv

(* An answer is of what its request was of. *)
LEMMA RelayedTraffic ==
    ASSUME TypesInv, NEW w \in Watches, Relayed(w)
    PROVE  \E a \in FrameMsg :
              LET m == Head(f2c)
              IN  /\ f2c # <<>> /\ f2c' = Tail(f2c) /\ c2f' = Append(c2f, a)
                  /\ m \in MsgsOf(w)
                  /\ \A n, x : /\ a \in VarsAt(w, n) <=> m \in VarsAt(w, n)
                               /\ a \in FieldsAt(w, n) <=> m \in FieldsAt(w, n)
                               /\ a \in FieldsOf(w, n, x) <=> m \in FieldsOf(w, n, x)
                               /\ a \in Newer(w, n) <=> m \in Newer(w, n)
                               /\ a \in Unasked(w, n) <=> m \in Unasked(w, n)
                               /\ a \in Stray(w, n, x) <=> m \in Stray(w, n, x)
                               /\ a \in OfOther(w, n, x) <=> m \in OfOther(w, n, x)
                  /\ \A n : a \notin Outdated(w, n, data)
                  /\ \A n : m \in VarsAt(w, n) => a \notin FieldsAt(w, n)
<1> DEFINE m == Head(f2c)
<1>1. f2c # <<>> /\ f2c' = Tail(f2c) /\ m.watch = w
  BY DEF Relayed
<1>2. CASE m \in VarsReq /\ c2f' = Append(c2f, VarsAnswer(m))
  <2> DEFINE a == VarsAnswer(m)
  <2>1. /\ a \in VarsAns /\ a.watch = m.watch /\ a.count = m.count
        /\ a.frame = m.frame /\ a.data = data
    BY <1>2, AnswerTypes DEF TypesInv
  <2>2. a \notin FieldsMsg /\ m \notin FieldsMsg
    BY <1>2, <2>1, KindTypes DEF FieldsMsg
  <2>3. a \in VarsMsg /\ m \in VarsMsg /\ a \in Traffic /\ m \in Traffic /\ a \in FrameMsg
    BY <1>2, <2>1 DEF VarsMsg, Traffic, FrameMsg
  <2> HIDE DEF a, m
  <2>4. \A n, x : /\ a \in VarsAt(w, n) <=> m \in VarsAt(w, n)
                  /\ a \notin FieldsAt(w, n) /\ m \notin FieldsAt(w, n)
                  /\ a \in Newer(w, n) <=> m \in Newer(w, n)
                  /\ a \in Unasked(w, n) <=> m \in Unasked(w, n)
                  /\ a \in Stray(w, n, x) <=> m \in Stray(w, n, x)
    BY <2>1, <2>2, <2>3 DEF VarsAt, FieldsAt, Newer, Unasked, Stray
  <2>5. \A n, x : /\ a \notin FieldsOf(w, n, x) /\ m \notin FieldsOf(w, n, x)
                  /\ a \notin OfOther(w, n, x) /\ m \notin OfOther(w, n, x)
    BY <2>4 DEF FieldsOf, OfOther
  <2>6. \A n : a \notin Outdated(w, n, data)
    BY <2>1 DEF Outdated
  <2>7. m \in MsgsOf(w) /\ c2f' = Append(c2f, a)
    BY <1>1, <1>2, <2>3 DEF MsgsOf, m, a
  <2> QED
    BY <1>1, <2>3, <2>4, <2>5, <2>6, <2>7 DEF m
<1>3. CASE m \in FieldsReq /\ c2f' = Append(c2f, FieldsAnswer(m))
  <2> DEFINE a == FieldsAnswer(m)
  <2>1. /\ a \in FieldsAns /\ a.watch = m.watch /\ a.count = m.count
        /\ a.id = m.id /\ a.of = m.of /\ a.data = data
    BY <1>3, AnswerTypes DEF TypesInv
  <2>2. a \notin VarsMsg /\ m \notin VarsMsg
    BY <1>3, <2>1, KindTypes DEF VarsMsg
  <2>3. a \in FieldsMsg /\ m \in FieldsMsg /\ a \in Traffic /\ m \in Traffic
        /\ a \in FrameMsg
    BY <1>3, <2>1 DEF FieldsMsg, Traffic, FrameMsg
  <2> HIDE DEF a, m
  <2>4. \A n, x : /\ a \notin VarsAt(w, n) /\ m \notin VarsAt(w, n)
                  /\ a \in FieldsAt(w, n) <=> m \in FieldsAt(w, n)
                  /\ a \in Newer(w, n) <=> m \in Newer(w, n)
                  /\ a \notin Unasked(w, n) /\ m \notin Unasked(w, n)
    BY <2>1, <2>2, <2>3 DEF VarsAt, FieldsAt, Newer, Unasked
  <2>5. \A n, x : /\ a \in FieldsOf(w, n, x) <=> m \in FieldsOf(w, n, x)
                  /\ a \in OfOther(w, n, x) <=> m \in OfOther(w, n, x)
                  /\ a \notin Stray(w, n, x) /\ m \notin Stray(w, n, x)
    BY <2>1, <2>4 DEF FieldsOf, OfOther, Stray
  <2>6. \A n : a \notin Outdated(w, n, data)
    BY <2>1 DEF Outdated
  <2>7. m \in MsgsOf(w) /\ c2f' = Append(c2f, a)
    BY <1>1, <1>3, <2>3 DEF MsgsOf, m, a
  <2> QED
    BY <1>1, <2>3, <2>4, <2>5, <2>6, <2>7 DEF m
<1> QED
  BY <1>2, <1>3 DEF Relayed

LEMMA RelayedStep ==
    ASSUME TypesInv, NEW w \in Watches, Relayed(w)
    PROVE  /\ WatchInv(w) => WatchInv(w)'
           /\ DataInv(w) /\ data' = data => DataInv(w)'
<1> DEFINE m == Head(f2c)
<1>a. c2f \in Seq(FrameMsg) /\ f2c \in Seq(ContextMsg)
  BY DEF TypesInv
<1>b. Same(w)
  BY DEF Relayed
<1>1. PICK a \in FrameMsg :
         /\ f2c # <<>> /\ f2c' = Tail(f2c) /\ c2f' = Append(c2f, a)
         /\ \A n, x : /\ a \in VarsAt(w, n) <=> m \in VarsAt(w, n)
                      /\ a \in FieldsAt(w, n) <=> m \in FieldsAt(w, n)
                      /\ a \in FieldsOf(w, n, x) <=> m \in FieldsOf(w, n, x)
                      /\ a \in Newer(w, n) <=> m \in Newer(w, n)
                      /\ a \in Unasked(w, n) <=> m \in Unasked(w, n)
                      /\ a \in Stray(w, n, x) <=> m \in Stray(w, n, x)
                      /\ a \in OfOther(w, n, x) <=> m \in OfOther(w, n, x)
         /\ \A n : a \notin Outdated(w, n, data)
         /\ \A n : m \in VarsAt(w, n) => a \notin FieldsAt(w, n)
  BY RelayedTraffic
<1>2. ASSUME NEW A, a \in A <=> m \in A
      PROVE  Nowhere(c2f', f2c', A) <=> Nowhere(c2f, f2c, A)
  <2>1. NoneIn(c2f', A) <=> NoneIn(c2f, A) /\ a \notin A
    BY <1>a, <1>1, AppendOrder
  <2>2. NoneIn(f2c, A) <=> NoneIn(f2c', A) /\ m \notin A
    BY <1>a, <1>1, TailOrder
  <2> QED
    BY <1>2, <2>1, <2>2 DEF Nowhere
<1>3. ASSUME NEW n, Ordered(c2f, f2c, VarsAt(w, n), FieldsAt(w, n))
      PROVE  Ordered(c2f', f2c', VarsAt(w, n), FieldsAt(w, n))
  <2> DEFINE A == VarsAt(w, n)
             B == FieldsAt(w, n)
  <2>1. /\ a \in A <=> m \in A
        /\ a \in B <=> m \in B
        /\ m \in A => m \notin B
    BY <1>1
  <2> HIDE DEF A, B, m
  <2>2. NoneAfter(c2f, A, B) /\ NoneAfter(f2c, A, B) /\ (NoneIn(c2f, A) \/ NoneIn(f2c, B))
    BY <1>3 DEF Ordered, A, B
  <2>3. NoneAfter(f2c', A, B) /\ (m \in A => NoneIn(f2c', B))
    BY <1>a, <1>1, <2>2, TailAfter DEF m
  <2>4. NoneIn(f2c, B) <=> NoneIn(f2c', B) /\ m \notin B
    BY <1>a, <1>1, TailOrder DEF m
  <2>5. NoneIn(c2f', A) <=> NoneIn(c2f, A) /\ a \notin A
    BY <1>a, <1>1, AppendOrder
  <2>6. NoneAfter(c2f', A, B)
    BY <1>a, <1>1, <2>1, <2>2, <2>4, AppendAfter
  <2>7. Ordered(c2f', f2c', A, B)
    BY <2>1, <2>2, <2>3, <2>4, <2>5, <2>6 DEF Ordered
  <2> QED
    BY <2>7 DEF A, B
<1> HIDE DEF m
<1>4. CountInv(w) => CountInv(w)'
  BY <1>b, <1>1, <1>2 DEF CountInv, Same, RootSame, ItemSame, CountSame
<1>5. AnswerInv(w) => AnswerInv(w)'
  BY <1>b, <1>1, <1>2 DEF AnswerInv, Same, RootSame, ItemSame, CountSame
<1>6. ChosenInv(w) => ChosenInv(w)'
  BY <1>b, <1>1, <1>2 DEF ChosenInv, Same, RootSame, ItemSame, CountSame
<1>7. ValueInv(w) => ValueInv(w)'
  BY <1>b, <1>1, <1>2, <1>3 DEF ValueInv, Same, RootSame, ItemSame, CountSame
<1>8. DataInv(w) /\ data' = data => DataInv(w)'
  <2>1. NoneIn(c2f, Outdated(w, count, data)) => NoneIn(c2f', Outdated(w, count, data))
    BY <1>a, <1>1, AppendOrder
  <2> QED
    BY <1>b, <2>1 DEF DataInv, Same, RootSame, ItemSame, CountSame
<1> QED
  BY <1>4, <1>5, <1>6, <1>7, <1>8 DEF WatchInv

LEMMA DroppedStep ==
    ASSUME TypesInv, NEW w \in Watches, Dropped(w)
    PROVE  /\ WatchInv(w) => WatchInv(w)'
           /\ DataInv(w) /\ data' = data => DataInv(w)'
<1> DEFINE m == Head(c2f)
<1>a. c2f \in Seq(FrameMsg) /\ f2c \in Seq(ContextMsg)
  BY DEF TypesInv
<1>b. /\ Same(w) /\ c2f # <<>> /\ c2f' = Tail(c2f) /\ f2c' = f2c /\ m.watch = w
      /\ \/ m \in VarsAns /\ ~(m.count = count /\ root[w].upd # count)
         \/ m \in FieldsAns /\ ~(m.count = count /\ item[w].id = m.id /\ item[w].upd # count)
  BY DEF Dropped
<1> HIDE DEF m
<1>1. \A A : NoneIn(c2f, A) <=> NoneIn(c2f', A) /\ m \notin A
  BY <1>a, <1>b, TailOrder DEF m
<1>2. /\ \A A : Nowhere(c2f, f2c, A) => Nowhere(c2f', f2c', A)
      /\ \A A : m \notin A /\ ~Nowhere(c2f, f2c, A) => ~Nowhere(c2f', f2c', A)
  BY <1>b, <1>1 DEF Nowhere
<1>3. \A A, B : Ordered(c2f, f2c, A, B) => Ordered(c2f', f2c', A, B)
  <2>1. \A A, B : NoneAfter(c2f, A, B) => NoneAfter(c2f', A, B)
    BY <1>a, <1>b, TailAfter
  <2> QED
    BY <1>b, <1>1, <2>1 DEF Ordered
<1>4. root[w].upd # count => m \notin VarsAt(w, count)
  <2>1. m \in FieldsAns => m \notin VarsMsg
    BY KindTypes DEF VarsMsg
  <2> QED
    BY <1>b, <2>1 DEF VarsAt
<1>5. item[w].upd # count => m \notin FieldsOf(w, count, item[w].id)
  <2>1. m \in VarsAns => m \notin FieldsMsg
    BY KindTypes DEF FieldsMsg
  <2> QED
    BY <1>b, <2>1 DEF FieldsOf, FieldsAt
<1>6. CountInv(w) => CountInv(w)'
  BY <1>b, <1>2 DEF CountInv, Same, RootSame, ItemSame, CountSame
<1>7. AnswerInv(w) => AnswerInv(w)'
  BY <1>b, <1>2, <1>4, <1>5 DEF AnswerInv, Same, RootSame, ItemSame, CountSame
<1>8. ChosenInv(w) => ChosenInv(w)'
  BY <1>b, <1>2 DEF ChosenInv, Same, RootSame, ItemSame, CountSame
<1>9. ValueInv(w) => ValueInv(w)'
  BY <1>b, <1>2, <1>3 DEF ValueInv, Same, RootSame, ItemSame, CountSame
<1>10. DataInv(w) /\ data' = data => DataInv(w)'
  BY <1>b, <1>1 DEF DataInv, Same, RootSame, ItemSame, CountSame
<1> QED
  BY <1>6, <1>7, <1>8, <1>9, <1>10 DEF WatchInv

LEMMA RootTakenStep ==
    ASSUME TypesInv, NEW w \in Watches, RootTaken(w), WatchInv(w)
    PROVE  /\ WatchInv(w)'
           /\ DataInv(w) /\ data' = data => DataInv(w)'
<1> DEFINE m == Head(c2f)
<1>a. /\ c2f \in Seq(FrameMsg) /\ f2c \in Seq(ContextMsg) /\ count \in Nat
  BY DEF TypesInv, TypeOK
<1>b. /\ CountSame(w) /\ c2f # <<>> /\ c2f' = Tail(c2f)
      /\ m \in VarsAns /\ m.watch = w /\ m.count = count /\ root[w].upd # count
      /\ root'[w].req = count /\ root'[w].upd = count
      /\ root'[w].data = m.data /\ root'[w].stack = m.frame /\ item'[w].upd = -1
      /\ \/ item'[w].id = 0 /\ f2c' = f2c
         \/ /\ item'[w].of = m.data
            /\ \E q \in FieldsReq : /\ q.watch = w /\ q.count = count
                                    /\ q.id = item'[w].id /\ q.of = m.data
                                    /\ f2c' = Append(f2c, q)
  BY DEF RootTaken
<1> HIDE DEF m
<1>c. CountInv(w) /\ ChosenInv(w) /\ ValueInv(w)
  BY DEF WatchInv
<1>1. \A A : NoneIn(c2f, A) <=> NoneIn(c2f', A) /\ m \notin A
  BY <1>a, <1>b, TailOrder DEF m
<1>2. m \in VarsAt(w, count)
  BY <1>b DEF VarsAt, VarsMsg
<1>3. \A A : NoneIn(f2c, A) /\ (\A q \in FieldsReq :
                 q.watch = w /\ q.count = count /\ q.id = item'[w].id /\ q.of = m.data
                     => q \notin A)
             => NoneIn(f2c', A)
  <2> SUFFICES ASSUME NEW A, NoneIn(f2c, A),
                      \A q \in FieldsReq :
                          q.watch = w /\ q.count = count /\ q.id = item'[w].id
                              /\ q.of = m.data => q \notin A
               PROVE  NoneIn(f2c', A)
    OBVIOUS
  <2>1. ASSUME NEW q \in FieldsReq, q \notin A PROVE NoneIn(Append(f2c, q), A)
    <3>1. q \in ContextMsg
      BY DEF ContextMsg
    <3> QED
      BY <1>a, <2>1, <3>1, AppendOrder
  <2>2. CASE f2c' = f2c
    BY <2>2
  <2>3. ASSUME NEW q \in FieldsReq, q.watch = w, q.count = count, q.id = item'[w].id,
               q.of = m.data, f2c' = Append(f2c, q)
        PROVE  NoneIn(f2c', A)
    BY <2>1, <2>3
  <2> QED
    BY <1>b, <2>2, <2>3
<1>4. CountInv(w)'
  <2>1. Nowhere(c2f, f2c, Newer(w, count))
    BY <1>c DEF CountInv
  <2>2. Nowhere(c2f', f2c', Newer(w, count))
    BY <1>1, <1>3, <1>a, <2>1 DEF Nowhere, Newer
  <2>3. Unasked(w, count) \in SUBSET Newer(w, count)
    BY DEF Unasked, Newer, Traffic
  <2>4. Nowhere(c2f', f2c', Unasked(w, count))
    BY <2>2, <2>3 DEF Nowhere, NoneIn
  <2>5. -1 <= count /\ count <= count
    BY <1>a
  <2> QED
    BY <1>b, <2>2, <2>4, <2>5 DEF CountInv, CountSame
<1>5. AnswerInv(w)'
  <2>1. ASSUME item'[w].id # 0 PROVE ~NoneIn(f2c', FieldsOf(w, count, item'[w].id))
    <3>1. PICK q \in FieldsReq : /\ q.watch = w /\ q.count = count
                                 /\ q.id = item'[w].id /\ f2c' = Append(f2c, q)
      BY <1>b, <2>1
    <3> DEFINE A == FieldsOf(w, count, item'[w].id)
    <3>2. q \in A /\ q \in ContextMsg
      BY <3>1 DEF FieldsOf, FieldsAt, FieldsMsg, ContextMsg
    <3> HIDE DEF A
    <3>3. ~NoneIn(Append(f2c, q), A)
      BY <1>a, <3>2, AppendOrder
    <3> QED
      BY <3>1, <3>3 DEF A
  <2> QED
    BY <1>b, <2>1 DEF AnswerInv, CountSame, Nowhere
<1>6. ChosenInv(w)'
  <2>1. Nowhere(c2f, f2c, Stray(w, count, chosen))
    BY <1>c DEF ChosenInv
  <2>2. \A q \in FieldsReq : q \notin Stray(w, count, chosen)
    BY KindTypes DEF Stray, VarsAt, VarsMsg
  <2>3. Nowhere(c2f', f2c', Stray(w, count, chosen)) /\ m \notin Stray(w, count, chosen)
    BY <1>1, <1>3, <2>1, <2>2 DEF Nowhere
  <2>4. m.frame = chosen
    BY <1>2, <2>3 DEF Stray
  <2> QED
    BY <1>b, <2>3, <2>4 DEF ChosenInv, CountSame
<1>7. ValueInv(w)'
  <2>1. -1 # count
    BY <1>a
  <2>2. item'[w].id # 0 => item'[w].of = m.data
    BY <1>b
  <2>3. ASSUME ~early'[w], item'[w].id # 0
        PROVE  Nowhere(c2f', f2c', OfOther(w, count, item'[w].of))
    <3> DEFINE A == VarsAt(w, count)
               B == FieldsAt(w, count)
    <3>1. Ordered(c2f, f2c, A, B)
      BY <1>b, <1>c, <2>3 DEF ValueInv, CountSame
    <3>2. m \in A
      BY <1>2
    <3> HIDE DEF A, B
    <3>3. NoneIn(c2f', B)
      BY <1>a, <1>b, <3>1, <3>2, TailAfter DEF Ordered, m
    <3>4. NoneIn(f2c, B)
      BY <1>1, <3>1, <3>2 DEF Ordered
    <3>5. OfOther(w, count, item'[w].of) \in SUBSET B
      BY DEF OfOther, B
    <3>6. NoneIn(c2f', OfOther(w, count, item'[w].of))
          /\ NoneIn(f2c, OfOther(w, count, item'[w].of))
      BY <3>3, <3>4, <3>5 DEF NoneIn
    <3>7. \A q \in FieldsReq : q.of = m.data => q \notin OfOther(w, count, item'[w].of)
      BY <2>2, <2>3 DEF OfOther
    <3> QED
      BY <1>3, <3>6, <3>7 DEF Nowhere
  <2> QED
    BY <1>b, <2>1, <2>2, <2>3 DEF ValueInv, CountSame
<1>8. DataInv(w) /\ data' = data => DataInv(w)'
  <2>1. ASSUME DataInv(w) PROVE m.data = data /\ NoneIn(c2f', Outdated(w, count, data))
    <3>1. NoneIn(c2f', Outdated(w, count, data)) /\ m \notin Outdated(w, count, data)
      BY <1>1, <2>1 DEF DataInv
    <3> QED
      BY <1>b, <3>1 DEF Outdated
  <2>2. -1 # count
    BY <1>a
  <2> QED
    BY <1>b, <2>1, <2>2 DEF DataInv, CountSame
<1> QED
  BY <1>4, <1>5, <1>6, <1>7, <1>8 DEF WatchInv

LEMMA ItemTakenStep ==
    ASSUME TypesInv, NEW w \in Watches, ItemTaken(w), WatchInv(w)
    PROVE  /\ WatchInv(w)'
           /\ DataInv(w) /\ data' = data => DataInv(w)'
<1> DEFINE m == Head(c2f)
<1>a. c2f \in Seq(FrameMsg) /\ f2c \in Seq(ContextMsg) /\ count \in Nat
  BY DEF TypesInv, TypeOK
<1>b. /\ CountSame(w) /\ RootSame(w) /\ c2f # <<>> /\ c2f' = Tail(c2f) /\ f2c' = f2c
      /\ m \in FieldsAns /\ m.watch = w /\ m.count = count
      /\ item[w].id = m.id /\ item[w].upd # count
      /\ item'[w].id = item[w].id /\ item'[w].upd = count
      /\ item'[w].of = item[w].of /\ item'[w].fields = <<m.of, m.data>>
  BY DEF ItemTaken
<1> HIDE DEF m
<1>c. CountInv(w) /\ AnswerInv(w) /\ ChosenInv(w) /\ ValueInv(w)
  BY DEF WatchInv
<1>1. \A A : NoneIn(c2f, A) <=> NoneIn(c2f', A) /\ m \notin A
  BY <1>a, <1>b, TailOrder DEF m
<1>2. /\ \A A : Nowhere(c2f, f2c, A) => Nowhere(c2f', f2c', A) /\ m \notin A
      /\ \A A : m \notin A /\ ~Nowhere(c2f, f2c, A) => ~Nowhere(c2f', f2c', A)
  BY <1>b, <1>1 DEF Nowhere
<1>3. \A A, B : Ordered(c2f, f2c, A, B) => Ordered(c2f', f2c', A, B)
  <2>1. \A A, B : NoneAfter(c2f, A, B) => NoneAfter(c2f', A, B)
    BY <1>a, <1>b, TailAfter
  <2> QED
    BY <1>b, <1>1, <2>1 DEF Ordered
<1>4. /\ Len(item'[w].fields) = 2 /\ item'[w].fields[1] = m.of
      /\ item'[w].fields[2] = m.data
  BY <1>b
<1>5. CountInv(w)'
  BY <1>a, <1>b, <1>c, <1>2 DEF CountInv, RootSame, CountSame
<1>6. AnswerInv(w)'
  <2>1. m \notin VarsAt(w, count)
    BY <1>b, KindTypes DEF VarsAt, VarsMsg
  <2> QED
    BY <1>b, <1>c, <1>2, <2>1 DEF AnswerInv, RootSame, CountSame
<1>7. ChosenInv(w)'
  BY <1>b, <1>c, <1>2 DEF ChosenInv, RootSame, CountSame
<1>8. ValueInv(w)'
  <2>1. m \in FieldsAt(w, count)
    BY <1>b DEF FieldsAt, FieldsMsg
  <2>2. m \notin OfOther(w, count, item[w].of) => m.of = item[w].of
    BY <2>1 DEF OfOther
  <2> QED
    BY <1>b, <1>c, <1>2, <1>3, <1>4, <2>2 DEF ValueInv, RootSame, CountSame
<1>9. DataInv(w) /\ data' = data => DataInv(w)'
  <2>1. ASSUME DataInv(w) PROVE m.data = data /\ NoneIn(c2f', Outdated(w, count, data))
    <3>1. NoneIn(c2f', Outdated(w, count, data)) /\ m \notin Outdated(w, count, data)
      BY <1>1, <2>1 DEF DataInv
    <3> QED
      BY <1>b, <3>1 DEF Outdated
  <2> QED
    BY <1>b, <1>4, <2>1 DEF DataInv, RootSame, CountSame
<1> QED
  BY <1>5, <1>6, <1>7, <1>8, <1>9 DEF WatchInv

LEMMA TrafficCounts == \A m \in Traffic : m.count \in Nat
  BY DEF Traffic, VarsMsg, FieldsMsg, VarsReq, VarsAns, FieldsReq, FieldsAns

LEMMA AsksFieldsStep ==
    ASSUME TypesInv, NEW w \in Watches, AsksFields(w), WatchInv(w)
    PROVE  /\ WatchInv(w)'
           /\ DataInv(w) /\ data' = data => DataInv(w)'
<1>a. /\ c2f \in Seq(FrameMsg) /\ f2c \in Seq(ContextMsg)
      /\ count \in Nat /\ root[w].req \in Int
  BY WatchTypes
<1>b. /\ Same(w) /\ c2f' = c2f
      /\ ~early'[w] => root[w].req # count \/ root[w].upd = count
  BY DEF AsksFields
<1>c. CountInv(w) /\ AnswerInv(w) /\ ChosenInv(w) /\ ValueInv(w)
  BY DEF WatchInv
<1>d. PICK q \in FieldsReq : /\ q.watch = w /\ q.count = count
                             /\ q.id = item[w].id /\ q.of = item[w].of
                             /\ f2c' = Append(f2c, q)
  BY DEF AsksFields
<1>1. q \in ContextMsg /\ q \notin VarsMsg /\ ~(q.count > count)
  BY <1>a, <1>d, KindTypes DEF ContextMsg, VarsMsg
<1>2. \A A : NoneIn(f2c', A) <=> NoneIn(f2c, A) /\ q \notin A
  BY <1>a, <1>d, <1>1, AppendOrder
<1>3. /\ \A A : q \notin A /\ Nowhere(c2f, f2c, A) => Nowhere(c2f', f2c', A)
      /\ \A A : ~Nowhere(c2f, f2c, A) => ~Nowhere(c2f', f2c', A)
  BY <1>b, <1>2 DEF Nowhere
<1>4. CountInv(w)'
  <2>1. q \notin Newer(w, count) /\ q \notin Unasked(w, root[w].req)
    BY <1>1, <1>d DEF Newer, Unasked
  <2> QED
    BY <1>b, <1>c, <1>3, <2>1 DEF CountInv, Same, RootSame, ItemSame, CountSame
<1>5. AnswerInv(w)'
  BY <1>b, <1>c, <1>3 DEF AnswerInv, Same, RootSame, ItemSame, CountSame
<1>6. ChosenInv(w)'
  <2>1. q \notin Stray(w, count, chosen)
    BY <1>1 DEF Stray, VarsAt
  <2> QED
    BY <1>b, <1>c, <1>3, <2>1 DEF ChosenInv, Same, RootSame, CountSame
<1>7. ValueInv(w)'
  <2>1. ASSUME ~early'[w], root[w].upd # count
        PROVE  Ordered(c2f', f2c', VarsAt(w, count), FieldsAt(w, count))
    <3> DEFINE A == VarsAt(w, count)
               B == FieldsAt(w, count)
    <3>1. root[w].req < count
      BY <1>a, <1>b, <1>c, <2>1 DEF CountInv
    <3>2. A \in SUBSET Unasked(w, root[w].req)
      BY <3>1 DEF VarsAt, Unasked
    <3>3. Nowhere(c2f, f2c, A)
      BY <1>c, <3>2 DEF CountInv, Nowhere, NoneIn
    <3>4. q \notin A
      BY <1>1 DEF VarsAt
    <3> HIDE DEF A, B
    <3>5. Nowhere(c2f', f2c', A)
      BY <1>3, <3>3, <3>4
    <3>6. Ordered(c2f', f2c', A, B)
      BY <3>5 DEF Nowhere, Ordered, NoneIn, NoneAfter
    <3> QED
      BY <3>6 DEF A, B
  <2>2. q \notin OfOther(w, count, item[w].of)
    BY <1>d DEF OfOther
  <2> QED
    BY <1>b, <1>c, <1>3, <2>1, <2>2
    DEF ValueInv, Same, RootSame, ItemSame, CountSame
<1>8. DataInv(w) /\ data' = data => DataInv(w)'
  BY <1>b DEF DataInv, Same, RootSame, ItemSame, CountSame
<1> QED
  BY <1>4, <1>5, <1>6, <1>7, <1>8 DEF WatchInv

LEMMA AsksRootStep ==
    ASSUME TypesInv, NEW w \in Watches, AsksRoot(w), WatchInv(w)
    PROVE  /\ WatchInv(w)'
           /\ DataInv(w) /\ data' = data => DataInv(w)'
<1>a. /\ c2f \in Seq(FrameMsg) /\ f2c \in Seq(ContextMsg)
      /\ count \in Nat /\ root[w].req \in Int /\ root[w].upd \in Int
  BY WatchTypes
<1>b. /\ CountSame(w) /\ ItemSame(w) /\ c2f' = c2f
      /\ root'[w].req = count /\ root'[w].upd = root[w].upd
      /\ root'[w].data = root[w].data /\ root'[w].stack = root[w].stack
  BY DEF AsksRoot
<1>c. CountInv(w) /\ AnswerInv(w) /\ ChosenInv(w) /\ ValueInv(w)
  BY DEF WatchInv
<1>d. PICK u : Asks(u, {w}, count, chosen, {}) /\ f2c' = f2c \o u
  BY DEF AsksRoot
<1>1. /\ u \in Seq(ContextMsg)
      /\ \A i \in DOMAIN u : /\ u[i] \in VarsReq /\ u[i].watch = w
                             /\ u[i].count = count /\ u[i].frame = chosen
      /\ \E i \in DOMAIN u : u[i] \in VarsReq /\ u[i].watch = w
  BY <1>d DEF Asks
<1>2. \A A : NoneIn(f2c', A) <=> NoneIn(f2c, A) /\ NoneIn(u, A)
  BY <1>a, <1>d, <1>1, ConcatOrder
<1>3. /\ \A A : NoneIn(u, A) /\ Nowhere(c2f, f2c, A) => Nowhere(c2f', f2c', A)
      /\ \A A : ~Nowhere(c2f, f2c, A) => ~Nowhere(c2f', f2c', A)
      /\ \A A : ~NoneIn(u, A) => ~Nowhere(c2f', f2c', A)
  BY <1>b, <1>2 DEF Nowhere
<1>4. /\ NoneIn(u, Newer(w, count))
      /\ ~NoneIn(u, VarsAt(w, count))
      /\ NoneIn(u, Stray(w, count, chosen))
  BY <1>a, <1>1 DEF NoneIn, Newer, VarsAt, VarsMsg, Stray
<1>5. NoneIn(u, FieldsAt(w, count)) /\ NoneIn(u, OfOther(w, count, item[w].of))
  BY <1>1, KindTypes DEF NoneIn, FieldsAt, OfOther, FieldsMsg
<1>6. CountInv(w)'
  <2>1. Nowhere(c2f', f2c', Newer(w, count))
    BY <1>c, <1>3, <1>4 DEF CountInv
  <2>2. Unasked(w, count) \in SUBSET Newer(w, count)
    BY DEF Unasked, Newer, Traffic
  <2>3. Nowhere(c2f', f2c', Unasked(w, count))
    BY <2>1, <2>2 DEF Nowhere, NoneIn
  <2>4. root[w].upd <= count /\ count <= count
    BY <1>a, <1>c DEF CountInv
  <2> QED
    BY <1>b, <1>c, <2>1, <2>3, <2>4 DEF CountInv, CountSame, ItemSame
<1>7. AnswerInv(w)'
  BY <1>b, <1>c, <1>3, <1>4 DEF AnswerInv, CountSame, ItemSame
<1>8. ChosenInv(w)'
  BY <1>b, <1>c, <1>3, <1>4 DEF ChosenInv, CountSame
<1>9. ValueInv(w)'
  <2>1. ASSUME Ordered(c2f, f2c, VarsAt(w, count), FieldsAt(w, count))
        PROVE  Ordered(c2f', f2c', VarsAt(w, count), FieldsAt(w, count))
    <3> DEFINE A == VarsAt(w, count)
               B == FieldsAt(w, count)
    <3>1. NoneIn(u, B) /\ NoneAfter(f2c, A, B)
      BY <1>5, <2>1 DEF Ordered
    <3> HIDE DEF A, B
    <3>2. NoneAfter(u, A, B)
      BY <3>1 DEF NoneIn, NoneAfter
    <3>3. NoneAfter(f2c', A, B)
      BY <1>a, <1>d, <1>1, <3>1, <3>2, ConcatOrder
    <3>4. NoneIn(f2c, B) => NoneIn(f2c', B)
      BY <1>2, <3>1
    <3>5. NoneAfter(c2f, A, B) /\ (NoneIn(c2f, A) \/ NoneIn(f2c, B))
      BY <2>1 DEF Ordered, A, B
    <3>6. Ordered(c2f', f2c', A, B)
      BY <1>b, <3>3, <3>4, <3>5 DEF Ordered
    <3> QED
      BY <3>6 DEF A, B
  <2> QED
    BY <1>b, <1>c, <1>3, <1>5, <2>1 DEF ValueInv, CountSame, ItemSame
<1>10. DataInv(w) /\ data' = data => DataInv(w)'
  BY <1>b DEF DataInv, CountSame, ItemSame
<1> QED
  BY <1>6, <1>7, <1>8, <1>9, <1>10 DEF WatchInv

LEMMA TickedStep ==
    ASSUME TypesInv, NEW w \in Watches, Ticked(w), WatchInv(w)
    PROVE  WatchInv(w)' /\ DataInv(w)'
<1>a. /\ c2f \in Seq(FrameMsg) /\ f2c \in Seq(ContextMsg)
      /\ count \in Nat /\ root[w].req \in Int /\ root[w].upd \in Int
      /\ item[w].upd \in Int
  BY WatchTypes
<1>b. /\ count' = count + 1 /\ ItemSame(w)
      /\ root'[w].upd = root[w].upd
      /\ root'[w].data = root[w].data /\ root'[w].stack = root[w].stack
  BY DEF Ticked
<1>c. CountInv(w) /\ ValueInv(w)
  BY DEF WatchInv
<1>d. PICK ws, u : /\ Asks(u, ws, count + 1, chosen', BacktraceReq)
                   /\ \/ f2c' = f2c \o u
                      \/ /\ f2c' = Append(f2c \o u, TheSuccess)
                         /\ f2c \o u \in Seq(ContextMsg)
                   /\ root'[w].req = IF w \in ws THEN count + 1 ELSE root[w].req
  BY DEF Ticked
<1>1. /\ u \in Seq(ContextMsg)
      /\ \A i \in DOMAIN u : \/ /\ u[i] \in VarsReq /\ u[i].watch \in ws
                                /\ u[i].count = count + 1 /\ u[i].frame = chosen'
                             \/ u[i] \in BacktraceReq
      /\ w \in ws => \E i \in DOMAIN u : u[i] \in VarsReq /\ u[i].watch = w
  BY <1>d DEF Asks
<1>2. \A A \in SUBSET Traffic : NoneIn(c2f', A) <=> NoneIn(c2f, A)
  <2>1. Passes(FrameMsg, Traffic, c2f, c2f')
    BY DEF Ticked
  <2> QED
    BY <1>a, <2>1, Bystander
<1>3. \A A \in SUBSET Traffic : NoneIn(f2c', A) <=> NoneIn(f2c, A) /\ NoneIn(u, A)
  <2> SUFFICES ASSUME NEW A \in SUBSET Traffic
               PROVE  NoneIn(f2c', A) <=> NoneIn(f2c, A) /\ NoneIn(u, A)
    OBVIOUS
  <2> DEFINE v == f2c \o u
  <2>1. NoneIn(v, A) <=> NoneIn(f2c, A) /\ NoneIn(u, A)
    BY <1>a, <1>1, ConcatOrder
  <2>2. TheSuccess \in ContextMsg /\ TheSuccess \notin A
    BY SentTypes, TrafficKinds DEF ContextMsg
  <2>3. f2c' = v \/ (f2c' = Append(v, TheSuccess) /\ v \in Seq(ContextMsg))
    BY <1>d
  <2> HIDE DEF v
  <2>4. v \in Seq(ContextMsg) => (NoneIn(Append(v, TheSuccess), A) <=> NoneIn(v, A))
    BY <2>2, AppendOrder
  <2> QED
    BY <2>1, <2>3, <2>4
<1>4. /\ \A A \in SUBSET Newer(w, count) :
            NoneIn(c2f', A) /\ (NoneIn(u, A) => NoneIn(f2c', A))
      /\ \A A \in SUBSET Traffic : ~NoneIn(u, A) => ~NoneIn(f2c', A)
      /\ \A A \in SUBSET Traffic :
            NoneIn(u, A) /\ Nowhere(c2f, f2c, A) => Nowhere(c2f', f2c', A)
  <2>1. ASSUME NEW A \in SUBSET Newer(w, count)
        PROVE  A \in SUBSET Traffic /\ NoneIn(c2f, A) /\ NoneIn(f2c, A)
    BY <1>c DEF CountInv, Nowhere, NoneIn, Newer
  <2> QED
    BY <1>2, <1>3, <2>1 DEF Nowhere
<1>5. \A i \in DOMAIN u : u[i] \notin FieldsMsg
  BY <1>1, KindTypes DEF FieldsMsg
<1>6. \A m : m \in BacktraceReq => m \notin Traffic
  BY TrafficKinds
<1>7. root[w].req # count + 1 /\ root[w].upd # count + 1 /\ item[w].upd # count + 1
  BY <1>a, <1>c DEF CountInv
<1>8. CountInv(w)'
  <2>1. /\ root'[w].req <= count + 1 /\ root'[w].upd <= root'[w].req
        /\ item'[w].upd <= count + 1
    BY <1>a, <1>b, <1>c, <1>d DEF CountInv, ItemSame
  <2>2. Newer(w, count + 1) \in SUBSET Newer(w, count)
    BY <1>a, TrafficCounts DEF Newer
  <2>3. NoneIn(u, Newer(w, count + 1))
    BY <1>a, <1>1, <1>6 DEF NoneIn, Newer
  <2>4. Nowhere(c2f', f2c', Newer(w, count + 1))
    BY <1>4, <2>2, <2>3 DEF Nowhere
  <2>5. Nowhere(c2f', f2c', Unasked(w, root'[w].req))
    <3>1. CASE w \in ws
      <4>1. Unasked(w, count + 1) \in SUBSET Newer(w, count + 1)
        BY DEF Unasked, Newer, Traffic
      <4> QED
        BY <1>d, <2>4, <3>1, <4>1 DEF Nowhere, NoneIn
    <3>2. CASE w \notin ws
      <4>1. root'[w].req = root[w].req
        BY <1>d, <3>2
      <4>2. Unasked(w, root[w].req) \in SUBSET Traffic
        BY DEF Unasked, Traffic
      <4>3. NoneIn(u, Unasked(w, root[w].req))
        BY <1>1, <1>6, <3>2, <4>2 DEF NoneIn, Unasked
      <4> QED
        BY <1>c, <1>4, <4>1, <4>2, <4>3 DEF CountInv
    <3> QED
      BY <3>1, <3>2
  <2> QED
    BY <1>b, <2>1, <2>4, <2>5 DEF CountInv
<1>9. AnswerInv(w)'
  <2>1. ASSUME root'[w].req = count + 1 PROVE ~NoneIn(f2c', VarsAt(w, count + 1))
    <3>1. w \in ws
      BY <1>d, <1>7, <2>1
    <3>2. ~NoneIn(u, VarsAt(w, count + 1))
      BY <1>1, <3>1, KindTypes DEF NoneIn, VarsAt, VarsMsg
    <3>3. VarsAt(w, count + 1) \in SUBSET Traffic
      BY DEF VarsAt, Traffic
    <3> QED
      BY <1>4, <3>2, <3>3
  <2> QED
    BY <1>b, <1>7, <2>1 DEF AnswerInv, Nowhere
<1>10. VarsAt(w, count + 1) \in SUBSET Newer(w, count)
       /\ FieldsAt(w, count + 1) \in SUBSET Newer(w, count)
  BY <1>a DEF VarsAt, FieldsAt, Newer, Traffic
<1>11. ChosenInv(w)'
  <2>1. Stray(w, count + 1, chosen') \in SUBSET Newer(w, count)
    BY <1>10 DEF Stray
  <2>2. NoneIn(u, Stray(w, count + 1, chosen'))
    BY <1>1, <1>6 DEF NoneIn, Stray, VarsAt, Traffic
  <2>3. Nowhere(c2f', f2c', Stray(w, count + 1, chosen'))
    BY <1>4, <2>1, <2>2 DEF Nowhere
  <2> QED
    BY <1>b, <1>7, <2>3 DEF ChosenInv
<1>12. ValueInv(w)'
  <2> DEFINE A == VarsAt(w, count + 1)
             B == FieldsAt(w, count + 1)
  <2>1. NoneIn(u, B)
    BY <1>5 DEF NoneIn, FieldsAt
  <2>2. NoneIn(c2f', B) /\ NoneIn(f2c', B)
    BY <1>4, <1>10, <2>1
  <2> HIDE DEF A, B
  <2>3. Ordered(c2f', f2c', A, B)
    BY <2>2 DEF Ordered, NoneAfter, NoneIn
  <2>4. Ordered(c2f', f2c', VarsAt(w, count + 1), FieldsAt(w, count + 1))
    BY <2>3 DEF A, B
  <2> QED
    BY <1>b, <1>c, <1>7, <2>4 DEF ValueInv, ItemSame
<1>13. DataInv(w)'
  <2>1. Outdated(w, count + 1, data') \in SUBSET Newer(w, count)
    BY <1>a DEF Outdated, Newer, Traffic, VarsMsg, FieldsMsg
  <2> QED
    BY <1>b, <1>4, <1>7, <2>1 DEF DataInv, ItemSame
<1> QED
  BY <1>8, <1>9, <1>11, <1>12, <1>13 DEF WatchInv

LEMMA WatchStep ==
    ASSUME TypesInv, [Next]_vars, NEW w \in Watches, WatchInv(w)
    PROVE  /\ WatchInv(w)'
           /\ DataInv(w) /\ data' = data => DataInv(w)'
  BY WatchSteps, UntouchedStep, RelayedStep, DroppedStep, RootTakenStep, ItemTakenStep,
     AsksFieldsStep, AsksRootStep, TickedStep

LEMMA WatchInit == ASSUME Init, NEW w \in Watches PROVE WatchInv(w) /\ DataInv(w)
<1>1. /\ root[w] = [req |-> -1, upd |-> -1, data |-> 0, stack |-> 0]
      /\ item[w] = NoItem /\ ~early[w] /\ count = 0 /\ c2f = <<>> /\ f2c = <<>>
  BY DEF Init
<1>2. /\ root[w].req = -1 /\ root[w].upd = -1
      /\ item[w].id = 0 /\ item[w].upd = -1
  BY <1>1 DEF NoItem
<1>3. \A A : NoneIn(c2f, A) /\ NoneIn(f2c, A)
  BY <1>1 DEF NoneIn
<1>4. \A A, B : Ordered(c2f, f2c, A, B)
  BY <1>3 DEF Ordered, NoneIn, NoneAfter
<1>5. -1 <= 0 /\ -1 # 0 /\ -1 <= -1
  OBVIOUS
<1>6. CountInv(w) /\ AnswerInv(w) /\ ChosenInv(w)
  BY <1>1, <1>2, <1>3, <1>5 DEF CountInv, AnswerInv, ChosenInv, Nowhere
<1>7. ValueInv(w) /\ DataInv(w)
  BY <1>1, <1>2, <1>3, <1>4, <1>5 DEF ValueInv, DataInv
<1> QED
  BY <1>6, <1>7 DEF WatchInv

(* In a stop that is shown, and until a label is edited, each watch that is  *)
(* shown has asked for its root at this count.                               *)
AskedInv == Shown /\ ~edited => \A w \in Watches : shown[w] => root[w].req = count

LEMMA AskedStep ==
    ASSUME TypesInv, WaitInv, StateInv, \A w \in Watches : CountInv(w), AskedInv,
           [Next]_vars
    PROVE  AskedInv'
<1> USE DEF program, loop, trees, frame
<1> SUFFICES ASSUME Shown', ~edited', NEW w \in Watches, shown'[w]
             PROVE  root'[w].req = count'
  BY DEF AskedInv
<1>a. /\ count \in Nat /\ root[w].req \in Int /\ root[w].req <= count
      /\ \A v \in Watches : root[v].req = root[v].req
  BY WatchTypes DEF CountInv
<1>b. CASE OnUpdateSource
  <2>1. /\ RootsAsked(Refreshed, count + 1) /\ count' = count + 1 /\ shown' = shown
    BY <1>b, OnUpdateSourceDoes
  <2>2. enabled
    BY <1>b, UpdateFacts
  <2> QED
    BY <2>1, <2>2 DEF RootsAsked, Refreshed
<1>c. CASE Shown /\ ~Run /\ ~OnUpdateSource
  <2>a. enabled
    BY <1>c DEF StateInv
  <2>b. ~edited => \A v \in Watches : shown[v] => root[v].req = count
    BY <1>c DEF AskedInv
  <2>c. ASSUME UNCHANGED <<edited, shown, root, count>> PROVE root'[w].req = count'
    BY <2>b, <2>c
  <2>1. CASE SendUpdateSource
    BY <2>1, <2>c, SendUpdateSourceDoes
  <2>2. CASE HandleResume
    BY <2>2, <2>c, HandleResumeDoes
  <2>3. CASE HandleForceUpdateSource
    BY <2>3, <2>c, HandleForceDoes
  <2>4. CASE HandleSuccessed
    BY <2>4, <2>c, HandleSuccessedDoes
  <2>5. CASE HandleRequest
    BY <2>5, <2>c, HandleRequestDoes
  <2>6. CASE HandleEval
    BY <2>6, <2>c, HandleEvalDoes
  <2>7. CASE OnVars
    <3>1. UNCHANGED <<edited, shown, count>>
      BY <2>7, OnVarsDoes
    <3>2. \/ root'[w] = root[w]
          \/ root'[w].req = count
      <4> DEFINE m == Head(c2f)
                 r == [req |-> count, upd |-> count, data |-> m.data, stack |-> m.frame]
      <4>1. root' = root \/ root' = [root EXCEPT ![m.watch] = r]
        BY <2>7, OnVarsDoes
      <4>2. r.req = count /\ w \in DOMAIN root
        BY DEF TypesInv, TypeOK
      <4> HIDE DEF m, r
      <4> QED
        BY <4>1, <4>2
    <3> QED
      BY <2>b, <3>1, <3>2
  <2>8. CASE OnFields
    BY <2>8, <2>c, OnFieldsDoes
  <2>9. CASE OnBacktrace
    BY <2>9, <2>c, OnBacktraceDoes
  <2>10. CASE OnValues
    BY <2>10, <2>c, OnValuesDoes
  <2>11. CASE OnChangedState
    BY <2>11, <2>c, OnChangedStateDoes
  <2>12. CASE Resume
    BY <2>12, <2>c, ResumeDoes
  <2>13. CASE Eval
    BY <2>13, <2>c, EvalDoes
  <2>14. CASE FocusBacktraceLine
    <3>1. /\ RootsAsked(Refreshed, count + 1) /\ count' = count + 1 /\ shown' = shown
      BY <2>14, FocusDoes
    <3> QED
      BY <2>a, <3>1 DEF RootsAsked, Refreshed
  <2>15. CASE EditLabel
    BY <2>15, EditLabelDoes
  <2>16. ASSUME NEW v \in Watches, Expand(v) PROVE root'[w].req = count'
    BY <2>16, <2>c, ExpandDoes
  <2>17. ASSUME NEW v \in Watches, Hide(v) PROVE root'[w].req = count'
    <3>1. shown[w] /\ UNCHANGED <<edited, root, count>>
      BY <2>17, HideDoes
    <3> QED
      BY <2>b, <3>1
  <2>18. ASSUME NEW v \in Watches, Show(v) PROVE root'[w].req = count'
    <3>1. (shown[w] \/ w = v) /\ UNCHANGED <<edited, count, enabled>>
      BY <2>18, ShowDoes
    <3>2. CASE RootsAsked({v}, count)
      BY <2>b, <3>1, <3>2 DEF RootsAsked
    <3>3. CASE (enabled => root[v].req >= count) /\ root' = root
      <4>1. CASE w = v
        <5>1. root[w].req >= count
          BY <2>a, <3>3, <4>1
        <5> QED
          BY <1>a, <3>1, <3>3, <5>1
      <4>2. CASE w # v
        BY <2>b, <3>1, <3>3, <4>2
      <4> QED
        BY <4>1, <4>2
    <3> QED
      BY <2>18, <3>2, <3>3, ShowDoes
  <2>19. CASE UNCHANGED vars
    BY <2>19, <2>c DEF vars
  <2> QED
    BY <1>c, <2>1, <2>2, <2>3, <2>4, <2>5, <2>6, <2>7, <2>8, <2>9, <2>10, <2>11, <2>12,
       <2>13, <2>14, <2>15, <2>16, <2>17, <2>18, <2>19
    DEF Next, Context, Frame, User
<1> QED
  BY <1>b, <1>c, ShownBefore

(* A stop of which no update is due any more.                                *)
Refreshing == {m \in ValuesAns : m.successed}
Settled ==
    /\ Told /\ ~isMustUpdate
    /\ NoneIn(c2f, UpdateMsg) /\ NoneIn(c2f, Refreshing) /\ NoneIn(f2c, ForceReq)

SettledInv == Settled /\ ~silent => \A w \in Watches : DataInv(w)

(* It comes to be settled by the update that is taken, and while it is the   *)
(* data does not change.                                                     *)
LEMMA SettledBefore ==
    ASSUME TypesInv, [Next]_vars, Settled', ~silent'
    PROVE  OnUpdateSource \/ (Settled /\ ~silent /\ data' = data)
<1> USE DEF program, loop, trees, frame
<1>a. c2f \in Seq(FrameMsg) /\ f2c \in Seq(ContextMsg)
  BY DEF TypesInv
<1>b. /\ stopped' /\ prevBreak' /\ ~isMustUpdate' /\ NoneIn(c2f', UpdateMsg)
      /\ NoneIn(c2f', Refreshing) /\ NoneIn(f2c', ForceReq)
  BY DEF Settled, Told
<1>c. ASSUME stopped, prevBreak, ~isMustUpdate, NoneIn(c2f, UpdateMsg),
             NoneIn(c2f, Refreshing), NoneIn(f2c, ForceReq)
      PROVE  Settled
  BY <1>c DEF Settled, Told
<1>d. /\ \A m \in FrameMsg : \A A : NoneIn(Append(c2f, m), A) <=> NoneIn(c2f, A) /\ m \notin A
      /\ \A m \in ContextMsg : \A A :
            NoneIn(Append(f2c, m), A) <=> NoneIn(f2c, A) /\ m \notin A
      /\ c2f # <<>> => \A A : NoneIn(c2f, A) <=> NoneIn(Tail(c2f), A) /\ Head(c2f) \notin A
      /\ f2c # <<>> => \A A : NoneIn(f2c, A) <=> NoneIn(Tail(f2c), A) /\ Head(f2c) \notin A
  BY <1>a, AppendOrder, TailOrder
<1>e. /\ \A m : m \in VarsAns \/ m \in FieldsAns \/ m \in BacktraceAns \/ m \in StateMsg
                => m \notin UpdateMsg /\ m \notin Refreshing
      /\ \A m : m \in ValuesAns => m \notin UpdateMsg
      /\ \A m : \/ m \in VarsReq \/ m \in FieldsReq \/ m \in EvalReq \/ m \in BacktraceReq
                \/ m \in ResumeReq \/ m \in SuccessMsg
                => m \notin ForceReq
  BY KindsDiffer DEF Refreshing
<1>1. CASE Run
  BY <1>1, <1>b, RunDoes
<1>2. CASE SendUpdateSource
  <2>1. /\ c2f' = Append(c2f, UpdateOf(prevBreak)) /\ UpdateOf(prevBreak) \in UpdateMsg
        /\ UpdateOf(prevBreak) \in FrameMsg
    BY <1>2, SendUpdateSourceDoes, SentTypes DEF FrameMsg
  <2> QED
    BY <1>b, <1>d, <2>1
<1>3. CASE HandleResume
  <2>1. /\ f2c # <<>> /\ Head(f2c) \in ResumeReq /\ f2c' = Tail(f2c)
        /\ UNCHANGED <<prevBreak, isMustUpdate, silent, data>>
        /\ stopped' => stopped' = stopped /\ c2f' = c2f
    BY <1>3, HandleResumeDoes
  <2> QED
    BY <1>b, <1>c, <1>d, <1>e, <2>1
<1>4. CASE HandleForceUpdateSource
  BY <1>4, <1>b, HandleForceDoes
<1>5. CASE HandleSuccessed
  <2>1. /\ f2c # <<>> /\ Head(f2c) \in SuccessMsg /\ f2c' = Tail(f2c)
        /\ UNCHANGED <<stopped, prevBreak, isMustUpdate, silent, data, c2f>>
    BY <1>5, HandleSuccessedDoes
  <2> QED
    BY <1>b, <1>c, <1>d, <1>e, <2>1
<1>6. CASE HandleRequest
  <2>1. /\ f2c # <<>> /\ f2c' = Tail(f2c)
        /\ UNCHANGED <<stopped, prevBreak, isMustUpdate, silent, data>>
        /\ \/ Head(f2c) \in VarsReq /\ c2f' = Append(c2f, VarsAnswer(Head(f2c)))
           \/ Head(f2c) \in FieldsReq /\ c2f' = Append(c2f, FieldsAnswer(Head(f2c)))
           \/ Head(f2c) \in BacktraceReq /\ c2f' = Append(c2f, BacktraceOf(stack))
    BY <1>6, HandleRequestDoes
  <2>2. /\ \A m \in VarsReq : VarsAnswer(m) \in FrameMsg
        /\ \A m \in FieldsReq : FieldsAnswer(m) \in FrameMsg
        /\ BacktraceOf(stack) \in FrameMsg
    BY AnswerTypes, SentTypes DEF TypesInv, TypeOK, FrameMsg
  <2>3. NoneIn(f2c, ForceReq)
    BY <1>b, <1>d, <1>e, <2>1
  <2>4. NoneIn(c2f, UpdateMsg) /\ NoneIn(c2f, Refreshing)
    BY <1>b, <1>d, <2>1, <2>2
  <2> QED
    BY <1>b, <1>c, <2>1, <2>3, <2>4
<1>7. CASE HandleEval
  <2>1. /\ f2c # <<>> /\ Head(f2c) \in EvalReq /\ f2c' = Tail(f2c)
        /\ UNCHANGED <<stopped, prevBreak, isMustUpdate>>
    BY <1>7, HandleEvalDoes
  <2>2. PICK changes \in BOOLEAN, s \in BOOLEAN :
           /\ data' = IF changes THEN data + 1 ELSE data
           /\ c2f' = Append(c2f, ValuesOf(s))
           /\ silent' = (silent \/ (changes /\ ~s))
    BY <1>7, HandleEvalDoes
  <2>3. ValuesOf(s) \in ValuesAns /\ ValuesOf(s).successed = s /\ ValuesOf(s) \in FrameMsg
    BY SentTypes DEF FrameMsg
  <2>4. /\ NoneIn(c2f, UpdateMsg) /\ NoneIn(c2f, Refreshing)
        /\ ValuesOf(s) \notin Refreshing
    BY <1>b, <1>d, <2>2, <2>3
  <2>5. ~s
    BY <2>3, <2>4 DEF Refreshing
  <2>6. ~silent /\ ~changes
    BY <2>2, <2>5
  <2>7. NoneIn(f2c, ForceReq)
    BY <1>b, <1>d, <1>e, <2>1
  <2> QED
    BY <1>b, <1>c, <2>1, <2>2, <2>4, <2>6, <2>7
<1>8. CASE OnVars
  <2>1. /\ c2f # <<>> /\ Head(c2f) \in VarsAns /\ c2f' = Tail(c2f)
        /\ UNCHANGED <<stopped, prevBreak, isMustUpdate, silent, data>>
        /\ f2c' = f2c \/ \E m \in FieldsReq : f2c' = Append(f2c, m)
    BY <1>8, OnVarsDoes
  <2>2. \A m \in FieldsReq : m \in ContextMsg
    BY DEF ContextMsg
  <2>3. NoneIn(f2c, ForceReq)
    BY <1>b, <1>d, <2>1, <2>2
  <2> QED
    BY <1>b, <1>c, <1>d, <1>e, <2>1, <2>3
<1>9. CASE OnFields
  <2>1. /\ c2f # <<>> /\ Head(c2f) \in FieldsAns /\ c2f' = Tail(c2f) /\ f2c' = f2c
        /\ UNCHANGED <<stopped, prevBreak, isMustUpdate, silent, data>>
    BY <1>9, OnFieldsDoes
  <2> QED
    BY <1>b, <1>c, <1>d, <1>e, <2>1
<1>10. CASE OnBacktrace
  <2>1. /\ c2f # <<>> /\ Head(c2f) \in BacktraceAns /\ c2f' = Tail(c2f) /\ f2c' = f2c
        /\ UNCHANGED <<stopped, prevBreak, isMustUpdate, silent, data>>
    BY <1>10, OnBacktraceDoes
  <2> QED
    BY <1>b, <1>c, <1>d, <1>e, <2>1
<1>11. CASE OnValues
  <2>1. /\ c2f # <<>> /\ Head(c2f) \in ValuesAns /\ c2f' = Tail(c2f)
        /\ \/ Head(c2f).successed /\ f2c' = Append(f2c, TheForce)
           \/ ~Head(c2f).successed /\ f2c' = f2c
        /\ UNCHANGED <<stopped, prevBreak, isMustUpdate, silent, data>>
    BY <1>11, OnValuesDoes
  <2>2. TheForce \in ForceReq /\ TheForce \in ContextMsg
    BY SentTypes DEF ContextMsg
  <2>3. ~Head(c2f).successed /\ f2c' = f2c
    BY <1>b, <1>d, <2>1, <2>2
  <2>4. Head(c2f) \notin Refreshing
    BY <2>3 DEF Refreshing
  <2> QED
    BY <1>b, <1>c, <1>d, <1>e, <2>1, <2>3, <2>4
<1>12. CASE OnChangedState
  <2>1. /\ c2f # <<>> /\ Head(c2f) \in StateMsg /\ c2f' = Tail(c2f)
        /\ f2c' = f2c \/ f2c' = Append(f2c, TheBacktrace)
        /\ UNCHANGED <<stopped, prevBreak, isMustUpdate, silent, data>>
    BY <1>12, OnChangedStateDoes
  <2>2. TheBacktrace \in ContextMsg
    BY SentTypes DEF ContextMsg
  <2>3. NoneIn(f2c, ForceReq)
    BY <1>b, <1>d, <2>1, <2>2
  <2> QED
    BY <1>b, <1>c, <1>d, <1>e, <2>1, <2>3
<1>13. ASSUME UNCHANGED <<stopped, prevBreak, isMustUpdate, silent, data, c2f>>,
              f2c' = f2c \/ \E m \in ContextMsg : f2c' = Append(f2c, m)
       PROVE  Settled /\ ~silent /\ data' = data
  <2>1. NoneIn(f2c, ForceReq)
    BY <1>b, <1>d, <1>13
  <2> QED
    BY <1>b, <1>c, <1>13, <2>1
<1>14. ASSUME UNCHANGED <<stopped, prevBreak, isMustUpdate, silent, data, c2f>>,
              NEW ws, NEW n, NEW fr, NEW u, Asks(u, ws, n, fr, {}), f2c' = f2c \o u
       PROVE  Settled /\ ~silent /\ data' = data
  <2>1. u \in Seq(ContextMsg)
    BY <1>14 DEF Asks
  <2>2. NoneIn(f2c, ForceReq)
    BY <1>a, <1>b, <1>14, <2>1, ConcatOrder
  <2> QED
    BY <1>b, <1>c, <1>14, <2>2
<1>15. CASE Resume
  <2>1. TheResume \in ContextMsg
    BY SentTypes DEF ContextMsg
  <2> QED
    BY <1>13, <1>15, <2>1, ResumeDoes
<1>16. CASE Eval
  <2>1. EvalOf(chosen, late) \in ContextMsg
    BY <1>16, EvalDoes DEF ContextMsg
  <2> QED
    BY <1>13, <1>16, <2>1, EvalDoes
<1>17. CASE FocusBacktraceLine
  <2>1. \E u : Asks(u, Refreshed, count + 1, chosen', {}) /\ f2c' = f2c \o u
    BY <1>17, FocusDoes
  <2>2. UNCHANGED <<stopped, prevBreak, isMustUpdate, silent, data, c2f>>
    BY <1>17, FocusDoes
  <2> QED
    BY <1>14, <2>1, <2>2
<1>18. CASE EditLabel
  BY <1>13, <1>18, EditLabelDoes
<1>19. ASSUME NEW v \in Watches, Expand(v) PROVE Settled /\ ~silent /\ data' = data
  <2>1. \E m \in ContextMsg : f2c' = Append(f2c, m)
    BY <1>19, ExpandDoes DEF FieldsAsked, ContextMsg
  <2>2. UNCHANGED <<stopped, prevBreak, isMustUpdate, silent, data, c2f>>
    BY <1>19, ExpandDoes
  <2> QED
    BY <1>13, <2>1, <2>2
<1>20. ASSUME NEW v \in Watches, Hide(v) PROVE Settled /\ ~silent /\ data' = data
  BY <1>13, <1>20, HideDoes
<1>21. ASSUME NEW v \in Watches, Show(v) PROVE Settled /\ ~silent /\ data' = data
  <2>1. UNCHANGED <<stopped, prevBreak, isMustUpdate, silent, data, c2f>>
    BY <1>21, ShowDoes
  <2>2. \/ f2c' = f2c
        \/ \E m \in ContextMsg : f2c' = Append(f2c, m)
        \/ \E u : Asks(u, {v}, count, chosen, {}) /\ f2c' = f2c \o u
    BY <1>21, ShowDoes DEF FieldsAsked, ContextMsg
  <2> QED
    BY <1>13, <1>14, <2>1, <2>2
<1>22. CASE UNCHANGED vars
  BY <1>13, <1>22 DEF vars
<1> QED
  BY <1>1, <1>2, <1>3, <1>4, <1>5, <1>6, <1>7, <1>8, <1>9, <1>10, <1>11, <1>12,
     <1>15, <1>16, <1>17, <1>18, <1>19, <1>20, <1>21, <1>22
  DEF Next, Context, Frame, User

LEMMA SettledStep ==
    ASSUME TypesInv, \A w \in Watches : WatchInv(w), SettledInv, [Next]_vars
    PROVE  SettledInv'
<1> SUFFICES ASSUME Settled', ~silent', NEW w \in Watches
             PROVE  DataInv(w)'
  BY DEF SettledInv
<1>1. CASE OnUpdateSource
  BY <1>1, TickedByUpdate, TickedStep
<1>2. CASE Settled /\ ~silent /\ data' = data
  <2>1. DataInv(w)
    BY <1>2 DEF SettledInv
  <2> QED
    BY <1>2, <2>1, WatchStep
<1> QED
  BY <1>1, <1>2, SettledBefore

-----------------------------------------------------------------------------
(* What the views show *)

ViewsInv ==
    /\ TypesInv /\ WaitInv /\ StateInv /\ BacktraceInv
    /\ \A w \in Watches : WatchInv(w)
    /\ AskedInv /\ SettledInv

LEMMA ViewsInit == ASSUME Init PROVE ViewsInv
<1>1. ~stopped
  BY DEF Init
<1>2. AskedInv
  BY <1>1 DEF AskedInv, Shown, Told
<1>3. SettledInv
  BY <1>1 DEF SettledInv, Settled, Told
<1> QED
  BY <1>2, <1>3, TypesInit, NoCounts, StateInit, BacktraceInit, WatchInit DEF ViewsInv

LEMMA ViewsStep == ASSUME ViewsInv, [Next]_vars PROVE ViewsInv'
<1>a. /\ TypesInv /\ WaitInv /\ StateInv /\ BacktraceInv /\ AskedInv /\ SettledInv
      /\ \A w \in Watches : WatchInv(w)
  BY DEF ViewsInv
<1>b. \A w \in Watches : CountInv(w)
  BY <1>a DEF WatchInv
<1>1. TypesInv' /\ WaitInv' /\ StateInv' /\ BacktraceInv'
  BY <1>a, TypesStep, WaitStep, StateStep, BacktraceStep
<1>2. \A w \in Watches : WatchInv(w)'
  BY <1>a, WatchStep
<1>3. AskedInv' /\ SettledInv'
  BY <1>a, <1>b, AskedStep, SettledStep
<1> QED
  BY <1>1, <1>2, <1>3 DEF ViewsInv

(* Nothing is on its way: the stop is shown, and settled.                    *)
LEMMA QuietFacts ==
    ASSUME Quiet
    PROVE  /\ \A A : NoneIn(c2f, A) /\ NoneIn(f2c, A)
           /\ Shown /\ Settled
<1>1. \A A : NoneIn(c2f, A) /\ NoneIn(f2c, A)
  BY DEF Quiet, NoneIn
<1> QED
  BY <1>1 DEF Quiet, Shown, Told, Settled

LEMMA QuietWatches ==
    ASSUME ViewsInv, Quiet, NEW w \in Watches
    PROVE  /\ shown[w] => root[w].upd = count \/ edited
           /\ root[w].upd = count => /\ root[w].data = data \/ silent
                                     /\ root[w].stack = chosen
<1>1. /\ \A A : NoneIn(c2f, A) /\ NoneIn(f2c, A)
      /\ Shown /\ Settled
  BY QuietFacts
<1>2. AskedInv /\ SettledInv /\ AnswerInv(w) /\ ChosenInv(w)
  BY DEF ViewsInv, WatchInv
<1>3. shown[w] => root[w].req = count \/ edited
  BY <1>1, <1>2 DEF AskedInv
<1>4. root[w].req = count => root[w].upd = count
  BY <1>1, <1>2 DEF AnswerInv, Nowhere
<1>5. ~silent => DataInv(w)
  BY <1>1, <1>2 DEF SettledInv
<1> QED
  BY <1>2, <1>3, <1>4, <1>5 DEF DataInv, ChosenInv

LEMMA QuietBacktrace == ASSUME ViewsInv, Quiet PROVE backtrace = stack
<1>1. /\ \A A : NoneIn(c2f, A) /\ NoneIn(f2c, A)
      /\ Shown
  BY QuietFacts
<1>2. BacktraceComes({})
  BY <1>1 DEF ViewsInv, BacktraceInv
<1> QED
  BY <1>1, <1>2 DEF BacktraceComes

LEMMA QuietFields ==
    ASSUME ViewsInv, Quiet, NEW w \in Watches,
           root[w].upd = count, item[w] # NoItem, ~early[w]
    PROVE  /\ item[w].of = root[w].data
           /\ item[w].upd = count
           /\ item[w].fields = <<item[w].of, data>> \/ silent
<1>1. /\ \A A : NoneIn(c2f, A) /\ NoneIn(f2c, A)
      /\ Settled
  BY QuietFacts
<1>2. TypesInv /\ SettledInv /\ AnswerInv(w) /\ ValueInv(w)
  BY DEF ViewsInv, WatchInv
<1>3. item[w].id # 0
  BY <1>2 DEF TypesInv
<1>4. item[w].of = root[w].data
  BY <1>2, <1>3 DEF ValueInv
<1>5. item[w].upd = count
  BY <1>1, <1>2, <1>3 DEF AnswerInv, Nowhere
<1>6. Len(item[w].fields) = 2 /\ item[w].fields[1] = item[w].of
  BY <1>2, <1>3, <1>5 DEF ValueInv
<1>7. ~silent => item[w].fields[2] = data
  BY <1>1, <1>2, <1>5 DEF SettledInv, DataInv
<1>8. item[w].fields \in Seq(Nat)
  <2>1. item[w] \in ItemRec
    BY <1>2 DEF TypesInv, TypeOK, ItemRec
  <2> QED
    BY <2>1 DEF ItemRec
<1> QED
  BY <1>4, <1>5, <1>6, <1>7, <1>8

(* Once nothing more is on its way about a stop, each watch view shows the   *)
(* variables of this stop and of the chosen frame, and the backtrace the     *)
(* stop's threads and functions, however many requests, answers, stops and   *)
(* refreshes overtook each other (watchview.cpp:166, backtraceview.cpp:135); *)
(* the exceptions are those that WatchesShowTheStop names.                   *)
THEOREM ViewsAlwaysShowTheStop == Spec => []ViewsShowTheStop
<1>1. Init => ViewsInv
  BY ViewsInit
<1>2. ViewsInv /\ [Next]_vars => ViewsInv'
  BY ViewsStep
<1>3. ViewsInv => ViewsShowTheStop
  <2> HAVE ViewsInv
  <2>1. TypeOK
    BY DEF ViewsInv, TypesInv
  <2>2. WatchesShowTheStop
    BY QuietWatches DEF WatchesShowTheStop
  <2>3. BacktraceIsOfTheStop
    BY QuietBacktrace DEF BacktraceIsOfTheStop
  <2> QED
    BY <2>1, <2>2, <2>3 DEF ViewsShowTheStop
<1> QED
  BY <1>1, <1>2, <1>3, PTL DEF Spec

(* And the fields under a variable are then those of its value, unless they  *)
(* were asked for between the request for the variables and its answer       *)
(* (watchview.cpp:319): a late answer for the fields of an old value is      *)
(* never the one that stays.                                                 *)
THEOREM FieldsAlwaysOfTheValue == Spec => []FieldsAreOfTheValue
<1>1. Init => ViewsInv
  BY ViewsInit
<1>2. ViewsInv /\ [Next]_vars => ViewsInv'
  BY ViewsStep
<1>3. ViewsInv => FieldsAreOfTheValue
  BY QuietFields DEF FieldsAreOfTheValue
<1> QED
  BY <1>1, <1>2, <1>3, PTL DEF Spec

=============================================================================
