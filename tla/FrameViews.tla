----------------------------- MODULE FrameViews -----------------------------
(***************************************************************************)
(* The frame's views of a stopped program: the watch views with their tree *)
(* items, the backtrace, and the evaluations of the interactive view.  A   *)
(* view asks, the context answers from its loop, and by then the program,  *)
(* the chosen stack frame, the update count or the tree may be others.     *)
(* The channels are those of BreakSession, without the loss of the         *)
(* connection; the two counts, which agree (CountsConverge there), are     *)
(* one.  The program's data is a number that grows whenever it may have    *)
(* changed; a watch has one variable, a table that is there or not.        *)
(***************************************************************************)
EXTENDS Integers, Sequences, FiniteSets, SequencesExt

CONSTANTS
    Watches,   (* the watch views                                          *)
    MaxMoves,  (* bound: how often the program runs on                     *)
    MaxActions (* bound: what the user does                                *)

ASSUME ViewsAssumption ==
    /\ IsFiniteSet(Watches)
    /\ MaxMoves \in Nat
    /\ MaxActions \in Nat

VARIABLES
    data,         (* the program's data                                    *)
    has,          (* it has the variable                                   *)
    stack,        (* the threads and functions that are active             *)
    stopped,      (* m_debugState = DEBUGSTATE_BREAK                       *)
    prevBreak,    (* prevState = DEBUGSTATE_BREAK                          *)
    isMustUpdate, (* m_isMustUpdate                                        *)
    wait,         (* m_waitUpdateCount                                     *)
    moves,        (* bound                                                 *)
    c2f, f2c,     (* the two channels                                      *)
    count,        (* Mediator::m_updateCount                               *)
    chosen,       (* m_stackFrame: the stack it is of, 0 for the innermost *)
                  (* frame of any stack                                    *)
    enabled,      (* IsEnabled of the views                                *)
    shown,        (* IsShown of each watch                                 *)
    root,         (* the root item of each watch                           *)
    item,         (* the variable's item of each watch                     *)
    backtrace,    (* the stack whose lines the backtrace shows             *)
    actions,      (* bound                                                 *)
    late,         (* history, since a stop was shown: the user has sent    *)
                  (* the program on, or chosen from a backtrace that was   *)
                  (* awaited, ...                                          *)
    edited,       (* since the last UPDATE_SOURCE: a label was edited, ... *)
    silent,       (* an evaluation changed data without a refresh, ...     *)
    early         (* and of each watch: fields were asked for while the    *)
                  (* answer for the root was awaited                       *)

program == <<data, has, stack, moves>>
loop == <<stopped, prevBreak, isMustUpdate, wait>>
trees == <<shown, root, item, early>>
frame == <<count, chosen, enabled, backtrace, actions, late, edited>>
vars == <<program, loop, c2f, f2c, trees, frame, silent>>

Counts == Nat \cup {-1}
NoItem == [id |-> 0, req |-> -1, upd |-> -1, of |-> 0, fields |-> <<>>]

TypeOK ==
    /\ data \in Nat /\ has \in BOOLEAN /\ stack \in Nat
    /\ stopped \in BOOLEAN /\ prevBreak \in BOOLEAN
    /\ isMustUpdate \in BOOLEAN /\ wait \in Nat
    /\ moves \in 0 .. MaxMoves /\ actions \in 0 .. MaxActions
    /\ count \in Nat /\ chosen \in Nat
    /\ enabled \in BOOLEAN /\ shown \in [Watches -> BOOLEAN]
    /\ root \in [Watches -> [req : Counts, upd : Counts, data : Nat, stack : Nat]]
    /\ item \in [Watches -> [id : Nat, req : Counts, upd : Counts, of : Nat,
                             fields : Seq(Nat)]]
    /\ backtrace \in Nat
    /\ late \in BOOLEAN /\ edited \in BOOLEAN /\ silent \in BOOLEAN
    /\ early \in [Watches -> BOOLEAN]

Init ==
    /\ data = 0 /\ has = FALSE /\ stack = 1 /\ moves = 0
    /\ stopped = FALSE /\ prevBreak = FALSE /\ isMustUpdate = FALSE /\ wait = 0
    /\ c2f = <<>> /\ f2c = <<>>
    /\ count = 0 /\ chosen = 0 /\ enabled = TRUE
    /\ shown \in [Watches -> BOOLEAN]
    /\ root = [w \in Watches |-> [req |-> -1, upd |-> -1, data |-> 0, stack |-> 0]]
    /\ item = [w \in Watches |-> NoItem]
    /\ backtrace = 0 /\ actions = 0
    /\ late = FALSE /\ edited = FALSE /\ silent = FALSE
    /\ early = [w \in Watches |-> FALSE]

-----------------------------------------------------------------------------
(* The context *)

ToFrame(msgs) == c2f' = c2f \o msgs

ChangedState(isBreak) == <<[type |-> "CHANGED_STATE", isBreak |-> isBreak]>>

(* The program runs on; the line hook it comes to may stop it.              *)
Run ==
    /\ ~stopped
    /\ moves < MaxMoves
    /\ moves' = moves + 1
    /\ data' = data + 1
    /\ has' \in BOOLEAN
    /\ stack' \in {stack, stack + 1}
    /\ stopped' \in BOOLEAN
    /\ prevBreak' = FALSE
    /\ ToFrame(IF stopped' THEN ChangedState(TRUE) ELSE <<>>)
    /\ UNCHANGED <<isMustUpdate, wait, f2c, trees, frame, silent>>

(* HookCallback's loop, once HandleCommand has returned. *)
SendUpdateSource ==
    /\ stopped
    /\ isMustUpdate \/ ~prevBreak
    /\ isMustUpdate' = FALSE
    /\ prevBreak' = TRUE
    /\ wait' = wait + 1
    /\ ToFrame(<<[type |-> "UPDATE_SOURCE", isRefreshOnly |-> prevBreak]>>)
    /\ UNCHANGED <<program, stopped, f2c, trees, frame, silent>>

(* HandleCommand takes the first command, at a line hook or in its loop.    *)
Receives(type) == f2c # <<>> /\ Head(f2c).type = type /\ f2c' = Tail(f2c)

(* SetDebugState ends a stop only if the user has been shown all of it.     *)
Obeys == stopped /\ wait = 0

HandleResume ==
    /\ Receives("RESUME")
    /\ stopped' = (stopped /\ ~Obeys)
    /\ ToFrame(IF Obeys THEN ChangedState(FALSE) ELSE <<>>)
    /\ UNCHANGED <<program, prevBreak, isMustUpdate, wait, trees, frame, silent>>

HandleForceUpdateSource ==
    /\ Receives("FORCE_UPDATESOURCE")
    /\ isMustUpdate' = TRUE
    /\ UNCHANGED <<program, stopped, prevBreak, wait, c2f, trees, frame, silent>>

(* UpdateResponseWaiter *)
Answered == wait - 1

HandleSuccessed ==
    /\ Receives("SUCCESSED")
    /\ wait' = Answered
    /\ UNCHANGED <<program, stopped, prevBreak, isMustUpdate, c2f, trees, frame,
                   silent>>

(* An answer repeats its request. *)
VarsAnswer(cmd) ==
    [type |-> "VARS", watch |-> cmd.watch, count |-> cmd.count,
     frame |-> cmd.frame, late |-> cmd.late, data |-> data, has |-> has]
FieldsAnswer(cmd) ==
    [type |-> "FIELDS", watch |-> cmd.watch, count |-> cmd.count, id |-> cmd.id,
     of |-> cmd.of, data |-> data]

(* REQUEST_LOCALVARLIST and the like, FIELDSVARLIST and BACKTRACELIST.      *)
HandleRequest ==
    /\ \/ /\ Receives("VARS")
          /\ ToFrame(<<VarsAnswer(Head(f2c))>>)
       \/ /\ Receives("FIELDS")
          /\ ToFrame(<<FieldsAnswer(Head(f2c))>>)
       \/ /\ Receives("BACKTRACE")
          /\ ToFrame(<<[type |-> "BACKTRACE", stack |-> stack]>>)
    /\ UNCHANGED <<program, loop, trees, frame, silent>>

(* EVAL_TO_MULTIVAR: it may change the data; whether the frame takes it for *)
(* successful depends on its results.                                       *)
HandleEval ==
    /\ Receives("EVAL")
    /\ \E changes, successed \in BOOLEAN :
          /\ data' = IF changes THEN data + 1 ELSE data
          /\ ToFrame(<<[type |-> "VALUES", successed |-> successed]>>)
          /\ silent' = (silent \/ (changes /\ ~successed))
    /\ UNCHANGED <<has, stack, moves, loop, trees, frame>>

-----------------------------------------------------------------------------
(* The views *)

ToContext(msgs) == f2c' = f2c \o msgs

(* What a watch asks about the stack frame fr (late': as it was chosen now). *)
Vars(w, n, fr) == [type |-> "VARS", watch |-> w, count |-> n, frame |-> fr,
                   late |-> late']
Fields(w, n, i) == [type |-> "FIELDS", watch |-> w, count |-> n, id |-> i.id,
                    of |-> i.of]
Backtrace == <<[type |-> "BACKTRACE"]>>

(* VariableWatch::BeginUpdating of the roots, at a count that is new.       *)
Refreshed == {w \in Watches : shown[w] /\ enabled}
RequestRoots(ws, n) ==
    root' = [w \in Watches |-> IF w \in ws THEN [root[w] EXCEPT !.req = n]
                               ELSE root[w]]
VarsOf(ws, n, fr) == [i \in 1 .. Cardinality(ws) |-> Vars(SetToSeq(ws)[i], n, fr)]

(* VariableWatch::BeginUpdating of the variable's item: an entry for it in  *)
(* early if the root's answer is still to come.                             *)
RequestFields(w) ==
    /\ item' = [item EXCEPT ![w].req = count]
    /\ early' = [early EXCEPT ![w] =
                    @ \/ (root[w].req = count /\ root[w].upd # count)]
    /\ ToContext(<<Fields(w, count, item[w])>>)

(* Mutant of IsCurrent: an answer is taken whenever it comes. *)
IsCurrentAlways(n) == TRUE

(* RequestVarListCallback: "If update count was changed, new request might  *)
(* be sent."                                                                *)
IsCurrent(n) == n = count

(* Mutant of Children: those that are not expanded are left alone. *)
ChildrenNot(w, i) == <<>>

(* DoUpdateVars of the root asks for the fields of an item, expanded or not *)
(* ("Refresh the chilren, too.").                                           *)
Children(w, i) == <<Fields(w, count, i)>>

(* DoUpdateVars of the root: the item is found by its name and gets new     *)
(* data, is appended, or is deleted.                                        *)
UpdateRoot(cmd) ==
    LET w == cmd.watch
        new == [id |-> IF item[w] = NoItem THEN count + 1 ELSE item[w].id,
                req |-> count, upd |-> -1, of |-> cmd.data,
                fields |-> IF item[w] = NoItem THEN <<>> ELSE item[w].fields]
    IN  /\ root' = [root EXCEPT ![w] = [req |-> count, upd |-> count,
                                        data |-> cmd.data, stack |-> cmd.frame]]
        /\ item' = [item EXCEPT ![w] = IF cmd.has THEN new ELSE NoItem]
        /\ ToContext(IF cmd.has THEN Children(w, new) ELSE <<>>)

(* DoUpdateVars of the variable's item.  Of an item that was deleted it is  *)
(* undefined; here it does nothing.                                         *)
UpdateItem(cmd) ==
    /\ item' = [item EXCEPT ![cmd.watch] =
                   [id |-> @.id, req |-> count, upd |-> count, of |-> @.of,
                    fields |-> <<cmd.of, cmd.data>>]]
    /\ UNCHANGED <<root, f2c>>

(* ProcessAllRemoteCommands takes the first command. *)
Processes(type) == c2f # <<>> /\ Head(c2f).type = type /\ c2f' = Tail(c2f)

OnVars ==
    /\ Processes("VARS")
    /\ LET cmd == Head(c2f)
       IN  IF IsCurrent(cmd.count) /\ root[cmd.watch].upd # count
           THEN UpdateRoot(cmd) ELSE UNCHANGED <<root, item, f2c>>
    /\ UNCHANGED <<program, loop, shown, early, frame, silent>>

OnFields ==
    /\ Processes("FIELDS")
    /\ LET cmd == Head(c2f)
           i == item[cmd.watch]
       IN  IF IsCurrent(cmd.count) /\ i.id = cmd.id /\ i.upd # count
           THEN UpdateItem(cmd) ELSE UNCHANGED <<root, item, f2c>>
    /\ UNCHANGED <<program, loop, shown, early, frame, silent>>

(* The comparison of the lines compares a line with itself. *)
IsSameContents(bt) == bt = backtrace

OnBacktrace ==
    /\ Processes("BACKTRACE")
    /\ LET bt == Head(c2f).stack
       IN  backtrace' = IF IsSameContents(bt) THEN backtrace ELSE bt
    /\ UNCHANGED <<program, loop, f2c, trees, count, chosen, enabled, actions,
                   late, edited, silent>>

(* EvalResponseHandler *)
OnValues ==
    /\ Processes("VALUES")
    /\ ToContext(IF Head(c2f).successed THEN <<[type |-> "FORCE_UPDATESOURCE"]>>
                 ELSE <<>>)
    /\ UNCHANGED <<program, loop, trees, frame, silent>>

OnChangedState ==
    /\ Processes("CHANGED_STATE")
    /\ enabled' = Head(c2f).isBreak
    /\ ToContext(IF enabled' THEN Backtrace ELSE <<>>)
    /\ UNCHANGED <<program, loop, trees, count, chosen, backtrace, actions, late,
                   edited, silent>>

(* Mutant of FrameAfter: the chosen frame is kept. *)
FrameAfterKept(isRefreshOnly) == chosen

(* "If isRefreshOnly is true, don't change the stack frame." *)
FrameAfter(isRefreshOnly) == IF isRefreshOnly THEN chosen ELSE 0

(* Mediator, then the views, then ResponseSuccessed.  The views are enabled *)
(* (CHANGED_STATE came first).                                              *)
OnUpdateSource ==
    /\ Processes("UPDATE_SOURCE")
    /\ LET fr == FrameAfter(Head(c2f).isRefreshOnly)
       IN  /\ chosen' = fr
           /\ late' = (late /\ Head(c2f).isRefreshOnly)
           /\ ToContext(VarsOf(Refreshed, count + 1, fr)
                        \o (IF enabled THEN Backtrace ELSE <<>>)
                        \o <<[type |-> "SUCCESSED"]>>)
    /\ count' = count + 1
    /\ RequestRoots(Refreshed, count + 1)
    /\ edited' = FALSE /\ silent' = FALSE
    /\ early' = [w \in Watches |-> FALSE]
    /\ UNCHANGED <<program, loop, shown, item, enabled, backtrace, actions>>

-----------------------------------------------------------------------------
(* The user *)

Acts == actions < MaxActions /\ actions' = actions + 1

(* A menu command, which is sent whatever the state. *)
Resume ==
    /\ Acts
    /\ ToContext(<<[type |-> "RESUME"]>>)
    /\ late' = TRUE
    /\ UNCHANGED <<program, loop, c2f, trees, count, chosen, enabled, backtrace,
                   edited, silent>>

(* InteractiveView::Run *)
Eval ==
    /\ Acts /\ enabled
    /\ ToContext(<<[type |-> "EVAL", frame |-> chosen, late |-> late]>>)
    /\ UNCHANGED <<program, loop, c2f, trees, count, chosen, enabled, backtrace,
                   late, edited, silent>>

Awaited(type) == \E m \in Range(c2f) \cup Range(f2c) : m.type = type

(* It stores m_stackFrame before it tells the views. *)
FocusBacktraceLine ==
    /\ Acts /\ enabled
    /\ backtrace # 0
    /\ count' = count + 1
    /\ chosen' = backtrace
    /\ late' = (late \/ Awaited("BACKTRACE"))
    /\ RequestRoots(Refreshed, count + 1)
    /\ ToContext(VarsOf(Refreshed, count + 1, chosen'))
    /\ UNCHANGED <<program, loop, c2f, shown, item, early, enabled, backtrace,
                   edited, silent>>

(* OnEndLabelEdit of another watch: only that one asks again. *)
EditLabel ==
    /\ Acts /\ enabled
    /\ count' = count + 1
    /\ edited' = TRUE
    /\ UNCHANGED <<program, loop, c2f, f2c, trees, chosen, enabled, backtrace,
                   late, silent>>

(* OnExpanded *)
Expand(w) ==
    /\ Acts /\ enabled /\ shown[w]
    /\ item[w] # NoItem /\ item[w].req < count
    /\ RequestFields(w)
    /\ UNCHANGED <<program, loop, c2f, shown, root, count, chosen, enabled,
                   backtrace, late, edited, silent>>

Hide(w) ==
    /\ Acts /\ shown[w]
    /\ shown' = [shown EXCEPT ![w] = FALSE]
    /\ UNCHANGED <<program, loop, c2f, f2c, root, item, early, count, chosen,
                   enabled, backtrace, late, edited, silent>>

(* OnShow: the root, or if that was asked for, what it has. *)
Show(w) ==
    /\ Acts /\ ~shown[w]
    /\ shown' = [shown EXCEPT ![w] = TRUE]
    /\ IF enabled /\ root[w].req < count
       THEN /\ RequestRoots({w}, count)
            /\ late' = late
            /\ ToContext(<<Vars(w, count, chosen)>>)
            /\ UNCHANGED <<item, early>>
       ELSE /\ IF enabled /\ item[w] # NoItem /\ item[w].req < count
               THEN RequestFields(w) ELSE UNCHANGED <<item, early, f2c>>
            /\ UNCHANGED <<root, late>>
    /\ UNCHANGED <<program, loop, c2f, count, chosen, enabled, backtrace, edited,
                   silent>>

-----------------------------------------------------------------------------

Context ==
    \/ Run \/ SendUpdateSource
    \/ HandleResume \/ HandleForceUpdateSource \/ HandleSuccessed
    \/ HandleRequest \/ HandleEval

Frame ==
    \/ OnVars \/ OnFields \/ OnBacktrace \/ OnValues
    \/ OnChangedState \/ OnUpdateSource

User ==
    \/ Resume \/ Eval \/ FocusBacktraceLine \/ EditLabel
    \/ \E w \in Watches : Expand(w) \/ Hide(w) \/ Show(w)

Next == Context \/ Frame \/ User

Spec == Init /\ [][Next]_vars

-----------------------------------------------------------------------------
(* Properties *)

(* A stop about which nothing more is on its way. *)
Quiet ==
    /\ stopped /\ prevBreak /\ ~isMustUpdate
    /\ c2f = <<>> /\ f2c = <<>>

(* However requests and answers, new stops and refreshes overtook each      *)
(* other, a watch ends up with the variables of this stop and of the frame  *)
(* that is chosen (watchview.cpp:166).  What keeps it from that: an         *)
(* evaluation that changed something and returned a value, after which no   *)
(* refresh is asked for (interactiveview.cpp:285-295), and an edited label  *)
(* of another watch, which makes the awaited answer an old one              *)
(* (watchview.cpp:450).                                                     *)
WatchesShowTheStop ==
    Quiet => \A w \in Watches : shown[w] =>
        /\ root[w].upd = count \/ edited
        /\ root[w].upd = count => /\ root[w].data = data \/ silent
                                  /\ root[w].stack = chosen

(* The fields under a variable are those of its value, unless they were     *)
(* asked for, by expanding it, between the request for the variables and    *)
(* the answer: then the answer for the old value counts as the update, and  *)
(* the one for the new value is not taken (watchview.cpp:319).              *)
FieldsAreOfTheValue ==
    Quiet => \A w \in Watches :
        shown[w] /\ root[w].upd = count /\ item[w] # NoItem /\ ~early[w] =>
            /\ item[w].of = root[w].data
            /\ item[w].upd = count
            /\ item[w].fields = <<item[w].of, data>> \/ silent

(* The backtrace ends up with the threads and functions of this stop,      *)
(* whatever answers came late; not so their lines, which the comparison     *)
(* leaves out (backtraceview.cpp:135).                                      *)
BacktraceIsOfTheStop == Quiet => backtrace = stack

(* What the views show ends up being the stop; and the types.               *)
ViewsShowTheStop == TypeOK /\ WatchesShowTheStop /\ BacktraceIsOfTheStop

(* A request that names a stack frame is handled in the stop in which that  *)
(* frame was chosen, unless the user had sent the program on or chosen a    *)
(* line while the backtrace was awaited (interactiveview.cpp:327).          *)
FramesAreOfTheStop ==
    \A i \in DOMAIN f2c :
        f2c[i].type \in {"VARS", "EVAL"} /\ ~f2c[i].late =>
            f2c[i].frame \in {0, stack}

=============================================================================
