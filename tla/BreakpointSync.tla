--------------------------- MODULE BreakpointSync ---------------------------
(***************************************************************************)
(* The breakpoint list, of which the context and the frame each keep a     *)
(* copy (class BreakpointList, lldebug/src/sysinfo.cpp).  The frame        *)
(* changes its copy at once and tells the context the change; the context  *)
(* answers every change with its whole list, which replaces the frame's.   *)
(* Channels are as in BreakSession, with only these commands in them.      *)
(***************************************************************************)
EXTENDS Naturals, Sequences

CONSTANTS
    Breakpoints,    (* the (key, line) pairs                               *)
    MaxToggles      (* bound: clicks of the user                           *)

ASSUME BreakpointAssumption == MaxToggles \in Nat

VARIABLES
    ctxBps,     (* Context::m_breakpoints                                  *)
    frameBps,   (* Mediator::m_breakpoints                                 *)
    f2c,        (* SET_BREAKPOINT and REMOVE_BREAKPOINT on their way       *)
    c2f,        (* CHANGED_BREAKPOINTLISTs on their way                    *)
    configured, (* m_rootFileKey is set: LoadConfig was called             *)
    linked,     (* the connection is up                                    *)
    toggles,    (* bound: clicks so far                                    *)
    wish        (* history: what the last click on each asked for          *)

vars == <<ctxBps, frameBps, f2c, c2f, configured, linked, toggles, wish>>

Changes == [op : {"Set", "Remove"}, bp : Breakpoints]

TypeOK ==
    /\ ctxBps \subseteq Breakpoints
    /\ frameBps \subseteq Breakpoints
    /\ f2c \in Seq(Changes)
    /\ c2f \in Seq(SUBSET Breakpoints)
    /\ configured \in BOOLEAN
    /\ linked \in BOOLEAN
    /\ toggles \in Nat
    /\ wish \in [Breakpoints -> {"none", "Set", "Remove"}]

Init ==
    /\ ctxBps = {}
    /\ frameBps = {}
    /\ f2c = <<>>
    /\ c2f = <<>>
    /\ configured = FALSE
    /\ linked = TRUE
    /\ toggles = 0
    /\ wish = [bp \in Breakpoints |-> "none"]

-----------------------------------------------------------------------------

(* Mutant of Changed: both toggle. *)
Toggled(bps, change) ==
    IF change.bp \in bps THEN bps \ {change.bp} ELSE bps \cup {change.bp}

(* Set and Remove on a copy of the list. *)
Changed(bps, change) ==
    IF change.op = "Set" THEN bps \cup {change.bp} ELSE bps \ {change.bp}

(* Removing what is not there returns before anything is sent. *)
IsSent(bps, change) == change.op = "Remove" => change.bp \in bps

(* SendChangedBreakpointList, which needs the connection. *)
SendChangedBreakpointList(bps) ==
    c2f' = IF linked THEN Append(c2f, bps) ELSE c2f

(* The change that Toggle makes of a click on bp, at the frame. *)
ToggleOf(bp) ==
    [op |-> IF bp \in frameBps THEN "Remove" ELSE "Set", bp |-> bp]

(* Mediator::ToggleBreakpoint *)
Toggle(bp) ==
    /\ toggles < MaxToggles
    /\ toggles' = toggles + 1
    /\ frameBps' = Changed(frameBps, ToggleOf(bp))
    /\ f2c' = IF linked THEN Append(f2c, ToggleOf(bp)) ELSE f2c
    /\ wish' = [wish EXCEPT ![bp] = ToggleOf(bp).op]
    /\ UNCHANGED <<ctxBps, c2f, configured, linked>>

(* HandleCommand at a SET_BREAKPOINT or REMOVE_BREAKPOINT *)
HandleChange ==
    /\ f2c # <<>>
    /\ f2c' = Tail(f2c)
    /\ ctxBps' = Changed(ctxBps, Head(f2c))
    /\ IF IsSent(ctxBps, Head(f2c))
       THEN SendChangedBreakpointList(ctxBps') ELSE UNCHANGED c2f
    /\ UNCHANGED <<frameBps, configured, linked, toggles, wish>>

(* The saved list replaces what was clicked and handled before. *)
StillWished ==
    [bp \in Breakpoints |->
        IF \E i \in DOMAIN f2c : f2c[i].bp = bp THEN wish[bp] ELSE "none"]

(* Mutant of LoadConfig: the frame is not told. *)
LoadConfigSilently ==
    /\ ~configured
    /\ configured' = TRUE
    /\ \E bps \in SUBSET Breakpoints :
          /\ ctxBps' = bps
          /\ UNCHANGED c2f
          /\ wish' = StillWished
    /\ UNCHANGED <<frameBps, f2c, linked, toggles>>

(* LoadConfig, once the first file is loaded: the saved list, if there is   *)
(* one, replaces the context's.                                             *)
LoadConfig ==
    /\ ~configured
    /\ configured' = TRUE
    /\ \/ \E bps \in SUBSET Breakpoints :
             /\ ctxBps' = bps
             /\ SendChangedBreakpointList(bps)
             /\ wish' = StillWished
       \/ UNCHANGED <<ctxBps, c2f, wish>>
    /\ UNCHANGED <<frameBps, f2c, linked, toggles>>

(* ProcessRemoteCommand at a CHANGED_BREAKPOINTLIST *)
OnChangedBreakpointList ==
    /\ c2f # <<>>
    /\ c2f' = Tail(c2f)
    /\ frameBps' = Head(c2f)
    /\ UNCHANGED <<ctxBps, f2c, configured, linked, toggles, wish>>

(* The connection is lost: of what is on its way only prefixes arrive, and  *)
(* the frame forgets its copy after what did arrive (END_CONNECTION).       *)
Disconnect ==
    /\ linked
    /\ linked' = FALSE
    /\ \E n \in 0 .. Len(f2c) : f2c' = SubSeq(f2c, 1, n)
    /\ \E n \in 0 .. Len(c2f) : c2f' = Append(SubSeq(c2f, 1, n), {})
    /\ UNCHANGED <<ctxBps, frameBps, configured, toggles, wish>>

Next ==
    \/ \E bp \in Breakpoints : Toggle(bp)
    \/ HandleChange
    \/ LoadConfig
    \/ OnChangedBreakpointList
    \/ Disconnect

Spec == Init /\ [][Next]_vars

(* The context handles commands at every line hook; the frame when idle. *)
FairSpec == Spec /\ WF_vars(HandleChange) /\ WF_vars(OnChangedBreakpointList)

-----------------------------------------------------------------------------
(* Properties *)

(* When all that was sent has been handled, what the user sees marked is     *)
(* what the program stops at, however the clicks and the answers crossed.   *)
CopiesAgree == linked /\ f2c = <<>> /\ c2f = <<>> => frameBps = ctxBps

(* The list that a click is decided on may be older than the context's, as  *)
(* answers to earlier clicks put back what they overtook; still the last    *)
(* click on a breakpoint is what comes of it, unless LoadConfig came after. *)
LastClickWins ==
    linked /\ f2c = <<>> =>
        \A bp \in Breakpoints :
            /\ wish[bp] = "Set" => bp \in ctxBps
            /\ wish[bp] = "Remove" => bp \notin ctxBps

(* Once the user stops clicking, the frame comes to show what the context   *)
(* has, and stays so.                                                       *)
CopiesConverge == <>[](linked => frameBps = ctxBps)
=============================================================================
