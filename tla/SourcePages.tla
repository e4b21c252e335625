----------------------------- MODULE SourcePages -----------------------------
(***************************************************************************)
(* The sources of a debugged program: what SourceManager keeps of them in  *)
(* the context, the pages the frame's SourceView shows them on, with the   *)
(* mark of the running line and the breakpoints of BreakpointSync, and the *)
(* saving of an edited page.  The commands about sources have channels of  *)
(* their own here; nothing depends on their order among the breakpoints'.  *)
(* The sources are files.  A text is a version and the newlines it ends    *)
(* in; the mark of a chosen backtrace line is left out.                    *)
(***************************************************************************)
EXTENDS BreakpointSync

CONSTANTS
    Keys,     (* the sources                                               *)
    Newlines, (* how many newlines the file of each ends in at first       *)
    MaxStops, (* bound: stops of the program                               *)
    MaxActs   (* bound: what the user does                                 *)

ASSUME PagesAssumption ==
    /\ Keys # {}
    /\ \A bp \in Breakpoints : bp.key \in Keys
    /\ Newlines \in [Keys -> Nat]
    /\ MaxStops \in Nat /\ MaxActs \in Nat

VARIABLES
    stop,         (* the program's stop: its number and its source         *)
    stopped,      (* m_debugState = DEBUGSTATE_BREAK                       *)
    prevBreak,    (* prevState = DEBUGSTATE_BREAK                          *)
    isMustUpdate, (* m_isMustUpdate                                        *)
    wait,         (* m_waitUpdateCount                                     *)
    sources,      (* SourceManager::m_sourceMap of the context             *)
    file,         (* the files                                             *)
    s2f, f2s,     (* the commands about sources on their way               *)
    pages,        (* the SourceViewPages                                   *)
    selected,     (* GetSelection, 0 for none                              *)
    pending,      (* the events AddPendingEvent has queued                 *)
    isBreak,      (* the last CHANGED_STATE                                *)
    acts,         (* bound                                                 *)
    recovered,    (* history: a file could not be read when the program    *)
                  (* stopped in it, and then in the same stop it could;    *)
    away,         (* the program went on with another page selected than   *)
                  (* that of the running line;                             *)
    failed        (* a file could not be written                           *)

program == <<stop, stopped, prevBreak, isMustUpdate, wait, sources, file>>
view == <<pages, selected, pending, isBreak>>
history == <<recovered, away, failed>>
pageVars == <<program, s2f, f2s, view, acts, history>>
allVars == <<vars, pageVars>>

Texts == [version : Nat, newlines : Nat]
NoText == [version |-> 0, newlines |-> 0]
Page == [key : Keys, text : Texts, modified : BOOLEAN, mark : Nat,
         bps : SUBSET Breakpoints]

PagesTypeOK ==
    /\ stop \in [n : 0 .. MaxStops, key : Keys]
    /\ stopped \in BOOLEAN /\ prevBreak \in BOOLEAN /\ isMustUpdate \in BOOLEAN
    /\ wait \in Nat
    /\ sources \in [Keys -> Texts] /\ file \in [Keys -> Texts \ {NoText}]
    /\ pages \in Seq(Page) /\ selected \in DOMAIN pages \cup {0}
    /\ \A i \in DOMAIN pages : pages[i].mark <= stop.n
    /\ isBreak \in BOOLEAN /\ acts \in 0 .. MaxActs
    /\ history \in BOOLEAN \X BOOLEAN \X BOOLEAN

PagesInit ==
    /\ Init
    /\ stop = [n |-> 0, key |-> CHOOSE k \in Keys : TRUE] /\ stopped = FALSE /\ prevBreak = FALSE
    /\ isMustUpdate = FALSE /\ wait = 0
    /\ sources = [k \in Keys |-> NoText]
    /\ file = [k \in Keys |-> [version |-> 1, newlines |-> Newlines[k]]]
    /\ s2f = <<>> /\ f2s = <<>>
    /\ pages = <<>> /\ selected = 0 /\ pending = <<>> /\ isBreak = FALSE
    /\ acts = 0
    /\ recovered = FALSE /\ away = FALSE /\ failed = FALSE

-----------------------------------------------------------------------------
(* The context *)

ToFrame(msgs) == s2f' = IF linked THEN s2f \o msgs ELSE s2f
ToContext(msgs) == f2s' = IF linked THEN f2s \o msgs ELSE f2s

ChangedState(b) == <<[type |-> "CHANGED_STATE", isBreak |-> b]>>

(* SourceManager::Add: what is known is not read again. *)
Add(k, readable) ==
    sources' = IF sources[k] = NoText /\ readable
               THEN [sources EXCEPT ![k] = file[k]] ELSE sources

Added(k) ==
    IF sources' = sources THEN <<>>
    ELSE <<[type |-> "ADDED_SOURCE", key |-> k, text |-> sources'[k]]>>

(* Context::LoadFile: the first file that loads names the config file.      *)
(* Bound: nothing is loaded after the connection is lost.                   *)
LoadFile(k) ==
    /\ ~stopped /\ linked
    /\ \/ LoadConfig
       \/ configured /\ UNCHANGED vars
       \/ UNCHANGED vars   (* it has an error *)
    /\ Add(k, TRUE)
    /\ ToFrame(Added(k))
    /\ UNCHANGED <<stop, stopped, prevBreak, isMustUpdate, wait, file, f2s, view,
                   acts, history>>

(* The line hook stops the program. *)
HookLine ==
    /\ ~stopped /\ linked
    /\ stop.n < MaxStops
    /\ \E k \in Keys : stop' = [n |-> stop.n + 1, key |-> k]
    /\ stopped' = TRUE /\ prevBreak' = FALSE
    /\ ToFrame(ChangedState(TRUE))
    /\ UNCHANGED <<vars, isMustUpdate, wait, sources, file, f2s, view, acts,
                   history>>

(* The loop of HookCallback. *)
SendUpdateSource ==
    /\ stopped /\ linked
    /\ isMustUpdate \/ ~prevBreak
    /\ isMustUpdate' = FALSE /\ prevBreak' = TRUE
    /\ wait' = wait + 1
    /\ \E readable \in BOOLEAN : Add(stop.key, readable)
    /\ ToFrame(Added(stop.key) \o
               <<[type |-> "UPDATE_SOURCE", key |-> stop.key, line |-> stop.n,
                  isRefreshOnly |-> prevBreak]>>)
    /\ recovered' = (recovered \/ (prevBreak /\ sources' # sources))
    /\ UNCHANGED <<vars, stop, stopped, file, f2s, view, acts, away, failed>>

(* HandleCommand takes the first command. *)
Receives(type) == f2s # <<>> /\ Head(f2s).type = type /\ f2s' = Tail(f2s)

HandleResume ==
    /\ Receives("RESUME")
    /\ stopped' = (stopped /\ wait > 0)
    /\ ToFrame(IF stopped # stopped' THEN ChangedState(FALSE) ELSE <<>>)
    /\ UNCHANGED <<vars, stop, prevBreak, isMustUpdate, wait, sources, file,
                   view, acts, history>>

HandleForceUpdateSource ==
    /\ Receives("FORCE_UPDATESOURCE")
    /\ isMustUpdate' = TRUE
    /\ UNCHANGED <<vars, stop, stopped, prevBreak, wait, sources, file, s2f, view,
                   acts, history>>

HandleSuccessed ==
    /\ Receives("SUCCESSED")
    /\ wait' = wait - 1
    /\ UNCHANGED <<vars, stop, stopped, prevBreak, isMustUpdate, sources, file, s2f,
                   view, acts, history>>

HandleRequestSource ==
    /\ Receives("REQUEST_SOURCE")
    /\ LET ev == Head(f2s).event
       IN  ToFrame(<<[type |-> "VALUE_SOURCE", key |-> ev.key,
                      text |-> sources[ev.key], event |-> ev]>>)
    /\ UNCHANGED <<vars, program, view, acts, history>>

(* SourceManager::Save, whose failure nobody is told. *)
HandleSaveSource ==
    /\ Receives("SAVE_SOURCE")
    /\ \E written \in BOOLEAN :
          /\ file' = IF written /\ sources[Head(f2s).key] # NoText
                     THEN [file EXCEPT ![Head(f2s).key] = Head(f2s).text]
                     ELSE file
          /\ failed' = (failed \/ ~written)
    /\ UNCHANGED <<vars, stop, stopped, prevBreak, isMustUpdate, wait, sources,
                   s2f, view, acts, recovered, away>>

HandleBreakpoint == HandleChange /\ UNCHANGED pageVars

-----------------------------------------------------------------------------
(* SourceView *)

(* Mutant of Marks: the key is not compared. *)
MarksOfAll(bps, k) == bps

(* The walk with BreakpointList::First and Next. *)
Marks(bps, k) == {bp \in bps : bp.key = k}

(* Mutant of Shown: no newline is added to the last line. *)
ShownAsIs(text) == text

(* SourceViewPage::Initialize ends the last line, too ("Don't insert line   *)
(* breaks at the last line." compares with the number of lines).            *)
Shown(text) == [text EXCEPT !.newlines = @ + 1]

(* SaveSource: "Erase the last line if it is newline only." *)
Stored(text) == [text EXCEPT !.newlines = IF @ > 0 THEN @ - 1 ELSE 0]

CreatePage(k, text) ==
    /\ pages' = Append(pages, [key |-> k, text |-> Shown(text), modified |-> FALSE,
                               mark |-> 0, bps |-> Marks(frameBps, k)])
    /\ selected' = Len(pages) + 1

(* Mutant of Focused: the other pages keep their mark. *)
FocusedOnly(ev) ==
    [i \in DOMAIN pages |->
        IF pages[i].key = ev.key THEN [pages[i] EXCEPT !.mark = ev.line]
        ELSE pages[i]]

(* FocusCurrentLine of every page. *)
Focused(ev) ==
    [i \in DOMAIN pages |->
        [pages[i] EXCEPT !.mark = IF pages[i].key = ev.key THEN ev.line ELSE 0]]

PagesOf(k) == {i \in DOMAIN pages : pages[i].key = k}

(* SourceView::OnUpdateSource: the pages, and what is asked. *)
FocusOn(ev) ==
    /\ pages' = IF ev.isRefreshOnly THEN pages ELSE Focused(ev)
    /\ selected' = IF ev.isRefreshOnly \/ PagesOf(ev.key) = {} THEN selected
                   ELSE CHOOSE i \in PagesOf(ev.key) :
                           \A j \in PagesOf(ev.key) : j <= i
    /\ away' = (away /\ ev.isRefreshOnly)
Asked(ev) ==
    IF ev.isRefreshOnly \/ PagesOf(ev.key) # {} THEN <<>>
    ELSE <<[type |-> "REQUEST_SOURCE", event |-> ev]>>

(* ProcessAllRemoteCommands takes the first command. *)
Processes(type) == s2f # <<>> /\ Head(s2f).type = type /\ s2f' = Tail(s2f)

OnUpdateSource ==
    /\ Processes("UPDATE_SOURCE")
    /\ FocusOn(Head(s2f))
    /\ ToContext(Asked(Head(s2f)) \o <<[type |-> "SUCCESSED"]>>)
    /\ UNCHANGED <<vars, program, pending, isBreak, acts, recovered, failed>>

OnPendingEvent ==
    /\ pending # <<>>
    /\ pending' = Tail(pending)
    /\ FocusOn(Head(pending))
    /\ ToContext(Asked(Head(pending)))
    /\ UNCHANGED <<vars, program, s2f, isBreak, acts, recovered, failed>>

(* RequestSourceHandler: "source.GetKey().empty()" if the context has none. *)
OnValueSource ==
    /\ Processes("VALUE_SOURCE")
    /\ LET cmd == Head(s2f)
       IN  IF cmd.text = NoText THEN UNCHANGED <<pages, selected, pending>>
           ELSE /\ CreatePage(cmd.key, cmd.text)
                /\ pending' = Append(pending, cmd.event)
    /\ UNCHANGED <<vars, program, f2s, isBreak, acts, history>>

OnAddedSource ==
    /\ Processes("ADDED_SOURCE")
    /\ CreatePage(Head(s2f).key, Head(s2f).text)
    /\ UNCHANGED <<vars, program, f2s, pending, isBreak, acts, history>>

(* ChangeEnable: FocusCurrentLine(-1). *)
Cleared(i) == [pages[i] EXCEPT !.mark = 0]

(* Only the selected page is told. *)
OnChangedState ==
    /\ Processes("CHANGED_STATE")
    /\ isBreak' = Head(s2f).isBreak
    /\ pages' = [i \in DOMAIN pages |->
                    IF i = selected /\ ~isBreak' THEN Cleared(i) ELSE pages[i]]
    /\ away' = (away \/ (~isBreak' /\ \E i \in DOMAIN pages :
                                         i # selected /\ pages[i].mark > 0))
    /\ UNCHANGED <<vars, program, f2s, selected, pending, acts, recovered, failed>>

OnEndDebug ==
    /\ Processes("END_CONNECTION")
    /\ pages' = <<>> /\ selected' = 0
    /\ UNCHANGED <<vars, program, f2s, pending, isBreak, acts, history>>

(* OnChangedBreakpoints of every page. *)
OnBreakpoints ==
    /\ OnChangedBreakpointList
    /\ pages' = [i \in DOMAIN pages |->
                    [pages[i] EXCEPT !.bps = Marks(frameBps', pages[i].key)]]
    /\ UNCHANGED <<program, s2f, f2s, selected, pending, isBreak, acts, history>>

-----------------------------------------------------------------------------
(* The user, and the network *)

(* Bound: the user does nothing after the connection is lost. *)
Acts == linked /\ acts < MaxActs /\ acts' = acts + 1

(* What is clicked, edited and saved is on the page that is selected. *)
Click(bp) ==
    /\ Acts
    /\ selected > 0 /\ bp.key = pages[selected].key
    /\ Toggle(bp)
    /\ UNCHANGED <<program, s2f, f2s, view, history>>

Select(i) ==
    /\ Acts /\ i # selected
    /\ selected' = i
    /\ UNCHANGED <<vars, program, s2f, f2s, pages, pending, isBreak, history>>

Edit ==
    /\ Acts
    /\ selected > 0
    /\ \E n \in {0, 1} :
          pages' = [pages EXCEPT ![selected].modified = TRUE,
                       ![selected].text = [version |-> acts + 2, newlines |-> n]]
    /\ UNCHANGED <<vars, program, s2f, f2s, selected, pending, isBreak, history>>

SaveSource ==
    /\ Acts
    /\ selected > 0
    /\ ToContext(<<[type |-> "SAVE_SOURCE", key |-> pages[selected].key,
                    text |-> Stored(pages[selected].text)]>>)
    /\ pages' = [pages EXCEPT ![selected].modified = FALSE]
    /\ UNCHANGED <<vars, program, s2f, selected, pending, isBreak, history>>

(* A menu command, or what an evaluation leads to. *)
Sends(type) ==
    /\ Acts
    /\ ToContext(<<[type |-> type]>>)
    /\ UNCHANGED <<vars, program, s2f, view, history>>

Lose ==
    /\ Disconnect
    /\ \E n \in 0 .. Len(f2s) : f2s' = SubSeq(f2s, 1, n)
    /\ \E n \in 0 .. Len(s2f) :
          s2f' = Append(SubSeq(s2f, 1, n), [type |-> "END_CONNECTION"])
    /\ stopped' = FALSE
    /\ UNCHANGED <<stop, prevBreak, isMustUpdate, wait, sources, file, view, acts,
                   history>>

-----------------------------------------------------------------------------

ContextStep ==
    \/ \E k \in Keys : LoadFile(k)
    \/ HookLine \/ SendUpdateSource
    \/ HandleResume \/ HandleForceUpdateSource \/ HandleSuccessed
    \/ HandleRequestSource \/ HandleSaveSource \/ HandleBreakpoint

FrameStep ==
    \/ OnUpdateSource \/ OnPendingEvent \/ OnValueSource \/ OnAddedSource
    \/ OnChangedState \/ OnEndDebug \/ OnBreakpoints

UserStep ==
    \/ \E bp \in Breakpoints : Click(bp)
    \/ \E i \in DOMAIN pages : Select(i)
    \/ Edit \/ SaveSource
    \/ \E type \in {"RESUME", "FORCE_UPDATESOURCE"} : Sends(type)

PagesNext == ContextStep \/ FrameStep \/ UserStep \/ Lose

PagesSpec == PagesInit /\ [][PagesNext]_allVars

(* As in BreakpointSync. *)
FairPagesSpec ==
    PagesSpec /\ WF_allVars(HandleBreakpoint) /\ WF_allVars(OnBreakpoints)

-----------------------------------------------------------------------------
(* Properties *)

Quiet == linked /\ s2f = <<>> /\ f2s = <<>> /\ pending = <<>>

(* However loading, stopping, refreshing and going on cross the frame's     *)
(* requests: when a stop has been shown, the running line is marked on the  *)
(* page of its source and nowhere else.  Not if the source could only be    *)
(* read later in the stop: no page is found, it is asked for and added at   *)
(* the same time, and the event kept for the answer may be shown after a    *)
(* newer one (sourceview.cpp:616).                                          *)
MarkIsOfTheStop ==
    Quiet /\ stopped /\ prevBreak /\ ~isMustUpdate /\ ~recovered =>
        \A i \in DOMAIN pages :
            pages[i].mark = IF pages[i].key = stop.key THEN stop.n ELSE 0

(* A program that runs has no line marked, unless it went on while another  *)
(* page was selected: only that one is told (sourceview.cpp:588).           *)
NoMarkWhileRunning ==
    ~isBreak /\ ~away /\ ~recovered => \A i \in DOMAIN pages : pages[i].mark = 0

(* A source has one page, though pages are added whenever the context adds  *)
(* a source and whenever a requested one comes (sourceview.cpp:615, 655).   *)
OnePagePerSource ==
    ~recovered => \A i, j \in DOMAIN pages : pages[i].key = pages[j].key => i = j

(* The mark of the running line goes with the program; and the types.       *)
MarkFollowsTheProgram ==
    PagesTypeOK /\ MarkIsOfTheStop /\ NoMarkWhileRunning /\ OnePagePerSource

(* The breakpoints marked on a page come to be those the program stops at   *)
(* in its source, though a click marks nothing until the context's list     *)
(* comes back and a page is made from the frame's own (sourceview.cpp:376). *)
MarksAreTheBreakpoints ==
    Quiet /\ f2c = <<>> /\ c2f = <<>> =>
        \A i \in DOMAIN pages :
            pages[i].bps = {bp \in ctxBps : bp.key = pages[i].key}

(* A page without the mark of a modified one shows what its file contains,  *)
(* to the last newline, unless the file could not be written, which the     *)
(* user is not told (context.cpp:542).                                      *)
SavedIsInTheFile ==
    Quiet /\ ~failed /\ ~recovered =>
        \A i \in DOMAIN pages :
            ~pages[i].modified => file[pages[i].key] = Stored(pages[i].text)

=============================================================================
