# A TLA+ model of lldebug

lldebug is a remote debugger for Lua 5.1.  The **debuggee** links the library
(`lldebug/src/context`), which installs hooks in its `lua_State`s; a GUI
process, the **frame** (`lldebug/src/visual`), shows where the program stopped
and sends it commands.  The two talk over one TCP connection
(`lldebug/src/net`).  All paths below are relative to `src/lldebug/src/`.

## 1. Inventory

| component | state | operations | hard parts | modules |
|---|---|---|---|---|
| `Context`, stepping (`context/context.cpp`) | `m_debugState`, `m_stepinfo`, `m_coroutines` | `HookCallback`, `SetDebugState`, `BeginCoroutine`, `EndCoroutine` | call counts per `lua_State` through coroutines, errors and tail calls; commands arriving during a step | `Stepping`, `LuaThreads`, `DebugState`, `StepSemantics` |
| `Context`, stops and commands | `m_updateCount`, `m_waitUpdateCount`, `m_isMustUpdate`, the hook's `prevState` | `HandleCommand`, the loop of `HookCallback` | commands crossing announcements; lost connection | `BreakSession`, `FrameViews`, `SourcePages` |
| `Context`, waiting for commands | `m_readCommands`, `m_commandCond` | `OnRemoteCommand`, the loop of `HookCallback` | notification without the mutex; two mutexes | `CommandLoop`, `CommandPath` |
| `Context`, protected calls | `m_isCallSuccess`, `m_isEnabled` | `PCall`, `Resume`, `lldebug_assert`, evaluation | one flag for nested calls | `ProtectedCalls` |
| `Context`, start | attempts, deadline | `CreateDebuggerFrame`, `WaitForDebuggerFrame`, `ExecuteFrame` | result of attempt 1 during attempt 2 | `DebuggerStart` |
| `ContextManager` | map `lua_State` -> `Context` | `Add`, `Erase`, `Find` | addresses of collected coroutines | `ContextManager`, `ContextLife` |
| config file (`configfile.cpp`) | temporary file | `LoadConfig`, `SaveConfig`, `open`, `commit` | crash between remove and rename | `ConfigFile`, `ContextLife` |
| `Mediator` (`visual/mediator.cpp`) | `m_updateCount`, `m_stackFrame`, `m_breakpoints`, `m_readCommands` | `ProcessRemoteCommand`, `IncUpdateCount`, `FocusBacktraceLine` | answers overtaken by later events; reuse for a second session | `BreakSession`, `BreakpointSync`, `FrameViews`, `DebuggerStart` |
| `BreakpointList` (`sysinfo.cpp`) | a set on each side | `Set`, `Remove`, `Toggle`, `First`, `Next` | two copies changed from both ends | `BreakpointSync`, `SourcePages` |
| `SourceManager` (`sysinfo.cpp`) | `m_sourceMap` | `Add`, `AddSource`, `Get`, `Save` | files that cannot be read or written | `SourcePages` |
| views (`visual/*view.cpp`) | trees, pages, update counts | `BeginUpdating`, answers, user | stale answers | `FrameViews`, `SourcePages` |
| `RemoteEngine` (`net/remoteengine.cpp`) | `m_connection`, `m_connector`, `m_isFailed`, `m_commandIdCounter`, `m_waitResponses` | `StartFrame`, `StartContext`, `SendCommand`, `ResponseCommand`, `On...` | ids of both ends; unlocked writes racing the connection thread | `RemoteEngine`, `RequestReply`, `DebuggerStart` |
| `Connector`, `Connection` (`net/connection.cpp`) | socket, write queue, handshake count | `BeginConfirmCommand`, `WriteCommand`, `Close`, handlers | two handshake callbacks; two writes per command | `DebuggerStart`, `Connection`, `FifoChannel` |
| `queue_mt` | a queue and its mutex | `push`, `empty`, `front`, `pop` | front and pop are two operations | `CommandLoop` |
| `EchoStream` (`net/echostream.*`) | request queue, thread | `overflow`, `sync`, `add_request`, `exit_thread` | bounded queue; blocking `receive_from` | `EchoStream`, `EchoBuf`, `EchoOutput` |
| `Command` (serialization), `luainfo`, `md2`, C API wrappers | none of their own | | conversions | none |

Threads.  The Lua thread runs `HookCallback` under the recursive `m_mutex`, and
releases it only in the loop's timed wait.  A connection thread per process
polls the sockets and pushes incoming commands on `m_readCommands`; the
debuggee handles them at line hooks, the frame when it is idle.  So above the
engine each process is one sequential handler, and the interleavings are those
of the two handlers, the user and the network; inside the engine they are those
of the connection thread and the thread that calls it.

What can go wrong, and at which line, is the list `hazards` of `PROJECT.json`;
each entry names the properties that watch it.

## 2. Modules

How the modules compose: `ContextLife` is `ContextManager` with `ConfigFile`;
`CommandPath` is `Connection` with `CommandLoop`; `EchoOutput` is `EchoBuf`
with `EchoStream`; `SourcePages` is `BreakpointSync` with the sources and
pages.  Three modules are abstract specifications that others implement:
`StepSemantics` (by `Stepping`), `RequestReply` (by `RemoteEngine`) and
`FifoChannel` (by `Connection`, for the bytes, and by `CommandLoop`, for
`m_readCommands`).  `FifoChannel` is what the channels of `BreakSession`,
`BreakpointSync`, `FrameViews` and `SourcePages` assume.  `RemoteEngine` adds
whose answer an answer is; the other modules name the request instead.
`X_proofs` holds the theorems about module `X` and what it composes
(`Context_proofs` those about `ContextLife`, `ProtectedCalls` and
`DebuggerStart`, `CommandPath_proofs` also those about `EchoOutput`,
`Frame_proofs` those about `FrameViews`),
`SequenceFacts` the lemmas about queues they share (their ends, how many of a
kind they hold, what comes before and after what), and `MCX` the instance of `X` for TLC.

### Stepping, LuaThreads, DebugState, StepSemantics

State: `debugState`, `stepinfo`, `coroutines` are the members of that name;
`pc` is where the Lua thread is (`"start"` inside `Initialize`, `"lua"`
between hooks, `"hook"` in the loop of the line hook).  The Lua program is
`frames[t]`, the activations of thread `t`, `native[t]`, whether the innermost
one is a C function, and `lua`, the nesting of running threads.  A thread is a
`lua_State` address.  One action per hook event and per coroutine call; an
action is what the code does between two points where it releases `m_mutex` or
returns to Lua.  `base` and `origin` are history: the activations a thread had
when it was resumed, and where the step in progress was given.

`StepSemantics` states the promise in terms of activations alone: a step-over
stops at the first line of its thread that is not in a function called since,
a step-return when the function returns, both when the thread yields or ends.
`ImplementsStepSemantics` is the refinement: the relative counters and
`m_stepinfo` implement it, with `mode` mapped to `debugState`.

The constants `Resteps`, `LuaErrors` and `HostResume` admit the three
environments in which the code falls short (section 4).

### BreakSession

State: the context's `debugState`, `prevState` (the hook's local),
`isMustUpdate`, `waitUpdateCount`, `updateCount`; the frame's `frameCount`,
`stackFrame` and `frameState`; the channels `c2f` and `f2c`; and `up`, the ends
that still have `m_connection`.  A channel is the writer's queue, the bytes on
their way and the reader's `m_readCommands` together: a handler that finds
`m_readCommands` empty may have the rest of the channel still on its way, so
`LeaveHook` and `SendUpdateSource` do not ask whether the channel is empty.
Each command is handled by an action of its own, and the whole of the loop's
body after `HandleCommand` is `LeaveHook`, `SendUpdateSource` or
`HandleEndConnection`.

The stops themselves are left to the program: a step-into stops at every line,
other states may (a breakpoint), and a step-over or step-return may end outside
a line hook, as `Stepping` says exactly.

Each end loses the connection on its own (`CloseContextEnd`, `CloseFrameEnd`):
an arbitrary suffix of what was on its way to it is lost and it tells itself
`END_CONNECTION`.  What either side sends from then on is lost.

History: `announced` and `seen` count the `UPDATE_SOURCE`s made and processed,
each message of the frame carries `seen` as it was sent, and `stopAt` is the
announcement that opened the current stop.

### BreakpointSync and SourcePages

`BreakpointSync` has `ctxBps`, `frameBps` and the two channels, in which only
the breakpoint commands are kept.  `Toggle` changes the frame's copy at once,
`HandleChange` the context's, which answers with its whole list unless it
removed nothing; `LoadConfig` replaces the list once; `Disconnect` cuts both
channels.  `wish` is history: what the last click on each breakpoint asked for.

`SourcePages` adds the sources of the program (`sources`, the context's
`m_sourceMap`, and `file`), the stops in them, and the pages of `SourceView`
with the marked line, the marked breakpoints and whether they are modified.  A
text is a version and the number of newlines it ends in, which is what the
splitting, displaying and saving of lines must agree on.  `pending` are the
events kept with `AddPendingEvent` until a requested source has a page.  The
commands about sources have channels of their own, so that more orders are
allowed than one connection has.  The mark of a chosen backtrace line is left
out, and after the loss of the connection the user does nothing and nothing is
loaded (bounds).

### FrameViews

The watch trees, the backtrace and the evaluations, against the context's loop.
`data` grows whenever the program's variables may have changed; `root[w]` is
the root of watch `w`'s tree with the counts of its last request and update,
`item[w]` the one variable's item with its fields.  Requests carry the update
count and the stack frame of the view that sent them; the answers are dropped
when the count is not the current one.  The user resumes, evaluates, chooses a
backtrace line, edits a label, expands, hides and shows at any moment.  History
(`late`, `edited`, `silent`, `early`) remembers that one of the cases of section
4 has happened.  Updating an item that was deleted is undefined in the code
(`watchview.cpp`); the model lets such an answer do nothing.

### RemoteEngine and RequestReply

Both ends: `counter` (`m_commandIdCounter`), `waitResponses`, `conn`, the wire
and the inboxes.  An id is a number modulo `IdModulus` (2^32 in the code); a
*token* names the request it was drawn for for ever, and answers carry it, so
that "the callback's own answer" can be said.  `evals` is the stack of requests
the context is answering: an evaluation may stop in a hook that answers others
first.  `OutputLog` draws ids, too.  A frame outlives its contexts: `NewSession`
connects it with the next one while its own counter and `m_waitResponses` stay.

### DebuggerStart

`CreateDebuggerFrame` with its two attempts, `StartContext` and `StartFrame`
each in the two steps between which the connection thread may come
(`StartContext`/`StoreConnector`, `StartFrame`/`StoreAcceptor`), the
connectors' handlers one at a time, the frame's backlog, and the frame process
that is launched, closed and launched again.  `Others` is a program that is
neither and uses the port.  A frame that cannot listen shuts down; the port may
be in use from outside, or by the frame's own acceptor while a connector or a
handler to come still holds it open (`AcceptorOpen`).
`MaxFaults` bounds what fails from outside
(`ExecuteFrame`, listening, the frame being closed); refusals, junk and closes
that follow from the programs' own steps are not counted.

### Connection, CommandLoop, CommandPath, FifoChannel

`Connection` is one direction after the handshake: `WriteCommand` posts a
handler, `BeginWriteCommand` starts the writes of the header and the data at
once, a write takes any part of what is left (`WriteSome`), and the rest queues
behind what waits already.  The reader takes a header, then its data.
`CommandLoop` is the Lua thread's loop in steps between lock operations
(`TestQueue`, `PopAndHandle`, `Check`, `Update`, `TimedWait`, `WakeUp`) against
`OnRemoteCommand` (`Arrive`, `Push`, `Notify`) and `OnConnectionClosed`, which
calls it with the engine locked.  `CommandPath` composes the two.

### ProtectedCalls

The stack of calls that can catch an error (`PCall`, `Resume`, the program's
own `pcall` and `resume`, evaluations) and of stopped hooks, with
`m_isCallSuccess` and `m_isEnabled`.  An error unwinds one call per step;
`caught` is what the last host call that caught one did.

### ContextManager, ConfigFile, ContextLife

`ContextManager` has the map, and `owner`, which places hold a `lua_State` of
which context: `Collect` frees a coroutine without telling the map, and the
place may be used again.  `ConfigFile` is `SaveConfig` in the steps between
which a crash leaves different files: open, write, close, remove, rename.
Files are numbered, since two names or two streams may mean the same one.
`ContextLife` lets contexts be opened, load the script, be closed and be
destroyed in a process that may be killed.

### EchoStream, EchoBuf, EchoOutput

`EchoBuf` cuts characters into lines (CR, LF, CR LF); `EchoStream` is the
bounded queue, its thread with the steps of `get_request`, `send_to` and
`receive_from`, and the destructor; `EchoOutput` composes them.  `cuts` is
history: how much had been written where each request ends.  With it the
splitting can be said of each request by itself (`LinesAreSplit`) instead of by
a recursive reference, and so be proved.

## 3. Runs

States are distinct states; each run finishes in less than three minutes with
two workers.

| run | instance | states | shows |
|---|---|---|---|
| `stepping_exact` | 3 threads, depth 3, no disturbance | 138k | counts exact, refinement of `StepSemantics` |
| `stepping_disturbed` | 2 threads, depth 2, requests at any time, caught errors, host resumptions | 65k | a counted step's thread still runs |
| `stepping_overtaken` | as small | violation | the finding of section 4 |
| `session` | 3 user commands, either end losing the connection | 274k | the two sides agree about the stop, its counts and the chosen frame; requests are obeyed exactly when the user knew; every stop is shown |
| `sources` | 2 sources with a breakpoint each, 2 clicks, 2 stops, 2 acts | 1.3M | breakpoint lists agree and converge; pages show the running line, the breakpoints and the file |
| `engine` | ids modulo 10, 4 per engine, 2 sessions | 219k | callbacks get their own answer, answers find them, every request is answered; refinement of `RequestReply` |
| `start` | one other program, one fault | 2.0M | the start returns; who is connected is connected with somebody; nothing is left behind |
| `path` | 2 commands, headers of 2 pieces, data of 0 or 1 | 535k | both refinements of `FifoChannel`; commands are handled, a lost connection ends the stop |
| `life` | 3 contexts, 4 places (both symmetric), 3 sessions | 59k | contexts are found and forgotten; the config file survives crashes |
| `calls` | 6 calls deep | 558k | silent end after a lost connection, cause of unreported errors, `m_isEnabled` |
| `echo` | texts of 4 characters, 2 letters, queue of 1 | 131k | lines, requests, end of the thread |
| `views` | one watch, 2 moves of the program, 3 acts | 5.6M | watches, fields, backtrace and frames are those of the stop |

Bounds.  Three threads give a thread that is neither the one a step was given
in nor the one that runs; depth 3 gives a function that is neither the step's
nor the innermost, and a call below the step's function.  `MaxCalls` bounds how
far a count may drift and matters only where it can.  In `BreakSession` every
stop after the first needs a command, so `MaxCommands` bounds stops, update
counts and channels; three are a command to leave a stop and two that cross
what follows.  In `sources` the two keys differ in the newline at the end of
their file; two stops let the events of an old stop meet a new one, and two
acts let one act be decided on what another has made stale.  An earlier
form of the module was explored with three acts, without the liveness property
(12.7 million states).  In
`engine` four ids are enough for an id of the first session to be waiting when
the second one draws its own; `MaxTogether`
bounds what both engines of a session draw together, and with `IdModulus` 10
the counters reach the modulus without any id being drawn twice.  In `start` one fault is each thing that fails alone.
In `path` two commands are needed for one to be written while the other's data
is; a header of two pieces is the smallest that can be written in part.  In
`calls` six calls are an evaluation inside a stop inside a coroutine inside an
evaluation.  In `echo` the queue of one is full with the second request and
four lines can be made of four characters.  In `views` two moves are two new
stops; three acts are a request, an act that makes it stale and one that makes
that stale.

Properties.  Some invariants are conjunctions of named parts that say one thing
together: `MarkFollowsTheProgram` (the mark of the running line, while stopped
and while running, and one page per source), `AnswersMeetCallbacks`,
`FailsOnlyByItsPeer`, `ConfigIsKept`, `ViewsShowTheStop`.  Where a module has no
type theorem of its own, its `TypeOK` is part of one of its invariants:
`SessionHasTwoEnds`, `MemoryIsKept`, `ConfigIsKept`, `EnabledIsInnermosts`,
`EachOnceInOrder`, `LinesAreSplit`, `ViewsShowTheStop` and
`MarkFollowsTheProgram`.  The type invariants with a theorem of their own, and the proved
`CopiesAgree`, `WaitCountExact`, `CallbacksGetTheirAnswer` and
`ClosedIsForgotten`, are not checked again by a run.

Deadlock is checked by the stepping runs and `session`.  The others say
`CHECK_DEADLOCK FALSE`, since there the program is over, or waits for a user
whose bounded acts are used up.

Fairness, and why the code justifies it:

* `session`: handling a command in the hook and announcing (its loop wakes up
  at least every second), and the frame's processing (each command posts an
  idle event).  Nothing is assumed of the user, of the program or of the
  connection.
* `sources` (`CopiesConverge`): the program keeps reaching lines, as commands
  are handled at line hooks only, and the frame processes.  A program that
  stays in C code for ever, or ends, never answers.  A connection that is cut
  is excluded by the property itself.
* `engine`: each thread runs, and evaluations end.
* `start`: the Lua thread runs and time passes; nothing of the frame.
* `path`: connection threads poll, the network carries what it has, the Lua
  thread's loop runs; `LossEndsTheStop` needs no more command.  The timeout of
  the wait is what makes it true: a notification may come between the test and
  the wait, and is then lost.
* `echo`: the thread runs.  Lost datagrams are excluded by name.

## 4. What the code does otherwise

The finding of a run:

* `stepping_overtaken`: a request that `SetDebugState` marks as ignored while a
  step is in progress still reaches the tail of the function and overwrites
  `m_stepinfo` (`context/context.cpp:745`), which moves the stop.

Met while modelling.  Each is admitted by the model, and the property it would
break names it as its exception, so the runs show that nothing else breaks it:

* Stepping.  Lua calls no return hook for activations that an error unwinds, so
  after a `pcall` that caught one the count is too high and a step-over runs
  past lines of its own function (`LuaErrors`).  `Context::Resume` does not call
  `BeginCoroutine`/`EndCoroutine`, and the coroutine's calls are counted for the
  main thread (`HostResume`).
* Engine.  Ids wrap at 2^32 and nothing clears `m_waitResponses` when a session
  ends (`net/remoteengine.cpp:185`, `246`): a callback of an old session is only
  safe because ids do not come round (`NoWrap` in the proofs).
* Start.  `Connector::Failed` runs twice, the second time without an
  `m_connection`, if both handlers of the handshake fail
  (`net/connection.cpp:77`; `KilledOnlyByItsPeer` in `FailsOnlyByItsPeer`).  An attempt left at its
  deadline goes on, so the context may report that the frame was not found and
  have a session, and a frame that was launched but does not listen yet is not
  used (`GivenUpForACause`).  A peer that fails the handshake uses up the only
  accept, and the frame is deaf until it is closed (`FrameAcceptsAgain` in
  `FailsOnlyByItsPeer`).
* Connection.  If the socket takes only part of a header, the rest is written
  behind the data (`net/connection.cpp:374-400`), the reader loses its place,
  and the command's memory may be gone (`inPart`).
* Calls.  `m_isCallSuccess` is one flag, so an error of an outer call goes
  unreported if an inner one succeeded (`UnreportedHasACauseInside`).
  `lldebug_assert` fails for `nil` and for *true* (`context/context.cpp:923`),
  where programs such as `test/test/luac.lua:4` assert that something is true.
* Contexts.  Two contexts open at a time may get each other's entries for a
  place that was used before (`overlap`); two that debug the same script share
  the temporary file (`together`).  A full disk is not noticed: `commit` removes
  the old file whether or not the last buffer was written (`lost`).  A crash
  between the removal and the renaming leaves the complete file under its
  temporary name only, from where nothing loads it.  What `xml_oarchive` writes
  at its end comes after `commit` has closed the stream.
* Echo.  `receive_from` has no timeout; after a lost echo the thread waits, and
  on systems where closing the socket does not wake it the destructor, too.
* Views.  Editing a label makes the answers awaited by the other watches old
  (`visual/watchview.cpp:450`; `edited`).  An evaluation that returned a value
  and changed variables refreshes nothing (`visual/interactiveview.cpp:285-295`;
  `silent`).  Expanding an item between the request for its parent and the
  answer keeps the old value's fields (`visual/watchview.cpp:319`; `early`).
  Choosing a line of a backtrace that is being replaced names a frame of an
  older stop (`late`).  Backtraces that differ in nothing but the lines count
  as the same, as a line is compared with itself
  (`visual/backtraceview.cpp:135`).
* Sources.  Only the selected page is told that the program goes on
  (`visual/sourceview.cpp:588`; `away`).  A source that could not be read when
  the program stopped in it, and then can, is both asked for and added: it gets
  two pages, and the kept event marks its line when it comes, late or not
  (`visual/sourceview.cpp:616`; `recovered`).  A failed save is reported to
  nobody while the page is marked as saved (`context/context.cpp:542`;
  `failed`).  The comment "Don't insert line breaks at the last line"
  (`visual/sourceview.cpp:358`) does not describe its code, which compares an
  index with the number of lines; saving takes the newline away again
  (`SavedIsInTheFile`).

Not in any model, as their data is abstracted: a line of more than 511
characters makes the loop that splits a file not end (`sysinfo.cpp:234`), and the marks of
breakpoints on an edited page move with its lines while the list does not.

## 5. Proofs

Checked by TLAPS for every value of the constants; the bounds of section 3
(commands, clicks, ids, sessions) are arbitrary there.  The list is `theorems`
in `PROJECT.json`; the assumptions are those named in the modules
(`...Assumption`), and the two stated in theorems (`~LuaErrors`, `~HostResume`;
`NoWrap`).

`Stepping_proofs`: `SteppingTypeCorrect`, `StepTargetAlwaysRuns`,
`CallCountsAreExact` and `CountersImplementSteps`.  The inductive invariant `TypeInv` adds to the types that
no thread is nested in itself, that the main thread is the outermost one and
that `m_coroutines` is never empty.  `StepTargetRuns` is inductive on top of
it: only `EndCoroutine` removes an entry, and it breaks if that entry is the
step's.  For the counts the strengthening `CountInv` says that `m_coroutines`
lists the running threads in order (`Counts`), which fails as soon as the host
resumes a thread; the theorem therefore assumes `~LuaErrors` and
`~HostResume`.  `CountersImplementSteps` is the refinement of `StepSemantics`.
The counters are relative to the thread's resumption and the promise to the
activations when the step was given; `OriginInv` says that `m_stepinfo` is the
latter in the counter's terms.  With the exact counts a hook then stops where
the promise says, one action at a time.
The theorem also assumes `~Resteps`: a request in the middle of a step is the
finding of section 4.

`SourcePages_proofs`, first about `BreakpointSync`: `BreakpointsTypeCorrect`,
`CopiesAlwaysAgree` and `LastClickAlwaysWins`.  That the copies agree at rest is
not inductive: the invariant `SyncInv` says what holds when they are not at
rest, namely that the last answer on its way is the context's list, and that the
copies agree already when nothing on its way to the context will be answered.
`WishInv` says that the last pending change of a breakpoint is what was last
wished for, and that without a pending change the context's list is.
`PagesImplementSync` carries these to the pages: every step of `SourcePages` is
one of `BreakpointSync` or leaves its variables alone.

Then about the pages: `MarksAreAlwaysTheBreakpoints`,
`MarkAlwaysFollowsTheProgram` and `SavedIsAlwaysInTheFile`.  For the first,
`MarksInv` says that a page marks the frame's list as long as no answer is on
its way and none will come.  The second needs `PagesInv`.  `WaitInv`: the
updates and the answers to them that are on their way are at most
`m_waitUpdateCount`, so that while they are the program has not gone on and
every update is of the present stop.  `PageInv`: a source has one page, or one
`ADDED_SOURCE` on its way before the updates that show it, and the frame asks
only for what the context does not know, so no event is kept for a late answer.
`BreakInv`: the last `CHANGED_STATE` before each update is the one of a stop
(`OnBefore`, `OnLast`).  `ShownInv`: in a stop that was told, a new page and a
change of the state, which disturb the marks, are followed by the update that
shows the stop, and without one on its way the marks are right.
`PageInv` and `ShownInv` end where a file that could not be read can be read
later in the same stop (`recovered`, section 4).  `SaveInv` says of each page
that is not modified that its text without the newline added for the view is in
the file, or is the last text for it on its way there (`IsSaved`).

`BreakSession_proofs`: `SessionTypeCorrect`, `SessionObeysIffInformed`,
`ViewsBelieveTheTruth`, `UpdateCountsConverge`, `ChosenFramesAreOfTheStop` and
`WaitCountIsExact`.  None is inductive.  That `m_waitUpdateCount` stays natural
already needs to know what is on its way, and the invariant `SessionInv`
numbers it instead of counting it: along `f2c` the tags run from what the
context has had answered (`announced - waitUpdateCount`) to what the frame has
seen, along `c2f` from there to what was announced, one more at each
`SUCCESSED` or `UPDATE_SOURCE` (`Channel`).  The end is exact while both ends
are connected and an upper bound once something was lost.  Three lemmas say
that sending, taking and cutting keep a channel so; the rest is one step per
action.  A command at the head of `f2c` thus carries
`announced - waitUpdateCount`, which is the theorem about obedience.  The
frame's belief is inductive on top of it; the update counts need `CountInv`: an
end that is behind has the newer count on its way to it, and nothing on its way
is ahead of its sender.  `ChosenInv` says that while a frame of an earlier stop
is chosen the announcement that resets it is on its way (`ResetComes`).
`WaitCountIsExact` counts messages by the cardinality of their positions
(`CountSend`, `CountTake`), so that no induction over the channel is needed;
the lemmas about such counts are in `SequenceFacts` and serve `RemoteEngine` too.

`RemoteEngine_proofs`: `EngineTypeCorrect`, `CallbacksAreTheirOwn`,
`EngineImplementsRequestReply` and `AnswersAlwaysMeet`.  Under `NoWrap` an id is a function of who drew
it and as which draw (`IdOf`), so it names its request among all that can still
be answered.  `EngineInv` says that every id on its way is its token's, that a
waiting callback has not been called, that a callback is in `m_waitResponses`
or with one command in an inbox and never in both, and that the frame listens
only when it has processed all of the old session (`SessionsInv`), which is why
callbacks of that session cannot meet the answers of the next one.
For the last theorem `BalanceInv` compares what is held of a request (how often
it, or its answer, is on a wire, in an inbox or being evaluated: `Held`) with
whether its callback waits: never more than one of it, and exactly one while
neither end is closed.  A step moves a count from one place to the next; a read
answer takes its callback along, since `BalanceInv` and the ids of `EngineInv`
say that there is one and under which id.  `ConfirmingInv` is needed where a
request is answered: nobody is asked before the connection is confirmed, so an
end that cannot answer is closed.

`Context_proofs`: `ManagerTypes`, `OneAtATimeFound` and `ClosedForgotten` of
`ContextManager`; `LifeFindsContexts`, `ConfigAlwaysKept` and
`SessionsKeepBreakpoints` of the composition.  `ManagerInv` adds that only open
contexts have entries, so a place that is used again under the same context
still names it, and a place of a closed one is free for the next.  `LifeInv`
adds, as long as no two contexts are open together, what each step of a save
has made sure of: from opening it on the temporary file is the context's own,
and whole when it was closed without a loss (`AtWorkInv`), and with nobody at
work the config file is that of the last session (`CommittedInv`).  That a
session loads what the one before it saved follows at the step that loads.

Of `ProtectedCalls`, in the same module: `QuitAlwaysSilent`, `UnreportedHasCause`
and `EnabledAsAsked`.  The first and second are inductive together with what
`m_isCallSuccess` says of the calls on the stack (`FlagInv`).  The third needs
that what every call on the stack saved is what those around it asked for
(`EnabledInv`), so that unwinding any number of calls restores what the
innermost remaining evaluation asked for.

Of `DebuggerStart`, in the same module: `SessionsHaveTwoEnds`,
`NoSocketIsEverForgotten`, `HandshakesFailByThePeer`, `EndsAlwaysFreeThePort`
and `GivesUpOnlyForACause`.  They rest on one inductive invariant,
`SocketsInv`.  `ConnectorInv`: `m_handleCommandCount` is the number of handlers
that ran without an error, so the second success is the last handler.
`LineInv`, `WroteInv` and `QueueInv`: what has come to a connection and what was
written on it fit the connectors' stages.  `ContextEndInv` and `FrameEndInv`: an
end with a connection did its handshake on it.  `ClientInv` and `ServerInv`: the
socket of each side is the engine's connection, is about to become it, or is
closed.  `SpoiltInv`: a handshake fails only on a connection the peer closed or
sent junk on.  `LuaInv` and `GaveUpInv` say what the Lua thread's place tells of
the attempts, and why a frame no longer accepts.  Every action falls into one of
the classes of `StartStep`, by what it does to the sockets, and the invariant is
shown for each class.  The last theorem needs two more: `AttemptInv`, that an
attempt left in time has failed or its session has ended, and `CalmInv`, that
without a fault the connections are whole.

`CommandPath_proofs`: `LoopTypes` and `LoopImplementsFifo` of `CommandLoop`,
`MemoryAlwaysKept`, `PathCarriesInOrder` and `PathHandlesInOrder` of the
composition.  `LoopInv` says that what was pushed is what was handled followed
by the queue, and that the command copied by `front` is still the head when
`pop` comes, since the other thread only appends.  For the bytes, `ConnInv`
says where in the bytes under way each command's header begins (`off`, counted
from what the reader takes next).  As long as no data overtook a header in part
(`Sound`), every piece is the one that belongs there, the reader is at a header
or at the data of the command to deliver next, and the writer is between two
commands, in a header or in data, with the operation, or its handler, for just
what is left; the posted handlers of new commands are in order.  After that
(`Spoiled`) a place is named before which everything belongs there and where
the reader will find data in a header.  A write only extends the stream and a
read only shifts it.  `MemoryInv` holds without `off`: while no header was
written in part, what waits for the socket is of the front command, and nothing
waits when a handler that pops is to run.

Of `EchoOutput`, in the same module: `RequestsGoOnceInOrder` and
`LinesAreAlwaysSplit`, for a text of any length and any limit of the queue.  For
the first, `EchoInv` says that the queue holds the newest requests, those after
`LastGone`, and that all up to it were dropped or taken by the thread, in order
(`Gone`); the loop that drops the oldest only moves `LastGone`.  For the second,
`LinesInv` says that each request is the text of the piece of what was written
between two cuts, that the buffer is the text after the last cut, and that
nothing but a CR that waits for what follows it is between the buffer and the
end of what was written.  One more character tells of at most one end of a line, which may be
before it (`EndsGrow`): a CR is known to be an end only by what follows it.

`Frame_proofs`: `FramesOfTheStop`, `ViewsAlwaysShowTheStop` and
`FieldsAlwaysOfTheValue`.  What an action does to the counts, the trees and the
channels is stated once for each (`OnVarsDoes` and so on); the invariants use
only that.  `WaitInv` is as for the pages: while an update or its answer is on
its way the stop is the one it announced.  `StateInv` says that the views are
enabled when an update comes and as long as the stop is shown (`Shown`: told,
and its first update taken).  `BacktraceInv` says that then the backtrace is
asked for, or the last one on its way is this stop's, or the view has it.
`LateInv` and `FramesInv` follow the chosen frame: unless the user was late it is
one of this stop, or what resets it is on its way before any request that names
it is answered.

For the trees every step is, as one watch sees it, one of eight (`WatchSteps`):
the watch is left alone, a request of it is answered, an answer is dropped, or
taken for the root or for the item, it asks for its root or its fields, or the
count goes up.  `WatchInv` holds of each watch by itself.  `CountInv`: nothing is
ahead of the count, so that a new count makes everything on its way an old
answer.  `AnswerInv`: what was asked for at this count and is not there is on its
way.  `ChosenInv`: all at this count is of the chosen frame.  `ValueInv`: fields of
a value that is replaced are not asked for before the answer that replaces it
(`Ordered`), which is what `early` excepts.  That the values are the program's
needs one more: from the last update of a stop on nothing changes the data,
unless an evaluation did so unseen (`SettledInv`).

Only model-checked: the liveness properties (`EveryStopIsShown`,
`CopiesConverge`, `EveryRequestIsAnswered`, `StartReturns`,
`EveryCommandIsHandled`, `LossEndsTheStop`, `EveryRequestGoesOut`,
`ThreadStops`), which need fairness and are out of the prover's reach.  Every
safety property of a passing run is stated by a theorem.

## 6. Not modelled

* Payloads: serialization of `Command`s (boost), `luainfo`, how values are
  formatted and variables listed, `md2`, `vectorstream`, encodings.  They keep
  no state of the protocol.
* C API wrappers and the loader module, which forward to `Context`; the test
  and echo tools.
* Sources that are strings, which cannot be saved, and the frame's own
  `SourceManager`, of which nothing is read.
* Of the views: drawing, folding, the mark of a chosen backtrace line, the
  pop-up of a variable, and what `END_CONNECTION` clears in the watch and
  backtrace views (`FrameViews` has no loss of the connection; `SourcePages`
  has).  Windows and menus, but for the commands they send.
* Commands that only pass a value to a window (`SET_ENCODING`, `OUTPUT_LOG`),
  but for the ids that logs draw (`RemoteEngine`).
* `SET_UPDATECOUNT` sent by the context (no code sends it), and
  `safe_ofstream::discard` (no code calls it).

How much of the code that is.  The repository holds its dependencies and a
second copy of an old version (`extralib/`, `tags/`): wxScintilla, babel,
treelistctrl and others are most of its lines.  The program itself is
`lldebug/src`, some 12.6 thousand lines with its headers;
the modules model some 2800 of those, which is the code that keeps the state
above.  Of `net/remoteengine.cpp`, `net/connection.cpp`, `net/echostream.cpp`,
`context/context.cpp`, `visual/mediator.cpp` and `sysinfo.cpp` it is about half or
more.  The rest of them is what this section lists.

## 7. What could come next

* `END_CONNECTION` and the second session in `FrameViews`; two watches that ask
  in turn.
* Pure algorithms against reference definitions: `ParseLuaError`,
  `ToPortNumber`, the merge of `DoUpdateVars`.
