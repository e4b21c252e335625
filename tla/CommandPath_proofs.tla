------------------------- MODULE CommandPath_proofs -------------------------
(***************************************************************************)
(* Proofs about what passes from thread to thread and from end to end.     *)
(* CommandPath: its CommandLoop, and its Connection, for any number of     *)
(* commands, of pieces of a header and of their data.  EchoOutput: its     *)
(* requests and its lines, for any text and any limit of the queue.        *)
(***************************************************************************)
EXTENDS CommandPath, EchoOutput, SequenceFacts

-----------------------------------------------------------------------------
(* The loop *)

(* The command that was copied is still the front when it is popped.        *)
FrontIsCopied == lua = "pop" => queue # <<>> /\ front = Head(queue)

(* What was pushed was handled, or waits. *)
NothingElse == pushed = handled \o queue

ArrivingIsNext ==
    /\ net = "push" => arriving \in Command
    /\ isConnecting => Len(pushed) \in 0 .. MaxCommands
    /\ isConnecting /\ net = "push" => Len(pushed) < MaxCommands

LoopInv == TypeOK /\ FrontIsCopied /\ NothingElse /\ ArrivingIsNext

(* Handling the front of what waits, and pushing behind it. *)
LEMMA ConcatFacts ==
    ASSUME NEW S, NEW h \in Seq(S), NEW q \in Seq(S), NEW e \in S
    PROVE  /\ Append(h \o q, e) = h \o Append(q, e)
           /\ q # <<>> =>
                 /\ h \o q = Append(h, Head(q)) \o Tail(q)
                 /\ Len(h) < Len(h \o q)
                 /\ (h \o q)[Len(h) + 1] = Head(q)
<1>1. <<e>> \in Seq(S) /\ h \o q \in Seq(S)
  BY ConcatProperties
<1>2. Append(h \o q, e) = (h \o q) \o <<e>> /\ Append(q, e) = q \o <<e>>
  BY <1>1, AppendIsConcat
<1>3. Append(h \o q, e) = h \o Append(q, e)
  BY <1>1, <1>2, ConcatAssociative
<1>4. ASSUME q # <<>>
      PROVE  /\ h \o q = Append(h, Head(q)) \o Tail(q)
             /\ Len(h) < Len(h \o q)
             /\ (h \o q)[Len(h) + 1] = Head(q)
  <2>1. /\ Head(q) \in S /\ Tail(q) \in Seq(S)
        /\ q = <<Head(q)>> \o Tail(q)
        /\ <<Head(q)>> \in Seq(S)
        /\ Head(q) = q[1]
    <3>1. /\ Head(q) \in S /\ Tail(q) \in Seq(S) /\ Head(q) = q[1]
          /\ Len(Tail(q)) = Len(q) - 1
          /\ \A i \in 1 .. Len(Tail(q)) : Tail(q)[i] = q[i + 1]
      BY <1>4, HeadTailProperties, TailFacts
    <3>2. Len(q) \in Nat /\ Len(q) # 0
      BY <1>4, LenProperties, EmptySeq
    <3>3. /\ <<Head(q)>> \in Seq(S) /\ Len(<<Head(q)>>) = 1
          /\ <<Head(q)>>[1] = Head(q)
      BY <3>1
    <3>4. /\ <<Head(q)>> \o Tail(q) \in Seq(S)
          /\ Len(<<Head(q)>> \o Tail(q)) = 1 + (Len(q) - 1)
          /\ \A i \in 1 .. 1 + (Len(q) - 1) : (<<Head(q)>> \o Tail(q))[i] =
                IF i <= 1 THEN <<Head(q)>>[i] ELSE Tail(q)[i - 1]
      BY <3>1, <3>3, ConcatProperties
    <3>5. \A n \in Nat : n # 0 =>
             /\ 1 + (n - 1) = n
             /\ \A i \in 1 .. n : /\ i <= 1 => i = 1
                                  /\ ~(i <= 1) => i - 1 \in 1 .. n - 1
                                                   /\ (i - 1) + 1 = i
      OBVIOUS
    <3>6. \A i \in 1 .. Len(q) : (<<Head(q)>> \o Tail(q))[i] = q[i]
      <4> SUFFICES ASSUME NEW i \in 1 .. Len(q)
                   PROVE  (<<Head(q)>> \o Tail(q))[i] = q[i]
        OBVIOUS
      <4>1. CASE i <= 1
        BY ONLY <3>1, <3>2, <3>3, <3>4, <3>5, <4>1, i \in 1 .. Len(q)
      <4>2. CASE ~(i <= 1)
        <5>1. i - 1 \in 1 .. Len(q) - 1 /\ (i - 1) + 1 = i
          BY ONLY <3>2, <3>5, <4>2, i \in 1 .. Len(q)
        <5>2. Tail(q)[i - 1] = q[i]
          BY ONLY <3>1, <5>1
        <5> QED
          BY ONLY <3>2, <3>4, <3>5, <4>2, <5>2, i \in 1 .. Len(q)
      <4> QED
        BY <4>1, <4>2
    <3>7. Len(<<Head(q)>> \o Tail(q)) = Len(q)
      BY ONLY <3>2, <3>4, <3>5
    <3> QED
      BY <3>1, <3>3, <3>4, <3>6, <3>7, SeqEqual
  <2>2. Append(h, Head(q)) = h \o <<Head(q)>>
    BY <2>1, AppendIsConcat
  <2>3. h \o q = Append(h, Head(q)) \o Tail(q)
    <3>1. (h \o <<Head(q)>>) \o Tail(q) = h \o (<<Head(q)>> \o Tail(q))
      BY <2>1, ConcatAssociative
    <3> QED
      BY ONLY <2>1, <2>2, <3>1
  <2>4. Len(h) \in Nat /\ Len(q) \in Nat /\ Len(q) # 0
    BY <1>4, LenProperties, EmptySeq
  <2>5. \A m, n \in Nat : n # 0 =>
           /\ m < m + n
           /\ m + 1 \in 1 .. m + n /\ ~(m + 1 <= m) /\ (m + 1) - m = 1
    OBVIOUS
  <2>6. /\ Len(h \o q) = Len(h) + Len(q)
        /\ \A i \in 1 .. Len(h) + Len(q) : (h \o q)[i] =
              IF i <= Len(h) THEN h[i] ELSE q[i - Len(h)]
    BY ConcatProperties
  <2>7. (h \o q)[Len(h) + 1] = q[1]
    BY ONLY <2>4, <2>5, <2>6
  <2> QED
    BY <2>1, <2>3, <2>4, <2>5, <2>6, <2>7
<1> QED
  BY <1>3, <1>4

LEMMA InitInv == Init => LoopInv /\ Fifo!Init
<1> SUFFICES ASSUME Init PROVE LoopInv /\ Fifo!Init
  OBVIOUS
<1>1. <<>> \in Seq(Command) /\ <<>> = <<>> \o <<>> /\ Len(<<>>) = 0
  OBVIOUS
<1>2. TypeOK
  BY <1>1 DEF Init, TypeOK
<1>3. ArrivingIsNext
  BY <1>1, LoopAssumption DEF Init, ArrivingIsNext
<1> QED
  BY <1>1, <1>2, <1>3 DEF Init, LoopInv, FrontIsCopied, NothingElse, Fifo!Init

LEMMA PushStep ==
    ASSUME LoopInv, Push
    PROVE  LoopInv' /\ Fifo!Next
<1> USE DEF LoopInv
<1>1. /\ queue' = Append(queue, arriving) /\ pushed' = Append(pushed, arriving)
      /\ net' = "notify" /\ net = "push"
      /\ UNCHANGED <<lua, isBreak, front, handled, arriving, engineMutex,
                     isWoken, isConnecting>>
  BY DEF Push, luaVars
<1>2. arriving \in Command
  BY <1>1 DEF ArrivingIsNext
<1>3. /\ queue' \in Seq(Command) /\ pushed' \in Seq(Command)
      /\ Len(pushed') = Len(pushed) + 1 /\ Len(pushed) \in Nat
      /\ queue' # <<>> /\ (queue # <<>> => Head(queue') = Head(queue))
  <2>1. queue \in Seq(Command) /\ pushed \in Seq(Command)
    BY DEF TypeOK
  <2>2. Append(queue, arriving) # <<>> /\
        (queue # <<>> => Head(Append(queue, arriving)) = Head(queue))
    BY <1>2, <2>1, AppendProperties, TailFacts, LenProperties, EmptySeq
  <2> QED
    BY <1>1, <1>2, <2>1, <2>2, AppendProperties, LenProperties
<1>4. TypeOK'
  BY <1>1, <1>3 DEF TypeOK
<1>5. FrontIsCopied'
  <2> SUFFICES ASSUME lua' = "pop" PROVE queue' # <<>> /\ front' = Head(queue')
    BY DEF FrontIsCopied
  <2>1. queue # <<>> /\ front = Head(queue)
    BY <1>1 DEF FrontIsCopied
  <2>2. front' = front
    BY <1>1
  <2> QED
    BY ONLY <1>3, <2>1, <2>2
<1>6. NothingElse'
  <2>1. handled \in Seq(Command) /\ queue \in Seq(Command)
    BY DEF TypeOK
  <2>2. Append(handled \o queue, arriving) = handled \o Append(queue, arriving)
    BY <1>2, <2>1, ConcatFacts
  <2>3. pushed = handled \o queue
    BY DEF NothingElse
  <2> QED
    BY <1>1, <2>2, <2>3 DEF NothingElse
<1>7. ArrivingIsNext'
  <2>1. \A m, n \in Nat : m < n => m + 1 \in 0 .. n
    OBVIOUS
  <2>2. isConnecting => Len(pushed') \in 0 .. MaxCommands
    BY <1>1, <1>3, <2>1, LoopAssumption DEF ArrivingIsNext
  <2> QED
    BY <1>1, <2>2 DEF ArrivingIsNext
<1>8. Fifo!Next
  BY <1>1, <1>2 DEF Fifo!Next, Fifo!Write
<1> QED
  BY <1>4, <1>5, <1>6, <1>7, <1>8

LEMMA HandleStep ==
    ASSUME LoopInv, PopAndHandle
    PROVE  LoopInv' /\ Fifo!Next
<1> USE DEF LoopInv
<1>1. /\ lua = "pop"
      /\ queue' = Tail(queue) /\ handled' = Append(handled, front)
      /\ isBreak' \in BOOLEAN /\ lua' \in {"raised", "test"}
      /\ UNCHANGED <<front, isWoken, net, arriving, engineMutex, isConnecting,
                     pushed>>
  <2>1. isBreak' \in BOOLEAN
    BY DEF PopAndHandle, TypeOK
  <2> QED
    BY <2>1 DEF PopAndHandle, netVars
<1>2. queue # <<>> /\ front = Head(queue)
  BY <1>1 DEF FrontIsCopied
<1>3. /\ queue \in Seq(Command) /\ handled \in Seq(Command)
      /\ pushed = handled \o queue
  BY DEF TypeOK, NothingElse
<1>4. front \in Command /\ Tail(queue) \in Seq(Command)
  BY <1>2, <1>3, HeadTailProperties
<1>5. /\ handled \o queue = Append(handled, Head(queue)) \o Tail(queue)
      /\ Len(handled) < Len(handled \o queue)
      /\ (handled \o queue)[Len(handled) + 1] = Head(queue)
  BY <1>2, <1>3, <1>4, ConcatFacts
<1>6. TypeOK'
  <2>1. Append(handled, front) \in Seq(Command)
    BY <1>3, <1>4, AppendProperties
  <2> QED
    BY <1>1, <1>4, <2>1 DEF TypeOK, InHook
<1>7. FrontIsCopied' /\ ArrivingIsNext'
  BY <1>1 DEF FrontIsCopied, ArrivingIsNext
<1>8. NothingElse'
  BY <1>1, <1>2, <1>3, <1>5 DEF NothingElse
<1>9. Fifo!Next
  BY <1>1, <1>2, <1>3, <1>5 DEF Fifo!Next, Fifo!Deliver
<1> QED
  BY <1>6, <1>7, <1>8, <1>9

(* No other step touches the queue. *)
LEMMA OtherStep ==
    ASSUME LoopInv,
           \/ Arrive \/ OnConnectionClosed \/ Notify \/ HookCallback
           \/ TestQueue \/ Check \/ Update \/ TimedWait \/ WakeUp
           \/ UNCHANGED vars
    PROVE  LoopInv' /\ UNCHANGED <<pushed, handled>>
<1> USE DEF LoopInv
<1>1. UNCHANGED <<queue, pushed, handled>>
  BY DEF Arrive, OnConnectionClosed, Notify, HookCallback, TestQueue, Check,
     Update, TimedWait, WakeUp, luaVars, netVars, vars
<1>2. NothingElse'
  BY <1>1 DEF NothingElse
<1>3. queue \in Seq(Command) /\ pushed \in Seq(Command) /\ Len(pushed) \in Nat
  BY LenProperties DEF TypeOK
<1>4. CASE Arrive \/ OnConnectionClosed
  <2>1. /\ net = "idle" /\ isConnecting /\ net' = "push"
        /\ UNCHANGED <<lua, isBreak, front, isWoken>>
        /\ engineMutex' \in {engineMutex, "net"}
        /\ isConnecting' \in BOOLEAN
    BY <1>4 DEF Arrive, OnConnectionClosed, luaVars, TypeOK
  <2>2. /\ arriving' \in Command
        /\ isConnecting' => isConnecting /\ Len(pushed) < MaxCommands
    <3>1. Len(pushed) \in 0 .. MaxCommands
      BY <2>1 DEF ArrivingIsNext
    <3>2. \A m, n \in Nat : m \in 0 .. n => m + 1 \in 1 .. n + 1
      OBVIOUS
    <3>3. Len(pushed) + 1 \in 1 .. MaxCommands + 1
      BY <1>3, <3>1, <3>2, LoopAssumption
    <3>4. CASE Arrive
      BY <2>1, <3>3, <3>4 DEF Arrive, Command, Kinds
    <3>5. CASE OnConnectionClosed
      BY <3>3, <3>5 DEF OnConnectionClosed, Command, Kinds
    <3> QED
      BY <1>4, <3>4, <3>5
  <2>3. TypeOK'
    BY <1>1, <2>1, <2>2 DEF TypeOK
  <2>4. FrontIsCopied' /\ ArrivingIsNext'
    BY <1>1, <2>1, <2>2 DEF FrontIsCopied, ArrivingIsNext
  <2> QED
    BY <1>1, <1>2, <2>3, <2>4
<1>5. CASE Notify
  <2>1. TypeOK'
    BY <1>5 DEF Notify, TypeOK, luaVars
  <2>2. FrontIsCopied' /\ ArrivingIsNext'
    BY <1>5 DEF Notify, FrontIsCopied, ArrivingIsNext, luaVars
  <2> QED
    BY <1>1, <1>2, <2>1, <2>2
<1>6. CASE TestQueue
  <2>1. TypeOK'
    BY <1>3, <1>6, HeadTailProperties DEF TestQueue, Front, TypeOK, InHook, netVars
  <2>2. FrontIsCopied' /\ ArrivingIsNext'
    BY <1>6 DEF TestQueue, Front, FrontIsCopied, ArrivingIsNext, netVars
  <2> QED
    BY <1>1, <1>2, <2>1, <2>2
<1>7. CASE HookCallback \/ Check \/ Update \/ TimedWait \/ WakeUp \/ UNCHANGED vars
  <2>1. /\ lua' \in InHook \cup {"outside", "waiting", "raised"}
        /\ isBreak' \in BOOLEAN /\ isWoken' \in BOOLEAN
        /\ UNCHANGED <<front, net, arriving, engineMutex, isConnecting>>
    <3>1. CASE HookCallback
      BY <3>1 DEF HookCallback, TypeOK, InHook, netVars
    <3>2. CASE Check
      BY <3>2 DEF Check, TypeOK, InHook, netVars
    <3>3. CASE Update
      BY <3>3 DEF Update, TypeOK, InHook, netVars
    <3>4. CASE TimedWait \/ WakeUp
      BY <3>4 DEF TimedWait, WakeUp, TypeOK, InHook, netVars
    <3>5. CASE UNCHANGED vars
      BY <3>5 DEF vars, TypeOK
    <3> QED
      BY <1>7, <3>1, <3>2, <3>3, <3>4, <3>5
  <2>3. TypeOK'
    BY <1>1, <1>3, <2>1 DEF TypeOK, InHook
  <2>2. ArrivingIsNext'
    BY <1>1, <2>1 DEF ArrivingIsNext
  <2>4. lua' = "pop" => lua = "pop"
    BY <1>7 DEF HookCallback, Check, Update, TimedWait, WakeUp, vars
  <2>5. FrontIsCopied'
    BY <1>1, <2>1, <2>4 DEF FrontIsCopied
  <2> QED
    BY <1>1, <1>2, <2>2, <2>3, <2>5
<1> QED
  BY <1>4, <1>5, <1>6, <1>7

LEMMA StepInv == LoopInv /\ [Next]_vars => LoopInv' /\ [Fifo!Next]_(Fifo!vars)
<1> SUFFICES ASSUME LoopInv, [Next]_vars
             PROVE  LoopInv' /\ [Fifo!Next]_(Fifo!vars)
  OBVIOUS
<1>1. CASE Push
  BY <1>1, PushStep
<1>2. CASE PopAndHandle
  BY <1>2, HandleStep
<1>3. CASE ~Push /\ ~PopAndHandle
  BY <1>3, OtherStep DEF Next, Loop, Fifo!vars
<1> QED
  BY <1>1, <1>2, <1>3

(* Type correctness, and that a mutex is held only within an operation.     *)
THEOREM LoopTypes == Spec => []TypeOK
<1>1. LoopInv => TypeOK
  BY DEF LoopInv
<1> QED
  BY <1>1, InitInv, StepInv, PTL DEF Spec

(* Copying the front and popping it are two operations of a queue that the  *)
(* other thread pushes to, and yet every command is handled once and in     *)
(* order (context.cpp:499-501).                                             *)
THEOREM LoopImplementsFifo == Spec => ImplementsFifo
  BY InitInv, StepInv, PTL DEF Spec, ImplementsFifo, Fifo!Spec
-----------------------------------------------------------------------------
(* The connection: the invariant *)

(* off[n] is where in the stream the header of the n-th command begins, or  *)
(* would, had nothing been taken and everything been written.               *)
Offsets(off) ==
    /\ off \in [1 .. MaxCommands + 1 -> Int]
    /\ \A n \in 1 .. Len(written) :
          off[n + 1] = off[n] + HeaderSize + written[n].size
    /\ \A n \in 1 .. Len(written), m \in 1 .. Len(written) + 1 :
          n < m => off[n] + HeaderSize + written[n].size <= off[m]

HistoryInv ==
    /\ \A n \in 1 .. Len(written) : written[n].id = n
    /\ Len(delivered) <= Len(written) /\ Len(written) <= MaxCommands

(* The reader is at the header of the first command that is not delivered,  *)
(* or at its data.                                                          *)
ReaderAt(off) ==
    \/ reading = Conn!NoCommand /\ off[Len(delivered) + 1] = 1
    \/ /\ Len(delivered) < Len(written)
       /\ reading = written[Len(delivered) + 1]
       /\ off[Len(delivered) + 1] = 1 - HeaderSize

HeaderPiece(n) == [cmd |-> written[n], part |-> "header"]
DataPiece(n) == [cmd |-> written[n], part |-> "data"]

(* The p-th piece is the one that belongs there. *)
Expected(off, p) ==
    \A n \in 1 .. Len(written) :
       /\ off[n] <= p /\ p < off[n] + HeaderSize => stream[p] = HeaderPiece(n)
       /\ /\ off[n] + HeaderSize <= p
          /\ p < off[n] + HeaderSize + written[n].size
          => stream[p] = DataPiece(n)

(* The writer.  Commands from the f-th on are in the queue, and from the    *)
(* m-th on still to be put there.                                           *)
QueueIs(f, m) ==
    /\ f \in 1 .. Len(written) + 1 /\ m = f + Len(writeQueue)
    /\ m <= Len(written) + 1
    /\ \A i \in 1 .. Len(writeQueue) : writeQueue[i] = written[f + i - 1]

IsPosted(i) == service[i].what = "DoWriteCommand"

PostedFrom(m) ==
    /\ \A i \in DOMAIN service : service[i].what # "failed"
    /\ \A n \in m .. Len(written) :
          \E i \in DOMAIN service : IsPosted(i) /\ service[i].op.cmd = written[n]
    /\ \A i \in DOMAIN service : IsPosted(i) =>
          \E n \in m .. Len(written) : service[i].op.cmd = written[n]
    /\ \A i, j \in DOMAIN service :
          i < j /\ IsPosted(i) /\ IsPosted(j)
             => service[i].op.cmd.id < service[j].op.cmd.id

Header(c, k) ==
    [cmd |-> c, part |-> "header", left |-> k, del |-> c.size = 0]
Data(c, k) == [cmd |-> c, part |-> "data", left |-> k, del |-> TRUE]

HeaderOps(c, k) ==
    IF c.size = 0 THEN <<Header(c, k)>>
    ELSE IF k = HeaderSize THEN <<Header(c, k), Data(c, c.size)>>
    ELSE <<Data(c, c.size), Header(c, k)>>
DataOps(c) == IF c.size = 0 THEN <<>> ELSE <<Data(c, c.size)>>

(* The i-th handler is that of a write with that much left; and those of    *)
(* writes are only the i-th and the j-th.                                   *)
WrittenIs(i, op) ==
    i \in DOMAIN service /\ service[i].what = "written" /\ service[i].op = op
WrittenOnly(i, j) ==
    \A n \in DOMAIN service : service[n].what = "written" => n = i \/ n = j

(* The front command's header, and then its data, with k pieces left, waits *)
(* for the socket, or was just written so far.                              *)
HeaderWaits(c, k) == k > 0 /\ WrittenOnly(0, 0) /\ ops = HeaderOps(c, k)
HeaderDone(c, k) ==
    /\ k < HeaderSize /\ ops = DataOps(c)
    /\ \E i \in DOMAIN service : WrittenIs(i, Header(c, k)) /\ WrittenOnly(i, 0)
DataWaits(c, k) == k > 0 /\ WrittenOnly(0, 0) /\ ops = <<Data(c, k)>>
DataDone(c, k) ==
    /\ k < c.size /\ ops = <<>>
    /\ \E i \in DOMAIN service, j \in Nat :
          /\ WrittenIs(i, Data(c, k)) /\ WrittenOnly(i, j)
          /\ j < i /\ (j = 0 \/ WrittenIs(j, Header(c, 0)))

Idle(start) ==
    writeQueue = <<>> /\ ops = <<>> /\ WrittenOnly(0, 0) /\ Len(stream) = start - 1
InHeader(start, c, k) ==
    /\ writeQueue # <<>> /\ c = Head(writeQueue)
    /\ Len(stream) = start + HeaderSize - 1 - k
    /\ k \notin {0, HeaderSize} => inPart
    /\ HeaderWaits(c, k) \/ HeaderDone(c, k)
InData(start, c, k) ==
    /\ writeQueue # <<>> /\ c = Head(writeQueue) /\ c.size > 0
    /\ Len(stream) = start + HeaderSize + c.size - 1 - k
    /\ DataWaits(c, k) \/ DataDone(c, k)

WriterAt(start, c) ==
    \/ Idle(start)
    \/ \E k \in 0 .. HeaderSize : InHeader(start, c, k)
    \/ \E k \in 0 .. c.size : InData(start, c, k)

WriterInv(off) ==
    \E f, m \in 1 .. Len(written) + 1 :
       QueueIs(f, m) /\ PostedFrom(m) /\ WriterAt(off[f], Head(writeQueue))

Live == isConnected["writer"] /\ ~broken

(* What is on its way belongs there. *)
Sound(off) ==
    /\ ReaderAt(off)
    /\ \A p \in 1 .. Len(stream) : Expected(off, p)
    /\ Len(stream) < off[Len(written) + 1]
    /\ Live => WriterInv(off)

(* Data was written after a part of its header; the reader takes no more    *)
(* commands once it reads there.                                            *)
SpoiledAt(off, n, g) ==
    /\ 1 <= off[n] /\ off[n] <= g /\ g < off[n] + HeaderSize - 1
    /\ g < Len(stream)
    /\ \A p \in 1 .. g : Expected(off, p)
    /\ stream[g + 1].part = "data"
Spoiled(off) ==
    /\ inPart
    /\ \/ reading = Conn!Garbage
       \/ /\ ReaderAt(off)
          /\ \E n \in 1 .. Len(written), g \in Nat : SpoiledAt(off, n, g)

StreamInv ==
    \E off \in [1 .. MaxCommands + 1 -> Int] :
       Offsets(off) /\ (Sound(off) \/ Spoiled(off))

(* As long as no header was written in part, what waits for the socket is   *)
(* of the front command, and when the handler of a write that pops it is to *)
(* run, nothing waits.                                                      *)
FrontsOps ==
    \/ ops = <<>>
    \/ /\ writeQueue # <<>>
       /\ LET c == Head(writeQueue)
          IN  \/ ops = <<Header(c, HeaderSize)>>
              \/ \E k \in Nat : ops = <<Data(c, k)>>
              \/ \E k \in Nat :
                    c.size > 0 /\ ops = <<Header(c, HeaderSize), Data(c, k)>>
WritesDone ==
    \A i \in DOMAIN service : service[i].what = "written" =>
       /\ service[i].op.part = "header" => service[i].op.left = 0
       /\ service[i].op.part = "data" => service[i].op.del
       /\ service[i].op.del =>
             /\ ops = <<>> /\ writeQueue # <<>>
             /\ service[i].op.cmd = Head(writeQueue)
             /\ \A j \in DOMAIN service :
                   service[j].what = "written" /\ service[j].op.del => i = j
MemoryInv == ~inPart => FrontsOps /\ WritesDone

ConnInv == Conn!TypeOK /\ HistoryInv /\ MemoryInv /\ StreamInv

-----------------------------------------------------------------------------
(* What the steps of the connection do to its sequences *)

LEMMA NetFacts ==
    ASSUME Conn!TypeOK
    PROVE  /\ DOMAIN service = 1 .. Len(service) /\ Len(service) \in Nat
           /\ \A i \in DOMAIN service : service[i] \in Conn!Handler
           /\ Len(written) \in Nat /\ DOMAIN written = 1 .. Len(written)
           /\ \A n \in 1 .. Len(written) : /\ written[n] \in Conn!Command
                                           /\ written[n].size \in Nat
                                           /\ written[n].id \in Nat
           /\ Len(delivered) \in Nat
           /\ Len(stream) \in Nat
           /\ \A p \in 1 .. Len(stream) : stream[p] \in Conn!Piece
           /\ Len(writeQueue) \in Nat
           /\ \A i \in 1 .. Len(writeQueue) : writeQueue[i] \in Conn!Command
           /\ Len(ops) \in Nat
           /\ \A i \in 1 .. Len(ops) : ops[i] \in Conn!Op
<1>1. /\ service \in Seq(Conn!Handler) /\ written \in Seq(Conn!Command)
      /\ delivered \in Seq(Conn!Command) /\ stream \in Seq(Conn!Piece)
      /\ writeQueue \in Seq(Conn!Command) /\ ops \in Seq(Conn!Op)
  BY DEF Conn!TypeOK
<1>2. /\ DOMAIN service = 1 .. Len(service) /\ Len(service) \in Nat
      /\ \A i \in 1 .. Len(service) : service[i] \in Conn!Handler
  BY <1>1, LenProperties, ElementOfSeq
<1>3. /\ DOMAIN written = 1 .. Len(written) /\ Len(written) \in Nat
      /\ \A i \in 1 .. Len(written) : written[i] \in Conn!Command
  BY <1>1, LenProperties, ElementOfSeq
<1>4. \A c \in Conn!Command : c.size \in Nat /\ c.id \in Nat
  <2> TAKE c \in Conn!Command
  <2>1. c.size \in DataSizes /\ c.id \in 1 .. MaxCommands
    BY DEF Conn!Command
  <2>2. c.size \in Nat
    BY <2>1, PathAssumption
  <2>3. c.id \in Nat
    BY <2>1, LoopAssumption
  <2> QED
    BY <2>2, <2>3
<1>5. Len(stream) \in Nat /\ \A i \in 1 .. Len(stream) : stream[i] \in Conn!Piece
  BY <1>1, LenProperties, ElementOfSeq
<1>6. Len(ops) \in Nat /\ \A i \in 1 .. Len(ops) : ops[i] \in Conn!Op
  BY <1>1, LenProperties, ElementOfSeq
<1>7. /\ Len(writeQueue) \in Nat
      /\ \A i \in 1 .. Len(writeQueue) : writeQueue[i] \in Conn!Command
  BY <1>1, LenProperties, ElementOfSeq
<1>8. Len(delivered) \in Nat
  BY <1>1, LenProperties
<1> QED
  BY <1>2, <1>3, <1>4, <1>5, <1>6, <1>7, <1>8

(* A handler is posted. *)
Posts(what, op) == service' = service \o Conn!Handlers(what, <<op>>)

LEMMA PostFacts ==
    ASSUME Conn!TypeOK, NEW what \in {"DoWriteCommand", "written", "failed"},
           NEW op \in Conn!Op, Posts(what, op)
    PROVE  /\ service' \in Seq(Conn!Handler)
           /\ DOMAIN service' = 1 .. Len(service) + 1
           /\ service'[Len(service) + 1] = [what |-> what, op |-> op]
           /\ \A i \in DOMAIN service : service'[i] = service[i]
           /\ \A i \in DOMAIN service' :
                 i \in DOMAIN service \/ i = Len(service) + 1
<1> DEFINE h == [what |-> what, op |-> op]
<1>1. h \in Conn!Handler /\ service \in Seq(Conn!Handler)
  BY DEF Conn!Handler, Conn!TypeOK
<1>2. Conn!Handlers(what, <<op>>) = <<h>>
  BY DEF Conn!Handlers
<1>3. service \o <<h>> = Append(service, h)
  BY <1>1, AppendIsConcat
<1> HIDE DEF h
<1>4. /\ Append(service, h) \in Seq(Conn!Handler)
      /\ DOMAIN Append(service, h) = 1 .. Len(service) + 1
      /\ Append(service, h)[Len(service) + 1] = h
      /\ \A i \in DOMAIN service : Append(service, h)[i] = service[i]
      /\ \A i \in DOMAIN Append(service, h) :
            i \in DOMAIN service \/ i = Len(service) + 1
  BY <1>1, AppendFacts
<1> QED
  BY <1>2, <1>3, <1>4 DEF h, Posts

(* The first handler is taken. *)
LEMMA TakeFacts ==
    ASSUME Conn!TypeOK, service # <<>>
    PROVE  /\ 1 \in DOMAIN service /\ Head(service) = service[1]
           /\ service[1] \in Conn!Handler
           /\ Tail(service) \in Seq(Conn!Handler)
           /\ \A i \in DOMAIN Tail(service) :
                 /\ i + 1 \in DOMAIN service /\ i + 1 # 1 /\ i \in Nat /\ i # 0
                 /\ Tail(service)[i] = service[i + 1]
           /\ \A i \in DOMAIN service : i # 1 =>
                 /\ i - 1 \in DOMAIN Tail(service) /\ i \in Nat /\ i > 1
                 /\ Tail(service)[i - 1] = service[i]
<1>1. service \in Seq(Conn!Handler)
  BY DEF Conn!TypeOK
<1>2. /\ 1 \in DOMAIN service /\ Head(service) = service[1]
      /\ Head(service) \in Conn!Handler
      /\ Tail(service) \in Seq(Conn!Handler)
      /\ \A i \in DOMAIN Tail(service) :
            i + 1 \in DOMAIN service /\ Tail(service)[i] = service[i + 1]
  BY <1>1, TailFacts
<1>3. DOMAIN service = 1 .. Len(service) /\ Len(service) \in Nat
  BY <1>1, LenProperties
<1>4. DOMAIN Tail(service) = 1 .. Len(service) - 1
  <2>1. Len(Tail(service)) = Len(service) - 1
    BY <1>1, HeadTailProperties
  <2> QED
    BY <1>2, <2>1, LenProperties
<1> QED
  BY <1>2, <1>3, <1>4

-----------------------------------------------------------------------------
(* What of the writer's invariant does not change *)

(* A handler that is not of a write is taken. *)
LEMMA OtherTaken ==
    ASSUME Conn!TypeOK, service # <<>>, service[1].what # "written",
           service' = Tail(service), UNCHANGED ops,
           NEW c, NEW k
    PROVE  /\ HeaderWaits(c, k) => HeaderWaits(c, k)'
           /\ HeaderDone(c, k) => HeaderDone(c, k)'
           /\ DataWaits(c, k) => DataWaits(c, k)'
           /\ DataDone(c, k) => DataDone(c, k)'
           /\ WrittenOnly(0, 0) => WrittenOnly(0, 0)'
<1>1. \A i, j \in Nat : WrittenOnly(i, j) /\ i # 1 /\ j # 1 =>
         WrittenOnly(IF i = 0 THEN 0 ELSE i - 1, IF j = 0 THEN 0 ELSE j - 1)'
  BY TakeFacts DEF WrittenOnly
<1>2. \A i \in Nat : \A op : WrittenIs(i, op) =>
         i # 1 /\ i - 1 \in DOMAIN service' /\ i > 1 /\ WrittenIs(i - 1, op)'
  BY TakeFacts DEF WrittenIs
<1>3. WrittenOnly(0, 0) => WrittenOnly(0, 0)'
  BY <1>1
<1>4. DOMAIN service \subseteq Nat
  BY NetFacts
<1>5. HeaderDone(c, k) => HeaderDone(c, k)'
  <2> SUFFICES ASSUME HeaderDone(c, k)
               PROVE  HeaderDone(c, k)'
    OBVIOUS
  <2>1. PICK i \in DOMAIN service : WrittenIs(i, Header(c, k)) /\ WrittenOnly(i, 0)
    BY DEF HeaderDone
  <2>2. /\ i - 1 \in DOMAIN service' /\ i > 1 /\ i \in Nat
        /\ WrittenIs(i - 1, Header(c, k))'
    BY <1>2, <1>4, <2>1 DEF Header
  <2>3. WrittenOnly(i - 1, 0)'
    BY <1>1, <2>1, <2>2
  <2> QED
    BY <2>2, <2>3 DEF HeaderDone, DataOps, Data
<1>6. DataDone(c, k) => DataDone(c, k)'
  <2> SUFFICES ASSUME DataDone(c, k)
               PROVE  DataDone(c, k)'
    OBVIOUS
  <2>1. PICK i \in DOMAIN service, j \in Nat :
           /\ WrittenIs(i, Data(c, k)) /\ WrittenOnly(i, j)
           /\ j < i /\ (j = 0 \/ WrittenIs(j, Header(c, 0)))
    BY DEF DataDone
  <2>2. /\ i - 1 \in DOMAIN service' /\ i > 1 /\ i \in Nat
        /\ WrittenIs(i - 1, Data(c, k))'
    BY <1>2, <1>4, <2>1 DEF Data
  <2>3. CASE j = 0
    <3>1. WrittenOnly(i - 1, 0)'
      BY <1>1, <2>1, <2>2, <2>3
    <3> QED
      BY <2>1, <2>2, <3>1 DEF DataDone
  <2>4. CASE j # 0
    <3>1. j > 1 /\ WrittenIs(j - 1, Header(c, 0))'
      BY <1>2, <2>1, <2>4 DEF Header
    <3>2. WrittenOnly(i - 1, j - 1)'
      BY <1>1, <2>1, <2>2, <3>1
    <3>3. j - 1 \in Nat /\ j - 1 < i - 1
      BY <2>1, <2>2, <3>1
    <3> QED
      BY <2>1, <2>2, <3>1, <3>2, <3>3 DEF DataDone
  <2> QED
    BY <2>3, <2>4
<1> QED
  BY <1>3, <1>5, <1>6 DEF HeaderWaits, DataWaits, HeaderOps, Header, Data

(* A command is posted. *)
LEMMA OtherPosted ==
    ASSUME Conn!TypeOK, NEW op \in Conn!Op, UNCHANGED ops,
           Posts("DoWriteCommand", op),
           NEW c, NEW k
    PROVE  /\ HeaderWaits(c, k) => HeaderWaits(c, k)'
           /\ HeaderDone(c, k) => HeaderDone(c, k)'
           /\ DataWaits(c, k) => DataWaits(c, k)'
           /\ DataDone(c, k) => DataDone(c, k)'
           /\ WrittenOnly(0, 0) => WrittenOnly(0, 0)'
<1>1. /\ DOMAIN service \subseteq DOMAIN service'
      /\ \A i \in DOMAIN service : service'[i] = service[i]
      /\ \A i \in DOMAIN service' :
            i \in DOMAIN service \/ service'[i].what = "DoWriteCommand"
  <2>1. "DoWriteCommand" \in {"DoWriteCommand", "written", "failed"}
    OBVIOUS
  <2>2. /\ DOMAIN service' = 1 .. Len(service) + 1
        /\ service'[Len(service) + 1] = [what |-> "DoWriteCommand", op |-> op]
        /\ \A i \in DOMAIN service : service'[i] = service[i]
        /\ \A i \in DOMAIN service' :
              i \in DOMAIN service \/ i = Len(service) + 1
    BY <2>1, PostFacts, Zenon
  <2> QED
    BY <2>2, NetFacts
<1>2. \A i, j : WrittenOnly(i, j) => WrittenOnly(i, j)'
  BY <1>1 DEF WrittenOnly
<1>3. \A i, o : WrittenIs(i, o) => WrittenIs(i, o)'
  BY <1>1 DEF WrittenIs
<1>4. HeaderDone(c, k) => HeaderDone(c, k)'
  <2> SUFFICES ASSUME HeaderDone(c, k)
               PROVE  HeaderDone(c, k)'
    OBVIOUS
  <2>1. PICK i \in DOMAIN service : WrittenIs(i, Header(c, k)) /\ WrittenOnly(i, 0)
    BY DEF HeaderDone
  <2>2. WrittenIs(i, Header(c, k))' /\ WrittenOnly(i, 0)'
    BY <1>2, <1>3, <2>1 DEF Header
  <2> QED
    BY <1>1, <2>2 DEF HeaderDone, DataOps, Data
<1>5. DataDone(c, k) => DataDone(c, k)'
  <2> SUFFICES ASSUME DataDone(c, k)
               PROVE  DataDone(c, k)'
    OBVIOUS
  <2>1. PICK i \in DOMAIN service, j \in Nat :
           /\ WrittenIs(i, Data(c, k)) /\ WrittenOnly(i, j)
           /\ j < i /\ (j = 0 \/ WrittenIs(j, Header(c, 0)))
    BY DEF DataDone
  <2>2. /\ WrittenIs(i, Data(c, k))' /\ WrittenOnly(i, j)'
        /\ (j = 0 \/ WrittenIs(j, Header(c, 0))')
    BY <1>2, <1>3, <2>1 DEF Header, Data
  <2> QED
    BY <1>1, <2>1, <2>2 DEF DataDone
<1> QED
  BY <1>2, <1>4, <1>5 DEF HeaderWaits, DataWaits, HeaderOps, Header, Data

(* A handler that posts nothing to the queue is taken. *)
LEMMA PostedTaken ==
    ASSUME Conn!TypeOK, service # <<>>, ~IsPosted(1),
           service' = Tail(service), UNCHANGED written, NEW m, PostedFrom(m)
    PROVE  PostedFrom(m)'
<1>1. \A i \in DOMAIN service' : /\ i + 1 \in DOMAIN service
                                 /\ service'[i] = service[i + 1]
  BY TakeFacts
<1>2. \A i \in DOMAIN service' : service'[i].what # "failed"
  BY <1>1 DEF PostedFrom
<1>3. ASSUME NEW n \in m .. Len(written)
      PROVE  \E i \in DOMAIN service' :
                IsPosted(i)' /\ service'[i].op.cmd = written[n]
  <2>1. PICK i \in DOMAIN service : IsPosted(i) /\ service[i].op.cmd = written[n]
    BY DEF PostedFrom
  <2>2. i # 1
    BY <2>1
  <2>3. i - 1 \in DOMAIN service' /\ service'[i - 1] = service[i]
    BY <2>2, TakeFacts
  <2> QED
    BY <2>1, <2>3 DEF IsPosted
<1>4. ASSUME NEW i \in DOMAIN service', IsPosted(i)'
      PROVE  \E n \in m .. Len(written) : service'[i].op.cmd = written[n]
  BY <1>1, <1>4 DEF PostedFrom, IsPosted
<1>5. ASSUME NEW i \in DOMAIN service', NEW j \in DOMAIN service',
             i < j, IsPosted(i)', IsPosted(j)'
      PROVE  service'[i].op.cmd.id < service'[j].op.cmd.id
  <2>1. i + 1 < j + 1
    BY <1>5, TakeFacts
  <2> QED
    BY <1>1, <1>5, <2>1 DEF PostedFrom, IsPosted
<1> QED
  BY <1>2, <1>3, <1>4, <1>5 DEF PostedFrom

-----------------------------------------------------------------------------
(* The writer's handlers *)

LEMMA HeaderIs ==
    ASSUME NEW c, NEW k
    PROVE  /\ c.size = 0 => Header(c, k) =
                 [cmd |-> c, part |-> "header", left |-> k, del |-> TRUE]
           /\ c.size # 0 => Header(c, k) =
                 [cmd |-> c, part |-> "header", left |-> k, del |-> FALSE]
<1>1. /\ c.size = 0 => (c.size = 0) = TRUE
      /\ c.size # 0 => (c.size = 0) = FALSE
  OBVIOUS
<1> QED
  BY <1>1, Zenon DEF Header

LEMMA OpTypes ==
    ASSUME NEW c \in Conn!Command, NEW k \in Nat
    PROVE  Header(c, k) \in Conn!Op /\ Data(c, k) \in Conn!Op
<1>1. \A b \in BOOLEAN, part \in {"header", "data"} :
         [cmd |-> c, part |-> part, left |-> k, del |-> b] \in Conn!Op
  BY DEF Conn!Op
<1>2. (c.size = 0) \in BOOLEAN /\ TRUE \in BOOLEAN
      /\ "header" \in {"header", "data"} /\ "data" \in {"header", "data"}
  OBVIOUS
<1> QED
  BY <1>1, <1>2, Zenon DEF Header, Data

LEMMA BeginIsHeaderOps ==
    ASSUME NEW c \in Conn!Command
    PROVE  /\ Conn!BeginWriteCommand(c) = HeaderOps(c, HeaderSize)
           /\ Conn!BeginWriteCommand(c) \in Seq(Conn!Op)
<1>1. c.size \in Nat
  BY PathAssumption DEF Conn!Command
<1>2. Header(c, HeaderSize) \in Conn!Op /\ Data(c, c.size) \in Conn!Op
  <2>1. HeaderSize \in Nat
    BY PathAssumption
  <2> QED
    BY <1>1, <2>1, OpTypes
<1>3. CASE c.size = 0
  <2>1. Conn!BeginWriteCommand(c) = <<Header(c, HeaderSize)>>
    BY <1>3, HeaderIs DEF Conn!BeginWriteCommand, Conn!HeaderOp
  <2> QED
    BY <1>2, <1>3, <2>1 DEF HeaderOps
<1>4. CASE c.size # 0
  <2>1. Conn!BeginWriteCommand(c) = <<Header(c, HeaderSize), Data(c, c.size)>>
    BY <1>4, HeaderIs DEF Conn!BeginWriteCommand, Conn!HeaderOp, Conn!DataOp, Data
  <2> QED
    BY <1>2, <1>4, <2>1 DEF HeaderOps
<1> QED
  BY <1>3, <1>4

(* The command whose handler runs is the next for the queue. *)
LEMMA NextForQueue ==
    ASSUME Conn!TypeOK, HistoryInv, service # <<>>, IsPosted(1),
           NEW m \in 1 .. Len(written) + 1, PostedFrom(m),
           service' = Tail(service), UNCHANGED written
    PROVE  /\ m <= Len(written) /\ service[1].op.cmd = written[m]
           /\ PostedFrom(m + 1)'
<1>1. 1 \in DOMAIN service /\ DOMAIN service \subseteq Nat \ {0}
  BY TakeFacts, NetFacts
<1>2. PICK n \in m .. Len(written) : service[1].op.cmd = written[n]
  BY <1>1 DEF PostedFrom
<1>3. m <= Len(written) /\ Len(written) \in Nat
  BY <1>2, NetFacts
<1>4. PICK i \in DOMAIN service : IsPosted(i) /\ service[i].op.cmd = written[m]
  BY <1>3 DEF PostedFrom
<1>5. i = 1
  <2> SUFFICES ASSUME i # 1
               PROVE  FALSE
    OBVIOUS
  <2>1. 1 < i
    BY <1>1, <1>4
  <2>2. written[n].id < written[m].id
    BY <1>1, <1>2, <1>4, <2>1 DEF PostedFrom
  <2> QED
    BY <1>2, <1>3, <2>2 DEF HistoryInv
<1>6. service[1].op.cmd = written[m]
  BY <1>4, <1>5
<1>7. \A j \in DOMAIN service' : /\ j + 1 \in DOMAIN service /\ j \in Nat /\ j # 0
                                 /\ service'[j] = service[j + 1]
  BY TakeFacts
<1>8. \A j \in DOMAIN service' : service'[j].what # "failed"
  BY <1>7 DEF PostedFrom
<1>9. ASSUME NEW n2 \in m + 1 .. Len(written)
      PROVE  \E j \in DOMAIN service' :
                IsPosted(j)' /\ service'[j].op.cmd = written[n2]
  <2>1. n2 \in m .. Len(written) /\ n2 # m /\ n2 \in 1 .. Len(written)
    BY <1>3
  <2>2. PICK j \in DOMAIN service : IsPosted(j) /\ service[j].op.cmd = written[n2]
    BY <2>1 DEF PostedFrom
  <2>3. j # 1
    BY <1>3, <1>6, <2>1, <2>2 DEF HistoryInv
  <2>4. j - 1 \in DOMAIN service' /\ service'[j - 1] = service[j]
    BY <2>3, TakeFacts
  <2> QED
    BY <2>2, <2>4 DEF IsPosted
<1>10. ASSUME NEW j \in DOMAIN service', IsPosted(j)'
       PROVE  \E n2 \in m + 1 .. Len(written) : service'[j].op.cmd = written[n2]
  <2>1. j + 1 \in DOMAIN service /\ IsPosted(j + 1) /\ 1 < j + 1
    BY <1>7, <1>10 DEF IsPosted
  <2>2. PICK n2 \in m .. Len(written) : service[j + 1].op.cmd = written[n2]
    BY <2>1 DEF PostedFrom
  <2>3. written[m].id < written[n2].id
    BY <1>1, <1>6, <2>1, <2>2 DEF PostedFrom
  <2>4. n2 # m
    BY <1>3, <2>3 DEF HistoryInv
  <2> QED
    BY <1>3, <1>7, <2>2, <2>4
<1>11. ASSUME NEW j \in DOMAIN service', NEW l \in DOMAIN service',
              j < l, IsPosted(j)', IsPosted(l)'
       PROVE  service'[j].op.cmd.id < service'[l].op.cmd.id
  <2>1. j + 1 < l + 1 /\ IsPosted(j + 1) /\ IsPosted(l + 1)
    BY <1>7, <1>11 DEF IsPosted
  <2> QED
    BY <1>7, <2>1 DEF PostedFrom
<1> QED
  BY <1>3, <1>6, <1>8, <1>9, <1>10, <1>11 DEF PostedFrom

(* DoWriteCommand *)
LEMMA QueuedLive ==
    ASSUME Conn!TypeOK, HistoryInv, NEW off, Offsets(off), WriterInv(off),
           service # <<>>, IsPosted(1), Conn!DoWriteCommand(service[1].op),
           UNCHANGED <<written, stream, inPart>>
    PROVE  WriterInv(off)'
<1>1. PICK f, m \in 1 .. Len(written) + 1 :
         QueueIs(f, m) /\ PostedFrom(m) /\ WriterAt(off[f], Head(writeQueue))
  BY DEF WriterInv
<1>2. /\ service' = Tail(service)
      /\ writeQueue' = Append(writeQueue, service[1].op.cmd)
      /\ ops' = IF writeQueue # <<>> THEN ops
                ELSE ops \o Conn!BeginWriteCommand(service[1].op.cmd)
  BY DEF Conn!DoWriteCommand, Conn!IsProgress
<1>3. /\ m <= Len(written) /\ service[1].op.cmd = written[m]
      /\ PostedFrom(m + 1)'
  BY <1>1, <1>2, NextForQueue
<1>4. /\ Len(written) \in Nat /\ Len(writeQueue) \in Nat
      /\ written[m] \in Conn!Command
      /\ writeQueue \in Seq(Conn!Command)
  BY <1>3, NetFacts DEF Conn!TypeOK
<1>5. /\ Len(writeQueue') = Len(writeQueue) + 1
      /\ writeQueue' # <<>>
      /\ \A i \in 1 .. Len(writeQueue) : writeQueue'[i] = writeQueue[i]
      /\ writeQueue'[Len(writeQueue) + 1] = written[m]
      /\ Head(writeQueue') = writeQueue'[1]
  <2>1. /\ writeQueue' \in Seq(Conn!Command)
        /\ Len(writeQueue') = Len(writeQueue) + 1
        /\ \A i \in 1 .. Len(writeQueue) : writeQueue'[i] = writeQueue[i]
        /\ writeQueue'[Len(writeQueue) + 1] = written[m]
    BY <1>2, <1>3, <1>4, AppendProperties
  <2>2. writeQueue' # <<>>
    BY <1>4, <2>1, EmptySeq
  <2> QED
    BY <2>1, <2>2, TailFacts
<1>6. QueueIs(f, m + 1)'
  <2>1. ASSUME NEW i \in 1 .. Len(writeQueue')
        PROVE  writeQueue'[i] = written[f + i - 1]
    <3>1. CASE i \in 1 .. Len(writeQueue)
      BY <1>1, <1>5, <3>1 DEF QueueIs
    <3>2. CASE i = Len(writeQueue) + 1
      BY <1>1, <1>4, <1>5, <3>2 DEF QueueIs
    <3> QED
      BY <1>4, <1>5, <3>1, <3>2
  <2> QED
    BY <1>1, <1>3, <1>4, <1>5, <2>1 DEF QueueIs
<1>7. WriterAt(off[f], Head(writeQueue))'
  <2>1. CASE writeQueue = <<>>
    <3>1. Idle(off[f])
      BY <1>1, <2>1 DEF WriterAt, InHeader, InData
    <3>2. /\ ops' = HeaderOps(written[m], HeaderSize)
          /\ Head(writeQueue') = written[m]
      <4>1. ops = <<>> /\ Len(writeQueue) = 0
        BY <2>1, <3>1 DEF Idle
      <4>2. ops' = <<>> \o Conn!BeginWriteCommand(written[m])
        BY <1>2, <1>3, <2>1, <4>1
      <4> QED
        BY <1>4, <1>5, <4>1, <4>2, BeginIsHeaderOps, ConcatEmptySeq
    <3>3. WrittenOnly(0, 0)'
      <4>1. WrittenOnly(0, 0)
        BY <3>1 DEF Idle
      <4> QED
        BY <1>2, <4>1, TakeFacts DEF WrittenOnly
    <3>4. Len(stream) = off[f] - 1 /\ off[f] \in Int
      <4>1. f \in 1 .. MaxCommands + 1
        BY <1>1, <1>4, LoopAssumption DEF HistoryInv
      <4> QED
        BY <3>1, <4>1 DEF Idle, Offsets
    <3>5. InHeader(off[f], Head(writeQueue), HeaderSize)'
      <4>1. Len(stream) = off[f] + HeaderSize - 1 - HeaderSize /\ HeaderSize > 0
        BY <3>4, PathAssumption
      <4>2. HeaderWaits(Head(writeQueue), HeaderSize)'
        BY <3>2, <3>3, <4>1 DEF HeaderWaits, HeaderOps, Header, Data
      <4> QED
        BY <1>5, <4>1, <4>2 DEF InHeader
    <3> QED
      BY <3>5, PathAssumption DEF WriterAt
  <2>2. CASE writeQueue # <<>>
    <3>1. Head(writeQueue') = Head(writeQueue)
      BY <1>4, <1>5, <2>2, TailFacts, NetFacts
    <3>2. service[1].what # "written" /\ UNCHANGED ops
      BY <1>2, <2>2 DEF IsPosted
    <3>3. \A k : /\ InHeader(off[f], Head(writeQueue), k)
                       => InHeader(off[f], Head(writeQueue), k)'
                 /\ InData(off[f], Head(writeQueue), k)
                       => InData(off[f], Head(writeQueue), k)'
      <4> TAKE k
      <4> DEFINE c == Head(writeQueue)
      <4>1. /\ HeaderWaits(c, k) => HeaderWaits(Head(writeQueue), k)'
            /\ HeaderDone(c, k) => HeaderDone(Head(writeQueue), k)'
            /\ DataWaits(c, k) => DataWaits(Head(writeQueue), k)'
            /\ DataDone(c, k) => DataDone(Head(writeQueue), k)'
        BY <1>2, <3>1, <3>2, OtherTaken
      <4> QED
        BY <1>5, <3>1, <4>1 DEF InHeader, InData
    <3>4. ~Idle(off[f])
      BY <2>2 DEF Idle
    <3> QED
      BY <1>1, <3>1, <3>3, <3>4 DEF WriterAt
  <2> QED
    BY <2>1, <2>2
<1>8. m + 1 \in 1 .. Len(written') + 1 /\ f \in 1 .. Len(written') + 1
  BY <1>1, <1>3, <1>4
<1> QED
  BY <1>3, <1>6, <1>7, <1>8 DEF WriterInv

(* The front command is written, and its handler pops it. *)
LEMMA PoppedLive ==
    ASSUME Conn!TypeOK, HistoryInv, NEW off, Offsets(off),
           NEW f \in 1 .. Len(written) + 1, NEW m \in 1 .. Len(written) + 1,
           QueueIs(f, m), PostedFrom(m),
           service # <<>>, service[1].what = "written", WrittenOnly(1, 0),
           service' = Tail(service),
           writeQueue # <<>>, ops = <<>>, writeQueue' = Conn!Popped,
           ops' = IF writeQueue' # <<>>
                  THEN ops \o Conn!BeginWriteCommand(Head(writeQueue')) ELSE ops,
           Len(stream) = off[f] + HeaderSize + Head(writeQueue).size - 1,
           UNCHANGED <<written, stream, inPart>>
    PROVE  WriterInv(off)'
<1>1. /\ Len(written) \in Nat /\ Len(writeQueue) \in Nat \ {0}
      /\ writeQueue \in Seq(Conn!Command)
      /\ 1 \in 1 .. Len(writeQueue) /\ Head(writeQueue) = writeQueue[1]
  BY NetFacts, EmptySeq, TailFacts DEF Conn!TypeOK
<1>2. /\ writeQueue' \in Seq(Conn!Command) /\ writeQueue' = Tail(writeQueue)
      /\ Len(writeQueue') = Len(writeQueue) - 1
      /\ \A i \in 1 .. Len(writeQueue') : writeQueue'[i] = writeQueue[i + 1]
  <2>1. writeQueue' = Tail(writeQueue)
    BY <1>1, TailIsSubSeq DEF Conn!Popped
  <2> QED
    BY <1>1, <2>1, HeadTailProperties
<1>3. f <= Len(written) /\ Head(writeQueue) = written[f] /\ f + 1 <= m
  BY <1>1 DEF QueueIs
<1>4. QueueIs(f + 1, m)'
  <2>1. ASSUME NEW i \in 1 .. Len(writeQueue')
        PROVE  writeQueue'[i] = written[(f + 1) + i - 1]
    <3>1. i + 1 \in 1 .. Len(writeQueue) /\ f + (i + 1) - 1 = (f + 1) + i - 1
      BY SMTT(40), <1>1, <1>2
    <3> QED
      BY <1>2, <3>1 DEF QueueIs
  <2> QED
    BY <1>1, <1>2, <1>3, <2>1 DEF QueueIs
<1>5. PostedFrom(m)'
  BY PostedTaken DEF IsPosted
<1>6. WrittenOnly(0, 0)'
  BY TakeFacts DEF WrittenOnly
<1>7. Len(stream) = off[f + 1] - 1 /\ off[f + 1] \in Int
  <2>1. f + 1 \in 1 .. MaxCommands + 1 /\ f \in 1 .. Len(written)
    BY <1>1, <1>3, LoopAssumption DEF HistoryInv
  <2>2. off[f + 1] = off[f] + HeaderSize + written[f].size /\ off[f + 1] \in Int
        /\ off[f] \in Int
    BY <2>1, <1>1, LoopAssumption DEF Offsets, HistoryInv
  <2>3. written[f].size \in Nat /\ HeaderSize \in Nat
    BY <2>1, NetFacts, PathAssumption
  <2>4. Len(stream) = off[f] + HeaderSize + written[f].size - 1
    BY <1>3
  <2>5. \A a, b, h, z \in Int : b = a + h + z => a + h + z - 1 = b - 1
    OBVIOUS
  <2> QED
    BY ONLY SMTT(40), <2>2, <2>3, <2>4, <2>5
<1>8. WriterAt(off[f + 1], Head(writeQueue))'
  <2>1. CASE writeQueue' = <<>>
    <3>1. Idle(off[f + 1])'
      BY <1>6, <1>7, <2>1 DEF Idle
    <3> QED
      BY <3>1 DEF WriterAt
  <2>2. CASE writeQueue' # <<>>
    <3>1. Head(writeQueue') \in Conn!Command
      BY <1>2, <2>2, TailFacts
    <3>2. ops' = HeaderOps(Head(writeQueue'), HeaderSize)
      <4>1. ops' = <<>> \o Conn!BeginWriteCommand(Head(writeQueue'))
        BY <2>2
      <4> QED
        BY <3>1, <4>1, BeginIsHeaderOps, ConcatEmptySeq
    <3>3. InHeader(off[f + 1], Head(writeQueue), HeaderSize)'
      <4>1. /\ Len(stream) = off[f + 1] + HeaderSize - 1 - HeaderSize
            /\ HeaderSize > 0
        BY <1>7, PathAssumption
      <4>2. HeaderWaits(Head(writeQueue), HeaderSize)'
        BY <1>6, <3>2, <4>1 DEF HeaderWaits, HeaderOps, Header, Data
      <4> QED
        BY <2>2, <4>1, <4>2 DEF InHeader
    <3> QED
      BY <3>3, PathAssumption DEF WriterAt
  <2> QED
    BY <2>1, <2>2
<1>9. f + 1 \in 1 .. Len(written') + 1
  BY <1>1, <1>3
<1> QED
  BY <1>4, <1>5, <1>8, <1>9 DEF WriterInv

(* HandleWriteCommand *)
LEMMA WrittenLive ==
    ASSUME Conn!TypeOK, HistoryInv, NEW off, Offsets(off), WriterInv(off),
           service # <<>>, service[1].what = "written",
           Conn!HandleWriteCommand(service[1].op),
           UNCHANGED <<written, stream, inPart>>
    PROVE  WriterInv(off)'
<1> DEFINE op == service[1].op
           c == Head(writeQueue)
<1>1. PICK f, m \in 1 .. Len(written) + 1 :
         QueueIs(f, m) /\ PostedFrom(m) /\ WriterAt(off[f], c)
  BY DEF WriterInv
<1>2. /\ service' = Tail(service) /\ 1 \in DOMAIN service
      /\ writeQueue' = IF op.left = 0 /\ op.del THEN Conn!Popped ELSE writeQueue
      /\ ops' = IF op.left > 0 THEN Append(ops, op)
                ELSE IF op.del /\ writeQueue' # <<>>
                     THEN ops \o Conn!BeginWriteCommand(Head(writeQueue')) ELSE ops
  BY TakeFacts DEF Conn!HandleWriteCommand
<1>3. PostedFrom(m)'
  BY <1>1, <1>2, PostedTaken DEF IsPosted
<1>4. writeQueue' = writeQueue => QueueIs(f, m)'
  BY <1>1 DEF QueueIs
<1>5. writeQueue # <<>> =>
         c \in Conn!Command /\ c.size \in Nat /\ ops \in Seq(Conn!Op)
  <2>1. writeQueue # <<>> => c \in Conn!Command /\ ops \in Seq(Conn!Op)
    BY TailFacts DEF Conn!TypeOK
  <2> QED
    BY <2>1, PathAssumption DEF Conn!Command
<1>6. \A i, j : WrittenOnly(i, j) => 1 = i \/ 1 = j
  BY <1>2 DEF WrittenOnly
<1>7. ~Idle(off[f])
  BY <1>6 DEF Idle
<1>8. off[f] \in Int
  <2>1. f \in 1 .. MaxCommands + 1
    BY <1>1, NetFacts, LoopAssumption DEF HistoryInv
  <2> QED
    BY <2>1 DEF Offsets
<1>9. HeaderSize \in Nat /\ HeaderSize > 0
  BY PathAssumption
<1>10. WrittenOnly(1, 0) => WrittenOnly(0, 0)'
  BY <1>2, TakeFacts DEF WrittenOnly
<1> HIDE DEF c
<1>11. ASSUME NEW k \in 0 .. HeaderSize, InHeader(off[f], c, k)
       PROVE  WriterInv(off)'
  <2>1. /\ HeaderDone(c, k) /\ writeQueue # <<>>
        /\ Len(stream) = off[f] + HeaderSize - 1 - k
        /\ k \notin {0, HeaderSize} => inPart
    BY <1>6, <1>11 DEF InHeader, HeaderWaits
  <2>2. /\ WrittenOnly(1, 0) /\ op = Header(c, k)
        /\ k < HeaderSize /\ ops = DataOps(c)
    <3>1. PICK i \in DOMAIN service : WrittenIs(i, Header(c, k)) /\ WrittenOnly(i, 0)
      BY <2>1 DEF HeaderDone
    <3>2. i = 1
      BY <1>6, <3>1
    <3>3. service[1].op = Header(c, k)
      BY <3>1, <3>2 DEF WrittenIs
    <3> QED
      BY <2>1, <3>1, <3>2, <3>3 DEF HeaderDone
  <2>3. op.left = k /\ (op.del <=> c.size = 0)
    BY <2>2, HeaderIs
  <2>4. c \in Conn!Command /\ c.size \in Nat
    BY <1>5, <2>1
  <2>5. CASE k > 0
    <3>1. writeQueue' = writeQueue /\ ops' = Append(ops, op)
      BY <1>2, <2>3, <2>5
    <3>2. ops' = HeaderOps(c, k)
      <4>1. Header(c, k) \in Conn!Op /\ Data(c, c.size) \in Conn!Op
        BY <1>9, <2>4, OpTypes
      <4>2. CASE c.size = 0
        BY <2>2, <3>1, <4>1, <4>2 DEF HeaderOps, DataOps
      <4>3. CASE c.size # 0
        BY <2>2, <3>1, <4>1, <4>3 DEF HeaderOps, DataOps
      <4> QED
        BY <4>2, <4>3
    <3>3. InHeader(off[f], c, k)'
      BY <1>10, <2>1, <2>2, <2>5, <3>1, <3>2 DEF InHeader, HeaderWaits,
         HeaderOps, Header, Data, c
    <3> QED
      BY <1>1, <1>3, <1>4, <3>1, <3>3 DEF WriterInv, WriterAt, c
  <2>6. CASE k = 0 /\ c.size = 0
    <3>1. /\ ops = <<>> /\ writeQueue' = Conn!Popped
          /\ ops' = IF writeQueue' # <<>>
                    THEN ops \o Conn!BeginWriteCommand(Head(writeQueue')) ELSE ops
      BY <1>2, <2>2, <2>3, <2>6 DEF DataOps
    <3>2. Len(stream) = off[f] + HeaderSize + c.size - 1
      BY <1>8, <1>9, <2>1, <2>6
    <3> QED
      BY <1>1, <1>2, <2>1, <2>2, <3>1, <3>2, PoppedLive DEF c
  <2>7. CASE k = 0 /\ c.size # 0
    <3>1. writeQueue' = writeQueue /\ ops' = <<Data(c, c.size)>>
      BY <1>2, <2>2, <2>3, <2>7 DEF DataOps
    <3>2. Len(stream) = off[f] + HeaderSize + c.size - 1 - c.size
      BY <1>8, <1>9, <2>1, <2>4, <2>7
    <3>3. InData(off[f], c, c.size)'
      BY <1>10, <2>1, <2>2, <2>4, <2>7, <3>1, <3>2 DEF InData, DataWaits, Data, c
    <3> QED
      BY <1>1, <1>3, <1>4, <2>4, <3>1, <3>3 DEF WriterInv, WriterAt, c
  <2> QED
    BY <2>4, <2>5, <2>6, <2>7
<1>12. ASSUME NEW k \in 0 .. c.size, InData(off[f], c, k)
       PROVE  WriterInv(off)'
  <2>1. /\ DataDone(c, k) /\ writeQueue # <<>> /\ c.size > 0
        /\ Len(stream) = off[f] + HeaderSize + c.size - 1 - k
    BY <1>6, <1>12 DEF InData, DataWaits
  <2>2. PICK i \in DOMAIN service, j \in Nat :
           /\ WrittenIs(i, Data(c, k)) /\ WrittenOnly(i, j)
           /\ j < i /\ (j = 0 \/ WrittenIs(j, Header(c, 0)))
    BY <2>1 DEF DataDone
  <2>3. k < c.size /\ ops = <<>> /\ c \in Conn!Command /\ c.size \in Nat
    BY <1>5, <2>1 DEF DataDone
  <2>4. i \in Nat /\ i # 0
    BY NetFacts
  <2>5. CASE i = 1
    <3>1. j = 0 /\ WrittenOnly(1, 0) /\ op = Data(c, k)
      BY <2>2, <2>5 DEF WrittenIs
    <3>2. op.left = k /\ op.del
      BY <3>1 DEF Data
    <3>3. CASE k = 0
      <4>1. /\ writeQueue' = Conn!Popped
            /\ ops' = IF writeQueue' # <<>>
                      THEN ops \o Conn!BeginWriteCommand(Head(writeQueue')) ELSE ops
        BY <1>2, <3>2, <3>3
      <4>2. Len(stream) = off[f] + HeaderSize + c.size - 1
        BY <1>8, <1>9, <2>1, <2>3, <3>3
      <4> QED
        BY <1>1, <1>2, <2>1, <2>3, <3>1, <4>1, <4>2, PoppedLive DEF c
    <3>4. CASE k # 0
      <4>1. writeQueue' = writeQueue /\ ops' = Append(<<>>, op) /\ k > 0
        BY <1>2, <2>3, <3>2, <3>4
      <4>2. ops' = <<Data(c, k)>>
        BY <3>1, <4>1
      <4>3. InData(off[f], c, k)'
        BY <1>10, <2>1, <3>1, <4>1, <4>2 DEF InData, DataWaits, Data, c
      <4> QED
        BY <1>1, <1>3, <1>4, <4>1, <4>3 DEF WriterInv, WriterAt, c
    <3> QED
      BY <3>3, <3>4
  <2>6. CASE i # 1
    <3>1. j = 1 /\ op = Header(c, 0)
      <4>1. j = 1
        BY <1>6, <2>2, <2>6
      <4>2. WrittenIs(1, Header(c, 0))
        BY <2>2, <4>1
      <4>3. service[1].op = Header(c, 0)
        BY <4>2 DEF WrittenIs
      <4> QED
        BY <4>1, <4>3
    <3>2. op.left = 0 /\ ~op.del
      BY <2>1, <3>1, HeaderIs
    <3>3. writeQueue' = writeQueue /\ ops' = <<>>
      BY <1>2, <2>3, <3>2
    <3>4. /\ i - 1 \in DOMAIN service' /\ i - 1 > 0
          /\ service'[i - 1] = service[i]
      BY <1>2, <2>4, <2>6, TakeFacts
    <3>5. WrittenIs(i - 1, Data(c, k))'
      BY <2>2, <3>3, <3>4 DEF WrittenIs, Data, c
    <3>6. WrittenOnly(i - 1, 0)'
      BY <1>2, <2>2, <3>1, TakeFacts DEF WrittenOnly
    <3>7. DataDone(c, k)'
      BY <2>3, <3>3, <3>4, <3>5, <3>6 DEF DataDone, c
    <3>8. InData(off[f], c, k)'
      BY <2>1, <3>3, <3>7 DEF InData, c
    <3> QED
      BY <1>1, <1>3, <1>4, <3>3, <3>8 DEF WriterInv, WriterAt, c
  <2> QED
    BY <2>5, <2>6
<1> QED
  BY <1>1, <1>7, <1>11, <1>12 DEF WriterAt

-----------------------------------------------------------------------------
(* The stream *)

LEMMA OffsetFacts ==
    ASSUME Conn!TypeOK, HistoryInv, NEW off, Offsets(off)
    PROVE  /\ \A n \in 1 .. Len(written) + 1 : off[n] \in Int
           /\ \A n \in 1 .. Len(written) :
                 /\ off[n + 1] = off[n] + HeaderSize + written[n].size
                 /\ written[n].size \in Nat /\ n \in 1 .. Len(written) + 1
                 /\ n + 1 \in 1 .. Len(written) + 1
           /\ HeaderSize \in Nat /\ HeaderSize > 0
           /\ \A f, n \in 1 .. Len(written), p \in Int :
                 /\ n # f
                 /\ off[f] <= p /\ p < off[f] + HeaderSize + written[f].size
                 => ~ (off[n] <= p /\ p < off[n] + HeaderSize + written[n].size)
           /\ \A n \in 1 .. Len(written), m \in 1 .. Len(written) + 1 :
                 n < m => off[n] + HeaderSize + written[n].size <= off[m]
<1>1. /\ Len(written) \in Nat /\ Len(written) <= MaxCommands
      /\ \A n \in 1 .. Len(written) : written[n].size \in Nat
  BY NetFacts DEF HistoryInv
<1>2. \A n \in 1 .. Len(written) + 1 : off[n] \in Int
  <2> TAKE n \in 1 .. Len(written) + 1
  <2>1. n \in 1 .. MaxCommands + 1
    BY <1>1, LoopAssumption
  <2> QED
    BY <2>1 DEF Offsets
<1>3. HeaderSize \in Nat /\ HeaderSize > 0
  BY PathAssumption
<1>4. \A n \in 1 .. Len(written), m \in 1 .. Len(written) + 1 :
         n < m => off[n] + HeaderSize + written[n].size <= off[m]
  BY DEF Offsets
<1>5. ASSUME NEW f \in 1 .. Len(written), NEW n \in 1 .. Len(written),
             NEW p \in Int, n # f,
             off[f] <= p, p < off[f] + HeaderSize + written[f].size,
             off[n] <= p, p < off[n] + HeaderSize + written[n].size
      PROVE  FALSE
  <2>1. n \in 1 .. Len(written) + 1 /\ f \in 1 .. Len(written) + 1
    BY <1>1
  <2>2. off[n] \in Int /\ off[f] \in Int /\ written[n].size \in Nat
        /\ written[f].size \in Nat
    BY <1>1, <1>2, <2>1
  <2>3. CASE n < f
    <3>1. off[n] + HeaderSize + written[n].size <= off[f]
      BY <1>4, <2>1, <2>3
    <3> QED
      BY SMTT(40), <1>3, <1>5, <2>2, <3>1
  <2>4. CASE f < n
    <3>1. off[f] + HeaderSize + written[f].size <= off[n]
      BY <1>4, <2>1, <2>4
    <3> QED
      BY SMTT(40), <1>3, <1>5, <2>2, <3>1
  <2> QED
    BY <1>5, <2>3, <2>4
<1>6. \A n \in 1 .. Len(written) :
         /\ off[n + 1] = off[n] + HeaderSize + written[n].size
         /\ n \in 1 .. Len(written) + 1 /\ n + 1 \in 1 .. Len(written) + 1
  BY <1>1 DEF Offsets
<1> QED
  BY <1>1, <1>2, <1>3, <1>4, <1>5, <1>6

(* The socket takes n pieces. *)
LEMMA GrownFacts ==
    ASSUME Conn!TypeOK, NEW pc \in Conn!Piece, NEW n \in Nat,
           stream' = stream \o [i \in 1 .. n |-> pc]
    PROVE  /\ stream' \in Seq(Conn!Piece)
           /\ Len(stream') = Len(stream) + n
           /\ \A p \in 1 .. Len(stream) : stream'[p] = stream[p]
           /\ \A p \in Len(stream) + 1 .. Len(stream) + n : stream'[p] = pc
<1>1. /\ [i \in 1 .. n |-> pc] \in Seq(Conn!Piece)
      /\ Len([i \in 1 .. n |-> pc]) = n
      /\ \A j \in 1 .. n : [i \in 1 .. n |-> pc][j] = pc
  OBVIOUS
<1>2. stream \in Seq(Conn!Piece) /\ Len(stream) \in Nat
  BY NetFacts DEF Conn!TypeOK
<1> DEFINE new == [i \in 1 .. n |-> pc]
<1> HIDE DEF new
<1>3. /\ stream \o new \in Seq(Conn!Piece)
      /\ Len(stream \o new) = Len(stream) + n
      /\ \A p \in 1 .. Len(stream) + n : (stream \o new)[p] =
            IF p <= Len(stream) THEN stream[p] ELSE new[p - Len(stream)]
  BY <1>1, <1>2, ConcatProperties DEF new
<1>4. ASSUME NEW p \in 1 .. Len(stream)
      PROVE  stream'[p] = stream[p]
  BY <1>2, <1>3 DEF new
<1>5. ASSUME NEW p \in Len(stream) + 1 .. Len(stream) + n
      PROVE  stream'[p] = pc
  <2>1. p - Len(stream) \in 1 .. n /\ p \in 1 .. Len(stream) + n
        /\ ~(p <= Len(stream))
    BY <1>2
  <2> QED
    BY <1>1, <1>3, <2>1 DEF new
<1> QED
  BY <1>3, <1>4, <1>5 DEF new

LEMMA GrownAsExpected ==
    ASSUME Conn!TypeOK, HistoryInv, NEW off, Offsets(off), UNCHANGED written,
           \A p \in 1 .. Len(stream) : Expected(off, p),
           NEW f \in 1 .. Len(written), NEW pc, NEW n \in Nat,
           \/ /\ pc = HeaderPiece(f)
              /\ off[f] <= Len(stream) + 1
              /\ Len(stream) + n < off[f] + HeaderSize
           \/ /\ pc = DataPiece(f)
              /\ off[f] + HeaderSize <= Len(stream) + 1
              /\ Len(stream) + n < off[f] + HeaderSize + written[f].size,
           stream' = stream \o [i \in 1 .. n |-> pc]
    PROVE  /\ \A p \in 1 .. Len(stream') : Expected(off, p)'
           /\ Len(stream') < off[Len(written) + 1]
<1>1. pc \in Conn!Piece /\ Len(stream) \in Nat /\ Len(written) \in Nat
  BY NetFacts DEF HeaderPiece, DataPiece, Conn!Piece
<1>2. /\ Len(stream') = Len(stream) + n
      /\ \A p \in 1 .. Len(stream) : stream'[p] = stream[p]
      /\ \A p \in Len(stream) + 1 .. Len(stream) + n : stream'[p] = pc
  BY <1>1, GrownFacts
<1>3. ASSUME NEW p \in 1 .. Len(stream)
      PROVE  Expected(off, p)'
  BY <1>2 DEF Expected, HeaderPiece, DataPiece
<1>4. ASSUME NEW p \in Len(stream) + 1 .. Len(stream) + n
      PROVE  Expected(off, p)'
  <2>1. /\ p \in Int /\ stream'[p] = pc /\ off[f] \in Int
        /\ written[f].size \in Nat /\ HeaderSize \in Nat
    BY SMTT(40), <1>1, <1>2, OffsetFacts
  <2>2. /\ off[f] <= p /\ p < off[f] + HeaderSize + written[f].size
        /\ \/ pc = HeaderPiece(f) /\ p < off[f] + HeaderSize
           \/ pc = DataPiece(f) /\ off[f] + HeaderSize <= p
    <3>1. n \in Int /\ Len(stream) + 1 <= p /\ p <= Len(stream) + n
      BY <1>1
    <3>2. CASE /\ pc = HeaderPiece(f)
               /\ off[f] <= Len(stream) + 1
               /\ Len(stream) + n < off[f] + HeaderSize
      BY ONLY <1>1, <2>1, <3>1, <3>2
    <3>3. CASE /\ pc = DataPiece(f)
               /\ off[f] + HeaderSize <= Len(stream) + 1
               /\ Len(stream) + n < off[f] + HeaderSize + written[f].size
      BY ONLY SMTT(40), <1>1, <2>1, <3>1, <3>3
    <3> QED
      BY <3>2, <3>3
  <2>4. ASSUME NEW m \in 1 .. Len(written)
        PROVE  /\ off[m] <= p /\ p < off[m] + HeaderSize => pc = HeaderPiece(m)
               /\ /\ off[m] + HeaderSize <= p
                  /\ p < off[m] + HeaderSize + written[m].size
                  => pc = DataPiece(m)
    <3>1. CASE m = f
      BY ONLY <2>1, <2>2, <3>1
    <3>2. CASE m # f
      <4>1. ~ (off[m] <= p /\ p < off[m] + HeaderSize + written[m].size)
        BY <2>1, <2>2, <3>2, OffsetFacts
      <4>2. off[m] \in Int /\ written[m].size \in Nat
        BY OffsetFacts
      <4> QED
        BY ONLY SMTT(40), <2>1, <4>1, <4>2
    <3> QED
      BY <3>1, <3>2
  <2> QED
    BY <2>1, <2>4 DEF Expected, HeaderPiece, DataPiece
<1>5. \A p \in 1 .. Len(stream') : Expected(off, p)'
  <2> TAKE p \in 1 .. Len(stream')
  <2>1. p \in 1 .. Len(stream) \/ p \in Len(stream) + 1 .. Len(stream) + n
    BY <1>1, <1>2
  <2> QED
    BY <1>3, <1>4, <2>1
<1>6. Len(stream') < off[Len(written) + 1]
  <2>1. /\ off[f] + HeaderSize + written[f].size <= off[Len(written) + 1]
        /\ off[f] \in Int /\ off[Len(written) + 1] \in Int
        /\ written[f].size \in Nat /\ HeaderSize \in Nat
    <3>1. f < Len(written) + 1 /\ Len(written) + 1 \in 1 .. Len(written) + 1
      BY <1>1
    <3> QED
      BY <3>1, OffsetFacts
  <2>2. Len(stream) + n < off[f] + HeaderSize + written[f].size /\ n \in Nat
    <3>1. CASE Len(stream) + n < off[f] + HeaderSize
      BY ONLY SMTT(40), n \in Nat, <1>1, <2>1, <3>1
    <3> QED
      BY <3>1
  <2> QED
    BY ONLY SMTT(40), <1>1, <1>2, <2>1, <2>2
<1> QED
  BY <1>5, <1>6

(* Of n more pieces with k left of the header, or of the data behind it. *)
LEMMA Sums ==
    ASSUME NEW l \in Int, NEW o \in Int, NEW h \in Int, NEW z \in Int,
           NEW k \in Int, NEW n \in Int, 1 <= n, n <= k
    PROVE  /\ l = o + h - 1 - k =>
                 /\ l + n = o + h - 1 - (k - n)
                 /\ l + n < o + h
                 /\ k <= h => o <= l + 1
           /\ l = o + h + z - 1 - k =>
                 /\ l + n = o + h + z - 1 - (k - n)
                 /\ l + n < o + h + z
                 /\ k <= z => o + h <= l + 1
           /\ k <= h => k - n < h /\ k - n \in 0 .. h
  OBVIOUS

LEMMA PostedBehind ==
    ASSUME Conn!TypeOK, NEW op \in Conn!Op, Posts("written", op),
           UNCHANGED written, NEW m, PostedFrom(m)
    PROVE  PostedFrom(m)'
<1>1. "written" \in {"DoWriteCommand", "written", "failed"}
  OBVIOUS
<1>2. /\ DOMAIN service' = 1 .. Len(service) + 1
      /\ service'[Len(service) + 1] = [what |-> "written", op |-> op]
      /\ \A i \in DOMAIN service : service'[i] = service[i]
      /\ \A i \in DOMAIN service' : i \in DOMAIN service \/ i = Len(service) + 1
  BY <1>1, PostFacts, Zenon
<1>3. \A i \in DOMAIN service : i \in DOMAIN service' /\ (IsPosted(i)' <=> IsPosted(i))
  BY <1>2, NetFacts DEF IsPosted
<1>4. \A i \in DOMAIN service' : IsPosted(i)' => i \in DOMAIN service
  BY <1>2 DEF IsPosted
<1>5. \A i \in DOMAIN service' : service'[i].what # "failed"
  BY <1>2 DEF PostedFrom
<1>6. ASSUME NEW n \in m .. Len(written')
      PROVE  \E i \in DOMAIN service' : IsPosted(i)' /\ service'[i].op.cmd = written'[n]
  <2>1. PICK i \in DOMAIN service : IsPosted(i) /\ service[i].op.cmd = written[n]
    BY DEF PostedFrom
  <2> QED
    BY <1>2, <1>3, <2>1
<1>7. ASSUME NEW i \in DOMAIN service', IsPosted(i)'
      PROVE  \E n \in m .. Len(written') : service'[i].op.cmd = written'[n]
  BY <1>2, <1>3, <1>4, <1>7 DEF PostedFrom
<1>8. ASSUME NEW i \in DOMAIN service', NEW j \in DOMAIN service', i < j,
             IsPosted(i)', IsPosted(j)'
      PROVE  service'[i].op.cmd.id < service'[j].op.cmd.id
  BY <1>2, <1>3, <1>4, <1>8 DEF PostedFrom
<1> QED
  BY <1>5, <1>6, <1>7, <1>8 DEF PostedFrom

(* A write of which so much is left by now. *)
LEMMA NewWritten ==
    ASSUME Conn!TypeOK, NEW op \in Conn!Op, Posts("written", op)
    PROVE  \E i \in Nat \ {0} :
              /\ i \in DOMAIN service'
              /\ \A j \in DOMAIN service : j < i
              /\ WrittenIs(i, op)'
              /\ WrittenOnly(0, 0) => WrittenOnly(i, 0)'
              /\ \A j : WrittenOnly(j, 0) => WrittenOnly(i, j)'
              /\ \A j, o : WrittenIs(j, o) => WrittenIs(j, o)'
<1>1. "written" \in {"DoWriteCommand", "written", "failed"}
  OBVIOUS
<1>2. /\ DOMAIN service' = 1 .. Len(service) + 1
      /\ service'[Len(service) + 1] = [what |-> "written", op |-> op]
      /\ \A i \in DOMAIN service : service'[i] = service[i]
      /\ \A i \in DOMAIN service' : i \in DOMAIN service \/ i = Len(service) + 1
  BY <1>1, PostFacts, Zenon
<1>3. DOMAIN service = 1 .. Len(service) /\ Len(service) \in Nat
  BY NetFacts
<1>9. PICK i \in Nat \ {0} : i = Len(service) + 1
  BY <1>3
<1>4. i \in DOMAIN service' /\ \A j \in DOMAIN service : j < i
  BY <1>2, <1>3, <1>9
<1>5. WrittenIs(i, op)'
  <2>1. service'[i] = [what |-> "written", op |-> op]
    BY <1>2, <1>9
  <2> QED
    BY <1>4, <2>1 DEF WrittenIs
<1>6. \A j : WrittenOnly(j, 0) => WrittenOnly(i, j)'
  <2> TAKE j
  <2> SUFFICES ASSUME WrittenOnly(j, 0), NEW n \in DOMAIN service',
                      service'[n].what = "written"
               PROVE  n = i \/ n = j
    BY DEF WrittenOnly
  <2> QED
    BY <1>2, <1>3, <1>9 DEF WrittenOnly
<1>7. WrittenOnly(0, 0) => WrittenOnly(i, 0)'
  BY <1>6
<1>8. \A j, o : WrittenIs(j, o) => WrittenIs(j, o)'
  BY <1>2, <1>3 DEF WrittenIs
<1> QED
  BY <1>4, <1>5, <1>6, <1>7, <1>8

(* Data behind a part of its header. *)
LEMMA SpoilStep ==
    ASSUME Conn!TypeOK, HistoryInv, NEW off, Offsets(off), ReaderAt(off),
           \A p \in 1 .. Len(stream) : Expected(off, p),
           NEW f \in 1 .. Len(written), NEW k \in 1 .. HeaderSize - 1,
           Len(stream) = off[f] + HeaderSize - 1 - k,
           NEW n \in Nat \ {0},
           stream' = stream \o [i \in 1 .. n |-> DataPiece(f)],
           UNCHANGED <<written, delivered, reading>>, inPart'
    PROVE  Spoiled(off)'
<1>1. /\ Len(stream) \in Nat /\ Len(delivered) \in Nat /\ Len(written) \in Nat
      /\ DataPiece(f) \in Conn!Piece
      /\ off[f] \in Int /\ HeaderSize \in Nat /\ HeaderSize > 0
  BY NetFacts, OffsetFacts DEF DataPiece, Conn!Piece
<1>2. /\ Len(stream') = Len(stream) + n
      /\ \A p \in 1 .. Len(stream) : stream'[p] = stream[p]
      /\ stream'[Len(stream) + 1] = DataPiece(f)
  <2>1. Len(stream) + 1 \in Len(stream) + 1 .. Len(stream) + n
    BY <1>1
  <2> QED
    BY <1>1, <2>1, GrownFacts
<1>3. off[f] <= Len(stream) /\ Len(stream) < off[f] + HeaderSize - 1
  BY <1>1
<1>4. 1 <= off[f]
  <2> DEFINE d == Len(delivered) + 1
  <2>1. d \in 1 .. Len(written) + 1 /\ off[d] \in Int /\ off[d] <= 1
        /\ 1 - HeaderSize <= off[d] /\ off[d] \in {1, 1 - HeaderSize}
    <3>1. d \in 1 .. Len(written) + 1
      BY <1>1 DEF HistoryInv
    <3>2. off[d] = 1 \/ off[d] = 1 - HeaderSize
      BY DEF ReaderAt
    <3>3. off[d] \in Int
      BY <3>1, OffsetFacts
    <3> QED
      BY ONLY <1>1, <3>1, <3>2, <3>3
  <2> HIDE DEF d
  <2>2. CASE f < d
    <3>1. off[f] + HeaderSize + written[f].size <= off[d] /\ written[f].size \in Nat
      BY <2>1, <2>2, OffsetFacts
    <3> QED
      BY ONLY SMTT(40), <1>1, <1>3, <2>1, <3>1
  <2>3. CASE f = d
    BY ONLY <1>1, <1>3, <2>1, <2>3
  <2>4. CASE d < f
    <3>1. d \in 1 .. Len(written) /\ f \in 1 .. Len(written) + 1
      BY <1>1, <2>1, <2>4
    <3>2. off[d] + HeaderSize + written[d].size <= off[f] /\ written[d].size \in Nat
      BY <2>4, <3>1, OffsetFacts
    <3>3. \A a, b, h, z \in Int : 1 - h <= b /\ 0 <= z /\ b + h + z <= a => 1 <= a
      OBVIOUS
    <3> QED
      BY ONLY SMTT(40), <1>1, <2>1, <3>2, <3>3
  <2> QED
    BY <1>1, <2>1, <2>2, <2>3, <2>4
<1>5. \A p \in 1 .. Len(stream) : Expected(off, p)'
  BY <1>2 DEF Expected, HeaderPiece, DataPiece
<1>8. PICK g \in Nat : g = Len(stream)
  BY <1>1
<1>6. SpoiledAt(off, f, g)'
  <2>1. g < Len(stream') /\ stream'[g + 1].part = "data"
    BY SMTT(40), <1>1, <1>2, <1>8 DEF DataPiece
  <2> QED
    BY <1>3, <1>4, <1>5, <1>8, <2>1 DEF SpoiledAt
<1>7. ReaderAt(off)'
  BY DEF ReaderAt
<1> QED
  BY <1>1, <1>6, <1>7 DEF Spoiled

(* The socket takes some of the front command's header or data. *)
LEMMA HeaderTaken ==
    ASSUME Conn!TypeOK, HistoryInv, NEW off, Offsets(off), Sound(off),
           NEW f \in 1 .. Len(written), NEW m \in 1 .. Len(written) + 1,
           QueueIs(f, m), PostedFrom(m),
           NEW c \in Conn!Command, c = written[f], c = Head(writeQueue),
           NEW k \in 1 .. HeaderSize, NEW n \in 1 .. k,
           writeQueue # <<>>,
           Len(stream) = off[f] + HeaderSize - 1 - k,
           k # HeaderSize => inPart, WrittenOnly(0, 0),
           ops' = DataOps(c),
           Posts("written", Header(c, k - n)),
           stream' = stream \o [i \in 1 .. n |-> HeaderPiece(f)],
           inPart' = (inPart \/ n < HeaderSize),
           UNCHANGED <<writeQueue, written, delivered, reading>>
    PROVE  Sound(off)'
<1>1. /\ c \in Conn!Command /\ off[f] \in Int
      /\ HeaderSize \in Nat /\ HeaderSize > 0
      /\ Len(stream) \in Nat /\ k \in Nat /\ n \in Nat /\ k - n \in Nat
      /\ k - n < HeaderSize /\ k - n \in 0 .. HeaderSize
      /\ 1 <= n /\ n <= k /\ k <= HeaderSize
      /\ f \in 1 .. Len(written) + 1
  <2>1. /\ c \in Conn!Command /\ off[f] \in Int /\ Len(stream) \in Nat
        /\ HeaderSize \in Nat /\ HeaderSize > 0 /\ f \in 1 .. Len(written) + 1
    BY NetFacts, OffsetFacts
  <2> QED
    BY <2>1
<1>2. /\ HeaderPiece(f) \in Conn!Piece
      /\ Header(c, k - n) \in Conn!Op
  BY <1>1, OpTypes DEF HeaderPiece, Conn!Piece
<1>3. Len(stream') = off[f] + HeaderSize - 1 - (k - n)
  <2>1. Len(stream') = Len(stream) + n
    BY <1>1, <1>2, GrownFacts
  <2> QED
    BY <1>1, <2>1, Sums
<1>4. /\ off[f] <= Len(stream) + 1
      /\ Len(stream) + n < off[f] + HeaderSize
  BY <1>1, Sums
<1>5. /\ \A p \in 1 .. Len(stream') : Expected(off, p)'
      /\ Len(stream') < off[Len(written) + 1]
  BY <1>1, <1>4, GrownAsExpected DEF Sound
<1>6. PICK i \in Nat \ {0} : /\ i \in DOMAIN service'
                             /\ WrittenIs(i, Header(c, k - n))'
                             /\ WrittenOnly(i, 0)'
  <2>1. PICK i \in Nat \ {0} : /\ i \in DOMAIN service'
                               /\ WrittenIs(i, Header(c, k - n))'
                               /\ WrittenOnly(0, 0) => WrittenOnly(i, 0)'
    BY <1>2, NewWritten DEF Header
  <2> QED
    BY <2>1
<1>7. HeaderDone(c, k - n)'
  <2>1. ops' = (IF c.size = 0 THEN <<>> ELSE <<Data(c, c.size)>>)
    BY DEF DataOps
  <2>2. (ops = DataOps(c))'
    BY <2>1 DEF DataOps
  <2>3. \E j \in DOMAIN service' : WrittenIs(j, Header(c, k - n))' /\ WrittenOnly(j, 0)'
    BY <1>6
  <2> QED
    BY <1>1, <2>2, <2>3 DEF HeaderDone
<1>8. InHeader(off[f], c, k - n)'
  <2>1. k - n \notin {0, HeaderSize} => inPart'
    <3>1. CASE n < HeaderSize
      BY <3>1
    <3>2. CASE ~(n < HeaderSize)
      <4>1. k - n = 0
        BY ONLY <1>1, <3>2
      <4> QED
        BY <4>1
    <3> QED
      BY <3>1, <3>2
  <2> QED
    BY <1>3, <1>7, <2>1 DEF InHeader
<1>9. WriterInv(off)'
  <2>1. QueueIs(f, m)'
    BY DEF QueueIs
  <2>2. PostedFrom(m)'
    BY <1>2, PostedBehind
  <2>3. WriterAt(off[f], Head(writeQueue))'
    BY <1>1, <1>8 DEF WriterAt
  <2> QED
    BY <1>1, <2>1, <2>2, <2>3 DEF WriterInv
<1>10. ReaderAt(off)'
  BY DEF Sound, ReaderAt
<1> QED
  BY <1>5, <1>9, <1>10 DEF Sound

LEMMA DataTaken ==
    ASSUME Conn!TypeOK, HistoryInv, NEW off, Offsets(off), Sound(off),
           NEW f \in 1 .. Len(written), NEW m \in 1 .. Len(written) + 1,
           QueueIs(f, m), PostedFrom(m),
           NEW c \in Conn!Command, c = written[f], c = Head(writeQueue),
           NEW k \in 1 .. c.size, NEW n \in 1 .. k,
           writeQueue # <<>>,
           Len(stream) = off[f] + HeaderSize + c.size - 1 - k,
           \/ WrittenOnly(0, 0)
           \/ \E j \in DOMAIN service :
                 WrittenIs(j, Header(c, 0)) /\ WrittenOnly(j, 0),
           ops' = <<>>,
           Posts("written", Data(c, k - n)),
           stream' = stream \o [i \in 1 .. n |-> DataPiece(f)],
           UNCHANGED <<writeQueue, written, delivered, reading>>
    PROVE  Sound(off)'
<1>1. /\ c \in Conn!Command /\ off[f] \in Int /\ c.size \in Nat /\ c.size > 0
      /\ HeaderSize \in Nat /\ HeaderSize > 0
      /\ Len(stream) \in Nat /\ k \in Nat /\ n \in Nat /\ k - n \in Nat
      /\ k - n < c.size /\ k - n \in 0 .. c.size /\ 1 <= n /\ n <= k /\ k <= c.size
      /\ f \in 1 .. Len(written) + 1
  <2>1. /\ c \in Conn!Command /\ off[f] \in Int /\ Len(stream) \in Nat
        /\ HeaderSize \in Nat /\ HeaderSize > 0 /\ f \in 1 .. Len(written) + 1
        /\ c.size \in Nat
    BY NetFacts, OffsetFacts
  <2>2. \A z \in Nat : \A x \in 1 .. z : \A y \in 1 .. x :
           /\ z > 0 /\ x \in Nat /\ y \in Nat /\ x - y \in Nat /\ x - y < z
           /\ x - y \in 0 .. z /\ 1 <= y /\ y <= x /\ x <= z
    OBVIOUS
  <2> QED
    BY <2>1, <2>2
<1>2. /\ DataPiece(f) \in Conn!Piece
      /\ Data(c, k - n) \in Conn!Op
  BY <1>1, OpTypes DEF DataPiece, Conn!Piece
<1>3. /\ Len(stream') = off[f] + HeaderSize + c.size - 1 - (k - n)
      /\ off[f] + HeaderSize <= Len(stream) + 1
      /\ Len(stream) + n < off[f] + HeaderSize + c.size
  <2>1. Len(stream') = Len(stream) + n
    BY <1>1, <1>2, GrownFacts
  <2>2. PICK l \in Nat, start \in Int, h \in Nat, z \in Nat :
           l = Len(stream) /\ start = off[f] /\ h = HeaderSize /\ z = c.size
    BY <1>1, Zenon
  <2>3. l = start + h + z - 1 - k /\ 1 <= n /\ n <= k /\ k <= z
        /\ k \in Int /\ n \in Int
    BY <1>1, <2>2
  <2>4. /\ l + n = start + h + z - 1 - (k - n)
        /\ start + h <= l + 1
        /\ l + n < start + h + z
    BY ONLY <2>3, Sums, l \in Nat, start \in Int, h \in Nat, z \in Nat
  <2> QED
    BY <2>1, <2>2, <2>4
<1>5. /\ \A p \in 1 .. Len(stream') : Expected(off, p)'
      /\ Len(stream') < off[Len(written) + 1]
  BY <1>1, <1>3, GrownAsExpected DEF Sound
<1>6. PICK i \in Nat \ {0} :
         /\ i \in DOMAIN service'
         /\ \A j \in DOMAIN service : j < i
         /\ WrittenIs(i, Data(c, k - n))'
         /\ WrittenOnly(0, 0) => WrittenOnly(i, 0)'
         /\ \A j : WrittenOnly(j, 0) => WrittenOnly(i, j)'
         /\ \A j, o : WrittenIs(j, o) => WrittenIs(j, o)'
  BY <1>2, NewWritten DEF Data
<1>7. DataDone(c, k - n)'
  <2>1. CASE WrittenOnly(0, 0)
    <3>1. WrittenOnly(i, 0)' /\ 0 \in Nat /\ 0 < i
      BY <1>6, <2>1
    <3> QED
      BY <1>1, <1>6, <3>1 DEF DataDone
  <2>2. CASE \E j \in DOMAIN service :
                WrittenIs(j, Header(c, 0)) /\ WrittenOnly(j, 0)
    <3>1. PICK j \in DOMAIN service :
             WrittenIs(j, Header(c, 0)) /\ WrittenOnly(j, 0)
      BY <2>2
    <3>2. j \in Nat /\ j < i
      BY <1>6, NetFacts
    <3>3. WrittenOnly(i, j)' /\ WrittenIs(j, Header(c, 0))'
      BY <1>6, <3>1 DEF Header
    <3> QED
      BY <1>1, <1>6, <3>2, <3>3 DEF DataDone
  <2> QED
    BY <2>1, <2>2
<1>8. InData(off[f], c, k - n)'
  BY <1>1, <1>3, <1>7 DEF InData
<1>9. WriterInv(off)'
  <2>1. QueueIs(f, m)'
    BY DEF QueueIs
  <2>2. PostedFrom(m)'
    BY <1>2, PostedBehind
  <2>3. WriterAt(off[f], Head(writeQueue))'
    BY <1>1, <1>8 DEF WriterAt
  <2> QED
    BY <1>1, <2>1, <2>2, <2>3 DEF WriterInv
<1>10. ReaderAt(off)'
  BY DEF Sound, ReaderAt
<1> QED
  BY <1>5, <1>9, <1>10 DEF Sound

LEMMA WriteSomeStream ==
    ASSUME Conn!TypeOK, HistoryInv, NEW off, Offsets(off), Sound(off),
           Conn!WriteSome
    PROVE  Sound(off)' \/ Spoiled(off)'
<1>0. PICK c : c = Head(writeQueue)
  OBVIOUS
<1>14. PICK op : op = Head(ops)
  OBVIOUS
<1>1. WriterInv(off)
  BY DEF Conn!WriteSome, Sound, Live
<1>2. PICK f, m \in 1 .. Len(written) + 1 :
         QueueIs(f, m) /\ PostedFrom(m) /\ WriterAt(off[f], c)
  BY <1>0, <1>1 DEF WriterInv
<1>3. PICK n \in 1 .. op.left :
         /\ stream' = stream \o [i \in 1 .. n |-> [cmd |-> op.cmd, part |-> op.part]]
         /\ Posts("written", [op EXCEPT !.left = @ - n])
         /\ inPart' = (inPart \/ (op.part = "header" /\ n < HeaderSize))
  BY <1>14 DEF Conn!WriteSome, Posts
<1>4. /\ ops # <<>> /\ ops' = Tail(ops)
      /\ UNCHANGED <<writeQueue, written, delivered, reading>>
  BY DEF Conn!WriteSome
<1>5. ~Idle(off[f])
  BY <1>4 DEF Idle
<1>6. writeQueue # <<>>
  BY <1>2, <1>5 DEF WriterAt, InHeader, InData
<1>7. /\ f \in 1 .. Len(written) /\ written[f] = c /\ c \in Conn!Command
      /\ c.size \in Nat
  <2>1. /\ Len(writeQueue) \in Nat \ {0} /\ 1 \in 1 .. Len(writeQueue)
        /\ c = writeQueue[1] /\ c \in Conn!Command
    <3>1. writeQueue \in Seq(Conn!Command)
      BY DEF Conn!TypeOK
    <3>2. Len(writeQueue) \in Nat \ {0}
      BY <1>6, <3>1, EmptySeq
    <3>3. c = writeQueue[1] /\ c \in Conn!Command
      BY <1>0, <1>6, <3>1, TailFacts
    <3> QED
      BY <3>2, <3>3
  <2>2. f \in 1 .. Len(written) /\ written[f] = c
    <3>1. f \in Nat /\ m = f + Len(writeQueue) /\ m <= Len(written) + 1
          /\ writeQueue[1] = written[f + 1 - 1] /\ f >= 1
      BY <1>2, <2>1, NetFacts DEF QueueIs
    <3> QED
      BY ONLY <2>1, <3>1, NetFacts, Conn!TypeOK
  <2> QED
    BY <2>1, <2>2, NetFacts
<1>8. HeaderSize \in Nat /\ HeaderSize > 0 /\ off[f] \in Int
  BY OffsetFacts
<1>15. ASSUME NEW k, op = Header(c, k)
       PROVE  /\ op.cmd = c /\ op.part = "header" /\ op.left = k
              /\ [op EXCEPT !.left = @ - n] = Header(c, k - n)
  <2>1. PICK b : \A l : Header(c, l) =
                   [cmd |-> c, part |-> "header", left |-> l, del |-> b]
    <3>1. \A l : Header(c, l) =
             [cmd |-> c, part |-> "header", left |-> l, del |-> c.size = 0]
      BY Zenon DEF Header
    <3> QED
      BY <3>1, Zenon
  <2>2. op = [cmd |-> c, part |-> "header", left |-> k, del |-> b]
    BY <1>15, <2>1
  <2> QED
    BY <2>1, <2>2
<1>16. ASSUME NEW k, op = Data(c, k)
       PROVE  /\ op.cmd = c /\ op.part = "data" /\ op.left = k
              /\ [op EXCEPT !.left = @ - n] = Data(c, k - n)
  <2>1. PICK b : \A l : Data(c, l) =
                   [cmd |-> c, part |-> "data", left |-> l, del |-> b]
    BY Zenon DEF Data
  <2>2. op = [cmd |-> c, part |-> "data", left |-> k, del |-> b]
    BY <1>16, <2>1
  <2> QED
    BY <2>1, <2>2
<1>9. ASSUME NEW k, op = Header(c, k), k \in 1 .. HeaderSize,
             Len(stream) = off[f] + HeaderSize - 1 - k,
             k # HeaderSize => inPart, WrittenOnly(0, 0), ops' = DataOps(c)
      PROVE  Sound(off)'
  <2>1. op.cmd = c /\ op.part = "header" /\ op.left = k
        /\ [op EXCEPT !.left = @ - n] = Header(c, k - n)
    BY <1>9, <1>15
  <2>2. /\ stream' = stream \o [i \in 1 .. n |-> HeaderPiece(f)]
        /\ Posts("written", Header(c, k - n))
        /\ inPart' = (inPart \/ n < HeaderSize) /\ n \in 1 .. k
    BY <1>3, <1>7, <2>1 DEF HeaderPiece
  <2> QED
    BY <1>2, <1>4, <1>6, <1>7, <1>9, <2>2, <1>0, HeaderTaken
<1>10. ASSUME NEW k, op = Data(c, k), k \in 1 .. c.size,
              Len(stream) = off[f] + HeaderSize + c.size - 1 - k,
              \/ WrittenOnly(0, 0)
              \/ \E j \in DOMAIN service :
                    WrittenIs(j, Header(c, 0)) /\ WrittenOnly(j, 0),
              ops' = <<>>
       PROVE  Sound(off)'
  <2>1. op.cmd = c /\ op.part = "data" /\ op.left = k
        /\ [op EXCEPT !.left = @ - n] = Data(c, k - n)
    BY <1>10, <1>16
  <2>2. /\ stream' = stream \o [i \in 1 .. n |-> DataPiece(f)]
        /\ Posts("written", Data(c, k - n)) /\ n \in 1 .. k
    BY <1>3, <1>7, <2>1 DEF DataPiece
  <2> QED
    BY <1>2, <1>4, <1>6, <1>7, <1>10, <2>2, <1>0, DataTaken
<1>11. ASSUME NEW k \in 1 .. HeaderSize - 1, op = Data(c, c.size), inPart,
              Len(stream) = off[f] + HeaderSize - 1 - k
       PROVE  Spoiled(off)'
  <2>1. op.cmd = c /\ op.part = "data" /\ op.left = c.size
    BY <1>11, <1>16
  <2>2. stream' = stream \o [i \in 1 .. n |-> DataPiece(f)] /\ n \in Nat \ {0}
        /\ inPart'
    <3>1. n \in 1 .. c.size /\ c.size \in Nat
      BY <1>7, <2>1
    <3>2. n \in Nat \ {0}
      BY ONLY <3>1
    <3>3. inPart'
      BY <1>3, <1>11
    <3>4. [cmd |-> op.cmd, part |-> op.part] = DataPiece(f)
      BY <1>7, <2>1 DEF DataPiece
    <3> QED
      BY <1>3, <3>2, <3>3, <3>4
  <2> QED
    BY <1>4, <1>7, <1>11, <2>2, SpoilStep DEF Sound
<1>12. ASSUME NEW k \in 0 .. HeaderSize, InHeader(off[f], c, k)
       PROVE  Sound(off)' \/ Spoiled(off)'
  <2>1. /\ Len(stream) = off[f] + HeaderSize - 1 - k
        /\ k \notin {0, HeaderSize} => inPart
    BY <1>12 DEF InHeader
  <2>2. CASE HeaderWaits(c, k)
    <3>1. k \in 1 .. HeaderSize /\ WrittenOnly(0, 0) /\ ops = HeaderOps(c, k)
      BY <1>8, <2>2 DEF HeaderWaits
    <3>2. CASE c.size = 0
      <4>1. op = Header(c, k) /\ ops' = DataOps(c)
        BY <1>4, <1>14, <3>1, <3>2 DEF HeaderOps, DataOps
      <4> QED
        BY <1>9, <2>1, <3>1, <4>1
    <3>3. CASE c.size # 0 /\ k = HeaderSize
      <4>1. op = Header(c, k) /\ ops' = DataOps(c)
        BY <1>4, <1>14, <3>1, <3>3 DEF HeaderOps, DataOps
      <4> QED
        BY <1>9, <2>1, <3>1, <3>3, <4>1
    <3>4. CASE c.size # 0 /\ k # HeaderSize
      <4>1. op = Data(c, c.size) /\ k \in 1 .. HeaderSize - 1
        BY <1>8, <1>14, <3>1, <3>4 DEF HeaderOps
      <4>2. inPart
        BY <1>8, <2>1, <4>1
      <4> QED
        BY <1>11, <2>1, <4>1, <4>2
    <3> QED
      BY <3>2, <3>3, <3>4
  <2>3. CASE HeaderDone(c, k)
    <3>1. k < HeaderSize /\ ops = DataOps(c)
      BY <2>3 DEF HeaderDone
    <3>2. c.size # 0 /\ op = Data(c, c.size) /\ ops' = <<>>
      BY <1>4, <1>14, <3>1 DEF DataOps
    <3>3. CASE k = 0
      <4>1. \E j \in DOMAIN service :
               WrittenIs(j, Header(c, 0)) /\ WrittenOnly(j, 0)
        BY <2>3, <3>3 DEF HeaderDone
      <4>2. Len(stream) = off[f] + HeaderSize + c.size - 1 - c.size
            /\ c.size \in 1 .. c.size
        BY ONLY SMTT(40), <1>7, <1>8, <2>1, <3>2, <3>3
      <4> QED
        BY <1>10, <3>2, <4>1, <4>2
    <3>4. CASE k # 0
      <4>1. k \in 1 .. HeaderSize - 1 /\ inPart
        BY <1>8, <2>1, <3>1, <3>4
      <4> QED
        BY <1>11, <2>1, <3>2, <4>1
    <3> QED
      BY <3>3, <3>4
  <2> QED
    BY <1>12, <2>2, <2>3 DEF InHeader
<1>13. ASSUME NEW k \in 0 .. c.size, InData(off[f], c, k)
       PROVE  Sound(off)' \/ Spoiled(off)'
  <2>1. /\ DataWaits(c, k)
        /\ Len(stream) = off[f] + HeaderSize + c.size - 1 - k
    BY <1>4, <1>13 DEF InData, DataDone
  <2>2. /\ k \in 1 .. c.size /\ WrittenOnly(0, 0) /\ op = Data(c, k)
        /\ ops' = <<>>
    BY <1>4, <1>7, <1>14, <2>1 DEF DataWaits
  <2> QED
    BY <1>10, <2>1, <2>2
<1> QED
  BY <1>2, <1>5, <1>12, <1>13 DEF WriterAt

-----------------------------------------------------------------------------
(* The reader *)

Shift(off, k) == [n \in 1 .. MaxCommands + 1 |-> off[n] - k]

writerState == <<service, writeQueue, ops, broken, inPart, written>>

LEMMA TakenFacts ==
    ASSUME Conn!TypeOK, NEW k \in Nat, k <= Len(stream), stream' = Conn!Taken(k)
    PROVE  /\ stream' \in Seq(Conn!Piece)
           /\ Len(stream') = Len(stream) - k /\ Len(stream') \in Nat
           /\ \A p \in 1 .. Len(stream') :
                 /\ stream'[p] = stream[p + k]
                 /\ p + k \in 1 .. Len(stream) /\ p \in Int
<1>1. /\ Len(stream) \in Nat /\ k + 1 \in Int
      /\ \A p \in 1 .. Len(stream) : stream[p] \in Conn!Piece
  BY NetFacts
<1>2. \A p \in k + 1 .. Len(stream) : stream[p] \in Conn!Piece
  BY <1>1
<1>3. /\ stream' \in Seq(Conn!Piece)
      /\ Len(stream') = IF k + 1 <= Len(stream) THEN Len(stream) - (k + 1) + 1 ELSE 0
      /\ \A p \in 1 .. Len(stream) - (k + 1) + 1 :
            stream'[p] = stream[(k + 1) + p - 1]
  BY <1>1, <1>2, SubSeqProperties DEF Conn!Taken
<1>4. \A l \in Nat : k <= l =>
         /\ (IF k + 1 <= l THEN l - (k + 1) + 1 ELSE 0) = l - k /\ l - k \in Nat
         /\ \A p \in 1 .. l - k : /\ p \in 1 .. l - (k + 1) + 1 /\ p \in Int
                                  /\ (k + 1) + p - 1 = p + k /\ p + k \in 1 .. l
  OBVIOUS
<1> QED
  BY <1>1, <1>3, <1>4

LEMMA ShiftedOffsets ==
    ASSUME Conn!TypeOK, HistoryInv, NEW off, Offsets(off), NEW k \in Nat,
           UNCHANGED written
    PROVE  /\ Offsets(Shift(off, k))' /\ Shift(off, k) \in [1 .. MaxCommands + 1 -> Int]
           /\ \A n \in 1 .. Len(written) + 1 : /\ off[n] \in Int
                                               /\ Shift(off, k)[n] = off[n] - k
<1>1. \A n \in 1 .. MaxCommands + 1 : off[n] \in Int /\ Shift(off, k)[n] = off[n] - k
  BY DEF Offsets, Shift
<1>2. Shift(off, k) \in [1 .. MaxCommands + 1 -> Int]
  BY <1>1 DEF Shift
<1>3. /\ \A n \in 1 .. Len(written) + 1 : n \in 1 .. MaxCommands + 1
      /\ \A n \in 1 .. Len(written) :
            n \in 1 .. Len(written) + 1 /\ n + 1 \in 1 .. Len(written) + 1
  BY NetFacts, LoopAssumption DEF HistoryInv
<1>4. ASSUME NEW n \in 1 .. Len(written)
      PROVE  Shift(off, k)[n + 1] = Shift(off, k)[n] + HeaderSize + written[n].size
  <2>1. /\ off[n] \in Int /\ off[n + 1] = off[n] + HeaderSize + written[n].size
        /\ written[n].size \in Nat /\ HeaderSize \in Nat
    BY <1>1, <1>3, NetFacts, PathAssumption DEF Offsets
  <2> DEFINE a == off[n]
             b == off[n + 1]
             z == written[n].size
  <2>2. a \in Int /\ b = a + HeaderSize + z /\ z \in Nat /\ HeaderSize \in Nat
    BY <2>1
  <2>3. Shift(off, k)[n] = a - k /\ Shift(off, k)[n + 1] = b - k
    BY <1>1, <1>3
  <2>4. z = written[n].size
    OBVIOUS
  <2> HIDE DEF a, b, z
  <2>5. b - k = (a - k) + HeaderSize + z
    BY ONLY <2>2, k \in Nat
  <2> QED
    BY ONLY <2>3, <2>4, <2>5
<1>5. ASSUME NEW n \in 1 .. Len(written), NEW m \in 1 .. Len(written) + 1, n < m
      PROVE  Shift(off, k)[n] + HeaderSize + written[n].size <= Shift(off, k)[m]
  <2>1. /\ off[n] \in Int /\ off[m] \in Int
        /\ off[n] + HeaderSize + written[n].size <= off[m]
        /\ written[n].size \in Nat /\ HeaderSize \in Nat
    BY <1>1, <1>3, <1>5, NetFacts, PathAssumption DEF Offsets
  <2>2. \A a, b, h, z \in Int : a + h + z <= b => (a - k) + h + z <= b - k
    OBVIOUS
  <2>3. /\ Shift(off, k)[n] = off[n] - k /\ Shift(off, k)[m] = off[m] - k
    BY <1>1, <1>3
  <2>4. \A z \in Nat : z \in Int
    OBVIOUS
  <2> QED
    BY ONLY <2>1, <2>2, <2>3, <2>4
<1> QED
  BY <1>1, <1>2, <1>3, <1>4, <1>5 DEF Offsets

LEMMA ShiftedExpected ==
    ASSUME Conn!TypeOK, HistoryInv, NEW off, Offsets(off),
           NEW k \in Nat, k <= Len(stream), stream' = Conn!Taken(k),
           UNCHANGED written, NEW p \in 1 .. Len(stream'), Expected(off, p + k)
    PROVE  Expected(Shift(off, k), p)'
<1>1. stream'[p] = stream[p + k] /\ p \in Int /\ HeaderSize \in Nat
  BY TakenFacts, PathAssumption
<1>2. ASSUME NEW n \in 1 .. Len(written)
      PROVE  /\ /\ Shift(off, k)[n] <= p
                /\ p < Shift(off, k)[n] + HeaderSize
                => stream'[p] = HeaderPiece(n)
             /\ /\ Shift(off, k)[n] + HeaderSize <= p
                /\ p < Shift(off, k)[n] + HeaderSize + written[n].size
                => stream'[p] = DataPiece(n)
  <2>1. /\ off[n] \in Int /\ Shift(off, k)[n] = off[n] - k
        /\ written[n].size \in Nat
    BY ShiftedOffsets, OffsetFacts
  <2>2. \A a, h, z, q \in Int :
           /\ a - k <= q /\ q < (a - k) + h => a <= q + k /\ q + k < a + h
           /\ (a - k) + h <= q /\ q < (a - k) + h + z =>
                 a + h <= q + k /\ q + k < a + h + z
    OBVIOUS
  <2>3. /\ off[n] <= p + k /\ p + k < off[n] + HeaderSize
              => stream[p + k] = HeaderPiece(n)
        /\ off[n] + HeaderSize <= p + k
              /\ p + k < off[n] + HeaderSize + written[n].size
              => stream[p + k] = DataPiece(n)
    BY DEF Expected
  <2> QED
    BY ONLY SMTT(40), <1>1, <2>1, <2>2, <2>3
<1> QED
  BY <1>2 DEF Expected, HeaderPiece, DataPiece

LEMMA ShiftedWriter ==
    ASSUME Conn!TypeOK, HistoryInv, NEW off, Offsets(off),
           NEW k \in Nat, k <= Len(stream), stream' = Conn!Taken(k),
           UNCHANGED writerState, WriterInv(off)
    PROVE  WriterInv(Shift(off, k))'
<1>1. PICK f, m \in 1 .. Len(written) + 1 :
         QueueIs(f, m) /\ PostedFrom(m) /\ WriterAt(off[f], Head(writeQueue))
  BY DEF WriterInv
<1>2. QueueIs(f, m)' /\ PostedFrom(m)'
  BY <1>1 DEF QueueIs, PostedFrom, IsPosted, writerState
<1>3. /\ Shift(off, k)[f] = off[f] - k /\ off[f] \in Int
      /\ Len(stream') = Len(stream) - k /\ Len(stream) \in Nat
      /\ HeaderSize \in Nat
  <2>1. UNCHANGED written
    BY DEF writerState
  <2>2. Shift(off, k)[f] = off[f] - k /\ off[f] \in Int
    BY <2>1, ShiftedOffsets
  <2>3. Len(stream') = Len(stream) - k /\ Len(stream) \in Nat
    BY TakenFacts, NetFacts
  <2> QED
    BY <2>2, <2>3, PathAssumption
<1>4. PICK c : c = Head(writeQueue)
  OBVIOUS
<1>5. /\ WrittenOnly(0, 0) => WrittenOnly(0, 0)'
      /\ \A j : /\ HeaderWaits(c, j) => HeaderWaits(c, j)'
                /\ HeaderDone(c, j) => HeaderDone(c, j)'
                /\ DataWaits(c, j) => DataWaits(c, j)'
                /\ DataDone(c, j) => DataDone(c, j)'
  BY DEF HeaderWaits, HeaderDone, DataWaits, DataDone, WrittenOnly, WrittenIs,
     HeaderOps, DataOps, Header, Data, writerState
<1>6. writeQueue # <<>> => c.size \in Nat
  <2> SUFFICES ASSUME writeQueue # <<>> PROVE c.size \in Nat
    OBVIOUS
  <2>1. writeQueue \in Seq(Conn!Command)
    BY DEF Conn!TypeOK
  <2>2. c \in Conn!Command
    BY <1>4, <2>1, TailFacts
  <2>3. c.size \in DataSizes
    BY <2>2 DEF Conn!Command
  <2> QED
    BY <2>3, PathAssumption
<1>7. \A j \in Nat : InHeader(off[f], c, j) => InHeader(Shift(off, k)[f], c, j)'
  <2> SUFFICES ASSUME NEW j \in Nat, InHeader(off[f], c, j)
               PROVE  InHeader(Shift(off, k)[f], c, j)'
    OBVIOUS
  <2>1. Len(stream') = Shift(off, k)[f] + HeaderSize - 1 - j
    <3>1. Len(stream) = off[f] + HeaderSize - 1 - j
      BY DEF InHeader
    <3>2. \A a, h \in Int : (a + h - 1 - j) - k = (a - k) + h - 1 - j
      OBVIOUS
    <3> QED
      BY <1>3, <3>1, <3>2
  <2> QED
    BY <1>5, <2>1 DEF InHeader, writerState
<1>8. \A j \in Nat : InData(off[f], c, j) => InData(Shift(off, k)[f], c, j)'
  <2> SUFFICES ASSUME NEW j \in Nat, InData(off[f], c, j)
               PROVE  InData(Shift(off, k)[f], c, j)'
    OBVIOUS
  <2>1. Len(stream') = Shift(off, k)[f] + HeaderSize + c.size - 1 - j
    <3>1. Len(stream) = off[f] + HeaderSize + c.size - 1 - j /\ c.size \in Nat
      BY <1>6 DEF InData
    <3>2. \A a, h, z \in Int : (a + h + z - 1 - j) - k = (a - k) + h + z - 1 - j
      OBVIOUS
    <3> QED
      BY SMTT(40), <1>3, <3>1, <3>2
  <2> QED
    BY <1>5, <2>1 DEF InData, writerState
<1>9. Idle(off[f]) => Idle(Shift(off, k)[f])'
  BY <1>3, <1>5 DEF Idle, writerState
<1>10. WriterAt(Shift(off, k)[f], c)'
  <2>1. WriterAt(off[f], c)
    BY <1>1, <1>4
  <2>2. \A j \in 0 .. HeaderSize : j \in Nat
    BY <1>3
  <2>3. CASE Idle(off[f])
    BY <1>9, <2>3 DEF WriterAt
  <2>4. CASE \E j \in 0 .. HeaderSize : InHeader(off[f], c, j)
    BY <1>7, <2>2, <2>4 DEF WriterAt
  <2>5. CASE \E j \in 0 .. c.size : InData(off[f], c, j)
    <3>1. PICK j \in 0 .. c.size : InData(off[f], c, j)
      BY <2>5
    <3>2. c.size \in Nat /\ j \in Nat
      BY <1>6, <3>1 DEF InData
    <3> QED
      BY <1>8, <3>1, <3>2 DEF WriterAt
  <2> QED
    BY <2>1, <2>3, <2>4, <2>5 DEF WriterAt
<1>11. c = Head(writeQueue')
  BY <1>4 DEF writerState
<1>12. \E f2, m2 \in 1 .. Len(written') + 1 :
          /\ QueueIs(f2, m2)' /\ PostedFrom(m2)'
          /\ WriterAt(Shift(off, k)[f2], Head(writeQueue))'
  BY <1>2, <1>10, <1>11 DEF writerState
<1> QED
  BY <1>12 DEF WriterInv

(* k pieces are taken of what belongs there.                                *)
LEMMA TakenSound ==
    ASSUME Conn!TypeOK, HistoryInv, NEW off, Offsets(off), Sound(off),
           NEW k \in Nat, k <= Len(stream), stream' = Conn!Taken(k),
           UNCHANGED writerState, UNCHANGED isConnected,
           ReaderAt(Shift(off, k))'
    PROVE  Sound(Shift(off, k))'
<1>0. UNCHANGED written
  BY DEF writerState
<1>1. ASSUME NEW p \in 1 .. Len(stream')
      PROVE  Expected(Shift(off, k), p)'
  <2>1. p + k \in 1 .. Len(stream)
    BY TakenFacts
  <2>2. Expected(off, p + k)
    BY <2>1 DEF Sound
  <2> QED
    BY <1>0, <2>2, ShiftedExpected
<1>2. Len(stream') < Shift(off, k)[Len(written) + 1]
  <2>1. Len(stream') = Len(stream) - k /\ Len(stream) \in Nat
    BY TakenFacts, NetFacts
  <2>2. Len(written) + 1 \in 1 .. Len(written) + 1
    BY NetFacts
  <2>3. /\ off[Len(written) + 1] \in Int
        /\ Shift(off, k)[Len(written) + 1] = off[Len(written) + 1] - k
    BY <1>0, <2>2, ShiftedOffsets
  <2>4. Len(stream) < off[Len(written) + 1]
    BY DEF Sound
  <2>5. \A l \in Nat, o \in Int : l < o => l - k < o - k
    OBVIOUS
  <2> QED
    BY ONLY <2>1, <2>3, <2>4, <2>5
<1>3. ASSUME Live' PROVE WriterInv(Shift(off, k))'
  <2>1. Live
    BY <1>3 DEF Live, writerState
  <2> QED
    BY <2>1, ShiftedWriter DEF Sound
<1> QED
  BY <1>0, <1>1, <1>2, <1>3 DEF Sound

(* ... and of what was spoiled only behind them.                            *)
LEMMA TakenSpoiled ==
    ASSUME Conn!TypeOK, HistoryInv, NEW off, Offsets(off), inPart,
           NEW n \in 1 .. Len(written), NEW g \in Nat, SpoiledAt(off, n, g),
           NEW k \in Nat, k < off[n], k <= Len(stream), stream' = Conn!Taken(k),
           UNCHANGED writerState, ReaderAt(Shift(off, k))'
    PROVE  Spoiled(Shift(off, k))'
<1>0. UNCHANGED written /\ inPart'
  BY DEF writerState
<1>1. /\ off[n] \in Int /\ Shift(off, k)[n] = off[n] - k /\ HeaderSize \in Nat
      /\ Len(stream') = Len(stream) - k /\ Len(stream) \in Nat
  <2>1. n \in 1 .. Len(written) + 1 /\ HeaderSize \in Nat
    BY OffsetFacts
  <2>2. off[n] \in Int /\ Shift(off, k)[n] = off[n] - k
    BY <1>0, <2>1, ShiftedOffsets
  <2>3. Len(stream') = Len(stream) - k /\ Len(stream) \in Nat
    BY TakenFacts, NetFacts
  <2> QED
    BY <2>1, <2>2, <2>3
<1>2. /\ 1 <= off[n] /\ off[n] <= g /\ g < off[n] + HeaderSize - 1
      /\ g < Len(stream) /\ \A p \in 1 .. g : Expected(off, p)
      /\ stream[g + 1].part = "data"
  BY DEF SpoiledAt
<1>3. \A o, h, l \in Int :
         k < o /\ o <= g /\ g < o + h - 1 /\ g < l =>
            /\ 1 <= o - k /\ o - k <= g - k /\ g - k < (o - k) + h - 1
            /\ g - k < l - k /\ g - k \in Nat
            /\ (g - k) + 1 \in 1 .. l - k /\ ((g - k) + 1) + k = g + 1
            /\ \A p \in 1 .. g - k : p \in 1 .. l - k /\ p + k \in 1 .. g
  OBVIOUS
<1>4. /\ 1 <= off[n] - k /\ off[n] - k <= g - k
      /\ g - k < (off[n] - k) + HeaderSize - 1
      /\ g - k < Len(stream) - k /\ g - k \in Nat
      /\ (g - k) + 1 \in 1 .. Len(stream) - k /\ ((g - k) + 1) + k = g + 1
      /\ \A p \in 1 .. g - k : p \in 1 .. Len(stream) - k /\ p + k \in 1 .. g
  <2>1. HeaderSize \in Int /\ Len(stream) \in Int
    BY <1>1
  <2> QED
    BY ONLY <1>1, <1>2, <1>3, <2>1, k < off[n]
<1>5. stream'[(g - k) + 1].part = "data"
  BY SMTT(40), <1>1, <1>2, <1>4, TakenFacts
<1>6. ASSUME NEW p \in 1 .. g - k
      PROVE  Expected(Shift(off, k), p)'
  <2>1. p \in 1 .. Len(stream') /\ Expected(off, p + k)
    BY <1>1, <1>2, <1>4
  <2> QED
    BY <1>0, <2>1, ShiftedExpected
<1>7. SpoiledAt(Shift(off, k), n, g - k)'
  <2>1. /\ 1 <= Shift(off, k)[n] /\ Shift(off, k)[n] <= g - k
        /\ g - k < Shift(off, k)[n] + HeaderSize - 1
        /\ g - k < Len(stream')
    BY ONLY <1>1, <1>4
  <2> QED
    BY <1>5, <1>6, <2>1 DEF SpoiledAt
<1> QED
  BY <1>0, <1>4, <1>7 DEF Spoiled

(* The command that the reader takes, d, is the next one.                   *)
Takes(d) ==
    \/ UNCHANGED delivered
    \/ /\ d = Len(delivered) + 1 /\ d \in 1 .. Len(written)
       /\ delivered' = Append(delivered, written[d])

LEMMA AfterTaken ==
    ASSUME Conn!TypeOK, HistoryInv, NEW off, Offsets(off), NEW k \in Nat,
           NEW d \in 1 .. Len(written), d = Len(delivered) + 1,
           UNCHANGED written,
           \/ /\ off[d] = 1 - HeaderSize + k - written[d].size
              /\ delivered' = Append(delivered, written[d])
              /\ reading' = Conn!NoCommand
           \/ /\ off[d] = 1 - HeaderSize + k
              /\ UNCHANGED delivered /\ reading' = written[d]
    PROVE  ReaderAt(Shift(off, k))'
<1>1. /\ off[d] \in Int /\ Shift(off, k)[d] = off[d] - k /\ HeaderSize \in Nat
      /\ written[d].size \in Nat /\ off[d + 1] = off[d] + HeaderSize + written[d].size
      /\ off[d + 1] \in Int /\ Shift(off, k)[d + 1] = off[d + 1] - k
      /\ written[d] \in Conn!Command
  <2>1. /\ d \in 1 .. Len(written) + 1 /\ d + 1 \in 1 .. Len(written) + 1
        /\ HeaderSize \in Nat /\ written[d].size \in Nat
        /\ off[d + 1] = off[d] + HeaderSize + written[d].size
        /\ off[d] \in Int /\ off[d + 1] \in Int
    BY OffsetFacts
  <2>2. Shift(off, k)[d] = off[d] - k /\ Shift(off, k)[d + 1] = off[d + 1] - k
    BY <2>1, ShiftedOffsets
  <2> QED
    BY <2>1, <2>2, NetFacts
<1>2. CASE /\ off[d] = 1 - HeaderSize + k - written[d].size
           /\ delivered' = Append(delivered, written[d])
           /\ reading' = Conn!NoCommand
  <2>1. delivered \in Seq(Conn!Command)
    BY DEF Conn!TypeOK
  <2>2. Len(delivered') = d
    BY <1>1, <1>2, <2>1, AppendProperties
  <2>3. \A o, h, z, b \in Int : o = 1 - h + k - z /\ b = o + h + z => b - k = 1
    OBVIOUS
  <2>4. HeaderSize \in Int /\ written[d].size \in Int
    BY <1>1
  <2>5. Shift(off, k)[d + 1] = 1
    BY ONLY <1>1, <1>2, <2>3, <2>4
  <2> QED
    BY <1>2, <2>2, <2>5 DEF ReaderAt
<1>3. CASE /\ off[d] = 1 - HeaderSize + k
           /\ UNCHANGED delivered /\ reading' = written[d]
  <2>1. Shift(off, k)[d] = 1 - HeaderSize
    BY ONLY <1>1, <1>3, k \in Nat
  <2>2. Len(delivered) < Len(written)
    <3>1. Len(delivered) \in Nat /\ Len(written) \in Nat
      BY NetFacts
    <3> QED
      BY ONLY <3>1, d = Len(delivered) + 1, d \in 1 .. Len(written)
  <2> QED
    BY <1>3, <2>1, <2>2 DEF ReaderAt
<1> QED
  BY <1>2, <1>3

(* A reader that waits for a header is at that of the next command.         *)
LEMMA AtHeader ==
    ASSUME Conn!TypeOK, NEW off, ReaderAt(off)
    PROVE  /\ reading = Conn!NoCommand => off[Len(delivered) + 1] = 1
           /\ reading.id > 0 =>
                 /\ Len(delivered) < Len(written)
                 /\ reading = written[Len(delivered) + 1]
                 /\ off[Len(delivered) + 1] = 1 - HeaderSize
<1>1. Conn!NoCommand.id = 0
  BY DEF Conn!NoCommand
<1>2. Len(delivered) < Len(written) => written[Len(delivered) + 1].id \in 1 .. MaxCommands
  <2>1. \A m, n \in Nat : m < n => m + 1 \in 1 .. n
    OBVIOUS
  <2>2. Len(delivered) < Len(written) => Len(delivered) + 1 \in 1 .. Len(written)
    BY <2>1, NetFacts
  <2>3. \A n \in 1 .. Len(written) : written[n] \in Conn!Command
    BY NetFacts
  <2> QED
    BY <2>2, <2>3 DEF Conn!Command
<1>3. \A i \in 1 .. MaxCommands : i # 0
  BY LoopAssumption
<1>4. CASE reading = Conn!NoCommand /\ off[Len(delivered) + 1] = 1
  BY <1>1, <1>4
<1>5. CASE /\ Len(delivered) < Len(written)
           /\ reading = written[Len(delivered) + 1]
           /\ off[Len(delivered) + 1] = 1 - HeaderSize
  BY <1>1, <1>2, <1>3, <1>5
<1> QED
  BY <1>4, <1>5 DEF ReaderAt

(* A header that is where it belongs is taken for what it is.               *)
LEMMA HeaderRead ==
    ASSUME Conn!TypeOK, HistoryInv, NEW off, Offsets(off), ReaderAt(off),
           Len(delivered) < Len(written), Conn!ReadHeader,
           \A p \in 1 .. HeaderSize : Expected(off, p)
    PROVE  Takes(Len(delivered) + 1) /\ ReaderAt(Shift(off, HeaderSize))'
<1>1. PICK d \in 1 .. Len(written) : d = Len(delivered) + 1
  <2>1. \A m, n \in Nat : m < n => m + 1 \in 1 .. n
    OBVIOUS
  <2> QED
    BY <2>1, NetFacts
<1>2. /\ off[d] = 1 /\ HeaderSize \in Nat /\ HeaderSize > 0
      /\ written[d].size \in Nat /\ written[d] \in Conn!Command
  <2>1. reading = Conn!NoCommand
    BY DEF Conn!ReadHeader
  <2> QED
    BY <1>1, <2>1, AtHeader, OffsetFacts, NetFacts
<1>3. \A i \in 1 .. HeaderSize : stream[i] = HeaderPiece(d)
  <2> TAKE i \in 1 .. HeaderSize
  <2>1. off[d] <= i /\ i < off[d] + HeaderSize
    BY ONLY <1>2, i \in 1 .. HeaderSize
  <2> QED
    BY <1>1, <2>1 DEF Expected
<1>4. Head(stream) = HeaderPiece(d)
  <2>1. HeaderSize <= Len(stream) /\ stream \in Seq(Conn!Piece)
    BY DEF Conn!ReadHeader, Conn!TypeOK
  <2>2. stream # <<>>
    BY <1>2, <2>1, LenProperties, EmptySeq
  <2>3. 1 \in 1 .. HeaderSize
    BY ONLY <1>2
  <2> QED
    BY <1>3, <2>1, <2>2, <2>3, TailFacts
<1>5. /\ Head(stream).cmd = written[d]
      /\ \A i \in 1 .. HeaderSize :
            stream[i] = [cmd |-> written[d], part |-> "header"]
  BY <1>3, <1>4 DEF HeaderPiece
<1>6. \/ /\ written[d].size = 0 /\ delivered' = Append(delivered, written[d])
         /\ reading' = reading
      \/ /\ written[d].size # 0 /\ reading' = written[d] /\ UNCHANGED delivered
  BY <1>5 DEF Conn!ReadHeader
<1>7. UNCHANGED written
  BY DEF Conn!ReadHeader, Conn!writerVars
<1>8. Takes(Len(delivered) + 1)
  BY <1>1, <1>6 DEF Takes
<1>9. \/ /\ off[d] = 1 - HeaderSize + HeaderSize - written[d].size
         /\ delivered' = Append(delivered, written[d])
         /\ reading' = Conn!NoCommand
      \/ /\ off[d] = 1 - HeaderSize + HeaderSize
         /\ UNCHANGED delivered /\ reading' = written[d]
  <2>1. 1 - HeaderSize + HeaderSize = 1 /\ 1 - HeaderSize + HeaderSize - 0 = 1
    BY <1>2
  <2>2. reading = Conn!NoCommand
    BY DEF Conn!ReadHeader
  <2> QED
    BY <1>2, <1>6, <2>1, <2>2
<1> QED
  BY <1>1, <1>2, <1>7, <1>8, <1>9, AfterTaken

LEMMA ReadHeaderSound ==
    ASSUME Conn!TypeOK, HistoryInv, NEW off, Offsets(off), Sound(off),
           Conn!ReadHeader
    PROVE  /\ Takes(Len(delivered) + 1)
           /\ Offsets(Shift(off, HeaderSize))' /\ Sound(Shift(off, HeaderSize))'
<1>1. /\ reading = Conn!NoCommand /\ HeaderSize <= Len(stream)
      /\ stream' = Conn!Taken(HeaderSize) /\ UNCHANGED writerState
      /\ UNCHANGED isConnected
  BY DEF Conn!ReadHeader, Conn!writerVars, writerState
<1>2. ReaderAt(off) /\ off[Len(delivered) + 1] = 1
  BY <1>1, AtHeader DEF Sound
<1>3. Len(delivered) < Len(written)
  <2>1. /\ Len(stream) < off[Len(written) + 1] /\ Len(stream) \in Nat
        /\ HeaderSize \in Nat /\ HeaderSize > 0
        /\ Len(delivered) <= Len(written)
        /\ Len(delivered) \in Nat /\ Len(written) \in Nat
    BY NetFacts, PathAssumption DEF Sound, HistoryInv
  <2>2. Len(delivered) # Len(written)
    <3> SUFFICES ASSUME Len(delivered) = Len(written) PROVE FALSE
      OBVIOUS
    <3>1. Len(stream) < 1
      BY <1>2, <2>1
    <3> QED
      BY ONLY <1>1, <2>1, <3>1
  <2> QED
    BY ONLY <2>1, <2>2
<1>4. \A p \in 1 .. HeaderSize : Expected(off, p)
  <2>1. \A p \in 1 .. HeaderSize : p \in 1 .. Len(stream)
    BY <1>1, NetFacts, PathAssumption
  <2> QED
    BY <2>1 DEF Sound
<1>5. HeaderSize \in Nat /\ UNCHANGED written
  BY <1>1, PathAssumption DEF writerState
<1>6. Takes(Len(delivered) + 1) /\ ReaderAt(Shift(off, HeaderSize))'
  BY <1>2, <1>3, <1>4, HeaderRead
<1>7. Offsets(Shift(off, HeaderSize))'
  BY <1>5, ShiftedOffsets
<1> QED
  BY <1>1, <1>5, <1>6, <1>7, TakenSound

LEMMA ReadHeaderSpoiled ==
    ASSUME Conn!TypeOK, HistoryInv, NEW off, Offsets(off), Spoiled(off),
           Conn!ReadHeader
    PROVE  /\ Takes(Len(delivered) + 1)
           /\ \/ Offsets(off)' /\ Spoiled(off)'
              \/ Offsets(Shift(off, HeaderSize))' /\ Spoiled(Shift(off, HeaderSize))'
<1>1. /\ reading = Conn!NoCommand /\ HeaderSize <= Len(stream)
      /\ stream' = Conn!Taken(HeaderSize) /\ UNCHANGED writerState
      /\ UNCHANGED written /\ inPart /\ inPart'
  BY DEF Conn!ReadHeader, Conn!writerVars, writerState, Spoiled
<1>2. ReaderAt(off) /\ \E n \in 1 .. Len(written), g \in Nat : SpoiledAt(off, n, g)
  <2>1. reading.id = 0 /\ Conn!Garbage.id = -1
    BY <1>1 DEF Conn!NoCommand, Conn!Garbage
  <2> QED
    BY <2>1 DEF Spoiled
<1>3. PICK n \in 1 .. Len(written), g \in Nat : SpoiledAt(off, n, g)
  BY <1>2
<1>4. /\ 1 <= off[n] /\ off[n] <= g /\ g < off[n] + HeaderSize - 1
      /\ g < Len(stream) /\ \A p \in 1 .. g : Expected(off, p)
      /\ stream[g + 1].part = "data"
  BY <1>3 DEF SpoiledAt
<1>5. off[Len(delivered) + 1] = 1
  BY <1>1, <1>2, AtHeader
<1>6. PICK d \in 1 .. Len(written) + 1 : d = Len(delivered) + 1
  <2>1. \A i, j \in Nat : i <= j => i + 1 \in 1 .. j + 1
    OBVIOUS
  <2> QED
    BY <2>1, NetFacts DEF HistoryInv
<1>7. /\ HeaderSize \in Nat /\ HeaderSize > 0 /\ off[n] \in Int
      /\ written[n].size \in Nat /\ off[d] = 1 /\ n \in Nat /\ d \in Nat
      /\ Len(written) \in Nat
  <2>1. /\ HeaderSize \in Nat /\ HeaderSize > 0 /\ off[n] \in Int
        /\ written[n].size \in Nat
    BY OffsetFacts
  <2> QED
    BY <1>5, <1>6, <2>1, NetFacts
<1>8. ~ (n < d)
  <2> SUFFICES ASSUME n < d PROVE FALSE
    OBVIOUS
  <2>1. off[n] + HeaderSize + written[n].size <= off[d]
    BY OffsetFacts
  <2> QED
    BY ONLY <1>4, <1>7, <2>1
<1>9. CASE n = d
  <2>1. g + 1 \in 1 .. HeaderSize
    BY ONLY <1>4, <1>7, <1>9, g \in Nat
  <2>2. ~ \A i \in 1 .. HeaderSize :
            stream[i] = [cmd |-> Head(stream).cmd, part |-> "header"]
    BY <1>4, <2>1
  <2>3. reading' = Conn!Garbage /\ UNCHANGED delivered
    BY <2>2 DEF Conn!ReadHeader
  <2>4. Offsets(off)'
    BY <1>1 DEF Offsets
  <2> QED
    BY <1>1, <2>3, <2>4 DEF Spoiled, Takes
<1>10. CASE d < n
  <2>1. d \in 1 .. Len(written) /\ Len(delivered) < Len(written)
    <3>1. d \in 1 .. Len(written)
      BY ONLY <1>6, <1>7, <1>10, n \in 1 .. Len(written)
    <3> QED
      BY <1>6, <3>1, NetFacts
  <2>2. /\ off[d] + HeaderSize + written[d].size <= off[n]
        /\ written[d].size \in Nat
    BY <1>7, <1>10, <2>1, OffsetFacts
  <2>3. HeaderSize < off[n] /\ \A p \in 1 .. HeaderSize : p \in 1 .. g
    <3>1. \A h, z, o \in Int : 0 <= z /\ 1 + h + z <= o => h < o
      OBVIOUS
    <3>2. HeaderSize \in Int /\ written[d].size \in Int /\ 0 <= written[d].size
      BY ONLY <1>7, <2>2
    <3>3. HeaderSize < off[n]
      BY ONLY <1>7, <2>2, <3>1, <3>2
    <3> QED
      BY ONLY <1>4, <1>7, <3>3, g \in Nat
  <2>4. Takes(Len(delivered) + 1) /\ ReaderAt(Shift(off, HeaderSize))'
    BY <1>2, <1>4, <2>1, <2>3, HeaderRead
  <2>5. Offsets(Shift(off, HeaderSize))'
    BY <1>1, <1>7, ShiftedOffsets
  <2>6. Spoiled(Shift(off, HeaderSize))'
    BY <1>1, <1>3, <1>7, <2>3, <2>4, TakenSpoiled
  <2> QED
    BY <2>4, <2>5, <2>6
<1> QED
  BY <1>7, <1>8, <1>9, <1>10

LEMMA DataRead ==
    ASSUME Conn!TypeOK, HistoryInv, NEW off, Offsets(off), ReaderAt(off),
           Conn!ReadData
    PROVE  \E d \in 1 .. Len(written), k \in Nat :
              /\ Takes(Len(delivered) + 1) /\ d = Len(delivered) + 1
              /\ k = written[d].size /\ k <= Len(stream)
              /\ off[d] = 1 - HeaderSize
              /\ stream' = Conn!Taken(k)
              /\ UNCHANGED writerState /\ UNCHANGED isConnected
              /\ ReaderAt(Shift(off, k))'
<1>1. /\ reading.id > 0 /\ Len(stream) >= reading.size
      /\ stream' = Conn!Taken(reading.size) /\ UNCHANGED writerState
      /\ UNCHANGED isConnected
      /\ delivered' = Append(delivered, reading) /\ reading' = Conn!NoCommand
  BY DEF Conn!ReadData, Conn!writerVars, writerState
<1>2. /\ Len(delivered) < Len(written)
      /\ reading = written[Len(delivered) + 1]
      /\ off[Len(delivered) + 1] = 1 - HeaderSize
  BY <1>1, AtHeader
<1>3. PICK d \in 1 .. Len(written) : d = Len(delivered) + 1
  <2>1. \A m, n \in Nat : m < n => m + 1 \in 1 .. n
    OBVIOUS
  <2> QED
    BY <1>2, <2>1, NetFacts
<1>4. PICK k \in Nat : k = written[d].size
  BY NetFacts
<1>5. /\ k <= Len(stream) /\ off[d] = 1 - HeaderSize /\ stream' = Conn!Taken(k)
      /\ delivered' = Append(delivered, written[d])
  <2>1. Len(stream) \in Nat
    BY NetFacts
  <2> QED
    BY <1>1, <1>2, <1>3, <1>4, <2>1
<1>6. Takes(Len(delivered) + 1) /\ UNCHANGED written
  BY <1>1, <1>3, <1>5 DEF Takes, writerState
<1>7. off[d] = 1 - HeaderSize + k - written[d].size
  <2>1. \A h, z \in Int : 1 - h + z - z = 1 - h
    OBVIOUS
  <2>2. HeaderSize \in Int
    BY PathAssumption
  <2> QED
    BY <1>4, <1>5, <2>1, <2>2
<1>8. ReaderAt(Shift(off, k))'
  BY <1>1, <1>3, <1>5, <1>6, <1>7, AfterTaken
<1> QED
  BY <1>1, <1>3, <1>4, <1>5, <1>6, <1>8

LEMMA ReadDataSound ==
    ASSUME Conn!TypeOK, HistoryInv, NEW off, Offsets(off), Sound(off),
           Conn!ReadData
    PROVE  /\ Takes(Len(delivered) + 1)
           /\ \E k \in Nat : Offsets(Shift(off, k))' /\ Sound(Shift(off, k))'
<1>1. ReaderAt(off)
  BY DEF Sound
<1>2. PICK d \in 1 .. Len(written), k \in Nat :
         /\ Takes(Len(delivered) + 1) /\ d = Len(delivered) + 1
         /\ k <= Len(stream) /\ stream' = Conn!Taken(k)
         /\ UNCHANGED writerState /\ UNCHANGED isConnected
         /\ ReaderAt(Shift(off, k))'
  BY <1>1, DataRead
<1>3. UNCHANGED written
  BY <1>2 DEF writerState
<1>4. Offsets(Shift(off, k))'
  BY <1>3, ShiftedOffsets
<1>5. Sound(Shift(off, k))'
  BY <1>2, TakenSound
<1> QED
  BY <1>2, <1>4, <1>5

LEMMA ReadDataSpoiled ==
    ASSUME Conn!TypeOK, HistoryInv, NEW off, Offsets(off), Spoiled(off),
           Conn!ReadData
    PROVE  /\ Takes(Len(delivered) + 1)
           /\ \E k \in Nat : Offsets(Shift(off, k))' /\ Spoiled(Shift(off, k))'
<1>1. ReaderAt(off) /\ \E n \in 1 .. Len(written), g \in Nat : SpoiledAt(off, n, g)
  <2>1. reading.id > 0 /\ Conn!Garbage.id = -1
    BY DEF Conn!ReadData, Conn!Garbage
  <2> QED
    BY <2>1 DEF Spoiled
<1>2. PICK n \in 1 .. Len(written), g \in Nat : SpoiledAt(off, n, g)
  BY <1>1
<1>3. PICK d \in 1 .. Len(written), k \in Nat :
         /\ Takes(Len(delivered) + 1) /\ d = Len(delivered) + 1
         /\ k = written[d].size /\ k <= Len(stream)
         /\ off[d] = 1 - HeaderSize /\ stream' = Conn!Taken(k)
         /\ UNCHANGED writerState
         /\ ReaderAt(Shift(off, k))'
  BY <1>1, DataRead
<1>4. UNCHANGED written /\ inPart
  BY <1>3 DEF writerState, Spoiled
<1>5. Offsets(Shift(off, k))'
  BY <1>4, ShiftedOffsets
<1>6. k < off[n]
  <2>1. /\ 1 <= off[n] /\ off[n] \in Int /\ off[d] \in Int
        /\ HeaderSize \in Nat /\ HeaderSize > 0
        /\ written[n].size \in Nat /\ n \in Nat /\ d \in Nat
    <3>1. 1 <= off[n]
      BY <1>2 DEF SpoiledAt
    <3>2. /\ off[n] \in Int /\ off[d] \in Int
          /\ HeaderSize \in Nat /\ HeaderSize > 0 /\ written[n].size \in Nat
      BY OffsetFacts
    <3> QED
      BY <3>1, <3>2, NetFacts
  <2>2. CASE n = d
    BY ONLY <1>3, <2>1, <2>2
  <2>3. CASE n < d
    <3>1. off[n] + HeaderSize + written[n].size <= off[d]
      BY <2>3, OffsetFacts
    <3> QED
      BY ONLY <1>3, <2>1, <3>1
  <2>4. CASE d < n
    <3>1. off[d] + HeaderSize + k <= off[n]
      BY <1>3, <2>4, OffsetFacts
    <3>2. \A h, a, o \in Int : a = 1 - h /\ a + h + k <= o => k < o
      OBVIOUS
    <3>3. HeaderSize \in Int
      BY <2>1
    <3> QED
      BY ONLY <1>3, <2>1, <3>1, <3>2, <3>3
  <2> QED
    BY ONLY <2>1, <2>2, <2>3, <2>4
<1>7. Spoiled(Shift(off, k))'
  BY <1>2, <1>3, <1>4, <1>6, TakenSpoiled
<1> QED
  BY <1>3, <1>5, <1>7

-----------------------------------------------------------------------------
(* A command is written *)

Writes(cmd) ==
    /\ Len(written) < MaxCommands
    /\ cmd \in Conn!Command /\ cmd.id = Len(written) + 1
    /\ written' = Append(written, cmd)
    /\ Posts("DoWriteCommand", Conn!HeaderOp(cmd, FALSE))
    /\ UNCHANGED <<writeQueue, ops, isConnected, broken, inPart, stream,
                   reading, delivered>>

LEMMA WriteIs ==
    ASSUME Conn!TypeOK, Conn!WriteCommand
    PROVE  \E cmd : Writes(cmd)
<1>1. PICK size \in DataSizes :
         /\ written' = Append(written, [id |-> Len(written) + 1, size |-> size])
         /\ service' = service \o Conn!Handlers("DoWriteCommand",
               <<Conn!HeaderOp([id |-> Len(written) + 1, size |-> size], FALSE)>>)
  BY DEF Conn!WriteCommand
<1>2. PICK cmd : cmd = [id |-> Len(written) + 1, size |-> size]
  OBVIOUS
<1>3. Len(written) < MaxCommands /\ Len(written) \in Nat
  BY NetFacts DEF Conn!WriteCommand
<1>4. cmd.id = Len(written) + 1 /\ cmd \in Conn!Command
  <2>1. Len(written) + 1 \in 1 .. MaxCommands
    BY <1>3, LoopAssumption
  <2> QED
    BY <1>2, <2>1 DEF Conn!Command
<1>5. UNCHANGED <<writeQueue, ops, isConnected, broken, inPart, stream,
                  reading, delivered>>
  BY DEF Conn!WriteCommand, Conn!readerVars
<1> QED
  BY <1>1, <1>2, <1>3, <1>4, <1>5 DEF Writes, Posts

(* Its offset is behind the last. *)
Extended(off, cmd) ==
    [off EXCEPT ![Len(written) + 2] = off[Len(written) + 1] + HeaderSize + cmd.size]

LEMMA ExtendedFacts ==
    ASSUME Conn!TypeOK, HistoryInv, NEW off, Offsets(off), NEW cmd, Writes(cmd),
           NEW off2, off2 = Extended(off, cmd)
    PROVE  /\ off2 \in [1 .. MaxCommands + 1 -> Int]
           /\ \A n \in 1 .. Len(written) + 1 : off2[n] = off[n] /\ off[n] \in Int
           /\ off2[Len(written) + 2] = off[Len(written) + 1] + HeaderSize + cmd.size
           /\ cmd.size \in Nat
           /\ written' \in Seq(Conn!Command) /\ Len(written') = Len(written) + 1
           /\ written'[Len(written) + 1] = cmd
           /\ \A n \in 1 .. Len(written) : written'[n] = written[n]
<1>1. /\ Len(written) \in Nat /\ Len(written) < MaxCommands
      /\ cmd \in Conn!Command /\ written \in Seq(Conn!Command)
      /\ written' = Append(written, cmd)
  BY NetFacts DEF Writes, Conn!TypeOK
<1>2. /\ written' \in Seq(Conn!Command) /\ Len(written') = Len(written) + 1
      /\ written'[Len(written) + 1] = cmd
      /\ \A n \in 1 .. Len(written) : written'[n] = written[n]
  BY <1>1, AppendProperties
<1>3. cmd.size \in Nat
  BY <1>1, PathAssumption DEF Conn!Command
<1>4. /\ \A n \in 1 .. Len(written) + 1 : off[n] \in Int
      /\ off \in [1 .. MaxCommands + 1 -> Int] /\ HeaderSize \in Nat
  BY OffsetFacts DEF Offsets
<1>5. /\ Len(written) + 2 \in 1 .. MaxCommands + 1
      /\ \A n \in 1 .. Len(written) + 1 :
            n \in 1 .. MaxCommands + 1 /\ n # Len(written) + 2
      /\ Len(written) + 1 \in 1 .. Len(written) + 1
  BY <1>1, LoopAssumption
<1>6. off[Len(written) + 1] + HeaderSize + cmd.size \in Int
  BY <1>3, <1>4, <1>5
<1>7. /\ off2 \in [1 .. MaxCommands + 1 -> Int]
      /\ \A n \in 1 .. Len(written) + 1 : off2[n] = off[n]
      /\ off2[Len(written) + 2] = off[Len(written) + 1] + HeaderSize + cmd.size
  BY <1>4, <1>5, <1>6 DEF Extended
<1> QED
  BY <1>2, <1>3, <1>4, <1>7

LEMMA ExtendedOffsets ==
    ASSUME Conn!TypeOK, HistoryInv, NEW off, Offsets(off), NEW cmd, Writes(cmd),
           NEW off2, off2 = Extended(off, cmd)
    PROVE  Offsets(off2)'
<1>1. PICK w \in Nat : w = Len(written)
  BY NetFacts
<1>2. /\ off2 \in [1 .. MaxCommands + 1 -> Int]
      /\ \A n \in 1 .. w + 1 : off2[n] = off[n] /\ off[n] \in Int
      /\ off2[w + 2] = off[w + 1] + HeaderSize + cmd.size
      /\ cmd.size \in Nat /\ Len(written') = w + 1
      /\ written'[w + 1] = cmd
      /\ \A n \in 1 .. w : written'[n] = written[n]
  BY <1>1, ExtendedFacts
<1>3. /\ \A n \in 1 .. w : /\ off[n + 1] = off[n] + HeaderSize + written[n].size
                           /\ written[n].size \in Nat
      /\ \A n \in 1 .. w, m \in 1 .. w + 1 :
            n < m => off[n] + HeaderSize + written[n].size <= off[m]
      /\ HeaderSize \in Nat
  BY <1>1, OffsetFacts
<1>4. ASSUME NEW n \in 1 .. w + 1
      PROVE  off2[n + 1] = off2[n] + HeaderSize + written'[n].size
  <2>1. CASE n = w + 1
    <3>1. n + 1 = w + 2 /\ n \in 1 .. w + 1
      BY ONLY <2>1, w \in Nat
    <3> QED
      BY ONLY <1>2, <2>1, <3>1
  <2>2. CASE n \in 1 .. w
    <3>1. n + 1 \in 1 .. w + 1 /\ n \in 1 .. w + 1
      BY ONLY <2>2, w \in Nat
    <3> QED
      BY ONLY <1>2, <1>3, <2>2, <3>1
  <2> QED
    BY ONLY <2>1, <2>2, n \in 1 .. w + 1, w \in Nat
<1>5. ASSUME NEW n \in 1 .. w + 1, NEW m \in 1 .. w + 2, n < m
      PROVE  off2[n] + HeaderSize + written'[n].size <= off2[m]
  <2>1. w + 1 \in 1 .. w + 1
    BY ONLY w \in Nat
  <2>2. CASE m \in 1 .. w + 1
    <3>1. n \in 1 .. w
      BY ONLY <1>5, <2>2, w \in Nat
    <3> QED
      BY ONLY <1>2, <1>3, <1>5, <2>2, <3>1
  <2>3. CASE m = w + 2 /\ n = w + 1
    <3>1. off2[w + 2] = off2[w + 1] + HeaderSize + cmd.size /\ off2[w + 2] \in Int
      BY ONLY <1>2, <1>3, <2>1
    <3> QED
      BY ONLY <1>2, <2>3, <3>1
  <2>4. CASE m = w + 2 /\ n \in 1 .. w
    <3>1. n < w + 1 /\ n \in 1 .. w + 1
      BY ONLY <2>4, w \in Nat
    <3>2. off[n] + HeaderSize + written[n].size <= off[w + 1]
      BY ONLY <1>3, <2>1, <2>4, <3>1
    <3>3. /\ off2[n] = off[n] /\ off[n] \in Int /\ off[w + 1] \in Int
          /\ written'[n] = written[n] /\ written[n].size \in Nat
          /\ off2[m] = off[w + 1] + HeaderSize + cmd.size
      BY ONLY <1>2, <1>3, <2>1, <2>4, <3>1
    <3>4. \A a, z, o, h, y \in Int :
             a + h + z <= o /\ 0 <= h /\ 0 <= y => a + h + z <= o + h + y
      OBVIOUS
    <3>5. /\ HeaderSize \in Int /\ cmd.size \in Int /\ written[n].size \in Int
          /\ 0 <= HeaderSize /\ 0 <= cmd.size
      BY ONLY <1>2, <1>3, <3>3
    <3> QED
      BY ONLY <3>2, <3>3, <3>4, <3>5
  <2>5. \/ m \in 1 .. w + 1
        \/ m = w + 2 /\ n = w + 1
        \/ m = w + 2 /\ n \in 1 .. w
    <3>1. m \in 1 .. w + 1 \/ m = w + 2
      BY ONLY w \in Nat, m \in 1 .. w + 2
    <3>2. n \in 1 .. w \/ n = w + 1
      BY ONLY w \in Nat, n \in 1 .. w + 1
    <3> QED
      BY <3>1, <3>2, Zenon
  <2> QED
    BY <2>2, <2>3, <2>4, <2>5
<1>6. (w + 1) + 1 = w + 2
  OBVIOUS
<1> QED
  BY <1>2, <1>4, <1>5, <1>6 DEF Offsets

(* What is on its way up to the p-th piece is not of the new command.       *)
LEMMA ExtendedExpected ==
    ASSUME Conn!TypeOK, HistoryInv, NEW off, Offsets(off), NEW cmd, Writes(cmd),
           NEW off2, off2 = Extended(off, cmd), NEW p \in Int,
           Expected(off, p), p < off[Len(written) + 1]
    PROVE  Expected(off2, p)'
<1>1. PICK w \in Nat : w = Len(written)
  BY NetFacts
<1>2. /\ \A n \in 1 .. w + 1 : off2[n] = off[n] /\ off[n] \in Int
      /\ Len(written') = w + 1
      /\ \A n \in 1 .. w : written'[n] = written[n]
      /\ \A n \in 1 .. w : n \in 1 .. w + 1
      /\ HeaderSize \in Nat /\ w + 1 \in 1 .. w + 1
      /\ cmd.size \in Nat /\ written'[w + 1] = cmd
  BY SMTT(40), <1>1, ExtendedFacts, PathAssumption
<1>3. stream' = stream
  BY DEF Writes
<1>4. ASSUME NEW n \in 1 .. w + 1
      PROVE  /\ off2[n] <= p /\ p < off2[n] + HeaderSize
                   => stream'[p] = HeaderPiece(n)'
             /\ /\ off2[n] + HeaderSize <= p
                /\ p < off2[n] + HeaderSize + written'[n].size
                => stream'[p] = DataPiece(n)'
  <2>1. CASE n = w + 1
    <3>1. ~ (off2[n] <= p) /\ ~ (off2[n] + HeaderSize <= p)
      <4>1. \A o, h \in Int : p < o /\ 0 <= h => ~ (o <= p) /\ ~ (o + h <= p)
        OBVIOUS
      <4>2. HeaderSize \in Int /\ 0 <= HeaderSize /\ p < off[w + 1]
        BY <1>1, <1>2
      <4> QED
        BY ONLY <1>2, <2>1, <4>1, <4>2
    <3> QED
      BY <3>1
  <2>2. CASE n \in 1 .. w
    <3>1. off2[n] = off[n] /\ written'[n] = written[n]
      BY <1>2, <2>2
    <3> QED
      BY <1>1, <1>3, <2>2, <3>1 DEF Expected, HeaderPiece, DataPiece
  <2> QED
    BY ONLY <2>1, <2>2, n \in 1 .. w + 1, w \in Nat
<1> QED
  BY <1>2, <1>4 DEF Expected

LEMMA WrittenReader ==
    ASSUME Conn!TypeOK, HistoryInv, NEW off, Offsets(off), NEW cmd, Writes(cmd),
           NEW off2, off2 = Extended(off, cmd), ReaderAt(off)
    PROVE  ReaderAt(off2)'
<1>1. /\ Len(delivered) + 1 \in 1 .. Len(written) + 1
      /\ Len(delivered) < Len(written) =>
            Len(delivered) + 1 \in 1 .. Len(written) /\ Len(delivered) < Len(written) + 1
  <2>1. \A i, j \in Nat : /\ i <= j => i + 1 \in 1 .. j + 1
                          /\ i < j => i + 1 \in 1 .. j /\ i < j + 1
    OBVIOUS
  <2> QED
    BY <2>1, NetFacts DEF HistoryInv
<1>2. /\ off2[Len(delivered) + 1] = off[Len(delivered) + 1]
      /\ Len(written') = Len(written) + 1
      /\ Len(delivered) < Len(written) =>
            written'[Len(delivered) + 1] = written[Len(delivered) + 1]
  BY <1>1, ExtendedFacts
<1>3. UNCHANGED <<delivered, reading>>
  BY DEF Writes
<1> QED
  BY <1>1, <1>2, <1>3 DEF ReaderAt

LEMMA WrittenWriter ==
    ASSUME Conn!TypeOK, HistoryInv, NEW off, Offsets(off), NEW cmd, Writes(cmd),
           NEW off2, off2 = Extended(off, cmd), WriterInv(off)
    PROVE  WriterInv(off2)'
<1>1. PICK f, m \in 1 .. Len(written) + 1 :
         QueueIs(f, m) /\ PostedFrom(m) /\ WriterAt(off[f], Head(writeQueue))
  BY DEF WriterInv
<1>2. PICK w \in Nat : w = Len(written)
  BY NetFacts
<1>3. /\ Len(written') = w + 1 /\ written'[w + 1] = cmd
      /\ \A n \in 1 .. w : written'[n] = written[n]
      /\ off2[f] = off[f]
  BY <1>1, <1>2, ExtendedFacts
<1>4. /\ cmd \in Conn!Command /\ cmd.id = w + 1
      /\ \A n \in 1 .. w : written[n].id = n
  BY <1>2 DEF Writes, HistoryInv
<1>5. UNCHANGED <<writeQueue, ops, inPart, stream>>
  BY DEF Writes
<1>6. PICK op \in Conn!Op : op.cmd = cmd /\ Posts("DoWriteCommand", op)
  <2>1. PICK op : op = Conn!HeaderOp(cmd, FALSE)
    OBVIOUS
  <2>2. op \in Conn!Op /\ op.cmd = cmd
    BY <1>4, <2>1, PathAssumption DEF Conn!HeaderOp, Conn!Op
  <2> QED
    BY <2>1, <2>2 DEF Writes
<1>7. /\ DOMAIN service' = 1 .. Len(service) + 1 /\ Len(service) \in Nat
      /\ service'[Len(service) + 1] = [what |-> "DoWriteCommand", op |-> op]
      /\ \A i \in DOMAIN service :
            service'[i] = service[i] /\ i < Len(service) + 1 /\ i \in DOMAIN service'
      /\ \A i \in DOMAIN service' : i \in DOMAIN service \/ i = Len(service) + 1
  <2>1. "DoWriteCommand" \in {"DoWriteCommand", "written", "failed"}
    OBVIOUS
  <2>2. /\ DOMAIN service' = 1 .. Len(service) + 1
        /\ service'[Len(service) + 1] = [what |-> "DoWriteCommand", op |-> op]
        /\ \A i \in DOMAIN service : service'[i] = service[i]
        /\ \A i \in DOMAIN service' : i \in DOMAIN service \/ i = Len(service) + 1
    BY <1>6, <2>1, PostFacts
  <2>3. \A n \in Nat : \A i \in 1 .. n : i < n + 1 /\ i \in 1 .. n + 1
    OBVIOUS
  <2> QED
    BY <2>2, <2>3, NetFacts
<1>8. PICK last : last = Len(service) + 1
  OBVIOUS
<1>9. /\ last \in DOMAIN service' /\ service'[last].what = "DoWriteCommand"
      /\ service'[last].op.cmd = cmd /\ last \in Nat
  BY <1>6, <1>7, <1>8
<1>10. QueueIs(f, m)'
  <2>1. /\ m \in Nat /\ m <= w + 1 /\ f \in Nat /\ f >= 1 /\ m = f + Len(writeQueue)
        /\ Len(writeQueue) \in Nat
        /\ \A i \in 1 .. Len(writeQueue) : writeQueue[i] = written[f + i - 1]
    BY <1>1, <1>2, NetFacts DEF QueueIs
  <2>2. ASSUME NEW i \in 1 .. Len(writeQueue)
        PROVE  writeQueue[i] = written'[f + i - 1]
    <3>1. f + i - 1 \in 1 .. w
      BY ONLY <2>1, w \in Nat, i \in 1 .. Len(writeQueue)
    <3> QED
      BY <1>3, <2>1, <3>1
  <2>3. f \in 1 .. (w + 1) + 1 /\ m <= (w + 1) + 1
    BY ONLY <2>1, w \in Nat, f \in 1 .. Len(written) + 1, <1>2
  <2> QED
    BY <1>3, <1>5, <2>1, <2>2, <2>3 DEF QueueIs
<1>11. PostedFrom(m)'
  <2>0. /\ m \in 1 .. w + 1
        /\ \A n \in m .. w : n \in 1 .. w /\ n \in m .. w + 1
        /\ \A n \in m .. w + 1 : n \in m .. w \/ n = w + 1
        /\ w + 1 \in m .. w + 1
    BY <1>2
  <2>1. \A i \in DOMAIN service' : service'[i].what # "failed"
    BY <1>1, <1>7, <1>8, <1>9 DEF PostedFrom
  <2>2. ASSUME NEW n \in m .. w + 1
        PROVE  \E i \in DOMAIN service' :
                  IsPosted(i)' /\ service'[i].op.cmd = written'[n]
    <3>1. CASE n = w + 1
      BY <1>3, <1>9, <3>1 DEF IsPosted
    <3>2. CASE n \in m .. w
      <4>1. PICK i \in DOMAIN service : IsPosted(i) /\ service[i].op.cmd = written[n]
        BY <1>1, <1>2, <3>2 DEF PostedFrom
      <4> QED
        BY <1>3, <1>7, <2>0, <3>2, <4>1 DEF IsPosted
    <3> QED
      BY <2>0, <3>1, <3>2
  <2>3. ASSUME NEW i \in DOMAIN service', IsPosted(i)'
        PROVE  \E n \in m .. w + 1 : service'[i].op.cmd = written'[n]
    <3>1. CASE i = last
      BY <1>3, <1>9, <2>0, <3>1
    <3>2. CASE i \in DOMAIN service
      <4>1. IsPosted(i)
        BY <1>7, <2>3, <3>2 DEF IsPosted
      <4>2. PICK n \in m .. w : service[i].op.cmd = written[n]
        BY <1>1, <1>2, <3>2, <4>1 DEF PostedFrom
      <4> QED
        BY <1>3, <1>7, <2>0, <3>2, <4>2
    <3> QED
      BY <1>7, <1>8, <3>1, <3>2
  <2>4. ASSUME NEW i \in DOMAIN service', NEW j \in DOMAIN service',
               i < j, IsPosted(i)', IsPosted(j)'
        PROVE  service'[i].op.cmd.id < service'[j].op.cmd.id
    <3>1. i \in Nat /\ j \in Nat /\ i \in DOMAIN service
      <4>1. \A n \in Nat : \A a, b \in 1 .. n + 1 :
               a < b => a \in 1 .. n /\ a \in Nat /\ b \in Nat
        OBVIOUS
      <4> QED
        BY <1>7, <2>4, <4>1, NetFacts
    <3>2. IsPosted(i) /\ service'[i] = service[i]
      BY <1>7, <2>4, <3>1 DEF IsPosted
    <3>3. CASE j \in DOMAIN service
      <4>1. IsPosted(j) /\ service'[j] = service[j]
        BY <1>7, <2>4, <3>3 DEF IsPosted
      <4> QED
        BY <1>1, <2>4, <3>1, <3>2, <3>3, <4>1 DEF PostedFrom
    <3>4. CASE j = last
      <4>1. PICK n \in m .. w : service[i].op.cmd = written[n]
        BY <1>1, <1>2, <3>1, <3>2 DEF PostedFrom
      <4>2. service[i].op.cmd.id = n /\ n < w + 1
        BY <1>4, <2>0, <4>1
      <4> QED
        BY <1>4, <1>9, <3>2, <3>4, <4>2
    <3> QED
      BY <1>7, <1>8, <3>3, <3>4
  <2> QED
    BY <1>3, <2>1, <2>2, <2>3, <2>4 DEF PostedFrom
<1>12. PICK c : c = Head(writeQueue)
  OBVIOUS
<1>13. /\ WrittenOnly(0, 0) => WrittenOnly(0, 0)'
       /\ \A k : /\ HeaderWaits(c, k) => HeaderWaits(c, k)'
                 /\ HeaderDone(c, k) => HeaderDone(c, k)'
                 /\ DataWaits(c, k) => DataWaits(c, k)'
                 /\ DataDone(c, k) => DataDone(c, k)'
  BY <1>5, <1>6, OtherPosted
<1>14. WriterAt(off[f], c)'
  BY <1>1, <1>5, <1>12, <1>13 DEF WriterAt, Idle, InHeader, InData
<1>15. f \in 1 .. Len(written') + 1 /\ m \in 1 .. Len(written') + 1
  BY <1>1, <1>2, <1>3
<1>16. c = Head(writeQueue')
  BY <1>5, <1>12
<1> QED
  BY <1>3, <1>10, <1>11, <1>14, <1>15, <1>16 DEF WriterInv

LEMMA WriteCommandStream ==
    ASSUME Conn!TypeOK, HistoryInv, NEW off, Offsets(off), NEW cmd, Writes(cmd),
           NEW off2, off2 = Extended(off, cmd)
    PROVE  /\ Sound(off) => Sound(off2)'
           /\ Spoiled(off) => Spoiled(off2)'
<1>1. UNCHANGED <<isConnected, broken, inPart, stream, reading>>
  BY DEF Writes
<1>2. /\ Len(written') = Len(written) + 1 /\ Len(written) \in Nat
      /\ Len(stream) \in Nat
      /\ \A n \in 1 .. Len(written) : n \in 1 .. Len(written) + 1
      /\ \A n \in 1 .. Len(written) : off2[n] = off[n]
  BY SMTT(40), ExtendedFacts, NetFacts
<1>3. ASSUME Sound(off) PROVE Sound(off2)'
  <2>1. /\ ReaderAt(off)
        /\ \A p \in 1 .. Len(stream) : Expected(off, p)
        /\ Len(stream) < off[Len(written) + 1]
        /\ Live => WriterInv(off)
    BY <1>3 DEF Sound
  <2>2. off[Len(written) + 1] \in Int
    BY <1>2, OffsetFacts
  <2>6. PICK l \in Nat, o \in Int : l = Len(stream) /\ o = off[Len(written) + 1]
    BY ONLY <1>2, <2>2
  <2>7. l < o
    <3>1. Len(stream) < off[Len(written) + 1]
      BY <2>1
    <3> QED
      BY <2>6, <3>1, Zenon
  <2>3. \A p \in 1 .. Len(stream) : Expected(off2, p)'
    <3> TAKE p \in 1 .. Len(stream)
    <3>0. \A q \in 1 .. l : q \in Int /\ q < o
      BY ONLY <2>7, l \in Nat, o \in Int
    <3>1. p \in Int /\ p < off[Len(written) + 1]
      BY ONLY <2>6, <3>0, p \in 1 .. Len(stream)
    <3> QED
      BY <2>1, <3>1, ExtendedExpected
  <2>4. Len(stream) < off2[Len(written') + 1]
    <3>1. /\ off2[Len(written) + 2] = off[Len(written) + 1] + HeaderSize + cmd.size
          /\ cmd.size \in Nat /\ HeaderSize \in Nat
      BY ExtendedFacts, PathAssumption
    <3>2. \A h, z \in Nat : l < o + h + z
      BY ONLY <2>7, l \in Nat, o \in Int
    <3>3. (Len(written) + 1) + 1 = Len(written) + 2
      BY <1>2
    <3>4. l < off2[Len(written) + 2]
      BY ONLY <2>6, <3>1, <3>2
    <3>5. Len(written') + 1 = Len(written) + 2
      BY ONLY <1>2, <3>3
    <3> QED
      BY ONLY <2>6, <3>4, <3>5
  <2>5. ReaderAt(off2)' /\ (Live' => WriterInv(off2)')
    <3>1. ReaderAt(off2)'
      BY <2>1, WrittenReader
    <3>2. Live' => Live
      BY <1>1 DEF Live
    <3>3. WriterInv(off) => WriterInv(off2)'
      BY WrittenWriter
    <3>4. Live => WriterInv(off)
      BY <2>1
    <3> QED
      BY <3>1, <3>2, <3>3, <3>4, Zenon
  <2> QED
    BY <1>1, <2>3, <2>4, <2>5 DEF Sound
<1>4. ASSUME Spoiled(off) PROVE Spoiled(off2)'
  <2>1. CASE reading = Conn!Garbage
    BY <1>1, <1>4, <2>1 DEF Spoiled
  <2>2. CASE ReaderAt(off) /\ \E n \in 1 .. Len(written), g \in Nat : SpoiledAt(off, n, g)
    <3>1. PICK n \in 1 .. Len(written), g \in Nat : SpoiledAt(off, n, g)
      BY <2>2
    <3>2. /\ 1 <= off[n] /\ off[n] <= g /\ g < off[n] + HeaderSize - 1
          /\ g < Len(stream) /\ \A p \in 1 .. g : Expected(off, p)
          /\ stream[g + 1].part = "data"
      BY <3>1 DEF SpoiledAt
    <3>3. g < off[Len(written) + 1]
      <4>1. /\ n < Len(written) + 1 /\ Len(written) + 1 \in 1 .. Len(written) + 1
            /\ n \in Nat
        BY ONLY <1>2, n \in 1 .. Len(written)
      <4>2. /\ off[n] + HeaderSize + written[n].size <= off[Len(written) + 1]
            /\ off[n] \in Int /\ off[Len(written) + 1] \in Int
            /\ written[n].size \in Nat /\ HeaderSize \in Nat
        BY <1>2, <4>1, OffsetFacts
      <4>3. \A a, h, z, o \in Int :
               g < a + h - 1 /\ 0 <= z /\ a + h + z <= o => g < o
        OBVIOUS
      <4>4. HeaderSize \in Int /\ written[n].size \in Int /\ 0 <= written[n].size
        BY ONLY <4>2
      <4> QED
        BY ONLY <3>2, <4>2, <4>3, <4>4
    <3>4. \A p \in 1 .. g : Expected(off2, p)'
      <4> TAKE p \in 1 .. g
      <4>1. p \in Int /\ p < off[Len(written) + 1]
        <5>1. off[Len(written) + 1] \in Int
          BY <1>2, OffsetFacts
        <5> QED
          BY ONLY <3>3, <5>1, p \in 1 .. g, g \in Nat
      <4> QED
        BY <3>2, <4>1, ExtendedExpected
    <3>5. SpoiledAt(off2, n, g)'
      BY <1>1, <1>2, <3>2, <3>4 DEF SpoiledAt
    <3>6. ReaderAt(off2)' /\ n \in 1 .. Len(written') /\ inPart'
      BY <1>1, <1>2, <1>4, <2>2, WrittenReader DEF Spoiled
    <3> QED
      BY <3>5, <3>6 DEF Spoiled
  <2> QED
    BY <1>4, <2>1, <2>2 DEF Spoiled
<1> QED
  BY <1>3, <1>4

-----------------------------------------------------------------------------
(* The other steps *)

(* They put nothing on its way, and what they do to the writer is right as  *)
(* long as the connection is whole.                                         *)
LEMMA QuietStream ==
    ASSUME NEW off, Offsets(off),
           UNCHANGED <<written, delivered, reading, stream, inPart>>,
           Sound(off) /\ Live' => Live /\ WriterInv(off)'
    PROVE  /\ Offsets(off)'
           /\ Sound(off) => Sound(off)'
           /\ Spoiled(off) => Spoiled(off)'
<1>1. Offsets(off)' /\ (ReaderAt(off) => ReaderAt(off)')
  BY DEF Offsets, ReaderAt
<1>2. \A p : Expected(off, p) => Expected(off, p)'
  BY DEF Expected, HeaderPiece, DataPiece
<1>3. Sound(off) => Sound(off)'
  BY <1>1, <1>2 DEF Sound
<1>4. \A n, g : SpoiledAt(off, n, g) => SpoiledAt(off, n, g)'
  BY <1>2 DEF SpoiledAt
<1>5. Spoiled(off) => Spoiled(off)'
  BY <1>1, <1>4 DEF Spoiled
<1> QED
  BY <1>1, <1>3, <1>5

LEMMA RunHandlerLive ==
    ASSUME Conn!TypeOK, HistoryInv, NEW off, Offsets(off), Conn!RunHandler,
           WriterInv(off), Live'
    PROVE  WriterInv(off)'
<1>1. /\ service # <<>> /\ UNCHANGED <<broken, inPart, stream, reading, delivered, written>>
  BY DEF Conn!RunHandler, Conn!readerVars
<1>2. PICK h : h = Head(service)
  OBVIOUS
<1>3. h = service[1] /\ h.what \in {"DoWriteCommand", "written", "failed"}
  BY <1>1, <1>2, TakeFacts DEF Conn!Handler
<1>4. CASE h.what = "DoWriteCommand"
  <2>1. Conn!DoWriteCommand(service[1].op) /\ IsPosted(1)
    BY <1>2, <1>3, <1>4 DEF Conn!RunHandler, IsPosted
  <2> QED
    BY <1>1, <2>1, QueuedLive
<1>5. CASE h.what = "written"
  <2>1. Conn!HandleWriteCommand(service[1].op) /\ service[1].what = "written"
    BY <1>2, <1>3, <1>5 DEF Conn!RunHandler
  <2> QED
    BY <1>1, <2>1, WrittenLive
<1>6. CASE h.what = "failed"
  <2>1. isConnected' = [isConnected EXCEPT !["writer"] = FALSE]
    BY <1>2, <1>6 DEF Conn!RunHandler, Conn!DoClose
  <2>2. ~isConnected'["writer"]
    BY <2>1 DEF Conn!TypeOK
  <2> QED
    BY <2>2 DEF Live
<1> QED
  BY <1>3, <1>4, <1>5, <1>6

LEMMA QuietStep ==
    ASSUME Conn!TypeOK, HistoryInv, NEW off, Offsets(off),
           \/ Conn!RunHandler \/ Conn!WriteFails
           \/ Conn!CloseWriter \/ Conn!CloseReader \/ UNCHANGED netState
    PROVE  /\ Offsets(off)'
           /\ Sound(off) => Sound(off)'
           /\ Spoiled(off) => Spoiled(off)'
           /\ UNCHANGED <<written, delivered, reading>>
<1>1. UNCHANGED <<written, delivered, reading, stream, inPart>>
  BY DEF Conn!RunHandler, Conn!WriteFails, Conn!CloseWriter, Conn!CloseReader,
     Conn!readerVars, Conn!writerVars, netState
<1>2. isConnected["writer"] /\ isConnected'["writer"] => UNCHANGED broken
  BY DEF Conn!RunHandler, Conn!WriteFails, Conn!CloseWriter, Conn!CloseReader,
     Conn!writerVars, netState
<1>3. ASSUME Sound(off), Live'
      PROVE  Live /\ WriterInv(off)'
  <2>1. isConnected \in [{"writer", "reader"} -> BOOLEAN]
    BY DEF Conn!TypeOK
  <2>2. CASE Conn!RunHandler
    <3>1. Live
      <4>1. isConnected["writer"]
        <5>1. \/ UNCHANGED isConnected
              \/ isConnected' = [isConnected EXCEPT !["writer"] = FALSE]
          <6>1. PICK h : h = Head(service)
            OBVIOUS
          <6>2. service # <<>>
            BY <2>2 DEF Conn!RunHandler
          <6>3. h.what \in {"DoWriteCommand", "written", "failed"}
            BY <6>1, <6>2, TakeFacts DEF Conn!Handler
          <6>4. CASE h.what = "DoWriteCommand"
            BY <2>2, <6>1, <6>4 DEF Conn!RunHandler, Conn!DoWriteCommand
          <6>5. CASE h.what = "written"
            BY <2>2, <6>1, <6>5 DEF Conn!RunHandler, Conn!HandleWriteCommand
          <6>6. CASE h.what = "failed"
            BY <2>2, <6>1, <6>6 DEF Conn!RunHandler, Conn!DoClose
          <6> QED
            BY <6>3, <6>4, <6>5, <6>6
        <5> QED
          BY <1>3, <2>1, <5>1 DEF Live
      <4>2. UNCHANGED broken
        BY <2>2 DEF Conn!RunHandler
      <4> QED
        BY <1>3, <4>1, <4>2 DEF Live
    <3>2. WriterInv(off)
      BY <1>3, <3>1 DEF Sound
    <3> QED
      BY <1>3, <2>2, <3>1, <3>2, RunHandlerLive
  <2>3. CASE Conn!WriteFails
    BY <1>3, <2>3 DEF Conn!WriteFails, Live
  <2>4. CASE Conn!CloseWriter
    BY <1>3, <2>1, <2>4 DEF Conn!CloseWriter, Conn!DoClose, Live
  <2>5. CASE Conn!CloseReader \/ UNCHANGED netState
    <3>1. /\ UNCHANGED <<service, writeQueue, ops, broken, inPart, written, stream>>
          /\ isConnected'["writer"] = isConnected["writer"]
      BY <2>1, <2>5 DEF Conn!CloseReader, Conn!writerVars, Conn!readerVars, netState
    <3>2. Live
      BY <1>3, <3>1 DEF Live
    <3>3. WriterInv(off)
      BY <1>3, <3>2 DEF Sound
    <3>4. WriterInv(off)'
      <4>1. PICK f, m \in 1 .. Len(written) + 1 :
               QueueIs(f, m) /\ PostedFrom(m) /\ WriterAt(off[f], Head(writeQueue))
        BY <3>3 DEF WriterInv
      <4>2. QueueIs(f, m)' /\ PostedFrom(m)'
        BY <3>1, <4>1 DEF QueueIs, PostedFrom, IsPosted
      <4>3. PICK c : c = Head(writeQueue)
        OBVIOUS
      <4>4. /\ WrittenOnly(0, 0) => WrittenOnly(0, 0)'
            /\ \A j : /\ HeaderWaits(c, j) => HeaderWaits(c, j)'
                      /\ HeaderDone(c, j) => HeaderDone(c, j)'
                      /\ DataWaits(c, j) => DataWaits(c, j)'
                      /\ DataDone(c, j) => DataDone(c, j)'
        BY <3>1 DEF HeaderWaits, HeaderDone, DataWaits, DataDone, WrittenOnly,
           WrittenIs, HeaderOps, DataOps, Header, Data
      <4>5. WriterAt(off[f], c)'
        BY <3>1, <4>1, <4>3, <4>4 DEF WriterAt, Idle, InHeader, InData
      <4>6. /\ f \in 1 .. Len(written') + 1 /\ m \in 1 .. Len(written') + 1
            /\ c = Head(writeQueue')
        BY <3>1, <4>3
      <4> QED
        BY <4>2, <4>5, <4>6 DEF WriterInv
    <3> QED
      BY <3>2, <3>4
  <2> QED
    BY <2>2, <2>3, <2>4, <2>5
<1> QED
  BY <1>1, <1>3, QuietStream

(* Of what was on its way a suffix is lost. *)
LEMMA BreakStep ==
    ASSUME Conn!TypeOK, HistoryInv, NEW off, Offsets(off), Conn!Break
    PROVE  /\ Offsets(off)'
           /\ Sound(off) => Sound(off)'
           /\ Spoiled(off) => Sound(off)' \/ Spoiled(off)'
           /\ UNCHANGED <<written, delivered, reading>>
<1>1. /\ UNCHANGED <<written, delivered, reading, inPart>> /\ broken' = TRUE
      /\ ~Live'
  BY DEF Conn!Break, Live
<1>2. PICK k \in 0 .. Len(stream) : stream' = SubSeq(stream, 1, k)
  BY DEF Conn!Break
<1>3. Len(stream) \in Nat /\ k \in Nat /\ k <= Len(stream)
  BY <1>2, NetFacts
<1>4. Len(stream') = k /\ \A p \in 1 .. k : stream'[p] = stream[p]
  <2>1. \A p \in 1 .. k : stream[p] \in Conn!Piece
    BY <1>3, NetFacts
  <2>2. /\ Len(SubSeq(stream, 1, k)) = IF 1 <= k THEN k - 1 + 1 ELSE 0
        /\ \A p \in 1 .. k - 1 + 1 : SubSeq(stream, 1, k)[p] = stream[1 + p - 1]
    BY <1>3, <2>1, SubSeqProperties
  <2>3. /\ (IF 1 <= k THEN k - 1 + 1 ELSE 0) = k
        /\ \A p \in 1 .. k : p \in 1 .. k - 1 + 1 /\ 1 + p - 1 = p
    BY <1>3
  <2> QED
    BY <1>2, <2>2, <2>3
<1>5. Offsets(off)' /\ (ReaderAt(off) => ReaderAt(off)')
  BY <1>1 DEF Offsets, ReaderAt
<1>6. ASSUME NEW p \in 1 .. k, Expected(off, p)
      PROVE  Expected(off, p)'
  BY <1>1, <1>4, <1>6 DEF Expected, HeaderPiece, DataPiece
<1>7. /\ Len(written) \in Nat /\ Len(written) + 1 \in 1 .. Len(written) + 1
      /\ off[Len(written) + 1] \in Int
  BY NetFacts, OffsetFacts
<1>8. ASSUME Sound(off) PROVE Sound(off)'
  <2>1. Len(stream) < off[Len(written) + 1]
    BY <1>8 DEF Sound
  <2>2. k < off[Len(written) + 1]
    BY ONLY <1>3, <1>7, <2>1
  <2>3. \A p \in 1 .. k : p \in 1 .. Len(stream)
    BY <1>3
  <2> QED
    BY <1>1, <1>4, <1>5, <1>6, <1>8, <2>2, <2>3 DEF Sound
<1>9. ASSUME Spoiled(off) PROVE Sound(off)' \/ Spoiled(off)'
  <2>1. CASE reading = Conn!Garbage
    BY <1>1, <1>9, <2>1 DEF Spoiled
  <2>2. CASE ReaderAt(off) /\ \E n \in 1 .. Len(written), g \in Nat : SpoiledAt(off, n, g)
    <3>1. PICK n \in 1 .. Len(written), g \in Nat : SpoiledAt(off, n, g)
      BY <2>2
    <3>2. /\ 1 <= off[n] /\ off[n] <= g /\ g < off[n] + HeaderSize - 1
          /\ \A p \in 1 .. g : Expected(off, p)
          /\ stream[g + 1].part = "data"
      BY <3>1 DEF SpoiledAt
    <3>3. CASE g < k
      <4>1. g + 1 \in 1 .. k /\ \A p \in 1 .. g : p \in 1 .. k
        BY ONLY <1>3, <3>3, g \in Nat
      <4>2. SpoiledAt(off, n, g)'
        BY <1>4, <1>6, <3>2, <3>3, <4>1 DEF SpoiledAt
      <4>3. ReaderAt(off)' /\ n \in 1 .. Len(written') /\ inPart'
        BY <1>1, <1>5, <1>9, <2>2 DEF Spoiled
      <4> QED
        BY <4>2, <4>3 DEF Spoiled
    <3>4. CASE ~(g < k)
      <4>1. \A p \in 1 .. k : p \in 1 .. g
        BY ONLY <1>3, <3>4, g \in Nat
      <4>2. /\ off[n] + HeaderSize + written[n].size <= off[Len(written) + 1]
            /\ off[n] \in Int /\ written[n].size \in Nat /\ HeaderSize \in Nat
        <5>1. n < Len(written) + 1
          BY <1>7
        <5> QED
          BY <1>7, <5>1, OffsetFacts
      <4>3. \A a, h, z, o \in Int :
               g < a + h - 1 /\ 0 <= z /\ a + h + z <= o => g < o
        OBVIOUS
      <4>4. HeaderSize \in Int /\ written[n].size \in Int /\ 0 <= written[n].size
        BY ONLY <4>2
      <4>5. g < off[Len(written) + 1]
        BY ONLY <1>7, <3>2, <4>2, <4>3, <4>4
      <4>6. k < off[Len(written) + 1]
        BY ONLY <1>3, <1>7, <3>4, <4>5, g \in Nat
      <4> QED
        BY <1>1, <1>4, <1>5, <1>6, <2>2, <3>2, <4>1, <4>6 DEF Sound
    <3> QED
      BY <3>3, <3>4
  <2> QED
    BY <1>9, <2>1, <2>2 DEF Spoiled
<1> QED
  BY <1>1, <1>5, <1>8, <1>9

(* What was spoiled stays so. *)
LEMMA SpoiledGrows ==
    ASSUME Conn!TypeOK, HistoryInv, NEW off, Offsets(off), Spoiled(off),
           Conn!WriteSome
    PROVE  Spoiled(off)'
<1>1. /\ inPart' /\ UNCHANGED <<written, delivered, reading>>
      /\ ops # <<>>
  BY DEF Conn!WriteSome, Spoiled
<1>2. PICK op : op = Head(ops)
  OBVIOUS
<1>3. op \in Conn!Op
  BY <1>1, <1>2, TailFacts DEF Conn!TypeOK
<1>4. PICK n \in 1 .. op.left :
         stream' = stream \o [i \in 1 .. n |-> [cmd |-> op.cmd, part |-> op.part]]
  BY <1>2 DEF Conn!WriteSome
<1>5. PICK pc \in Conn!Piece : pc = [cmd |-> op.cmd, part |-> op.part]
  BY <1>3 DEF Conn!Op, Conn!Piece
<1>6. n \in Nat
  <2>1. op.left \in Nat
    BY <1>3 DEF Conn!Op
  <2> QED
    BY ONLY <2>1, n \in 1 .. op.left
<1>7. /\ Len(stream') = Len(stream) + n /\ Len(stream) \in Nat
      /\ \A p \in 1 .. Len(stream) : stream'[p] = stream[p]
  BY <1>4, <1>5, <1>6, GrownFacts, NetFacts
<1>8. ReaderAt(off) => ReaderAt(off)'
  BY <1>1 DEF ReaderAt
<1>9. ASSUME NEW p \in 1 .. Len(stream), Expected(off, p)
      PROVE  Expected(off, p)'
  BY <1>1, <1>7, <1>9 DEF Expected, HeaderPiece, DataPiece
<1>10. ASSUME NEW d \in 1 .. Len(written), NEW g \in Nat, SpoiledAt(off, d, g)
       PROVE  SpoiledAt(off, d, g)'
  <2>1. g < Len(stream)
    BY <1>10 DEF SpoiledAt
  <2>2. /\ g < Len(stream') /\ g + 1 \in 1 .. Len(stream)
        /\ \A p \in 1 .. g : p \in 1 .. Len(stream)
    BY ONLY <1>6, <1>7, <2>1, g \in Nat
  <2> QED
    BY <1>1, <1>7, <1>9, <1>10, <2>2 DEF SpoiledAt
<1> QED
  BY <1>1, <1>8, <1>10 DEF Spoiled

(* What each step does to the histories, and that the stream stays as it    *)
(* is supposed to be.                                                       *)
HistoryStep ==
    \/ UNCHANGED written /\ Takes(Len(delivered) + 1)
    \/ UNCHANGED delivered /\ \E cmd : Writes(cmd)

LEMMA StreamStep ==
    ASSUME Conn!TypeOK, HistoryInv, StreamInv, Conn!Next \/ UNCHANGED netState
    PROVE  StreamInv' /\ HistoryStep
<1>1. PICK off : Offsets(off) /\ (Sound(off) \/ Spoiled(off))
  BY DEF StreamInv
<1>2. ASSUME NEW off2, Offsets(off2)', Sound(off2)' \/ Spoiled(off2)'
      PROVE  StreamInv'
  BY <1>2 DEF StreamInv, Offsets
<1>3. CASE Conn!WriteCommand
  <2>1. PICK cmd : Writes(cmd)
    BY <1>3, WriteIs
  <2>2. PICK off2 : off2 = Extended(off, cmd)
    OBVIOUS
  <2>3. Offsets(off2)' /\ (Sound(off2)' \/ Spoiled(off2)')
    BY <1>1, <2>1, <2>2, ExtendedOffsets, WriteCommandStream
  <2>4. UNCHANGED delivered
    BY <2>1 DEF Writes
  <2> QED
    BY <1>2, <2>1, <2>3, <2>4 DEF HistoryStep
<1>4. CASE Conn!ReadHeader
  <2>1. UNCHANGED written
    BY <1>4 DEF Conn!ReadHeader, Conn!writerVars
  <2>2. CASE Sound(off)
    BY <1>1, <1>2, <1>4, <2>1, <2>2, ReadHeaderSound DEF HistoryStep
  <2>3. CASE Spoiled(off)
    BY <1>1, <1>2, <1>4, <2>1, <2>3, ReadHeaderSpoiled DEF HistoryStep
  <2> QED
    BY <1>1, <2>2, <2>3
<1>5. CASE Conn!ReadData
  <2>1. UNCHANGED written
    BY <1>5 DEF Conn!ReadData, Conn!writerVars
  <2>2. CASE Sound(off)
    BY <1>1, <1>2, <1>5, <2>1, <2>2, ReadDataSound DEF HistoryStep
  <2>3. CASE Spoiled(off)
    BY <1>1, <1>2, <1>5, <2>1, <2>3, ReadDataSpoiled DEF HistoryStep
  <2> QED
    BY <1>1, <2>2, <2>3
<1>6. CASE Conn!Break
  BY <1>1, <1>2, <1>6, BreakStep DEF HistoryStep, Takes
<1>7. CASE Conn!WriteSome
  <2>1. UNCHANGED <<written, delivered, reading>>
    BY <1>7 DEF Conn!WriteSome
  <2>2. HistoryStep /\ Offsets(off)'
    BY <1>1, <2>1 DEF HistoryStep, Takes, Offsets
  <2>3. CASE Sound(off)
    BY <1>1, <1>2, <1>7, <2>2, <2>3, WriteSomeStream
  <2>4. CASE Spoiled(off)
    BY <1>1, <1>2, <1>7, <2>2, <2>4, SpoiledGrows
  <2> QED
    BY <1>1, <2>3, <2>4
<1>8. CASE \/ Conn!RunHandler \/ Conn!WriteFails
           \/ Conn!CloseWriter \/ Conn!CloseReader \/ UNCHANGED netState
  BY <1>1, <1>2, <1>8, QuietStep DEF HistoryStep, Takes
<1> QED
  BY <1>3, <1>4, <1>5, <1>6, <1>7, <1>8 DEF Conn!Next

LEMMA HistoryKept ==
    ASSUME Conn!TypeOK, HistoryInv, HistoryStep
    PROVE  /\ HistoryInv'
           /\ written' \in Seq(Conn!Command) /\ delivered' \in Seq(Conn!Command)
           /\ [Conn!Fifo!Next]_(Conn!Fifo!vars)
<1>1. /\ written \in Seq(Conn!Command) /\ delivered \in Seq(Conn!Command)
      /\ Len(written) \in Nat /\ Len(delivered) \in Nat
      /\ \A n \in 1 .. Len(written) : written[n].id = n
      /\ Len(delivered) <= Len(written) /\ Len(written) <= MaxCommands
  BY NetFacts DEF Conn!TypeOK, HistoryInv
<1>2. CASE UNCHANGED written /\ UNCHANGED delivered
  BY <1>1, <1>2 DEF HistoryInv, Conn!Fifo!vars
<1>3. ASSUME UNCHANGED written, NEW d \in 1 .. Len(written),
             d = Len(delivered) + 1,
             delivered' = Append(delivered, written[d])
      PROVE  /\ HistoryInv'
             /\ written' \in Seq(Conn!Command) /\ delivered' \in Seq(Conn!Command)
             /\ Conn!Fifo!Next
  <2>1. written[d] \in Conn!Command
    BY NetFacts
  <2>2. delivered' \in Seq(Conn!Command) /\ Len(delivered') = Len(delivered) + 1
    BY <1>1, <1>3, <2>1, AppendProperties
  <2>3. Len(delivered) < Len(written) /\ Len(delivered') <= Len(written)
    BY <1>1, <1>3, <2>2
  <2> QED
    BY <1>1, <1>3, <2>2, <2>3 DEF HistoryInv, Conn!Fifo!Next, Conn!Fifo!Deliver
<1>4. ASSUME UNCHANGED delivered, NEW cmd, Writes(cmd)
      PROVE  /\ HistoryInv'
             /\ written' \in Seq(Conn!Command) /\ delivered' \in Seq(Conn!Command)
             /\ Conn!Fifo!Next
  <2>1. /\ cmd \in Conn!Command /\ cmd.id = Len(written) + 1
        /\ written' = Append(written, cmd) /\ Len(written) < MaxCommands
    BY <1>4 DEF Writes
  <2>2. /\ written' \in Seq(Conn!Command) /\ Len(written') = Len(written) + 1
        /\ written'[Len(written) + 1] = cmd
        /\ \A n \in 1 .. Len(written) : written'[n] = written[n]
    BY <1>1, <2>1, AppendProperties
  <2>3. /\ Len(written') <= MaxCommands /\ Len(delivered) <= Len(written')
        /\ \A n \in 1 .. Len(written') : n \in 1 .. Len(written) \/ n = Len(written) + 1
    BY <1>1, <2>1, <2>2, LoopAssumption
  <2>4. \A n \in 1 .. Len(written') : written'[n].id = n
    BY <1>1, <2>1, <2>2, <2>3
  <2> QED
    BY <1>1, <1>4, <2>1, <2>2, <2>3, <2>4 DEF HistoryInv, Conn!Fifo!Next, Conn!Fifo!Write
<1> QED
  BY <1>2, <1>3, <1>4 DEF HistoryStep, Takes

-----------------------------------------------------------------------------
(* The types *)

(* DoClose: what waits for the socket fails, behind the handlers there are. *)
LEMMA FailedFacts ==
    ASSUME NEW hs \in Seq(Conn!Handler), NEW os \in Seq(Conn!Op), NEW both,
           both = hs \o Conn!Handlers("failed", os)
    PROVE  /\ both \in Seq(Conn!Handler)
           /\ \A i \in DOMAIN both : both[i].what = "written" =>
                 i \in DOMAIN hs /\ both[i] = hs[i]
<1> DEFINE fs == Conn!Handlers("failed", os)
<1>1. Len(os) \in Nat /\ DOMAIN os = 1 .. Len(os) /\ Len(hs) \in Nat
      /\ DOMAIN hs = 1 .. Len(hs)
  BY LenProperties
<1>2. /\ fs \in Seq(Conn!Handler) /\ Len(fs) = Len(os)
      /\ \A i \in 1 .. Len(os) : fs[i].what = "failed"
  <2>1. fs = [i \in 1 .. Len(os) |-> [what |-> "failed", op |-> os[i]]]
    BY <1>1 DEF Conn!Handlers
  <2>2. \A i \in 1 .. Len(os) : os[i] \in Conn!Op
    BY ElementOfSeq
  <2>3. \A i \in 1 .. Len(os) : [what |-> "failed", op |-> os[i]] \in Conn!Handler
    BY <2>2 DEF Conn!Handler
  <2> HIDE DEF fs
  <2>4. DOMAIN fs = 1 .. Len(os) /\ fs \in [1 .. Len(os) -> Conn!Handler]
    BY <2>1, <2>3
  <2>5. fs \in Seq(Conn!Handler) /\ Len(fs) = Len(os)
    BY <1>1, <2>4
  <2> QED
    BY <2>1, <2>5
<1> HIDE DEF fs
<1>3. /\ both \in Seq(Conn!Handler) /\ Len(both) = Len(hs) + Len(os)
      /\ \A i \in 1 .. Len(hs) + Len(os) : both[i] =
            IF i <= Len(hs) THEN hs[i] ELSE fs[i - Len(hs)]
  <2>1. both = hs \o fs
    BY DEF fs
  <2>2. hs \o fs \in Seq(Conn!Handler) /\ Len(hs \o fs) = Len(hs) + Len(fs)
        /\ \A i \in 1 .. Len(hs) + Len(fs) : (hs \o fs)[i] =
              IF i <= Len(hs) THEN hs[i] ELSE fs[i - Len(hs)]
    <3>1. PICK H : H = Conn!Handler
      OBVIOUS
    <3>2. hs \in Seq(H) /\ fs \in Seq(H)
      BY <1>2, <3>1
    <3>3. /\ hs \o fs \in Seq(H) /\ Len(hs \o fs) = Len(hs) + Len(fs)
          /\ \A i \in 1 .. Len(hs) + Len(fs) : (hs \o fs)[i] =
                IF i <= Len(hs) THEN hs[i] ELSE fs[i - Len(hs)]
      BY ONLY <3>2, ConcatProperties
    <3> QED
      BY ONLY <3>1, <3>3
  <2> QED
    BY ONLY <1>2, <2>1, <2>2
<1>4. ASSUME NEW i \in DOMAIN both, both[i].what = "written"
      PROVE  i \in DOMAIN hs /\ both[i] = hs[i]
  <2>1. i \in 1 .. Len(hs) + Len(os)
    BY <1>3, LenProperties
  <2>2. CASE i <= Len(hs)
    BY <1>1, <1>3, <2>1, <2>2
  <2>3. CASE ~(i <= Len(hs))
    <3>1. i - Len(hs) \in 1 .. Len(os)
      BY ONLY <1>1, <2>1, <2>3
    <3>2. both[i] = fs[i - Len(hs)]
      BY <1>3, <2>1, <2>3
    <3> QED
      BY <1>2, <1>4, <3>1, <3>2
  <2> QED
    BY <2>2, <2>3
<1> QED
  BY <1>3, <1>4

(* ... but for the reader's, which depend on what is on its way.            *)
WriterTypes ==
    /\ service \in Seq(Conn!Handler)
    /\ writeQueue \in Seq(Conn!Command)
    /\ ops \in Seq(Conn!Op)
    /\ isConnected \in [{"writer", "reader"} -> BOOLEAN]
    /\ broken \in BOOLEAN /\ inPart \in BOOLEAN
    /\ stream \in Seq(Conn!Piece)

LEMMA CloseTypes ==
    ASSUME Conn!TypeOK, NEW hs \in Seq(Conn!Handler), Conn!DoClose(hs)
    PROVE  /\ service' \in Seq(Conn!Handler) /\ ops' \in Seq(Conn!Op)
           /\ isConnected' \in [{"writer", "reader"} -> BOOLEAN]
           /\ writeQueue' = writeQueue
           /\ ops' = <<>> \/ ops' = ops
           /\ \A i \in DOMAIN service' : service'[i].what = "written" =>
                 i \in DOMAIN hs /\ service'[i] = hs[i]
<1>1. /\ isConnected' = [isConnected EXCEPT !["writer"] = FALSE]
      /\ writeQueue' = writeQueue
  BY DEF Conn!DoClose
<1>2. isConnected' \in [{"writer", "reader"} -> BOOLEAN]
  BY <1>1 DEF Conn!TypeOK
<1>3. ops \in Seq(Conn!Op)
  BY DEF Conn!TypeOK
<1>4. CASE isConnected["writer"]
  <2>1. ops' = <<>> /\ service' = hs \o Conn!Handlers("failed", ops)
    BY <1>4 DEF Conn!DoClose
  <2>2. <<>> \in Seq(Conn!Op)
    OBVIOUS
  <2>3. PICK both : both = hs \o Conn!Handlers("failed", ops)
    OBVIOUS
  <2>4. /\ both \in Seq(Conn!Handler)
        /\ \A i \in DOMAIN both : both[i].what = "written" =>
              i \in DOMAIN hs /\ both[i] = hs[i]
    BY <1>3, <2>3, FailedFacts
  <2>5. service' = both
    BY <2>1, <2>3
  <2> QED
    BY <1>1, <1>2, <2>1, <2>2, <2>4, <2>5
<1>5. CASE ~isConnected["writer"]
  <2>1. ops' = ops /\ service' = hs
    BY <1>5 DEF Conn!DoClose
  <2> QED
    BY <1>1, <1>2, <1>3, <2>1
<1> QED
  BY <1>4, <1>5

LEMMA RunHandlerTypes ==
    ASSUME Conn!TypeOK, Conn!RunHandler
    PROVE  WriterTypes'
<1>1. PICK h : h = Head(service)
  OBVIOUS
<1>2. /\ service # <<>> /\ UNCHANGED <<broken, inPart, stream>>
  BY DEF Conn!RunHandler, Conn!readerVars
<1>3. /\ h \in Conn!Handler /\ Tail(service) \in Seq(Conn!Handler)
      /\ h.what \in {"DoWriteCommand", "written", "failed"}
      /\ h.op \in Conn!Op /\ h.op.cmd \in Conn!Command
  BY <1>1, <1>2, TakeFacts DEF Conn!Handler, Conn!Op
<1>4. /\ broken' \in BOOLEAN /\ inPart' \in BOOLEAN /\ stream' \in Seq(Conn!Piece)
      /\ writeQueue \in Seq(Conn!Command) /\ ops \in Seq(Conn!Op)
      /\ isConnected \in [{"writer", "reader"} -> BOOLEAN]
  BY <1>2 DEF Conn!TypeOK
<1>5. CASE h.what = "DoWriteCommand"
  <2>1. /\ writeQueue' = Append(writeQueue, h.op.cmd)
        /\ \/ ops' = ops
           \/ ops' = ops \o Conn!BeginWriteCommand(h.op.cmd)
        /\ service' = Tail(service) /\ UNCHANGED isConnected
    BY <1>1, <1>5 DEF Conn!RunHandler, Conn!DoWriteCommand
  <2>2. writeQueue' \in Seq(Conn!Command)
    BY <1>3, <1>4, <2>1, AppendProperties
  <2>3. ops' \in Seq(Conn!Op)
    <3>1. Conn!BeginWriteCommand(h.op.cmd) \in Seq(Conn!Op)
      BY <1>3, BeginIsHeaderOps
    <3>2. ops \o Conn!BeginWriteCommand(h.op.cmd) \in Seq(Conn!Op)
      BY <1>4, <3>1, ConcatProperties
    <3> QED
      BY ONLY <1>4, <2>1, <3>2
  <2> QED
    BY <1>3, <1>4, <2>1, <2>2, <2>3 DEF WriterTypes
<1>6. CASE h.what = "written"
  <2>1. /\ writeQueue' = Conn!Popped \/ writeQueue' = writeQueue
        /\ \/ ops' = Append(ops, h.op)
           \/ /\ writeQueue' # <<>>
              /\ ops' = ops \o Conn!BeginWriteCommand(Head(writeQueue'))
           \/ ops' = ops
        /\ service' = Tail(service) /\ UNCHANGED isConnected
    BY <1>1, <1>6 DEF Conn!RunHandler, Conn!HandleWriteCommand
  <2>2. writeQueue' \in Seq(Conn!Command)
    <3>1. \A i \in 2 .. Len(writeQueue) : writeQueue[i] \in Conn!Command
      BY NetFacts
    <3>2. Conn!Popped \in Seq(Conn!Command)
      BY <3>1, NetFacts, SubSeqProperties DEF Conn!Popped
    <3> QED
      BY <1>4, <2>1, <3>2
  <2>3. ops' \in Seq(Conn!Op)
    <3>1. CASE ops' = Append(ops, h.op)
      BY <1>3, <1>4, <3>1, AppendProperties
    <3>2. CASE /\ writeQueue' # <<>>
               /\ ops' = ops \o Conn!BeginWriteCommand(Head(writeQueue'))
      <4>1. PICK c : c = Head(writeQueue')
        OBVIOUS
      <4>2. c \in Conn!Command
        BY <2>2, <3>2, <4>1, HeadTailProperties
      <4>3. Conn!BeginWriteCommand(c) \in Seq(Conn!Op)
        BY <4>2, BeginIsHeaderOps
      <4> QED
        BY <1>4, <3>2, <4>1, <4>3, ConcatProperties
    <3> QED
      BY <1>4, <2>1, <3>1, <3>2
  <2> QED
    BY <1>3, <1>4, <2>1, <2>2, <2>3 DEF WriterTypes
<1>7. CASE h.what = "failed"
  <2>1. Conn!DoClose(Tail(service))
    BY <1>1, <1>7 DEF Conn!RunHandler
  <2> QED
    BY <1>3, <1>4, <2>1, CloseTypes DEF WriterTypes
<1> QED
  BY <1>3, <1>5, <1>6, <1>7

LEMMA TypesStep ==
    ASSUME Conn!TypeOK, HistoryInv, Conn!Next \/ UNCHANGED netState
    PROVE  WriterTypes'
<1>1. WriterTypes
  BY DEF WriterTypes, Conn!TypeOK
<1>2. CASE Conn!WriteCommand
  <2>1. PICK cmd : Writes(cmd)
    BY <1>2, WriteIs
  <2>2. PICK op : op = Conn!HeaderOp(cmd, FALSE)
    OBVIOUS
  <2>3. op \in Conn!Op
    BY <2>1, <2>2, PathAssumption DEF Conn!HeaderOp, Conn!Op, Writes
  <2>4. "DoWriteCommand" \in {"DoWriteCommand", "written", "failed"}
    OBVIOUS
  <2>5. service' \in Seq(Conn!Handler)
    BY <2>1, <2>2, <2>3, <2>4, PostFacts DEF Writes
  <2> QED
    BY <1>1, <2>1, <2>5 DEF Writes, WriterTypes
<1>3. CASE Conn!RunHandler
  BY <1>3, RunHandlerTypes
<1>4. CASE Conn!WriteSome
  <2>1. PICK op : op = Head(ops)
    OBVIOUS
  <2>2. ops # <<>> /\ ops \in Seq(Conn!Op) /\ ops' = Tail(ops)
    BY <1>4 DEF Conn!WriteSome, Conn!TypeOK
  <2>3. op \in Conn!Op /\ Tail(ops) \in Seq(Conn!Op)
    BY <2>1, <2>2, HeadTailProperties
  <2>4. PICK n \in 1 .. op.left :
           /\ stream' = stream \o [i \in 1 .. n |-> [cmd |-> op.cmd, part |-> op.part]]
           /\ Posts("written", [op EXCEPT !.left = @ - n])
           /\ inPart' = (inPart \/ (op.part = "header" /\ n < HeaderSize))
    BY <1>4, <2>1 DEF Conn!WriteSome, Posts
  <2>5. n \in Nat /\ op.left - n \in Nat
    <3>1. op.left \in Nat
      BY <2>3 DEF Conn!Op
    <3> QED
      BY ONLY <3>1, n \in 1 .. op.left
  <2>6. [op EXCEPT !.left = @ - n] \in Conn!Op
    BY <2>3, <2>5 DEF Conn!Op
  <2>7. PICK new \in Conn!Op : new = [op EXCEPT !.left = @ - n]
    BY <2>6
  <2>8. "written" \in {"DoWriteCommand", "written", "failed"}
    OBVIOUS
  <2>9. service' \in Seq(Conn!Handler)
    BY <2>4, <2>7, <2>8, PostFacts
  <2>10. stream' \in Seq(Conn!Piece)
    <3>1. PICK pc \in Conn!Piece : pc = [cmd |-> op.cmd, part |-> op.part]
      BY <2>3 DEF Conn!Op, Conn!Piece
    <3> QED
      BY <2>4, <2>5, <3>1, GrownFacts
  <2>11. inPart' \in BOOLEAN
    BY <1>1, <2>4 DEF WriterTypes
  <2> QED
    BY <1>1, <1>4, <2>2, <2>3, <2>9, <2>10, <2>11 DEF Conn!WriteSome, WriterTypes
<1>5. CASE Conn!WriteFails
  <2>1. /\ ops # <<>> /\ ops \in Seq(Conn!Op) /\ ops' = Tail(ops)
        /\ Posts("failed", Head(ops))
    BY <1>5 DEF Conn!WriteFails, Conn!TypeOK, Posts
  <2>2. Head(ops) \in Conn!Op /\ Tail(ops) \in Seq(Conn!Op)
    BY <2>1, HeadTailProperties
  <2>3. "failed" \in {"DoWriteCommand", "written", "failed"}
    OBVIOUS
  <2>4. service' \in Seq(Conn!Handler)
    BY <2>1, <2>2, <2>3, PostFacts
  <2> QED
    BY <1>1, <1>5, <2>1, <2>2, <2>4 DEF Conn!WriteFails, Conn!readerVars, WriterTypes
<1>6. CASE Conn!ReadHeader
  <2>1. HeaderSize \in Nat /\ HeaderSize <= Len(stream)
    BY <1>6, NetFacts, PathAssumption DEF Conn!ReadHeader
  <2>2. stream' \in Seq(Conn!Piece)
    BY <1>6, <2>1, TakenFacts DEF Conn!ReadHeader
  <2> QED
    BY <1>1, <1>6, <2>2 DEF Conn!ReadHeader, Conn!writerVars, WriterTypes
<1>7. CASE Conn!ReadData
  <2>1. reading \in Conn!Command
    BY <1>7 DEF Conn!ReadData, Conn!TypeOK, Conn!NoCommand, Conn!Garbage
  <2>2. reading.size \in Nat
    BY <2>1, PathAssumption DEF Conn!Command
  <2>3. PICK k \in Nat : k = reading.size
    BY <2>2
  <2>4. k <= Len(stream) /\ stream' = Conn!Taken(k)
    BY <1>7, <2>3, NetFacts DEF Conn!ReadData
  <2>5. stream' \in Seq(Conn!Piece)
    BY <2>4, TakenFacts
  <2> QED
    BY <1>1, <1>7, <2>5 DEF Conn!ReadData, Conn!writerVars, WriterTypes
<1>8. CASE Conn!CloseWriter
  BY <1>1, <1>8, CloseTypes DEF Conn!CloseWriter, Conn!readerVars, WriterTypes
<1>9. CASE Conn!CloseReader
  BY <1>1, <1>9 DEF Conn!CloseReader, Conn!writerVars, Conn!readerVars, WriterTypes
<1>10. CASE Conn!Break
  <2>1. PICK k \in 0 .. Len(stream) : stream' = SubSeq(stream, 1, k)
    BY <1>10 DEF Conn!Break
  <2>2. k \in Int /\ \A p \in 1 .. k : stream[p] \in Conn!Piece
    BY NetFacts
  <2>3. stream' \in Seq(Conn!Piece)
    BY <2>1, <2>2, SubSeqProperties
  <2> QED
    BY <1>1, <1>10, <2>3 DEF Conn!Break, WriterTypes
<1>11. CASE UNCHANGED netState
  BY <1>1, <1>11 DEF netState, WriterTypes
<1> QED
  BY <1>2, <1>3, <1>4, <1>5, <1>6, <1>7, <1>8, <1>9, <1>10, <1>11 DEF Conn!Next

(* The reader takes data for a header only if one was written in part.      *)
TypesButReader ==
    /\ WriterTypes /\ StreamInv
    /\ written \in Seq(Conn!Command) /\ delivered \in Seq(Conn!Command)

LEMMA TypesFollow == TypesButReader => Conn!TypeOK
<1> SUFFICES ASSUME TypesButReader PROVE Conn!TypeOK
  OBVIOUS
<1> USE DEF TypesButReader
<1>1. PICK off : Sound(off) \/ Spoiled(off)
  BY DEF StreamInv
<1>2. \A d \in 1 .. Len(written) : written[d] \in Conn!Command
  BY ElementOfSeq
<1>3. Len(delivered) < Len(written) => Len(delivered) + 1 \in 1 .. Len(written)
  BY LenProperties
<1>4. ReaderAt(off) => reading \in Conn!Command \cup {Conn!NoCommand}
  BY <1>2, <1>3 DEF ReaderAt
<1>5. \/ reading \in Conn!Command \cup {Conn!NoCommand}
      \/ inPart /\ reading = Conn!Garbage
  BY <1>1, <1>4 DEF Sound, Spoiled
<1> QED
  BY <1>5 DEF WriterTypes, Conn!TypeOK

-----------------------------------------------------------------------------
(* The memory of the front command *)

(* The handlers of writes that are left are among those there were, e       *)
(* places before them.                                                      *)
FewerWrites(e) ==
    \A i \in DOMAIN service' : service'[i].what = "written" =>
       i \in Nat \ {0} /\ i + e \in DOMAIN service /\ service'[i] = service[i + e]

IsPopping(i) == service[i].what = "written" /\ service[i].op.del

LEMMA WritesKept ==
    ASSUME WritesDone, NEW e \in {0, 1}, FewerWrites(e),
           ops = <<>> /\ writeQueue # <<>> =>
              /\ ops' = <<>> /\ writeQueue' # <<>>
              /\ Head(writeQueue') = Head(writeQueue)
    PROVE  WritesDone'
<1> SUFFICES ASSUME NEW i \in DOMAIN service', service'[i].what = "written"
             PROVE  /\ service'[i].op.part = "header" => service'[i].op.left = 0
                    /\ service'[i].op.part = "data" => service'[i].op.del
                    /\ service'[i].op.del =>
                          /\ ops' = <<>> /\ writeQueue' # <<>>
                          /\ service'[i].op.cmd = Head(writeQueue')
                          /\ \A j \in DOMAIN service' :
                                service'[j].what = "written" /\ service'[j].op.del
                                   => i = j
  BY DEF WritesDone
<1>1. /\ i \in Nat /\ i + e \in DOMAIN service /\ service'[i] = service[i + e]
      /\ service[i + e].what = "written"
  BY DEF FewerWrites
<1>2. /\ service'[i].op.part = "header" => service'[i].op.left = 0
      /\ service'[i].op.part = "data" => service'[i].op.del
  BY <1>1 DEF WritesDone
<1>3. ASSUME service'[i].op.del
      PROVE  /\ ops' = <<>> /\ writeQueue' # <<>>
             /\ service'[i].op.cmd = Head(writeQueue')
  BY <1>1, <1>3 DEF WritesDone
<1>4. ASSUME service'[i].op.del, NEW j \in DOMAIN service',
             service'[j].what = "written", service'[j].op.del
      PROVE  i = j
  <2>1. /\ j \in Nat /\ j + e \in DOMAIN service /\ service'[j] = service[j + e]
    BY <1>4 DEF FewerWrites
  <2>2. i + e = j + e
    BY <1>1, <1>4, <2>1 DEF WritesDone
  <2> QED
    BY ONLY <1>1, <2>1, <2>2, e \in {0, 1}
<1> QED
  BY <1>2, <1>3, <1>4

(* ... and if none of them pops the front, anything may be begun.           *)
LEMMA NonePops ==
    ASSUME WritesDone, NEW e \in {0, 1}, FewerWrites(e),
           \A i \in DOMAIN service : IsPopping(i) => i = 1 /\ e = 1
    PROVE  WritesDone'
<1> SUFFICES ASSUME NEW i \in DOMAIN service', service'[i].what = "written"
             PROVE  /\ service'[i].op.part = "header" => service'[i].op.left = 0
                    /\ service'[i].op.part = "data" => service'[i].op.del
                    /\ ~service'[i].op.del
  BY DEF WritesDone
<1>1. /\ i + e \in DOMAIN service /\ service'[i] = service[i + e]
      /\ i \in Nat \ {0}
      /\ service[i + e].what = "written"
  BY DEF FewerWrites
<1>2. ~service'[i].op.del
  <2> SUFFICES ASSUME service'[i].op.del PROVE FALSE
    OBVIOUS
  <2>1. i + e = 1 /\ e = 1
    BY <1>1 DEF IsPopping
  <2> QED
    BY <1>1, <2>1
<1> QED
  BY <1>1, <1>2 DEF WritesDone

LEMMA TakenFewer ==
    ASSUME Conn!TypeOK, service # <<>>, service' = Tail(service)
    PROVE  FewerWrites(1)
  BY TakeFacts DEF FewerWrites

LEMMA PostedFewer ==
    ASSUME Conn!TypeOK, NEW what \in {"DoWriteCommand", "failed"},
           NEW op \in Conn!Op, Posts(what, op)
    PROVE  FewerWrites(0)
<1>1. what \in {"DoWriteCommand", "written", "failed"} /\ what # "written"
  OBVIOUS
<1>2. /\ service'[Len(service) + 1] = [what |-> what, op |-> op]
      /\ \A i \in DOMAIN service : service'[i] = service[i]
      /\ \A i \in DOMAIN service' : i \in DOMAIN service \/ i = Len(service) + 1
  BY <1>1, PostFacts
<1>3. \A i \in DOMAIN service : i \in Nat \ {0} /\ i + 0 = i
  BY NetFacts
<1> SUFFICES ASSUME NEW i \in DOMAIN service', service'[i].what = "written"
             PROVE  /\ i \in Nat \ {0} /\ i + 0 \in DOMAIN service
                    /\ service'[i] = service[i + 0]
  BY DEF FewerWrites
<1>4. i \in DOMAIN service
  BY <1>1, <1>2
<1> QED
  BY <1>2, <1>3, <1>4

LEMMA HandlerMemory ==
    ASSUME Conn!TypeOK, Conn!RunHandler, FrontsOps, WritesDone
    PROVE  FrontsOps' /\ WritesDone'
<1>1. PICK h : h = Head(service)
  OBVIOUS
<1>2. service # <<>>
  BY DEF Conn!RunHandler
<1>3. /\ h = service[1] /\ 1 \in DOMAIN service
      /\ h.what \in {"DoWriteCommand", "written", "failed"}
      /\ h.op \in Conn!Op /\ h.op.cmd \in Conn!Command
      /\ Tail(service) \in Seq(Conn!Handler)
  BY <1>1, <1>2, TakeFacts DEF Conn!Handler, Conn!Op
<1>4. ops \in Seq(Conn!Op) /\ writeQueue \in Seq(Conn!Command)
  BY DEF Conn!TypeOK
<1>5. \A c \in Conn!Command : <<>> \o Conn!BeginWriteCommand(c) = HeaderOps(c, HeaderSize)
  BY BeginIsHeaderOps, ConcatEmptySeq
<1>6. ASSUME writeQueue' # <<>>, Head(writeQueue') \in Conn!Command,
             ops' = HeaderOps(Head(writeQueue'), HeaderSize)
      PROVE  FrontsOps'
  <2>1. PICK c \in Conn!Command : c = Head(writeQueue')
    BY <1>6
  <2>2. c.size \in Nat
    BY PathAssumption DEF Conn!Command
  <2>3. \/ ops' = <<Header(c, HeaderSize)>>
        \/ c.size > 0 /\ ops' = <<Header(c, HeaderSize), Data(c, c.size)>>
    <3>1. CASE c.size = 0
      BY <1>6, <2>1, <3>1 DEF HeaderOps
    <3>2. CASE c.size # 0
      BY <1>6, <2>1, <2>2, <3>2 DEF HeaderOps
    <3> QED
      BY <3>1, <3>2
  <2> QED
    BY <1>6, <2>1, <2>2, <2>3 DEF FrontsOps, Header, Data
<1>7. CASE h.what = "DoWriteCommand"
  <2>1. /\ writeQueue' = Append(writeQueue, h.op.cmd)
        /\ ops' = IF writeQueue # <<>> THEN ops
                  ELSE ops \o Conn!BeginWriteCommand(h.op.cmd)
        /\ service' = Tail(service)
    BY <1>1, <1>7 DEF Conn!RunHandler, Conn!DoWriteCommand, Conn!IsProgress
  <2>2. FewerWrites(1)
    BY <1>2, <2>1, TakenFewer
  <2>3. CASE writeQueue # <<>>
    <3>1. /\ writeQueue' # <<>> /\ Head(writeQueue') = Head(writeQueue)
      BY <1>3, <1>4, <2>1, <2>3, AppendProperties, TailFacts, LenProperties, EmptySeq
    <3>2. ops' = ops
      BY <2>1, <2>3
    <3>3. FrontsOps'
      BY <2>3, <3>1, <3>2 DEF FrontsOps, Header, Data
    <3> QED
      BY <2>2, <3>1, <3>2, <3>3, WritesKept
  <2>4. CASE writeQueue = <<>>
    <3>1. ops = <<>>
      BY <2>4 DEF FrontsOps
    <3>2. /\ writeQueue' # <<>> /\ Head(writeQueue') = h.op.cmd
      BY <1>3, <2>1, <2>4
    <3>3. ops' = HeaderOps(Head(writeQueue'), HeaderSize)
      BY <1>3, <1>5, <2>1, <2>4, <3>1, <3>2
    <3>4. FrontsOps'
      BY <1>3, <1>6, <3>2, <3>3
    <3>5. \A i \in DOMAIN service : ~IsPopping(i)
      BY <2>4 DEF IsPopping, WritesDone
    <3> QED
      BY <2>2, <3>4, <3>5, NonePops
  <2> QED
    BY <2>3, <2>4
<1>8. CASE h.what = "written"
  <2>1. /\ writeQueue' = IF h.op.left = 0 /\ h.op.del THEN Conn!Popped ELSE writeQueue
        /\ ops' = IF h.op.left > 0 THEN Append(ops, h.op)
                  ELSE IF h.op.del /\ writeQueue' # <<>>
                       THEN ops \o Conn!BeginWriteCommand(Head(writeQueue'))
                       ELSE ops
        /\ service' = Tail(service)
    BY <1>1, <1>8 DEF Conn!RunHandler, Conn!HandleWriteCommand
  <2>2. FewerWrites(1)
    BY <1>2, <2>1, TakenFewer
  <2>3. /\ h.op.left \in Nat /\ h.op.part \in {"header", "data"}
        /\ h.op.del \in BOOLEAN
    BY <1>3 DEF Conn!Op
  <2>4. /\ h.op.part = "header" => h.op.left = 0
        /\ h.op.part = "data" => h.op.del
        /\ h.op.del =>
              /\ ops = <<>> /\ writeQueue # <<>> /\ h.op.cmd = Head(writeQueue)
              /\ \A i \in DOMAIN service : IsPopping(i) => i = 1
    BY <1>3, <1>8 DEF WritesDone, IsPopping
  <2>5. CASE h.op.left > 0
    <3>1. h.op.part = "data" /\ h.op.del
      BY <2>3, <2>4, <2>5
    <3>2. h.op = Data(h.op.cmd, h.op.left)
      BY <1>3, <3>1 DEF Data, Conn!Op
    <3>3. writeQueue' = writeQueue /\ ops' = <<h.op>>
      BY <2>1, <2>3, <2>4, <2>5, <3>1
    <3>4. FrontsOps'
      BY <2>3, <2>4, <3>1, <3>2, <3>3 DEF FrontsOps, Data
    <3> QED
      BY <2>2, <2>4, <3>1, <3>4, NonePops
  <2>6. CASE h.op.left = 0 /\ ~h.op.del
    <3>1. writeQueue' = writeQueue /\ ops' = ops
      BY <2>1, <2>6
    <3>2. FrontsOps'
      BY <3>1 DEF FrontsOps, Header, Data
    <3> QED
      BY <2>2, <3>1, <3>2, WritesKept
  <2>7. CASE h.op.left = 0 /\ h.op.del
    <3>1. /\ writeQueue' = Conn!Popped /\ ops = <<>>
          /\ writeQueue' # <<>> =>
                ops' = <<>> \o Conn!BeginWriteCommand(Head(writeQueue'))
          /\ writeQueue' = <<>> => ops' = <<>>
      <4>1. ~(h.op.left > 0)
        BY ONLY <2>7
      <4>2. ops = <<>>
        BY <2>4, <2>7
      <4>3. /\ writeQueue' = Conn!Popped
            /\ ops' = IF writeQueue' # <<>>
                      THEN ops \o Conn!BeginWriteCommand(Head(writeQueue'))
                      ELSE ops
        BY <2>1, <2>7, <4>1, Zenon
      <4> QED
        BY ONLY <4>2, <4>3
    <3>2. Conn!Popped \in Seq(Conn!Command)
      <4>1. \A i \in 2 .. Len(writeQueue) : writeQueue[i] \in Conn!Command
        BY NetFacts
      <4> QED
        BY <4>1, NetFacts, SubSeqProperties DEF Conn!Popped
    <3>3. CASE writeQueue' = <<>>
      <4>1. FrontsOps'
        BY <3>1, <3>3 DEF FrontsOps
      <4> QED
        BY <2>2, <2>4, <2>7, <4>1, NonePops
    <3>4. CASE writeQueue' # <<>>
      <4>1. Head(writeQueue') \in Conn!Command
        BY <3>1, <3>2, <3>4, HeadTailProperties
      <4>2. ops' = HeaderOps(Head(writeQueue'), HeaderSize)
        BY <1>5, <3>1, <3>4, <4>1
      <4>3. FrontsOps'
        BY <1>6, <3>4, <4>1, <4>2
      <4> QED
        BY <2>2, <2>4, <2>7, <4>3, NonePops
    <3> QED
      BY <3>3, <3>4
  <2> QED
    BY <2>3, <2>5, <2>6, <2>7
<1>9. CASE h.what = "failed"
  <2>1. Conn!DoClose(Tail(service))
    BY <1>1, <1>9 DEF Conn!RunHandler
  <2>2. /\ writeQueue' = writeQueue /\ (ops' = <<>> \/ ops' = ops)
        /\ \A i \in DOMAIN service' : service'[i].what = "written" =>
              i \in DOMAIN Tail(service) /\ service'[i] = Tail(service)[i]
    BY <1>3, <2>1, CloseTypes
  <2>3. FewerWrites(1)
    BY <1>2, <2>2, TakeFacts DEF FewerWrites
  <2>4. FrontsOps'
    BY <2>2 DEF FrontsOps, Header, Data
  <2> QED
    BY <2>2, <2>3, <2>4, WritesKept
<1> QED
  BY <1>3, <1>7, <1>8, <1>9

LEMMA WriteMemory ==
    ASSUME Conn!TypeOK, Conn!WriteSome, FrontsOps, WritesDone, ~inPart'
    PROVE  FrontsOps' /\ WritesDone'
<1>1. ops # <<>> /\ ops' = Tail(ops) /\ UNCHANGED writeQueue
  BY DEF Conn!WriteSome
<1>2. PICK op : op = Head(ops)
  OBVIOUS
<1>3. PICK c : c = Head(writeQueue)
  OBVIOUS
<1>4. PICK n \in 1 .. op.left :
         /\ Posts("written", [op EXCEPT !.left = @ - n])
         /\ inPart' = (inPart \/ (op.part = "header" /\ n < HeaderSize))
  BY <1>2 DEF Conn!WriteSome, Posts
<1>5. writeQueue # <<>>
  BY <1>1 DEF FrontsOps
<1>6. op \in Conn!Op /\ ops \in Seq(Conn!Op)
  BY <1>1, <1>2, HeadTailProperties DEF Conn!TypeOK
<1>7. n \in Nat /\ op.left - n \in Nat /\ n <= op.left
  <2>1. op.left \in Nat
    BY <1>6 DEF Conn!Op
  <2> QED
    BY ONLY <2>1, n \in 1 .. op.left
<1>8. /\ op.cmd = c
      /\ op.part = "header" => op.left = HeaderSize
      /\ op.part = "data" => op.del
      /\ op.del => ops' = <<>>
      /\ \/ ops' = <<>>
         \/ \E k \in Nat : ops' = <<Data(c, k)>>
  <2>1. CASE ops = <<Header(c, HeaderSize)>>
    <3>1. op = Header(c, HeaderSize) /\ ops' = <<>>
      BY <1>1, <1>2, <2>1
    <3>2. op.cmd = c /\ op.part = "header" /\ op.left = HeaderSize
      BY <3>1, HeaderIs
    <3> QED
      BY <3>1, <3>2
  <2>2. CASE \E k \in Nat : ops = <<Data(c, k)>>
    <3>1. PICK k \in Nat : ops = <<Data(c, k)>>
      BY <2>2
    <3>2. op = Data(c, k) /\ ops' = <<>>
      BY <1>1, <1>2, <3>1
    <3>3. op.cmd = c /\ op.part = "data" /\ op.del = TRUE
      BY <3>2 DEF Data
    <3> QED
      BY <3>2, <3>3
  <2>3. CASE \E k \in Nat : c.size > 0 /\ ops = <<Header(c, HeaderSize), Data(c, k)>>
    <3>1. PICK k \in Nat : c.size > 0 /\ ops = <<Header(c, HeaderSize), Data(c, k)>>
      BY <2>3
    <3>2. op = Header(c, HeaderSize) /\ ops' = <<Data(c, k)>>
      BY <1>1, <1>2, <3>1
    <3>3. c.size # 0
      <4>1. c \in Conn!Command
        BY <1>3, <1>5, HeadTailProperties DEF Conn!TypeOK
      <4>2. c.size \in Nat
        BY <4>1, PathAssumption DEF Conn!Command
      <4> QED
        BY <3>1, <4>2
    <3>4. op.cmd = c /\ op.part = "header" /\ op.left = HeaderSize /\ ~op.del
      BY <3>2, <3>3, HeaderIs
    <3> QED
      BY <3>2, <3>4
  <2>4. \/ ops = <<Header(c, HeaderSize)>>
        \/ \E k \in Nat : ops = <<Data(c, k)>>
        \/ \E k \in Nat : c.size > 0 /\ ops = <<Header(c, HeaderSize), Data(c, k)>>
    BY <1>1, <1>3 DEF FrontsOps
  <2> QED
    BY <2>1, <2>2, <2>3, <2>4
<1>9. FrontsOps'
  <2>1. writeQueue' # <<>> /\ c = Head(writeQueue')
    BY <1>1, <1>3, <1>5
  <2>2. CASE ops' = <<>>
    BY <2>2 DEF FrontsOps
  <2>3. CASE \E k \in Nat : ops' = <<Data(c, k)>>
    BY <2>1, <2>3 DEF FrontsOps, Data
  <2> QED
    BY <1>8, <2>2, <2>3
<1>10. PICK new \in Conn!Op :
          /\ new = [op EXCEPT !.left = @ - n]
          /\ new.cmd = op.cmd /\ new.part = op.part /\ new.left = op.left - n
          /\ new.del = op.del
  <2>1. [op EXCEPT !.left = @ - n] \in Conn!Op
    BY <1>6, <1>7 DEF Conn!Op
  <2>2. op = [cmd |-> op.cmd, part |-> op.part, left |-> op.left, del |-> op.del]
    BY <1>6 DEF Conn!Op
  <2>3. [op EXCEPT !.left = @ - n] =
           [cmd |-> op.cmd, part |-> op.part, left |-> op.left - n, del |-> op.del]
    BY <2>2
  <2> QED
    BY <2>1, <2>3
<1>11. /\ new.part = "header" => new.left = 0
       /\ new.part = "data" => new.del
  <2>1. new.part = "header" => ~(n < HeaderSize)
    BY <1>4, <1>10
  <2>2. new.part = "header" => new.left = 0
    BY <1>7, <1>8, <1>10, <2>1, PathAssumption
  <2> QED
    BY <1>8, <1>10, <2>2
<1>12. /\ service'[Len(service) + 1] = [what |-> "written", op |-> new]
       /\ \A i \in DOMAIN service : service'[i] = service[i]
       /\ \A i \in DOMAIN service' : i \in DOMAIN service \/ i = Len(service) + 1
  <2>1. "written" \in {"DoWriteCommand", "written", "failed"}
    OBVIOUS
  <2> QED
    BY <1>4, <1>10, <2>1, PostFacts
<1>13. \A i \in DOMAIN service : service[i].what = "written" => ~service[i].op.del
  BY <1>1 DEF WritesDone
<1>14. ASSUME NEW i \in DOMAIN service', service'[i].what = "written"
       PROVE  /\ service'[i].op.part = "header" => service'[i].op.left = 0
              /\ service'[i].op.part = "data" => service'[i].op.del
              /\ service'[i].op.del =>
                    i = Len(service) + 1 /\ service'[i].op = new
  <2>1. CASE i \in DOMAIN service
    BY <1>12, <1>13, <1>14, <2>1 DEF WritesDone
  <2>2. CASE i = Len(service) + 1
    BY <1>11, <1>12, <2>2
  <2> QED
    BY <1>12, <2>1, <2>2
<1>15. new.del => /\ ops' = <<>> /\ writeQueue' # <<>>
                  /\ new.cmd = Head(writeQueue')
  BY <1>1, <1>3, <1>5, <1>8, <1>10
<1>16. WritesDone'
  BY <1>14, <1>15 DEF WritesDone
<1> QED
  BY <1>9, <1>16

LEMMA FailMemory ==
    ASSUME Conn!TypeOK, Conn!WriteFails, FrontsOps, WritesDone
    PROVE  FrontsOps' /\ WritesDone'
<1>1. /\ ops # <<>> /\ ops' = Tail(ops) /\ UNCHANGED writeQueue
      /\ Posts("failed", Head(ops))
  BY DEF Conn!WriteFails, Posts
<1>2. PICK c : c = Head(writeQueue)
  OBVIOUS
<1>3. Head(ops) \in Conn!Op
  BY <1>1, HeadTailProperties DEF Conn!TypeOK
<1>4. "failed" \in {"DoWriteCommand", "failed"}
  OBVIOUS
<1>5. FewerWrites(0)
  BY <1>1, <1>3, <1>4, PostedFewer
<1>6. WritesDone'
  BY <1>1, <1>5, WritesKept
<1>7. FrontsOps'
  <2>1. writeQueue' # <<>> /\ c = Head(writeQueue')
    BY <1>1, <1>2 DEF FrontsOps
  <2>2. \/ ops = <<Header(c, HeaderSize)>>
        \/ \E k \in Nat : ops = <<Data(c, k)>>
        \/ \E k \in Nat : ops = <<Header(c, HeaderSize), Data(c, k)>>
    BY <1>1, <1>2 DEF FrontsOps
  <2>3. ops' = <<>> \/ \E k \in Nat : ops' = <<Data(c, k)>>
    <3>1. CASE \/ ops = <<Header(c, HeaderSize)>>
               \/ \E k \in Nat : ops = <<Data(c, k)>>
      <4>1. ops' = <<>>
        BY <1>1, <3>1
      <4> QED
        BY <4>1
    <3>2. ASSUME NEW k \in Nat, ops = <<Header(c, HeaderSize), Data(c, k)>>
          PROVE  ops' = <<Data(c, k)>>
      BY <1>1, <3>2
    <3> QED
      BY <2>2, <3>1, <3>2
  <2>4. CASE ops' = <<>>
    BY <2>4 DEF FrontsOps
  <2>5. CASE \E k \in Nat : ops' = <<Data(c, k)>>
    BY <2>1, <2>5 DEF FrontsOps, Data
  <2> QED
    BY <2>3, <2>4, <2>5
<1> QED
  BY <1>6, <1>7

LEMMA MemoryStep ==
    ASSUME Conn!TypeOK, HistoryInv, MemoryInv, Conn!Next \/ UNCHANGED netState
    PROVE  MemoryInv'
<1> SUFFICES ASSUME ~inPart' PROVE FrontsOps' /\ WritesDone'
  BY DEF MemoryInv
<1>1. CASE Conn!WriteSome
  <2>1. ~inPart
    BY <1>1 DEF Conn!WriteSome
  <2> QED
    BY <1>1, <2>1, WriteMemory DEF MemoryInv
<1>2. CASE Conn!WriteCommand
  <2>1. PICK cmd : Writes(cmd)
    BY <1>2, WriteIs
  <2>2. PICK op : op = Conn!HeaderOp(cmd, FALSE)
    OBVIOUS
  <2>3. op \in Conn!Op
    BY <2>1, <2>2, PathAssumption DEF Conn!HeaderOp, Conn!Op, Writes
  <2>4. UNCHANGED <<writeQueue, ops, inPart>> /\ Posts("DoWriteCommand", op)
    BY <2>1, <2>2 DEF Writes
  <2>5. "DoWriteCommand" \in {"DoWriteCommand", "failed"}
    OBVIOUS
  <2>6. FewerWrites(0)
    BY <2>3, <2>4, <2>5, PostedFewer
  <2>7. FrontsOps /\ WritesDone
    BY <2>4 DEF MemoryInv
  <2>8. FrontsOps'
    BY <2>4, <2>7 DEF FrontsOps, Header, Data
  <2> QED
    BY <2>4, <2>6, <2>7, <2>8, WritesKept
<1>3. CASE Conn!RunHandler
  <2>1. ~inPart
    BY <1>3 DEF Conn!RunHandler
  <2> QED
    BY <1>3, <2>1, HandlerMemory DEF MemoryInv
<1>4. CASE Conn!WriteFails
  <2>1. ~inPart
    BY <1>4 DEF Conn!WriteFails
  <2> QED
    BY <1>4, <2>1, FailMemory DEF MemoryInv
<1>5. CASE Conn!CloseWriter
  <2>1. service \in Seq(Conn!Handler) /\ Conn!DoClose(service) /\ UNCHANGED inPart
    BY <1>5 DEF Conn!CloseWriter, Conn!TypeOK
  <2>2. /\ writeQueue' = writeQueue /\ (ops' = <<>> \/ ops' = ops)
        /\ \A i \in DOMAIN service' : service'[i].what = "written" =>
              i \in DOMAIN service /\ service'[i] = service[i]
    BY <2>1, CloseTypes
  <2>3. FewerWrites(0)
    <3>1. \A i \in DOMAIN service : i \in Nat \ {0} /\ i + 0 = i
      BY NetFacts
    <3> QED
      BY <2>2, <3>1 DEF FewerWrites
  <2>4. FrontsOps /\ WritesDone
    BY <2>1 DEF MemoryInv
  <2>5. FrontsOps'
    BY <2>2, <2>4 DEF FrontsOps, Header, Data
  <2> QED
    BY <2>2, <2>3, <2>4, <2>5, WritesKept
<1>6. CASE \/ Conn!ReadHeader \/ Conn!ReadData \/ Conn!CloseReader
           \/ Conn!Break \/ UNCHANGED netState
  <2>1. UNCHANGED <<service, writeQueue, ops, inPart>>
    BY <1>6 DEF Conn!ReadHeader, Conn!ReadData, Conn!CloseReader, Conn!Break,
       Conn!writerVars, netState
  <2>2. FrontsOps /\ WritesDone
    BY <2>1 DEF MemoryInv
  <2> QED
    BY <2>1, <2>2 DEF FrontsOps, WritesDone, Header, Data
<1> QED
  BY <1>1, <1>2, <1>3, <1>4, <1>5, <1>6 DEF Conn!Next

-----------------------------------------------------------------------------
(* The theorems about the connection *)

LEMMA ConnInit == Conn!Init => ConnInv /\ Conn!Fifo!Init
<1> SUFFICES ASSUME Conn!Init PROVE ConnInv /\ Conn!Fifo!Init
  OBVIOUS
<1>1. /\ service = <<>> /\ writeQueue = <<>> /\ ops = <<>> /\ stream = <<>>
      /\ isConnected = [e \in {"writer", "reader"} |-> TRUE]
      /\ broken = FALSE /\ inPart = FALSE /\ reading = Conn!NoCommand
      /\ written = <<>> /\ delivered = <<>>
  BY DEF Conn!Init
<1>2. \A S : <<>> \in Seq(S)
  OBVIOUS
<1>3. Conn!TypeOK
  BY <1>1, <1>2 DEF Conn!TypeOK
<1>4. Len(<<>>) = 0 /\ DOMAIN <<>> = 1 .. 0
  OBVIOUS
<1>5. HistoryInv /\ MemoryInv
  BY <1>1, <1>4, LoopAssumption DEF HistoryInv, MemoryInv, FrontsOps, WritesDone
<1>6. PICK off : off = [n \in 1 .. MaxCommands + 1 |-> 1]
  OBVIOUS
<1>7. 1 \in 1 .. MaxCommands + 1 /\ off[1] = 1
  BY <1>6, LoopAssumption
<1>8. Offsets(off) /\ off \in [1 .. MaxCommands + 1 -> Int]
  BY <1>1, <1>4, <1>6 DEF Offsets
<1>9. ReaderAt(off)
  BY <1>1, <1>4, <1>7 DEF ReaderAt
<1>10. WriterInv(off)
  <2>1. QueueIs(1, 1)
    BY <1>1, <1>4 DEF QueueIs
  <2>2. PostedFrom(1)
    BY <1>1, <1>4 DEF PostedFrom, IsPosted
  <2>3. WriterAt(off[1], Head(writeQueue))
    BY <1>1, <1>4, <1>7 DEF WriterAt, Idle, WrittenOnly
  <2>4. 1 \in 1 .. Len(written) + 1
    BY <1>1, <1>4
  <2> QED
    BY <2>1, <2>2, <2>3, <2>4 DEF WriterInv
<1>11. Sound(off)
  BY <1>1, <1>4, <1>7, <1>9, <1>10 DEF Sound
<1>12. StreamInv
  BY <1>8, <1>11 DEF StreamInv
<1> QED
  BY <1>1, <1>3, <1>5, <1>12 DEF ConnInv, Conn!Fifo!Init

LEMMA ConnStep ==
    ASSUME ConnInv, Conn!Next \/ UNCHANGED netState
    PROVE  ConnInv' /\ [Conn!Fifo!Next]_(Conn!Fifo!vars)
<1>1. Conn!TypeOK /\ HistoryInv /\ MemoryInv /\ StreamInv
  BY DEF ConnInv
<1>2. StreamInv' /\ HistoryStep
  BY <1>1, StreamStep
<1>3. /\ HistoryInv' /\ [Conn!Fifo!Next]_(Conn!Fifo!vars)
      /\ written' \in Seq(Conn!Command) /\ delivered' \in Seq(Conn!Command)
  BY <1>1, <1>2, HistoryKept
<1>4. WriterTypes'
  BY <1>1, TypesStep
<1>5. TypesButReader' => Conn!TypeOK'
  BY TypesFollow, PTL
<1>6. MemoryInv'
  BY <1>1, MemoryStep
<1>7. TypesButReader'
  BY <1>2, <1>3, <1>4 DEF TypesButReader
<1> QED
  BY <1>2, <1>3, <1>5, <1>6, <1>7 DEF ConnInv

LEMMA FrontIsKept == ConnInv => MemoryIsKept
<1> SUFFICES ASSUME Conn!TypeOK, ~inPart => FrontsOps
             PROVE  Conn!MemoryIsKept
  BY DEF ConnInv, MemoryInv, MemoryIsKept
<1>1. ASSUME ~inPart, NEW i \in DOMAIN ops
      PROVE  writeQueue # <<>> /\ ops[i].cmd = Head(writeQueue)
  <2>1. PICK c : c = Head(writeQueue)
    OBVIOUS
  <2>2. \A k : Header(c, k).cmd = c /\ Data(c, k).cmd = c
    BY HeaderIs DEF Data
  <2>3. ops # <<>>
    BY <1>1
  <2>4. writeQueue # <<>>
    BY <1>1, <2>3 DEF FrontsOps
  <2>5. \/ ops = <<Header(c, HeaderSize)>>
        \/ \E k \in Nat : ops = <<Data(c, k)>>
        \/ \E k \in Nat : ops = <<Header(c, HeaderSize), Data(c, k)>>
    BY <1>1, <2>1, <2>3 DEF FrontsOps
  <2>6. ops[i].cmd = c
    <3>1. ASSUME NEW x, ops = <<x>> PROVE ops[i] = x
      BY <1>1, <3>1
    <3>2. ASSUME NEW x, NEW y, ops = <<x, y>> PROVE ops[i] = x \/ ops[i] = y
      BY <1>1, <3>2
    <3> QED
      BY <2>2, <2>5, <3>1, <3>2
  <2> QED
    BY <2>1, <2>4, <2>6
<1> QED
  BY <1>1 DEF Conn!MemoryIsKept

(* Each step of the path is one of the connection, or leaves it alone.      *)
LEMMA PathSteps == [PathNext]_pathVars => Conn!Next \/ UNCHANGED netState
<1> SUFFICES ASSUME [PathNext]_pathVars PROVE Conn!Next \/ UNCHANGED netState
  OBVIOUS
<1> QED
  BY DEF PathNext, pathVars, Write, RunHandler, WriteSome, Receive, Close,
     Finish, LuaLoop, Hook, Conn!Next

(* "the command memory must be kept until the end of the writing"           *)
(* (connection.h:166): what waits for the socket is of the front command,   *)
(* as long as no header was written in part; and the reader takes data for  *)
(* a header only if one was.  For every number of commands and every size   *)
(* of a header and of data.                                                 *)
THEOREM MemoryAlwaysKept == PathSpec => []MemoryIsKept
<1>1. PathInit => ConnInv
  BY ConnInit DEF PathInit
<1>2. ConnInv /\ [PathNext]_pathVars => ConnInv'
  BY ConnStep, PathSteps
<1> QED
  BY <1>1, <1>2, FrontIsKept, PTL DEF PathSpec

(* Two writes of a command at a time, cut as the socket likes and with the  *)
(* rest of one behind the other, and new commands in between: the other end *)
(* gets whole commands, once and in order, and no more of them once a       *)
(* header was overtaken by its data (connection.cpp:344-400).               *)
THEOREM PathCarriesInOrder == PathSpec => CarriesInOrder
<1>1. PathInit => ConnInv /\ Conn!Fifo!Init
  BY ConnInit DEF PathInit
<1>2. ConnInv /\ [PathNext]_pathVars => ConnInv' /\ [Conn!Fifo!Next]_(Conn!Fifo!vars)
  BY ConnStep, PathSteps
<1> QED
  BY <1>1, <1>2, PTL DEF PathSpec, CarriesInOrder, Conn!ImplementsFifo, Conn!Fifo!Spec

(* And what the connection thread pushes meanwhile the program's thread     *)
(* handles once and in order, whatever the network does.                    *)
THEOREM PathHandlesInOrder == PathSpec => ImplementsFifo
<1>1. PathInit => LoopInv /\ Fifo!Init
  BY InitInv DEF PathInit
<1>2. [PathNext]_pathVars => [Next]_vars
  <2>1. PathNext => Next \/ UNCHANGED vars
    BY DEF PathNext, Write, RunHandler, WriteSome, Receive, Received, Close,
       Finish, LuaLoop, Hook, Next
  <2> QED
    BY <2>1 DEF pathVars
<1>3. LoopInv /\ [PathNext]_pathVars => LoopInv' /\ [Fifo!Next]_(Fifo!vars)
  BY <1>2, StepInv
<1> QED
  BY <1>1, <1>3, PTL DEF PathSpec, ImplementsFifo, Fifo!Spec

-----------------------------------------------------------------------------
(* The requests of an echo_ostream *)

(* The newest request that no longer waits, and those that went before.     *)
LastGone == added - Len(requestQueue)
Gone == done \o current

Increasing(s) == \A i, j \in DOMAIN s : i < j => s[i] < s[j]
Members(s) == {s[i] : i \in DOMAIN s}

(* The queue holds the newest requests, all others were dropped or taken,   *)
(* in order, and the thread has no other request when it takes one.         *)
EchoInv ==
    /\ StreamTypeOK
    /\ LostOnlyWhenFull
    /\ LastGone >= 0
    /\ \A i \in DOMAIN requestQueue : requestQueue[i] = LastGone + i
    /\ Increasing(Gone)
    /\ Members(Gone) = (1 .. LastGone) \ dropped
    /\ dropped \subseteq 1 .. LastGone
    /\ thread \in {"none", "get", "wait", "ended"} => current = <<>>

(* One sequence behind another, whose elements are greater. *)
LEMMA ConcatMembers ==
    ASSUME NEW s \in Seq(Nat), NEW u \in Seq(Nat)
    PROVE  /\ Members(s \o u) = Members(s) \cup Members(u)
           /\ Increasing(s) /\ Increasing(u)
                 /\ (\A m \in Members(s), n \in Members(u) : m < n)
                 => Increasing(s \o u)
<1> DEFINE r == s \o u
           k == Len(s)
<1>1. /\ k \in Nat
      /\ DOMAIN s \subseteq Nat \ {0} /\ DOMAIN u \subseteq Nat \ {0}
      /\ \A i \in DOMAIN s : i \in DOMAIN r /\ r[i] = s[i] /\ i <= k
      /\ \A i \in DOMAIN u : k + i \in DOMAIN r /\ r[k + i] = u[i]
      /\ \A i \in DOMAIN r :
            \/ i \in DOMAIN s /\ r[i] = s[i] /\ i <= k
            \/ \E j \in DOMAIN u : i = k + j /\ r[i] = u[j]
  BY ConcatPlaces
<1> HIDE DEF r, k
<1>2. Members(r) = Members(s) \cup Members(u)
  <2>1. ASSUME NEW m \in Members(r) PROVE m \in Members(s) \cup Members(u)
    BY <1>1 DEF Members
  <2>2. ASSUME NEW m \in Members(s) PROVE m \in Members(r)
    BY <1>1 DEF Members
  <2>3. ASSUME NEW m \in Members(u) PROVE m \in Members(r)
    <3>1. PICK j \in DOMAIN u : m = u[j]
      BY DEF Members
    <3>2. k + j \in DOMAIN r /\ r[k + j] = m
      BY <1>1, <3>1
    <3> QED
      BY <3>2 DEF Members
  <2> QED
    BY <2>1, <2>2, <2>3
<1>3. ASSUME Increasing(s), Increasing(u),
             \A m \in Members(s), n \in Members(u) : m < n
      PROVE  Increasing(r)
  <2> SUFFICES ASSUME NEW i \in DOMAIN r, NEW j \in DOMAIN r, i < j
               PROVE  r[i] < r[j]
    BY DEF Increasing
  <2>1. CASE i \in DOMAIN s /\ r[i] = s[i] /\ j \in DOMAIN s /\ r[j] = s[j]
    BY <1>3, <2>1 DEF Increasing
  <2>2. CASE /\ i \in DOMAIN s /\ r[i] = s[i]
             /\ \E b \in DOMAIN u : j = k + b /\ r[j] = u[b]
    BY <1>3, <2>2 DEF Members
  <2>3. CASE /\ \E a \in DOMAIN u : i = k + a /\ r[i] = u[a]
             /\ j \in DOMAIN s /\ j <= k
    <3>1. PICK a \in DOMAIN u : i = k + a
      BY <2>3
    <3>2. a \in Nat /\ a # 0 /\ j \in Nat /\ k \in Nat
      BY <1>1, <2>3
    <3> QED
      BY ONLY <2>3, <3>1, <3>2, i < j
  <2>4. CASE /\ \E a \in DOMAIN u : i = k + a /\ r[i] = u[a]
             /\ \E b \in DOMAIN u : j = k + b /\ r[j] = u[b]
    <3>1. PICK a \in DOMAIN u : i = k + a /\ r[i] = u[a]
      BY <2>4
    <3>2. PICK b \in DOMAIN u : j = k + b /\ r[j] = u[b]
      BY <2>4
    <3>3. a \in Nat /\ b \in Nat /\ k \in Nat
      BY <1>1
    <3>4. a < b
      BY ONLY <3>1, <3>2, <3>3, i < j
    <3> QED
      BY <1>3, <3>1, <3>2, <3>4 DEF Increasing
  <2> QED
    BY <1>1, <2>1, <2>2, <2>3, <2>4
<1> QED
  BY <1>2, <1>3 DEF r

(* The queue's elements are the numbers after LastGone. *)
LEMMA WaitingAre ==
    ASSUME EchoInv
    PROVE  /\ Len(requestQueue) \in Nat /\ LastGone \in Nat /\ added \in Nat
           /\ added = LastGone + Len(requestQueue)
           /\ DOMAIN requestQueue = 1 .. Len(requestQueue)
           /\ Members(requestQueue) = (LastGone + 1) .. added
           /\ Increasing(requestQueue)
           /\ Requests \subseteq Nat
<1>1. /\ Len(requestQueue) \in Nat /\ DOMAIN requestQueue = 1 .. Len(requestQueue)
      /\ MaxRequests \in Nat /\ added \in 0 .. MaxRequests
  BY LenProperties, EchoAssumption DEF EchoInv, StreamTypeOK
<1>2. LastGone \in Nat /\ added = LastGone + Len(requestQueue) /\ added \in Nat
  BY <1>1 DEF EchoInv, LastGone
<1> DEFINE n == Len(requestQueue)
           b == LastGone
<1>3. \A i \in 1 .. n : requestQueue[i] = b + i
  BY <1>1 DEF EchoInv
<1> HIDE DEF n, b
<1>4. n \in Nat /\ b \in Nat /\ added = b + n /\ DOMAIN requestQueue = 1 .. n
  BY <1>1, <1>2 DEF n, b
<1>5. Members(requestQueue) = (b + 1) .. added
  <2>1. \A m \in (b + 1) .. added : m - b \in 1 .. n /\ m = b + (m - b)
    BY ONLY <1>4
  <2>2. \A i \in 1 .. n : b + i \in (b + 1) .. added
    BY ONLY <1>4
  <2>3. ASSUME NEW m \in (b + 1) .. added PROVE m \in Members(requestQueue)
    <3>1. m - b \in DOMAIN requestQueue /\ requestQueue[m - b] = m
      BY ONLY <1>3, <1>4, <2>1, <2>3
    <3> QED
      BY ONLY <3>1 DEF Members
  <2>4. ASSUME NEW m \in Members(requestQueue) PROVE m \in (b + 1) .. added
    <3>1. PICK i \in 1 .. n : m = requestQueue[i]
      BY ONLY <1>4, <2>4 DEF Members
    <3> QED
      BY ONLY <1>3, <2>2, <3>1
  <2> QED
    BY ONLY <2>3, <2>4
<1>6. Increasing(requestQueue)
  BY ONLY <1>3, <1>4 DEF Increasing
<1>7. Requests \subseteq Nat
  BY <1>1 DEF Requests
<1> QED
  BY <1>1, <1>2, <1>5, <1>6, <1>7 DEF n, b

LEMMA EchoInvIsEnough == EchoInv => EachOnceInOrder
<1> SUFFICES ASSUME EchoInv PROVE EachOnceInOrder
  OBVIOUS
<1> DEFINE all == Gone \o requestQueue
<1>1. Gone \in Seq(Nat) /\ requestQueue \in Seq(Nat)
  <2>1. /\ done \in Seq(Nat) /\ current \in Seq(Nat) /\ requestQueue \in Seq(Nat)
    BY WaitingAre, SeqMonotonic DEF EchoInv, StreamTypeOK
  <2> QED
    BY <2>1, ConcatProperties DEF Gone
<1>2. /\ Members(requestQueue) = (LastGone + 1) .. added
      /\ Increasing(requestQueue)
      /\ LastGone \in Nat /\ added \in Nat /\ LastGone <= added
  BY WaitingAre
<1>3. /\ Increasing(Gone) /\ Members(Gone) = (1 .. LastGone) \ dropped
      /\ dropped \subseteq 1 .. LastGone
  BY DEF EchoInv
<1>4. \A m \in Members(Gone), n \in Members(requestQueue) : m < n
  BY ONLY <1>2, <1>3
<1>5. /\ Members(all) = Members(Gone) \cup Members(requestQueue)
      /\ Increasing(all)
  BY <1>1, <1>2, <1>3, <1>4, ConcatMembers
<1>6. Members(Gone) \cup Members(requestQueue) = (1 .. added) \ dropped
  BY ONLY <1>2, <1>3
<1>7. all = done \o current \o requestQueue
  BY DEF Gone
<1> HIDE DEF all
<1> QED
  BY <1>5, <1>6, <1>7 DEF EachOnceInOrder, Increasing, Members, EchoInv

LEMMA StreamInitInv == StreamInit => EchoInv
<1> SUFFICES ASSUME StreamInit PROVE EchoInv
  OBVIOUS
<1>1. <<>> \o <<>> = <<>> /\ Len(<<>>) = 0 /\ DOMAIN <<>> = {}
  OBVIOUS
<1>2. /\ requestQueue = <<>> /\ done = <<>> /\ current = <<>> /\ added = 0
      /\ dropped = {}
  BY DEF StreamInit
<1>3. LastGone = 0 /\ Gone = <<>>
  <2>1. 0 - 0 = 0
    OBVIOUS
  <2> QED
    BY <1>1, <1>2, <2>1 DEF LastGone, Gone
<1>4. StreamTypeOK
  <2>1. <<>> \in Seq(Requests) /\ Len(<<>>) <= MaxQueue + 1 /\ Len(<<>>) <= 1
    BY ONLY <1>1, EchoAssumption DEF EchoAssumption
  <2>2. 0 \in 0 .. MaxRequests /\ 0 \in Nat
    BY EchoAssumption
  <2> QED
    BY <1>2, <2>1, <2>2 DEF StreamInit, StreamTypeOK
<1>5. 0 >= 0 /\ 1 .. 0 = {}
  OBVIOUS
<1> QED
  BY <1>1, <1>2, <1>3, <1>4, <1>5
     DEF EchoInv, LostOnlyWhenFull, Increasing, Members

(* Dropping the oldest that are too many, and adding one. *)
LEMMA AddInv ==
    ASSUME EchoInv, add_request
    PROVE  EchoInv'
<1> DEFINE q == requestQueue
           n == Len(requestQueue)
           x == Excess
           b == LastGone
           m == added + 1
           rest == SubSeq(q, x + 1, n)
<1>1. /\ n \in Nat /\ b \in Nat /\ added \in Nat /\ added = b + n
      /\ DOMAIN q = 1 .. n /\ q \in Seq(Requests) /\ Requests \subseteq Nat
      /\ n <= MaxQueue + 1 /\ MaxQueue \in Nat /\ MaxRequests \in Nat
      /\ \A i \in 1 .. n : q[i] = b + i
  BY WaitingAre, EchoAssumption DEF EchoInv, StreamTypeOK
<1>2. /\ added < MaxRequests /\ added' = m
      /\ thread' = IF thread = "none" THEN "get" ELSE thread
      /\ dropped' = dropped \cup {q[i] : i \in 1 .. x}
      /\ requestQueue' = Append(rest, m)
      /\ isNotified' \in BOOLEAN
      /\ UNCHANGED <<current, isOpen, isExit, echoes, lost, done>>
  BY DEF add_request, Notified, EchoInv, StreamTypeOK
<1>3. x = IF n > MaxQueue THEN n - MaxQueue ELSE 0
  BY DEF Excess
<1>0. rest = SubSeq(q, x + 1, n) /\ m = added + 1 /\ b = LastGone
      /\ n = Len(requestQueue)
  OBVIOUS
<1> HIDE DEF q, n, x, b, rest, m
<1>4. m \in Requests /\ m \in 0 .. MaxRequests
  BY ONLY <1>0, <1>1, <1>2 DEF Requests
<1>5. /\ x \in Nat /\ x <= n /\ n - x <= MaxQueue /\ n - x \in Nat
      /\ x > 0 => n = MaxQueue + x
  BY ONLY <1>1, <1>3
<1>6. /\ rest \in Seq(Requests) /\ Len(rest) = n - x
      /\ \A i \in 1 .. n - x : rest[i] = b + x + i
  <2>1. \A i \in x + 1 .. n : q[i] \in Requests
    <3>1. \A i \in x + 1 .. n : i \in 1 .. n
      BY ONLY <1>1, <1>5
    <3>2. q \in Seq(Requests) /\ \A i \in 1 .. n : i \in DOMAIN q
      BY <1>1
    <3>3. \A i \in DOMAIN q : q[i] \in Requests
      BY ONLY <3>2, LenProperties, ElementOfSeq
    <3> QED
      BY ONLY <3>1, <3>2, <3>3
  <2>2. /\ rest \in Seq(Requests)
        /\ Len(rest) = IF x + 1 <= n THEN n - (x + 1) + 1 ELSE 0
        /\ \A i \in 1 .. n - (x + 1) + 1 : rest[i] = q[x + 1 + i - 1]
    <3>1. x + 1 \in Int /\ n \in Int
      BY ONLY <1>1, <1>5
    <3> QED
      BY ONLY <1>0, <2>1, <3>1, SubSeqProperties
  <2>3. \A i \in 1 .. n - x : x + 1 + i - 1 = x + i /\ x + i \in 1 .. n
    BY ONLY <1>1, <1>5
  <2>4. n - (x + 1) + 1 = n - x /\ (~(x + 1 <= n) => n - x = 0)
    BY ONLY <1>1, <1>5
  <2>5. Len(rest) = n - x
    BY ONLY <2>2, <2>4
  <2>6. ASSUME NEW i \in 1 .. n - x PROVE rest[i] = b + x + i
    <3>1. rest[i] = q[x + i] /\ x + i \in 1 .. n
      BY ONLY <2>2, <2>3, <2>4, <2>6
    <3>2. q[x + i] = b + (x + i)
      BY ONLY <1>1, <3>1
    <3> QED
      BY ONLY <1>1, <1>5, <3>1, <3>2
  <2> QED
    BY ONLY <2>2, <2>5, <2>6
<1>7. /\ requestQueue' \in Seq(Requests) /\ Len(requestQueue') = n - x + 1
      /\ DOMAIN requestQueue' = 1 .. n - x + 1
      /\ \A i \in 1 .. n - x + 1 : requestQueue'[i] = b + x + i
  <2>1. /\ requestQueue' \in Seq(Requests)
        /\ Len(requestQueue') = Len(rest) + 1
        /\ \A i \in 1 .. Len(rest) : requestQueue'[i] = rest[i]
        /\ requestQueue'[Len(rest) + 1] = m
    BY ONLY <1>2, <1>4, <1>6, AppendProperties
  <2>2. DOMAIN requestQueue' = 1 .. Len(requestQueue')
    BY ONLY <2>1, LenProperties
  <2>3. m = b + x + (n - x + 1)
    BY ONLY <1>0, <1>1, <1>5
  <2>4. \A i \in 1 .. n - x + 1 : i \in 1 .. n - x \/ i = n - x + 1
    BY ONLY <1>1, <1>5
  <2> QED
    BY ONLY <1>6, <2>1, <2>2, <2>3, <2>4
<1>8. LastGone' = b + x /\ Gone' = Gone
  <2>1. LastGone' = m - (n - x + 1)
    BY ONLY <1>2, <1>7 DEF LastGone
  <2>2. m - (n - x + 1) = b + x
    BY ONLY <1>0, <1>1, <1>5
  <2> QED
    BY <1>2, <2>1, <2>2 DEF Gone
<1>9. m = added + 1
  BY <1>0
<1>10. {q[i] : i \in 1 .. x} = b + 1 .. b + x
  <2>1. \A i \in 1 .. x : q[i] = b + i /\ b + i \in b + 1 .. b + x
    BY ONLY <1>1, <1>5
  <2>2. \A k \in b + 1 .. b + x : k - b \in 1 .. x /\ b + (k - b) = k
    BY ONLY <1>1, <1>5
  <2>3. ASSUME NEW k \in b + 1 .. b + x PROVE k \in {q[i] : i \in 1 .. x}
    <3>1. k - b \in 1 .. x /\ q[k - b] = k
      BY ONLY <2>1, <2>2, <2>3
    <3> QED
      BY ONLY <3>1
  <2> QED
    BY ONLY <2>1, <2>3
<1>11. b = LastGone
  BY <1>0
<1>12. /\ dropped \subseteq 1 .. b /\ dropped' = dropped \cup (b + 1 .. b + x)
       /\ Members(Gone) = (1 .. b) \ dropped /\ Increasing(Gone)
       /\ \A id \in dropped : added >= id + MaxQueue + 1
  BY ONLY <1>2, <1>10, <1>11, EchoInv DEF EchoInv, LostOnlyWhenFull
<1>13. /\ dropped' \subseteq 1 .. b + x
       /\ (1 .. b) \ dropped = (1 .. b + x) \ dropped'
  BY ONLY <1>1, <1>5, <1>12
<1>14. ASSUME NEW id \in dropped' PROVE added' >= id + MaxQueue + 1
  <2>1. CASE id \in dropped
    BY ONLY <1>1, <1>2, <1>9, <1>12, <2>1
  <2>2. CASE id \in b + 1 .. b + x
    BY ONLY <1>1, <1>2, <1>5, <1>9, <2>2
  <2> QED
    BY ONLY <1>12, <1>14, <2>1, <2>2
<1>15. StreamTypeOK'
  <2>1. dropped' \subseteq Requests
    <3>1. b + x <= MaxRequests /\ b + x \in Nat
      BY ONLY <1>1, <1>2, <1>5
    <3> QED
      BY ONLY <1>1, <1>13, <3>1 DEF Requests
  <2>2. Len(requestQueue') <= MaxQueue + 1
    BY ONLY <1>1, <1>5, <1>7
  <2>3. thread' \in {"none", "get", "wait", "send", "receive", "blocked", "ended"}
    BY ONLY <1>2, EchoInv DEF EchoInv, StreamTypeOK
  <2>4. StreamTypeOK
    BY ONLY EchoInv DEF EchoInv
  <2> QED
    BY ONLY <1>2, <1>4, <1>7, <2>1, <2>2, <2>3, <2>4 DEF StreamTypeOK, Requests
<1>16. LastGone' >= 0
  BY ONLY <1>1, <1>5, <1>8
<1>17. thread' \in {"none", "get", "wait", "ended"} => current' = <<>>
  BY ONLY <1>2, EchoInv DEF EchoInv
<1>18. Members(Gone)' = (1 .. LastGone') \ dropped' /\ Increasing(Gone)'
  BY ONLY <1>8, <1>12, <1>13 DEF Members, Increasing
<1> QED
  BY ONLY <1>7, <1>8, <1>13, <1>14, <1>15, <1>16, <1>17, <1>18
     DEF EchoInv, LostOnlyWhenFull

(* Taking the first of those that wait. *)
LEMMA TakeInv ==
    ASSUME EchoInv, Take, thread \in {"get", "wait"}, requestQueue # <<>>,
           isNotified' \in BOOLEAN,
           UNCHANGED <<echoes, lost, done, streamVars>>
    PROVE  EchoInv'
<1> DEFINE q == requestQueue
           n == Len(requestQueue)
           b == LastGone
<1>1. /\ n \in Nat /\ b \in Nat /\ added \in Nat /\ added = b + n
      /\ DOMAIN q = 1 .. n /\ q \in Seq(Requests) /\ Requests \subseteq Nat
      /\ \A i \in 1 .. n : q[i] = b + i
      /\ current = <<>> /\ done \in Seq(Requests) /\ done \in Seq(Nat)
      /\ n <= MaxQueue + 1 /\ MaxQueue \in Nat
  BY WaitingAre, EchoAssumption, SeqMonotonic DEF EchoInv, StreamTypeOK
<1>2. n # 0
  BY <1>1, EmptySeq
<1>3. /\ current' = <<Head(q)>> /\ requestQueue' = Tail(q) /\ thread' = "send"
      /\ UNCHANGED <<echoes, lost, done, isOpen, isExit, added, dropped>>
  BY DEF Take, Taken, streamVars
<1>4. /\ Head(q) \in Requests /\ Head(q) = b + 1
      /\ Tail(q) \in Seq(Requests) /\ Len(Tail(q)) = n - 1
      /\ DOMAIN Tail(q) = 1 .. n - 1
      /\ \A i \in 1 .. n - 1 : Tail(q)[i] = b + 1 + i
  <2>1. /\ Head(q) \in Requests /\ Head(q) = q[1]
        /\ Tail(q) \in Seq(Requests) /\ Len(Tail(q)) = n - 1
        /\ \A i \in 1 .. n - 1 : Tail(q)[i] = q[i + 1]
    BY <1>1, <1>2, HeadTailProperties, TailFacts
  <2>2. DOMAIN Tail(q) = 1 .. n - 1
    BY <2>1, LenProperties
  <2> HIDE DEF q, n, b
  <2>3. 1 \in 1 .. n /\ \A i \in 1 .. n - 1 : i + 1 \in 1 .. n /\ b + (i + 1) = b + 1 + i
    BY ONLY <1>1, <1>2
  <2> QED
    BY ONLY <1>1, <2>1, <2>2, <2>3
<1> HIDE DEF q, n, b
<1>5. LastGone' = b + 1
  <2>1. LastGone' = added - (n - 1)
    BY ONLY <1>3, <1>4 DEF LastGone
  <2> QED
    BY ONLY <1>1, <1>2, <2>1
<1>6. /\ Gone = done /\ Gone' = done \o <<b + 1>>
  <2>1. done \o <<>> = done
    BY <1>1, ConcatEmptySeq
  <2> QED
    BY <1>1, <1>3, <1>4, <2>1 DEF Gone
<1>7. /\ Increasing(done) /\ Members(done) = (1 .. b) \ dropped
      /\ dropped \subseteq 1 .. b
  BY <1>6 DEF EchoInv, b
<1>8. /\ <<b + 1>> \in Seq(Nat) /\ Members(<<b + 1>>) = {b + 1}
      /\ Increasing(<<b + 1>>)
  <2>1. b + 1 \in Nat
    BY ONLY <1>1
  <2>2. DOMAIN <<b + 1>> = {1} /\ <<b + 1>>[1] = b + 1 /\ <<b + 1>> \in Seq(Nat)
    BY ONLY <2>1
  <2>3. ~(1 < 1)
    OBVIOUS
  <2> QED
    BY ONLY <2>2, <2>3 DEF Members, Increasing
<1>9. \A i \in Members(done), j \in Members(<<b + 1>>) : i < j
  BY ONLY <1>1, <1>7, <1>8
<1>10. /\ Members(done \o <<b + 1>>) = Members(done) \cup {b + 1}
       /\ Increasing(done \o <<b + 1>>)
  BY <1>1, <1>7, <1>8, <1>9, ConcatMembers
<1>11. /\ Members(done) \cup {b + 1} = (1 .. b + 1) \ dropped
       /\ dropped \subseteq 1 .. b + 1
  BY ONLY <1>1, <1>7
<1>12. StreamTypeOK'
  <2>1. <<Head(q)>> \in Seq(Requests) /\ Len(<<Head(q)>>) = 1
    BY ONLY <1>4
  <2>2. n - 1 <= MaxQueue + 1
    BY ONLY <1>1
  <2>3. StreamTypeOK
    BY DEF EchoInv
  <2> QED
    BY <1>3, <1>4, <2>1, <2>2, <2>3 DEF StreamTypeOK
<1>13. LostOnlyWhenFull'
  BY <1>3 DEF EchoInv, LostOnlyWhenFull
<1>14. b + 1 >= 0
  BY ONLY <1>1
<1>15. Increasing(Gone)' /\ Members(Gone)' = (1 .. LastGone') \ dropped'
  BY ONLY <1>3, <1>5, <1>6, <1>10, <1>11 DEF Increasing, Members
<1> QED
  BY ONLY <1>3, <1>4, <1>5, <1>11, <1>12, <1>13, <1>14, <1>15 DEF EchoInv

(* A request moves from the thread's hands to what it is done with. *)
LEMMA FinishInv ==
    ASSUME EchoInv, FinishRequest, echoes' \in Nat, lost' \in BOOLEAN,
           UNCHANGED <<isNotified, streamVars>>
    PROVE  EchoInv'
<1>1. /\ thread' = "get" /\ done' = done \o current /\ current' = <<>>
      /\ UNCHANGED <<requestQueue, isNotified, isOpen, isExit, added, dropped>>
  BY DEF FinishRequest, streamVars
<1>2. done \in Seq(Requests) /\ current \in Seq(Requests)
  BY DEF EchoInv, StreamTypeOK
<1>3. done' \in Seq(Requests)
  BY <1>1, <1>2, ConcatProperties
<1>4. Gone' = Gone /\ LastGone' = LastGone
  <2>1. (done \o current) \o <<>> = done \o current
    BY <1>2, ConcatProperties, ConcatEmptySeq
  <2> QED
    BY <1>1, <2>1 DEF Gone, LastGone
<1>5. StreamTypeOK'
  <2>1. <<>> \in Seq(Requests) /\ Len(<<>>) <= 1
    OBVIOUS
  <2>2. StreamTypeOK
    BY DEF EchoInv
  <2> QED
    BY <1>1, <1>3, <2>1, <2>2 DEF StreamTypeOK
<1> QED
  BY <1>1, <1>4, <1>5 DEF EchoInv, LostOnlyWhenFull, Increasing, Members

(* All that the order of the requests depends on stays. *)
LEMMA OrderStays ==
    ASSUME EchoInv, StreamTypeOK',
           UNCHANGED <<requestQueue, current, done, added, dropped>>,
           thread' \in {"none", "get", "wait", "ended"} =>
               thread \in {"none", "get", "wait", "ended"}
    PROVE  EchoInv'
BY DEF EchoInv, LostOnlyWhenFull, Increasing, Members, Gone, LastGone

LEMMA EchoStep ==
    ASSUME EchoInv, [StreamNext]_echoVars
    PROVE  EchoInv'
<1> USE DEF EchoInv
<1>1. StreamTypeOK
  OBVIOUS
<1>2. CASE add_request
  BY <1>2, AddInv
<1>3. CASE exit_thread
  <2>1. StreamTypeOK'
    BY <1>1, <1>3 DEF exit_thread, StreamTypeOK, Notified
  <2> QED
    BY <1>3, <2>1, OrderStays DEF exit_thread
<1>4. CASE get_request
  <2>1. CASE Take /\ requestQueue # <<>>
    BY <1>4, <2>1, TakeInv DEF get_request
  <2>2. CASE \E where \in {"ended", "wait"} : Go(where)
    <3>1. StreamTypeOK'
      BY <1>1, <1>4, <2>2 DEF get_request, Go, StreamTypeOK, streamVars
    <3> QED
      BY <1>4, <2>2, <3>1, OrderStays DEF get_request, Go, streamVars
  <2> QED
    BY <1>4, <2>1, <2>2 DEF get_request
<1>5. CASE WakesUp
  <2>1. CASE Take /\ requestQueue # <<>>
    BY <1>5, <2>1, TakeInv DEF WakesUp
  <2>2. CASE \E where \in {"ended", "wait"} : Go(where)
    <3>1. StreamTypeOK'
      BY <1>1, <1>5, <2>2 DEF WakesUp, Go, StreamTypeOK, streamVars
    <3> QED
      BY <1>5, <2>2, <3>1, OrderStays DEF WakesUp, Go, streamVars
  <2> QED
    BY <1>5, <2>1, <2>2 DEF WakesUp
<1>6. CASE send_to
  <2>1. CASE isOpen
    <3>1. /\ thread' = "receive" /\ echoes' \in {echoes, echoes + 1}
          /\ lost' \in {lost, TRUE}
          /\ UNCHANGED <<requestQueue, current, done, isNotified, streamVars>>
      BY <1>6, <2>1 DEF send_to, StreamTypeOK
    <3>2. StreamTypeOK'
      <4>1. echoes' \in Nat
        BY <1>1, <3>1 DEF StreamTypeOK
      <4>2. lost' \in BOOLEAN
        BY <1>1, <3>1, Zenon DEF StreamTypeOK
      <4> QED
        BY <1>1, <3>1, <4>1, <4>2 DEF StreamTypeOK, streamVars
    <3> QED
      BY <3>1, <3>2, OrderStays DEF streamVars
  <2>2. CASE ~isOpen
    BY <1>1, <1>6, <2>2, FinishInv DEF send_to, StreamTypeOK
  <2> QED
    BY <2>1, <2>2
<1>7. CASE receive_from
  <2>1. CASE thread = "receive" /\ Go("blocked")
    <3>1. StreamTypeOK'
      BY <1>1, <1>7, <2>1 DEF receive_from, Go, StreamTypeOK, streamVars, FinishRequest
    <3> QED
      BY <1>7, <2>1, <3>1, OrderStays DEF receive_from, Go, streamVars, FinishRequest
  <2>2. CASE FinishRequest /\ echoes' \in Nat
    BY <1>1, <1>7, <2>2, FinishInv DEF receive_from, StreamTypeOK
  <2> QED
    BY <1>1, <1>7, <2>1, <2>2 DEF receive_from, StreamTypeOK
<1>8. CASE receive_from_closed
  BY <1>1, <1>8, FinishInv DEF receive_from_closed, StreamTypeOK
<1>9. CASE UNCHANGED echoVars
  <2>1. StreamTypeOK'
    BY <1>1, <1>9 DEF echoVars, StreamTypeOK
  <2> QED
    BY <1>9, <2>1, OrderStays DEF echoVars
<1> QED
  BY <1>2, <1>3, <1>4, <1>5, <1>6, <1>7, <1>8, <1>9 DEF StreamNext, thread_main

-----------------------------------------------------------------------------
(* The lines of an echo_ostream *)

(* IsTextOf, and Ends, of any characters. *)
TextOf(w, line, from, to) ==
    /\ from + Len(line) <= to
    /\ \A i \in DOMAIN line : line[i] = w[from + i]
    /\ \A i \in from + Len(line) + 1 .. to : w[i] \notin Text
EndsOf(w) ==
    {i \in DOMAIN w : \/ w[i] = "LF"
                      \/ w[i] = "CR" /\ i < Len(w) /\ w[i + 1] # "LF"}

LastCut == IF lines = <<>> THEN 0 ELSE cuts[Len(lines)]

PiecesInv(w) == \A k \in DOMAIN lines : TextOf(w, lines[k], Buf!From(k), cuts[k])
EndsInv(w) ==
    /\ \A i \in EndsOf(w) : \E k \in DOMAIN cuts : cuts[k] = i
    /\ ~synced => \A k \in DOMAIN cuts :
                     cuts[k] \in EndsOf(w) /\ \A j \in 1 .. k - 1 : cuts[j] < cuts[k]

(* The pieces end where something was written, and without a CR that waits  *)
(* the buffer has all that came after the last of them.                     *)
LinesInv ==
    /\ Buf!TypeOK
    /\ added = Len(lines)
    /\ PiecesInv(typed)
    /\ TextOf(typed, buffer, LastCut, Len(typed))
    /\ EndsInv(typed)
    /\ \A k \in DOMAIN cuts : cuts[k] <= Len(typed)
    /\ prevCr => Len(typed) # 0 /\ typed[Len(typed)] = "CR"
    /\ ~prevCr => LastCut + Len(buffer) = Len(typed)
                  /\ (Len(typed) # 0 => typed[Len(typed)] # "CR")

LEMMA LinesTypes ==
    ASSUME LinesInv
    PROVE  /\ buffer \in Seq(Text) /\ typed \in Seq(Buf!Chars)
           /\ lines \in Seq(Seq(Text)) /\ cuts \in Seq(Nat)
           /\ Len(cuts) = Len(lines) /\ Len(lines) \in Nat /\ Len(typed) \in Nat
           /\ Len(buffer) \in Nat /\ LastCut \in Nat
           /\ DOMAIN lines = 1 .. Len(lines) /\ DOMAIN cuts = 1 .. Len(lines)
           /\ DOMAIN typed = 1 .. Len(typed) /\ DOMAIN buffer = 1 .. Len(buffer)
           /\ \A k \in 1 .. Len(lines) : cuts[k] \in Nat
           /\ \A k \in 1 .. Len(lines) + 1 : Buf!From(k) \in Nat
           /\ Buf!From(Len(lines) + 1) = LastCut
           /\ lines = <<>> <=> Len(lines) = 0
<1>1. /\ buffer \in Seq(Text) /\ typed \in Seq(Buf!Chars)
      /\ lines \in Seq(Seq(Text)) /\ cuts \in Seq(Nat) /\ Len(cuts) = Len(lines)
  BY DEF LinesInv, Buf!TypeOK
<1>2. /\ Len(lines) \in Nat /\ Len(typed) \in Nat /\ Len(buffer) \in Nat
      /\ DOMAIN lines = 1 .. Len(lines) /\ DOMAIN cuts = 1 .. Len(lines)
      /\ DOMAIN typed = 1 .. Len(typed) /\ DOMAIN buffer = 1 .. Len(buffer)
      /\ \A k \in 1 .. Len(lines) : cuts[k] \in Nat
  BY <1>1, LenProperties, ElementOfSeq
<1>3. lines = <<>> <=> Len(lines) = 0
  BY <1>1, <1>2, EmptySeq
<1>4. \A n \in Nat : \A k \in 1 .. n + 1 : k = 1 \/ k - 1 \in 1 .. n
  OBVIOUS
<1>5. \A n \in Nat : (n + 1) - 1 = n /\ (n + 1 = 1 <=> n = 0) /\ (n # 0 => n \in 1 .. n)
  OBVIOUS
<1>6. /\ \A k \in 1 .. Len(lines) + 1 : Buf!From(k) \in Nat
      /\ Buf!From(Len(lines) + 1) = LastCut
  BY <1>2, <1>3, <1>4, <1>5 DEF Buf!From, LastCut
<1>7. LastCut \in Nat
  BY ONLY <1>2, <1>5, <1>6
<1> QED
  BY <1>1, <1>2, <1>3, <1>6, <1>7

LEMMA LinesInvIsEnough == LinesInv => LinesAreSplit
<1> SUFFICES ASSUME LinesInv PROVE LinesAreSplit
  OBVIOUS
<1>1. Buf!From(Len(lines) + 1) = LastCut
  BY LinesTypes
<1>2. \A line, from, to : Buf!IsTextOf(line, from, to) = TextOf(typed, line, from, to)
  BY DEF Buf!IsTextOf, TextOf
<1>3. Buf!Ends = EndsOf(typed)
  BY DEF Buf!Ends, EndsOf
<1> QED
  BY <1>1, <1>2, <1>3 DEF LinesAreSplit, Buf!LinesAreSplit, LinesInv, PiecesInv, EndsInv

LEMMA OutputInitInv == OutputInit => LinesInv
<1> SUFFICES ASSUME OutputInit PROVE LinesInv
  OBVIOUS
<1>1. /\ buffer = <<>> /\ prevCr = FALSE /\ typed = <<>> /\ lines = <<>>
      /\ cuts = <<>> /\ synced = FALSE /\ added = 0
  BY DEF OutputInit, Buf!Init, StreamInit
<1>2. Len(<<>>) = 0 /\ DOMAIN <<>> = {} /\ \A S : <<>> \in Seq(S)
  OBVIOUS
<1>3. Buf!TypeOK
  BY <1>1, <1>2 DEF Buf!TypeOK
<1>4. 0 + 0 <= 0 /\ 0 + 0 + 1 .. 0 = {} /\ 0 + 0 = 0
  OBVIOUS
<1> QED
  BY ONLY <1>1, <1>2, <1>3, <1>4
     DEF LinesInv, PiecesInv, TextOf, LastCut, EndsInv, EndsOf

(* A character behind a text leaves what was before it. *)
LEMMA TextKept ==
    ASSUME NEW w, NEW v, NEW n \in Nat, \A i \in 1 .. n : v[i] = w[i],
           NEW line, NEW m \in Nat, Len(line) = m, DOMAIN line = 1 .. m,
           NEW from \in Nat, NEW to \in Nat, to <= n, TextOf(w, line, from, to)
    PROVE  TextOf(v, line, from, to)
<1>1. /\ from + m <= to
      /\ \A i \in 1 .. m : line[i] = w[from + i]
      /\ \A i \in from + m + 1 .. to : w[i] \notin Text
  BY DEF TextOf
<1>2. /\ \A i \in 1 .. m : from + i \in 1 .. n
      /\ \A i \in from + m + 1 .. to : i \in 1 .. n
  BY ONLY <1>1, from \in Nat, to \in Nat, n \in Nat, m \in Nat, to <= n
<1> QED
  BY <1>1, <1>2 DEF TextOf

(* The end that a character tells of. *)
LEMMA EndsGrow ==
    ASSUME NEW S, NEW w \in Seq(S), NEW c \in S, NEW n \in Nat, Len(w) = n
    PROVE  EndsOf(Append(w, c)) = EndsOf(w) \cup
              (IF c = "LF" THEN {n + 1}
               ELSE IF n # 0 /\ w[n] = "CR" THEN {n} ELSE {})
<1> DEFINE v == Append(w, c)
<1>1. /\ DOMAIN w = 1 .. n /\ DOMAIN v = 1 .. n + 1 /\ Len(v) = n + 1
      /\ v[n + 1] = c /\ \A i \in 1 .. n : v[i] = w[i]
  BY AppendFacts, AppendProperties
<1> HIDE DEF v
<1>2. ASSUME NEW i \in 1 .. n + 1
      PROVE  i \in EndsOf(v) <=> \/ i \in EndsOf(w)
                                 \/ c = "LF" /\ i = n + 1
                                 \/ c # "LF" /\ i = n /\ w[n] = "CR"
  <2>1. CASE i = n + 1
    <3>1. ~(i < n + 1) /\ i \notin 1 .. n /\ i # n
      BY ONLY <2>1, n \in Nat
    <3>2. v[i] = c
      BY ONLY <1>1, <2>1
    <3> QED
      BY ONLY <1>1, <1>2, <2>1, <3>1, <3>2 DEF EndsOf
  <2>2. CASE i = n
    <3>1. i \in 1 .. n /\ ~(i < n) /\ i < n + 1 /\ i # n + 1
      BY ONLY <2>2, <1>2, n \in Nat
    <3>2. v[i] = w[n] /\ v[i + 1] = c
      BY ONLY <1>1, <2>2, <3>1
    <3>3. "CR" # "LF"
      OBVIOUS
    <3> QED
      BY ONLY <1>1, <1>2, <2>2, <3>1, <3>2, <3>3, Len(w) = n DEF EndsOf
  <2>3. CASE i # n /\ i # n + 1
    <3>1. i \in 1 .. n /\ i + 1 \in 1 .. n /\ i < n /\ i < n + 1
      BY ONLY <2>3, <1>2, n \in Nat
    <3>2. v[i] = w[i] /\ v[i + 1] = w[i + 1]
      BY ONLY <1>1, <3>1
    <3> QED
      BY ONLY <1>1, <1>2, <2>3, <3>1, <3>2, Len(w) = n DEF EndsOf
  <2> QED
    BY <2>1, <2>2, <2>3
<1>3. EndsOf(v) \subseteq 1 .. n + 1 /\ EndsOf(w) \subseteq 1 .. n + 1
  BY <1>1 DEF EndsOf
<1>4. n + 1 \in 1 .. n + 1 /\ (n # 0 => n \in 1 .. n + 1)
  BY ONLY n \in Nat
<1>5. 0 \notin 1 .. n + 1
  BY ONLY n \in Nat
<1>6. ASSUME NEW i
      PROVE  i \in EndsOf(v) <=> i \in EndsOf(w) \cup
                (IF c = "LF" THEN {n + 1}
                 ELSE IF n # 0 /\ w[n] = "CR" THEN {n} ELSE {})
  <2>1. CASE i \in 1 .. n + 1
    BY ONLY <1>2, <1>4, <1>5, <2>1
  <2>2. CASE i \notin 1 .. n + 1
    BY ONLY <1>3, <1>4, <2>2
  <2> QED
    BY ONLY <2>1, <2>2
<1> QED
  BY <1>6 DEF v

(* What was written after the last cut ends a line there. *)
Cuts(w, cut) ==
    /\ lines' = Append(lines, buffer) /\ cuts' = Append(cuts, cut)
    /\ TextOf(w, buffer, LastCut, cut)

(* A new piece behind the others. *)
LEMMA CutFacts ==
    ASSUME LinesInv, NEW w, NEW cut \in Nat, cut <= Len(w), Len(w) \in Nat,
           Len(typed) <= Len(w), \A i \in 1 .. Len(typed) : w[i] = typed[i],
           Cuts(w, cut)
    PROVE  /\ \A k \in DOMAIN lines' : TextOf(w, lines'[k], Buf!From(k)', cuts'[k])
           /\ LastCut' = cut
           /\ lines' \in Seq(Seq(Text)) /\ cuts' \in Seq(Nat)
           /\ Len(lines') = Len(lines) + 1 /\ Len(cuts') = Len(lines')
           /\ lines' # lines
           /\ \A k \in DOMAIN cuts' : cuts'[k] <= Len(w)
<1> DEFINE n == Len(lines)
<1>1. /\ n \in Nat /\ DOMAIN lines = 1 .. n /\ DOMAIN cuts = 1 .. n
      /\ lines \in Seq(Seq(Text)) /\ cuts \in Seq(Nat) /\ buffer \in Seq(Text)
      /\ Len(cuts) = n
      /\ \A k \in 1 .. n : cuts[k] \in Nat
      /\ \A k \in 1 .. n + 1 : Buf!From(k) \in Nat
      /\ Buf!From(n + 1) = LastCut
      /\ Len(typed) \in Nat
  BY LinesTypes
<1>2. /\ lines' \in Seq(Seq(Text)) /\ Len(lines') = n + 1
      /\ \A k \in 1 .. n : lines'[k] = lines[k]
      /\ lines'[n + 1] = buffer
      /\ cuts' \in Seq(Nat) /\ Len(cuts') = n + 1
      /\ \A k \in 1 .. n : cuts'[k] = cuts[k]
      /\ cuts'[n + 1] = cut
  BY <1>1, AppendProperties DEF Cuts
<1>3. DOMAIN lines' = 1 .. n + 1 /\ DOMAIN cuts' = 1 .. n + 1
  BY <1>2, LenProperties
<1> HIDE DEF n
<1>4. \A k \in 1 .. n + 1 : /\ (k \in 1 .. n \/ k = n + 1)
                           /\ (k = 1 \/ k - 1 \in 1 .. n)
  BY ONLY <1>1
<1>5. ASSUME NEW k \in 1 .. n + 1 PROVE Buf!From(k)' = Buf!From(k)
  <2>1. CASE k = 1
    BY ONLY <2>1 DEF Buf!From
  <2>2. CASE k - 1 \in 1 .. n
    BY ONLY <1>2, <2>2 DEF Buf!From
  <2> QED
    BY <1>4, <2>1, <2>2
<1>6. ASSUME NEW k \in 1 .. n PROVE TextOf(w, lines[k], Buf!From(k), cuts[k])
  <2>1. lines[k] \in Seq(Text)
    BY <1>1 , <1>6, ElementOfSeq DEF n
  <2>2. Len(lines[k]) \in Nat /\ DOMAIN lines[k] = 1 .. Len(lines[k])
    BY <2>1, LenProperties
  <2>3. TextOf(typed, lines[k], Buf!From(k), cuts[k]) /\ cuts[k] <= Len(typed)
    BY <1>1, <1>6 DEF LinesInv, PiecesInv
  <2>4. Buf!From(k) \in Nat /\ cuts[k] \in Nat
    <3>1. k \in 1 .. n + 1
      BY ONLY <1>1, <1>6
    <3> QED
      BY <1>1, <1>6, <3>1
  <2> QED
    BY <1>1, <2>2, <2>3, <2>4, TextKept
<1>7. ASSUME NEW k \in 1 .. n + 1
      PROVE  TextOf(w, lines'[k], Buf!From(k)', cuts'[k])
  <2>1. CASE k \in 1 .. n
    BY <1>2, <1>5, <1>6, <1>7, <2>1
  <2>2. CASE k = n + 1
    BY <1>1, <1>2, <1>5, <1>7, <2>2 DEF Cuts
  <2> QED
    BY <1>4, <1>7, <2>1, <2>2
<1>8. LastCut' = cut
  <2>1. lines' # <<>>
    BY ONLY <1>1, <1>2, EmptySeq
  <2> QED
    BY <1>2, <2>1 DEF LastCut
<1>9. lines' # lines
  BY ONLY <1>1, <1>2 DEF n
<1>10. ASSUME NEW k \in 1 .. n + 1 PROVE cuts'[k] <= Len(w)
  <2>1. CASE k \in 1 .. n
    <3>1. cuts[k] <= Len(typed) /\ cuts[k] \in Nat /\ cuts'[k] = cuts[k]
      BY <1>1, <1>2, <2>1 DEF LinesInv
    <3> QED
      BY ONLY <1>1, <3>1, Len(w) \in Nat, Len(typed) <= Len(w)
  <2>2. CASE k = n + 1
    BY <1>2, <2>2
  <2> QED
    BY <1>4, <1>10, <2>1, <2>2
<1> QED
  BY <1>2, <1>3, <1>7, <1>8, <1>9, <1>10 DEF n

(* The cuts after a new one, which is after the others or a flush's. *)
LEMMA CutEnds ==
    ASSUME LinesInv, NEW cut \in Nat, cuts' = Append(cuts, cut), NEW E,
           \A i \in E : i = cut \/ i \in EndsOf(typed),
           synced' \/ /\ ~synced /\ cut \in E
                      /\ EndsOf(typed) \subseteq E
                      /\ \A i \in EndsOf(typed) : i < cut
    PROVE  /\ \A i \in E : \E k \in DOMAIN cuts' : cuts'[k] = i
           /\ ~synced' => \A k \in DOMAIN cuts' :
                 cuts'[k] \in E /\ \A j \in 1 .. k - 1 : cuts'[j] < cuts'[k]
<1> DEFINE n == Len(lines)
<1>1. /\ n \in Nat /\ DOMAIN cuts = 1 .. n /\ cuts \in Seq(Nat) /\ Len(cuts) = n
  BY LinesTypes
<1>2. /\ cuts' \in Seq(Nat) /\ Len(cuts') = n + 1
      /\ \A k \in 1 .. n : cuts'[k] = cuts[k]
      /\ cuts'[n + 1] = cut
  BY <1>1, AppendProperties
<1>3. DOMAIN cuts' = 1 .. n + 1
  BY <1>2, LenProperties
<1>4. EndsInv(typed)
  BY DEF LinesInv
<1> HIDE DEF n
<1>5. /\ n + 1 \in 1 .. n + 1
      /\ \A k \in 1 .. n + 1 : k \in 1 .. n \/ k = n + 1
      /\ \A k \in 1 .. n : k \in 1 .. n + 1 /\ \A j \in 1 .. k - 1 : j \in 1 .. n
      /\ \A j \in 1 .. (n + 1) - 1 : j \in 1 .. n
  BY ONLY <1>1
<1>6. ASSUME NEW i \in E PROVE \E k \in 1 .. n + 1 : cuts'[k] = i
  <2>1. CASE i = cut
    BY ONLY <1>2, <1>5, <2>1
  <2>2. CASE i \in EndsOf(typed)
    <3>1. PICK k \in 1 .. n : cuts[k] = i
      BY ONLY <1>1, <1>4, <2>2 DEF EndsInv
    <3> QED
      BY ONLY <1>2, <1>5, <3>1
  <2> QED
    BY <1>6, <2>1, <2>2
<1>7. ASSUME ~synced', NEW k \in 1 .. n + 1
      PROVE  cuts'[k] \in E /\ \A j \in 1 .. k - 1 : cuts'[j] < cuts'[k]
  <2>1. /\ ~synced /\ cut \in E /\ EndsOf(typed) \subseteq E
        /\ \A i \in EndsOf(typed) : i < cut
    BY <1>7
  <2>2. \A l \in 1 .. n : /\ cuts[l] \in EndsOf(typed)
                          /\ \A j \in 1 .. l - 1 : cuts[j] < cuts[l]
    BY ONLY <1>1, <1>4, <2>1 DEF EndsInv
  <2>3. CASE k \in 1 .. n
    BY ONLY <1>2, <1>5, <2>1, <2>2, <2>3
  <2>4. CASE k = n + 1
    BY ONLY <1>2, <1>5, <2>1, <2>2, <2>4
  <2> QED
    BY <1>5, <1>7, <2>3, <2>4
<1> QED
  BY <1>3, <1>6, <1>7

(* A character is written. *)
LEMMA OverflowInv ==
    ASSUME LinesInv, OutputAssumption, NEW c \in Buf!Chars, Buf!overflow(c),
           added' = added + (IF lines' # lines THEN 1 ELSE 0)
    PROVE  LinesInv'
<1> DEFINE l == Len(typed)
           w == Append(typed, c)
<1>1. /\ typed' = w /\ prevCr' = (c = "CR") /\ synced' = synced
      /\ IF prevCr \/ c = "LF"
         THEN lines' = Append(lines, buffer) ELSE lines' = lines
      /\ cuts' = IF c = "LF" THEN Append(cuts, l + 1)
                 ELSE IF prevCr THEN Append(cuts, l) ELSE cuts
      /\ buffer' = IF c = "LF" THEN <<>>
                   ELSE Buf!Pushed(IF prevCr THEN <<>> ELSE buffer, c)
  <2>1. c = "LF" => Buf!Pushed(<<>>, c) = <<>>
    BY DEF Buf!Pushed, OutputAssumption
  <2> QED
    BY <2>1 DEF Buf!overflow, Buf!Flushed, Buf!EndsLine, Buf!Cut
<1>2. /\ l \in Nat /\ LastCut \in Nat /\ Len(buffer) \in Nat
      /\ buffer \in Seq(Text) /\ typed \in Seq(Buf!Chars)
      /\ DOMAIN buffer = 1 .. Len(buffer)
      /\ lines \in Seq(Seq(Text)) /\ cuts \in Seq(Nat) /\ Len(cuts) = Len(lines)
      /\ Len(lines) \in Nat
  BY LinesTypes
<1>3. /\ w \in Seq(Buf!Chars) /\ Len(w) = l + 1
      /\ \A i \in 1 .. l : w[i] = typed[i]
      /\ w[l + 1] = c
  BY <1>2, AppendProperties
<1>4. /\ TextOf(typed, buffer, LastCut, l) /\ EndsInv(typed) /\ PiecesInv(typed)
      /\ prevCr => l # 0 /\ typed[l] = "CR"
      /\ ~prevCr => LastCut + Len(buffer) = l /\ (l # 0 => typed[l] # "CR")
      /\ \A k \in DOMAIN cuts : cuts[k] <= l
      /\ prevCr \in BOOLEAN /\ synced \in BOOLEAN
      /\ added = Len(lines)
  BY DEF LinesInv, Buf!TypeOK
<1>5. EndsOf(w) = EndsOf(typed) \cup
         (IF c = "LF" THEN {l + 1} ELSE IF prevCr THEN {l} ELSE {})
  <2>1. EndsOf(w) = EndsOf(typed) \cup
           (IF c = "LF" THEN {l + 1}
            ELSE IF l # 0 /\ typed[l] = "CR" THEN {l} ELSE {})
    BY <1>2, EndsGrow
  <2> QED
    BY ONLY <1>4, <2>1
<1>6. \A i \in EndsOf(typed) : i \in Nat /\ i <= l /\ (prevCr => i < l)
  <2>1. DOMAIN typed = 1 .. l
    BY LinesTypes
  <2> HIDE DEF l
  <2>2. \A i \in EndsOf(typed) : i \in 1 .. l /\ (typed[i] = "CR" => i < l)
    <3>1. "CR" # "LF" /\ l = Len(typed)
      BY DEF l
    <3> QED
      BY ONLY <2>1, <3>1 DEF EndsOf
  <2>3. \A i \in 1 .. l : i \in Nat /\ i <= l /\ (i < l \/ i = l)
    BY ONLY <1>2
  <2> QED
    BY ONLY <1>4, <2>2, <2>3
<1>7. c = "CR" \/ c = "LF" \/ c \in Text
  BY DEF Buf!Chars
<1>8. "CR" \notin Text /\ "LF" \notin Text /\ "CR" # "LF"
  BY DEF OutputAssumption
<1>9. Buf!TypeOK' <=> /\ buffer' \in Seq(Text) /\ lines' \in Seq(Seq(Text))
                      /\ cuts' \in Seq(Nat) /\ Len(cuts') = Len(lines')
  <2>1. typed' \in Seq(Buf!Chars)
    BY <1>1, <1>3
  <2>2. prevCr' \in BOOLEAN /\ synced' \in BOOLEAN
    BY <1>1, <1>4
  <2> QED
    BY <2>1, <2>2 DEF Buf!TypeOK
<1>10. typed' = w /\ Len(typed') = l + 1 /\ typed'[l + 1] = c
  BY <1>1, <1>3
<1>11. l + 1 \in Nat /\ l + 1 # 0 /\ l <= l + 1 /\ l + 1 <= l + 1 /\ l + 1 - 0 = l + 1
  BY <1>2
<1> HIDE DEF l, w
<1>12. l = Len(typed)
  BY DEF l
(* It ends a piece. *)
<1>13. ASSUME prevCr \/ c = "LF" PROVE LinesInv'
  <2> DEFINE cut == IF c = "LF" THEN l + 1 ELSE l
  <2>1. lines' = Append(lines, buffer) /\ cuts' = Append(cuts, cut)
    BY <1>1, <1>13
  <2>2. cut \in Nat /\ cut <= l + 1 /\ l <= cut
    BY ONLY <1>2
  <2>3. TextOf(w, buffer, LastCut, cut)
    <3>1. TextOf(w, buffer, LastCut, l)
      <4>1. l <= l
        BY ONLY <1>2
      <4> QED
        BY <1>2, <1>3, <1>4, <4>1, TextKept
    <3>2. CASE c = "LF"
      <4>1. \A i \in LastCut + Len(buffer) + 1 .. l + 1 :
               i \in LastCut + Len(buffer) + 1 .. l \/ i = l + 1
        BY ONLY <1>2
      <4>2. LastCut + Len(buffer) <= l => LastCut + Len(buffer) <= l + 1
        BY ONLY <1>2
      <4> QED
        BY ONLY <1>3, <1>8, <3>1, <3>2, <4>1, <4>2 DEF TextOf
    <3>3. CASE c # "LF"
      BY <3>1, <3>3
    <3> QED
      BY <3>2, <3>3
  <2> HIDE DEF cut
  <2>4. Cuts(w, cut)
    BY <2>1, <2>3 DEF Cuts
  <2>5. /\ \A k \in DOMAIN lines' : TextOf(w, lines'[k], Buf!From(k)', cuts'[k])
        /\ LastCut' = cut
        /\ lines' \in Seq(Seq(Text)) /\ cuts' \in Seq(Nat)
        /\ Len(lines') = Len(lines) + 1 /\ Len(cuts') = Len(lines')
        /\ lines' # lines
        /\ \A k \in DOMAIN cuts' : cuts'[k] <= Len(w)
    BY <1>3, <1>11, <1>12, <2>2, <2>4, CutFacts
  <2>6. EndsOf(w) = EndsOf(typed) \cup {cut}
    BY <1>5, <1>13 DEF cut
  <2>7. \A i \in EndsOf(typed) : i < cut
    <3>1. CASE c = "LF"
      BY ONLY <1>2, <1>6, <3>1 DEF cut
    <3>2. CASE c # "LF"
      BY ONLY <1>6, <1>13, <3>2 DEF cut
    <3> QED
      BY <3>1, <3>2
  <2>8. EndsInv(typed)'
    <3>1. /\ \A i \in EndsOf(w) : i = cut \/ i \in EndsOf(typed)
          /\ cut \in EndsOf(w) /\ EndsOf(typed) \subseteq EndsOf(w)
          /\ synced' \/ ~synced
      BY <1>1, <1>4, <2>6
    <3>2. /\ \A i \in EndsOf(w) : \E k \in DOMAIN cuts' : cuts'[k] = i
          /\ ~synced' => \A k \in DOMAIN cuts' :
                cuts'[k] \in EndsOf(w) /\ \A j \in 1 .. k - 1 : cuts'[j] < cuts'[k]
      BY <2>1, <2>2, <2>7, <3>1, CutEnds
    <3>3. EndsInv(typed)' <=>
             /\ \A i \in EndsOf(typed') : \E k \in DOMAIN cuts' : cuts'[k] = i
             /\ ~synced' => \A k \in DOMAIN cuts' :
                   /\ cuts'[k] \in EndsOf(typed')
                   /\ \A j \in 1 .. k - 1 : cuts'[j] < cuts'[k]
      BY DEF EndsInv, EndsOf
    <3> QED
      BY ONLY <1>10, <3>2, <3>3
  <2>9. /\ buffer' \in Seq(Text)
        /\ TextOf(w, buffer', cut, l + 1)
        /\ c # "CR" => cut + Len(buffer') = l + 1
    <3>1. CASE c = "LF"
      <4>1. buffer' = <<>> /\ cut = l + 1
        BY <1>1, <3>1 DEF cut
      <4>2. <<>> \in Seq(Text) /\ Len(<<>>) = 0 /\ DOMAIN <<>> = {}
        OBVIOUS
      <4>3. l + 1 + 0 <= l + 1 /\ l + 1 + 0 + 1 .. l + 1 = {} /\ l + 1 + 0 = l + 1
        BY ONLY <1>2
      <4> QED
        BY ONLY <4>1, <4>2, <4>3 DEF TextOf
    <3>2. CASE c = "CR"
      <4>1. buffer' = <<>> /\ cut = l
        BY <1>1, <1>8, <1>13, <3>2 DEF cut, Buf!Pushed
      <4>2. <<>> \in Seq(Text) /\ Len(<<>>) = 0 /\ DOMAIN <<>> = {}
        OBVIOUS
      <4>3. l + 0 <= l + 1 /\ \A i \in l + 0 + 1 .. l + 1 : i = l + 1
        BY ONLY <1>2
      <4> QED
        BY ONLY <1>3, <1>8, <3>2, <4>1, <4>2, <4>3 DEF TextOf
    <3>3. CASE c \in Text
      <4>1. buffer' = <<c>> /\ cut = l
        <5>1. buffer' = Append(<<>>, c)
          BY <1>1, <1>8, <1>13, <3>3 DEF Buf!Pushed
        <5> QED
          BY <1>8, <3>3, <5>1 DEF cut
      <4>2. /\ <<c>> \in Seq(Text) /\ Len(<<c>>) = 1 /\ DOMAIN <<c>> = {1}
            /\ <<c>>[1] = c
        BY ONLY <3>3
      <4>3. l + 1 <= l + 1 /\ l + 1 + 1 .. l + 1 = {}
        BY ONLY <1>2
      <4> QED
        BY ONLY <1>3, <4>1, <4>2, <4>3 DEF TextOf
    <3> QED
      BY <1>7, <3>1, <3>2, <3>3
  <2>10. added' = Len(lines')
    BY <1>4, <2>5
  <2>11. PiecesInv(typed)'
    <3>1. PiecesInv(typed)' <=> \A k \in DOMAIN lines' :
             TextOf(typed', lines'[k], Buf!From(k)', cuts'[k])
      BY DEF PiecesInv, TextOf
    <3> QED
      BY ONLY <1>10, <2>5, <3>1
  <2>12. TextOf(typed, buffer, LastCut, Len(typed))'
    <3>1. TextOf(typed, buffer, LastCut, Len(typed))' <=>
             TextOf(typed', buffer', LastCut', Len(typed'))
      BY DEF TextOf
    <3> QED
      BY ONLY <1>10, <2>5, <2>9, <3>1
  <2>14. Buf!TypeOK'
    BY <1>9, <2>5, <2>9
  <2>15. \A k \in DOMAIN cuts' : cuts'[k] <= Len(typed')
    BY ONLY <1>10, <2>5
  <2>16. /\ prevCr' => Len(typed') # 0 /\ typed'[Len(typed')] = "CR"
         /\ ~prevCr' => LastCut' + Len(buffer') = Len(typed')
                        /\ (Len(typed') # 0 => typed'[Len(typed')] # "CR")
    BY ONLY <1>1, <1>10, <1>11, <2>5, <2>9
  <2> QED
    BY ONLY <2>8, <2>10, <2>11, <2>12, <2>14, <2>15, <2>16 DEF LinesInv
(* It goes on in the piece. *)
<1>14. ASSUME ~prevCr, c # "LF" PROVE LinesInv'
  <2>1. /\ lines' = lines /\ cuts' = cuts
        /\ buffer' = IF c \in Text THEN Append(buffer, c) ELSE buffer
        /\ added' = added
    <3>1. lines' = lines /\ cuts' = cuts
      BY <1>1, <1>14
    <3>2. buffer' = IF c \in Text THEN Append(buffer, c) ELSE buffer
      BY <1>1, <1>14 DEF Buf!Pushed
    <3>3. added + 0 = added
      BY <1>2, <1>4
    <3> QED
      BY <3>1, <3>2, <3>3
  <2>2. LastCut' = LastCut /\ EndsOf(w) = EndsOf(typed)
    BY <1>5, <1>14, <2>1 DEF LastCut
  <2>3. /\ buffer' \in Seq(Text)
        /\ TextOf(w, buffer', LastCut, l + 1)
        /\ c # "CR" => LastCut + Len(buffer') = l + 1
    <3>0. /\ LastCut + Len(buffer) = l
          /\ \A i \in 1 .. Len(buffer) : buffer[i] = w[LastCut + i]
      <4>1. \A i \in 1 .. Len(buffer) : buffer[i] = typed[LastCut + i]
        BY ONLY <1>2, <1>4 DEF TextOf
      <4>2. LastCut + Len(buffer) = l
        BY <1>4, <1>14
      <4>3. \A i \in 1 .. Len(buffer) : LastCut + i \in 1 .. l
        BY ONLY <1>2, <4>2
      <4> QED
        BY ONLY <1>3, <4>1, <4>2, <4>3
    <3>1. CASE c = "CR"
      <4>1. buffer' = buffer
        BY <1>8, <2>1, <3>1
      <4>2. l <= l + 1 /\ \A i \in l + 1 .. l + 1 : i = l + 1
        BY ONLY <1>2
      <4> QED
        BY ONLY <1>2, <1>3, <1>8, <3>0, <3>1, <4>1, <4>2 DEF TextOf
    <3>2. CASE c \in Text
      <4>1. /\ buffer' \in Seq(Text) /\ Len(buffer') = Len(buffer) + 1
            /\ \A i \in 1 .. Len(buffer) : buffer'[i] = buffer[i]
            /\ buffer'[Len(buffer) + 1] = c
        BY <1>2, <2>1, <3>2, AppendProperties
      <4>2. DOMAIN buffer' = 1 .. Len(buffer) + 1
        BY <4>1, LenProperties
      <4>3. /\ LastCut + (Len(buffer) + 1) = l + 1 /\ l + 1 <= l + 1
            /\ l + 1 + 1 .. l + 1 = {}
            /\ \A i \in 1 .. Len(buffer) + 1 : i \in 1 .. Len(buffer) \/ i = Len(buffer) + 1
        <5>1. \A p, m \in Nat : /\ p + (m + 1) = p + m + 1
                                /\ \A i \in 1 .. m + 1 : i \in 1 .. m \/ i = m + 1
          OBVIOUS
        <5>2. \A m \in Nat : m + 1 <= m + 1 /\ m + 1 + 1 .. m + 1 = {}
          OBVIOUS
        <5>3. LastCut + Len(buffer) = l
          BY <3>0
        <5>4. l \in Nat /\ LastCut \in Nat /\ Len(buffer) \in Nat
          BY <1>2
        <5> QED
          BY ONLY <5>1, <5>2, <5>3, <5>4
      <4>4. \A i \in 1 .. Len(buffer) + 1 : buffer'[i] = w[LastCut + i]
        BY ONLY <1>3, <3>0, <4>1, <4>3
      <4> QED
        BY ONLY <4>1, <4>2, <4>3, <4>4 DEF TextOf
    <3> QED
      BY <1>7, <1>14, <3>1, <3>2
  <2>4. PiecesInv(typed)'
    <3>1. ASSUME NEW k \in DOMAIN lines
          PROVE  TextOf(w, lines[k], Buf!From(k), cuts[k])
      <4>1. /\ DOMAIN lines = 1 .. Len(lines) /\ DOMAIN cuts = 1 .. Len(lines)
            /\ \A j \in 1 .. Len(lines) : cuts[j] \in Nat
            /\ \A j \in 1 .. Len(lines) + 1 : Buf!From(j) \in Nat
        BY LinesTypes
      <4>2. k \in 1 .. Len(lines) + 1
        BY ONLY <1>2, <3>1, <4>1
      <4>3. lines[k] \in Seq(Text)
        BY <1>2, <3>1, <4>1, ElementOfSeq
      <4>4. Len(lines[k]) \in Nat /\ DOMAIN lines[k] = 1 .. Len(lines[k])
        BY <4>3, LenProperties
      <4>5. TextOf(typed, lines[k], Buf!From(k), cuts[k]) /\ cuts[k] <= l
        BY <1>4, <3>1, <4>1 DEF PiecesInv
      <4> QED
        BY <1>2, <1>3, <3>1, <4>1, <4>2, <4>4, <4>5, TextKept
    <3>2. PiecesInv(typed)' <=> \A k \in DOMAIN lines' :
             TextOf(typed', lines'[k], Buf!From(k)', cuts'[k])
      BY DEF PiecesInv, TextOf
    <3>3. ASSUME NEW k PROVE Buf!From(k)' = Buf!From(k)
      BY <2>1 DEF Buf!From
    <3> QED
      BY <1>10, <2>1, <3>1, <3>2, <3>3
  <2>5. TextOf(typed, buffer, LastCut, Len(typed))'
    <3>1. TextOf(typed, buffer, LastCut, Len(typed))' <=>
             TextOf(typed', buffer', LastCut', Len(typed'))
      BY DEF TextOf
    <3> QED
      BY ONLY <1>10, <2>2, <2>3, <3>1
  <2>6. EndsInv(typed)'
    <3>1. EndsOf(typed)' = EndsOf(typed)
      BY <1>10, <2>2 DEF EndsOf
    <3> QED
      BY <1>1, <1>4, <2>1, <3>1 DEF EndsInv
  <2>7. Buf!TypeOK'
    BY <1>2, <1>9, <2>1, <2>3
  <2>8. \A k \in DOMAIN cuts' : cuts'[k] <= Len(typed')
    <3>1. \A k \in DOMAIN cuts : cuts[k] \in Nat
      BY LinesTypes
    <3>2. \A k \in DOMAIN cuts : cuts[k] <= l + 1
      BY ONLY <1>2, <1>4, <3>1
    <3> QED
      BY ONLY <1>10, <2>1, <3>2
  <2>9. /\ prevCr' => Len(typed') # 0 /\ typed'[Len(typed')] = "CR"
        /\ ~prevCr' => LastCut' + Len(buffer') = Len(typed')
                       /\ (Len(typed') # 0 => typed'[Len(typed')] # "CR")
    BY ONLY <1>1, <1>10, <1>11, <2>2, <2>3
  <2>10. added' = Len(lines')
    BY <1>4, <2>1
  <2> QED
    BY ONLY <2>4, <2>5, <2>6, <2>7, <2>8, <2>9, <2>10 DEF LinesInv
<1> QED
  BY <1>13, <1>14

(* The stream is flushed within a line. *)
LEMMA SyncInv ==
    ASSUME LinesInv, Buf!sync, added' = added + (IF lines' # lines THEN 1 ELSE 0)
    PROVE  LinesInv'
<1> DEFINE l == Len(typed)
<1>1. /\ lines' = Append(lines, buffer) /\ cuts' = Append(cuts, l)
      /\ buffer' = <<>> /\ synced' = TRUE /\ typed' = typed /\ prevCr' = prevCr
  BY DEF Buf!sync, Buf!Flushed
<1>2. /\ l \in Nat /\ Len(lines) \in Nat
      /\ l <= l /\ l + 0 <= l /\ l + 0 + 1 .. l = {} /\ l + 0 = l
  BY LinesTypes
<1>3. /\ TextOf(typed, buffer, LastCut, l) /\ EndsInv(typed)
      /\ prevCr => l # 0 /\ typed[l] = "CR"
      /\ ~prevCr => (l # 0 => typed[l] # "CR")
      /\ added = Len(lines) /\ Buf!TypeOK
  BY DEF LinesInv
<1>4. Cuts(typed, l)
  BY <1>1, <1>3 DEF Cuts
<1>5. /\ \A k \in DOMAIN lines' : TextOf(typed, lines'[k], Buf!From(k)', cuts'[k])
      /\ LastCut' = l
      /\ lines' \in Seq(Seq(Text)) /\ cuts' \in Seq(Nat)
      /\ Len(lines') = Len(lines) + 1 /\ Len(cuts') = Len(lines')
      /\ lines' # lines
      /\ \A k \in DOMAIN cuts' : cuts'[k] <= l
  BY <1>2, <1>4, CutFacts
<1>6. \A i \in EndsOf(typed) : \E k \in DOMAIN cuts' : cuts'[k] = i
  BY <1>1, <1>2, CutEnds
<1> HIDE DEF l
<1>7. PiecesInv(typed)'
  <2>1. PiecesInv(typed)' <=> \A k \in DOMAIN lines' :
           TextOf(typed', lines'[k], Buf!From(k)', cuts'[k])
    BY DEF PiecesInv, TextOf
  <2> QED
    BY ONLY <1>1, <1>5, <2>1
<1>8. EndsInv(typed)'
  <2>1. EndsOf(typed)' = EndsOf(typed)
    BY <1>1 DEF EndsOf
  <2> QED
    BY <1>1, <1>6, <2>1 DEF EndsInv
<1>9. <<>> \in Seq(Text) /\ Len(<<>>) = 0 /\ DOMAIN <<>> = {}
  OBVIOUS
<1>10. Buf!TypeOK'
  BY <1>1, <1>3, <1>5, <1>9 DEF Buf!TypeOK
<1>11. l = Len(typed)
  BY DEF l
<1>12. TextOf(typed, buffer, LastCut, Len(typed))'
  <2>1. TextOf(typed, buffer, LastCut, Len(typed))' <=>
           TextOf(typed', buffer', LastCut', Len(typed'))
    BY DEF TextOf
  <2>2. TextOf(typed, <<>>, l, l)
    BY ONLY <1>2, <1>9 DEF TextOf
  <2> QED
    BY ONLY <1>1, <1>5, <1>11, <2>1, <2>2
<1>13. added' = Len(lines')
  BY <1>3, <1>5
<1>14. LastCut' + Len(buffer') = Len(typed')
  BY ONLY <1>1, <1>2, <1>5, <1>9, <1>11
<1>15. \A k \in DOMAIN cuts' : cuts'[k] <= Len(typed')
  BY ONLY <1>1, <1>5, <1>11
<1> QED
  BY ONLY <1>1, <1>3, <1>7, <1>8, <1>10, <1>11, <1>12, <1>13, <1>14, <1>15
     DEF LinesInv

LEMMA OutputStep ==
    ASSUME LinesInv, EchoInv, OutputAssumption, [OutputNext]_outputVars
    PROVE  LinesInv' /\ [StreamNext]_echoVars
<1>1. ASSUME UNCHANGED <<bufferVars, added>> PROVE LinesInv'
  BY <1>1 DEF bufferVars, LinesInv, PiecesInv, TextOf, LastCut, EndsInv, EndsOf,
     Buf!TypeOK, Buf!From
<1>2. CASE Put
  <2>1. /\ added' = added + (IF lines' # lines THEN 1 ELSE 0)
        /\ add_request \/ UNCHANGED echoVars
    <3>1. added \in Nat
      BY WaitingAre
    <3>2. IF lines' # lines THEN add_request ELSE UNCHANGED echoVars
      BY <1>2 DEF Put, Flush
    <3>3. CASE lines' # lines
      BY <3>2, <3>3 DEF add_request
    <3>4. CASE lines' = lines
      <4>1. added + 0 = added
        BY <3>1
      <4> QED
        BY <3>2, <3>4, <4>1 DEF echoVars
    <3> QED
      BY <3>3, <3>4
  <2>2. Buf!sync \/ \E c \in Buf!Chars : Buf!overflow(c)
    BY <1>2 DEF Put
  <2>3. LinesInv'
    BY <2>1, <2>2, OverflowInv, SyncInv
  <2> QED
    BY <2>1, <2>3 DEF StreamNext
<1>3. CASE Thread
  <2>1. thread_main /\ UNCHANGED bufferVars
    BY <1>3 DEF Thread
  <2>2. UNCHANGED added
    BY <2>1 DEF thread_main, get_request, WakesUp, send_to, receive_from, streamVars
  <2> QED
    BY <1>1, <2>1, <2>2 DEF StreamNext
<1>4. CASE Others
  <2>1. (exit_thread \/ receive_from_closed) /\ UNCHANGED bufferVars
    BY <1>4 DEF Others
  <2>2. UNCHANGED added
    BY <2>1 DEF exit_thread, receive_from_closed, streamVars
  <2> QED
    BY <1>1, <2>1, <2>2 DEF StreamNext
<1>5. CASE UNCHANGED outputVars
  <2>1. UNCHANGED echoVars /\ UNCHANGED <<bufferVars, added>>
    BY <1>5 DEF outputVars, echoVars
  <2> QED
    BY <1>1, <2>1
<1> QED
  BY <1>2, <1>3, <1>4, <1>5 DEF OutputNext

(* Both invariants. *)
OutputInv == LinesInv /\ EchoInv

LEMMA OutputAlways == OutputSpec => []OutputInv
<1>1. OutputInit => OutputInv
  BY OutputInitInv, StreamInitInv DEF OutputInit, OutputInv
<1>2. OutputInv /\ [OutputNext]_outputVars => OutputInv'
  BY OutputAssumption, OutputStep, EchoStep DEF OutputInv
<1> QED
  BY <1>1, <1>2, PTL DEF OutputSpec

(* Every request of an echo_ostream is dropped, because the queue was full, *)
(* or sent once and in order, or on its way, whatever is written and        *)
(* flushed, and however many requests the queue may hold                    *)
(* (echostream.cpp:80).                                                     *)
THEOREM RequestsGoOnceInOrder == OutputSpec => []EachOnceInOrder
<1>1. OutputInv => EachOnceInOrder
  BY EchoInvIsEnough DEF OutputInv
<1> QED
  BY <1>1, OutputAlways, PTL

(* What is written to an echo_ostream becomes its requests line by line,    *)
(* for any text, of any length, flushed anywhere (echostream.h:155).        *)
THEOREM LinesAreAlwaysSplit == OutputSpec => []LinesAreSplit
<1>1. OutputInv => LinesAreSplit
  BY LinesInvIsEnough DEF OutputInv
<1> QED
  BY <1>1, OutputAlways, PTL

=============================================================================
