----------------------------- MODULE Connection -----------------------------
(***************************************************************************)
(* net/connection.cpp once the handshake is over: how one end's commands   *)
(* become bytes and the other end's bytes become commands.  The connection *)
(* thread runs the handlers of its io_service one after another.  An       *)
(* async_write is a sequence of writes, each of which takes what the       *)
(* socket has room for; when it was not all, the handler of that write     *)
(* begins the next one, behind those that wait already.                    *)
(***************************************************************************)
EXTENDS Integers, Sequences

CONSTANTS
    HeaderSize,  (* pieces a header may be written in: at least 1          *)
    DataSizes,   (* bound: pieces of a command's data, 0 if it has none    *)
    MaxCommands  (* bound: commands written                                *)

VARIABLES
    service,     (* the handlers m_service is to run                       *)
    queue,       (* m_writeCommandQueue                                    *)
    ops,         (* writes that wait for the socket                        *)
    isConnected, (* m_isConnected of each end                              *)
    broken,      (* the TCP connection is lost                             *)
    stream,      (* pieces on their way                                    *)
    reading,     (* the command whose data the reader waits for, if any    *)
    inPart,      (* history: a header was written in more than one piece   *)
    written,     (* history: the commands given to WriteCommand            *)
    delivered    (* history: the commands given to OnRemoteCommand         *)

vars == <<service, queue, ops, isConnected, broken, stream, reading, inPart,
          written, delivered>>

Command == [id : 1 .. MaxCommands, size : DataSizes]
NoCommand == [id |-> 0, size |-> 0]
Garbage == [id |-> -1, size |-> 0]

(* A write of a command's header or data with so much left of it; del is    *)
(* deleteCommand.                                                           *)
Op == [cmd : Command, part : {"header", "data"}, left : Nat, del : BOOLEAN]
Handler == [what : {"DoWriteCommand", "written", "failed"}, op : Op]
Piece == [cmd : Command, part : {"header", "data"}]

(* The types; and the reader takes data for a header (connection.cpp:304)   *)
(* only if a header was written in part.                                    *)
TypeOK ==
    /\ service \in Seq(Handler)
    /\ queue \in Seq(Command)
    /\ ops \in Seq(Op)
    /\ isConnected \in [{"writer", "reader"} -> BOOLEAN]
    /\ broken \in BOOLEAN /\ inPart \in BOOLEAN
    /\ stream \in Seq(Piece)
    /\ reading \in Command \cup {NoCommand} \/ (inPart /\ reading = Garbage)
    /\ written \in Seq(Command)
    /\ delivered \in Seq(Command)

Init ==
    /\ service = <<>>
    /\ queue = <<>>
    /\ ops = <<>>
    /\ isConnected = [e \in {"writer", "reader"} |-> TRUE]
    /\ broken = FALSE
    /\ stream = <<>>
    /\ reading = NoCommand
    /\ inPart = FALSE
    /\ written = <<>>
    /\ delivered = <<>>

-----------------------------------------------------------------------------
(* The writer *)

readerVars == <<stream, reading, delivered>>

HeaderOp(cmd, del) ==
    [cmd |-> cmd, part |-> "header", left |-> HeaderSize, del |-> del]
DataOp(cmd) ==
    [cmd |-> cmd, part |-> "data", left |-> cmd.size, del |-> TRUE]
Handlers(what, of) == [i \in DOMAIN of |-> [what |-> what, op |-> of[i]]]

(* WriteCommand, from any thread: m_service.post(DoWriteCommand). *)
WriteCommand ==
    /\ isConnected["writer"]
    /\ Len(written) < MaxCommands
    /\ \E size \in DataSizes :
          LET cmd == [id |-> Len(written) + 1, size |-> size]
          IN  /\ written' = Append(written, cmd)
              /\ service' = service \o
                    Handlers("DoWriteCommand", <<HeaderOp(cmd, FALSE)>>)
    /\ UNCHANGED <<queue, ops, isConnected, broken, inPart, readerVars>>

(* Mutant of BeginWriteCommand: the header's handler deletes the command.   *)
BeginWriteCommandDeleting(cmd) ==
    IF cmd.size = 0 THEN <<HeaderOp(cmd, TRUE)>>
    ELSE <<HeaderOp(cmd, TRUE), [DataOp(cmd) EXCEPT !.del = FALSE]>>

(* BeginWriteCommand: both writes are begun at once. *)
BeginWriteCommand(cmd) ==
    IF cmd.size = 0 THEN <<HeaderOp(cmd, TRUE)>>
    ELSE <<HeaderOp(cmd, FALSE), DataOp(cmd)>>

(* isProgress *)
IsProgress == queue # <<>>

DoWriteCommand(op) ==
    /\ queue' = Append(queue, op.cmd)
    /\ ops' = IF IsProgress THEN ops ELSE ops \o BeginWriteCommand(op.cmd)
    /\ service' = Tail(service)
    /\ UNCHANGED isConnected

(* Mutant of Popped: the command is not popped. *)
PoppedNot == queue

(* pop, which of an empty queue is undefined: here it leaves it empty. *)
Popped == SubSeq(queue, 2, Len(queue))

(* HandleWriteCommand without an error, or the rest of an async_write. *)
HandleWriteCommand(op) ==
    /\ queue' = IF op.left = 0 /\ op.del THEN Popped ELSE queue
    /\ ops' = IF op.left > 0 THEN Append(ops, op)
              ELSE IF op.del /\ queue' # <<>>
                   THEN ops \o BeginWriteCommand(Head(queue')) ELSE ops
    /\ service' = Tail(service)
    /\ UNCHANGED isConnected

(* DoClose, after these handlers were taken: what waits for the socket      *)
(* fails.                                                                   *)
DoClose(handlers) ==
    /\ isConnected' = [isConnected EXCEPT !["writer"] = FALSE]
    /\ IF isConnected["writer"]
       THEN ops' = <<>> /\ service' = handlers \o Handlers("failed", ops)
       ELSE service' = handlers /\ UNCHANGED ops
    /\ UNCHANGED queue

(* Nothing is written to a closed socket. *)
RunHandler ==
    /\ service # <<>>
    /\ LET h == Head(service)
       IN  CASE h.what = "DoWriteCommand" -> DoWriteCommand(h.op)
             [] h.what = "written" -> HandleWriteCommand(h.op)
             [] h.what = "failed" -> DoClose(Tail(service))
    /\ UNCHANGED <<broken, inPart, readerVars, written>>

(* The socket takes some of the first write that waits. *)
WriteSome ==
    /\ ops # <<>>
    /\ isConnected["writer"] /\ ~broken
    /\ LET op == Head(ops)
       IN  \E n \in 1 .. op.left :
              /\ stream' = stream \o
                    [i \in 1 .. n |-> [cmd |-> op.cmd, part |-> op.part]]
              /\ service' = service \o
                    Handlers("written", <<[op EXCEPT !.left = @ - n]>>)
              /\ inPart' = (inPart \/ (op.part = "header" /\ n < HeaderSize))
    /\ ops' = Tail(ops)
    /\ UNCHANGED <<queue, isConnected, broken, reading, written, delivered>>

WriteFails ==
    /\ ops # <<>>
    /\ broken \/ ~isConnected["writer"]
    /\ service' = service \o Handlers("failed", <<Head(ops)>>)
    /\ ops' = Tail(ops)
    /\ UNCHANGED <<queue, isConnected, broken, inPart, readerVars, written>>

-----------------------------------------------------------------------------
(* The reader *)

writerVars == <<service, queue, ops, broken, inPart, written>>

(* What a read leaves of the stream. *)
Taken(n) == SubSeq(stream, n + 1, Len(stream))

(* HandleReadCommandHeader: a header without data is a command. *)
ReadHeader ==
    /\ isConnected["reader"] /\ reading = NoCommand
    /\ Len(stream) >= HeaderSize
    /\ LET cmd == Head(stream).cmd
           isHeader == \A i \in 1 .. HeaderSize :
                          stream[i] = [cmd |-> cmd, part |-> "header"]
       IN  IF isHeader /\ cmd.size = 0
           THEN delivered' = Append(delivered, cmd) /\ UNCHANGED reading
           ELSE /\ reading' = IF isHeader THEN cmd ELSE Garbage
                /\ UNCHANGED delivered
    /\ stream' = Taken(HeaderSize)
    /\ UNCHANGED <<writerVars, isConnected>>

(* HandleReadCommandData *)
ReadData ==
    /\ isConnected["reader"] /\ reading.id > 0
    /\ Len(stream) >= reading.size
    /\ \A i \in 1 .. reading.size :
          stream[i] = [cmd |-> reading, part |-> "data"]
    /\ delivered' = Append(delivered, reading)
    /\ reading' = NoCommand
    /\ stream' = Taken(reading.size)
    /\ UNCHANGED <<writerVars, isConnected>>

(* A read of either end fails: DoClose. *)
CloseWriter ==
    /\ broken /\ isConnected["writer"]
    /\ DoClose(service)
    /\ UNCHANGED <<broken, inPart, readerVars, written>>

CloseReader ==
    /\ broken /\ isConnected["reader"]
    /\ isConnected' = [isConnected EXCEPT !["reader"] = FALSE]
    /\ UNCHANGED <<writerVars, readerVars>>

(* The TCP connection is lost, and of what was on its way a suffix.         *)
Break ==
    /\ ~broken
    /\ broken' = TRUE
    /\ \E n \in 0 .. Len(stream) : stream' = SubSeq(stream, 1, n)
    /\ UNCHANGED <<service, queue, ops, isConnected, reading, inPart, written,
                   delivered>>

Next ==
    \/ WriteCommand \/ RunHandler \/ WriteSome \/ WriteFails
    \/ ReadHeader \/ ReadData
    \/ CloseWriter \/ CloseReader
    \/ Break

Spec == Init /\ [][Next]_vars

-----------------------------------------------------------------------------
(* Properties *)

(* connection.h:166: "Because the command memory must be kept until the end *)
(* of the writing."  What a write refers to is in the front command, as     *)
(* long as no header was written in part: the rest of such a header comes   *)
(* after its data, whose handler has popped the command (connection.cpp:    *)
(* 375-400).  And the types.                                                *)
MemoryIsKept ==
    /\ TypeOK
    /\ ~inPart => \A i \in DOMAIN ops : queue # <<>> /\ ops[i].cmd = Head(queue)

(* Commands of a header and data are written with two writes at a time, and *)
(* new commands come in between; the other end gets whole commands, once    *)
(* and in order, and with a header in part it gets no more of them          *)
(* (connection.cpp:344-400).                                                *)
Fifo == INSTANCE FifoChannel
ImplementsFifo == Fifo!Spec

=============================================================================
