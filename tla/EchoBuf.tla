------------------------------ MODULE EchoBuf ------------------------------
(***************************************************************************)
(* basic_echobuf of net/echostream.h: what is written to an echo_ostream   *)
(* character by character becomes the requests of EchoStream, one for each *)
(* line.  CR, LF and CR LF end a line, and a CR waits for what follows it. *)
(***************************************************************************)
EXTENDS Integers, Sequences

CONSTANTS
    Text,     (* characters other than CR and LF                           *)
    MaxLength (* bound: characters written                                 *)

VARIABLES
    buffer,  (* m_buffer                                                   *)
    prevCr,  (* m_prev_cr                                                  *)
    written, (* history: the characters written                            *)
    lines,   (* history: the requests added                                *)
    cuts,    (* history: how many of the characters each of them ends with *)
    synced   (* history: the stream was flushed within a line              *)

vars == <<buffer, prevCr, written, lines, cuts, synced>>

Chars == Text \cup {"CR", "LF"}

TypeOK ==
    /\ buffer \in Seq(Text)
    /\ prevCr \in BOOLEAN /\ synced \in BOOLEAN
    /\ written \in Seq(Chars)
    /\ lines \in Seq(Seq(Text))
    /\ cuts \in Seq(Nat) /\ Len(cuts) = Len(lines)

Init ==
    /\ buffer = <<>>
    /\ prevCr = FALSE
    /\ written = <<>>
    /\ lines = <<>>
    /\ cuts = <<>>
    /\ synced = FALSE

(* flush_internal(true), of a stream that is open. *)
Flushed == Append(lines, buffer)

(* Mutant of EndsLine: the LF of a CR LF ends another line. *)
EndsLineTwice(c) == c = "LF"

(* An LF ends a line, but for the one of a CR LF. *)
EndsLine(c) == c = "LF" /\ ~prevCr

(* m_buffer.push_back, but for a CR. *)
Pushed(line, c) == IF c \in Text THEN Append(line, c) ELSE line

(* A line ends before what follows its CR, but for an LF. *)
Cut(c) == IF c = "LF" THEN Len(written) + 1 ELSE Len(written)

overflow(c) ==
    /\ Len(written) < MaxLength
    /\ written' = Append(written, c)
    /\ prevCr' = (c = "CR")
    /\ LET rest == IF prevCr THEN <<>> ELSE buffer
           done == IF prevCr THEN Flushed ELSE lines
           ends == IF prevCr THEN Append(cuts, Cut(c)) ELSE cuts
       IN  IF EndsLine(c)
           THEN /\ lines' = Append(done, rest)
                /\ cuts' = Append(ends, Cut(c))
                /\ buffer' = <<>>
           ELSE /\ lines' = done
                /\ cuts' = ends
                /\ buffer' = Pushed(rest, c)
    /\ UNCHANGED synced

(* std::flush: flush_internal(false). *)
sync ==
    /\ buffer # <<>>
    /\ lines' = Flushed
    /\ cuts' = Append(cuts, Len(written))
    /\ buffer' = <<>>
    /\ synced' = TRUE
    /\ UNCHANGED <<prevCr, written>>

Next == sync \/ \E c \in Chars : overflow(c)

Spec == Init /\ [][Next]_vars

-----------------------------------------------------------------------------
(* Properties *)

(* Where a line has ended in what was written.  A CR that is last waits.    *)
Ends ==
    {i \in DOMAIN written :
        \/ written[i] = "LF"
        \/ written[i] = "CR" /\ i < Len(written) /\ written[i + 1] # "LF"}

(* The line is the text of a piece of what was written. *)
IsTextOf(line, from, to) ==
    /\ from + Len(line) <= to
    /\ \A i \in DOMAIN line : line[i] = written[from + i]
    /\ \A i \in from + Len(line) + 1 .. to : written[i] \notin Text

From(k) == IF k = 1 THEN 0 ELSE cuts[k - 1]

(* What was written is cut into pieces, and the text of each is a request,  *)
(* in order, with none lost, moved or sent twice; the rest waits in the     *)
(* buffer.  A line ends a piece, however its end is written (CR LF is one   *)
(* end, echostream.h:163), but for a CR that is last, which waits for the   *)
(* LF (echostream.h:155).  Only a flush cuts elsewhere or makes an empty    *)
(* request more.  And the types.                                            *)
LinesAreSplit ==
    /\ TypeOK
    /\ \A k \in DOMAIN lines : IsTextOf(lines[k], From(k), cuts[k])
    /\ IsTextOf(buffer, From(Len(lines) + 1), Len(written))
    /\ \A i \in Ends : \E k \in DOMAIN cuts : cuts[k] = i
    /\ ~synced => \A k \in DOMAIN cuts :
                     cuts[k] \in Ends /\ \A j \in 1 .. k - 1 : cuts[j] < cuts[k]

=============================================================================
