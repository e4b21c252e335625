----------------------------- MODULE EchoOutput -----------------------------
(***************************************************************************)
(* An echo_ostream as a whole: EchoBuf cuts what is written to it into     *)
(* lines, and each line is a request that EchoStream's thread sends.       *)
(***************************************************************************)
EXTENDS EchoStream

CONSTANTS
    Text,     (* characters other than CR and LF                           *)
    MaxLength (* bound: characters written                                 *)

ASSUME OutputAssumption == {"CR", "LF"} \cap Text = {} /\ MaxLength \in Nat

VARIABLES buffer, prevCr, typed, lines, cuts, synced

bufferVars == <<buffer, prevCr, typed, lines, cuts, synced>>

Buf == INSTANCE EchoBuf WITH written <- typed

OutputInit == StreamInit /\ Buf!Init

(* A character, or a flush, ends one line at most. *)
Flush == IF lines' # lines THEN add_request ELSE UNCHANGED echoVars

Put ==
    /\ ~isExit
    /\ Buf!sync \/ \E c \in Buf!Chars : Buf!overflow(c)
    /\ Flush

(* The thread of EchoStream. *)
Thread == thread_main /\ UNCHANGED bufferVars

Others ==
    /\ exit_thread \/ receive_from_closed
    /\ UNCHANGED bufferVars

OutputNext == Put \/ Thread \/ Others

outputVars == <<echoVars, bufferVars>>

(* The thread runs. *)
OutputSpec == OutputInit /\ [][OutputNext]_outputVars /\ WF_outputVars(Thread)

-----------------------------------------------------------------------------
(* Properties *)

(* EchoBuf's, see there, and each line is one request (echostream.h:201).   *)
LinesAreSplit == Buf!LinesAreSplit /\ added = Len(lines)

=============================================================================
