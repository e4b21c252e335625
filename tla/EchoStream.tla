----------------------------- MODULE EchoStream -----------------------------
(***************************************************************************)
(* net/echostream.cpp: the requests of every echo_ostream of a program,    *)
(* one thread that sends each as a datagram and waits for the echo, and    *)
(* the destructor that stops it.                                           *)
(***************************************************************************)
EXTENDS Integers, Sequences

CONSTANTS
    MaxQueue,      (* requests after which the oldest go: 100              *)
    MaxRequests    (* bound: requests                                      *)

ASSUME EchoAssumption ==
    /\ MaxQueue \in Nat
    /\ MaxRequests \in Nat

VARIABLES
    thread,     (* where thread_main is                                    *)
    requestQueue, (* m_request_queue                                       *)
    current,    (* the request thread_main has, or none                    *)
    isOpen,     (* m_socket                                                *)
    isExit,     (* m_is_exit_thread                                        *)
    isNotified, (* m_cond was notified during this wait                    *)
    echoes,     (* echoes that will arrive                                 *)
    lost,       (* history: a datagram or its echo was lost                *)
    added,      (* history: requests added; their number is their name     *)
    dropped,    (* history: requests popped for being too many             *)
    done        (* history: requests thread_main is done with, in order    *)

echoVars == <<thread, requestQueue, current, isOpen, isExit, isNotified, echoes,
              lost, added, dropped, done>>

Requests == 1 .. MaxRequests

StreamTypeOK ==
    /\ thread \in {"none", "get", "wait", "send", "receive", "blocked", "ended"}
    /\ requestQueue \in Seq(Requests) /\ Len(requestQueue) <= MaxQueue + 1
    /\ current \in Seq(Requests) /\ Len(current) <= 1
    /\ isOpen \in BOOLEAN /\ isExit \in BOOLEAN /\ isNotified \in BOOLEAN
    /\ echoes \in Nat /\ lost \in BOOLEAN
    /\ added \in 0 .. MaxRequests
    /\ dropped \subseteq Requests
    /\ done \in Seq(Requests)

StreamInit ==
    /\ thread = "none"
    /\ requestQueue = <<>>
    /\ current = <<>>
    /\ isOpen = TRUE
    /\ isExit = FALSE
    /\ isNotified = FALSE
    /\ echoes = 0
    /\ lost = FALSE
    /\ added = 0
    /\ dropped = {}
    /\ done = <<>>

-----------------------------------------------------------------------------
(* The stream's side *)

(* How many the loop pops. *)
Excess ==
    IF Len(requestQueue) > MaxQueue THEN Len(requestQueue) - MaxQueue ELSE 0

(* Mutant of Notified: nobody is told. *)
NotifiedNever == FALSE

(* notify_all *)
Notified == thread = "wait"

add_request ==
    /\ ~isExit
    /\ added < MaxRequests
    /\ added' = added + 1
    /\ thread' = IF thread = "none" THEN "get" ELSE thread
    /\ dropped' = dropped \cup {requestQueue[i] : i \in 1 .. Excess}
    /\ requestQueue' =
          Append(SubSeq(requestQueue, Excess + 1, Len(requestQueue)), added + 1)
    /\ isNotified' = (isNotified \/ Notified)
    /\ UNCHANGED <<current, isOpen, isExit, echoes, lost, done>>

(* Mutant of exit_thread: the thread is not told. *)
exit_thread_silent ==
    /\ ~isExit
    /\ isExit' = TRUE
    /\ isOpen' = FALSE
    /\ UNCHANGED <<thread, requestQueue, current, isNotified, echoes, lost,
                   added, dropped, done>>

(* exit_thread, by the destructor, which then joins the thread.             *)
exit_thread ==
    /\ ~isExit
    /\ isExit' = TRUE
    /\ isOpen' = FALSE
    /\ isNotified' = (isNotified \/ Notified)
    /\ UNCHANGED <<thread, requestQueue, current, echoes, lost, added, dropped,
                   done>>

-----------------------------------------------------------------------------
(* The thread *)

streamVars == <<isOpen, isExit, added, dropped>>

(* Mutant of Taken: the request stays in the queue. *)
TakenNot == requestQueue

(* pop *)
Taken == Tail(requestQueue)

Take ==
    /\ current' = <<Head(requestQueue)>>
    /\ requestQueue' = Taken
    /\ thread' = "send"

Go(where) == thread' = where /\ UNCHANGED <<requestQueue, current>>

(* get_request up to its wait *)
get_request ==
    /\ thread = "get"
    /\ \/ isExit /\ Go("ended")
       \/ ~isExit /\ requestQueue = <<>> /\ Go("wait")
       \/ ~isExit /\ requestQueue # <<>> /\ Take
    /\ isNotified' = FALSE
    /\ UNCHANGED <<echoes, lost, done, streamVars>>

(* The wait ends, and get_request tests the queue before m_is_exit_thread.  *)
WakesUp ==
    /\ thread = "wait" /\ isNotified
    /\ \/ requestQueue # <<>> /\ Take
       \/ requestQueue = <<>> /\ isExit /\ Go("ended")
       \/ requestQueue = <<>> /\ ~isExit /\ Go("wait")
    /\ isNotified' = FALSE
    /\ UNCHANGED <<echoes, lost, done, streamVars>>

FinishRequest ==
    /\ thread' = "get"
    /\ done' = done \o current
    /\ current' = <<>>
    /\ UNCHANGED requestQueue

(* send_to throws if the socket is closed; a datagram, or its echo, may be  *)
(* lost.                                                                    *)
send_to ==
    /\ thread = "send"
    /\ IF isOpen
       THEN /\ thread' = "receive"
            /\ \E arrives \in BOOLEAN :
                  /\ echoes' = IF arrives THEN echoes + 1 ELSE echoes
                  /\ lost' = (lost \/ ~arrives)
            /\ UNCHANGED <<requestQueue, current, done>>
       ELSE FinishRequest /\ UNCHANGED <<echoes, lost>>
    /\ UNCHANGED <<isNotified, streamVars>>

(* receive_from: it throws if the socket is closed, and otherwise waits for *)
(* an echo.                                                                 *)
receive_from ==
    /\ \/ thread = "receive" /\ isOpen /\ Go("blocked")
          /\ UNCHANGED <<echoes, done>>
       \/ thread = "receive" /\ ~isOpen /\ FinishRequest /\ UNCHANGED echoes
       \/ thread = "blocked" /\ echoes > 0 /\ FinishRequest
          /\ echoes' = echoes - 1
    /\ UNCHANGED <<isNotified, lost, streamVars>>

(* In some systems it also throws when the socket is closed meanwhile.      *)
receive_from_closed ==
    /\ thread = "blocked" /\ ~isOpen
    /\ FinishRequest
    /\ UNCHANGED <<echoes, lost, isNotified, streamVars>>

thread_main == get_request \/ WakesUp \/ send_to \/ receive_from

StreamNext == add_request \/ exit_thread \/ thread_main \/ receive_from_closed

StreamSpec == StreamInit /\ [][StreamNext]_echoVars

-----------------------------------------------------------------------------
(* Properties *)

(* A request goes only for as many newer ones (echostream.cpp:80).          *)
LostOnlyWhenFull == \A id \in dropped : added >= id + MaxQueue + 1

(* Every request is dropped, or sent once and in order, or on its way, in   *)
(* order, in spite of the popping of the old ones (echostream.cpp:81), of   *)
(* which none goes before the queue is full.  And the types, with the limit *)
(* of the queue.                                                            *)
EachOnceInOrder ==
    LET all == done \o current \o requestQueue
    IN  /\ StreamTypeOK
        /\ LostOnlyWhenFull
        /\ \A i, j \in DOMAIN all : i < j => all[i] < all[j]
        /\ {all[i] : i \in DOMAIN all} = (1 .. added) \ dropped

(* Every request is sent or dropped in the end, whether it came before the  *)
(* thread, during its wait or while it was busy (echostream.cpp:86, 106),   *)
(* as long as no echo is lost: the thread waits for it without a time limit.*)
EveryRequestGoesOut ==
    \A id \in Requests :
       added >= id ~> isExit \/ lost \/ id \in dropped
                      \/ \E i \in DOMAIN done : done[i] = id

(* echostream.cpp:89: "Stop the thread."  The destructor waits for that;    *)
(* nothing but a lost echo keeps the thread, in a receive_from.             *)
ThreadStops ==
    isExit ~> thread \in {"none", "ended"} \/ (lost /\ thread = "blocked")

=============================================================================
