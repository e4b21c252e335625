------------------------- MODULE BreakSession_proofs -------------------------
(***************************************************************************)
(* Proofs about BreakSession, for any number of commands of the user.      *)
(*                                                                         *)
(* The argument is one invariant of the two channels.  The messages of a   *)
(* channel are numbered by their tags: a tag is that of the message before *)
(* it, plus one for a message of the counted type (UPDATE_SOURCE to the    *)
(* frame, SUCCESSED to the context).  The first is numbered from what the  *)
(* receiver has taken, the last has the number of what the sender has      *)
(* sent, unless something was lost.                                        *)
(***************************************************************************)
EXTENDS BreakSession, SequenceFacts

Ends == {"ctx", "frame"}

Tick(m, type) == IF m.type = type THEN 1 ELSE 0

TagBefore(s, i, lo) == IF i = 1 THEN lo ELSE s[i - 1].tag

LastTag(s, lo) == TagBefore(s, Len(s) + 1, lo)

(* From lo to at most hi, and closed by an END_CONNECTION if by anything.    *)
Flow(s, type, lo, hi) ==
    /\ lo <= hi
    /\ \A i \in 1 .. Len(s) :
          /\ s[i].type = "END_CONNECTION" => i = Len(s)
          /\ s[i].type # "END_CONNECTION" =>
                /\ s[i].tag = TagBefore(s, i, lo) + Tick(s[i], type)
                /\ s[i].tag <= hi

Open(s) == \A i \in 1 .. Len(s) : s[i].type # "END_CONNECTION"

(* The channel to the end `end` when the ends in `alive` are connected. *)
Channel(s, type, lo, hi, end, alive) ==
    /\ Flow(s, type, lo, hi)
    /\ end \in alive => Open(s)
    /\ alive = Ends => LastTag(s, lo) = hi

LEMMA Snoc ==
    ASSUME NEW S, NEW s \in Seq(S), NEW m \in S
    PROVE  /\ s \o <<m>> \in Seq(S)
           /\ Len(s \o <<m>>) = Len(s) + 1
           /\ (s \o <<m>>)[Len(s) + 1] = m
           /\ \A i \in 1 .. Len(s) : (s \o <<m>>)[i] = s[i]
<1>1. <<m>> \in Seq(S) /\ Len(<<m>>) = 1 /\ <<m>>[1] = m
  OBVIOUS
<1>2. /\ s \o <<m>> \in Seq(S)
      /\ Len(s \o <<m>>) = Len(s) + Len(<<m>>)
      /\ \A i \in 1 .. Len(s) + Len(<<m>>) :
            (s \o <<m>>)[i] = IF i <= Len(s) THEN s[i] ELSE <<m>>[i - Len(s)]
  BY <1>1, ConcatProperties
<1>3. Len(s) \in Nat
  BY LenProperties
<1>4. \A n \in Nat : /\ n + 1 \in 1 .. n + 1 /\ ~(n + 1 <= n) /\ (n + 1) - n = 1
                     /\ \A i \in 1 .. n : i \in 1 .. n + 1 /\ i <= n
  OBVIOUS
<1> QED
  BY ONLY <1>1, <1>2, <1>3, <1>4

LEMMA Uncons ==
    ASSUME NEW S, NEW s \in Seq(S), s # <<>>
    PROVE  /\ Head(s) \in S /\ Head(s) = s[1]
           /\ Tail(s) \in Seq(S)
           /\ Len(s) \in Nat \ {0}
           /\ Len(Tail(s)) = Len(s) - 1
           /\ \A i \in 1 .. Len(s) - 1 : Tail(s)[i] = s[i + 1]
<1>1. /\ Head(s) \in S /\ Tail(s) \in Seq(S)
      /\ Len(Tail(s)) = Len(s) - 1
      /\ \A i \in 1 .. Len(Tail(s)) : Tail(s)[i] = s[i + 1]
  BY HeadTailProperties
<1>2. Len(s) \in Nat /\ Len(s) # 0
  BY LenProperties, EmptySeq
<1>3. Head(s) = s[1]
  OBVIOUS
<1> QED
  BY <1>1, <1>2, <1>3

(* A message that is sent continues the numbering; one that is lost leaves  *)
(* the channel as it was.                                                   *)
LEMMA ChannelSend ==
    ASSUME NEW S, \A m \in S : m.tag \in Nat,
           NEW s \in Seq(S), NEW e \in S, NEW type,
           NEW lo \in Int, NEW hi \in Int, NEW end \in Ends, NEW alive,
           Channel(s, type, lo, hi, end, alive),
           e.type # "END_CONNECTION", e.tag = hi + Tick(e, type)
    PROVE  LET r == IF alive = Ends THEN s \o <<e>> ELSE s
           IN  r \in Seq(S) /\ Channel(r, type, lo, e.tag, end, alive)
<1>1. Len(s) \in Nat
  BY LenProperties
<1>2. hi <= e.tag /\ e.tag \in Nat /\ Tick(e, type) \in {0, 1}
  BY DEF Tick
<1>3. \A i \in 1 .. Len(s) : s[i] \in S /\ s[i].tag \in Nat
  BY ElementOfSeq, <1>1
<1>4. Flow(s, type, lo, e.tag)
  BY <1>1, <1>2, <1>3 DEF Flow, Channel
<1>5. CASE alive # Ends
  BY <1>4, <1>5 DEF Channel
<1>6. CASE alive = Ends
  <2> DEFINE r == s \o <<e>>
  <2>1. /\ r \in Seq(S) /\ Len(r) = Len(s) + 1 /\ r[Len(s) + 1] = e
        /\ \A i \in 1 .. Len(s) : r[i] = s[i]
    BY Snoc
  <2> HIDE DEF r
  <2>2. Open(s) /\ LastTag(s, lo) = hi
    BY <1>6 DEF Channel
  <2>3. \A i \in 1 .. Len(r) : i \in 1 .. Len(s) \/ i = Len(s) + 1
    BY <1>1, <2>1
  <2>4. Open(r)
    BY <2>1, <2>2, <2>3 DEF Open
  <2>5. \A i \in 1 .. Len(r) : TagBefore(r, i, lo) = TagBefore(s, i, lo)
    <3>1. \A i \in 1 .. Len(s) + 1 : i = 1 \/ i - 1 \in 1 .. Len(s)
      BY <1>1
    <3> QED
      BY <2>1, <3>1 DEF TagBefore
  <2>6. ASSUME NEW i \in 1 .. Len(r)
        PROVE  r[i].tag = TagBefore(r, i, lo) + Tick(r[i], type) /\ r[i].tag <= e.tag
    <3>1. CASE i \in 1 .. Len(s)
      BY <1>4, <2>1, <2>2, <2>5, <3>1 DEF Flow, Open
    <3>2. CASE i = Len(s) + 1
      <4>1. r[i] = e
        BY <2>1, <3>2
      <4>2. TagBefore(r, i, lo) = hi
        BY <2>2, <2>5, <3>2 DEF LastTag
      <4> QED
        BY <1>2, <4>1, <4>2
    <3> QED
      BY <2>3, <3>1, <3>2
  <2>7. Flow(r, type, lo, e.tag)
    BY <1>4, <2>4, <2>6 DEF Flow, Open
  <2>8. LastTag(r, lo) = e.tag
    <3>1. Len(r) + 1 # 1 /\ (Len(r) + 1) - 1 = Len(s) + 1
      BY <1>1, <2>1
    <3> QED
      BY <2>1, <3>1 DEF LastTag, TagBefore
  <2> QED
    BY <1>6, <2>1, <2>4, <2>7, <2>8 DEF Channel, r
<1> QED
  BY <1>5, <1>6

(* The message that is taken has the next number. *)
LEMMA ChannelTake ==
    ASSUME NEW S, \A m \in S : m.tag \in Nat,
           NEW s \in Seq(S), s # <<>>, NEW type,
           NEW lo \in Int, NEW hi \in Int, NEW end \in Ends, NEW alive,
           Channel(s, type, lo, hi, end, alive)
    PROVE  /\ Head(s).type # "END_CONNECTION" =>
                 /\ Head(s).tag = lo + Tick(Head(s), type)
                 /\ Head(s).tag <= hi
                 /\ Channel(Tail(s), type, Head(s).tag, hi, end, alive)
           /\ Head(s).type = "END_CONNECTION" =>
                 /\ end \notin alive
                 /\ Channel(Tail(s), type, lo, hi, end, alive)
<1> DEFINE t == Tail(s)
           n == Len(s)
<1>1. /\ Head(s) \in S /\ Head(s) = s[1]
      /\ t \in Seq(S)
      /\ n \in Nat \ {0}
      /\ Len(t) = n - 1
      /\ \A i \in 1 .. n - 1 : t[i] = s[i + 1]
  BY Uncons
<1>2. Flow(s, type, lo, hi)
  BY DEF Channel
<1> HIDE DEF t, n
<1>3. 1 \in 1 .. n /\ \A i \in 1 .. n - 1 : i + 1 \in 1 .. n /\ i + 1 # 1 /\ (i + 1) - 1 = i
  BY <1>1
<1>4. end \in alive => Open(s) /\ Open(t)
  BY <1>1, <1>3 DEF Channel, Open, n
<1>5. CASE Head(s).type = "END_CONNECTION"
  <2>1. n = 1
    BY <1>1, <1>2, <1>3, <1>5 DEF Flow, n
  <2>2. end \notin alive
    BY <1>1, <1>3, <1>4, <1>5 DEF Open, n
  <2>3. Len(t) = 0
    BY <1>1, <2>1
  <2>4. Flow(t, type, lo, hi) /\ Open(t)
    BY <1>2, <2>3 DEF Flow, Open
  <2> QED
    BY <1>5, <2>2, <2>4 DEF Channel, Ends, t
<1>6. CASE Head(s).type # "END_CONNECTION"
  <2>1. Head(s).tag = lo + Tick(Head(s), type) /\ Head(s).tag <= hi
    BY <1>1, <1>2, <1>3, <1>6 DEF Flow, TagBefore, n
  <2>2. \A i \in 1 .. n - 1 : TagBefore(t, i, s[1].tag) = TagBefore(s, i + 1, lo)
    <3> SUFFICES ASSUME NEW i \in 1 .. n - 1
                 PROVE  TagBefore(t, i, s[1].tag) = s[i].tag
      BY <1>3 DEF TagBefore
    <3>1. i = 1 \/ (i # 1 /\ i - 1 \in 1 .. n - 1 /\ (i - 1) + 1 = i)
      BY <1>1
    <3>2. i # 1 => t[i - 1] = s[i]
      BY <1>1, <3>1
    <3> QED
      BY <3>2 DEF TagBefore
  <2>3. Flow(t, type, s[1].tag, hi)
    <3>1. \A i \in 1 .. n - 1 : i + 1 = n => i = n - 1
      BY <1>1
    <3>2. \A i \in 1 .. n - 1 : Tick(t[i], type) = Tick(s[i + 1], type)
      BY <1>1
    <3> QED
      BY <1>1, <1>2, <1>3, <2>1, <2>2, <3>1, <3>2 DEF Flow, n
  <2>4. LastTag(t, s[1].tag) = LastTag(s, lo)
    <3>1. Len(t) + 1 = n /\ (n + 1) - 1 = n /\ n + 1 # 1
      BY <1>1
    <3>2. n = 1 \/ (n # 1 /\ n - 1 \in 1 .. n - 1 /\ (n - 1) + 1 = n)
      BY <1>1
    <3>3. LastTag(s, lo) = s[n].tag
      BY <3>1 DEF LastTag, TagBefore, n
    <3>4. TagBefore(t, n, s[1].tag) = s[n].tag
      BY <1>1, <3>2 DEF TagBefore
    <3> QED
      BY <3>1, <3>3, <3>4 DEF LastTag
  <2> QED
    BY <1>1, <1>4, <1>6, <2>1, <2>3, <2>4 DEF Channel, t
<1> QED
  BY <1>5, <1>6

(* A connection that is lost leaves a prefix, and END_CONNECTION after it. *)
LEMMA ChannelCut ==
    ASSUME NEW S, NEW s \in Seq(S), NEW e \in S, NEW type,
           NEW lo, NEW hi, NEW end \in Ends, NEW alive,
           Channel(s, type, lo, hi, end, alive), end \in alive,
           e.type = "END_CONNECTION", NEW n \in 0 .. Len(s)
    PROVE  LET r == SubSeq(s, 1, n) \o <<e>>
           IN  r \in Seq(S) /\ Channel(r, type, lo, hi, end, alive \ {end})
<1> DEFINE p == SubSeq(s, 1, n)
           r == p \o <<e>>
<1>1. Len(s) \in Nat /\ n \in Nat /\ n \in Int /\ 1 \in Int /\ n <= Len(s)
  BY LenProperties
<1>2. \A i \in 1 .. n : i \in 1 .. Len(s) /\ s[i] \in S
  BY <1>1, ElementOfSeq
<1>3. /\ p \in Seq(S)
      /\ Len(p) = IF 1 <= n THEN n - 1 + 1 ELSE 0
      /\ \A i \in 1 .. n - 1 + 1 : p[i] = s[1 + i - 1]
  BY ONLY <1>1, <1>2, SubSeqProperties
<1>4. Len(p) = n /\ \A i \in 1 .. n : p[i] = s[i]
  <2>1. \A i \in 1 .. n : i \in 1 .. n - 1 + 1 /\ 1 + i - 1 = i
    BY <1>1
  <2>2. n = IF 1 <= n THEN n - 1 + 1 ELSE 0
    BY <1>1
  <2> QED
    BY ONLY <1>3, <2>1, <2>2
<1> HIDE DEF p
<1>5. /\ r \in Seq(S) /\ Len(r) = n + 1 /\ r[n + 1] = e
      /\ \A i \in 1 .. n : r[i] = s[i]
  BY <1>3, <1>4, Snoc
<1> HIDE DEF r
<1>6. \A i \in 1 .. Len(r) : i \in 1 .. n \/ i = n + 1
  BY <1>1, <1>5
<1>7. \A i \in 1 .. n : TagBefore(r, i, lo) = TagBefore(s, i, lo)
  <2>1. \A i \in 1 .. n : i = 1 \/ i - 1 \in 1 .. n
    BY <1>1
  <2> QED
    BY <1>5, <2>1 DEF TagBefore
<1>8. \A i \in 1 .. n : Tick(r[i], type) = Tick(s[i], type)
  BY <1>5
<1>9. Flow(r, type, lo, hi)
  BY <1>2, <1>5, <1>6, <1>7, <1>8 DEF Flow, Channel, Open
<1> QED
  BY <1>5, <1>9 DEF Channel, Ends, p, r

-----------------------------------------------------------------------------
(* What the context has been told is answered: announced - waitUpdateCount. *)
SessionInv ==
    /\ TypeOK
    /\ Channel(f2c, "SUCCESSED", announced - waitUpdateCount, seen, "ctx", up)
    /\ Channel(c2f, "UPDATE_SOURCE", seen, announced, "frame", up)

LEMMA TagsAreNaturals ==
    /\ \A m \in CtxMessages : m.tag \in Nat
    /\ \A m \in FrameMessages : m.tag \in Nat
  BY DEF CtxMessages, FrameMessages

LEMMA ToFrameSends ==
    ASSUME SessionInv, NEW e \in CtxMessages, ToFrame(<<e>>),
           e.type # "END_CONNECTION", e.tag = announced + Tick(e, "UPDATE_SOURCE")
    PROVE  /\ c2f' \in Seq(CtxMessages)
           /\ Channel(c2f', "UPDATE_SOURCE", seen, e.tag, "frame", up)
<1>1. /\ c2f \in Seq(CtxMessages) /\ seen \in Int /\ announced \in Int
      /\ Channel(c2f, "UPDATE_SOURCE", seen, announced, "frame", up)
      /\ "frame" \in Ends
  BY DEF SessionInv, TypeOK, Ends
<1>2. c2f' = IF up = Ends THEN c2f \o <<e>> ELSE c2f
  BY DEF ToFrame, Linked, Ends
<1> QED
  BY <1>1, <1>2, ChannelSend, TagsAreNaturals

LEMMA ToContextSends ==
    ASSUME SessionInv, NEW e \in FrameMessages, ToContext(<<e>>),
           e.type # "END_CONNECTION", e.tag = seen + Tick(e, "SUCCESSED")
    PROVE  /\ f2c' \in Seq(FrameMessages)
           /\ Channel(f2c', "SUCCESSED", announced - waitUpdateCount, e.tag,
                      "ctx", up)
<1>1. /\ f2c \in Seq(FrameMessages) /\ seen \in Int
      /\ announced - waitUpdateCount \in Int
      /\ Channel(f2c, "SUCCESSED", announced - waitUpdateCount, seen, "ctx", up)
      /\ "ctx" \in Ends
  BY DEF SessionInv, TypeOK, Ends
<1>2. f2c' = IF up = Ends THEN f2c \o <<e>> ELSE f2c
  BY DEF ToContext, Linked, Ends
<1> QED
  BY <1>1, <1>2, ChannelSend, TagsAreNaturals

(* A SET_UPDATECOUNT and the answer after it. *)
LEMMA ToContextSendsBoth ==
    ASSUME SessionInv, NEW d \in FrameMessages, NEW e \in FrameMessages,
           ToContext(<<d>> \o <<e>>),
           d.type \notin {"END_CONNECTION", "SUCCESSED"}, d.tag = seen,
           e.type = "SUCCESSED", e.tag = seen + 1
    PROVE  /\ f2c' \in Seq(FrameMessages)
           /\ Channel(f2c', "SUCCESSED", announced - waitUpdateCount, e.tag,
                      "ctx", up)
<1> DEFINE r == IF up = Ends THEN f2c \o <<d>> ELSE f2c
<1>1. /\ f2c \in Seq(FrameMessages) /\ seen \in Int
      /\ announced - waitUpdateCount \in Int
      /\ Channel(f2c, "SUCCESSED", announced - waitUpdateCount, seen, "ctx", up)
      /\ "ctx" \in Ends
  BY DEF SessionInv, TypeOK, Ends
<1>2. d.tag = seen + Tick(d, "SUCCESSED") /\ e.tag = seen + Tick(e, "SUCCESSED")
  BY <1>1 DEF Tick
<1>3. /\ r \in Seq(FrameMessages)
      /\ Channel(r, "SUCCESSED", announced - waitUpdateCount, seen, "ctx", up)
  BY <1>1, <1>2, ChannelSend, TagsAreNaturals
<1>4. f2c \o (<<d>> \o <<e>>) = (f2c \o <<d>>) \o <<e>>
  BY <1>1, ConcatAssociative
<1>5. f2c' = IF up = Ends THEN r \o <<e>> ELSE r
  BY <1>4 DEF ToContext, Linked, Ends
<1> HIDE DEF r
<1> QED
  BY <1>1, <1>2, <1>3, <1>5, ChannelSend, TagsAreNaturals

LEMMA ContextTakes ==
    ASSUME SessionInv, f2c # <<>>
    PROVE  /\ Head(f2c) \in FrameMessages /\ Tail(f2c) \in Seq(FrameMessages)
           /\ Head(f2c).type # "END_CONNECTION" =>
                 /\ Head(f2c).tag = announced - waitUpdateCount
                                    + Tick(Head(f2c), "SUCCESSED")
                 /\ Head(f2c).tag <= seen
                 /\ Channel(Tail(f2c), "SUCCESSED", Head(f2c).tag, seen, "ctx", up)
           /\ Head(f2c).type = "END_CONNECTION" =>
                 /\ "ctx" \notin up
                 /\ Channel(Tail(f2c), "SUCCESSED", announced - waitUpdateCount,
                            seen, "ctx", up)
<1>1. /\ f2c \in Seq(FrameMessages) /\ seen \in Int
      /\ announced - waitUpdateCount \in Int
      /\ Channel(f2c, "SUCCESSED", announced - waitUpdateCount, seen, "ctx", up)
      /\ "ctx" \in Ends
  BY DEF SessionInv, TypeOK, Ends
<1>2. Head(f2c) \in FrameMessages /\ Tail(f2c) \in Seq(FrameMessages)
  BY <1>1, Uncons
<1> HIDE DEF SessionInv
<1> QED
  BY <1>1, <1>2, ChannelTake, TagsAreNaturals

LEMMA FrameTakes ==
    ASSUME SessionInv, c2f # <<>>
    PROVE  /\ Head(c2f) \in CtxMessages /\ Tail(c2f) \in Seq(CtxMessages)
           /\ Head(c2f).type # "END_CONNECTION" =>
                 /\ Head(c2f).tag = seen + Tick(Head(c2f), "UPDATE_SOURCE")
                 /\ Head(c2f).tag <= announced
                 /\ Channel(Tail(c2f), "UPDATE_SOURCE", Head(c2f).tag, announced,
                            "frame", up)
           /\ Head(c2f).type = "END_CONNECTION" =>
                 /\ "frame" \notin up
                 /\ Channel(Tail(c2f), "UPDATE_SOURCE", seen, announced, "frame", up)
<1>1. /\ c2f \in Seq(CtxMessages) /\ seen \in Int /\ announced \in Int
      /\ Channel(c2f, "UPDATE_SOURCE", seen, announced, "frame", up)
      /\ "frame" \in Ends
  BY DEF SessionInv, TypeOK, Ends
<1>2. Head(c2f) \in CtxMessages /\ Tail(c2f) \in Seq(CtxMessages)
  BY <1>1, Uncons
<1> QED
  BY <1>1, <1>2, ChannelTake, TagsAreNaturals

LEMMA RequestIsTyped ==
    ASSUME SessionInv, NEW req \in Requests, SetDebugState(req)
    PROVE  /\ debugState' \in DebugStates
           /\ c2f' \in Seq(CtxMessages)
           /\ Channel(c2f', "UPDATE_SOURCE", seen, announced, "frame", up)
<1>1. debugState' \in DebugStates
  BY DEF SetDebugState, StateAfter, Requests, SessionInv, TypeOK
<1> DEFINE w == waitUpdateCount > 0
           e == [type |-> "CHANGED_STATE", flag |-> req = "BREAK",
                 count |-> 0, tag |-> announced]
<1>2. /\ e \in CtxMessages
      /\ e.type # "END_CONNECTION" /\ e.tag = announced
      /\ e.tag = announced + Tick(e, "UPDATE_SOURCE")
  BY DEF CtxMessages, SessionInv, TypeOK, Tick
<1>3. CASE TakesEffect(debugState, req, w)
  <2>1. ToFrame(<<e>>)
    BY <1>3 DEF SetDebugState, ChangedState, CtxMessage
  <2> HIDE DEF e
  <2> QED
    BY <1>1, <1>2, <2>1, ToFrameSends
<1>4. CASE ~TakesEffect(debugState, req, w)
  <2>1. ToFrame(<<>>)
    BY <1>4 DEF SetDebugState, ChangedState
  <2>2. c2f' = c2f
    BY <2>1, ConcatEmptySeq DEF ToFrame, SessionInv, TypeOK
  <2> QED
    BY <1>1, <2>2 DEF SessionInv, TypeOK
<1> QED
  BY <1>3, <1>4

LEMMA ContextKeepsSession ==
    ASSUME SessionInv,
           \/ Start \/ HookLine \/ StopOutsideLine \/ Handle
           \/ LeaveHook \/ SendUpdateSource
    PROVE  SessionInv'
<1> USE DEF SessionInv
<1>1. CASE Start \/ LeaveHook
  BY <1>1 DEF Start, LeaveHook, frameVars, TypeOK
<1>2. CASE HookLine
  <2>1. CASE SetDebugState("BREAK")
    <3>1. "BREAK" \in Requests
      BY DEF Requests, DebugStates
    <3> QED
      BY <1>2, <2>1, <3>1, RequestIsTyped
      DEF HookLine, frameVars, TypeOK, DebugStates
  <2>2. CASE UNCHANGED <<debugState, c2f>>
    BY <1>2, <2>2 DEF HookLine, frameVars, TypeOK, DebugStates
  <2> QED
    BY <1>2, <2>1, <2>2 DEF HookLine
<1>3. CASE StopOutsideLine
  <2>1. "BREAK" \in Requests
    BY DEF Requests, DebugStates
  <2> QED
    BY <1>3, <2>1, RequestIsTyped DEF StopOutsideLine, frameVars, TypeOK
<1>4. CASE Handle
  <2>1. ASSUME NEW req \in Requests, HandleRequest(req) PROVE SessionInv'
    <3>1. /\ f2c # <<>> /\ f2c' = Tail(f2c)
          /\ Head(f2c).type = req
          /\ req \notin {"SUCCESSED", "END_CONNECTION"}
      BY <2>1 DEF HandleRequest, Receives, Requests, DebugStates, Steps
    <3>2. Head(f2c).tag = announced - waitUpdateCount
      BY <3>1, ContextTakes DEF Tick, TypeOK
    <3> QED
      BY <2>1, <3>1, <3>2, ContextTakes, RequestIsTyped
      DEF HandleRequest, frameVars, TypeOK
  <2>2. CASE HandleSuccessed
    <3>1. /\ f2c # <<>> /\ f2c' = Tail(f2c) /\ Head(f2c).type = "SUCCESSED"
          /\ waitUpdateCount' = waitUpdateCount - 1
      BY <2>2 DEF HandleSuccessed, Receives
    <3>2. /\ Head(f2c).tag = announced - waitUpdateCount + 1
          /\ Head(f2c).tag <= seen
      BY <3>1, ContextTakes DEF Tick
    <3>3. seen <= announced
      BY DEF Channel, Flow
    <3>4. waitUpdateCount' \in Nat /\ Head(f2c).tag = announced - waitUpdateCount'
      BY <3>1, <3>2, <3>3 DEF TypeOK
    <3> QED
      BY <2>2, <3>1, <3>4, ContextTakes DEF HandleSuccessed, frameVars, TypeOK
  <2>3. CASE HandleSetUpdateCount
    <3>1. /\ f2c # <<>> /\ f2c' = Tail(f2c)
          /\ Head(f2c).type = "SET_UPDATECOUNT"
          /\ updateCount' \in {Head(f2c).count, updateCount}
      BY <2>3 DEF HandleSetUpdateCount, Receives
    <3>2. Head(f2c).tag = announced - waitUpdateCount
      BY <3>1, ContextTakes DEF Tick, TypeOK
    <3>3. Head(f2c).count \in Nat
      BY <3>1, ContextTakes DEF FrameMessages
    <3> QED
      BY <2>3, <3>1, <3>2, <3>3, ContextTakes
      DEF HandleSetUpdateCount, frameVars, TypeOK
  <2>4. CASE HandleForceUpdateSource
    <3>1. /\ f2c # <<>> /\ f2c' = Tail(f2c)
          /\ Head(f2c).type = "FORCE_UPDATESOURCE"
      BY <2>4 DEF HandleForceUpdateSource, Receives
    <3>2. Head(f2c).tag = announced - waitUpdateCount
      BY <3>1, ContextTakes DEF Tick, TypeOK
    <3> QED
      BY <2>4, <3>1, <3>2, ContextTakes
      DEF HandleForceUpdateSource, frameVars, TypeOK
  <2>5. CASE HandleEval
    <3> DEFINE e == [type |-> "VARLIST", flag |-> FALSE, count |-> 0,
                     tag |-> announced]
    <3>1. /\ f2c # <<>> /\ f2c' = Tail(f2c) /\ Head(f2c).type = "EVAL"
          /\ ToFrame(<<e>>)
      BY <2>5 DEF HandleEval, Receives, CtxMessage
    <3>2. Head(f2c).tag = announced - waitUpdateCount
      BY <3>1, ContextTakes DEF Tick, TypeOK
    <3>3. /\ e \in CtxMessages
          /\ e.type # "END_CONNECTION" /\ e.tag = announced
          /\ e.tag = announced + Tick(e, "UPDATE_SOURCE")
      BY DEF CtxMessages, TypeOK, Tick
    <3> HIDE DEF e
    <3> QED
      BY <2>5, <3>1, <3>2, <3>3, ContextTakes, ToFrameSends
      DEF HandleEval, ctxVars, frameVars, TypeOK
  <2>6. CASE HandleEndConnection
    <3>1. CASE UNCHANGED f2c
      BY <2>6, <3>1 DEF HandleEndConnection, frameVars, TypeOK
    <3>2. CASE Receives("END_CONNECTION")
      BY <2>6, <3>2, ContextTakes
      DEF HandleEndConnection, Receives, frameVars, TypeOK
    <3> QED
      BY <2>6, <3>1, <3>2 DEF HandleEndConnection
  <2> QED
    BY <1>4, <2>1, <2>2, <2>3, <2>4, <2>5, <2>6 DEF Handle
<1>5. CASE SendUpdateSource
  <2> DEFINE e == [type |-> "UPDATE_SOURCE", flag |-> IsRefreshOnly,
                   count |-> updateCount + 1, tag |-> announced + 1]
  <2>1. /\ ToFrame(<<e>>)
        /\ announced' = announced + 1 /\ waitUpdateCount' = waitUpdateCount + 1
    BY <1>5 DEF SendUpdateSource, CtxMessage
  <2>2. /\ e \in CtxMessages
        /\ e.type # "END_CONNECTION" /\ e.tag = announced + 1
        /\ e.tag = announced + Tick(e, "UPDATE_SOURCE")
    BY DEF CtxMessages, TypeOK, Tick, IsRefreshOnly
  <2>3. announced' - waitUpdateCount' = announced - waitUpdateCount
    BY <2>1 DEF TypeOK
  <2> HIDE DEF e
  <2>4. /\ c2f' \in Seq(CtxMessages)
        /\ Channel(c2f', "UPDATE_SOURCE", seen, announced', "frame", up)
    BY <2>1, <2>2, ToFrameSends
  <2>5. stopAt' \in Nat
    BY <1>5, <2>1 DEF SendUpdateSource, TypeOK
  <2>6. /\ waitUpdateCount' \in Nat /\ updateCount' \in Nat /\ announced' \in Nat
        /\ isMustUpdate' \in BOOLEAN /\ prevState' \in DebugStates
    <3>1. \A k \in Nat : k + 1 \in Nat
      OBVIOUS
    <3>2. /\ waitUpdateCount \in Nat /\ updateCount \in Nat /\ announced \in Nat
          /\ debugState \in DebugStates
      BY DEF TypeOK
    <3>3. /\ waitUpdateCount' = waitUpdateCount + 1
          /\ updateCount' = updateCount + 1
          /\ announced' = announced + 1
          /\ isMustUpdate' = FALSE /\ prevState' = debugState
      BY <1>5 DEF SendUpdateSource
    <3> QED
      BY ONLY <3>1, <3>2, <3>3
  <2>7. UNCHANGED <<pc, debugState, frameCount, stackFrame, frameState, issued,
                    seen, f2c, up>>
    BY <1>5 DEF SendUpdateSource, frameVars
  <2>8. TypeOK'
    BY <2>4, <2>5, <2>6, <2>7 DEF TypeOK
  <2>9. /\ Channel(f2c, "SUCCESSED", announced' - waitUpdateCount', seen, "ctx", up)
        /\ Channel(c2f', "UPDATE_SOURCE", seen, announced', "frame", up)
    BY <2>3, <2>4
  <2> QED
    BY <2>7, <2>8, <2>9
<1> QED
  BY <1>1, <1>2, <1>3, <1>4, <1>5

LEMMA FrameKeepsSession ==
    ASSUME SessionInv, Process \/ User
    PROVE  SessionInv'
<1> USE DEF SessionInv
<1>1. CASE OnChangedState
  <2>1. /\ c2f # <<>> /\ c2f' = Tail(c2f) /\ Head(c2f).type = "CHANGED_STATE"
        /\ frameState' \in {"break", "run"}
    BY <1>1 DEF OnChangedState, Processes
  <2>2. Head(c2f).tag = seen
    BY <2>1, FrameTakes DEF Tick, TypeOK
  <2> QED
    BY <1>1, <2>1, <2>2, FrameTakes DEF OnChangedState, ctxVars, TypeOK
<1>2. CASE OnUpdateSource
  <2>1. /\ c2f # <<>> /\ c2f' = Tail(c2f) /\ Head(c2f).type = "UPDATE_SOURCE"
        /\ seen' = seen + 1
        /\ UNCHANGED <<ctxVars, frameState, issued, up>>
    BY <1>2 DEF OnUpdateSource, Processes
  <2>2. Head(c2f).tag = seen'
    BY <2>1, FrameTakes DEF Tick, TypeOK
  <2>3. frameCount' \in Nat /\ stackFrame' \in Nat
    <3>1. Head(c2f).count \in Nat
      BY <2>1, FrameTakes DEF CtxMessages
    <3> QED
      BY <1>2, <3>1 DEF OnUpdateSource, TypeOK
  <2> DEFINE d == [type |-> "SET_UPDATECOUNT", count |-> frameCount + 1, tag |-> seen]
             e == [type |-> "SUCCESSED", count |-> 0, tag |-> seen + 1]
  <2>4. /\ d \in FrameMessages /\ e \in FrameMessages
        /\ d.type \notin {"END_CONNECTION", "SUCCESSED"} /\ d.tag = seen
        /\ e.type = "SUCCESSED" /\ e.tag = seen + 1
        /\ e.type # "END_CONNECTION" /\ e.tag = seen + Tick(e, "SUCCESSED")
    BY DEF FrameMessages, TypeOK, Tick
  <2>5. ToContext(<<e>>) \/ ToContext(<<d>> \o <<e>>)
    <3>1. <<>> \o <<e>> = <<e>>
      BY <2>4, ConcatEmptySeq
    <3> QED
      BY <1>2, <3>1
      DEF OnUpdateSource, CountsOnItsOwn, AnswersUpdate, FrameMessage
  <2> HIDE DEF d, e
  <2>6. /\ f2c' \in Seq(FrameMessages)
        /\ Channel(f2c', "SUCCESSED", announced - waitUpdateCount, seen', "ctx", up)
    BY <2>1, <2>4, <2>5, ToContextSends, ToContextSendsBoth
  <2> QED
    BY <2>1, <2>2, <2>3, <2>6, FrameTakes DEF ctxVars, TypeOK
<1>3. CASE OnVarList
  <2> DEFINE e == [type |-> "FORCE_UPDATESOURCE", count |-> 0, tag |-> seen]
  <2>1. /\ c2f # <<>> /\ c2f' = Tail(c2f) /\ Head(c2f).type = "VARLIST"
        /\ ToContext(<<e>>) \/ UNCHANGED f2c
    BY <1>3 DEF OnVarList, Processes, FrameMessage
  <2>2. Head(c2f).tag = seen
    BY <2>1, FrameTakes DEF Tick, TypeOK
  <2>3. /\ e \in FrameMessages /\ e.type # "END_CONNECTION"
        /\ e.tag = seen /\ e.tag = seen + Tick(e, "SUCCESSED")
    BY DEF FrameMessages, TypeOK, Tick
  <2> HIDE DEF e
  <2>4. /\ f2c' \in Seq(FrameMessages)
        /\ Channel(f2c', "SUCCESSED", announced - waitUpdateCount, seen, "ctx", up)
    BY <2>1, <2>3, ToContextSends DEF TypeOK
  <2> QED
    BY <1>3, <2>1, <2>2, <2>4, FrameTakes DEF OnVarList, ctxVars, frameVars, TypeOK
<1>4. CASE OnEndConnection
  <2>1. c2f # <<>> /\ c2f' = Tail(c2f) /\ Head(c2f).type = "END_CONNECTION"
    BY <1>4 DEF OnEndConnection, Processes
  <2> QED
    BY <1>4, <2>1, FrameTakes DEF OnEndConnection, ctxVars, TypeOK
<1>5. ASSUME NEW type \in Requests \cup {"EVAL", "SET_UPDATECOUNT"},
             NEW count \in Nat, ToContext(FrameMessage(type, count, seen)),
             UNCHANGED <<ctxVars, frameState, seen, c2f, up>>,
             issued' \in Nat, frameCount' \in Nat, stackFrame' \in Nat
      PROVE  SessionInv'
  <2> DEFINE e == [type |-> type, count |-> count, tag |-> seen]
  <2>1. /\ e \in FrameMessages /\ e.type # "END_CONNECTION" /\ e.tag = seen
        /\ e.tag = seen + Tick(e, "SUCCESSED")
    BY DEF FrameMessages, TypeOK, Tick, Requests, DebugStates, Steps
  <2>2. ToContext(<<e>>)
    BY <1>5 DEF FrameMessage
  <2> HIDE DEF e
  <2>3. /\ f2c' \in Seq(FrameMessages)
        /\ Channel(f2c', "SUCCESSED", announced - waitUpdateCount, seen, "ctx", up)
    BY <2>1, <2>2, ToContextSends
  <2> QED
    BY <1>5, <2>3 DEF ctxVars, TypeOK
<1>6. ASSUME NEW req \in Requests, UserRequest(req) PROVE SessionInv'
  BY <1>5, <1>6 DEF UserRequest, TypeOK
<1>7. CASE UserEval
  BY <1>5, <1>7 DEF UserEval, TypeOK
<1>8. CASE UserFocusBacktrace
  <2>1. /\ frameCount + 1 \in Nat /\ issued' \in Nat
        /\ frameCount' = frameCount + 1 /\ stackFrame' \in Nat
    BY <1>8 DEF UserFocusBacktrace, TypeOK
  <2>2. /\ ToContext(FrameMessage("SET_UPDATECOUNT", frameCount + 1, seen))
        /\ UNCHANGED <<ctxVars, frameState, seen, c2f, up>>
    BY <1>8 DEF UserFocusBacktrace
  <2> HIDE DEF SessionInv
  <2> QED
    BY <1>5, <2>1, <2>2
<1> QED
  BY <1>1, <1>2, <1>3, <1>4, <1>6, <1>7, <1>8 DEF Process, User

LEMMA ClosingKeepsSession ==
    ASSUME SessionInv, CloseContextEnd \/ CloseFrameEnd
    PROVE  SessionInv'
<1> USE DEF SessionInv
<1>1. CASE CloseContextEnd
  <2> DEFINE e == [type |-> "END_CONNECTION", count |-> 0, tag |-> 0]
  <2>1. PICK n \in 0 .. Len(f2c) : f2c' = SubSeq(f2c, 1, n) \o <<e>>
    BY <1>1 DEF CloseContextEnd, FrameMessage
  <2>2. e \in FrameMessages /\ e.type = "END_CONNECTION"
    BY DEF FrameMessages
  <2> HIDE DEF e
  <2>3. /\ "ctx" \in up /\ "ctx" \in Ends
        /\ up' = up \ {"ctx"} /\ UNCHANGED <<ctxVars, frameVars, c2f>>
    BY <1>1 DEF CloseContextEnd, Ends
  <2>4. /\ f2c' \in Seq(FrameMessages)
        /\ Channel(f2c', "SUCCESSED", announced - waitUpdateCount, seen, "ctx", up')
    BY <2>1, <2>2, <2>3, ChannelCut DEF TypeOK
  <2>5. Channel(c2f, "UPDATE_SOURCE", seen, announced, "frame", up')
    BY <2>3 DEF Channel, Ends
  <2> QED
    BY <2>3, <2>4, <2>5 DEF ctxVars, frameVars, TypeOK
<1>2. CASE CloseFrameEnd
  <2> DEFINE e == [type |-> "END_CONNECTION", flag |-> FALSE, count |-> 0, tag |-> 0]
  <2>1. PICK n \in 0 .. Len(c2f) : c2f' = SubSeq(c2f, 1, n) \o <<e>>
    BY <1>2 DEF CloseFrameEnd, CtxMessage
  <2>2. e \in CtxMessages /\ e.type = "END_CONNECTION"
    BY DEF CtxMessages
  <2> HIDE DEF e
  <2>3. /\ "frame" \in up /\ "frame" \in Ends
        /\ up' = up \ {"frame"} /\ UNCHANGED <<ctxVars, frameVars, f2c>>
    BY <1>2 DEF CloseFrameEnd, Ends
  <2>4. /\ c2f' \in Seq(CtxMessages)
        /\ Channel(c2f', "UPDATE_SOURCE", seen, announced, "frame", up')
    BY <2>1, <2>2, <2>3, ChannelCut DEF TypeOK
  <2>5. Channel(f2c, "SUCCESSED", announced - waitUpdateCount, seen, "ctx", up')
    BY <2>3 DEF Channel, Ends
  <2> QED
    BY <2>3, <2>4, <2>5 DEF ctxVars, frameVars, TypeOK
<1> QED
  BY <1>1, <1>2

LEMMA SessionInvAlways == Spec => []SessionInv
<1>1. Init => SessionInv
  <2> SUFFICES ASSUME Init PROVE SessionInv
    OBVIOUS
  <2>1. c2f = <<>> /\ f2c = <<>> /\ Len(c2f) = 0 /\ Len(f2c) = 0
        /\ seen = 0 /\ announced = 0 /\ waitUpdateCount = 0
    BY EmptySeq DEF Init
  <2>2. c2f \in Seq(CtxMessages) /\ f2c \in Seq(FrameMessages)
    BY <2>1, EmptySeq
  <2>3. TypeOK
    BY <2>2 DEF Init, TypeOK, DebugStates, Steps
  <2> QED
    BY <2>1, <2>3 DEF SessionInv, Channel, Flow, Open, LastTag, TagBefore
<1>2. SessionInv /\ [Next]_vars => SessionInv'
  <2>1. SessionInv /\ UNCHANGED vars => SessionInv'
    BY DEF SessionInv, vars, ctxVars, frameVars, TypeOK
  <2> QED
    BY <2>1, ContextKeepsSession, FrameKeepsSession, ClosingKeepsSession DEF Next
<1> QED
  BY <1>1, <1>2, PTL DEF Spec

(* The two processes' state and their messages keep their types; above all  *)
(* m_waitUpdateCount never goes below zero, whatever is answered twice,     *)
(* late or not at all when the connection is lost.                          *)
THEOREM SessionTypeCorrect == Spec => []TypeOK
<1>1. SessionInv => TypeOK
  BY DEF SessionInv
<1> QED
  BY <1>1, SessionInvAlways, PTL

(* A command to go on is obeyed in a stop if and only if all announcements  *)
(* of the stop had been shown when the user gave it: for m_waitUpdateCount  *)
(* is zero exactly if the command is tagged with the last announcement.     *)
THEOREM SessionObeysIffInformed == Spec => ObeyedIffInformed
<1> DEFINE Obeyed ==
      \A req \in Requests \ {"BREAK"} :
          HandleRequest(req) /\ debugState = "BREAK" =>
            (debugState' # "BREAK" <=> Head(f2c).tag = announced)
<1>1. SessionInv => Obeyed
  <2> SUFFICES ASSUME SessionInv, NEW req \in Requests \ {"BREAK"},
                      HandleRequest(req), debugState = "BREAK"
               PROVE  debugState' # "BREAK" <=> Head(f2c).tag = announced
    OBVIOUS
  <2>1. /\ f2c # <<>> /\ Head(f2c).type = req
        /\ req \notin {"SUCCESSED", "END_CONNECTION"}
        /\ debugState' = StateAfter(debugState, req, waitUpdateCount > 0)
    BY DEF HandleRequest, Receives, SetDebugState, Requests, DebugStates, Steps
  <2>2. waitUpdateCount \in Nat /\ announced \in Nat
    BY DEF SessionInv, TypeOK
  <2>3. Head(f2c).tag = announced - waitUpdateCount
    BY <2>1, <2>2, ContextTakes DEF Tick
  <2>4. debugState' # "BREAK" <=> ~(waitUpdateCount > 0)
    BY <2>1 DEF StateAfter, TakesEffect, ReturnsEarly
  <2> QED
    BY <2>2, <2>3, <2>4
<1> QED
  BY <1>1, SessionInvAlways, PTL DEF ObeyedIffInformed

-----------------------------------------------------------------------------
(* FrameBelief of the messages s, when the views were last told `state`. *)
Told(s) == {i \in DOMAIN s : s[i].type = "CHANGED_STATE"}

Belief(s, state, actual) ==
    IF Told(s) = {} THEN state = "break" <=> actual = "BREAK"
    ELSE \E i \in Told(s) : /\ \A j \in Told(s) : j <= i
                            /\ s[i].flag <=> actual = "BREAK"

LEMMA BeliefSend ==
    ASSUME NEW S, NEW s \in Seq(S), NEW e \in S, NEW state, NEW old, NEW new,
           \/ e.type = "CHANGED_STATE" /\ (e.flag <=> new = "BREAK")
           \/ e.type # "CHANGED_STATE" /\ new = old /\ Belief(s, state, old)
    PROVE  Belief(s \o <<e>>, state, new)
<1> DEFINE r == s \o <<e>>
           n == Len(s)
<1>1. /\ r \in Seq(S) /\ Len(r) = n + 1 /\ r[n + 1] = e
      /\ \A i \in 1 .. n : r[i] = s[i]
  BY Snoc
<1>2. n \in Nat /\ DOMAIN s = 1 .. n /\ DOMAIN r = 1 .. n + 1
  BY <1>1, LenProperties
<1> HIDE DEF r, n
<1>3. \A i : i \in 1 .. n + 1 <=> i \in 1 .. n \/ i = n + 1
  BY <1>2
<1>4. CASE e.type = "CHANGED_STATE" /\ (e.flag <=> new = "BREAK")
  <2>1. n + 1 \in Told(r)
    BY <1>1, <1>2, <1>3, <1>4 DEF Told
  <2>2. \A j \in Told(r) : j <= n + 1
    BY <1>2 DEF Told
  <2> QED
    BY <1>1, <1>4, <2>1, <2>2 DEF Belief, r
<1>5. CASE e.type # "CHANGED_STATE" /\ new = old /\ Belief(s, state, old)
  <2>1. Told(r) = Told(s)
    BY <1>1, <1>2, <1>3, <1>5 DEF Told
  <2>2. \A i \in Told(s) : r[i] = s[i]
    BY <1>1, <1>2 DEF Told
  <2> QED
    BY <1>5, <2>1, <2>2 DEF Belief, r
<1> QED
  BY <1>4, <1>5

LEMMA BeliefTake ==
    ASSUME NEW S, NEW s \in Seq(S), s # <<>>, NEW old, NEW new, NEW actual,
           Belief(s, old, actual),
           IF Head(s).type = "CHANGED_STATE"
           THEN new = IF Head(s).flag THEN "break" ELSE "run"
           ELSE new = old
    PROVE  Belief(Tail(s), new, actual)
<1> DEFINE t == Tail(s)
           n == Len(s)
<1>1. /\ Head(s) = s[1] /\ t \in Seq(S)
      /\ n \in Nat \ {0} /\ Len(t) = n - 1
      /\ \A i \in 1 .. n - 1 : t[i] = s[i + 1]
  BY Uncons
<1>2. DOMAIN s = 1 .. n /\ DOMAIN t = 1 .. n - 1
  BY <1>1, LenProperties
<1> HIDE DEF t, n
<1>3. /\ \A i \in 1 .. n - 1 : i + 1 \in 1 .. n
      /\ \A i \in 1 .. n : i = 1 \/ (i - 1 \in 1 .. n - 1 /\ (i - 1) + 1 = i)
      /\ 1 \in 1 .. n
  BY <1>1
<1>4. \A i \in Told(t) : i + 1 \in Told(s) /\ i \in Int
  BY <1>1, <1>2, <1>3 DEF Told
<1>5. \A i \in Told(s) : i = 1 \/ (i - 1 \in Told(t) /\ (i - 1) + 1 = i)
  BY <1>1, <1>2, <1>3 DEF Told
<1>6. Told(s) \subseteq Int
  BY <1>2 DEF Told
<1>7. CASE Told(t) # {}
  <2>1. PICK k \in Told(t) : TRUE
    BY <1>7
  <2>2. PICK i \in Told(s) : /\ \A j \in Told(s) : j <= i
                             /\ s[i].flag <=> actual = "BREAK"
    BY <1>4, <2>1 DEF Belief
  <2>3. i # 1
    <3>1. k \in 1 .. n - 1
      BY <1>2, <2>1 DEF Told
    <3>2. k + 1 <= i
      BY <1>4, <2>1, <2>2
    <3> QED
      BY <1>1, <3>1, <3>2
  <2>4. i - 1 \in Told(t) /\ (i - 1) + 1 = i
    BY <1>5, <2>2, <2>3
  <2>5. \A j \in Told(t) : j <= i - 1
    <3>1. \A j \in Told(t) : j \in Int /\ j + 1 <= i
      BY <1>4, <2>2
    <3>2. i \in Int
      BY <1>6, <2>2
    <3>3. \A a, b \in Int : a + 1 <= b => a <= b - 1
      OBVIOUS
    <3> QED
      BY ONLY <3>1, <3>2, <3>3
  <2>6. t[i - 1] = s[i]
    <3>1. i - 1 \in 1 .. n - 1
      BY <1>2, <2>4 DEF Told
    <3> DEFINE h == i - 1
    <3>2. h \in 1 .. n - 1 /\ h + 1 = i
      BY <2>4, <3>1
    <3> HIDE DEF h
    <3>3. t[h] = s[h + 1]
      BY <1>1, <3>2
    <3> QED
      BY <3>2, <3>3 DEF h
  <2> DEFINE h == i - 1
  <2>7. h \in Told(t) /\ (\A j \in Told(t) : j <= h) /\ t[h] = s[i]
    BY <2>4, <2>5, <2>6
  <2> HIDE DEF h
  <2>8. t[h].flag <=> actual = "BREAK"
    BY <2>2, <2>7
  <2>9. Belief(t, new, actual)
    BY <1>7, <2>7, <2>8 DEF Belief
  <2> QED
    BY <2>9 DEF t
<1>8. CASE Told(t) = {}
  <2>1. \A i \in Told(s) : i = 1
    BY <1>5, <1>8
  <2>2. CASE Head(s).type = "CHANGED_STATE"
    <3>1. 1 \in Told(s)
      BY <1>1, <1>2, <1>3, <2>2 DEF Told
    <3>2. s[1].flag <=> actual = "BREAK"
      BY <2>1, <3>1 DEF Belief
    <3> QED
      BY <1>1, <1>8, <2>2, <3>2 DEF Belief, t
  <2>3. CASE Head(s).type # "CHANGED_STATE"
    <3>1. Told(s) = {}
      BY <1>1, <2>1, <2>3 DEF Told
    <3> QED
      BY <1>8, <2>3, <3>1 DEF Belief, t
  <2> QED
    BY <2>2, <2>3
<1> QED
  BY <1>7, <1>8

LEMMA RequestKeepsBelief ==
    ASSUME SessionInv, NEW req \in Requests, SetDebugState(req), Linked,
           Belief(c2f, frameState, debugState)
    PROVE  Belief(c2f', frameState, debugState')
<1> DEFINE w == waitUpdateCount > 0
           e == [type |-> "CHANGED_STATE", flag |-> req = "BREAK",
                 count |-> 0, tag |-> announced]
<1>1. CASE TakesEffect(debugState, req, w)
  <2>1. c2f' = c2f \o <<e>> /\ debugState' = req
    BY <1>1 DEF SetDebugState, ToFrame, ChangedState, CtxMessage, StateAfter
  <2>2. /\ e \in CtxMessages /\ c2f \in Seq(CtxMessages)
        /\ e.type = "CHANGED_STATE" /\ (e.flag <=> req = "BREAK")
    BY DEF CtxMessages, SessionInv, TypeOK
  <2> HIDE DEF e
  <2> QED
    BY <2>1, <2>2, BeliefSend
<1>2. CASE ~TakesEffect(debugState, req, w)
  <2>1. debugState' = debugState /\ c2f' = c2f \o <<>>
    BY <1>2 DEF SetDebugState, ToFrame, ChangedState, StateAfter
  <2> QED
    BY <2>1, ConcatEmptySeq DEF SessionInv, TypeOK
<1> QED
  BY <1>1, <1>2

LEMMA LinkedBefore ==
    ASSUME SessionInv, [Next]_vars, Linked'
    PROVE  Linked
<1>1. up' \subseteq up /\ up \subseteq {"ctx", "frame"}
  BY DEF Next, Handle, Process, User, vars, ctxVars, frameVars, Start, HookLine,
         StopOutsideLine, HandleRequest, HandleSuccessed, HandleSetUpdateCount,
         HandleForceUpdateSource, HandleEval, HandleEndConnection, LeaveHook,
         SendUpdateSource, OnChangedState, OnUpdateSource, OnVarList,
         OnEndConnection, UserRequest, UserEval, UserFocusBacktrace,
         CloseContextEnd, CloseFrameEnd, SessionInv, TypeOK
<1> QED
  BY <1>1 DEF Linked

LEMMA NextKeepsBelief ==
    ASSUME SessionInv, [Next]_vars, Linked', Linked => Belief(c2f, frameState, debugState)
    PROVE  Belief(c2f, frameState, debugState)'
<1>1. Linked
  BY LinkedBefore
<1>2. Belief(c2f, frameState, debugState) /\ c2f \in Seq(CtxMessages)
  BY <1>1 DEF SessionInv, TypeOK
<1>3. CASE UNCHANGED <<c2f, frameState, debugState>>
  BY <1>2, <1>3
<1>4. CASE \/ UNCHANGED vars \/ Start \/ LeaveHook \/ User
           \/ HandleSuccessed \/ HandleSetUpdateCount
           \/ HandleForceUpdateSource \/ HandleEndConnection
  BY <1>3, <1>4
  DEF vars, ctxVars, frameVars, Start, LeaveHook, User, UserRequest, UserEval,
      UserFocusBacktrace, HandleSuccessed, HandleSetUpdateCount,
      HandleForceUpdateSource, HandleEndConnection
<1>5. "BREAK" \in Requests
  BY DEF Requests, DebugStates
<1>6. CASE HookLine \/ StopOutsideLine
  BY <1>1, <1>2, <1>3, <1>5, <1>6, RequestKeepsBelief
  DEF HookLine, StopOutsideLine, frameVars
<1>7. ASSUME NEW req \in Requests, HandleRequest(req)
      PROVE  Belief(c2f, frameState, debugState)'
  BY <1>1, <1>2, <1>7, RequestKeepsBelief DEF HandleRequest, frameVars
<1>8. ASSUME NEW e \in CtxMessages, e.type # "CHANGED_STATE", ToFrame(<<e>>),
             UNCHANGED <<frameState, debugState>>
      PROVE  Belief(c2f, frameState, debugState)'
  BY <1>1, <1>2, <1>8, BeliefSend DEF ToFrame
<1>9. CASE HandleEval
  <2>1. ToFrame(<<[type |-> "VARLIST", flag |-> FALSE, count |-> 0,
                   tag |-> announced]>>)
    BY <1>9 DEF HandleEval, CtxMessage
  <2> QED
    BY <1>8, <1>9, <2>1
    DEF HandleEval, ctxVars, frameVars, CtxMessages, SessionInv, TypeOK
<1>10. CASE SendUpdateSource
  <2> DEFINE e == [type |-> "UPDATE_SOURCE", flag |-> IsRefreshOnly,
                   count |-> updateCount + 1, tag |-> announced + 1]
  <2>1. ToFrame(<<e>>) /\ UNCHANGED <<frameState, debugState>>
    BY <1>10 DEF SendUpdateSource, CtxMessage, frameVars
  <2>2. e \in CtxMessages /\ e.type # "CHANGED_STATE"
    BY DEF CtxMessages, SessionInv, TypeOK, IsRefreshOnly
  <2> HIDE DEF e
  <2> QED
    BY <1>8, <2>1, <2>2
<1>11. CASE Process
  <2>1. CASE OnEndConnection
    BY <1>1, <2>1, FrameTakes DEF OnEndConnection, Processes, Linked
  <2>2. CASE OnChangedState
    <3>1. /\ c2f # <<>> /\ c2f' = Tail(c2f) /\ UNCHANGED debugState
          /\ Head(c2f).type = "CHANGED_STATE"
          /\ frameState' = IF Head(c2f).flag THEN "break" ELSE "run"
      BY <2>2 DEF OnChangedState, Processes, ctxVars
    <3> QED
      BY <1>2, <3>1, BeliefTake
  <2>3. CASE OnUpdateSource \/ OnVarList
    <3>1. /\ c2f # <<>> /\ c2f' = Tail(c2f) /\ UNCHANGED <<frameState, debugState>>
          /\ Head(c2f).type # "CHANGED_STATE"
      BY <2>3 DEF OnUpdateSource, OnVarList, Processes, ctxVars, frameVars
    <3> QED
      BY <1>2, <3>1, BeliefTake
  <2> QED
    BY <1>11, <2>1, <2>2, <2>3 DEF Process
<1>12. ~CloseContextEnd /\ ~CloseFrameEnd
  BY DEF CloseContextEnd, CloseFrameEnd, Linked
<1> QED
  BY <1>4, <1>6, <1>7, <1>9, <1>10, <1>11, <1>12 DEF Next, Handle

(* While the connection is up, whether the program is stopped is what the   *)
(* views show or what the last CHANGED_STATE on its way will tell them.     *)
THEOREM ViewsBelieveTheTruth == Spec => []FrameBelief
<1> DEFINE Inv == Linked => Belief(c2f, frameState, debugState)
<1>1. Init => Inv
  <2> SUFFICES ASSUME Init PROVE Inv
    OBVIOUS
  <2>1. c2f = <<>> /\ frameState # "break" /\ debugState # "BREAK"
    BY DEF Init
  <2>2. DOMAIN c2f = {}
    BY <2>1
  <2> QED
    BY <2>1, <2>2 DEF Belief, Told
<1>2. SessionInv /\ SessionInv' /\ Inv /\ [Next]_vars => Inv'
  BY NextKeepsBelief
<1>3. Inv => FrameBelief
  BY DEF Belief, Told, FrameBelief
<1> QED
  BY <1>1, <1>2, <1>3, SessionInvAlways, PTL DEF Spec

-----------------------------------------------------------------------------
(* An end whose update count is behind will be told the other's: the count  *)
(* is on its way.  And nothing on its way is ahead of its sender.           *)
Elements(s) == {s[i] : i \in 1 .. Len(s)}

Announces(m, count) == m.type = "UPDATE_SOURCE" /\ m.count = count

Raises(m, count) == m.type = "SET_UPDATECOUNT" /\ m.count = count

CountInv ==
    /\ \A m \in Elements(c2f) : m.type = "UPDATE_SOURCE" => m.count <= updateCount
    /\ \A m \in Elements(f2c) : m.type = "SET_UPDATECOUNT" => m.count <= frameCount
    /\ \/ updateCount <= frameCount
       \/ \E m \in Elements(c2f) : Announces(m, updateCount)
    /\ \/ frameCount <= updateCount
       \/ \E m \in Elements(f2c) : Raises(m, frameCount)

LEMMA SnocElements ==
    ASSUME NEW S, NEW s \in Seq(S), NEW m \in S
    PROVE  Elements(s \o <<m>>) = Elements(s) \cup {m}
<1> DEFINE r == s \o <<m>>
<1>1. /\ Len(r) = Len(s) + 1 /\ r[Len(s) + 1] = m
      /\ \A i \in 1 .. Len(s) : r[i] = s[i]
  BY Snoc
<1>2. Len(s) \in Nat
  BY LenProperties
<1> HIDE DEF r
<1>3. \A i : i \in 1 .. Len(s) + 1 <=> i \in 1 .. Len(s) \/ i = Len(s) + 1
  BY <1>2
<1> QED
  BY <1>1, <1>3 DEF Elements, r

LEMMA UnconsElements ==
    ASSUME NEW S, NEW s \in Seq(S), s # <<>>
    PROVE  Elements(s) = {Head(s)} \cup Elements(Tail(s))
<1> DEFINE t == Tail(s)
           n == Len(s)
<1>1. /\ Head(s) = s[1]
      /\ n \in Nat \ {0} /\ Len(t) = n - 1
      /\ \A i \in 1 .. n - 1 : t[i] = s[i + 1]
  BY Uncons
<1> HIDE DEF t, n
<1>2. /\ \A i \in 1 .. n - 1 : i + 1 \in 1 .. n
      /\ \A i \in 1 .. n : i = 1 \/ (i - 1 \in 1 .. n - 1 /\ (i - 1) + 1 = i)
      /\ 1 \in 1 .. n
  BY <1>1
<1>3. Elements(t) \subseteq Elements(s)
  BY <1>1, <1>2 DEF Elements, n
<1>4. ASSUME NEW i \in 1 .. n PROVE s[i] \in {s[1]} \cup Elements(t)
  <2>1. CASE i = 1
    BY <2>1
  <2>2. CASE i # 1
    <3> DEFINE h == i - 1
    <3>1. h \in 1 .. n - 1 /\ h + 1 = i
      BY <1>2, <2>2
    <3> HIDE DEF h
    <3>2. t[h] = s[i]
      BY <1>1, <3>1
    <3> QED
      BY <1>1, <3>1, <3>2 DEF Elements
  <2> QED
    BY <2>1, <2>2
<1>5. s[1] \in Elements(s)
  BY <1>2 DEF Elements, n
<1> QED
  BY <1>1, <1>3, <1>4, <1>5 DEF Elements, t, n

LEMMA NextKeepsCounts ==
    ASSUME SessionInv, [Next]_vars, Linked', Linked => CountInv
    PROVE  CountInv'
<1>1. Linked
  BY LinkedBefore
<1>2. /\ CountInv
      /\ c2f \in Seq(CtxMessages) /\ f2c \in Seq(FrameMessages)
      /\ updateCount \in Nat /\ frameCount \in Nat
      /\ seen \in Nat /\ announced \in Nat
  BY <1>1 DEF SessionInv, TypeOK
<1>3. /\ \A m \in CtxMessages : m.count \in Nat
      /\ \A m \in FrameMessages : m.count \in Nat
  BY DEF CtxMessages, FrameMessages
(* What else is sent or taken does not count. *)
<1>4. ASSUME UNCHANGED <<updateCount, frameCount>>,
             \A m : m.type = "UPDATE_SOURCE" =>
                      (m \in Elements(c2f)' <=> m \in Elements(c2f)),
             \A m : m.type = "SET_UPDATECOUNT" =>
                      (m \in Elements(f2c)' <=> m \in Elements(f2c))
      PROVE  CountInv'
  BY <1>2, <1>4 DEF CountInv, Announces, Raises
<1>5. ASSUME NEW e \in CtxMessages, ToFrame(<<e>>)
      PROVE  Elements(c2f)' = Elements(c2f) \cup {e}
  BY <1>1, <1>2, <1>5, SnocElements DEF ToFrame
<1>6. ASSUME NEW e \in FrameMessages, ToContext(<<e>>)
      PROVE  Elements(f2c)' = Elements(f2c) \cup {e}
  BY <1>1, <1>2, <1>6, SnocElements DEF ToContext
<1>7. ASSUME NEW type, Processes(type)
      PROVE  /\ Head(c2f) \in CtxMessages /\ Head(c2f).type = type
             /\ Elements(c2f) = Elements(c2f)' \cup {Head(c2f)}
  BY <1>2, <1>7, Uncons, UnconsElements DEF Processes
<1>8. ASSUME NEW type, Receives(type)
      PROVE  /\ Head(f2c) \in FrameMessages /\ Head(f2c).type = type
             /\ Elements(f2c) = Elements(f2c)' \cup {Head(f2c)}
  BY <1>2, <1>8, Uncons, UnconsElements DEF Receives
<1>9. ASSUME NEW req \in Requests, SetDebugState(req)
      PROVE  \A m : m.type = "UPDATE_SOURCE" =>
                      (m \in Elements(c2f)' <=> m \in Elements(c2f))
  <2> DEFINE e == [type |-> "CHANGED_STATE", flag |-> req = "BREAK",
                   count |-> 0, tag |-> announced]
  <2>1. ToFrame(<<e>>) \/ ToFrame(<<>>)
    BY <1>9 DEF SetDebugState, ChangedState, CtxMessage
  <2>2. e \in CtxMessages /\ e.type # "UPDATE_SOURCE"
    BY <1>2 DEF CtxMessages
  <2>3. ToFrame(<<>>) => c2f' = c2f
    BY <1>2, ConcatEmptySeq DEF ToFrame
  <2> HIDE DEF e
  <2> QED
    BY <1>5, <2>1, <2>2, <2>3
<1>10. "BREAK" \in Requests
  BY DEF Requests, DebugStates
<1>11. CASE UNCHANGED vars \/ Start \/ LeaveHook
  BY <1>4, <1>11 DEF vars, ctxVars, frameVars, Start, LeaveHook
<1>12. CASE HookLine \/ StopOutsideLine
  BY <1>4, <1>9, <1>10, <1>12 DEF HookLine, StopOutsideLine, frameVars
<1>13. ASSUME NEW req \in Requests, HandleRequest(req) PROVE CountInv'
  <2>1. /\ Receives(req) /\ SetDebugState(req) /\ req # "SET_UPDATECOUNT"
        /\ UNCHANGED <<updateCount, frameCount>>
    BY <1>13 DEF HandleRequest, Requests, DebugStates, Steps, frameVars
  <2> QED
    BY <1>4, <1>8, <1>9, <2>1
<1>14. CASE HandleSuccessed
  BY <1>4, <1>8, <1>14 DEF HandleSuccessed, frameVars
<1>15. CASE HandleForceUpdateSource
  BY <1>4, <1>8, <1>15 DEF HandleForceUpdateSource, frameVars
<1>16. CASE HandleEndConnection
  BY <1>4, <1>8, <1>16 DEF HandleEndConnection, frameVars
<1>17. CASE HandleEval
  <2> DEFINE e == [type |-> "VARLIST", flag |-> FALSE, count |-> 0,
                   tag |-> announced]
  <2>1. /\ Receives("EVAL") /\ ToFrame(<<e>>)
        /\ UNCHANGED <<updateCount, frameCount>>
    BY <1>17 DEF HandleEval, CtxMessage, ctxVars, frameVars
  <2>2. e \in CtxMessages /\ e.type # "UPDATE_SOURCE"
    BY <1>2 DEF CtxMessages
  <2> HIDE DEF e
  <2> QED
    BY <1>4, <1>5, <1>8, <2>1, <2>2
<1>18. CASE HandleSetUpdateCount
  <2> DEFINE c == Head(f2c).count
  <2>1. /\ Receives("SET_UPDATECOUNT")
        /\ updateCount' = IF c > updateCount THEN c ELSE updateCount
        /\ UNCHANGED <<frameCount, c2f>>
    BY <1>18 DEF HandleSetUpdateCount, frameVars
  <2>2. /\ Elements(f2c) = Elements(f2c)' \cup {Head(f2c)}
        /\ Head(f2c).type = "SET_UPDATECOUNT" /\ c \in Nat
        /\ c <= frameCount
    BY <1>2, <1>3, <1>8, <2>1 DEF CountInv
  <2>3. /\ updateCount <= updateCount' /\ c <= updateCount' /\ updateCount' \in Nat
        /\ updateCount' = updateCount \/ updateCount' <= frameCount
    BY <1>2, <2>1, <2>2
  <2>4. \A m \in Elements(c2f) : m.type = "UPDATE_SOURCE" => m.count <= updateCount'
    <3>1. \A m \in Elements(c2f) : m \in CtxMessages
      BY <1>2, ElementOfSeq, LenProperties DEF Elements
    <3> QED
      BY <1>2, <1>3, <2>3, <3>1 DEF CountInv
  <2>5. \/ frameCount <= updateCount'
        \/ \E m \in Elements(f2c)' : Raises(m, frameCount)
    <3>1. CASE frameCount <= updateCount
      BY <1>2, <2>3, <3>1
    <3>2. CASE \E m \in Elements(f2c) : Raises(m, frameCount)
      BY <2>2, <2>3, <3>2 DEF Raises
    <3> QED
      BY <1>2, <3>1, <3>2 DEF CountInv
  <2>6. \/ updateCount' <= frameCount
        \/ \E m \in Elements(c2f) : Announces(m, updateCount')
    BY <1>2, <2>3 DEF CountInv
  <2>7. \A m \in Elements(f2c)' : m.type = "SET_UPDATECOUNT" => m.count <= frameCount
    BY <1>2, <2>2 DEF CountInv
  <2> QED
    BY <2>1, <2>4, <2>5, <2>6, <2>7 DEF CountInv
<1>19. CASE SendUpdateSource
  <2> DEFINE e == [type |-> "UPDATE_SOURCE", flag |-> IsRefreshOnly,
                   count |-> updateCount + 1, tag |-> announced + 1]
  <2>1. /\ ToFrame(<<e>>) /\ updateCount' = updateCount + 1
        /\ UNCHANGED <<frameCount, f2c>>
    BY <1>19 DEF SendUpdateSource, CtxMessage, frameVars
  <2>2. /\ e \in CtxMessages /\ Announces(e, updateCount + 1)
        /\ e.count = updateCount + 1
    BY <1>2 DEF CtxMessages, Announces, IsRefreshOnly
  <2> HIDE DEF e
  <2>3. Elements(c2f)' = Elements(c2f) \cup {e}
    BY <1>5, <2>1, <2>2
  <2>4. \A m \in Elements(c2f)' : m.type = "UPDATE_SOURCE" => m.count <= updateCount'
    <3>1. \A m \in Elements(c2f) : m \in CtxMessages
      BY <1>2, ElementOfSeq, LenProperties DEF Elements
    <3> QED
      BY <1>2, <1>3, <2>1, <2>2, <2>3, <3>1 DEF CountInv
  <2>5. \/ frameCount <= updateCount'
        \/ \E m \in Elements(f2c) : Raises(m, frameCount)
    BY <1>2, <2>1 DEF CountInv
  <2> QED
    BY <1>2, <2>1, <2>2, <2>3, <2>4, <2>5 DEF CountInv
<1>20. CASE OnChangedState
  BY <1>4, <1>7, <1>20 DEF OnChangedState, ctxVars
<1>21. CASE OnVarList
  <2> DEFINE e == [type |-> "FORCE_UPDATESOURCE", count |-> 0, tag |-> seen]
  <2>1. /\ Processes("VARLIST")
        /\ ToContext(<<e>>) \/ UNCHANGED f2c
        /\ UNCHANGED <<updateCount, frameCount>>
    BY <1>21 DEF OnVarList, FrameMessage, ctxVars, frameVars
  <2>2. e \in FrameMessages /\ e.type # "SET_UPDATECOUNT"
    BY <1>2 DEF FrameMessages
  <2> HIDE DEF e
  <2>3. \A m : m.type = "SET_UPDATECOUNT" =>
                  (m \in Elements(f2c)' <=> m \in Elements(f2c))
    BY <1>6, <2>1, <2>2
  <2>4. \A m : m.type = "UPDATE_SOURCE" =>
                  (m \in Elements(c2f)' <=> m \in Elements(c2f))
    BY <1>7, <2>1
  <2> QED
    BY <1>4, <2>1, <2>3, <2>4
<1>22. CASE OnEndConnection
  BY <1>1, <1>22, FrameTakes DEF OnEndConnection, Processes, Linked
<1>23. ASSUME NEW req \in Requests, UserRequest(req) PROVE CountInv'
  <2> DEFINE e == [type |-> req, count |-> 0, tag |-> seen]
  <2>1. ToContext(<<e>>) /\ UNCHANGED <<c2f, updateCount, frameCount>>
    BY <1>23 DEF UserRequest, FrameMessage, ctxVars
  <2>2. e \in FrameMessages /\ e.type # "SET_UPDATECOUNT"
    BY <1>2 DEF FrameMessages, Requests, DebugStates, Steps
  <2> HIDE DEF e
  <2> QED
    BY <1>4, <1>6, <2>1, <2>2
<1>24. CASE UserEval
  <2> DEFINE e == [type |-> "EVAL", count |-> 0, tag |-> seen]
  <2>1. ToContext(<<e>>) /\ UNCHANGED <<c2f, updateCount, frameCount>>
    BY <1>24 DEF UserEval, FrameMessage, ctxVars
  <2>2. e \in FrameMessages /\ e.type # "SET_UPDATECOUNT"
    BY <1>2 DEF FrameMessages
  <2> HIDE DEF e
  <2> QED
    BY <1>4, <1>6, <2>1, <2>2
(* The frame counts on its own: a SET_UPDATECOUNT with the new count. *)
<1>25. ASSUME frameCount' = frameCount + 1, UNCHANGED updateCount,
              Elements(c2f)' \subseteq Elements(c2f),
              \A m \in Elements(c2f) \ Elements(c2f)' :
                  m.type = "UPDATE_SOURCE" => m.count <= frameCount,
              NEW e \in FrameMessages, Raises(e, frameCount + 1),
              e \in Elements(f2c)',
              \A m \in Elements(f2c)' : m.type = "SET_UPDATECOUNT" =>
                  m \in Elements(f2c) \/ m = e
       PROVE  CountInv'
  <2>1. \A m \in Elements(f2c)' : m.type = "SET_UPDATECOUNT" => m.count <= frameCount'
    <3>1. \A m \in Elements(f2c) : m \in FrameMessages
      BY <1>2, ElementOfSeq, LenProperties DEF Elements
    <3> QED
      BY <1>2, <1>3, <1>25, <3>1 DEF CountInv, Raises
  <2>2. \/ updateCount <= frameCount'
        \/ \E m \in Elements(c2f)' : Announces(m, updateCount)
    <3>1. CASE updateCount <= frameCount
      BY <1>2, <1>25, <3>1
    <3>2. CASE \E m \in Elements(c2f) : Announces(m, updateCount)
      <4>1. PICK m \in Elements(c2f) : Announces(m, updateCount)
        BY <3>2
      <4>2. m \in Elements(c2f)' \/ updateCount <= frameCount
        BY <1>25, <4>1 DEF Announces
      <4> QED
        BY <3>1, <4>1, <4>2
    <3> QED
      BY <1>2, <3>1, <3>2 DEF CountInv
  <2>3. \A m \in Elements(c2f)' : m.type = "UPDATE_SOURCE" => m.count <= updateCount
    BY <1>2, <1>25 DEF CountInv
  <2> QED
    BY <1>25, <2>1, <2>2, <2>3 DEF CountInv
<1>26. CASE UserFocusBacktrace
  <2> DEFINE e == [type |-> "SET_UPDATECOUNT", count |-> frameCount + 1, tag |-> seen]
  <2>1. /\ ToContext(<<e>>) /\ UNCHANGED <<c2f, updateCount>>
        /\ frameCount' = frameCount + 1
    BY <1>26 DEF UserFocusBacktrace, FrameMessage, ctxVars
  <2>2. e \in FrameMessages /\ Raises(e, frameCount + 1)
    BY <1>2 DEF FrameMessages, Raises
  <2> HIDE DEF e
  <2>3. Elements(f2c)' = Elements(f2c) \cup {e}
    BY <1>6, <2>1, <2>2
  <2> QED
    BY <1>25, <2>1, <2>2, <2>3
<1>27. CASE OnUpdateSource
  <2> DEFINE c == Head(c2f).count
             d == [type |-> "SET_UPDATECOUNT", count |-> frameCount + 1, tag |-> seen]
             e == [type |-> "SUCCESSED", count |-> 0, tag |-> seen + 1]
  <2>1. /\ Head(c2f).type = "UPDATE_SOURCE" /\ c \in Nat /\ c <= updateCount
        /\ Elements(c2f) = Elements(c2f)' \cup {Head(c2f)}
        /\ UNCHANGED updateCount
    <3>1. Processes("UPDATE_SOURCE") /\ UNCHANGED updateCount
      BY <1>27 DEF OnUpdateSource, ctxVars
    <3> QED
      BY <1>2, <1>3, <1>7, <3>1 DEF CountInv
  <2>2. /\ d \in FrameMessages /\ e \in FrameMessages
        /\ Raises(d, frameCount + 1) /\ e.type # "SET_UPDATECOUNT"
    BY <1>2 DEF FrameMessages, Raises
  <2>3. <<>> \o <<e>> = <<e>>
    BY <2>2, ConcatEmptySeq
  <2>4. CASE c > frameCount
    <3>1. frameCount' = c /\ ToContext(<<e>>)
      BY <1>27, <2>3, <2>4
      DEF OnUpdateSource, CountsOnItsOwn, AnswersUpdate, FrameMessage
    <3> HIDE DEF d, e
    <3>2. Elements(f2c)' = Elements(f2c) \cup {e}
      BY <1>6, <2>2, <3>1
    <3>3. \A m \in Elements(f2c)' : m.type = "SET_UPDATECOUNT" => m.count <= frameCount'
      <4>1. \A m \in Elements(f2c) : m \in FrameMessages
        BY <1>2, ElementOfSeq, LenProperties DEF Elements
      <4> QED
        BY <1>2, <1>3, <2>1, <2>2, <2>4, <3>1, <3>2, <4>1 DEF CountInv
    <3>4. \/ updateCount <= frameCount'
          \/ \E m \in Elements(c2f)' : Announces(m, updateCount)
      <4>1. CASE updateCount <= frameCount
        BY <1>2, <2>1, <2>4, <3>1, <4>1
      <4>2. CASE \E m \in Elements(c2f) : Announces(m, updateCount)
        BY <1>2, <2>1, <3>1, <4>2 DEF Announces
      <4> QED
        BY <1>2, <4>1, <4>2 DEF CountInv
    <3> QED
      BY <1>2, <2>1, <3>1, <3>3, <3>4 DEF CountInv
  <2>5. CASE ~(c > frameCount)
    <3>1. frameCount' = frameCount + 1 /\ ToContext(<<d>> \o <<e>>)
      BY <1>27, <2>5
      DEF OnUpdateSource, CountsOnItsOwn, AnswersUpdate, FrameMessage
    <3> HIDE DEF d, e
    <3>2. f2c' = (f2c \o <<d>>) \o <<e>>
      BY <1>1, <1>2, <2>2, <3>1, ConcatAssociative DEF ToContext
    <3>3. Elements(f2c)' = Elements(f2c) \cup {d, e}
      <4> DEFINE g == f2c \o <<d>>
      <4>1. g \in Seq(FrameMessages) /\ Elements(g) = Elements(f2c) \cup {d}
        BY <1>2, <2>2, Snoc, SnocElements
      <4>2. f2c' = g \o <<e>>
        BY <3>2
      <4> HIDE DEF g
      <4>3. Elements(g \o <<e>>) = Elements(g) \cup {e}
        BY <2>2, <4>1, SnocElements
      <4> QED
        BY <4>1, <4>2, <4>3
    <3>4. c <= frameCount
      BY <1>2, <2>1, <2>5
    <3> QED
      BY <1>25, <2>1, <2>2, <3>1, <3>3, <3>4
  <2> QED
    BY <2>4, <2>5
<1>28. ~CloseContextEnd /\ ~CloseFrameEnd
  BY DEF CloseContextEnd, CloseFrameEnd, Linked
<1> QED
  BY <1>11, <1>12, <1>13, <1>14, <1>15, <1>16, <1>17, <1>18, <1>19, <1>20,
     <1>21, <1>22, <1>23, <1>24, <1>26, <1>27, <1>28
  DEF Next, Handle, Process, User

(* Once both processes have handled all that was sent, their update counts  *)
(* are the same, whichever of them counted and whatever crossed on the way. *)
THEOREM UpdateCountsConverge == Spec => []CountsConverge
<1> DEFINE Inv == Linked => CountInv
<1>1. Init => Inv
  <2> SUFFICES ASSUME Init PROVE CountInv
    OBVIOUS
  <2>1. c2f = <<>> /\ f2c = <<>> /\ updateCount = 0 /\ frameCount = 0
    BY DEF Init
  <2>2. Elements(c2f) = {} /\ Elements(f2c) = {}
    BY <2>1 DEF Elements
  <2> QED
    BY <2>1, <2>2 DEF CountInv
<1>2. SessionInv /\ SessionInv' /\ Inv /\ [Next]_vars => Inv'
  BY NextKeepsCounts
<1>3. SessionInv /\ Inv => CountsConverge
  <2> SUFFICES ASSUME SessionInv, CountInv, c2f = <<>>, f2c = <<>>
               PROVE  frameCount = updateCount
    BY DEF CountsConverge
  <2>1. Elements(c2f) = {} /\ Elements(f2c) = {}
    BY DEF Elements
  <2> QED
    BY <2>1 DEF CountInv, SessionInv, TypeOK
<1> QED
  BY <1>1, <1>2, <1>3, SessionInvAlways, PTL DEF Spec

-----------------------------------------------------------------------------
(* A stack frame of an earlier stop is only chosen, and only kept, while    *)
(* the announcement that resets it (stopAt) is on its way.                  *)
ResetComes ==
    \E m \in Elements(c2f) :
        m.type = "UPDATE_SOURCE" /\ ~m.flag /\ m.tag = stopAt

ChosenInv ==
    \/ stopAt <= seen /\ (stackFrame = 0 \/ stackFrame >= stopAt)
    \/ ResetComes

LEMMA NextKeepsChosen ==
    ASSUME SessionInv, [Next]_vars, Linked', Linked => ChosenInv
    PROVE  ChosenInv'
<1>1. Linked /\ ChosenInv
  BY LinkedBefore
<1>2. /\ c2f \in Seq(CtxMessages) /\ stopAt \in Nat /\ seen \in Nat
      /\ stackFrame \in Nat /\ announced \in Nat
  BY DEF SessionInv, TypeOK
<1>3. ASSUME UNCHANGED <<stopAt, seen, stackFrame>>, Elements(c2f) \subseteq Elements(c2f')
      PROVE  ChosenInv'
  BY <1>1, <1>3 DEF ChosenInv, ResetComes
<1>4. ASSUME NEW e \in CtxMessages, c2f' = c2f \o <<e>>
      PROVE  Elements(c2f') = Elements(c2f) \cup {e}
  BY <1>2, <1>4, SnocElements
<1>5. ASSUME NEW req \in Requests, SetDebugState(req),
             UNCHANGED <<stopAt, seen, stackFrame>>
      PROVE  ChosenInv'
  <2> DEFINE e == [type |-> "CHANGED_STATE", flag |-> req = "BREAK",
                   count |-> 0, tag |-> announced]
  <2>1. e \in CtxMessages
    BY <1>2 DEF CtxMessages
  <2>2. c2f' = c2f \o <<e>> \/ c2f' = c2f \o <<>>
    BY <1>1, <1>5 DEF SetDebugState, ToFrame, ChangedState, CtxMessage
  <2> HIDE DEF e
  <2>3. c2f \o <<>> = c2f
    BY <1>2, ConcatEmptySeq
  <2> QED
    BY <1>3, <1>4, <1>5, <2>1, <2>2, <2>3
<1>6. CASE \/ UNCHANGED vars \/ Start \/ LeaveHook
           \/ \E req \in Requests : UserRequest(req)
           \/ UserEval \/ HandleSuccessed \/ HandleSetUpdateCount
           \/ HandleForceUpdateSource \/ HandleEndConnection
  BY <1>3, <1>6
  DEF vars, ctxVars, frameVars, Start, LeaveHook, UserRequest, UserEval,
      HandleSuccessed, HandleSetUpdateCount, HandleForceUpdateSource,
      HandleEndConnection
<1>7. "BREAK" \in Requests
  BY DEF Requests, DebugStates
<1>8. CASE HookLine \/ StopOutsideLine
  BY <1>3, <1>5, <1>7, <1>8 DEF HookLine, StopOutsideLine, frameVars
<1>9. ASSUME NEW req \in Requests, HandleRequest(req) PROVE ChosenInv'
  BY <1>5, <1>9 DEF HandleRequest, frameVars
<1>10. CASE HandleEval
  <2> DEFINE e == [type |-> "VARLIST", flag |-> FALSE, count |-> 0,
                   tag |-> announced]
  <2>1. e \in CtxMessages
    BY <1>2 DEF CtxMessages
  <2>2. c2f' = c2f \o <<e>> /\ UNCHANGED <<stopAt, seen, stackFrame>>
    BY <1>1, <1>10 DEF HandleEval, ToFrame, CtxMessage, ctxVars, frameVars
  <2> HIDE DEF e
  <2> QED
    BY <1>3, <1>4, <2>1, <2>2
<1>11. CASE SendUpdateSource
  <2> DEFINE e == [type |-> "UPDATE_SOURCE", flag |-> IsRefreshOnly,
                   count |-> updateCount + 1, tag |-> announced + 1]
  <2>1. e \in CtxMessages
    BY <1>2 DEF CtxMessages, SessionInv, TypeOK, IsRefreshOnly
  <2>2. c2f' = c2f \o <<e>> /\ UNCHANGED <<seen, stackFrame>>
    BY <1>1, <1>11 DEF SendUpdateSource, ToFrame, CtxMessage, frameVars
  <2>3. /\ prevState = "BREAK" => stopAt' = stopAt
        /\ prevState # "BREAK" => stopAt' = announced + 1
    BY <1>11 DEF SendUpdateSource
  <2>4. /\ e.type = "UPDATE_SOURCE" /\ e.tag = announced + 1
        /\ e.flag <=> prevState = "BREAK"
    BY DEF IsRefreshOnly
  <2> HIDE DEF e
  <2>5. CASE prevState = "BREAK"
    BY <1>3, <1>4, <2>1, <2>2, <2>3, <2>5
  <2>6. CASE prevState # "BREAK"
    <3>1. e \in Elements(c2f')
      BY <1>4, <2>1, <2>2
    <3> QED
      BY <2>3, <2>4, <2>6, <3>1 DEF ChosenInv, ResetComes
  <2> QED
    BY <2>5, <2>6
<1>12. ASSUME c2f # <<>>, c2f' = Tail(c2f)
       PROVE  Elements(c2f) = {Head(c2f)} \cup Elements(c2f')
  BY <1>2, <1>12, UnconsElements
<1>13. CASE OnChangedState \/ OnVarList
  <2>1. /\ c2f # <<>> /\ c2f' = Tail(c2f) /\ Head(c2f).type # "UPDATE_SOURCE"
        /\ UNCHANGED <<stopAt, seen, stackFrame>>
    BY <1>13 DEF OnChangedState, OnVarList, Processes, ctxVars, frameVars
  <2> QED
    BY <1>1, <1>12, <2>1 DEF ChosenInv, ResetComes
<1>14. CASE OnUpdateSource
  <2>1. /\ c2f # <<>> /\ c2f' = Tail(c2f) /\ Head(c2f).type = "UPDATE_SOURCE"
        /\ stackFrame' = IF Head(c2f).flag THEN stackFrame ELSE 0
        /\ seen' = seen + 1 /\ UNCHANGED stopAt
    BY <1>14 DEF OnUpdateSource, Processes, ctxVars
  <2>2. Head(c2f).tag = seen + 1
    BY <1>2, <2>1, FrameTakes DEF Tick
  <2>3. CASE ResetComes
    <3>1. PICK m \in Elements(c2f) : m.type = "UPDATE_SOURCE" /\ ~m.flag /\ m.tag = stopAt
      BY <2>3 DEF ResetComes
    <3>2. CASE m = Head(c2f)
      BY <1>2, <2>1, <2>2, <3>1, <3>2 DEF ChosenInv
    <3>3. CASE m # Head(c2f)
      <4>1. m \in Elements(c2f')
        BY <1>12, <2>1, <3>3
      <4> QED
        BY <2>1, <3>1, <4>1 DEF ChosenInv, ResetComes
    <3> QED
      BY <3>2, <3>3
  <2>4. CASE stopAt <= seen /\ (stackFrame = 0 \/ stackFrame >= stopAt)
    <3>1. stopAt' <= seen' /\ (stackFrame' = 0 \/ stackFrame' >= stopAt')
      BY <1>2, <2>1, <2>4
    <3> QED
      BY <3>1 DEF ChosenInv
  <2> QED
    BY <1>1, <2>3, <2>4 DEF ChosenInv
<1>15. CASE UserFocusBacktrace
  <2>1. stackFrame' = seen /\ UNCHANGED <<seen, stopAt, c2f>>
    BY <1>15 DEF UserFocusBacktrace, ctxVars
  <2> QED
    BY <1>1, <1>2, <2>1 DEF ChosenInv, ResetComes
<1>16. ~OnEndConnection
  BY <1>1, FrameTakes DEF OnEndConnection, Processes, Linked
<1>17. ~CloseContextEnd /\ ~CloseFrameEnd
  BY DEF CloseContextEnd, CloseFrameEnd, Linked
<1> QED
  BY <1>6, <1>8, <1>9, <1>10, <1>11, <1>13, <1>14, <1>15, <1>16, <1>17
  DEF Next, Handle, Process, User

(* Once the frame has processed the announcement of a stop, evaluations do  *)
(* not refer to a stack frame chosen at an earlier one, though the user may *)
(* choose one while the announcement is on its way (mediator.cpp:81).       *)
THEOREM ChosenFramesAreOfTheStop == Spec => []ChosenFrameIsOfThisStop
<1> DEFINE Inv == Linked => ChosenInv
<1>1. Init => Inv
  BY DEF Init, ChosenInv
<1>2. SessionInv /\ SessionInv' /\ Inv /\ [Next]_vars => Inv'
  BY NextKeepsChosen
<1>3. SessionInv /\ Inv => ChosenFrameIsOfThisStop
  <2> SUFFICES ASSUME SessionInv, ChosenInv,
                      \A i \in DOMAIN c2f : c2f[i].type = "UPDATE_SOURCE" => c2f[i].flag
               PROVE  stackFrame = 0 \/ stackFrame >= stopAt
    BY DEF ChosenFrameIsOfThisStop
  <2>1. DOMAIN c2f = 1 .. Len(c2f)
    BY LenProperties DEF SessionInv, TypeOK
  <2>2. ~ResetComes
    BY <2>1 DEF ResetComes, Elements
  <2> QED
    BY <2>2 DEF ChosenInv
<1> QED
  BY <1>1, <1>2, <1>3, SessionInvAlways, PTL DEF Spec

-----------------------------------------------------------------------------
(* The number of messages of a type, when one is added and one taken. *)
OfType(S, type) == {m \in S : m.type = type}

LEMMA CountIsHowMany ==
    ASSUME NEW S, NEW s \in Seq(S), NEW type
    PROVE  /\ Count(s, type) = HowMany(s, OfType(S, type))
           /\ \A m \in S : Tick(m, type) = OneIf(m, OfType(S, type))
<1>1. \A i \in DOMAIN s : s[i] \in S
  BY LenProperties, ElementOfSeq
<1>2. {i \in DOMAIN s : s[i].type = type} = Where(s, OfType(S, type))
  BY <1>1 DEF Where, OfType
<1> QED
  BY <1>2 DEF Count, HowMany, Tick, OneIf, OfType

LEMMA CountOfNothing ==
    ASSUME NEW s, s = <<>>, NEW type
    PROVE  Count(s, type) = 0
<1>1. {i \in DOMAIN s : s[i].type = type} = {}
  OBVIOUS
<1> QED
  BY <1>1, FS_EmptySet DEF Count

LEMMA CountIsNat ==
    ASSUME NEW S, NEW s \in Seq(S), NEW type
    PROVE  Count(s, type) \in Nat
  BY CountIsHowMany, HowManyNat

LEMMA CountSend ==
    ASSUME NEW S, NEW s \in Seq(S), NEW m \in S, NEW type
    PROVE  Count(s \o <<m>>, type) = Count(s, type) + Tick(m, type)
<1>1. s \o <<m>> = Append(s, m) /\ Append(s, m) \in Seq(S)
  BY AppendFacts
<1>2. PICK r : r = Append(s, m)
  OBVIOUS
<1>3. PICK A : A = OfType(S, type)
  OBVIOUS
<1>4. HowMany(r, A) = HowMany(s, A) + OneIf(m, A)
  BY <1>2, AppendCounts
<1>5. Count(r, type) = HowMany(r, A)
  BY <1>1, <1>2, <1>3, CountIsHowMany
<1>6. Count(s, type) = HowMany(s, A) /\ Tick(m, type) = OneIf(m, A)
  BY <1>3, CountIsHowMany
<1> QED
  BY ONLY <1>1, <1>2, <1>4, <1>5, <1>6

LEMMA CountTake ==
    ASSUME NEW S, NEW s \in Seq(S), s # <<>>, NEW type
    PROVE  Count(s, type) = Count(Tail(s), type) + Tick(Head(s), type)
<1>1. Tail(s) \in Seq(S) /\ Head(s) \in S
  BY TailFacts
<1>2. PICK t, m : t = Tail(s) /\ m = Head(s)
  OBVIOUS
<1>3. PICK A : A = OfType(S, type)
  OBVIOUS
<1>4. HowMany(s, A) = HowMany(t, A) + OneIf(m, A)
  BY <1>2, TailCounts
<1>5. Count(t, type) = HowMany(t, A)
  BY <1>1, <1>2, <1>3, CountIsHowMany
<1>6. Count(s, type) = HowMany(s, A) /\ Tick(m, type) = OneIf(m, A)
  BY <1>1, <1>2, <1>3, CountIsHowMany
<1> QED
  BY ONLY <1>2, <1>4, <1>5, <1>6

OnTheWay == Count(c2f, "UPDATE_SOURCE") + Count(f2c, "SUCCESSED")

LEMMA NextKeepsWaitCount ==
    ASSUME SessionInv, [Next]_vars, Linked', Linked => waitUpdateCount = OnTheWay
    PROVE  waitUpdateCount' = OnTheWay'
<1> DEFINE shown == Count(c2f, "UPDATE_SOURCE")
           answered == Count(f2c, "SUCCESSED")
<1>1. Linked
  BY LinkedBefore
<1>2. /\ c2f \in Seq(CtxMessages) /\ f2c \in Seq(FrameMessages)
      /\ waitUpdateCount \in Nat /\ announced \in Nat /\ seen \in Nat
  BY DEF SessionInv, TypeOK
<1>3. shown \in Nat /\ answered \in Nat /\ waitUpdateCount = shown + answered
  BY <1>1, <1>2, CountIsNat DEF OnTheWay
<1>4. ASSUME NEW e \in CtxMessages, c2f' = c2f \o <<e>>
      PROVE  shown' = shown + Tick(e, "UPDATE_SOURCE")
  BY <1>2, <1>4, CountSend
<1>5. ASSUME NEW e \in FrameMessages, f2c' = f2c \o <<e>>
      PROVE  answered' = answered + Tick(e, "SUCCESSED")
  BY <1>2, <1>5, CountSend
<1>6. ASSUME c2f # <<>>, c2f' = Tail(c2f)
      PROVE  shown = shown' + Tick(Head(c2f), "UPDATE_SOURCE") /\ shown' \in Nat
  <2>1. shown = Count(Tail(c2f), "UPDATE_SOURCE") + Tick(Head(c2f), "UPDATE_SOURCE")
    BY <1>2, <1>6, CountTake
  <2>2. Tail(c2f) \in Seq(CtxMessages)
    BY <1>2, <1>6, Uncons
  <2>3. Count(Tail(c2f), "UPDATE_SOURCE") \in Nat
    BY <2>2, CountIsNat
  <2> QED
    BY <1>6, <2>1, <2>3
<1>7. ASSUME f2c # <<>>, f2c' = Tail(f2c)
      PROVE  answered = answered' + Tick(Head(f2c), "SUCCESSED") /\ answered' \in Nat
  <2>1. answered = Count(Tail(f2c), "SUCCESSED") + Tick(Head(f2c), "SUCCESSED")
    BY <1>2, <1>7, CountTake
  <2>2. Tail(f2c) \in Seq(FrameMessages)
    BY <1>2, <1>7, Uncons
  <2>3. Count(Tail(f2c), "SUCCESSED") \in Nat
    BY <2>2, CountIsNat
  <2> QED
    BY <1>7, <2>1, <2>3
<1>8. ASSUME shown' = shown, answered' = answered, UNCHANGED waitUpdateCount
      PROVE  waitUpdateCount' = OnTheWay'
  BY <1>3, <1>8 DEF OnTheWay
<1>9. c2f \o <<>> = c2f /\ f2c \o <<>> = f2c
  BY <1>2, ConcatEmptySeq
<1>10. ASSUME NEW req \in Requests, SetDebugState(req) PROVE shown' = shown
  <2> DEFINE e == [type |-> "CHANGED_STATE", flag |-> req = "BREAK",
                   count |-> 0, tag |-> announced]
  <2>1. e \in CtxMessages /\ Tick(e, "UPDATE_SOURCE") = 0
    BY <1>2 DEF CtxMessages, Tick
  <2>2. c2f' = c2f \o <<e>> \/ c2f' = c2f
    BY <1>1, <1>9, <1>10 DEF SetDebugState, ToFrame, ChangedState, CtxMessage
  <2> HIDE DEF e
  <2> QED
    BY <1>3, <1>4, <2>1, <2>2
<1>11. CASE UNCHANGED vars \/ Start \/ LeaveHook
  BY <1>8, <1>11 DEF vars, ctxVars, frameVars, Start, LeaveHook
<1>12. "BREAK" \in Requests
  BY DEF Requests, DebugStates
<1>13. CASE HookLine \/ StopOutsideLine
  BY <1>8, <1>10, <1>12, <1>13 DEF HookLine, StopOutsideLine, frameVars
<1>14. ASSUME NEW type, type # "SUCCESSED", Receives(type)
       PROVE  answered' = answered
  BY <1>3, <1>7, <1>14 DEF Receives, Tick
<1>15. ASSUME NEW req \in Requests, HandleRequest(req)
       PROVE  waitUpdateCount' = OnTheWay'
  <2>1. req # "SUCCESSED"
    BY DEF Requests, DebugStates, Steps
  <2> QED
    BY <1>8, <1>10, <1>14, <1>15, <2>1 DEF HandleRequest
<1>16. CASE HandleSuccessed
  <2>1. answered = answered' + 1 /\ answered' \in Nat
    BY <1>7, <1>16 DEF HandleSuccessed, Receives, Tick
  <2>2. shown' = shown /\ waitUpdateCount' = waitUpdateCount - 1
    BY <1>16 DEF HandleSuccessed
  <2>3. waitUpdateCount' = shown' + answered'
    BY <1>3, <2>1, <2>2
  <2> QED
    BY <2>3 DEF OnTheWay
<1>17. CASE HandleSetUpdateCount \/ HandleForceUpdateSource
  BY <1>8, <1>14, <1>17 DEF HandleSetUpdateCount, HandleForceUpdateSource
<1>18. CASE HandleEval
  <2> DEFINE e == [type |-> "VARLIST", flag |-> FALSE, count |-> 0,
                   tag |-> announced]
  <2>1. e \in CtxMessages /\ Tick(e, "UPDATE_SOURCE") = 0
    BY <1>2 DEF CtxMessages, Tick
  <2>2. c2f' = c2f \o <<e>> /\ UNCHANGED waitUpdateCount
    BY <1>1, <1>18 DEF HandleEval, ToFrame, CtxMessage, ctxVars
  <2> HIDE DEF e
  <2>3. shown' = shown
    BY <1>3, <1>4, <2>1, <2>2
  <2> QED
    BY <1>8, <1>14, <1>18, <2>2, <2>3 DEF HandleEval
<1>19. CASE HandleEndConnection
  <2>1. "ctx" \in up
    BY <1>1 DEF Linked
  <2> QED
    BY <1>8, <1>14, <1>19, <2>1 DEF HandleEndConnection
<1>20. CASE SendUpdateSource
  <2> DEFINE e == [type |-> "UPDATE_SOURCE", flag |-> IsRefreshOnly,
                   count |-> updateCount + 1, tag |-> announced + 1]
  <2>1. e \in CtxMessages /\ Tick(e, "UPDATE_SOURCE") = 1
    BY <1>2 DEF CtxMessages, SessionInv, TypeOK, IsRefreshOnly, Tick
  <2>2. /\ c2f' = c2f \o <<e>> /\ UNCHANGED f2c
        /\ waitUpdateCount' = waitUpdateCount + 1
    BY <1>1, <1>20 DEF SendUpdateSource, ToFrame, CtxMessage
  <2> HIDE DEF e
  <2>3. shown' = shown + 1 /\ answered' = answered
    BY <1>4, <2>1, <2>2
  <2> HIDE DEF shown, answered
  <2>4. waitUpdateCount' = shown' + answered'
    BY <1>3, <2>2, <2>3
  <2> QED
    BY <2>4 DEF OnTheWay, shown, answered
<1>21. CASE OnChangedState
  <2>1. shown' = shown
    BY <1>3, <1>6, <1>21 DEF OnChangedState, Processes, Tick
  <2> QED
    BY <1>8, <1>21, <2>1 DEF OnChangedState, ctxVars
<1>22. CASE OnUpdateSource
  <2> DEFINE d == [type |-> "SET_UPDATECOUNT", count |-> frameCount + 1, tag |-> seen]
             e == [type |-> "SUCCESSED", count |-> 0, tag |-> seen + 1]
  <2>1. /\ d \in FrameMessages /\ e \in FrameMessages
        /\ Tick(d, "SUCCESSED") = 0 /\ Tick(e, "SUCCESSED") = 1
    BY <1>2 DEF FrameMessages, SessionInv, TypeOK, Tick
  <2>2. f2c' = f2c \o <<e>> \/ f2c' = f2c \o (<<d>> \o <<e>>)
    <3>1. <<>> \o <<e>> = <<e>>
      BY <2>1, ConcatEmptySeq
    <3> QED
      BY <1>1, <1>22, <3>1
      DEF OnUpdateSource, ToContext, CountsOnItsOwn, AnswersUpdate, FrameMessage
  <2>3. /\ c2f # <<>> /\ c2f' = Tail(c2f) /\ Head(c2f).type = "UPDATE_SOURCE"
        /\ UNCHANGED waitUpdateCount
    BY <1>22 DEF OnUpdateSource, Processes, ctxVars
  <2> HIDE DEF d, e
  <2>4. answered' = answered + 1
    <3>1. CASE f2c' = f2c \o <<e>>
      BY <1>5, <2>1, <3>1
    <3>2. CASE f2c' = f2c \o (<<d>> \o <<e>>)
      <4>1. f2c \o <<d>> \in Seq(FrameMessages)
        BY <1>2, <2>1, Snoc
      <4>2. f2c' = (f2c \o <<d>>) \o <<e>>
        BY <1>2, <2>1, <3>2, ConcatAssociative
      <4>3. answered' = Count(f2c \o <<d>>, "SUCCESSED") + 1
        BY <2>1, <4>1, <4>2, CountSend
      <4>4. Count(f2c \o <<d>>, "SUCCESSED") = answered + 0
        BY <1>2, <2>1, CountSend
      <4> QED
        BY <1>3, <4>3, <4>4
    <3> QED
      BY <2>2, <3>1, <3>2
  <2>5. shown = shown' + 1 /\ shown' \in Nat
    BY <1>6, <2>3 DEF Tick
  <2>6. waitUpdateCount' = shown' + answered'
    BY <1>3, <2>3, <2>4, <2>5
  <2> QED
    BY <2>6 DEF OnTheWay
<1>23. CASE OnVarList
  <2> DEFINE e == [type |-> "FORCE_UPDATESOURCE", count |-> 0, tag |-> seen]
  <2>1. e \in FrameMessages /\ Tick(e, "SUCCESSED") = 0
    BY <1>2 DEF FrameMessages, Tick
  <2>2. f2c' = f2c \o <<e>> \/ f2c' = f2c
    BY <1>1, <1>23 DEF OnVarList, ToContext, FrameMessage
  <2> HIDE DEF e
  <2>3. answered' = answered
    BY <1>3, <1>5, <2>1, <2>2
  <2>4. shown' = shown
    BY <1>3, <1>6, <1>23 DEF OnVarList, Processes, Tick
  <2> QED
    BY <1>8, <1>23, <2>3, <2>4 DEF OnVarList, ctxVars
<1>24. ~OnEndConnection
  BY <1>1, FrameTakes DEF OnEndConnection, Processes, Linked
<1>25. ASSUME NEW type \in Requests \cup {"EVAL", "SET_UPDATECOUNT"},
              NEW count \in Nat, ToContext(FrameMessage(type, count, seen)),
              UNCHANGED <<waitUpdateCount, c2f>>
       PROVE  waitUpdateCount' = OnTheWay'
  <2> DEFINE e == [type |-> type, count |-> count, tag |-> seen]
  <2>1. e \in FrameMessages /\ Tick(e, "SUCCESSED") = 0
    BY <1>2 DEF FrameMessages, Tick, Requests, DebugStates, Steps
  <2>2. f2c' = f2c \o <<e>>
    BY <1>1, <1>25 DEF ToContext, FrameMessage
  <2> HIDE DEF e
  <2>3. answered' = answered
    BY <1>3, <1>5, <2>1, <2>2
  <2> QED
    BY <1>8, <1>25, <2>3
<1>26. CASE User
  <2>1. ASSUME NEW req \in Requests, UserRequest(req)
        PROVE  waitUpdateCount' = OnTheWay'
    BY <1>25, <2>1 DEF UserRequest, ctxVars
  <2>2. CASE UserEval
    BY <1>25, <2>2 DEF UserEval, ctxVars
  <2>3. CASE UserFocusBacktrace
    <3>1. frameCount + 1 \in Nat
      BY DEF SessionInv, TypeOK
    <3> QED
      BY <1>25, <2>3, <3>1 DEF UserFocusBacktrace, ctxVars
  <2> QED
    BY <1>26, <2>1, <2>2, <2>3 DEF User
<1>27. ~CloseContextEnd /\ ~CloseFrameEnd
  BY DEF CloseContextEnd, CloseFrameEnd, Linked
<1> QED
  BY <1>11, <1>13, <1>15, <1>16, <1>17, <1>18, <1>19, <1>20, <1>21, <1>22,
     <1>23, <1>24, <1>26, <1>27 DEF Next, Handle, Process

(* m_waitUpdateCount counts the announcements on their way and the answers  *)
(* on their way back, one for one, while the connection is up: what makes   *)
(* a request after the last answer one that is obeyed (context.cpp:701).    *)
THEOREM WaitCountIsExact == Spec => []WaitCountExact
<1> DEFINE Inv == Linked => waitUpdateCount = OnTheWay
<1>1. Init => Inv
  BY CountOfNothing DEF Init, OnTheWay
<1>2. SessionInv /\ SessionInv' /\ Inv /\ [Next]_vars => Inv'
  BY NextKeepsWaitCount
<1>3. Inv => WaitCountExact
  BY DEF OnTheWay, WaitCountExact
<1> QED
  BY <1>1, <1>2, <1>3, SessionInvAlways, PTL DEF Spec

=============================================================================
