------------------------- MODULE SourcePages_proofs -------------------------
(***************************************************************************)
(* Proofs about BreakpointSync and SourcePages, for any sources and        *)
(* breakpoints and any number of clicks, stops and acts of the user.       *)
(***************************************************************************)
EXTENDS SourcePages, SequenceFacts

(* The answer that is on its way last is the context's list; and if no      *)
(* answer is on its way, nor any change that will be answered, the frame    *)
(* has that list already.                                                   *)
LastAnswerIsCurrent == c2f # <<>> => c2f[Len(c2f)] = ctxBps

NothingUnanswered ==
    /\ c2f = <<>>
    /\ \A i \in DOMAIN f2c : ~IsSent(ctxBps, f2c[i])

SyncInv ==
    /\ TypeOK
    /\ linked => LastAnswerIsCurrent /\ (NothingUnanswered => frameBps = ctxBps)

LEMMA AppendLast ==
    ASSUME NEW S, NEW s \in Seq(S), NEW e \in S
    PROVE  /\ Append(s, e) \in Seq(S)
           /\ Append(s, e) # <<>>
           /\ DOMAIN Append(s, e) = 1 .. Len(s) + 1
           /\ Append(s, e)[Len(Append(s, e))] = e
           /\ Append(s, e)[Len(s) + 1] = e
           /\ \A i \in 1 .. Len(s) : Append(s, e)[i] = s[i]
  BY AppendProperties, LenProperties, EmptySeq

LEMMA TailElements ==
    ASSUME NEW S, NEW s \in Seq(S), s # <<>>
    PROVE  /\ Head(s) \in S
           /\ Tail(s) \in Seq(S)
           /\ \A i \in DOMAIN s : i = 1 \/ i - 1 \in DOMAIN Tail(s)
           /\ \A i \in DOMAIN s : i # 1 => s[i] = Tail(s)[i - 1]
           /\ Head(s) = s[1]
           /\ Tail(s) # <<>> => Tail(s)[Len(Tail(s))] = s[Len(s)]
           /\ Tail(s) = <<>> => Head(s) = s[Len(s)]
<1>1. /\ Head(s) \in S /\ Tail(s) \in Seq(S)
      /\ Len(Tail(s)) = Len(s) - 1
      /\ \A i \in 1 .. Len(Tail(s)) : Tail(s)[i] = s[i + 1]
  BY HeadTailProperties
<1>2. Len(s) \in Nat /\ Len(s) > 0 /\ DOMAIN s = 1 .. Len(s)
  BY LenProperties, EmptySeq
<1>3. DOMAIN Tail(s) = 1 .. Len(s) - 1
  BY <1>1, LenProperties
<1>4. Head(s) = s[1]
  OBVIOUS
<1>5. \A i \in 1 .. Len(s) : i # 1 => i - 1 \in 1 .. Len(s) - 1 /\ (i - 1) + 1 = i
  BY <1>2
<1>6. ASSUME NEW i \in DOMAIN s, i # 1 PROVE s[i] = Tail(s)[i - 1]
  <2> DEFINE j == i - 1
  <2>1. j \in 1 .. Len(Tail(s)) /\ j + 1 = i
    BY <1>1, <1>2, <1>5, <1>6
  <2> HIDE DEF j
  <2>2. Tail(s)[j] = s[j + 1]
    BY <1>1, <2>1
  <2> QED
    BY <2>1, <2>2 DEF j
<1>7. Tail(s) = <<>> => Len(s) = 1
  <2>1. \A n \in Nat : n - 1 = 0 => n = 1
    OBVIOUS
  <2>2. Tail(s) = <<>> => Len(Tail(s)) = 0
    BY EmptySeq
  <2>3. Len(s) \in Nat /\ Len(Tail(s)) = Len(s) - 1
    BY <1>1, <1>2
  <2> QED
    BY ONLY <2>1, <2>2, <2>3
<1>8. Tail(s) # <<>> => Len(s) # 1
  BY <1>1, <1>2, EmptySeq
<1> QED
  BY <1>1, <1>2, <1>3, <1>4, <1>5, <1>6, <1>7, <1>8

LEMMA PrefixType ==
    ASSUME NEW S, NEW s \in Seq(S), NEW n \in 0 .. Len(s)
    PROVE  SubSeq(s, 1, n) \in Seq(S)
<1>1. Len(s) \in Nat
  BY LenProperties
<1>2. \A i \in 1 .. n : s[i] \in S
  BY <1>1, ElementOfSeq
<1>3. 1 \in Int /\ n \in Int
  BY <1>1
<1> QED
  BY ONLY <1>2, <1>3, SubSeqProperties

LEMMA NextKeepsType == TypeOK /\ [Next]_vars => TypeOK'
<1> SUFFICES ASSUME TypeOK, [Next]_vars PROVE TypeOK'
  OBVIOUS
<1>1. \A bp \in Breakpoints : ToggleOf(bp) \in Changes
  BY DEF ToggleOf, Changes
<1>2. \A bps \in SUBSET Breakpoints, c \in Changes :
         Changed(bps, c) \in SUBSET Breakpoints
  BY DEF Changed, Changes
<1>3. \A bps \in SUBSET Breakpoints :
         SendChangedBreakpointList(bps) => c2f' \in Seq(SUBSET Breakpoints)
  BY AppendProperties DEF SendChangedBreakpointList, TypeOK
<1>4. CASE UNCHANGED vars
  BY <1>4 DEF vars, TypeOK
<1>5. ASSUME NEW bp \in Breakpoints, Toggle(bp) PROVE TypeOK'
  <2>1. f2c' \in Seq(Changes)
    BY <1>1, <1>5, AppendProperties DEF Toggle, TypeOK
  <2>2. wish' \in [Breakpoints -> {"none", "Set", "Remove"}]
    BY <1>1, <1>5 DEF Toggle, TypeOK, Changes
  <2> QED
    BY <1>1, <1>2, <1>5, <2>1, <2>2 DEF Toggle, TypeOK
<1>6. CASE HandleChange
  <2>1. Head(f2c) \in Changes /\ f2c' \in Seq(Changes)
    BY <1>6, TailElements DEF HandleChange, TypeOK
  <2>2. ctxBps' \in SUBSET Breakpoints
    BY <1>2, <1>6, <2>1 DEF HandleChange, TypeOK
  <2> QED
    BY <1>3, <1>6, <2>1, <2>2 DEF HandleChange, TypeOK
<1>7. CASE LoadConfig
  <2>1. StillWished \in [Breakpoints -> {"none", "Set", "Remove"}]
    BY DEF StillWished, TypeOK
  <2> QED
    BY <1>3, <1>7, <2>1 DEF LoadConfig, TypeOK
<1>8. CASE OnChangedBreakpointList
  BY <1>8, TailElements DEF OnChangedBreakpointList, TypeOK
<1>9. CASE Disconnect
  <2>1. f2c' \in Seq(Changes)
    BY <1>9, PrefixType DEF Disconnect, TypeOK
  <2>2. c2f' \in Seq(SUBSET Breakpoints)
    BY <1>9, PrefixType, AppendProperties DEF Disconnect, TypeOK
  <2> QED
    BY <1>9, <2>1, <2>2 DEF Disconnect, TypeOK
<1> QED
  BY <1>4, <1>5, <1>6, <1>7, <1>8, <1>9 DEF Next

(* A click will be answered: the context has what the frame decided on, if   *)
(* nothing else is unanswered.                                               *)
LEMMA ClickIsUnanswered ==
    ASSUME SyncInv, linked, NEW bp \in Breakpoints, Toggle(bp)
    PROVE  ~NothingUnanswered'
<1>1. /\ f2c \in Seq(Changes)
      /\ f2c' = Append(f2c, ToggleOf(bp))
      /\ UNCHANGED <<ctxBps, c2f>>
      /\ ToggleOf(bp) \in Changes
  BY DEF SyncInv, TypeOK, Toggle, ToggleOf, Changes
<1>2. SUFFICES ASSUME NothingUnanswered' PROVE FALSE
  OBVIOUS
<1>3. /\ \A i \in 1 .. Len(f2c) : f2c'[i] = f2c[i]
      /\ f2c'[Len(f2c) + 1] = ToggleOf(bp)
      /\ DOMAIN f2c' = 1 .. Len(f2c) + 1
      /\ Len(f2c) \in Nat /\ DOMAIN f2c = 1 .. Len(f2c)
  BY <1>1, AppendLast, LenProperties
<1>4. /\ \A i \in DOMAIN f2c : ~IsSent(ctxBps, f2c[i])
      /\ ~IsSent(ctxBps, ToggleOf(bp))
      /\ c2f = <<>>
  BY <1>1, <1>2, <1>3 DEF NothingUnanswered, IsSent
<1>5. frameBps = ctxBps
  BY <1>4 DEF SyncInv, NothingUnanswered
<1> QED
  BY <1>4, <1>5 DEF IsSent, ToggleOf

(* If nothing is unanswered after a change was handled, it changed nothing.  *)
LEMMA NoChangeIsAnswered ==
    ASSUME TypeOK, linked, HandleChange, NothingUnanswered'
    PROVE  NothingUnanswered /\ UNCHANGED <<ctxBps, frameBps>>
<1>1. /\ f2c \in Seq(Changes) /\ c2f \in Seq(SUBSET Breakpoints)
      /\ ctxBps \in SUBSET Breakpoints
      /\ f2c # <<>> /\ f2c' = Tail(f2c) /\ UNCHANGED frameBps
      /\ ctxBps' = Changed(ctxBps, Head(f2c))
  BY DEF TypeOK, HandleChange
<1>2. Head(f2c) \in Changes /\ ctxBps' \in SUBSET Breakpoints
  <2>1. Head(f2c) \in Changes
    BY <1>1, TailElements
  <2> QED
    BY <1>1, <2>1 DEF Changed, Changes
<1>3. ~IsSent(ctxBps, Head(f2c))
  <2> SUFFICES ASSUME IsSent(ctxBps, Head(f2c)) PROVE FALSE
    OBVIOUS
  <2>1. c2f' = Append(c2f, ctxBps')
    BY DEF HandleChange, SendChangedBreakpointList
  <2>2. c2f' # <<>>
    BY <1>1, <1>2, <2>1, AppendLast
  <2> QED
    BY <2>2 DEF NothingUnanswered
<1>4. UNCHANGED <<ctxBps, c2f>>
  BY <1>1, <1>2, <1>3 DEF HandleChange, IsSent, Changed
<1>5. /\ \A i \in DOMAIN Tail(f2c) : ~IsSent(ctxBps, Tail(f2c)[i])
      /\ c2f = <<>>
  BY <1>1, <1>4 DEF NothingUnanswered, IsSent
<1>6. \A i \in DOMAIN f2c : ~IsSent(ctxBps, f2c[i])
  BY <1>1, <1>3, <1>5, TailElements
<1> QED
  BY <1>1, <1>4, <1>5, <1>6 DEF NothingUnanswered

LEMMA NextKeepsSync == SyncInv /\ [Next]_vars => SyncInv'
<1> SUFFICES ASSUME SyncInv, [Next]_vars, linked'
             PROVE  LastAnswerIsCurrent' /\ (NothingUnanswered' => (frameBps = ctxBps)')
  BY NextKeepsType DEF SyncInv
<1>1. /\ TypeOK
      /\ linked
      /\ LastAnswerIsCurrent
      /\ NothingUnanswered => frameBps = ctxBps
  BY DEF SyncInv, Next, vars, Toggle, HandleChange, LoadConfig,
         OnChangedBreakpointList, Disconnect
<1>2. ctxBps \in SUBSET Breakpoints /\ f2c \in Seq(Changes)
      /\ c2f \in Seq(SUBSET Breakpoints)
  BY <1>1 DEF TypeOK
<1>3. ASSUME NEW bps \in SUBSET Breakpoints,
             SendChangedBreakpointList(bps), ctxBps' = bps
      PROVE  LastAnswerIsCurrent' /\ ~NothingUnanswered'
  BY <1>1, <1>2, <1>3, AppendLast
  DEF SendChangedBreakpointList, LastAnswerIsCurrent, NothingUnanswered
<1>4. CASE UNCHANGED vars
  BY <1>1, <1>4
  DEF vars, LastAnswerIsCurrent, NothingUnanswered, IsSent
<1>5. ASSUME NEW bp \in Breakpoints, Toggle(bp)
      PROVE  LastAnswerIsCurrent' /\ ~NothingUnanswered'
  <2>1. UNCHANGED <<ctxBps, c2f>>
    BY <1>5 DEF Toggle
  <2> QED
    BY <1>1, <1>5, <2>1, ClickIsUnanswered DEF LastAnswerIsCurrent
<1>6. CASE HandleChange
  <2>1. /\ Head(f2c) \in Changes
        /\ Changed(ctxBps, Head(f2c)) \in SUBSET Breakpoints
        /\ ctxBps' = Changed(ctxBps, Head(f2c))
        /\ f2c' = Tail(f2c) /\ f2c # <<>>
        /\ UNCHANGED frameBps
    <3>1. f2c' = Tail(f2c) /\ f2c # <<>> /\ UNCHANGED frameBps
          /\ ctxBps' = Changed(ctxBps, Head(f2c))
      BY <1>6 DEF HandleChange
    <3>2. Head(f2c) \in Changes
      BY <1>2, <3>1, TailElements
    <3> QED
      BY <1>2, <3>1, <3>2 DEF Changed, Changes
  <2>2. CASE IsSent(ctxBps, Head(f2c))
    BY <1>3, <1>6, <2>1, <2>2 DEF HandleChange
  <2>3. CASE ~IsSent(ctxBps, Head(f2c))
    <3>1. UNCHANGED <<ctxBps, c2f>>
      BY <1>6, <2>1, <2>3 DEF HandleChange, IsSent, Changed
    <3>2. NothingUnanswered' => NothingUnanswered
      BY <1>1, <1>6, NoChangeIsAnswered
    <3> QED
      BY <1>1, <2>1, <3>1, <3>2 DEF LastAnswerIsCurrent
  <2> QED
    BY <2>2, <2>3
<1>7. CASE LoadConfig
  <2>1. CASE UNCHANGED <<ctxBps, c2f>>
    BY <1>1, <1>7, <2>1
    DEF LoadConfig, LastAnswerIsCurrent, NothingUnanswered, IsSent
  <2> QED
    BY <1>3, <1>7, <2>1 DEF LoadConfig
<1>8. CASE OnChangedBreakpointList
  <2>1. /\ c2f # <<>> /\ c2f' = Tail(c2f) /\ frameBps' = Head(c2f)
        /\ UNCHANGED <<ctxBps, f2c>>
    BY <1>8 DEF OnChangedBreakpointList
  <2>2. c2f[Len(c2f)] = ctxBps
    BY <1>1, <2>1 DEF LastAnswerIsCurrent
  <2> QED
    <3>1. /\ Tail(c2f) # <<>> => Tail(c2f)[Len(Tail(c2f))] = c2f[Len(c2f)]
          /\ Tail(c2f) = <<>> => Head(c2f) = c2f[Len(c2f)]
      BY <1>2, <2>1, TailElements
    <3> QED
      BY <2>1, <2>2, <3>1 DEF LastAnswerIsCurrent, NothingUnanswered
<1>9. CASE Disconnect
  BY <1>9 DEF Disconnect
<1> QED
  BY <1>4, <1>5, <1>6, <1>7, <1>8, <1>9 DEF Next

LEMMA SyncInvAlways == Spec => []SyncInv
<1>1. Init => SyncInv
  <2> SUFFICES ASSUME Init PROVE SyncInv
    OBVIOUS
  <2>1. c2f \in Seq(SUBSET Breakpoints) /\ f2c \in Seq(Changes)
    BY EmptySeq DEF Init
  <2>2. TypeOK
    BY <2>1 DEF Init, TypeOK
  <2> QED
    BY <2>2 DEF Init, SyncInv, LastAnswerIsCurrent
<1> QED
  BY <1>1, NextKeepsSync, PTL DEF Spec

(* Both copies of the list, and all the lists and changes on their way, are *)
(* made of breakpoints.                                                     *)
THEOREM BreakpointsTypeCorrect == Spec => []TypeOK
<1>1. SyncInv => TypeOK
  BY DEF SyncInv
<1> QED
  BY <1>1, SyncInvAlways, PTL

(* Whenever everything sent has been handled, the frame's copy of the list  *)
(* is the context's, for any number of breakpoints and clicks and whatever  *)
(* crossed on the way.                                                      *)
THEOREM CopiesAlwaysAgree == Spec => []CopiesAgree
<1>1. SyncInv => CopiesAgree
  BY DEF SyncInv, CopiesAgree, NothingUnanswered
<1> QED
  BY <1>1, SyncInvAlways, PTL

-----------------------------------------------------------------------------
(* What comes of the last click *)

NonePending(bp) == \A i \in DOMAIN f2c : f2c[i].bp # bp

LastPending(bp, i) ==
    /\ f2c[i].bp = bp
    /\ \A j \in DOMAIN f2c : j > i => f2c[j].bp # bp

Fulfilled(bp) ==
    /\ wish[bp] = "Set" => bp \in ctxBps
    /\ wish[bp] = "Remove" => bp \notin ctxBps

(* The last change of a breakpoint that is on its way is the one wished     *)
(* for, and where none is on its way the wish is fulfilled.                 *)
WishInv ==
    linked => \A bp \in Breakpoints :
        /\ \A i \in DOMAIN f2c :
              LastPending(bp, i) /\ wish[bp] # "none" => f2c[i].op = wish[bp]
        /\ NonePending(bp) => Fulfilled(bp)

LEMMA NextKeepsWish == TypeOK /\ WishInv /\ [Next]_vars => WishInv'
<1> SUFFICES ASSUME TypeOK, WishInv, [Next]_vars, linked',
                    NEW bp \in Breakpoints
             PROVE  /\ \A i \in DOMAIN f2c' :
                          LastPending(bp, i)' /\ wish'[bp] # "none"
                              => f2c'[i].op = wish'[bp]
                    /\ NonePending(bp)' => Fulfilled(bp)'
  BY DEF WishInv
<1>1. /\ linked
      /\ \A i \in DOMAIN f2c :
            LastPending(bp, i) /\ wish[bp] # "none" => f2c[i].op = wish[bp]
      /\ NonePending(bp) => Fulfilled(bp)
      /\ f2c \in Seq(Changes) /\ Len(f2c) \in Nat /\ DOMAIN f2c = 1 .. Len(f2c)
      /\ wish \in [Breakpoints -> {"none", "Set", "Remove"}]
      /\ ctxBps \in SUBSET Breakpoints
  <2>1. linked
    BY DEF Next, vars, Toggle, HandleChange, LoadConfig,
           OnChangedBreakpointList, Disconnect
  <2> QED
    BY <2>1, LenProperties DEF WishInv, TypeOK
<1>2. CASE UNCHANGED <<f2c, wish, ctxBps>>
  BY <1>1, <1>2 DEF LastPending, NonePending, Fulfilled
<1>3. ASSUME NEW b \in Breakpoints, Toggle(b)
      PROVE  /\ \A i \in DOMAIN f2c' :
                   LastPending(bp, i)' /\ wish'[bp] # "none"
                       => f2c'[i].op = wish'[bp]
             /\ NonePending(bp)' => Fulfilled(bp)'
  <2> DEFINE n == Len(f2c) + 1
  <2>1. /\ f2c' = Append(f2c, ToggleOf(b))
        /\ ToggleOf(b) \in Changes /\ ToggleOf(b).bp = b
        /\ UNCHANGED ctxBps
        /\ wish' = [wish EXCEPT ![b] = ToggleOf(b).op]
    BY <1>1, <1>3 DEF Toggle, ToggleOf, Changes
  <2>2. /\ DOMAIN f2c' = 1 .. n /\ n \in DOMAIN f2c'
        /\ f2c'[n] = ToggleOf(b)
        /\ \A i \in DOMAIN f2c : f2c'[i] = f2c[i]
        /\ \A i \in DOMAIN f2c' : i = n \/ (i \in DOMAIN f2c /\ n > i)
        /\ \A i \in DOMAIN f2c : i \in DOMAIN f2c'
    BY <1>1, <2>1, AppendLast
  <2> HIDE DEF n
  <2>3. CASE bp = b
    <3>1. wish'[bp] = f2c'[n].op /\ f2c'[n].bp = bp
      BY <1>1, <2>1, <2>2, <2>3
    <3>2. \A i \in DOMAIN f2c' : LastPending(bp, i)' => i = n
      BY <2>2, <3>1 DEF LastPending
    <3> QED
      BY <2>2, <3>1, <3>2 DEF NonePending
  <2>4. CASE bp # b
    <3>1. wish'[bp] = wish[bp]
      BY <1>1, <2>1, <2>4
    <3>2. \A i \in DOMAIN f2c' :
             LastPending(bp, i)' => i \in DOMAIN f2c /\ LastPending(bp, i)
      BY <2>1, <2>2, <2>4 DEF LastPending
    <3>3. NonePending(bp)' => NonePending(bp)
      BY <2>2 DEF NonePending
    <3> QED
      BY <1>1, <2>1, <2>2, <3>1, <3>2, <3>3 DEF Fulfilled
  <2> QED
    BY <2>3, <2>4
<1>4. CASE HandleChange
  <2>1. /\ f2c # <<>> /\ f2c' = Tail(f2c)
        /\ ctxBps' = Changed(ctxBps, Head(f2c))
        /\ UNCHANGED wish
    BY <1>4 DEF HandleChange
  <2>2. /\ 1 \in DOMAIN f2c /\ Head(f2c) = f2c[1] /\ Head(f2c) \in Changes
        /\ DOMAIN f2c' = 1 .. Len(f2c) - 1
        /\ \A i \in 1 .. Len(f2c) - 1 : f2c'[i] = f2c[i + 1]
    BY <1>1, <2>1, HeadTailProperties, EmptySeq
  <2>3. \A i \in DOMAIN f2c : i = 1 \/ (i - 1 \in DOMAIN f2c' /\ f2c'[i - 1] = f2c[i])
    BY <1>1, <2>2
  <2>4. \A i \in DOMAIN f2c' :
           LastPending(bp, i)' => i + 1 \in DOMAIN f2c /\ LastPending(bp, i + 1)
    <3> SUFFICES ASSUME NEW i \in DOMAIN f2c', LastPending(bp, i)'
                 PROVE  i + 1 \in DOMAIN f2c /\ LastPending(bp, i + 1)
      OBVIOUS
    <3>1. i + 1 \in DOMAIN f2c /\ f2c[i + 1].bp = bp
      BY <1>1, <2>2 DEF LastPending
    <3>2. ASSUME NEW j \in DOMAIN f2c, j > i + 1 PROVE f2c[j].bp # bp
      <4>1. j - 1 \in DOMAIN f2c' /\ f2c'[j - 1] = f2c[j] /\ j - 1 > i
        BY <1>1, <2>2, <2>3, <3>2
      <4> QED
        BY <4>1 DEF LastPending
    <3> QED
      BY <3>1, <3>2 DEF LastPending
  <2>5. \A i \in DOMAIN f2c' : f2c'[i] = f2c[i + 1]
    BY <2>2
  <2>6. NonePending(bp)' => Fulfilled(bp)'
    <3> SUFFICES ASSUME NonePending(bp)' PROVE Fulfilled(bp)'
      OBVIOUS
    <3>1. \A i \in DOMAIN f2c : i # 1 => f2c[i].bp # bp
      BY <2>3 DEF NonePending
    <3>2. CASE Head(f2c).bp = bp
      <4>1. \A j \in DOMAIN f2c : j > 1 => f2c[j].bp # bp
        BY <1>1, <3>1
      <4>2. LastPending(bp, 1)
        BY <2>2, <3>2, <4>1 DEF LastPending
      <4>3. wish[bp] # "none" => Head(f2c).op = wish[bp]
        BY <1>1, <2>2, <4>2
      <4> QED
        BY <2>1, <3>2, <4>3 DEF Fulfilled, Changed
    <3>3. CASE Head(f2c).bp # bp
      <4>1. Fulfilled(bp)
        BY <1>1, <2>2, <3>1, <3>3 DEF NonePending
      <4> QED
        BY <2>1, <3>3, <4>1 DEF Fulfilled, Changed
    <3> QED
      BY <3>2, <3>3
  <2> QED
    BY <1>1, <2>1, <2>4, <2>5, <2>6
<1>5. CASE LoadConfig
  <2>1. CASE wish' = StillWished
    <3>1. /\ UNCHANGED f2c
          /\ wish'[bp] = IF \E i \in DOMAIN f2c : f2c[i].bp = bp
                         THEN wish[bp] ELSE "none"
      BY <1>5, <2>1 DEF LoadConfig, StillWished
    <3> QED
      BY <1>1, <3>1 DEF LastPending, NonePending, Fulfilled
  <2> QED
    BY <1>2, <1>5, <2>1 DEF LoadConfig
<1> QED
  BY <1>2, <1>3, <1>4, <1>5 DEF Next, vars, OnChangedBreakpointList, Disconnect

(* When the context has handled all changes sent to it, the last click on   *)
(* each breakpoint is what came of it, whatever lists crossed the clicks    *)
(* (Mediator::ToggleBreakpoint decides on the frame's own, older copy).     *)
THEOREM LastClickAlwaysWins == Spec => []LastClickWins
<1>1. Init => WishInv
  <2> SUFFICES ASSUME Init PROVE WishInv
    OBVIOUS
  <2>1. DOMAIN f2c = {}
    BY EmptySeq DEF Init
  <2> QED
    BY <2>1 DEF Init, WishInv, Fulfilled
<1>2. WishInv /\ TypeOK => LastClickWins
  <2> SUFFICES ASSUME WishInv, TypeOK, linked, f2c = <<>>, NEW bp \in Breakpoints
               PROVE  Fulfilled(bp)
    BY DEF LastClickWins, Fulfilled
  <2>1. DOMAIN f2c = {}
    BY EmptySeq
  <2> QED
    BY <2>1 DEF WishInv, NonePending
<1>3. TypeOK /\ TypeOK' /\ WishInv /\ [Next]_vars => WishInv'
  BY NextKeepsWish
<1> QED
  BY <1>1, <1>2, <1>3, BreakpointsTypeCorrect, PTL DEF Spec

-----------------------------------------------------------------------------
(* The marks of the breakpoints *)

(* What SourcePages adds leaves the lists, their channels and the wish as    *)
(* they are.                                                                 *)
LEMMA PagesStepIsSyncStep == [PagesNext]_allVars => [Next]_vars
<1> SUFFICES ASSUME [PagesNext]_allVars PROVE [Next]_vars
  OBVIOUS
<1>1. CASE UNCHANGED allVars
  BY <1>1 DEF allVars, vars
<1>2. ASSUME NEW k \in Keys, LoadFile(k) PROVE [Next]_vars
  BY <1>2 DEF LoadFile, Next
<1>3. CASE HookLine \/ SendUpdateSource \/ HandleResume \/ HandleForceUpdateSource
           \/ HandleSuccessed \/ HandleRequestSource \/ HandleSaveSource
  BY <1>3 DEF HookLine, SendUpdateSource, HandleResume, HandleForceUpdateSource,
       HandleSuccessed, HandleRequestSource, HandleSaveSource, vars
<1>4. CASE HandleBreakpoint
  BY <1>4 DEF HandleBreakpoint, Next
<1>5. CASE OnUpdateSource \/ OnPendingEvent \/ OnValueSource \/ OnAddedSource
           \/ OnChangedState \/ OnEndDebug
  BY <1>5 DEF OnUpdateSource, OnPendingEvent, OnValueSource, OnAddedSource,
       OnChangedState, OnEndDebug, vars
<1>6. CASE OnBreakpoints
  BY <1>6 DEF OnBreakpoints, Next
<1>7. ASSUME NEW bp \in Breakpoints, Click(bp) PROVE [Next]_vars
  BY <1>7 DEF Click, Next
<1>8. CASE Edit \/ SaveSource \/ (\E i \in DOMAIN pages : Select(i))
           \/ (\E type \in {"RESUME", "FORCE_UPDATESOURCE"} : Sends(type))
  BY <1>8 DEF Edit, SaveSource, Select, Sends, vars
<1>9. CASE Lose
  BY <1>9 DEF Lose, Next
<1> QED
  BY <1>1, <1>2, <1>3, <1>4, <1>5, <1>6, <1>7, <1>8, <1>9
  DEF PagesNext, ContextStep, FrameStep, UserStep

(* SourcePages shows the breakpoints that BreakpointSync keeps: whatever is  *)
(* proved of the two copies of the list holds of it, too.                    *)
THEOREM PagesImplementSync == PagesSpec => Spec
<1>1. PagesInit => Init
  BY DEF PagesInit
<1> QED
  BY <1>1, PagesStepIsSyncStep, PTL DEF PagesSpec, Spec

-----------------------------------------------------------------------------
(* What the queues and the pages are made of *)

(* A text that was read: none is like the one of an unknown source.          *)
FullText == [version : Nat \ {0}, newlines : Nat]
SomeText == FullText \cup {NoText}
FullPage == [key : Keys, text : FullText, modified : BOOLEAN, mark : Nat,
             bps : SUBSET Breakpoints]

UpdateMsg == [type : {"UPDATE_SOURCE"}, key : Keys, line : Nat,
              isRefreshOnly : BOOLEAN]
StateMsg == [type : {"CHANGED_STATE"}, isBreak : BOOLEAN]
AddedMsg == [type : {"ADDED_SOURCE"}, key : Keys, text : FullText]
ValueMsg == [type : {"VALUE_SOURCE"}, key : Keys, text : SomeText, event : UpdateMsg]
EndMsg == [type : {"END_CONNECTION"}]
FrameMsg == UpdateMsg \cup StateMsg \cup AddedMsg \cup ValueMsg \cup EndMsg

PlainMsg == [type : {"RESUME", "FORCE_UPDATESOURCE"}]
SuccessMsg == [type : {"SUCCESSED"}]
RequestMsg == [type : {"REQUEST_SOURCE"}, event : UpdateMsg]
SaveMsg == [type : {"SAVE_SOURCE"}, key : Keys, text : FullText]
ContextMsg == PlainMsg \cup SuccessMsg \cup RequestMsg \cup SaveMsg

TypesInv ==
    /\ stop \in [n : 0 .. MaxStops, key : Keys]
    /\ stopped \in BOOLEAN /\ prevBreak \in BOOLEAN /\ isMustUpdate \in BOOLEAN
    /\ sources \in [Keys -> SomeText] /\ file \in [Keys -> FullText]
    /\ s2f \in Seq(FrameMsg) /\ f2s \in Seq(ContextMsg)
    /\ pages \in Seq(FullPage) /\ selected \in DOMAIN pages \cup {0}
    /\ pending \in Seq(UpdateMsg)
    /\ isBreak \in BOOLEAN /\ acts \in 0 .. MaxActs
    /\ recovered \in BOOLEAN /\ away \in BOOLEAN /\ failed \in BOOLEAN

LEMMA FrameKinds ==
    ASSUME NEW m \in FrameMsg
    PROVE  /\ m.type = "UPDATE_SOURCE" <=> m \in UpdateMsg
           /\ m.type = "CHANGED_STATE" <=> m \in StateMsg
           /\ m.type = "ADDED_SOURCE" <=> m \in AddedMsg
           /\ m.type = "VALUE_SOURCE" <=> m \in ValueMsg
           /\ m.type = "END_CONNECTION" <=> m \in EndMsg
<1>1. \A u \in UpdateMsg : u.type = "UPDATE_SOURCE"
  BY DEF UpdateMsg
<1>2. \A u \in StateMsg : u.type = "CHANGED_STATE"
  BY DEF StateMsg
<1>3. \A u \in AddedMsg : u.type = "ADDED_SOURCE"
  BY DEF AddedMsg
<1>4. \A u \in ValueMsg : u.type = "VALUE_SOURCE"
  BY DEF ValueMsg
<1>5. \A u \in EndMsg : u.type = "END_CONNECTION"
  BY DEF EndMsg
<1>6. m \in UpdateMsg \/ m \in StateMsg \/ m \in AddedMsg \/ m \in ValueMsg
      \/ m \in EndMsg
  BY DEF FrameMsg
<1> QED
  BY ONLY <1>1, <1>2, <1>3, <1>4, <1>5, <1>6

LEMMA ContextKinds ==
    ASSUME NEW m \in ContextMsg
    PROVE  /\ m.type \in {"RESUME", "FORCE_UPDATESOURCE"} <=> m \in PlainMsg
           /\ m.type = "SUCCESSED" <=> m \in SuccessMsg
           /\ m.type = "REQUEST_SOURCE" <=> m \in RequestMsg
           /\ m.type = "SAVE_SOURCE" <=> m \in SaveMsg
<1>1. \A u \in PlainMsg : u.type = "RESUME" \/ u.type = "FORCE_UPDATESOURCE"
  BY DEF PlainMsg
<1>2. \A u \in SuccessMsg : u.type = "SUCCESSED"
  BY DEF SuccessMsg
<1>3. \A u \in RequestMsg : u.type = "REQUEST_SOURCE"
  BY DEF RequestMsg
<1>4. \A u \in SaveMsg : u.type = "SAVE_SOURCE"
  BY DEF SaveMsg
<1>5. m \in PlainMsg \/ m \in SuccessMsg \/ m \in RequestMsg \/ m \in SaveMsg
  BY DEF ContextMsg
<1> QED
  BY ONLY <1>1, <1>2, <1>3, <1>4, <1>5

(* The messages that are sent. *)
StopUpdate == [type |-> "UPDATE_SOURCE", key |-> stop.key, line |-> stop.n,
               isRefreshOnly |-> prevBreak]
StateOf(b) == [type |-> "CHANGED_STATE", isBreak |-> b]
FileAdded(k) == [type |-> "ADDED_SOURCE", key |-> k, text |-> file[k]]
AnswerTo(ev) == [type |-> "VALUE_SOURCE", key |-> ev.key, text |-> sources[ev.key],
                 event |-> ev]
RequestFor(ev) == [type |-> "REQUEST_SOURCE", event |-> ev]
Success == [type |-> "SUCCESSED"]
SaveOf(p) == [type |-> "SAVE_SOURCE", key |-> p.key, text |-> Stored(p.text)]

LEMMA TextTypes ==
    /\ \A t \in FullText : /\ t # NoText
                           /\ Shown(t) \in FullText
                           /\ Stored(t) \in FullText
                           /\ Stored(Shown(t)) = t
    /\ FullText \subseteq Texts \ {NoText} /\ SomeText \subseteq Texts
<1>1. ASSUME NEW t \in FullText
      PROVE  /\ t # NoText /\ Shown(t) \in FullText /\ Stored(t) \in FullText
             /\ Stored(Shown(t)) = t
  <2>1. PICK v \in Nat \ {0}, n \in Nat : t = [version |-> v, newlines |-> n]
    BY DEF FullText
  <2>2. t # NoText
    BY <2>1 DEF NoText
  <2>3. Shown(t) = [version |-> v, newlines |-> n + 1]
    BY <2>1 DEF Shown
  <2>4. Stored(t) = [version |-> v, newlines |-> IF n > 0 THEN n - 1 ELSE 0]
    BY <2>1 DEF Stored
  <2>5. n + 1 \in Nat /\ (IF n > 0 THEN n - 1 ELSE 0) \in Nat
    OBVIOUS
  <2>6. Shown(t) \in FullText /\ Stored(t) \in FullText
    BY <2>3, <2>4, <2>5 DEF FullText
  <2>7. Stored(Shown(t)) = [version |-> v, newlines |-> IF n + 1 > 0 THEN (n + 1) - 1 ELSE 0]
    BY <2>3 DEF Stored
  <2>8. (IF n + 1 > 0 THEN (n + 1) - 1 ELSE 0) = n
    OBVIOUS
  <2> QED
    BY <2>1, <2>2, <2>6, <2>7, <2>8
<1>2. NoText \in Texts
  BY DEF NoText, Texts
<1>3. FullText \subseteq Texts
  BY DEF FullText, Texts
<1> QED
  BY <1>1, <1>2, <1>3 DEF SomeText

LEMMA MessageTypes ==
    ASSUME TypesInv
    PROVE  /\ StopUpdate \in UpdateMsg
           /\ \A b \in BOOLEAN : StateOf(b) \in StateMsg
           /\ \A k \in Keys : FileAdded(k) \in AddedMsg
           /\ \A ev \in UpdateMsg : AnswerTo(ev) \in ValueMsg /\ RequestFor(ev) \in RequestMsg
           /\ Success \in SuccessMsg
           /\ \A p \in FullPage : SaveOf(p) \in SaveMsg
<1>1. stop.key \in Keys /\ stop.n \in Nat /\ prevBreak \in BOOLEAN
  BY PagesAssumption DEF TypesInv
<1>2. StopUpdate \in UpdateMsg
  BY ONLY <1>1 DEF StopUpdate, UpdateMsg
<1>3. \A b \in BOOLEAN : StateOf(b) \in StateMsg
  BY DEF StateOf, StateMsg
<1>4. \A k \in Keys : FileAdded(k) \in AddedMsg
  BY DEF TypesInv, FileAdded, AddedMsg
<1>5. ASSUME NEW ev \in UpdateMsg
      PROVE  AnswerTo(ev) \in ValueMsg /\ RequestFor(ev) \in RequestMsg
  <2>1. ev.key \in Keys
    BY DEF UpdateMsg
  <2>2. sources[ev.key] \in SomeText
    BY <2>1 DEF TypesInv
  <2> QED
    BY ONLY <1>5, <2>1, <2>2 DEF AnswerTo, RequestFor, ValueMsg, RequestMsg
<1>6. Success \in SuccessMsg
  BY DEF Success, SuccessMsg
<1>7. ASSUME NEW p \in FullPage PROVE SaveOf(p) \in SaveMsg
  <2>1. p.key \in Keys /\ p.text \in FullText
    BY DEF FullPage
  <2>2. Stored(p.text) \in FullText
    BY <2>1, TextTypes
  <2> QED
    BY ONLY <2>1, <2>2 DEF SaveOf, SaveMsg
<1> QED
  BY <1>2, <1>3, <1>4, <1>5, <1>6, <1>7

(* A page whose mark, breakpoints or text are replaced, and the others.      *)
LEMMA PageFields ==
    ASSUME NEW p \in FullPage
    PROVE  /\ \A n \in Nat : LET q == [p EXCEPT !.mark = n]
                             IN  /\ q \in FullPage /\ q.mark = n
                                 /\ q.key = p.key /\ q.text = p.text
                                 /\ q.modified = p.modified /\ q.bps = p.bps
           /\ \A B \in SUBSET Breakpoints :
                 LET q == [p EXCEPT !.bps = B]
                 IN  /\ q \in FullPage /\ q.bps = B
                     /\ q.key = p.key /\ q.text = p.text /\ q.mark = p.mark
                     /\ q.modified = p.modified
           /\ \A b \in BOOLEAN :
                 LET q == [p EXCEPT !.modified = b]
                 IN  /\ q \in FullPage /\ (q.modified <=> b)
                     /\ q.key = p.key /\ q.text = p.text /\ q.mark = p.mark
                     /\ q.bps = p.bps
           /\ \A t \in FullText :
                 LET q == [p EXCEPT !.text = t]
                 IN  /\ q \in FullPage /\ q.modified = p.modified
                     /\ q.key = p.key /\ q.text = t /\ q.mark = p.mark
                     /\ q.bps = p.bps
<1>1. ASSUME NEW n \in Nat
      PROVE  LET q == [p EXCEPT !.mark = n]
             IN  /\ q \in FullPage /\ q.mark = n
                 /\ q.key = p.key /\ q.text = p.text
                 /\ q.modified = p.modified /\ q.bps = p.bps
  BY DEF FullPage
<1>2. ASSUME NEW B \in SUBSET Breakpoints
      PROVE  LET q == [p EXCEPT !.bps = B]
             IN  /\ q \in FullPage /\ q.bps = B
                 /\ q.key = p.key /\ q.text = p.text /\ q.mark = p.mark
                 /\ q.modified = p.modified
  BY DEF FullPage
<1>3. ASSUME NEW b \in BOOLEAN
      PROVE  LET q == [p EXCEPT !.modified = b]
             IN  /\ q \in FullPage /\ (q.modified <=> b)
                 /\ q.key = p.key /\ q.text = p.text /\ q.mark = p.mark
                 /\ q.bps = p.bps
  BY DEF FullPage
<1>4. ASSUME NEW t \in FullText
      PROVE  LET q == [p EXCEPT !.text = t]
             IN  /\ q \in FullPage /\ q.modified = p.modified
                 /\ q.key = p.key /\ q.text = t /\ q.mark = p.mark
                 /\ q.bps = p.bps
  BY DEF FullPage
<1> QED
  BY <1>1, <1>2, <1>3, <1>4

-----------------------------------------------------------------------------
(* What the steps do, action by action *)

NewPage(k, text) ==
    [key |-> k, text |-> Shown(text), modified |-> FALSE, mark |-> 0,
     bps |-> Marks(frameBps, k)]

LEMMA NewPageFields ==
    ASSUME TypeOK, NEW k \in Keys, NEW text \in FullText
    PROVE  /\ NewPage(k, text) \in FullPage
           /\ NewPage(k, text).key = k /\ NewPage(k, text).text = Shown(text)
           /\ NewPage(k, text).mark = 0 /\ ~NewPage(k, text).modified
           /\ NewPage(k, text).bps = Marks(frameBps, k)
<1>1. Shown(text) \in FullText
  BY TextTypes
<1>2. Marks(frameBps, k) \in SUBSET Breakpoints
  BY DEF TypeOK, Marks
<1>3. NewPage(k, text) \in FullPage
  BY ONLY <1>1, <1>2, k \in Keys DEF NewPage, FullPage
<1> QED
  BY <1>3 DEF NewPage

LEMMA LastPageExists ==
    ASSUME TypesInv, NEW k, PagesOf(k) # {}
    PROVE  \E i \in PagesOf(k) : \A j \in PagesOf(k) : j <= i
<1> DEFINE Bounds == {n \in Nat : \A j \in PagesOf(k) : j <= n}
<1>1. Len(pages) \in Nat /\ DOMAIN pages = 1 .. Len(pages)
  BY LenProperties DEF TypesInv
<1>2. PagesOf(k) \subseteq 1 .. Len(pages)
  BY <1>1 DEF PagesOf
<1>3. Len(pages) \in Bounds
  BY <1>1, <1>2
<1>4. PICK n \in Bounds : \A m \in Bounds : n <= m
  <2> HIDE DEF Bounds
  <2>1. Bounds \in SUBSET Nat
    BY DEF Bounds
  <2> QED
    BY <1>3, <2>1, LeastOfSome
<1>5. ASSUME n \notin PagesOf(k) PROVE FALSE
  <2>1. PICK j \in PagesOf(k) : TRUE
    OBVIOUS
  <2>2. j \in Nat /\ 1 <= j /\ j <= n /\ n \in Nat
    BY <1>1, <1>2
  <2>3. n - 1 \in Nat /\ ~(n <= n - 1)
    BY <2>2
  <2>4. \A i \in PagesOf(k) : i <= n /\ i # n /\ i \in Nat
    BY <1>1, <1>2, <1>5
  <2>5. \A i \in PagesOf(k) : i <= n - 1
    BY <2>2, <2>4
  <2>6. n - 1 \in Bounds
    BY <2>3, <2>5
  <2> QED
    BY <1>4, <2>3, <2>6
<1> QED
  BY <1>4, <1>5

LEMMA AddDoes ==
    ASSUME TypesInv, NEW k \in Keys, NEW readable \in BOOLEAN, Add(k, readable)
    PROVE  \/ sources' = sources /\ Added(k) = <<>>
           \/ /\ sources[k] = NoText
              /\ sources' = [sources EXCEPT ![k] = file[k]]
              /\ sources' # sources
              /\ Added(k) = <<FileAdded(k)>>
<1>1. sources \in [Keys -> SomeText] /\ file[k] \in FullText /\ file[k] # NoText
  BY TextTypes DEF TypesInv
<1>2. CASE sources[k] = NoText /\ readable
  <2>1. sources' = [sources EXCEPT ![k] = file[k]]
    BY <1>2 DEF Add
  <2>2. sources'[k] = file[k]
    BY <1>1, <2>1
  <2>3. sources' # sources
    BY <1>1, <1>2, <2>2
  <2> QED
    BY <1>2, <2>1, <2>2, <2>3 DEF Added, FileAdded
<1>3. CASE ~(sources[k] = NoText /\ readable)
  BY <1>3 DEF Add, Added
<1> QED
  BY <1>2, <1>3

LEMMA SendUpdateSourceDoes ==
    ASSUME TypesInv, SendUpdateSource
    PROVE  /\ linked /\ stopped
           /\ StopUpdate \in UpdateMsg
           /\ \/ /\ UNCHANGED <<sources, recovered>>
                 /\ s2f' = Append(s2f, StopUpdate)
              \/ /\ sources[stop.key] = NoText
                 /\ sources' = [sources EXCEPT ![stop.key] = file[stop.key]]
                 /\ FileAdded(stop.key) \in AddedMsg
                 /\ s2f' = Append(Append(s2f, FileAdded(stop.key)), StopUpdate)
                 /\ (prevBreak => recovered')
           /\ recovered => recovered'
           /\ recovered' \in BOOLEAN
<1>1. stop.key \in Keys
  BY DEF TypesInv
<1>2. PICK readable \in BOOLEAN : Add(stop.key, readable)
  BY DEF SendUpdateSource
<1>3. /\ s2f \in Seq(FrameMsg)
      /\ StopUpdate \in UpdateMsg /\ FileAdded(stop.key) \in AddedMsg
      /\ StopUpdate \in FrameMsg /\ FileAdded(stop.key) \in FrameMsg
  <2>1. StopUpdate \in UpdateMsg /\ FileAdded(stop.key) \in AddedMsg
    BY <1>1, MessageTypes
  <2> QED
    BY <2>1 DEF TypesInv, FrameMsg
<1>4. /\ linked /\ stopped
      /\ s2f' = s2f \o (Added(stop.key) \o <<StopUpdate>>)
      /\ recovered' = (recovered \/ (prevBreak /\ sources' # sources))
  BY DEF SendUpdateSource, ToFrame, StopUpdate
<1>5. recovered' \in BOOLEAN /\ (recovered => recovered')
      /\ (prevBreak /\ sources' # sources => recovered')
      /\ (sources' = sources => recovered' = recovered)
  <2>1. recovered \in BOOLEAN /\ prevBreak \in BOOLEAN
    BY DEF TypesInv
  <2> QED
    BY ONLY <1>4, <2>1
<1>6. CASE sources' = sources /\ Added(stop.key) = <<>>
  <2>1. s2f' = Append(s2f, StopUpdate)
    BY ONLY <1>3, <1>4, <1>6, ConcatAppends
  <2> QED
    BY <1>3, <1>4, <1>5, <1>6, <2>1
<1>7. CASE /\ sources[stop.key] = NoText
           /\ sources' = [sources EXCEPT ![stop.key] = file[stop.key]]
           /\ sources' # sources
           /\ Added(stop.key) = <<FileAdded(stop.key)>>
  <2>1. s2f' = Append(Append(s2f, FileAdded(stop.key)), StopUpdate)
    BY ONLY <1>3, <1>4, <1>7, ConcatAppends
  <2> QED
    BY <1>3, <1>4, <1>5, <1>7, <2>1
<1> QED
  BY <1>1, <1>2, <1>6, <1>7, AddDoes

LEMMA LoadFileDoes ==
    ASSUME TypesInv, NEW k \in Keys, LoadFile(k)
    PROVE  /\ linked /\ ~stopped /\ linked'
           /\ \/ UNCHANGED <<sources, s2f>>
              \/ /\ sources[k] = NoText
                 /\ sources' = [sources EXCEPT ![k] = file[k]]
                 /\ FileAdded(k) \in AddedMsg
                 /\ s2f' = Append(s2f, FileAdded(k))
           /\ UNCHANGED <<stop, stopped, prevBreak, isMustUpdate, wait, file, f2s,
                          view, acts, history>>
<1>1. linked' /\ linked /\ ~stopped /\ Add(k, TRUE) /\ s2f' = s2f \o Added(k)
  BY DEF LoadFile, LoadConfig, vars, ToFrame
<1>2. s2f \in Seq(FrameMsg) /\ FileAdded(k) \in AddedMsg
  BY MessageTypes DEF TypesInv
<1>3. FileAdded(k) \in FrameMsg
  BY <1>2 DEF FrameMsg
<1>4. s2f \o <<>> = s2f /\ s2f \o <<FileAdded(k)>> = Append(s2f, FileAdded(k))
  BY <1>2, <1>3, ConcatAppends
<1>5. \/ sources' = sources /\ Added(k) = <<>>
      \/ /\ sources[k] = NoText
         /\ sources' = [sources EXCEPT ![k] = file[k]]
         /\ Added(k) = <<FileAdded(k)>>
  BY <1>1, AddDoes
<1> QED
  BY <1>1, <1>2, <1>4, <1>5 DEF LoadFile

LEMMA HookLineDoes ==
    ASSUME TypesInv, HookLine
    PROVE  /\ linked /\ ~stopped /\ stopped' = TRUE /\ prevBreak' = FALSE
           /\ stop' \in [n : 0 .. MaxStops, key : Keys] /\ stop'.n = stop.n + 1
           /\ stop.n \in Nat
           /\ StateOf(TRUE) \in StateMsg
           /\ s2f' = Append(s2f, StateOf(TRUE))
<1>1. s2f \in Seq(FrameMsg) /\ StateOf(TRUE) \in StateMsg /\ StateOf(TRUE) \in FrameMsg
  BY MessageTypes DEF TypesInv, FrameMsg
<1>2. s2f' = s2f \o <<StateOf(TRUE)>>
  BY DEF HookLine, ToFrame, ChangedState, StateOf
<1>3. s2f' = Append(s2f, StateOf(TRUE))
  BY <1>1, <1>2, ConcatAppends
<1>4. MaxStops \in Nat /\ stop.n \in 0 .. MaxStops /\ stop.n < MaxStops
  BY PagesAssumption DEF TypesInv, HookLine
<1>5. PICK k \in Keys : stop' = [n |-> stop.n + 1, key |-> k]
  BY DEF HookLine
<1>6. stop.n + 1 \in 0 .. MaxStops /\ stop.n \in Nat
  BY <1>4
<1> QED
  BY <1>1, <1>3, <1>5, <1>6 DEF HookLine

LEMMA HandleResumeDoes ==
    ASSUME TypesInv, HandleResume
    PROVE  /\ f2s # <<>> /\ f2s' = Tail(f2s) /\ Head(f2s) \in PlainMsg
           /\ stopped' \in BOOLEAN
           /\ StateOf(FALSE) \in StateMsg
           /\ \/ UNCHANGED <<stopped, s2f>>
              \/ /\ stopped /\ ~stopped' /\ ~(wait > 0)
                 /\ s2f' = IF linked THEN Append(s2f, StateOf(FALSE)) ELSE s2f
<1>1. f2s \in Seq(ContextMsg) /\ f2s # <<>> /\ f2s' = Tail(f2s) /\ Head(f2s).type = "RESUME"
  BY DEF HandleResume, Receives, TypesInv
<1>2. Head(f2s) \in PlainMsg
  <2>1. Head(f2s) \in ContextMsg
    BY <1>1, TailFacts
  <2> QED
    BY <1>1, <2>1, ContextKinds
<1>3. s2f \in Seq(FrameMsg) /\ StateOf(FALSE) \in StateMsg /\ StateOf(FALSE) \in FrameMsg
  BY MessageTypes DEF TypesInv, FrameMsg
<1>4. s2f \o <<>> = s2f /\ s2f \o <<StateOf(FALSE)>> = Append(s2f, StateOf(FALSE))
  BY <1>3, ConcatAppends
<1>5. /\ stopped' = (stopped /\ wait > 0)
      /\ s2f' = IF linked THEN s2f \o (IF stopped # stopped' THEN <<StateOf(FALSE)>> ELSE <<>>)
                ELSE s2f
  BY DEF HandleResume, ToFrame, ChangedState, StateOf
<1>6. stopped \in BOOLEAN /\ stopped' \in BOOLEAN
  BY <1>5 DEF TypesInv
<1>7. CASE stopped' = stopped
  BY <1>1, <1>2, <1>3, <1>4, <1>5, <1>6, <1>7
<1>8. CASE stopped' # stopped
  <2>1. stopped /\ ~stopped' /\ ~(wait > 0)
    BY ONLY <1>5, <1>6, <1>8
  <2> QED
    BY <1>1, <1>2, <1>3, <1>4, <1>5, <1>6, <1>8, <2>1
<1> QED
  BY <1>7, <1>8

LEMMA HandleRequestSourceDoes ==
    ASSUME TypesInv, HandleRequestSource
    PROVE  /\ f2s # <<>> /\ f2s' = Tail(f2s) /\ Head(f2s) \in RequestMsg
           /\ Head(f2s).event \in UpdateMsg
           /\ AnswerTo(Head(f2s).event) \in ValueMsg
           /\ s2f' = IF linked THEN Append(s2f, AnswerTo(Head(f2s).event)) ELSE s2f
<1>1. f2s \in Seq(ContextMsg) /\ f2s # <<>> /\ f2s' = Tail(f2s)
      /\ Head(f2s).type = "REQUEST_SOURCE"
  BY DEF HandleRequestSource, Receives, TypesInv
<1>2. Head(f2s) \in RequestMsg
  <2>1. Head(f2s) \in ContextMsg
    BY <1>1, TailFacts
  <2> QED
    BY <1>1, <2>1, ContextKinds
<1>3. Head(f2s).event \in UpdateMsg
  BY <1>2 DEF RequestMsg
<1>4. AnswerTo(Head(f2s).event) \in ValueMsg
  BY <1>3, MessageTypes
<1>5. s2f \in Seq(FrameMsg) /\ AnswerTo(Head(f2s).event) \in FrameMsg
  BY <1>4 DEF TypesInv, FrameMsg
<1>6. s2f' = IF linked THEN s2f \o <<AnswerTo(Head(f2s).event)>> ELSE s2f
  BY DEF HandleRequestSource, ToFrame, AnswerTo
<1>7. s2f \o <<AnswerTo(Head(f2s).event)>> = Append(s2f, AnswerTo(Head(f2s).event))
  BY <1>5, ConcatAppends
<1> QED
  BY <1>1, <1>2, <1>3, <1>4, <1>6, <1>7

(* The other commands that the context takes. *)
LEMMA ReceivesDoes ==
    ASSUME TypesInv, NEW type, Receives(type)
    PROVE  /\ f2s # <<>> /\ f2s' = Tail(f2s) /\ Head(f2s) \in ContextMsg
           /\ Head(f2s).type = type
           /\ type = "FORCE_UPDATESOURCE" => Head(f2s) \in PlainMsg
           /\ type = "SUCCESSED" => Head(f2s) \in SuccessMsg
           /\ type = "SAVE_SOURCE" => Head(f2s) \in SaveMsg
<1>1. f2s \in Seq(ContextMsg) /\ f2s # <<>> /\ f2s' = Tail(f2s) /\ Head(f2s).type = type
  BY DEF Receives, TypesInv
<1>2. Head(f2s) \in ContextMsg
  BY <1>1, TailFacts
<1> QED
  BY <1>1, <1>2, ContextKinds

LEMMA ProcessesDoes ==
    ASSUME TypesInv, NEW type, Processes(type)
    PROVE  /\ s2f # <<>> /\ s2f' = Tail(s2f) /\ Head(s2f) \in FrameMsg
           /\ type = "UPDATE_SOURCE" => Head(s2f) \in UpdateMsg
           /\ type = "CHANGED_STATE" => Head(s2f) \in StateMsg
           /\ type = "ADDED_SOURCE" => Head(s2f) \in AddedMsg
           /\ type = "VALUE_SOURCE" => Head(s2f) \in ValueMsg
           /\ type = "END_CONNECTION" => Head(s2f) \in EndMsg
<1>1. s2f \in Seq(FrameMsg) /\ s2f # <<>> /\ s2f' = Tail(s2f) /\ Head(s2f).type = type
  BY DEF Processes, TypesInv
<1>2. Head(s2f) \in FrameMsg
  BY <1>1, TailFacts
<1> QED
  BY <1>1, <1>2, FrameKinds

LEMMA RepagedTypes ==
    ASSUME TypesInv, NEW f \in [DOMAIN pages -> FullPage]
    PROVE  f \in Seq(FullPage) /\ DOMAIN f = DOMAIN pages
<1>1. Len(pages) \in Nat /\ DOMAIN pages = 1 .. Len(pages)
  BY LenProperties DEF TypesInv
<1> QED
  BY <1>1

(* The pages stay, and of each what is in it but for the mark.               *)
SameButMarks ==
    /\ pages' \in Seq(FullPage)
    /\ DOMAIN pages' = DOMAIN pages
    /\ \A i \in DOMAIN pages :
          /\ pages'[i].key = pages[i].key
          /\ pages'[i].text = pages[i].text
          /\ pages'[i].modified = pages[i].modified
          /\ pages'[i].bps = pages[i].bps

Freshes == {m \in UpdateMsg : ~m.isRefreshOnly}

LEMMA UnchangedPages == TypesInv /\ UNCHANGED pages => SameButMarks
  BY DEF TypesInv, SameButMarks

(* A change of marks only. *)
LEMMA MarkedPages ==
    ASSUME TypesInv, NEW f \in [DOMAIN pages -> Nat],
           pages' = [i \in DOMAIN pages |-> [pages[i] EXCEPT !.mark = f[i]]]
    PROVE  /\ SameButMarks
           /\ \A i \in DOMAIN pages : pages'[i].mark = f[i]
<1>1. ASSUME NEW i \in DOMAIN pages
      PROVE  /\ pages'[i] \in FullPage
             /\ pages'[i].key = pages[i].key
             /\ pages'[i].text = pages[i].text
             /\ pages'[i].modified = pages[i].modified
             /\ pages'[i].bps = pages[i].bps
             /\ pages'[i].mark = f[i]
  <2>1. pages[i] \in FullPage
    BY ElementOfSeq, LenProperties DEF TypesInv
  <2>2. pages'[i] = [pages[i] EXCEPT !.mark = f[i]]
    OBVIOUS
  <2>3. f[i] \in Nat
    OBVIOUS
  <2> QED
    BY ONLY <2>1, <2>2, <2>3, PageFields
<1>2. pages' \in [DOMAIN pages -> FullPage]
  BY <1>1
<1> QED
  BY <1>1, <1>2, RepagedTypes DEF SameButMarks

LEMMA FocusDoes ==
    ASSUME TypesInv, NEW ev \in UpdateMsg, FocusOn(ev)
    PROVE  /\ SameButMarks
           /\ selected' \in DOMAIN pages \cup {0}
           /\ away' \in BOOLEAN
           /\ ev \in Freshes =>
                 /\ \A i \in DOMAIN pages :
                       pages'[i].mark = IF pages[i].key = ev.key THEN ev.line ELSE 0
                 /\ Asked(ev) = IF \E i \in DOMAIN pages : pages[i].key = ev.key
                                THEN <<>> ELSE <<RequestFor(ev)>>
           /\ ev \notin Freshes => /\ UNCHANGED <<pages, away>>
                                   /\ Asked(ev) = <<>>
<1>1. ev.line \in Nat /\ ev.isRefreshOnly \in BOOLEAN
  BY DEF UpdateMsg
<1>2. ev \in Freshes <=> ~ev.isRefreshOnly
  BY DEF Freshes
<1>3. CASE ev \in Freshes
  <2> DEFINE f == [i \in DOMAIN pages |-> IF pages[i].key = ev.key THEN ev.line ELSE 0]
  <2>1. pages' = Focused(ev) /\ away' = FALSE
        /\ selected' = IF PagesOf(ev.key) = {} THEN selected
                       ELSE CHOOSE i \in PagesOf(ev.key) : \A j \in PagesOf(ev.key) : j <= i
    <3>1. ~ev.isRefreshOnly
      BY <1>2, <1>3
    <3>2. pages' = Focused(ev)
      BY <3>1 DEF FocusOn
    <3>3. away' = (away /\ ev.isRefreshOnly)
      BY DEF FocusOn
    <3>4. selected' = IF ev.isRefreshOnly \/ PagesOf(ev.key) = {} THEN selected
                      ELSE CHOOSE i \in PagesOf(ev.key) :
                              \A j \in PagesOf(ev.key) : j <= i
      BY DEF FocusOn
    <3> HIDE DEF PagesOf
    <3>5. (away /\ ev.isRefreshOnly) = FALSE
      BY <3>1
    <3>6. selected' = IF PagesOf(ev.key) = {} THEN selected
                      ELSE CHOOSE i \in PagesOf(ev.key) :
                              \A j \in PagesOf(ev.key) : j <= i
      BY ONLY <3>1, <3>4
    <3>7. away' = FALSE
      BY ONLY <3>3, <3>5
    <3> QED
      BY ONLY <3>2, <3>6, <3>7
  <2>2. f \in [DOMAIN pages -> Nat]
    BY <1>1
  <2>3. pages' = [i \in DOMAIN pages |-> [pages[i] EXCEPT !.mark = f[i]]]
    BY <2>1 DEF Focused
  <2> HIDE DEF f
  <2>4. SameButMarks /\ \A i \in DOMAIN pages : pages'[i].mark = f[i]
    BY <2>2, <2>3, MarkedPages
  <2>5. selected' \in DOMAIN pages \cup {0}
    <3>1. CASE PagesOf(ev.key) = {}
      BY <2>1, <3>1 DEF TypesInv
    <3>2. CASE PagesOf(ev.key) # {}
      <4>1. \E i \in PagesOf(ev.key) : \A j \in PagesOf(ev.key) : j <= i
        BY <3>2, LastPageExists
      <4>2. selected' = CHOOSE i \in PagesOf(ev.key) : \A j \in PagesOf(ev.key) : j <= i
        BY ONLY <2>1, <3>2
      <4>3. selected' \in PagesOf(ev.key)
        BY ONLY <4>1, <4>2
      <4> QED
        BY <4>3 DEF PagesOf
    <3> QED
      BY <3>1, <3>2
  <2>6. Asked(ev) = IF \E i \in DOMAIN pages : pages[i].key = ev.key
                    THEN <<>> ELSE <<RequestFor(ev)>>
    <3>1. ~ev.isRefreshOnly
      BY <1>2, <1>3
    <3>2. PagesOf(ev.key) # {} <=> \E i \in DOMAIN pages : pages[i].key = ev.key
      BY DEF PagesOf
    <3>3. Asked(ev) = IF PagesOf(ev.key) # {} THEN <<>> ELSE <<RequestFor(ev)>>
      BY <3>1 DEF Asked, RequestFor
    <3> QED
      BY ONLY <3>2, <3>3
  <2> QED
    BY <1>3, <2>1, <2>4, <2>5, <2>6 DEF f
<1>4. CASE ev \notin Freshes
  <2>1. ev.isRefreshOnly = TRUE
    BY <1>1, <1>2, <1>4
  <2>2. pages' = pages /\ selected' = selected /\ Asked(ev) = <<>>
        /\ away' = (away /\ TRUE)
    BY <2>1 DEF FocusOn, Asked
  <2>3. away \in BOOLEAN /\ selected \in DOMAIN pages \cup {0}
    BY DEF TypesInv
  <2>4. away' = away
    BY ONLY <2>2, <2>3
  <2> QED
    BY ONLY <1>4, <2>2, <2>3, <2>4, UnchangedPages, TypesInv
<1> QED
  BY <1>3, <1>4

LEMMA OnUpdateSourceDoes ==
    ASSUME TypesInv, OnUpdateSource
    PROVE  /\ s2f # <<>> /\ s2f' = Tail(s2f) /\ Head(s2f) \in UpdateMsg
           /\ FocusOn(Head(s2f))
           /\ Success \in SuccessMsg /\ RequestFor(Head(s2f)) \in RequestMsg
           /\ f2s' = IF linked
                     THEN IF Asked(Head(s2f)) = <<>> THEN Append(f2s, Success)
                          ELSE Append(Append(f2s, RequestFor(Head(s2f))), Success)
                     ELSE f2s
           /\ Asked(Head(s2f)) # <<>> => Asked(Head(s2f)) = <<RequestFor(Head(s2f))>>
<1>0. Processes("UPDATE_SOURCE") /\ FocusOn(Head(s2f))
  BY DEF OnUpdateSource
<1>1. /\ s2f # <<>> /\ s2f' = Tail(s2f) /\ Head(s2f) \in UpdateMsg
      /\ FocusOn(Head(s2f))
  BY <1>0, ProcessesDoes
<1>2. f2s' = IF linked THEN f2s \o (Asked(Head(s2f)) \o <<Success>>) ELSE f2s
  BY DEF OnUpdateSource, ToContext, Success
<1>3. f2s \in Seq(ContextMsg) /\ Success \in SuccessMsg
      /\ RequestFor(Head(s2f)) \in RequestMsg
  BY <1>1, MessageTypes DEF TypesInv
<1>4. Success \in ContextMsg /\ RequestFor(Head(s2f)) \in ContextMsg
  BY <1>3 DEF ContextMsg
<1>5. Asked(Head(s2f)) = <<>> \/ Asked(Head(s2f)) = <<RequestFor(Head(s2f))>>
  BY <1>1, FocusDoes
<1>6. <<RequestFor(Head(s2f))>> # <<>>
  OBVIOUS
<1>7. /\ f2s \o (<<>> \o <<Success>>) = Append(f2s, Success)
      /\ f2s \o (<<RequestFor(Head(s2f))>> \o <<Success>>)
             = Append(Append(f2s, RequestFor(Head(s2f))), Success)
  BY <1>3, <1>4, ConcatAppends
<1> QED
  BY ONLY <1>1, <1>2, <1>3, <1>5, <1>6, <1>7

LEMMA OnPendingEventDoes ==
    ASSUME TypesInv, OnPendingEvent
    PROVE  /\ pending # <<>> /\ pending' = Tail(pending) /\ Head(pending) \in UpdateMsg
           /\ pending' \in Seq(UpdateMsg)
           /\ FocusOn(Head(pending))
           /\ RequestFor(Head(pending)) \in RequestMsg
           /\ \/ UNCHANGED f2s
              \/ linked /\ f2s' = Append(f2s, RequestFor(Head(pending)))
<1>1. pending # <<>> /\ pending' = Tail(pending) /\ pending \in Seq(UpdateMsg)
      /\ FocusOn(Head(pending))
  BY DEF OnPendingEvent, TypesInv
<1>2. Head(pending) \in UpdateMsg /\ pending' \in Seq(UpdateMsg)
  BY <1>1, TailFacts
<1>3. f2s' = IF linked THEN f2s \o Asked(Head(pending)) ELSE f2s
  BY DEF OnPendingEvent, ToContext
<1>4. f2s \in Seq(ContextMsg) /\ RequestFor(Head(pending)) \in RequestMsg
  BY <1>2, MessageTypes DEF TypesInv
<1>5. RequestFor(Head(pending)) \in ContextMsg
  BY <1>4 DEF ContextMsg
<1>6. Asked(Head(pending)) = <<>> \/ Asked(Head(pending)) = <<RequestFor(Head(pending))>>
  BY <1>1, <1>2, FocusDoes
<1>7. /\ f2s \o <<>> = f2s
      /\ f2s \o <<RequestFor(Head(pending))>> = Append(f2s, RequestFor(Head(pending)))
  BY <1>4, <1>5, ConcatAppends
<1> QED
  BY ONLY <1>1, <1>2, <1>3, <1>4, <1>6, <1>7

LEMMA CreatePageDoes ==
    ASSUME TypesInv, TypeOK, NEW k \in Keys, NEW text \in FullText, CreatePage(k, text)
    PROVE  /\ pages' = Append(pages, NewPage(k, text))
           /\ pages' \in Seq(FullPage)
           /\ DOMAIN pages' = 1 .. Len(pages) + 1
           /\ selected' \in DOMAIN pages'
           /\ pages'[Len(pages) + 1] = NewPage(k, text)
           /\ \A i \in DOMAIN pages : i \in DOMAIN pages' /\ pages'[i] = pages[i]
           /\ \A i \in DOMAIN pages' : i \in DOMAIN pages \/ i = Len(pages) + 1
           /\ Len(pages) + 1 \notin DOMAIN pages
           /\ Len(pages) + 1 \in DOMAIN pages'
<1>1. pages' = Append(pages, NewPage(k, text)) /\ selected' = Len(pages) + 1
  BY DEF CreatePage, NewPage
<1>2. NewPage(k, text) \in FullPage /\ pages \in Seq(FullPage)
  BY NewPageFields DEF TypesInv
<1>3. /\ pages' \in Seq(FullPage)
      /\ DOMAIN pages' = 1 .. Len(pages) + 1
      /\ DOMAIN pages = 1 .. Len(pages) /\ Len(pages) \in Nat
      /\ pages'[Len(pages) + 1] = NewPage(k, text)
      /\ \A i \in DOMAIN pages : pages'[i] = pages[i]
      /\ \A i \in DOMAIN pages' : i \in DOMAIN pages \/ i = Len(pages) + 1
      /\ Len(pages) + 1 \notin DOMAIN pages
  BY <1>1, <1>2, AppendFacts
<1>4. Len(pages) + 1 \in 1 .. Len(pages) + 1
      /\ \A i \in 1 .. Len(pages) : i \in 1 .. Len(pages) + 1
  BY <1>3
<1> QED
  BY <1>1, <1>3, <1>4

LEMMA OnValueSourceDoes ==
    ASSUME TypesInv, OnValueSource
    PROVE  /\ s2f # <<>> /\ s2f' = Tail(s2f) /\ Head(s2f) \in ValueMsg
           /\ Head(s2f).key \in Keys /\ Head(s2f).event \in UpdateMsg
           /\ \/ Head(s2f).text = NoText /\ UNCHANGED <<pages, selected, pending>>
              \/ /\ Head(s2f).text \in FullText
                 /\ Head(s2f).text # NoText
                 /\ CreatePage(Head(s2f).key, Head(s2f).text)
                 /\ pending' = Append(pending, Head(s2f).event)
                 /\ pending' \in Seq(UpdateMsg)
<1>0. Processes("VALUE_SOURCE")
  BY DEF OnValueSource
<1>1. s2f # <<>> /\ s2f' = Tail(s2f) /\ Head(s2f) \in ValueMsg
  BY <1>0, ProcessesDoes
<1>2. Head(s2f).key \in Keys /\ Head(s2f).event \in UpdateMsg /\ Head(s2f).text \in SomeText
  BY <1>1 DEF ValueMsg
<1>3. Head(s2f).text = NoText \/ Head(s2f).text \in FullText
  BY <1>2 DEF SomeText
<1>4. pending \in Seq(UpdateMsg)
  BY DEF TypesInv
<1>5. Append(pending, Head(s2f).event) \in Seq(UpdateMsg)
  BY <1>2, <1>4, AppendProperties
<1>6. IF Head(s2f).text = NoText THEN UNCHANGED <<pages, selected, pending>>
      ELSE /\ CreatePage(Head(s2f).key, Head(s2f).text)
           /\ pending' = Append(pending, Head(s2f).event)
  BY DEF OnValueSource
<1> QED
  BY ONLY <1>1, <1>2, <1>3, <1>5, <1>6

LEMMA OnAddedSourceDoes ==
    ASSUME TypesInv, OnAddedSource
    PROVE  /\ s2f # <<>> /\ s2f' = Tail(s2f) /\ Head(s2f) \in AddedMsg
           /\ Head(s2f).key \in Keys /\ Head(s2f).text \in FullText
           /\ CreatePage(Head(s2f).key, Head(s2f).text)
<1>0. Processes("ADDED_SOURCE")
  BY DEF OnAddedSource
<1>1. s2f # <<>> /\ s2f' = Tail(s2f) /\ Head(s2f) \in AddedMsg
  BY <1>0, ProcessesDoes
<1>2. Head(s2f).key \in Keys /\ Head(s2f).text \in FullText
  BY <1>1 DEF AddedMsg
<1> QED
  BY <1>1, <1>2 DEF OnAddedSource

(* The pages stay, and of each what is marked on it.                         *)
SameButTexts ==
    /\ pages' \in Seq(FullPage)
    /\ DOMAIN pages' = DOMAIN pages
    /\ \A i \in DOMAIN pages :
          /\ pages'[i].key = pages[i].key
          /\ pages'[i].mark = pages[i].mark
          /\ pages'[i].bps = pages[i].bps

LEMMA OnChangedStateDoes ==
    ASSUME TypesInv, OnChangedState
    PROVE  /\ s2f # <<>> /\ s2f' = Tail(s2f) /\ Head(s2f) \in StateMsg
           /\ isBreak' = Head(s2f).isBreak /\ isBreak' \in BOOLEAN
           /\ SameButMarks
           /\ \A i \in DOMAIN pages :
                 pages'[i].mark = IF i = selected /\ ~isBreak' THEN 0
                                  ELSE pages[i].mark
           /\ away' \in BOOLEAN
           /\ away => away'
           /\ ~isBreak' /\ ~away' =>
                 \A i \in DOMAIN pages : i # selected => pages[i].mark = 0
<1>0. Processes("CHANGED_STATE") /\ isBreak' = Head(s2f).isBreak
  BY DEF OnChangedState
<1>1. s2f # <<>> /\ s2f' = Tail(s2f) /\ Head(s2f) \in StateMsg
  BY <1>0, ProcessesDoes
<1>2. isBreak' \in BOOLEAN
  BY <1>0, <1>1 DEF StateMsg
<1> DEFINE f == [i \in DOMAIN pages |-> IF i = selected /\ ~isBreak' THEN 0 ELSE pages[i].mark]
<1>3. ASSUME NEW i \in DOMAIN pages
      PROVE  /\ pages[i] \in FullPage
             /\ pages[i].mark \in Nat
             /\ pages[i] = [pages[i] EXCEPT !.mark = pages[i].mark]
  <2>1. pages[i] \in FullPage
    BY ElementOfSeq, LenProperties DEF TypesInv
  <2> QED
    BY <2>1 DEF FullPage
<1>4. f \in [DOMAIN pages -> Nat]
  BY <1>3
<1>5. pages' = [i \in DOMAIN pages |-> IF i = selected /\ ~isBreak' THEN Cleared(i) ELSE pages[i]]
  BY DEF OnChangedState
<1>6. ASSUME NEW i \in DOMAIN pages
      PROVE  (IF i = selected /\ ~isBreak' THEN Cleared(i) ELSE pages[i])
             = [pages[i] EXCEPT !.mark = f[i]]
  <2>1. f[i] = IF i = selected /\ ~isBreak' THEN 0 ELSE pages[i].mark
    OBVIOUS
  <2>2. Cleared(i) = [pages[i] EXCEPT !.mark = 0]
    BY DEF Cleared
  <2> HIDE DEF f
  <2>3. CASE i = selected /\ ~isBreak'
    <3>1. f[i] = 0
      BY ONLY <2>1, <2>3
    <3> QED
      BY ONLY <2>2, <2>3, <3>1
  <2>4. CASE ~(i = selected /\ ~isBreak')
    <3>1. f[i] = pages[i].mark
      BY ONLY <2>1, <2>4
    <3>2. pages[i] = [pages[i] EXCEPT !.mark = pages[i].mark]
      BY <1>3
    <3> QED
      BY ONLY <2>4, <3>1, <3>2
  <2> QED
    BY <2>3, <2>4
<1>7. pages' = [i \in DOMAIN pages |-> [pages[i] EXCEPT !.mark = f[i]]]
  <2> HIDE DEF f
  <2> QED
    BY ONLY <1>5, <1>6
<1>8. /\ SameButMarks
      /\ \A i \in DOMAIN pages : pages'[i].mark = f[i]
  <2> HIDE DEF f
  <2> QED
    BY <1>4, <1>7, MarkedPages
<1>9. away' \in BOOLEAN /\ (away => away')
      /\ (~isBreak' /\ ~away' =>
             \A i \in DOMAIN pages : i # selected => pages[i].mark = 0)
  <2>1. away' = (away \/ (~isBreak' /\ \E i \in DOMAIN pages :
                                          i # selected /\ pages[i].mark > 0))
    BY DEF OnChangedState
  <2>2. \A n \in Nat : ~(n > 0) => n = 0
    OBVIOUS
  <2>3. \A i \in DOMAIN pages : pages[i].mark \in Nat
    BY <1>3
  <2>4. away' \in BOOLEAN
    BY ONLY <2>1
  <2>5. away => away'
    BY ONLY <2>1
  <2>6. ~isBreak' /\ ~away' =>
             \A i \in DOMAIN pages : i # selected => pages[i].mark = 0
    BY ONLY <2>1, <2>2, <2>3
  <2> QED
    BY ONLY <2>4, <2>5, <2>6
<1> QED
  BY <1>0, <1>1, <1>2, <1>8, <1>9

LEMMA OnBreakpointsDoes ==
    ASSUME TypesInv, TypeOK', OnBreakpoints
    PROVE  /\ pages' \in Seq(FullPage)
           /\ DOMAIN pages' = DOMAIN pages
           /\ \A i \in DOMAIN pages :
                 /\ pages'[i].key = pages[i].key
                 /\ pages'[i].text = pages[i].text
                 /\ pages'[i].modified = pages[i].modified
                 /\ pages'[i].mark = pages[i].mark
                 /\ pages'[i].bps = Marks(frameBps', pages[i].key)
<1>1. ASSUME NEW i \in DOMAIN pages
      PROVE  /\ pages'[i] \in FullPage
             /\ pages'[i].key = pages[i].key
             /\ pages'[i].text = pages[i].text
             /\ pages'[i].modified = pages[i].modified
             /\ pages'[i].mark = pages[i].mark
             /\ pages'[i].bps = Marks(frameBps', pages[i].key)
  <2>1. pages[i] \in FullPage
    BY ElementOfSeq, LenProperties DEF TypesInv
  <2>2. pages'[i] = [pages[i] EXCEPT !.bps = Marks(frameBps', pages[i].key)]
    BY DEF OnBreakpoints
  <2>3. Marks(frameBps', pages[i].key) \in SUBSET Breakpoints
    BY DEF TypeOK, Marks
  <2> QED
    BY ONLY <2>1, <2>2, <2>3, PageFields
<1>2. pages' = [i \in DOMAIN pages |-> pages'[i]]
  BY DEF OnBreakpoints
<1>3. pages' \in [DOMAIN pages -> FullPage]
  BY ONLY <1>1, <1>2
<1> QED
  BY <1>1, <1>3, RepagedTypes

LEMMA EditDoes ==
    ASSUME TypesInv, Edit
    PROVE  /\ linked /\ selected \in DOMAIN pages
           /\ SameButTexts
           /\ pages'[selected].modified
           /\ \A i \in DOMAIN pages : i # selected => pages'[i] = pages[i]
           /\ acts' \in 0 .. MaxActs
<1>1. selected \in DOMAIN pages
  BY LenProperties DEF Edit, TypesInv
<1>2. PICK n \in {0, 1} :
         pages' = [pages EXCEPT ![selected].modified = TRUE,
                        ![selected].text = [version |-> acts + 2, newlines |-> n]]
  BY DEF Edit
<1>3. acts \in Nat /\ MaxActs \in Nat /\ acts < MaxActs /\ acts' = acts + 1 /\ linked
  BY PagesAssumption DEF Edit, Acts, TypesInv
<1> DEFINE t == [version |-> acts + 2, newlines |-> n]
           p == pages[selected]
           q == [p EXCEPT !.modified = TRUE]
           r == [q EXCEPT !.text = t]
<1>4. t \in FullText
  <2>1. acts + 2 \in Nat \ {0} /\ n \in Nat
    BY <1>3
  <2> QED
    BY ONLY <2>1 DEF FullText
<1>5. \A i \in DOMAIN pages : pages[i] \in FullPage
  BY ElementOfSeq, LenProperties DEF TypesInv
<1>6. pages \in [DOMAIN pages -> FullPage]
  BY <1>5, LenProperties DEF TypesInv
<1>7. pages' = [pages EXCEPT ![selected] = r]
  BY <1>1, <1>2, <1>6
<1>8. /\ q \in FullPage /\ q.modified
      /\ q.key = p.key /\ q.mark = p.mark /\ q.bps = p.bps
  <2>1. p \in FullPage
    BY <1>1, <1>5
  <2> HIDE DEF p
  <2>2. q.modified <=> TRUE
    BY ONLY <2>1, PageFields
  <2>3. /\ q \in FullPage
        /\ q.key = p.key /\ q.mark = p.mark /\ q.bps = p.bps
    BY ONLY <2>1, PageFields
  <2> QED
    BY ONLY <2>2, <2>3
<1>9. /\ r \in FullPage /\ r.modified
      /\ r.key = p.key /\ r.mark = p.mark /\ r.bps = p.bps
  <2> HIDE DEF q, p, t
  <2>1. /\ r \in FullPage /\ r.modified = q.modified
        /\ r.key = q.key /\ r.mark = q.mark /\ r.bps = q.bps
    <3>1. q \in FullPage /\ t \in FullText
      BY ONLY <1>4, <1>8
    <3> QED
      BY ONLY <3>1, PageFields
  <2> HIDE DEF r
  <2> QED
    BY ONLY <1>8, <2>1
<1> HIDE DEF q, r, t
<1>10. pages' \in [DOMAIN pages -> FullPage] /\ pages'[selected] = r
       /\ \A i \in DOMAIN pages : i # selected => pages'[i] = pages[i]
  BY ONLY <1>1, <1>6, <1>7, <1>9
<1>11. pages' \in Seq(FullPage) /\ DOMAIN pages' = DOMAIN pages
  BY <1>10, RepagedTypes
<1>12. ASSUME NEW i \in DOMAIN pages
       PROVE  /\ pages'[i].key = pages[i].key
              /\ pages'[i].mark = pages[i].mark
              /\ pages'[i].bps = pages[i].bps
  <2>1. CASE i = selected
    BY ONLY <1>9, <1>10, <2>1 DEF p
  <2>2. CASE i # selected
    BY ONLY <1>10, <1>12, <2>2
  <2> QED
    BY <2>1, <2>2
<1>13. acts' \in 0 .. MaxActs
  BY ONLY <1>3
<1>14. pages'[selected].modified
  BY ONLY <1>9, <1>10
<1> QED
  BY ONLY <1>1, <1>3, <1>10, <1>11, <1>12, <1>13, <1>14 DEF SameButTexts

LEMMA SaveSourceDoes ==
    ASSUME TypesInv, SaveSource
    PROVE  /\ linked /\ selected \in DOMAIN pages
           /\ SameButTexts
           /\ \A i \in DOMAIN pages : pages'[i].text = pages[i].text
           /\ \A i \in DOMAIN pages : i # selected => pages'[i] = pages[i]
           /\ acts' \in 0 .. MaxActs
           /\ SaveOf(pages[selected]) \in SaveMsg
           /\ f2s' = Append(f2s, SaveOf(pages[selected]))
<1>1. selected \in DOMAIN pages
  BY LenProperties DEF SaveSource, TypesInv
<1>2. /\ pages' = [pages EXCEPT ![selected].modified = FALSE]
      /\ f2s' = f2s \o <<SaveOf(pages[selected])>>
  BY DEF SaveSource, SaveOf, ToContext, Acts
<1>3. acts \in Nat /\ MaxActs \in Nat /\ acts < MaxActs /\ acts' = acts + 1 /\ linked
  BY PagesAssumption DEF SaveSource, Acts, TypesInv
<1> DEFINE p == pages[selected]
           q == [p EXCEPT !.modified = FALSE]
<1>5. \A i \in DOMAIN pages : pages[i] \in FullPage
  BY ElementOfSeq, LenProperties DEF TypesInv
<1>6. pages \in [DOMAIN pages -> FullPage]
  BY <1>5, LenProperties DEF TypesInv
<1>7. pages' = [pages EXCEPT ![selected] = q]
  BY <1>1, <1>2, <1>6
<1>8. /\ q \in FullPage
      /\ q.key = p.key /\ q.mark = p.mark /\ q.bps = p.bps /\ q.text = p.text
  <2>1. p \in FullPage
    BY <1>1, <1>5
  <2> HIDE DEF p
  <2> QED
    BY ONLY <2>1, PageFields
<1> HIDE DEF q
<1>10. pages' \in [DOMAIN pages -> FullPage] /\ pages'[selected] = q
       /\ \A i \in DOMAIN pages : i # selected => pages'[i] = pages[i]
  BY ONLY <1>1, <1>6, <1>7, <1>8
<1>11. pages' \in Seq(FullPage) /\ DOMAIN pages' = DOMAIN pages
  BY <1>10, RepagedTypes
<1>12. ASSUME NEW i \in DOMAIN pages
       PROVE  /\ pages'[i].key = pages[i].key
              /\ pages'[i].mark = pages[i].mark
              /\ pages'[i].bps = pages[i].bps
              /\ pages'[i].text = pages[i].text
  <2>1. CASE i = selected
    BY ONLY <1>8, <1>10, <2>1 DEF p
  <2>2. CASE i # selected
    BY ONLY <1>10, <1>12, <2>2
  <2> QED
    BY <2>1, <2>2
<1>13. acts' \in 0 .. MaxActs
  BY ONLY <1>3
<1>14. f2s \in Seq(ContextMsg) /\ SaveOf(pages[selected]) \in SaveMsg
  BY <1>1, <1>5, MessageTypes DEF TypesInv
<1>15. f2s' = Append(f2s, SaveOf(pages[selected]))
  <2>1. SaveOf(pages[selected]) \in ContextMsg
    BY <1>14 DEF ContextMsg
  <2> QED
    BY ONLY <1>2, <1>14, <2>1, ConcatAppends
<1> QED
  BY ONLY <1>1, <1>3, <1>10, <1>11, <1>12, <1>13, <1>14, <1>15 DEF SameButTexts

LEMMA SendsDoes ==
    ASSUME TypesInv, NEW type \in {"RESUME", "FORCE_UPDATESOURCE"}, Sends(type)
    PROVE  /\ linked /\ acts' \in 0 .. MaxActs
           /\ [type |-> type] \in PlainMsg
           /\ f2s' = Append(f2s, [type |-> type])
<1>1. acts \in Nat /\ MaxActs \in Nat /\ acts < MaxActs /\ acts' = acts + 1 /\ linked
  BY PagesAssumption DEF Sends, Acts, TypesInv
<1>2. f2s \in Seq(ContextMsg) /\ [type |-> type] \in PlainMsg
  BY DEF TypesInv, PlainMsg
<1>3. [type |-> type] \in ContextMsg
  BY <1>2 DEF ContextMsg
<1>4. f2s' = f2s \o <<[type |-> type]>>
  BY <1>1 DEF Sends, ToContext
<1>5. f2s' = Append(f2s, [type |-> type])
  BY ONLY <1>2, <1>3, <1>4, ConcatAppends
<1> QED
  BY <1>1, <1>2, <1>5

EndOfQueue == [type |-> "END_CONNECTION"]

LEMMA LoseDoes ==
    ASSUME TypesInv, Lose
    PROVE  /\ linked /\ ~linked' /\ stopped' = FALSE
           /\ EndOfQueue \in EndMsg
           /\ \E n \in 0 .. Len(f2s) : f2s' = SubSeq(f2s, 1, n)
           /\ \E n \in 0 .. Len(s2f) : s2f' = Append(SubSeq(s2f, 1, n), EndOfQueue)
<1>1. EndOfQueue \in EndMsg
  BY DEF EndOfQueue, EndMsg
<1> QED
  BY <1>1 DEF Lose, Disconnect, EndOfQueue

-----------------------------------------------------------------------------
(* Type correctness but for wait and the lines, which other parts bound *)

LEMMA QueueTypes ==
    ASSUME TypesInv
    PROVE  /\ \A m \in FrameMsg : Append(s2f, m) \in Seq(FrameMsg)
           /\ \A m, n \in FrameMsg : Append(Append(s2f, m), n) \in Seq(FrameMsg)
           /\ s2f # <<>> => Tail(s2f) \in Seq(FrameMsg)
           /\ \A m \in ContextMsg : Append(f2s, m) \in Seq(ContextMsg)
           /\ \A m, n \in ContextMsg : Append(Append(f2s, m), n) \in Seq(ContextMsg)
           /\ f2s # <<>> => Tail(f2s) \in Seq(ContextMsg)
           /\ UpdateMsg \cup StateMsg \cup AddedMsg \cup ValueMsg \cup EndMsg
                  \subseteq FrameMsg
           /\ PlainMsg \cup SuccessMsg \cup RequestMsg \cup SaveMsg \subseteq ContextMsg
<1>1. s2f \in Seq(FrameMsg) /\ f2s \in Seq(ContextMsg)
  BY DEF TypesInv
<1>2. /\ \A m \in FrameMsg : Append(s2f, m) \in Seq(FrameMsg)
      /\ \A m \in ContextMsg : Append(f2s, m) \in Seq(ContextMsg)
  BY ONLY <1>1, AppendProperties
<1>3. /\ s2f # <<>> => Tail(s2f) \in Seq(FrameMsg)
      /\ f2s # <<>> => Tail(f2s) \in Seq(ContextMsg)
  BY ONLY <1>1, TailFacts
<1>4. ASSUME NEW m \in FrameMsg, NEW n \in FrameMsg
      PROVE  Append(Append(s2f, m), n) \in Seq(FrameMsg)
  BY ONLY <1>2, AppendProperties, m \in FrameMsg, n \in FrameMsg
<1>5. ASSUME NEW m \in ContextMsg, NEW n \in ContextMsg
      PROVE  Append(Append(f2s, m), n) \in Seq(ContextMsg)
  BY ONLY <1>2, AppendProperties, m \in ContextMsg, n \in ContextMsg
<1>6. /\ UpdateMsg \cup StateMsg \cup AddedMsg \cup ValueMsg \cup EndMsg
             \subseteq FrameMsg
      /\ PlainMsg \cup SuccessMsg \cup RequestMsg \cup SaveMsg \subseteq ContextMsg
  BY DEF FrameMsg, ContextMsg
<1> QED
  BY ONLY <1>2, <1>3, <1>4, <1>5, <1>6

LEMMA PagesKeepTypes ==
    TypesInv /\ TypeOK /\ TypeOK' /\ [PagesNext]_allVars => TypesInv'
<1> SUFFICES ASSUME TypesInv, TypeOK, TypeOK', [PagesNext]_allVars PROVE TypesInv'
  OBVIOUS
<1> USE DEF program, view, history
<1>1. CASE UNCHANGED allVars
  BY <1>1 DEF allVars, pageVars, TypesInv
<1>2. ASSUME NEW k \in Keys, LoadFile(k) PROVE TypesInv'
  <2>1. sources' \in [Keys -> SomeText] /\ s2f' \in Seq(FrameMsg)
    <3>1. CASE UNCHANGED <<sources, s2f>>
      BY <3>1 DEF TypesInv
    <3>2. CASE /\ sources' = [sources EXCEPT ![k] = file[k]]
               /\ FileAdded(k) \in AddedMsg
               /\ s2f' = Append(s2f, FileAdded(k))
      BY <3>2, QueueTypes DEF TypesInv, SomeText
    <3> QED
      BY <1>2, <3>1, <3>2, LoadFileDoes
  <2>2. UNCHANGED <<stop, stopped, prevBreak, isMustUpdate, wait, file, f2s, view, acts, history>>
    BY <1>2, LoadFileDoes
  <2> QED
    BY <2>1, <2>2 DEF TypesInv
<1>3. CASE HookLine
  <2>1. /\ stop' \in [n : 0 .. MaxStops, key : Keys]
        /\ stopped' = TRUE /\ prevBreak' = FALSE
        /\ s2f' \in Seq(FrameMsg)
    BY <1>3, HookLineDoes, QueueTypes
  <2> QED
    BY <1>3, <2>1 DEF TypesInv, HookLine
<1>4. CASE SendUpdateSource
  <2>1. sources' \in [Keys -> SomeText] /\ s2f' \in Seq(FrameMsg) /\ recovered' \in BOOLEAN
    <3>1. CASE /\ UNCHANGED <<sources, recovered>>
               /\ s2f' = Append(s2f, StopUpdate)
      BY <1>4, <3>1, SendUpdateSourceDoes, QueueTypes DEF TypesInv
    <3>2. CASE /\ sources' = [sources EXCEPT ![stop.key] = file[stop.key]]
               /\ FileAdded(stop.key) \in AddedMsg
               /\ s2f' = Append(Append(s2f, FileAdded(stop.key)), StopUpdate)
      <4>1. stop.key \in Keys
        BY DEF TypesInv
      <4>2. StopUpdate \in UpdateMsg /\ recovered' \in BOOLEAN
        BY <1>4, SendUpdateSourceDoes
      <4>3. s2f' \in Seq(FrameMsg)
        BY <3>2, <4>2, QueueTypes
      <4> QED
        BY <3>2, <4>1, <4>2, <4>3 DEF TypesInv, SomeText
    <3> QED
      BY <1>4, <3>1, <3>2, SendUpdateSourceDoes
  <2> QED
    BY <1>4, <2>1 DEF TypesInv, SendUpdateSource
<1>5. CASE HandleResume
  <2>1. f2s' \in Seq(ContextMsg) /\ s2f' \in Seq(FrameMsg) /\ stopped' \in BOOLEAN
    <3>1. f2s' \in Seq(ContextMsg) /\ stopped' \in BOOLEAN
      BY <1>5, HandleResumeDoes, QueueTypes
    <3>2. s2f' = s2f \/ s2f' = Append(s2f, StateOf(FALSE))
      BY <1>5, HandleResumeDoes
    <3>3. StateOf(FALSE) \in FrameMsg
      BY <1>5, HandleResumeDoes DEF FrameMsg
    <3> QED
      BY <3>1, <3>2, <3>3, QueueTypes DEF TypesInv
  <2> QED
    BY <1>5, <2>1 DEF TypesInv, HandleResume
<1>6. CASE HandleForceUpdateSource
  <2>1. Receives("FORCE_UPDATESOURCE")
    BY <1>6 DEF HandleForceUpdateSource
  <2>2. f2s' \in Seq(ContextMsg)
    BY <2>1, ReceivesDoes, QueueTypes
  <2> QED
    BY <1>6, <2>2 DEF TypesInv, HandleForceUpdateSource
<1>7. CASE HandleSuccessed
  <2>1. Receives("SUCCESSED")
    BY <1>7 DEF HandleSuccessed
  <2>2. f2s' \in Seq(ContextMsg)
    BY <2>1, ReceivesDoes, QueueTypes
  <2> QED
    BY <1>7, <2>2 DEF TypesInv, HandleSuccessed
<1>8. CASE HandleRequestSource
  <2>1. f2s' \in Seq(ContextMsg)
    BY <1>8, HandleRequestSourceDoes, QueueTypes
  <2>2. s2f' = s2f \/ s2f' = Append(s2f, AnswerTo(Head(f2s).event))
    BY <1>8, HandleRequestSourceDoes
  <2>3. AnswerTo(Head(f2s).event) \in FrameMsg
    BY <1>8, HandleRequestSourceDoes DEF FrameMsg
  <2>4. s2f' \in Seq(FrameMsg)
    BY <2>2, <2>3, QueueTypes DEF TypesInv
  <2> QED
    BY <1>8, <2>1, <2>4 DEF TypesInv, HandleRequestSource
<1>9. CASE HandleSaveSource
  <2>1. Receives("SAVE_SOURCE")
    BY <1>9 DEF HandleSaveSource
  <2>2. f2s' \in Seq(ContextMsg) /\ Head(f2s) \in SaveMsg
    BY <2>1, ReceivesDoes, QueueTypes
  <2>3. Head(f2s).key \in Keys /\ Head(f2s).text \in FullText
    BY <2>2 DEF SaveMsg
  <2>4. PICK written \in BOOLEAN :
          /\ file' = IF written /\ sources[Head(f2s).key] # NoText
                     THEN [file EXCEPT ![Head(f2s).key] = Head(f2s).text]
                     ELSE file
          /\ failed' = (failed \/ ~written)
    BY <1>9 DEF HandleSaveSource
  <2>5. file' \in [Keys -> FullText]
    BY <2>3, <2>4 DEF TypesInv
  <2>6. failed' \in BOOLEAN
    BY ONLY <2>4
  <2> QED
    BY <1>9, <2>2, <2>5, <2>6 DEF TypesInv, HandleSaveSource
<1>10. CASE HandleBreakpoint
  BY <1>10 DEF HandleBreakpoint, pageVars, TypesInv
<1>11. CASE OnUpdateSource
  <2>1. s2f' \in Seq(FrameMsg)
    BY <1>11, OnUpdateSourceDoes, QueueTypes
  <2>2. pages' \in Seq(FullPage) /\ selected' \in DOMAIN pages' \cup {0} /\ away' \in BOOLEAN
    BY <1>11, OnUpdateSourceDoes, FocusDoes DEF SameButMarks
  <2>3. Success \in ContextMsg /\ RequestFor(Head(s2f)) \in ContextMsg
    BY <1>11, OnUpdateSourceDoes DEF ContextMsg
  <2>4. f2s' = f2s \/ f2s' = Append(f2s, Success)
        \/ f2s' = Append(Append(f2s, RequestFor(Head(s2f))), Success)
    BY <1>11, OnUpdateSourceDoes
  <2>5. f2s' \in Seq(ContextMsg)
    BY <2>3, <2>4, QueueTypes DEF TypesInv
  <2> QED
    BY <1>11, <2>1, <2>2, <2>5 DEF TypesInv, OnUpdateSource
<1>12. CASE OnPendingEvent
  <2>1. pending' \in Seq(UpdateMsg)
    BY <1>12, OnPendingEventDoes
  <2>2. pages' \in Seq(FullPage) /\ selected' \in DOMAIN pages' \cup {0} /\ away' \in BOOLEAN
    BY <1>12, OnPendingEventDoes, FocusDoes DEF SameButMarks
  <2>3. RequestFor(Head(pending)) \in ContextMsg
    BY <1>12, OnPendingEventDoes DEF ContextMsg
  <2>4. f2s' = f2s \/ f2s' = Append(f2s, RequestFor(Head(pending)))
    BY <1>12, OnPendingEventDoes
  <2>5. f2s' \in Seq(ContextMsg)
    BY <2>3, <2>4, QueueTypes DEF TypesInv
  <2> QED
    BY <1>12, <2>1, <2>2, <2>5 DEF TypesInv, OnPendingEvent
<1>13. CASE OnValueSource
  <2>1. s2f' \in Seq(FrameMsg)
    BY <1>13, OnValueSourceDoes, QueueTypes
  <2>2. /\ pages' \in Seq(FullPage) /\ selected' \in DOMAIN pages' \cup {0}
        /\ pending' \in Seq(UpdateMsg)
    <3>1. CASE UNCHANGED <<pages, selected, pending>>
      BY <3>1 DEF TypesInv
    <3>2. CASE /\ Head(s2f).text \in FullText
               /\ CreatePage(Head(s2f).key, Head(s2f).text)
               /\ pending' \in Seq(UpdateMsg)
      <4>1. Head(s2f).key \in Keys
        BY <1>13, OnValueSourceDoes
      <4> QED
        BY <3>2, <4>1, CreatePageDoes
    <3> QED
      BY <1>13, <3>1, <3>2, OnValueSourceDoes
  <2> QED
    BY <1>13, <2>1, <2>2 DEF TypesInv, OnValueSource
<1>14. CASE OnAddedSource
  <2>1. s2f' \in Seq(FrameMsg)
    BY <1>14, OnAddedSourceDoes, QueueTypes
  <2>2. pages' \in Seq(FullPage) /\ selected' \in DOMAIN pages' \cup {0}
    BY <1>14, OnAddedSourceDoes, CreatePageDoes
  <2> QED
    BY <1>14, <2>1, <2>2 DEF TypesInv, OnAddedSource
<1>15. CASE OnChangedState
  <2>1. s2f' \in Seq(FrameMsg) /\ isBreak' \in BOOLEAN /\ away' \in BOOLEAN
        /\ pages' \in Seq(FullPage) /\ DOMAIN pages' = DOMAIN pages
    BY <1>15, OnChangedStateDoes, QueueTypes DEF SameButMarks
  <2> QED
    BY <1>15, <2>1 DEF TypesInv, OnChangedState
<1>16. CASE OnEndDebug
  <2>1. Processes("END_CONNECTION")
    BY <1>16 DEF OnEndDebug
  <2>2. s2f' \in Seq(FrameMsg)
    BY <2>1, ProcessesDoes, QueueTypes
  <2>3. pages' \in Seq(FullPage) /\ selected' \in DOMAIN pages' \cup {0}
    BY <1>16 DEF OnEndDebug
  <2> QED
    BY <1>16, <2>2, <2>3 DEF TypesInv, OnEndDebug
<1>17. CASE OnBreakpoints
  <2>1. pages' \in Seq(FullPage) /\ DOMAIN pages' = DOMAIN pages
    BY <1>17, OnBreakpointsDoes
  <2> QED
    BY <1>17, <2>1 DEF TypesInv, OnBreakpoints
<1>18. acts < MaxActs /\ acts' = acts + 1 => acts' \in 0 .. MaxActs
  BY PagesAssumption DEF TypesInv
<1>19. ASSUME NEW bp \in Breakpoints, Click(bp) PROVE TypesInv'
  BY <1>18, <1>19 DEF Click, Acts, TypesInv
<1>20. ASSUME NEW i \in DOMAIN pages, Select(i) PROVE TypesInv'
  BY <1>18, <1>20 DEF Select, Acts, TypesInv
<1>21. CASE Edit
  <2>1. pages' \in Seq(FullPage) /\ DOMAIN pages' = DOMAIN pages /\ acts' \in 0 .. MaxActs
    BY <1>21, EditDoes DEF SameButTexts
  <2> QED
    BY <1>21, <2>1 DEF TypesInv, Edit
<1>22. CASE SaveSource
  <2>1. pages' \in Seq(FullPage) /\ DOMAIN pages' = DOMAIN pages /\ acts' \in 0 .. MaxActs
    BY <1>22, SaveSourceDoes DEF SameButTexts
  <2>2. f2s' \in Seq(ContextMsg)
    BY <1>22, SaveSourceDoes, QueueTypes
  <2> QED
    BY <1>22, <2>1, <2>2 DEF TypesInv, SaveSource
<1>23. ASSUME NEW type \in {"RESUME", "FORCE_UPDATESOURCE"}, Sends(type) PROVE TypesInv'
  <2>1. f2s' \in Seq(ContextMsg) /\ acts' \in 0 .. MaxActs
    BY <1>23, SendsDoes, QueueTypes
  <2> QED
    BY <1>23, <2>1 DEF TypesInv, Sends
<1>24. CASE Lose
  <2>1. f2s' \in Seq(ContextMsg)
    <3>1. PICK n \in 0 .. Len(f2s) : f2s' = SubSeq(f2s, 1, n)
      BY <1>24, LoseDoes
    <3>2. f2s \in Seq(ContextMsg)
      BY DEF TypesInv
    <3> QED
      BY <3>1, <3>2, PrefixFacts
  <2>2. s2f' \in Seq(FrameMsg)
    <3>1. EndOfQueue \in FrameMsg
      BY <1>24, LoseDoes DEF FrameMsg
    <3>2. PICK n \in 0 .. Len(s2f) : s2f' = Append(SubSeq(s2f, 1, n), EndOfQueue)
      BY <1>24, LoseDoes
    <3>3. SubSeq(s2f, 1, n) \in Seq(FrameMsg)
      BY PrefixFacts DEF TypesInv
    <3> QED
      BY <3>1, <3>2, <3>3, AppendProperties
  <2>3. stopped' \in BOOLEAN
    BY <1>24, LoseDoes
  <2> QED
    BY <1>24, <2>1, <2>2, <2>3 DEF TypesInv, Lose
<1> QED
  BY <1>1, <1>2, <1>3, <1>4, <1>5, <1>6, <1>7, <1>8, <1>9, <1>10, <1>11, <1>12,
     <1>13, <1>14, <1>15, <1>16, <1>17, <1>19, <1>20, <1>21, <1>22, <1>23, <1>24
  DEF PagesNext, ContextStep, FrameStep, UserStep

LEMMA InitHasTypes == PagesInit => TypesInv
<1> SUFFICES ASSUME PagesInit PROVE TypesInv
  OBVIOUS
<1>1. stop \in [n : 0 .. MaxStops, key : Keys]
  <2>1. stop = [n |-> 0, key |-> CHOOSE k \in Keys : TRUE]
    BY DEF PagesInit
  <2>2. (CHOOSE k \in Keys : TRUE) \in Keys
    BY PagesAssumption
  <2>3. 0 \in 0 .. MaxStops
    BY PagesAssumption
  <2> QED
    BY <2>1, <2>2, <2>3
<1>2. sources \in [Keys -> SomeText]
  BY DEF PagesInit, SomeText
<1>3. file \in [Keys -> FullText]
  <2>1. file = [k \in Keys |-> [version |-> 1, newlines |-> Newlines[k]]]
    BY DEF PagesInit
  <2>2. \A k \in Keys : Newlines[k] \in Nat
    BY PagesAssumption
  <2> QED
    BY <2>1, <2>2 DEF FullText
<1>4. /\ s2f \in Seq(FrameMsg) /\ f2s \in Seq(ContextMsg)
      /\ pages \in Seq(FullPage) /\ pending \in Seq(UpdateMsg)
  BY DEF PagesInit
<1>5. acts \in 0 .. MaxActs
  BY PagesAssumption DEF PagesInit
<1> QED
  BY <1>1, <1>2, <1>3, <1>4, <1>5 DEF PagesInit, TypesInv

LEMMA TypesAlways == PagesSpec => [](TypesInv /\ TypeOK)
<1>1. PagesSpec => []TypeOK
  BY PagesImplementSync, BreakpointsTypeCorrect, PTL
<1>2. TypesInv /\ TypeOK /\ TypeOK' /\ [PagesNext]_allVars => TypesInv'
  BY PagesKeepTypes
<1> QED
  BY <1>1, <1>2, InitHasTypes, PTL DEF PagesSpec

-----------------------------------------------------------------------------
(* The breakpoints marked on the pages *)

(* As long as no answer is on its way and none will come, each page marks    *)
(* the breakpoints that the frame has of its source.                         *)
MarksInv ==
    linked /\ NothingUnanswered =>
        \A i \in DOMAIN pages : pages[i].bps = Marks(frameBps, pages[i].key)

(* A lost connection stays lost.                                             *)
LEMMA NeverRelinked == [PagesNext]_allVars /\ linked' => linked
<1> SUFFICES ASSUME [PagesNext]_allVars, linked' PROVE linked
  OBVIOUS
<1>1. [Next]_vars
  BY PagesStepIsSyncStep
<1> QED
  BY <1>1 DEF Next, vars, Toggle, HandleChange, LoadConfig,
              OnChangedBreakpointList, Disconnect

LEMMA PagesKeepMarks ==
    TypesInv /\ SyncInv /\ SyncInv' /\ MarksInv /\ [PagesNext]_allVars => MarksInv'
<1> SUFFICES ASSUME TypesInv, SyncInv, SyncInv', MarksInv, [PagesNext]_allVars,
                    linked', NothingUnanswered', NEW i \in DOMAIN pages'
             PROVE  pages'[i].bps = Marks(frameBps', pages'[i].key)
  BY DEF MarksInv
<1> USE DEF program, view, history
<1>1. TypeOK /\ TypeOK'
  BY DEF SyncInv
<1>2. linked
  BY NeverRelinked
<1>3. CASE UNCHANGED vars
  <2>1. NothingUnanswered /\ UNCHANGED frameBps
    BY <1>3 DEF vars, NothingUnanswered, IsSent
  <2>2. \A j \in DOMAIN pages : pages[j].bps = Marks(frameBps, pages[j].key)
    BY <1>2, <2>1 DEF MarksInv
  <2>3. CASE UNCHANGED pages
    BY <2>1, <2>2, <2>3
  <2>4. CASE SameButMarks \/ SameButTexts
    BY <2>1, <2>2, <2>4 DEF SameButMarks, SameButTexts
  <2>5. ASSUME NEW k \in Keys, NEW text \in FullText, CreatePage(k, text)
        PROVE  pages'[i].bps = Marks(frameBps', pages'[i].key)
    <3>1. i \in DOMAIN pages \/ i = Len(pages) + 1
      BY <1>1, <2>5, CreatePageDoes
    <3>2. CASE i \in DOMAIN pages
      <4>1. pages'[i] = pages[i]
        BY <1>1, <2>5, <3>2, CreatePageDoes
      <4> QED
        BY <2>1, <2>2, <3>2, <4>1
    <3>3. CASE i = Len(pages) + 1
      <4>1. pages'[i] = NewPage(k, text)
        BY <1>1, <2>5, <3>3, CreatePageDoes
      <4>2. NewPage(k, text).key = k /\ NewPage(k, text).bps = Marks(frameBps, k)
        BY <1>1, NewPageFields
      <4> QED
        BY <2>1, <4>1, <4>2
    <3> QED
      BY <3>1, <3>2, <3>3
  <2>6. ASSUME NEW k \in Keys, LoadFile(k) PROVE UNCHANGED pages
    BY <2>6, LoadFileDoes
  <2>7. CASE HookLine \/ SendUpdateSource \/ HandleResume \/ HandleForceUpdateSource
             \/ HandleSuccessed \/ HandleRequestSource \/ HandleSaveSource
             \/ HandleBreakpoint \/ UNCHANGED allVars
    BY <2>3, <2>7
    DEF HookLine, SendUpdateSource, HandleResume, HandleForceUpdateSource,
        HandleSuccessed, HandleRequestSource, HandleSaveSource, HandleBreakpoint,
        pageVars, allVars
  <2>8. CASE OnUpdateSource
    BY <2>4, <2>8, OnUpdateSourceDoes, FocusDoes
  <2>9. CASE OnPendingEvent
    BY <2>4, <2>9, OnPendingEventDoes, FocusDoes
  <2>10. CASE OnValueSource
    BY <2>3, <2>5, <2>10, OnValueSourceDoes
  <2>11. CASE OnAddedSource
    BY <2>5, <2>11, OnAddedSourceDoes
  <2>12. CASE OnChangedState
    BY <2>4, <2>12, OnChangedStateDoes
  <2>13. CASE OnEndDebug
    <3>1. pages' = <<>>
      BY <2>13 DEF OnEndDebug
    <3> QED
      BY <3>1, EmptySeq
  <2>14. CASE Edit \/ SaveSource
    BY <2>4, <2>14, EditDoes, SaveSourceDoes
  <2>15. CASE (\E j \in DOMAIN pages : Select(j))
              \/ (\E type \in {"RESUME", "FORCE_UPDATESOURCE"} : Sends(type))
    BY <2>3, <2>15 DEF Select, Sends
  <2>16. ASSUME NEW bp \in Breakpoints, Click(bp) PROVE UNCHANGED pages
    BY <2>16 DEF Click
  <2>17. CASE OnBreakpoints
    BY <1>1, <2>17, OnBreakpointsDoes
  <2>18. CASE Lose
    BY <2>3, <2>18 DEF Lose
  <2> QED
    BY <2>3, <2>6, <2>7, <2>8, <2>9, <2>10, <2>11, <2>12, <2>13, <2>14, <2>15,
       <2>16, <2>17, <2>18
    DEF PagesNext, ContextStep, FrameStep, UserStep
<1>4. CASE UNCHANGED <<pages, frameBps>> /\ NothingUnanswered
  BY <1>2, <1>4 DEF MarksInv
<1>5. ASSUME NEW k \in Keys, LoadFile(k), ~UNCHANGED vars
      PROVE  UNCHANGED <<pages, frameBps>> /\ NothingUnanswered
  <2>1. LoadConfig /\ UNCHANGED pages
    <3>1. LoadConfig
      BY <1>5 DEF LoadFile
    <3> QED
      BY <1>5, <3>1, LoadFileDoes
  <2>2. CASE UNCHANGED <<ctxBps, c2f>>
    BY <2>1, <2>2 DEF LoadConfig, NothingUnanswered, IsSent
  <2>3. CASE \E bps \in SUBSET Breakpoints : SendChangedBreakpointList(bps)
    <3>1. PICK bps \in SUBSET Breakpoints : c2f' = Append(c2f, bps)
      BY <1>2, <2>3 DEF SendChangedBreakpointList
    <3>2. c2f \in Seq(SUBSET Breakpoints)
      BY <1>1 DEF TypeOK
    <3>3. c2f' # <<>>
      BY <3>1, <3>2, AppendLast
    <3> QED
      BY <3>3 DEF NothingUnanswered
  <2> QED
    BY <2>1, <2>2, <2>3 DEF LoadConfig
<1>6. CASE HandleBreakpoint
  <2>1. UNCHANGED pages /\ HandleChange
    BY <1>6 DEF HandleBreakpoint, pageVars
  <2> QED
    BY <1>1, <1>2, <1>4, <2>1, NoChangeIsAnswered
<1>7. CASE OnBreakpoints
  BY <1>1, <1>7, OnBreakpointsDoes
<1>8. ASSUME NEW bp \in Breakpoints, Click(bp) PROVE FALSE
  BY <1>2, <1>8, ClickIsUnanswered DEF Click
<1>9. CASE Lose
  BY <1>9, LoseDoes
<1>10. CASE HookLine \/ SendUpdateSource \/ HandleResume \/ HandleForceUpdateSource
            \/ HandleSuccessed \/ HandleRequestSource \/ HandleSaveSource
  BY <1>3, <1>10
  DEF HookLine, SendUpdateSource, HandleResume, HandleForceUpdateSource,
      HandleSuccessed, HandleRequestSource, HandleSaveSource
<1>11. CASE OnUpdateSource \/ OnPendingEvent \/ OnValueSource \/ OnAddedSource
            \/ OnChangedState \/ OnEndDebug
  BY <1>3, <1>11
  DEF OnUpdateSource, OnPendingEvent, OnValueSource, OnAddedSource,
      OnChangedState, OnEndDebug
<1>12. CASE Edit \/ SaveSource \/ (\E j \in DOMAIN pages : Select(j))
           \/ (\E type \in {"RESUME", "FORCE_UPDATESOURCE"} : Sends(type))
  BY <1>3, <1>12 DEF Edit, SaveSource, Select, Sends
<1>13. CASE UNCHANGED allVars
  BY <1>3, <1>13 DEF allVars
<1> QED
  BY <1>3, <1>4, <1>5, <1>6, <1>7, <1>8, <1>9, <1>10, <1>11, <1>12, <1>13
  DEF PagesNext, ContextStep, FrameStep, UserStep

(* When all has been handled, each page marks the breakpoints at which the   *)
(* program stops in its source, for any sources, breakpoints and clicks.     *)
THEOREM MarksAreAlwaysTheBreakpoints == PagesSpec => []MarksAreTheBreakpoints
<1>1. PagesSpec => []SyncInv
  BY PagesImplementSync, SyncInvAlways, PTL
<1>2. PagesInit => MarksInv
  BY EmptySeq DEF PagesInit, MarksInv
<1>3. SyncInv /\ MarksInv => MarksAreTheBreakpoints
  <2> SUFFICES ASSUME SyncInv, MarksInv, linked, f2c = <<>>, c2f = <<>>
               PROVE  \A i \in DOMAIN pages :
                         pages[i].bps = {bp \in ctxBps : bp.key = pages[i].key}
    BY DEF MarksAreTheBreakpoints, Quiet
  <2>1. NothingUnanswered
    BY EmptySeq DEF NothingUnanswered
  <2>2. frameBps = ctxBps
    BY <2>1 DEF SyncInv
  <2> QED
    BY <2>1, <2>2 DEF MarksInv, Marks
<1>4. TypesInv /\ SyncInv /\ SyncInv' /\ MarksInv /\ [PagesNext]_allVars => MarksInv'
  BY PagesKeepMarks
<1> QED
  BY <1>1, <1>2, <1>3, <1>4, TypesAlways, PTL DEF PagesSpec

-----------------------------------------------------------------------------
(* What a step can add to the queues and mark on the pages *)

LEMMA FrameTail ==
    ASSUME TypesInv, s2f # <<>>, s2f' = Tail(s2f), NEW i \in DOMAIN s2f'
    PROVE  \E j \in DOMAIN s2f : s2f'[i] = s2f[j]
BY TailShift DEF TypesInv

LEMMA ContextTail ==
    ASSUME TypesInv, f2s # <<>>, f2s' = Tail(f2s), NEW i \in DOMAIN f2s'
    PROVE  \E j \in DOMAIN f2s : f2s'[i] = f2s[j]
BY TailShift DEF TypesInv

LEMMA FrameAppend ==
    ASSUME TypesInv, NEW m \in FrameMsg, s2f' = Append(s2f, m), NEW i \in DOMAIN s2f'
    PROVE  s2f'[i] = m \/ \E j \in DOMAIN s2f : s2f'[i] = s2f[j]
BY AppendFacts DEF TypesInv

LEMMA ContextAppend ==
    ASSUME TypesInv, NEW m \in ContextMsg, f2s' = Append(f2s, m), NEW i \in DOMAIN f2s'
    PROVE  f2s'[i] = m \/ \E j \in DOMAIN f2s : f2s'[i] = f2s[j]
BY AppendFacts DEF TypesInv

(* The commands for the frame that a step adds. *)
LEMMA NewToFrame ==
    ASSUME TypesInv, [PagesNext]_allVars, NEW i \in DOMAIN s2f'
    PROVE  \/ \E j \in DOMAIN s2f : s2f'[i] = s2f[j]
           \/ s2f'[i] \in StateMsg
           \/ \E k \in Keys : /\ s2f'[i] = FileAdded(k) /\ s2f'[i] \in AddedMsg
                              /\ UNCHANGED file
           \/ s2f'[i] \in EndMsg /\ ~linked'
           \/ s2f'[i] = StopUpdate /\ UNCHANGED stop
           \/ \E j \in DOMAIN f2s : /\ linked /\ f2s[j] \in RequestMsg
                                    /\ f2s[j].event \in UpdateMsg
                                    /\ s2f'[i] = AnswerTo(f2s[j].event)
                                    /\ s2f'[i] \in ValueMsg
<1> DEFINE Known == \E j \in DOMAIN s2f : s2f'[i] = s2f[j]
           Stated == s2f'[i] \in StateMsg
           Filed == \E k \in Keys : /\ s2f'[i] = FileAdded(k) /\ s2f'[i] \in AddedMsg
                                    /\ UNCHANGED file
           Ended == s2f'[i] \in EndMsg /\ ~linked'
           Updated == s2f'[i] = StopUpdate /\ UNCHANGED stop
           Answered == \E j \in DOMAIN f2s : /\ linked /\ f2s[j] \in RequestMsg
                                             /\ f2s[j].event \in UpdateMsg
                                             /\ s2f'[i] = AnswerTo(f2s[j].event)
                                             /\ s2f'[i] \in ValueMsg
<1>1. CASE UNCHANGED s2f
  BY <1>1
<1>2. ASSUME s2f # <<>>, s2f' = Tail(s2f) PROVE Known
  BY <1>2, FrameTail
<1> HIDE DEF Known, Stated, Filed, Ended, Updated, Answered
<1>3. ASSUME NEW m \in FrameMsg, s2f' = Append(s2f, m)
      PROVE  s2f'[i] = m \/ Known
  BY <1>3, FrameAppend DEF Known
<1>4. UpdateMsg \cup StateMsg \cup AddedMsg \cup ValueMsg \cup EndMsg \subseteq FrameMsg
  BY QueueTypes
<1>5. ASSUME NEW k \in Keys, LoadFile(k) PROVE Known \/ Filed
  <2>1. CASE UNCHANGED s2f
    BY <2>1 DEF Known
  <2>2. CASE FileAdded(k) \in AddedMsg /\ s2f' = Append(s2f, FileAdded(k))
    BY <1>3, <1>4, <1>5, <2>2, LoadFileDoes DEF Filed
  <2> QED
    BY <1>5, <2>1, <2>2, LoadFileDoes
<1>6. CASE HookLine
  <2>1. StateOf(TRUE) \in StateMsg /\ s2f' = Append(s2f, StateOf(TRUE))
    BY <1>6, HookLineDoes
  <2>2. Known \/ Stated
    BY <1>3, <1>4, <2>1 DEF Stated
  <2> QED
    BY <2>2 DEF Known, Stated
<1>7. CASE SendUpdateSource
  <2>1. StopUpdate \in UpdateMsg /\ UNCHANGED stop
    BY <1>7, SendUpdateSourceDoes DEF SendUpdateSource
  <2>2. CASE s2f' = Append(s2f, StopUpdate)
    <3>1. Known \/ Updated
      BY <1>3, <1>4, <2>1, <2>2 DEF Updated
    <3> QED
      BY <3>1 DEF Known, Updated
  <2>3. CASE /\ FileAdded(stop.key) \in AddedMsg
             /\ s2f' = Append(Append(s2f, FileAdded(stop.key)), StopUpdate)
    <3> DEFINE q == Append(s2f, FileAdded(stop.key))
    <3>1. s2f \in Seq(FrameMsg) /\ q \in Seq(FrameMsg)
      BY <1>4, <2>3, QueueTypes DEF TypesInv
    <3>2. \A j \in DOMAIN q : q[j] = FileAdded(stop.key) \/ \E l \in DOMAIN s2f : q[j] = s2f[l]
      BY <1>4, <2>3, <3>1, AppendFacts
    <3> HIDE DEF q
    <3>3. s2f'[i] = StopUpdate \/ \E j \in DOMAIN q : s2f'[i] = q[j]
      <4>1. s2f' = Append(q, StopUpdate) /\ StopUpdate \in FrameMsg
        BY <1>4, <2>1, <2>3 DEF q
      <4> QED
        BY <3>1, <4>1, AppendFacts
    <3>4. stop.key \in Keys /\ UNCHANGED file
      BY <1>7 DEF SendUpdateSource, TypesInv
    <3>5. Known \/ Updated \/ Filed
      BY <2>1, <2>3, <3>2, <3>3, <3>4 DEF Known, Updated, Filed
    <3> QED
      BY <3>5 DEF Known, Updated, Filed
  <2> QED
    BY <1>7, <2>2, <2>3, SendUpdateSourceDoes
<1>8. CASE HandleResume
  <2>1. CASE UNCHANGED s2f
    BY <2>1
  <2>2. CASE StateOf(FALSE) \in StateMsg /\ s2f' = Append(s2f, StateOf(FALSE))
    <3>1. Known \/ Stated
      BY <1>3, <1>4, <2>2 DEF Stated
    <3> QED
      BY <3>1 DEF Known, Stated
  <2> QED
    BY <1>8, <2>1, <2>2, HandleResumeDoes
<1>9. CASE HandleRequestSource
  <2>1. CASE UNCHANGED s2f
    BY <2>1
  <2>2. CASE linked /\ s2f' = Append(s2f, AnswerTo(Head(f2s).event))
    <3>1. /\ f2s # <<>> /\ Head(f2s) \in RequestMsg
          /\ Head(f2s).event \in UpdateMsg
          /\ AnswerTo(Head(f2s).event) \in ValueMsg
      BY <1>9, HandleRequestSourceDoes
    <3>2. 1 \in DOMAIN f2s /\ Head(f2s) = f2s[1]
      BY <3>1, TailFacts DEF TypesInv
    <3>3. Known \/ Answered
      BY <1>3, <1>4, <2>2, <3>1, <3>2 DEF Answered
    <3> QED
      BY <3>3 DEF Known, Answered
  <2> QED
    BY <1>9, <2>1, <2>2, HandleRequestSourceDoes
<1>10. CASE HandleForceUpdateSource \/ HandleSuccessed \/ HandleSaveSource
            \/ HandleBreakpoint \/ OnPendingEvent \/ OnBreakpoints
            \/ Edit \/ SaveSource \/ (\E j \in DOMAIN pages : Select(j))
            \/ (\E type \in {"RESUME", "FORCE_UPDATESOURCE"} : Sends(type))
            \/ (\E bp \in Breakpoints : Click(bp)) \/ UNCHANGED allVars
  BY <1>1, <1>10
  DEF HandleForceUpdateSource, HandleSuccessed, HandleSaveSource, HandleBreakpoint,
      OnPendingEvent, OnBreakpoints, Edit, SaveSource, Select, Sends, Click,
      allVars, pageVars
<1>11. CASE OnUpdateSource \/ OnValueSource \/ OnAddedSource \/ OnChangedState
            \/ OnEndDebug
  <2>1. s2f # <<>> /\ s2f' = Tail(s2f)
    BY <1>11 DEF OnUpdateSource, OnValueSource, OnAddedSource, OnChangedState,
                 OnEndDebug, Processes
  <2> QED
    BY <1>2, <2>1 DEF Known
<1>12. CASE Lose
  <2>1. PICK n \in 0 .. Len(s2f) : s2f' = Append(SubSeq(s2f, 1, n), EndOfQueue)
    BY <1>12, LoseDoes
  <2>2. EndOfQueue \in EndMsg /\ EndOfQueue \in FrameMsg /\ ~linked'
    BY <1>4, <1>12, LoseDoes
  <2>3. /\ SubSeq(s2f, 1, n) \in Seq(FrameMsg)
        /\ \A j \in DOMAIN SubSeq(s2f, 1, n) :
              j \in DOMAIN s2f /\ SubSeq(s2f, 1, n)[j] = s2f[j]
    BY PrefixFacts DEF TypesInv
  <2>4. Known \/ Ended
    BY <2>1, <2>2, <2>3, AppendFacts DEF Known, Ended
  <2> QED
    BY <2>4 DEF Known, Ended
<1> QED
  BY <1>5, <1>6, <1>7, <1>8, <1>9, <1>10, <1>11, <1>12
  DEF PagesNext, ContextStep, FrameStep, UserStep, Known, Filed

(* The commands for the context that a step adds. *)
LEMMA NewToContext ==
    ASSUME TypesInv, [PagesNext]_allVars, NEW i \in DOMAIN f2s'
    PROVE  \/ \E j \in DOMAIN f2s : f2s'[i] = f2s[j]
           \/ f2s'[i] \in PlainMsg \cup SuccessMsg
           \/ /\ linked /\ selected \in DOMAIN pages
              /\ f2s'[i] = SaveOf(pages[selected]) /\ f2s'[i] \in SaveMsg
           \/ /\ s2f # <<>> /\ Head(s2f) \in UpdateMsg
              /\ f2s'[i] = RequestFor(Head(s2f))
           \/ /\ pending # <<>> /\ Head(pending) \in UpdateMsg
              /\ f2s'[i] = RequestFor(Head(pending))
<1> DEFINE Known == \E j \in DOMAIN f2s : f2s'[i] = f2s[j]
<1>1. CASE UNCHANGED f2s
  BY <1>1
<1>2. CASE f2s # <<>> /\ f2s' = Tail(f2s)
  BY <1>2, ContextTail
<1> HIDE DEF Known
<1>3. ASSUME NEW m \in ContextMsg, f2s' = Append(f2s, m)
      PROVE  f2s'[i] = m \/ Known
  BY <1>3, ContextAppend DEF Known
<1>4. PlainMsg \cup SuccessMsg \cup RequestMsg \cup SaveMsg \subseteq ContextMsg
  BY QueueTypes
<1>5. CASE HandleResume \/ HandleForceUpdateSource \/ HandleSuccessed
           \/ HandleRequestSource \/ HandleSaveSource
  BY <1>2, <1>5
  DEF HandleResume, HandleForceUpdateSource, HandleSuccessed, HandleRequestSource,
      HandleSaveSource, Receives
<1>6. CASE OnUpdateSource
  <2>1. /\ s2f # <<>> /\ Head(s2f) \in UpdateMsg
        /\ Success \in SuccessMsg /\ RequestFor(Head(s2f)) \in RequestMsg
        /\ \/ f2s' = f2s
           \/ f2s' = Append(f2s, Success)
           \/ f2s' = Append(Append(f2s, RequestFor(Head(s2f))), Success)
    BY <1>6, OnUpdateSourceDoes
  <2>2. CASE f2s' = Append(f2s, Success)
    <3>1. Known \/ f2s'[i] \in SuccessMsg
      BY <1>3, <1>4, <2>1, <2>2
    <3> QED
      BY <3>1 DEF Known
  <2>3. CASE f2s' = Append(Append(f2s, RequestFor(Head(s2f))), Success)
    <3> DEFINE q == Append(f2s, RequestFor(Head(s2f)))
    <3>1. f2s \in Seq(ContextMsg) /\ q \in Seq(ContextMsg)
      BY <1>4, <2>1, QueueTypes DEF TypesInv
    <3>2. \A j \in DOMAIN q : q[j] = RequestFor(Head(s2f)) \/ \E l \in DOMAIN f2s : q[j] = f2s[l]
      BY <1>4, <2>1, <3>1, AppendFacts
    <3> HIDE DEF q
    <3>3. f2s'[i] = Success \/ \E j \in DOMAIN q : f2s'[i] = q[j]
      <4>1. f2s' = Append(q, Success) /\ Success \in ContextMsg
        BY <1>4, <2>1, <2>3 DEF q
      <4> QED
        BY <3>1, <4>1, AppendFacts
    <3> QED
      BY <2>1, <3>2, <3>3
  <2> QED
    BY <1>1, <2>1, <2>2, <2>3
<1>7. CASE OnPendingEvent
  <2>1. CASE f2s' = Append(f2s, RequestFor(Head(pending)))
    <3>1. /\ pending # <<>> /\ Head(pending) \in UpdateMsg
          /\ RequestFor(Head(pending)) \in RequestMsg
      BY <1>7, OnPendingEventDoes
    <3>2. Known \/ f2s'[i] = RequestFor(Head(pending))
      BY <1>3, <1>4, <2>1, <3>1
    <3> QED
      BY <3>1, <3>2 DEF Known
  <2> QED
    BY <1>1, <1>7, <2>1, OnPendingEventDoes
<1>8. CASE SaveSource
  <2>1. /\ linked /\ selected \in DOMAIN pages
        /\ SaveOf(pages[selected]) \in SaveMsg
        /\ f2s' = Append(f2s, SaveOf(pages[selected]))
    BY <1>8, SaveSourceDoes
  <2>2. Known \/ f2s'[i] = SaveOf(pages[selected])
    BY <1>3, <1>4, <2>1
  <2> QED
    BY <2>1, <2>2 DEF Known
<1>9. ASSUME NEW type \in {"RESUME", "FORCE_UPDATESOURCE"}, Sends(type)
      PROVE  Known \/ f2s'[i] \in PlainMsg
  <2>1. /\ [type |-> type] \in PlainMsg
        /\ f2s' = Append(f2s, [type |-> type])
    BY <1>9, SendsDoes
  <2> QED
    BY <1>3, <1>4, <2>1
<1>10. CASE HookLine \/ SendUpdateSource \/ HandleBreakpoint
            \/ (\E k \in Keys : LoadFile(k))
            \/ OnValueSource \/ OnAddedSource \/ OnChangedState \/ OnEndDebug
            \/ OnBreakpoints \/ Edit \/ (\E j \in DOMAIN pages : Select(j))
            \/ (\E bp \in Breakpoints : Click(bp)) \/ UNCHANGED allVars
  BY <1>1, <1>10
  DEF HookLine, SendUpdateSource, HandleBreakpoint, LoadFile, OnValueSource,
      OnAddedSource, OnChangedState, OnEndDebug, OnBreakpoints, Edit, Select,
      Click, allVars, pageVars
<1>11. CASE Lose
  <2>1. PICK n \in 0 .. Len(f2s) : f2s' = SubSeq(f2s, 1, n)
    BY <1>11, LoseDoes
  <2>2. Known
    BY <2>1, PrefixFacts DEF TypesInv, Known
  <2> QED
    BY <2>2 DEF Known
<1> QED
  BY <1>5, <1>6, <1>7, <1>8, <1>9, <1>10, <1>11
  DEF PagesNext, ContextStep, FrameStep, UserStep, Known

(* The events that a step adds to the pending ones. *)
LEMMA NewPending ==
    ASSUME TypesInv, [PagesNext]_allVars, NEW i \in DOMAIN pending'
    PROVE  \/ \E j \in DOMAIN pending : pending'[i] = pending[j]
           \/ /\ s2f # <<>> /\ Head(s2f) \in ValueMsg
              /\ Head(s2f).text # NoText
              /\ pending'[i] = Head(s2f).event
<1>1. CASE UNCHANGED pending
  BY <1>1
<1>2. CASE OnPendingEvent
  <2>1. pending # <<>> /\ pending' = Tail(pending)
    BY <1>2, OnPendingEventDoes
  <2> QED
    BY <2>1, TailShift DEF TypesInv
<1>3. CASE OnValueSource
  <2>1. CASE pending' = Append(pending, Head(s2f).event) /\ Head(s2f).text # NoText
    <3>1. s2f # <<>> /\ Head(s2f) \in ValueMsg /\ Head(s2f).event \in UpdateMsg
      BY <1>3, OnValueSourceDoes
    <3>2. pending \in Seq(UpdateMsg)
      BY DEF TypesInv
    <3> QED
      BY <2>1, <3>1, <3>2, AppendFacts
  <2> QED
    BY <1>1, <1>3, <2>1, OnValueSourceDoes
<1>4. CASE HookLine \/ SendUpdateSource \/ HandleBreakpoint \/ HandleResume
           \/ HandleForceUpdateSource \/ HandleSuccessed \/ HandleRequestSource
           \/ HandleSaveSource \/ (\E k \in Keys : LoadFile(k))
           \/ OnUpdateSource \/ OnAddedSource \/ OnChangedState \/ OnEndDebug
           \/ OnBreakpoints \/ Edit \/ SaveSource \/ (\E j \in DOMAIN pages : Select(j))
           \/ (\E bp \in Breakpoints : Click(bp))
           \/ (\E type \in {"RESUME", "FORCE_UPDATESOURCE"} : Sends(type))
           \/ Lose \/ UNCHANGED allVars
  BY <1>1, <1>4
  DEF HookLine, SendUpdateSource, HandleBreakpoint, HandleResume,
      HandleForceUpdateSource, HandleSuccessed, HandleRequestSource,
      HandleSaveSource, LoadFile, OnUpdateSource, OnAddedSource, OnChangedState,
      OnEndDebug, OnBreakpoints, Edit, SaveSource, Select, Click, Sends, Lose,
      allVars, pageVars, view
<1> QED
  BY <1>2, <1>3, <1>4 DEF PagesNext, ContextStep, FrameStep, UserStep

(* The marks after a step. *)
LEMMA NewMarks ==
    ASSUME TypesInv, TypeOK, TypeOK', [PagesNext]_allVars, NEW i \in DOMAIN pages'
    PROVE  \/ pages'[i].mark = 0
           \/ i \in DOMAIN pages /\ pages'[i].mark = pages[i].mark
           \/ /\ OnUpdateSource
              /\ s2f # <<>> /\ Head(s2f) \in UpdateMsg /\ pages'[i].mark = Head(s2f).line
           \/ /\ OnPendingEvent
              /\ pending # <<>> /\ Head(pending) \in UpdateMsg
              /\ pages'[i].mark = Head(pending).line
<1>1. CASE UNCHANGED pages
  BY <1>1
<1>2. CASE SameButTexts
  BY <1>2 DEF SameButTexts
<1>3. ASSUME NEW k \in Keys, NEW text \in FullText, CreatePage(k, text)
      PROVE  pages'[i].mark = 0 \/ (i \in DOMAIN pages /\ pages'[i].mark = pages[i].mark)
  <2>1. i \in DOMAIN pages \/ i = Len(pages) + 1
    BY <1>3, CreatePageDoes
  <2>2. CASE i \in DOMAIN pages
    <3>1. pages'[i] = pages[i]
      BY <1>3, <2>2, CreatePageDoes
    <3> QED
      BY <2>2, <3>1
  <2>3. CASE i = Len(pages) + 1
    <3>1. pages'[i] = NewPage(k, text)
      BY <1>3, <2>3, CreatePageDoes
    <3> QED
      BY <3>1, NewPageFields
  <2> QED
    BY <2>1, <2>2, <2>3
<1>4. ASSUME NEW ev \in UpdateMsg, FocusOn(ev)
      PROVE  \/ pages'[i].mark = 0 \/ pages'[i].mark = ev.line
             \/ i \in DOMAIN pages /\ pages'[i].mark = pages[i].mark
  <2>1. DOMAIN pages' = DOMAIN pages
    BY <1>4, FocusDoes DEF SameButMarks
  <2>2. CASE ev \in Freshes
    <3>1. pages'[i].mark = IF pages[i].key = ev.key THEN ev.line ELSE 0
      BY <1>4, <2>1, <2>2, FocusDoes
    <3> QED
      BY <3>1
  <2>3. CASE ev \notin Freshes
    <3>1. UNCHANGED pages
      BY <1>4, <2>3, FocusDoes
    <3> QED
      BY <3>1
  <2> QED
    BY <2>2, <2>3
<1>5. CASE OnUpdateSource
  BY <1>4, <1>5, OnUpdateSourceDoes
<1>6. CASE OnPendingEvent
  BY <1>4, <1>6, OnPendingEventDoes
<1>7. CASE OnValueSource
  BY <1>1, <1>3, <1>7, OnValueSourceDoes
<1>8. CASE OnAddedSource
  BY <1>3, <1>8, OnAddedSourceDoes
<1>9. CASE OnChangedState
  <2>1. DOMAIN pages' = DOMAIN pages
    BY <1>9, OnChangedStateDoes DEF SameButMarks
  <2>2. pages'[i].mark = IF i = selected /\ ~isBreak' THEN 0 ELSE pages[i].mark
    BY <1>9, <2>1, OnChangedStateDoes
  <2> QED
    BY <2>1, <2>2
<1>10. CASE OnEndDebug
  <2>1. pages' = <<>>
    BY <1>10 DEF OnEndDebug
  <2> QED
    BY <2>1, EmptySeq
<1>11. CASE OnBreakpoints
  BY <1>11, OnBreakpointsDoes
<1>12. CASE Edit \/ SaveSource
  BY <1>2, <1>12, EditDoes, SaveSourceDoes
<1>13. CASE HookLine \/ SendUpdateSource \/ HandleBreakpoint \/ HandleResume
            \/ HandleForceUpdateSource \/ HandleSuccessed \/ HandleRequestSource
            \/ HandleSaveSource \/ (\E k \in Keys : LoadFile(k))
            \/ (\E j \in DOMAIN pages : Select(j))
            \/ (\E bp \in Breakpoints : Click(bp))
            \/ (\E type \in {"RESUME", "FORCE_UPDATESOURCE"} : Sends(type))
            \/ Lose \/ UNCHANGED allVars
  BY <1>1, <1>13
  DEF HookLine, SendUpdateSource, HandleBreakpoint, HandleResume,
      HandleForceUpdateSource, HandleSuccessed, HandleRequestSource,
      HandleSaveSource, LoadFile, Select, Click, Sends, Lose, allVars, pageVars, view
<1> QED
  BY <1>5, <1>6, <1>7, <1>8, <1>9, <1>10, <1>11, <1>12, <1>13
  DEF PagesNext, ContextStep, FrameStep, UserStep

-----------------------------------------------------------------------------
(* No line is shown that the program has not stopped at *)

LinesInv ==
    /\ \A i \in DOMAIN s2f : s2f[i] \in UpdateMsg => s2f[i].line <= stop.n
    /\ \A i \in DOMAIN s2f : s2f[i] \in ValueMsg => s2f[i].event.line <= stop.n
    /\ \A i \in DOMAIN f2s : f2s[i] \in RequestMsg => f2s[i].event.line <= stop.n
    /\ \A i \in DOMAIN pending : pending[i].line <= stop.n
    /\ \A i \in DOMAIN pages : pages[i].mark <= stop.n

LEMMA MessageFields ==
    /\ \A ev \in UpdateMsg : RequestFor(ev).event = ev /\ AnswerTo(ev).event = ev
                             /\ AnswerTo(ev).key = ev.key
                             /\ AnswerTo(ev).text = sources[ev.key]
    /\ StopUpdate.line = stop.n /\ StopUpdate.key = stop.key
  BY DEF RequestFor, AnswerTo, StopUpdate

(* The kinds of a message exclude each other.                                *)
LEMMA Kinds ==
    /\ UpdateMsg \cap (StateMsg \cup AddedMsg \cup ValueMsg \cup EndMsg) = {}
    /\ ValueMsg \cap (StateMsg \cup AddedMsg \cup UpdateMsg \cup EndMsg) = {}
    /\ AddedMsg \cap (StateMsg \cup ValueMsg \cup UpdateMsg \cup EndMsg) = {}
    /\ StateMsg \cap (AddedMsg \cup ValueMsg \cup UpdateMsg \cup EndMsg) = {}
    /\ RequestMsg \cap (PlainMsg \cup SuccessMsg \cup SaveMsg) = {}
    /\ SuccessMsg \cap (PlainMsg \cup RequestMsg \cup SaveMsg) = {}
    /\ SaveMsg \cap (PlainMsg \cup SuccessMsg \cup RequestMsg) = {}
<1>1. \A m \in UpdateMsg \cup StateMsg \cup AddedMsg \cup ValueMsg \cup EndMsg :
         m \in FrameMsg
  BY DEF FrameMsg
<1>2. \A m \in PlainMsg \cup SuccessMsg \cup RequestMsg \cup SaveMsg : m \in ContextMsg
  BY DEF ContextMsg
<1>3. /\ \A m \in UpdateMsg : m.type = "UPDATE_SOURCE"
      /\ \A m \in StateMsg : m.type = "CHANGED_STATE"
      /\ \A m \in AddedMsg : m.type = "ADDED_SOURCE"
      /\ \A m \in ValueMsg : m.type = "VALUE_SOURCE"
      /\ \A m \in EndMsg : m.type = "END_CONNECTION"
  BY <1>1, FrameKinds
<1>4. /\ \A m \in SuccessMsg : m.type = "SUCCESSED"
      /\ \A m \in RequestMsg : m.type = "REQUEST_SOURCE"
      /\ \A m \in SaveMsg : m.type = "SAVE_SOURCE"
      /\ \A m \in PlainMsg : m.type \in {"RESUME", "FORCE_UPDATESOURCE"}
  BY <1>2, ContextKinds
<1> QED
  BY ONLY <1>3, <1>4

LEMMA PagesKeepLines ==
    TypesInv /\ TypesInv' /\ TypeOK /\ TypeOK' /\ LinesInv /\ [PagesNext]_allVars
        => LinesInv'
<1> SUFFICES ASSUME TypesInv, TypesInv', TypeOK, TypeOK', LinesInv, [PagesNext]_allVars
             PROVE  LinesInv'
  OBVIOUS
<1>1. stop.n \in Nat /\ stop'.n \in Nat
  BY DEF TypesInv
<1>2. stop.n <= stop'.n
  <2>1. CASE UNCHANGED stop
    BY <1>1, <2>1
  <2>2. CASE HookLine
    <3>1. stop'.n = stop.n + 1
      BY <2>2, HookLineDoes
    <3> QED
      BY ONLY <1>1, <3>1
  <2>3. CASE SendUpdateSource \/ HandleBreakpoint \/ HandleResume
             \/ HandleForceUpdateSource \/ HandleSuccessed \/ HandleRequestSource
             \/ HandleSaveSource \/ (\E k \in Keys : LoadFile(k))
    BY <2>1, <2>3
    DEF SendUpdateSource, HandleBreakpoint, HandleResume,
        HandleForceUpdateSource, HandleSuccessed, HandleRequestSource,
        HandleSaveSource, LoadFile, pageVars, program
  <2>4. CASE FrameStep \/ UserStep \/ Lose \/ UNCHANGED allVars
    BY <2>1, <2>4
    DEF FrameStep, UserStep, OnUpdateSource, OnPendingEvent, OnValueSource,
        OnAddedSource, OnChangedState, OnEndDebug, OnBreakpoints, Edit, SaveSource,
        Select, Click, Sends, Lose, allVars, pageVars, program
  <2> QED
    BY <2>2, <2>3, <2>4 DEF PagesNext, ContextStep
<1>3. \A ev \in UpdateMsg : ev.line \in Nat
  BY DEF UpdateMsg
<1>4. \A n \in Nat : n <= stop.n => n <= stop'.n
  BY ONLY <1>1, <1>2
<1>5. /\ \A i \in DOMAIN s2f : s2f[i] \in FrameMsg
      /\ \A i \in DOMAIN f2s : f2s[i] \in ContextMsg
      /\ \A i \in DOMAIN pending : pending[i] \in UpdateMsg
      /\ \A i \in DOMAIN pages : pages[i] \in FullPage
  BY ElementOfSeq, LenProperties DEF TypesInv
<1>6. \A m \in ValueMsg : m.event \in UpdateMsg
  BY DEF ValueMsg
<1>7. \A m \in RequestMsg : m.event \in UpdateMsg
  BY DEF RequestMsg
<1>8. s2f # <<>> => 1 \in DOMAIN s2f /\ Head(s2f) = s2f[1]
  BY TailFacts DEF TypesInv
<1>9. pending # <<>> => 1 \in DOMAIN pending /\ Head(pending) = pending[1]
  BY TailFacts DEF TypesInv
<1>10. ASSUME NEW i \in DOMAIN s2f'
       PROVE  /\ s2f'[i] \in UpdateMsg => s2f'[i].line <= stop'.n
              /\ s2f'[i] \in ValueMsg => s2f'[i].event.line <= stop'.n
  <2>1. CASE \E j \in DOMAIN s2f : s2f'[i] = s2f[j]
    BY <1>3, <1>4, <1>6, <2>1 DEF LinesInv
  <2>2. CASE s2f'[i] \in StateMsg \cup AddedMsg \cup EndMsg
    BY <2>2, Kinds
  <2>3. CASE s2f'[i] = StopUpdate
    <3>1. StopUpdate \in UpdateMsg /\ StopUpdate.line = stop.n
      BY MessageTypes, MessageFields
    <3> QED
      BY <1>1, <1>2, <2>3, <3>1, Kinds
  <2>4. CASE \E j \in DOMAIN f2s : /\ f2s[j] \in RequestMsg
                                   /\ f2s[j].event \in UpdateMsg
                                   /\ s2f'[i] = AnswerTo(f2s[j].event)
                                   /\ s2f'[i] \in ValueMsg
    <3>1. PICK j \in DOMAIN f2s : /\ f2s[j] \in RequestMsg
                                  /\ f2s[j].event \in UpdateMsg
                                  /\ s2f'[i] = AnswerTo(f2s[j].event)
                                  /\ s2f'[i] \in ValueMsg
      BY <2>4
    <3>2. s2f'[i].event = f2s[j].event /\ f2s[j].event.line <= stop.n
      BY <3>1, MessageFields DEF LinesInv
    <3>3. s2f'[i].event.line <= stop'.n
      BY <1>3, <1>4, <3>1, <3>2
    <3> QED
      BY <3>1, <3>3, Kinds
  <2> QED
    BY <2>1, <2>2, <2>3, <2>4, NewToFrame
<1>11. ASSUME NEW i \in DOMAIN f2s', f2s'[i] \in RequestMsg
       PROVE  f2s'[i].event.line <= stop'.n
  <2>1. CASE \E j \in DOMAIN f2s : f2s'[i] = f2s[j]
    BY <1>3, <1>4, <1>7, <1>11, <2>1 DEF LinesInv
  <2>2. ASSUME NEW ev \in UpdateMsg, f2s'[i] = RequestFor(ev), ev.line <= stop.n
        PROVE  f2s'[i].event.line <= stop'.n
    BY <1>3, <1>4, <2>2, MessageFields
  <2>3. CASE /\ s2f # <<>> /\ Head(s2f) \in UpdateMsg
             /\ f2s'[i] = RequestFor(Head(s2f))
    BY <1>8, <2>2, <2>3 DEF LinesInv
  <2>4. CASE /\ pending # <<>> /\ Head(pending) \in UpdateMsg
             /\ f2s'[i] = RequestFor(Head(pending))
    BY <1>9, <2>2, <2>4 DEF LinesInv
  <2> QED
    BY <1>11, <2>1, <2>3, <2>4, NewToContext, Kinds
<1>12. ASSUME NEW i \in DOMAIN pending' PROVE pending'[i].line <= stop'.n
  <2>1. CASE \E j \in DOMAIN pending : pending'[i] = pending[j]
    BY <1>3, <1>4, <1>5, <2>1 DEF LinesInv
  <2>2. CASE s2f # <<>> /\ Head(s2f) \in ValueMsg /\ pending'[i] = Head(s2f).event
    BY <1>3, <1>4, <1>6, <1>8, <2>2 DEF LinesInv
  <2> QED
    BY <2>1, <2>2, NewPending
<1>13. ASSUME NEW i \in DOMAIN pages' PROVE pages'[i].mark <= stop'.n
  <2>1. CASE pages'[i].mark = 0
    BY <1>1, <2>1
  <2>2. CASE i \in DOMAIN pages /\ pages'[i].mark = pages[i].mark
    <3>1. pages[i].mark \in Nat
      BY <1>5, <2>2 DEF FullPage
    <3> QED
      BY <1>4, <2>2, <3>1 DEF LinesInv
  <2>3. CASE s2f # <<>> /\ Head(s2f) \in UpdateMsg /\ pages'[i].mark = Head(s2f).line
    BY <1>3, <1>4, <1>8, <2>3 DEF LinesInv
  <2>4. CASE pending # <<>> /\ Head(pending) \in UpdateMsg
             /\ pages'[i].mark = Head(pending).line
    BY <1>3, <1>4, <1>9, <2>4 DEF LinesInv
  <2> QED
    BY <2>1, <2>2, <2>3, <2>4, NewMarks
<1> QED
  BY <1>10, <1>11, <1>12, <1>13 DEF LinesInv

-----------------------------------------------------------------------------
(* The updates that wait for an answer *)

Updates == HowMany(s2f, UpdateMsg)
Successes == HowMany(f2s, SuccessMsg)

(* m_waitUpdateCount counts at least the updates and the answers to them     *)
(* that are on their way; while it is not zero the program is in a stop that *)
(* has been told; and each update is of the present stop.                    *)
WaitInv ==
    /\ wait \in Nat
    /\ Updates + Successes <= wait
    /\ linked /\ wait > 0 => stopped /\ prevBreak
    /\ linked => \A i \in DOMAIN s2f :
                    /\ s2f[i] \in UpdateMsg => s2f[i].key = stop.key /\ s2f[i].line = stop.n
                    /\ s2f[i] \notin EndMsg

LEMMA WaitCounts ==
    ASSUME TypesInv
    PROVE  /\ Updates \in Nat /\ Successes \in Nat
           /\ UNCHANGED s2f => Updates' = Updates
           /\ UNCHANGED f2s => Successes' = Successes
           /\ \A m \in FrameMsg : s2f' = Append(s2f, m) =>
                 Updates' = IF m \in UpdateMsg THEN Updates + 1 ELSE Updates
           /\ \A m \in AddedMsg, n \in UpdateMsg :
                 s2f' = Append(Append(s2f, m), n) => Updates' = Updates + 1
           /\ s2f # <<>> /\ s2f' = Tail(s2f) =>
                 Updates' = IF Head(s2f) \in UpdateMsg THEN Updates - 1 ELSE Updates
           /\ \A m \in ContextMsg : f2s' = Append(f2s, m) =>
                 Successes' = IF m \in SuccessMsg THEN Successes + 1 ELSE Successes
           /\ \A m \in RequestMsg, n \in SuccessMsg :
                 f2s' = Append(Append(f2s, m), n) => Successes' = Successes + 1
           /\ f2s # <<>> /\ f2s' = Tail(f2s) =>
                 Successes' = IF Head(f2s) \in SuccessMsg THEN Successes - 1
                              ELSE Successes
<1>1. s2f \in Seq(FrameMsg) /\ f2s \in Seq(ContextMsg)
  BY DEF TypesInv
<1>2. Updates \in Nat /\ Successes \in Nat
  BY <1>1, HowManyNat DEF Updates, Successes
<1>3. /\ UNCHANGED s2f => Updates' = Updates
      /\ UNCHANGED f2s => Successes' = Successes
  BY DEF Updates, Successes
<1>4. \A m, A : OneIf(m, A) = IF m \in A THEN 1 ELSE 0
  BY DEF OneIf
<1>5. ASSUME NEW m \in FrameMsg, s2f' = Append(s2f, m)
      PROVE  Updates' = IF m \in UpdateMsg THEN Updates + 1 ELSE Updates
  <2>1. HowMany(Append(s2f, m), UpdateMsg) = HowMany(s2f, UpdateMsg) + OneIf(m, UpdateMsg)
    BY ONLY <1>1, <1>5, AppendCounts
  <2>2. Updates' = Updates + OneIf(m, UpdateMsg)
    BY ONLY <1>5, <2>1 DEF Updates
  <2> QED
    BY ONLY <1>2, <1>4, <2>2
<1>6. ASSUME NEW m \in AddedMsg, NEW n \in UpdateMsg, s2f' = Append(Append(s2f, m), n)
      PROVE  Updates' = Updates + 1
  <2>1. m \in FrameMsg /\ n \in FrameMsg /\ m \notin UpdateMsg
    BY Kinds, QueueTypes
  <2>2. HowMany(Append(s2f, m), UpdateMsg) = HowMany(s2f, UpdateMsg) + OneIf(m, UpdateMsg)
    BY ONLY <1>1, <2>1, AppendCounts
  <2>3. Append(s2f, m) \in Seq(FrameMsg)
    BY ONLY <1>1, <2>1, AppendProperties
  <2>4. HowMany(Append(Append(s2f, m), n), UpdateMsg)
        = HowMany(Append(s2f, m), UpdateMsg) + OneIf(n, UpdateMsg)
    BY ONLY <2>1, <2>3, AppendCounts
  <2>5. OneIf(m, UpdateMsg) = 0 /\ OneIf(n, UpdateMsg) = 1
    BY ONLY <1>4, <1>6, <2>1
  <2>6. Updates' = (Updates + 0) + 1
    BY ONLY <1>6, <2>2, <2>4, <2>5 DEF Updates
  <2> QED
    BY ONLY <1>2, <2>6
<1>7. ASSUME s2f # <<>>, s2f' = Tail(s2f)
      PROVE  Updates' = IF Head(s2f) \in UpdateMsg THEN Updates - 1 ELSE Updates
  <2>1. HowMany(s2f, UpdateMsg) = HowMany(Tail(s2f), UpdateMsg) + OneIf(Head(s2f), UpdateMsg)
    BY ONLY <1>1, <1>7, TailCounts
  <2>2. Updates = Updates' + OneIf(Head(s2f), UpdateMsg)
    BY ONLY <1>7, <2>1 DEF Updates
  <2>3. Updates' \in Nat
    BY <1>1, <1>7, TailFacts, HowManyNat DEF Updates
  <2> QED
    BY ONLY <1>2, <1>4, <2>2, <2>3
<1>8. ASSUME NEW m \in ContextMsg, f2s' = Append(f2s, m)
      PROVE  Successes' = IF m \in SuccessMsg THEN Successes + 1 ELSE Successes
  <2>1. HowMany(Append(f2s, m), SuccessMsg) = HowMany(f2s, SuccessMsg) + OneIf(m, SuccessMsg)
    BY ONLY <1>1, <1>8, AppendCounts
  <2>2. Successes' = Successes + OneIf(m, SuccessMsg)
    BY ONLY <1>8, <2>1 DEF Successes
  <2> QED
    BY ONLY <1>2, <1>4, <2>2
<1>9. ASSUME NEW m \in RequestMsg, NEW n \in SuccessMsg, f2s' = Append(Append(f2s, m), n)
      PROVE  Successes' = Successes + 1
  <2>1. m \in ContextMsg /\ n \in ContextMsg /\ m \notin SuccessMsg
    BY Kinds, QueueTypes
  <2>2. HowMany(Append(f2s, m), SuccessMsg) = HowMany(f2s, SuccessMsg) + OneIf(m, SuccessMsg)
    BY ONLY <1>1, <2>1, AppendCounts
  <2>3. Append(f2s, m) \in Seq(ContextMsg)
    BY ONLY <1>1, <2>1, AppendProperties
  <2>4. HowMany(Append(Append(f2s, m), n), SuccessMsg)
        = HowMany(Append(f2s, m), SuccessMsg) + OneIf(n, SuccessMsg)
    BY ONLY <2>1, <2>3, AppendCounts
  <2>5. OneIf(m, SuccessMsg) = 0 /\ OneIf(n, SuccessMsg) = 1
    BY ONLY <1>4, <1>9, <2>1
  <2>6. Successes' = (Successes + 0) + 1
    BY ONLY <1>9, <2>2, <2>4, <2>5 DEF Successes
  <2> QED
    BY ONLY <1>2, <2>6
<1>10. ASSUME f2s # <<>>, f2s' = Tail(f2s)
       PROVE  Successes' = IF Head(f2s) \in SuccessMsg THEN Successes - 1 ELSE Successes
  <2>1. HowMany(f2s, SuccessMsg) = HowMany(Tail(f2s), SuccessMsg) + OneIf(Head(f2s), SuccessMsg)
    BY ONLY <1>1, <1>10, TailCounts
  <2>2. Successes = Successes' + OneIf(Head(f2s), SuccessMsg)
    BY ONLY <1>10, <2>1 DEF Successes
  <2>3. Successes' \in Nat
    BY <1>1, <1>10, TailFacts, HowManyNat DEF Successes
  <2> QED
    BY ONLY <1>2, <1>4, <2>2, <2>3
<1> QED
  BY <1>2, <1>3, <1>5, <1>6, <1>7, <1>8, <1>9, <1>10

(* When nothing is awaited, no update is on its way and no answer to one.    *)
LEMMA NothingAwaited ==
    ASSUME TypesInv, WaitInv, ~(wait > 0)
    PROVE  /\ NoneIn(s2f, UpdateMsg)
           /\ NoneIn(f2s, SuccessMsg)
<1>1. Updates \in Nat /\ Successes \in Nat /\ wait \in Nat /\ Updates + Successes <= wait
  BY WaitCounts DEF WaitInv
<1>2. Updates = 0 /\ Successes = 0
  BY ONLY <1>1, ~(wait > 0)
<1>3. s2f \in Seq(FrameMsg) /\ f2s \in Seq(ContextMsg)
  BY DEF TypesInv
<1> QED
  BY <1>2, <1>3, HowManyNat DEF Updates, Successes, NoneIn

LEMMA PagesKeepWait == TypesInv /\ WaitInv /\ [PagesNext]_allVars => WaitInv'
<1> SUFFICES ASSUME TypesInv, WaitInv, [PagesNext]_allVars PROVE WaitInv'
  OBVIOUS
<1> DEFINE Counted == wait' \in Nat /\ Updates' + Successes' <= wait'
           Told == linked' /\ wait' > 0 => stopped' /\ prevBreak'
<1>1. /\ wait \in Nat /\ Updates \in Nat /\ Successes \in Nat
      /\ Updates + Successes <= wait
      /\ linked /\ wait > 0 => stopped /\ prevBreak
  BY WaitCounts DEF WaitInv
<1>2. linked' => linked
  BY NeverRelinked
<1>3. UpdateMsg \cup StateMsg \cup AddedMsg \cup ValueMsg \cup EndMsg \subseteq FrameMsg
      /\ PlainMsg \cup SuccessMsg \cup RequestMsg \cup SaveMsg \subseteq ContextMsg
  BY QueueTypes
<1>4. ASSUME wait' = wait, Updates' = Updates, Successes' = Successes PROVE Counted
  BY ONLY <1>1, <1>4
<1>5. ASSUME UNCHANGED <<wait, stopped, prevBreak>> PROVE Told
  BY ONLY <1>1, <1>2, <1>5
<1> HIDE DEF Counted, Told
<1>6. ASSUME NEW k \in Keys, LoadFile(k) PROVE Counted /\ Told
  <2>1. UNCHANGED <<wait, stopped, prevBreak, f2s>>
    BY <1>6, LoadFileDoes
  <2>2. Updates' = Updates
    <3>1. CASE UNCHANGED s2f
      BY <3>1, WaitCounts
    <3>2. CASE FileAdded(k) \in AddedMsg /\ s2f' = Append(s2f, FileAdded(k))
      <4>1. FileAdded(k) \in FrameMsg /\ FileAdded(k) \notin UpdateMsg
        BY <1>3, <3>2, Kinds
      <4> QED
        BY <3>2, <4>1, WaitCounts
    <3> QED
      BY <1>6, <3>1, <3>2, LoadFileDoes
  <2> QED
    BY <1>4, <1>5, <2>1, <2>2, WaitCounts
<1>7. ASSUME HookLine
       PROVE  Counted /\ Told
  <2>1. /\ linked /\ ~stopped /\ StateOf(TRUE) \in StateMsg
        /\ s2f' = Append(s2f, StateOf(TRUE)) /\ UNCHANGED <<wait, f2s>>
    BY <1>7, HookLineDoes DEF HookLine
  <2>2. StateOf(TRUE) \in FrameMsg /\ StateOf(TRUE) \notin UpdateMsg
    BY <1>3, <2>1, Kinds
  <2>3. Updates' = Updates /\ Successes' = Successes
    BY <2>1, <2>2, WaitCounts
  <2>4. Told
    BY ONLY <1>1, <2>1 DEF Told
  <2> QED
    BY <1>4, <2>1, <2>3, <2>4
<1>8. ASSUME SendUpdateSource
       PROVE  Counted /\ Told
  <2>1. /\ wait' = wait + 1 /\ prevBreak' = TRUE /\ UNCHANGED <<stopped, f2s>>
        /\ stopped /\ StopUpdate \in UpdateMsg
    BY <1>8, SendUpdateSourceDoes DEF SendUpdateSource
  <2>2. Updates' = Updates + 1
    <3>1. CASE s2f' = Append(s2f, StopUpdate)
      BY <1>3, <2>1, <3>1, WaitCounts
    <3>2. CASE FileAdded(stop.key) \in AddedMsg
               /\ s2f' = Append(Append(s2f, FileAdded(stop.key)), StopUpdate)
      BY <2>1, <3>2, WaitCounts
    <3> QED
      BY <1>8, <3>1, <3>2, SendUpdateSourceDoes
  <2>3. Successes' = Successes
    BY <2>1, WaitCounts
  <2>4. Counted
    BY ONLY <1>1, <2>1, <2>2, <2>3 DEF Counted
  <2> QED
    BY <2>1, <2>4 DEF Told
<1>9. ASSUME HandleResume
       PROVE  Counted /\ Told
  <2>1. /\ f2s # <<>> /\ f2s' = Tail(f2s) /\ Head(f2s) \in PlainMsg
        /\ StateOf(FALSE) \in StateMsg
        /\ UNCHANGED <<wait, prevBreak>>
        /\ s2f' = s2f \/ s2f' = Append(s2f, StateOf(FALSE))
        /\ stopped' = stopped \/ ~(wait > 0)
    BY <1>9, HandleResumeDoes DEF HandleResume
  <2>2. StateOf(FALSE) \in FrameMsg /\ StateOf(FALSE) \notin UpdateMsg
        /\ Head(f2s) \notin SuccessMsg
    BY <1>3, <2>1, Kinds
  <2>3. Updates' = Updates /\ Successes' = Successes
    BY <2>1, <2>2, WaitCounts
  <2>4. Told
    <3>1. CASE wait > 0
      <4>1. UNCHANGED <<wait, prevBreak, stopped>>
        BY ONLY <2>1, <3>1
      <4> QED
        BY <1>5, <4>1
    <3>2. CASE ~(wait > 0)
      <4>1. ~(wait' > 0)
        BY ONLY <2>1, <3>2
      <4> QED
        BY ONLY <4>1 DEF Told
    <3> QED
      BY <3>1, <3>2
  <2> QED
    BY <1>4, <2>1, <2>3, <2>4
<1>10. ASSUME HandleForceUpdateSource \/ HandleSaveSource
       PROVE  Counted /\ Told
  <2>1. UNCHANGED <<wait, stopped, prevBreak, s2f>>
    BY <1>10 DEF HandleForceUpdateSource, HandleSaveSource
  <2>2. f2s # <<>> /\ f2s' = Tail(f2s) /\ Head(f2s) \in PlainMsg \cup SaveMsg
    <3>1. Receives("FORCE_UPDATESOURCE") \/ Receives("SAVE_SOURCE")
      BY <1>10 DEF HandleForceUpdateSource, HandleSaveSource
    <3> QED
      BY <3>1, ReceivesDoes
  <2>3. Head(f2s) \notin SuccessMsg
    BY <2>2, Kinds
  <2>4. Updates' = Updates /\ Successes' = Successes
    BY <2>1, <2>2, <2>3, WaitCounts
  <2> QED
    BY <1>4, <1>5, <2>1, <2>4
<1>11. ASSUME HandleSuccessed
       PROVE  Counted /\ Told
  <2>1. Receives("SUCCESSED") /\ wait' = wait - 1 /\ UNCHANGED <<stopped, prevBreak, s2f>>
    BY <1>11 DEF HandleSuccessed
  <2>2. f2s # <<>> /\ f2s' = Tail(f2s) /\ Head(f2s) \in SuccessMsg
    BY <2>1, ReceivesDoes
  <2>3. Updates' = Updates /\ Successes' = Successes - 1
    BY <2>1, <2>2, WaitCounts
  <2>4. Successes' \in Nat
    <3>1. f2s' \in Seq(ContextMsg)
      BY <2>2, QueueTypes
    <3> QED
      BY <3>1, HowManyNat DEF Successes
  <2>5. Counted
    BY ONLY <1>1, <2>1, <2>3, <2>4 DEF Counted
  <2>6. wait' > 0 => wait > 0
    BY ONLY <1>1, <2>1
  <2>7. Told
    BY ONLY <1>1, <1>2, <2>1, <2>6 DEF Told
  <2> QED
    BY <2>5, <2>7
<1>12. ASSUME HandleRequestSource
       PROVE  Counted /\ Told
  <2>1. /\ f2s # <<>> /\ f2s' = Tail(f2s) /\ Head(f2s) \in RequestMsg
        /\ AnswerTo(Head(f2s).event) \in ValueMsg
        /\ s2f' = s2f \/ s2f' = Append(s2f, AnswerTo(Head(f2s).event))
    BY <1>12, HandleRequestSourceDoes
  <2>2. AnswerTo(Head(f2s).event) \in FrameMsg /\ AnswerTo(Head(f2s).event) \notin UpdateMsg
        /\ Head(f2s) \notin SuccessMsg
    BY <1>3, <2>1, Kinds
  <2>3. Updates' = Updates /\ Successes' = Successes
    BY <2>1, <2>2, WaitCounts
  <2>4. UNCHANGED <<wait, stopped, prevBreak>>
    BY <1>12 DEF HandleRequestSource, program
  <2> QED
    BY <1>4, <1>5, <2>3, <2>4
<1>13. ASSUME OnUpdateSource
       PROVE  Counted /\ Told
  <2>1. /\ s2f # <<>> /\ s2f' = Tail(s2f) /\ Head(s2f) \in UpdateMsg
        /\ Success \in SuccessMsg /\ RequestFor(Head(s2f)) \in RequestMsg
        /\ \/ f2s' = f2s
           \/ f2s' = Append(f2s, Success)
           \/ f2s' = Append(Append(f2s, RequestFor(Head(s2f))), Success)
    BY <1>13, OnUpdateSourceDoes
  <2>2. UNCHANGED <<wait, stopped, prevBreak>>
    BY <1>13 DEF OnUpdateSource, program
  <2>3. Updates' = Updates - 1
    BY <2>1, WaitCounts
  <2>4. Successes' = Successes \/ Successes' = Successes + 1
    BY <1>3, <2>1, WaitCounts
  <2>5. Counted
    BY ONLY <1>1, <2>2, <2>3, <2>4 DEF Counted
  <2> QED
    BY <1>5, <2>2, <2>5
<1>14. ASSUME OnPendingEvent
       PROVE  Counted /\ Told
  <2>1. /\ RequestFor(Head(pending)) \in RequestMsg
        /\ f2s' = f2s \/ f2s' = Append(f2s, RequestFor(Head(pending)))
    BY <1>14, OnPendingEventDoes
  <2>2. UNCHANGED <<wait, stopped, prevBreak, s2f>>
    BY <1>14 DEF OnPendingEvent, program
  <2>3. RequestFor(Head(pending)) \in ContextMsg /\ RequestFor(Head(pending)) \notin SuccessMsg
    BY <1>3, <2>1, Kinds
  <2>4. Updates' = Updates /\ Successes' = Successes
    BY <2>1, <2>2, <2>3, WaitCounts
  <2> QED
    BY <1>4, <1>5, <2>2, <2>4
<1>15. ASSUME OnValueSource \/ OnAddedSource \/ OnChangedState \/ OnEndDebug
       PROVE  Counted /\ Told
  <2>1. UNCHANGED <<wait, stopped, prevBreak, f2s>>
    BY <1>15 DEF OnValueSource, OnAddedSource, OnChangedState, OnEndDebug, program
  <2>2. s2f # <<>> /\ s2f' = Tail(s2f)
        /\ Head(s2f) \in ValueMsg \cup AddedMsg \cup StateMsg \cup EndMsg
    <3>1. \/ Processes("VALUE_SOURCE") \/ Processes("ADDED_SOURCE")
          \/ Processes("CHANGED_STATE") \/ Processes("END_CONNECTION")
      BY <1>15 DEF OnValueSource, OnAddedSource, OnChangedState, OnEndDebug
    <3> QED
      BY <3>1, ProcessesDoes
  <2>3. Head(s2f) \notin UpdateMsg
    BY <2>2, Kinds
  <2>4. Updates' = Updates /\ Successes' = Successes
    BY <2>1, <2>2, <2>3, WaitCounts
  <2> QED
    BY <1>4, <1>5, <2>1, <2>4
<1>16. ASSUME SaveSource
       PROVE  Counted /\ Told
  <2>1. /\ SaveOf(pages[selected]) \in SaveMsg
        /\ f2s' = Append(f2s, SaveOf(pages[selected]))
    BY <1>16, SaveSourceDoes
  <2>2. UNCHANGED <<wait, stopped, prevBreak, s2f>>
    BY <1>16 DEF SaveSource, program
  <2>3. SaveOf(pages[selected]) \in ContextMsg /\ SaveOf(pages[selected]) \notin SuccessMsg
    BY <1>3, <2>1, Kinds
  <2>4. Updates' = Updates /\ Successes' = Successes
    BY <2>1, <2>2, <2>3, WaitCounts
  <2> QED
    BY <1>4, <1>5, <2>2, <2>4
<1>17. ASSUME NEW type \in {"RESUME", "FORCE_UPDATESOURCE"}, Sends(type)
       PROVE  Counted /\ Told
  <2>1. /\ [type |-> type] \in PlainMsg
        /\ f2s' = Append(f2s, [type |-> type])
    BY <1>17, SendsDoes
  <2>2. UNCHANGED <<wait, stopped, prevBreak, s2f>>
    BY <1>17 DEF Sends, program
  <2>3. [type |-> type] \in ContextMsg /\ [type |-> type] \notin SuccessMsg
    BY <1>3, <2>1, Kinds
  <2>4. Updates' = Updates /\ Successes' = Successes
    BY <2>1, <2>2, <2>3, WaitCounts
  <2> QED
    BY <1>4, <1>5, <2>2, <2>4
<1>18. ASSUME HandleBreakpoint \/ OnBreakpoints \/ Edit
              \/ (\E j \in DOMAIN pages : Select(j))
              \/ (\E bp \in Breakpoints : Click(bp)) \/ UNCHANGED allVars
       PROVE  Counted /\ Told
  <2>1. UNCHANGED <<wait, stopped, prevBreak, s2f, f2s>>
    BY <1>18 DEF HandleBreakpoint, OnBreakpoints, Edit, Select, Click, allVars,
                 pageVars, program
  <2> QED
    BY <1>4, <1>5, <2>1, WaitCounts
<1>19. ASSUME Lose
       PROVE  Counted /\ Told
  <2>1. ~linked' /\ UNCHANGED wait
    BY <1>19, LoseDoes DEF Lose
  <2>2. Updates' <= Updates /\ Updates' \in Nat
    <3>1. PICK n \in 0 .. Len(s2f) : s2f' = Append(SubSeq(s2f, 1, n), EndOfQueue)
      BY <1>19, LoseDoes
    <3>2. EndOfQueue \in FrameMsg /\ EndOfQueue \notin UpdateMsg
      BY <1>3, <1>19, LoseDoes, Kinds
    <3>3. s2f \in Seq(FrameMsg)
      BY DEF TypesInv
    <3> DEFINE q == SubSeq(s2f, 1, n)
    <3>4. q \in Seq(FrameMsg) /\ HowMany(q, UpdateMsg) <= HowMany(s2f, UpdateMsg)
      BY ONLY <3>3, PrefixFacts
    <3> HIDE DEF q
    <3>5. HowMany(Append(q, EndOfQueue), UpdateMsg)
          = HowMany(q, UpdateMsg) + OneIf(EndOfQueue, UpdateMsg)
      BY ONLY <3>2, <3>4, AppendCounts
    <3>6. OneIf(EndOfQueue, UpdateMsg) = 0
      BY <3>2 DEF OneIf
    <3>7. HowMany(q, UpdateMsg) \in Nat
      BY ONLY <3>4, HowManyNat
    <3>8. Updates' = HowMany(q, UpdateMsg) + 0
      BY ONLY <3>1, <3>5, <3>6 DEF Updates, q
    <3> QED
      BY ONLY <3>4, <3>7, <3>8 DEF Updates
  <2>3. Successes' <= Successes /\ Successes' \in Nat
    <3>1. PICK n \in 0 .. Len(f2s) : f2s' = SubSeq(f2s, 1, n)
      BY <1>19, LoseDoes
    <3>2. f2s \in Seq(ContextMsg)
      BY DEF TypesInv
    <3> DEFINE q == SubSeq(f2s, 1, n)
    <3>3. q \in Seq(ContextMsg) /\ HowMany(q, SuccessMsg) <= HowMany(f2s, SuccessMsg)
      BY ONLY <3>2, PrefixFacts
    <3> HIDE DEF q
    <3>4. HowMany(q, SuccessMsg) \in Nat
      BY ONLY <3>3, HowManyNat
    <3> QED
      BY ONLY <3>1, <3>3, <3>4 DEF Successes, q
  <2>4. wait' = wait
    BY <2>1
  <2>5. \A a, b, c, d, w \in Nat : a <= b /\ c <= d /\ b + d <= w => a + c <= w
    OBVIOUS
  <2>6. Counted
    BY ONLY <1>1, <2>2, <2>3, <2>4, <2>5 DEF Counted
  <2> QED
    BY <2>1, <2>6 DEF Told
<1>20. Counted /\ Told
  BY <1>6, <1>7, <1>8, <1>9, <1>10, <1>11, <1>12, <1>13, <1>14, <1>15, <1>16,
     <1>17, <1>18, <1>19
  DEF PagesNext, ContextStep, FrameStep, UserStep
<1>21. ASSUME linked', NEW i \in DOMAIN s2f'
       PROVE  /\ s2f'[i] \in UpdateMsg => s2f'[i].key = stop'.key /\ s2f'[i].line = stop'.n
              /\ s2f'[i] \notin EndMsg
  <2>1. CASE s2f'[i] = StopUpdate /\ UNCHANGED stop
    <3>1. StopUpdate \in UpdateMsg /\ StopUpdate.key = stop.key /\ StopUpdate.line = stop.n
      BY MessageTypes, MessageFields
    <3> QED
      BY <2>1, <3>1, Kinds
  <2>2. CASE s2f'[i] \in StateMsg \cup AddedMsg \cup ValueMsg
    BY <2>2, Kinds
  <2>3. CASE \E j \in DOMAIN s2f : s2f'[i] = s2f[j]
    <3>1. PICK j \in DOMAIN s2f : s2f'[i] = s2f[j]
      BY <2>3
    <3>2. /\ s2f[j] \in UpdateMsg => s2f[j].key = stop.key /\ s2f[j].line = stop.n
          /\ s2f[j] \notin EndMsg
      BY <1>2, <1>21 DEF WaitInv
    <3>3. CASE UNCHANGED stop
      BY <3>1, <3>2, <3>3
    <3>4. CASE HookLine
      <4>1. ~(wait > 0)
        BY <1>1, <3>4, HookLineDoes
      <4>2. s2f[j] \notin UpdateMsg
        BY <4>1, NothingAwaited DEF NoneIn
      <4> QED
        BY <3>1, <3>2, <4>2
    <3>5. CASE SendUpdateSource \/ HandleBreakpoint \/ HandleResume
               \/ HandleForceUpdateSource \/ HandleSuccessed \/ HandleRequestSource
               \/ HandleSaveSource \/ (\E k \in Keys : LoadFile(k))
      BY <3>3, <3>5
      DEF SendUpdateSource, HandleBreakpoint, HandleResume,
          HandleForceUpdateSource, HandleSuccessed, HandleRequestSource,
          HandleSaveSource, LoadFile, pageVars, program
    <3>6. CASE FrameStep \/ UserStep \/ Lose \/ UNCHANGED allVars
      BY <3>3, <3>6
      DEF FrameStep, UserStep, OnUpdateSource, OnPendingEvent, OnValueSource,
          OnAddedSource, OnChangedState, OnEndDebug, OnBreakpoints, Edit, SaveSource,
          Select, Click, Sends, Lose, allVars, pageVars, program
    <3> QED
      BY <3>4, <3>5, <3>6 DEF PagesNext, ContextStep
  <2> QED
    BY <1>21, <2>1, <2>2, <2>3, NewToFrame
<1> QED
  BY <1>20, <1>21 DEF WaitInv, Counted, Told

-----------------------------------------------------------------------------
(* One page per source *)

AddedOf(k) == {m \in AddedMsg : m.key = k}
FreshOf(k) == {m \in Freshes : m.key = k}
PageFor(k) == \E i \in DOMAIN pages : pages[i].key = k

(* A source has at most one page or ADDED_SOURCE on its way, and none if the *)
(* context does not know it.                                                 *)
UniqueAt(k) ==
    /\ AtMostOne(s2f, AddedOf(k))
    /\ PageFor(k) => NoneIn(s2f, AddedOf(k)) /\ sources[k] # NoText
    /\ sources[k] = NoText => NoneIn(s2f, AddedOf(k))

UniquePages == \A i, j \in DOMAIN pages : pages[i].key = pages[j].key => i = j

(* What the context knows has a page, or will have when the updates of the   *)
(* stop are processed.                                                       *)
KnownAt(k) ==
    sources[k] # NoText /\ ~PageFor(k) =>
        ~NoneIn(s2f, AddedOf(k)) /\ Preceded(s2f, FreshOf(k), AddedOf(k))

(* What is asked of the context it does not know, so no event is kept for an *)
(* answer.  An answered request is followed by the answer to its update.     *)
NoSourceInAnswers == \A i \in DOMAIN s2f : s2f[i] \in ValueMsg => s2f[i].text = NoText
RequestsUnknown ==
    /\ Followed(f2s, RequestMsg, SuccessMsg)
    /\ \A i \in DOMAIN f2s : f2s[i] \in RequestMsg => sources[f2s[i].event.key] = NoText

PageInv ==
    ~recovered =>
        /\ UniquePages
        /\ \A k \in Keys : UniqueAt(k)
        /\ pending = <<>>
        /\ NoSourceInAnswers
        /\ linked => RequestsUnknown /\ \A k \in Keys : KnownAt(k)

LEMMA NeverUnrecovered ==
    ASSUME TypesInv, [PagesNext]_allVars, ~recovered'
    PROVE  ~recovered
<1>1. CASE SendUpdateSource
  BY <1>1, SendUpdateSourceDoes
<1>2. CASE HookLine \/ HandleBreakpoint \/ HandleResume
           \/ HandleForceUpdateSource \/ HandleSuccessed \/ HandleRequestSource
           \/ HandleSaveSource \/ (\E k \in Keys : LoadFile(k))
  BY <1>2
  DEF HookLine, HandleBreakpoint, HandleResume, HandleForceUpdateSource,
      HandleSuccessed, HandleRequestSource, HandleSaveSource, LoadFile, pageVars,
      history
<1>3. CASE FrameStep \/ UserStep \/ Lose \/ UNCHANGED allVars
  BY <1>3
  DEF FrameStep, UserStep, OnUpdateSource, OnPendingEvent, OnValueSource,
      OnAddedSource, OnChangedState, OnEndDebug, OnBreakpoints, Edit, SaveSource,
      Select, Click, Sends, Lose, allVars, pageVars, history
<1> QED
  BY <1>1, <1>2, <1>3 DEF PagesNext, ContextStep

LEMMA SourcesChange ==
    ASSUME TypesInv, WaitInv, [PagesNext]_allVars, ~recovered'
    PROVE  UNCHANGED sources \/ ~(wait > 0)
<1>1. linked /\ wait > 0 => stopped /\ prevBreak
  BY DEF WaitInv
<1>2. CASE SendUpdateSource
  BY <1>1, <1>2, SendUpdateSourceDoes
<1>3. ASSUME NEW k \in Keys, LoadFile(k) PROVE ~(wait > 0)
  BY <1>1, <1>3, LoadFileDoes
<1>4. CASE HookLine \/ HandleBreakpoint \/ HandleResume
           \/ HandleForceUpdateSource \/ HandleSuccessed \/ HandleRequestSource
           \/ HandleSaveSource
  BY <1>4
  DEF HookLine, HandleBreakpoint, HandleResume, HandleForceUpdateSource,
      HandleSuccessed, HandleRequestSource, HandleSaveSource, pageVars, program
<1>5. CASE FrameStep \/ UserStep \/ Lose \/ UNCHANGED allVars
  BY <1>5
  DEF FrameStep, UserStep, OnUpdateSource, OnPendingEvent, OnValueSource,
      OnAddedSource, OnChangedState, OnEndDebug, OnBreakpoints, Edit, SaveSource,
      Select, Click, Sends, Lose, allVars, pageVars, program
<1> QED
  BY <1>2, <1>3, <1>4, <1>5 DEF PagesNext, ContextStep

(* The pages of the sources stay. *)
SameKeys ==
    /\ DOMAIN pages' = DOMAIN pages
    /\ \A i \in DOMAIN pages : pages'[i].key = pages[i].key

LEMMA SameKeysKeep ==
    ASSUME SameKeys
    PROVE  /\ \A k : PageFor(k)' <=> PageFor(k)
           /\ UniquePages => UniquePages'
  BY DEF SameKeys, PageFor, UniquePages

(* What befalls the queue without touching the source k. *)
Elsewhere(k) ==
    \/ UNCHANGED s2f
    \/ s2f # <<>> /\ s2f' = Tail(s2f) /\ Head(s2f) \notin AddedOf(k)
    \/ \E m \in FrameMsg : s2f' = Append(s2f, m) /\ m \notin AddedOf(k)
    \/ \E m, n \in FrameMsg : /\ s2f' = Append(Append(s2f, m), n)
                              /\ m \notin AddedOf(k) /\ n \notin AddedOf(k)

LEMMA ElsewhereKeeps ==
    ASSUME TypesInv, NEW k, Elsewhere(k), sources'[k] = sources[k],
           PageFor(k)' <=> PageFor(k)
    PROVE  /\ UniqueAt(k) => UniqueAt(k)'
           /\ KnownAt(k) => KnownAt(k)'
<1> DEFINE A == AddedOf(k)
           F == FreshOf(k)
<1>0. AddedOf(k)' = A /\ FreshOf(k)' = F
  BY DEF AddedOf, FreshOf
<1>1. s2f \in Seq(FrameMsg)
  BY DEF TypesInv
<1>2. /\ AtMostOne(s2f, A) => AtMostOne(s2f', A)
      /\ NoneIn(s2f', A) <=> NoneIn(s2f, A)
      /\ ~NoneIn(s2f, A) /\ Preceded(s2f, F, A) => Preceded(s2f', F, A)
  <2>1. CASE UNCHANGED s2f
    BY <2>1
  <2> HIDE DEF A, F
  <2>2. CASE s2f # <<>> /\ s2f' = Tail(s2f) /\ Head(s2f) \notin A
    <3>1. /\ NoneIn(s2f, A) <=> NoneIn(Tail(s2f), A) /\ Head(s2f) \notin A
          /\ AtMostOne(s2f, A) => AtMostOne(Tail(s2f), A)
      BY <1>1, <2>2, TailOrder
    <3>2. Preceded(s2f, F, A) /\ Head(s2f) \notin A => Preceded(Tail(s2f), F, A)
      BY <1>1, <2>2, TailOrder
    <3> QED
      BY <2>2, <3>1, <3>2
  <2>3. ASSUME NEW q \in Seq(FrameMsg), NEW m \in FrameMsg, m \notin A
        PROVE  /\ Append(q, m) \in Seq(FrameMsg)
               /\ AtMostOne(q, A) => AtMostOne(Append(q, m), A)
               /\ NoneIn(Append(q, m), A) <=> NoneIn(q, A)
               /\ ~NoneIn(q, A) /\ Preceded(q, F, A) => Preceded(Append(q, m), F, A)
    <3>1. /\ NoneIn(Append(q, m), A) <=> NoneIn(q, A) /\ m \notin A
          /\ AtMostOne(q, A) /\ (m \notin A \/ NoneIn(q, A))
                 => AtMostOne(Append(q, m), A)
      BY AppendOrder
    <3>2. Preceded(q, F, A) /\ (m \notin F \/ ~NoneIn(q, A))
              => Preceded(Append(q, m), F, A)
      BY AppendOrder
    <3>3. Append(q, m) \in Seq(FrameMsg)
      BY AppendProperties
    <3> QED
      BY <2>3, <3>1, <3>2, <3>3
  <2>4. ASSUME NEW m \in FrameMsg, s2f' = Append(s2f, m), m \notin A
        PROVE  /\ AtMostOne(s2f, A) => AtMostOne(s2f', A)
               /\ NoneIn(s2f', A) <=> NoneIn(s2f, A)
               /\ ~NoneIn(s2f, A) /\ Preceded(s2f, F, A) => Preceded(s2f', F, A)
    BY ONLY <1>1, <2>3, <2>4
  <2>5. ASSUME NEW m \in FrameMsg, NEW n \in FrameMsg, m \notin A, n \notin A,
               s2f' = Append(Append(s2f, m), n)
        PROVE  /\ AtMostOne(s2f, A) => AtMostOne(s2f', A)
               /\ NoneIn(s2f', A) <=> NoneIn(s2f, A)
               /\ ~NoneIn(s2f, A) /\ Preceded(s2f, F, A) => Preceded(s2f', F, A)
    <3> DEFINE q == Append(s2f, m)
    <3>1. /\ q \in Seq(FrameMsg)
          /\ AtMostOne(s2f, A) => AtMostOne(q, A)
          /\ NoneIn(q, A) <=> NoneIn(s2f, A)
          /\ ~NoneIn(s2f, A) /\ Preceded(s2f, F, A) => Preceded(q, F, A)
      BY ONLY <1>1, <2>3, <2>5
    <3>2. s2f' = Append(q, n)
      BY <2>5
    <3> HIDE DEF q
    <3>3. /\ AtMostOne(q, A) => AtMostOne(s2f', A)
          /\ NoneIn(s2f', A) <=> NoneIn(q, A)
          /\ ~NoneIn(q, A) /\ Preceded(q, F, A) => Preceded(s2f', F, A)
      BY ONLY <2>3, <2>5, <3>1, <3>2
    <3> QED
      BY <3>1, <3>3
  <2> QED
    BY <2>1, <2>2, <2>4, <2>5 DEF Elsewhere, A
<1> HIDE DEF A, F
<1>3. AddedOf(k) = A /\ FreshOf(k) = F
  BY DEF A, F
<1>4. ASSUME UniqueAt(k) PROVE UniqueAt(k)'
  <2>1. /\ AtMostOne(s2f, A)
        /\ PageFor(k) => NoneIn(s2f, A) /\ sources[k] # NoText
        /\ sources[k] = NoText => NoneIn(s2f, A)
    BY <1>3, <1>4 DEF UniqueAt
  <2>2. /\ AtMostOne(s2f', A)
        /\ PageFor(k)' => NoneIn(s2f', A) /\ sources'[k] # NoText
        /\ sources'[k] = NoText => NoneIn(s2f', A)
    BY <1>2, <2>1
  <2> QED
    BY <1>0, <2>2 DEF UniqueAt
<1>5. ASSUME KnownAt(k) PROVE KnownAt(k)'
  <2>1. sources[k] # NoText /\ ~PageFor(k) => ~NoneIn(s2f, A) /\ Preceded(s2f, F, A)
    BY <1>3, <1>5 DEF KnownAt
  <2>2. sources'[k] # NoText /\ ~PageFor(k)' => ~NoneIn(s2f', A) /\ Preceded(s2f', F, A)
    BY <1>2, <2>1
  <2> QED
    BY <1>0, <2>2 DEF KnownAt
<1> QED
  BY <1>4, <1>5

(* A source that becomes known is added, and is new. *)
LEMMA AddedKeeps ==
    ASSUME TypesInv, NEW k, UniqueAt(k), sources[k] = NoText,
           NoneIn(s2f, UpdateMsg), NEW m \in AddedMsg, m.key = k,
           \/ s2f' = Append(s2f, m)
           \/ \E n \in UpdateMsg : s2f' = Append(Append(s2f, m), n),
           sources'[k] # NoText, UNCHANGED pages
    PROVE  UniqueAt(k)' /\ KnownAt(k)'
<1> DEFINE A == AddedOf(k)
           F == FreshOf(k)
           q == Append(s2f, m)
<1>0. AddedOf(k)' = A /\ FreshOf(k)' = F /\ (PageFor(k)' <=> PageFor(k))
  BY DEF AddedOf, FreshOf, PageFor
<1>1. s2f \in Seq(FrameMsg) /\ m \in FrameMsg
  BY QueueTypes DEF TypesInv
<1>2. /\ F \subseteq UpdateMsg /\ m \in A /\ m \notin F
      /\ \A n \in UpdateMsg : n \notin A /\ n \in FrameMsg
  BY Kinds, QueueTypes DEF AddedOf, FreshOf, Freshes
<1>3. NoneIn(s2f, A) /\ ~PageFor(k)
  BY DEF UniqueAt
<1>4. NoneIn(s2f, F)
  BY <1>2 DEF NoneIn
<1> HIDE DEF A, F
<1>5. AtMostOne(s2f, A) /\ Preceded(s2f, F, A)
  BY <1>3, <1>4 DEF NoneIn, AtMostOne, Preceded
<1>6. /\ q \in Seq(FrameMsg)
      /\ AtMostOne(q, A) /\ ~NoneIn(q, A) /\ Preceded(q, F, A)
  <2>1. AtMostOne(q, A)
    BY <1>1, <1>3, <1>5, AppendOrder
  <2>2. ~NoneIn(q, A)
    BY <1>1, <1>2, AppendOrder
  <2>3. Preceded(q, F, A)
    BY <1>1, <1>2, <1>5, AppendOrder
  <2> QED
    BY <1>1, <2>1, <2>2, <2>3, AppendProperties
<1> HIDE DEF q
<1>7. ASSUME NEW n \in UpdateMsg
      PROVE  /\ AtMostOne(Append(q, n), A) /\ ~NoneIn(Append(q, n), A)
             /\ Preceded(Append(q, n), F, A)
  <2>1. AtMostOne(Append(q, n), A)
    BY <1>2, <1>6, AppendOrder
  <2>2. ~NoneIn(Append(q, n), A)
    BY <1>2, <1>6, AppendOrder
  <2>3. Preceded(Append(q, n), F, A)
    BY <1>2, <1>6, AppendOrder
  <2> QED
    BY <2>1, <2>2, <2>3
<1>8. s2f' = q \/ \E n \in UpdateMsg : s2f' = Append(q, n)
  BY DEF q
<1>9. AtMostOne(s2f', A) /\ ~NoneIn(s2f', A) /\ Preceded(s2f', F, A)
  BY ONLY <1>6, <1>7, <1>8
<1>10. UniqueAt(k)'
  BY <1>0, <1>3, <1>9 DEF UniqueAt
<1>11. KnownAt(k)'
  BY <1>0, <1>9 DEF KnownAt
<1> QED
  BY <1>10, <1>11

(* The page of the source that is added at the head of the queue. *)
LEMMA AddedShown ==
    ASSUME TypesInv, TypeOK, OnAddedSource, NEW k,
           AtMostOne(s2f, AddedOf(k)),
           PageFor(k) => NoneIn(s2f, AddedOf(k)) /\ sources[k] # NoText,
           sources[k] = NoText => NoneIn(s2f, AddedOf(k)),
           k = Head(s2f).key
    PROVE  /\ UniqueAt(k)' /\ KnownAt(k)'
           /\ ~PageFor(k)
           /\ UniquePages => UniquePages'
<1> DEFINE A == AddedOf(k)
<1>1. /\ s2f # <<>> /\ s2f' = Tail(s2f) /\ Head(s2f) \in AddedMsg
      /\ k \in Keys /\ Head(s2f).text \in FullText
      /\ CreatePage(k, Head(s2f).text) /\ UNCHANGED sources
  BY OnAddedSourceDoes DEF OnAddedSource, pageVars, program
<1>2. s2f \in Seq(FrameMsg)
  BY DEF TypesInv
<1>3. Head(s2f) \in A /\ AddedOf(k)' = A
  BY <1>1 DEF AddedOf
<1> HIDE DEF A
<1>4. AddedOf(k) = A
  BY DEF A
<1>5. ~NoneIn(s2f, A)
  BY <1>1, <1>2, <1>3, TailOrder
<1>6. ~PageFor(k) /\ sources[k] # NoText
  BY <1>4, <1>5
<1>7. NoneIn(s2f', A)
  BY <1>1, <1>2, <1>3, <1>4, TailOrder
<1>8. AtMostOne(s2f', A)
  BY <1>7 DEF NoneIn, AtMostOne
<1> DEFINE l == Len(pages) + 1
           p == NewPage(k, Head(s2f).text)
<1>9. /\ pages'[l] = p /\ l \in DOMAIN pages' /\ l \notin DOMAIN pages
      /\ \A i \in DOMAIN pages : i \in DOMAIN pages' /\ pages'[i] = pages[i]
      /\ \A i \in DOMAIN pages' : i \in DOMAIN pages \/ i = l
  BY <1>1, CreatePageDoes
<1>10. p.key = k
  BY <1>1, NewPageFields
<1> HIDE DEF l, p
<1>11. PageFor(k)'
  BY <1>9, <1>10 DEF PageFor
<1>12. UniqueAt(k)'
  BY <1>1, <1>3, <1>6, <1>7, <1>8 DEF UniqueAt
<1>13. KnownAt(k)'
  BY <1>11 DEF KnownAt
<1>14. UniquePages => UniquePages'
  BY <1>6, <1>9, <1>10 DEF UniquePages, PageFor
<1> QED
  BY <1>6, <1>12, <1>13, <1>14

(* The page of another source is none for this one. *)
LEMMA OtherPageShown ==
    ASSUME TypesInv, TypeOK, NEW k \in Keys, NEW text \in FullText,
           CreatePage(k, text), NEW l, l # k
    PROVE  PageFor(l)' <=> PageFor(l)
<1>1. NewPage(k, text).key = k
  BY NewPageFields
<1>2. PageFor(l) => PageFor(l)'
  BY CreatePageDoes DEF PageFor
<1>3. PageFor(l)' => PageFor(l)
  <2> SUFFICES ASSUME NEW i \in DOMAIN pages', pages'[i].key = l
               PROVE  i \in DOMAIN pages /\ pages[i].key = l
    BY DEF PageFor
  <2>1. i # Len(pages) + 1
    BY <1>1, CreatePageDoes
  <2> QED
    BY <2>1, CreatePageDoes
<1> QED
  BY <1>2, <1>3

LEMMA PagesKeepKeys ==
    ASSUME TypesInv, TypesInv', TypeOK, TypeOK', WaitInv, PageInv,
           [PagesNext]_allVars, ~recovered'
    PROVE  /\ UniquePages'
           /\ \A k \in Keys : UniqueAt(k)'
           /\ linked' => \A k \in Keys : KnownAt(k)'
<1> DEFINE Kept(k) == UniqueAt(k)' /\ (linked' => KnownAt(k)')
           Goal == UniquePages' /\ \A k \in Keys : Kept(k)
<1>1. /\ ~recovered /\ UniquePages /\ \A k \in Keys : UniqueAt(k)
      /\ pending = <<>> /\ NoSourceInAnswers
      /\ linked => \A k \in Keys : KnownAt(k)
  BY NeverUnrecovered DEF PageInv
<1>2. linked' => linked
  BY NeverRelinked
<1>3. ASSUME SameKeys, UNCHANGED sources, \A k \in Keys : Elsewhere(k) PROVE Goal
  <2>1. ASSUME NEW k \in Keys PROVE Kept(k)
    BY <1>1, <1>2, <1>3, ElsewhereKeeps, SameKeysKeep
  <2>2. UniquePages'
    BY <1>1, <1>3, SameKeysKeep
  <2> QED
    BY <2>1, <2>2
<1>4. /\ SameButMarks => SameKeys
      /\ SameButTexts => SameKeys
      /\ UNCHANGED pages => SameKeys
  BY DEF SameButMarks, SameButTexts, SameKeys
<1>5. ASSUME NEW k \in Keys
      PROVE  /\ \A m \in StateMsg \cup UpdateMsg \cup ValueMsg \cup EndMsg : m \notin AddedOf(k)
             /\ \A m \in AddedMsg : m.key # k => m \notin AddedOf(k)
  BY Kinds DEF AddedOf
<1>6. \A k \in Keys :
         /\ \A m \in StateMsg \cup UpdateMsg \cup ValueMsg \cup EndMsg : m \notin AddedOf(k)
         /\ \A m \in AddedMsg : m.key # k => m \notin AddedOf(k)
  BY <1>5
<1>7. UpdateMsg \cup StateMsg \cup AddedMsg \cup ValueMsg \cup EndMsg \subseteq FrameMsg
  BY QueueTypes
<1>8. ASSUME NEW m \in StateMsg \cup UpdateMsg \cup ValueMsg, s2f' = Append(s2f, m)
      PROVE  \A k \in Keys : Elsewhere(k)
  BY <1>6, <1>7, <1>8 DEF Elsewhere
<1>9. ASSUME s2f # <<>>, s2f' = Tail(s2f),
             Head(s2f) \in StateMsg \cup UpdateMsg \cup ValueMsg \cup EndMsg
      PROVE  \A k \in Keys : Elsewhere(k)
  BY <1>6, <1>9 DEF Elsewhere
<1>10. ASSUME UNCHANGED s2f PROVE \A k \in Keys : Elsewhere(k)
  BY <1>10 DEF Elsewhere
<1>11. ASSUME NEW k \in Keys, sources[k] = NoText,
              sources' = [sources EXCEPT ![k] = file[k]],
              FileAdded(k) \in AddedMsg, UNCHANGED pages, ~(wait > 0),
              \/ s2f' = Append(s2f, FileAdded(k))
              \/ \E n \in UpdateMsg : s2f' = Append(Append(s2f, FileAdded(k)), n)
       PROVE  Goal
  <2>1. FileAdded(k).key = k
    BY DEF FileAdded
  <2>2. sources'[k] # NoText /\ \A l \in Keys : l # k => sources'[l] = sources[l]
    BY <1>11, TextTypes DEF TypesInv
  <2>3. NoneIn(s2f, UpdateMsg)
    BY <1>11, NothingAwaited
  <2>4. Kept(k)
    BY <1>1, <1>11, <2>1, <2>2, <2>3, AddedKeeps
  <2>5. ASSUME NEW l \in Keys, l # k PROVE Kept(l)
    <3>1. Elsewhere(l)
      BY <1>6, <1>7, <1>11, <2>1, <2>5 DEF Elsewhere
    <3>2. PageFor(l)' <=> PageFor(l)
      BY <1>4, <1>11, SameKeysKeep
    <3> QED
      BY <1>1, <1>2, <2>2, <2>5, <3>1, <3>2, ElsewhereKeeps
  <2>6. UniquePages'
    BY <1>1, <1>4, <1>11, SameKeysKeep
  <2> QED
    BY <2>4, <2>5, <2>6
<1> HIDE DEF Kept, Goal
<1>12. ASSUME NEW k \in Keys, LoadFile(k) PROVE Goal
  <2>1. UNCHANGED pages
    BY <1>12, LoadFileDoes DEF view
  <2>2. ~(wait > 0)
    BY <1>12, LoadFileDoes DEF WaitInv
  <2>3. CASE UNCHANGED <<sources, s2f>>
    BY <1>3, <1>4, <1>10, <2>1, <2>3
  <2> QED
    BY <1>11, <1>12, <2>1, <2>2, <2>3, LoadFileDoes
<1>13. CASE HookLine
  <2>1. UNCHANGED <<pages, sources>>
    BY <1>13 DEF HookLine, view
  <2>2. \A k \in Keys : Elsewhere(k)
    BY <1>8, <1>13, HookLineDoes
  <2>3. Goal
    BY <1>3, <1>4, <2>1, <2>2
  <2> QED
    BY <2>3 DEF Goal, Kept
<1>14. CASE SendUpdateSource
  <2>1. UNCHANGED pages
    BY <1>14 DEF SendUpdateSource, view
  <2>2. StopUpdate \in UpdateMsg /\ stop.key \in Keys /\ linked
    BY <1>14, SendUpdateSourceDoes DEF TypesInv
  <2>3. CASE UNCHANGED sources /\ s2f' = Append(s2f, StopUpdate)
    <3>1. \A k \in Keys : Elsewhere(k)
      BY <1>8, <2>2, <2>3
    <3>2. Goal
      BY <1>3, <1>4, <2>1, <2>3, <3>1
    <3> QED
      BY <3>2 DEF Goal, Kept
  <2>4. CASE /\ sources[stop.key] = NoText
             /\ sources' = [sources EXCEPT ![stop.key] = file[stop.key]]
             /\ FileAdded(stop.key) \in AddedMsg
             /\ s2f' = Append(Append(s2f, FileAdded(stop.key)), StopUpdate)
             /\ (prevBreak => recovered')
    <3>1. ~(wait > 0)
      BY <2>2, <2>4 DEF WaitInv
    <3>2. Goal
      BY <1>11, <2>1, <2>2, <2>4, <3>1
    <3> QED
      BY <3>2 DEF Goal, Kept
  <2> QED
    BY <1>14, <2>3, <2>4, SendUpdateSourceDoes
<1>15. CASE HandleResume
  <2>1. UNCHANGED <<pages, sources>>
    BY <1>15 DEF HandleResume, view
  <2>2. \A k \in Keys : Elsewhere(k)
    BY <1>8, <1>10, <1>15, HandleResumeDoes
  <2>3. Goal
    BY <1>3, <1>4, <2>1, <2>2
  <2> QED
    BY <2>3 DEF Goal, Kept
<1>16. CASE HandleRequestSource
  <2>1. UNCHANGED <<pages, sources>>
    BY <1>16 DEF HandleRequestSource, view, program
  <2>2. \A k \in Keys : Elsewhere(k)
    BY <1>8, <1>10, <1>16, HandleRequestSourceDoes
  <2>3. Goal
    BY <1>3, <1>4, <2>1, <2>2
  <2> QED
    BY <2>3 DEF Goal, Kept
<1>17. CASE OnUpdateSource
  <2>1. UNCHANGED sources
    BY <1>17 DEF OnUpdateSource, program
  <2>2. SameKeys
    BY <1>4, <1>17, OnUpdateSourceDoes, FocusDoes
  <2>3. \A k \in Keys : Elsewhere(k)
    BY <1>9, <1>17, OnUpdateSourceDoes
  <2>4. Goal
    BY <1>3, <2>1, <2>2, <2>3
  <2> QED
    BY <2>4 DEF Goal, Kept
<1>18. CASE OnPendingEvent
  BY <1>1, <1>18, OnPendingEventDoes
<1>19. CASE OnValueSource
  <2>1. s2f # <<>> /\ s2f' = Tail(s2f) /\ Head(s2f) \in ValueMsg
    BY <1>19, OnValueSourceDoes
  <2>2. Head(s2f).text = NoText
    <3>1. Head(s2f) = s2f[1] /\ 1 \in DOMAIN s2f
      BY <2>1, TailFacts DEF TypesInv
    <3> QED
      BY <1>1, <2>1, <3>1 DEF NoSourceInAnswers
  <2>3. UNCHANGED <<pages, sources>>
    BY <1>19, <2>2, OnValueSourceDoes DEF OnValueSource, program
  <2>4. \A k \in Keys : Elsewhere(k)
    BY <1>9, <2>1
  <2>5. Goal
    BY <1>3, <1>4, <2>3, <2>4
  <2> QED
    BY <2>5 DEF Goal, Kept
<1>20. CASE OnAddedSource
  <2>1. /\ s2f # <<>> /\ s2f' = Tail(s2f) /\ Head(s2f) \in AddedMsg
        /\ Head(s2f).key \in Keys /\ Head(s2f).text \in FullText
        /\ CreatePage(Head(s2f).key, Head(s2f).text)
    BY <1>20, OnAddedSourceDoes
  <2>2. UNCHANGED sources
    BY <1>20 DEF OnAddedSource, program
  <2>3. PICK k \in Keys : k = Head(s2f).key
    BY <2>1
  <2>4. Kept(k) /\ UniquePages'
    <3>1. /\ AtMostOne(s2f, AddedOf(k))
          /\ PageFor(k) => NoneIn(s2f, AddedOf(k)) /\ sources[k] # NoText
          /\ sources[k] = NoText => NoneIn(s2f, AddedOf(k))
      BY <1>1 DEF UniqueAt
    <3>2. UniqueAt(k)' /\ KnownAt(k)' /\ (UniquePages => UniquePages')
      BY <1>20, <2>3, <3>1, AddedShown
    <3> QED
      BY <1>1, <3>2 DEF Kept
  <2>5. ASSUME NEW l \in Keys, l # k PROVE Kept(l)
    <3>1. PageFor(l)' <=> PageFor(l)
      BY <2>1, <2>3, <2>5, OtherPageShown
    <3>2. Elsewhere(l)
      BY <1>6, <2>1, <2>3, <2>5 DEF Elsewhere
    <3> QED
      BY <1>1, <1>2, <2>2, <3>1, <3>2, ElsewhereKeeps DEF Kept
  <2> QED
    BY <2>4, <2>5 DEF Kept
<1>21. CASE OnChangedState
  <2>1. UNCHANGED sources
    BY <1>21 DEF OnChangedState, program
  <2>2. SameKeys
    BY <1>4, <1>21, OnChangedStateDoes
  <2>3. \A k \in Keys : Elsewhere(k)
    BY <1>9, <1>21, OnChangedStateDoes
  <2>4. Goal
    BY <1>3, <2>1, <2>2, <2>3
  <2> QED
    BY <2>4 DEF Goal, Kept
<1>22. CASE OnEndDebug
  <2>1. Processes("END_CONNECTION") /\ pages' = <<>> /\ UNCHANGED sources
    BY <1>22 DEF OnEndDebug, program
  <2>2. s2f # <<>> /\ s2f' = Tail(s2f) /\ Head(s2f) \in EndMsg
    BY <2>1, ProcessesDoes
  <2>3. ~linked
    <3>1. Head(s2f) = s2f[1] /\ 1 \in DOMAIN s2f
      BY <2>2, TailFacts DEF TypesInv
    <3> QED
      BY <2>2, <3>1 DEF WaitInv
  <2>4. DOMAIN pages' = {}
    BY <2>1, EmptySeq
  <2>5. ASSUME NEW k \in Keys PROVE UniqueAt(k)'
    <3> DEFINE A == AddedOf(k)
    <3>1. s2f \in Seq(FrameMsg) /\ AddedOf(k)' = A /\ ~PageFor(k)'
      BY <2>4 DEF TypesInv, AddedOf, PageFor
    <3>2. AtMostOne(s2f, A) /\ (sources[k] = NoText => NoneIn(s2f, A))
      BY <1>1 DEF UniqueAt
    <3> HIDE DEF A
    <3>3. AtMostOne(s2f', A) /\ (sources'[k] = NoText => NoneIn(s2f', A))
      BY <2>1, <2>2, <3>1, <3>2, TailOrder
    <3> QED
      BY <3>1, <3>3 DEF UniqueAt
  <2>6. UniquePages'
    BY <2>4 DEF UniquePages
  <2> QED
    BY <1>2, <2>3, <2>5, <2>6
<1>23. CASE OnBreakpoints
  <2>1. UNCHANGED <<sources, s2f>>
    BY <1>23 DEF OnBreakpoints, program
  <2>2. SameKeys
    BY <1>23, OnBreakpointsDoes DEF SameKeys
  <2>3. Goal
    BY <1>3, <1>10, <2>1, <2>2
  <2> QED
    BY <2>3 DEF Goal, Kept
<1>24. CASE Edit \/ SaveSource
  <2>1. UNCHANGED <<sources, s2f>>
    BY <1>24 DEF Edit, SaveSource, program
  <2>2. SameKeys
    BY <1>4, <1>24, EditDoes, SaveSourceDoes
  <2>3. Goal
    BY <1>3, <1>10, <2>1, <2>2
  <2> QED
    BY <2>3 DEF Goal, Kept
<1>25. CASE HandleForceUpdateSource \/ HandleSuccessed \/ HandleSaveSource
            \/ HandleBreakpoint
            \/ (\E j \in DOMAIN pages : Select(j))
            \/ (\E bp \in Breakpoints : Click(bp))
            \/ (\E type \in {"RESUME", "FORCE_UPDATESOURCE"} : Sends(type))
            \/ UNCHANGED allVars
  <2>1. UNCHANGED <<sources, s2f, pages>>
    BY <1>25
    DEF HandleForceUpdateSource, HandleSuccessed, HandleSaveSource, HandleBreakpoint,
        Select, Click, Sends, allVars, pageVars, view, program
  <2>2. Goal
    BY <1>3, <1>4, <1>10, <2>1
  <2> QED
    BY <2>2 DEF Goal, Kept
<1>26. CASE Lose
  <2>1. PICK n \in 0 .. Len(s2f) : s2f' = Append(SubSeq(s2f, 1, n), EndOfQueue)
    BY <1>26, LoseDoes
  <2>2. EndOfQueue \in EndMsg /\ EndOfQueue \in FrameMsg /\ ~linked'
    BY <1>7, <1>26, LoseDoes
  <2>3. UNCHANGED <<pages, sources>>
    BY <1>26 DEF Lose, view
  <2> DEFINE q == SubSeq(s2f, 1, n)
  <2>4. s2f \in Seq(FrameMsg)
    BY DEF TypesInv
  <2>5. q \in Seq(FrameMsg) /\ \A A : /\ AtMostOne(s2f, A) => AtMostOne(q, A)
                                      /\ NoneIn(s2f, A) => NoneIn(q, A)
    BY <2>4, PrefixFacts
  <2>6. s2f' = Append(q, EndOfQueue)
    BY <2>1
  <2> HIDE DEF q
  <2>7. ASSUME NEW k \in Keys PROVE UniqueAt(k)'
    <3> DEFINE A == AddedOf(k)
    <3>1. AddedOf(k)' = A /\ (PageFor(k)' <=> PageFor(k)) /\ EndOfQueue \notin A
      BY <1>4, <1>6, <2>2, <2>3, SameKeysKeep DEF AddedOf
    <3>2. /\ AtMostOne(s2f, A)
          /\ PageFor(k) => NoneIn(s2f, A) /\ sources[k] # NoText
          /\ sources[k] = NoText => NoneIn(s2f, A)
      BY <1>1 DEF UniqueAt
    <3> HIDE DEF A
    <3>3. AtMostOne(s2f, A) => AtMostOne(s2f', A)
      BY <2>2, <2>5, <2>6, <3>1, AppendOrder
    <3>4. NoneIn(s2f, A) => NoneIn(s2f', A)
      BY <2>2, <2>5, <2>6, <3>1, AppendOrder
    <3> QED
      BY <2>3, <3>1, <3>2, <3>3, <3>4 DEF UniqueAt
  <2>8. UniquePages'
    BY <1>1, <1>4, <2>3, SameKeysKeep
  <2> QED
    BY <2>2, <2>7, <2>8
<1> QED
  BY <1>12, <1>13, <1>14, <1>15, <1>16, <1>17, <1>18, <1>19, <1>20, <1>21, <1>22,
     <1>23, <1>24, <1>25, <1>26
  DEF PagesNext, ContextStep, FrameStep, UserStep, Goal, Kept

LEMMA PagesKeepRequests ==
    ASSUME TypesInv, TypesInv', TypeOK, TypeOK', WaitInv, PageInv,
           [PagesNext]_allVars, ~recovered', linked'
    PROVE  RequestsUnknown'
<1> DEFINE Kept == /\ Followed(f2s', RequestMsg, SuccessMsg)
                   /\ \A i \in DOMAIN f2s' : f2s'[i] \in RequestMsg =>
                                             sources[f2s'[i].event.key] = NoText
<1>1. /\ linked /\ pending = <<>> /\ \A k \in Keys : KnownAt(k)
      /\ Followed(f2s, RequestMsg, SuccessMsg)
      /\ \A i \in DOMAIN f2s : f2s[i] \in RequestMsg => sources[f2s[i].event.key] = NoText
  BY NeverUnrecovered, NeverRelinked DEF PageInv, RequestsUnknown
<1>2. f2s \in Seq(ContextMsg)
  BY DEF TypesInv
<1>3. CASE ~UNCHANGED sources
  <2>1. ~(wait > 0)
    BY <1>3, SourcesChange
  <2>2. NoneIn(f2s, SuccessMsg)
    BY <2>1, NothingAwaited
  <2>3. NoneIn(f2s, RequestMsg)
    BY <1>1, <2>2 DEF Followed, NoneIn
  <2>4. CASE SendUpdateSource
    <3>1. UNCHANGED f2s
      BY <2>4 DEF SendUpdateSource
    <3> QED
      BY <2>3, <3>1 DEF RequestsUnknown, Followed, NoneIn
  <2>5. ASSUME NEW k \in Keys, LoadFile(k) PROVE RequestsUnknown'
    <3>1. UNCHANGED f2s
      BY <2>5, LoadFileDoes
    <3> QED
      BY <2>3, <3>1 DEF RequestsUnknown, Followed, NoneIn
  <2>6. CASE HookLine \/ HandleBreakpoint \/ HandleResume
             \/ HandleForceUpdateSource \/ HandleSuccessed \/ HandleRequestSource
             \/ HandleSaveSource
    BY <1>3, <2>6
    DEF HookLine, HandleBreakpoint, HandleResume, HandleForceUpdateSource,
        HandleSuccessed, HandleRequestSource, HandleSaveSource, pageVars, program
  <2>7. CASE FrameStep \/ UserStep \/ Lose \/ UNCHANGED allVars
    BY <1>3, <2>7
    DEF FrameStep, UserStep, OnUpdateSource, OnPendingEvent, OnValueSource,
        OnAddedSource, OnChangedState, OnEndDebug, OnBreakpoints, Edit, SaveSource,
        Select, Click, Sends, Lose, allVars, pageVars, program
  <2> QED
    BY <2>4, <2>5, <2>6, <2>7 DEF PagesNext, ContextStep
<1>4. ASSUME UNCHANGED sources, Kept PROVE RequestsUnknown'
  BY <1>4 DEF RequestsUnknown
<1>5. ASSUME UNCHANGED f2s PROVE Kept
  BY <1>1, <1>5
<1>6. ASSUME f2s # <<>>, f2s' = Tail(f2s) PROVE Kept
  <2>1. Followed(f2s', RequestMsg, SuccessMsg)
    BY <1>1, <1>2, <1>6, TailOrder
  <2>2. \A i \in DOMAIN f2s' : \E j \in DOMAIN f2s : f2s'[i] = f2s[j]
    BY <1>6, ContextTail
  <2> QED
    BY <1>1, <2>1, <2>2
<1>7. ASSUME NEW m \in PlainMsg \cup SuccessMsg \cup SaveMsg, f2s' = Append(f2s, m)
      PROVE  Kept
  <2>1. m \in ContextMsg /\ m \notin RequestMsg
    BY QueueTypes, Kinds
  <2>2. Followed(f2s', RequestMsg, SuccessMsg)
    BY <1>1, <1>2, <1>7, <2>1, AppendOrder
  <2>3. \A i \in DOMAIN f2s' : f2s'[i] = m \/ \E j \in DOMAIN f2s : f2s'[i] = f2s[j]
    BY <1>7, <2>1, ContextAppend
  <2> QED
    BY <1>1, <2>1, <2>2, <2>3
<1>8. CASE OnUpdateSource
  <2> DEFINE ev == Head(s2f)
             q == Append(f2s, RequestFor(ev))
  <2>1. /\ s2f # <<>> /\ ev \in UpdateMsg /\ FocusOn(ev)
        /\ Success \in SuccessMsg /\ RequestFor(ev) \in RequestMsg
        /\ IF Asked(ev) = <<>> THEN f2s' = Append(f2s, Success)
           ELSE f2s' = Append(q, Success)
    BY <1>1, <1>8, OnUpdateSourceDoes
  <2>2. UNCHANGED sources
    BY <1>8 DEF OnUpdateSource, program
  <2>3. CASE f2s' = Append(f2s, Success)
    BY <1>4, <1>7, <2>1, <2>2, <2>3
  <2>4. CASE Asked(ev) # <<>>
    <3>1. ev \in Freshes /\ ~PageFor(ev.key)
      BY <2>1, <2>4, FocusDoes DEF PageFor
    <3>2. ev.key \in Keys /\ ev \in FreshOf(ev.key)
      BY <2>1, <3>1 DEF UpdateMsg, FreshOf
    <3>3. sources[ev.key] = NoText
      <4>1. ~Preceded(s2f, FreshOf(ev.key), AddedOf(ev.key))
        BY <2>1, <3>2, TailOrder DEF TypesInv
      <4> QED
        BY <1>1, <3>1, <3>2, <4>1 DEF KnownAt
    <3>4. /\ q \in Seq(ContextMsg) /\ Success \in ContextMsg
          /\ Success \notin RequestMsg /\ RequestFor(ev) \in ContextMsg
      BY <2>1, QueueTypes, Kinds
    <3>5. \A i \in DOMAIN q : q[i] = RequestFor(ev) \/ \E j \in DOMAIN f2s : q[i] = f2s[j]
      BY <1>2, <3>4, AppendFacts
    <3>6. RequestFor(ev).event = ev
      BY <2>1, MessageFields
    <3>7. f2s' = Append(q, Success)
      BY <2>1, <2>4
    <3> HIDE DEF q, ev
    <3>8. Followed(f2s', RequestMsg, SuccessMsg)
      BY <2>1, <3>4, <3>7, AppendOrder
    <3>9. \A i \in DOMAIN f2s' : f2s'[i] = Success \/ \E j \in DOMAIN q : f2s'[i] = q[j]
      BY <3>4, <3>7, AppendFacts
    <3>10. \A i \in DOMAIN q : q[i] \in RequestMsg => sources[q[i].event.key] = NoText
      BY <1>1, <3>3, <3>5, <3>6
    <3>11. \A i \in DOMAIN f2s' : f2s'[i] \in RequestMsg =>
                                  sources[f2s'[i].event.key] = NoText
      BY <3>4, <3>9, <3>10
    <3> QED
      BY <1>4, <2>2, <3>8, <3>11
  <2> QED
    BY <2>1, <2>3, <2>4
<1> HIDE DEF Kept
<1>9. CASE HandleResume \/ HandleForceUpdateSource \/ HandleSuccessed
           \/ HandleRequestSource \/ HandleSaveSource
  <2>1. f2s # <<>> /\ f2s' = Tail(f2s) /\ UNCHANGED sources
    BY <1>9
    DEF HandleResume, HandleForceUpdateSource, HandleSuccessed, HandleRequestSource,
        HandleSaveSource, Receives, program
  <2> QED
    BY <1>4, <1>6, <2>1
<1>10. CASE SaveSource
  <2>1. SaveOf(pages[selected]) \in SaveMsg /\ f2s' = Append(f2s, SaveOf(pages[selected]))
    BY <1>10, SaveSourceDoes
  <2>2. UNCHANGED sources
    BY <1>10 DEF SaveSource, program
  <2> QED
    BY <1>4, <1>7, <2>1, <2>2
<1>11. ASSUME NEW type \in {"RESUME", "FORCE_UPDATESOURCE"}, Sends(type)
       PROVE  RequestsUnknown'
  <2>1. [type |-> type] \in PlainMsg /\ f2s' = Append(f2s, [type |-> type])
    BY <1>11, SendsDoes
  <2>2. UNCHANGED sources
    BY <1>11 DEF Sends, program
  <2> QED
    BY <1>4, <1>7, <2>1, <2>2
<1>12. CASE OnPendingEvent
  BY <1>1, <1>12, OnPendingEventDoes
<1>13. CASE HookLine \/ SendUpdateSource \/ HandleBreakpoint
            \/ (\E k \in Keys : LoadFile(k))
            \/ OnValueSource \/ OnAddedSource \/ OnChangedState \/ OnEndDebug
            \/ OnBreakpoints \/ Edit \/ (\E j \in DOMAIN pages : Select(j))
            \/ (\E bp \in Breakpoints : Click(bp)) \/ UNCHANGED allVars
  <2>1. UNCHANGED f2s
    BY <1>13
    DEF HookLine, SendUpdateSource, HandleBreakpoint, LoadFile, OnValueSource,
        OnAddedSource, OnChangedState, OnEndDebug, OnBreakpoints, Edit, Select,
        Click, allVars, pageVars
  <2> QED
    BY <1>3, <1>4, <1>5, <2>1
<1>14. CASE Lose
  BY <1>14, LoseDoes
<1> QED
  BY <1>8, <1>9, <1>10, <1>11, <1>12, <1>13, <1>14
  DEF PagesNext, ContextStep, FrameStep, UserStep

LEMMA PagesKeepPages ==
    TypesInv /\ TypesInv' /\ TypeOK /\ TypeOK' /\ WaitInv /\ PageInv
        /\ [PagesNext]_allVars => PageInv'
<1> SUFFICES ASSUME TypesInv, TypesInv', TypeOK, TypeOK', WaitInv, PageInv,
                    [PagesNext]_allVars, ~recovered'
             PROVE  /\ UniquePages'
                    /\ \A k \in Keys : UniqueAt(k)'
                    /\ pending' = <<>>
                    /\ NoSourceInAnswers'
                    /\ linked' => RequestsUnknown' /\ \A k \in Keys : KnownAt(k)'
  BY DEF PageInv
<1>1. /\ pending = <<>> /\ NoSourceInAnswers
      /\ linked => RequestsUnknown
  BY NeverUnrecovered DEF PageInv
<1>2. pending' = <<>>
  <2>1. ASSUME NEW i \in DOMAIN pending' PROVE FALSE
    <3>1. s2f # <<>> /\ Head(s2f) \in ValueMsg /\ Head(s2f).text # NoText
      BY <1>1, NewPending, EmptySeq
    <3>2. Head(s2f) = s2f[1] /\ 1 \in DOMAIN s2f
      BY <3>1, TailFacts DEF TypesInv
    <3> QED
      BY <1>1, <3>1, <3>2 DEF NoSourceInAnswers
  <2>2. pending' \in Seq(UpdateMsg)
    BY DEF TypesInv
  <2>3. pending' # <<>> => 1 \in DOMAIN pending'
    BY <2>2, TailFacts
  <2> QED
    BY <2>1, <2>3
<1>3. NoSourceInAnswers'
  <2> SUFFICES ASSUME NEW i \in DOMAIN s2f', s2f'[i] \in ValueMsg
               PROVE  s2f'[i].text = NoText
    BY DEF NoSourceInAnswers
  <2>1. CASE \E j \in DOMAIN s2f : s2f'[i] = s2f[j]
    BY <1>1, <2>1 DEF NoSourceInAnswers
  <2>2. CASE s2f'[i] \in StateMsg \cup AddedMsg \cup EndMsg
    BY <2>2, Kinds
  <2>3. CASE s2f'[i] = StopUpdate
    BY <2>3, MessageTypes, Kinds
  <2>4. CASE \E j \in DOMAIN f2s : /\ linked /\ f2s[j] \in RequestMsg
                                   /\ f2s[j].event \in UpdateMsg
                                   /\ s2f'[i] = AnswerTo(f2s[j].event)
                                   /\ s2f'[i] \in ValueMsg
    <3>1. PICK j \in DOMAIN f2s : /\ linked /\ f2s[j] \in RequestMsg
                                  /\ f2s[j].event \in UpdateMsg
                                  /\ s2f'[i] = AnswerTo(f2s[j].event)
      BY <2>4
    <3>2. s2f'[i].text = sources[f2s[j].event.key]
      BY <3>1, MessageFields
    <3> QED
      BY <1>1, <3>1, <3>2 DEF RequestsUnknown
  <2> QED
    BY <2>1, <2>2, <2>3, <2>4, NewToFrame
<1> QED
  BY <1>2, <1>3, PagesKeepKeys, PagesKeepRequests

LEMMA InitHasPages == PagesInit => PageInv
<1> SUFFICES ASSUME PagesInit PROVE PageInv
  OBVIOUS
<1>1. /\ pages = <<>> /\ pending = <<>> /\ s2f = <<>> /\ f2s = <<>>
      /\ \A k \in Keys : sources[k] = NoText
  BY DEF PagesInit
<1>2. DOMAIN pages = {} /\ DOMAIN s2f = {} /\ DOMAIN f2s = {}
  BY <1>1, EmptySeq
<1> QED
  BY <1>1, <1>2
  DEF PageInv, UniquePages, UniqueAt, KnownAt, NoSourceInAnswers, RequestsUnknown,
      AtMostOne, NoneIn, Followed, PageFor

-----------------------------------------------------------------------------
(* The frame knows that the program is stopped when it shows a stop *)

Ons == {m \in StateMsg : m.isBreak}
Offs == {m \in StateMsg : ~m.isBreak}

(* Before each update on its way, and after all commands while the program   *)
(* is stopped, the last CHANGED_STATE is the one of a stop.                  *)
BreakInv ==
    /\ OnBefore(s2f, isBreak, Ons, Offs, UpdateMsg)
    /\ linked /\ stopped => OnLast(s2f, isBreak, Ons, Offs)

LEMMA PagesKeepBreak == TypesInv /\ BreakInv /\ [PagesNext]_allVars => BreakInv'
<1> SUFFICES ASSUME TypesInv, BreakInv, [PagesNext]_allVars PROVE BreakInv'
  OBVIOUS
<1> DEFINE On == OnBefore(s2f, isBreak, Ons, Offs, UpdateMsg)
           End == OnLast(s2f, isBreak, Ons, Offs)
           OnNext == OnBefore(s2f', isBreak', Ons, Offs, UpdateMsg)
           EndNext == OnLast(s2f', isBreak', Ons, Offs)
<1>1. On /\ (linked /\ stopped => End)
  BY DEF BreakInv
<1>2. linked' => linked
  BY NeverRelinked
<1>3. s2f \in Seq(FrameMsg)
  BY DEF TypesInv
<1>4. UpdateMsg \cup StateMsg \cup AddedMsg \cup ValueMsg \cup EndMsg \subseteq FrameMsg
  BY QueueTypes
<1>5. /\ \A m \in Ons \cup Offs : m \in StateMsg /\ m \notin UpdateMsg
      /\ \A m \in UpdateMsg \cup AddedMsg \cup ValueMsg \cup EndMsg :
            m \notin StateMsg /\ m \notin Ons /\ m \notin Offs
      /\ \A m \in AddedMsg \cup ValueMsg \cup EndMsg : m \notin UpdateMsg
  BY Kinds DEF Ons, Offs
<1>6. ASSUME OnNext, linked' /\ stopped' => EndNext PROVE BreakInv'
  BY <1>6 DEF BreakInv, Ons, Offs
<1>7. ASSUME UNCHANGED <<s2f, isBreak>>, linked' /\ stopped' => linked /\ stopped
      PROVE  BreakInv'
  BY <1>1, <1>6, <1>7
<1>8. ASSUME NEW m \in AddedMsg \cup ValueMsg \cup EndMsg, s2f' = Append(s2f, m),
             UNCHANGED isBreak
      PROVE  OnNext /\ (End => EndNext)
  BY <1>1, <1>3, <1>4, <1>5, <1>8, SwitchAppend
<1>9. ASSUME s2f # <<>>, s2f' = Tail(s2f), UNCHANGED isBreak,
             Head(s2f) \in UpdateMsg \cup AddedMsg \cup ValueMsg \cup EndMsg
      PROVE  OnNext /\ (End => EndNext)
  <2>1. Head(s2f) \notin Ons
    BY <1>5, <1>9
  <2> QED
    BY <1>1, <1>3, <1>9, <2>1, SwitchTail
<1> HIDE DEF On, End, OnNext, EndNext
<1>10. ASSUME NEW k \in Keys, LoadFile(k) PROVE BreakInv'
  <2>1. UNCHANGED <<isBreak, stopped>>
    BY <1>10, LoadFileDoes DEF view
  <2>2. CASE UNCHANGED s2f
    BY <1>2, <1>7, <2>1, <2>2
  <2>3. CASE FileAdded(k) \in AddedMsg /\ s2f' = Append(s2f, FileAdded(k))
    BY <1>1, <1>2, <1>6, <1>8, <2>1, <2>3
  <2> QED
    BY <1>10, <2>2, <2>3, LoadFileDoes
<1>11. CASE HookLine
  <2>1. StateOf(TRUE) \in StateMsg /\ s2f' = Append(s2f, StateOf(TRUE))
    BY <1>11, HookLineDoes
  <2>2. StateOf(TRUE) \in Ons
    BY <2>1 DEF Ons, StateOf
  <2>3. UNCHANGED isBreak
    BY <1>11 DEF HookLine, view
  <2>4. OnNext
    BY <1>1, <1>3, <1>4, <1>5, <2>1, <2>2, <2>3, SwitchAppend DEF On, OnNext
  <2>5. EndNext
    BY <1>3, <1>4, <2>1, <2>2, <2>3, SwitchAppend DEF EndNext
  <2> QED
    BY <1>6, <2>4, <2>5
<1>12. CASE SendUpdateSource
  <2>1. /\ linked /\ stopped /\ StopUpdate \in UpdateMsg
        /\ UNCHANGED isBreak
    BY <1>12, SendUpdateSourceDoes DEF SendUpdateSource, view
  <2>2. ASSUME NEW q \in Seq(FrameMsg), s2f' = Append(q, StopUpdate),
               OnBefore(q, isBreak, Ons, Offs, UpdateMsg),
               OnLast(q, isBreak, Ons, Offs)
        PROVE  OnNext /\ EndNext
    <3>1. StopUpdate \in FrameMsg /\ StopUpdate \notin Offs
      BY <1>4, <1>5, <2>1
    <3> QED
      BY <2>1, <2>2, <3>1, SwitchAppend DEF OnNext, EndNext
  <2>3. On /\ End
    BY <1>1, <2>1
  <2>4. CASE s2f' = Append(s2f, StopUpdate)
    BY <1>3, <1>6, <2>2, <2>3, <2>4 DEF On, End
  <2>5. CASE /\ FileAdded(stop.key) \in AddedMsg
             /\ s2f' = Append(Append(s2f, FileAdded(stop.key)), StopUpdate)
    <3> DEFINE q == Append(s2f, FileAdded(stop.key))
    <3>1. /\ FileAdded(stop.key) \in FrameMsg /\ FileAdded(stop.key) \notin Offs
          /\ FileAdded(stop.key) \notin UpdateMsg
      BY <1>4, <1>5, <2>5
    <3>2. /\ OnBefore(q, isBreak, Ons, Offs, UpdateMsg)
          /\ OnLast(q, isBreak, Ons, Offs)
      BY <1>3, <2>3, <3>1, SwitchAppend DEF On, End
    <3>3. q \in Seq(FrameMsg)
      BY <1>3, <3>1, AppendProperties
    <3> QED
      BY <1>6, <2>2, <2>5, <3>2, <3>3
  <2> QED
    BY <1>12, <2>4, <2>5, SendUpdateSourceDoes
<1>13. CASE HandleResume
  <2>1. UNCHANGED <<isBreak, linked>>
    BY <1>13 DEF HandleResume, view, vars
  <2>2. CASE UNCHANGED <<stopped, s2f>>
    BY <1>2, <1>7, <2>1, <2>2
  <2>3. CASE /\ ~stopped'
             /\ s2f' = IF linked THEN Append(s2f, StateOf(FALSE)) ELSE s2f
    <3>1. CASE linked
      <4>1. StateOf(FALSE) \in FrameMsg /\ StateOf(FALSE) \notin UpdateMsg
        BY <1>4, <1>13, HandleResumeDoes, Kinds
      <4>2. OnNext
        BY <1>1, <1>3, <2>1, <2>3, <3>1, <4>1, SwitchAppend DEF On, OnNext
      <4> QED
        BY <1>6, <2>3, <4>2
    <3>2. CASE ~linked
      BY <1>7, <2>1, <2>3, <3>2
    <3> QED
      BY <3>1, <3>2
  <2> QED
    BY <1>13, <2>2, <2>3, HandleResumeDoes
<1>14. CASE HandleRequestSource
  <2>1. UNCHANGED <<isBreak, linked, stopped>>
    BY <1>14 DEF HandleRequestSource, view, vars, program
  <2>2. AnswerTo(Head(f2s).event) \in ValueMsg
    BY <1>14, HandleRequestSourceDoes
  <2>3. s2f' = IF linked THEN Append(s2f, AnswerTo(Head(f2s).event)) ELSE s2f
    BY <1>14, HandleRequestSourceDoes
  <2>4. CASE linked
    BY <1>1, <1>6, <1>8, <2>1, <2>2, <2>3, <2>4
  <2>5. CASE ~linked
    BY <1>7, <2>1, <2>3, <2>5
  <2> QED
    BY <2>4, <2>5
<1>15. CASE OnUpdateSource \/ OnValueSource \/ OnAddedSource \/ OnEndDebug
  <2>1. UNCHANGED <<isBreak, linked, stopped>>
    BY <1>15 DEF OnUpdateSource, OnValueSource, OnAddedSource, OnEndDebug, vars, program
  <2>2. s2f # <<>> /\ s2f' = Tail(s2f)
    BY <1>15 DEF OnUpdateSource, OnValueSource, OnAddedSource, OnEndDebug, Processes
  <2>3. Head(s2f) \in UpdateMsg \cup AddedMsg \cup ValueMsg \cup EndMsg
    <3>1. CASE OnEndDebug
      <4>1. Processes("END_CONNECTION")
        BY <3>1 DEF OnEndDebug
      <4> QED
        BY <4>1, ProcessesDoes
    <3> QED
      BY <1>15, <3>1, OnUpdateSourceDoes, OnValueSourceDoes, OnAddedSourceDoes
  <2>4. OnNext /\ (End => EndNext)
    BY <1>9, <2>1, <2>2, <2>3
  <2> QED
    BY <1>1, <1>6, <2>1, <2>4
<1>16. CASE OnChangedState
  <2>1. UNCHANGED <<linked, stopped>>
    BY <1>16 DEF OnChangedState, vars, program
  <2>2. s2f # <<>> /\ s2f' = Tail(s2f) /\ Head(s2f) \in StateMsg
    BY <1>16, OnChangedStateDoes
  <2>3. isBreak' = Head(s2f).isBreak
    BY <1>16, OnChangedStateDoes
  <2>4. Head(s2f) \in Ons => isBreak'
    BY <2>3 DEF Ons
  <2>5. Head(s2f) \notin Offs => isBreak'
    BY <2>2, <2>3 DEF Offs
  <2>6. OnNext /\ (End => EndNext)
    BY <1>1, <1>3, <2>2, <2>4, <2>5, SwitchTail DEF On, End, OnNext, EndNext
  <2> QED
    BY <1>1, <1>6, <2>1, <2>6
<1>17. CASE HandleForceUpdateSource \/ HandleSuccessed \/ HandleSaveSource
            \/ HandleBreakpoint \/ OnPendingEvent \/ OnBreakpoints
            \/ Edit \/ SaveSource
            \/ (\E j \in DOMAIN pages : Select(j))
            \/ (\E bp \in Breakpoints : Click(bp))
            \/ (\E type \in {"RESUME", "FORCE_UPDATESOURCE"} : Sends(type))
            \/ UNCHANGED allVars
  <2>1. UNCHANGED <<s2f, isBreak, stopped>>
    BY <1>17
    DEF HandleForceUpdateSource, HandleSuccessed, HandleSaveSource, HandleBreakpoint,
        OnPendingEvent, OnBreakpoints, Edit, SaveSource, Select, Click, Sends,
        allVars, pageVars, view, program
  <2> QED
    BY <1>2, <1>7, <2>1
<1>18. CASE Lose
  <2>1. PICK n \in 0 .. Len(s2f) : s2f' = Append(SubSeq(s2f, 1, n), EndOfQueue)
    BY <1>18, LoseDoes
  <2>2. EndOfQueue \in EndMsg /\ EndOfQueue \in FrameMsg /\ ~linked'
    BY <1>4, <1>18, LoseDoes
  <2>3. UNCHANGED isBreak
    BY <1>18 DEF Lose, view
  <2> DEFINE q == SubSeq(s2f, 1, n)
  <2>4. OnBefore(q, isBreak, Ons, Offs, UpdateMsg)
    BY <1>1, <1>3, SwitchPrefix DEF On
  <2>5. q \in Seq(FrameMsg)
    BY <1>3, PrefixFacts
  <2>6. s2f' = Append(q, EndOfQueue)
    BY <2>1
  <2> HIDE DEF q
  <2>7. OnNext
    BY <1>5, <2>2, <2>3, <2>4, <2>5, <2>6, SwitchAppend DEF OnNext
  <2> QED
    BY <1>6, <2>2, <2>7
<1> QED
  BY <1>10, <1>11, <1>12, <1>13, <1>14, <1>15, <1>16, <1>17, <1>18
  DEF PagesNext, ContextStep, FrameStep, UserStep

(* No line is marked while the program runs: what the frame is shown, it is  *)
(* shown in a stop, and the end of a stop clears the selected page.          *)
LEMMA PagesKeepUnmarked ==
    TypesInv /\ TypeOK /\ TypeOK' /\ BreakInv /\ PageInv /\ NoMarkWhileRunning
        /\ [PagesNext]_allVars => NoMarkWhileRunning'
<1> SUFFICES ASSUME TypesInv, TypeOK, TypeOK', BreakInv, PageInv, NoMarkWhileRunning,
                    [PagesNext]_allVars,
                    ~isBreak', ~away', ~recovered', NEW i \in DOMAIN pages'
             PROVE  pages'[i].mark = 0
  BY DEF NoMarkWhileRunning
<1>1. ~recovered /\ pending = <<>>
  BY NeverUnrecovered DEF PageInv
<1>2. ~isBreak /\ ~away => \A j \in DOMAIN pages : pages[j].mark = 0
  BY <1>1 DEF NoMarkWhileRunning
<1>3. CASE OnChangedState
  <2>1. i \in DOMAIN pages
    BY <1>3, OnChangedStateDoes DEF SameButMarks
  <2>2. pages'[i].mark = IF i = selected /\ ~isBreak' THEN 0 ELSE pages[i].mark
    BY <1>3, <2>1, OnChangedStateDoes
  <2>3. i # selected => pages[i].mark = 0
    BY <1>3, <2>1, OnChangedStateDoes
  <2> QED
    BY <2>2, <2>3
<1>4. CASE OnUpdateSource
  <2>1. isBreak
    <3>1. Head(s2f) \in UpdateMsg /\ s2f # <<>> /\ s2f \in Seq(FrameMsg)
      BY <1>4, OnUpdateSourceDoes DEF TypesInv
    <3>2. OnBefore(s2f, isBreak, Ons, Offs, UpdateMsg)
      BY DEF BreakInv
    <3> QED
      BY <3>1, <3>2, SwitchHead
  <2>2. UNCHANGED isBreak
    BY <1>4 DEF OnUpdateSource
  <2> QED
    BY <2>1, <2>2
<1>5. CASE OnPendingEvent
  BY <1>1, <1>5, OnPendingEventDoes
<1>6. CASE UNCHANGED <<isBreak, away>> /\ ~OnUpdateSource /\ ~OnPendingEvent
  <2>1. \A j \in DOMAIN pages : pages[j].mark = 0
    BY <1>2, <1>6
  <2>2. \/ pages'[i].mark = 0
        \/ i \in DOMAIN pages /\ pages'[i].mark = pages[i].mark
    BY <1>6, NewMarks
  <2> QED
    BY <2>1, <2>2
<1>7. UNCHANGED <<isBreak, away>> \/ OnChangedState \/ OnUpdateSource \/ OnPendingEvent
  <2>1. CASE HookLine \/ SendUpdateSource \/ HandleBreakpoint \/ HandleResume
             \/ HandleForceUpdateSource \/ HandleSuccessed \/ HandleRequestSource
             \/ HandleSaveSource \/ (\E k \in Keys : LoadFile(k))
    BY <2>1
    DEF HookLine, SendUpdateSource, HandleBreakpoint, HandleResume,
        HandleForceUpdateSource, HandleSuccessed, HandleRequestSource,
        HandleSaveSource, LoadFile, pageVars, view, history
  <2>2. CASE \/ OnValueSource \/ OnAddedSource \/ OnEndDebug \/ OnBreakpoints
             \/ UserStep \/ Lose \/ UNCHANGED allVars
    BY <2>2
    DEF UserStep, OnValueSource, OnAddedSource, OnEndDebug, OnBreakpoints, Edit,
        SaveSource, Select, Click, Sends, Lose, allVars, pageVars, view, history
  <2> QED
    BY <2>1, <2>2 DEF PagesNext, ContextStep, FrameStep
<1> QED
  BY <1>3, <1>4, <1>5, <1>6, <1>7
  DEF PagesNext, ContextStep, FrameStep, UserStep

-----------------------------------------------------------------------------
(* What is shown is the present stop *)

ShownMarks ==
    \A i \in DOMAIN pages :
        pages[i].mark = IF pages[i].key = stop.key THEN stop.n ELSE 0

(* In a stop that has been told, what disturbs the marks (a new page, a      *)
(* change of the state) is followed by the update that shows the stop; when  *)
(* that one is processed the marks are right.                                *)
ShownInv ==
    ~recovered /\ linked /\ stopped /\ prevBreak =>
        /\ Followed(s2f, AddedMsg \cup StateMsg, Freshes)
        /\ NoneIn(s2f, Freshes) => ShownMarks

LEMMA PagesKeepShown ==
    TypesInv /\ TypesInv' /\ TypeOK /\ TypeOK' /\ WaitInv /\ PageInv /\ ShownInv
        /\ [PagesNext]_allVars => ShownInv'
<1> DEFINE A == AddedMsg \cup StateMsg
           Follows == Followed(s2f', A, Freshes)
           Shown1 == NoneIn(s2f', Freshes) => ShownMarks'
<1> SUFFICES ASSUME TypesInv, TypesInv', TypeOK, TypeOK', WaitInv, PageInv, ShownInv,
                    [PagesNext]_allVars,
                    ~recovered', linked', stopped', prevBreak'
             PROVE  Follows /\ Shown1
  BY DEF ShownInv, Freshes
<1>1. /\ ~recovered /\ pending = <<>> /\ NoSourceInAnswers /\ linked
      /\ s2f \in Seq(FrameMsg)
  BY NeverUnrecovered, NeverRelinked DEF PageInv, TypesInv
<1>2. stopped /\ prevBreak => /\ Followed(s2f, A, Freshes)
                              /\ NoneIn(s2f, Freshes) => ShownMarks
  BY <1>1 DEF ShownInv
<1>3. /\ UpdateMsg \cup StateMsg \cup AddedMsg \cup ValueMsg \cup EndMsg \subseteq FrameMsg
      /\ \A m \in A : m \notin Freshes
      /\ \A m \in UpdateMsg \cup ValueMsg : m \notin A
      /\ \A m \in ValueMsg : m \notin Freshes
      /\ Freshes \subseteq UpdateMsg
  BY QueueTypes, Kinds DEF Freshes
<1> HIDE DEF A
<1>4. ASSUME UNCHANGED stop, DOMAIN pages' = DOMAIN pages, ShownMarks,
             \A i \in DOMAIN pages : /\ pages'[i].key = pages[i].key
                                     /\ pages'[i].mark = pages[i].mark
      PROVE  ShownMarks'
  BY <1>4 DEF ShownMarks
<1>5. ASSUME UNCHANGED <<stop, stopped, prevBreak, s2f>>,
             DOMAIN pages' = DOMAIN pages,
             \A i \in DOMAIN pages : /\ pages'[i].key = pages[i].key
                                     /\ pages'[i].mark = pages[i].mark
      PROVE  Follows /\ Shown1
  BY <1>2, <1>4, <1>5
<1>6. ASSUME UNCHANGED <<stop, stopped, prevBreak, pages>>,
             NEW m \in UpdateMsg \cup ValueMsg, s2f' = Append(s2f, m), m \notin Freshes
      PROVE  Follows /\ Shown1
  <2>1. m \in FrameMsg /\ m \notin A
    BY <1>3
  <2>2. Followed(s2f, A, Freshes) => Follows
    BY <1>1, <1>6, <2>1, AppendOrder
  <2>3. NoneIn(s2f', Freshes) => NoneIn(s2f, Freshes)
    BY <1>1, <1>6, <2>1, AppendOrder
  <2>4. ShownMarks => ShownMarks'
    BY <1>6 DEF ShownMarks
  <2> QED
    BY <1>2, <1>6, <2>2, <2>3, <2>4
<1>7. ASSUME UNCHANGED <<stopped, prevBreak>>, s2f # <<>>, s2f' = Tail(s2f)
      PROVE  /\ Follows
             /\ Head(s2f) \in A => ~NoneIn(s2f', Freshes)
             /\ Head(s2f) \notin Freshes /\ NoneIn(s2f', Freshes) => ShownMarks
  <2>1. Followed(s2f, A, Freshes) /\ (NoneIn(s2f, Freshes) => ShownMarks)
    BY <1>2, <1>7
  <2>2. Follows
    BY <1>1, <1>7, <2>1, TailOrder
  <2>3. Head(s2f) \in A => ~NoneIn(s2f', Freshes)
    BY <1>1, <1>7, <2>1, TailOrder
  <2>4. NoneIn(s2f, Freshes) <=> NoneIn(s2f', Freshes) /\ Head(s2f) \notin Freshes
    BY <1>1, <1>7, TailOrder
  <2> QED
    BY <2>1, <2>2, <2>3, <2>4
<1> HIDE DEF Follows, Shown1
<1>8. CASE SendUpdateSource
  <2>1. /\ StopUpdate \in UpdateMsg /\ StopUpdate \in FrameMsg
        /\ UNCHANGED <<stop, stopped, pages>>
    BY <1>3, <1>8, SendUpdateSourceDoes DEF SendUpdateSource, view
  <2>2. StopUpdate \in Freshes <=> ~prevBreak
    BY <2>1 DEF StopUpdate, Freshes
  <2>3. ASSUME NEW q \in Seq(FrameMsg), s2f' = Append(q, StopUpdate), ~prevBreak
        PROVE  Follows /\ Shown1
    <3>1. Follows
      BY <1>3, <2>1, <2>2, <2>3, AppendOrder DEF Follows
    <3>2. ~NoneIn(s2f', Freshes)
      BY <2>1, <2>2, <2>3, AppendOrder
    <3> QED
      BY <3>1, <3>2 DEF Shown1
  <2>4. CASE s2f' = Append(s2f, StopUpdate)
    <3>1. CASE prevBreak
      <4>1. UNCHANGED prevBreak
        BY <1>8, <3>1 DEF SendUpdateSource
      <4> QED
        BY <1>6, <2>1, <2>2, <2>4, <3>1, <4>1
    <3>2. CASE ~prevBreak
      BY <1>1, <2>3, <2>4, <3>2
    <3> QED
      BY <3>1, <3>2
  <2>5. CASE /\ FileAdded(stop.key) \in AddedMsg
             /\ s2f' = Append(Append(s2f, FileAdded(stop.key)), StopUpdate)
             /\ (prevBreak => recovered')
    <3>1. Append(s2f, FileAdded(stop.key)) \in Seq(FrameMsg)
      BY <1>1, <1>3, <2>5, AppendProperties
    <3> QED
      BY <2>3, <2>5, <3>1
  <2> QED
    BY <1>8, <2>4, <2>5, SendUpdateSourceDoes
<1>9. CASE HandleRequestSource
  <2>1. UNCHANGED <<stop, stopped, prevBreak, pages>>
    BY <1>9 DEF HandleRequestSource, program, view
  <2>2. /\ AnswerTo(Head(f2s).event) \in ValueMsg
        /\ s2f' = Append(s2f, AnswerTo(Head(f2s).event))
    BY <1>1, <1>9, HandleRequestSourceDoes
  <2> QED
    BY <1>3, <1>6, <2>1, <2>2
<1>10. CASE OnUpdateSource
  <2>1. UNCHANGED <<stop, stopped, prevBreak>>
    BY <1>10 DEF OnUpdateSource, program
  <2>2. /\ s2f # <<>> /\ s2f' = Tail(s2f) /\ Head(s2f) \in UpdateMsg
        /\ FocusOn(Head(s2f))
    BY <1>10, OnUpdateSourceDoes
  <2>3. CASE Head(s2f) \in Freshes
    <3>1. Head(s2f).key = stop.key /\ Head(s2f).line = stop.n
      <4>1. Head(s2f) = s2f[1] /\ 1 \in DOMAIN s2f
        BY <1>1, <2>2, TailFacts
      <4> QED
        BY <1>1, <2>2, <4>1 DEF WaitInv
    <3>2. ShownMarks'
      BY <2>1, <2>2, <2>3, <3>1, FocusDoes DEF ShownMarks, SameButMarks
    <3> QED
      BY <1>7, <2>1, <2>2, <3>2 DEF Shown1
  <2>4. CASE Head(s2f) \notin Freshes
    <3>1. UNCHANGED pages
      BY <2>2, <2>4, FocusDoes
    <3>2. ShownMarks => ShownMarks'
      BY <2>1, <3>1 DEF ShownMarks
    <3> QED
      BY <1>7, <2>1, <2>2, <2>4, <3>2 DEF Shown1
  <2> QED
    BY <2>3, <2>4
<1>11. CASE OnPendingEvent
  BY <1>1, <1>11, OnPendingEventDoes
<1>12. CASE OnValueSource
  <2>1. UNCHANGED <<stop, stopped, prevBreak>>
    BY <1>12 DEF OnValueSource, program
  <2>2. s2f # <<>> /\ s2f' = Tail(s2f) /\ Head(s2f) \in ValueMsg
    BY <1>12, OnValueSourceDoes
  <2>3. UNCHANGED pages
    <3>1. Head(s2f) = s2f[1] /\ 1 \in DOMAIN s2f
      BY <1>1, <2>2, TailFacts
    <3>2. Head(s2f).text = NoText
      BY <1>1, <2>2, <3>1 DEF NoSourceInAnswers
    <3> QED
      BY <1>12, <3>2, OnValueSourceDoes
  <2>4. ShownMarks => ShownMarks'
    BY <2>1, <2>3 DEF ShownMarks
  <2> QED
    BY <1>3, <1>7, <2>1, <2>2, <2>4 DEF Shown1
<1>13. CASE OnAddedSource \/ OnChangedState
  <2>1. UNCHANGED <<stop, stopped, prevBreak>>
    BY <1>13 DEF OnAddedSource, OnChangedState, program
  <2>2. s2f # <<>> /\ s2f' = Tail(s2f) /\ Head(s2f) \in A
    BY <1>13, OnAddedSourceDoes, OnChangedStateDoes DEF A
  <2> QED
    BY <1>7, <2>1, <2>2 DEF Shown1
<1>14. CASE OnEndDebug
  <2>1. Processes("END_CONNECTION")
    BY <1>14 DEF OnEndDebug
  <2>2. s2f # <<>> /\ Head(s2f) \in EndMsg
    BY <2>1, ProcessesDoes
  <2>3. Head(s2f) = s2f[1] /\ 1 \in DOMAIN s2f
    BY <1>1, <2>2, TailFacts
  <2> QED
    BY <1>1, <2>2, <2>3 DEF WaitInv
<1>15. CASE OnBreakpoints
  <2>1. UNCHANGED <<stop, stopped, prevBreak, s2f>>
    BY <1>15 DEF OnBreakpoints, program
  <2> QED
    BY <1>5, <1>15, <2>1, OnBreakpointsDoes
<1>16. CASE Edit \/ SaveSource
  <2>1. UNCHANGED <<stop, stopped, prevBreak, s2f>>
    BY <1>16 DEF Edit, SaveSource, program
  <2>2. SameButTexts
    BY <1>16, EditDoes, SaveSourceDoes
  <2> QED
    BY <1>5, <2>1, <2>2 DEF SameButTexts
<1>17. CASE \E k \in Keys : LoadFile(k)
  <2>1. ~stopped'
    BY <1>17, LoadFileDoes
  <2> QED
    BY <2>1
<1>18. CASE HookLine
  BY <1>18, HookLineDoes
<1>19. CASE HandleResume
  <2>1. UNCHANGED <<stop, prevBreak, pages>>
    BY <1>19 DEF HandleResume, view
  <2>2. UNCHANGED <<stopped, s2f>>
    BY <1>19, HandleResumeDoes
  <2> QED
    BY <1>5, <2>1, <2>2
<1>20. CASE HandleForceUpdateSource \/ HandleSuccessed \/ HandleSaveSource
            \/ HandleBreakpoint
            \/ (\E j \in DOMAIN pages : Select(j))
            \/ (\E bp \in Breakpoints : Click(bp))
            \/ (\E type \in {"RESUME", "FORCE_UPDATESOURCE"} : Sends(type))
            \/ UNCHANGED allVars
  <2>1. UNCHANGED <<stop, stopped, prevBreak, s2f, pages>>
    BY <1>20
    DEF HandleForceUpdateSource, HandleSuccessed, HandleSaveSource, HandleBreakpoint,
        Select, Click, Sends, allVars, pageVars, view, program
  <2> QED
    BY <1>5, <2>1
<1>21. CASE Lose
  BY <1>21, LoseDoes
<1> QED
  BY <1>8, <1>9, <1>10, <1>11, <1>12, <1>13, <1>14, <1>15, <1>16, <1>17, <1>18,
     <1>19, <1>20, <1>21
  DEF PagesNext, ContextStep, FrameStep, UserStep

LEMMA InitIsShown ==
    PagesInit => /\ LinesInv /\ WaitInv /\ BreakInv /\ ShownInv /\ NoMarkWhileRunning
<1> SUFFICES ASSUME PagesInit
             PROVE  /\ LinesInv /\ WaitInv /\ BreakInv /\ ShownInv /\ NoMarkWhileRunning
  OBVIOUS
<1>1. /\ pages = <<>> /\ pending = <<>> /\ s2f = <<>> /\ f2s = <<>> /\ wait = 0
      /\ ~stopped
  BY DEF PagesInit
<1>2. /\ DOMAIN pages = {} /\ DOMAIN s2f = {} /\ DOMAIN f2s = {}
      /\ DOMAIN pending = {}
  BY <1>1, EmptySeq
<1>3. Updates = 0 /\ Successes = 0
  BY <1>1, NoneInNothing DEF Updates, Successes
<1>4. LinesInv
  BY <1>2 DEF LinesInv
<1>5. WaitInv
  BY <1>1, <1>2, <1>3 DEF WaitInv
<1>6. BreakInv
  BY <1>1, <1>2 DEF BreakInv, OnBefore
<1>7. ShownInv
  BY <1>1 DEF ShownInv
<1>8. NoMarkWhileRunning
  BY <1>2 DEF NoMarkWhileRunning
<1> QED
  BY <1>4, <1>5, <1>6, <1>7, <1>8

(* All parts of the invariant of the pages.                                  *)
PagesInv ==
    /\ LinesInv /\ WaitInv /\ PageInv /\ BreakInv /\ ShownInv
    /\ NoMarkWhileRunning

LEMMA PagesInvAlways == PagesSpec => [](TypesInv /\ PagesInv)
<1>1. PagesInit => PagesInv
  BY InitHasPages, InitIsShown DEF PagesInv
<1>2. PagesInv /\ (TypesInv /\ TypeOK) /\ (TypesInv /\ TypeOK)' /\ [PagesNext]_allVars
          => PagesInv'
  <2> SUFFICES ASSUME PagesInv, TypesInv, TypeOK, TypesInv', TypeOK',
                      [PagesNext]_allVars
               PROVE  PagesInv'
    OBVIOUS
  <2>1. LinesInv'
    BY PagesKeepLines DEF PagesInv
  <2>2. WaitInv'
    BY PagesKeepWait DEF PagesInv
  <2>3. PageInv'
    BY PagesKeepPages DEF PagesInv
  <2>4. BreakInv'
    BY PagesKeepBreak DEF PagesInv
  <2>5. ShownInv'
    BY PagesKeepShown DEF PagesInv
  <2>6. NoMarkWhileRunning'
    BY PagesKeepUnmarked DEF PagesInv
  <2> QED
    BY <2>1, <2>2, <2>3, <2>4, <2>5, <2>6 DEF PagesInv
<1> QED
  BY <1>1, <1>2, TypesAlways, PTL DEF PagesSpec

(* MarkFollowsTheProgram: however loading, stopping, refreshing and going on *)
(* cross the requests of the frame, the line that is marked when all is      *)
(* quiet is the one of the present stop, none is marked while the program    *)
(* runs, and a source has one page (sourceview.cpp:588-660, context.cpp:     *)
(* 852-871); with the exceptions the property states.                        *)
THEOREM MarkAlwaysFollowsTheProgram == PagesSpec => []MarkFollowsTheProgram
<1>1. TypesInv /\ PagesInv => MarkFollowsTheProgram
  <2> SUFFICES ASSUME TypesInv, PagesInv PROVE MarkFollowsTheProgram
    OBVIOUS
  <2>1. MarkIsOfTheStop
    <3> SUFFICES ASSUME Quiet, stopped, prevBreak, ~recovered PROVE ShownMarks
      BY DEF MarkIsOfTheStop, ShownMarks
    <3>1. linked /\ s2f = <<>>
      BY DEF Quiet
    <3>2. NoneIn(s2f, Freshes)
      BY <3>1, EmptySeq DEF NoneIn
    <3> QED
      BY <3>1, <3>2 DEF PagesInv, ShownInv
  <2>2. NoMarkWhileRunning
    BY DEF PagesInv
  <2>3. OnePagePerSource
    BY DEF PagesInv, PageInv, UniquePages, OnePagePerSource
  <2>4. PagesTypeOK
    <3>1. TypesInv /\ wait \in Nat
      BY DEF PagesInv, WaitInv
    <3>2. /\ stop \in [n : 0 .. MaxStops, key : Keys]
          /\ stopped \in BOOLEAN /\ prevBreak \in BOOLEAN /\ isMustUpdate \in BOOLEAN
          /\ selected \in DOMAIN pages \cup {0}
          /\ isBreak \in BOOLEAN /\ acts \in 0 .. MaxActs
          /\ recovered \in BOOLEAN /\ away \in BOOLEAN /\ failed \in BOOLEAN
      BY <3>1 DEF TypesInv
    <3>3. sources \in [Keys -> Texts] /\ file \in [Keys -> Texts \ {NoText}]
      BY <3>1, TextTypes DEF TypesInv
    <3>4. pages \in Seq(Page)
      <4>1. \A p \in FullPage : p \in Page
        BY TextTypes DEF FullPage, Page
      <4>2. pages \in Seq(FullPage)
        BY <3>1 DEF TypesInv
      <4>3. \A i \in DOMAIN pages : pages[i] \in Page
        BY <4>1, <4>2, ElementOfSeq, LenProperties
      <4> QED
        BY <4>2, <4>3, LenProperties
    <3>5. \A i \in DOMAIN pages : pages[i].mark <= stop.n
      BY DEF PagesInv, LinesInv
    <3>6. history \in BOOLEAN \X BOOLEAN \X BOOLEAN
      BY <3>2 DEF history
    <3> QED
      BY <3>1, <3>2, <3>3, <3>4, <3>5, <3>6 DEF PagesTypeOK
  <2> QED
    BY <2>1, <2>2, <2>3, <2>4 DEF MarkFollowsTheProgram
<1> QED
  BY <1>1, PagesInvAlways, PTL

-----------------------------------------------------------------------------
(* What is saved *)

SavesOf(k) == {m \in SaveMsg : m.key = k}
SavesAs(t) == {m \in SaveMsg : m.text = t}

(* The page shows what its file contains, or will when what is on its way is *)
(* saved.                                                                    *)
IsSaved(p) ==
    /\ NoneIn(f2s, SavesOf(p.key)) => file[p.key] = Stored(p.text)
    /\ LastIn(f2s, SavesOf(p.key), SavesAs(Stored(p.text)))

SaveInv ==
    linked /\ ~recovered =>
        /\ \A i \in DOMAIN f2s : f2s[i] \in SaveMsg => PageFor(f2s[i].key)
        /\ ~failed =>
              /\ \A i \in DOMAIN s2f : s2f[i] \in AddedMsg => s2f[i].text = file[s2f[i].key]
              /\ \A i \in DOMAIN pages : ~pages[i].modified => IsSaved(pages[i])

(* The queue changes, but not what is saved by it. *)
SavesUntouched ==
    \/ UNCHANGED f2s
    \/ f2s # <<>> /\ f2s' = Tail(f2s) /\ Head(f2s) \notin SaveMsg
    \/ \E m \in ContextMsg \ SaveMsg : f2s' = Append(f2s, m)
    \/ \E m, n \in ContextMsg \ SaveMsg : f2s' = Append(Append(f2s, m), n)

LEMMA UntouchedKeeps ==
    ASSUME TypesInv, SavesUntouched, NEW A, A \subseteq SaveMsg, NEW B
    PROVE  /\ NoneIn(f2s', A) <=> NoneIn(f2s, A)
           /\ LastIn(f2s, A, B) => LastIn(f2s', A, B)
<1>1. f2s \in Seq(ContextMsg)
  BY DEF TypesInv
<1>2. CASE UNCHANGED f2s
  BY <1>2
<1>3. CASE f2s # <<>> /\ f2s' = Tail(f2s) /\ Head(f2s) \notin SaveMsg
  <2>1. Head(f2s) \notin A
    BY <1>3
  <2>2. NoneIn(f2s, A) <=> NoneIn(Tail(f2s), A) /\ Head(f2s) \notin A
    BY <1>1, <1>3, TailOrder
  <2>3. LastIn(f2s, A, B) => LastIn(Tail(f2s), A, B)
    BY <1>1, <1>3, TailOrder
  <2> QED
    BY <1>3, <2>1, <2>2, <2>3
<1>4. ASSUME NEW q \in Seq(ContextMsg), NEW m \in ContextMsg \ SaveMsg
      PROVE  /\ Append(q, m) \in Seq(ContextMsg)
             /\ NoneIn(Append(q, m), A) <=> NoneIn(q, A)
             /\ LastIn(q, A, B) => LastIn(Append(q, m), A, B)
  <2>1. m \in ContextMsg /\ m \notin A
    OBVIOUS
  <2>2. NoneIn(Append(q, m), A) <=> NoneIn(q, A) /\ m \notin A
    BY <2>1, AppendOrder
  <2>3. LastIn(q, A, B) => LastIn(Append(q, m), A, B)
    BY <2>1, AppendOrder
  <2>4. Append(q, m) \in Seq(ContextMsg)
    BY AppendProperties
  <2> QED
    BY <2>1, <2>2, <2>3, <2>4
<1>5. CASE \E m \in ContextMsg \ SaveMsg : f2s' = Append(f2s, m)
  BY <1>1, <1>4, <1>5
<1>6. CASE \E m, n \in ContextMsg \ SaveMsg : f2s' = Append(Append(f2s, m), n)
  <2>1. PICK m \in ContextMsg \ SaveMsg, n \in ContextMsg \ SaveMsg :
            f2s' = Append(Append(f2s, m), n)
    BY <1>6
  <2>2. /\ Append(f2s, m) \in Seq(ContextMsg)
        /\ NoneIn(Append(f2s, m), A) <=> NoneIn(f2s, A)
        /\ LastIn(f2s, A, B) => LastIn(Append(f2s, m), A, B)
    BY <1>1, <1>4
  <2>3. /\ NoneIn(f2s', A) <=> NoneIn(Append(f2s, m), A)
        /\ LastIn(Append(f2s, m), A, B) => LastIn(f2s', A, B)
    BY <1>4, <2>1, <2>2
  <2> QED
    BY <2>2, <2>3
<1> QED
  BY <1>2, <1>3, <1>5, <1>6 DEF SavesUntouched

LEMMA LeavesSaves ==
    ASSUME TypesInv, [PagesNext]_allVars, ~HandleSaveSource, ~SaveSource, ~Lose
    PROVE  SavesUntouched
<1>1. \A m \in PlainMsg \cup SuccessMsg \cup RequestMsg : m \in ContextMsg \ SaveMsg
  BY QueueTypes, Kinds
<1>2. CASE HandleResume
  <2>1. f2s # <<>> /\ f2s' = Tail(f2s) /\ Head(f2s) \in PlainMsg
    BY <1>2, HandleResumeDoes
  <2> QED
    BY <1>1, <2>1 DEF SavesUntouched
<1>3. CASE HandleForceUpdateSource \/ HandleSuccessed
  <2>1. Receives("FORCE_UPDATESOURCE") \/ Receives("SUCCESSED")
    BY <1>3 DEF HandleForceUpdateSource, HandleSuccessed
  <2>2. f2s # <<>> /\ f2s' = Tail(f2s) /\ Head(f2s) \in PlainMsg \cup SuccessMsg
    BY <2>1, ReceivesDoes
  <2> QED
    BY <1>1, <2>2 DEF SavesUntouched
<1>4. CASE HandleRequestSource
  <2>1. f2s # <<>> /\ f2s' = Tail(f2s) /\ Head(f2s) \in RequestMsg
    BY <1>4, HandleRequestSourceDoes
  <2> QED
    BY <1>1, <2>1 DEF SavesUntouched
<1>5. CASE OnUpdateSource
  <2>1. /\ Success \in SuccessMsg /\ RequestFor(Head(s2f)) \in RequestMsg
        /\ \/ f2s' = f2s
           \/ f2s' = Append(f2s, Success)
           \/ f2s' = Append(Append(f2s, RequestFor(Head(s2f))), Success)
    BY <1>5, OnUpdateSourceDoes
  <2> QED
    BY <1>1, <2>1 DEF SavesUntouched
<1>6. CASE OnPendingEvent
  <2>1. /\ RequestFor(Head(pending)) \in RequestMsg
        /\ \/ UNCHANGED f2s
           \/ f2s' = Append(f2s, RequestFor(Head(pending)))
    BY <1>6, OnPendingEventDoes
  <2> QED
    BY <1>1, <2>1 DEF SavesUntouched
<1>7. ASSUME NEW type \in {"RESUME", "FORCE_UPDATESOURCE"}, Sends(type)
      PROVE  SavesUntouched
  <2>1. [type |-> type] \in PlainMsg /\ f2s' = Append(f2s, [type |-> type])
    BY <1>7, SendsDoes
  <2> QED
    BY <1>1, <2>1 DEF SavesUntouched
<1>8. CASE HookLine \/ SendUpdateSource \/ HandleBreakpoint
           \/ (\E k \in Keys : LoadFile(k))
           \/ OnValueSource \/ OnAddedSource \/ OnChangedState \/ OnEndDebug
           \/ OnBreakpoints \/ Edit \/ (\E j \in DOMAIN pages : Select(j))
           \/ (\E bp \in Breakpoints : Click(bp)) \/ UNCHANGED allVars
  <2>1. UNCHANGED f2s
    BY <1>8
    DEF HookLine, SendUpdateSource, HandleBreakpoint, LoadFile, OnValueSource,
        OnAddedSource, OnChangedState, OnEndDebug, OnBreakpoints, Edit, Select,
        Click, allVars, pageVars
  <2> QED
    BY <2>1 DEF SavesUntouched
<1> QED
  BY <1>2, <1>3, <1>4, <1>5, <1>6, <1>7, <1>8
  DEF PagesNext, ContextStep, FrameStep, UserStep

LEMMA LeavesFiles ==
    ASSUME TypesInv, [PagesNext]_allVars, ~HandleSaveSource
    PROVE  UNCHANGED <<file, failed>>
<1>1. CASE HookLine \/ SendUpdateSource \/ HandleBreakpoint \/ HandleResume
           \/ HandleForceUpdateSource \/ HandleSuccessed \/ HandleRequestSource
           \/ (\E k \in Keys : LoadFile(k))
  BY <1>1
  DEF HookLine, SendUpdateSource, HandleBreakpoint, HandleResume,
      HandleForceUpdateSource, HandleSuccessed, HandleRequestSource, LoadFile,
      pageVars, program, history
<1>2. CASE FrameStep \/ UserStep \/ Lose \/ UNCHANGED allVars
  BY <1>2
  DEF FrameStep, UserStep, OnUpdateSource, OnPendingEvent, OnValueSource,
      OnAddedSource, OnChangedState, OnEndDebug, OnBreakpoints, Edit, SaveSource,
      Select, Click, Sends, Lose, allVars, pageVars, program, history
<1> QED
  BY <1>1, <1>2 DEF PagesNext, ContextStep

(* Each page is an earlier one with its text, and is not less modified. *)
OldPages ==
    /\ DOMAIN pages' = DOMAIN pages
    /\ \A i \in DOMAIN pages :
        /\ pages'[i].key = pages[i].key
        /\ ~pages'[i].modified => ~pages[i].modified /\ pages'[i].text = pages[i].text

LEMMA SamePagesAreOld ==
    /\ SameButMarks => OldPages
    /\ UNCHANGED pages => OldPages
  BY DEF SameButMarks, OldPages

LEMMA LeavesPages ==
    ASSUME TypesInv, TypesInv', TypeOK, TypeOK', WaitInv, PageInv, [PagesNext]_allVars,
           ~recovered', linked', ~OnAddedSource, ~SaveSource
    PROVE  OldPages
<1>1. linked /\ pending = <<>> /\ NoSourceInAnswers /\ s2f \in Seq(FrameMsg)
  BY NeverUnrecovered, NeverRelinked DEF PageInv, TypesInv
<1>2. s2f # <<>> => Head(s2f) = s2f[1] /\ 1 \in DOMAIN s2f
  BY <1>1, TailFacts
<1>3. CASE OnUpdateSource
  BY <1>3, OnUpdateSourceDoes, FocusDoes, SamePagesAreOld
<1>4. CASE OnPendingEvent
  BY <1>1, <1>4, OnPendingEventDoes
<1>5. CASE OnValueSource
  <2>1. s2f # <<>> /\ Head(s2f) \in ValueMsg
    BY <1>5, OnValueSourceDoes
  <2>2. Head(s2f).text = NoText
    BY <1>1, <1>2, <2>1 DEF NoSourceInAnswers
  <2> QED
    BY <1>5, <2>2, OnValueSourceDoes, SamePagesAreOld
<1>6. CASE OnChangedState
  BY <1>6, OnChangedStateDoes, SamePagesAreOld
<1>7. CASE OnEndDebug
  <2>1. Processes("END_CONNECTION")
    BY <1>7 DEF OnEndDebug
  <2>2. s2f # <<>> /\ Head(s2f) \in EndMsg
    BY <2>1, ProcessesDoes
  <2> QED
    BY <1>1, <1>2, <2>2 DEF WaitInv
<1>8. CASE OnBreakpoints
  BY <1>8, OnBreakpointsDoes DEF OldPages
<1>9. CASE Edit
  <2>1. /\ selected \in DOMAIN pages /\ SameButTexts /\ pages'[selected].modified
        /\ \A i \in DOMAIN pages : i # selected => pages'[i] = pages[i]
    BY <1>9, EditDoes
  <2> QED
    BY <2>1 DEF SameButTexts, OldPages
<1>10. CASE HookLine \/ SendUpdateSource \/ HandleBreakpoint \/ HandleResume
            \/ HandleForceUpdateSource \/ HandleSuccessed \/ HandleRequestSource
            \/ HandleSaveSource \/ (\E k \in Keys : LoadFile(k))
            \/ (\E j \in DOMAIN pages : Select(j))
            \/ (\E bp \in Breakpoints : Click(bp))
            \/ (\E type \in {"RESUME", "FORCE_UPDATESOURCE"} : Sends(type))
            \/ Lose \/ UNCHANGED allVars
  <2>1. UNCHANGED pages
    BY <1>10
    DEF HookLine, SendUpdateSource, HandleBreakpoint, HandleResume,
        HandleForceUpdateSource, HandleSuccessed, HandleRequestSource,
        HandleSaveSource, LoadFile, Select, Click, Sends, Lose, allVars, pageVars, view
  <2> QED
    BY <2>1, SamePagesAreOld
<1> QED
  BY <1>3, <1>4, <1>5, <1>6, <1>7, <1>8, <1>9, <1>10
  DEF PagesNext, ContextStep, FrameStep, UserStep

LEMMA PagesKeepSaves ==
    TypesInv /\ TypesInv' /\ TypeOK /\ TypeOK' /\ WaitInv /\ PageInv /\ SaveInv
        /\ [PagesNext]_allVars => SaveInv'
<1> DEFINE SavesHavePages == \A i \in DOMAIN f2s : f2s[i] \in SaveMsg => PageFor(f2s[i].key)
           AddedAsFiled == \A i \in DOMAIN s2f : s2f[i] \in AddedMsg =>
                                                 s2f[i].text = file[s2f[i].key]
           NextSaved(p) ==
               /\ NoneIn(f2s', SavesOf(p.key)) => file'[p.key] = Stored(p.text)
               /\ LastIn(f2s', SavesOf(p.key), SavesAs(Stored(p.text)))
           AllSaved == \A i \in DOMAIN pages : ~pages[i].modified => IsSaved(pages[i])
<1> SUFFICES ASSUME TypesInv, TypesInv', TypeOK, TypeOK', WaitInv, PageInv, SaveInv,
                    [PagesNext]_allVars, linked', ~recovered'
             PROVE  SavesHavePages' /\ (~failed' => AddedAsFiled' /\ AllSaved')
  BY DEF SaveInv
<1>1. /\ linked /\ ~recovered /\ UniquePages /\ (\A k \in Keys : UniqueAt(k))
      /\ SavesHavePages /\ (~failed => AddedAsFiled /\ AllSaved)
  BY NeverUnrecovered, NeverRelinked DEF PageInv, SaveInv
<1>2. /\ s2f \in Seq(FrameMsg) /\ f2s \in Seq(ContextMsg)
      /\ \A i \in DOMAIN pages : pages[i] \in FullPage
      /\ file \in [Keys -> FullText]
  BY ElementOfSeq, LenProperties DEF TypesInv
<1>3. \A k : SavesOf(k)' = SavesOf(k) /\ SavesAs(k)' = SavesAs(k) /\ SavesOf(k) \subseteq SaveMsg
  BY DEF SavesOf, SavesAs
<1>4. ASSUME NEW k, PageFor(k) PROVE PageFor(k)'
  <2>1. CASE OnAddedSource
    <3>1. \A i \in DOMAIN pages : i \in DOMAIN pages' /\ pages'[i] = pages[i]
      BY <2>1, OnAddedSourceDoes, CreatePageDoes
    <3> QED
      BY <1>4, <3>1 DEF PageFor
  <2>2. CASE SaveSource
    BY <1>4, <2>2, SaveSourceDoes DEF SameButTexts, PageFor
  <2>3. CASE ~OnAddedSource /\ ~SaveSource
    BY <1>4, <2>3, LeavesPages DEF OldPages, PageFor
  <2> QED
    BY <2>1, <2>2, <2>3
<1>5. SavesHavePages'
  <2> SUFFICES ASSUME NEW i \in DOMAIN f2s', f2s'[i] \in SaveMsg
               PROVE  PageFor(f2s'[i].key)
    BY <1>4
  <2>1. CASE \E j \in DOMAIN f2s : f2s'[i] = f2s[j]
    BY <1>1, <2>1
  <2>2. CASE selected \in DOMAIN pages /\ f2s'[i] = SaveOf(pages[selected])
    BY <2>2 DEF PageFor, SaveOf
  <2>3. ASSUME NEW ev \in UpdateMsg, f2s'[i] = RequestFor(ev) PROVE FALSE
    BY <2>3, MessageTypes, Kinds
  <2> QED
    BY <2>1, <2>2, <2>3, NewToContext, Kinds
<1>6. ASSUME UNCHANGED file, ~failed, NEW i \in DOMAIN s2f', s2f'[i] \in AddedMsg
      PROVE  s2f'[i].text = file[s2f'[i].key]
  <2>1. CASE \E j \in DOMAIN s2f : s2f'[i] = s2f[j]
    BY <1>1, <1>6, <2>1
  <2>2. CASE \E k \in Keys : s2f'[i] = FileAdded(k)
    BY <2>2 DEF FileAdded
  <2>3. CASE s2f'[i] = StopUpdate
    BY <1>6, <2>3, MessageTypes, Kinds
  <2> QED
    BY <1>6, <2>1, <2>2, <2>3, NewToFrame, Kinds
<1>7. ASSUME UNCHANGED file, SavesUntouched, NEW p, IsSaved(p), NEW q,
             q.key = p.key, q.text = p.text
      PROVE  NextSaved(q)
  <2> DEFINE A == SavesOf(p.key)
             B == SavesAs(Stored(p.text))
  <2>1. /\ NoneIn(f2s, A) => file[p.key] = Stored(p.text)
        /\ LastIn(f2s, A, B)
    BY <1>7 DEF IsSaved
  <2>2. /\ NoneIn(f2s', A) <=> NoneIn(f2s, A)
        /\ LastIn(f2s, A, B) => LastIn(f2s', A, B)
    BY <1>3, <1>7, UntouchedKeeps
  <2>3. /\ NoneIn(f2s', A) => file'[p.key] = Stored(p.text)
        /\ LastIn(f2s', A, B)
    BY <1>7, <2>1, <2>2
  <2> HIDE DEF A, B
  <2>4. A = SavesOf(q.key) /\ B = SavesAs(Stored(q.text))
    BY <1>7 DEF A, B
  <2>5. /\ NoneIn(f2s', SavesOf(q.key)) => file'[q.key] = Stored(q.text)
        /\ LastIn(f2s', SavesOf(q.key), SavesAs(Stored(q.text)))
    BY <1>7, <2>3, <2>4
  <2> QED
    BY <2>5
<1>8. ASSUME \A i \in DOMAIN pages' : ~pages'[i].modified => NextSaved(pages'[i])
       PROVE  AllSaved'
  BY <1>8 DEF IsSaved, SavesOf, SavesAs
<1>9. CASE HandleSaveSource
  <2> DEFINE m == Head(f2s)
  <2>1. Receives("SAVE_SOURCE") /\ UNCHANGED <<s2f, pages, sources>>
    BY <1>9 DEF HandleSaveSource, view
  <2>2. f2s # <<>> /\ f2s' = Tail(f2s) /\ m \in SaveMsg
    BY <2>1, ReceivesDoes
  <2>3. PageFor(m.key) /\ m.key \in Keys
    <3>1. m = f2s[1] /\ 1 \in DOMAIN f2s
      BY <1>2, <2>2, TailFacts
    <3> QED
      BY <1>1, <2>2, <3>1 DEF SaveMsg
  <2>4. sources[m.key] # NoText /\ NoneIn(s2f, AddedOf(m.key))
    BY <1>1, <2>3 DEF UniqueAt
  <2>5. ASSUME ~failed'
        PROVE  ~failed /\ file' = [file EXCEPT ![m.key] = m.text]
    BY <1>9, <2>4, <2>5 DEF HandleSaveSource
  <2>6. ASSUME ~failed' PROVE AddedAsFiled'
    <3> SUFFICES ASSUME NEW i \in DOMAIN s2f, s2f[i] \in AddedMsg
                 PROVE  s2f[i].text = file'[s2f[i].key]
      BY <2>1
    <3>1. s2f[i].key # m.key
      BY <2>4 DEF NoneIn, AddedOf
    <3>2. s2f[i].text = file[s2f[i].key] /\ s2f[i].key \in Keys
      BY <1>1, <2>5, <2>6 DEF AddedMsg
    <3> QED
      BY <1>2, <2>5, <2>6, <3>1, <3>2
  <2>7. ASSUME ~failed', NEW i \in DOMAIN pages, ~pages[i].modified
        PROVE  NextSaved(pages'[i])
    <3> DEFINE k == pages[i].key
               t == Stored(pages[i].text)
               A == SavesOf(k)
               B == SavesAs(t)
    <3>1. /\ NoneIn(f2s, A) => file[k] = t
          /\ LastIn(f2s, A, B)
          /\ k \in Keys
      BY <1>1, <1>2, <2>5, <2>7 DEF IsSaved, FullPage
    <3>2. LastIn(f2s', A, B)
      BY <1>2, <2>2, <3>1, TailOrder
    <3>3. ASSUME NoneIn(f2s', A) PROVE file'[k] = t
      <4>1. CASE k = m.key
        <5>1. m \in A
          BY <2>2, <4>1 DEF SavesOf
        <5>2. m \in B
          BY <1>2, <2>2, <3>1, <3>3, <5>1, TailOrder
        <5>3. m.text = t
          BY <5>2 DEF SavesAs
        <5> QED
          BY <1>2, <2>5, <2>7, <3>1, <4>1, <5>3
      <4>2. CASE k # m.key
        <5>1. m \notin A
          BY <4>2 DEF SavesOf
        <5>2. NoneIn(f2s, A)
          BY <1>2, <2>2, <3>3, <5>1, TailOrder
        <5> QED
          BY <1>2, <2>5, <2>7, <3>1, <4>2, <5>2
      <4> QED
        BY <4>1, <4>2
    <3>4. pages'[i] = pages[i]
      BY <2>1
    <3> QED
      BY <3>2, <3>3, <3>4
  <2> QED
    BY <1>5, <1>8, <2>1, <2>6, <2>7
<1>10. ASSUME UNCHANGED <<file, failed>>, ~failed'
      PROVE  ~failed /\ AddedAsFiled /\ AllSaved /\ AddedAsFiled'
  BY <1>1, <1>6, <1>10
<1>11. CASE SaveSource
  <2> DEFINE s == pages[selected]
             m == SaveOf(s)
  <2>1. /\ selected \in DOMAIN pages /\ SameButTexts
        /\ \A i \in DOMAIN pages : pages'[i].text = pages[i].text
        /\ \A i \in DOMAIN pages : i # selected => pages'[i] = pages[i]
        /\ m \in SaveMsg /\ m \in ContextMsg
        /\ f2s' = Append(f2s, m)
    BY <1>11, SaveSourceDoes, QueueTypes
  <2>2. UNCHANGED <<file, failed>>
    BY <1>11 DEF SaveSource, program, history
  <2>3. m.key = s.key /\ m.text = Stored(s.text)
    BY DEF SaveOf
  <2> HIDE DEF m
  <2>4. ASSUME ~failed', NEW i \in DOMAIN pages', ~pages'[i].modified
        PROVE  NextSaved(pages'[i])
    <3> DEFINE A == SavesOf(pages'[i].key)
               B == SavesAs(Stored(pages'[i].text))
    <3>1. i \in DOMAIN pages
      BY <2>1 DEF SameButTexts
    <3>2. CASE i = selected
      <4>1. pages'[i].key = s.key /\ pages'[i].text = s.text
        BY <2>1, <3>1, <3>2 DEF SameButTexts
      <4>2. m \in A /\ m \in B
        BY <2>1, <2>3, <4>1 DEF SavesOf, SavesAs
      <4> HIDE DEF A, B
      <4>3. ~NoneIn(f2s', A) /\ LastIn(f2s', A, B)
        BY <1>2, <2>1, <4>2, AppendOrder
      <4> QED
        BY <4>3 DEF A, B
    <3>3. CASE i # selected
      <4>1. pages'[i] = pages[i] /\ pages[i].key # s.key
        BY <1>1, <2>1, <3>1, <3>3 DEF UniquePages
      <4>2. m \notin A
        BY <2>3, <4>1 DEF SavesOf
      <4>3. IsSaved(pages[i])
        BY <1>10, <2>2, <2>4, <3>1, <4>1
      <4>4. /\ NoneIn(f2s, A) => file[pages'[i].key] = Stored(pages'[i].text)
            /\ LastIn(f2s, A, B)
        BY <4>1, <4>3 DEF IsSaved
      <4> HIDE DEF A, B
      <4>5. NoneIn(f2s', A) => NoneIn(f2s, A)
        BY <1>2, <2>1, AppendOrder
      <4>6. LastIn(f2s', A, B)
        BY <1>2, <2>1, <4>2, <4>4, AppendOrder
      <4> QED
        BY <2>2, <4>4, <4>5, <4>6 DEF A, B
    <3> QED
      BY <3>2, <3>3
  <2> QED
    BY <1>5, <1>10, <1>8, <2>2, <2>4
<1>12. CASE OnAddedSource
  <2> DEFINE k == Head(s2f).key
             t == Head(s2f).text
             l == Len(pages) + 1
             p == NewPage(k, t)
  <2>1. /\ s2f # <<>> /\ Head(s2f) \in AddedMsg
        /\ k \in Keys /\ t \in FullText /\ CreatePage(k, t)
    BY <1>12, OnAddedSourceDoes
  <2>2. UNCHANGED <<f2s, file, failed>>
    BY <1>12 DEF OnAddedSource, program, history
  <2>3. /\ pages'[l] = p
        /\ \A i \in DOMAIN pages : i \in DOMAIN pages' /\ pages'[i] = pages[i]
        /\ \A i \in DOMAIN pages' : i \in DOMAIN pages \/ i = l
    BY <2>1, CreatePageDoes
  <2>4. p.key = k /\ Stored(p.text) = t
    BY <2>1, NewPageFields, TextTypes
  <2>5. ~PageFor(k)
    <3>1. /\ AtMostOne(s2f, AddedOf(k))
          /\ PageFor(k) => NoneIn(s2f, AddedOf(k)) /\ sources[k] # NoText
          /\ sources[k] = NoText => NoneIn(s2f, AddedOf(k))
      BY <1>1, <2>1 DEF UniqueAt
    <3> QED
      BY <1>12, <3>1, AddedShown
  <2>6. NoneIn(f2s, SavesOf(k))
    BY <1>1, <2>5 DEF NoneIn, SavesOf
  <2>7. ASSUME ~failed' PROVE t = file[k]
    <3>1. Head(s2f) = s2f[1] /\ 1 \in DOMAIN s2f
      BY <1>2, <2>1, TailFacts
    <3> QED
      BY <1>10, <2>1, <2>2, <2>7, <3>1
  <2> HIDE DEF k, t, l, p
  <2>8. ASSUME ~failed' PROVE NextSaved(p)
    <3>1. LastIn(f2s, SavesOf(k), SavesAs(t))
      BY <2>6 DEF NoneIn, LastIn
    <3> QED
      BY <2>2, <2>4, <2>7, <2>8, <3>1
  <2>9. ASSUME ~failed', NEW i \in DOMAIN pages', ~pages'[i].modified
        PROVE  NextSaved(pages'[i])
    <3>1. CASE i = l
      BY <2>3, <2>8, <2>9, <3>1
    <3>2. CASE i \in DOMAIN pages
      <4>1. pages'[i] = pages[i] /\ IsSaved(pages[i])
        BY <1>10, <2>2, <2>3, <2>9, <3>2
      <4> QED
        BY <1>7, <2>2, <4>1 DEF SavesUntouched
    <3> QED
      BY <2>3, <3>1, <3>2
  <2> QED
    BY <1>5, <1>10, <1>8, <2>2, <2>9
<1>13. CASE ~HandleSaveSource /\ ~SaveSource /\ ~OnAddedSource
  <2>1. ~Lose
    BY LoseDoes
  <2>2. SavesUntouched /\ UNCHANGED <<file, failed>> /\ OldPages
    BY <1>13, <2>1, LeavesSaves, LeavesFiles, LeavesPages
  <2>3. ASSUME ~failed', NEW i \in DOMAIN pages', ~pages'[i].modified
        PROVE  NextSaved(pages'[i])
    <3>1. /\ i \in DOMAIN pages /\ ~pages[i].modified
          /\ pages'[i].key = pages[i].key /\ pages'[i].text = pages[i].text
      BY <2>2, <2>3 DEF OldPages
    <3>2. IsSaved(pages[i])
      BY <1>10, <2>2, <2>3, <3>1
    <3> QED
      BY <1>7, <2>2, <3>1, <3>2
  <2> QED
    BY <1>5, <1>10, <1>8, <2>2, <2>3
<1> QED
  BY <1>9, <1>11, <1>12, <1>13

(* SavedIsInTheFile: whatever is edited, saved and read in the meantime, a   *)
(* page that is not marked as modified shows the text of its file, to the    *)
(* last newline (sourceview.cpp:457-488, sysinfo.cpp:279-309), unless a      *)
(* file could not be written or could only be read late.                     *)
THEOREM SavedIsAlwaysInTheFile == PagesSpec => []SavedIsInTheFile
<1>1. PagesInit => SaveInv
  <2>1. PagesInit => DOMAIN pages = {} /\ DOMAIN s2f = {} /\ DOMAIN f2s = {}
    BY EmptySeq DEF PagesInit
  <2> QED
    BY <2>1 DEF SaveInv
<1>2. SaveInv => SavedIsInTheFile
  <2> SUFFICES ASSUME SaveInv, Quiet, ~failed, ~recovered, NEW i \in DOMAIN pages,
                      ~pages[i].modified
               PROVE  file[pages[i].key] = Stored(pages[i].text)
    BY DEF SavedIsInTheFile
  <2>1. IsSaved(pages[i])
    BY DEF SaveInv, Quiet
  <2>2. NoneIn(f2s, SavesOf(pages[i].key))
    BY EmptySeq DEF Quiet, NoneIn
  <2> QED
    BY <2>1, <2>2 DEF IsSaved
<1>3. (TypesInv /\ TypeOK) /\ (TypesInv /\ TypeOK)' /\ PagesInv /\ SaveInv
          /\ [PagesNext]_allVars => SaveInv'
  BY PagesKeepSaves DEF PagesInv
<1> QED
  BY <1>1, <1>2, <1>3, TypesAlways, PagesInvAlways, PTL DEF PagesSpec

=============================================================================
