---------------------------- MODULE Context_proofs ----------------------------
(***************************************************************************)
(* Proofs about the Context: about ContextManager, about ConfigFile as     *)
(* ContextLife uses it, and about ContextLife, for any contexts, addresses *)
(* and sessions; about ProtectedCalls, for calls nested to any depth; and  *)
(* about DebuggerStart, for any other programs and any number of faults.   *)
(***************************************************************************)
EXTENDS ContextLife, ProtectedCalls, DebuggerStart, FiniteSetTheorems, SequenceFacts

(* Only an open context has entries, and only an open one has states.       *)
EntriesAreOpen == \A L \in DOMAIN map : main[map[L]] \in Addresses
OwnersAreOpen ==
    \A L \in Addresses : owner[L] # None => main[owner[L]] \in Addresses

(* What overlap remembers of. *)
OneIsOpen == ~overlap => \A c, d \in Open : c = d

ManagerInv ==
    TypeOK /\ EntriesAreOpen /\ OwnersAreOpen /\ OneIsOpen /\ OneAtATimeIsFound

(* What insert and the erasing loop leave in the map. *)
LEMMA AddedFacts ==
    ASSUME TypeOK, NEW c \in Contexts, NEW L \in Addresses
    PROVE  /\ DOMAIN Added(c, L) = DOMAIN map \cup {L}
           /\ \A K \in DOMAIN map : Added(c, L)[K] = map[K]
           /\ L \notin DOMAIN map => Added(c, L)[L] = c
           /\ Added(c, L) \in [DOMAIN Added(c, L) -> Contexts]
<1>1. c # None
  BY ManagerAssumption DEF None
<1>2. CASE L \in DOMAIN map
  <2>1. Added(c, L) = map
    BY <1>2 DEF Added
  <2> QED
    BY <1>2, <2>1 DEF TypeOK
<1>3. CASE L \notin DOMAIN map
  <2>1. Added(c, L) = [K \in DOMAIN map \cup {L} |-> IF K = L THEN c ELSE map[K]]
    BY <1>1, <1>3 DEF Added
  <2>2. \A K \in DOMAIN map : map[K] \in Contexts
    BY DEF TypeOK
  <2> QED
    BY <1>3, <2>1, <2>2
<1> QED
  BY <1>2, <1>3

LEMMA ErasedFacts ==
    ASSUME TypeOK, NEW c \in Contexts
    PROVE  /\ DOMAIN Erased(c) = {L \in DOMAIN map : map[L] # c}
           /\ \A K \in DOMAIN Erased(c) : Erased(c)[K] = map[K]
           /\ Erased(c) \in [DOMAIN Erased(c) -> Contexts]
<1>1. Erased(c) = [K \in {L \in DOMAIN map : map[L] # c} |-> map[K]]
  BY DEF Erased, Restrict
<1>2. \A K \in DOMAIN map : map[K] \in Contexts
  BY DEF TypeOK
<1> QED
  BY <1>1, <1>2

LEMMA InitManagerInv == Init => ManagerInv
  BY ManagerAssumption DEF Init, ManagerInv, TypeOK, EntriesAreOpen,
     OwnersAreOpen, OneIsOpen, OneAtATimeIsFound, FindsItsContext, Open, None

LEMMA OpenInv ==
    ASSUME ManagerInv, NEW c \in Contexts, NEW L \in Addresses,
           lldebug_open(c, L)
    PROVE  ManagerInv'
<1> USE DEF ManagerInv
<1>1. /\ main[c] = None /\ owner[L] = None
      /\ owner' = [owner EXCEPT ![L] = c]
      /\ main' = [main EXCEPT ![c] = L]
      /\ map' = Added(c, L)
      /\ overlap' = (overlap \/ Open # {})
  BY DEF lldebug_open
<1>2. /\ DOMAIN map' = DOMAIN map \cup {L}
      /\ \A K \in DOMAIN map : map'[K] = map[K]
      /\ L \notin DOMAIN map => map'[L] = c
      /\ map' \in [DOMAIN map' -> Contexts]
  BY <1>1, AddedFacts
<1>3. /\ main'[c] = L
      /\ \A d \in Contexts : main'[d] \in Addresses <=>
            d = c \/ main[d] \in Addresses
  BY <1>1 DEF TypeOK
<1>4. /\ owner'[L] = c
      /\ \A K \in Addresses : K # L => owner'[K] = owner[K]
  BY <1>1 DEF TypeOK
<1>5. TypeOK'
  BY <1>1, <1>2 DEF TypeOK
<1>6. EntriesAreOpen'
  <2> SUFFICES ASSUME NEW K \in DOMAIN map' PROVE main'[map'[K]] \in Addresses
    BY DEF EntriesAreOpen
  <2>1. CASE K \in DOMAIN map
    BY <1>2, <1>3, <2>1 DEF EntriesAreOpen, TypeOK
  <2>2. CASE K \notin DOMAIN map
    BY <1>2, <1>3, <2>2
  <2> QED
    BY <2>1, <2>2
<1>7. OwnersAreOpen'
  <2> SUFFICES ASSUME NEW K \in Addresses, owner'[K] # None
               PROVE main'[owner'[K]] \in Addresses
    BY DEF OwnersAreOpen, None
  <2> QED
    BY <1>3, <1>4 DEF OwnersAreOpen, TypeOK
<1>8. Open' = Open \cup {c}
  BY <1>3 DEF Open
<1>9. overlap' \/ Open' = {c}
  BY <1>1, <1>8
<1>10. OneIsOpen'
  BY <1>9 DEF OneIsOpen
<1>11. OneAtATimeIsFound'
  <2> SUFFICES ASSUME ~overlap', NEW K \in Addresses, owner'[K] # None
               PROVE  K \in DOMAIN map' /\ map'[K] = owner'[K]
    BY DEF OneAtATimeIsFound, FindsItsContext, Find, None
  <2>1. Open = {}
    BY <1>1
  <2>2. \A d \in Contexts : main[d] \notin Addresses
    BY <2>1 DEF Open
  <2>3. DOMAIN map = {}
    BY <2>2 DEF EntriesAreOpen, TypeOK
  <2>4. \A J \in Addresses : owner[J] = None
    BY <2>2 DEF OwnersAreOpen, TypeOK
  <2> QED
    BY <1>2, <1>4, <2>3, <2>4
<1> QED
  BY <1>5, <1>6, <1>7, <1>10, <1>11

LEMMA NewThreadInv ==
    ASSUME ManagerInv, NEW L \in Addresses, NEW NL \in Addresses,
           NewThread(L, NL)
    PROVE  ManagerInv'
<1> USE DEF ManagerInv
<1>1. /\ owner[L] # None /\ owner[NL] = None
      /\ Find(L) # None
      /\ owner' = [owner EXCEPT ![NL] = owner[L]]
      /\ map' = Added(Find(L), NL)
      /\ main' = main /\ overlap' = overlap
  BY DEF NewThread
<1>2. L \in DOMAIN map /\ Find(L) = map[L] /\ map[L] \in Contexts
  BY <1>1 DEF Find, TypeOK
<1>3. /\ DOMAIN map' = DOMAIN map \cup {NL}
      /\ \A K \in DOMAIN map : map'[K] = map[K]
      /\ NL \notin DOMAIN map => map'[NL] = map[L]
      /\ map' \in [DOMAIN map' -> Contexts]
  <2>1. map' = Added(map[L], NL) /\ TypeOK
    BY <1>1, <1>2
  <2>2. PICK c \in Contexts : c = map[L]
    BY <1>2
  <2> QED
    BY <2>1, <2>2, AddedFacts
<1>4. /\ owner'[NL] = owner[L]
      /\ \A K \in Addresses : K # NL => owner'[K] = owner[K]
  BY <1>1 DEF TypeOK
<1>5. TypeOK'
  BY <1>1, <1>3 DEF TypeOK
<1>6. EntriesAreOpen'
  <2> SUFFICES ASSUME NEW K \in DOMAIN map' PROVE main[map'[K]] \in Addresses
    BY <1>1 DEF EntriesAreOpen
  <2>1. CASE K \in DOMAIN map
    BY <1>3, <2>1 DEF EntriesAreOpen
  <2>2. CASE K \notin DOMAIN map
    BY <1>2, <1>3, <2>2 DEF EntriesAreOpen
  <2> QED
    BY <2>1, <2>2
<1>7. OwnersAreOpen'
  BY <1>1, <1>4 DEF OwnersAreOpen, None
<1>8. OneIsOpen'
  BY <1>1 DEF OneIsOpen, Open
<1>9. OneAtATimeIsFound'
  <2> SUFFICES ASSUME ~overlap, NEW K \in Addresses, owner'[K] # None
               PROVE  K \in DOMAIN map' /\ map'[K] = owner'[K]
    BY <1>1 DEF OneAtATimeIsFound, FindsItsContext, Find, None
  <2>1. \A J \in Addresses : owner[J] # None =>
           J \in DOMAIN map /\ map[J] = owner[J]
    BY DEF OneAtATimeIsFound, FindsItsContext, Find
  <2>2. CASE K # NL
    BY <1>3, <1>4, <2>1, <2>2
  <2>3. CASE K = NL
    <3>1. owner'[K] = map[L] /\ K \in DOMAIN map'
      BY <1>1, <1>3, <1>4, <2>1, <2>3
    <3>2. CASE NL \notin DOMAIN map
      BY <1>3, <2>3, <3>1, <3>2
    <3>3. CASE NL \in DOMAIN map
      <4>1. map[NL] \in Open /\ map[L] \in Open
        BY <1>2, <3>3 DEF EntriesAreOpen, Open, TypeOK
      <4> QED
        BY <1>3, <2>3, <3>1, <3>3, <4>1 DEF OneIsOpen
    <3> QED
      BY <3>2, <3>3
  <2> QED
    BY <2>2, <2>3
<1> QED
  BY <1>5, <1>6, <1>7, <1>8, <1>9

LEMMA CollectInv ==
    ASSUME ManagerInv, NEW L \in Addresses, Collect(L)
    PROVE  ManagerInv'
<1> USE DEF ManagerInv
<1>1. /\ owner' = [owner EXCEPT ![L] = None]
      /\ map' = map /\ main' = main /\ overlap' = overlap
  BY DEF Collect
<1>2. \A K \in Addresses : owner'[K] # None => owner'[K] = owner[K]
  BY <1>1 DEF TypeOK
<1>3. TypeOK'
  BY <1>1 DEF TypeOK
<1>4. EntriesAreOpen' /\ OneIsOpen'
  BY <1>1 DEF EntriesAreOpen, OneIsOpen, Open
<1>5. OwnersAreOpen'
  BY <1>1, <1>2 DEF OwnersAreOpen, None
<1>6. OneAtATimeIsFound'
  BY <1>1, <1>2 DEF OneAtATimeIsFound, FindsItsContext, Find, None
<1> QED
  BY <1>3, <1>4, <1>5, <1>6

LEMMA CloseInv ==
    ASSUME ManagerInv, NEW L \in Addresses, lldebug_close(L)
    PROVE  ManagerInv'
<1> USE DEF ManagerInv
<1>1. PICK c \in Contexts :
         /\ Find(L) = c /\ main[c] = L
         /\ map' = Erased(c)
         /\ owner' = [K \in Addresses |->
                         IF owner[K] = c THEN None ELSE owner[K]]
         /\ main' = [main EXCEPT ![c] = "closed"]
         /\ overlap' = overlap
  BY DEF lldebug_close
<1>2. /\ DOMAIN map' = {K \in DOMAIN map : map[K] # c}
      /\ \A K \in DOMAIN map' : map'[K] = map[K]
      /\ map' \in [DOMAIN map' -> Contexts]
  BY <1>1, ErasedFacts
<1>3. \A d \in Contexts : main'[d] \in Addresses <=>
         d # c /\ main[d] \in Addresses
  BY <1>1, ManagerAssumption DEF TypeOK
<1>4. \A K \in Addresses : owner'[K] # None =>
         owner'[K] = owner[K] /\ owner[K] # c
  BY <1>1
<1>5. TypeOK'
  BY <1>1, <1>2 DEF TypeOK
<1>6. EntriesAreOpen'
  BY <1>2, <1>3 DEF EntriesAreOpen, TypeOK
<1>7. OwnersAreOpen'
  <2> SUFFICES ASSUME NEW K \in Addresses, owner'[K] # None
               PROVE main'[owner'[K]] \in Addresses
    BY DEF OwnersAreOpen, None
  <2> QED
    BY <1>3, <1>4 DEF OwnersAreOpen, TypeOK
<1>8. OneIsOpen'
  BY <1>1, <1>3 DEF OneIsOpen, Open
<1>9. OneAtATimeIsFound'
  <2> SUFFICES ASSUME ~overlap, NEW K \in Addresses, owner'[K] # None
               PROVE  K \in DOMAIN map' /\ map'[K] = owner'[K]
    BY <1>1 DEF OneAtATimeIsFound, FindsItsContext, Find, None
  <2>1. K \in DOMAIN map /\ map[K] = owner[K]
    BY <1>4 DEF OneAtATimeIsFound, FindsItsContext, Find
  <2> QED
    BY <1>2, <1>4, <2>1
<1> QED
  BY <1>5, <1>6, <1>7, <1>8, <1>9

LEMMA ManagerStep == ManagerInv /\ [Next]_vars => ManagerInv'
<1> SUFFICES ASSUME ManagerInv, [Next]_vars PROVE ManagerInv'
  OBVIOUS
<1>1. CASE UNCHANGED vars
  BY <1>1 DEF vars, ManagerInv, TypeOK, EntriesAreOpen, OwnersAreOpen,
     OneIsOpen, OneAtATimeIsFound, FindsItsContext, Find, Open, None
<1>2. CASE \E c \in Contexts, L \in Addresses : lldebug_open(c, L)
  BY <1>2, OpenInv
<1>3. CASE \E L, NL \in Addresses : NewThread(L, NL)
  BY <1>3, NewThreadInv
<1>4. CASE \E L \in Addresses : Collect(L) \/ lldebug_close(L)
  BY <1>4, CollectInv, CloseInv
<1> QED
  BY <1>1, <1>2, <1>3, <1>4 DEF Next

(* The strengthening holds always. *)
THEOREM ManagerInvariant == Spec => []ManagerInv
  BY InitManagerInv, ManagerStep, PTL DEF Spec

(* Type correctness of the map, the contexts and their states.              *)
THEOREM ManagerTypes == Spec => []TypeOK
<1>1. ManagerInv => TypeOK
  BY DEF ManagerInv
<1> QED
  BY <1>1, ManagerInvariant, PTL

(* However many coroutines were made, collected and made again in the same  *)
(* place, as long as one context is open at a time every lua_State in use   *)
(* is found with the context it lives in (context.cpp:109).                 *)
THEOREM OneAtATimeFound == Spec => []OneAtATimeIsFound
<1>1. ManagerInv => OneAtATimeIsFound
  BY DEF ManagerInv
<1> QED
  BY <1>1, ManagerInvariant, PTL

(* A closed context is in no entry of the map (context.cpp:291).            *)
THEOREM ClosedForgotten == Spec => []ClosedIsForgotten
<1>1. ManagerInv => ClosedIsForgotten
  BY ManagerAssumption DEF ManagerInv, EntriesAreOpen, ClosedIsForgotten
<1> QED
  BY <1>1, ManagerInvariant, PTL

-----------------------------------------------------------------------------
(* The config file.  What is to be shown holds of contexts that are at work *)
(* one at a time.                                                           *)

Alone == ~together => \A c, d \in AtWork : c = d

(* The files are numbered as they are made. *)
FilesInv ==
    /\ Cfg!TypeOK
    /\ \E n \in Nat : DOMAIN files = 1 .. n
    /\ \A c \in Contexts : session[c] <= sessions

(* The context at work is in the latest session and has committed nothing   *)
(* of it; from Open on, the temporary file is its own.                      *)
AtWorkInv(c) ==
    /\ session[c] = sessions /\ last < sessions
    /\ pc[c] # "removed" /\ target = 0 => loaded[c] = 0
    /\ pc[c] # "running" =>
          /\ tmp # 0 /\ handle[c] = tmp
          /\ files[tmp].of = session[c] /\ files[tmp].state # "mixed"
    /\ pc[c] \in {"closed", "removed"} /\ ~lost => files[tmp].state = "whole"

(* With nobody at work and nobody killed, the latest session is committed.  *)
CommittedInv == ~killed => last = sessions /\ (last # 0 => target # 0)

SaveInv ==
    /\ last <= sessions
    /\ tmp # 0 => tmp # target
    /\ target # 0 => files[target].of = last
    /\ TargetIsWhole /\ CrashLeavesACopy
    /\ \A c \in Contexts : pc[c] # "off" => AtWorkInv(c)
    /\ (\A c \in Contexts : pc[c] = "off") => CommittedInv

LifeInv == ManagerInv /\ Alone /\ FilesInv /\ (~together => SaveInv)

(* What a write leaves in the file. *)
LEMMA WrittenFacts ==
    ASSUME Cfg!TypeOK, NEW c \in Contexts, NEW state \in {"part", "whole"},
           Cfg!Written(c, state)
    PROVE  /\ DOMAIN files' = DOMAIN files
           /\ \A f \in DOMAIN files : files'[f] \in Cfg!Content
           /\ \A f \in DOMAIN files : f # handle[c] => files'[f] = files[f]
           /\ /\ handle[c] \in DOMAIN files
              /\ files[handle[c]].of = session[c]
              /\ files[handle[c]].state # "mixed"
              => files'[handle[c]] = [of |-> session[c], state |-> state]
<1> DEFINE h == handle[c]
           new == IF files[h].state = "mixed"
                     \/ (files[h].of # session[c] /\ files[h].state # "empty")
                  THEN [files[h] EXCEPT !.state = "mixed"]
                  ELSE [of |-> session[c], state |-> state]
<1>1. files' = [files EXCEPT ![h] = new]
  BY DEF Cfg!Written
<1>2. session[c] \in 0 .. MaxSessions
  BY DEF Cfg!TypeOK
<1>3. h \in DOMAIN files => new \in Cfg!Content
  BY <1>2 DEF Cfg!TypeOK, Cfg!Content
<1>4. \A f \in DOMAIN files : files[f] \in Cfg!Content
  BY DEF Cfg!TypeOK
<1>5. /\ DOMAIN files' = DOMAIN files
      /\ \A f \in DOMAIN files : files'[f] = IF f = h THEN new ELSE files[f]
  BY <1>1
<1> QED
  BY <1>3, <1>4, <1>5

(* Open takes the temporary file that is there, or a new one. *)
LEMMA NewTmpFacts ==
    ASSUME FilesInv, NEW c \in Contexts, Cfg!NewTmp(c)
    PROVE  /\ tmp' # 0 /\ tmp' \in DOMAIN files' /\ DOMAIN files \subseteq DOMAIN files'
           /\ tmp # 0 => tmp' = tmp
           /\ tmp = 0 => tmp' \notin DOMAIN files
           /\ handle' = [handle EXCEPT ![c] = tmp']
           /\ files'[tmp'] = [of |-> session[c], state |-> "empty"]
           /\ \A f \in DOMAIN files : f # tmp' => files'[f] = files[f]
           /\ \A f \in DOMAIN files' : files'[f] \in Cfg!Content
           /\ \E n \in Nat : DOMAIN files' = 1 .. n
<1>1. PICK n \in Nat : DOMAIN files = 1 .. n
  BY DEF FilesInv
<1>2. Cardinality(1 .. n) = n
  BY <1>1, FS_Interval
<1>3. /\ tmp \in 1 .. n \cup {0} /\ session[c] \in 0 .. MaxSessions
      /\ \A f \in DOMAIN files : files[f] \in Cfg!Content
  BY <1>1 DEF FilesInv, Cfg!TypeOK
<1>4. /\ tmp' = IF tmp # 0 THEN tmp ELSE n + 1
      /\ files' = [g \in 1 .. n \cup {tmp'} |->
                      IF g = tmp' THEN [of |-> session[c], state |-> "empty"]
                      ELSE files[g]]
      /\ handle' = [handle EXCEPT ![c] = tmp']
  <2> DEFINE new == IF tmp # 0 THEN tmp ELSE Cardinality(DOMAIN files) + 1
             With(f) == /\ files' = [g \in DOMAIN files \cup {f} |->
                                        IF g = f
                                        THEN [of |-> session[c], state |-> "empty"]
                                        ELSE files[g]]
                        /\ handle' = [handle EXCEPT ![c] = f]
                        /\ tmp' = f
  <2>1. Cfg!Cardinality(DOMAIN files) = Cardinality(DOMAIN files)
    BY Zenon DEF Cfg!Cardinality, Cardinality
  <2>2. \E f \in {new} : With(f)
    BY <2>1, Zenon DEF Cfg!NewTmp, Cfg!Opened
  <2>3. With(new)
    BY <2>2
  <2>4. tmp' = IF tmp # 0 THEN tmp ELSE n + 1
    BY <1>1, <1>2, <2>3
  <2> QED
    BY <1>1, <2>3, <2>4
<1>5. [of |-> session[c], state |-> "empty"] \in Cfg!Content
  BY <1>3 DEF Cfg!Content
<1>6. \A f \in DOMAIN files' : files'[f] \in Cfg!Content
  BY <1>1, <1>3, <1>4, <1>5
<1>7. \E m \in Nat : DOMAIN files' = 1 .. m
  <2>1. CASE tmp # 0
    <3>1. 1 .. n \cup {tmp'} = 1 .. n
      BY <1>3, <1>4, <2>1
    <3> QED
      BY <1>4, <3>1
  <2>2. CASE tmp = 0
    <3>1. 1 .. n \cup {tmp'} = 1 .. n + 1 /\ n + 1 \in Nat
      BY <1>4, <2>2
    <3> QED
      BY <1>4, <3>1
  <2> QED
    BY <2>1, <2>2
<1>8. /\ tmp' # 0 /\ tmp' \in DOMAIN files' /\ DOMAIN files \subseteq DOMAIN files'
      /\ tmp # 0 => tmp' = tmp
      /\ tmp = 0 => tmp' \notin DOMAIN files
  BY <1>1, <1>3, <1>4
<1>9. /\ files'[tmp'] = [of |-> session[c], state |-> "empty"]
      /\ \A f \in DOMAIN files : f # tmp' => files'[f] = files[f]
  BY <1>1, <1>4
<1> QED
  BY <1>4, <1>6, <1>7, <1>8, <1>9

(* While the contexts are at work one at a time, nobody but c is.           *)
LEMMA OthersAreOff ==
    ASSUME LifeInv, ~together, NEW c \in AtWork
    PROVE  \A d \in Contexts : d # c => pc[d] = "off" /\ d \notin Open
  BY DEF LifeInv, Alone, AtWork

(* Who is at work after a step. *)
LEMMA StaysAlone ==
    ASSUME Alone, AtWork' \subseteq AtWork, UNCHANGED together
    PROVE  Alone'
  BY DEF Alone

LEMMA OpenContextInv ==
    ASSUME LifeInv, OpenContext
    PROVE  LifeInv'
<1>1. PICK c \in Contexts, L \in Addresses : lldebug_open(c, L)
  BY DEF OpenContext
<1>2. ManagerInv'
  BY <1>1, OpenInv DEF LifeInv
<1>3. /\ UNCHANGED <<configVars, killed>>
      /\ together' = (together \/ AtWork # {})
  BY DEF OpenContext
<1>4. Open' = Open \cup {c}
  BY <1>1 DEF Open, lldebug_open, LifeInv, ManagerInv, TypeOK
<1>5. Alone'
  <2> SUFFICES ASSUME ~together' PROVE AtWork' = {c}
    BY DEF Alone
  <2>1. AtWork = {}
    BY <1>3
  <2> QED
    BY <1>3, <1>4, <2>1 DEF AtWork, configVars, Open
<1>6. FilesInv'
  BY <1>3 DEF LifeInv, FilesInv, Cfg!TypeOK, configVars
<1>7. ~together' => SaveInv'
  BY <1>3 DEF LifeInv, SaveInv, TargetIsWhole, CrashLeavesACopy, AtWorkInv,
     CommittedInv, configVars
<1> QED
  BY <1>2, <1>5, <1>6, <1>7 DEF LifeInv

(* Coroutines, and closing, leave the config file alone. *)
LEMMA ManagedInv ==
    ASSUME LifeInv, Coroutines \/ CloseContext
    PROVE  LifeInv'
<1>1. ManagerInv'
  BY NewThreadInv, CollectInv, CloseInv DEF LifeInv, Coroutines, CloseContext
<1>2. UNCHANGED <<configVars, together, killed>>
  BY DEF Coroutines, CloseContext
<1>3. Open' \subseteq Open
  <2>1. CASE Coroutines
    BY <2>1 DEF Coroutines, Collect, NewThread, Open
  <2>2. CASE CloseContext
    <3>1. PICK c \in Contexts : main' = [main EXCEPT ![c] = "closed"]
      BY <2>2 DEF CloseContext, lldebug_close
    <3> QED
      BY <3>1, ManagerAssumption DEF Open, LifeInv, ManagerInv, TypeOK
  <2> QED
    BY <2>1, <2>2
<1>4. Alone'
  BY <1>2, <1>3, StaysAlone DEF LifeInv, AtWork, configVars
<1>5. FilesInv' /\ (~together' => SaveInv')
  BY <1>2 DEF LifeInv, FilesInv, Cfg!TypeOK, SaveInv, TargetIsWhole,
     CrashLeavesACopy, AtWorkInv, CommittedInv, configVars
<1> QED
  BY <1>1, <1>4, <1>5 DEF LifeInv

LEMMA KillInv ==
    ASSUME LifeInv, Kill
    PROVE  LifeInv'
<1>1. /\ map' = [L \in {} |-> None]
      /\ owner' = [L \in Addresses |-> None]
      /\ main' = [c \in Contexts |-> IF c \in Open THEN "closed" ELSE main[c]]
      /\ UNCHANGED <<overlap, together>> /\ killed'
      /\ pc' = [c \in Contexts |-> "off"]
      /\ handle' = [c \in Contexts |-> 0]
      /\ UNCHANGED <<session, loaded, files, tmp, target, sessions, last, lost>>
  BY DEF Kill, Cfg!Crash
<1>2. \A c \in Contexts : main'[c] \notin Addresses
  BY <1>1, ManagerAssumption DEF Open
<1>3. ManagerInv'
  <2>1. main' \in [Contexts -> Addresses \cup {None, "closed"}]
    BY <1>1 DEF LifeInv, ManagerInv, TypeOK
  <2> QED
    BY <1>1, <1>2, <2>1 DEF LifeInv, ManagerInv, TypeOK, EntriesAreOpen,
       OwnersAreOpen, OneIsOpen, OneAtATimeIsFound, FindsItsContext, Open, None
<1>4. Alone'
  BY <1>1, <1>2 DEF Alone, AtWork, Open
<1>5. FilesInv'
  BY <1>1 DEF LifeInv, FilesInv, Cfg!TypeOK
<1>6. ~together => SaveInv'
  <2> SUFFICES ASSUME SaveInv PROVE SaveInv'
    BY DEF LifeInv
  <2>1. \A c \in Contexts : pc'[c] = "off"
    BY <1>1
  <2> QED
    BY <1>1, <2>1 DEF SaveInv, TargetIsWhole, CrashLeavesACopy, CommittedInv
<1> QED
  BY <1>1, <1>3, <1>4, <1>5, <1>6 DEF LifeInv

LEMMA LoadFileInv ==
    ASSUME LifeInv, NEW c \in Contexts, LoadFile(c)
    PROVE  /\ LifeInv'
           /\ ~together => IF killed \/ lost THEN loaded'[c] \in {0, last}
                           ELSE loaded'[c] = session'[c] - 1
<1>1. /\ c \in Open /\ session[c] = 0 /\ pc[c] = "off"
      /\ pc' = [pc EXCEPT ![c] = "running"]
      /\ sessions < MaxSessions /\ sessions' = sessions + 1
      /\ session' = [session EXCEPT ![c] = sessions + 1]
      /\ loaded' = [loaded EXCEPT ![c] =
            IF target # 0 /\ files[target].state = "whole"
            THEN files[target].of ELSE 0]
      /\ UNCHANGED <<handle, files, tmp, target, last, lost>>
      /\ UNCHANGED <<vars, together, killed>>
  BY DEF LoadFile, Cfg!LoadConfig, Cfg!At, Cfg!Loadable
<1>2. /\ ManagerInv /\ Alone /\ Cfg!TypeOK
      /\ pc \in [Contexts -> {"off", "running", "opened", "closed", "removed"}]
      /\ session \in [Contexts -> 0 .. MaxSessions]
      /\ loaded \in [Contexts -> 0 .. MaxSessions]
      /\ sessions \in 0 .. MaxSessions /\ last \in 0 .. MaxSessions
      /\ \A d \in Contexts : session[d] <= sessions
  BY DEF LifeInv, FilesInv, Cfg!TypeOK
<1>3. target # 0 => files[target].of \in 0 .. MaxSessions
  BY <1>2 DEF Cfg!TypeOK, Cfg!Content
<1>4. ManagerInv'
  BY <1>1, <1>2 DEF vars, ManagerInv, TypeOK, EntriesAreOpen, OwnersAreOpen,
     OneIsOpen, OneAtATimeIsFound, FindsItsContext, Find, Open, None
<1>5. AtWork' = AtWork
  BY <1>1, <1>2 DEF AtWork, Open, vars
<1>6. Alone'
  BY <1>1, <1>2, <1>5, StaysAlone
<1>7. FilesInv'
  <2>1. Cfg!TypeOK'
    BY <1>1, <1>2, <1>3, LifeAssumption DEF Cfg!TypeOK
  <2>2. \A d \in Contexts : session'[d] <= sessions'
    BY <1>1, <1>2, LifeAssumption
  <2> QED
    BY <1>1, <2>1, <2>2 DEF LifeInv, FilesInv
<1>8. ASSUME ~together
      PROVE  /\ SaveInv'
             /\ IF killed \/ lost THEN loaded'[c] \in {0, last}
                ELSE loaded'[c] = session'[c] - 1
  <2>1. SaveInv
    BY <1>8 DEF LifeInv
  <2>2. \A d \in Contexts : pc[d] = "off"
    BY <1>1, <1>8, OthersAreOff DEF AtWork, Open
  <2>3. CommittedInv /\ TargetIsWhole
    BY <2>1, <2>2 DEF SaveInv
  <2>4. /\ session'[c] = sessions' /\ last < sessions'
        /\ target = 0 => loaded'[c] = 0
        /\ \A d \in Contexts : d # c =>
              /\ pc'[d] = "off" /\ session'[d] = session[d]
              /\ loaded'[d] = loaded[d]
    BY <1>1, <1>2, <2>1, <2>2 DEF SaveInv
  <2>5. CrashLeavesACopy'
    BY <1>1, <2>4 DEF CrashLeavesACopy
  <2>6. \A d \in Contexts : pc'[d] # "off" => AtWorkInv(d)'
    <3>1. pc'[c] = "running"
      BY <1>1, <1>2
    <3> QED
      BY <1>1, <2>4, <3>1 DEF AtWorkInv
  <2>7. SaveInv'
    BY <1>1, <1>2, <2>1, <2>4, <2>5, <2>6 DEF SaveInv, TargetIsWhole
  <2>8. IF killed \/ lost THEN loaded'[c] \in {0, last}
        ELSE loaded'[c] = session'[c] - 1
    BY <1>1, <1>2, <1>8, <2>1, <2>3 DEF SaveInv, CommittedInv, TargetIsWhole
  <2> QED
    BY <2>7, <2>8
<1> QED
  BY <1>1, <1>4, <1>6, <1>7, <1>8 DEF LifeInv

(* What every step of SaveConfig leaves alone. *)
LEMMA SaverFacts ==
    ASSUME LifeInv, NEW c \in Contexts, SaveContext(c)
    PROVE  /\ ManagerInv'
           /\ UNCHANGED <<session, loaded, sessions, together, killed>>
           /\ pc[c] # "off"
           /\ \A d \in Contexts : d # c => pc'[d] = pc[d] /\ handle'[d] = handle[d]
           /\ Alone'
<1>1. ManagerInv'
  BY DEF LifeInv, SaveContext, vars, ManagerInv, TypeOK, EntriesAreOpen,
     OwnersAreOpen, OneIsOpen, OneAtATimeIsFound, FindsItsContext, Find, Open,
     None
<1>2. /\ UNCHANGED <<session, loaded, sessions, together, killed, main>>
      /\ pc[c] # "off"
  BY DEF SaveContext, vars, Cfg!SaveConfig, Cfg!Open, Cfg!Write, Cfg!Close,
     Cfg!RemoveTarget, Cfg!NothingToCommit, Cfg!Rename, Cfg!At
<1>3. pc' = pc \/ \E to : pc' = [pc EXCEPT ![c] = to]
  BY DEF SaveContext, Cfg!SaveConfig, Cfg!Open, Cfg!Write, Cfg!Close,
     Cfg!RemoveTarget, Cfg!NothingToCommit, Cfg!Rename, Cfg!At
<1>4. handle' = handle \/ \E h : handle' = [handle EXCEPT ![c] = h]
  BY NewTmpFacts DEF LifeInv, SaveContext, Cfg!SaveConfig, Cfg!Open, Cfg!Write,
     Cfg!Close, Cfg!RemoveTarget, Cfg!NothingToCommit, Cfg!Rename
<1>5. \A d \in Contexts : d # c => pc'[d] = pc[d] /\ handle'[d] = handle[d]
  BY <1>3, <1>4 DEF LifeInv, FilesInv, Cfg!TypeOK
<1>6. Alone'
  BY <1>2, <1>5, StaysAlone DEF LifeInv, AtWork, Open
<1> QED
  BY <1>1, <1>2, <1>5, <1>6

LEMMA SaveOpenInv ==
    ASSUME LifeInv, NEW c \in Contexts, SaveContext(c), Cfg!Open(c)
    PROVE  FilesInv' /\ (~together => SaveInv')
<1>1. /\ pc[c] = "running" /\ pc' = [pc EXCEPT ![c] = "opened"]
      /\ Cfg!NewTmp(c)
      /\ UNCHANGED <<session, loaded, target, sessions, last, lost>>
      /\ UNCHANGED <<together, killed>>
  BY DEF SaveContext, Cfg!Open, Cfg!At
<1>2. FilesInv /\ Cfg!TypeOK
  BY DEF LifeInv, FilesInv
<1>3. /\ tmp' # 0 /\ tmp' \in DOMAIN files' /\ DOMAIN files \subseteq DOMAIN files'
      /\ tmp # 0 => tmp' = tmp
      /\ tmp = 0 => tmp' \notin DOMAIN files
      /\ handle' = [handle EXCEPT ![c] = tmp']
      /\ files'[tmp'] = [of |-> session[c], state |-> "empty"]
      /\ \A f \in DOMAIN files : f # tmp' => files'[f] = files[f]
      /\ \A f \in DOMAIN files' : files'[f] \in Cfg!Content
      /\ \E n \in Nat : DOMAIN files' = 1 .. n
  BY <1>1, <1>2, NewTmpFacts
<1>4. FilesInv'
  <2>1. Cfg!TypeOK'
    BY <1>1, <1>2, <1>3 DEF Cfg!TypeOK
  <2> QED
    BY <1>1, <1>2, <1>3, <2>1 DEF FilesInv
<1>5. ASSUME ~together PROVE SaveInv'
  <2>1. SaveInv /\ AtWorkInv(c)
    BY <1>1, <1>5 DEF LifeInv, SaveInv
  <2>2. /\ pc'[c] = "opened" /\ handle'[c] = tmp'
        /\ \A d \in Contexts : d # c => pc'[d] = "off"
    BY <1>1, <1>2, <1>3, <1>5, OthersAreOff DEF AtWork, Cfg!TypeOK
  <2>3. /\ tmp' # target
        /\ target # 0 => files'[target] = files[target]
    BY <1>2, <1>3, <2>1 DEF SaveInv, Cfg!TypeOK
  <2>4. \A d \in Contexts : pc'[d] # "off" => AtWorkInv(d)'
    BY <1>1, <1>3, <2>1, <2>2 DEF AtWorkInv
  <2>5. TargetIsWhole' /\ CrashLeavesACopy'
    BY <1>1, <2>1, <2>3 DEF SaveInv, AtWorkInv, TargetIsWhole, CrashLeavesACopy
  <2> QED
    BY <1>1, <2>1, <2>2, <2>3, <2>4, <2>5 DEF SaveInv
<1> QED
  BY <1>4, <1>5

LEMMA SaveWriteInv ==
    ASSUME LifeInv, NEW c \in Contexts, SaveContext(c),
           Cfg!Write(c) \/ Cfg!Close(c)
    PROVE  FilesInv' /\ (~together => SaveInv')
<1>1. PICK state \in {"part", "whole"} :
         /\ Cfg!Written(c, state)
         /\ pc[c] = "opened"
         /\ pc' = pc \/ pc' = [pc EXCEPT ![c] = "closed"]
         /\ lost => lost'
         /\ pc'[c] = "closed" /\ ~lost' => state = "whole"
  <2>1. CASE Cfg!Write(c)
    BY <2>1 DEF Cfg!Write
  <2>2. CASE Cfg!Close(c)
    BY <2>2 DEF Cfg!Close, Cfg!At
  <2> QED
    BY <2>1, <2>2
<1>2. /\ UNCHANGED <<session, loaded, handle, tmp, target, sessions, last>>
      /\ UNCHANGED <<together, killed>> /\ lost' \in BOOLEAN
  BY DEF SaveContext, Cfg!Write, Cfg!Close, LifeInv, FilesInv, Cfg!TypeOK
<1>3. FilesInv /\ Cfg!TypeOK
  BY DEF LifeInv, FilesInv
<1>4. /\ DOMAIN files' = DOMAIN files
      /\ \A f \in DOMAIN files : files'[f] \in Cfg!Content
      /\ \A f \in DOMAIN files : f # handle[c] => files'[f] = files[f]
      /\ /\ handle[c] \in DOMAIN files
         /\ files[handle[c]].of = session[c]
         /\ files[handle[c]].state # "mixed"
         => files'[handle[c]] = [of |-> session[c], state |-> state]
  BY <1>1, <1>3, WrittenFacts
<1>5. FilesInv'
  <2>1. Cfg!TypeOK'
    BY <1>1, <1>2, <1>3, <1>4 DEF Cfg!TypeOK
  <2> QED
    BY <1>2, <1>3, <1>4, <2>1 DEF FilesInv
<1>6. ASSUME ~together PROVE SaveInv'
  <2>1. SaveInv /\ AtWorkInv(c)
    BY <1>1, <1>6 DEF LifeInv, SaveInv
  <2>2. /\ tmp # 0 /\ handle[c] = tmp /\ tmp \in DOMAIN files
        /\ files'[tmp] = [of |-> session[c], state |-> state]
    BY <1>1, <1>3, <1>4, <2>1 DEF AtWorkInv, Cfg!TypeOK
  <2>3. /\ pc'[c] \in {"opened", "closed"}
        /\ \A d \in Contexts : d # c => pc'[d] = "off"
    BY <1>1, <1>3, <1>6, OthersAreOff DEF AtWork, Cfg!TypeOK
  <2>4. target # 0 => files'[target] = files[target]
    BY <1>3, <1>4, <2>1, <2>2 DEF SaveInv, Cfg!TypeOK
  <2>5. \A d \in Contexts : pc'[d] # "off" => AtWorkInv(d)'
    BY <1>1, <1>2, <2>1, <2>2, <2>3 DEF AtWorkInv
  <2>6. TargetIsWhole' /\ CrashLeavesACopy'
    BY <1>1, <1>2, <2>1, <2>4 DEF SaveInv, AtWorkInv, TargetIsWhole,
       CrashLeavesACopy
  <2> QED
    BY <1>2, <2>1, <2>3, <2>4, <2>5, <2>6 DEF SaveInv
<1> QED
  BY <1>5, <1>6

LEMMA SaveCommitInv ==
    ASSUME LifeInv, NEW c \in Contexts, SaveContext(c),
           Cfg!RemoveTarget(c) \/ Cfg!NothingToCommit(c) \/ Cfg!Rename(c)
    PROVE  FilesInv' /\ (~together => SaveInv')
<1>1. /\ UNCHANGED <<session, loaded, files, sessions, lost, together, killed>>
      /\ pc[c] \in {"closed", "removed"}
  BY DEF SaveContext, Cfg!RemoveTarget, Cfg!NothingToCommit, Cfg!Rename, Cfg!At
<1>2. FilesInv /\ Cfg!TypeOK
  BY DEF LifeInv, FilesInv
<1>3. FilesInv'
  <2>1. Cfg!TypeOK'
    BY <1>1, <1>2 DEF Cfg!TypeOK, Cfg!RemoveTarget, Cfg!NothingToCommit,
       Cfg!Rename, Cfg!Renamed, Cfg!At
  <2> QED
    BY <1>1, <1>2, <2>1 DEF FilesInv
<1>4. ASSUME ~together PROVE SaveInv'
  <2>1. SaveInv /\ AtWorkInv(c)
    BY <1>1, <1>4 DEF LifeInv, SaveInv
  <2>2. /\ tmp # 0 /\ handle[c] = tmp /\ tmp \in DOMAIN files
        /\ files[tmp].of = session[c]
        /\ ~lost => files[tmp].state = "whole"
        /\ session[c] = sessions /\ last < sessions
    BY <1>1, <1>2, <2>1 DEF AtWorkInv, Cfg!TypeOK
  <2>3. \A d \in Contexts : d # c => pc[d] = "off"
    BY <1>1, <1>4, OthersAreOff DEF AtWork
  <2>4. CASE Cfg!RemoveTarget(c)
    <3>1. /\ pc' = [pc EXCEPT ![c] = "removed"] /\ target' = 0
          /\ UNCHANGED <<handle, tmp, last>>
      BY <2>4 DEF Cfg!RemoveTarget, Cfg!At
    <3>2. pc'[c] = "removed" /\ \A d \in Contexts : d # c => pc'[d] = "off"
      BY <1>2, <2>3, <3>1 DEF Cfg!TypeOK
    <3>3. \A d \in Contexts : pc'[d] # "off" => AtWorkInv(d)'
      BY <1>1, <2>1, <3>1, <3>2 DEF AtWorkInv
    <3> QED
      BY <1>1, <2>1, <2>2, <3>1, <3>2, <3>3
      DEF SaveInv, TargetIsWhole, CrashLeavesACopy
  <2>5. CASE Cfg!Rename(c)
    <3>1. /\ pc' = [pc EXCEPT ![c] = "off"]
          /\ target' = tmp /\ tmp' = 0 /\ last' = session[c]
      BY <2>2, <2>5 DEF Cfg!Rename, Cfg!Renamed, Cfg!At
    <3>2. \A d \in Contexts : pc'[d] = "off"
      BY <1>2, <2>3, <3>1 DEF Cfg!TypeOK
    <3> QED
      BY <1>1, <1>2, <2>1, <2>2, <3>1, <3>2
      DEF SaveInv, TargetIsWhole, CrashLeavesACopy, CommittedInv, Cfg!TypeOK
  <2>6. CASE Cfg!NothingToCommit(c)
    BY <2>2, <2>6 DEF Cfg!NothingToCommit
  <2> QED
    BY <2>4, <2>5, <2>6
<1> QED
  BY <1>3, <1>4

LEMMA SaveContextInv ==
    ASSUME LifeInv, NEW c \in Contexts, SaveContext(c)
    PROVE  LifeInv'
<1>1. ManagerInv' /\ Alone' /\ UNCHANGED together
  BY SaverFacts
<1>2. FilesInv' /\ (~together => SaveInv')
  BY SaveOpenInv, SaveWriteInv, SaveCommitInv DEF SaveContext, Cfg!SaveConfig
<1> QED
  BY <1>1, <1>2 DEF LifeInv

LEMMA LifeInitInv == LifeInit => LifeInv
<1> SUFFICES ASSUME LifeInit PROVE LifeInv
  OBVIOUS
<1>1. ManagerInv /\ AtWork = {}
  BY InitManagerInv, ManagerAssumption
  DEF LifeInit, Init, Cfg!Init, AtWork, Open, None
<1>2. FilesInv
  <2>1. Cfg!TypeOK
    <3>1. 0 \in 0 .. MaxSessions
      BY LifeAssumption
    <3>2. DOMAIN files = {}
      BY DEF LifeInit, Cfg!Init
    <3> QED
      BY <3>1, <3>2 DEF LifeInit, Cfg!Init, Cfg!TypeOK
  <2>2. DOMAIN files = 1 .. 0
    BY DEF LifeInit, Cfg!Init
  <2> QED
    BY <2>1, <2>2 DEF LifeInit, Cfg!Init, FilesInv
<1>3. SaveInv
  BY DEF LifeInit, Cfg!Init, SaveInv, TargetIsWhole, CrashLeavesACopy,
     CommittedInv
<1> QED
  BY <1>1, <1>2, <1>3 DEF LifeInv, Alone

LEMMA LifeStep == LifeInv /\ [LifeNext]_lifeVars => LifeInv'
<1> SUFFICES ASSUME LifeInv, [LifeNext]_lifeVars PROVE LifeInv'
  OBVIOUS
<1>1. CASE UNCHANGED lifeVars
  <2>1. UNCHANGED <<vars, configVars, together, killed>>
    BY <1>1 DEF lifeVars
  <2>2. ManagerInv'
    BY <2>1, ManagerStep DEF LifeInv
  <2>3. Alone'
    BY <2>1, StaysAlone DEF LifeInv, AtWork, Open, vars, configVars
  <2>4. FilesInv' /\ (~together' => SaveInv')
    BY <2>1 DEF LifeInv, FilesInv, Cfg!TypeOK, SaveInv, TargetIsWhole,
       CrashLeavesACopy, AtWorkInv, CommittedInv, configVars
  <2> QED
    BY <2>2, <2>3, <2>4 DEF LifeInv
<1> QED
  BY <1>1, OpenContextInv, ManagedInv, LoadFileInv, SaveContextInv, KillInv
  DEF LifeNext

THEOREM LifeInvariant == LifeSpec => []LifeInv
  BY LifeInitInv, LifeStep, PTL DEF LifeSpec

(* Through loading, saving and kills, too, as long as one context is open   *)
(* at a time every lua_State in use is found with its context.              *)
THEOREM LifeFindsContexts == LifeSpec => []OneAtATimeIsFound
<1>1. LifeInv => OneAtATimeIsFound
  BY DEF LifeInv, ManagerInv
<1> QED
  BY <1>1, LifeInvariant, PTL

(* Wherever the process is killed, the config file is whole, or its new     *)
(* content is in the temporary file (configfile.cpp:177), unless the disk   *)
(* was full or two contexts were at work at a time.                         *)
THEOREM ConfigAlwaysKept == LifeSpec => []ConfigIsKept
<1>1. LifeInv => ConfigIsKept
  BY DEF LifeInv, FilesInv, SaveInv, ConfigIsKept, TargetIsWhole,
     CrashLeavesACopy
<1> QED
  BY <1>1, LifeInvariant, PTL

(* A session begins with the breakpoints of the one before it, and after a  *)
(* kill or with a full disk with the last committed ones or none.           *)
THEOREM SessionsKeepBreakpoints == LifeSpec => BreakpointsAreKept
<1> DEFINE Kept == \A c \in Contexts :
              session'[c] # session[c] /\ ~together =>
                 IF killed \/ lost THEN loaded'[c] \in {0, last}
                 ELSE loaded'[c] = session'[c] - 1
<1>1. LifeInv /\ [LifeNext]_lifeVars => [Kept]_lifeVars
  <2> SUFFICES ASSUME LifeInv, LifeNext, NEW c \in Contexts,
                      session'[c] # session[c], ~together
               PROVE  IF killed \/ lost THEN loaded'[c] \in {0, last}
                      ELSE loaded'[c] = session'[c] - 1
    OBVIOUS
  <2>1. PICK d \in Contexts : LoadFile(d)
    BY SaverFacts DEF LifeNext, OpenContext, Coroutines, CloseContext, Kill,
       Cfg!Crash, configVars
  <2>2. d = c
    BY <2>1 DEF LoadFile, Cfg!LoadConfig, LifeInv, FilesInv, Cfg!TypeOK
  <2> QED
    BY <2>1, <2>2, LoadFileInv
<1>2. BreakpointsAreKept <=> [][Kept]_lifeVars
  BY DEF BreakpointsAreKept
<1> QED
  BY <1>1, <1>2, LifeInvariant, PTL DEF LifeSpec


-----------------------------------------------------------------------------
(* Protected calls *)

(* The flag that the hook sets when it raises is still set when the error   *)
(* is caught.                                                               *)
QuitInv == raised = "quit" => isCallSuccess

(* Every host call that the flag could be of has something inside that set  *)
(* it.                                                                      *)
FlagInv ==
    isCallSuccess => \A i \in DOMAIN stack :
                        stack[i].kind \in HostCalls => stack[i].inside

(* b is what the innermost evaluation of the first n calls asked for. *)
Asked(s, n, b) ==
    \/ b /\ \A i \in 1 .. n : s[i].kind # "eval"
    \/ \E m \in 1 .. n :
          /\ s[m].kind = "eval" /\ b = s[m].debug
          /\ \A i \in m + 1 .. n : s[i].kind # "eval"

(* What is restored when a call ends is what those around it asked for. *)
EnabledInv ==
    /\ Asked(stack, Len(stack), isEnabled)
    /\ \A i \in DOMAIN stack : Asked(stack, i - 1, stack[i].old)

CallsInv ==
    CallsTypeOK /\ QuitInv /\ FlagInv /\ EnabledInv
    /\ QuitIsSilent /\ UnreportedHasACauseInside

-----------------------------------------------------------------------------
(* What the operations of the stack do. *)

LEMMA StackFacts ==
    ASSUME CallsTypeOK
    PROVE  /\ stack \in Seq(Call) /\ Len(stack) \in Nat
           /\ DOMAIN stack = 1 .. Len(stack)
           /\ \A i \in 1 .. Len(stack) : stack[i] \in Call
<1>1. Len(stack) \in Nat /\ DOMAIN stack = 1 .. Len(stack)
  BY LenProperties DEF CallsTypeOK
<1> QED
  BY <1>1, ElementOfSeq DEF CallsTypeOK

LEMMA BelowFacts ==
    ASSUME CallsTypeOK, stack # <<>>
    PROVE  /\ Len(stack) \in 1 .. Len(stack) /\ Len(stack) - 1 \in Nat
           /\ Top = stack[Len(stack)] /\ Top \in Call
           /\ Below \in Seq(Call) /\ Len(Below) = Len(stack) - 1
           /\ \A i \in 1 .. Len(stack) - 1 : Below[i] = stack[i]
<1>1. Len(stack) \in Nat /\ Len(stack) # 0
  BY StackFacts, EmptySeq
<1>2. Top = stack[Len(stack)] /\ Below = SubSeq(stack, 1, Len(stack) - 1)
  BY DEF Top, Last, Below, Front
<1>3. SubSeq(stack, 1, Len(stack) - 1) = [i \in 1 .. Len(stack) - 1 |-> stack[i]]
  BY <1>1
<1>4. \A i \in 1 .. Len(stack) - 1 : stack[i] \in Call
  BY <1>1, StackFacts
<1>5. [i \in 1 .. Len(stack) - 1 |-> stack[i]] \in Seq(Call)
  BY <1>1, <1>4
<1>6. Len(Below) = Len(stack) - 1
  <2>1. DOMAIN Below = 1 .. Len(stack) - 1 /\ Below \in Seq(Call)
    BY <1>2, <1>3, <1>5
  <2>2. DOMAIN Below = 1 .. Len(Below) /\ Len(Below) \in Nat
    BY <2>1, LenProperties
  <2>3. \A m, n \in Nat : 1 .. m = 1 .. n => m = n
    OBVIOUS
  <2>4. Len(stack) - 1 \in Nat
    BY <1>1
  <2> QED
    BY <2>1, <2>2, <2>3, <2>4
<1> QED
  BY <1>1, <1>2, <1>3, <1>5, <1>6, StackFacts

LEMMA MarkedFacts ==
    ASSUME NEW s \in Seq(Call)
    PROVE  /\ Marked(s) \in Seq(Call) /\ Len(Marked(s)) = Len(s)
           /\ \A i \in 1 .. Len(s) :
                 /\ Marked(s)[i].kind = s[i].kind
                 /\ Marked(s)[i].old = s[i].old
                 /\ Marked(s)[i].debug = s[i].debug
                 /\ s[i].kind \in HostCalls => Marked(s)[i].inside
<1>1. Len(s) \in Nat /\ DOMAIN s = 1 .. Len(s)
  BY LenProperties
<1>2. ASSUME NEW i \in 1 .. Len(s)
      PROVE  /\ Marked(s)[i] \in Call
             /\ Marked(s)[i].kind = s[i].kind
             /\ Marked(s)[i].old = s[i].old
             /\ Marked(s)[i].debug = s[i].debug
             /\ s[i].kind \in HostCalls => Marked(s)[i].inside
  <2>1. s[i] \in Call
    BY ElementOfSeq
  <2>2. Marked(s)[i] = IF s[i].kind \in HostCalls
                       THEN [s[i] EXCEPT !.inside = TRUE] ELSE s[i]
    BY <1>1 DEF Marked
  <2>3. \A c \in Call : LET d == [c EXCEPT !.inside = TRUE]
                        IN  /\ d \in Call /\ d.inside
                            /\ d.kind = c.kind /\ d.old = c.old /\ d.debug = c.debug
    BY DEF Call
  <2> QED
    BY <2>1, <2>2, <2>3
<1>3. Marked(s) = [i \in 1 .. Len(s) |-> Marked(s)[i]]
  BY <1>1 DEF Marked
<1>4. Marked(s) \in Seq(Call)
  BY <1>1, <1>2, <1>3
<1>5. Len(Marked(s)) = Len(s)
  BY <1>1, <1>3
<1> QED
  BY <1>2, <1>4, <1>5

LEMMA PushFacts ==
    ASSUME CallsTypeOK, NEW kind, NEW debug \in BOOLEAN, Push(kind, debug),
           kind \in HostCalls \cup ScriptCalls \cup {"eval", "stop"}
    PROVE  /\ stack' \in Seq(Call) /\ Len(stack') = Len(stack) + 1
           /\ Len(stack') <= MaxDepth
           /\ \A i \in 1 .. Len(stack) : stack'[i] = stack[i]
           /\ stack'[Len(stack')] =
                 [kind |-> kind, old |-> isEnabled, debug |-> debug,
                  inside |-> FALSE]
<1>1. Pushed(kind, debug) \in Call
  BY DEF Pushed, Call, CallsTypeOK
<1>2. stack' = Append(stack, Pushed(kind, debug)) /\ Len(stack) < MaxDepth
  BY DEF Push
<1>3. Len(stack) \in Nat
  BY StackFacts
<1>4. /\ stack' \in Seq(Call) /\ Len(stack') = Len(stack) + 1
      /\ \A i \in 1 .. Len(stack) : stack'[i] = stack[i]
      /\ stack'[Len(stack) + 1] = Pushed(kind, debug)
  BY <1>1, <1>2, StackFacts, AppendProperties
<1> QED
  BY <1>2, <1>3, <1>4, CallsAssumption DEF Pushed

-----------------------------------------------------------------------------
(* What the innermost evaluation asked for. *)

LEMMA AskedSame ==
    ASSUME NEW s, NEW t, NEW n \in Nat, NEW b, Asked(s, n, b),
           \A i \in 1 .. n : t[i].kind = s[i].kind /\ t[i].debug = s[i].debug
    PROVE  Asked(t, n, b)
<1>1. CASE b /\ \A i \in 1 .. n : s[i].kind # "eval"
  BY <1>1 DEF Asked
<1>2. CASE \E m \in 1 .. n :
              /\ s[m].kind = "eval" /\ b = s[m].debug
              /\ \A i \in m + 1 .. n : s[i].kind # "eval"
  <2>1. PICK m \in 1 .. n :
           /\ s[m].kind = "eval" /\ b = s[m].debug
           /\ \A i \in m + 1 .. n : s[i].kind # "eval"
    BY <1>2
  <2>2. \A i \in m + 1 .. n : i \in 1 .. n
    OBVIOUS
  <2> QED
    BY <2>1, <2>2 DEF Asked
<1> QED
  BY <1>1, <1>2 DEF Asked

(* One call more, which is an evaluation or is not. *)
LEMMA AskedNext ==
    ASSUME NEW s, NEW n \in Nat, NEW b
    PROVE  /\ s[n + 1].kind # "eval" => (Asked(s, n + 1, b) <=> Asked(s, n, b))
           /\ s[n + 1].kind = "eval" => Asked(s, n + 1, s[n + 1].debug)
<1>1. \A i : i \in 1 .. n + 1 <=> i \in 1 .. n \/ i = n + 1
  OBVIOUS
<1>2. \A m \in 1 .. n : \A i : i \in m + 1 .. n + 1 <=> i \in m + 1 .. n \/ i = n + 1
  OBVIOUS
<1>3. \A i : i \notin (n + 1) + 1 .. n + 1
  OBVIOUS
<1>4. ASSUME s[n + 1].kind # "eval"
      PROVE  Asked(s, n + 1, b) <=> Asked(s, n, b)
  BY <1>1, <1>2, <1>4 DEF Asked
<1>5. ASSUME s[n + 1].kind = "eval"
      PROVE  Asked(s, n + 1, s[n + 1].debug)
  BY <1>1, <1>3, <1>5 DEF Asked
<1> QED
  BY <1>4, <1>5

(* The innermost call ends, or calls are marked: the others keep what they  *)
(* are to restore.                                                          *)
LEMMA EnabledKept ==
    ASSUME CallsTypeOK, EnabledInv, stack' \in Seq(Call), Len(stack') <= Len(stack),
           \A i \in 1 .. Len(stack') : /\ stack'[i].kind = stack[i].kind
                                       /\ stack'[i].old = stack[i].old
                                       /\ stack'[i].debug = stack[i].debug,
           Asked(stack, Len(stack'), isEnabled')
    PROVE  EnabledInv'
<1>1. Len(stack') \in Nat /\ Len(stack) \in Nat
      /\ DOMAIN stack' = 1 .. Len(stack') /\ DOMAIN stack = 1 .. Len(stack)
  BY LenProperties, StackFacts
<1>2. Asked(stack', Len(stack'), isEnabled')
  BY <1>1, AskedSame
<1>3. ASSUME NEW i \in DOMAIN stack'
      PROVE  Asked(stack', i - 1, stack'[i].old)
  <2>1. /\ i - 1 \in Nat /\ i \in DOMAIN stack /\ i \in 1 .. Len(stack')
        /\ \A j \in 1 .. i - 1 : j \in 1 .. Len(stack')
    BY <1>1
  <2>2. Asked(stack, i - 1, stack'[i].old)
    BY <2>1 DEF EnabledInv
  <2> QED
    BY <2>1, <2>2, AskedSame
<1> QED
  BY <1>2, <1>3 DEF EnabledInv

(* Ending the innermost call leaves what it restores, or what it was.       *)
LEMMA AskedBelow ==
    ASSUME CallsTypeOK, EnabledInv, stack # <<>>
    PROVE  /\ Asked(stack, Len(stack) - 1, Top.old)
           /\ Top.kind # "eval" => Asked(stack, Len(stack) - 1, isEnabled)
<1>1. /\ Len(stack) \in DOMAIN stack /\ Len(stack) - 1 \in Nat
      /\ (Len(stack) - 1) + 1 = Len(stack) /\ Top = stack[Len(stack)]
  BY BelowFacts, StackFacts
<1>2. Asked(stack, Len(stack) - 1, Top.old)
  BY <1>1 DEF EnabledInv
<1>3. Asked(stack, (Len(stack) - 1) + 1, isEnabled)
  BY <1>1 DEF EnabledInv
<1> QED
  BY <1>1, <1>2, <1>3, AskedNext

LEMMA EnabledPushed ==
    ASSUME CallsTypeOK, EnabledInv, NEW kind, NEW debug \in BOOLEAN,
           kind \in HostCalls \cup ScriptCalls \cup {"eval", "stop"},
           Push(kind, debug),
           isEnabled' = IF kind = "eval" THEN debug ELSE isEnabled
    PROVE  EnabledInv'
<1> DEFINE n == Len(stack)
<1>1. /\ n \in Nat /\ Len(stack') = n + 1 /\ stack' \in Seq(Call)
      /\ \A i \in 1 .. n : stack'[i] = stack[i]
      /\ stack'[n + 1].kind = kind /\ stack'[n + 1].old = isEnabled
      /\ stack'[n + 1].debug = debug
  <2>1. stack'[Len(stack')] = [kind |-> kind, old |-> isEnabled,
                               debug |-> debug, inside |-> FALSE]
    BY PushFacts
  <2>2. /\ n \in Nat /\ Len(stack') = n + 1 /\ stack' \in Seq(Call)
        /\ \A i \in 1 .. n : stack'[i] = stack[i]
    BY PushFacts, StackFacts
  <2> QED
    BY <2>1, <2>2
<1>2. DOMAIN stack' = 1 .. n + 1 /\ DOMAIN stack = 1 .. n
  BY <1>1, LenProperties, StackFacts
<1> HIDE DEF n
<1>3. Asked(stack', n, isEnabled)
  BY <1>1, AskedSame DEF EnabledInv, n
<1>4. Asked(stack', n + 1, isEnabled')
  BY <1>1, <1>3, AskedNext
<1>5. ASSUME NEW i \in 1 .. n + 1 PROVE Asked(stack', i - 1, stack'[i].old)
  <2>1. CASE i = n + 1
    <3>1. (n + 1) - 1 = n
      BY <1>1
    <3> QED
      BY <1>1, <1>3, <2>1, <3>1
  <2>2. CASE i # n + 1
    <3>1. i \in 1 .. n /\ i - 1 \in Nat /\ \A j \in 1 .. i - 1 : j \in 1 .. n
      BY <1>1, <2>2
    <3>2. Asked(stack, i - 1, stack'[i].old)
      BY <1>1, <1>2, <3>1 DEF EnabledInv
    <3> QED
      BY <1>1, <3>1, <3>2, AskedSame
  <2> QED
    BY <2>1, <2>2
<1> QED
  BY <1>1, <1>2, <1>4, <1>5 DEF EnabledInv

-----------------------------------------------------------------------------
(* The steps. *)

LEMMA InitCallsInv == CallsInit => CallsInv
<1> SUFFICES ASSUME CallsInit PROVE CallsInv
  OBVIOUS
<1>1. CallsTypeOK
  BY CallsAssumption DEF CallsInit, CallsTypeOK, NothingCaught
<1>2. Len(stack) = 0 /\ DOMAIN stack = {}
  BY DEF CallsInit
<1> QED
  BY <1>1, <1>2 DEF CallsInit, CallsInv, QuitInv, FlagInv, EnabledInv, Asked,
     QuitIsSilent, UnreportedHasACauseInside, NothingCaught

(* A call begins.  Only a host call and an evaluation change anything else. *)
LEMMA PushInv ==
    ASSUME CallsInv, NEW kind, NEW debug \in BOOLEAN, Push(kind, debug),
           kind \in HostCalls \cup ScriptCalls \cup {"eval", "stop"},
           isEnabled' = IF kind = "eval" THEN debug ELSE isEnabled,
           isCallSuccess' = IF kind \in HostCalls THEN FALSE ELSE isCallSuccess,
           raised = "none", UNCHANGED <<connected, raised, caught>>
    PROVE  CallsInv'
<1>1. CallsTypeOK /\ FlagInv /\ EnabledInv
  BY DEF CallsInv
<1>2. /\ stack' \in Seq(Call) /\ Len(stack') = Len(stack) + 1
      /\ Len(stack') <= MaxDepth
      /\ \A i \in 1 .. Len(stack) : stack'[i] = stack[i]
      /\ stack'[Len(stack')] = [kind |-> kind, old |-> isEnabled,
                                debug |-> debug, inside |-> FALSE]
  BY <1>1, PushFacts
<1>3. CallsTypeOK'
  BY <1>1, <1>2 DEF CallsTypeOK
<1>4. FlagInv'
  <2> SUFFICES ASSUME isCallSuccess', NEW i \in DOMAIN stack',
                      stack'[i].kind \in HostCalls
               PROVE  stack'[i].inside
    BY DEF FlagInv
  <2>1. kind \notin HostCalls /\ isCallSuccess
    OBVIOUS
  <2>2. stack'[Len(stack')].kind = kind
    BY <1>2
  <2>3. i \in 1 .. Len(stack)
    BY <1>1, <1>2, <2>1, <2>2, StackFacts, LenProperties
  <2> QED
    BY <1>1, <1>2, <2>1, <2>3, StackFacts DEF FlagInv
<1>5. EnabledInv'
  BY <1>1, EnabledPushed
<1> QED
  BY <1>3, <1>4, <1>5 DEF CallsInv, QuitInv, QuitIsSilent,
     UnreportedHasACauseInside

(* A call ends, or the calls of the host are marked, or neither: calls are  *)
(* those of before.                                                         *)
LEMMA FewerCallsInv ==
    ASSUME CallsInv, stack' \in Seq(Call), Len(stack') <= Len(stack),
           \A i \in 1 .. Len(stack') :
              /\ stack'[i].kind = stack[i].kind
              /\ stack'[i].old = stack[i].old
              /\ stack'[i].debug = stack[i].debug
              /\ \/ stack'[i].inside = stack[i].inside
                 \/ stack'[i].kind \in HostCalls => stack'[i].inside,
           \/ isCallSuccess' = isCallSuccess
           \/ /\ isCallSuccess' = TRUE
              /\ \A i \in 1 .. Len(stack') :
                    stack'[i].kind \in HostCalls => stack'[i].inside,
           isEnabled' \in BOOLEAN, connected' \in BOOLEAN,
           raised' \in {"none", "error"} \/ (raised' = "quit" /\ isCallSuccess'),
           Asked(stack, Len(stack'), isEnabled'),
           \/ UNCHANGED caught
           \/ /\ caught' \in [what : {"none", "error", "quit"},
                              reported : BOOLEAN, inside : BOOLEAN]
              /\ QuitIsSilent' /\ UnreportedHasACauseInside'
    PROVE  CallsInv'
<1>1. CallsTypeOK /\ FlagInv /\ EnabledInv
  BY DEF CallsInv
<1>2. DOMAIN stack' = 1 .. Len(stack') /\ Len(stack') \in Nat
      /\ DOMAIN stack = 1 .. Len(stack) /\ Len(stack) \in Nat
  <2>1. DOMAIN stack' = 1 .. Len(stack') /\ Len(stack') \in Nat
    BY LenProperties
  <2> QED
    BY <1>1, <2>1, StackFacts
<1>3. CallsTypeOK'
  <2>1. Len(stack') <= MaxDepth
    BY <1>1, <1>2, CallsAssumption DEF CallsTypeOK
  <2>2. isCallSuccess' \in BOOLEAN
    BY <1>1 DEF CallsTypeOK
  <2>3. raised' \in {"none", "error", "quit"}
    OBVIOUS
  <2>4. caught' \in [what : {"none", "error", "quit"}, reported : BOOLEAN,
                     inside : BOOLEAN]
    BY <1>1 DEF CallsTypeOK
  <2> QED
    BY <2>1, <2>2, <2>3, <2>4 DEF CallsTypeOK
<1>4. FlagInv'
  <2>1. ASSUME isCallSuccess', NEW i \in DOMAIN stack',
               stack'[i].kind \in HostCalls
        PROVE  stack'[i].inside
    <3>1. i \in 1 .. Len(stack') /\ i \in DOMAIN stack
      BY <1>2
    <3>2. CASE isCallSuccess' = isCallSuccess
      <4>1. stack[i].kind \in HostCalls
        BY <2>1, <3>1
      <4>2. isCallSuccess
        BY <2>1, <3>2
      <4>3. stack[i].inside
        BY <1>1, <3>1, <4>1, <4>2, Zenon DEF FlagInv
      <4> QED
        BY <2>1, <3>1, <4>3, Zenon
    <3>3. CASE \A j \in 1 .. Len(stack') :
                  stack'[j].kind \in HostCalls => stack'[j].inside
      BY <2>1, <3>1, <3>3, Zenon
    <3> QED
      BY <3>2, <3>3
  <2> QED
    BY <2>1 DEF FlagInv
<1>5. EnabledInv'
  BY <1>1, EnabledKept
<1>6. QuitInv' /\ QuitIsSilent' /\ UnreportedHasACauseInside'
  BY DEF CallsInv, QuitInv, QuitIsSilent, UnreportedHasACauseInside
<1> QED
  BY <1>3, <1>4, <1>5, <1>6 DEF CallsInv

(* The innermost call ends, without a mark and with one. *)
LEMMA PopInv ==
    ASSUME CallsInv, stack # <<>>, stack' = Below, UNCHANGED connected,
           isCallSuccess' = isCallSuccess, raised' = "none",
           isEnabled' = IF Top.kind = "eval" THEN Top.old ELSE isEnabled,
           \/ UNCHANGED caught
           \/ /\ caught' \in [what : {"none", "error", "quit"},
                              reported : BOOLEAN, inside : BOOLEAN]
              /\ QuitIsSilent' /\ UnreportedHasACauseInside'
    PROVE  CallsInv'
<1>1. CallsTypeOK /\ EnabledInv
  BY DEF CallsInv
<1>2. /\ stack' \in Seq(Call) /\ Len(stack') = Len(stack) - 1
      /\ Len(stack) - 1 \in Nat /\ Len(stack) \in Nat
      /\ \A i \in 1 .. Len(stack') : stack'[i] = stack[i]
      /\ Top \in Call
  BY <1>1, BelowFacts, StackFacts
<1>3. Asked(stack, Len(stack'), isEnabled')
  BY <1>1, <1>2, AskedBelow
<1>4. isEnabled' \in BOOLEAN /\ connected' \in BOOLEAN
  BY <1>1, <1>2 DEF CallsTypeOK, Call
<1>5. Len(stack') <= Len(stack)
  BY <1>2
<1> QED
  BY <1>2, <1>3, <1>4, <1>5, FewerCallsInv

LEMMA MarkInv ==
    ASSUME CallsInv, stack # <<>>,
           stack' = Marked(stack) \/ (stack' = Marked(Below) /\ Top.kind # "eval"),
           isCallSuccess' = TRUE, raised' \in {"none", "quit"},
           UNCHANGED <<isEnabled, connected, caught>>
    PROVE  CallsInv'
<1>1. CallsTypeOK /\ EnabledInv
  BY DEF CallsInv
<1>2. /\ Below \in Seq(Call) /\ Len(Below) = Len(stack) - 1
      /\ \A i \in 1 .. Len(stack) - 1 : Below[i] = stack[i]
      /\ stack \in Seq(Call) /\ Len(stack) \in Nat
  BY <1>1, BelowFacts, StackFacts
<1>3. /\ stack' \in Seq(Call) /\ Len(stack') <= Len(stack)
      /\ \A i \in 1 .. Len(stack') : /\ stack'[i].kind = stack[i].kind
                                     /\ stack'[i].old = stack[i].old
                                     /\ stack'[i].debug = stack[i].debug
                                     /\ stack'[i].kind \in HostCalls
                                           => stack'[i].inside
  <2>1. CASE stack' = Marked(stack)
    BY <1>2, <2>1, MarkedFacts
  <2>2. CASE stack' = Marked(Below)
    BY <1>2, <2>2, MarkedFacts
  <2> QED
    BY <2>1, <2>2
<1>4. Asked(stack, Len(stack'), isEnabled')
  <2>1. CASE stack' = Marked(stack)
    BY <1>1, <1>2, <2>1, MarkedFacts DEF EnabledInv
  <2>2. CASE stack' = Marked(Below) /\ Top.kind # "eval"
    BY <1>1, <1>2, <2>2, MarkedFacts, AskedBelow
  <2> QED
    BY <2>1, <2>2
<1>5. isEnabled' \in BOOLEAN /\ connected' \in BOOLEAN
  BY <1>1 DEF CallsTypeOK
<1> QED
  BY <1>3, <1>4, <1>5, FewerCallsInv

(* Nothing but the flags changes. *)
LEMMA SameCallsInv ==
    ASSUME CallsInv, UNCHANGED <<stack, isCallSuccess, isEnabled, caught>>,
           connected' \in BOOLEAN, raised' \in {"none", "error"} \/ raised' = raised
    PROVE  CallsInv'
<1>1. CallsTypeOK /\ EnabledInv /\ QuitInv /\ FlagInv
  BY DEF CallsInv
<1>2. CallsTypeOK'
  BY <1>1 DEF CallsTypeOK
<1>3. EnabledInv'
  BY <1>1 DEF EnabledInv, Asked
<1> QED
  BY <1>2, <1>3 DEF CallsInv, QuitInv, FlagInv, QuitIsSilent,
     UnreportedHasACauseInside

LEMMA CatchHostInv ==
    ASSUME CallsInv, CatchHost
    PROVE  CallsInv'
<1>1. /\ raised # "none" /\ stack # <<>> /\ Top.kind \in HostCalls
      /\ caught' = [what |-> raised, reported |-> ~isCallSuccess,
                    inside |-> Top.inside]
      /\ stack' = Below /\ raised' = "none"
      /\ UNCHANGED <<isCallSuccess, isEnabled, connected>>
  BY DEF CatchHost, TopIs
<1>2. CallsTypeOK /\ QuitInv /\ FlagInv
  BY DEF CallsInv
<1>3. /\ Top = stack[Len(stack)] /\ Top \in Call
      /\ Len(stack) \in DOMAIN stack
  BY <1>1, <1>2, BelowFacts, StackFacts
<1>4. isCallSuccess => Top.inside
  BY <1>1, <1>2, <1>3 DEF FlagInv
<1>5. caught' \in [what : {"none", "error", "quit"}, reported : BOOLEAN,
                   inside : BOOLEAN]
  BY <1>1, <1>2, <1>3 DEF CallsTypeOK, Call
<1>6. QuitIsSilent' /\ UnreportedHasACauseInside'
  BY <1>1, <1>2, <1>4 DEF QuitInv, QuitIsSilent, UnreportedHasACauseInside
<1>7. Top.kind # "eval"
  BY <1>1 DEF HostCalls
<1> QED
  BY <1>1, <1>5, <1>6, <1>7, PopInv

LEMMA CallsStep == CallsInv /\ [CallsNext]_callVars => CallsInv'
<1> SUFFICES ASSUME CallsInv, [CallsNext]_callVars PROVE CallsInv'
  OBVIOUS
<1>1. CallsTypeOK
  BY DEF CallsInv
<1>2. CASE UNCHANGED callVars
  BY <1>1, <1>2, SameCallsInv DEF callVars, CallsTypeOK
<1>3. CASE CallHost
  <2>1. PICK kind \in HostCalls : Push(kind, FALSE)
    BY <1>3 DEF CallHost
  <2>2. kind # "eval"
    BY <2>1 DEF HostCalls
  <2> QED
    BY <1>3, <2>1, <2>2, PushInv DEF CallHost, BeginHostCall, Running
<1>4. CASE CallScript
  <2>1. PICK kind \in ScriptCalls : Push(kind, FALSE)
    BY <1>4 DEF CallScript
  <2>2. kind # "eval" /\ kind \notin HostCalls
    BY <2>1 DEF HostCalls, ScriptCalls
  <2> QED
    BY <1>4, <2>1, <2>2, PushInv DEF CallScript, Running
<1>5. CASE ReturnHost
  <2>1. Top.kind # "eval"
    BY <1>5 DEF ReturnHost, TopIs, HostCalls
  <2> QED
    BY <1>5, <2>1, MarkInv DEF ReturnHost, TopIs, Running
<1>6. CASE ReturnScript \/ CatchScript
  <2>1. Top.kind # "eval"
    BY <1>6 DEF ReturnScript, CatchScript, TopIs, ScriptCalls
  <2> QED
    BY <1>6, <2>1, PopInv DEF ReturnScript, CatchScript, TopIs, Running
<1>7. CASE RaiseError \/ lldebug_assert \/ LoseConnection
  BY <1>1, <1>7, SameCallsInv
  DEF RaiseError, lldebug_assert, LoseConnection, CallsTypeOK
<1>8. CASE LineHook
  <2>1. CASE connected
    BY <1>8, <2>1, PushInv DEF LineHook, Running, HostCalls
  <2>2. CASE ~connected
    BY <1>8, <2>2, MarkInv DEF LineHook, QuitMark
  <2> QED
    BY <2>1, <2>2
<1>9. CASE LeaveStop
  <2>1. stack # <<>> /\ Top.kind # "eval" /\ raised = "none"
    BY <1>9 DEF LeaveStop, TopIs
  <2>2. CASE connected
    BY <1>9, <2>1, <2>2, PopInv DEF LeaveStop
  <2>3. CASE ~connected
    BY <1>9, <2>1, <2>3, MarkInv DEF LeaveStop, QuitMark
  <2> QED
    BY <2>2, <2>3
<1>10. CASE Evaluate
  <2>1. PICK debug \in BOOLEAN : Push("eval", debug) /\ isEnabled' = debug
    BY <1>10 DEF Evaluate
  <2> QED
    BY <1>10, <2>1, PushInv DEF Evaluate, HostCalls
<1>11. CASE LeaveEval
  BY <1>11, PopInv DEF LeaveEval, TopIs, Restored
<1> QED
  BY <1>2, <1>3, <1>4, <1>5, <1>6, <1>7, <1>8, <1>9, <1>10, <1>11, CatchHostInv
  DEF CallsNext

THEOREM CallsInvariant == CallsSpec => []CallsInv
  BY InitCallsInv, CallsStep, PTL DEF CallsSpec

(* The error that ends a program whose frame is gone is never reported as   *)
(* an error of the program, however deep the calls are nested               *)
(* (context.cpp:847, 1178).                                                 *)
THEOREM QuitAlwaysSilent == CallsSpec => []QuitIsSilent
<1>1. CallsInv => QuitIsSilent
  BY DEF CallsInv
<1> QED
  BY <1>1, CallsInvariant, PTL

(* An error goes unreported only because of a call inside the one it ends,  *)
(* never because of an earlier one (context.cpp:1171).                      *)
THEOREM UnreportedHasCause == CallsSpec => []UnreportedHasACauseInside
<1>1. CallsInv => UnreportedHasACauseInside
  BY DEF CallsInv
<1> QED
  BY <1>1, CallsInvariant, PTL

(* Whether hooks are called is what the innermost evaluation asked for,     *)
(* whichever way those inside it ended (luautils.cpp:482).                  *)
THEOREM EnabledAsAsked == CallsSpec => []EnabledIsInnermosts
<1>1. CallsInv => EnabledIsInnermosts
  <2> SUFFICES ASSUME CallsInv PROVE EnabledIsInnermosts
    OBVIOUS
  <2> DEFINE evals == {i \in DOMAIN stack : stack[i].kind = "eval"}
             n == Len(stack)
  <2>1. CallsTypeOK /\ Asked(stack, n, isEnabled) /\ isEnabled \in BOOLEAN
    BY DEF CallsInv, EnabledInv, CallsTypeOK
  <2>2. n \in Nat /\ DOMAIN stack = 1 .. n
    BY <2>1, StackFacts
  <2>3. CASE isEnabled /\ \A i \in 1 .. n : stack[i].kind # "eval"
    <3>1. evals = {}
      BY <2>2, <2>3
    <3> QED
      BY <2>1, <2>3, <3>1 DEF EnabledIsInnermosts
  <2>4. CASE \E m \in 1 .. n :
                /\ stack[m].kind = "eval" /\ isEnabled = stack[m].debug
                /\ \A i \in m + 1 .. n : stack[i].kind # "eval"
    <3>1. PICK m \in 1 .. n :
             /\ stack[m].kind = "eval" /\ isEnabled = stack[m].debug
             /\ \A i \in m + 1 .. n : stack[i].kind # "eval"
      BY <2>4
    <3>2. m \in evals
      BY <2>2, <3>1
    <3>3. \A i \in evals : i \in Nat /\ m >= i
      BY <2>2, <3>1
    <3>4. Max(evals) = m
      <4> HIDE DEF evals
      <4>1. \A x \in evals : (\A y \in evals : x >= y) => x = m
        BY <3>2, <3>3
      <4> QED
        BY <3>2, <3>3, <4>1 DEF Max
    <3> QED
      BY <2>1, <3>1, <3>2, <3>4 DEF EnabledIsInnermosts
  <2> QED
    BY <2>1, <2>3, <2>4 DEF Asked
<1> QED
  BY <1>1, CallsInvariant, PTL

-----------------------------------------------------------------------------
(* The debugger's start: the steps *)

Stage(k) == connector[k].stage
Pending(k) == connector[k].pending
Count(k) == connector[k].count
Has(k) == connector[k].has
Both == {"write", "read"}

Records == [stage : {"unused", "resolving", "connecting", "accepting",
                     "confirming", "over"},
            pending : SUBSET Both, count : 0 .. 2, has : BOOLEAN]

(* It is at work on a link, has not come to one, and has what it waits for.  *)
OnALink(k) == Stage(k) = "confirming" \/ Pending(k) # {}
NotYet(k) == Stage(k) \in {"unused", "resolving", "connecting"}

(* A handshake on it may fail, since its peer or another program spoilt it.  *)
Spoilt(c) == {"client", "server"} \subseteq shut[c] \/ "junk" \in wrote[c]
SomeSpoilt == \E c \in Clients : link[c] # "none" /\ Spoilt(c)
Disturbed == \E c \in Clients : link[c] # "none" /\ shut[c] # {}

LEMMA Names ==
    /\ Nobody \notin Clients /\ Nobody \notin Connectors
    /\ "acceptor" \notin Clients
    /\ Attempts \subseteq Clients /\ Others \subseteq Clients
    /\ Attempts \subseteq Connectors /\ "acceptor" \in Connectors
    /\ \A c \in Others : c \notin Attempts
    /\ \A c \in Clients : c \in Attempts \/ c \in Others
    /\ \A k \in Connectors : k = "acceptor" \/ k \in Attempts
    /\ Ends = {"ctx", "frame"} /\ Attempts = {"c1", "c2"}
  BY StartAssumption DEF Nobody, Clients, Connectors, Attempts, Ends

LEMMA StartTypes ==
    ASSUME StartTypeOK
    PROVE  /\ connector \in [Connectors -> Records]
           /\ connection \in [Ends -> Clients \cup {Nobody}]
           /\ link \in [Clients -> {"none", "queued", "accepted"}]
           /\ wrote \in [Clients -> SUBSET {"client", "server", "junk"}]
           /\ shut \in [Clients -> SUBSET {"client", "server"}]
           /\ faults \in Nat
           /\ \A k \in Connectors : Pending(k) \subseteq Both /\ Count(k) \in 0 .. 2
  <1>1. connector \in [Connectors -> Records]
    BY DEF StartTypeOK, Records, Both
  <1>2. faults \in Nat
    BY StartAssumption DEF StartTypeOK
  <1>3. \A k \in Connectors : Pending(k) \subseteq Both /\ Count(k) \in 0 .. 2
    BY <1>1 DEF Records, Pending, Count
  <1> QED
    BY <1>1, <1>2, <1>3 DEF StartTypeOK

(* What a step makes of one connector, of what belongs to one end, and of    *)
(* the sockets: the side of those in C is closed, and who is in the backlog  *)
(* of an acceptor that is not open is reset.                                 *)
Becomes(k, stage, pending, n, has) ==
    /\ Stage(k)' = stage /\ Pending(k)' = pending /\ Count(k)' = n /\ Has(k)' = has
    /\ \A j \in Connectors \ {k} : connector'[j] = connector[j]
Connects(e, c) ==
    /\ connection'[e] = c
    /\ \A d \in Ends \ {e} : connection'[d] = connection[d]
LetsGo(e) ==
    /\ held'[e] = Nobody
    /\ \A d \in Ends \ {e} : held'[d] = held[d]
Told(e, b) ==
    /\ inEnd'[e] = b
    /\ \A d \in Ends \ {e} : inEnd'[d] = inEnd[d]
Shuts(C, side) ==
    \A c \in Clients :
       shut'[c] = shut[c] \cup {s \in {side} : c \in C}
                     \cup {s \in {"server"} : link[c] = "queued" /\ ~AcceptorOpen'}
Faulty == faults' = faults \/ faults' = faults + 1

(* The steps, by what they do. *)
Writes ==
    /\ \E c \in Clients, s \in {"client", "server", "junk"} :
          /\ link[c] # "none"
          /\ s = "server" => c = accepted
          /\ s = "junk" => c \in Others
          /\ \A d \in Clients : wrote'[d] = wrote[d] \cup {x \in {s} : d = c}
    /\ UNCHANGED <<luaVars, isFailed, fpc, connector, connection, held, accepted,
                   inEnd, link, shut, twice, faults>>

Heard(k, op) == op = "read" => OtherSide(k) \in wrote[Line(k)]

(* The first handler of a handshake; or the second, of one that has failed.  *)
HalfDone(k, op) ==
    /\ op \in Pending(k) /\ Count(k) + 1 < 2 /\ Heard(k, op)
    /\ Becomes(k, Stage(k), Pending(k) \ {op}, Count(k) + 1, Has(k))
    /\ Shuts({}, "client")
    /\ UNCHANGED <<luaVars, isFailed, fpc, connection, held, accepted, inEnd, link,
                   wrote, twice, faults>>

Joined(k, op) ==
    /\ op \in Pending(k) /\ Count(k) + 1 >= 2 /\ Heard(k, op)
    /\ Becomes(k, "over", Pending(k) \ {op}, Count(k) + 1, FALSE)
    /\ \/ /\ connection[Engine(k)] # Nobody
          /\ connection' = connection /\ held' = held
          /\ Shuts({Line(k)}, Side(k))
       \/ /\ connection[Engine(k)] = Nobody
          /\ Connects(Engine(k), Line(k)) /\ LetsGo(Engine(k))
          /\ Shuts({}, "client")
    /\ UNCHANGED <<luaVars, isFailed, fpc, accepted, inEnd, link, wrote, twice,
                   faults>>

(* It fails before it has a link, or at the handshake.                       *)
Fails(k) ==
    /\ \/ k \in Attempts /\ Stage(k) \in {"resolving", "connecting"}
          /\ Becomes(k, "over", Pending(k), Count(k), FALSE)
       \/ \E op \in Pending(k) :
             /\ Has(k)
             /\ OtherSide(k) \in shut[Line(k)] \/ "junk" \in wrote[Line(k)]
             /\ Becomes(k, "over", Pending(k) \ {op}, Count(k), FALSE)
    /\ LetsGo(Engine(k))
    /\ isFailed' = (isFailed \/ Engine(k) = "ctx")
    /\ Shuts({Line(k)}, Side(k))
    /\ Faulty
    /\ UNCHANGED <<luaVars, fpc, connection, accepted, inEnd, link, wrote, twice>>

KillsIfSpoilt == twice' = twice \/ (twice' = TRUE /\ SomeSpoilt)

ContextLeaves ==
    /\ luaPc' = "gone"
    /\ Connects("ctx", Nobody) /\ LetsGo("ctx") /\ Told("ctx", FALSE)
    /\ \A k \in Attempts : /\ Stage(k)' = "over" /\ Pending(k)' = {}
                           /\ Count(k)' = 0 /\ Has(k)' = FALSE
    /\ connector'["acceptor"] = connector["acceptor"]
    /\ Shuts({c \in Attempts : link[c] # "none"}, "client")
    /\ KillsIfSpoilt
    /\ UNCHANGED <<attempt, late, timedOut, isFailed, fpc, accepted, link, wrote, faults>>

(* The frame's process ends, or another takes its place: not without reason. *)
FrameLeaves ==
    /\ fpc' \in {"exited", "launch"}
    /\ \/ faults' # 0 \/ inEnd["frame"] \/ Deaf \/ SomeSpoilt
       \/ fpc' = "launch" /\ fpc \in {"absent", "exited"}
    /\ Connects("frame", Nobody) /\ LetsGo("frame") /\ Told("frame", FALSE)
    /\ Becomes("acceptor", "over", {}, 0, FALSE)
    /\ Shuts({c \in Clients : link[c] # "none"}, "server")
    /\ KillsIfSpoilt /\ Faulty
    /\ UNCHANGED <<luaVars, isFailed, accepted, link, wrote>>

Resolves(k) ==
    /\ Stage(k) = "resolving"
    /\ Becomes(k, "connecting", Pending(k), Count(k), Has(k))
    /\ UNCHANGED <<luaVars, isFailed, fpc, connection, held, accepted, inEnd, link,
                   wrote, shut, twice, faults>>

Links(k) ==
    /\ Stage(k) = "connecting" /\ AcceptorOpen
    /\ Becomes(k, "confirming", Both, 0, TRUE)
    /\ \A c \in Clients : link'[c] = IF c = k THEN "queued" ELSE link[c]
    /\ UNCHANGED <<luaVars, isFailed, fpc, connection, held, accepted, inEnd,
                   wrote, shut, twice, faults>>

Accepts ==
    /\ Stage("acceptor") = "accepting"
    /\ \E c \in Clients :
          /\ link[c] = "queued" /\ accepted' = c
          /\ \A d \in Clients : link'[d] = IF d = c THEN "accepted" ELSE link[d]
    /\ Becomes("acceptor", "confirming", Both, 0, TRUE)
    /\ UNCHANGED <<luaVars, isFailed, fpc, connection, held, inEnd, wrote, shut,
                   twice, faults>>

Closes(e) ==
    LET c == connection[e]
        side == IF e = "ctx" THEN "client" ELSE "server"
    IN  /\ c # Nobody /\ shut[c] # {}
        /\ Connects(e, Nobody) /\ LetsGo(e) /\ Told(e, TRUE)
        /\ Shuts({c}, side)
        /\ UNCHANGED <<luaVars, isFailed, fpc, connector, accepted, link, wrote,
                       twice, faults>>

Starts ==
    /\ luaPc = "connect" /\ luaPc' = "started" /\ connection["ctx"] = Nobody
    /\ \E k \in Attempts : k = attempt /\ Becomes(k, "resolving", {}, 0, TRUE)
    /\ UNCHANGED <<attempt, timedOut, isFailed, fpc, connection, held, accepted,
                   inEnd, link, wrote, shut, twice, faults>>

(* Only the Lua thread or nobody is concerned.                               *)
OnlyLua ==
    /\ LuaThread \/ UNCHANGED <<luaPc, attempt, timedOut, isFailed, inEnd>>
    /\ held'["frame"] = held["frame"] /\ inEnd'["frame"] = inEnd["frame"]
    /\ Faulty
    /\ UNCHANGED <<fpc, connector, connection, accepted, link, wrote, shut, twice>>

Listens ==
    /\ ~AcceptorOpen
    /\ fpc = "launch" \/ (fpc = "idle" /\ inEnd["frame"])
    /\ fpc' = "starting"
    /\ Becomes("acceptor", "accepting", {}, 0, TRUE)
    /\ accepted' = Nobody /\ Told("frame", FALSE)
    /\ UNCHANGED <<luaVars, isFailed, connection, held, link, wrote, shut, twice,
                   faults>>

Stores ==
    /\ fpc = "starting" /\ fpc' = "idle"
    /\ held'["frame"] = "acceptor" /\ held'["ctx"] = held["ctx"]
    /\ UNCHANGED <<luaVars, isFailed, connector, connection, accepted, inEnd, link,
                   wrote, shut, twice, faults>>

OtherComes(c) ==
    /\ c \in Others /\ link[c] = "none" /\ AcceptorOpen
    /\ \A d \in Clients : link'[d] = IF d = c THEN "queued" ELSE link[d]
    /\ faults' = faults + 1
    /\ UNCHANGED <<luaVars, isFailed, fpc, connector, connection, held, accepted,
                   inEnd, wrote, shut, twice>>

OtherGoes(c) ==
    /\ c \in Others /\ link[c] # "none"
    /\ \A d \in Clients : shut'[d] = shut[d] \cup {s \in {"client"} : d = c}
    /\ UNCHANGED <<luaVars, isFailed, fpc, connector, connection, held, accepted,
                   inEnd, link, wrote, twice, faults>>

-----------------------------------------------------------------------------
(* The invariants of the sockets and connectors *)

(* m_handleCommandCount counts the handlers that were told of no failure.    *)
ConnectorInv(k) ==
    /\ Has(k) <=> Stage(k) \notin {"unused", "over"}
    /\ k = "acceptor" => Stage(k) \notin {"resolving", "connecting"}
    /\ k # "acceptor" => Stage(k) # "accepting"
    /\ Stage(k) \notin {"confirming", "over"} => Pending(k) = {} /\ Count(k) = 0
    /\ Stage(k) = "confirming" =>
          \/ Count(k) = 0 /\ Pending(k) = Both
          \/ Count(k) = 1 /\ Pending(k) \in {{"write"}, {"read"}}
    /\ Stage(k) = "over" =>
          \/ Pending(k) = {}
          \/ Count(k) = 0 /\ Pending(k) \in {{"write"}, {"read"}}

(* What has come to a link, and what has been written on one.                *)
LineInv ==
    /\ \A k \in Attempts : NotYet(k) => link[k] = "none" /\ shut[k] = {}
    /\ \A k \in Attempts : OnALink(k) => link[k] # "none"
    /\ OnALink("acceptor") => accepted # Nobody
    /\ accepted # Nobody => link[accepted] = "accepted"
WroteInv ==
    /\ \A c \in Clients : "server" \in wrote[c] => link[c] = "accepted"
    /\ \A c \in Clients : "junk" \in wrote[c] => c \in Others /\ link[c] # "none"
    /\ \A k \in Attempts : Stage(k) = "confirming" /\ "read" \notin Pending(k)
                              => "server" \in wrote[k]
QueueInv ==
    /\ \A c \in Clients : link[c] = "queued" => AcceptorOpen \/ "server" \in shut[c]
    /\ \A c \in Others : link[c] # "none" => faults # 0

(* An end that has its connection has done the handshake on it.              *)
ContextEndInv ==
    connection["ctx"] # Nobody =>
       LET c == connection["ctx"]
       IN  c \in Attempts /\ Stage(c) = "over" /\ Count(c) = 2 /\ "server" \in wrote[c]
FrameEndInv ==
    /\ connection["frame"] # Nobody =>
          /\ link[connection["frame"]] = "accepted"
          /\ Stage("acceptor") = "over" /\ Count("acceptor") = 2
    /\ connection["frame"] # Nobody \/ Stage("acceptor") = "accepting" \/ OnALink("acceptor")
          => fpc \in {"starting", "idle"} /\ ~inEnd["frame"]
    /\ held["frame"] # Nobody => held["frame"] = "acceptor" /\ fpc = "idle"

(* A link that an end has is its connection, or about to be, or closed.      *)
ClientInv ==
    \A c \in Attempts : link[c] # "none" =>
        \/ "client" \in shut[c]
        \/ connection["ctx"] = c
        \/ Stage(c) = "confirming"
ServerInv ==
    \A c \in Clients : link[c] = "accepted" =>
        \/ "server" \in shut[c]
        \/ connection["frame"] = c
        \/ accepted = c /\ Stage("acceptor") = "confirming"

(* A handshake fails, and its second handler, only on a spoilt link.         *)
SpoiltInv ==
    /\ \A k \in Connectors : Stage(k) = "over" /\ Pending(k) # {} => Spoilt(Line(k))
    /\ twice => SomeSpoilt

(* The two attempts, one after the other.                                    *)
LuaInv ==
    /\ luaPc = "connect" => Stage(attempt) = "unused"
    /\ attempt = "c1" /\ luaPc # "gone" => Stage("c2") = "unused"
    /\ luaPc = "execute" => attempt = "c2" /\ Stage("c2") = "unused"
    /\ luaPc = "gaveup" => attempt = "c2"

(* The frame that has given up accepting had its connection, or a bad peer.  *)
GaveUpInv ==
    fpc \in {"starting", "idle"} =>
        /\ Stage("acceptor") # "unused"
        /\ Stage("acceptor") = "over" =>
              \/ connection["frame"] # Nobody \/ inEnd["frame"]
              \/ /\ Count("acceptor") < 2 /\ accepted # Nobody
                 /\ "junk" \in wrote[accepted] \/ "client" \in shut[accepted]

SocketsInv ==
    /\ StartTypeOK
    /\ \A k \in Connectors : ConnectorInv(k)
    /\ LineInv /\ WroteInv /\ QueueInv
    /\ ContextEndInv /\ FrameEndInv /\ ClientInv /\ ServerInv /\ SpoiltInv /\ GaveUpInv
    /\ LuaInv

-----------------------------------------------------------------------------
(* Every step is one of these *)

LEMMA ShutsIn ==
    ASSUME StartTypeOK, NEW closed, ShutAfter(closed), NEW C, NEW side,
           \A c \in Clients : closed[c] = shut[c] \cup {s \in {side} : c \in C}
    PROVE  Shuts(C, side)
<1>1. \A c \in Clients : shut'[c] = IF link[c] = "queued" /\ ~AcceptorOpen'
                                    THEN closed[c] \cup {"server"} ELSE closed[c]
  BY DEF ShutAfter
<1> HIDE DEF AcceptorOpen
<1> QED
  BY <1>1 DEF Shuts

LEMMA ShutsNone == ASSUME StartTypeOK, ShutAfter(shut) PROVE Shuts({}, "client")
<1>1. \A c \in Clients : shut[c] = shut[c] \cup {s \in {"client"} : c \in {}}
  OBVIOUS
<1> QED
  BY <1>1, ShutsIn

LEMMA ShutsOne ==
    ASSUME StartTypeOK, NEW c \in Clients, NEW side, ShutAfter(Closing(c, side))
    PROVE  Shuts({c}, side)
<1>1. \A d \in Clients : Closing(c, side)[d] = shut[d] \cup {s \in {side} : d \in {c}}
  BY DEF Closing, StartTypeOK
<1> QED
  BY <1>1, ShutsIn

LEMMA ShutsAll ==
    ASSUME StartTypeOK
    PROVE  /\ ShutAfter(ClosingAll("client"))
                => Shuts({c \in Attempts : link[c] # "none"}, "client")
           /\ ShutAfter(ClosingAll("server"))
                => Shuts({c \in Clients : link[c] # "none"}, "server")
<1>1. \A d \in Clients : ClosingAll("client")[d]
         = shut[d] \cup {s \in {"client"} : d \in {c \in Attempts : link[c] # "none"}}
  BY Names DEF ClosingAll
<1>2. \A d \in Clients : ClosingAll("server")[d]
         = shut[d] \cup {s \in {"server"} : d \in {c \in Clients : link[c] # "none"}}
  BY DEF ClosingAll
<1> QED
  BY <1>1, <1>2, ShutsIn

LEMMA BecomesIs ==
    ASSUME StartTypeOK, NEW k \in Connectors, NEW stage, NEW pending, NEW n, NEW has,
           connector' = [connector EXCEPT ![k] =
               [stage |-> stage, pending |-> pending, count |-> n, has |-> has]]
    PROVE  Becomes(k, stage, pending, n, has)
<1>1. connector \in [Connectors -> Records]
  BY StartTypes
<1>2. connector'[k] = [stage |-> stage, pending |-> pending, count |-> n, has |-> has]
  BY <1>1
<1>3. \A j \in Connectors \ {k} : connector'[j] = connector[j]
  BY <1>1
<1> QED
  BY <1>2, <1>3 DEF Becomes, Stage, Pending, Count, Has

LEMMA OverIs ==
    ASSUME StartTypeOK, NEW k \in Connectors,
           connector' = [connector EXCEPT ![k].stage = "over", ![k].has = FALSE]
    PROVE  Becomes(k, "over", Pending(k), Count(k), FALSE)
<1>1. connector \in [Connectors -> Records] /\ connector[k] \in Records
  BY StartTypes
<1>2. /\ connector'[k].stage = "over" /\ connector'[k].pending = connector[k].pending
      /\ connector'[k].count = connector[k].count /\ connector'[k].has = FALSE
  BY <1>1 DEF Records
<1>3. \A j \in Connectors \ {k} : connector'[j] = connector[j]
  BY <1>1
<1> QED
  BY <1>2, <1>3 DEF Becomes, Stage, Pending, Count, Has

LEMMA EndsAre ==
    ASSUME StartTypeOK, NEW e \in Ends
    PROVE  /\ \A c : connection' = [connection EXCEPT ![e] = c] => Connects(e, c)
           /\ held' = [held EXCEPT ![e] = Nobody] => LetsGo(e)
           /\ \A b : inEnd' = [inEnd EXCEPT ![e] = b] => Told(e, b)
  BY DEF StartTypeOK, Connects, LetsGo, Told

(* A connector that is at work, or waits for a handler, has a link.          *)
LEMMA LineIs ==
    ASSUME SocketsInv, NEW k \in Connectors, OnALink(k)
    PROVE  /\ Line(k) \in Clients /\ Line(k) # Nobody /\ link[Line(k)] # "none"
           /\ k = "acceptor" => Line(k) = accepted /\ link[Line(k)] = "accepted"
           /\ k # "acceptor" => Line(k) = k /\ k \in Attempts
<1>1. CASE k = "acceptor"
  BY <1>1, Names DEF SocketsInv, LineInv, Line, StartTypeOK
<1>2. CASE k # "acceptor"
  BY <1>2, Names DEF SocketsInv, LineInv, Line
<1> QED
  BY <1>1, <1>2

LEMMA SendStartIs ==
    ASSUME SocketsInv, NEW k \in Connectors, SendStart(k)
    PROVE  Writes
<1>1. OnALink(k)
  BY DEF SendStart, OnALink, Pending
<1>2. Line(k) \in Clients /\ link[Line(k)] # "none" /\ (k = "acceptor" => Line(k) = accepted)
  BY <1>1, LineIs
<1>3. Side(k) \in {"client", "server"} /\ (Side(k) = "server" => k = "acceptor")
  BY DEF Side
<1>4. \A d \in Clients : wrote'[d] = wrote[d] \cup {x \in {Side(k)} : d = Line(k)}
  BY <1>2 DEF SendStart, SocketsInv, StartTypeOK
<1>5. UNCHANGED <<luaVars, isFailed, fpc, connector, connection, held, accepted,
                  inEnd, link, shut, twice, faults>>
  BY DEF SendStart
<1> QED
  BY <1>2, <1>3, <1>4, <1>5 DEF Writes

LEMMA OutcomesAre ==
    ASSUME SocketsInv, NEW k \in Connectors, NEW op \in {"write", "read"},
           op \in Pending(k), NEW outcome \in Outcomes(k, op)
    PROVE  /\ outcome = "ok" => Heard(k, op)
           /\ outcome = "error" /\ Has(k) =>
                 OtherSide(k) \in shut[Line(k)] \/ "junk" \in wrote[Line(k)]
  BY DEF Outcomes, Heard, Has, OtherSide

LEMMA KilledIs ==
    ASSUME SocketsInv, NEW k \in Connectors, NEW op \in {"write", "read"},
           op \in Pending(k), ~Has(k), Killed(Engine(k)),
           UNCHANGED <<isFailed, attempt, late, timedOut, accepted, link, wrote, faults>>
    PROVE  ContextLeaves \/ FrameLeaves
<1> USE DEF SocketsInv
<1>1. Stage(k) = "over"
  <2>1. ConnectorInv(k) /\ Pending(k) # {}
    OBVIOUS
  <2> QED
    BY <2>1 DEF ConnectorInv
<1>2. SomeSpoilt
  <2>1. Line(k) \in Clients /\ link[Line(k)] # "none"
    BY LineIs DEF OnALink
  <2>2. Spoilt(Line(k))
    BY <1>1 DEF SpoiltInv
  <2> QED
    BY <2>1, <2>2 DEF SomeSpoilt
<1>3. KillsIfSpoilt
  BY <1>2 DEF Killed, KillsIfSpoilt
<1>4. CASE k # "acceptor"
  <2>1. Engine(k) = "ctx"
    BY <1>4 DEF Engine
  <2>2. Connects("ctx", Nobody) /\ LetsGo("ctx") /\ Told("ctx", FALSE)
    BY <2>1, EndsAre, Names DEF Killed
  <2>3. Shuts({c \in Attempts : link[c] # "none"}, "client")
    BY <2>1, ShutsAll DEF Killed
  <2>4. \A j \in Connectors : connector'[j] = IF j # "acceptor"
            THEN [NewConnector("over") EXCEPT !.has = FALSE] ELSE connector[j]
    BY <2>1, Names DEF Killed, Engine
  <2>5. \A j \in Attempts : /\ Stage(j)' = "over" /\ Pending(j)' = {}
                            /\ Count(j)' = 0 /\ Has(j)' = FALSE
    BY <2>4, Names DEF Stage, Pending, Count, Has, NewConnector
  <2>6. connector'["acceptor"] = connector["acceptor"]
    BY <2>4, Names
  <2>7. luaPc' = "gone" /\ fpc' = fpc
    BY <2>1 DEF Killed
  <2> QED
    BY <1>3, <2>2, <2>3, <2>5, <2>6, <2>7 DEF ContextLeaves
<1>5. CASE k = "acceptor"
  <2>1. Engine(k) = "frame"
    BY <1>5 DEF Engine
  <2>2. Connects("frame", Nobody) /\ LetsGo("frame") /\ Told("frame", FALSE)
    BY <2>1, EndsAre, Names DEF Killed
  <2>3. Shuts({c \in Clients : link[c] # "none"}, "server")
    BY <2>1, ShutsAll DEF Killed
  <2>4. \A j \in Connectors : connector'[j] = IF j = "acceptor"
            THEN [NewConnector("over") EXCEPT !.has = FALSE] ELSE connector[j]
    BY <2>1, Names DEF Killed, Engine
  <2>5. Becomes("acceptor", "over", {}, 0, FALSE)
    BY <2>4, Names DEF Becomes, Stage, Pending, Count, Has, NewConnector
  <2>6. luaPc' = luaPc /\ fpc' = "exited"
    BY <2>1 DEF Killed
  <2>7. Faulty /\ luaVars' = luaVars
    BY <2>6 DEF Faulty, luaVars
  <2> QED
    BY <1>2, <1>3, <2>2, <2>3, <2>5, <2>6, <2>7 DEF FrameLeaves
<1> QED
  BY <1>4, <1>5

LEMMA HandleIs ==
    ASSUME SocketsInv, NEW k \in Connectors, NEW op \in {"write", "read"},
           HandleConfirmCommand(k, op)
    PROVE  HalfDone(k, op) \/ Joined(k, op) \/ Fails(k) \/ ContextLeaves \/ FrameLeaves
<1> DEFINE r == connector[k]
           count == r.count + 1
           After(stage, c, has) ==
               connector' = [connector EXCEPT ![k] =
                   [stage |-> stage, pending |-> r.pending \ {op}, count |-> c,
                    has |-> has]]
           Rest == UNCHANGED <<attempt, late, timedOut, launched, accepted, link,
                               wrote, faults>>
<1> USE DEF SocketsInv
<1>1. /\ op \in Pending(k) /\ Count(k) \in 0 .. 2 /\ OnALink(k)
      /\ r.pending = Pending(k) /\ r.count = Count(k) /\ r.stage = Stage(k)
      /\ r.has = Has(k)
  BY StartTypes DEF HandleConfirmCommand, Pending, Count, Stage, Has, OnALink
<1>2. Line(k) \in Clients /\ Line(k) # Nobody /\ Engine(k) \in Ends
  BY <1>1, LineIs, Names DEF Engine
<1>3. Rest
  BY DEF HandleConfirmCommand
<1>4. PICK outcome \in Outcomes(k, op) :
         \/ /\ outcome = "ok" /\ count < Needed
            /\ After(r.stage, count, r.has)
            /\ UNCHANGED <<connection, held, isFailed, inEnd, luaPc, fpc, twice>>
            /\ ShutAfter(shut)
         \/ /\ outcome = "ok" /\ count >= Needed
            /\ After("over", count, FALSE)
            /\ Connected(k)
            /\ UNCHANGED <<inEnd, luaPc, fpc, twice>>
         \/ /\ outcome = "error" /\ r.has
            /\ After("over", r.count, FALSE)
            /\ Failed(k)
            /\ UNCHANGED <<inEnd, luaPc, fpc, twice>>
         \/ /\ outcome = "error" /\ ~r.has
            /\ Killed(Engine(k))
            /\ UNCHANGED isFailed
  <2>1. connector \in [Connectors -> Records]
    BY StartTypes
  <2> QED
    BY <2>1 DEF HandleConfirmCommand
<1>5. \A stage, c, has : After(stage, c, has)
         => Becomes(k, stage, Pending(k) \ {op}, c, has)
  BY <1>1, BecomesIs
<1>6. CASE outcome = "ok" /\ count < Needed /\ After(r.stage, count, r.has)
           /\ UNCHANGED <<connection, held, isFailed, inEnd, luaPc, fpc, twice>>
           /\ ShutAfter(shut)
  <2>1. Becomes(k, Stage(k), Pending(k) \ {op}, Count(k) + 1, Has(k))
    BY <1>1, <1>5, <1>6
  <2>2. Heard(k, op) /\ Shuts({}, "client")
    BY <1>1, <1>6, OutcomesAre, ShutsNone
  <2>3. HalfDone(k, op)
    BY <1>1, <1>3, <1>6, <2>1, <2>2 DEF HalfDone, Needed, luaVars
  <2> QED
    BY <2>3
<1>7. CASE outcome = "ok" /\ count >= Needed /\ After("over", count, FALSE)
           /\ Connected(k) /\ UNCHANGED <<inEnd, luaPc, fpc, twice>>
  <2>1. Becomes(k, "over", Pending(k) \ {op}, Count(k) + 1, FALSE)
    BY <1>1, <1>5, <1>7
  <2>2. Heard(k, op)
    BY <1>1, <1>7, OutcomesAre
  <2>3. \/ /\ connection[Engine(k)] # Nobody
           /\ connection' = connection /\ held' = held
           /\ Shuts({Line(k)}, Side(k))
        \/ /\ connection[Engine(k)] = Nobody
           /\ Connects(Engine(k), Line(k)) /\ LetsGo(Engine(k))
           /\ Shuts({}, "client")
    BY <1>2, <1>7, ShutsOne, ShutsNone, EndsAre DEF Connected
  <2>4. isFailed' = isFailed
    BY <1>7 DEF Connected
  <2>5. Joined(k, op)
    BY <1>1, <1>3, <1>7, <2>1, <2>2, <2>3, <2>4 DEF Joined, Needed, luaVars
  <2> QED
    BY <2>5
<1>8. CASE outcome = "error" /\ r.has /\ After("over", r.count, FALSE) /\ Failed(k)
           /\ UNCHANGED <<inEnd, luaPc, fpc, twice>>
  <2>1. Becomes(k, "over", Pending(k) \ {op}, Count(k), FALSE)
    BY <1>1, <1>5, <1>8
  <2>2. OtherSide(k) \in shut[Line(k)] \/ "junk" \in wrote[Line(k)]
    BY <1>1, <1>8, OutcomesAre
  <2>3. /\ LetsGo(Engine(k)) /\ isFailed' = (isFailed \/ Engine(k) = "ctx")
        /\ Shuts({Line(k)}, Side(k)) /\ connection' = connection
    BY <1>2, <1>8, ShutsOne, EndsAre DEF Failed
  <2>4. Faulty
    BY <1>3 DEF Faulty
  <2>5. Fails(k)
    BY <1>1, <1>3, <1>8, <2>1, <2>2, <2>3, <2>4 DEF Fails, luaVars
  <2> QED
    BY <2>5
<1>9. CASE outcome = "error" /\ ~r.has /\ Killed(Engine(k)) /\ UNCHANGED isFailed
  BY <1>1, <1>3, <1>9, KilledIs
<1> QED
  BY <1>4, <1>6, <1>7, <1>8, <1>9

LEMMA FailEarlyIs ==
    ASSUME SocketsInv, NEW k \in Attempts, Stage(k) \in {"resolving", "connecting"},
           FailEarly(k), Faulty
    PROVE  Fails(k)
<1>1. k \in Connectors /\ k \in Clients /\ k # "acceptor" /\ k # Nobody
  BY Names DEF Attempts, Nobody
<1>2. Line(k) = k /\ Engine(k) = "ctx" /\ Side(k) = "client" /\ Engine(k) \in Ends
  BY <1>1, Names DEF Line, Engine, Side
<1>3. Becomes(k, "over", Pending(k), Count(k), FALSE)
  BY <1>1, OverIs DEF FailEarly, SocketsInv
<1>4. LetsGo(Engine(k)) /\ Shuts({Line(k)}, Side(k)) /\ connection' = connection
  BY <1>1, <1>2, ShutsOne, EndsAre DEF FailEarly, Failed, SocketsInv
<1>5. isFailed' = (isFailed \/ Engine(k) = "ctx")
  BY DEF FailEarly, Failed
<1> QED
  BY <1>3, <1>4, <1>5 DEF Fails, FailEarly

LEMMA HandlersAre ==
    ASSUME SocketsInv, NEW k \in Attempts, HandleResolve(k) \/ HandleConnect(k)
    PROVE  Resolves(k) \/ Links(k) \/ Fails(k)
<1>1. k \in Connectors /\ k \in Clients /\ connector \in [Connectors -> Records]
  BY Names, StartTypes DEF SocketsInv
<1>2. CASE HandleResolve(k) /\ FailEarly(k) /\ Fault
  <2>1. Stage(k) = "resolving" /\ Faulty
    BY <1>2 DEF HandleResolve, Stage, Fault, Faulty
  <2> QED
    BY <1>2, <2>1, FailEarlyIs
<1>3. CASE HandleResolve(k) /\ ~(FailEarly(k) /\ Fault)
  <2>1. connector' = [connector EXCEPT ![k].stage = "connecting"] /\ Stage(k) = "resolving"
    BY <1>3 DEF HandleResolve, Stage
  <2>2. Becomes(k, "connecting", Pending(k), Count(k), Has(k))
    BY <1>1, <2>1 DEF Becomes, Stage, Pending, Count, Has, Records
  <2> QED
    BY <1>3, <2>1, <2>2 DEF HandleResolve, Resolves, tcpVars
<1>4. CASE HandleConnect(k) /\ FailEarly(k) /\ UNCHANGED faults
  <2>1. Stage(k) = "connecting" /\ Faulty
    BY <1>4 DEF HandleConnect, Stage, Faulty
  <2> QED
    BY <1>4, <2>1, FailEarlyIs
<1>5. CASE HandleConnect(k) /\ ~(FailEarly(k) /\ UNCHANGED faults)
  <2>1. /\ Stage(k) = "connecting" /\ AcceptorOpen
        /\ link' = [link EXCEPT ![k] = "queued"] /\ BeginConfirmCommand(k)
    BY <1>5 DEF HandleConnect, Stage
  <2>2. Becomes(k, "confirming", Both, 0, TRUE)
    BY <1>1, <2>1, BecomesIs DEF BeginConfirmCommand, Both, SocketsInv
  <2>3. \A c \in Clients : link'[c] = IF c = k THEN "queued" ELSE link[c]
    BY <1>1, <2>1 DEF SocketsInv, StartTypeOK
  <2>4. UNCHANGED <<luaVars, isFailed, fpc, connection, held, accepted, inEnd,
                    wrote, shut, twice, faults>>
    BY <1>5 DEF HandleConnect
  <2> QED
    BY <2>1, <2>2, <2>3, <2>4 DEF Links
<1> QED
  BY <1>2, <1>3, <1>4, <1>5

LEMMA AcceptIs == ASSUME SocketsInv, HandleAccept PROVE Accepts
<1>1. Stage("acceptor") = "accepting"
  BY DEF HandleAccept, Stage
<1>2. Becomes("acceptor", "confirming", Both, 0, TRUE)
  BY Names, BecomesIs DEF HandleAccept, BeginConfirmCommand, Both, SocketsInv
<1>3. \E c \in Clients :
         /\ link[c] = "queued" /\ accepted' = c
         /\ \A d \in Clients : link'[d] = IF d = c THEN "accepted" ELSE link[d]
  BY DEF HandleAccept, SocketsInv, StartTypeOK
<1> QED
  BY <1>1, <1>2, <1>3 DEF HandleAccept, Accepts

LEMMA CloseIs == ASSUME SocketsInv, NEW e \in Ends, DoClose(e) PROVE Closes(e)
<1>1. connection[e] \in Clients /\ connection[e] # Nobody /\ shut[connection[e]] # {}
  BY DEF DoClose, SocketsInv, StartTypeOK
<1>2. Connects(e, Nobody) /\ LetsGo(e) /\ Told(e, TRUE)
  BY EndsAre DEF DoClose, SocketsInv, Released, EndTold
<1>3. Shuts({connection[e]}, IF e = "ctx" THEN "client" ELSE "server")
  BY <1>1, ShutsOne DEF DoClose, SocketsInv
<1> QED
  BY <1>1, <1>2, <1>3 DEF DoClose, Closes

LEMMA LuaIs ==
    ASSUME SocketsInv, LuaThread \/ DeadlinePasses
    PROVE  Starts \/ OnlyLua
<1> USE DEF frameSide, tcpVars, LuaThread
<1>1. CASE StartContext
  <2>1. CASE connection["ctx"] # Nobody
    BY <1>1, <2>1 DEF StartContext, OnlyLua, Faulty
  <2>2. CASE connection["ctx"] = Nobody
    <3>1. PICK k \in Attempts : k = attempt
      BY DEF SocketsInv, StartTypeOK
    <3>2. Becomes(k, "resolving", {}, 0, TRUE)
      BY <1>1, <2>2, <3>1, BecomesIs, Names DEF StartContext, NewConnector, SocketsInv
    <3> QED
      BY <1>1, <2>2, <3>1, <3>2 DEF StartContext, Starts
  <2> QED
    BY <2>1, <2>2
<1>2. CASE StoreConnector
  <2>1. held'["frame"] = held["frame"]
    BY <1>2, Names DEF StoreConnector, SocketsInv, StartTypeOK
  <2> QED
    BY <1>2, <2>1 DEF StoreConnector, OnlyLua, Faulty
<1>3. CASE TestConnecting
  BY <1>3 DEF TestConnecting, OnlyLua, Faulty
<1>4. CASE TestFailed
  <2>1. inEnd'["frame"] = inEnd["frame"]
    BY <1>4, Names DEF TestFailed, SocketsInv, StartTypeOK
  <2> QED
    BY <1>4, <2>1 DEF TestFailed, OnlyLua, Faulty
<1>5. CASE ExecuteFrame
  BY <1>5 DEF ExecuteFrame, OnlyLua, Faulty, Fault
<1>6. CASE DeadlinePasses
  BY <1>6 DEF DeadlinePasses, OnlyLua, Faulty
<1> QED
  BY <1>1, <1>2, <1>3, <1>4, <1>5, <1>6 DEF LuaThread

LEMMA ExitIs == ASSUME SocketsInv, ContextExits PROVE ContextLeaves
<1>1. Connects("ctx", Nobody) /\ LetsGo("ctx") /\ Told("ctx", FALSE)
  BY EndsAre, Names DEF ContextExits, SocketsInv
<1>2. Shuts({c \in Attempts : link[c] # "none"}, "client")
  BY ShutsAll DEF ContextExits, SocketsInv
<1>3. \A j \in Connectors : connector'[j] = IF j \in Attempts
          THEN [NewConnector("over") EXCEPT !.has = FALSE] ELSE connector[j]
  BY DEF ContextExits
<1>4. \A j \in Attempts : /\ Stage(j)' = "over" /\ Pending(j)' = {}
                          /\ Count(j)' = 0 /\ Has(j)' = FALSE
  BY <1>3, Names DEF Stage, Pending, Count, Has, NewConnector
<1>5. connector'["acceptor"] = connector["acceptor"]
  BY <1>3, Names DEF Attempts
<1> QED
  BY <1>1, <1>2, <1>4, <1>5 DEF ContextExits, ContextLeaves, KillsIfSpoilt

LEMMA LeaveIs ==
    ASSUME SocketsInv, LeaveFrame
    PROVE  /\ Connects("frame", Nobody) /\ LetsGo("frame") /\ Told("frame", FALSE)
           /\ Becomes("acceptor", "over", {}, 0, FALSE)
           /\ Shuts({c \in Clients : link[c] # "none"}, "server")
<1>1. Connects("frame", Nobody) /\ LetsGo("frame") /\ Told("frame", FALSE)
  BY EndsAre, Names DEF LeaveFrame, SocketsInv
<1>2. Shuts({c \in Clients : link[c] # "none"}, "server")
  BY ShutsAll DEF LeaveFrame, SocketsInv
<1>3. connector'["acceptor"] = [NewConnector("over") EXCEPT !.has = FALSE]
      /\ \A j \in Connectors \ {"acceptor"} : connector'[j] = connector[j]
  BY Names DEF LeaveFrame, SocketsInv, StartTypeOK
<1>4. Becomes("acceptor", "over", {}, 0, FALSE)
  BY <1>3 DEF Becomes, Stage, Pending, Count, Has, NewConnector
<1> QED
  BY <1>1, <1>2, <1>4

LEMMA OpenIs ==
    ASSUME SocketsInv, AcceptorOpen
    PROVE  /\ fpc \in {"starting", "idle"}
           /\ \/ held["frame"] = "acceptor"
              \/ Stage("acceptor") = "accepting" \/ OnALink("acceptor")
  BY Names DEF SocketsInv, FrameEndInv, AcceptorOpen, OnALink, Stage, Pending

LEMMA FrameIs ==
    ASSUME SocketsInv, GUIThread \/ FrameExits \/ LaunchedFrameStarts
    PROVE  Listens \/ Stores \/ FrameLeaves \/ OnlyLua
<1> USE DEF contextSide, luaVars
<1>1. CASE StartFrame /\ fpc' = "starting" /\ ~AcceptorOpen
           /\ connector' = [connector EXCEPT !["acceptor"] = NewConnector("accepting")]
           /\ accepted' = Nobody
           /\ inEnd' = [inEnd EXCEPT !["frame"] = FALSE]
           /\ UNCHANGED <<connection, held, shut, faults>>
  <2>1. Becomes("acceptor", "accepting", {}, 0, TRUE)
    BY <1>1, Names, BecomesIs DEF NewConnector, SocketsInv
  <2>2. Told("frame", FALSE)
    BY <1>1, Names, EndsAre DEF SocketsInv
  <2>3. UNCHANGED <<contextSide, link>> /\ (fpc = "launch" \/ (fpc = "idle" /\ inEnd["frame"]))
    BY <1>1 DEF StartFrame
  <2> QED
    BY <1>1, <2>1, <2>2, <2>3 DEF Listens
<1>2. CASE StartFrame /\ fpc' = "exited" /\ LeaveFrame
           /\ (IF AcceptorOpen THEN UNCHANGED faults ELSE Fault)
           /\ UNCHANGED accepted
  <2>1. Faulty /\ (faults' # 0 \/ AcceptorOpen)
    BY <1>2, StartTypes DEF Fault, Faulty, SocketsInv
  <2>2. AcceptorOpen => inEnd["frame"]
    BY <1>2, OpenIs DEF StartFrame
  <2>3. twice' = twice /\ UNCHANGED <<luaVars, isFailed, link, wrote>>
    BY <1>2 DEF StartFrame
  <2>4. KillsIfSpoilt
    BY <2>3 DEF KillsIfSpoilt
  <2> QED
    BY <1>2, <2>1, <2>2, <2>3, <2>4, LeaveIs DEF FrameLeaves
<1>3. CASE StoreAcceptor
  <2>1. held'["frame"] = "acceptor" /\ held'["ctx"] = held["ctx"]
    BY <1>3, Names DEF StoreAcceptor, SocketsInv, StartTypeOK
  <2> QED
    BY <1>3, <2>1 DEF StoreAcceptor, Stores
<1>4. CASE FrameExits
  <2>1. Faulty /\ faults' # 0
    BY <1>4, StartTypes DEF FrameExits, Fault, Faulty, SocketsInv
  <2>2. KillsIfSpoilt
    BY <1>4 DEF KillsIfSpoilt, FrameExits
  <2> QED
    BY <1>4, <2>1, <2>2, LeaveIs DEF FrameExits, FrameLeaves
<1>5. CASE LaunchedFrameStarts /\ fpc' = "launch" /\ LeaveFrame
           /\ (fpc \in {"absent", "exited"} \/ Deaf \/ (fpc = "idle" /\ inEnd["frame"]))
  <2>1. Faulty /\ KillsIfSpoilt
    BY <1>5 DEF KillsIfSpoilt, Faulty, LaunchedFrameStarts
  <2> QED
    BY <1>5, <2>1, LeaveIs DEF LaunchedFrameStarts, FrameLeaves
<1>6. CASE LaunchedFrameStarts
           /\ UNCHANGED <<fpc, connection, held, connector, inEnd, shut>>
  BY <1>6 DEF LaunchedFrameStarts, OnlyLua, Faulty
<1> QED
  BY <1>1, <1>2, <1>3, <1>4, <1>5, <1>6 DEF GUIThread, StartFrame, LaunchedFrameStarts

LEMMA OtherIs ==
    ASSUME SocketsInv, NEW c \in Others, OtherConnects(c) \/ OtherWrites(c) \/ OtherCloses(c)
    PROVE  OtherComes(c) \/ Writes \/ OtherGoes(c)
<1>1. c \in Clients
  BY Names
<1>2. CASE OtherConnects(c)
  <2>1. \A d \in Clients : link'[d] = IF d = c THEN "queued" ELSE link[d]
    BY <1>2, <1>1 DEF OtherConnects, SocketsInv, StartTypeOK
  <2> QED
    BY <1>2, <2>1 DEF OtherConnects, OtherComes, Fault
<1>3. CASE OtherWrites(c)
  <2>1. PICK s \in {"client", "junk"} : wrote' = [wrote EXCEPT ![c] = @ \cup {s}]
    BY <1>3 DEF OtherWrites
  <2>2. \A d \in Clients : wrote'[d] = wrote[d] \cup {x \in {s} : d = c}
    BY <2>1, <1>1 DEF SocketsInv, StartTypeOK
  <2>3. s \in {"client", "server", "junk"} /\ s # "server"
    OBVIOUS
  <2>4. link[c] # "none" /\
        UNCHANGED <<luaVars, isFailed, fpc, connector, connection, held, accepted,
                    inEnd, link, shut, twice, faults>>
    BY <1>3 DEF OtherWrites
  <2> QED
    BY <1>1, <2>2, <2>3, <2>4 DEF Writes
<1>4. CASE OtherCloses(c)
  <2>1. \A d \in Clients : shut'[d] = shut[d] \cup {s \in {"client"} : d = c}
    BY <1>4, <1>1 DEF OtherCloses, Closing, SocketsInv, StartTypeOK
  <2> QED
    BY <1>4, <2>1 DEF OtherCloses, OtherGoes
<1> QED
  BY <1>2, <1>3, <1>4

(* What a step may be.                                                       *)
StartStep ==
    \/ Writes
    \/ \E k \in Connectors :
          \/ \E op \in Both : HalfDone(k, op) \/ Joined(k, op)
          \/ Fails(k)
    \/ ContextLeaves \/ FrameLeaves
    \/ \E k \in Attempts : Resolves(k) \/ Links(k)
    \/ Accepts
    \/ \E e \in Ends : Closes(e)
    \/ Starts \/ OnlyLua \/ Listens \/ Stores
    \/ \E c \in Others : OtherComes(c) \/ OtherGoes(c)

LEMMA StepIs == SocketsInv /\ [StartNext]_startVars => StartStep
<1> SUFFICES ASSUME SocketsInv, [StartNext]_startVars PROVE StartStep
  OBVIOUS
<1>1. CASE Handlers
  <2>1. CASE \E k \in Connectors : SendStart(k)
    BY <2>1, SendStartIs DEF StartStep
  <2>2. CASE \E k \in Connectors, op \in {"write", "read"} : HandleConfirmCommand(k, op)
    <3>1. PICK k \in Connectors, op \in {"write", "read"} : HandleConfirmCommand(k, op)
      BY <2>2
    <3>2. HalfDone(k, op) \/ Joined(k, op) \/ Fails(k) \/ ContextLeaves \/ FrameLeaves
      BY <3>1, HandleIs
    <3>3. op \in Both
      BY DEF Both
    <3> QED
      BY <3>2, <3>3 DEF StartStep
  <2>3. CASE \E k \in Attempts : HandleResolve(k) \/ HandleConnect(k)
    BY <2>3, HandlersAre, Names DEF StartStep
  <2>4. CASE HandleAccept
    BY <2>4, AcceptIs DEF StartStep
  <2>5. CASE \E e \in Ends : DoClose(e)
    BY <2>5, CloseIs DEF StartStep
  <2> QED
    BY <1>1, <2>1, <2>2, <2>3, <2>4, <2>5 DEF Handlers
<1>2. CASE LuaThread \/ DeadlinePasses
  BY <1>2, LuaIs DEF StartStep
<1>3. CASE ContextExits
  BY <1>3, ExitIs DEF StartStep
<1>4. CASE GUIThread \/ FrameExits \/ LaunchedFrameStarts
  BY <1>4, FrameIs DEF StartStep
<1>5. CASE \E c \in Others : OtherConnects(c) \/ OtherWrites(c) \/ OtherCloses(c)
  BY <1>5, OtherIs DEF StartStep
<1>6. CASE UNCHANGED startVars
  BY <1>6 DEF startVars, tcpVars, luaVars, StartStep, OnlyLua, Faulty
<1> QED
  BY <1>1, <1>2, <1>3, <1>4, <1>5, <1>6 DEF StartNext

-----------------------------------------------------------------------------
(* Types *)

LEMMA StartTypeInit == StartInit => StartTypeOK
<1> SUFFICES ASSUME StartInit PROVE StartTypeOK
  OBVIOUS
<1>1. connector \in [Connectors -> Records]
  BY DEF StartInit, NewConnector, Records, Both
<1>2. faults \in 0 .. MaxFaults
  BY StartAssumption DEF StartInit
<1> QED
  BY <1>1, <1>2 DEF StartInit, StartTypeOK, Attempts, Records, Both

LEMMA RecordIs ==
    ASSUME StartTypeOK, NEW k \in Connectors, NEW r \in Records
    PROVE  [connector EXCEPT ![k] = r] \in [Connectors -> Records]
  BY StartTypes

LEMMA ShutIs ==
    ASSUME StartTypeOK, NEW closed \in [Clients -> SUBSET {"client", "server"}],
           ShutAfter(closed)
    PROVE  shut' \in [Clients -> SUBSET {"client", "server"}]
<1> HIDE DEF AcceptorOpen
<1> QED
  BY DEF ShutAfter

LEMMA ClosedIs ==
    ASSUME StartTypeOK, NEW side \in {"client", "server"}
    PROVE  /\ shut \in [Clients -> SUBSET {"client", "server"}]
           /\ ClosingAll(side) \in [Clients -> SUBSET {"client", "server"}]
           /\ \A c \in Clients : Closing(c, side) \in [Clients -> SUBSET {"client", "server"}]
  BY DEF StartTypeOK, ClosingAll, Closing

LEMMA FaultIs ==
    ASSUME StartTypeOK, faults' = faults \/ Fault
    PROVE  faults' \in 0 .. MaxFaults
  BY StartAssumption DEF StartTypeOK, Fault

(* The types, without those of the Lua thread and of the frame's.            *)
SocketTypes ==
    /\ connection \in [Ends -> Clients \cup {Nobody}]
    /\ held \in [Ends -> Connectors \cup {Nobody}]
    /\ connector \in [Connectors -> Records]
    /\ inEnd \in [Ends -> BOOLEAN]
    /\ shut \in [Clients -> SUBSET {"client", "server"}]
OtherTypes ==
    /\ luaPc \in {"connect", "started", "wait", "tested", "execute", "running",
               "gaveup", "gone"}
    /\ attempt \in Attempts
    /\ late \in BOOLEAN
    /\ isFailed \in BOOLEAN
    /\ fpc \in {"absent", "launch", "starting", "idle", "exited"}
    /\ launched \in BOOLEAN
    /\ accepted \in Clients \cup {Nobody}
    /\ link \in [Clients -> {"none", "queued", "accepted"}]
    /\ wrote \in [Clients -> SUBSET {"client", "server", "junk"}]
    /\ twice \in BOOLEAN
    /\ timedOut \in BOOLEAN
    /\ faults \in 0 .. MaxFaults

LEMMA TypesAre == StartTypeOK <=> SocketTypes /\ OtherTypes
  BY DEF StartTypeOK, SocketTypes, OtherTypes, Records, Both

LEMMA NewIs ==
    /\ \A stage \in {"resolving", "accepting"} : NewConnector(stage) \in Records
    /\ [NewConnector("over") EXCEPT !.has = FALSE] \in Records
<1>1. \A stage \in {"resolving", "accepting", "over"} : NewConnector(stage) \in Records
  BY DEF NewConnector, Records, Both
<1>2. \A r \in Records : [r EXCEPT !.has = FALSE] \in Records
  BY DEF Records
<1> QED
  BY <1>1, <1>2

LEMMA FailedTypes ==
    ASSUME StartTypeOK, NEW k \in Connectors, Failed(k)
    PROVE  /\ connection' = connection
           /\ held' \in [Ends -> Connectors \cup {Nobody}]
           /\ shut' \in [Clients -> SUBSET {"client", "server"}]
           /\ isFailed' \in BOOLEAN
<1>1. Side(k) \in {"client", "server"}
  BY DEF Side
<1>2. Line(k) \in Clients \cup {Nobody}
  BY Names DEF Line, StartTypeOK
<1>3. shut' \in [Clients -> SUBSET {"client", "server"}]
  BY <1>1, <1>2, ClosedIs, ShutIs DEF Failed
<1> QED
  BY <1>3 DEF Failed, StartTypeOK

LEMMA HandleTypes ==
    ASSUME SocketsInv, NEW k \in Connectors, NEW op \in {"write", "read"},
           HandleConfirmCommand(k, op)
    PROVE  StartTypeOK'
<1> USE DEF SocketsInv
<1>1. StartTypeOK /\ connector \in [Connectors -> Records] /\ connector[k] \in Records
  BY StartTypes
<1>2. /\ Line(k) \in Clients /\ Engine(k) \in Ends /\ Side(k) \in {"client", "server"}
      /\ Count(k) + 1 \in 0 .. 2
  <2>1. Pending(k) # {} /\ op \in Pending(k)
    BY DEF HandleConfirmCommand, Pending
  <2>2. Count(k) \in 0 .. 1
    BY <2>1 DEF ConnectorInv
  <2> QED
    BY <2>1, <2>2, LineIs, Names DEF OnALink, Engine, Side
<1>3. UNCHANGED <<attempt, late, timedOut, launched, accepted, link, wrote, faults>>
  BY DEF HandleConfirmCommand
<1>4. \A stage \in {"confirming", "over", "unused", "resolving", "connecting", "accepting"},
         n \in 0 .. 2, has \in BOOLEAN :
         [stage |-> stage, pending |-> connector[k].pending \ {op}, count |-> n,
          has |-> has] \in Records
  BY <1>1 DEF Records
<1>5. /\ connector[k].stage \in {"confirming", "over", "unused", "resolving", "connecting",
                                 "accepting"}
      /\ connector[k].has \in BOOLEAN /\ connector[k].count \in 0 .. 2
      /\ connector[k].count + 1 \in 0 .. 2
  BY <1>1, <1>2 DEF Records, Count
<1> DEFINE Plain == /\ connector' \in [Connectors -> Records]
                    /\ UNCHANGED <<inEnd, luaPc, fpc, twice>>
                    /\ \/ UNCHANGED <<connection, held, isFailed>> /\ ShutAfter(shut)
                       \/ Connected(k) \/ Failed(k)
<1>6. Plain \/ (Killed(Engine(k)) /\ UNCHANGED isFailed)
  <2> DEFINE After(stage, c, has) ==
               connector' = [connector EXCEPT ![k] =
                   [stage |-> stage, pending |-> connector[k].pending \ {op},
                    count |-> c, has |-> has]]
  <2>1. \A stage \in {"confirming", "over", "unused", "resolving", "connecting", "accepting"},
           n \in 0 .. 2, has \in BOOLEAN :
           After(stage, n, has) => connector' \in [Connectors -> Records]
    BY <1>1, <1>4, RecordIs
  <2>2. PICK outcome \in Outcomes(k, op) :
           \/ /\ After(connector[k].stage, connector[k].count + 1, connector[k].has)
              /\ UNCHANGED <<connection, held, isFailed, inEnd, luaPc, fpc, twice>>
              /\ ShutAfter(shut)
           \/ /\ After("over", connector[k].count + 1, FALSE)
              /\ Connected(k)
              /\ UNCHANGED <<inEnd, luaPc, fpc, twice>>
           \/ /\ After("over", connector[k].count, FALSE)
              /\ Failed(k)
              /\ UNCHANGED <<inEnd, luaPc, fpc, twice>>
           \/ Killed(Engine(k)) /\ UNCHANGED isFailed
    BY <1>1 DEF HandleConfirmCommand
  <2> HIDE DEF After
  <2> QED
    BY <1>5, <2>1, <2>2
<1>7. CASE Plain
  <2>1. shut' \in [Clients -> SUBSET {"client", "server"}]
    BY <1>2, <1>7, ClosedIs, ShutIs, FailedTypes DEF Connected
  <2>2. /\ connection' \in [Ends -> Clients \cup {Nobody}]
        /\ held' \in [Ends -> Connectors \cup {Nobody}]
        /\ isFailed' \in BOOLEAN
    BY <1>2, <1>7, FailedTypes DEF Connected, StartTypeOK
  <2>3. SocketTypes'
    BY <1>7, <2>1, <2>2, TypesAre DEF SocketTypes
  <2>4. OtherTypes'
    BY <1>3, <1>7, <2>2, TypesAre DEF OtherTypes
  <2> QED
    BY <2>3, <2>4, TypesAre, PTL
<1>8. CASE Killed(Engine(k)) /\ UNCHANGED isFailed
  <2>1. shut' \in [Clients -> SUBSET {"client", "server"}]
    BY <1>8, ClosedIs, ShutIs DEF Killed
  <2>2. connector' \in [Connectors -> Records]
    BY <1>1, <1>8, NewIs DEF Killed
  <2>3. SocketTypes'
    BY <1>2, <1>8, <2>1, <2>2, TypesAre DEF SocketTypes, Killed
  <2>4. OtherTypes'
    BY <1>3, <1>8, TypesAre DEF OtherTypes, Killed
  <2> QED
    BY <2>3, <2>4, TypesAre, PTL
<1> QED
  BY <1>6, <1>7, <1>8

LEMMA HandlersTypes ==
    ASSUME SocketsInv, Handlers
    PROVE  StartTypeOK'
<1> USE DEF SocketsInv
<1>1. StartTypeOK /\ SocketTypes /\ OtherTypes /\ connector \in [Connectors -> Records]
  BY TypesAre, StartTypes
<1>2. ASSUME NEW k \in Connectors, SendStart(k) PROVE StartTypeOK'
  <2>1. OnALink(k)
    BY <1>2 DEF SendStart, OnALink, Pending
  <2>2. Line(k) \in Clients /\ Side(k) \in {"client", "server"}
    BY <2>1, LineIs DEF Side
  <2>3. wrote' \in [Clients -> SUBSET {"client", "server", "junk"}]
    BY <1>1, <1>2, <2>2 DEF SendStart, OtherTypes
  <2>4. SocketTypes' /\ OtherTypes'
    BY <1>1, <1>2, <2>3 DEF SendStart, SocketTypes, OtherTypes, luaVars
  <2> QED
    BY <2>4, TypesAre, PTL
<1>3. ASSUME NEW k \in Attempts, FailEarly(k), faults' = faults \/ Fault PROVE StartTypeOK'
  <2>1. k \in Connectors
    BY Names
  <2>2. /\ held' \in [Ends -> Connectors \cup {Nobody}]
        /\ shut' \in [Clients -> SUBSET {"client", "server"}]
        /\ isFailed' \in BOOLEAN /\ connection' = connection
    BY <1>1, <1>3, <2>1, FailedTypes DEF FailEarly
  <2>3. connector' \in [Connectors -> Records]
    <3>1. \A r \in Records : [r EXCEPT !.stage = "over", !.has = FALSE] \in Records
      BY DEF Records
    <3> QED
      BY <1>1, <1>3, <2>1, <3>1 DEF FailEarly
  <2>4. SocketTypes'
    BY <1>1, <1>3, <2>2, <2>3 DEF FailEarly, SocketTypes
  <2>5. OtherTypes'
    BY <1>1, <1>3, <2>2, FaultIs DEF FailEarly, OtherTypes, luaVars
  <2> QED
    BY <2>4, <2>5, TypesAre, PTL
<1>4. ASSUME NEW k \in Attempts, HandleResolve(k) PROVE StartTypeOK'
  <2>1. CASE FailEarly(k) /\ Fault
    BY <1>3, <2>1
  <2>2. CASE ~(FailEarly(k) /\ Fault)
    <3>1. connector' = [connector EXCEPT ![k].stage = "connecting"]
      BY <1>4, <2>2 DEF HandleResolve
    <3>2. connector' \in [Connectors -> Records]
      <4>1. \A r \in Records : [r EXCEPT !.stage = "connecting"] \in Records
        BY DEF Records
      <4> QED
        BY <1>1, <3>1, <4>1, Names
    <3>3. SocketTypes' /\ OtherTypes'
      BY <1>1, <1>4, <2>2, <3>2 DEF HandleResolve, SocketTypes, OtherTypes, luaVars, tcpVars
    <3> QED
      BY <3>3, TypesAre, PTL
  <2> QED
    BY <2>1, <2>2
<1>5. ASSUME NEW k \in Connectors, BeginConfirmCommand(k)
      PROVE  connector' \in [Connectors -> Records]
  <2>1. [stage |-> "confirming", pending |-> {"write", "read"}, count |-> 0,
         has |-> TRUE] \in Records
    BY DEF Records, Both
  <2> QED
    BY <1>1, <1>5, <2>1, RecordIs DEF BeginConfirmCommand
<1>6. ASSUME NEW k \in Attempts, HandleConnect(k) PROVE StartTypeOK'
  <2>1. CASE FailEarly(k) /\ UNCHANGED faults
    BY <1>3, <2>1
  <2>2. CASE ~(FailEarly(k) /\ UNCHANGED faults)
    <3>1. BeginConfirmCommand(k) /\ link' = [link EXCEPT ![k] = "queued"]
      BY <1>6, <2>2 DEF HandleConnect
    <3>2. connector' \in [Connectors -> Records]
      BY <1>5, <3>1, Names
    <3>3. link' \in [Clients -> {"none", "queued", "accepted"}]
      BY <1>1, <3>1, Names DEF OtherTypes
    <3>4. UNCHANGED <<luaVars, isFailed, fpc, launched, connection, held,
                      accepted, inEnd, wrote, shut, twice, faults>>
      BY <1>6, <2>2 DEF HandleConnect
    <3>5. SocketTypes' /\ OtherTypes'
      BY <1>1, <3>2, <3>3, <3>4 DEF SocketTypes, OtherTypes, luaVars
    <3> QED
      BY <3>5, TypesAre, PTL
  <2> QED
    BY <2>1, <2>2
<1>7. ASSUME HandleAccept PROVE StartTypeOK'
  <2>1. connector' \in [Connectors -> Records]
    BY <1>5, <1>7, Names DEF HandleAccept
  <2>2. link' \in [Clients -> {"none", "queued", "accepted"}] /\ accepted' \in Clients
    BY <1>1, <1>7 DEF OtherTypes, HandleAccept
  <2>3. SocketTypes'
    BY <1>1, <1>7, <2>1 DEF SocketTypes, HandleAccept
  <2>4. OtherTypes'
    BY <1>1, <1>7, <2>2 DEF OtherTypes, HandleAccept, luaVars
  <2> QED
    BY <2>3, <2>4, TypesAre, PTL
<1>8. ASSUME NEW e \in Ends, DoClose(e) PROVE StartTypeOK'
  <2>1. connection[e] \in Clients
    BY <1>1, <1>8 DEF DoClose, SocketTypes
  <2>2. shut' \in [Clients -> SUBSET {"client", "server"}]
    BY <1>1, <1>8, <2>1, ClosedIs, ShutIs DEF DoClose
  <2>3. SocketTypes'
    BY <1>1, <1>8, <2>2 DEF SocketTypes, DoClose, Released, EndTold
  <2>4. OtherTypes'
    BY <1>1, <1>8 DEF OtherTypes, DoClose, luaVars
  <2> QED
    BY <2>3, <2>4, TypesAre, PTL
<1> QED
  BY <1>2, <1>4, <1>6, <1>7, <1>8, HandleTypes DEF Handlers

LEMMA LuaTypes ==
    ASSUME SocketsInv, LuaThread \/ DeadlinePasses \/ ContextExits
    PROVE  StartTypeOK'
<1> USE DEF SocketsInv, frameSide, tcpVars
<1>1. StartTypeOK /\ SocketTypes /\ OtherTypes /\ connector \in [Connectors -> Records]
  BY TypesAre, StartTypes
<1>2. CASE StartContext
  <2>1. connector' \in [Connectors -> Records]
    BY <1>1, <1>2, NewIs, RecordIs, Names DEF StartContext, OtherTypes
  <2>2. SocketTypes'
    BY <1>1, <1>2, <2>1 DEF StartContext, SocketTypes
  <2>3. OtherTypes'
    BY <1>1, <1>2 DEF StartContext, OtherTypes
  <2> QED
    BY <2>2, <2>3, TypesAre, PTL
<1>3. CASE StoreConnector
  <2>1. SocketTypes'
    BY <1>1, <1>3, Names DEF StoreConnector, SocketTypes, OtherTypes
  <2>2. OtherTypes'
    BY <1>1, <1>3 DEF StoreConnector, OtherTypes
  <2> QED
    BY <2>1, <2>2, TypesAre, PTL
<1>4. CASE TestConnecting
  <2>1. SocketTypes' /\ OtherTypes'
    BY <1>1, <1>4 DEF TestConnecting, SocketTypes, OtherTypes
  <2> QED
    BY <2>1, TypesAre, PTL
<1>5. CASE TestFailed
  <2>1. inEnd' \in [Ends -> BOOLEAN]
    BY <1>1, <1>5 DEF TestFailed, SocketTypes
  <2>2. SocketTypes'
    BY <1>1, <1>5, <2>1 DEF TestFailed, SocketTypes
  <2>3. OtherTypes'
    BY <1>1, <1>5, Names DEF TestFailed, OtherTypes
  <2> QED
    BY <2>2, <2>3, TypesAre, PTL
<1>6. CASE ExecuteFrame
  <2>1. faults' \in 0 .. MaxFaults
    BY <1>1, <1>6, FaultIs DEF ExecuteFrame
  <2>2. SocketTypes' /\ OtherTypes'
    BY <1>1, <1>6, <2>1 DEF ExecuteFrame, SocketTypes, OtherTypes
  <2> QED
    BY <2>2, TypesAre, PTL
<1>7. CASE DeadlinePasses
  <2>1. SocketTypes' /\ OtherTypes'
    BY <1>1, <1>7 DEF DeadlinePasses, SocketTypes, OtherTypes
  <2> QED
    BY <2>1, TypesAre, PTL
<1>8. CASE ContextExits
  <2>1. shut' \in [Clients -> SUBSET {"client", "server"}]
    BY <1>1, <1>8, ClosedIs, ShutIs DEF ContextExits
  <2>2. connector' \in [Connectors -> Records]
    BY <1>1, <1>8, NewIs DEF ContextExits
  <2>3. SocketTypes'
    BY <1>1, <1>8, <2>1, <2>2 DEF ContextExits, SocketTypes
  <2>4. OtherTypes'
    BY <1>1, <1>8 DEF ContextExits, OtherTypes
  <2> QED
    BY <2>3, <2>4, TypesAre, PTL
<1> QED
  BY <1>2, <1>3, <1>4, <1>5, <1>6, <1>7, <1>8 DEF LuaThread

LEMMA FrameTypes ==
    ASSUME SocketsInv, GUIThread \/ FrameExits \/ LaunchedFrameStarts
    PROVE  StartTypeOK'
<1> USE DEF SocketsInv, contextSide, luaVars
<1>1. StartTypeOK /\ SocketTypes /\ OtherTypes /\ connector \in [Connectors -> Records]
  BY TypesAre, StartTypes
<1>2. LeaveFrame => SocketTypes'
  <2>1. LeaveFrame => shut' \in [Clients -> SUBSET {"client", "server"}]
    BY <1>1, ClosedIs, ShutIs DEF LeaveFrame
  <2>2. LeaveFrame => connector' \in [Connectors -> Records]
    BY <1>1, NewIs DEF LeaveFrame
  <2> QED
    BY <1>1, <2>1, <2>2 DEF LeaveFrame, SocketTypes
<1>3. CASE StartFrame
  <2>1. connector' = [connector EXCEPT !["acceptor"] = NewConnector("accepting")]
           => connector' \in [Connectors -> Records]
    BY <1>1, NewIs, Names
  <2>2. SocketTypes'
    BY <1>1, <1>2, <1>3, <2>1 DEF StartFrame, SocketTypes
  <2>3. faults' \in 0 .. MaxFaults
    BY <1>1, <1>3, FaultIs DEF StartFrame
  <2>4. OtherTypes'
    BY <1>1, <1>3, <2>3 DEF StartFrame, OtherTypes
  <2> QED
    BY <2>2, <2>4, TypesAre, PTL
<1>4. CASE StoreAcceptor
  <2>1. SocketTypes'
    BY <1>1, <1>4, Names DEF StoreAcceptor, SocketTypes
  <2>2. OtherTypes'
    BY <1>1, <1>4 DEF StoreAcceptor, OtherTypes
  <2> QED
    BY <2>1, <2>2, TypesAre, PTL
<1>5. CASE FrameExits
  <2>1. faults' \in 0 .. MaxFaults
    BY <1>1, <1>5, FaultIs DEF FrameExits
  <2>2. OtherTypes'
    BY <1>1, <1>5, <2>1 DEF FrameExits, OtherTypes
  <2> QED
    BY <1>2, <1>5, <2>2, TypesAre, PTL DEF FrameExits
<1>6. CASE LaunchedFrameStarts
  <2>1. SocketTypes'
    BY <1>1, <1>2, <1>6 DEF LaunchedFrameStarts, SocketTypes
  <2>2. OtherTypes'
    BY <1>1, <1>6 DEF LaunchedFrameStarts, OtherTypes
  <2> QED
    BY <2>1, <2>2, TypesAre, PTL
<1> QED
  BY <1>3, <1>4, <1>5, <1>6 DEF GUIThread

LEMMA StartTypeStep == SocketsInv /\ [StartNext]_startVars => StartTypeOK'
<1> SUFFICES ASSUME SocketsInv, [StartNext]_startVars PROVE StartTypeOK'
  OBVIOUS
<1>1. StartTypeOK /\ SocketTypes /\ OtherTypes
  BY TypesAre DEF SocketsInv
<1>2. ASSUME NEW c \in Others, OtherConnects(c) \/ OtherWrites(c) \/ OtherCloses(c)
      PROVE  StartTypeOK'
  <2>1. faults' \in 0 .. MaxFaults
    BY <1>1, <1>2, FaultIs DEF OtherConnects, OtherWrites, OtherCloses
  <2>2. SocketTypes'
    BY <1>1, <1>2, ClosedIs, Names
    DEF SocketTypes, OtherConnects, OtherWrites, OtherCloses
  <2>3. c \in Clients
    BY Names
  <2>4. wrote' \in [Clients -> SUBSET {"client", "server", "junk"}]
    BY <1>1, <1>2, <2>3 DEF OtherTypes, OtherConnects, OtherWrites, OtherCloses
  <2>5. link' \in [Clients -> {"none", "queued", "accepted"}]
    BY <1>1, <1>2, <2>3 DEF OtherTypes, OtherConnects, OtherWrites, OtherCloses
  <2>6. OtherTypes'
    BY <1>1, <1>2, <2>1, <2>4, <2>5
    DEF OtherTypes, OtherConnects, OtherWrites, OtherCloses, luaVars
  <2> QED
    BY <2>2, <2>6, TypesAre, PTL
<1>3. CASE UNCHANGED startVars
  <2>1. SocketTypes' /\ OtherTypes'
    BY <1>1, <1>3 DEF startVars, luaVars, tcpVars, SocketTypes, OtherTypes
  <2> QED
    BY <2>1, TypesAre, PTL
<1> QED
  BY <1>2, <1>3, HandlersTypes, LuaTypes, FrameTypes DEF StartNext

-----------------------------------------------------------------------------
(* The invariants are kept *)

(* What never goes back.                                                     *)
Grows ==
    /\ \A c \in Clients : /\ shut[c] \subseteq shut'[c] /\ wrote[c] \subseteq wrote'[c]
                          /\ link[c] = "accepted" => link'[c] = "accepted"
                          /\ link[c] # "none" => link'[c] # "none"
    /\ faults # 0 => faults' # 0

LEMMA StepGrows == SocketsInv /\ StartStep => Grows
<1> SUFFICES ASSUME SocketsInv, StartStep PROVE Grows
  OBVIOUS
<1> USE DEF SocketsInv
<1>1. faults \in Nat /\ (Faulty => (faults # 0 => faults' # 0))
  BY StartTypes DEF Faulty
<1>2. \A C, side : Shuts(C, side) => \A c \in Clients : shut[c] \subseteq shut'[c]
  BY DEF Shuts
<1>3. CASE Writes
  BY <1>3 DEF Writes, Grows
<1>4. ASSUME NEW k \in Connectors, NEW op, HalfDone(k, op) \/ Joined(k, op) PROVE Grows
  <2>1. \A c \in Clients : shut[c] \subseteq shut'[c]
    BY <1>2, <1>4 DEF HalfDone, Joined
  <2> QED
    BY <1>4, <2>1 DEF HalfDone, Joined, Grows
<1>5. ASSUME NEW k \in Connectors, Fails(k) PROVE Grows
  BY <1>1, <1>2, <1>5 DEF Fails, Grows
<1>6. CASE ContextLeaves
  BY <1>2, <1>6 DEF ContextLeaves, Grows
<1>7. CASE FrameLeaves
  BY <1>1, <1>2, <1>7 DEF FrameLeaves, Grows
<1>8. ASSUME NEW k \in Attempts, Resolves(k) PROVE Grows
  BY <1>8 DEF Resolves, Grows
<1>9. ASSUME NEW k \in Attempts, Links(k) PROVE Grows
  <2>1. link[k] = "none"
    BY <1>9 DEF Links, LineInv, NotYet
  <2> QED
    BY <1>9, <2>1 DEF Links, Grows
<1>10. CASE Accepts
  BY <1>10 DEF Accepts, Grows
<1>11. ASSUME NEW e \in Ends, Closes(e) PROVE Grows
  BY <1>2, <1>11 DEF Closes, Grows
<1>12. CASE Starts
  BY <1>12 DEF Starts, Grows
<1>13. CASE OnlyLua
  BY <1>1, <1>13 DEF OnlyLua, Grows
<1>14. CASE Listens
  BY <1>14 DEF Listens, Grows
<1>15. CASE Stores
  BY <1>15 DEF Stores, Grows
<1>16. ASSUME NEW c \in Others, OtherComes(c) PROVE Grows
  BY <1>1, <1>16 DEF OtherComes, Grows
<1>17. ASSUME NEW c \in Others, OtherGoes(c) PROVE Grows
  BY <1>17 DEF OtherGoes, Grows
<1> QED
  BY <1>3, <1>4, <1>5, <1>6, <1>7, <1>8, <1>9, <1>10, <1>11, <1>12, <1>13, <1>14,
     <1>15, <1>16, <1>17 DEF StartStep

(* The steps that leave the connectors alone.                                *)
Quiet ==
    \/ Writes \/ OnlyLua \/ Stores
    \/ \E e \in Ends : Closes(e)
    \/ \E c \in Others : OtherComes(c) \/ OtherGoes(c)

LEMMA QuietIs ==
    ASSUME Quiet
    PROVE  /\ connector' = connector /\ accepted' = accepted
           /\ \A k : /\ Stage(k)' = Stage(k) /\ Pending(k)' = Pending(k)
                     /\ Count(k)' = Count(k) /\ Has(k)' = Has(k) /\ OnALink(k)' = OnALink(k)
                     /\ NotYet(k)' = NotYet(k)
<1>1. connector' = connector /\ accepted' = accepted
  BY DEF Quiet, Writes, OnlyLua, Stores, Closes, OtherComes, OtherGoes
<1> QED
  BY <1>1 DEF Stage, Pending, Count, Has, OnALink, NotYet

(* What Becomes says of the other connectors.                                *)
LEMMA OthersStay ==
    ASSUME NEW k, NEW stage, NEW pending, NEW n, NEW has,
           Becomes(k, stage, pending, n, has), NEW j \in Connectors, j # k
    PROVE  /\ Stage(j)' = Stage(j) /\ Pending(j)' = Pending(j) /\ Count(j)' = Count(j)
           /\ Has(j)' = Has(j) /\ OnALink(j)' = OnALink(j) /\ NotYet(j)' = NotYet(j)
  BY DEF Becomes, Stage, Pending, Count, Has, OnALink, NotYet

LEMMA ConnectorStep ==
    SocketsInv /\ StartStep => \A j \in Connectors : ConnectorInv(j)'
<1> SUFFICES ASSUME SocketsInv, StartStep, NEW j \in Connectors PROVE ConnectorInv(j)'
  OBVIOUS
<1>1. ConnectorInv(j) /\ Pending(j) \subseteq Both /\ Count(j) \in 0 .. 2
  BY StartTypes DEF SocketsInv
<1>2. \A k, stage, pending, n, has : Becomes(k, stage, pending, n, has) /\ j # k
        => ConnectorInv(j)'
  <2> SUFFICES ASSUME NEW k, NEW stage, NEW pending, NEW n, NEW has,
                      Becomes(k, stage, pending, n, has), j # k
               PROVE  ConnectorInv(j)'
    OBVIOUS
  <2>1. /\ Stage(j)' = Stage(j) /\ Pending(j)' = Pending(j) /\ Count(j)' = Count(j)
        /\ Has(j)' = Has(j)
    BY OthersStay
  <2> QED
    BY <1>1, <2>1 DEF ConnectorInv
<1>3. CASE Quiet
  BY <1>1, <1>3, QuietIs DEF ConnectorInv
<1>4. ASSUME NEW k \in Connectors, NEW op \in Both, HalfDone(k, op) PROVE ConnectorInv(j)'
  <2>1. CASE j = k
    <3>1. /\ op \in Pending(j) /\ Count(j) + 1 < 2
          /\ Stage(j)' = Stage(j) /\ Pending(j)' = Pending(j) \ {op}
          /\ Count(j)' = Count(j) + 1 /\ Has(j)' = Has(j)
      BY <1>4, <2>1 DEF HalfDone, Becomes
    <3>2. Stage(j) = "confirming" \/ Stage(j) = "over"
      BY <1>1, <3>1 DEF ConnectorInv
    <3>3. CASE Stage(j) = "over"
      <4>1. Pending(j) = {op}
        BY <1>1, <3>1, <3>3 DEF ConnectorInv
      <4>2. Pending(j)' = {}
        BY <3>1, <4>1
      <4> QED
        BY <1>1, <3>1, <3>3, <4>2 DEF ConnectorInv
    <3>4. CASE Stage(j) = "confirming"
      <4>1. Count(j) = 0 /\ Pending(j) = Both
        BY <1>1, <3>1, <3>4 DEF ConnectorInv
      <4>2. Pending(j)' \in {{"write"}, {"read"}} /\ Count(j)' = 1
        BY <3>1, <4>1 DEF Both
      <4> QED
        BY <1>1, <3>1, <3>4, <4>2 DEF ConnectorInv
    <3> QED
      BY <3>2, <3>3, <3>4
  <2> QED
    BY <1>2, <1>4, <2>1 DEF HalfDone
<1>5. ASSUME NEW k \in Connectors, NEW op \in Both, Joined(k, op) PROVE ConnectorInv(j)'
  <2>1. CASE j = k
    <3>1. /\ op \in Pending(j) /\ Count(j) + 1 >= 2
          /\ Stage(j)' = "over" /\ Pending(j)' = Pending(j) \ {op} /\ Has(j)' = FALSE
      BY <1>5, <2>1 DEF Joined, Becomes
    <3>2. Pending(j) \in {{"write"}, {"read"}}
      BY <1>1, <3>1 DEF ConnectorInv
    <3>3. Pending(j)' = {}
      BY <3>1, <3>2
    <3> QED
      BY <1>1, <3>1, <3>3 DEF ConnectorInv
  <2> QED
    BY <1>2, <1>5, <2>1 DEF Joined
<1>6. ASSUME NEW k \in Connectors, Fails(k) PROVE ConnectorInv(j)'
  <2>1. CASE /\ Stage(k) \in {"resolving", "connecting"}
             /\ Becomes(k, "over", Pending(k), Count(k), FALSE)
    <3>1. CASE j = k
      <4>1. /\ Pending(j) = {} /\ Count(j) = 0
            /\ Stage(j)' = "over" /\ Pending(j)' = Pending(j) /\ Count(j)' = Count(j)
            /\ Has(j)' = FALSE
        BY <1>1, <2>1, <3>1 DEF ConnectorInv, Becomes
      <4> QED
        BY <1>1, <4>1 DEF ConnectorInv
    <3> QED
      BY <1>2, <2>1, <3>1
  <2>2. ASSUME NEW op \in Pending(k), Has(k), Becomes(k, "over", Pending(k) \ {op}, Count(k), FALSE)
        PROVE  ConnectorInv(j)'
    <3>1. CASE j = k
      <4>1. /\ Stage(j)' = "over" /\ Pending(j)' = Pending(j) \ {op} /\ Count(j)' = Count(j)
            /\ Has(j)' = FALSE /\ Stage(j) = "confirming" /\ op \in Pending(j)
        BY <1>1, <2>2, <3>1 DEF ConnectorInv, Becomes
      <4>2. \/ Count(j) = 0 /\ Pending(j) = Both
            \/ Pending(j) \in {{"write"}, {"read"}}
        BY <1>1, <4>1 DEF ConnectorInv
      <4>3. \/ Count(j)' = 0 /\ Pending(j)' \in {{"write"}, {"read"}}
            \/ Pending(j)' = {}
        BY <4>1, <4>2 DEF Both
      <4> QED
        BY <1>1, <4>1, <4>3 DEF ConnectorInv
    <3> QED
      BY <1>2, <2>2, <3>1
  <2> QED
    BY <1>6, <2>1, <2>2 DEF Fails
<1>7. CASE ContextLeaves
  <2>1. CASE j \in Attempts
    <3>1. Stage(j)' = "over" /\ Pending(j)' = {} /\ Count(j)' = 0 /\ Has(j)' = FALSE
      BY <1>7, <2>1 DEF ContextLeaves
    <3> QED
      BY <1>1, <3>1 DEF ConnectorInv
  <2>2. CASE j = "acceptor"
    BY <1>1, <1>7, <2>2 DEF ContextLeaves, ConnectorInv, Stage, Pending, Count, Has
  <2> QED
    BY <2>1, <2>2, Names
<1>8. \A k, stage, has :
         /\ Becomes(k, stage, {}, 0, has)
         /\ stage \in {"over", "resolving", "connecting", "accepting"} /\ has = (stage # "over")
         /\ (stage \in {"resolving", "connecting"} => k # "acceptor")
         /\ (stage = "accepting" => k = "acceptor")
         => ConnectorInv(j)'
  <2> SUFFICES ASSUME NEW k, NEW stage \in {"over", "resolving", "connecting", "accepting"},
                      Becomes(k, stage, {}, 0, stage # "over"),
                      stage \in {"resolving", "connecting"} => k # "acceptor",
                      stage = "accepting" => k = "acceptor", j = k
               PROVE  ConnectorInv(j)'
    BY <1>2
  <2>1. Stage(j)' = stage /\ Pending(j)' = {} /\ Count(j)' = 0 /\ Has(j)' = (stage # "over")
    BY DEF Becomes
  <2> QED
    BY <2>1 DEF ConnectorInv
<1>9. \A k : Becomes(k, "confirming", Both, 0, TRUE) => ConnectorInv(j)'
  <2> SUFFICES ASSUME NEW k, Becomes(k, "confirming", Both, 0, TRUE), j = k
               PROVE  ConnectorInv(j)'
    BY <1>2
  <2>1. Stage(j)' = "confirming" /\ Pending(j)' = Both /\ Count(j)' = 0 /\ Has(j)' = TRUE
    BY DEF Becomes
  <2> QED
    BY <2>1 DEF ConnectorInv
<1>10. CASE FrameLeaves
  BY <1>8, <1>10 DEF FrameLeaves
<1>11. ASSUME NEW k \in Attempts, Resolves(k) PROVE ConnectorInv(j)'
  <2>1. k # "acceptor" /\ k \in Connectors
    BY Names DEF Attempts
  <2>2. Pending(k) = {} /\ Count(k) = 0 /\ Has(k) = TRUE
    <3>1. ConnectorInv(k) /\ Stage(k) = "resolving"
      BY <1>11, <2>1 DEF SocketsInv, Resolves
    <3>2. Has(k) \in BOOLEAN
      BY <2>1, StartTypes DEF SocketsInv, Records, Has
    <3> QED
      BY <3>1, <3>2 DEF ConnectorInv
  <2>3. Becomes(k, "connecting", {}, 0, TRUE)
    BY <1>11, <2>2 DEF Resolves
  <2> QED
    BY <1>8, <2>1, <2>3
<1>12. ASSUME NEW k \in Attempts, Links(k) PROVE ConnectorInv(j)'
  BY <1>9, <1>12 DEF Links
<1>13. CASE Accepts
  BY <1>9, <1>13 DEF Accepts
<1>14. CASE Starts
  <2>1. attempt # "acceptor"
    BY DEF SocketsInv, StartTypeOK, Attempts
  <2> QED
    BY <1>8, <1>14, <2>1 DEF Starts
<1>15. CASE Listens
  <2>1. Becomes("acceptor", "accepting", {}, 0, TRUE) /\ TRUE = ("accepting" # "over")
    BY <1>15 DEF Listens
  <2>2. "accepting" \in {"over", "resolving", "connecting", "accepting"}
    OBVIOUS
  <2> HIDE DEF Becomes, ConnectorInv
  <2> QED
    BY <1>8, <2>1, <2>2
<1> QED
  BY <1>3, <1>4, <1>5, <1>6, <1>7, <1>10, <1>11, <1>12, <1>13, <1>14, <1>15
  DEF StartStep, Quiet

LEMMA LuaStep == SocketsInv /\ StartStep => LuaInv'
<1> SUFFICES ASSUME SocketsInv, StartStep PROVE LuaInv'
  OBVIOUS
<1> USE DEF SocketsInv
<1> DEFINE Keeps == \A k \in Attempts : Stage(k) = "unused" => Stage(k)' = "unused"
<1>1. attempt \in {"c1", "c2"} /\ "c1" \in Attempts /\ "c2" \in Attempts
  BY Names DEF StartTypeOK
<1>2. luaPc' = luaPc /\ attempt' = attempt /\ Keeps => LuaInv'
  <2>1. SUFFICES ASSUME luaPc' = luaPc, attempt' = attempt, Keeps PROVE LuaInv'
    OBVIOUS
  <2>2. /\ Stage("c2") = "unused" => Stage("c2")' = "unused"
        /\ Stage("c1") = "unused" => Stage("c1")' = "unused"
    BY <1>1, <2>1
  <2>3. Stage(attempt) = "unused" => Stage(attempt)' = "unused"
    BY <1>1, <2>1, <2>2
  <2> QED
    BY <2>1, <2>2, <2>3 DEF LuaInv
<1>3. \A k, stage, pending, n, has :
         Becomes(k, stage, pending, n, has) /\ (k \in Attempts => Stage(k) # "unused") => Keeps
  BY OthersStay, Names
<1>4. \A k \in Connectors : Pending(k) # {} => Stage(k) # "unused"
  BY DEF ConnectorInv
<1>5. CASE Quiet /\ ~OnlyLua
  <2>1. Keeps
    BY <1>5, QuietIs
  <2> QED
    BY <1>2, <1>5, <2>1
    DEF Quiet, Writes, Stores, Closes, OtherComes, OtherGoes, luaVars
<1>6. ASSUME NEW k \in Connectors, NEW op \in Both, HalfDone(k, op) \/ Joined(k, op)
      PROVE  LuaInv'
  <2>1. Keeps
    BY <1>3, <1>4, <1>6 DEF HalfDone, Joined
  <2> QED
    BY <1>2, <1>6, <2>1 DEF HalfDone, Joined, luaVars
<1>7. ASSUME NEW k \in Connectors, Fails(k) PROVE LuaInv'
  <2>1. Keeps
    BY <1>3, <1>4, <1>7 DEF Fails
  <2> QED
    BY <1>2, <1>7, <2>1 DEF Fails, luaVars
<1>8. CASE ContextLeaves
  BY <1>8 DEF ContextLeaves, LuaInv
<1>9. ASSUME NEW k \in Attempts, Resolves(k) \/ Links(k) PROVE LuaInv'
  <2>1. Keeps
    BY <1>3, <1>9 DEF Resolves, Links
  <2> QED
    BY <1>2, <1>9, <2>1 DEF Resolves, Links, luaVars
<1>10. CASE FrameLeaves \/ Accepts \/ Listens
  <2>1. Keeps
    BY <1>3, <1>10, Names DEF FrameLeaves, Accepts, Listens, Attempts
  <2> QED
    BY <1>2, <1>10, <2>1 DEF FrameLeaves, Accepts, Listens, luaVars
<1>11. CASE Starts
  <2>1. PICK k \in Attempts : k = attempt /\ Becomes(k, "resolving", {}, 0, TRUE)
    BY <1>11 DEF Starts
  <2>2. luaPc' = "started" /\ attempt' = attempt
    BY <1>11 DEF Starts
  <2>3. attempt = "c1" => Stage("c2")' = "unused"
    BY <1>1, <1>11, <2>1, OthersStay, Names DEF LuaInv, Starts
  <2> QED
    BY <2>2, <2>3 DEF LuaInv
<1>12. CASE OnlyLua
  <2>1. connector' = connector /\ (\A k : Stage(k)' = Stage(k))
    BY <1>12 DEF OnlyLua, Stage
  <2>2. CASE UNCHANGED <<luaPc, attempt, timedOut, isFailed, inEnd>>
    BY <1>2, <2>1, <2>2
  <2>3. CASE StartContext
    <3>1. luaPc' \in {"wait", "started"} /\ attempt' = attempt /\ luaPc = "connect"
      BY <2>3 DEF StartContext
    <3> QED
      BY <2>1, <3>1 DEF LuaInv
  <2>4. CASE StoreConnector
    BY <2>1, <2>4 DEF LuaInv, StoreConnector
  <2>5. CASE TestConnecting
    BY <2>1, <2>5 DEF LuaInv, TestConnecting
  <2>6. CASE TestFailed
    <3>1. luaPc = "tested" /\ luaPc' \in {"wait", "execute", "gaveup"}
      BY <2>6 DEF TestFailed
    <3>2. luaPc' = "wait" => attempt' = attempt
      BY <2>6 DEF TestFailed
    <3>3. luaPc' # "wait" => attempt' = "c2"
      BY <2>6 DEF TestFailed
    <3>4. luaPc' = "execute" => attempt = "c1"
      BY <2>6 DEF TestFailed
    <3> QED
      BY <1>1, <2>1, <3>1, <3>2, <3>3, <3>4 DEF LuaInv
  <2>7. CASE ExecuteFrame
    <3>1. luaPc = "execute" /\ luaPc' \in {"connect", "gaveup"} /\ attempt' = attempt
      BY <2>7 DEF ExecuteFrame
    <3>2. Stage(attempt)' = Stage(attempt)
      BY <2>1, <3>1
    <3> QED
      BY <1>1, <2>1, <3>1, <3>2 DEF LuaInv
  <2> QED
    BY <1>12, <2>2, <2>3, <2>4, <2>5, <2>6, <2>7 DEF OnlyLua, LuaThread
<1> QED
  BY <1>5, <1>6, <1>7, <1>8, <1>9, <1>10, <1>11, <1>12 DEF StartStep, Quiet

LEMMA LineStep == SocketsInv /\ StartStep => LineInv'
<1> SUFFICES ASSUME SocketsInv, StartStep PROVE LineInv'
  OBVIOUS
<1> USE DEF SocketsInv
<1>1. Grows
  BY StepGrows
<1>2. /\ link \in [Clients -> {"none", "queued", "accepted"}]
      /\ shut \in [Clients -> SUBSET {"client", "server"}]
      /\ "acceptor" \in Connectors /\ "acceptor" \notin Attempts
  BY Names, StartTypes DEF Attempts
(* A connector that has not come to a link stays untouched. *)
<1>3. ASSUME NEW k \in Attempts, NotYet(k)' PROVE link'[k] = "none" /\ shut'[k] = {}
  <2>1. k \in Connectors /\ k \in Clients /\ k # "acceptor" /\ k \notin Others
    BY <1>2, Names
  <2>2. NotYet(k) => link[k] = "none" /\ shut[k] = {}
    BY DEF LineInv
  <2>3. NotYet(k) => \A c \in Clients : link[c] # "none" => c # k
    BY <2>2
  <2>4. \A C, side : Shuts(C, side) /\ NotYet(k) /\ k \notin C => shut'[k] = {}
    BY <2>1, <2>2 DEF Shuts
  <2>5. CASE Quiet
    <3>1. NotYet(k)
      BY <1>3, <2>5, QuietIs
    <3>2. CASE Writes \/ OnlyLua \/ Stores
      BY <2>2, <3>1, <3>2 DEF Writes, OnlyLua, Stores
    <3>3. ASSUME NEW e \in Ends, Closes(e) PROVE link'[k] = "none" /\ shut'[k] = {}
      <4>1. connection[e] # k
        <5>1. e = "ctx" => connection[e] # k
          BY <3>1, <3>3 DEF ContextEndInv, NotYet, Closes
        <5>2. e = "frame" => connection[e] # k
          BY <2>3, <3>1, <3>3, StartTypes DEF FrameEndInv, Closes
        <5> QED
          BY <5>1, <5>2, Names
      <4> QED
        BY <2>2, <2>4, <3>1, <3>3, <4>1 DEF Closes
    <3>4. ASSUME NEW c \in Others, OtherComes(c) \/ OtherGoes(c)
          PROVE  link'[k] = "none" /\ shut'[k] = {}
      <4>1. c # k
        BY <2>1
      <4> QED
        BY <2>1, <2>2, <3>1, <3>4, <4>1 DEF OtherComes, OtherGoes
    <3> QED
      BY <2>5, <3>2, <3>3, <3>4 DEF Quiet
  <2>6. ASSUME NEW j \in Connectors, NEW op \in Both, HalfDone(j, op) \/ Joined(j, op)
        PROVE  link'[k] = "none" /\ shut'[k] = {}
    <3>1. op \in Pending(j) /\ OnALink(j)
      BY <2>6 DEF HalfDone, Joined, OnALink
    <3>2. j # k
      <4>1. j = k => ConnectorInv(k) /\ Pending(k) # {}
        BY <2>1, <3>1
      <4>2. j = k => Stage(k) \in {"confirming", "over"}
        BY <4>1 DEF ConnectorInv
      <4>3. j = k => Stage(k)' \in {"confirming", "over"}
        BY <2>6, <4>2 DEF HalfDone, Joined, Becomes
      <4> QED
        BY <1>3, <4>3 DEF NotYet
    <3>3. NotYet(k)
      BY <1>3, <2>1, <2>6, <3>2, OthersStay DEF HalfDone, Joined
    <3>4. Line(j) # k
      BY <2>3, <3>1, <3>3, LineIs
    <3>5. shut'[k] = {}
      BY <2>4, <2>6, <3>3, <3>4 DEF HalfDone, Joined
    <3>6. link' = link
      BY <2>6 DEF HalfDone, Joined
    <3> QED
      BY <2>2, <3>3, <3>5, <3>6
  <2>7. ASSUME NEW j \in Connectors, Fails(j) PROVE link'[k] = "none" /\ shut'[k] = {}
    <3>1. Stage(j)' = "over"
      BY <2>7 DEF Fails, Becomes
    <3>2. j # k
      BY <1>3, <3>1 DEF NotYet
    <3>3. NotYet(k)
      BY <1>3, <2>1, <2>7, <3>2, OthersStay DEF Fails
    <3>4. Line(j) # k
      <4>1. CASE j \in Attempts
        BY <1>2, <3>2, <4>1 DEF Line
      <4>2. CASE j \notin Attempts
        <5>1. OnALink(j)
          BY <2>7, <4>2 DEF Fails, OnALink
        <5> QED
          BY <2>3, <3>3, <5>1, LineIs
      <4> QED
        BY <4>1, <4>2
    <3> QED
      BY <2>2, <2>4, <2>7, <3>3, <3>4 DEF Fails
  <2>8. CASE ContextLeaves
    BY <1>3, <2>8 DEF ContextLeaves, NotYet
  <2>9. CASE FrameLeaves
    <3>1. NotYet(k)
      BY <1>3, <2>1, <2>9, OthersStay DEF FrameLeaves
    <3> QED
      BY <2>2, <2>4, <2>9, <3>1 DEF FrameLeaves
  <2>10. ASSUME NEW j \in Attempts, Resolves(j) PROVE link'[k] = "none" /\ shut'[k] = {}
    <3>1. NotYet(k)
      BY <1>3, <2>1, <2>10, OthersStay DEF Resolves, NotYet
    <3> QED
      BY <2>2, <2>10, <3>1 DEF Resolves
  <2>11. ASSUME NEW j \in Attempts, Links(j) PROVE link'[k] = "none" /\ shut'[k] = {}
    <3>1. j # k
      BY <1>3, <2>11 DEF Links, Becomes, NotYet
    <3>2. NotYet(k)
      BY <1>3, <2>1, <2>11, <3>1, OthersStay DEF Links
    <3> QED
      BY <2>1, <2>2, <2>11, <3>1, <3>2 DEF Links
  <2>12. CASE Accepts
    <3>1. NotYet(k)
      BY <1>3, <2>1, <2>12, OthersStay DEF Accepts
    <3> QED
      BY <2>1, <2>2, <2>12, <3>1 DEF Accepts
  <2>13. CASE Starts
    <3>1. NotYet(k)
      <4>1. k = attempt => Stage(k) = "unused"
        BY <2>13 DEF Starts, LuaInv
      <4>2. k # attempt => NotYet(k)' = NotYet(k)
        BY <2>1, <2>13, OthersStay DEF Starts
      <4> QED
        BY <1>3, <4>1, <4>2 DEF NotYet
    <3> QED
      BY <2>2, <2>13, <3>1 DEF Starts
  <2>14. CASE Listens
    <3>1. NotYet(k)
      BY <1>3, <2>1, <2>14, OthersStay DEF Listens
    <3> QED
      BY <2>2, <2>14, <3>1 DEF Listens
  <2> QED
    BY <2>5, <2>6, <2>7, <2>8, <2>9, <2>10, <2>11, <2>12, <2>13, <2>14
    DEF StartStep, Quiet
(* Who comes to work has its link. *)
<1>4. ASSUME NEW k \in Attempts, OnALink(k)' PROVE link'[k] # "none"
  <2>1. k \in Connectors /\ k \in Clients /\ k # "acceptor"
    BY <1>2, Names
  <2>2. OnALink(k) => link'[k] # "none"
    BY <1>1, <2>1 DEF LineInv, Grows
  <2>3. \A j, stage, pending, n, has :
           Becomes(j, stage, pending, n, has) /\ j # k => OnALink(k)
    BY <1>4, <2>1, OthersStay
  <2>4. CASE Quiet
    BY <1>4, <2>2, <2>4, QuietIs
  <2>5. ASSUME NEW j \in Connectors, NEW op \in Both, HalfDone(j, op) \/ Joined(j, op)
        PROVE  OnALink(k)
    <3>1. op \in Pending(j)
      BY <2>5 DEF HalfDone, Joined
    <3> QED
      BY <2>3, <2>5, <3>1 DEF HalfDone, Joined, OnALink
  <2>6. ASSUME NEW j \in Connectors, Fails(j) PROVE OnALink(k)
    <3>1. CASE j # k
      BY <2>3, <2>6, <3>1 DEF Fails
    <3>2. CASE j = k
      <4>1. CASE \E op \in Pending(k) : TRUE
        BY <4>1 DEF OnALink
      <4>2. CASE Becomes(k, "over", Pending(k), Count(k), FALSE)
        BY <1>4, <4>2 DEF OnALink, Becomes
      <4> QED
        BY <2>6, <3>2, <4>1, <4>2 DEF Fails
    <3> QED
      BY <3>1, <3>2
  <2>7. CASE ContextLeaves
    BY <1>4, <2>7 DEF ContextLeaves, OnALink
  <2>8. CASE FrameLeaves \/ Accepts \/ Listens
    BY <2>1, <2>2, <2>3, <2>8 DEF FrameLeaves, Accepts, Listens
  <2>9. ASSUME NEW j \in Attempts, Resolves(j) PROVE OnALink(k)
    BY <1>4, <2>3, <2>9 DEF Resolves, OnALink, Becomes
  <2>10. ASSUME NEW j \in Attempts, Links(j) PROVE link'[k] # "none"
    <3>1. CASE j # k
      BY <2>2, <2>3, <2>10, <3>1 DEF Links
    <3>2. CASE j = k
      BY <2>1, <2>10, <3>2 DEF Links
    <3> QED
      BY <3>1, <3>2
  <2>11. CASE Starts
    BY <1>4, <2>2, <2>3, <2>11 DEF Starts, OnALink, Becomes
  <2> QED
    BY <2>2, <2>4, <2>5, <2>6, <2>7, <2>8, <2>9, <2>10, <2>11 DEF StartStep, Quiet
(* The acceptor's link. *)
<1>5. /\ OnALink("acceptor")' => accepted' # Nobody
      /\ accepted' # Nobody => link'[accepted'] = "accepted"
  <2>1. /\ accepted # Nobody => accepted \in Clients /\ link[accepted] = "accepted"
        /\ OnALink("acceptor") => accepted # Nobody
    BY DEF LineInv, StartTypeOK
  <2>2. accepted' = accepted => (accepted' # Nobody => link'[accepted'] = "accepted")
    BY <1>1, <2>1 DEF Grows
  <2>3. \A j, stage, pending, n, has :
           Becomes(j, stage, pending, n, has) /\ j # "acceptor"
             => OnALink("acceptor")' = OnALink("acceptor")
    BY <1>2, OthersStay
  <2>4. CASE Quiet
    BY <2>1, <2>2, <2>4, QuietIs
  <2>5. ASSUME NEW j \in Connectors, NEW op \in Both, HalfDone(j, op) \/ Joined(j, op)
        PROVE  accepted' = accepted /\ (OnALink("acceptor")' => OnALink("acceptor"))
    <3>1. op \in Pending(j) /\ accepted' = accepted
      BY <2>5 DEF HalfDone, Joined
    <3> QED
      BY <2>3, <2>5, <3>1 DEF HalfDone, Joined, OnALink
  <2>6. ASSUME NEW j \in Connectors, Fails(j)
        PROVE  accepted' = accepted /\ (OnALink("acceptor")' => OnALink("acceptor"))
    <3>1. accepted' = accepted
      BY <2>6 DEF Fails
    <3>2. CASE j # "acceptor"
      BY <2>3, <2>6, <3>1, <3>2 DEF Fails
    <3>3. CASE j = "acceptor"
      BY <1>2, <2>6, <3>1, <3>3 DEF Fails, OnALink
    <3> QED
      BY <3>2, <3>3
  <2>7. CASE ContextLeaves
    <3>1. OnALink("acceptor")' = OnALink("acceptor") /\ accepted' = accepted
      BY <2>7 DEF ContextLeaves, OnALink, Stage, Pending
    <3> QED
      BY <2>1, <2>2, <3>1
  <2>8. CASE FrameLeaves
    <3>1. ~OnALink("acceptor")' /\ accepted' = accepted
      BY <2>8 DEF FrameLeaves, OnALink, Becomes
    <3> QED
      BY <2>1, <2>2, <3>1
  <2>9. CASE Accepts
    <3>1. accepted' \in Clients /\ link'[accepted'] = "accepted"
      BY <2>9 DEF Accepts
    <3>2. accepted' # Nobody
      BY <3>1, Names
    <3> QED
      BY <3>1, <3>2
  <2>10. CASE Listens
    BY <2>10 DEF Listens, OnALink, Becomes
  <2>11. ASSUME NEW j \in Attempts, Resolves(j) \/ Links(j)
         PROVE  accepted' = accepted /\ (OnALink("acceptor")' => OnALink("acceptor"))
    BY <1>2, <2>3, <2>11 DEF Resolves, Links
  <2>12. CASE Starts
    <3>1. attempt # "acceptor"
      BY <1>2 DEF StartTypeOK
    <3> QED
      BY <2>1, <2>2, <2>3, <2>12, <3>1 DEF Starts
  <2> QED
    BY <2>1, <2>2, <2>4, <2>5, <2>6, <2>7, <2>8, <2>9, <2>10, <2>11, <2>12
    DEF StartStep, Quiet
<1> QED
  BY <1>3, <1>4, <1>5 DEF LineInv

LEMMA WroteStep == SocketsInv /\ StartStep => WroteInv'
<1> SUFFICES ASSUME SocketsInv, StartStep PROVE WroteInv'
  OBVIOUS
<1> USE DEF SocketsInv
<1>1. Grows /\ Attempts \subseteq Connectors /\ Attempts \subseteq Clients
  BY StepGrows, Names
<1>2. CASE Writes
  <2>1. PICK c \in Clients, s \in {"client", "server", "junk"} :
           /\ link[c] # "none"
           /\ s = "server" => c = accepted
           /\ s = "junk" => c \in Others
           /\ \A d \in Clients : wrote'[d] = wrote[d] \cup {x \in {s} : d = c}
    BY <1>2 DEF Writes
  <2>2. link' = link /\ (\A k : Stage(k)' = Stage(k) /\ Pending(k)' = Pending(k))
    BY <1>2 DEF Writes, Stage, Pending
  <2>3. s = "server" => link[c] = "accepted"
    BY <2>1, Names DEF LineInv
  <2> QED
    BY <1>1, <2>1, <2>2, <2>3 DEF WroteInv
<1>3. CASE ~Writes
  <2>1. wrote' = wrote
    BY <1>3 DEF StartStep, HalfDone, Joined, Fails, ContextLeaves, FrameLeaves, Resolves,
       Links, Accepts, Closes, Starts, OnlyLua, Listens, Stores, OtherComes, OtherGoes
  <2>2. ASSUME NEW k \in Attempts, Stage(k)' = "confirming", "read" \notin Pending(k)'
        PROVE  "server" \in wrote[k]
    <3>1. Stage(k) = "confirming" /\ "read" \notin Pending(k) => "server" \in wrote[k]
      BY DEF WroteInv
    <3>2. \A j, stage, pending, n, has :
             Becomes(j, stage, pending, n, has) /\ j # k
               => Stage(k) = "confirming" /\ "read" \notin Pending(k)
      BY <1>1, <2>2, OthersStay
    <3>3. \A j, stage, pending, n, has :
             Becomes(j, stage, pending, n, has) /\ stage # "confirming"
               => Stage(k) = "confirming" /\ "read" \notin Pending(k)
      BY <2>2, <3>2 DEF Becomes
    <3>4. CASE Quiet
      BY <2>2, <3>1, <3>4, QuietIs
    <3>5. ASSUME NEW j \in Connectors, NEW op \in Both, HalfDone(j, op)
          PROVE  "server" \in wrote[k]
      <4>1. CASE j # k
        BY <3>1, <3>2, <3>5, <4>1 DEF HalfDone
      <4>2. CASE j = k
        <5>1. Stage(k) = "confirming" /\ Pending(k)' = Pending(k) \ {op} /\ Heard(k, op)
          BY <2>2, <3>5, <4>2 DEF HalfDone, Becomes
        <5>2. CASE op = "read"
          BY <5>1, <5>2 DEF Heard, OtherSide, Line, Attempts
        <5>3. CASE op # "read"
          BY <2>2, <3>1, <5>1, <5>3
        <5> QED
          BY <5>2, <5>3
      <4> QED
        BY <4>1, <4>2
    <3>6. ASSUME NEW j \in Connectors, NEW op \in Both, Joined(j, op)
          PROVE  "server" \in wrote[k]
      BY <3>1, <3>3, <3>6 DEF Joined
    <3>7. ASSUME NEW j \in Connectors, Fails(j) PROVE "server" \in wrote[k]
      BY <3>1, <3>3, <3>7 DEF Fails
    <3>8. CASE ContextLeaves
      BY <2>2, <3>8 DEF ContextLeaves
    <3>9. CASE FrameLeaves \/ Listens \/ Starts
      BY <3>1, <3>3, <3>9 DEF FrameLeaves, Listens, Starts
    <3>10. ASSUME NEW j \in Attempts, Resolves(j) PROVE "server" \in wrote[k]
      BY <3>1, <3>3, <3>10 DEF Resolves
    <3>11. ASSUME NEW j \in Attempts, Links(j) PROVE "server" \in wrote[k]
      <4>1. CASE j # k
        BY <3>1, <3>2, <3>11, <4>1 DEF Links
      <4>2. CASE j = k
        BY <2>2, <3>11, <4>2 DEF Links, Becomes, Both
      <4> QED
        BY <4>1, <4>2
    <3>12. CASE Accepts
      <4>1. "acceptor" # k
        BY DEF Attempts
      <4> QED
        BY <3>1, <3>2, <3>12, <4>1 DEF Accepts
    <3> QED
      BY <3>4, <3>5, <3>6, <3>7, <3>8, <3>9, <3>10, <3>11, <3>12 DEF StartStep, Quiet
  <2>3. /\ \A c \in Clients : "server" \in wrote'[c] => link'[c] = "accepted"
        /\ \A c \in Clients : "junk" \in wrote'[c] => c \in Others /\ link'[c] # "none"
    BY <1>1, <2>1 DEF WroteInv, Grows
  <2> QED
    BY <2>1, <2>2, <2>3 DEF WroteInv
<1> QED
  BY <1>2, <1>3

LEMMA QueueStep == SocketsInv /\ StartStep => QueueInv'
<1> SUFFICES ASSUME SocketsInv, StartStep PROVE QueueInv'
  OBVIOUS
<1> USE DEF SocketsInv
<1>1. Grows /\ Attempts \subseteq Clients /\ Others \subseteq Clients
      /\ (\A c \in Others : c \notin Attempts) /\ faults \in Nat
  BY StepGrows, Names, StartTypes
<1>2. ASSUME NEW c \in Others, link'[c] # "none" PROVE faults' # 0
  <2>1. link[c] # "none" => faults' # 0
    BY <1>1 DEF QueueInv, Grows
  <2>2. link' = link => faults' # 0
    BY <1>2, <2>1
  <2>3. ASSUME NEW j \in Attempts, Links(j) PROVE faults' # 0
    BY <1>1, <1>2, <2>1, <2>3 DEF Links
  <2>4. CASE Accepts
    BY <1>1, <1>2, <2>1, <2>4 DEF Accepts
  <2>5. ASSUME NEW d \in Others, OtherComes(d) PROVE faults' # 0
    BY <1>1, <2>5 DEF OtherComes
  <2>6. CASE link' # link
    BY <2>3, <2>4, <2>5, <2>6 DEF StartStep, Writes, HalfDone, Joined, Fails, ContextLeaves,
       FrameLeaves, Resolves, Closes, Starts, OnlyLua, Listens, Stores, OtherGoes
  <2> QED
    BY <2>2, <2>6
<1>3. ASSUME NEW c \in Clients, link'[c] = "queued" PROVE AcceptorOpen' \/ "server" \in shut'[c]
  <2>1. link[c] = "queued" /\ "server" \in shut[c] => "server" \in shut'[c]
    BY <1>1 DEF Grows
  <2>2. \A C, side : Shuts(C, side) /\ link[c] = "queued"
          => AcceptorOpen' \/ "server" \in shut'[c]
    BY DEF Shuts
  <2>3. CASE connector'["acceptor"] = connector["acceptor"] /\ held'["frame"] = held["frame"]
             /\ AcceptorOpen
    BY <2>3 DEF AcceptorOpen
  <2>4. CASE link[c] = "queued" /\ ~AcceptorOpen
    BY <2>1, <2>4 DEF QueueInv
  <2>5. CASE Writes \/ OnlyLua
    <3>1. connector' = connector /\ held'["frame"] = held["frame"] /\ link' = link
      BY <2>5 DEF Writes, OnlyLua
    <3> QED
      BY <1>3, <2>3, <2>4, <3>1
  <2>6. ASSUME NEW k \in Connectors, NEW op \in Both, HalfDone(k, op) \/ Joined(k, op)
        PROVE  AcceptorOpen' \/ "server" \in shut'[c]
    BY <1>3, <2>2, <2>6 DEF HalfDone, Joined
  <2>7. ASSUME NEW k \in Connectors, Fails(k) PROVE AcceptorOpen' \/ "server" \in shut'[c]
    BY <1>3, <2>2, <2>7 DEF Fails
  <2>8. CASE ContextLeaves
    BY <1>3, <2>2, <2>8 DEF ContextLeaves
  <2>9. CASE FrameLeaves
    BY <1>3, <2>2, <2>9 DEF FrameLeaves
  <2>10. ASSUME NEW e \in Ends, Closes(e) PROVE AcceptorOpen' \/ "server" \in shut'[c]
    BY <1>3, <2>2, <2>10 DEF Closes
  <2>11. \A k \in Attempts : \A stage, pending, n, has :
            Becomes(k, stage, pending, n, has)
              => connector'["acceptor"] = connector["acceptor"]
    BY Names DEF Becomes, Attempts
  <2>12. ASSUME NEW k \in Attempts, Resolves(k) PROVE AcceptorOpen' \/ "server" \in shut'[c]
    <3>1. connector'["acceptor"] = connector["acceptor"] /\ held' = held /\ link' = link
      BY <2>11, <2>12 DEF Resolves
    <3> QED
      BY <1>3, <2>3, <2>4, <3>1
  <2>13. ASSUME NEW k \in Attempts, Links(k) PROVE AcceptorOpen' \/ "server" \in shut'[c]
    <3>1. connector'["acceptor"] = connector["acceptor"] /\ held' = held /\ AcceptorOpen
      BY <2>11, <2>13 DEF Links
    <3> QED
      BY <2>3, <3>1
  <2>14. CASE Accepts
    <3>1. Stage("acceptor")' = "confirming"
      BY <2>14 DEF Accepts, Becomes
    <3> QED
      BY <3>1 DEF AcceptorOpen, Stage
  <2>15. CASE Starts
    <3>1. connector'["acceptor"] = connector["acceptor"] /\ held' = held /\ link' = link
      BY <2>11, <2>15 DEF Starts, StartTypeOK
    <3> QED
      BY <1>3, <2>3, <2>4, <3>1
  <2>16. CASE Listens
    <3>1. link' = link /\ ~AcceptorOpen
      BY <2>16 DEF Listens
    <3> QED
      BY <1>3, <2>4, <3>1
  <2>17. CASE Stores
    BY <2>17 DEF Stores, AcceptorOpen
  <2>18. ASSUME NEW d \in Others, OtherComes(d) PROVE AcceptorOpen' \/ "server" \in shut'[c]
    BY <2>3, <2>18 DEF OtherComes
  <2>19. ASSUME NEW d \in Others, OtherGoes(d) PROVE AcceptorOpen' \/ "server" \in shut'[c]
    <3>1. connector' = connector /\ held' = held /\ link' = link
      BY <2>19 DEF OtherGoes
    <3> QED
      BY <1>3, <2>3, <2>4, <3>1
  <2> QED
    BY <2>5, <2>6, <2>7, <2>8, <2>9, <2>10, <2>12, <2>13, <2>14, <2>15, <2>16, <2>17,
       <2>18, <2>19 DEF StartStep
<1> QED
  BY <1>2, <1>3 DEF QueueInv

LEMMA ContextEndStep == SocketsInv /\ StartStep => ContextEndInv'
<1> SUFFICES ASSUME SocketsInv, StartStep, connection'["ctx"] # Nobody,
                    NEW c, c = connection'["ctx"]
             PROVE  c \in Attempts /\ Stage(c)' = "over" /\ Count(c)' = 2
                    /\ "server" \in wrote'[c]
  BY DEF ContextEndInv
<1> USE DEF SocketsInv
<1> DEFINE Kept == connection["ctx"] = c
           Goal == c \in Attempts /\ Stage(c)' = "over" /\ Count(c)' = 2
                   /\ "server" \in wrote'[c]
<1>1. Grows /\ Attempts \subseteq Connectors /\ Attempts \subseteq Clients
      /\ "acceptor" \notin Attempts /\ "ctx" \in Ends
  BY StepGrows, Names DEF Attempts
<1>2. Kept => /\ c \in Attempts /\ Stage(c) = "over" /\ Count(c) = 2 /\ Pending(c) = {}
              /\ "server" \in wrote'[c]
  <2>1. Kept => c \in Attempts /\ Stage(c) = "over" /\ Count(c) = 2 /\ "server" \in wrote[c]
    BY DEF ContextEndInv
  <2>2. Kept => ConnectorInv(c)
    BY <1>1, <2>1
  <2>3. Kept => Pending(c) = {}
    BY <2>1, <2>2 DEF ConnectorInv
  <2> QED
    BY <1>1, <2>1, <2>3 DEF Grows
<1>3. \A k, stage, pending, n, has : Becomes(k, stage, pending, n, has) /\ k # c /\ Kept => Goal
  BY <1>1, <1>2, OthersStay
<1>4. CASE Quiet
  <2>1. CASE Kept
    BY <1>2, <1>4, <2>1, QuietIs
  <2>2. Kept
    BY <1>4, Names DEF Quiet, Writes, OnlyLua, Stores, Closes, OtherComes, OtherGoes, Connects
  <2> QED
    BY <2>1, <2>2
<1>5. ASSUME NEW k \in Connectors, NEW op \in Both, HalfDone(k, op) PROVE Goal
  <2>1. Kept /\ op \in Pending(k)
    BY <1>5 DEF HalfDone
  <2> QED
    BY <1>2, <1>3, <1>5, <2>1 DEF HalfDone
<1>6. ASSUME NEW k \in Connectors, NEW op \in Both, Joined(k, op) PROVE Goal
  <2>1. op \in Pending(k) /\ Stage(k)' = "over" /\ Count(k)' = Count(k) + 1
    BY <1>6 DEF Joined, Becomes
  <2>2. CASE Kept
    BY <1>2, <1>3, <1>6, <2>1, <2>2 DEF Joined
  <2>3. CASE ~Kept
    <3>1. k \in Attempts /\ c = k
      <4>1. Connects(Engine(k), Line(k))
        BY <1>6, <2>3 DEF Joined
      <4>2. Engine(k) = "ctx"
        BY <1>1, <2>3, <4>1 DEF Connects, Engine
      <4>3. k # "acceptor"
        BY <4>2 DEF Engine
      <4> QED
        BY <4>1, <4>2, <4>3, Names DEF Connects, Line
    <3>2. Stage(k) = "confirming" /\ Count(k) = 1 /\ Pending(k) = {op}
      <4>1. ConnectorInv(k) /\ Count(k) \in 0 .. 2 /\ Count(k) + 1 >= 2
        BY <1>6, StartTypes DEF Joined
      <4> QED
        BY <2>1, <4>1 DEF ConnectorInv
    <3>3. "server" \in wrote[k]
      <4>1. CASE op = "read"
        BY <1>6, <3>1, <4>1 DEF Joined, Heard, OtherSide, Line, Attempts
      <4>2. CASE op # "read"
        BY <3>1, <3>2, <4>2 DEF WroteInv
      <4> QED
        BY <4>1, <4>2
    <3>4. "server" \in wrote'[k]
      BY <1>1, <3>1, <3>3 DEF Grows
    <3> QED
      BY <2>1, <3>1, <3>2, <3>4
  <2> QED
    BY <2>2, <2>3
<1>7. ASSUME NEW k \in Connectors, Fails(k) PROVE Goal
  <2>1. Kept
    BY <1>7 DEF Fails
  <2>2. k # c
    BY <1>2, <1>7, <2>1 DEF Fails
  <2> QED
    BY <1>3, <1>7, <2>1, <2>2 DEF Fails
<1>8. CASE ContextLeaves
  BY <1>8 DEF ContextLeaves, Connects
<1>9. CASE FrameLeaves \/ Accepts \/ Listens
  <2>1. Kept
    BY <1>1, <1>9 DEF FrameLeaves, Accepts, Listens, Connects
  <2>2. c # "acceptor"
    BY <1>1, <1>2, <2>1
  <2> QED
    BY <1>3, <1>9, <2>1, <2>2 DEF FrameLeaves, Accepts, Listens
<1>10. ASSUME NEW k \in Attempts, Resolves(k) \/ Links(k) PROVE Goal
  <2>1. Kept /\ k # c
    BY <1>2, <1>10 DEF Resolves, Links
  <2> QED
    BY <1>3, <1>10, <2>1 DEF Resolves, Links
<1>11. CASE Starts
  <2>1. Kept /\ attempt # c
    BY <1>2, <1>11 DEF Starts, LuaInv
  <2> QED
    BY <1>3, <1>11, <2>1 DEF Starts
<1> QED
  BY <1>4, <1>5, <1>6, <1>7, <1>8, <1>9, <1>10, <1>11 DEF StartStep, Quiet

(* What a step makes of the acceptor.                                        *)
AcceptorStays ==
    /\ accepted' = accepted
    /\ Stage("acceptor")' = Stage("acceptor") /\ Pending("acceptor")' = Pending("acceptor")
    /\ Count("acceptor")' = Count("acceptor")

LEMMA AcceptorIs ==
    ASSUME SocketsInv, StartStep
    PROVE  \/ AcceptorStays
           \/ \E op \in Both : HalfDone("acceptor", op) \/ Joined("acceptor", op)
           \/ Fails("acceptor") \/ FrameLeaves \/ Accepts \/ Listens
<1>1. /\ \A k \in Connectors : k = "acceptor" \/ k \in Attempts
      /\ "acceptor" \in Connectors /\ "acceptor" \notin Attempts /\ attempt \in Attempts
  BY Names DEF Attempts, SocketsInv, StartTypeOK
<1>2. \A k \in Attempts : \A stage, pending, n, has :
         Becomes(k, stage, pending, n, has) /\ accepted' = accepted => AcceptorStays
  BY <1>1, OthersStay DEF AcceptorStays
<1>3. Quiet => AcceptorStays
  BY QuietIs DEF AcceptorStays
<1>4. ASSUME NEW k \in Attempts, NEW op \in Both, HalfDone(k, op) \/ Joined(k, op)
      PROVE  AcceptorStays
  BY <1>2, <1>4 DEF HalfDone, Joined
<1>5. ASSUME NEW k \in Attempts, Fails(k) PROVE AcceptorStays
  BY <1>2, <1>5 DEF Fails
<1>6. ASSUME NEW k \in Attempts, Resolves(k) \/ Links(k) PROVE AcceptorStays
  BY <1>2, <1>6 DEF Resolves, Links
<1>7. Starts => AcceptorStays
  BY <1>1, <1>2 DEF Starts
<1>8. ContextLeaves => AcceptorStays
  BY DEF ContextLeaves, AcceptorStays, Stage, Pending, Count
<1>9. CASE \E k \in Connectors :
              \/ \E op \in Both : HalfDone(k, op) \/ Joined(k, op)
              \/ Fails(k)
  BY <1>1, <1>4, <1>5, <1>9
<1> QED
  BY <1>3, <1>6, <1>7, <1>8, <1>9 DEF StartStep, Quiet

LEMMA FrameEndStep == SocketsInv /\ StartStep => FrameEndInv'
<1> SUFFICES ASSUME SocketsInv, StartStep PROVE FrameEndInv'
  OBVIOUS
<1> USE DEF SocketsInv
<1> DEFINE c == connection["frame"]
           Here == fpc \in {"starting", "idle"} /\ ~inEnd["frame"]
           Work == Stage("acceptor") = "accepting" \/ OnALink("acceptor")
<1>1. /\ Grows /\ "acceptor" \in Connectors /\ "ctx" \in Ends /\ "frame" \in Ends
      /\ c \in Clients \cup {Nobody} /\ ConnectorInv("acceptor")
      /\ Count("acceptor") \in 0 .. 2
  BY StepGrows, Names, StartTypes
<1>2. /\ c # Nobody => /\ link'[c] = "accepted" /\ Stage("acceptor") = "over"
                       /\ Count("acceptor") = 2 /\ Pending("acceptor") = {}
      /\ c # Nobody \/ Work => Here
      /\ held["frame"] # Nobody => held["frame"] = "acceptor" /\ fpc = "idle"
  BY <1>1 DEF FrameEndInv, Grows, ConnectorInv
<1>3. CASE AcceptorStays
  <2>1. Work' = Work
    BY <1>3 DEF AcceptorStays, OnALink
  <2>2. CASE c' = c /\ fpc' = fpc /\ inEnd'["frame"] = inEnd["frame"]
             /\ held'["frame"] \in {held["frame"], Nobody}
    <3>1. /\ c' # Nobody => link'[c'] = "accepted"
          /\ c' # Nobody => Stage("acceptor")' = "over" /\ Count("acceptor")' = 2
      BY <1>2, <1>3, <2>2 DEF AcceptorStays
    <3>2. c' # Nobody \/ Work' => Here'
      BY <1>2, <2>1, <2>2
    <3> QED
      BY <1>2, <2>2, <3>1, <3>2 DEF FrameEndInv
  <2>3. CASE Closes("frame")
    <3>1. c' = Nobody /\ held'["frame"] = Nobody
      BY <2>3 DEF Closes, Connects, LetsGo
    <3>2. ~Work
      BY <1>2, <2>3 DEF Closes, OnALink
    <3> QED
      BY <2>1, <3>1, <3>2 DEF FrameEndInv
  <2>4. CASE Stores
    <3>1. /\ c' = c /\ fpc = "starting" /\ fpc' = "idle" /\ held'["frame"] = "acceptor"
          /\ inEnd' = inEnd
      BY <2>4 DEF Stores
    <3>2. /\ c' # Nobody => link'[c'] = "accepted"
          /\ c' # Nobody => Stage("acceptor")' = "over" /\ Count("acceptor")' = 2
      BY <1>2, <1>3, <3>1 DEF AcceptorStays
    <3>3. c' # Nobody \/ Work' => Here'
      BY <1>2, <2>1, <3>1
    <3> QED
      BY <3>1, <3>2, <3>3 DEF FrameEndInv
  <2>5. Closes("ctx") => c' = c /\ fpc' = fpc /\ inEnd'["frame"] = inEnd["frame"]
                         /\ held'["frame"] = held["frame"]
    BY Names DEF Closes, Connects, LetsGo, Told
  <2>6. ContextLeaves => c' = c /\ fpc' = fpc /\ inEnd'["frame"] = inEnd["frame"]
                         /\ held'["frame"] = held["frame"]
    BY Names DEF ContextLeaves, Connects, LetsGo, Told
  <2>7. ASSUME NEW k \in Connectors, NEW op \in Both, HalfDone(k, op) \/ Joined(k, op)
        PROVE  FrameEndInv'
    <3>1. CASE k # "acceptor"
      <4>1. Engine(k) = "ctx"
        BY <3>1 DEF Engine
      <4>2. c' = c /\ fpc' = fpc /\ inEnd'["frame"] = inEnd["frame"]
            /\ held'["frame"] = held["frame"]
        BY <2>7, <4>1, Names DEF HalfDone, Joined, Connects, LetsGo
      <4> QED
        BY <2>2, <4>2
    <3>2. CASE k = "acceptor"
      <4>1. op \in Pending(k) /\ Count(k)' = Count(k) + 1
        BY <2>7 DEF HalfDone, Joined, Becomes
      <4> QED
        BY <1>1, <1>3, <3>2, <4>1 DEF AcceptorStays
    <3> QED
      BY <3>1, <3>2
  <2>8. ASSUME NEW k \in Connectors, Fails(k) PROVE FrameEndInv'
    <3>1. c' = c /\ fpc' = fpc /\ inEnd'["frame"] = inEnd["frame"]
          /\ held'["frame"] \in {held["frame"], Nobody}
      BY <2>8, Names DEF Fails, LetsGo, Engine
    <3> QED
      BY <2>2, <3>1
  <2>9. ASSUME NEW k \in Attempts, Resolves(k) \/ Links(k) PROVE FrameEndInv'
    BY <2>2, <2>9 DEF Resolves, Links
  <2>10. CASE FrameLeaves \/ Accepts \/ Listens
    <3>1. CASE FrameLeaves
      <4>1. c' = Nobody /\ held'["frame"] = Nobody /\ ~Work'
        BY <3>1 DEF FrameLeaves, Connects, LetsGo, Becomes, OnALink
      <4> QED
        BY <4>1 DEF FrameEndInv
    <3>2. CASE Accepts \/ Listens
      BY <1>3, <3>2 DEF Accepts, Listens, AcceptorStays, Becomes, AcceptorOpen, Stage
    <3> QED
      BY <2>10, <3>1, <3>2
  <2>11. CASE Writes \/ OnlyLua \/ Starts
    BY <2>2, <2>11 DEF Writes, OnlyLua, Starts
  <2>12. ASSUME NEW d \in Others, OtherComes(d) \/ OtherGoes(d) PROVE FrameEndInv'
    BY <2>2, <2>12 DEF OtherComes, OtherGoes
  <2>13. CASE \E e \in Ends : Closes(e)
    BY <2>2, <2>3, <2>5, <2>13, Names
  <2>14. CASE ContextLeaves
    BY <2>2, <2>6, <2>14
  <2> QED
    BY <2>4, <2>7, <2>8, <2>9, <2>10, <2>11, <2>12, <2>13, <2>14 DEF StartStep
<1>4. ASSUME NEW op \in Both, HalfDone("acceptor", op) PROVE FrameEndInv'
  <2>1. /\ op \in Pending("acceptor") /\ c' = c /\ fpc' = fpc /\ inEnd' = inEnd
        /\ held' = held
    BY <1>4 DEF HalfDone
  <2>2. c = Nobody /\ Here
    BY <1>2, <2>1 DEF OnALink
  <2> QED
    BY <1>2, <2>1, <2>2 DEF FrameEndInv
<1>5. ASSUME NEW op \in Both, Joined("acceptor", op) PROVE FrameEndInv'
  <2>1. /\ op \in Pending("acceptor") /\ fpc' = fpc /\ inEnd' = inEnd
        /\ Stage("acceptor")' = "over" /\ Count("acceptor")' = Count("acceptor") + 1
        /\ Count("acceptor") + 1 >= 2
    BY <1>5 DEF Joined, Becomes
  <2>2. c = Nobody /\ Here
    BY <1>2, <2>1 DEF OnALink
  <2>3. Count("acceptor")' = 2
    BY <1>1, <2>1 DEF ConnectorInv
  <2>4. c' = accepted /\ held'["frame"] = Nobody
    BY <1>5, <2>2 DEF Joined, Engine, Line, Connects, LetsGo
  <2>5. link'[accepted] = "accepted"
    <3>1. OnALink("acceptor")
      BY <2>1 DEF OnALink
    <3>2. link[accepted] = "accepted" /\ accepted \in Clients
      BY <1>1, <3>1, LineIs DEF Line
    <3> QED
      BY <1>1, <3>2 DEF Grows
  <2> QED
    BY <2>1, <2>2, <2>3, <2>4, <2>5 DEF FrameEndInv
<1>6. CASE Fails("acceptor")
  <2>1. /\ c' = c /\ fpc' = fpc /\ inEnd' = inEnd /\ held'["frame"] = Nobody
        /\ Pending("acceptor") # {}
    BY <1>1, <1>6, Names DEF Fails, LetsGo, Engine, Attempts
  <2>2. c = Nobody /\ Here
    BY <1>2, <2>1 DEF OnALink
  <2> QED
    BY <2>1, <2>2 DEF FrameEndInv
<1>7. CASE FrameLeaves
  <2>1. c' = Nobody /\ held'["frame"] = Nobody /\ ~Work'
    BY <1>7 DEF FrameLeaves, Connects, LetsGo, Becomes, OnALink
  <2> QED
    BY <2>1 DEF FrameEndInv
<1>8. CASE Accepts
  <2>1. c' = c /\ fpc' = fpc /\ inEnd' = inEnd /\ held' = held
        /\ Stage("acceptor") = "accepting"
    BY <1>8 DEF Accepts
  <2>2. c = Nobody /\ Here
    BY <1>2, <2>1
  <2> QED
    BY <1>2, <2>1, <2>2 DEF FrameEndInv
<1>9. CASE Listens
  <2>1. /\ c' = c /\ fpc' = "starting" /\ ~inEnd'["frame"] /\ held' = held
        /\ fpc = "launch" \/ (fpc = "idle" /\ inEnd["frame"])
        /\ held["frame"] # "acceptor"
    BY <1>9 DEF Listens, Told, AcceptorOpen
  <2>2. c = Nobody /\ held["frame"] = Nobody
    BY <1>2, <2>1
  <2> QED
    BY <2>1, <2>2 DEF FrameEndInv
<1> QED
  BY <1>3, <1>4, <1>5, <1>6, <1>7, <1>8, <1>9, AcceptorIs

LEMMA ClientStep == SocketsInv /\ StartStep => ClientInv'
<1> SUFFICES ASSUME SocketsInv, StartStep, NEW c \in Attempts, link'[c] # "none",
                    "client" \notin shut'[c]
             PROVE  connection'["ctx"] = c \/ Stage(c)' = "confirming"
  BY DEF ClientInv
<1> USE DEF SocketsInv
<1> DEFINE Goal == connection'["ctx"] = c \/ Stage(c)' = "confirming"
<1>1. /\ Grows /\ c \in Clients /\ c \in Connectors /\ c # "acceptor" /\ c \notin Others
      /\ Line(c) = c /\ Side(c) = "client" /\ Engine(c) = "ctx" /\ c # Nobody
  BY StepGrows, Names DEF Attempts, Line, Side, Engine, Nobody
<1>2. "client" \notin shut[c]
  BY <1>1 DEF Grows
<1>3. \A C : Shuts(C, "client") => c \notin C
  BY <1>1 DEF Shuts
<1>4. /\ link[c] # "none" => connection["ctx"] = c \/ Stage(c) = "confirming"
      /\ link[c] # "none" => ~NotYet(c)
  BY <1>2 DEF ClientInv, LineInv
<1>5. \A k, stage, pending, n, has : Becomes(k, stage, pending, n, has) /\ k # c
        => Stage(c)' = Stage(c)
  BY <1>1, OthersStay
<1>6. Stage(c)' = Stage(c) /\ connection'["ctx"] = connection["ctx"] /\ link[c] # "none" => Goal
  BY <1>4
<1>7. CASE Quiet
  <2>1. Stage(c)' = Stage(c)
    BY <1>7, QuietIs
  <2>2. CASE Writes \/ OnlyLua \/ Stores
    BY <1>6, <2>1, <2>2 DEF Writes, OnlyLua, Stores
  <2>3. ASSUME NEW e \in Ends, Closes(e) PROVE Goal
    <3>1. link' = link
      BY <2>3 DEF Closes
    <3>2. CASE e = "ctx"
      BY <1>3, <1>4, <2>1, <2>3, <3>1, <3>2 DEF Closes
    <3>3. CASE e # "ctx"
      <4>1. connection'["ctx"] = connection["ctx"]
        BY <2>3, <3>3, Names DEF Closes, Connects
      <4> QED
        BY <1>6, <2>1, <3>1, <4>1
    <3> QED
      BY <3>2, <3>3
  <2>4. ASSUME NEW d \in Others, OtherComes(d) \/ OtherGoes(d) PROVE Goal
    <3>1. link[c] # "none" /\ connection' = connection
      BY <1>1, <2>4 DEF OtherComes, OtherGoes
    <3> QED
      BY <1>6, <2>1, <3>1
  <2> QED
    BY <1>7, <2>2, <2>3, <2>4 DEF Quiet
<1>8. ASSUME NEW k \in Connectors, NEW op \in Both, HalfDone(k, op) PROVE Goal
  <2>1. Stage(c)' = Stage(c)
    BY <1>5, <1>8 DEF HalfDone, Becomes
  <2> QED
    BY <1>6, <1>8, <2>1 DEF HalfDone
<1>9. ASSUME NEW k \in Connectors, NEW op \in Both, Joined(k, op) PROVE Goal
  <2>1. link[c] # "none"
    BY <1>9 DEF Joined
  <2>2. CASE k = c
    BY <1>1, <1>3, <1>9, <2>2 DEF Joined, Connects
  <2>3. CASE k # c
    <3>1. Stage(c)' = Stage(c)
      BY <1>5, <1>9, <2>3 DEF Joined
    <3>2. connection["ctx"] = c => connection'["ctx"] = c
      BY <1>1, <1>9, Names DEF Joined, Connects, Engine
    <3> QED
      BY <1>4, <2>1, <3>1, <3>2
  <2> QED
    BY <2>2, <2>3
<1>10. ASSUME NEW k \in Connectors, Fails(k) PROVE Goal
  <2>1. k # c
    BY <1>1, <1>3, <1>10 DEF Fails
  <2>2. Stage(c)' = Stage(c)
    BY <1>5, <1>10, <2>1 DEF Fails
  <2> QED
    BY <1>6, <1>10, <2>2 DEF Fails
<1>11. CASE ContextLeaves
  BY <1>3, <1>11 DEF ContextLeaves
<1>12. CASE FrameLeaves
  <2>1. Stage(c)' = Stage(c)
    BY <1>1, <1>5, <1>12 DEF FrameLeaves
  <2>2. connection'["ctx"] = connection["ctx"]
    BY <1>12, Names DEF FrameLeaves, Connects
  <2> QED
    BY <1>6, <1>12, <2>1, <2>2 DEF FrameLeaves
<1>13. ASSUME NEW k \in Attempts, Resolves(k) PROVE Goal
  <2>1. link[c] # "none" /\ connection' = connection
    BY <1>13 DEF Resolves
  <2>2. k # c
    BY <1>4, <1>13, <2>1 DEF Resolves, NotYet
  <2>3. Stage(c)' = Stage(c)
    BY <1>5, <1>13, <2>2 DEF Resolves
  <2> QED
    BY <1>6, <2>1, <2>3
<1>14. ASSUME NEW k \in Attempts, Links(k) PROVE Goal
  <2>1. CASE k = c
    BY <1>14, <2>1 DEF Links, Becomes
  <2>2. CASE k # c
    <3>1. Stage(c)' = Stage(c)
      BY <1>5, <1>14, <2>2 DEF Links
    <3>2. link[c] # "none" /\ connection' = connection
      BY <1>1, <1>14, <2>2 DEF Links
    <3> QED
      BY <1>6, <3>1, <3>2
  <2> QED
    BY <2>1, <2>2
<1>15. CASE Accepts \/ Listens
  <2>1. Stage(c)' = Stage(c)
    BY <1>1, <1>5, <1>15 DEF Accepts, Listens
  <2>2. link[c] # "none" /\ connection' = connection
    BY <1>1, <1>15 DEF Accepts, Listens
  <2> QED
    BY <1>6, <2>1, <2>2
<1>16. CASE Starts
  <2>1. link[c] # "none" /\ connection' = connection
    BY <1>16 DEF Starts
  <2>2. attempt # c
    BY <1>4, <1>16, <2>1 DEF Starts, LuaInv, NotYet
  <2>3. Stage(c)' = Stage(c)
    BY <1>5, <1>16, <2>2 DEF Starts
  <2> QED
    BY <1>6, <2>1, <2>3
<1> QED
  BY <1>7, <1>8, <1>9, <1>10, <1>11, <1>12, <1>13, <1>14, <1>15, <1>16
  DEF StartStep, Quiet

LEMMA ServerStep == SocketsInv /\ StartStep => ServerInv'
<1> SUFFICES ASSUME SocketsInv, StartStep, NEW c \in Clients, link'[c] = "accepted",
                    "server" \notin shut'[c]
             PROVE  \/ connection'["frame"] = c
                    \/ accepted' = c /\ Stage("acceptor")' = "confirming"
  BY DEF ServerInv
<1> USE DEF SocketsInv
<1> DEFINE Goal == \/ connection'["frame"] = c
                   \/ accepted' = c /\ Stage("acceptor")' = "confirming"
<1>1. /\ Grows /\ c # Nobody /\ "acceptor" \in Connectors /\ ConnectorInv("acceptor")
      /\ Side("acceptor") = "server" /\ Line("acceptor") = accepted
      /\ Engine("acceptor") = "frame"
  BY StepGrows, Names DEF Line, Side, Engine
<1>2. "server" \notin shut[c]
  BY <1>1 DEF Grows
<1>3. \A C : Shuts(C, "server") => c \notin C
  BY <1>1 DEF Shuts
<1>4. link[c] = "accepted" => \/ connection["frame"] = c
                              \/ accepted = c /\ Stage("acceptor") = "confirming"
  BY <1>2 DEF ServerInv
<1>5. CASE AcceptorStays
  <2>1. link[c] = "accepted" /\ connection'["frame"] = connection["frame"] => Goal
    BY <1>4, <1>5 DEF AcceptorStays
  <2>2. CASE link' = link /\ connection'["frame"] = connection["frame"]
    BY <2>1, <2>2
  <2>3. ASSUME NEW k \in Attempts, Resolves(k) \/ Links(k) PROVE Goal
    <3>1. link[c] = "accepted" /\ connection' = connection
      BY <2>3 DEF Resolves, Links
    <3> QED
      BY <2>1, <3>1
  <2>4. ASSUME NEW k \in Connectors, NEW op \in Both, HalfDone(k, op) \/ Joined(k, op)
        PROVE  Goal
    <3>1. CASE k = "acceptor"
      <4>1. op \in Pending(k) /\ Pending(k)' = Pending(k) \ {op}
        BY <2>4 DEF HalfDone, Joined, Becomes
      <4> QED
        BY <1>5, <3>1, <4>1 DEF AcceptorStays
    <3>2. CASE k # "acceptor"
      <4>1. Engine(k) = "ctx"
        BY <3>2 DEF Engine
      <4>2. link' = link /\ connection'["frame"] = connection["frame"]
        BY <2>4, <4>1, Names DEF HalfDone, Joined, Connects
      <4> QED
        BY <2>2, <4>2
    <3> QED
      BY <3>1, <3>2
  <2>5. ASSUME NEW e \in Ends, Closes(e) PROVE Goal
    <3>1. link' = link
      BY <2>5 DEF Closes
    <3>2. CASE e = "frame"
      BY <1>3, <1>4, <1>5, <2>5, <3>1, <3>2 DEF Closes, AcceptorStays
    <3>3. CASE e # "frame"
      <4>1. connection'["frame"] = connection["frame"]
        BY <2>5, <3>3, Names DEF Closes, Connects
      <4> QED
        BY <2>2, <3>1, <4>1
    <3> QED
      BY <3>2, <3>3
  <2>6. ASSUME NEW k \in Connectors, Fails(k) PROVE Goal
    BY <2>2, <2>6 DEF Fails
  <2>7. CASE ContextLeaves
    <3>1. link' = link /\ connection'["frame"] = connection["frame"]
      BY <2>7, Names DEF ContextLeaves, Connects
    <3> QED
      BY <2>2, <3>1
  <2>8. CASE FrameLeaves
    BY <1>3, <2>8 DEF FrameLeaves
  <2>9. CASE Accepts
    <3>1. Stage("acceptor") = "accepting" /\ Stage("acceptor")' = "confirming"
      BY <2>9 DEF Accepts, Becomes
    <3> QED
      BY <1>5, <3>1 DEF AcceptorStays
  <2>10. CASE Writes \/ Starts \/ OnlyLua \/ Listens \/ Stores
    BY <2>2, <2>10 DEF Writes, Starts, OnlyLua, Listens, Stores
  <2>11. ASSUME NEW d \in Others, OtherComes(d) \/ OtherGoes(d) PROVE Goal
    <3>1. link[c] = "accepted" /\ connection' = connection
      BY <2>11 DEF OtherComes, OtherGoes
    <3> QED
      BY <2>1, <3>1
  <2> QED
    BY <2>3, <2>4, <2>5, <2>6, <2>7, <2>8, <2>9, <2>10, <2>11 DEF StartStep
<1>6. ASSUME NEW op \in Both, HalfDone("acceptor", op) PROVE Goal
  BY <1>4, <1>6 DEF HalfDone, Becomes
<1>7. ASSUME NEW op \in Both, Joined("acceptor", op) PROVE Goal
  <2>1. /\ link[c] = "accepted" /\ op \in Pending("acceptor")
        /\ \/ connection["frame"] # Nobody /\ Shuts({accepted}, "server")
           \/ connection["frame"] = Nobody /\ connection'["frame"] = accepted
    BY <1>1, <1>7 DEF Joined, Connects
  <2>2. connection["frame"] = Nobody
    BY <2>1, <1>1 DEF FrameEndInv, ConnectorInv
  <2> QED
    BY <1>1, <1>4, <2>1, <2>2
<1>8. CASE Fails("acceptor")
  <2>1. link[c] = "accepted" /\ Shuts({accepted}, "server") /\ connection' = connection
    BY <1>1, <1>8 DEF Fails
  <2> QED
    BY <1>3, <1>4, <2>1
<1>9. CASE FrameLeaves
  BY <1>3, <1>9 DEF FrameLeaves
<1>10. CASE Accepts
  <2>1. Stage("acceptor") = "accepting" /\ Stage("acceptor")' = "confirming"
        /\ connection' = connection
    BY <1>10 DEF Accepts, Becomes
  <2>2. accepted' = c \/ link[c] = "accepted"
    BY <1>10 DEF Accepts
  <2> QED
    BY <1>4, <2>1, <2>2
<1>11. CASE Listens
  <2>1. Stage("acceptor") # "confirming" /\ connection' = connection /\ link' = link
    BY <1>11 DEF Listens, AcceptorOpen, Stage
  <2> QED
    BY <1>4, <2>1
<1> QED
  BY <1>5, <1>6, <1>7, <1>8, <1>9, <1>10, <1>11, AcceptorIs

LEMMA SpoiltStays ==
    ASSUME StartTypeOK, Grows
    PROVE  /\ \A c \in Clients : Spoilt(c) => Spoilt(c)'
           /\ SomeSpoilt => SomeSpoilt'
<1>1. \A c \in Clients : Spoilt(c) => Spoilt(c)'
  BY DEF Spoilt, Grows
<1> QED
  BY <1>1 DEF SomeSpoilt, Grows

LEMMA SpoiltStep == SocketsInv /\ StartStep => SpoiltInv'
<1> SUFFICES ASSUME SocketsInv, StartStep PROVE SpoiltInv'
  OBVIOUS
<1> USE DEF SocketsInv
<1>1. Grows /\ (\A c \in Clients : Spoilt(c) => Spoilt(c)') /\ (SomeSpoilt => SomeSpoilt')
  BY StepGrows, SpoiltStays
<1>2. twice' => SomeSpoilt'
  <2>1. KillsIfSpoilt \/ twice' = twice
    BY DEF StartStep, Writes, HalfDone, Joined, Fails, ContextLeaves, FrameLeaves, Resolves,
       Links, Accepts, Closes, Starts, OnlyLua, Listens, Stores, OtherComes, OtherGoes
  <2> QED
    BY <1>1, <2>1 DEF SpoiltInv, KillsIfSpoilt
<1>3. ASSUME NEW j \in Connectors, Stage(j)' = "over", Pending(j)' # {}
      PROVE  Spoilt(Line(j))'
  <2> DEFINE Was == Stage(j) = "over" /\ Pending(j) # {} /\ Line(j)' = Line(j)
  <2>1. Was => Spoilt(Line(j))'
    <3>1. Was => Spoilt(Line(j)) /\ Line(j) \in Clients
      BY LineIs DEF SpoiltInv, OnALink
    <3>2. Was => \E c \in Clients : c = Line(j) /\ c = Line(j)' /\ Spoilt(c)'
      BY <1>1, <3>1
    <3> QED
      BY <3>2 DEF Spoilt
  <2>2. j # "acceptor" => Line(j)' = Line(j)
    BY DEF Line
  <2>3. accepted' = accepted => Line(j)' = Line(j)
    BY DEF Line
  <2>4. \A k, stage, pending, n, has : Becomes(k, stage, pending, n, has) /\ j # k
          => Stage(j) = "over" /\ Pending(j) # {}
    BY <1>3, OthersStay
  <2>5. \A k, stage, pending, n, has :
          Becomes(k, stage, pending, n, has) /\ (stage # "over" \/ pending = {})
          => j # k
    BY <1>3 DEF Becomes
  <2>6. CASE Quiet
    BY <1>3, <2>1, <2>3, <2>6, QuietIs
  <2>7. ASSUME NEW k \in Connectors, NEW op \in Both, HalfDone(k, op) PROVE Was
    <3>1. CASE k = j
      BY <1>3, <2>3, <2>7, <3>1 DEF HalfDone, Becomes
    <3>2. CASE k # j
      BY <2>3, <2>4, <2>7, <3>2 DEF HalfDone
    <3> QED
      BY <3>1, <3>2
  <2>8. ASSUME NEW k \in Connectors, NEW op \in Both, Joined(k, op) PROVE Was
    <3>1. Pending(k) \ {op} = {}
      <4>1. ConnectorInv(k) /\ op \in Pending(k) /\ Count(k) + 1 >= 2 /\ Count(k) \in 0 .. 2
        BY <2>8, StartTypes DEF Joined
      <4> QED
        BY <4>1 DEF ConnectorInv
    <3> QED
      BY <2>3, <2>4, <2>5, <2>8, <3>1 DEF Joined
  <2>9. ASSUME NEW k \in Connectors, Fails(k) PROVE Was \/ Spoilt(Line(j))'
    <3>1. CASE k # j
      BY <2>3, <2>4, <2>9, <3>1 DEF Fails
    <3>2. CASE k = j
      <4>1. ConnectorInv(j) /\ Line(j)' = Line(j)
        BY <2>3, <2>9 DEF Fails
      <4>2. Pending(j) # {}
        BY <1>3, <2>9, <3>2 DEF Fails, Becomes
      <4>3. Line(j) \in Clients
        BY <4>2, LineIs DEF OnALink
      <4>4. OtherSide(j) \in shut[Line(j)] \/ "junk" \in wrote[Line(j)]
        BY <2>9, <3>2, <4>1, <4>2 DEF Fails, ConnectorInv
      <4>5. Side(j) \in shut'[Line(j)]
        BY <2>9, <3>2, <4>3 DEF Fails, Shuts
      <4>6. OtherSide(j) \in shut'[Line(j)] \/ "junk" \in wrote'[Line(j)]
        BY <1>1, <4>3, <4>4 DEF Grows
      <4>7. {OtherSide(j), Side(j)} = {"client", "server"}
        BY DEF Side, OtherSide
      <4>8. {"client", "server"} \subseteq shut'[Line(j)] \/ "junk" \in wrote'[Line(j)]
        BY <4>5, <4>6, <4>7
      <4>9. {"client", "server"} \subseteq shut'[Line(j)'] \/ "junk" \in wrote'[Line(j)']
        BY <4>1, <4>8
      <4> QED
        BY <4>9 DEF Spoilt
    <3> QED
      BY <3>1, <3>2
  <2>10. CASE ContextLeaves
    <3>1. j = "acceptor"
      BY <1>3, <2>10, Names DEF ContextLeaves
    <3> QED
      BY <1>3, <2>1, <2>3, <2>10, <3>1 DEF ContextLeaves, Stage, Pending
  <2>11. CASE FrameLeaves
    BY <2>1, <2>3, <2>4, <2>5, <2>11 DEF FrameLeaves
  <2>12. ASSUME NEW k \in Attempts, Resolves(k) \/ Links(k) PROVE Was
    BY <2>3, <2>4, <2>5, <2>12 DEF Resolves, Links
  <2>13. CASE Accepts \/ Listens
    BY <2>1, <2>2, <2>4, <2>5, <2>13 DEF Accepts, Listens
  <2>14. CASE Starts
    BY <2>1, <2>3, <2>4, <2>5, <2>14 DEF Starts
  <2> QED
    BY <2>1, <2>6, <2>7, <2>8, <2>9, <2>10, <2>11, <2>12, <2>13, <2>14 DEF StartStep, Quiet
<1> QED
  BY <1>2, <1>3 DEF SpoiltInv

LEMMA GaveUpStep == SocketsInv /\ StartStep => GaveUpInv'
<1> SUFFICES ASSUME SocketsInv, StartStep, fpc' \in {"starting", "idle"} PROVE GaveUpInv'
  BY DEF GaveUpInv
<1> USE DEF SocketsInv
<1> DEFINE Bad == "junk" \in wrote[accepted] \/ "client" \in shut[accepted]
           Why == \/ connection["frame"] # Nobody \/ inEnd["frame"]
                  \/ Count("acceptor") < 2 /\ accepted # Nobody /\ Bad
           Known == /\ Stage("acceptor") # "unused"
                    /\ Stage("acceptor") = "over" => Why
<1>1. /\ Grows /\ "acceptor" \in Connectors /\ ConnectorInv("acceptor")
      /\ Count("acceptor") \in 0 .. 2 /\ accepted \in Clients \cup {Nobody}
      /\ Line("acceptor") = accepted /\ OtherSide("acceptor") = "client"
      /\ Engine("acceptor") = "frame"
  BY StepGrows, Names, StartTypes DEF StartTypeOK, Line, OtherSide, Engine
<1>2. SUFFICES Known'
  BY DEF GaveUpInv
<1>3. fpc \in {"starting", "idle"} => Known
  BY DEF GaveUpInv
<1>4. accepted # Nobody /\ accepted' = accepted /\ Bad => Bad'
  BY <1>1 DEF Grows
<1>5. CASE AcceptorStays
  <2>1. (connection["frame"] # Nobody => connection'["frame"] # Nobody \/ inEnd'["frame"])
        /\ (inEnd["frame"] => inEnd'["frame"]) /\ Known => Known'
    BY <1>4, <1>5 DEF AcceptorStays
  <2>2. CASE fpc' = fpc /\ connection'["frame"] = connection["frame"]
             /\ inEnd'["frame"] = inEnd["frame"]
    BY <1>3, <2>1, <2>2
  <2>3. CASE Closes("frame")
    <3>1. inEnd'["frame"] /\ fpc' = fpc
      BY <2>3 DEF Closes, Told
    <3> QED
      BY <1>3, <2>1, <3>1
  <2>4. CASE Closes("ctx") \/ ContextLeaves
    <3>1. fpc' = fpc /\ connection'["frame"] = connection["frame"]
          /\ inEnd'["frame"] = inEnd["frame"]
      BY <2>4, Names DEF Closes, ContextLeaves, Connects, Told
    <3> QED
      BY <2>2, <3>1
  <2>5. ASSUME NEW k \in Connectors, NEW op \in Both, HalfDone(k, op) \/ Joined(k, op)
        PROVE  Known'
    <3>1. fpc' = fpc /\ inEnd' = inEnd
      BY <2>5 DEF HalfDone, Joined
    <3>2. connection["frame"] # Nobody => connection'["frame"] # Nobody
      BY <2>5, Names DEF HalfDone, Joined, Connects, Engine
    <3> QED
      BY <1>3, <2>1, <3>1, <3>2
  <2>6. ASSUME NEW k \in Connectors, Fails(k) PROVE Known'
    BY <2>2, <2>6 DEF Fails
  <2>7. CASE FrameLeaves
    BY <2>7 DEF FrameLeaves
  <2>8. ASSUME NEW k \in Attempts, Resolves(k) \/ Links(k) PROVE Known'
    BY <2>2, <2>8 DEF Resolves, Links
  <2>9. CASE Writes \/ Starts \/ OnlyLua
    BY <2>2, <2>9 DEF Writes, Starts, OnlyLua
  <2>10. CASE Stores
    BY <1>3, <2>1, <2>10 DEF Stores
  <2>11. CASE Accepts \/ Listens
    <3>1. Stage("acceptor")' \in {"confirming", "accepting"}
      BY <2>11 DEF Accepts, Listens, Becomes
    <3> QED
      BY <3>1
  <2>12. ASSUME NEW d \in Others, OtherComes(d) \/ OtherGoes(d) PROVE Known'
    BY <2>2, <2>12 DEF OtherComes, OtherGoes
  <2>13. CASE \E e \in Ends : Closes(e)
    BY <2>3, <2>4, <2>13, Names
  <2> QED
    BY <2>4, <2>5, <2>6, <2>7, <2>8, <2>9, <2>10, <2>11, <2>12, <2>13 DEF StartStep
<1>6. ASSUME NEW op \in Both, HalfDone("acceptor", op) PROVE Known'
  <2>1. /\ Stage("acceptor")' = Stage("acceptor") /\ Count("acceptor")' < 2
        /\ fpc' = fpc /\ connection' = connection /\ inEnd' = inEnd /\ accepted' = accepted
    BY <1>6 DEF HalfDone, Becomes
  <2> QED
    BY <1>3, <1>4, <2>1
<1>7. ASSUME NEW op \in Both, Joined("acceptor", op) PROVE Known'
  <2>1. op \in Pending("acceptor") /\ Stage("acceptor")' = "over"
    BY <1>7 DEF Joined, Becomes
  <2>2. accepted # Nobody
    BY <2>1 DEF LineInv, OnALink
  <2>3. connection'["frame"] # Nobody
    BY <1>1, <1>7, <2>2 DEF Joined, Connects
  <2> QED
    BY <2>1, <2>3
<1>8. CASE Fails("acceptor")
  <2>1. "acceptor" \notin Attempts
    BY DEF Attempts
  <2>2. PICK op \in Pending("acceptor") :
           /\ OtherSide("acceptor") \in shut[accepted] \/ "junk" \in wrote[accepted]
           /\ Becomes("acceptor", "over", Pending("acceptor") \ {op}, Count("acceptor"), FALSE)
    BY <1>1, <1>8, <2>1 DEF Fails
  <2>3. accepted # Nobody /\ accepted' = accepted /\ Bad
    BY <1>1, <1>8, <2>2 DEF LineInv, OnALink, Fails
  <2>4. Count("acceptor") < 2
    BY <1>1, <2>2 DEF ConnectorInv
  <2>5. Stage("acceptor")' = "over" /\ Count("acceptor")' = Count("acceptor")
    BY <2>2 DEF Becomes
  <2>6. Bad'
    BY <1>4, <2>3
  <2> QED
    BY <2>3, <2>4, <2>5, <2>6
<1>9. CASE FrameLeaves
  BY <1>9 DEF FrameLeaves
<1>10. CASE Accepts \/ Listens
  <2>1. Stage("acceptor")' \in {"confirming", "accepting"}
    BY <1>10 DEF Accepts, Listens, Becomes
  <2> QED
    BY <2>1
<1> QED
  BY <1>5, <1>6, <1>7, <1>8, <1>9, <1>10, AcceptorIs

LEMMA SocketsStart == StartInit => SocketsInv
<1> SUFFICES ASSUME StartInit PROVE SocketsInv
  OBVIOUS
<1>1. StartTypeOK
  BY StartTypeInit
<1>2. \A k \in Connectors :
         /\ Stage(k) = "unused" /\ Pending(k) = {} /\ Count(k) = 0 /\ Has(k) = FALSE
         /\ ~OnALink(k)
  BY DEF StartInit, NewConnector, Stage, Pending, Count, Has, OnALink
<1>3. /\ "acceptor" \in Connectors /\ Attempts \subseteq Connectors
      /\ Attempts \subseteq Clients /\ Others \subseteq Clients /\ Ends = {"ctx", "frame"}
      /\ attempt \in Attempts /\ "c2" \in Attempts
  BY Names DEF StartInit
<1>4. /\ accepted = Nobody /\ twice = FALSE /\ fpc \in {"absent", "launch"}
      /\ \A e \in Ends : connection[e] = Nobody /\ held[e] = Nobody
      /\ \A c \in Clients : link[c] = "none" /\ wrote[c] = {} /\ shut[c] = {}
      /\ luaPc = "connect"
  BY DEF StartInit
<1>5. (\A k \in Connectors : ConnectorInv(k)) /\ LineInv /\ WroteInv /\ QueueInv
  BY <1>2, <1>3, <1>4 DEF ConnectorInv, LineInv, WroteInv, QueueInv
<1>6. ContextEndInv /\ FrameEndInv /\ ClientInv /\ ServerInv /\ SpoiltInv /\ GaveUpInv /\ LuaInv
  BY <1>2, <1>3, <1>4
  DEF ContextEndInv, FrameEndInv, ClientInv, ServerInv, SpoiltInv, GaveUpInv, LuaInv
<1> QED
  BY <1>1, <1>5, <1>6 DEF SocketsInv

LEMMA SocketsStep == SocketsInv /\ [StartNext]_startVars => SocketsInv' /\ StartStep
<1> SUFFICES ASSUME SocketsInv, [StartNext]_startVars PROVE SocketsInv' /\ StartStep
  OBVIOUS
<1>1. StartStep
  BY StepIs
<1>2. StartTypeOK' /\ \A k \in Connectors : ConnectorInv(k)'
  BY <1>1, StartTypeStep, ConnectorStep
<1>3. LineInv' /\ WroteInv' /\ QueueInv' /\ ContextEndInv' /\ FrameEndInv'
  BY <1>1, LineStep, WroteStep, QueueStep, ContextEndStep, FrameEndStep
<1>4. ClientInv' /\ ServerInv' /\ SpoiltInv' /\ GaveUpInv' /\ LuaInv'
  BY <1>1, ClientStep, ServerStep, SpoiltStep, GaveUpStep, LuaStep
<1> QED
  BY <1>1, <1>2, <1>3, <1>4 DEF SocketsInv

LEMMA SocketsAlways == StartSpec => []SocketsInv
<1>1. SocketsInv /\ [StartNext]_startVars => SocketsInv'
  BY SocketsStep
<1> QED
  BY <1>1, SocketsStart, PTL DEF StartSpec

(* A session has two ends, or is ending: whoever has an open connection has  *)
(* it with somebody who has the same, is about to, or has closed it          *)
(* (net/connection.cpp, HandleConfirmCommand at each end).                   *)
THEOREM SessionsHaveTwoEnds == StartSpec => []SessionHasTwoEnds
<1>1. SocketsInv => SessionHasTwoEnds
  <2> SUFFICES ASSUME SocketsInv PROVE SessionHasTwoEnds
    OBVIOUS
  <2> USE DEF SocketsInv
  <2>1. ASSUME connection["ctx"] # Nobody
        PROVE  LET c == connection["ctx"]
               IN  \/ "server" \in shut[c]
                   \/ connection["frame"] = c
                   \/ /\ accepted = c
                      /\ connector["acceptor"].stage = "confirming"
    <3>1. connection["ctx"] \in Clients /\ link[connection["ctx"]] = "accepted"
      BY <2>1, Names DEF ContextEndInv, WroteInv
    <3> QED
      BY <3>1 DEF ServerInv, Stage
  <2>2. ASSUME connection["frame"] \in Attempts
        PROVE  LET c == connection["frame"]
               IN  \/ "client" \in shut[c]
                   \/ connection["ctx"] = c
                   \/ connector[c].stage = "confirming"
    <3>1. link[connection["frame"]] = "accepted"
      BY <2>2, Names DEF FrameEndInv
    <3> QED
      BY <2>2, <3>1 DEF ClientInv, Stage
  <2> QED
    BY <2>1, <2>2 DEF SessionHasTwoEnds
<1> QED
  BY <1>1, SocketsAlways, PTL

(* A connector that is done has handed its socket to the engine or closed    *)
(* it, however late it is (Connector::Connected, Failed; RemoteEngine::      *)
(* OnConnectionConnected): the frame is in no session with nobody.           *)
THEOREM NoSocketIsEverForgotten == StartSpec => []NoSocketIsForgotten
<1>1. SocketsInv => NoSocketIsForgotten
  BY DEF SocketsInv, ClientInv, NoSocketIsForgotten, Stage
<1> QED
  BY <1>1, SocketsAlways, PTL

(* Connector::Failed runs twice, and the frame gives up accepting, only      *)
(* through a peer that closed or sent something else (connection.cpp, the    *)
(* handlers of one write and one read that share HandleConfirmCommand).      *)
THEOREM HandshakesFailByThePeer == StartSpec => []FailsOnlyByItsPeer
<1>1. SocketsInv => KilledOnlyByItsPeer
  <2> SUFFICES ASSUME SocketsInv, twice
               PROVE  \E c \in Clients : shut[c] = {"client", "server"} \/ "junk" \in wrote[c]
    BY DEF KilledOnlyByItsPeer
  <2>1. PICK c \in Clients : Spoilt(c)
    BY DEF SocketsInv, SpoiltInv, SomeSpoilt
  <2>2. shut[c] \subseteq {"client", "server"}
    BY DEF SocketsInv, StartTypeOK
  <2> QED
    BY <2>1, <2>2 DEF Spoilt
<1>2. SocketsInv => FrameAcceptsAgain
  BY DEF SocketsInv, GaveUpInv, FrameAcceptsAgain, Deaf, Stage, Count
<1> QED
  BY <1>1, <1>2, SocketsAlways, PTL DEF FailsOnlyByItsPeer

(* When the frame's session ends, its m_acceptor is gone: what the next      *)
(* StartFrame listens on is free, also when m_connector was stored late      *)
(* (RemoteEngine::StartFrame, OnConnectionClosed).                           *)
THEOREM EndsAlwaysFreeThePort == StartSpec => EndOfSessionFreesPort
<1>1. SocketsInv /\ [StartNext]_startVars
        => [connection["frame"] # Nobody /\ connection'["frame"] = Nobody
              /\ fpc' = "idle" => ~AcceptorOpen']_startVars
  <2> SUFFICES ASSUME SocketsInv, [StartNext]_startVars,
                      connection["frame"] # Nobody, connection'["frame"] = Nobody,
                      fpc' = "idle"
               PROVE  ~AcceptorOpen'
    OBVIOUS
  <2> USE DEF SocketsInv
  <2>1. Closes("frame")
    <3>1. StartStep
      BY StepIs
    <3>2. ASSUME NEW k \in Connectors, NEW op \in Both, Joined(k, op) PROVE FALSE
      <4>1. k = "acceptor"
        BY <3>2, Names DEF Joined, Connects, Engine
      <4>2. op \in Pending(k) /\ ConnectorInv(k)
        BY <3>2 DEF Joined
      <4> QED
        BY <4>1, <4>2 DEF FrameEndInv, ConnectorInv
    <3>3. ASSUME NEW e \in Ends, Closes(e) PROVE e = "frame"
      BY <3>3, Names DEF Closes, Connects
    <3>4. ~ContextLeaves /\ ~FrameLeaves
      BY Names DEF ContextLeaves, FrameLeaves, Connects
    <3> QED
      BY <3>1, <3>2, <3>3, <3>4 DEF StartStep, Writes, HalfDone, Fails, Resolves, Links,
         Accepts, Starts, OnlyLua, Listens, Stores, OtherComes, OtherGoes
  <2>2. held'["frame"] = Nobody /\ connector' = connector
    BY <2>1 DEF Closes, LetsGo
  <2>3. Stage("acceptor") = "over" /\ Pending("acceptor") = {}
    BY Names DEF FrameEndInv, ConnectorInv
  <2> QED
    BY <2>2, <2>3 DEF AcceptorOpen, Stage, Pending, Nobody
<1> QED
  BY <1>1, SocketsAlways, PTL DEF StartSpec, EndOfSessionFreesPort

-----------------------------------------------------------------------------
(* Why the context gives up *)

(* No attempt was left at its deadline.                                      *)
InTime == ~timedOut /\ luaPc # "gone"

(* An attempt that is left in time has failed, or its session has ended.     *)
AttemptInv ==
    InTime =>
       /\ attempt = "c2" => Stage("c1") = "over" /\ connection["ctx"] # "c1"
       /\ inEnd["ctx"] =>
             /\ Stage(attempt) = "over" /\ Count(attempt) = 2
             /\ connection["ctx"] = Nobody /\ luaPc \notin {"connect", "execute"}
       /\ isFailed /\ (attempt = "c1" \/ luaPc \in {"wait", "tested"}) =>
             Stage(attempt) = "over" /\ Count(attempt) < 2
       /\ luaPc = "gaveup" =>
             /\ connection["ctx"] = Nobody
             /\ Stage("c2") \in {"over", "unused"}
             /\ faults # 0 \/ link["c2"] = "none"

(* Nothing from outside: the links are as whole as the programs.             *)
CalmInv ==
    InTime /\ faults = 0 =>
       /\ ~Disturbed
       /\ attempt = "c2" => link["c1"] = "none"
       /\ fpc = "absent" => \A c \in Clients : link[c] = "none"
       /\ fpc # "exited"
       /\ ~inEnd["ctx"] /\ ~inEnd["frame"]

LEMMA OverStays ==
    ASSUME SocketsInv, StartStep, NEW k \in Attempts, Stage(k) = "over", luaPc' # "gone"
    PROVE  /\ Stage(k)' = "over" /\ (Count(k) = 2 => Count(k)' = 2)
           /\ Count(k) < 2 => Count(k)' < 2
           /\ \A op : ~Joined(k, op)
           /\ ~Fails(k)
<1>1. /\ k \in Connectors /\ k # "acceptor" /\ ConnectorInv(k) /\ Count(k) \in 0 .. 2
      /\ Has(k) = FALSE
  <2>1. k \in Connectors /\ k # "acceptor"
    BY Names DEF Attempts
  <2>2. ConnectorInv(k) /\ Count(k) \in 0 .. 2 /\ Has(k) \in BOOLEAN
    BY <2>1, StartTypes DEF SocketsInv, Has, Records
  <2> QED
    BY <2>1, <2>2 DEF ConnectorInv
<1>2. \A op : ~Joined(k, op)
  <2> SUFFICES ASSUME NEW op, Joined(k, op) PROVE FALSE
    OBVIOUS
  <2>1. op \in Pending(k) /\ Count(k) + 1 >= 2
    BY DEF Joined
  <2> QED
    BY <1>1, <2>1 DEF ConnectorInv
<1>3. ~Fails(k)
  BY <1>1 DEF Fails
<1>4. \A j, stage, pending, n, has : Becomes(j, stage, pending, n, has) /\ j # k
        => Stage(k)' = "over" /\ Count(k)' = Count(k)
  BY <1>1, OthersStay
<1>5. CASE Quiet
  BY <1>2, <1>3, <1>5, QuietIs
<1>6. ASSUME NEW j \in Connectors, NEW op \in Both, HalfDone(j, op)
      PROVE  /\ Stage(k)' = "over" /\ (Count(k) = 2 => Count(k)' = 2)
             /\ Count(k) < 2 => Count(k)' < 2
  <2>1. CASE j = k
    BY <1>6, <2>1 DEF HalfDone, Becomes
  <2>2. CASE j # k
    BY <1>4, <1>6, <2>2 DEF HalfDone
  <2> QED
    BY <2>1, <2>2
<1>7. ASSUME NEW j \in Connectors, NEW op \in Both, Joined(j, op)
      PROVE  Stage(k)' = "over" /\ Count(k)' = Count(k)
  BY <1>2, <1>4, <1>7 DEF Joined
<1>8. ASSUME NEW j \in Connectors, Fails(j) PROVE Stage(k)' = "over" /\ Count(k)' = Count(k)
  BY <1>3, <1>4, <1>8 DEF Fails
<1>9. ~ContextLeaves
  BY DEF ContextLeaves
<1>10. CASE FrameLeaves \/ Accepts \/ Listens
  BY <1>1, <1>2, <1>3, <1>4, <1>10 DEF FrameLeaves, Accepts, Listens
<1>11. ASSUME NEW j \in Attempts, Resolves(j) \/ Links(j)
       PROVE  Stage(k)' = "over" /\ Count(k)' = Count(k)
  BY <1>4, <1>11 DEF Resolves, Links
<1>12. CASE Starts
  <2>1. attempt # k
    BY <1>12 DEF Starts, SocketsInv, LuaInv
  <2> QED
    BY <1>2, <1>3, <1>4, <1>12, <2>1 DEF Starts
<1> QED
  BY <1>2, <1>3, <1>5, <1>6, <1>7, <1>8, <1>9, <1>10, <1>11, <1>12 DEF StartStep, Quiet

LEMMA UnusedStays ==
    ASSUME SocketsInv, StartStep, NEW k \in Attempts, Stage(k) = "unused", luaPc' # "gone"
    PROVE  /\ Stage(k)' = "unused" \/ (Starts /\ k = attempt)
           /\ \A op : ~Joined(k, op)
           /\ ~Fails(k)
<1>1. k \in Connectors /\ k # "acceptor" /\ ConnectorInv(k)
  BY Names DEF Attempts, SocketsInv
<1>2. (\A op : ~Joined(k, op) /\ ~HalfDone(k, op)) /\ ~Fails(k)
  BY <1>1 DEF Joined, HalfDone, Fails, ConnectorInv
<1>3. \A j, stage, pending, n, has : Becomes(j, stage, pending, n, has) /\ j # k
        => Stage(k)' = "unused"
  BY <1>1, OthersStay
<1>4. CASE Quiet
  BY <1>2, <1>4, QuietIs
<1>5. ASSUME NEW j \in Connectors, NEW op \in Both, HalfDone(j, op) \/ Joined(j, op)
      PROVE  Stage(k)' = "unused"
  BY <1>2, <1>3, <1>5 DEF HalfDone, Joined
<1>6. ASSUME NEW j \in Connectors, Fails(j) PROVE Stage(k)' = "unused"
  BY <1>2, <1>3, <1>6 DEF Fails
<1>7. ~ContextLeaves
  BY DEF ContextLeaves
<1>8. CASE FrameLeaves \/ Accepts \/ Listens
  BY <1>1, <1>2, <1>3, <1>8 DEF FrameLeaves, Accepts, Listens
<1>9. ASSUME NEW j \in Attempts, Resolves(j) \/ Links(j) PROVE Stage(k)' = "unused"
  BY <1>3, <1>9 DEF Resolves, Links
<1>10. CASE Starts
  BY <1>2, <1>3, <1>10 DEF Starts
<1> QED
  BY <1>2, <1>4, <1>5, <1>6, <1>7, <1>8, <1>9, <1>10 DEF StartStep, Quiet

(* A step that ends in time began in time, and lets no old attempt join.     *)
LEMMA InTimeBefore ==
    ASSUME SocketsInv, AttemptInv, StartStep, InTime'
    PROVE  /\ InTime
           /\ \A k \in Attempts : (\E op : Joined(k, op)) => k = attempt
           /\ \A k \in Attempts : Fails(k) => k = attempt
           /\ connection["ctx"] \in {attempt, Nobody}
<1>1. InTime
  <2>1. CASE OnlyLua
    BY <2>1 DEF OnlyLua, InTime, LuaThread, StartContext, StoreConnector, TestConnecting,
       TestFailed, ExecuteFrame, SocketsInv, StartTypeOK
  <2>2. CASE ~OnlyLua
    <3>1. timedOut' = timedOut /\ (luaPc = "gone" => luaPc' = "gone")
      BY <2>2 DEF StartStep, luaVars, Writes, HalfDone, Joined, Fails, ContextLeaves,
         FrameLeaves, Resolves, Links, Accepts, Closes, Starts, Listens, Stores, OtherComes,
         OtherGoes
    <3> QED
      BY <3>1 DEF InTime
  <2> QED
    BY <2>1, <2>2
<1>2. luaPc # "gone" /\ luaPc' # "gone"
  BY <1>1 DEF InTime
<1>3. attempt \in {"c1", "c2"} /\ Attempts = {"c1", "c2"}
  BY Names DEF SocketsInv, StartTypeOK
<1>4. /\ attempt = "c1" => Stage("c2") = "unused"
      /\ attempt = "c2" => Stage("c1") = "over" /\ connection["ctx"] # "c1"
  BY <1>1, <1>2 DEF AttemptInv, SocketsInv, LuaInv
<1>5. ASSUME NEW k \in Attempts, k # attempt
      PROVE  (\A op : ~Joined(k, op)) /\ ~Fails(k) /\ connection["ctx"] # k
  <2>1. CASE Stage(k) = "over" /\ connection["ctx"] # k
    BY <1>2, <2>1, OverStays
  <2>2. CASE Stage(k) = "unused"
    <3>1. connection["ctx"] # k
      BY <2>2, Names DEF SocketsInv, ContextEndInv
    <3> QED
      BY <1>2, <2>2, <3>1, UnusedStays
  <2> QED
    BY <1>3, <1>4, <1>5, <2>1, <2>2
<1>6. connection["ctx"] \in Attempts \cup {Nobody}
  BY DEF SocketsInv, ContextEndInv
<1> QED
  BY <1>1, <1>5, <1>6

(* What a step of another thread makes of the context's engine.              *)
LEMMA EngineMoves ==
    ASSUME SocketsInv, StartStep,
           OnlyLua => UNCHANGED <<luaPc, attempt, timedOut, isFailed, inEnd>>
    PROVE  /\ \/ connection'["ctx"] \in {connection["ctx"], Nobody}
              \/ \E k \in Attempts, op \in Both : Joined(k, op) /\ connection'["ctx"] = k
           /\ inEnd'["ctx"] \in {inEnd["ctx"], FALSE} \/ Closes("ctx")
           /\ isFailed' = isFailed \/ \E k \in Attempts : Fails(k)
           /\ luaPc' = luaPc \/ Starts \/ ContextLeaves
           /\ attempt' = attempt
<1> USE DEF luaVars
<1>1. /\ isFailed' = isFailed \/ \E k \in Connectors : Fails(k)
      /\ luaPc' = luaPc \/ Starts \/ ContextLeaves
      /\ attempt' = attempt
  BY DEF StartStep, Writes, HalfDone, Joined, ContextLeaves, FrameLeaves, Resolves, Fails,
     Links, Accepts, Closes, Starts, OnlyLua, Listens, Stores, OtherComes, OtherGoes
<1>2. isFailed' = isFailed \/ \E k \in Attempts : Fails(k)
  <2>1. Fails("acceptor") => isFailed' = isFailed
    BY DEF Fails, Engine, SocketsInv, StartTypeOK
  <2> QED
    BY <1>1, <2>1, Names
<1>3. inEnd'["ctx"] \in {inEnd["ctx"], FALSE} \/ Closes("ctx")
  <2>1. ASSUME NEW e \in Ends, Closes(e), e # "ctx" PROVE inEnd'["ctx"] = inEnd["ctx"]
    BY <2>1, Names DEF Closes, Told
  <2>2. FrameLeaves \/ Listens => inEnd'["ctx"] = inEnd["ctx"]
    BY Names DEF FrameLeaves, Listens, Told
  <2>3. ContextLeaves => inEnd'["ctx"] = FALSE
    BY DEF ContextLeaves, Told
  <2> QED
    BY <2>1, <2>2, <2>3 DEF StartStep, Writes, HalfDone, Joined, Resolves, Fails,
       Links, Accepts, Starts, OnlyLua, Stores, OtherComes, OtherGoes
<1>4. \/ connection'["ctx"] \in {connection["ctx"], Nobody}
      \/ \E k \in Attempts, op \in Both : Joined(k, op) /\ connection'["ctx"] = k
  <2>1. ASSUME NEW k \in Connectors, NEW op \in Both, Joined(k, op)
        PROVE  connection'["ctx"] = connection["ctx"]
                 \/ (k \in Attempts /\ connection'["ctx"] = k)
    <3>1. CASE k = "acceptor"
      BY <2>1, <3>1, Names DEF Joined, Connects, Engine
    <3>2. CASE k \in Attempts
      BY <2>1, <3>2 DEF Joined, Connects, Engine, Line, Attempts
    <3> QED
      BY <3>1, <3>2, Names
  <2>2. ASSUME NEW e \in Ends, Closes(e)
        PROVE  connection'["ctx"] \in {connection["ctx"], Nobody}
    BY <2>2, Names DEF Closes, Connects
  <2>3. FrameLeaves \/ ContextLeaves => connection'["ctx"] \in {connection["ctx"], Nobody}
    BY Names DEF FrameLeaves, ContextLeaves, Connects
  <2> QED
    BY <2>1, <2>2, <2>3 DEF StartStep, Writes, HalfDone, Resolves, Fails, Links, Accepts,
       Starts, OnlyLua, Listens, Stores, OtherComes, OtherGoes
<1> QED
  BY <1>1, <1>2, <1>3, <1>4

LEMMA AttemptKept ==
    ASSUME SocketsInv, AttemptInv, StartStep,
           OnlyLua => UNCHANGED <<luaPc, attempt, timedOut, isFailed, inEnd>>
    PROVE  AttemptInv'
<1> SUFFICES ASSUME InTime' PROVE AttemptInv'
  BY DEF AttemptInv
<1> USE DEF SocketsInv
<1> DEFINE Failure == attempt = "c1" \/ luaPc \in {"wait", "tested"}
<1>1. /\ InTime /\ luaPc # "gone" /\ luaPc' # "gone"
      /\ \A k \in Attempts : (\E op : Joined(k, op)) => k = attempt
      /\ \A k \in Attempts : Fails(k) => k = attempt
      /\ connection["ctx"] \in {attempt, Nobody}
  BY InTimeBefore DEF InTime
<1>2. /\ \/ connection'["ctx"] \in {connection["ctx"], Nobody}
         \/ \E op \in Both : Joined(attempt, op) /\ connection'["ctx"] = attempt
      /\ inEnd'["ctx"] \in {inEnd["ctx"], FALSE} \/ Closes("ctx")
      /\ isFailed' = isFailed \/ Fails(attempt)
      /\ luaPc' = luaPc \/ Starts
      /\ attempt' = attempt
  BY <1>1, EngineMoves DEF ContextLeaves
<1>3. /\ attempt \in Attempts /\ attempt \in Connectors /\ attempt # "acceptor"
      /\ "c1" \in Attempts /\ "c2" \in Attempts /\ Nobody \notin Attempts
      /\ attempt \in {"c1", "c2"}
  BY Names DEF StartTypeOK, Attempts, Nobody
<1>4. ConnectorInv(attempt) /\ Count(attempt) \in 0 .. 2
  BY <1>3, StartTypes
<1>5. Stage(attempt) = "over" =>
         /\ Stage(attempt)' = "over" /\ (Count(attempt) = 2 => Count(attempt)' = 2)
         /\ Count(attempt) < 2 => Count(attempt)' < 2
         /\ \A op : ~Joined(attempt, op)
         /\ ~Fails(attempt)
  <2>1. \A k \in Attempts : Stage(k) = "over" =>
           /\ Stage(k)' = "over" /\ (Count(k) = 2 => Count(k)' = 2)
           /\ Count(k) < 2 => Count(k)' < 2
           /\ \A op : ~Joined(k, op)
           /\ ~Fails(k)
    BY <1>1, OverStays
  <2>2. PICK k \in Attempts : k = attempt /\ k = attempt'
    BY <1>2, <1>3
  <2>3. Stage(attempt)' = Stage(k)' /\ Count(attempt)' = Count(k)'
    BY <2>2 DEF Stage, Count
  <2> QED
    BY <2>1, <2>2, <2>3
<1>6. attempt' = "c2" => Stage("c1")' = "over" /\ connection'["ctx"] # "c1"
  <2> SUFFICES ASSUME attempt = "c2" PROVE Stage("c1")' = "over" /\ connection'["ctx"] # "c1"
    BY <1>2
  <2>1. Stage("c1") = "over" /\ connection["ctx"] # "c1"
    BY <1>1 DEF AttemptInv
  <2>2. Stage("c1")' = "over"
    BY <1>1, <1>3, <2>1, OverStays
  <2> QED
    BY <1>2, <1>3, <2>1, <2>2 DEF Nobody
<1>7. ASSUME inEnd'["ctx"]
      PROVE  /\ Stage(attempt)' = "over" /\ Count(attempt)' = 2
             /\ connection'["ctx"] = Nobody /\ luaPc' \notin {"connect", "execute"}
  <2>1. CASE Closes("ctx")
    <3>1. /\ connection["ctx"] = attempt /\ connection'["ctx"] = Nobody
          /\ luaPc' = luaPc /\ connector' = connector
      BY <1>1, <2>1 DEF Closes, Connects, luaVars
    <3>2. Stage(attempt) = "over" /\ Count(attempt) = 2
      BY <1>3, <3>1 DEF ContextEndInv
    <3>3. Stage(attempt)' = "over" /\ Count(attempt)' = 2
      BY <1>2, <3>1, <3>2 DEF Stage, Count
    <3>4. luaPc \notin {"connect", "execute"}
      BY <3>2 DEF LuaInv
    <3> QED
      BY <3>1, <3>3, <3>4
  <2>2. CASE ~Closes("ctx")
    <3>1. inEnd["ctx"]
      BY <1>2, <1>7, <2>2
    <3>2. /\ Stage(attempt) = "over" /\ Count(attempt) = 2
          /\ connection["ctx"] = Nobody /\ luaPc \notin {"connect", "execute"}
      BY <1>1, <3>1 DEF AttemptInv
    <3>3. ~Starts
      BY <3>2 DEF Starts
    <3> QED
      BY <1>2, <1>5, <3>2, <3>3
  <2> QED
    BY <2>1, <2>2
<1>8. ASSUME isFailed', Failure' PROVE Stage(attempt)' = "over" /\ Count(attempt)' < 2
  <2>1. CASE Fails(attempt)
    <3>1. Stage(attempt)' = "over" /\ Count(attempt)' = Count(attempt)
      BY <2>1 DEF Fails, Becomes
    <3>2. Stage(attempt) \in {"resolving", "connecting"} \/ Pending(attempt) # {}
      BY <2>1 DEF Fails
    <3>3. Count(attempt) < 2
      BY <1>4, <3>2 DEF ConnectorInv
    <3> QED
      BY <3>1, <3>3
  <2>2. CASE ~Fails(attempt)
    <3>1. isFailed
      BY <1>2, <1>8, <2>2
    <3>2. Failure
      <4>1. Starts => attempt = "c1"
        BY <1>2, <1>8 DEF Starts
      <4> QED
        BY <1>2, <1>8, <4>1
    <3>3. Stage(attempt) = "over" /\ Count(attempt) < 2
      BY <1>1, <3>1, <3>2 DEF AttemptInv
    <3> QED
      BY <1>5, <3>3
  <2> QED
    BY <2>1, <2>2
<1>9. ASSUME luaPc' = "gaveup"
      PROVE  /\ connection'["ctx"] = Nobody /\ Stage("c2")' \in {"over", "unused"}
             /\ faults' # 0 \/ link'["c2"] = "none"
  <2>1. luaPc = "gaveup" /\ ~Starts
    BY <1>2, <1>9 DEF Starts
  <2>2. /\ attempt = "c2" /\ connection["ctx"] = Nobody /\ Stage("c2") \in {"over", "unused"}
        /\ faults # 0 \/ link["c2"] = "none"
    BY <1>1, <2>1 DEF AttemptInv, LuaInv
  <2>3. Stage("c2")' \in {"over", "unused"} /\ (\A op : ~Joined("c2", op))
    BY <1>1, <1>3, <2>1, <2>2, OverStays, UnusedStays
  <2>4. link'["c2"] = "none" \/ link["c2"] # "none"
    <3>1. ASSUME NEW k \in Attempts, Links(k) PROVE k # "c2"
      BY <2>2, <3>1 DEF Links
    <3>2. "c2" \in Clients /\ "c2" \notin Others
      BY <1>3, Names
    <3>3. CASE Accepts
      BY <3>2, <3>3 DEF Accepts
    <3>4. ASSUME NEW c \in Others, OtherComes(c) PROVE link'["c2"] = link["c2"]
      BY <3>2, <3>4 DEF OtherComes
    <3>5. ASSUME NEW k \in Attempts, Links(k) PROVE link'["c2"] = link["c2"]
      BY <3>1, <3>2, <3>5 DEF Links
    <3> QED
      BY <3>3, <3>4, <3>5 DEF StartStep, Writes, HalfDone, Joined, Fails, ContextLeaves,
         FrameLeaves, Resolves, Closes, Starts, OnlyLua, Listens, Stores, OtherGoes
  <2>5. faults # 0 => faults' # 0
    BY StepGrows DEF Grows
  <2> QED
    BY <1>2, <2>2, <2>3, <2>4, <2>5
<1> QED
  BY <1>2, <1>6, <1>7, <1>8, <1>9 DEF AttemptInv

LEMMA AttemptLua ==
    ASSUME SocketsInv, AttemptInv, CalmInv, StartStep, OnlyLua, LuaThread
    PROVE  AttemptInv'
<1> SUFFICES ASSUME InTime' PROVE AttemptInv'
  BY DEF AttemptInv
<1> USE DEF SocketsInv
<1>1. /\ InTime /\ luaPc # "gone" /\ luaPc' # "gone"
      /\ connection["ctx"] \in {attempt, Nobody}
  BY InTimeBefore DEF InTime
<1>2. /\ connection' = connection /\ link' = link /\ (faults # 0 => faults' # 0)
      /\ \A k : Stage(k)' = Stage(k) /\ Count(k)' = Count(k)
  BY StepGrows DEF OnlyLua, Stage, Count, Grows
<1>3. /\ attempt \in {"c1", "c2"} /\ Nobody \notin Attempts /\ "c1" \in Attempts
      /\ "c2" \in Attempts /\ "c1" \in Clients /\ "c2" \in Clients
      /\ isFailed \in BOOLEAN /\ inEnd["ctx"] \in BOOLEAN
  BY Names DEF StartTypeOK, Attempts, Nobody
<1>4. /\ attempt = "c2" => Stage("c1") = "over" /\ connection["ctx"] # "c1"
      /\ inEnd["ctx"] =>
             /\ Stage(attempt) = "over" /\ Count(attempt) = 2
             /\ connection["ctx"] = Nobody /\ luaPc \notin {"connect", "execute"}
      /\ isFailed /\ (attempt = "c1" \/ luaPc \in {"wait", "tested"}) =>
             Stage(attempt) = "over" /\ Count(attempt) < 2
  BY <1>1 DEF AttemptInv
<1>5. \A k : connection["ctx"] = k /\ k # Nobody => Stage(k) = "over" /\ Count(k) = 2
  BY DEF ContextEndInv
<1>6. CASE StartContext
  <2>1. luaPc = "connect" /\ Stage(attempt) = "unused"
    BY <1>6 DEF StartContext, LuaInv
  <2>2. connection["ctx"] = Nobody
    BY <1>1, <1>5, <2>1
  <2>3. luaPc' = "started" /\ UNCHANGED <<attempt, isFailed, inEnd>>
    BY <1>6, <2>2 DEF StartContext
  <2>4. ~inEnd["ctx"] /\ (attempt = "c1" => ~isFailed)
    BY <1>4, <2>1
  <2> QED
    BY <1>2, <1>4, <2>3, <2>4 DEF AttemptInv
<1>7. CASE StoreConnector
  <2>1. luaPc = "started" /\ luaPc' = "wait" /\ isFailed' = FALSE
        /\ UNCHANGED <<attempt, inEnd>>
    BY <1>7 DEF StoreConnector
  <2> QED
    BY <1>2, <1>4, <2>1 DEF AttemptInv
<1>8. CASE TestConnecting
  <2>1. luaPc = "wait" /\ luaPc' \in {"running", "tested"}
        /\ UNCHANGED <<attempt, inEnd, isFailed>>
    BY <1>8 DEF TestConnecting
  <2> QED
    BY <1>2, <1>4, <2>1 DEF AttemptInv
<1>9. CASE TestFailed
  <2>1. luaPc = "tested" /\ isFailed' = isFailed
        /\ inEnd' = [inEnd EXCEPT !["ctx"] = @ /\ isFailed]
    BY <1>9 DEF TestFailed
  <2>2. inEnd'["ctx"] = FALSE
    <3>1. ~(inEnd["ctx"] /\ isFailed)
      BY <1>4, <2>1
    <3>2. inEnd'["ctx"] = (inEnd["ctx"] /\ isFailed)
      BY <2>1, Names DEF StartTypeOK
    <3> QED
      BY <1>3, <3>1, <3>2
  <2>3. CASE ~GivesUpWaiting
    <3>1. luaPc' = "wait" /\ attempt' = attempt
      BY <1>9, <2>3 DEF TestFailed
    <3> QED
      BY <1>2, <1>4, <2>1, <2>2, <3>1 DEF AttemptInv
  <2>4. CASE GivesUpWaiting
    <3>1. /\ luaPc' = (IF attempt = "c1" THEN "execute" ELSE "gaveup")
          /\ attempt' = "c2" /\ timedOut' = (timedOut \/ late)
      BY <1>9, <2>4 DEF TestFailed
    <3>2. isFailed \/ inEnd["ctx"]
      BY <2>4, <3>1 DEF GivesUpWaiting, InTime
    <3>3. Stage(attempt) = "over" /\ connection["ctx"] = Nobody
      BY <1>1, <1>4, <1>5, <2>1, <3>2
    <3>4. attempt = "c1" => Stage("c1") = "over" /\ connection["ctx"] # "c1"
      BY <1>3, <3>3
    <3>5. Stage("c1") = "over" /\ connection["ctx"] # "c1"
      BY <1>3, <1>4, <3>4
    <3>6. attempt = "c2" => faults # 0 \/ link["c2"] = "none"
      <4> SUFFICES ASSUME attempt = "c2", faults = 0, link["c2"] # "none" PROVE FALSE
        OBVIOUS
      <4>1. ~Disturbed /\ ~inEnd["ctx"]
        BY <1>1 DEF CalmInv
      <4>2. Stage("c2") = "over" /\ connection["ctx"] = Nobody
        BY <3>3
      <4>3. "client" \in shut["c2"]
        BY <1>3, <4>2 DEF ClientInv
      <4> QED
        BY <1>3, <4>1, <4>3 DEF Disturbed
    <3>7. luaPc' \in {"execute", "gaveup"} /\ (luaPc' = "gaveup" => attempt = "c2")
      BY <1>3, <3>1
    <3>8. luaPc' = "gaveup" => Stage("c2") \in {"over", "unused"}
      BY <3>3, <3>7
    <3> QED
      BY <1>2, <2>2, <3>1, <3>3, <3>5, <3>6, <3>7, <3>8 DEF AttemptInv
  <2> QED
    BY <2>3, <2>4
<1>10. CASE ExecuteFrame
  <2>1. /\ luaPc = "execute" /\ luaPc' \in {"connect", "gaveup"}
        /\ UNCHANGED <<attempt, inEnd, isFailed>>
    BY <1>10 DEF ExecuteFrame
  <2>2. attempt = "c2" /\ Stage("c2") = "unused" /\ ~inEnd["ctx"]
    BY <1>4, <2>1 DEF LuaInv
  <2>3. luaPc' = "gaveup" => faults' # 0
    <3>1. faults \in Nat
      BY StartTypes
    <3> QED
      BY <1>10, <3>1 DEF ExecuteFrame, Fault
  <2>4. connection["ctx"] = Nobody
    BY <1>1, <1>5, <2>2
  <2> QED
    BY <1>2, <1>4, <2>1, <2>2, <2>3, <2>4 DEF AttemptInv
<1> QED
  BY <1>6, <1>7, <1>8, <1>9, <1>10 DEF LuaThread

(* Without a disturbance there is at most one link, and no handshake fails.  *)
LEMMA CalmIs ==
    ASSUME SocketsInv, AttemptInv, CalmInv, StartStep, InTime', faults = 0
    PROVE  /\ InTime /\ ~Disturbed
           /\ \A c, d \in Clients : link[c] # "none" /\ link[d] # "none" => c = d
           /\ \A c \in Clients : link[c] # "none"
                => c \in Attempts /\ shut[c] = {} /\ "junk" \notin wrote[c]
           /\ \A c \in Clients : link[c] = "queued" => Stage("acceptor") = "accepting"
           /\ ~SomeSpoilt /\ ~Deaf
<1> USE DEF SocketsInv
<1>1. InTime /\ ~Disturbed /\ ~inEnd["frame"] /\ ~inEnd["ctx"]
  BY InTimeBefore DEF CalmInv
<1>2. /\ "c1" \in Attempts /\ "c2" \in Attempts /\ Attempts = {"c1", "c2"}
      /\ Attempts \subseteq Clients /\ accepted \in Clients \cup {Nobody}
      /\ attempt \in Attempts /\ \A c \in Clients : c \in Attempts \/ c \in Others
      /\ connection["frame"] \in Clients \cup {Nobody}
  BY Names DEF StartTypeOK
<1>3. \A c \in Clients : link[c] # "none" => c \in Attempts /\ shut[c] = {}
        /\ "junk" \notin wrote[c]
  <2> SUFFICES ASSUME NEW c \in Clients, link[c] # "none"
               PROVE  c \in Attempts /\ shut[c] = {} /\ "junk" \notin wrote[c]
    OBVIOUS
  <2>1. c \notin Others
    BY DEF QueueInv
  <2> QED
    BY <1>1, <1>2, <2>1 DEF Disturbed, WroteInv
<1>4. \A c \in Attempts : link[c] # "none" => c = attempt
  <2>1. attempt = "c1" => link["c2"] = "none"
    BY <1>1, <1>2 DEF InTime, LuaInv, LineInv, NotYet
  <2>2. attempt = "c2" => link["c1"] = "none"
    BY <1>1 DEF CalmInv
  <2> QED
    BY <1>2, <2>1, <2>2
<1>5. ~SomeSpoilt
  BY <1>3 DEF SomeSpoilt, Spoilt
<1>6. ~(accepted # Nobody /\ ("junk" \in wrote[accepted] \/ "client" \in shut[accepted]))
  BY <1>2, <1>3 DEF LineInv
<1>7. ~Deaf
  BY <1>6 DEF Deaf, GaveUpInv, Stage
<1>8. ASSUME NEW c \in Clients, link[c] = "queued" PROVE Stage("acceptor") = "accepting"
  <2>1. AcceptorOpen
    BY <1>3, <1>8 DEF QueueInv
  <2>2. \A d \in Clients : link[d] # "accepted"
    BY <1>3, <1>4, <1>8
  <2>3. accepted = Nobody /\ connection["frame"] = Nobody
    BY <1>2, <2>2 DEF LineInv, FrameEndInv
  <2>4. ~OnALink("acceptor")
    BY <2>3 DEF LineInv
  <2>5. CASE held["frame"] = "acceptor"
    <3>1. fpc = "idle"
      BY <2>5, Names DEF FrameEndInv
    <3>2. ConnectorInv("acceptor") /\ Stage("acceptor") \in {"unused", "resolving", "connecting",
                 "accepting", "confirming", "over"}
      BY Names, StartTypes DEF Records, Stage
    <3>3. Stage("acceptor") \notin {"unused", "over", "confirming", "resolving", "connecting"}
      BY <1>1, <2>3, <2>4, <3>1, <3>2 DEF GaveUpInv, OnALink, ConnectorInv
    <3> QED
      BY <3>2, <3>3
  <2>6. CASE held["frame"] # "acceptor"
    BY <2>1, <2>4, <2>6, OpenIs
  <2> QED
    BY <2>5, <2>6
<1>9. \A c, d \in Clients : link[c] # "none" /\ link[d] # "none" => c = d
  BY <1>3, <1>4
<1> QED
  BY <1>1, <1>3, <1>5, <1>7, <1>8, <1>9

LEMMA CalmStep ==
    ASSUME SocketsInv, AttemptInv, CalmInv, StartStep
    PROVE  CalmInv'
<1> SUFFICES ASSUME InTime', faults' = 0 PROVE CalmInv'
  BY DEF CalmInv
<1> USE DEF SocketsInv
<1>1. faults = 0
  BY StepGrows DEF Grows
<1>2. /\ InTime /\ ~Disturbed /\ ~SomeSpoilt /\ ~Deaf
      /\ \A c, d \in Clients : link[c] # "none" /\ link[d] # "none" => c = d
      /\ \A c \in Clients : link[c] # "none"
            => c \in Attempts /\ shut[c] = {} /\ "junk" \notin wrote[c]
      /\ \A c \in Clients : link[c] = "queued" => Stage("acceptor") = "accepting"
  BY <1>1, CalmIs
<1>3. /\ attempt = "c2" => link["c1"] = "none"
      /\ fpc = "absent" => \A c \in Clients : link[c] = "none"
      /\ fpc # "exited" /\ ~inEnd["ctx"] /\ ~inEnd["frame"]
      /\ luaPc # "gone" /\ luaPc' # "gone"
  BY <1>1, <1>2 DEF CalmInv, InTime
<1>4. /\ Ends = {"ctx", "frame"} /\ "c1" \in Clients /\ "c1" \in Attempts
      /\ Attempts \subseteq Clients /\ "acceptor" \in Connectors
      /\ accepted \in Clients \cup {Nobody} /\ "c1" \notin Others
      /\ \A e \in Ends : connection[e] \in Clients \cup {Nobody}
  BY Names DEF StartTypeOK
(* No handshake fails, and no session ends. *)
<1>5. \A k \in Connectors : Fails(k)
         => k \in Attempts /\ link[k] = "none" /\ Line(k) = k /\ Engine(k) = "ctx"
            /\ Becomes(k, "over", Pending(k), Count(k), FALSE)
  <2> SUFFICES ASSUME NEW k \in Connectors, Fails(k)
               PROVE  k \in Attempts /\ link[k] = "none" /\ Line(k) = k /\ Engine(k) = "ctx"
                      /\ Becomes(k, "over", Pending(k), Count(k), FALSE)
    OBVIOUS
  <2>1. CASE k \in Attempts /\ Stage(k) \in {"resolving", "connecting"}
             /\ Becomes(k, "over", Pending(k), Count(k), FALSE)
    BY <2>1 DEF LineInv, NotYet, Line, Engine, Attempts
  <2>2. ASSUME NEW op \in Pending(k),
               OtherSide(k) \in shut[Line(k)] \/ "junk" \in wrote[Line(k)]
        PROVE  FALSE
    <3>1. Line(k) \in Clients /\ link[Line(k)] # "none"
      BY <2>2, LineIs DEF OnALink
    <3> QED
      BY <1>2, <2>2, <3>1
  <2> QED
    BY <2>1, <2>2 DEF Fails
<1>6. ASSUME NEW e \in Ends, Closes(e) PROVE FALSE
  <2>1. connection[e] \in Clients /\ shut[connection[e]] # {}
    BY <1>4, <1>6 DEF Closes
  <2>2. link[connection[e]] # "none"
    <3>1. CASE e = "ctx"
      BY <1>4, <1>6, <2>1, <3>1 DEF Closes, ContextEndInv, WroteInv
    <3>2. CASE e = "frame"
      BY <1>6, <3>2 DEF Closes, FrameEndInv
    <3> QED
      BY <1>4, <3>1, <3>2
  <2> QED
    BY <1>2, <2>1, <2>2
<1>7. \A k \in Connectors, op \in Both : Joined(k, op) => connection[Engine(k)] = Nobody
  <2> SUFFICES ASSUME NEW k \in Connectors, NEW op \in Both, Joined(k, op),
                      connection[Engine(k)] # Nobody
               PROVE  FALSE
    OBVIOUS
  <2>1. ConnectorInv(k) /\ op \in Pending(k) /\ Count(k) + 1 >= 2 /\ Count(k) \in 0 .. 2
    BY StartTypes DEF Joined
  <2>2. CASE k = "acceptor"
    BY <2>1, <2>2 DEF FrameEndInv, Engine, ConnectorInv
  <2>3. CASE k \in Attempts
    <3>1. Engine(k) = "ctx"
      BY <2>3 DEF Engine, Attempts
    <3>2. k = attempt /\ connection["ctx"] = k
      BY <2>3, <3>1, InTimeBefore
    <3> QED
      BY <2>1, <3>1, <3>2 DEF ContextEndInv, ConnectorInv
  <2> QED
    BY <2>2, <2>3, Names
<1>8. FrameLeaves => fpc' = "launch" /\ fpc = "absent"
  BY <1>2, <1>3 DEF FrameLeaves
<1>9. ~ContextLeaves
  BY <1>3 DEF ContextLeaves
(* The frame still stands. *)
<1>10. fpc' # "exited" /\ ~inEnd'["frame"] /\ ~inEnd'["ctx"] /\ (fpc' = "absent" => fpc = "absent")
  <2>1. FrameLeaves \/ Listens => inEnd'["ctx"] = inEnd["ctx"] /\ ~inEnd'["frame"]
                                  /\ fpc' \notin {"exited", "absent"}
    BY <1>8, Names DEF FrameLeaves, Listens, Told
  <2>2. OnlyLua => ~inEnd'["ctx"] /\ ~inEnd'["frame"] /\ fpc' = fpc
    <3>1. LuaThread => ~inEnd'["ctx"]
      BY <1>3, <1>4 DEF LuaThread, StartContext, StoreConnector, TestConnecting, TestFailed,
         ExecuteFrame, StartTypeOK
    <3> QED
      BY <1>3, <3>1 DEF OnlyLua
  <2> QED
    BY <1>3, <1>6, <1>9, <2>1, <2>2 DEF StartStep, Writes, HalfDone, Joined, Resolves, Fails,
       Links, Accepts, Starts, Stores, OtherComes, OtherGoes
(* Who has a link keeps it whole. *)
<1>11. ASSUME NEW c \in Clients, link'[c] # "none" PROVE shut'[c] = {}
  <2>1. link[c] # "none" => shut[c] = {}
    BY <1>2
  <2>2. link[c] # "none" /\ shut' = shut => shut'[c] = {}
    BY <2>1
  <2>3. \A C, side : Shuts(C, side) /\ c \notin C /\ link[c] # "none"
           /\ (link[c] = "queued" => AcceptorOpen') => shut'[c] = {}
    BY <2>1 DEF Shuts
  <2>4. link[c] = "queued" /\ Stage("acceptor")' = Stage("acceptor") => AcceptorOpen'
    BY <1>2 DEF AcceptorOpen, Stage
  <2>5. link[c] = "queued" => Pending("acceptor") = {}
    BY <1>2, <1>4 DEF ConnectorInv
  <2>6. ASSUME NEW k \in Connectors, NEW op \in Both, HalfDone(k, op) \/ Joined(k, op)
        PROVE  shut'[c] = {}
    <3>1. link[c] # "none" /\ op \in Pending(k)
      BY <1>11, <2>6 DEF HalfDone, Joined
    <3>2. link[c] = "queued" => k # "acceptor"
      BY <2>5, <3>1
    <3>3. k # "acceptor" => Stage("acceptor")' = Stage("acceptor")
      BY <1>4, <2>6, OthersStay DEF HalfDone, Joined
    <3>4. Shuts({}, "client")
      BY <1>7, <2>6 DEF HalfDone, Joined
    <3> QED
      BY <2>3, <2>4, <3>1, <3>2, <3>3, <3>4
  <2>7. ASSUME NEW k \in Connectors, Fails(k) PROVE shut'[c] = {}
    <3>1. /\ k \in Attempts /\ link[k] = "none" /\ Line(k) = k
          /\ Becomes(k, "over", Pending(k), Count(k), FALSE)
      BY <1>5, <2>7
    <3>2. link[c] # "none" /\ c # k /\ Shuts({k}, Side(k))
      BY <1>11, <2>7, <3>1 DEF Fails
    <3>3. Stage("acceptor")' = Stage("acceptor")
      BY <1>4, <3>1, OthersStay, Names DEF Attempts
    <3> QED
      BY <2>3, <2>4, <3>2, <3>3
  <2>8. ~FrameLeaves
    BY <1>3, <1>8, <1>11 DEF FrameLeaves
  <2>9. ASSUME NEW k \in Attempts, Links(k) PROVE shut'[c] = {}
    <3>1. shut' = shut /\ link[k] = "none" /\ shut[k] = {}
      BY <2>9 DEF Links, LineInv, NotYet
    <3>2. c = k \/ link[c] # "none"
      BY <1>11, <2>9 DEF Links
    <3> QED
      BY <2>1, <3>1, <3>2
  <2>10. CASE Accepts
    <3>1. shut' = shut /\ link[c] # "none"
      BY <1>11, <2>10 DEF Accepts
    <3> QED
      BY <2>2, <3>1
  <2>11. ASSUME NEW d \in Others, OtherComes(d) \/ OtherGoes(d) PROVE FALSE
    <3>1. d \in Clients /\ d \notin Attempts
      BY Names
    <3> QED
      BY <1>1, <1>2, <2>11, <3>1 DEF OtherComes, OtherGoes
  <2> QED
    BY <1>6, <1>9, <1>11, <2>2, <2>6, <2>7, <2>8, <2>9, <2>10, <2>11
    DEF StartStep, Writes, Resolves, Starts, OnlyLua, Listens, Stores
(* An attempt that is left in time has no link. *)
<1>12. attempt' = "c2" => link'["c1"] = "none"
  <2>1. CASE attempt = "c2"
    <3>1. Stage("c1") = "over"
      BY <1>2, <2>1 DEF AttemptInv
    <3>2. ASSUME NEW k \in Attempts, Links(k) PROVE k # "c1"
      BY <3>1, <3>2 DEF Links
    <3>3. ASSUME NEW k \in Attempts, Links(k) PROVE link'["c1"] = link["c1"]
      BY <1>4, <3>2, <3>3 DEF Links
    <3>4. CASE Accepts
      BY <1>3, <1>4, <2>1, <3>4 DEF Accepts
    <3>5. ASSUME NEW c \in Others, OtherComes(c) PROVE link'["c1"] = link["c1"]
      BY <1>4, <3>5 DEF OtherComes
    <3> QED
      BY <1>3, <2>1, <3>3, <3>4, <3>5 DEF StartStep, Writes, HalfDone, Joined, Fails,
         ContextLeaves, FrameLeaves, Resolves, Closes, Starts, OnlyLua, Listens, Stores, OtherGoes
  <2>2. CASE attempt # "c2"
    <3> SUFFICES ASSUME attempt' = "c2" PROVE link'["c1"] = "none"
      OBVIOUS
    <3>1. OnlyLua /\ LuaThread
      BY <2>2 DEF StartStep, luaVars, Writes, HalfDone, Joined, Fails, ContextLeaves,
         FrameLeaves, Resolves, Links, Accepts, Closes, Starts, OnlyLua, Listens, Stores,
         OtherComes, OtherGoes
    <3>2. TestFailed
      BY <2>2, <3>1 DEF LuaThread, StartContext, StoreConnector, TestConnecting, ExecuteFrame
    <3>3. isFailed /\ attempt = "c1" /\ link' = link
      <4>1. GivesUpWaiting /\ ~late
        BY <2>2, <3>2 DEF TestFailed, InTime
      <4>2. attempt = "c1"
        BY <2>2, Names DEF StartTypeOK
      <4> QED
        BY <1>3, <3>1, <4>1, <4>2 DEF GivesUpWaiting, OnlyLua
    <3>4. Stage("c1") = "over" /\ Count("c1") < 2
      BY <1>2, <3>3 DEF AttemptInv
    <3>5. connection["ctx"] # "c1"
      BY <3>4, Names DEF ContextEndInv
    <3>6. link["c1"] = "none" \/ "client" \in shut["c1"]
      BY <1>4, <3>4, <3>5 DEF ClientInv
    <3> QED
      BY <1>2, <1>4, <3>3, <3>6
  <2> QED
    BY <2>1, <2>2
(* Nobody comes to a frame that is not there. *)
<1>13. fpc' = "absent" => \A c \in Clients : link'[c] = "none"
  <2> SUFFICES ASSUME fpc' = "absent", NEW c \in Clients PROVE link'[c] = "none"
    OBVIOUS
  <2>1. fpc = "absent" /\ link[c] = "none" /\ ~AcceptorOpen
    <3>1. fpc = "absent"
      BY <1>10
    <3> QED
      BY <1>3, <3>1, OpenIs
  <2>2. ~Accepts
    BY <1>3, <2>1 DEF Accepts
  <2> QED
    BY <2>1, <2>2 DEF StartStep, Writes, HalfDone, Joined, Fails, ContextLeaves,
         FrameLeaves, Resolves, Links, Closes, Starts, OnlyLua, Listens, Stores,
         OtherComes, OtherGoes
<1> QED
  BY <1>10, <1>11, <1>12, <1>13 DEF CalmInv, Disturbed

(* The context says that "the frame was not found", and runs without one,    *)
(* only after an attempt that ran out of time, or when there is no session   *)
(* and the frame could not be started or did not listen yet                  *)
(* (Context::CreateDebuggerFrame).                                           *)
THEOREM GivesUpOnlyForACause == StartSpec => []GivenUpForACause
<1> DEFINE Inv == SocketsInv /\ AttemptInv /\ CalmInv
<1>1. StartInit => Inv
  <2> SUFFICES ASSUME StartInit PROVE AttemptInv /\ CalmInv
    BY SocketsStart
  <2>1. /\ attempt = "c1" /\ luaPc = "connect" /\ isFailed = FALSE
        /\ inEnd["ctx"] = FALSE /\ inEnd["frame"] = FALSE
        /\ \A c \in Clients : link[c] = "none"
        /\ fpc # "exited"
    BY Names DEF StartInit
  <2> QED
    BY <2>1 DEF AttemptInv, CalmInv, Disturbed
<1>2. Inv /\ [StartNext]_startVars => Inv'
  <2> SUFFICES ASSUME Inv, [StartNext]_startVars PROVE Inv'
    OBVIOUS
  <2>1. SocketsInv' /\ StartStep
    BY SocketsStep
  <2>2. AttemptInv'
    <3>1. CASE OnlyLua => UNCHANGED <<luaPc, attempt, timedOut, isFailed, inEnd>>
      BY <2>1, <3>1, AttemptKept
    <3>2. CASE OnlyLua /\ LuaThread
      BY <2>1, <3>2, AttemptLua
    <3> QED
      BY <3>1, <3>2 DEF OnlyLua
  <2>3. CalmInv'
    BY <2>1, CalmStep
  <2> QED
    BY <2>1, <2>2, <2>3
<1>3. Inv => GivenUpForACause
  <2> SUFFICES ASSUME Inv, luaPc = "gaveup", ~timedOut
               PROVE  connection["ctx"] = Nobody /\ (faults > 0 \/ link["c2"] = "none")
    BY DEF GivenUpForACause
  <2>1. faults \in Nat
    BY StartTypes DEF SocketsInv
  <2> QED
    BY <2>1 DEF AttemptInv, InTime
<1> QED
  BY <1>1, <1>2, <1>3, PTL DEF StartSpec

=============================================================================
