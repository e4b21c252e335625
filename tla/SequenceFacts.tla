--------------------------- MODULE SequenceFacts ---------------------------
(* What the queues of this project do to the elements: the facts about       *)
(* Append, Tail and taking off the last element that the proofs cite, and    *)
(* to how many of the elements are in a set, which is counted by the         *)
(* cardinality of their positions: no induction over the queue is needed.    *)
EXTENDS Integers, Sequences, SequenceTheorems, FiniteSetTheorems,
        FunctionTheorems, TLAPS

(* Append puts the new element last and keeps the others where they are.     *)
LEMMA AppendFacts ==
    ASSUME NEW S, NEW s \in Seq(S), NEW m \in S
    PROVE  /\ Append(s, m) \in Seq(S)
           /\ DOMAIN Append(s, m) = 1 .. Len(s) + 1
           /\ DOMAIN s = 1 .. Len(s)
           /\ Len(s) \in Nat
           /\ Append(s, m)[Len(s) + 1] = m
           /\ \A i \in DOMAIN s : Append(s, m)[i] = s[i]
           /\ \A i \in DOMAIN Append(s, m) : i \in DOMAIN s \/ i = Len(s) + 1
           /\ Len(s) + 1 \notin DOMAIN s
<1>1. Len(s) \in Nat /\ DOMAIN s = 1 .. Len(s)
  BY LenProperties
<1>2. /\ Append(s, m) \in Seq(S)
      /\ Len(Append(s, m)) = Len(s) + 1
      /\ \A i \in 1 .. Len(s) : Append(s, m)[i] = s[i]
      /\ Append(s, m)[Len(s) + 1] = m
  BY AppendProperties
<1>3. DOMAIN Append(s, m) = 1 .. Len(s) + 1
  BY <1>2, LenProperties
<1>4. \A n \in Nat : /\ n + 1 \notin 1 .. n
                     /\ \A i \in 1 .. n + 1 : i \in 1 .. n \/ i = n + 1
  OBVIOUS
<1> QED
  BY ONLY <1>1, <1>2, <1>3, <1>4

(* Taking the first element moves the others up by one.                      *)
LEMMA TailFacts ==
    ASSUME NEW S, NEW s \in Seq(S), s # <<>>
    PROVE  /\ Head(s) \in S /\ Head(s) = s[1] /\ 1 \in DOMAIN s
           /\ Tail(s) \in Seq(S)
           /\ \A i \in DOMAIN Tail(s) : /\ i + 1 \in DOMAIN s
                                       /\ i + 1 # 1
                                       /\ i \in Nat
                                       /\ Tail(s)[i] = s[i + 1]
<1>1. /\ Head(s) \in S /\ Tail(s) \in Seq(S)
      /\ Len(Tail(s)) = Len(s) - 1
      /\ \A i \in 1 .. Len(Tail(s)) : Tail(s)[i] = s[i + 1]
  BY HeadTailProperties
<1>2. Len(s) \in Nat /\ Len(s) # 0 /\ DOMAIN s = 1 .. Len(s)
  BY LenProperties, EmptySeq
<1>3. DOMAIN Tail(s) = 1 .. Len(Tail(s))
  BY <1>1, LenProperties
<1>4. \A n \in Nat : n # 0 => /\ 1 \in 1 .. n
                              /\ \A i \in 1 .. n - 1 : /\ i + 1 \in 1 .. n
                                                       /\ i + 1 # 1 /\ i \in Nat
  OBVIOUS
<1>5. Head(s) = s[1]
  OBVIOUS
<1> QED
  BY ONLY <1>1, <1>2, <1>3, <1>4, <1>5

(* Taking the last element leaves the others where they are.                 *)
LEMMA FrontFacts ==
    ASSUME NEW S, NEW s \in Seq(S), s # <<>>
    PROVE  /\ Len(s) \in DOMAIN s
           /\ s[Len(s)] \in S
           /\ SubSeq(s, 1, Len(s) - 1) \in Seq(S)
           /\ \A i \in DOMAIN SubSeq(s, 1, Len(s) - 1) :
                 i \in DOMAIN s /\ SubSeq(s, 1, Len(s) - 1)[i] = s[i]
<1>1. Len(s) \in Nat /\ Len(s) # 0 /\ DOMAIN s = 1 .. Len(s)
  BY LenProperties, EmptySeq
<1>2. Len(s) \in DOMAIN s /\ s[Len(s)] \in S
  BY <1>1, ElementOfSeq
<1>3. \A n \in Nat : n # 0 => n - 1 \in 0 .. n /\ n - 1 \in Nat
                              /\ \A i \in 1 .. n - 1 : i \in 1 .. n
  OBVIOUS
<1>4. /\ SubSeq(s, 1, Len(s) - 1) \in Seq(S)
      /\ DOMAIN SubSeq(s, 1, Len(s) - 1) = 1 .. Len(s) - 1
      /\ \A i \in 1 .. Len(s) - 1 : SubSeq(s, 1, Len(s) - 1)[i] = s[i]
  <2>1. \A i \in 1 .. Len(s) - 1 : s[i] \in S
    BY <1>1, <1>3, ElementOfSeq
  <2>2. SubSeq(s, 1, Len(s) - 1) = [i \in 1 .. Len(s) - 1 |-> s[i]]
    BY <1>1, <1>3
  <2>3. [i \in 1 .. Len(s) - 1 |-> s[i]] \in Seq(S)
    BY <1>1, <1>3, <2>1
  <2> QED
    BY <2>2, <2>3
<1> QED
  BY ONLY <1>1, <1>2, <1>3, <1>4

(* Some natural numbers have a least one. *)
LEMMA LeastOfSome ==
    ASSUME NEW T \in SUBSET Nat, T # {}
    PROVE  \E n \in T : \A m \in T : n <= m
<1> DEFINE R == OpToRel(<, Nat)
<1>1. IsWellFoundedOn(R, Nat)
  BY NatLessThanWellFounded
<1>2. R = {p \in Nat \X Nat : p[1] < p[2]}
  BY DEF OpToRel
<1> HIDE DEF R
<1>3. PICK n \in T : \A m \in T : ~(<<m, n>> \in R)
  BY <1>1, WFMin
<1>4. ASSUME NEW m \in T PROVE n <= m
  <2>1. m \in Nat /\ n \in Nat
    OBVIOUS
  <2>2. <<m, n>> \notin {p \in Nat \X Nat : p[1] < p[2]}
    BY ONLY <1>2, <1>3, <1>4
  <2>3. <<m, n>> \in Nat \X Nat /\ <<m, n>>[1] = m /\ <<m, n>>[2] = n
    BY ONLY <2>1
  <2>4. ~(m < n)
    BY ONLY <2>2, <2>3
  <2> QED
    BY ONLY <2>1, <2>4
<1> QED
  BY <1>4

-----------------------------------------------------------------------------
(* Where the elements of A are, and how many. *)
Where(s, A) == {i \in DOMAIN s : s[i] \in A}
HowMany(s, A) == Cardinality(Where(s, A))
OneIf(m, A) == IF m \in A THEN 1 ELSE 0

LEMMA HowManyNat ==
    ASSUME NEW S, NEW s \in Seq(S), NEW A
    PROVE  /\ IsFiniteSet(Where(s, A))
           /\ HowMany(s, A) \in Nat
           /\ HowMany(s, A) = 0 <=> \A i \in DOMAIN s : s[i] \notin A
<1>1. Len(s) \in Nat /\ DOMAIN s = 1 .. Len(s)
  BY LenProperties
<1>2. IsFiniteSet(1 .. Len(s))
  BY <1>1, FS_Interval
<1>3. Where(s, A) \in SUBSET (1 .. Len(s))
  BY <1>1 DEF Where
<1>4. IsFiniteSet(Where(s, A))
  BY <1>2, <1>3, FS_Subset
<1>5. HowMany(s, A) = 0 <=> Where(s, A) = {}
  BY <1>4, FS_EmptySet DEF HowMany
<1>6. Where(s, A) = {} <=> \A i \in DOMAIN s : s[i] \notin A
  BY DEF Where
<1> QED
  BY <1>4, <1>5, <1>6, FS_CardinalityType DEF HowMany

LEMMA NoneInNothing ==
    ASSUME NEW s, s = <<>>, NEW A
    PROVE  HowMany(s, A) = 0
<1>1. Where(s, A) = {}
  BY DEF Where
<1> QED
  BY <1>1, FS_EmptySet DEF HowMany

LEMMA AppendCounts ==
    ASSUME NEW S, NEW s \in Seq(S), NEW m \in S, NEW A
    PROVE  HowMany(Append(s, m), A) = HowMany(s, A) + OneIf(m, A)
<1> DEFINE r == Append(s, m)
           n == Len(s) + 1
<1>1. /\ r \in Seq(S) /\ DOMAIN r = 1 .. n /\ DOMAIN s = 1 .. Len(s)
      /\ r[n] = m /\ \A i \in DOMAIN s : r[i] = s[i]
      /\ \A i \in DOMAIN r : i \in DOMAIN s \/ i = n
      /\ n \notin DOMAIN s /\ Len(s) \in Nat
  BY AppendFacts
<1>2. n \in 1 .. n /\ \A i \in 1 .. Len(s) : i \in 1 .. n
  BY <1>1
<1> HIDE DEF r, n
<1>3. n \notin Where(s, A)
  BY <1>1 DEF Where
<1>4. Where(r, A) = IF m \in A THEN Where(s, A) \cup {n} ELSE Where(s, A)
  BY <1>1, <1>2 DEF Where
<1>5. Cardinality(Where(s, A) \cup {n}) = Cardinality(Where(s, A)) + 1
  BY <1>3, HowManyNat, FS_AddElement
<1>6. Cardinality(Where(s, A)) \in Nat
  BY HowManyNat DEF HowMany
<1>7. HowMany(r, A) = HowMany(s, A) + OneIf(m, A)
  BY ONLY <1>4, <1>5, <1>6 DEF HowMany, OneIf
<1> QED
  BY <1>7 DEF r

LEMMA TailCounts ==
    ASSUME NEW S, NEW s \in Seq(S), s # <<>>, NEW A
    PROVE  HowMany(s, A) = HowMany(Tail(s), A) + OneIf(Head(s), A)
<1> DEFINE t == Tail(s)
           P == Where(t, A)
           Q == Where(s, A) \ {1}
           f == [i \in P |-> i + 1]
<1>1. /\ Head(s) = s[1] /\ 1 \in DOMAIN s /\ t \in Seq(S)
      /\ \A i \in DOMAIN t : /\ i + 1 \in DOMAIN s /\ i + 1 # 1 /\ i \in Nat
                             /\ t[i] = s[i + 1]
  BY TailFacts
<1>2. \A q \in DOMAIN s : q # 1 => q - 1 \in DOMAIN t /\ q = (q - 1) + 1
  <2>1. Len(s) \in Nat /\ DOMAIN s = 1 .. Len(s) /\ DOMAIN t = 1 .. Len(s) - 1
    BY <1>1, HeadTailProperties, LenProperties
  <2> HIDE DEF t
  <2> QED
    BY <2>1
<1> HIDE DEF t
<1>3. f \in [P -> Q]
  <2>1. \A i \in P : i + 1 \in Q
    BY <1>1 DEF Where
  <2> QED
    BY <2>1
<1>4. \A a, b \in P : f[a] = f[b] => a = b
  BY <1>1 DEF Where
<1>5. \A q \in Q : \E i \in P : f[i] = q
  <2> SUFFICES ASSUME NEW q \in Q PROVE \E i \in P : f[i] = q
    OBVIOUS
  <2>1. PICK i : i = q - 1
    OBVIOUS
  <2>2. q \in DOMAIN s /\ q # 1 /\ s[q] \in A
    BY DEF Where
  <2>3. i \in DOMAIN t /\ i + 1 = q
    BY <1>2, <2>1, <2>2
  <2>4. i \in P
    BY <1>1, <2>2, <2>3 DEF Where
  <2> QED
    BY <2>3, <2>4
<1>6. ExistsBijection(P, Q)
  BY <1>3, <1>4, <1>5, Fun_IsBij DEF ExistsBijection
<1>7. /\ IsFiniteSet(P) /\ Cardinality(P) \in Nat /\ HowMany(t, A) = Cardinality(P)
      /\ HowMany(s, A) = Cardinality(Where(s, A))
  BY <1>1, HowManyNat DEF HowMany
<1> HIDE DEF f, P, Q
<1>8. IsFiniteSet(Q) /\ Cardinality(Q) = Cardinality(P)
  BY <1>6, <1>7, FS_Bijection
<1>9. Cardinality(Q \cup {1}) = Cardinality(Q) + 1
  <2>1. 1 \notin Q
    BY DEF Q
  <2> QED
    BY <1>8, <2>1, FS_AddElement
<1>10. Where(s, A) = IF Head(s) \in A THEN Q \cup {1} ELSE Q
  BY <1>1 DEF Q, Where
<1>11. HowMany(s, A) = HowMany(t, A) + OneIf(Head(s), A)
  BY ONLY <1>7, <1>8, <1>9, <1>10 DEF OneIf
<1> QED
  BY <1>11 DEF t

LEMMA FrontCounts ==
    ASSUME NEW S, NEW s \in Seq(S), s # <<>>, NEW A
    PROVE  HowMany(s, A) = HowMany(SubSeq(s, 1, Len(s) - 1), A) + OneIf(s[Len(s)], A)
<1> DEFINE t == SubSeq(s, 1, Len(s) - 1)
           m == s[Len(s)]
<1>1. /\ Len(s) \in DOMAIN s /\ m \in S /\ t \in Seq(S)
  BY FrontFacts
<1>2. s = Append(t, m)
  BY <1>1, AppendProperties, LenProperties
<1>3. HowMany(Append(t, m), A) = HowMany(t, A) + OneIf(m, A)
  BY <1>1, AppendCounts
<1> QED
  BY <1>2, <1>3

-----------------------------------------------------------------------------
(* Queues that are appended to by concatenation.                             *)
LEMMA ConcatAppends ==
    ASSUME NEW S, NEW s \in Seq(S), NEW a \in S, NEW b \in S
    PROVE  /\ s \o <<>> = s
           /\ s \o <<a>> = Append(s, a)
           /\ s \o (<<>> \o <<b>>) = Append(s, b)
           /\ s \o (<<a>> \o <<b>>) = Append(Append(s, a), b)
<1>1. <<>> \in Seq(S) /\ <<a>> \in Seq(S) /\ <<b>> \in Seq(S)
  OBVIOUS
<1>2. s \o <<>> = s
  BY ConcatEmptySeq
<1>3. \A c \in S, t \in Seq(S) : t \o <<c>> = Append(t, c)
  <2> SUFFICES ASSUME NEW c \in S, NEW t \in Seq(S) PROVE t \o <<c>> = Append(t, c)
    OBVIOUS
  <2> QED
    BY AppendIsConcat
<1>4. <<>> \o <<b>> = <<b>>
  BY <1>1, ConcatEmptySeq
<1>5. s \o (<<a>> \o <<b>>) = (s \o <<a>>) \o <<b>>
  BY <1>1, ConcatAssociative
<1>6. Append(s, a) \in Seq(S)
  BY AppendProperties
<1> QED
  BY <1>2, <1>3, <1>4, <1>5, <1>6

-----------------------------------------------------------------------------
(* What is in a queue, and in which order.                                   *)
NoneIn(s, A) == \A i \in DOMAIN s : s[i] \notin A

(* Each element of A has one of B after it.                                  *)
Followed(s, A, B) ==
    \A i \in DOMAIN s : s[i] \in A => \E j \in DOMAIN s : j > i /\ s[j] \in B

(* Each element of A has one of B before it.                                 *)
Preceded(s, A, B) ==
    \A i \in DOMAIN s : s[i] \in A => \E j \in DOMAIN s : j < i /\ s[j] \in B

AtMostOne(s, A) ==
    \A i, j \in DOMAIN s : s[i] \in A /\ s[j] \in A => i = j

(* The last element of A is in B.                                            *)
LastIn(s, A, B) ==
    \A i \in DOMAIN s :
        s[i] \in A /\ (\A j \in DOMAIN s : j > i => s[j] \notin A) => s[i] \in B

LEMMA TailShift ==
    ASSUME NEW S, NEW s \in Seq(S), s # <<>>
    PROVE  /\ Head(s) = s[1] /\ 1 \in DOMAIN s
           /\ \A i \in DOMAIN Tail(s) : i \in Nat /\ i + 1 \in DOMAIN s
                                        /\ Tail(s)[i] = s[i + 1]
           /\ \A i \in DOMAIN s : i \in Nat
           /\ \A i \in DOMAIN s : \/ i = 1
                                  \/ /\ i - 1 \in DOMAIN Tail(s)
                                     /\ Tail(s)[i - 1] = s[i] /\ i > 1
<1> DEFINE t == Tail(s)
<1>1. /\ Head(s) = s[1] /\ 1 \in DOMAIN s /\ t \in Seq(S)
      /\ \A i \in DOMAIN t : /\ i + 1 \in DOMAIN s /\ i \in Nat
                             /\ t[i] = s[i + 1]
  BY TailFacts
<1>2. Len(s) \in Nat /\ DOMAIN s = 1 .. Len(s) /\ DOMAIN t = 1 .. Len(s) - 1
  BY HeadTailProperties, LenProperties
<1> HIDE DEF t
<1>3. ASSUME NEW i \in DOMAIN s, i # 1
      PROVE  i - 1 \in DOMAIN t /\ t[i - 1] = s[i] /\ i > 1
  <2>1. i - 1 \in DOMAIN t /\ (i - 1) + 1 = i /\ i > 1
    BY <1>2, <1>3
  <2> QED
    BY <1>1, <2>1
<1>4. \A i \in DOMAIN s : i \in Nat
  BY <1>2
<1> QED
  BY <1>1, <1>3, <1>4 DEF t

LEMMA AppendOrder ==
    ASSUME NEW S, NEW s \in Seq(S), NEW m \in S, NEW A, NEW B
    PROVE  /\ NoneIn(Append(s, m), A) <=> NoneIn(s, A) /\ m \notin A
           /\ m \notin A /\ (m \in B \/ Followed(s, A, B))
                  => Followed(Append(s, m), A, B)
           /\ Preceded(s, A, B) /\ (m \notin A \/ ~NoneIn(s, B))
                  => Preceded(Append(s, m), A, B)
           /\ AtMostOne(s, A) /\ (m \notin A \/ NoneIn(s, A))
                  => AtMostOne(Append(s, m), A)
           /\ m \in A /\ m \in B => LastIn(Append(s, m), A, B)
           /\ m \notin A /\ LastIn(s, A, B) => LastIn(Append(s, m), A, B)
<1> DEFINE r == Append(s, m)
           n == Len(s) + 1
<1>1. /\ DOMAIN r = 1 .. n /\ DOMAIN s = 1 .. Len(s)
      /\ r[n] = m /\ \A i \in DOMAIN s : r[i] = s[i]
      /\ \A i \in DOMAIN r : i \in DOMAIN s \/ i = n
      /\ n \notin DOMAIN s /\ Len(s) \in Nat
  BY AppendFacts
<1>2. /\ n \in DOMAIN r
      /\ \A i \in DOMAIN s : i \in DOMAIN r /\ n > i /\ i < n /\ ~(i > n) /\ i \in Nat
      /\ n \in Nat /\ ~(n > n)
  BY <1>1
<1>3. /\ r[n] = m
      /\ \A i \in DOMAIN s : r[i] = s[i]
      /\ \A i \in DOMAIN r : i \in DOMAIN s \/ i = n
  BY <1>1
<1> HIDE DEF r, n
<1>4. NoneIn(r, A) <=> NoneIn(s, A) /\ m \notin A
  BY ONLY <1>2, <1>3 DEF NoneIn
<1>5. m \notin A /\ (m \in B \/ Followed(s, A, B)) => Followed(r, A, B)
  BY ONLY <1>2, <1>3 DEF Followed
<1>6. Preceded(s, A, B) /\ (m \notin A \/ ~NoneIn(s, B)) => Preceded(r, A, B)
  <2>1. CASE m \notin A
    BY ONLY <1>2, <1>3, <2>1 DEF Preceded
  <2>2. CASE ~NoneIn(s, B)
    <3>1. PICK l \in DOMAIN s : s[l] \in B
      BY ONLY <2>2 DEF NoneIn
    <3> QED
      BY ONLY <1>2, <1>3, <3>1 DEF Preceded
  <2> QED
    BY <2>1, <2>2
<1>7. AtMostOne(s, A) /\ (m \notin A \/ NoneIn(s, A)) => AtMostOne(r, A)
  BY ONLY <1>2, <1>3 DEF AtMostOne, NoneIn
<1>8. m \in A /\ m \in B => LastIn(r, A, B)
  BY ONLY <1>2, <1>3 DEF LastIn
<1>9. m \notin A /\ LastIn(s, A, B) => LastIn(r, A, B)
  BY ONLY <1>2, <1>3 DEF LastIn
<1> QED
  BY <1>4, <1>5, <1>6, <1>7, <1>8, <1>9 DEF r

LEMMA TailOrder ==
    ASSUME NEW S, NEW s \in Seq(S), s # <<>>, NEW A, NEW B
    PROVE  /\ NoneIn(s, A) <=> NoneIn(Tail(s), A) /\ Head(s) \notin A
           /\ Followed(s, A, B) => Followed(Tail(s), A, B)
           /\ Followed(s, A, B) /\ Head(s) \in A => ~NoneIn(Tail(s), B)
           /\ Preceded(s, A, B) /\ Head(s) \notin B => Preceded(Tail(s), A, B)
           /\ Preceded(s, A, B) => Head(s) \notin A
           /\ AtMostOne(s, A) => AtMostOne(Tail(s), A)
           /\ AtMostOne(s, A) /\ Head(s) \in A => NoneIn(Tail(s), A)
           /\ LastIn(s, A, B) => LastIn(Tail(s), A, B)
           /\ LastIn(s, A, B) /\ Head(s) \in A /\ NoneIn(Tail(s), A) => Head(s) \in B
<1> DEFINE t == Tail(s)
           h == Head(s)
<1>1. /\ h = s[1] /\ 1 \in DOMAIN s
      /\ \A i \in DOMAIN t : i \in Nat /\ i + 1 \in DOMAIN s /\ t[i] = s[i + 1]
      /\ \A i \in DOMAIN s : i \in Nat
      /\ \A i \in DOMAIN s : \/ i = 1
                             \/ i - 1 \in DOMAIN t /\ t[i - 1] = s[i] /\ i > 1
  BY TailShift
<1>2. \A i \in DOMAIN t : t[i] = s[i + 1] /\ i + 1 \in DOMAIN s /\ i + 1 > 1
  <2>1. \A i \in DOMAIN t : i \in Nat => i + 1 > 1
    BY <1>1
  <2> QED
    BY <1>1, <2>1
<1>3. \A i \in DOMAIN s : i = 1 \/ \E j \in DOMAIN t : i = j + 1 /\ t[j] = s[i]
  <2>1. \A i \in DOMAIN s : i = (i - 1) + 1
    BY <1>1
  <2> QED
    BY <1>1, <2>1
<1>4. \A i, j \in DOMAIN t : /\ i > j <=> i + 1 > j + 1
                             /\ i < j <=> i + 1 < j + 1
                             /\ i = j <=> i + 1 = j + 1
                             /\ ~(i + 1 = 1) /\ ~(i + 1 < 1) /\ i + 1 > 1
                             /\ ~(1 > i + 1)
  <2>1. \A i, j \in Nat : /\ i > j <=> i + 1 > j + 1
                          /\ i < j <=> i + 1 < j + 1
                          /\ i = j <=> i + 1 = j + 1
                          /\ ~(i + 1 = 1 /\ i # 0)
    OBVIOUS
  <2>2. DOMAIN t \subseteq Nat \ {0}
    <3>1. t \in Seq(S)
      BY TailFacts
    <3> QED
      BY <3>1, LenProperties
  <2>3. \A i \in Nat \ {0} : ~(i + 1 = 1) /\ ~(i + 1 < 1) /\ i + 1 > 1
                            /\ ~(1 > i + 1)
    OBVIOUS
  <2> QED
    BY ONLY <2>1, <2>2, <2>3
<1>5. h = s[1] /\ 1 \in DOMAIN s /\ ~(1 > 1) /\ ~(1 < 1)
  BY <1>1
<1> HIDE DEF t, h
<1>6. NoneIn(s, A) <=> NoneIn(t, A) /\ h \notin A
  BY ONLY <1>2, <1>3, <1>5 DEF NoneIn
<1>7. ASSUME Followed(s, A, B)
      PROVE  Followed(t, A, B) /\ (h \in A => ~NoneIn(t, B))
  <2>1. ASSUME NEW i \in DOMAIN t, t[i] \in A
        PROVE  \E j \in DOMAIN t : j > i /\ t[j] \in B
    <3>1. PICK j \in DOMAIN s : j > i + 1 /\ s[j] \in B
      BY ONLY <1>2, <1>7, <2>1 DEF Followed
    <3>2. j # 1
      BY ONLY <1>4, <3>1, <2>1
    <3>3. PICK l \in DOMAIN t : j = l + 1 /\ t[l] = s[j]
      BY ONLY <1>3, <3>1, <3>2
    <3> QED
      BY ONLY <1>4, <2>1, <3>1, <3>3
  <2>2. ASSUME h \in A PROVE \E j \in DOMAIN t : t[j] \in B
    <3>1. PICK j \in DOMAIN s : j > 1 /\ s[j] \in B
      BY ONLY <1>5, <1>7, <2>2 DEF Followed
    <3> QED
      BY ONLY <1>3, <3>1, <1>5
  <2> QED
    BY <2>1, <2>2 DEF Followed, NoneIn
<1>8. ASSUME Preceded(s, A, B)
      PROVE  (h \notin B => Preceded(t, A, B)) /\ h \notin A
  <2>1. ASSUME NEW i \in DOMAIN t, t[i] \in A, h \notin B
        PROVE  \E j \in DOMAIN t : j < i /\ t[j] \in B
    <3>1. PICK j \in DOMAIN s : j < i + 1 /\ s[j] \in B
      BY ONLY <1>2, <1>8, <2>1 DEF Preceded
    <3>2. PICK l \in DOMAIN t : j = l + 1 /\ t[l] = s[j]
      BY ONLY <1>3, <1>5, <3>1, <2>1
    <3> QED
      BY ONLY <1>4, <3>1, <3>2
  <2>2. ASSUME h \in A PROVE FALSE
    <3>1. PICK j \in DOMAIN s : j < 1
      BY ONLY <1>5, <1>8, <2>2 DEF Preceded
    <3>2. j = 1 \/ j > 1
      BY <1>1
    <3>3. j \in Nat
      BY <1>1
    <3> QED
      BY ONLY <3>1, <3>2, <3>3
  <2> QED
    BY <2>1, <2>2 DEF Preceded
<1>9. AtMostOne(s, A) => AtMostOne(t, A)
  BY ONLY <1>2, <1>4 DEF AtMostOne
<1>10. AtMostOne(s, A) /\ h \in A => NoneIn(t, A)
  BY ONLY <1>2, <1>4, <1>5 DEF AtMostOne, NoneIn
<1>11. ASSUME LastIn(s, A, B) PROVE LastIn(t, A, B)
  <2> SUFFICES ASSUME NEW i \in DOMAIN t, t[i] \in A,
                      \A j \in DOMAIN t : j > i => t[j] \notin A
               PROVE  t[i] \in B
    BY DEF LastIn
  <2>1. ASSUME NEW j \in DOMAIN s, j > i + 1 PROVE s[j] \notin A
    <3>1. j # 1
      BY <1>4, <2>1
    <3>2. PICK l \in DOMAIN t : j = l + 1 /\ t[l] = s[j]
      BY <1>3, <3>1
    <3> QED
      BY <1>4, <2>1, <3>2
  <2> QED
    BY <1>2, <1>11, <2>1 DEF LastIn
<1>12. LastIn(s, A, B) /\ h \in A /\ NoneIn(t, A) => h \in B
  <2> SUFFICES ASSUME LastIn(s, A, B), h \in A, NoneIn(t, A) PROVE h \in B
    OBVIOUS
  <2>1. \A j \in DOMAIN s : j > 1 => s[j] \notin A
    BY ONLY <1>3, <1>5, NoneIn(t, A) DEF NoneIn
  <2> QED
    BY ONLY <1>5, <2>1, LastIn(s, A, B), h \in A DEF LastIn
<1> QED
  BY <1>6, <1>7, <1>8, <1>9, <1>10, <1>11, <1>12 DEF t, h

(* What arrives of a queue whose end is lost.                                *)
LEMMA PrefixFacts ==
    ASSUME NEW S, NEW s \in Seq(S), NEW n \in 0 .. Len(s), NEW A
    PROVE  /\ SubSeq(s, 1, n) \in Seq(S)
           /\ DOMAIN SubSeq(s, 1, n) = 1 .. n
           /\ \A i \in DOMAIN SubSeq(s, 1, n) :
                 i \in DOMAIN s /\ SubSeq(s, 1, n)[i] = s[i]
           /\ NoneIn(s, A) => NoneIn(SubSeq(s, 1, n), A)
           /\ AtMostOne(s, A) => AtMostOne(SubSeq(s, 1, n), A)
           /\ HowMany(SubSeq(s, 1, n), A) <= HowMany(s, A)
<1> DEFINE r == SubSeq(s, 1, n)
<1>1. Len(s) \in Nat /\ DOMAIN s = 1 .. Len(s)
  BY LenProperties
<1>2. n \in Nat /\ \A i \in 1 .. n : i \in DOMAIN s
  BY <1>1
<1>3. \A i \in 1 .. n : s[i] \in S
  BY <1>1, <1>2, ElementOfSeq
<1>4. r = [i \in 1 .. n |-> s[i]]
  BY <1>1
<1>5. r \in Seq(S)
  BY <1>2, <1>3, <1>4
<1>6. DOMAIN r = 1 .. n /\ \A i \in DOMAIN r : i \in DOMAIN s /\ r[i] = s[i]
  BY <1>2, <1>4
<1> HIDE DEF r
<1>7. NoneIn(s, A) => NoneIn(r, A)
  BY <1>6 DEF NoneIn
<1>8. AtMostOne(s, A) => AtMostOne(r, A)
  BY <1>6 DEF AtMostOne
<1>9. HowMany(r, A) <= HowMany(s, A)
  <2>1. Where(r, A) \in SUBSET Where(s, A)
    BY <1>6 DEF Where
  <2>2. IsFiniteSet(Where(s, A))
    BY HowManyNat
  <2> QED
    BY <2>1, <2>2, FS_Subset DEF HowMany
<1> QED
  BY <1>5, <1>6, <1>7, <1>8, <1>9 DEF r

-----------------------------------------------------------------------------
(* A queue whose elements switch something: b at first, on by those of A,    *)
(* off by those of B.  Whether it is on before the i-th element; before each *)
(* element of U; and when all are taken.                                     *)
OnAt(s, i, b, A, B) ==
    \/ b /\ \A j \in DOMAIN s : j < i => s[j] \notin B
    \/ \E l \in DOMAIN s : /\ l < i /\ s[l] \in A
                           /\ \A j \in DOMAIN s : l < j /\ j < i => s[j] \notin B

OnBefore(s, b, A, B, U) == \A i \in DOMAIN s : s[i] \in U => OnAt(s, i, b, A, B)
OnLast(s, b, A, B) == OnAt(s, Len(s) + 1, b, A, B)

LEMMA SwitchAppend ==
    ASSUME NEW S, NEW s \in Seq(S), NEW m \in S, NEW A, NEW B, NEW U, NEW b
    PROVE  /\ OnBefore(s, b, A, B, U) /\ (m \in U => OnLast(s, b, A, B))
                  => OnBefore(Append(s, m), b, A, B, U)
           /\ m \in A \/ (OnLast(s, b, A, B) /\ m \notin B)
                  => OnLast(Append(s, m), b, A, B)
<1> DEFINE r == Append(s, m)
           n == Len(s) + 1
<1>1. /\ DOMAIN r = 1 .. n /\ DOMAIN s = 1 .. Len(s) /\ Len(s) \in Nat
      /\ r[n] = m /\ \A i \in DOMAIN s : r[i] = s[i]
      /\ \A i \in DOMAIN r : i \in DOMAIN s \/ i = n
      /\ n \notin DOMAIN s
      /\ r \in Seq(S)
  BY AppendFacts, AppendProperties
<1>2. Len(r) = n
  BY AppendProperties
<1> HIDE DEF r
<1>3. /\ n \in DOMAIN r /\ \A i \in DOMAIN s : i \in DOMAIN r /\ i < n /\ i \in Nat
      /\ n \in Nat
  BY <1>1
<1>4. ASSUME NEW i \in Nat, i <= n, OnAt(s, i, b, A, B) PROVE OnAt(r, i, b, A, B)
  <2>1. \A j \in DOMAIN r : j < i => j \in DOMAIN s
    BY <1>1, <1>4
  <2>2. CASE b /\ \A j \in DOMAIN s : j < i => s[j] \notin B
    BY <1>1, <2>1, <2>2 DEF OnAt
  <2>3. CASE \E l \in DOMAIN s : /\ l < i /\ s[l] \in A
                                 /\ \A j \in DOMAIN s : l < j /\ j < i => s[j] \notin B
    <3>1. PICK l \in DOMAIN s : /\ l < i /\ s[l] \in A
                                /\ \A j \in DOMAIN s : l < j /\ j < i => s[j] \notin B
      BY <2>3
    <3>2. l \in DOMAIN r /\ r[l] \in A
      BY <1>1, <1>3, <3>1
    <3>3. \A j \in DOMAIN r : l < j /\ j < i => r[j] \notin B
      BY <1>1, <2>1, <3>1
    <3> QED
      BY <3>1, <3>2, <3>3 DEF OnAt
  <2> QED
    BY <1>4, <2>2, <2>3 DEF OnAt
<1>5. ASSUME OnBefore(s, b, A, B, U), m \in U => OnLast(s, b, A, B)
      PROVE  OnBefore(r, b, A, B, U)
  <2> SUFFICES ASSUME NEW i \in DOMAIN r, r[i] \in U PROVE OnAt(r, i, b, A, B)
    BY DEF OnBefore
  <2>1. i \in Nat /\ i <= n
    BY <1>1
  <2>2. OnAt(s, i, b, A, B)
    <3>1. CASE i \in DOMAIN s
      BY <1>1, <1>5, <3>1 DEF OnBefore
    <3>2. CASE i = n
      BY <1>1, <1>5, <3>2 DEF OnLast
    <3> QED
      BY <1>1, <3>1, <3>2
  <2> QED
    BY <1>4, <2>1, <2>2
<1>6. ASSUME m \in A PROVE OnAt(r, n + 1, b, A, B)
  <2>1. n < n + 1 /\ \A j \in Nat : ~(n < j /\ j < n + 1)
    BY <1>3
  <2>2. \A j \in DOMAIN r : j \in Nat
    BY <1>1
  <2> QED
    BY <1>1, <1>3, <1>6, <2>1, <2>2 DEF OnAt
<1>7. ASSUME OnLast(s, b, A, B), m \notin B PROVE OnAt(r, n + 1, b, A, B)
  <2>1. \A j \in DOMAIN s : j < n
    BY <1>3
  <2>2. CASE b /\ \A j \in DOMAIN s : j < n => s[j] \notin B
    BY <1>1, <1>7, <2>1, <2>2 DEF OnAt
  <2>3. CASE \E l \in DOMAIN s : /\ l < n /\ s[l] \in A
                                 /\ \A j \in DOMAIN s : l < j /\ j < n => s[j] \notin B
    <3>1. PICK l \in DOMAIN s : /\ l < n /\ s[l] \in A
                                /\ \A j \in DOMAIN s : l < j /\ j < n => s[j] \notin B
      BY <2>3
    <3>2. l \in DOMAIN r /\ r[l] \in A /\ l < n + 1
      BY <1>1, <1>3, <3>1
    <3>3. \A j \in DOMAIN r : l < j /\ j < n + 1 => r[j] \notin B
      BY <1>1, <1>7, <2>1, <3>1
    <3> QED
      BY <3>2, <3>3 DEF OnAt
  <2> QED
    BY <1>7, <2>2, <2>3 DEF OnAt, OnLast
<1> QED
  BY <1>2, <1>5, <1>6, <1>7 DEF r, OnLast

LEMMA SwitchTail ==
    ASSUME NEW S, NEW s \in Seq(S), s # <<>>, NEW A, NEW B, NEW U, NEW b, NEW c,
           Head(s) \in A => c, b /\ Head(s) \notin B => c
    PROVE  /\ OnBefore(s, b, A, B, U) => OnBefore(Tail(s), c, A, B, U)
           /\ OnLast(s, b, A, B) => OnLast(Tail(s), c, A, B)
<1> DEFINE t == Tail(s)
           h == Head(s)
<1>1. /\ h = s[1] /\ 1 \in DOMAIN s
      /\ \A i \in DOMAIN t : i \in Nat /\ i + 1 \in DOMAIN s /\ t[i] = s[i + 1]
      /\ \A i \in DOMAIN s : i \in Nat
      /\ \A i \in DOMAIN s : i = 1 \/ (i - 1 \in DOMAIN t /\ t[i - 1] = s[i] /\ i > 1)
  BY TailShift
<1>2. Len(s) \in Nat /\ Len(t) = Len(s) - 1 /\ DOMAIN s = 1 .. Len(s) /\ t \in Seq(S)
  BY HeadTailProperties, LenProperties
<1> HIDE DEF t
<1>3. DOMAIN s = 1 .. Len(s) /\ \A i \in DOMAIN s : i >= 1
  BY <1>2
<1>4. ASSUME NEW i \in Nat, OnAt(s, i + 1, b, A, B), i >= 1
      PROVE  OnAt(t, i, c, A, B)
  <2>1. CASE b /\ \A j \in DOMAIN s : j < i + 1 => s[j] \notin B
    <3>1. h \notin B
      BY <1>1, <1>4, <2>1
    <3>2. \A j \in DOMAIN t : j < i => t[j] \notin B
      BY <1>1, <2>1
    <3> QED
      BY <2>1, <3>1, <3>2 DEF OnAt
  <2>2. CASE \E l \in DOMAIN s : /\ l < i + 1 /\ s[l] \in A
                                 /\ \A j \in DOMAIN s : l < j /\ j < i + 1 => s[j] \notin B
    <3>1. PICK l \in DOMAIN s : /\ l < i + 1 /\ s[l] \in A
                                /\ \A j \in DOMAIN s : l < j /\ j < i + 1 => s[j] \notin B
      BY <2>2
    <3>2. CASE l = 1
      <4>1. c
        BY <1>1, <3>1, <3>2
      <4>2. \A j \in DOMAIN t : 1 < j + 1 /\ (j < i => j + 1 < i + 1)
        <5> SUFFICES ASSUME NEW j \in DOMAIN t PROVE 1 < j + 1 /\ (j < i => j + 1 < i + 1)
          OBVIOUS
        <5>1. j \in Nat /\ (j + 1) - 1 = j /\ (j + 1 = 1 \/ j + 1 > 1)
          BY <1>1, <1>3
        <5>2. j # 0
          <6>1. j + 1 <= Len(s) /\ j \in 1 .. Len(t)
            BY <1>1, <1>2, <1>3, LenProperties
          <6> QED
            BY <6>1
        <5> QED
          BY <5>1, <5>2
      <4>3. \A j \in DOMAIN t : j < i => t[j] \notin B
        BY <1>1, <3>1, <3>2, <4>2
      <4> QED
        BY <4>1, <4>3 DEF OnAt
    <3>3. CASE l # 1
      <4>1. l - 1 \in DOMAIN t /\ t[l - 1] = s[l] /\ l \in Nat
        BY <1>1, <3>3
      <4>2. l - 1 < i
        BY <3>1, <4>1
      <4>3. ASSUME NEW j \in DOMAIN t, l - 1 < j, j < i
            PROVE  l < j + 1 /\ j + 1 < i + 1
        <5>1. j \in Nat
          BY <1>1
        <5> QED
          BY ONLY <4>1, <4>3, <5>1, i \in Nat
      <4>4. \A j \in DOMAIN t : l - 1 < j /\ j < i => t[j] \notin B
        BY <1>1, <3>1, <4>3
      <4> QED
        BY <3>1, <4>1, <4>2, <4>4 DEF OnAt
    <3> QED
      BY <3>2, <3>3
  <2> QED
    BY <1>4, <2>1, <2>2 DEF OnAt
<1>5. ASSUME OnBefore(s, b, A, B, U) PROVE OnBefore(t, c, A, B, U)
  <2> SUFFICES ASSUME NEW i \in DOMAIN t, t[i] \in U PROVE OnAt(t, i, c, A, B)
    BY DEF OnBefore
  <2>1. i \in Nat /\ i >= 1
    BY <1>2, LenProperties
  <2>2. OnAt(s, i + 1, b, A, B)
    BY <1>1, <1>5 DEF OnBefore
  <2> QED
    BY <1>4, <2>1, <2>2
<1>6. ASSUME OnLast(s, b, A, B) PROVE OnLast(t, c, A, B)
  <2>1. Len(s) \in Nat /\ Len(s) >= 1 /\ Len(t) + 1 = Len(s)
    BY <1>1, <1>2
  <2>2. OnAt(t, Len(s), c, A, B)
    BY <1>4, <1>6, <2>1 DEF OnLast
  <2> QED
    BY <2>1, <2>2 DEF OnLast
<1> QED
  BY <1>5, <1>6 DEF t

LEMMA SwitchHead ==
    ASSUME NEW S, NEW s \in Seq(S), s # <<>>, NEW A, NEW B, NEW U, NEW b,
           OnBefore(s, b, A, B, U), Head(s) \in U
    PROVE  b
<1>1. Head(s) = s[1] /\ 1 \in DOMAIN s /\ \A l \in DOMAIN s : ~(l < 1)
  BY TailShift, LenProperties
<1>2. OnAt(s, 1, b, A, B)
  BY <1>1 DEF OnBefore
<1> QED
  BY <1>1, <1>2 DEF OnAt

LEMMA SwitchPrefix ==
    ASSUME NEW S, NEW s \in Seq(S), NEW n \in 0 .. Len(s), NEW A, NEW B, NEW U, NEW b,
           OnBefore(s, b, A, B, U)
    PROVE  OnBefore(SubSeq(s, 1, n), b, A, B, U)
<1> DEFINE r == SubSeq(s, 1, n)
<1>1. /\ DOMAIN r = 1 .. n
      /\ \A i \in DOMAIN r : i \in DOMAIN s /\ r[i] = s[i]
  BY PrefixFacts
<1>2. Len(s) \in Nat /\ n \in Nat /\ DOMAIN s = 1 .. Len(s)
  BY LenProperties
<1> HIDE DEF r
<1> SUFFICES ASSUME NEW i \in DOMAIN r, r[i] \in U PROVE OnAt(r, i, b, A, B)
  BY DEF OnBefore, r
<1>3. OnAt(s, i, b, A, B)
  BY <1>1 DEF OnBefore
<1>4. \A j \in DOMAIN s : j < i => j \in DOMAIN r
  BY <1>1, <1>2
<1>5. CASE b /\ \A j \in DOMAIN s : j < i => s[j] \notin B
  BY <1>1, <1>5 DEF OnAt
<1>6. CASE \E l \in DOMAIN s : /\ l < i /\ s[l] \in A
                               /\ \A j \in DOMAIN s : l < j /\ j < i => s[j] \notin B
  <2>1. PICK l \in DOMAIN s : /\ l < i /\ s[l] \in A
                              /\ \A j \in DOMAIN s : l < j /\ j < i => s[j] \notin B
    BY <1>6
  <2>2. l \in DOMAIN r /\ r[l] \in A
    BY <1>1, <1>4, <2>1
  <2>3. \A j \in DOMAIN r : l < j /\ j < i => r[j] \notin B
    BY <1>1, <2>1
  <2> QED
    BY <2>1, <2>2, <2>3 DEF OnAt
<1> QED
  BY <1>3, <1>5, <1>6 DEF OnAt

-----------------------------------------------------------------------------
(* What is in a queue when several elements come at once.                    *)

(* No element of B has one of A before it.                                   *)
NoneAfter(s, A, B) ==
    \A i, j \in DOMAIN s : i < j /\ s[i] \in A => s[j] \notin B

(* Each element of A that has one of C after it has one of B after it.       *)
FollowedFor(s, A, B, C) ==
    \A i, l \in DOMAIN s : i < l /\ s[i] \in A /\ s[l] \in C =>
        \E j \in DOMAIN s : j > i /\ s[j] \in B

LEMMA ConcatPlaces ==
    ASSUME NEW S, NEW s \in Seq(S), NEW u \in Seq(S)
    PROVE  /\ s \o u \in Seq(S) /\ Len(s) \in Nat
           /\ DOMAIN s \subseteq Nat \ {0} /\ DOMAIN u \subseteq Nat \ {0}
           /\ \A i \in DOMAIN s : i \in DOMAIN (s \o u) /\ (s \o u)[i] = s[i] /\ i <= Len(s)
           /\ \A i \in DOMAIN u : Len(s) + i \in DOMAIN (s \o u)
                                  /\ (s \o u)[Len(s) + i] = u[i]
           /\ \A i \in DOMAIN (s \o u) :
                 \/ i \in DOMAIN s /\ (s \o u)[i] = s[i] /\ i <= Len(s)
                 \/ \E j \in DOMAIN u : i = Len(s) + j /\ (s \o u)[i] = u[j]
<1> DEFINE r == s \o u
<1>1. /\ r \in Seq(S) /\ Len(r) = Len(s) + Len(u)
      /\ \A i \in 1 .. Len(s) + Len(u) :
            r[i] = IF i <= Len(s) THEN s[i] ELSE u[i - Len(s)]
  BY ConcatProperties
<1>2. /\ Len(s) \in Nat /\ Len(u) \in Nat
      /\ DOMAIN s = 1 .. Len(s) /\ DOMAIN u = 1 .. Len(u) /\ DOMAIN r = 1 .. Len(r)
  BY <1>1, LenProperties
<1>3. \A m, n \in Nat :
         /\ \A i \in 1 .. m : i \in 1 .. m + n /\ i <= m
         /\ \A i \in 1 .. n : m + i \in 1 .. m + n /\ ~(m + i <= m) /\ (m + i) - m = i
         /\ \A i \in 1 .. m + n : \/ i \in 1 .. m
                                  \/ i - m \in 1 .. n /\ i = m + (i - m) /\ ~(i <= m)
  OBVIOUS
<1> HIDE DEF r
<1>4. \A i \in DOMAIN s : i \in DOMAIN r /\ r[i] = s[i] /\ i <= Len(s)
  BY ONLY <1>1, <1>2, <1>3
<1>5. \A i \in DOMAIN u : Len(s) + i \in DOMAIN r /\ r[Len(s) + i] = u[i]
  BY ONLY <1>1, <1>2, <1>3
<1>6. \A i \in DOMAIN r : \/ i \in DOMAIN s /\ r[i] = s[i] /\ i <= Len(s)
                          \/ \E j \in DOMAIN u : i = Len(s) + j /\ r[i] = u[j]
  <2> SUFFICES ASSUME NEW i \in DOMAIN r, i \notin DOMAIN s
               PROVE  \E j \in DOMAIN u : i = Len(s) + j /\ r[i] = u[j]
    BY <1>4
  <2>1. i - Len(s) \in DOMAIN u /\ i = Len(s) + (i - Len(s)) /\ ~(i <= Len(s))
    BY ONLY <1>1, <1>2, <1>3, i \in DOMAIN r, i \notin DOMAIN s
  <2>2. r[i] = u[i - Len(s)]
    BY ONLY <1>1, <1>2, <2>1, i \in DOMAIN r
  <2> QED
    BY <2>1, <2>2
<1>7. DOMAIN s \subseteq Nat \ {0} /\ DOMAIN u \subseteq Nat \ {0}
  BY <1>2
<1> QED
  BY <1>1, <1>2, <1>4, <1>5, <1>6, <1>7 DEF r

LEMMA ConcatOrder ==
    ASSUME NEW S, NEW s \in Seq(S), NEW u \in Seq(S), NEW A, NEW B, NEW C
    PROVE  /\ s \o u \in Seq(S)
           /\ NoneIn(s \o u, A) <=> NoneIn(s, A) /\ NoneIn(u, A)
           /\ NoneIn(u, A) /\ (Followed(s, A, B) \/ ~NoneIn(u, B))
                  => Followed(s \o u, A, B)
           /\ NoneAfter(s, A, B) /\ NoneAfter(u, A, B) /\ (NoneIn(s, A) \/ NoneIn(u, B))
                  => NoneAfter(s \o u, A, B)
           /\ FollowedFor(s, A, B, C) /\ NoneIn(u, C) => FollowedFor(s \o u, A, B, C)
           /\ Followed(s, A, B) /\ NoneIn(u, A) => FollowedFor(s \o u, A, B, C)
           /\ NoneIn(u, A) => HowMany(s \o u, A) = HowMany(s, A)
<1> DEFINE r == s \o u
           n == Len(s)
<1>1. /\ r \in Seq(S) /\ n \in Nat
      /\ DOMAIN s \subseteq Nat \ {0} /\ DOMAIN u \subseteq Nat \ {0}
      /\ \A i \in DOMAIN s : i \in DOMAIN r /\ r[i] = s[i] /\ i <= n
      /\ \A i \in DOMAIN u : n + i \in DOMAIN r /\ r[n + i] = u[i]
      /\ \A i \in DOMAIN r :
            \/ i \in DOMAIN s /\ r[i] = s[i] /\ i <= n
            \/ \E j \in DOMAIN u : i = n + j /\ r[i] = u[j]
  BY ConcatPlaces
<1> HIDE DEF r, n
<1>2. /\ \A i \in DOMAIN s, j \in DOMAIN u : i < n + j /\ n + j > i /\ ~(n + j < i)
      /\ \A i, j \in DOMAIN u : n + i < n + j <=> i < j
  <2>1. /\ \A i, j \in Nat \ {0} : i <= n => i < n + j /\ n + j > i /\ ~(n + j < i)
        /\ \A i, j \in Nat \ {0} : n + i < n + j <=> i < j
    BY ONLY <1>1
  <2> QED
    BY ONLY <1>1, <2>1
<1>3. NoneIn(r, A) <=> NoneIn(s, A) /\ NoneIn(u, A)
  BY ONLY <1>1 DEF NoneIn
<1>4. ASSUME NoneIn(u, A), Followed(s, A, B) \/ ~NoneIn(u, B)
      PROVE  Followed(r, A, B)
  <2> SUFFICES ASSUME NEW i \in DOMAIN r, r[i] \in A
               PROVE  \E j \in DOMAIN r : j > i /\ r[j] \in B
    BY DEF Followed
  <2>1. i \in DOMAIN s /\ s[i] \in A
    BY <1>1, <1>4 DEF NoneIn
  <2>2. CASE Followed(s, A, B)
    BY <1>1, <2>1, <2>2 DEF Followed
  <2>3. CASE ~NoneIn(u, B)
    <3>1. PICK j \in DOMAIN u : u[j] \in B
      BY <2>3 DEF NoneIn
    <3> QED
      BY <1>1, <1>2, <2>1, <3>1
  <2> QED
    BY <1>4, <2>2, <2>3
<1>5. ASSUME NoneAfter(s, A, B), NoneAfter(u, A, B), NoneIn(s, A) \/ NoneIn(u, B)
      PROVE  NoneAfter(r, A, B)
  <2> SUFFICES ASSUME NEW i \in DOMAIN r, NEW j \in DOMAIN r, i < j, r[i] \in A
               PROVE  r[j] \notin B
    BY DEF NoneAfter
  <2>1. CASE i \in DOMAIN s /\ r[i] = s[i]
    <3>1. CASE j \in DOMAIN s /\ r[j] = s[j]
      BY <1>5, <2>1, <3>1 DEF NoneAfter
    <3>2. CASE \E k \in DOMAIN u : j = n + k /\ r[j] = u[k]
      BY <1>5, <2>1, <3>2 DEF NoneIn
    <3> QED
      BY <1>1, <3>1, <3>2
  <2>2. ASSUME NEW k \in DOMAIN u, i = n + k, r[i] = u[k] PROVE r[j] \notin B
    <3>1. PICK l \in DOMAIN u : j = n + l /\ r[j] = u[l]
      BY <1>1, <1>2, <2>2
    <3> QED
      BY <1>2, <1>5, <2>2, <3>1 DEF NoneAfter
  <2> QED
    BY <1>1, <2>1, <2>2
<1>6. ASSUME FollowedFor(s, A, B, C), NoneIn(u, C) PROVE FollowedFor(r, A, B, C)
  <2> SUFFICES ASSUME NEW i \in DOMAIN r, NEW l \in DOMAIN r, i < l, r[i] \in A, r[l] \in C
               PROVE  \E j \in DOMAIN r : j > i /\ r[j] \in B
    BY DEF FollowedFor
  <2>1. l \in DOMAIN s /\ s[l] \in C
    BY <1>1, <1>6 DEF NoneIn
  <2>2. i \in DOMAIN s /\ s[i] \in A
    BY <1>1, <1>2, <2>1
  <2> QED
    BY <1>1, <1>6, <2>1, <2>2 DEF FollowedFor
<1>7. ASSUME Followed(s, A, B), NoneIn(u, A) PROVE FollowedFor(r, A, B, C)
  BY <1>4, <1>7 DEF Followed, FollowedFor
<1>8. ASSUME NoneIn(u, A) PROVE HowMany(r, A) = HowMany(s, A)
  <2>1. Where(r, A) = Where(s, A)
    BY <1>1, <1>8 DEF Where, NoneIn
  <2> QED
    BY <2>1 DEF HowMany
<1> QED
  BY <1>1, <1>3, <1>4, <1>5, <1>6, <1>7, <1>8 DEF r

LEMMA TailAfter ==
    ASSUME NEW S, NEW s \in Seq(S), s # <<>>, NEW A, NEW B, NEW C
    PROVE  /\ NoneAfter(s, A, B) => NoneAfter(Tail(s), A, B)
           /\ NoneAfter(s, A, B) /\ Head(s) \in A => NoneIn(Tail(s), B)
           /\ FollowedFor(s, A, B, C) => FollowedFor(Tail(s), A, B, C)
           /\ FollowedFor(s, A, B, C) /\ Head(s) \in A /\ ~NoneIn(Tail(s), C)
                  => ~NoneIn(Tail(s), B)
<1> DEFINE t == Tail(s)
           h == Head(s)
<1>1. /\ h = s[1] /\ 1 \in DOMAIN s
      /\ \A i \in DOMAIN t : i \in Nat /\ i + 1 \in DOMAIN s /\ t[i] = s[i + 1]
      /\ \A i \in DOMAIN s : \/ i = 1
                             \/ i - 1 \in DOMAIN t /\ t[i - 1] = s[i] /\ i > 1
  BY TailShift
<1>2. t \in Seq(S) /\ DOMAIN t \subseteq Nat \ {0} /\ DOMAIN s \subseteq Nat \ {0}
  BY TailFacts, LenProperties
<1>3. \A i \in DOMAIN s : i = 1 \/ \E j \in DOMAIN t : i = j + 1 /\ t[j] = s[i]
  <2>1. \A i \in DOMAIN s : i = (i - 1) + 1
    BY <1>2
  <2> QED
    BY <1>1, <2>1
<1>4. \A i, j \in DOMAIN t : /\ i > j <=> i + 1 > j + 1
                             /\ i < j <=> i + 1 < j + 1
                             /\ 1 < i + 1
  BY <1>2
<1>5. \A i \in DOMAIN s : ~(i > i) /\ ~(1 > 1)
  BY <1>2
<1>6. \A i \in DOMAIN t : ~(1 > i + 1)
  BY <1>2
<1> HIDE DEF t, h
<1>7. NoneAfter(s, A, B) => NoneAfter(t, A, B)
  BY ONLY <1>1, <1>4 DEF NoneAfter
<1>8. NoneAfter(s, A, B) /\ h \in A => NoneIn(t, B)
  BY ONLY <1>1, <1>4 DEF NoneAfter, NoneIn
<1>9. ASSUME FollowedFor(s, A, B, C) PROVE FollowedFor(t, A, B, C)
  <2> SUFFICES ASSUME NEW i \in DOMAIN t, NEW l \in DOMAIN t, i < l, t[i] \in A, t[l] \in C
               PROVE  \E j \in DOMAIN t : j > i /\ t[j] \in B
    BY DEF FollowedFor
  <2>1. \E j \in DOMAIN s : j > i + 1 /\ s[j] \in B
    BY <1>1, <1>4, <1>9 DEF FollowedFor
  <2>2. PICK j \in DOMAIN s : j > i + 1 /\ s[j] \in B
    BY <2>1
  <2>3. j # 1
    BY <1>6, <2>2
  <2>4. PICK k \in DOMAIN t : j = k + 1 /\ t[k] = s[j]
    BY <1>3, <2>3
  <2> QED
    BY <1>4, <2>2, <2>4
<1>10. ASSUME FollowedFor(s, A, B, C), h \in A, ~NoneIn(t, C) PROVE ~NoneIn(t, B)
  <2>1. PICK l \in DOMAIN t : t[l] \in C
    BY <1>10 DEF NoneIn
  <2>2. \E j \in DOMAIN s : j > 1 /\ s[j] \in B
    BY <1>1, <1>4, <1>10, <2>1 DEF FollowedFor
  <2>3. PICK j \in DOMAIN s : j > 1 /\ s[j] \in B
    BY <2>2
  <2>4. j # 1
    BY <1>5, <2>3
  <2> QED
    BY <1>3, <2>3, <2>4 DEF NoneIn
<1> QED
  BY <1>7, <1>8, <1>9, <1>10 DEF t, h

LEMMA AppendAfter ==
    ASSUME NEW S, NEW s \in Seq(S), NEW m \in S, NEW A, NEW B, NEW C
    PROVE  /\ NoneAfter(s, A, B) /\ (m \notin B \/ NoneIn(s, A))
                  => NoneAfter(Append(s, m), A, B)
           /\ FollowedFor(s, A, B, C) /\ m \notin C => FollowedFor(Append(s, m), A, B, C)
           /\ Followed(s, A, B) /\ m \notin A => FollowedFor(Append(s, m), A, B, C)
<1>1. <<m>> \in Seq(S) /\ DOMAIN <<m>> = {1} /\ <<m>>[1] = m /\ ~(1 < 1)
  OBVIOUS
<1>2. \A D : NoneIn(<<m>>, D) <=> m \notin D
  BY <1>1 DEF NoneIn
<1>3. NoneAfter(<<m>>, A, B)
  BY <1>1 DEF NoneAfter
<1>4. Append(s, m) = s \o <<m>>
  BY AppendIsConcat
<1> DEFINE u == <<m>>
<1>5. u \in Seq(S) /\ NoneAfter(u, A, B) /\ (\A D : NoneIn(u, D) <=> m \notin D)
      /\ Append(s, m) = s \o u
  BY <1>1, <1>2, <1>3, <1>4
<1> HIDE DEF u
<1>6. /\ NoneAfter(s, A, B) /\ NoneAfter(u, A, B) /\ (NoneIn(s, A) \/ NoneIn(u, B))
             => NoneAfter(s \o u, A, B)
      /\ FollowedFor(s, A, B, C) /\ NoneIn(u, C) => FollowedFor(s \o u, A, B, C)
      /\ Followed(s, A, B) /\ NoneIn(u, A) => FollowedFor(s \o u, A, B, C)
  BY <1>5, ConcatOrder
<1> QED
  BY ONLY <1>5, <1>6

=============================================================================
