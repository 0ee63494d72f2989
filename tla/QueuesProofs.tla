---------------------------- MODULE QueuesProofs ----------------------------
(***************************************************************************)
(* What Only keeps, by induction on the length of the sequence: the least  *)
(* number of a set is a fact of the library that takes no operator.        *)
(***************************************************************************)
EXTENDS Queues, SequencesExt, WellFoundedInduction, TLAPS

Less == {p \in Nat \X Nat : p[1] < p[2]}

\* The least number of a set, for proofs by induction.
LEMMA Least ==
    ASSUME NEW T \in SUBSET Nat, T # {}
    PROVE  \E n \in T : \A m \in T : n <= m
<1>0. OpToRel(<, Nat) = Less
  BY DEF OpToRel, Less
<1>1. IsWellFoundedOn(Less, Nat)
  BY <1>0, NatLessThanWellFounded
<1>2. PICK n \in T : \A m \in T : ~(<<m, n>> \in Less)
  BY <1>1, WFMin
<1>3. \A m \in T : ~(m < n)
  BY <1>2 DEF Less
<1> QED BY <1>3

\* A set that has 0 and with each number the next has all numbers up to a bound.
LEMMA UpTo ==
    ASSUME NEW b \in Nat, NEW T, 0 \in T, \A n \in 0..b : n < b /\ n \in T => n + 1 \in T
    PROVE  \A n \in 0..b : n \in T
<1> DEFINE Out == {n \in 0..b : n \notin T}
<1>1. SUFFICES ASSUME Out # {} PROVE FALSE
  OBVIOUS
<1>2. Out \in SUBSET Nat
  OBVIOUS
<1>3. PICK n \in Out : \A m \in Out : n <= m
  BY <1>1, <1>2, Least
<1>4. n # 0 /\ n \in 0..b /\ n - 1 \notin Out
  BY <1>3
<1>5. n - 1 \in T /\ n - 1 < b /\ n - 1 \in 0..b /\ (n - 1) + 1 = n
  BY <1>4
<1>6. n \in T
  BY <1>5
<1> QED BY <1>3, <1>6

\* Only unfolds: what is kept of the first n elements, from what is kept of n - 1.
LEMMA Unfolds ==
    ASSUME NEW S, NEW s \in Seq(S), NEW K
    PROVE  \E kept :
             /\ Only(s, K) = kept[Len(s)]
             /\ kept[0] = <<>>
             /\ \A n \in 1..Len(s) :
                  kept[n] = IF s[n] \in K THEN Append(kept[n - 1], s[n]) ELSE kept[n - 1]
<1> DEFINE Next(g, n) == IF n = 0 THEN <<>> ELSE IF s[n] \in K THEN Append(g[n - 1], s[n]) ELSE g[n - 1]
           Ok(b) == \E g : g = [n \in 0..b |-> Next(g, n)]
           T == {b \in 0..Len(s) : Ok(b)}
<1>0. Len(s) \in Nat
  OBVIOUS
<1>1. 0 \in T
  <2> DEFINE g == [n \in 0..0 |-> <<>>]
  <2>1. g = [n \in 0..0 |-> Next(g, n)]
    OBVIOUS
  <2> HIDE DEF g, Next
  <2>2. Ok(0)
    BY <2>1
  <2> QED BY <2>2, <1>0
<1>2. ASSUME NEW b \in 0..Len(s), b < Len(s), b \in T
      PROVE  b + 1 \in T
  <2>1. PICK g : g = [n \in 0..b |-> Next(g, n)]
    BY <1>2
  <2> DEFINE h == [n \in 0..b + 1 |-> IF n = b + 1 THEN Next(g, n) ELSE g[n]]
  <2>2. \A n \in 0..b + 1 : Next(h, n) = Next(g, n)
    OBVIOUS
  <2>3. \A n \in 0..b : g[n] = Next(g, n)
    BY <2>1
  <2>4. h = [n \in 0..b + 1 |-> Next(h, n)]
    <3>1. \A n \in 0..b + 1 : h[n] = Next(h, n)
      <4>1. \A n \in 0..b + 1 : h[n] = Next(g, n)
        <5> HIDE DEF Next
        <5> QED BY <2>3
      <4> HIDE DEF Next, h
      <4> QED BY <4>1, <2>2
    <3>2. DOMAIN h = 0..b + 1 /\ h = [n \in DOMAIN h |-> h[n]]
      OBVIOUS
    <3> HIDE DEF Next, h
    <3> QED BY <3>1, <3>2
  <2> HIDE DEF h, Next
  <2>5. Ok(b + 1)
    BY <2>4
  <2> QED BY <2>5, <1>2
<1>3. Len(s) \in T
  <2> HIDE DEF T
  <2>1. \A n \in 0..Len(s) : n < Len(s) /\ n \in T => n + 1 \in T
    BY <1>2
  <2>2. \A n \in 0..Len(s) : n \in T
    BY <1>0, <1>1, <2>1, UpTo
  <2> QED BY <1>0, <2>2
<1> DEFINE kept == CHOOSE g : g = [n \in 0..Len(s) |-> Next(g, n)]
<1>4. kept = [n \in 0..Len(s) |-> Next(kept, n)]
  BY <1>3
<1>5. Only(s, K) = kept[Len(s)]
  BY DEF Only
<1>6. \A n \in 0..Len(s) : kept[n] = Next(kept, n)
  <2> HIDE DEF Next, kept
  <2> QED BY <1>4
<1> HIDE DEF kept
<1> QED BY <1>5, <1>6, <1>0

\* What is in a sequence that was put together.
LEMMA AppendSet ==
    ASSUME NEW S, NEW s \in Seq(S), NEW e \in S
    PROVE  Append(s, e) \in Seq(S) /\ ToSet(Append(s, e)) = ToSet(s) \cup {e}
<1>1. Len(Append(s, e)) = Len(s) + 1 /\ DOMAIN s = 1..Len(s)
  OBVIOUS
<1>2. \A i \in 1..Len(s) + 1 : Append(s, e)[i] = IF i = Len(s) + 1 THEN e ELSE s[i]
  OBVIOUS
<1>3. DOMAIN Append(s, e) = 1..Len(s) + 1
  OBVIOUS
<1> QED BY <1>1, <1>2, <1>3 DEF ToSet

\* What is kept is what was there and is in the set, and nothing else.
LEMMA OnlyKeeps ==
    ASSUME NEW S, NEW s \in Seq(S), NEW K
    PROVE  Only(s, K) \in Seq(S) /\ ToSet(Only(s, K)) = ToSet(s) \cap K
<1>0. PICK kept :
        /\ Only(s, K) = kept[Len(s)]
        /\ kept[0] = <<>>
        /\ \A n \in 1..Len(s) :
             kept[n] = IF s[n] \in K THEN Append(kept[n - 1], s[n]) ELSE kept[n - 1]
  BY Unfolds
<1> DEFINE T == {n \in 0..Len(s) : /\ kept[n] \in Seq(S)
                                   /\ ToSet(kept[n]) = {s[i] : i \in 1..n} \cap K}
<1>1. 0 \in T
  <2>1. ToSet(<<>>) = {} /\ <<>> \in Seq(S) /\ {s[i] : i \in 1..0} = {}
    BY DEF ToSet
  <2>2. kept[0] \in Seq(S) /\ ToSet(kept[0]) = {s[i] : i \in 1..0} \cap K
    BY <1>0, <2>1
  <2> QED BY <2>2
<1>2. ASSUME NEW n \in 0..Len(s), n < Len(s), n \in T
      PROVE  n + 1 \in T
  <2>1. n + 1 \in 1..Len(s) /\ (n + 1) - 1 = n /\ s[n + 1] \in S /\ kept[n] \in Seq(S)
    BY <1>2
  <2>2. {s[i] : i \in 1..n + 1} = {s[i] : i \in 1..n} \cup {s[n + 1]}
    BY <2>1
  <2>3. CASE s[n + 1] \in K
    <3>1. kept[n + 1] = Append(kept[n], s[n + 1])
      BY <1>0, <2>1, <2>3
    <3>2. kept[n + 1] \in Seq(S) /\ ToSet(kept[n + 1]) = ToSet(kept[n]) \cup {s[n + 1]}
      BY <2>1, <3>1, AppendSet
    <3> QED BY <1>2, <2>1, <2>2, <2>3, <3>2
  <2>4. CASE s[n + 1] \notin K
    <3>1. kept[n + 1] = kept[n]
      BY <1>0, <2>1, <2>4
    <3> QED BY <1>2, <2>1, <2>2, <2>4, <3>1
  <2> QED BY <2>3, <2>4
<1>3. Len(s) \in T
  <2> HIDE DEF T
  <2>1. \A n \in 0..Len(s) : n < Len(s) /\ n \in T => n + 1 \in T
    BY <1>2
  <2>2. \A n \in 0..Len(s) : n \in T
    BY <1>1, <2>1, UpTo
  <2> QED BY <2>2
<1>4. ToSet(s) = {s[i] : i \in 1..Len(s)}
  BY DEF ToSet
<1> QED BY <1>0, <1>3, <1>4

\* What is in two sequences, one after the other.
LEMMA ConcatSet ==
    ASSUME NEW S, NEW s \in Seq(S), NEW t \in Seq(S)
    PROVE  s \o t \in Seq(S) /\ ToSet(s \o t) = ToSet(s) \cup ToSet(t)
<1>1. DOMAIN s = 1..Len(s) /\ DOMAIN t = 1..Len(t) /\ Len(s) \in Nat /\ Len(t) \in Nat
  OBVIOUS
<1>2. DOMAIN (s \o t) = 1..Len(s) + Len(t)
  OBVIOUS
<1>3. \A i \in 1..Len(s) + Len(t) : (s \o t)[i] = IF i <= Len(s) THEN s[i] ELSE t[i - Len(s)]
  OBVIOUS
<1>4. ToSet(s \o t) \subseteq ToSet(s) \cup ToSet(t)
  BY <1>1, <1>2, <1>3 DEF ToSet
<1>5. ToSet(s) \subseteq ToSet(s \o t)
  BY <1>1, <1>2, <1>3 DEF ToSet
<1>6. ASSUME NEW i \in 1..Len(t)
      PROVE  t[i] \in ToSet(s \o t)
  <2>1. Len(s) + i \in 1..Len(s) + Len(t) /\ (s \o t)[Len(s) + i] = t[i]
    BY <1>1, <1>3
  <2> QED BY <2>1, <1>2 DEF ToSet
<1> QED BY <1>1, <1>4, <1>5, <1>6 DEF ToSet

\* What is in the tail, and at the head.
LEMMA TailSet ==
    ASSUME NEW S, NEW s \in Seq(S), s # <<>>
    PROVE  Tail(s) \in Seq(S) /\ Head(s) \in S /\ ToSet(s) = {Head(s)} \cup ToSet(Tail(s))
<1>1. DOMAIN s = 1..Len(s) /\ DOMAIN Tail(s) = 1..Len(s) - 1 /\ Len(s) \in Nat /\ Len(s) > 0
  OBVIOUS
<1>2. \A i \in 1..Len(s) - 1 : Tail(s)[i] = s[i + 1]
  OBVIOUS
<1>3. ToSet(Tail(s)) \subseteq ToSet(s) /\ Head(s) \in ToSet(s)
  BY <1>1, <1>2 DEF ToSet
<1>4. ASSUME NEW i \in 1..Len(s)
      PROVE  s[i] \in {Head(s)} \cup ToSet(Tail(s))
  <2>1. CASE i = 1
    BY <2>1
  <2>2. CASE i # 1
    <3>1. i - 1 \in 1..Len(s) - 1 /\ Tail(s)[i - 1] = s[i]
      BY <1>1, <1>2, <2>2
    <3> QED BY <3>1, <1>1 DEF ToSet
  <2> QED BY <2>1, <2>2
<1>5. ToSet(s) \subseteq {Head(s)} \cup ToSet(Tail(s))
  BY <1>1, <1>4 DEF ToSet
<1> QED BY <1>3, <1>5

\* One element less.
LEMMA RemoveAtSet ==
    ASSUME NEW S, NEW s \in Seq(S), NEW i \in DOMAIN s
    PROVE  /\ RemoveAt(s, i) \in Seq(S) /\ s[i] \in S
           /\ ToSet(RemoveAt(s, i)) \subseteq ToSet(s) /\ s[i] \in ToSet(s)
           /\ ToSet(s) \subseteq ToSet(RemoveAt(s, i)) \cup {s[i]}
<1> DEFINE a == SubSeq(s, 1, i - 1)
           b == SubSeq(s, i + 1, Len(s))
<1>1. i \in 1..Len(s) /\ Len(s) \in Nat /\ DOMAIN s = 1..Len(s)
  OBVIOUS
<1>2. /\ a \in Seq(S) /\ Len(a) = i - 1 /\ DOMAIN a = 1..i - 1
      /\ \A j \in 1..i - 1 : a[j] = s[j]
  BY <1>1
<1>3. /\ b \in Seq(S) /\ Len(b) = Len(s) - i /\ DOMAIN b = 1..Len(s) - i
      /\ \A j \in 1..Len(s) - i : b[j] = s[i + j]
  BY <1>1
<1> HIDE DEF a, b
<1>4. ToSet(a) \subseteq ToSet(s)
  BY <1>1, <1>2 DEF ToSet
<1>5. ToSet(b) \subseteq ToSet(s)
  BY <1>1, <1>3 DEF ToSet
<1>6. ASSUME NEW j \in 1..Len(s), j # i
      PROVE  s[j] \in ToSet(a) \cup ToSet(b)
  <2>1. CASE j < i
    <3>1. j \in 1..i - 1 /\ a[j] = s[j]
      BY <1>1, <1>2, <2>1
    <3> QED BY <3>1, <1>2 DEF ToSet
  <2>2. CASE j > i
    <3>0. j - i \in 1..Len(s) - i /\ i + (j - i) = j
      BY <1>1, <2>2
    <3>1. b[j - i] = s[j]
      BY <1>3, <3>0
    <3> QED BY <3>0, <3>1, <1>3 DEF ToSet
  <2> QED BY <1>1, <1>6, <2>1, <2>2
<1>7. RemoveAt(s, i) = a \o b
  BY DEF RemoveAt, a, b
<1>8. RemoveAt(s, i) \in Seq(S) /\ ToSet(RemoveAt(s, i)) = ToSet(a) \cup ToSet(b)
  BY <1>2, <1>3, <1>7, ConcatSet
<1>9. s[i] \in S /\ s[i] \in ToSet(s)
  BY <1>1 DEF ToSet
<1>10. \A e \in ToSet(s) : e = s[i] \/ e \in ToSet(a) \cup ToSet(b)
  BY <1>1, <1>6 DEF ToSet
<1> QED BY <1>4, <1>5, <1>8, <1>9, <1>10

\* What is kept of nothing, and of one element.
LEMMA OnlyShort ==
    ASSUME NEW K
    PROVE  /\ Only(<<>>, K) = <<>>
           /\ \A e : Only(<<e>>, K) = IF e \in K THEN <<e>> ELSE <<>>
<1>1. Only(<<>>, K) = <<>>
  <2>1. ASSUME NEW s \in Seq(Nat), Len(s) = 0
        PROVE  Only(s, K) = <<>>
    <3>1. PICK kept :
            /\ Only(s, K) = kept[Len(s)]
            /\ kept[0] = <<>>
            /\ \A n \in 1..Len(s) :
                 kept[n] = IF s[n] \in K THEN Append(kept[n - 1], s[n]) ELSE kept[n - 1]
      BY Unfolds
    <3> QED BY <2>1, <3>1
  <2>2. <<>> \in Seq(Nat) /\ Len(<<>>) = 0
    OBVIOUS
  <2> QED BY <2>1, <2>2
<1>2. ASSUME NEW e
      PROVE  Only(<<e>>, K) = IF e \in K THEN <<e>> ELSE <<>>
  <2> DEFINE s == <<e>>
  <2>1. s \in Seq({e}) /\ Len(s) = 1 /\ s[1] = e /\ 1 \in 1..Len(s) /\ 1 - 1 = 0 /\ Append(<<>>, e) = <<e>>
    OBVIOUS
  <2> HIDE DEF s
  <2>2. PICK kept :
          /\ Only(s, K) = kept[Len(s)]
          /\ kept[0] = <<>>
          /\ \A n \in 1..Len(s) :
               kept[n] = IF s[n] \in K THEN Append(kept[n - 1], s[n]) ELSE kept[n - 1]
    BY <2>1, Unfolds
  <2>3. kept[1] = IF s[1] \in K THEN Append(kept[1 - 1], s[1]) ELSE kept[1 - 1]
    BY <2>1, <2>2
  <2>4. Only(s, K) = IF e \in K THEN <<e>> ELSE <<>>
    BY <2>1, <2>2, <2>3
  <2> QED BY <2>4 DEF s
<1> QED BY <1>1, <1>2
=============================================================================
