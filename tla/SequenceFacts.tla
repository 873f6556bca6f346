---------------------------- MODULE SequenceFacts ----------------------------
(***************************************************************************)
(* What the operators on sequences do to the elements of a queue: the      *)
(* lemmas the proofs about channels, wires and inboxes share.              *)
(***************************************************************************)
EXTENDS Integers, Sequences, Functions, SequenceTheorems, TLAPS

(* The elements of d \o e are those of d, then those of e.                 *)
LEMMA AppendParts ==
  ASSUME NEW S, NEW d \in Seq(S), NEW e \in Seq(S)
  PROVE  /\ d \o e \in Seq(S)
         /\ Len(d) \in Nat /\ DOMAIN d = 1..Len(d)
         /\ Len(e) \in Nat /\ DOMAIN e = 1..Len(e)
         /\ DOMAIN (d \o e) = 1..(Len(d) + Len(e))
         /\ Len(d \o e) = Len(d) + Len(e)
         /\ \A i \in 1..Len(d) : (d \o e)[i] = d[i]
         /\ \A i \in 1..(Len(d) + Len(e)) :
              Len(d) < i => /\ i - Len(d) \in 1..Len(e)
                            /\ (d \o e)[i] = e[i - Len(d)]
         /\ \A i \in 1..Len(e) : /\ Len(d) + i \in 1..(Len(d) + Len(e))
                                 /\ (d \o e)[Len(d) + i] = e[i]
<1> DEFINE c == d \o e
<1>1. /\ c \in Seq(S)
      /\ Len(c) = Len(d) + Len(e)
      /\ \A i \in 1..(Len(d) + Len(e)) :
            c[i] = IF i <= Len(d) THEN d[i] ELSE e[i - Len(d)]
  BY ConcatProperties
<1>2. /\ Len(d) \in Nat /\ DOMAIN d = 1..Len(d)
      /\ Len(e) \in Nat /\ DOMAIN e = 1..Len(e)
  OBVIOUS
<1>3. DOMAIN c = 1..(Len(d) + Len(e))
  BY <1>1, LenProperties
<1> HIDE DEF c
<1>4. ASSUME NEW i \in 1..Len(d) PROVE c[i] = d[i]
  <2>1. i \in 1..(Len(d) + Len(e)) /\ i <= Len(d)
    BY <1>2
  <2>2. QED BY <1>1, <2>1
<1>5. ASSUME NEW i \in 1..(Len(d) + Len(e)), Len(d) < i
      PROVE  i - Len(d) \in 1..Len(e) /\ c[i] = e[i - Len(d)]
  <2>1. i - Len(d) \in 1..Len(e) /\ ~(i <= Len(d))
    BY <1>2, <1>5
  <2>2. QED BY <1>1, <2>1
<1>6. ASSUME NEW i \in 1..Len(e)
      PROVE  Len(d) + i \in 1..(Len(d) + Len(e)) /\ c[Len(d) + i] = e[i]
  <2>1. Len(d) + i \in 1..(Len(d) + Len(e)) /\ Len(d) < Len(d) + i
    BY <1>2
  <2>2. (Len(d) + i) - Len(d) = i
    BY <1>2
  <2>3. c[Len(d) + i] = e[(Len(d) + i) - Len(d)]
    BY <1>5, <2>1
  <2>4. QED BY <2>1, <2>2, <2>3
<1>7. QED BY <1>1, <1>2, <1>3, <1>4, <1>5, <1>6 DEF c

(* Two places of d \o e are places of d, or places of e in the same order, *)
(* or the first is one of d and the second one of e.                       *)
LEMMA TwoPlaces ==
  ASSUME NEW S, NEW d \in Seq(S), NEW e \in Seq(S)
  PROVE  \A i, j \in DOMAIN (d \o e) : i < j =>
            \/ /\ i \in DOMAIN d /\ j \in DOMAIN d
               /\ (d \o e)[i] = d[i] /\ (d \o e)[j] = d[j]
            \/ \E a, b \in DOMAIN e :
                  a < b /\ (d \o e)[i] = e[a] /\ (d \o e)[j] = e[b]
            \/ (d \o e)[i] \in Range(d) /\ (d \o e)[j] \in Range(e)
<1> SUFFICES ASSUME NEW i \in DOMAIN (d \o e), NEW j \in DOMAIN (d \o e), i < j
             PROVE  \/ /\ i \in DOMAIN d /\ j \in DOMAIN d
                       /\ (d \o e)[i] = d[i] /\ (d \o e)[j] = d[j]
                    \/ \E a, b \in DOMAIN e :
                          a < b /\ (d \o e)[i] = e[a] /\ (d \o e)[j] = e[b]
                    \/ (d \o e)[i] \in Range(d) /\ (d \o e)[j] \in Range(e)
  OBVIOUS
<1> DEFINE c == d \o e
<1>1. PICK n \in Nat, m \in Nat :
         /\ n = Len(d) /\ m = Len(e) /\ DOMAIN d = 1..n /\ DOMAIN e = 1..m
         /\ DOMAIN c = 1..(n + m)
         /\ \A k \in 1..n : c[k] = d[k]
         /\ \A k \in 1..(n + m) : n < k => k - n \in 1..m /\ c[k] = e[k - n]
  <2>1. /\ Len(d) \in Nat /\ Len(e) \in Nat
        /\ DOMAIN d = 1..Len(d) /\ DOMAIN e = 1..Len(e)
        /\ DOMAIN c = 1..(Len(d) + Len(e))
        /\ \A k \in 1..Len(d) : c[k] = d[k]
        /\ \A k \in 1..(Len(d) + Len(e)) :
              Len(d) < k => k - Len(d) \in 1..Len(e) /\ c[k] = e[k - Len(d)]
    BY AppendParts
  <2> HIDE DEF c
  <2> QED
    BY <2>1
<1>2. i \in 1..(n + m) /\ j \in 1..(n + m)
  BY <1>1
<1> HIDE DEF c
<1>3. CASE j <= n
  <2>1. i \in 1..n /\ j \in 1..n
    BY <1>2, <1>3
  <2> QED
    BY <1>1, <2>1 DEF c
<1>4. CASE n < i
  <2>1. n < j /\ i - n < j - n
    BY <1>1, <1>2, <1>4
  <2>2. /\ i - n \in DOMAIN e /\ c[i] = e[i - n]
        /\ j - n \in DOMAIN e /\ c[j] = e[j - n]
    BY <1>1, <1>2, <1>4, <2>1
  <2> QED
    BY <2>1, <2>2 DEF c
<1>5. CASE i <= n /\ n < j
  <2>1. i \in 1..n
    BY <1>2, <1>5
  <2>2. /\ i \in DOMAIN d /\ c[i] = d[i]
        /\ j - n \in DOMAIN e /\ c[j] = e[j - n]
    BY <1>1, <1>2, <1>5, <2>1
  <2>3. c[i] \in Range(d) /\ c[j] \in Range(e)
    BY <2>2 DEF Range
  <2> QED
    BY <2>3 DEF c
<1>6. i \in Nat /\ j \in Nat
  BY <1>2
<1> QED
  BY <1>1, <1>3, <1>4, <1>5, <1>6

(* Handing out e after d: nothing of d or e is lost, nothing is added.     *)
LEMMA AppendRange ==
  ASSUME NEW S, NEW d \in Seq(S), NEW e \in Seq(S)
  PROVE  Range(d \o e) = Range(d) \cup Range(e)
<1>1. ASSUME NEW x \in Range(d \o e) PROVE x \in Range(d) \cup Range(e)
  <2>1. PICK i \in 1..(Len(d) + Len(e)) : x = (d \o e)[i]
    BY AppendParts DEF Range
  <2>2. CASE i <= Len(d)
    <3>1. i \in DOMAIN d /\ x = d[i]
      BY AppendParts, <2>1, <2>2
    <3>2. QED BY <3>1 DEF Range
  <2>3. CASE Len(d) < i
    <3>1. i - Len(d) \in DOMAIN e /\ x = e[i - Len(d)]
      BY AppendParts, <2>1, <2>3
    <3>2. QED BY <3>1 DEF Range
  <2>4. QED BY AppendParts, <2>2, <2>3
<1>2. ASSUME NEW x \in Range(d) PROVE x \in Range(d \o e)
  <2>1. PICK i \in DOMAIN d : x = d[i]
    BY DEF Range
  <2>2. i \in DOMAIN (d \o e) /\ (d \o e)[i] = x
    BY AppendParts, <2>1
  <2>3. QED BY <2>2 DEF Range
<1>3. ASSUME NEW x \in Range(e) PROVE x \in Range(d \o e)
  <2>1. PICK i \in DOMAIN e : x = e[i]
    BY DEF Range
  <2>2. Len(d) + i \in DOMAIN (d \o e) /\ (d \o e)[Len(d) + i] = x
    BY AppendParts, <2>1
  <2>3. QED BY <2>2 DEF Range
<1>4. QED BY <1>1, <1>2, <1>3

(* What a channel holds after a send: what it held, and the message.       *)
LEMMA SendRange ==
  ASSUME NEW S, NEW s \in Seq(S), NEW e \in S
  PROVE  /\ Append(s, e) \in Seq(S)
         /\ Len(Append(s, e)) = Len(s) + 1
         /\ \A i \in 1..Len(s) : Append(s, e)[i] = s[i]
         /\ Append(s, e)[Len(s) + 1] = e
         /\ Range(Append(s, e)) = Range(s) \cup {e}
<1>1. /\ Append(s, e) \in Seq(S)
      /\ Len(Append(s, e)) = Len(s) + 1
      /\ \A i \in 1..Len(s) : Append(s, e)[i] = s[i]
      /\ Append(s, e)[Len(s) + 1] = e
      /\ DOMAIN Append(s, e) = 1..(Len(s) + 1)
      /\ DOMAIN s = 1..Len(s) /\ Len(s) \in Nat
  OBVIOUS
<1>2. 1..(Len(s) + 1) = 1..Len(s) \cup {Len(s) + 1}
  BY <1>1
<1> QED
  BY <1>1, <1>2 DEF Range

(* What a channel holds before a receive: the message, and the rest.       *)
LEMMA ReceiveRange ==
  ASSUME NEW S, NEW s \in Seq(S), s # <<>>
  PROVE  /\ Head(s) \in S /\ Head(s) = s[1]
         /\ Tail(s) \in Seq(S)
         /\ Len(s) \in Nat \ {0} /\ Len(Tail(s)) = Len(s) - 1
         /\ \A i \in 1..(Len(s) - 1) : Tail(s)[i] = s[i + 1]
         /\ Range(s) = {Head(s)} \cup Range(Tail(s))
<1>1. /\ Head(s) \in S /\ Head(s) = s[1]
      /\ Tail(s) \in Seq(S)
      /\ Len(s) \in Nat \ {0} /\ Len(Tail(s)) = Len(s) - 1
      /\ \A i \in 1..(Len(s) - 1) : Tail(s)[i] = s[i + 1]
      /\ DOMAIN s = 1..Len(s) /\ DOMAIN Tail(s) = 1..(Len(s) - 1)
  OBVIOUS
<1>2. ASSUME NEW i \in 1..Len(s)
      PROVE  s[i] \in {Head(s)} \cup Range(Tail(s))
  <2>1. CASE i = 1
    BY <1>1, <2>1
  <2>2. CASE i # 1
    <3>1. i - 1 \in 1..(Len(s) - 1) /\ (i - 1) + 1 = i
      BY <1>1, <2>2
    <3>2. s[i] = Tail(s)[i - 1] /\ i - 1 \in DOMAIN Tail(s)
      BY <1>1, <3>1
    <3> QED
      BY <3>2 DEF Range
  <2> QED
    BY <2>1, <2>2
<1>3. {Head(s)} \cup Range(Tail(s)) \subseteq Range(s)
  <2>1. \A i \in 1..(Len(s) - 1) : i + 1 \in 1..Len(s)
    BY <1>1
  <2>2. 1 \in 1..Len(s)
    BY <1>1
  <2> QED
    BY <1>1, <2>1, <2>2 DEF Range
<1>4. \A x \in Range(s) : \E i \in 1..Len(s) : x = s[i]
  BY <1>1 DEF Range
<1> QED
  BY <1>1, <1>2, <1>3, <1>4

(* A drained channel holds nothing; what a typed one holds is of its type. *)
LEMMA EmptyRange == Range(<<>>) = {}
BY DEF Range

(* A table of values, from the first place to the last, is a sequence.     *)
LEMMA TableIsSequence ==
  ASSUME NEW S, NEW n \in Nat, NEW f \in [1..n -> S]
  PROVE  f \in Seq(S)
BY SeqDef

(* The messages in a channel are of the channel's type.                    *)
LEMMA RangeTyped ==
  ASSUME NEW S, NEW s \in Seq(S)
  PROVE  Range(s) \subseteq S
BY DEF Range
=============================================================================
