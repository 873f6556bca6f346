-------------------------- MODULE DedupBufferProofs --------------------------
(***************************************************************************)
(* Proofs about the dedup buffer, for every stream length and capacity.    *)
(* The lemmas say what handing out a run of frames does to the delivered   *)
(* sequence; the invariant is then shown step by step, one case per action.*)
(***************************************************************************)
EXTENDS DedupBuffer, SequenceFacts, FiniteSetTheorems

(* A relation that holds within d, within e, and from d to e holds in the  *)
(* whole: order, and being different, are such relations.                  *)
LEMMA AppendAscending ==
  ASSUME NEW d \in Seq(Nat), NEW e \in Seq(Nat),
         Ascending(d), Ascending(e),
         \A x \in Range(d), y \in Range(e) : x < y
  PROVE  Ascending(d \o e)
<1>1. ASSUME NEW i \in DOMAIN (d \o e), NEW j \in DOMAIN (d \o e), i < j
      PROVE  (d \o e)[i] < (d \o e)[j]
  <2>1. CASE /\ i \in DOMAIN d /\ j \in DOMAIN d
             /\ (d \o e)[i] = d[i] /\ (d \o e)[j] = d[j]
    BY <1>1, <2>1 DEF Ascending
  <2>2. CASE \E a, b \in DOMAIN e :
                a < b /\ (d \o e)[i] = e[a] /\ (d \o e)[j] = e[b]
    BY <2>2 DEF Ascending
  <2>3. CASE (d \o e)[i] \in Range(d) /\ (d \o e)[j] \in Range(e)
    BY <2>3
  <2>4. QED BY <1>1, <2>1, <2>2, <2>3, TwoPlaces
<1>2. QED BY <1>1, Zenon DEF Ascending

LEMMA ConcatInjective ==
  ASSUME NEW d \in Seq(Nat), NEW e \in Seq(Nat),
         IsInjective(d), IsInjective(e), Range(d) \cap Range(e) = {}
  PROVE  IsInjective(d \o e)
<1>0. \A i, j \in DOMAIN (d \o e) : i < j =>
         \/ /\ i \in DOMAIN d /\ j \in DOMAIN d
            /\ (d \o e)[i] = d[i] /\ (d \o e)[j] = d[j]
         \/ \E a, b \in DOMAIN e :
               a < b /\ (d \o e)[i] = e[a] /\ (d \o e)[j] = e[b]
         \/ (d \o e)[i] \in Range(d) /\ (d \o e)[j] \in Range(e)
  BY TwoPlaces
<1>1. ASSUME NEW i \in DOMAIN (d \o e), NEW j \in DOMAIN (d \o e), i < j
      PROVE  (d \o e)[i] # (d \o e)[j]
  <2>1. CASE /\ i \in DOMAIN d /\ j \in DOMAIN d
             /\ (d \o e)[i] = d[i] /\ (d \o e)[j] = d[j]
    <3>1. i # j
      BY <1>1, AppendParts
    <3>2. QED BY <2>1, <3>1 DEF IsInjective
  <2>2. CASE \E a, b \in DOMAIN e :
                a < b /\ (d \o e)[i] = e[a] /\ (d \o e)[j] = e[b]
    <3>1. PICK a \in DOMAIN e, b \in DOMAIN e :
             a < b /\ (d \o e)[i] = e[a] /\ (d \o e)[j] = e[b]
      BY <2>2
    <3>2. a # b
      BY <3>1
    <3>3. QED BY <3>1, <3>2 DEF IsInjective
  <2>3. CASE (d \o e)[i] \in Range(d) /\ (d \o e)[j] \in Range(e)
    BY <2>3
  <2>4. QED BY <1>0, <1>1, <2>1, <2>2, <2>3
<1> DEFINE c == d \o e
<1>2. \A i \in DOMAIN c : i \in Nat
  BY AppendParts
<1>3. ASSUME NEW i \in DOMAIN c, NEW j \in DOMAIN c, c[i] = c[j]
      PROVE  i = j
  <2>1. i \in Nat /\ j \in Nat
    BY <1>2
  <2>2. ~(i < j) /\ ~(j < i)
    BY <1>1, <1>3
  <2>3. QED BY <2>1, <2>2
<1>4. QED BY <1>3 DEF IsInjective

LEMMA AscendingInjective ==
  ASSUME NEW d \in Seq(Nat), Ascending(d)
  PROVE  IsInjective(d)
<1>1. ASSUME NEW i \in DOMAIN d, NEW j \in DOMAIN d, d[i] = d[j]
      PROVE  i = j
  <2>1. i \in Nat /\ j \in Nat /\ d[i] \in Nat /\ d[j] \in Nat
    OBVIOUS
  <2>2. i < j => d[i] < d[j]
    BY DEF Ascending
  <2>3. j < i => d[j] < d[i]
    BY DEF Ascending
  <2>4. QED BY <1>1, <2>1, <2>2, <2>3
<1>2. QED BY <1>1 DEF IsInjective

(* What drainLocked hands out from n to k: each frame of n..k-1, in order. *)
LEMMA RunProperties ==
  ASSUME NEW n \in Nat, NEW k \in Nat, n <= k
  PROVE  /\ Run(n, k) \in Seq(Nat)
         /\ Ascending(Run(n, k))
         /\ Range(Run(n, k)) = n..(k-1)
         /\ Len(Run(n, k)) = k - n
<1>1. k - n \in Nat
  OBVIOUS
<1>2. /\ DOMAIN Run(n, k) = 1..(k-n)
      /\ \A i \in 1..(k-n) : Run(n, k)[i] = n + i - 1
  BY DEF Run
<1>3. Run(n, k) \in [1..(k-n) -> Nat]
  BY DEF Run
<1>4. Run(n, k) \in Seq(Nat) /\ Len(Run(n, k)) = k - n
  BY <1>1, <1>3, TableIsSequence, LenProperties
<1>5. Ascending(Run(n, k))
  BY <1>1, <1>2 DEF Ascending
<1>6. ASSUME NEW x \in n..(k-1) PROVE x \in Range(Run(n, k))
  <2>1. x - n + 1 \in 1..(k-n) /\ n + (x - n + 1) - 1 = x
    OBVIOUS
  <2>2. QED BY <1>2, <2>1 DEF Range
<1>7. ASSUME NEW x \in Range(Run(n, k)) PROVE x \in n..(k-1)
  <2>1. PICK i \in 1..(k-n) : x = n + i - 1
    BY <1>2, <1>7 DEF Range
  <2>2. QED BY <2>1
<1>8. QED BY <1>4, <1>5, <1>6, <1>7
-----------------------------------------------------------------------------
(* The inductive invariant.  ExactlyOnce, NothingDropped, the bound and the*)
(* order are not inductive alone: what keeps the order is that everything  *)
(* handed out lies behind next, and that next itself is never pending.     *)

DeliveredBehind == stream # "closed" => \A q \in Range(delivered) : q < next

IInv == /\ TypeOK
        /\ IsFiniteSet(pending) /\ BacklogBounded
        /\ ExactlyOnce
        /\ NothingDropped
        /\ InOrderWhileOpen
        /\ DeliveredBehind

(* The step every delivering Push takes: from the waiting frames P, those  *)
(* from m up to n are handed out, and n becomes the next frame expected.   *)
LEMMA HandingOut ==
  ASSUME TypeOK, ExactlyOnce, stream = "open", stream' = "open",
         InOrderWhileOpen, DeliveredBehind,
         NEW P \in SUBSET Seqs, P \cap Range(delivered) = {},
         NEW m \in Nat, NEW n \in 1..(MaxSeq + 1),
         next <= m, m <= n, n \notin P,
         NEW e \in Seq(Nat), Ascending(e), Range(e) = m..(n-1), m..(n-1) \subseteq P,
         Emit(e, n, P \ (m..(n-1))),
         accepted' = Range(delivered) \cup P
  PROVE  /\ next' \in 1..(MaxSeq + 1) /\ next' \notin pending'
         /\ pending' \subseteq Seqs
         /\ delivered' \in Seq(Seqs)
         /\ ExactlyOnce' /\ NothingDropped'
         /\ InOrderWhileOpen' /\ DeliveredBehind'
<1>1. /\ next \in Nat /\ delivered \in Seq(Seqs) /\ delivered \in Seq(Nat)
      /\ MaxSeq \in Nat
  <2>1. Seqs \subseteq Nat
    BY DEF Seqs
  <2>2. delivered \in Seq(Nat)
    BY <2>1, SeqMonotonic DEF TypeOK
  <2>3. QED BY <2>2, MaxSeqAssumption DEF TypeOK
<1>2. e \in Seq(Seqs)
  <2>1. \A i \in 1..Len(e) : e[i] \in Range(e)
    BY DEF Range
  <2>2. Range(e) \subseteq Seqs
    OBVIOUS
  <2>3. e \in [1..Len(e) -> Seqs] /\ Len(e) \in Nat
    BY <2>1, <2>2, LenProperties
  <2>4. QED BY <2>3, TableIsSequence
<1>3. delivered' = delivered \o e /\ next' = n /\ pending' = P \ (m..(n-1))
  BY DEF Emit
<1>4. delivered' \in Seq(Seqs) /\ Range(delivered') = Range(delivered) \cup Range(e)
  BY <1>1, <1>2, <1>3, AppendParts, AppendRange
<1>5. Ascending(delivered) /\ \A q \in Range(delivered) : q < next
  BY DEF InOrderWhileOpen, DeliveredBehind
<1>6. Range(delivered) \subseteq Nat
  BY <1>1, LenProperties DEF Range
<1>7. Ascending(delivered')
  <2>1. \A x \in Range(delivered), y \in Range(e) : x < y
    BY <1>1, <1>5, <1>6
  <2>2. QED BY <1>1, <1>3, <1>5, <2>1, AppendAscending
<1>8. ExactlyOnce'
  <2>1. delivered' \in Seq(Nat)
    BY <1>1, <1>3, AppendParts
  <2>2. IsInjective(delivered')
    BY <1>7, <2>1, AscendingInjective
  <2>3. Range(delivered') \cap pending' = {}
    BY <1>3, <1>4
  <2>4. QED BY <2>2, <2>3 DEF ExactlyOnce
<1>9. NothingDropped'
  BY <1>3, <1>4 DEF NothingDropped
<1>10. \A q \in Range(delivered') : q < next'
  BY <1>1, <1>3, <1>4, <1>5, <1>6
<1>11. QED
  BY <1>3, <1>4, <1>7, <1>8, <1>9, <1>10 DEF InOrderWhileOpen, DeliveredBehind

LEMMA InitInvariant == Init => IInv
<1> SUFFICES ASSUME Init PROVE IInv
  OBVIOUS
<1>1. <<>> \in Seq(Seqs) /\ Range(<<>>) = {} /\ DOMAIN <<>> = {}
  BY DEF Range
<1>2. IsFiniteSet({}) /\ Cardinality({}) = 0
  BY FS_EmptySet
<1>3. TypeOK
  BY <1>1, MaxSeqAssumption DEF Init, TypeOK
<1>4. BacklogBounded
  BY <1>2, CapAssumption DEF Init, BacklogBounded
<1>5. ExactlyOnce /\ NothingDropped /\ InOrderWhileOpen /\ DeliveredBehind
  BY <1>1 DEF Init, ExactlyOnce, NothingDropped, InOrderWhileOpen,
              DeliveredBehind, IsInjective, Ascending
<1>6. QED BY <1>2, <1>3, <1>4, <1>5 DEF Init, IInv

(* Storing one frame: the waiting frames P stay few, and stay apart from   *)
(* what came out.                                                          *)
LEMMA Storing ==
  ASSUME IInv, NEW s \in Seqs, Pushed(s)
  PROVE  LET P == pending \cup {s}
         IN  /\ P \in SUBSET Seqs /\ P \cap Range(delivered) = {}
             /\ IsFiniteSet(P)
             /\ ~Full => Cardinality(P) <= Cap
             /\ accepted' = Range(delivered) \cup P
             /\ stream = "open" /\ stream' = "open"
             /\ accepted' \subseteq Seqs /\ refused' \in 0..MaxSeq
             /\ next <= s
<1> DEFINE P == pending \cup {s}
<1>1. s \notin pending /\ ~(s < next)
  BY DEF Pushed, Duplicate
<1>2. s \in Nat /\ next \in Nat /\ next <= s
  BY <1>1 DEF IInv, TypeOK, Seqs
<1>3. s \notin Range(delivered)
  BY <1>1 DEF IInv, DeliveredBehind, Pushed
<1>4. IsFiniteSet(P) /\ Cardinality(P) = Cardinality(pending) + 1
  BY <1>1, FS_AddElement DEF IInv
<1>5. Cardinality(pending) \in Nat
  BY FS_CardinalityType DEF IInv
<1>6. ~Full => Cardinality(P) <= Cap
  BY <1>4, <1>5, CapAssumption DEF Full
<1>7. QED
  BY <1>2, <1>3, <1>4, <1>6
  DEF IInv, TypeOK, ExactlyOnce, NothingDropped, Pushed

(* A Push that hands out one run, from m up to k, of the waiting frames.   *)
LEMMA OneRunInvariant ==
  ASSUME IInv, NEW s \in Seqs, Pushed(s), ~Full,
         NEW m \in Nat, NEW k \in 1..(MaxSeq + 1), next <= m,
         DrainsTo(pending \cup {s}, m, k),
         Emit(Run(m, k), k, Drained(pending \cup {s}, m, k)),
         gap' = "none"
  PROVE  IInv'
<1> DEFINE P == pending \cup {s}
<1>1. /\ P \in SUBSET Seqs /\ P \cap Range(delivered) = {}
      /\ IsFiniteSet(P) /\ Cardinality(P) <= Cap
      /\ accepted' = Range(delivered) \cup P
      /\ stream = "open" /\ stream' = "open"
      /\ accepted' \subseteq Seqs /\ refused' \in 0..MaxSeq
  BY Storing
<1>2. /\ k \notin P /\ m..(k-1) \subseteq P /\ m <= k
      /\ Emit(Run(m, k), k, P \ (m..(k-1)))
  BY DEF DrainsTo, Drained
<1> HIDE DEF P
<1>3. /\ Run(m, k) \in Seq(Nat) /\ Ascending(Run(m, k))
      /\ Range(Run(m, k)) = m..(k-1)
  BY <1>2, RunProperties
<1>4. /\ next' \in 1..(MaxSeq + 1) /\ next' \notin pending'
      /\ pending' \subseteq Seqs
      /\ delivered' \in Seq(Seqs)
      /\ ExactlyOnce' /\ NothingDropped'
      /\ InOrderWhileOpen' /\ DeliveredBehind'
  BY <1>1, <1>2, <1>3, HandingOut DEF IInv
<1>5. IsFiniteSet(pending') /\ Cardinality(pending') <= Cardinality(P)
  BY <1>1, <1>2, FS_Subset DEF Emit
<1>6. Cardinality(pending') <= Cap
  BY <1>1, <1>5, FS_CardinalityType, CapAssumption
<1>7. QED
  BY <1>1, <1>4, <1>5, <1>6 DEF IInv, TypeOK, BacklogBounded

LEMMA PushDeliversInvariant ==
  ASSUME IInv, NEW s \in Seqs, PushDelivers(s)
  PROVE  IInv'
<1>1. PICK k \in next..(MaxSeq + 1) :
         /\ DrainsTo(pending \cup {s}, next, k)
         /\ Emit(Run(next, k), k, Drained(pending \cup {s}, next, k))
  BY DEF PushDelivers
<1>2. next \in Nat /\ k \in 1..(MaxSeq + 1) /\ next <= next
  BY MaxSeqAssumption DEF IInv, TypeOK
<1>3. QED
  BY <1>1, <1>2, OneRunInvariant DEF PushDelivers

LEMMA PushSkipsInvariant ==
  ASSUME IInv, NEW s \in Seqs, PushSkips(s)
  PROVE  IInv'
<1> DEFINE P == pending \cup {s}
<1>1. PICK m \in Seqs, k \in Seqs \cup {MaxSeq + 1} :
         /\ SkipsTo(P, m) /\ DrainsTo(P, m, k)
         /\ Emit(Run(m, k), k, Drained(P, m, k))
  BY DEF PushSkips
<1>2. next < m
  BY <1>1 DEF PushSkips, CanSkip, SkipsTo
<1>3. m \in Nat /\ k \in 1..(MaxSeq + 1) /\ next <= m
  BY <1>2, MaxSeqAssumption DEF IInv, TypeOK, Seqs
<1>4. QED
  BY <1>1, <1>3, OneRunInvariant DEF PushSkips

LEMMA PushWaitsInvariant ==
  ASSUME IInv, NEW s \in Seqs, PushWaits(s)
  PROVE  IInv'
<1>1. /\ pending \cup {s} \in SUBSET Seqs
      /\ (pending \cup {s}) \cap Range(delivered) = {}
      /\ IsFiniteSet(pending \cup {s}) /\ Cardinality(pending \cup {s}) <= Cap
      /\ accepted' = Range(delivered) \cup (pending \cup {s})
      /\ accepted' \subseteq Seqs /\ refused' \in 0..MaxSeq
      /\ stream = "open" /\ stream' = "open"
  BY Storing DEF PushWaits
<1>2. next' = next /\ pending' = pending \cup {s} /\ next \notin pending'
  BY DEF PushWaits, Emit
<1>3. delivered' = delivered
  BY ConcatEmptySeq DEF PushWaits, Emit, IInv, TypeOK
<1>4. gap' \in {"none", "fresh", "expired"}
  BY DEF PushWaits, ArmedBy, IInv, TypeOK
<1>5. QED
  BY <1>1, <1>2, <1>3, <1>4
  DEF IInv, TypeOK, BacklogBounded, ExactlyOnce, NothingDropped,
      InOrderWhileOpen, DeliveredBehind, Ascending, IsInjective, Range

(* Recovery hands out the run it skips to and, after storing the frame,    *)
(* the run that follows: together one run of the waiting frames and s.     *)
LEMMA PushRecoversInvariant ==
  ASSUME IInv, NEW s \in Seqs, PushRecovers(s)
  PROVE  IInv'
<1> DEFINE P == pending \cup {s}
           R(m, k) == Drained(pending, m, k) \cup {s}
<1>1. PICK m \in Seqs, k \in Seqs \cup {MaxSeq + 1},
           l \in Seqs \cup {MaxSeq + 1} :
         /\ SkipsTo(pending, m) /\ DrainsTo(pending, m, k)
         /\ DrainsTo(R(m, k), k, l)
         /\ Emit(Run(m, k) \o Run(k, l), l, Drained(R(m, k), k, l))
  BY DEF PushRecovers
<1>2. /\ P \in SUBSET Seqs /\ P \cap Range(delivered) = {}
      /\ IsFiniteSet(P)
      /\ accepted' = Range(delivered) \cup P
      /\ stream = "open" /\ stream' = "open"
      /\ accepted' \subseteq Seqs /\ refused' \in 0..MaxSeq
  BY Storing DEF PushRecovers
<1>3. /\ m \in Nat /\ k \in Nat /\ l \in 1..(MaxSeq + 1) /\ l \in Nat
      /\ m <= k /\ k <= l /\ m # k /\ next \in Nat /\ s \in Nat
  BY <1>1, MaxSeqAssumption DEF SkipsTo, DrainsTo, Seqs, IInv, TypeOK
<1>4. next <= m
  BY <1>1, <1>3 DEF PushRecovers, CanSkip, SkipsTo
<1>5. s \notin pending
  BY DEF PushRecovers, Pushed, Duplicate
<1>6. /\ m..(k-1) \subseteq pending /\ k \notin pending
      /\ k..(l-1) \subseteq (pending \ (m..(k-1))) \cup {s}
      /\ l \notin (pending \ (m..(k-1))) \cup {s}
  BY <1>1 DEF DrainsTo, Drained
<1>7. m..(l-1) = (m..(k-1)) \cup (k..(l-1))
  BY <1>3
<1>8. m..(l-1) \subseteq P /\ l \notin P
  <2>1. l \notin m..(k-1)
    BY <1>3
  <2>2. QED BY <1>6, <1>7, <2>1
<1>9. Drained(R(m, k), k, l) = P \ (m..(l-1))
  BY <1>5, <1>6, <1>7 DEF Drained
<1> DEFINE e == Run(m, k) \o Run(k, l)
<1>10. e \in Seq(Nat) /\ Ascending(e) /\ Range(e) = m..(l-1)
  <2>1. PICK a \in Seq(Nat) : a = Run(m, k) /\ Ascending(a) /\ Range(a) = m..(k-1)
    BY <1>3, RunProperties
  <2>2. PICK b \in Seq(Nat) : b = Run(k, l) /\ Ascending(b) /\ Range(b) = k..(l-1)
    BY <1>3, RunProperties
  <2>3. \A x \in Range(a), y \in Range(b) : x < y
    BY <1>3, <2>1, <2>2
  <2>4. a \o b \in Seq(Nat) /\ Range(a \o b) = Range(a) \cup Range(b)
    BY AppendParts, AppendRange
  <2>5. Ascending(a \o b)
    BY <2>1, <2>2, <2>3, AppendAscending
  <2>6. QED BY <1>7, <2>1, <2>2, <2>4, <2>5
<1>11. Emit(e, l, P \ (m..(l-1)))
  BY <1>1, <1>9
<1> HIDE DEF P, e
<1>12. /\ next' \in 1..(MaxSeq + 1) /\ next' \notin pending'
       /\ pending' \subseteq Seqs
       /\ delivered' \in Seq(Seqs)
       /\ ExactlyOnce' /\ NothingDropped'
       /\ InOrderWhileOpen' /\ DeliveredBehind'
  <2>1. m <= l
    BY <1>3
  <2>2. QED BY <1>2, <1>3, <1>4, <1>8, <1>10, <1>11, <2>1, HandingOut DEF IInv
<1>13. IsFiniteSet(pending') /\ Cardinality(pending') <= Cap
  <2>1. m \in pending /\ m \in m..(l-1) /\ m # s
    BY <1>1, <1>3, <1>5 DEF SkipsTo
  <2>2. /\ IsFiniteSet(pending \ {m})
        /\ Cardinality(pending \ {m}) = Cardinality(pending) - 1
    BY <2>1, FS_RemoveElement DEF IInv
  <2>3. /\ IsFiniteSet((pending \ {m}) \cup {s})
        /\ Cardinality((pending \ {m}) \cup {s}) = Cardinality(pending)
    <3>1. s \notin pending \ {m}
      BY <1>5
    <3>2. /\ IsFiniteSet((pending \ {m}) \cup {s})
          /\ Cardinality((pending \ {m}) \cup {s}) = Cardinality(pending \ {m}) + 1
      BY <2>2, <3>1, FS_AddElement
    <3>3. Cardinality(pending) \in Nat
      BY FS_CardinalityType DEF IInv
    <3>4. QED BY <2>2, <3>2, <3>3
  <2>4. pending' \in SUBSET ((pending \ {m}) \cup {s})
    BY <1>11, <2>1 DEF Emit, P
  <2>5. IsFiniteSet(pending') /\ Cardinality(pending') <= Cardinality(pending)
    BY <2>3, <2>4, FS_Subset
  <2>6. QED
    BY <2>5, FS_CardinalityType, CapAssumption DEF IInv, BacklogBounded
<1>14. gap' = "none"
  BY DEF PushRecovers
<1>15. QED
  BY <1>2, <1>12, <1>13, <1>14 DEF IInv, TypeOK, BacklogBounded

LEMMA FlushInvariant ==
  ASSUME IInv, Flush
  PROVE  IInv'
<1>1. /\ stream' = "closed" /\ accepted' = accepted /\ refused' = refused
      /\ delivered \in Seq(Seqs) /\ MaxSeq \in Nat /\ Seqs \subseteq Nat
  BY MaxSeqAssumption DEF Flush, IInv, TypeOK, Seqs
<1>2. CASE pending = {} /\ Emit(<<>>, next, {}) /\ UNCHANGED gap
  <2>1. UNCHANGED <<next, pending, gap, delivered>>
    BY <1>1, <1>2, ConcatEmptySeq DEF Emit
  <2>2. QED
    BY <1>1, <2>1
    DEF IInv, TypeOK, BacklogBounded, ExactlyOnce, NothingDropped,
        InOrderWhileOpen, DeliveredBehind, IsInjective, Range
<1>3. CASE pending # {} /\ gap' = "none"
           /\ \E f \in [1..Cardinality(pending) -> pending] :
                FlushesAs(pending, f) /\ Emit(f, f[Len(f)] + 1, {})
  <2>1. PICK f \in [1..Cardinality(pending) -> pending] :
           FlushesAs(pending, f) /\ Emit(f, f[Len(f)] + 1, {})
    BY <1>3
  <2>2. Cardinality(pending) \in Nat /\ Cardinality(pending) # 0
    BY <1>3, FS_CardinalityType, FS_EmptySet DEF IInv
  <2>3. /\ f \in [1..Cardinality(pending) -> Seqs]
        /\ f \in [1..Cardinality(pending) -> Nat]
    BY <1>1, <2>1 DEF IInv, TypeOK
  <2>4. f \in Seq(Seqs) /\ f \in Seq(Nat) /\ Len(f) = Cardinality(pending)
    BY <2>2, <2>3, TableIsSequence, LenProperties
  <2>5. Range(f) = pending /\ IsInjective(f)
    BY <2>1, <2>4, AscendingInjective DEF FlushesAs
  <2>6. f[Len(f)] \in Seqs
    BY <2>2, <2>3, <2>4
  <2>7. next' \in 1..(MaxSeq + 1) /\ pending' = {} /\ delivered' = delivered \o f
    BY <1>1, <2>1, <2>6 DEF Emit, Seqs
  <2>8. delivered \in Seq(Nat) /\ IsInjective(delivered)
        /\ Range(delivered) \cap Range(f) = {}
    BY <1>1, <2>5, SeqMonotonic DEF IInv, ExactlyOnce
  <2>9. IsInjective(delivered')
    BY <2>4, <2>5, <2>7, <2>8, ConcatInjective
  <2>10. /\ delivered' \in Seq(Seqs)
         /\ Range(delivered') = Range(delivered) \cup pending
    BY <1>1, <2>4, <2>5, <2>7, AppendParts, AppendRange
  <2>11. IsFiniteSet({}) /\ Cardinality({}) = 0
    BY FS_EmptySet
  <2>12. QED
    BY <1>1, <1>3, <2>7, <2>9, <2>10, <2>11, CapAssumption
    DEF IInv, TypeOK, BacklogBounded, ExactlyOnce, NothingDropped,
        InOrderWhileOpen, DeliveredBehind
<1>4. QED BY <1>2, <1>3 DEF Flush

LEMMA NextInvariant == IInv /\ [Next]_vars => IInv'
<1> SUFFICES ASSUME IInv, [Next]_vars PROVE IInv'
  OBVIOUS
<1>1. CASE UNCHANGED vars
  BY <1>1
  DEF vars, IInv, TypeOK, BacklogBounded, ExactlyOnce, NothingDropped,
      InOrderWhileOpen, DeliveredBehind
<1>2. ASSUME NEW s \in Seqs, PushDuplicate(s) PROVE IInv'
  BY <1>1, <1>2 DEF PushDuplicate
<1>3. ASSUME NEW s \in Seqs, PushDelivers(s) PROVE IInv'
  BY <1>3, PushDeliversInvariant
<1>4. ASSUME NEW s \in Seqs, PushWaits(s) PROVE IInv'
  BY <1>4, PushWaitsInvariant
<1>5. ASSUME NEW s \in Seqs, PushSkips(s) PROVE IInv'
  BY <1>5, PushSkipsInvariant
<1>6. ASSUME NEW s \in Seqs, PushRecovers(s) PROVE IInv'
  BY <1>6, PushRecoversInvariant
<1>7. ASSUME NEW s \in Seqs, PushRefused(s) PROVE IInv'
  BY <1>7, MaxSeqAssumption
  DEF PushRefused, IInv, TypeOK, BacklogBounded, ExactlyOnce, NothingDropped,
      InOrderWhileOpen, DeliveredBehind, Seqs
<1>8. CASE Elapse
  BY <1>8
  DEF Elapse, IInv, TypeOK, BacklogBounded, ExactlyOnce, NothingDropped,
      InOrderWhileOpen, DeliveredBehind
<1>9. CASE Flush
  BY <1>9, FlushInvariant
<1>10. QED
  BY <1>1, <1>2, <1>3, <1>4, <1>5, <1>6, <1>7, <1>8, <1>9 DEF Next, Push

(* The buffer's whole invariant holds in every behaviour.                  *)
THEOREM Invariance == Spec => []IInv
<1>1. Init => IInv
  BY InitInvariant
<1>2. IInv /\ [Next]_vars => IInv'
  BY NextInvariant
<1>3. QED BY <1>1, <1>2, PTL DEF Spec

(* The fields of Buffer keep their types, and the missing frame is never   *)
(* stored (buffer.go:30-42), for every stream length and capacity.         *)
THEOREM TypeCorrect == Spec => []TypeOK
<1>1. IInv => TypeOK
  BY DEF IInv
<1>2. QED BY <1>1, Invariance, PTL

(* len(b.pending) never exceeds b.cap, the recovery of Push included       *)
(* (buffer.go:81-93).                                                      *)
THEOREM Bounded == Spec => []BacklogBounded
<1>1. IInv => BacklogBounded
  BY DEF IInv
<1>2. QED BY <1>1, Invariance, PTL

(* Push and Flush hand out no frame twice (buffer.go:71-116, 175-198).     *)
THEOREM Once == Spec => []ExactlyOnce
<1>1. IInv => ExactlyOnce
  BY DEF IInv
<1>2. QED BY <1>1, Invariance, PTL

(* A stored frame waits or has been handed out; it is never thrown away.   *)
THEOREM Conservation == Spec => []NothingDropped
<1>1. IInv => NothingDropped
  BY DEF IInv
<1>2. QED BY <1>1, Invariance, PTL

(* Until the flush at a CLOSE, frames come out in sequence order.          *)
THEOREM Ordered == Spec => []InOrderWhileOpen
<1>1. IInv => InOrderWhileOpen
  BY DEF IInv
<1>2. QED BY <1>1, Invariance, PTL
-----------------------------------------------------------------------------
(* Refinement: every step of the buffer is a step of OrderedStream.        *)

LEMMA AppendExtends ==
  ASSUME NEW d \in Seq(Nat), NEW e \in Seq(Nat)
  PROVE  Stream!Extends(d \o e, d)
BY AppendParts DEF Stream!Extends

LEMMA DeliveredNat == IInv => delivered \in Seq(Nat) /\ pending \subseteq Nat
<1>1. Seqs \subseteq Nat
  BY DEF Seqs
<1>2. QED BY <1>1, SeqMonotonic DEF IInv, TypeOK

LEMMA PushIsDeliver ==
  ASSUME IInv, IInv', NEW s \in Seqs, Pushed(s),
         NEW e \in Seq(Nat), delivered' = delivered \o e
  PROVE  Stream!Deliver
<1>1. stream = "open" /\ stream' = "open" /\ accepted \subseteq accepted'
  BY DEF Pushed
<1>2. delivered \in Seq(Nat)
  BY DeliveredNat
<1>3. Stream!Extends(delivered', delivered)
  BY <1>2, AppendExtends
<1>4. /\ accepted' \subseteq Seqs
      /\ Range(delivered') \subseteq accepted'
      /\ IsInjective(delivered') /\ Ascending(delivered')
  BY <1>1 DEF IInv, TypeOK, NothingDropped, ExactlyOnce, InOrderWhileOpen
<1>5. QED
  BY <1>1, <1>3, <1>4
  DEF Stream!Deliver, Stream!Progress, Stream!Ascending, Ascending,
      Stream!Seqs, Seqs, Stream!Range, Range, Stream!IsInjective, IsInjective

(* A flush adds to what came out.                                          *)
LEMMA FlushAppends ==
  ASSUME IInv, Flush
  PROVE  \E e \in Seq(Nat) : delivered' = delivered \o e
<1>1. CASE Emit(<<>>, next, {})
  <2>1. delivered' = delivered \o <<>> /\ <<>> \in Seq(Nat)
    BY <1>1 DEF Emit
  <2>2. QED BY <2>1
<1>2. CASE pending # {} /\ \E f \in [1..Cardinality(pending) -> pending] :
              Emit(f, f[Len(f)] + 1, {})
  <2>1. PICK f \in [1..Cardinality(pending) -> pending] : delivered' = delivered \o f
    BY <1>2 DEF Emit
  <2>2. Cardinality(pending) \in Nat /\ f \in [1..Cardinality(pending) -> Nat]
    BY <2>1, DeliveredNat, FS_CardinalityType DEF IInv
  <2>3. f \in Seq(Nat)
    BY <2>2, TableIsSequence
  <2>4. QED BY <2>1, <2>3
<1>3. QED BY <1>1, <1>2 DEF Flush

LEMMA FlushIsFinish ==
  ASSUME IInv, IInv', Flush
  PROVE  Stream!Finish
<1>1. /\ stream = "open" /\ stream' = "closed"
      /\ accepted' = accepted /\ pending' = {}
  BY DEF Flush, Emit
<1>2. delivered \in Seq(Nat)
  BY DeliveredNat
<1>3. PICK e \in Seq(Nat) : delivered' = delivered \o e
  BY FlushAppends
<1>4. Stream!Extends(delivered', delivered)
  BY <1>2, <1>3, AppendExtends
<1>5. /\ accepted' \subseteq Seqs
      /\ Range(delivered') = accepted'
      /\ IsInjective(delivered')
  BY <1>1 DEF IInv, TypeOK, NothingDropped, ExactlyOnce
<1>6. QED
  BY <1>1, <1>4, <1>5
  DEF Stream!Finish, Stream!Progress, Stream!Seqs, Seqs,
      Stream!Range, Range, Stream!IsInjective, IsInjective

LEMMA StepRefines ==
  ASSUME IInv, IInv', [Next]_vars
  PROVE  [Stream!Next]_(Stream!vars)
<1>1. MaxSeq \in Nat /\ next \in Nat /\ Seqs \subseteq Nat
  BY MaxSeqAssumption DEF IInv, TypeOK, Seqs
<1>2. CASE UNCHANGED vars
  BY <1>2 DEF vars, Stream!vars
<1>3. ASSUME NEW s \in Seqs, PushDuplicate(s) PROVE UNCHANGED Stream!vars
  BY <1>3 DEF PushDuplicate, vars, Stream!vars
<1>4. ASSUME NEW s \in Seqs, PushDelivers(s) PROVE Stream!Deliver
  <2>1. PICK k \in next..(MaxSeq + 1) : delivered' = delivered \o Run(next, k)
    BY <1>4 DEF PushDelivers, Emit
  <2>2. Run(next, k) \in Seq(Nat)
    BY <1>1, RunProperties
  <2>3. QED BY <1>4, <2>1, <2>2, PushIsDeliver DEF PushDelivers
<1>5. ASSUME NEW s \in Seqs, PushWaits(s) PROVE Stream!Deliver
  <2>1. delivered' = delivered \o <<>> /\ <<>> \in Seq(Nat)
    BY <1>5 DEF PushWaits, Emit
  <2>2. QED BY <1>5, <2>1, PushIsDeliver DEF PushWaits
<1>6. ASSUME NEW s \in Seqs, PushSkips(s) PROVE Stream!Deliver
  <2>1. PICK m \in Seqs, k \in Seqs \cup {MaxSeq + 1} :
           /\ DrainsTo(pending \cup {s}, m, k)
           /\ delivered' = delivered \o Run(m, k)
    BY <1>6 DEF PushSkips, Emit
  <2>2. Run(m, k) \in Seq(Nat)
    BY <1>1, <2>1, RunProperties DEF DrainsTo
  <2>3. QED BY <1>6, <2>1, <2>2, PushIsDeliver DEF PushSkips
<1>7. ASSUME NEW s \in Seqs, PushRecovers(s) PROVE Stream!Deliver
  <2>1. PICK m \in Seqs, k \in Seqs \cup {MaxSeq + 1},
             l \in Seqs \cup {MaxSeq + 1} :
           /\ m <= k /\ k <= l
           /\ delivered' = delivered \o (Run(m, k) \o Run(k, l))
    BY <1>7 DEF PushRecovers, Emit, DrainsTo
  <2>2. Run(m, k) \in Seq(Nat) /\ Run(k, l) \in Seq(Nat)
    BY <1>1, <2>1, RunProperties
  <2>3. Run(m, k) \o Run(k, l) \in Seq(Nat)
    BY <2>2, AppendParts
  <2>4. QED BY <1>7, <2>1, <2>3, PushIsDeliver DEF PushRecovers
<1>8. ASSUME NEW s \in Seqs, PushRefused(s) PROVE Stream!Break
  BY <1>8 DEF PushRefused, Stream!Break
<1>9. CASE Elapse
  BY <1>9 DEF Elapse, Stream!vars
<1>10. CASE Flush
  BY <1>10, FlushIsFinish DEF Stream!Next
<1>11. QED
  BY <1>2, <1>3, <1>4, <1>5, <1>6, <1>7, <1>8, <1>9, <1>10
  DEF Next, Push, Stream!Next

(* The buffer implements the stream the sockets are promised: once, in     *)
(* order while open, complete at a CLOSE, silent after the end.            *)
THEOREM Refinement == Spec => StreamSpec
<1>1. Init => Stream!Init
  BY DEF Init, Stream!Init
<1>2. IInv /\ IInv' /\ [Next]_vars => [Stream!Next]_(Stream!vars)
  BY StepRefines
<1>3. QED
  BY <1>1, <1>2, Invariance, PTL DEF Spec, StreamSpec, Stream!Spec
-----------------------------------------------------------------------------
(* What no single call may do.                                             *)

(* A call that hands out a run of at least one frame moves the stream.     *)
LEMMA RunIsLonger ==
  ASSUME IInv, NEW m \in Nat, NEW k \in Nat, m < k, NEW e \in Seq(Nat),
         \/ delivered' = delivered \o Run(m, k)
         \/ delivered' = delivered \o (Run(m, k) \o e)
  PROVE  Len(delivered') > Len(delivered)
<1>1. delivered \in Seq(Nat) /\ Len(delivered) \in Nat
  BY DeliveredNat
<1>2. Run(m, k) \in Seq(Nat) /\ Len(Run(m, k)) = k - m /\ k - m > 0 /\ k - m \in Nat
  <2>1. m <= k /\ k - m > 0 /\ k - m \in Nat
    OBVIOUS
  <2> QED
    BY <2>1, RunProperties
<1>3. CASE delivered' = delivered \o Run(m, k)
  <2>1. PICK r \in Seq(Nat) : r = Run(m, k) /\ Len(r) = k - m
    BY <1>2
  <2>2. Len(delivered \o r) = Len(delivered) + Len(r)
    BY <1>1, AppendParts
  <2>3. Len(delivered') = Len(delivered) + (k - m)
    BY <1>3, <2>1, <2>2
  <2> QED
    BY <1>1, <1>2, <2>3
<1>4. CASE delivered' = delivered \o (Run(m, k) \o e)
  <2>1. Run(m, k) \o e \in Seq(Nat) /\ Len(Run(m, k) \o e) = (k - m) + Len(e) /\ Len(e) \in Nat
    <3>1. PICK r \in Seq(Nat) : r = Run(m, k) /\ Len(r) = k - m
      BY <1>2
    <3>2. r \o e \in Seq(Nat) /\ Len(r \o e) = Len(r) + Len(e) /\ Len(e) \in Nat
      BY AppendParts
    <3> QED
      BY <3>1, <3>2
  <2>2. PICK r \in Seq(Nat) : r = Run(m, k) \o e
    BY <2>1
  <2>3. Len(delivered \o r) = Len(delivered) + Len(r)
    BY <1>1, <2>2, AppendParts
  <2>4. Len(delivered') = Len(delivered) + ((k - m) + Len(e))
    BY <1>4, <2>1, <2>2, <2>3
  <2> QED
    BY <1>1, <1>2, <2>1, <2>4
<1> QED
  BY <1>3, <1>4

(* The numbers a step starts from.                                         *)
LEMMA Numbers ==
  IInv => /\ next \in Nat /\ MaxSeq \in Nat /\ Seqs \subseteq Nat /\ pending \subseteq Nat
          /\ Seqs \cup {MaxSeq + 1} \subseteq Nat /\ next \notin pending
          /\ pending \subseteq accepted
BY MaxSeqAssumption DEF IInv, TypeOK, Seqs, NothingDropped

(* Flush keeps the order of the stream unless recovery stored a frame      *)
(* behind next (buffer.go:175-198).                                        *)
THEOREM FlushOrdered == Spec => FlushKeepsOrder
<1>1. ASSUME IInv, [Next]_vars, stream' = "closed", stream = "open", Stale = {}
      PROVE  Ascending(delivered')
  <2>1. Flush
    BY <1>1 DEF Next, vars, Push, PushDuplicate, PushDelivers, PushWaits, PushSkips,
       PushRecovers, PushRefused, Pushed, Elapse
  <2>2. delivered \in Seq(Nat) /\ Ascending(delivered)
    BY <1>1, DeliveredNat DEF IInv, InOrderWhileOpen
  <2>3. CASE pending = {}
    BY <2>1, <2>2, <2>3 DEF Flush, Emit
  <2>4. CASE pending # {}
    <3>1. PICK f \in [1..Cardinality(pending) -> pending] :
             FlushesAs(pending, f) /\ delivered' = delivered \o f
      BY <2>1, <2>4 DEF Flush, Emit
    <3>2. Cardinality(pending) \in Nat /\ f \in [1..Cardinality(pending) -> Nat]
      BY <1>1, <3>1, DeliveredNat, FS_CardinalityType DEF IInv
    <3>3. f \in Seq(Nat) /\ Ascending(f) /\ Range(f) = pending
      BY <3>1, <3>2, TableIsSequence DEF FlushesAs
    <3>4. ASSUME NEW x \in Range(delivered), NEW y \in Range(f)
          PROVE  x < y
      <4>1. x < next /\ ~(y < next)
        BY <1>1, <3>3 DEF IInv, DeliveredBehind, Stale
      <4>2. x \in Nat /\ y \in Nat /\ next \in Nat
        BY <1>1, <2>2, <3>3, Numbers, RangeTyped
      <4> QED
        BY <4>1, <4>2
    <3> QED
      BY <2>2, <3>1, <3>3, <3>4, AppendAscending
  <2> QED
    BY <2>3, <2>4
<1>2. IInv /\ [Next]_vars =>
        [stream' = "closed" /\ stream = "open" /\ Stale = {} => Ascending(delivered')]_vars
  BY <1>1
<1> QED
  BY <1>2, Invariance, PTL DEF Spec, FlushKeepsOrder

(* A frame that is missing is given up only when gapTimeout has passed     *)
(* since the gap opened (buffer.go:104-113).                               *)
THEOREM NeverSkipsEarly == Spec => NoEarlySkip
<1>1. ASSUME IInv, [Next]_vars, stream' = "open", gap # "expired"
      PROVE  next..(next' - 1) \subseteq accepted'
  <2>1. CASE next' = next
    BY <1>1, <2>1, Numbers
  <2>2. CASE next' # next
    <3>1. PICK s \in Seqs : PushDelivers(s)
      BY <1>1, <2>2 DEF Next, vars, Push, PushDuplicate, PushWaits, PushSkips,
         PushRecovers, PushRefused, Pushed, Elapse, Flush, GapExpired, Emit
    <3>2. PICK k \in next..(MaxSeq + 1) :
             DrainsTo(pending \cup {s}, next, k) /\ next' = k
      BY <3>1 DEF PushDelivers, Emit
    <3>3. accepted' = accepted \cup {s}
      BY <3>1 DEF PushDelivers, Pushed
    <3> QED
      BY <1>1, <3>2, <3>3, Numbers DEF DrainsTo
  <2> QED
    BY <2>1, <2>2
<1>2. IInv /\ [Next]_vars =>
        [stream' = "open" /\ ~(next..(next' - 1) \subseteq accepted') => gap = "expired"]_vars
  BY <1>1
<1> QED
  BY <1>2, Invariance, PTL DEF Spec, NoEarlySkip

(* A skip leaves no waiting frame behind the delivery point: what it       *)
(* passes over never arrived (buffer.go:140-161).                          *)
THEOREM SkipsAreGaps == Spec => SkipsOnlyMissing
<1>1. ASSUME IInv, [Next]_vars, stream' = "open", Stale = {}, Cardinality(pending) < Cap,
             NEW q \in pending'
      PROVE  next' < q
  <2>1. \A p \in pending : next < p
    BY <1>1, Numbers DEF Stale
  <2>2. ~Full
    BY <1>1, CapAssumption, FS_CardinalityType DEF Full, IInv
  <2>3. CASE pending' = pending /\ next' = next
    BY <2>1, <2>3
  <2>4. ASSUME NEW s \in Seqs, PushDelivers(s)
        PROVE  next' < q
    <3>1. PICK k \in next..(MaxSeq + 1) :
             /\ DrainsTo(pending \cup {s}, next, k) /\ next' = k
             /\ pending' = Drained(pending \cup {s}, next, k)
      BY <2>4 DEF PushDelivers, Emit
    <3>2. ~(s < next)
      BY <2>4 DEF PushDelivers, Pushed, Duplicate
    <3> QED
      BY <1>1, <2>1, <3>1, <3>2, Numbers DEF DrainsTo, Drained
  <2>5. ASSUME NEW s \in Seqs, PushWaits(s)
        PROVE  next' < q
    <3>1. /\ next' = next /\ pending' = pending \cup {s} /\ next \notin pending \cup {s}
          /\ ~(s < next)
      BY <2>5 DEF PushWaits, Pushed, Duplicate, Emit
    <3> QED
      BY <1>1, <2>1, <3>1, Numbers
  <2>6. ASSUME NEW s \in Seqs, PushSkips(s)
        PROVE  next' < q
    <3>1. PICK m \in Seqs, k \in Seqs \cup {MaxSeq + 1} :
             /\ SkipsTo(pending \cup {s}, m) /\ DrainsTo(pending \cup {s}, m, k)
             /\ next' = k /\ pending' = Drained(pending \cup {s}, m, k)
      BY <2>6 DEF PushSkips, Emit
    <3> QED
      BY <1>1, <3>1, Numbers DEF SkipsTo, DrainsTo, Drained
  <2> QED
    BY <1>1, <2>2, <2>3, <2>4, <2>5, <2>6 DEF Next, vars, Push, PushDuplicate,
       PushRecovers, PushRefused, Elapse, Flush
<1>2. IInv /\ [Next]_vars =>
        [stream' = "open" /\ Stale = {} /\ Cardinality(pending) < Cap
          => \A q \in pending' : next' < q]_vars
  BY <1>1
<1> QED
  BY <1>2, Invariance, PTL DEF Spec, SkipsOnlyMissing

(* With the timer expired a new frame gets data moving exactly if nothing   *)
(* is stuck behind next or it is the frame next itself: what recovery      *)
(* stored behind next stops every later skip (buffer.go:149-151).          *)
THEOREM ExpiryMoves == Spec => ExpiredGapMoves
<1>1. ASSUME IInv, [Next]_vars, gap = "expired", accepted' # accepted
      PROVE  Len(delivered') > Len(delivered) <=> Stale = {} \/ next \in accepted'
  <2>1. PICK s \in Seqs : PushDelivers(s) \/ PushWaits(s) \/ PushSkips(s) \/ PushRecovers(s)
    BY <1>1 DEF Next, vars, Push, PushDuplicate, PushRefused, Elapse, Flush
  <2>2. accepted' = accepted \cup {s} /\ stream = "open" /\ s \in Nat /\ ~(s < next)
    BY <1>1, <2>1, Numbers
    DEF PushDelivers, PushWaits, PushSkips, PushRecovers, Pushed, Duplicate
  <2>3. CASE PushDelivers(s)
    <3>1. PICK k \in next..(MaxSeq + 1) :
             /\ k > next /\ DrainsTo(pending \cup {s}, next, k)
             /\ delivered' = delivered \o Run(next, k)
      BY <2>3 DEF PushDelivers, Emit
    <3>2. next \in Nat /\ k \in Nat /\ next < k /\ <<>> \in Seq(Nat)
      BY <1>1, <3>1, Numbers
    <3>3. next \in accepted'
      BY <1>1, <2>2, <3>1, <3>2, Numbers DEF DrainsTo
    <3>4. Len(delivered') > Len(delivered)
      BY <1>1, <3>1, <3>2, RunIsLonger
    <3> QED
      BY <3>3, <3>4
  <2>4. CASE PushWaits(s)
    <3>1. /\ next \notin pending \cup {s}
          /\ ~(GapExpired /\ CanSkip(pending \cup {s}, next))
          /\ delivered' = delivered \o <<>>
      BY <2>4 DEF PushWaits, Emit
    <3>2. \E p \in pending \cup {s} : p < next
      BY <1>1, <3>1, Numbers DEF GapExpired, CanSkip
    <3>3. Stale # {}
      BY <2>2, <3>2 DEF Stale
    <3>4. next \notin accepted'
      BY <1>1, <2>2, <3>1, Numbers DEF IInv, NothingDropped, DeliveredBehind
    <3>5. ~(Len(delivered') > Len(delivered))
      <4>1. delivered' = delivered /\ Len(delivered) \in Nat
        BY <1>1, <3>1, DeliveredNat
      <4> QED
        BY <4>1
    <3> QED
      BY <3>3, <3>4, <3>5
  <2>5. CASE PushSkips(s)
    <3>1. PICK m \in Seqs, k \in Seqs \cup {MaxSeq + 1} :
             /\ SkipsTo(pending \cup {s}, m) /\ DrainsTo(pending \cup {s}, m, k)
             /\ CanSkip(pending \cup {s}, next)
             /\ delivered' = delivered \o Run(m, k)
      BY <2>5 DEF PushSkips, Emit
    <3>2. m \in Nat /\ k \in Nat /\ m < k /\ <<>> \in Seq(Nat)
      BY <1>1, <3>1, Numbers DEF SkipsTo, DrainsTo
    <3>3. Stale = {}
      BY <1>1, <3>1, Numbers DEF CanSkip, Stale
    <3>4. Len(delivered') > Len(delivered)
      BY <1>1, <3>1, <3>2, RunIsLonger
    <3> QED
      BY <3>3, <3>4
  <2>6. CASE PushRecovers(s)
    <3>1. PICK m \in Seqs, k \in Seqs \cup {MaxSeq + 1}, l \in Seqs \cup {MaxSeq + 1} :
             /\ SkipsTo(pending, m) /\ DrainsTo(pending, m, k) /\ k <= l
             /\ CanSkip(pending, next)
             /\ delivered' = delivered \o (Run(m, k) \o Run(k, l))
      BY <2>6 DEF PushRecovers, Emit, DrainsTo
    <3>2. m \in Nat /\ k \in Nat /\ l \in Nat /\ m < k
      BY <1>1, <3>1, Numbers DEF SkipsTo, DrainsTo
    <3>3. Run(k, l) \in Seq(Nat)
      BY <3>1, <3>2, RunProperties
    <3>4. Stale = {}
      BY <1>1, <3>1, Numbers DEF CanSkip, Stale
    <3>5. Len(delivered') > Len(delivered)
      BY <1>1, <3>1, <3>2, <3>3, RunIsLonger
    <3> QED
      BY <3>4, <3>5
  <2> QED
    BY <2>1, <2>3, <2>4, <2>5, <2>6
<1>2. IInv /\ [Next]_vars =>
        [gap = "expired" /\ accepted' # accepted
          => (Len(delivered') > Len(delivered) <=> Stale = {} \/ next \in accepted')]_vars
  BY <1>1
<1> QED
  BY <1>2, Invariance, PTL DEF Spec, ExpiredGapMoves
=============================================================================
