--------------------------- MODULE MultipathProofs ---------------------------
(***************************************************************************)
(* Proofs about one session over many tunnels, for any number of tunnels,  *)
(* frames, deaths and dials and any sizes of inbox, buffer and feedSeen.   *)
(* The buffer's part is DedupBufferProofs, whose lemmas are cited for the  *)
(* instance the session owns.                                              *)
(***************************************************************************)
EXTENDS Multipath, SequenceFacts, FiniteSetTheorems

Buffer == INSTANCE DedupBufferProofs WITH MaxSeq <- MaxFrame
-----------------------------------------------------------------------------
(* The buffer of a session.                                                *)

(* The assumptions the buffer's lemmas rest on hold of the session's.      *)
LEMMA BufferAssumptions == MaxFrame \in Nat \ {0} /\ Cap \in Nat \ {0}
BY MultipathAssumption

(* A call of the session's buffer is a call of the buffer proved about.    *)
LEMMA PushIsCall ==
  ASSUME NEW s \in Frames, Dedup!Push(s)
  PROVE  Buffer!Push(s) /\ s \in Buffer!Seqs /\ Buffer!Next
<1>1. s \in Buffer!Seqs
  BY DEF Frames, Buffer!Seqs
<1>2. Dedup!Full <=> Buffer!Full
  BY DEF Dedup!Full, Buffer!Full, Dedup!Cardinality, Buffer!Cardinality
<1>3. Dedup!Duplicate(s) <=> Buffer!Duplicate(s)
  BY DEF Dedup!Duplicate, Buffer!Duplicate
<1>4. Dedup!Pushed(s) <=> Buffer!Pushed(s)
  BY <1>3 DEF Dedup!Pushed, Buffer!Pushed
<1>5. Dedup!GapExpired <=> Buffer!GapExpired
  BY DEF Dedup!GapExpired, Buffer!GapExpired
<1>6. \A P, n : Dedup!CanSkip(P, n) <=> Buffer!CanSkip(P, n)
  BY DEF Dedup!CanSkip, Buffer!CanSkip
<1>7. \A P, n, k : /\ Dedup!DrainsTo(P, n, k) <=> Buffer!DrainsTo(P, n, k)
                   /\ Dedup!Drained(P, n, k) = Buffer!Drained(P, n, k)
  BY DEF Dedup!DrainsTo, Buffer!DrainsTo, Dedup!Drained, Buffer!Drained
<1>8. \A P, m : Dedup!SkipsTo(P, m) <=> Buffer!SkipsTo(P, m)
  BY DEF Dedup!SkipsTo, Buffer!SkipsTo
<1>9. \A n, k : Dedup!Run(n, k) = Buffer!Run(n, k)
  BY DEF Dedup!Run, Buffer!Run
<1>10. \A d, n, P : Dedup!Emit(d, n, P) <=> Buffer!Emit(d, n, P)
  BY DEF Dedup!Emit, Buffer!Emit
<1>11. Dedup!Seqs = Buffer!Seqs
  BY DEF Dedup!Seqs, Buffer!Seqs
<1>12. ASSUME Dedup!PushDuplicate(s) PROVE Buffer!Push(s)
  BY <1>3, <1>12
  DEF Dedup!PushDuplicate, Buffer!PushDuplicate, Dedup!vars, Buffer!vars, Buffer!Push
<1>13. ASSUME Dedup!PushDelivers(s) PROVE Buffer!Push(s)
  <2>1. Buffer!PushDelivers(s)
    BY <1>2, <1>4, <1>7, <1>9, <1>10, <1>13 DEF Dedup!PushDelivers, Buffer!PushDelivers
  <2> QED
    BY <2>1 DEF Buffer!Push
<1>14. ASSUME Dedup!PushWaits(s) PROVE Buffer!Push(s)
  <2>1. Buffer!PushWaits(s)
    BY <1>2, <1>4, <1>5, <1>6, <1>10, <1>14
    DEF Dedup!PushWaits, Buffer!PushWaits, Dedup!ArmedBy, Buffer!ArmedBy
  <2> QED
    BY <2>1 DEF Buffer!Push
<1>15. ASSUME Dedup!PushSkips(s) PROVE Buffer!Push(s)
  <2>1. Buffer!PushSkips(s)
    BY <1>2, <1>4, <1>5, <1>6, <1>7, <1>8, <1>9, <1>10, <1>11, <1>15
    DEF Dedup!PushSkips, Buffer!PushSkips
  <2> QED
    BY <2>1 DEF Buffer!Push
<1>16. ASSUME Dedup!PushRecovers(s) PROVE Buffer!Push(s)
  <2>1. Buffer!PushRecovers(s)
    BY <1>2, <1>4, <1>5, <1>6, <1>7, <1>8, <1>9, <1>10, <1>11, <1>16
    DEF Dedup!PushRecovers, Buffer!PushRecovers
  <2> QED
    BY <2>1 DEF Buffer!Push
<1>17. ASSUME Dedup!PushRefused(s) PROVE Buffer!Push(s)
  <2>1. Buffer!PushRefused(s)
    BY <1>2, <1>3, <1>5, <1>6, <1>17 DEF Dedup!PushRefused, Buffer!PushRefused
  <2> QED
    BY <2>1 DEF Buffer!Push
<1>18. Buffer!Push(s)
  BY <1>12, <1>13, <1>14, <1>15, <1>16, <1>17 DEF Dedup!Push
<1> QED
  BY <1>1, <1>18 DEF Buffer!Next

(* So are its timer and its flush.                                         *)
LEMMA FlushIsCall == (Dedup!Flush => Buffer!Flush /\ Buffer!Next) /\ (Dedup!Elapse => Buffer!Next)
<1>1. Dedup!Cardinality(pending) = Buffer!Cardinality(pending)
  BY DEF Dedup!Cardinality, Buffer!Cardinality
<1>2. \A P, f : Dedup!FlushesAs(P, f) <=> Buffer!FlushesAs(P, f)
  BY DEF Dedup!FlushesAs, Buffer!FlushesAs, Dedup!Range, Buffer!Range,
         Dedup!Ascending, Buffer!Ascending
<1>3. \A d, n, P : Dedup!Emit(d, n, P) <=> Buffer!Emit(d, n, P)
  BY DEF Dedup!Emit, Buffer!Emit
<1>4. Dedup!Flush => Buffer!Flush
  BY <1>1, <1>2, <1>3 DEF Dedup!Flush, Buffer!Flush
<1>5. Dedup!Elapse => Buffer!Elapse
  BY DEF Dedup!Elapse, Buffer!Elapse
<1> QED
  BY <1>4, <1>5 DEF Buffer!Next

(* The buffer's invariant survives each step of the session's.             *)
LEMMA BufferKept ==
  ASSUME Buffer!IInv,
         \/ UNCHANGED bufferVars
         \/ \E s \in Frames : Dedup!Push(s)
         \/ Dedup!Flush
         \/ Dedup!Elapse
  PROVE  Buffer!IInv' /\ Dedup!TypeOK'
<1>1. UNCHANGED bufferVars => UNCHANGED Buffer!vars
  BY DEF bufferVars, Buffer!vars
<1>2. [Buffer!Next]_(Buffer!vars)
  BY <1>1, PushIsCall, FlushIsCall
<1>3. Buffer!IInv'
  BY <1>2, BufferAssumptions, Buffer!NextInvariant
<1>4. Dedup!TypeOK'
  BY <1>3 DEF Buffer!IInv, Buffer!TypeOK, Dedup!TypeOK, Buffer!Seqs, Dedup!Seqs
<1> QED
  BY <1>3, <1>4

(* A new session has a new buffer.                                         *)
LEMMA BufferAtStart ==
  ASSUME next = 1, pending = {}, gap = "none", stream = "open",
         delivered = <<>>, accepted = {}, refused = 0
  PROVE  Buffer!IInv
<1>1. Buffer!Init
  BY DEF Buffer!Init
<1> QED
  BY <1>1, BufferAssumptions, Buffer!InitInvariant

(* A run of frames and the run that follows it are one run.                *)
LEMMA RunsJoin ==
  ASSUME NEW n \in Nat, NEW m \in Nat, NEW k \in Nat, n <= m, m <= k
  PROVE  Buffer!Run(n, m) \o Buffer!Run(m, k) = Buffer!Run(n, k)
<1>1. n <= k /\ m - n \in Nat /\ k - m \in Nat /\ k - n \in Nat
  OBVIOUS
<1>2. PICK d \in Seq(Nat) : /\ d = Buffer!Run(n, m) /\ Len(d) = m - n
                            /\ \A i \in 1..(m - n) : d[i] = n + i - 1
  <2>1. Buffer!Run(n, m) \in Seq(Nat) /\ Len(Buffer!Run(n, m)) = m - n
    BY BufferAssumptions, Buffer!RunProperties
  <2> QED
    BY <2>1 DEF Buffer!Run
<1>3. PICK e \in Seq(Nat) : /\ e = Buffer!Run(m, k) /\ Len(e) = k - m
                            /\ \A i \in 1..(k - m) : e[i] = m + i - 1
  <2>1. Buffer!Run(m, k) \in Seq(Nat) /\ Len(Buffer!Run(m, k)) = k - m
    BY BufferAssumptions, Buffer!RunProperties
  <2> QED
    BY <2>1 DEF Buffer!Run
<1>4. PICK c \in Seq(Nat) : /\ c = Buffer!Run(n, k) /\ Len(c) = k - n
                            /\ \A i \in 1..(k - n) : c[i] = n + i - 1
  <2>1. Buffer!Run(n, k) \in Seq(Nat) /\ Len(Buffer!Run(n, k)) = k - n
    BY <1>1, BufferAssumptions, Buffer!RunProperties
  <2> QED
    BY <2>1 DEF Buffer!Run
<1>5. d \o e \in Seq(Nat) /\ Len(d \o e) = Len(c)
  <2>1. d \o e \in Seq(Nat) /\ Len(d \o e) = Len(d) + Len(e)
    BY AppendParts
  <2> QED
    BY <1>1, <1>2, <1>3, <1>4, <2>1
<1>6. ASSUME NEW i \in 1..Len(c) PROVE (d \o e)[i] = c[i]
  <2>1. i \in Nat /\ c[i] = n + i - 1 /\ i \in 1..(Len(d) + Len(e))
    BY <1>1, <1>2, <1>3, <1>4
  <2>2. CASE i <= m - n
    <3>1. i \in 1..Len(d) /\ i \in 1..(m - n)
      BY <1>2, <2>1, <2>2
    <3>2. (d \o e)[i] = d[i]
      BY <3>1, AppendParts
    <3> QED
      BY <1>2, <2>1, <3>1, <3>2
  <2>3. CASE m - n < i
    <3>1. (d \o e)[i] = e[i - Len(d)]
      <4>1. Len(d) < i
        BY <1>2, <2>3
      <4> QED
        BY <2>1, <4>1, AppendParts
    <3>2. i - (m - n) \in 1..(k - m) /\ m + (i - (m - n)) - 1 = n + i - 1
      BY <1>1, <1>4, <2>1, <2>3
    <3> QED
      BY <1>2, <1>3, <2>1, <3>1, <3>2
  <2> QED
    BY <1>1, <2>1, <2>2, <2>3
<1>7. d \o e = c
  BY <1>5, <1>6, SeqEqual
<1> QED
  BY <1>2, <1>3, <1>4, <1>7

(* The buffer is in step with the stream: what came out is the stream's    *)
(* beginning, and what waits lies beyond the next frame.                   *)
Steady == delivered = Buffer!Run(1, next) /\ \A q \in pending : next < q

(* What a Push does.  A buffer in step stays so and has the frame, unless  *)
(* it ends the stream or gives up a frame that is missing.                 *)
LEMMA PushContract ==
  ASSUME Buffer!IInv, NEW s \in Frames, Buffer!Push(s)
  PROVE  /\ stream = "open" /\ stream' \in {"open", "broken"}
         /\ accepted' = accepted \/ accepted' = accepted \cup {s}
         /\ Steady /\ stream' = "open" /\ next..(next' - 1) \subseteq Range(delivered')
               => Steady' /\ s \in accepted'
<1>1. /\ next \in Nat /\ 1 <= next /\ MaxFrame \in Nat /\ s \in Nat
      /\ Buffer!Seqs = 1..MaxFrame /\ pending \subseteq Nat /\ next \notin pending
  <2>1. Buffer!TypeOK
    BY DEF Buffer!IInv
  <2> QED
    BY <2>1, MultipathAssumption DEF Buffer!TypeOK, Buffer!Seqs, Frames
<1>2. accepted = Range(delivered) \cup pending
  BY DEF Buffer!IInv, Buffer!NothingDropped, Buffer!Range, Range
<1>3. Steady => Range(delivered) = 1..(next - 1)
  <2>1. Buffer!Range(Buffer!Run(1, next)) = 1..(next - 1)
    BY <1>1, BufferAssumptions, Buffer!RunProperties
  <2> QED
    BY <2>1 DEF Steady, Buffer!Range, Range
<1>4. delivered \in Seq(Nat)
  BY BufferAssumptions, Buffer!DeliveredNat
<1>5. ASSUME NEW m \in Nat, NEW k \in Nat, m <= k, next < m,
             NEW e \in Seq(Nat), Range(e) \cap 1..(m - 1) = {},
             delivered' = delivered \o e, next' >= m, next' \in Nat, Steady
      PROVE  ~(next..(next' - 1) \subseteq Range(delivered'))
  <2>1. Range(delivered') = Range(delivered) \cup Range(e)
    BY <1>4, <1>5, AppendRange
  <2>2. next \in next..(next' - 1) /\ next \in 1..(m - 1) /\ next \notin 1..(next - 1)
    <3>1. PICK h \in Nat : h = next' /\ m <= h
      BY <1>5
    <3>2. next \in Nat /\ 1 <= next /\ next < m
      BY <1>1, <1>5
    <3>3. next \in next..(h - 1)
      <4>1. m <= h
        BY <3>1
      <4>2. next <= h - 1 /\ h - 1 \in Int
        BY <3>2, <4>1
      <4> QED
        BY <3>2, <4>2
    <3>4. next \in 1..(m - 1)
      BY <3>2
    <3>5. next \notin 1..(next - 1)
      BY <3>2
    <3> QED
      BY <3>1, <3>3, <3>4, <3>5
  <2> QED
    BY <1>3, <1>5, <2>1, <2>2
<1>6. ASSUME Buffer!PushDuplicate(s) PROVE Steady => Steady' /\ s \in accepted'
  <2>1. UNCHANGED Buffer!vars /\ (s < next \/ s \in pending)
    BY <1>6 DEF Buffer!PushDuplicate, Buffer!Duplicate
  <2>2. Steady /\ s < next => s \in Range(delivered)
    BY <1>1, <1>3 DEF Frames
  <2> QED
    BY <1>2, <2>1, <2>2 DEF Buffer!vars, Steady
<1>7. ASSUME Buffer!PushDelivers(s) PROVE Steady => Steady' /\ s \in accepted'
  <2>1. PICK k \in next..(MaxFrame + 1) :
           /\ Buffer!DrainsTo(pending \cup {s}, next, k)
           /\ Buffer!Emit(Buffer!Run(next, k), k, Buffer!Drained(pending \cup {s}, next, k))
    BY <1>7 DEF Buffer!PushDelivers
  <2>2. /\ k \in Nat /\ next <= k /\ k \notin pending \cup {s}
        /\ next' = k /\ delivered' = delivered \o Buffer!Run(next, k)
        /\ pending' = (pending \cup {s}) \ (next..(k - 1))
    BY <1>1, <2>1 DEF Buffer!DrainsTo, Buffer!Emit, Buffer!Drained
  <2>3. accepted' = accepted \cup {s} /\ ~(s < next)
    BY <1>7 DEF Buffer!PushDelivers, Buffer!Pushed, Buffer!Duplicate
  <2>4. Steady => delivered' = Buffer!Run(1, k)
    <3>1. Buffer!Run(1, next) \o Buffer!Run(next, k) = Buffer!Run(1, k)
      BY <1>1, <2>2, RunsJoin
    <3> QED
      BY <2>2, <3>1 DEF Steady
  <2>5. ASSUME Steady, NEW q \in pending' PROVE next' < q
    BY <1>1, <2>2, <2>3, <2>5 DEF Steady
  <2> QED
    BY <2>2, <2>3, <2>4, <2>5 DEF Steady
<1>8. ASSUME Buffer!PushWaits(s) PROVE Steady => Steady' /\ s \in accepted'
  <2>1. /\ next' = next /\ delivered' = delivered \o <<>>
        /\ pending' = pending \cup {s} /\ next \notin pending \cup {s}
    BY <1>8 DEF Buffer!PushWaits, Buffer!Emit
  <2>2. delivered' = delivered
    BY <1>4, <2>1, ConcatEmptySeq
  <2>3. accepted' = accepted \cup {s} /\ ~(s < next)
    BY <1>8 DEF Buffer!PushWaits, Buffer!Pushed, Buffer!Duplicate
  <2>4. next < s
    BY <1>1, <2>1, <2>3
  <2> QED
    BY <2>1, <2>2, <2>3, <2>4 DEF Steady
<1>9. ASSUME Buffer!PushSkips(s), Steady PROVE ~(next..(next' - 1) \subseteq Range(delivered'))
  <2>1. PICK m \in Buffer!Seqs, k \in Buffer!Seqs \cup {MaxFrame + 1} :
           /\ Buffer!SkipsTo(pending \cup {s}, m) /\ Buffer!DrainsTo(pending \cup {s}, m, k)
           /\ Buffer!Emit(Buffer!Run(m, k), k, Buffer!Drained(pending \cup {s}, m, k))
    BY <1>9 DEF Buffer!PushSkips
  <2>2. m \in Nat /\ k \in Nat /\ m <= k /\ next < m
    BY <1>1, <1>9, <2>1
    DEF Buffer!DrainsTo, Buffer!SkipsTo, Buffer!CanSkip, Buffer!PushSkips
  <2>3. delivered' = delivered \o Buffer!Run(m, k) /\ next' = k
    BY <2>1 DEF Buffer!Emit
  <2>4. Buffer!Run(m, k) \in Seq(Nat) /\ Buffer!Range(Buffer!Run(m, k)) = m..(k - 1)
    BY <2>2, BufferAssumptions, Buffer!RunProperties
  <2>5. Range(Buffer!Run(m, k)) \cap 1..(m - 1) = {}
    BY <2>2, <2>4 DEF Range, Buffer!Range
  <2> QED
    BY <1>5, <1>9, <2>2, <2>3, <2>4, <2>5
<1>10. ASSUME Buffer!PushRecovers(s), Steady
       PROVE  ~(next..(next' - 1) \subseteq Range(delivered'))
  <2>1. PICK m \in Buffer!Seqs, k \in Buffer!Seqs \cup {MaxFrame + 1},
             l \in Buffer!Seqs \cup {MaxFrame + 1} :
           /\ m <= k /\ k <= l /\ next < m
           /\ delivered' = delivered \o (Buffer!Run(m, k) \o Buffer!Run(k, l))
           /\ next' = l
    BY <1>10 DEF Buffer!PushRecovers, Buffer!Emit, Buffer!DrainsTo, Buffer!SkipsTo, Buffer!CanSkip
  <2>2. m \in Nat /\ k \in Nat /\ l \in Nat /\ m <= l
    BY <1>1, <2>1
  <2>3. delivered' = delivered \o Buffer!Run(m, l)
    BY <2>1, <2>2, RunsJoin
  <2>4. Buffer!Run(m, l) \in Seq(Nat) /\ Buffer!Range(Buffer!Run(m, l)) = m..(l - 1)
    BY <2>2, BufferAssumptions, Buffer!RunProperties
  <2>5. Range(Buffer!Run(m, l)) \cap 1..(m - 1) = {}
    BY <2>2, <2>4 DEF Range, Buffer!Range
  <2> QED
    BY <1>5, <1>10, <2>1, <2>2, <2>3, <2>4, <2>5
<1>11. Buffer!PushRefused(s) => stream' # "open" /\ accepted' = accepted
  BY DEF Buffer!PushRefused
<1>12. /\ stream = "open" /\ stream' \in {"open", "broken"}
       /\ accepted' = accepted \/ accepted' = accepted \cup {s}
  BY DEF Buffer!Push, Buffer!PushDuplicate, Buffer!PushDelivers, Buffer!PushWaits,
         Buffer!PushSkips, Buffer!PushRecovers, Buffer!PushRefused, Buffer!Pushed, Buffer!vars
<1> QED
  BY <1>6, <1>7, <1>8, <1>9, <1>10, <1>11, <1>12 DEF Buffer!Push

(* A buffer in step that has the first n frames has handed them out.        *)
LEMMA FirstAreOut ==
  ASSUME Buffer!IInv, Steady, NEW n \in Nat, 1..n \subseteq accepted
  PROVE  Received(n)
<1>1. /\ next \in Nat /\ 1 <= next /\ next \notin pending
      /\ Buffer!Range(delivered) = 1..(next - 1)
      /\ accepted = Buffer!Range(delivered) \cup pending
  <2>1. Buffer!TypeOK
    BY DEF Buffer!IInv
  <2>2. next \in Nat /\ 1 <= next /\ next \notin pending
    BY <2>1, MultipathAssumption DEF Buffer!TypeOK
  <2>3. Buffer!Range(Buffer!Run(1, next)) = 1..(next - 1)
    BY <2>2, BufferAssumptions, Buffer!RunProperties
  <2> QED
    BY <2>2, <2>3 DEF Steady, Buffer!IInv, Buffer!NothingDropped
<1>2. next \notin 1..n
  BY <1>1
<1>3. n < next
  BY <1>1, <1>2
<1>4. delivered \in Seq(Nat) /\ Len(delivered) = next - 1
  BY <1>1, BufferAssumptions, Buffer!RunProperties DEF Steady
<1>5. \A i \in 1..(next - 1) : delivered[i] = i
  BY <1>1 DEF Steady, Buffer!Run
<1> QED
  BY <1>1, <1>3, <1>4, <1>5 DEF Received
-----------------------------------------------------------------------------
(* What a queue carries: DATA n ahead of position p, DATA n anywhere.      *)

Ahead(q, p, n) == \E j \in DOMAIN q : j < p /\ q[j].type = "data" /\ q[j].seq = n
Carries(q, n)  == \E j \in DOMAIN q : q[j].type = "data" /\ q[j].seq = n

(* A message that is sent comes after what the queue carries.              *)
LEMMA SendCarries ==
  ASSUME NEW S, NEW q \in Seq(S), NEW m \in S, NEW n
  PROVE  /\ Carries(Append(q, m), n) <=> Carries(q, n) \/ (m.type = "data" /\ m.seq = n)
         /\ \A p \in DOMAIN q : Ahead(q, p, n) => Ahead(Append(q, m), p, n)
         /\ Carries(q, n) => Ahead(Append(q, m), Len(q) + 1, n)
<1>1. /\ Len(q) \in Nat /\ DOMAIN q = 1..Len(q)
      /\ DOMAIN Append(q, m) = 1..(Len(q) + 1)
      /\ \A i \in 1..Len(q) : Append(q, m)[i] = q[i]
      /\ Append(q, m)[Len(q) + 1] = m
  OBVIOUS
<1>2. 1..(Len(q) + 1) = 1..Len(q) \cup {Len(q) + 1}
  BY <1>1
<1>3. Carries(Append(q, m), n) <=> Carries(q, n) \/ (m.type = "data" /\ m.seq = n)
  BY <1>1, <1>2 DEF Carries
<1>4. ASSUME NEW p \in DOMAIN q, Ahead(q, p, n) PROVE Ahead(Append(q, m), p, n)
  BY <1>1, <1>2, <1>4 DEF Ahead
<1>5. ASSUME Carries(q, n) PROVE Ahead(Append(q, m), Len(q) + 1, n)
  <2>1. PICK j \in 1..Len(q) : q[j].type = "data" /\ q[j].seq = n
    BY <1>1, <1>5 DEF Carries
  <2>2. j < Len(q) + 1 /\ j \in 1..(Len(q) + 1)
    BY <1>1
  <2> QED
    BY <1>1, <2>1, <2>2 DEF Ahead
<1> QED
  BY <1>3, <1>4, <1>5

(* The same of a queue that may have been passed over.                     *)
LEMMA PutCarries ==
  ASSUME NEW q \in Seq(Message), NEW m \in Message, NEW w, w = q \/ w = Append(q, m), NEW n
  PROVE  /\ Carries(q, n) => Carries(w, n)
         /\ \A p \in DOMAIN q : Ahead(q, p, n) => Ahead(w, p, n)
<1>1. CASE w = Append(q, m)
  BY <1>1, SendCarries
<1> QED
  BY <1>1

(* A message that is received was the first; the others move up.           *)
LEMMA ReceiveCarries ==
  ASSUME NEW S, NEW q \in Seq(S), q # <<>>, NEW n
  PROVE  /\ Carries(q, n) => Carries(Tail(q), n) \/ (Head(q).type = "data" /\ Head(q).seq = n)
         /\ \A p \in DOMAIN Tail(q) :
              /\ p + 1 \in DOMAIN q /\ Tail(q)[p] = q[p + 1]
              /\ Ahead(q, p + 1, n) => \/ Ahead(Tail(q), p, n)
                                       \/ Head(q).type = "data" /\ Head(q).seq = n
<1>1. /\ Len(q) \in Nat \ {0} /\ DOMAIN q = 1..Len(q) /\ Head(q) = q[1]
      /\ DOMAIN Tail(q) = 1..(Len(q) - 1)
      /\ \A i \in 1..(Len(q) - 1) : Tail(q)[i] = q[i + 1]
  OBVIOUS
<1>2. ASSUME NEW j \in 1..Len(q), j # 1
      PROVE  j - 1 \in 1..(Len(q) - 1) /\ Tail(q)[j - 1] = q[j]
  <2>1. j - 1 \in 1..(Len(q) - 1) /\ (j - 1) + 1 = j
    BY <1>1, <1>2
  <2>2. Tail(q)[j - 1] = q[(j - 1) + 1]
    BY <1>1, <2>1
  <2> QED
    BY <2>1, <2>2
<1>3. Carries(q, n) => Carries(Tail(q), n) \/ (Head(q).type = "data" /\ Head(q).seq = n)
  BY <1>1, <1>2 DEF Carries
<1>4. ASSUME NEW p \in DOMAIN Tail(q) PROVE p + 1 \in DOMAIN q /\ Tail(q)[p] = q[p + 1]
  BY <1>1
<1>5. ASSUME NEW p \in DOMAIN Tail(q), Ahead(q, p + 1, n),
             ~(Head(q).type = "data" /\ Head(q).seq = n)
      PROVE  Ahead(Tail(q), p, n)
  <2>1. PICK j \in 1..Len(q) : j < p + 1 /\ q[j].type = "data" /\ q[j].seq = n
    BY <1>1, <1>5 DEF Ahead
  <2>2. j # 1
    BY <1>1, <1>5, <2>1
  <2>3. j - 1 < p
    BY <1>1, <2>1
  <2> QED
    BY <1>1, <1>2, <2>1, <2>2, <2>3 DEF Ahead
<1> QED
  BY <1>3, <1>4, <1>5

(* What is rescued comes after what the queue carries.                     *)
LEMMA RescueCarries ==
  ASSUME NEW S, NEW q \in Seq(S), NEW r \in Seq(S), NEW n
  PROVE  /\ Carries(q, n) => Carries(q \o r, n)
         /\ \A p \in DOMAIN q : Ahead(q, p, n) => Ahead(q \o r, p, n)
<1>1. /\ DOMAIN q = 1..Len(q) /\ Len(q) \in Nat /\ Len(r) \in Nat
      /\ DOMAIN (q \o r) = 1..(Len(q) + Len(r))
      /\ \A i \in 1..Len(q) : (q \o r)[i] = q[i]
  BY AppendParts
<1>2. 1..Len(q) \subseteq 1..(Len(q) + Len(r))
  BY <1>1
<1> QED
  BY <1>1, <1>2 DEF Carries, Ahead

(* Each message of the longer queue was in one of the two.                 *)
LEMMA RescueElements ==
  ASSUME NEW S, NEW q \in Seq(S), NEW r \in Seq(S), NEW i \in DOMAIN (q \o r)
  PROVE  \/ i \in DOMAIN q /\ (q \o r)[i] = q[i]
         \/ \E n \in DOMAIN r : (q \o r)[i] = r[n]
<1>1. i \in 1..(Len(q) + Len(r)) /\ Len(q) \in Nat /\ DOMAIN q = 1..Len(q)
      /\ DOMAIN r = 1..Len(r)
  BY AppendParts
<1>2. CASE i <= Len(q)
  <2>1. i \in 1..Len(q)
    BY <1>1, <1>2
  <2> QED
    BY <1>1, <2>1, AppendParts
<1>3. CASE Len(q) < i
  <2>1. i - Len(q) \in 1..Len(r) /\ (q \o r)[i] = r[i - Len(q)]
    BY <1>1, <1>3, AppendParts
  <2> QED
    BY <1>1, <2>1
<1> QED
  BY <1>1, <1>2, <1>3

(* What arrives from a dead tunnel arrives in its order.                   *)
LEMMA PrefixCarries ==
  ASSUME NEW S, NEW q \in Seq(S), NEW k \in 0..Len(q), NEW n
  PROVE  /\ SubSeq(q, 1, k) \in Seq(S)
         /\ DOMAIN SubSeq(q, 1, k) = 1..k /\ 1..k \subseteq DOMAIN q
         /\ \A p \in 1..k : /\ SubSeq(q, 1, k)[p] = q[p]
                            /\ Ahead(q, p, n) => Ahead(SubSeq(q, 1, k), p, n)
<1>1. /\ SubSeq(q, 1, k) \in Seq(S) /\ DOMAIN q = 1..Len(q) /\ Len(q) \in Nat /\ k \in Nat
      /\ DOMAIN SubSeq(q, 1, k) = 1..k
      /\ \A p \in 1..k : SubSeq(q, 1, k)[p] = q[p]
  BY SubSeqProperties
<1>2. 1..k \subseteq DOMAIN q
  BY <1>1
<1>3. ASSUME NEW p \in 1..k, Ahead(q, p, n) PROVE Ahead(SubSeq(q, 1, k), p, n)
  <2>1. PICK j \in DOMAIN q : j < p /\ q[j].type = "data" /\ q[j].seq = n
    BY <1>3 DEF Ahead
  <2>2. j \in 1..k
    BY <1>1, <2>1
  <2> QED
    BY <1>1, <2>1, <2>2 DEF Ahead
<1> QED
  BY <1>1, <1>2, <1>3
-----------------------------------------------------------------------------
(* The inductive invariant.                                                *)

(* Nothing is under way that a client in state c, k frames sent, has not   *)
(* sent.                                                                   *)
Genuine(m, c, k) == /\ m.type = "hello" => c # "new"
                    /\ m.type = "data" => m.seq \in 1..k
                    /\ m.type = "close" => m.seq = 0 /\ c \in {"closed", "ending"}

Authentic == /\ \A t \in Tunnels : \A i \in DOMAIN wire[t] :
                   Genuine(wire[t][i], client, sent) /\ wire[t][i].type # "none"
             /\ \A i \in DOMAIN orphans :
                   Genuine(orphans[i], client, sent) /\ orphans[i].type = "data"
             /\ \A t \in Tunnels : \A i \in DOMAIN batch[t] :
                   Genuine(batch[t][i], client, sent) /\ batch[t][i].type = "data"
             /\ Genuine(held, client, sent)
             /\ \A i \in DOMAIN inbox : Genuine(inbox[i], client, sent)
             /\ accepted \subseteq 1..sent
             /\ endedBy # "none" => client \in {"closed", "ending"}
             /\ client = "new" => sent = 0 /\ greeted = {}
             /\ \A t \in Tunnels : given[t] <= sent /\ (t \notin greeted => given[t] = 0)

(* While CLOSE has yet to go by a tunnel, no CLOSE of that tunnel is on     *)
(* its way or has ended the session.                                       *)
Unannounced == \A t \in closing :
                  /\ client = "ending" /\ (endedBy # "none" => endedBy # t)
                  /\ \A i \in DOMAIN wire[t] : wire[t][i].type # "close"
                  /\ \A i \in DOMAIN LetIn : LetIn[i].type = "close" => LetIn[i].src # t

(* Before the first session there is nothing of one.                       *)
Fresh == dials = 0 =>
             /\ ~registered /\ ~tomb /\ ~burying /\ phase = "over"
             /\ held = Nothing /\ inbox = <<>> /\ feedSeen = {} /\ accepted = {}
             /\ ~killed /\ ~closed /\ ~skipped
             /\ \A t \in greeted : /\ t \in live => wire[t] # <<>>
                                   /\ wire[t] # <<>> => wire[t][1] = Hello

(* The dispatcher holds frames of the present session only, and a session  *)
(* is closed only by the liveness loop or by its own handler's end.  While *)
(* the handler runs, no CLOSE has ended it and no error has.               *)
Present == /\ held # Nothing => held.to = dials /\ dials # 0
           /\ closed => killed \/ phase = "over"
           /\ phase \notin {"leaving", "over"} => endedBy = "none" /\ stream = "open"

(* feed notes what it lets in.                                             *)
Remembered == /\ accepted \subseteq feedSeen \cup forgotten
              /\ \A i \in DataFrom(LetIn, 1) : LetIn[i].seq \in feedSeen \cup forgotten

(* Until something is given up, what came out is the stream's beginning.   *)
InStep == stream = "open" /\ ~skipped => Steady

(* The first session runs, or has yet to be opened.                        *)
Young == /\ ~killed /\ ~skipped
         /\ dials = 0 \/ (dials = 1 /\ phase \notin {"leaving", "over"})

Got(n) == n \in accepted \/ Carries(LetIn, n)

(* What a tunnel was given before CLOSE it still carries, if it has not got *)
(* there, and ahead of its CLOSE; so does the inbox.                       *)
Underway ==
    Young =>
       /\ \A n \in feedSeen : Got(n)
       /\ \A t \in live : \A n \in 1..given[t] : Got(n) \/ Carries(wire[t], n)
       /\ \A t \in Tunnels : \A p \in DOMAIN wire[t] : wire[t][p].type = "close" =>
             \A n \in 1..given[t] : Got(n) \/ Ahead(wire[t], p, n)
       /\ \A p \in DOMAIN LetIn : LetIn[p].type = "close" /\ LetIn[p].src \in Tunnels =>
             \A n \in 1..given[LetIn[p].src] : n \in accepted \/ Ahead(LetIn, p, n)

IInv == /\ TypeOK /\ Buffer!IInv
        /\ Authentic /\ Unannounced /\ Fresh /\ Present
        /\ Remembered /\ FirstCopyOnly
        /\ InStep /\ Underway /\ CloseKeepsItsPlace
-----------------------------------------------------------------------------
(* Steps of the handler and the hub that leave frames where they are.      *)

(* What the queues hold is typed.                                          *)
LEMMA QueuesTyped ==
  TypeOK => /\ LetIn \in Seq(Letter) /\ inbox \in Seq(Letter) /\ held \in Letter
            /\ \A t \in Tunnels : wire[t] \in Seq(Message)
            /\ orphans \in Seq(Message)
BY DEF TypeOK, LetIn

(* Queues that stay typed, in a step that is over the network or feed's.   *)
LEMMA TypeKept ==
  ASSUME TypeOK, Dedup!TypeOK',
         wire' \in [Tunnels -> Seq(Message)], orphans' \in Seq(Message),
         batch' \in [Tunnels -> Seq(Message)], held' \in Letter,
         feedSeen' \subseteq Frames, forgotten' \subseteq Frames,
         closing' \subseteq live', live' \subseteq used,
         UNCHANGED <<client, sent, used, arriving, greeted, given, inbox, phase, registered, closed,
                     killed, dials, burying, tomb, endedBy, skipped>>
  PROVE  TypeOK'
BY DEF TypeOK

(* A step that moves no frame keeps the invariant, if it neither makes an  *)
(* old session young nor ends one by a CLOSE.                              *)
LEMMA Calm ==
  ASSUME IInv, TypeOK', Fresh', Present', Young' => Young,
         Ended' /\ ~killed' => Ended /\ ~killed,
         UNCHANGED <<clientVars, tunnelVars, pathVars, inboxVars, dials, fateVars, bufferVars>>
  PROVE  IInv'
<1>1. /\ UNCHANGED <<client, sent, closing, used, live, wire, orphans, arriving, batch, greeted,
                     given, held, inbox, feedSeen,
                     forgotten, dials, endedBy, skipped>>
      /\ UNCHANGED <<next, pending, gap, stream, delivered, accepted, refused>>
  BY DEF clientVars, tunnelVars, pathVars, orphanVars, givenVars, inboxVars, fateVars, bufferVars
<1>2. LetIn' = LetIn /\ \A n : Got(n)' <=> Got(n)
  BY <1>1 DEF LetIn, Got
<1>3. Buffer!IInv'
  BY BufferKept DEF IInv
<1>4. Authentic'
  BY <1>1 DEF IInv, Authentic, Genuine
<1>5. Remembered' /\ FirstCopyOnly'
  BY <1>1, <1>2 DEF IInv, Remembered, FirstCopyOnly
<1>6. InStep'
  BY <1>1 DEF IInv, InStep, Steady
<1>7. Underway'
  BY <1>1, <1>2 DEF IInv, Underway
<1>8. CloseKeepsItsPlace'
  BY <1>1 DEF IInv, CloseKeepsItsPlace, Received
<1>9. Unannounced'
  BY <1>1, <1>2 DEF IInv, Unannounced
<1> QED
  BY <1>3, <1>4, <1>5, <1>6, <1>7, <1>8, <1>9 DEF IInv

(* A handler that goes from one phase to the next.                         *)
LEMMA PhaseMoves ==
  ASSUME IInv, phase \in {"dialing", "early", "pump", "linger"},
         NEW p \in {"early", "pump", "linger", "leaving"}, Goto(p), Quietly
  PROVE  IInv'
<1>1. /\ UNCHANGED <<clientVars, tunnelVars, pathVars, held, feedSeen, forgotten, dials, tombVars,
                     sessionVars, inbox, fateVars, bufferVars>>
      /\ phase' = p
  BY DEF Goto, Quietly
<1>2. /\ UNCHANGED <<client, sent, closing, used, live, wire, orphans, arriving, batch, greeted,
                     given, held, inbox, feedSeen,
                     forgotten, dials, endedBy, skipped, registered, closed, killed, burying, tomb>>
      /\ UNCHANGED <<next, pending, gap, stream, delivered, accepted, refused>>
  BY <1>1 DEF clientVars, tunnelVars, pathVars, orphanVars, givenVars, inboxVars, fateVars,
              bufferVars, tombVars, sessionVars
<1>3. Dedup!TypeOK'
  BY <1>1, BufferKept DEF IInv
<1>4. TypeOK'
  <2>1. TypeOK
    BY DEF IInv
  <2>3. phase' \in {"dialing", "early", "pump", "linger", "leaving", "over"} /\ registered
    BY <1>1, <2>1 DEF TypeOK
  <2> QED
    BY <1>2, <1>3, <2>1, <2>3 DEF TypeOK
<1>5. Fresh' /\ Present'
  BY <1>2, <1>1 DEF IInv, Fresh, Present
<1>6. Young' => Young
  BY <1>1, <1>2 DEF Young
<1>7. ~Ended'
  BY <1>2 DEF IInv, Present, Ended
<1>8. UNCHANGED inboxVars
  BY <1>2 DEF inboxVars
<1> QED
  BY <1>1, <1>4, <1>5, <1>6, <1>7, <1>8, Calm

LEMMA KillInvariant == IInv /\ Kill => IInv'
<1> SUFFICES ASSUME IInv, Kill PROVE IInv'
  OBVIOUS
<1>1. /\ UNCHANGED <<clientVars, tunnelVars, pathVars, inboxVars, registered, phase, dials,
                     tombVars, fateVars, bufferVars>>
      /\ registered /\ closed' = TRUE /\ killed' = TRUE
  BY DEF Kill
<1>2. UNCHANGED <<client, sent, closing, used, live, wire, orphans, arriving, batch, greeted,
                  given, held, inbox, feedSeen,
                  forgotten, dials, endedBy, skipped, registered, phase, burying, tomb, accepted, stream>>
  BY <1>1 DEF clientVars, tunnelVars, pathVars, orphanVars, givenVars, inboxVars, fateVars,
              tombVars, bufferVars
<1>3. TypeOK'
  <2>1. TypeOK /\ Dedup!TypeOK'
    BY <1>1, BufferKept DEF IInv
  <2> QED
    BY <1>1, <1>2, <2>1 DEF TypeOK
<1>4. Fresh' /\ Present'
  BY <1>1, <1>2 DEF IInv, Fresh, Present
<1>5. ~Young'
  BY <1>1 DEF Young
<1> QED
  BY <1>1, <1>3, <1>4, <1>5, Calm

LEMMA LeaveInvariant == IInv /\ Leave => IInv'
<1> SUFFICES ASSUME IInv, Leave PROVE IInv'
  OBVIOUS
<1>1. /\ UNCHANGED <<clientVars, tunnelVars, pathVars, inboxVars, killed, dials, tomb,
                     fateVars, bufferVars>>
      /\ phase = "leaving" /\ phase' = "over" /\ closed' = TRUE /\ burying' = TRUE
      /\ registered' = Listed
  BY DEF Leave
<1>2. UNCHANGED <<client, sent, closing, used, live, wire, orphans, arriving, batch, greeted,
                  given, held, inbox, feedSeen,
                  forgotten, dials, endedBy, skipped, killed, tomb, accepted, stream>>
  BY <1>1 DEF clientVars, tunnelVars, pathVars, orphanVars, givenVars, inboxVars, fateVars,
              bufferVars
<1>3. TypeOK'
  <2>1. TypeOK /\ Dedup!TypeOK'
    BY <1>1, BufferKept DEF IInv
  <2>2. registered' \in BOOLEAN
    BY <1>1, <2>1 DEF TypeOK, Listed
  <2> QED
    BY <1>1, <1>2, <2>1, <2>2 DEF TypeOK
<1>4. Fresh' /\ Present'
  BY <1>1, <1>2 DEF IInv, Fresh, Present
<1>5. (Young' => Young) /\ (Ended' => Ended)
  BY <1>1, <1>2 DEF IInv, Fresh, Young, Ended
<1> QED
  BY <1>1, <1>2, <1>3, <1>4, <1>5, Calm

LEMMA TombInvariant == IInv /\ (Bury \/ TombExpires) => IInv'
<1> SUFFICES ASSUME IInv, Bury \/ TombExpires PROVE IInv'
  OBVIOUS
<1>1. /\ UNCHANGED <<clientVars, tunnelVars, pathVars, sessionVars, inboxVars, phase, dials,
                     fateVars, bufferVars>>
      /\ burying' \in BOOLEAN /\ tomb' \in BOOLEAN
      /\ burying \/ tomb
  BY DEF Bury, TombExpires, IInv, TypeOK
<1>2. UNCHANGED <<client, sent, closing, used, live, wire, orphans, arriving, batch, greeted,
                  given, held, inbox, feedSeen, forgotten,
                  dials, endedBy, skipped, registered, closed, killed, phase, accepted, stream>>
  BY <1>1 DEF clientVars, tunnelVars, pathVars, orphanVars, givenVars, inboxVars, fateVars,
              sessionVars, bufferVars
<1>3. TypeOK'
  <2>1. TypeOK /\ Dedup!TypeOK'
    BY <1>1, BufferKept DEF IInv
  <2> QED
    BY <1>1, <1>2, <2>1 DEF TypeOK
<1>4. Fresh' /\ Present'
  BY <1>1, <1>2 DEF IInv, Fresh, Present
<1>5. (Young' => Young) /\ (Ended' => Ended)
  BY <1>1, <1>2 DEF Young, Ended
<1> QED
  BY <1>1, <1>2, <1>3, <1>4, <1>5, Calm

(* gapTimeout passes in the buffer.                                        *)
LEMMA GapInvariant == IInv /\ GapElapses => IInv'
<1> SUFFICES ASSUME IInv, GapElapses PROVE IInv'
  OBVIOUS
<1>1. UNCHANGED <<client, sent, closing, used, live, wire, orphans, arriving, batch, greeted,
                  given, held, inbox, feedSeen,
                  forgotten, dials, burying, tomb, registered, closed, killed, endedBy, skipped,
                  phase, next, pending, stream, delivered, accepted, refused>>
  BY DEF GapElapses, Dedup!Elapse, Goto, clientVars, tunnelVars, pathVars, orphanVars, givenVars, tombVars,
         sessionVars, fateVars
<1>2. Buffer!IInv' /\ Dedup!TypeOK'
  BY BufferKept DEF IInv, GapElapses
<1>3. TypeOK'
  <2>1. TypeOK
    BY DEF IInv
  <2> QED
    BY <1>1, <1>2, <2>1 DEF TypeOK
<1>4. Fresh' /\ Present' /\ Authentic'
  BY <1>1 DEF IInv, Fresh, Present, Authentic, Genuine
<1>5. LetIn' = LetIn /\ \A n : Got(n)' <=> Got(n)
  BY <1>1 DEF LetIn, Got
<1>6. Remembered' /\ FirstCopyOnly'
  BY <1>1, <1>5 DEF IInv, Remembered, FirstCopyOnly
<1>7. InStep' /\ CloseKeepsItsPlace'
  BY <1>1 DEF IInv, InStep, Steady, CloseKeepsItsPlace, Received, Ended
<1>8. Underway'
  BY <1>1, <1>5 DEF IInv, Underway, Young
<1>9. Unannounced'
  BY <1>1, <1>5 DEF IInv, Unannounced
<1> QED
  BY <1>2, <1>3, <1>4, <1>6, <1>7, <1>8, <1>9 DEF IInv
-----------------------------------------------------------------------------
(* The frontend.                                                           *)

(* What a broadcast does to each tunnel.                                   *)
LEMMA PutWire ==
  ASSUME TypeOK, NEW m \in Message, NEW S \in SUBSET Tunnels, Put(m, S)
  PROVE  /\ wire' \in [Tunnels -> Seq(Message)]
         /\ \A t \in S : wire'[t] = Append(wire[t], m)
         /\ \A t \in Tunnels \ S : wire'[t] = wire[t]
         /\ \A t \in Tunnels : \A i \in DOMAIN wire'[t] :
               \/ i \in DOMAIN wire[t] /\ wire'[t][i] = wire[t][i]
               \/ i = Len(wire[t]) + 1 /\ wire'[t][i] = m /\ t \in S
<1>1. wire \in [Tunnels -> Seq(Message)]
  BY DEF TypeOK
<1>2. \A t \in Tunnels : Append(wire[t], m) \in Seq(Message)
  BY <1>1
<1>3. /\ wire' \in [Tunnels -> Seq(Message)]
      /\ \A t \in S : wire'[t] = Append(wire[t], m)
      /\ \A t \in Tunnels \ S : wire'[t] = wire[t]
  BY <1>1, <1>2 DEF Put
<1>4. ASSUME NEW t \in S, NEW i \in DOMAIN wire'[t]
      PROVE  \/ i \in DOMAIN wire[t] /\ wire'[t][i] = wire[t][i]
             \/ i = Len(wire[t]) + 1 /\ wire'[t][i] = m
  <2>1. PICK q \in Seq(Message) : q = wire[t]
    BY <1>1
  <2>2. /\ Len(q) \in Nat /\ DOMAIN q = 1..Len(q) /\ DOMAIN Append(q, m) = 1..(Len(q) + 1)
        /\ \A j \in 1..Len(q) : Append(q, m)[j] = q[j]
        /\ Append(q, m)[Len(q) + 1] = m
    OBVIOUS
  <2>3. i \in 1..Len(q) \/ i = Len(q) + 1
    BY <1>3, <1>4, <2>1, <2>2
  <2> QED
    BY <1>3, <2>1, <2>2, <2>3
<1> QED
  BY <1>3, <1>4

(* A frame the frontend has not sent is on no wire.                        *)
LEMMA NothingSent ==
  ASSUME IInv, client = "new"
  PROVE  /\ sent = 0 /\ greeted = {} /\ endedBy = "none" /\ closing = {}
         /\ \A t \in Tunnels : wire[t] = <<>>
<1>1. sent = 0 /\ greeted = {} /\ endedBy = "none" /\ closing = {}
  BY DEF IInv, Authentic, Unannounced
<1>2. ASSUME NEW t \in Tunnels PROVE wire[t] = <<>>
  <2>1. wire[t] \in Seq(Message)
    BY DEF IInv, TypeOK
  <2>2. SUFFICES ASSUME wire[t] # <<>> PROVE FALSE
    OBVIOUS
  <2>3. 1 \in DOMAIN wire[t] /\ wire[t][1] \in Message
    BY <2>1, <2>2
  <2>4. Genuine(wire[t][1], client, sent) /\ wire[t][1].type # "none"
    BY <2>3 DEF IInv, Authentic
  <2>5. wire[t][1].type \in {"none", "hello", "data", "close"}
    BY <2>3 DEF Message, Types
  <2>6. wire[t][1].type = "data"
    BY <2>4, <2>5 DEF Genuine
  <2> QED
    BY <1>1, <2>4, <2>6 DEF Genuine
<1> QED
  BY <1>1, <1>2

LEMMA OpenInvariant == IInv /\ Open => IInv'
<1> SUFFICES ASSUME IInv, Open PROVE IInv'
  OBVIOUS
<1>1. /\ client = "new" /\ client' = "open" /\ greeted' = live
      /\ Put(Hello, live)
      /\ UNCHANGED <<sent, closing, given, used, live, orphans, arriving, batch, held, inbox, feedSeen, forgotten, dials, burying,
                     tomb, registered, closed, killed, endedBy, skipped, phase, accepted, stream>>
      /\ UNCHANGED bufferVars
  BY DEF Open, tunnelVars, orphanVars, serverVars, sessionVars, inboxVars, tombVars, fateVars, bufferVars
<1>2. /\ sent = 0 /\ greeted = {} /\ endedBy = "none" /\ closing = {}
      /\ \A t \in Tunnels : wire[t] = <<>>
  BY <1>1, NothingSent
<1>3. TypeOK /\ live \subseteq Tunnels /\ Hello \in Message
  <2>1. 0 \in 0..MaxFrame
    BY MultipathAssumption
  <2>2. Hello \in Message
    BY <2>1 DEF Hello, Message, Types
  <2>3. TypeOK /\ live \subseteq Tunnels
    BY DEF IInv, TypeOK
  <2> QED
    BY <2>2, <2>3
<1>4. /\ wire' \in [Tunnels -> Seq(Message)]
      /\ \A t \in live : wire'[t] = Append(wire[t], Hello)
      /\ \A t \in Tunnels : \A i \in DOMAIN wire'[t] : wire'[t][i] = Hello
  BY <1>1, <1>2, <1>3, PutWire
<1>5. Buffer!IInv' /\ Dedup!TypeOK'
  BY <1>1, BufferKept DEF IInv
<1>6. TypeOK'
  BY <1>1, <1>3, <1>4, <1>5 DEF TypeOK
<1>7. Authentic'
  BY <1>1, <1>2, <1>4 DEF IInv, Authentic, Genuine, Hello
<1>8. Fresh'
  <2>1. Append(<<>>, Hello) # <<>> /\ Append(<<>>, Hello)[1] = Hello
    OBVIOUS
  <2> QED
    BY <1>1, <1>2, <1>3, <1>4, <2>1 DEF IInv, Fresh
<1>9. Present'
  BY <1>1 DEF IInv, Present
<1>10. LetIn' = LetIn /\ (\A n : Got(n)' <=> Got(n)) /\ (Young' <=> Young)
  BY <1>1 DEF LetIn, Got, Young
<1>11. Remembered' /\ FirstCopyOnly'
  BY <1>1, <1>10 DEF IInv, Remembered, FirstCopyOnly
<1>12. InStep'
  BY <1>1 DEF IInv, InStep, Steady, bufferVars
<1>13. Underway'
  <2>1. \A t \in Tunnels : given'[t] = 0
    BY <1>1, <1>2 DEF IInv, Authentic
  <2>2. \A t \in Tunnels : 1..given'[t] = {}
    BY <2>1
  <2> QED
    BY <1>1, <1>3, <1>10, <2>2 DEF IInv, TypeOK, Underway
<1>14. CloseKeepsItsPlace' /\ Unannounced'
  BY <1>1, <1>2 DEF CloseKeepsItsPlace, Ended, Unannounced
<1> QED
  BY <1>5, <1>6, <1>7, <1>8, <1>9, <1>11, <1>12, <1>13, <1>14 DEF IInv

(* What Send makes of what the tunnels were given: one frame more where    *)
(* nothing is missing and CLOSE has yet to go by.                          *)
LEMMA Extended ==
  ASSUME IInv, NEW S, NEW t \in Tunnels,
         given' = [u \in Tunnels |-> IF u \in S /\ Extends(u) THEN sent + 1 ELSE given[u]]
  PROVE  \/ given'[t] = given[t]
         \/ /\ given'[t] = sent + 1 /\ given[t] = sent /\ t \in S /\ t \in greeted
            /\ client = "open" \/ t \in closing
BY DEF Extends, BeforeClose

LEMMA SendInvariant == IInv /\ Send => IInv'
<1> SUFFICES ASSUME IInv, Send PROVE IInv'
  OBVIOUS
<1>1. PICK S \in SUBSET live :
         /\ Put(Data(sent + 1), S)
         /\ given' = [t \in Tunnels |-> IF t \in S /\ Extends(t) THEN sent + 1 ELSE given[t]]
  BY DEF Send
<1>2. /\ client \in {"open", "ending"} /\ sent < MaxFrame /\ sent' = sent + 1
      /\ UNCHANGED <<client, closing, used, live, orphans, arriving, batch, greeted, held, inbox,
                     feedSeen, forgotten, dials, burying, tomb, registered, closed, killed, endedBy,
                     skipped, phase, accepted, stream>>
      /\ UNCHANGED bufferVars
  BY DEF Send, tunnelVars, orphanVars, serverVars, sessionVars, inboxVars, tombVars, fateVars,
         bufferVars
<1>3. /\ TypeOK /\ S \subseteq Tunnels /\ greeted \subseteq used /\ sent \in Nat
      /\ MaxFrame \in Nat /\ used \subseteq Tunnels /\ closing \subseteq Tunnels
      /\ given \in [Tunnels -> 0..MaxFrame]
  BY MultipathAssumption DEF IInv, TypeOK
<1>4. PICK d \in Message : d = Data(sent + 1) /\ d.type = "data" /\ d.seq = sent + 1
  <2>1. sent + 1 \in 0..MaxFrame
    BY <1>2, <1>3
  <2>2. Data(sent + 1) \in Message
    BY <2>1 DEF Data, Message, Types
  <2>3. Data(sent + 1).type = "data" /\ Data(sent + 1).seq = sent + 1
    BY DEF Data
  <2> QED
    BY <2>2, <2>3
<1>5. /\ wire' \in [Tunnels -> Seq(Message)]
      /\ \A t \in S : wire'[t] = Append(wire[t], d)
      /\ \A t \in Tunnels \ S : wire'[t] = wire[t]
      /\ \A t \in Tunnels : \A i \in DOMAIN wire'[t] :
            \/ i \in DOMAIN wire[t] /\ wire'[t][i] = wire[t][i]
            \/ i = Len(wire[t]) + 1 /\ wire'[t][i] = d /\ t \in S
  BY <1>1, <1>3, <1>4, PutWire
<1>6. Buffer!IInv' /\ Dedup!TypeOK'
  BY <1>2, BufferKept DEF IInv
<1>7. sent' \in 0..MaxFrame /\ given' \in [Tunnels -> 0..MaxFrame]
      /\ \A t \in Tunnels : given'[t] <= sent'
  <2>1. sent' \in 0..MaxFrame /\ sent + 1 \in 0..MaxFrame
    BY <1>2, <1>3
  <2>2. given' \in [Tunnels -> 0..MaxFrame]
    BY <1>1, <1>3, <2>1
  <2>3. \A t \in Tunnels : given[t] <= sent /\ given[t] \in Nat
    BY <1>3 DEF IInv, Authentic
  <2>4. \A t \in Tunnels : given'[t] = given[t] \/ given'[t] = sent + 1
    BY <1>1
  <2> QED
    BY <1>2, <1>3, <2>1, <2>2, <2>3, <2>4
<1>8. TypeOK'
  BY <1>2, <1>3, <1>5, <1>6, <1>7 DEF TypeOK
<1>9. 1..sent \subseteq 1..sent' /\ sent + 1 \in 1..sent'
  BY <1>2, <1>3
<1>10. \A m : Genuine(m, client, sent) => Genuine(m, client', sent')
  BY <1>2, <1>9 DEF Genuine
<1>11. Genuine(d, client', sent')
  BY <1>2, <1>4, <1>9 DEF Genuine
<1>12. Authentic'
  <2>1. \A t \in Tunnels : \A i \in DOMAIN wire'[t] :
           Genuine(wire'[t][i], client', sent') /\ wire'[t][i].type # "none"
    BY <1>4, <1>5, <1>10, <1>11 DEF IInv, Authentic
  <2>2. \A t \in Tunnels : t \notin greeted => given'[t] = 0
    BY <1>1, <1>3 DEF IInv, Authentic, Extends
  <2> QED
    BY <1>2, <1>7, <1>9, <1>10, <2>1, <2>2 DEF IInv, Authentic
<1>13. Fresh'
  <2>1. ASSUME dials = 0, NEW t \in greeted, wire'[t] # <<>> \/ t \in live
        PROVE  wire'[t] # <<>> /\ wire'[t][1] = Hello
    <3>1. wire[t] \in Seq(Message) /\ (t \in S => wire[t] # <<>>)
      BY <1>1, <1>3, <2>1 DEF IInv, Fresh, TypeOK
    <3>2. wire[t] # <<>> /\ wire[t][1] = Hello
      BY <1>3, <1>5, <2>1, <3>1 DEF IInv, Fresh
    <3>3. \A q \in Seq(Message) : q # <<>> =>
             Append(q, d) # <<>> /\ Append(q, d)[1] = q[1]
      BY <1>4
    <3> QED
      BY <1>3, <1>5, <3>1, <3>2, <3>3
  <2> QED
    BY <1>2, <2>1 DEF IInv, Fresh
<1>14. Present'
  BY <1>2 DEF IInv, Present
<1>15. LetIn' = LetIn /\ (\A n : Got(n)' <=> Got(n)) /\ (Young' <=> Young)
  BY <1>2 DEF LetIn, Got, Young
<1>16. Remembered' /\ FirstCopyOnly'
  BY <1>2, <1>15 DEF IInv, Remembered, FirstCopyOnly
<1>17. InStep'
  BY <1>2 DEF IInv, InStep, Steady, bufferVars
<1>18. Unannounced'
  BY <1>2, <1>3, <1>4, <1>5, <1>15 DEF IInv, Unannounced
<1>19. ASSUME NEW t \in Tunnels, given'[t] # given[t]
       PROVE  /\ t \in S /\ given[t] = sent /\ given'[t] = sent + 1
              /\ endedBy # t \/ endedBy = "none"
              /\ \A p \in DOMAIN wire'[t] : wire'[t][p].type # "close"
              /\ \A p \in DOMAIN LetIn : LetIn[p].type = "close" => LetIn[p].src # t
  <2>1. /\ given'[t] = sent + 1 /\ given[t] = sent /\ t \in S
        /\ client = "open" \/ t \in closing
    BY <1>1, <1>19, Extended
  <2>2. CASE client = "open"
    <3>1. \A p \in DOMAIN LetIn :
             (p \in DOMAIN inbox /\ LetIn[p] = inbox[p]) \/ LetIn[p] = held
      BY <1>3 DEF LetIn, TypeOK
    <3>2. \A p \in DOMAIN LetIn : LetIn[p].type # "close"
      BY <2>2, <3>1 DEF IInv, Authentic, Genuine
    <3>3. \A p \in DOMAIN wire'[t] : wire'[t][p].type # "close"
      BY <1>2, <1>12, <2>2 DEF Authentic, Genuine
    <3>4. endedBy = "none"
      BY <2>2 DEF IInv, Authentic
    <3> QED
      BY <2>1, <3>2, <3>3, <3>4
  <2>3. CASE t \in closing
    BY <1>2, <1>15, <1>18, <2>1, <2>3 DEF Unannounced
  <2> QED
    BY <2>1, <2>2, <2>3
<1>20. Underway'
  <2>1. ASSUME NEW t \in live, NEW n \in 1..given'[t], Young
        PROVE  Got(n) \/ Carries(wire'[t], n)
    <3>1. wire[t] \in Seq(Message) /\ t \in Tunnels
      BY <1>3, <2>1 DEF TypeOK
    <3>2. /\ t \in S => wire'[t] = Append(wire[t], d)
          /\ wire'[t] = wire[t] \/ wire'[t] = Append(wire[t], d)
      BY <1>5, <3>1
    <3>3. Carries(wire[t], n) => Carries(wire'[t], n)
      BY <3>1, <3>2, PutCarries
    <3>4. CASE n \in 1..given[t]
      BY <2>1, <3>3, <3>4 DEF IInv, Underway
    <3>5. CASE n \notin 1..given[t]
      <4>1. given'[t] # given[t]
        BY <2>1, <3>5
      <4>2. t \in S /\ given[t] = sent /\ given'[t] = sent + 1
        BY <1>19, <3>1, <4>1
      <4>3. n = sent + 1
        BY <1>3, <2>1, <3>5, <4>2
      <4>4. Carries(Append(wire[t], d), n)
        BY <1>4, <3>1, <4>3, SendCarries
      <4> QED
        BY <3>2, <4>2, <4>4
    <3> QED
      BY <3>4, <3>5
  <2>2. ASSUME NEW t \in Tunnels, NEW p \in DOMAIN wire'[t], wire'[t][p].type = "close",
               NEW n \in 1..given'[t], Young
        PROVE  Got(n) \/ Ahead(wire'[t], p, n)
    <3>1. given'[t] = given[t]
      BY <1>19, <2>2
    <3>2. p \in DOMAIN wire[t] /\ wire'[t][p] = wire[t][p]
      BY <1>4, <1>5, <2>2
    <3>3. Got(n) \/ Ahead(wire[t], p, n)
      BY <2>2, <3>1, <3>2 DEF IInv, Underway
    <3>4. wire[t] \in Seq(Message) /\ (wire'[t] = wire[t] \/ wire'[t] = Append(wire[t], d))
      BY <1>3, <1>5 DEF TypeOK
    <3>5. Ahead(wire[t], p, n) => Ahead(wire'[t], p, n)
      BY <3>2, <3>4, PutCarries
    <3> QED
      BY <3>3, <3>5
  <2>3. ASSUME NEW p \in DOMAIN LetIn, LetIn[p].type = "close", LetIn[p].src \in Tunnels,
               NEW n \in 1..given'[LetIn[p].src], Young
        PROVE  n \in accepted \/ Ahead(LetIn, p, n)
    <3>1. given'[LetIn[p].src] = given[LetIn[p].src]
      BY <1>19, <2>3
    <3> QED
      BY <2>3, <3>1 DEF IInv, Underway
  <2>4. \A n \in feedSeen : Young => Got(n)
    BY DEF IInv, Underway
  <2> QED
    BY <1>2, <1>15, <2>1, <2>2, <2>3, <2>4 DEF Underway
<1>21. CloseKeepsItsPlace'
  <2>1. endedBy # "none" => given'[endedBy] = given[endedBy]
    BY <1>3, <1>19 DEF TypeOK
  <2>2. Ended' <=> Ended
    BY <1>2 DEF Ended
  <2>3. \A k : Received(k)' <=> Received(k)
    BY <1>2 DEF Received, bufferVars
  <2> QED
    BY <1>2, <2>1, <2>2, <2>3 DEF IInv, CloseKeepsItsPlace, Ended
<1> QED
  BY <1>6, <1>8, <1>12, <1>13, <1>14, <1>16, <1>17, <1>18, <1>20, <1>21 DEF IInv

(* CLOSE goes by some of the tunnels it has yet to go by.                  *)
LEMMA ClosePut ==
  ASSUME IInv, NEW S \in SUBSET live, Put(Close, S), closing' = closing \ S,
         client \in {"open", client'}, client' \in {"closed", "ending"},
         UNCHANGED <<sent, tunnelVars, orphanVars, givenVars, serverVars>>
  PROVE  IInv'
<1>1. /\ UNCHANGED <<sent, used, live, orphans, arriving, batch, greeted, given, held, inbox,
                     feedSeen, forgotten, dials, burying, tomb, registered, closed, killed, endedBy,
                     skipped, phase, accepted, stream>>
      /\ UNCHANGED bufferVars
  BY DEF tunnelVars, orphanVars, givenVars, serverVars, sessionVars, inboxVars, tombVars, fateVars,
         bufferVars
<1>2. TypeOK /\ live \subseteq Tunnels /\ S \subseteq Tunnels
  BY DEF IInv, TypeOK
<1>3. PICK d \in Message : d = Close /\ d.type = "close" /\ d.seq = 0
  <2>1. 0 \in 0..MaxFrame
    BY MultipathAssumption
  <2>2. Close \in Message
    BY <2>1 DEF Close, Message, Types
  <2>3. Close.type = "close" /\ Close.seq = 0
    BY DEF Close
  <2> QED
    BY <2>2, <2>3
<1>4. /\ wire' \in [Tunnels -> Seq(Message)]
      /\ \A t \in S : wire'[t] = Append(wire[t], d)
      /\ \A t \in Tunnels \ S : wire'[t] = wire[t]
      /\ \A t \in Tunnels : \A i \in DOMAIN wire'[t] :
            \/ i \in DOMAIN wire[t] /\ wire'[t][i] = wire[t][i]
            \/ i = Len(wire[t]) + 1 /\ wire'[t][i] = d /\ t \in S
  BY <1>2, <1>3, PutWire
<1>5. Buffer!IInv' /\ Dedup!TypeOK'
  BY <1>1, BufferKept DEF IInv
<1>6. TypeOK'
  <2>1. closing' \subseteq live'
    BY <1>1, <1>2 DEF TypeOK
  <2> QED
    BY <1>1, <1>2, <1>4, <1>5, <2>1 DEF TypeOK
<1>7. \A m : Genuine(m, client, sent) => Genuine(m, client', sent')
  BY <1>1 DEF Genuine
<1>8. Genuine(d, client', sent')
  BY <1>3 DEF Genuine
<1>9. Authentic'
  <2>1. \A t \in Tunnels : \A i \in DOMAIN wire'[t] :
           Genuine(wire'[t][i], client', sent') /\ wire'[t][i].type # "none"
    BY <1>3, <1>4, <1>7, <1>8 DEF IInv, Authentic
  <2> QED
    BY <1>1, <1>7, <2>1 DEF IInv, Authentic
<1>10. Fresh'
  <2>1. ASSUME dials = 0, NEW t \in greeted, wire'[t] # <<>> \/ t \in live
        PROVE  wire'[t] # <<>> /\ wire'[t][1] = Hello
    <3>1. wire[t] \in Seq(Message) /\ t \in Tunnels
      BY <1>2 DEF TypeOK
    <3>2. wire[t] # <<>> /\ wire[t][1] = Hello
      BY <1>2, <1>4, <2>1, <3>1 DEF IInv, Fresh
    <3>3. \A q \in Seq(Message) : q # <<>> => Append(q, d) # <<>> /\ Append(q, d)[1] = q[1]
      OBVIOUS
    <3> QED
      BY <1>2, <1>4, <3>1, <3>2, <3>3
  <2> QED
    BY <1>1, <2>1 DEF IInv, Fresh
<1>11. Present'
  BY <1>1 DEF IInv, Present
<1>12. LetIn' = LetIn /\ (\A n : Got(n)' <=> Got(n)) /\ (Young' <=> Young)
  BY <1>1 DEF LetIn, Got, Young
<1>13. Remembered' /\ FirstCopyOnly'
  BY <1>1, <1>12 DEF IInv, Remembered, FirstCopyOnly
<1>14. InStep'
  BY <1>1 DEF IInv, InStep, Steady, bufferVars
<1>15. Unannounced'
  <2>1. ASSUME NEW t \in closing' PROVE t \in closing /\ wire'[t] = wire[t]
    BY <1>2, <1>4, <2>1 DEF TypeOK
  <2> QED
    BY <1>1, <1>12, <2>1 DEF IInv, Unannounced
<1>16. Underway'
  <2>1. ASSUME NEW t \in S, NEW n \in 1..given[t], Young
        PROVE  Got(n) \/ (Carries(wire'[t], n) /\ Ahead(wire'[t], Len(wire[t]) + 1, n))
    <3>1. wire[t] \in Seq(Message) /\ wire'[t] = Append(wire[t], d)
      BY <1>2, <1>4 DEF TypeOK
    <3>2. Got(n) \/ Carries(wire[t], n)
      BY <2>1 DEF IInv, Underway
    <3> QED
      BY <3>1, <3>2, SendCarries
  <2>2. ASSUME NEW t \in live, NEW n \in 1..given[t], Young
        PROVE  Got(n) \/ Carries(wire'[t], n)
    <3>1. t \notin S => wire'[t] = wire[t]
      BY <1>2, <1>4
    <3>2. Got(n) \/ Carries(wire[t], n)
      BY <2>2 DEF IInv, Underway
    <3> QED
      BY <2>1, <2>2, <3>1, <3>2
  <2>3. ASSUME NEW t \in Tunnels, NEW p \in DOMAIN wire'[t], wire'[t][p].type = "close",
               NEW n \in 1..given[t], Young
        PROVE  Got(n) \/ Ahead(wire'[t], p, n)
    <3>1. CASE p \in DOMAIN wire[t] /\ wire'[t][p] = wire[t][p]
      <4>1. Got(n) \/ Ahead(wire[t], p, n)
        BY <2>3, <3>1 DEF IInv, Underway
      <4>2. wire[t] \in Seq(Message) /\ (wire'[t] = wire[t] \/ wire'[t] = Append(wire[t], d))
        BY <1>2, <1>4 DEF TypeOK
      <4>3. Ahead(wire[t], p, n) => Ahead(wire'[t], p, n)
        BY <3>1, <4>2, PutCarries
      <4> QED
        BY <4>1, <4>3
    <3>2. CASE p = Len(wire[t]) + 1 /\ t \in S
      BY <2>1, <2>3, <3>2
    <3> QED
      BY <1>4, <2>3, <3>1, <3>2
  <2> QED
    BY <1>1, <1>12, <2>2, <2>3 DEF IInv, Underway
<1>17. CloseKeepsItsPlace'
  BY <1>1 DEF IInv, CloseKeepsItsPlace, Ended, Received, bufferVars
<1> QED
  BY <1>5, <1>6, <1>9, <1>10, <1>11, <1>13, <1>14, <1>15, <1>16, <1>17 DEF IInv

LEMMA HangUpInvariant == IInv /\ HangUp => IInv'
<1> SUFFICES ASSUME IInv, HangUp PROVE IInv'
  OBVIOUS
<1>1. closing = {}
  BY DEF IInv, Unannounced, HangUp
<1>2. closing' = closing \ live
  BY <1>1 DEF HangUp
<1> QED
  BY <1>2, ClosePut DEF HangUp

LEMMA CloseByInvariant == ASSUME IInv, NEW t \in Tunnels, CloseBy(t) PROVE IInv'
<1>1. {t} \in SUBSET live /\ client = "ending"
  BY DEF IInv, TypeOK, Unannounced, CloseBy
<1> QED
  BY <1>1, ClosePut DEF CloseBy

(* When the response ends, CLOSE has gone by no tunnel.                    *)
LEMMA ResponseInvariant == IInv /\ ResponseEnds => IInv'
<1> SUFFICES ASSUME IInv, ResponseEnds PROVE IInv'
  OBVIOUS
<1>1. /\ client = "open" /\ client' = "ending" /\ closing' = live
      /\ UNCHANGED <<sent, used, live, wire, orphans, arriving, batch, greeted, given, held, inbox,
                     feedSeen, forgotten, dials, burying, tomb, registered, closed, killed, endedBy,
                     skipped, phase, accepted, stream>>
      /\ UNCHANGED bufferVars
  BY DEF ResponseEnds, tunnelVars, pathVars, orphanVars, givenVars, serverVars, sessionVars,
         inboxVars, tombVars, fateVars, bufferVars
<1>2. TypeOK /\ live \subseteq Tunnels
  BY DEF IInv, TypeOK
<1>3. Buffer!IInv' /\ Dedup!TypeOK'
  BY <1>1, BufferKept DEF IInv
<1>4. TypeOK'
  BY <1>1, <1>2, <1>3 DEF TypeOK
<1>5. \A m : Genuine(m, client, sent) => Genuine(m, client', sent') /\ m.type # "close"
  BY <1>1 DEF Genuine
<1>6. Authentic'
  BY <1>1, <1>5 DEF IInv, Authentic
<1>7. Fresh' /\ Present'
  BY <1>1 DEF IInv, Fresh, Present
<1>8. LetIn' = LetIn /\ (\A n : Got(n)' <=> Got(n)) /\ (Young' <=> Young)
  BY <1>1 DEF LetIn, Got, Young
<1>9. Unannounced'
  <2>1. \A p \in DOMAIN LetIn :
           (p \in DOMAIN inbox /\ LetIn[p] = inbox[p]) \/ LetIn[p] = held
    BY <1>2 DEF LetIn, TypeOK
  <2>2. \A p \in DOMAIN LetIn : LetIn[p].type # "close"
    BY <1>5, <2>1 DEF IInv, Authentic
  <2>3. endedBy = "none"
    BY <1>1 DEF IInv, Authentic
  <2>4. \A t \in live : \A i \in DOMAIN wire[t] : wire[t][i].type # "close"
    BY <1>2, <1>5 DEF IInv, Authentic
  <2> QED
    BY <1>1, <1>8, <2>2, <2>3, <2>4 DEF Unannounced
<1>10. Remembered' /\ FirstCopyOnly'
  BY <1>1, <1>8 DEF IInv, Remembered, FirstCopyOnly
<1>11. InStep'
  BY <1>1 DEF IInv, InStep, Steady, bufferVars
<1>12. Underway'
  BY <1>1, <1>8 DEF IInv, Underway
<1>13. CloseKeepsItsPlace'
  BY <1>1 DEF IInv, CloseKeepsItsPlace, Ended, Received, bufferVars
<1> QED
  BY <1>3, <1>4, <1>6, <1>7, <1>9, <1>10, <1>11, <1>12, <1>13 DEF IInv
-----------------------------------------------------------------------------
(* The tunnels.                                                            *)

(* A step that only moves orphans, and lists a tunnel perhaps.             *)
LEMMA OrphansMove ==
  ASSUME IInv, used \subseteq used', used' \subseteq Tunnels, live \subseteq live',
         live' \subseteq used', \A t \in live' \ live : t \notin used,
         arriving' \subseteq used', orphans' \in Seq(Message),
         batch' \in [Tunnels -> Seq(Message)],
         \A i \in DOMAIN orphans' :
            Genuine(orphans'[i], client, sent) /\ orphans'[i].type = "data",
         \A t \in Tunnels : \A i \in DOMAIN batch'[t] :
            Genuine(batch'[t][i], client, sent) /\ batch'[t][i].type = "data",
         UNCHANGED <<clientVars, wire, givenVars, serverVars>>
  PROVE  IInv'
<1>1. /\ UNCHANGED <<client, sent, closing, wire, greeted, given, held, inbox, feedSeen, forgotten,
                     dials, burying, tomb, registered, closed, killed, endedBy, skipped, phase,
                     accepted, stream>>
      /\ UNCHANGED bufferVars
  BY DEF clientVars, givenVars, serverVars, sessionVars, inboxVars, tombVars, fateVars, bufferVars
<1>2. TypeOK
  BY DEF IInv
<1>3. Buffer!IInv' /\ Dedup!TypeOK'
  BY <1>1, BufferKept DEF IInv
<1>4. TypeOK'
  <2>1. closing' \subseteq live' /\ greeted' \subseteq used'
    BY <1>1, <1>2 DEF TypeOK
  <2> QED
    BY <1>1, <1>2, <1>3, <2>1 DEF TypeOK
<1>5. Authentic'
  BY <1>1 DEF IInv, Authentic
<1>6. \A t \in live' : t \in live \/ (t \notin greeted /\ given[t] = 0)
  BY <1>2 DEF IInv, TypeOK, Authentic
<1>7. Fresh' /\ Present'
  BY <1>1, <1>6 DEF IInv, Fresh, Present
<1>8. LetIn' = LetIn /\ (\A n : Got(n)' <=> Got(n)) /\ (Young' <=> Young)
  BY <1>1 DEF LetIn, Got, Young
<1>9. Remembered' /\ FirstCopyOnly'
  BY <1>1, <1>8 DEF IInv, Remembered, FirstCopyOnly
<1>10. InStep'
  BY <1>1 DEF IInv, InStep, Steady, bufferVars
<1>11. Unannounced'
  BY <1>1, <1>8 DEF IInv, Unannounced
<1>12. Underway'
  <2>1. \A t \in live' : t \in live \/ 1..given[t] = {}
    BY <1>6
  <2> QED
    BY <1>1, <1>8, <2>1 DEF IInv, Underway
<1>13. CloseKeepsItsPlace'
  BY <1>1 DEF IInv, CloseKeepsItsPlace, Ended, Received, bufferVars
<1> QED
  BY <1>3, <1>4, <1>5, <1>7, <1>9, <1>10, <1>11, <1>12, <1>13 DEF IInv

(* A tunnel comes up, takes the orphans, and puts back what is left.       *)
LEMMA UpInvariant ==
  ASSUME IInv, NEW t \in Tunnels, TunnelUp(t) \/ TakeOrphans(t) \/ PutBack(t) PROVE IInv'
<1>1. TypeOK
  BY DEF IInv
<1>2. /\ \A i \in DOMAIN orphans : Genuine(orphans[i], client, sent) /\ orphans[i].type = "data"
      /\ \A u \in Tunnels : \A i \in DOMAIN batch[u] :
            Genuine(batch[u][i], client, sent) /\ batch[u][i].type = "data"
  BY DEF IInv, Authentic
<1>3. CASE TunnelUp(t)
  BY <1>1, <1>2, <1>3, OrphansMove DEF TunnelUp, TypeOK
<1>4. <<>> \in Seq(Message) /\ DOMAIN <<>> = {}
  OBVIOUS
<1>5. CASE TakeOrphans(t)
  <2>1. /\ arriving' \subseteq arriving /\ orphans' = <<>>
        /\ batch' = [batch EXCEPT ![t] = orphans]
        /\ UNCHANGED <<clientVars, used, live, wire, givenVars, serverVars>>
    BY <1>5 DEF TakeOrphans, tunnelVars
  <2>2. batch' \in [Tunnels -> Seq(Message)]
    BY <1>1, <2>1 DEF TypeOK
  <2>3. \A u \in Tunnels : batch'[u] = batch[u] \/ batch'[u] = orphans
    BY <1>1, <2>1 DEF TypeOK
  <2> QED
    BY <1>1, <1>2, <1>4, <2>1, <2>2, <2>3, OrphansMove DEF TypeOK
<1>6. CASE PutBack(t)
  <2>1. /\ orphans' = batch[t] \o orphans /\ batch' = [batch EXCEPT ![t] = <<>>]
        /\ UNCHANGED <<clientVars, used, live, arriving, wire, givenVars, serverVars>>
    BY <1>6 DEF PutBack, tunnelVars
  <2>2. batch[t] \in Seq(Message) /\ orphans \in Seq(Message)
    BY <1>1 DEF TypeOK
  <2>3. batch[t] \o orphans \in Seq(Message)
    BY <2>2, AppendParts
  <2>4. \A i \in DOMAIN (batch[t] \o orphans) :
           \/ i \in DOMAIN batch[t] /\ (batch[t] \o orphans)[i] = batch[t][i]
           \/ \E n \in DOMAIN orphans : (batch[t] \o orphans)[i] = orphans[n]
    BY <2>2, RescueElements
  <2>5. batch' \in [Tunnels -> Seq(Message)]
        /\ \A u \in Tunnels : batch'[u] = batch[u] \/ batch'[u] = <<>>
    BY <1>1, <1>4, <2>1 DEF TypeOK
  <2> QED
    BY <1>1, <1>2, <1>4, <2>1, <2>3, <2>4, <2>5, OrphansMove DEF TypeOK
<1> QED
  BY <1>3, <1>5, <1>6

(* An orphan goes by the tunnel that has come up, after what it carries.   *)
LEMMA DrainInvariant == ASSUME IInv, NEW t \in Tunnels, DrainNext(t) PROVE IInv'
<1>1. /\ UNCHANGED <<client, sent, closing, used, live, orphans, arriving, greeted, given, held,
                     inbox, feedSeen, forgotten, dials, burying, tomb, registered, closed, killed,
                     endedBy, skipped, phase, accepted, stream>>
      /\ UNCHANGED bufferVars
      /\ batch[t] # <<>> /\ t \in live /\ batch' = [batch EXCEPT ![t] = Tail(@)]
  BY DEF DrainNext, clientVars, tunnelVars, givenVars, serverVars, sessionVars, inboxVars,
         tombVars, fateVars, bufferVars
<1>2. TypeOK /\ live \subseteq Tunnels
  BY DEF IInv, TypeOK
<1>3. PICK b \in Seq(Message) : b = batch[t] /\ b # <<>>
  BY <1>1, <1>2 DEF TypeOK
<1>4. PICK d \in Message : /\ d = Head(batch[t]) /\ d.type = "data" /\ Genuine(d, client, sent)
  <2>1. Head(b) \in Message /\ Head(b) = b[1] /\ 1 \in DOMAIN b
    BY <1>3
  <2> QED
    BY <1>3, <2>1 DEF IInv, Authentic
<1>5. /\ wire' \in [Tunnels -> Seq(Message)]
      /\ wire'[t] = Append(wire[t], d)
      /\ \A u \in Tunnels \ {t} : wire'[u] = wire[u]
      /\ \A u \in Tunnels : \A i \in DOMAIN wire'[u] :
            \/ i \in DOMAIN wire[u] /\ wire'[u][i] = wire[u][i]
            \/ i = Len(wire[u]) + 1 /\ wire'[u][i] = d /\ u \in {t}
  <2>1. Put(d, {t})
    BY <1>4 DEF DrainNext
  <2> QED
    BY <1>2, <1>4, <2>1, PutWire
<1>6. Buffer!IInv' /\ Dedup!TypeOK'
  BY <1>1, BufferKept DEF IInv
<1>7. /\ batch' \in [Tunnels -> Seq(Message)]
      /\ \A u \in Tunnels : \A i \in DOMAIN batch'[u] :
            Genuine(batch'[u][i], client, sent) /\ batch'[u][i].type = "data"
  <2>1. Tail(b) \in Seq(Message)
    BY <1>3
  <2>2. batch' \in [Tunnels -> Seq(Message)] /\ batch'[t] = Tail(b)
        /\ \A u \in Tunnels \ {t} : batch'[u] = batch[u]
    BY <1>1, <1>2, <1>3, <2>1 DEF TypeOK
  <2>3. \A i \in DOMAIN Tail(b) : i + 1 \in DOMAIN b /\ Tail(b)[i] = b[i + 1]
    BY <1>3, ReceiveCarries
  <2>4. \A u \in Tunnels : \A i \in DOMAIN batch[u] :
            Genuine(batch[u][i], client, sent) /\ batch[u][i].type = "data"
    BY DEF IInv, Authentic
  <2>5. \A i \in DOMAIN Tail(b) : Genuine(Tail(b)[i], client, sent) /\ Tail(b)[i].type = "data"
    BY <1>3, <2>3, <2>4
  <2> QED
    BY <2>2, <2>4, <2>5
<1>8. TypeOK'
  <2>1. TypeOK
    BY DEF IInv
  <2>2. /\ orphans \in Seq(Message) /\ batch \in [Tunnels -> Seq(Message)] /\ held \in Letter
        /\ feedSeen \subseteq Frames /\ forgotten \subseteq Frames
        /\ closing \subseteq live /\ live \subseteq used
    BY <2>1 DEF TypeOK
  <2> QED
    BY <1>1, <1>5, <1>6, <1>7, <2>1, <2>2, TypeKept
<1>9. Authentic'
  <2>1. \A u \in Tunnels : \A i \in DOMAIN wire'[u] :
           Genuine(wire'[u][i], client, sent) /\ wire'[u][i].type # "none"
    BY <1>4, <1>5 DEF IInv, Authentic
  <2> QED
    BY <1>1, <1>7, <2>1 DEF IInv, Authentic
<1>10. Fresh'
  <2>1. ASSUME dials = 0, NEW u \in greeted, wire'[u] # <<>> \/ u \in live
        PROVE  wire'[u] # <<>> /\ wire'[u][1] = Hello
    <3>1. wire[u] \in Seq(Message) /\ u \in Tunnels
      BY <1>2 DEF TypeOK
    <3>2. wire[u] # <<>> /\ wire[u][1] = Hello
      BY <1>1, <1>5, <2>1, <3>1 DEF IInv, Fresh
    <3>3. \A q \in Seq(Message) : q # <<>> => Append(q, d) # <<>> /\ Append(q, d)[1] = q[1]
      OBVIOUS
    <3> QED
      BY <1>5, <3>1, <3>2, <3>3
  <2> QED
    BY <1>1, <2>1 DEF IInv, Fresh
<1>11. Present'
  BY <1>1 DEF IInv, Present
<1>12. LetIn' = LetIn /\ (\A n : Got(n)' <=> Got(n)) /\ (Young' <=> Young)
  BY <1>1 DEF LetIn, Got, Young
<1>13. Remembered' /\ FirstCopyOnly'
  BY <1>1, <1>12 DEF IInv, Remembered, FirstCopyOnly
<1>14. InStep'
  BY <1>1 DEF IInv, InStep, Steady, bufferVars
<1>15. Unannounced'
  <2>1. \A u \in closing : \A i \in DOMAIN wire'[u] : wire'[u][i].type # "close"
    BY <1>2, <1>4, <1>5 DEF IInv, TypeOK, Unannounced
  <2> QED
    BY <1>1, <1>12, <2>1 DEF IInv, Unannounced
<1>16. Underway'
  <2>1. ASSUME NEW u \in live, NEW n \in 1..given[u], Young
        PROVE  Got(n) \/ Carries(wire'[u], n)
    <3>1. Got(n) \/ Carries(wire[u], n)
      BY <2>1 DEF IInv, Underway
    <3>2. wire[u] \in Seq(Message) /\ (wire'[u] = wire[u] \/ wire'[u] = Append(wire[u], d))
      BY <1>2, <1>5 DEF TypeOK
    <3> QED
      BY <3>1, <3>2, PutCarries
  <2>2. ASSUME NEW u \in Tunnels, NEW p \in DOMAIN wire'[u], wire'[u][p].type = "close",
               NEW n \in 1..given[u], Young
        PROVE  Got(n) \/ Ahead(wire'[u], p, n)
    <3>1. p \in DOMAIN wire[u] /\ wire'[u][p] = wire[u][p]
      BY <1>4, <1>5, <2>2
    <3>2. Got(n) \/ Ahead(wire[u], p, n)
      BY <2>2, <3>1 DEF IInv, Underway
    <3>3. wire[u] \in Seq(Message) /\ (wire'[u] = wire[u] \/ wire'[u] = Append(wire[u], d))
      BY <1>2, <1>5 DEF TypeOK
    <3> QED
      BY <3>1, <3>2, <3>3, PutCarries
  <2> QED
    BY <1>1, <1>12, <2>1, <2>2 DEF IInv, Underway
<1>17. CloseKeepsItsPlace'
  BY <1>1 DEF IInv, CloseKeepsItsPlace, Ended, Received, bufferVars
<1> QED
  BY <1>6, <1>8, <1>9, <1>10, <1>11, <1>13, <1>14, <1>15, <1>16, <1>17 DEF IInv

(* What rescueFrames saves is DATA that was on the wire.                   *)
LEMMA RescueIsData ==
  ASSUME NEW q \in Seq(Message), NEW i \in Nat \ {0},
         NEW f \in [1..Cardinality(DataFrom(q, i)) -> DataFrom(q, i)]
  PROVE  /\ [n \in DOMAIN f |-> q[f[n]]] \in Seq(Message)
         /\ \A n \in DOMAIN f : f[n] \in DOMAIN q /\ q[f[n]].type = "data"
<1>1. DataFrom(q, i) \subseteq DOMAIN q /\ \A j \in DataFrom(q, i) : q[j].type = "data"
  BY DEF DataFrom
<1>2. Cardinality(DataFrom(q, i)) \in Nat
  <2>1. IsFiniteSet(i..Len(q))
    BY FS_Interval
  <2>2. DataFrom(q, i) \subseteq i..Len(q)
    BY DEF DataFrom
  <2>3. IsFiniteSet(DataFrom(q, i))
    BY <2>1, <2>2, FS_Subset
  <2> QED
    BY <2>3, FS_CardinalityType
<1>3. [n \in DOMAIN f |-> q[f[n]]] \in [1..Cardinality(DataFrom(q, i)) -> Message]
  BY <1>1
<1>4. [n \in DOMAIN f |-> q[f[n]]] \in Seq(Message)
  BY <1>2, <1>3, TableIsSequence
<1> QED
  BY <1>1, <1>4

LEMMA DieInvariant == ASSUME IInv, NEW t \in Tunnels, Die(t) PROVE IInv'
<1>1. /\ t \in live /\ live' = live \ {t}
      /\ closing' = closing \ {t}
      /\ UNCHANGED <<client, sent, used, arriving, batch, greeted, given, held, inbox, feedSeen,
                     forgotten, dials, burying, tomb, registered, closed, killed, endedBy, skipped,
                     phase, accepted, stream>>
      /\ UNCHANGED bufferVars
  BY DEF Die, givenVars, serverVars, sessionVars, inboxVars, tombVars, fateVars, bufferVars
<1>2. /\ TypeOK /\ wire \in [Tunnels -> Seq(Message)] /\ orphans \in Seq(Message)
      /\ greeted \subseteq Tunnels /\ live \subseteq Tunnels
  BY DEF IInv, TypeOK
<1>3. PICK k \in 0..Len(wire[t]), S \in SUBSET live', r \in Seq(Message) :
         /\ \A n \in DOMAIN r : \E j \in DOMAIN wire[t] : r[n] = wire[t][j] /\ wire[t][j].type = "data"
         /\ Falls(t, k, S, r)
  <2>1. PICK k \in 0..Len(wire[t]) : \E l \in k..Len(wire[t]), S \in SUBSET live' :
           \E f \in [1..Cardinality(DataFrom(wire[t], l + 1)) -> DataFrom(wire[t], l + 1)] :
              Falls(t, k, S, [n \in DOMAIN f |-> wire[t][f[n]]])
    BY DEF Die
  <2>2. PICK l \in k..Len(wire[t]), S \in SUBSET live' :
           \E f \in [1..Cardinality(DataFrom(wire[t], l + 1)) -> DataFrom(wire[t], l + 1)] :
              Falls(t, k, S, [n \in DOMAIN f |-> wire[t][f[n]]])
    BY <2>1
  <2>3. PICK f \in [1..Cardinality(DataFrom(wire[t], l + 1)) -> DataFrom(wire[t], l + 1)] :
           Falls(t, k, S, [n \in DOMAIN f |-> wire[t][f[n]]])
    BY <2>2
  <2>4. wire[t] \in Seq(Message) /\ l + 1 \in Nat \ {0}
    BY <1>2
  <2>5. PICK i \in Nat \ {0}, q \in Seq(Message) : i = l + 1 /\ q = wire[t]
    BY <2>4
  <2>6. f \in [1..Cardinality(DataFrom(q, i)) -> DataFrom(q, i)]
    BY <2>5
  <2>7. /\ [n \in DOMAIN f |-> q[f[n]]] \in Seq(Message)
        /\ \A n \in DOMAIN f : f[n] \in DOMAIN q /\ q[f[n]].type = "data"
    BY <2>6, RescueIsData
  <2>8. PICK r \in Seq(Message) : r = [n \in DOMAIN f |-> q[f[n]]]
    BY <2>7
  <2>9. \A n \in DOMAIN r : \E j \in DOMAIN q : r[n] = q[j] /\ q[j].type = "data"
    BY <2>7, <2>8
  <2>10. Falls(t, k, S, r)
    BY <2>3, <2>5, <2>8
  <2> QED
    BY <2>5, <2>9, <2>10
<1>4. /\ wire' \in [Tunnels -> Seq(Message)]
      /\ wire'[t] = SubSeq(wire[t], 1, k)
      /\ \A u \in S : u \in live /\ u # t /\ wire'[u] = wire[u] \o r
      /\ \A u \in Tunnels \ S : u # t => wire'[u] = wire[u]
      /\ orphans' \in Seq(Message)
  <2>1. S \subseteq live \ {t}
    BY <1>1
  <2>2. \A q \in Seq(Message) : q \o r \in Seq(Message)
    BY AppendParts
  <2>3. SubSeq(wire[t], 1, k) \in Seq(Message)
    BY <1>2, PrefixCarries
  <2> QED
    BY <1>2, <1>3, <2>1, <2>2, <2>3 DEF Falls
<1>5. Buffer!IInv' /\ Dedup!TypeOK'
  BY <1>1, BufferKept DEF IInv
<1>6. TypeOK'
  <2>1. TypeOK
    BY DEF IInv
  <2>2. /\ orphans \in Seq(Message) /\ batch \in [Tunnels -> Seq(Message)] /\ held \in Letter
        /\ feedSeen \subseteq Frames /\ forgotten \subseteq Frames
        /\ closing \subseteq live /\ live \subseteq used
    BY <2>1 DEF TypeOK
  <2>3. closing' \subseteq live' /\ live' \subseteq used
    BY <1>1, <2>2
  <2> QED
    BY <1>1, <1>4, <1>5, <2>1, <2>2, <2>3, TypeKept
<1>7. \A n \in DOMAIN r : Genuine(r[n], client, sent) /\ r[n].type = "data"
  BY <1>3 DEF IInv, Authentic
<1>8. ASSUME NEW u \in Tunnels, NEW i \in DOMAIN wire'[u]
      PROVE  \/ i \in DOMAIN wire[u] /\ wire'[u][i] = wire[u][i]
             \/ u \in S /\ \E n \in DOMAIN r : wire'[u][i] = r[n]
  <2>1. PICK q \in Seq(Message) : q = wire[u]
    BY <1>2
  <2>2. CASE u = t
    <3>1. wire'[u] = SubSeq(q, 1, k) /\ k \in 0..Len(q)
      BY <1>4, <2>1, <2>2
    <3> QED
      BY <1>8, <2>1, <3>1, PrefixCarries
  <2>3. CASE u \in S
    <3>1. wire'[u] = q \o r
      BY <1>4, <2>1, <2>3
    <3> QED
      BY <1>8, <2>1, <2>3, <3>1, RescueElements
  <2> QED
    BY <1>4, <1>8, <2>2, <2>3
<1>9. Authentic'
  <2>1. \A u \in Tunnels : \A i \in DOMAIN wire'[u] :
           Genuine(wire'[u][i], client, sent) /\ wire'[u][i].type # "none"
    BY <1>7, <1>8 DEF IInv, Authentic
  <2>2. \A i \in DOMAIN orphans' : Genuine(orphans'[i], client, sent) /\ orphans'[i].type = "data"
    <3>1. orphans' = orphans \/ orphans' = orphans \o r
      BY <1>3 DEF Falls
    <3>2. \A i \in DOMAIN orphans : Genuine(orphans[i], client, sent) /\ orphans[i].type = "data"
      BY DEF IInv, Authentic
    <3>3. \A i \in DOMAIN (orphans \o r) :
             \/ i \in DOMAIN orphans /\ (orphans \o r)[i] = orphans[i]
             \/ \E n \in DOMAIN r : (orphans \o r)[i] = r[n]
      BY <1>2, RescueElements
    <3>4. \A i \in DOMAIN (orphans \o r) :
             Genuine((orphans \o r)[i], client, sent) /\ (orphans \o r)[i].type = "data"
      BY <1>7, <3>2, <3>3
    <3> QED
      BY <3>1, <3>2, <3>4
  <2> QED
    BY <1>1, <2>1, <2>2 DEF IInv, Authentic
<1>10. Fresh'
  <2>1. ASSUME dials = 0, NEW u \in greeted, u \in live' \/ wire'[u] # <<>>
        PROVE  wire'[u] # <<>> /\ wire'[u][1] = Hello
    <3>1. PICK q \in Seq(Message) : q = wire[u]
      BY <1>2
    <3>2. CASE u = t
      <4>1. wire'[u] = SubSeq(q, 1, k) /\ k \in 0..Len(q) /\ wire'[u] # <<>>
        BY <1>1, <1>4, <2>1, <3>1, <3>2
      <4>2. wire'[u] \in Seq(Message)
        BY <1>2, <1>4
      <4>3. 1 \in DOMAIN wire'[u]
        BY <4>1, <4>2
      <4>4. 1 \in DOMAIN q /\ wire'[u][1] = q[1]
        BY <4>1, <4>3, PrefixCarries
      <4>5. q # <<>>
        BY <4>4
      <4> QED
        BY <2>1, <3>1, <4>1, <4>4, <4>5 DEF IInv, Fresh
    <3>3. CASE u \in S
      <4>1. q # <<>> /\ q[1] = Hello /\ wire'[u] = q \o r
        BY <1>4, <2>1, <3>1, <3>3 DEF IInv, Fresh
      <4>2. 1 \in 1..Len(q) /\ 1 \in 1..(Len(q) + Len(r))
        BY <4>1
      <4>3. (q \o r)[1] = q[1] /\ DOMAIN (q \o r) = 1..(Len(q) + Len(r))
        BY <4>2, AppendParts
      <4>4. q \o r # <<>>
        BY <4>2, <4>3
      <4> QED
        BY <4>1, <4>3, <4>4
    <3> QED
      BY <1>1, <1>2, <1>4, <2>1, <3>2, <3>3 DEF IInv, Fresh
  <2> QED
    BY <1>1, <2>1 DEF IInv, Fresh
<1>11. Present'
  BY <1>1 DEF IInv, Present
<1>12. LetIn' = LetIn /\ (\A n : Got(n)' <=> Got(n)) /\ (Young' <=> Young)
  BY <1>1 DEF LetIn, Got, Young
<1>13. Remembered' /\ FirstCopyOnly'
  BY <1>1, <1>12 DEF IInv, Remembered, FirstCopyOnly
<1>14. InStep'
  BY <1>1 DEF IInv, InStep, Steady, bufferVars
<1>15. Underway'
  <2>1. ASSUME NEW u \in live', NEW n \in 1..given[u], Young
        PROVE  Got(n) \/ Carries(wire'[u], n)
    <3>1. Got(n) \/ Carries(wire[u], n)
      BY <1>1, <2>1 DEF IInv, Underway
    <3>2. wire[u] \in Seq(Message) /\ (wire'[u] = wire[u] \/ wire'[u] = wire[u] \o r)
      BY <1>1, <1>2, <1>4
    <3> QED
      BY <3>1, <3>2, RescueCarries
  <2>2. ASSUME NEW u \in Tunnels, NEW p \in DOMAIN wire'[u], wire'[u][p].type = "close",
               NEW n \in 1..given[u], Young
        PROVE  Got(n) \/ Ahead(wire'[u], p, n)
    <3>1. p \in DOMAIN wire[u] /\ wire'[u][p] = wire[u][p]
      BY <1>2, <1>7, <1>8, <2>2
    <3>2. Got(n) \/ Ahead(wire[u], p, n)
      BY <2>2, <3>1 DEF IInv, Underway
    <3>3. PICK q \in Seq(Message) : q = wire[u]
      BY <1>2
    <3>4. CASE u = t
      <4>1. wire'[u] = SubSeq(q, 1, k) /\ k \in 0..Len(q)
        BY <1>4, <3>3, <3>4
      <4>2. p \in 1..k
        BY <2>2, <4>1, PrefixCarries
      <4> QED
        BY <3>2, <3>3, <4>1, <4>2, PrefixCarries
    <3>5. CASE u \in S
      <4>1. wire'[u] = q \o r /\ p \in DOMAIN q
        BY <1>4, <3>1, <3>3, <3>5
      <4>2. Ahead(q, p, n) => Ahead(q \o r, p, n)
        BY <4>1, RescueCarries
      <4> QED
        BY <3>2, <3>3, <4>1, <4>2
    <3> QED
      BY <1>2, <1>4, <3>2, <3>4, <3>5
  <2> QED
    BY <1>1, <1>12, <2>1, <2>2 DEF IInv, Underway
<1>16. Unannounced'
  <2>1. \A u \in closing' : u \in closing /\ u \in Tunnels
    BY <1>1, <1>2 DEF TypeOK
  <2>2. \A u \in closing' : \A i \in DOMAIN wire'[u] : wire'[u][i].type # "close"
    BY <1>7, <1>8, <2>1 DEF IInv, Unannounced
  <2> QED
    BY <1>1, <1>12, <2>1, <2>2 DEF IInv, Unannounced
<1>17. CloseKeepsItsPlace'
  BY <1>1 DEF IInv, CloseKeepsItsPlace, Ended, Received, bufferVars
<1> QED
  BY <1>5, <1>6, <1>9, <1>10, <1>11, <1>13, <1>14, <1>15, <1>16, <1>17 DEF IInv
-----------------------------------------------------------------------------
(* The server's hub.                                                       *)

(* What dispatchLoop takes, and what it leaves.                            *)
LEMMA Taken ==
  ASSUME IInv, NEW t \in Tunnels, NEW m, m = Head(wire[t]), wire[t] # <<>>, Arrives(t, m)
  PROVE  /\ held = Nothing /\ m \in Message
         /\ Genuine(m, client, sent) /\ m.type # "none" /\ m = wire[t][1]
         /\ UNCHANGED <<client, sent, closing, used, live, orphans, arriving, batch, greeted,
                        given>>
         /\ wire' \in [Tunnels -> Seq(Message)]
         /\ wire'[t] = Tail(wire[t])
         /\ \A u \in Tunnels \ {t} : wire'[u] = wire[u]
         /\ \A u \in Tunnels : \A i \in DOMAIN wire'[u] :
               Genuine(wire'[u][i], client, sent) /\ wire'[u][i].type # "none"
<1>1. /\ held = Nothing /\ wire' = [wire EXCEPT ![t] = Tail(@)]
      /\ UNCHANGED <<client, sent, closing, used, live, orphans, arriving, batch, greeted, given>>
  BY DEF Arrives, Idle, clientVars, tunnelVars, orphanVars, givenVars
<1>2. wire \in [Tunnels -> Seq(Message)]
  BY DEF IInv, TypeOK
<1>3. PICK q \in Seq(Message) : q = wire[t]
  BY <1>2
<1>4. m \in Message /\ m = wire[t][1] /\ 1 \in DOMAIN wire[t] /\ Tail(wire[t]) \in Seq(Message)
  BY <1>3
<1>5. /\ wire' \in [Tunnels -> Seq(Message)]
      /\ wire'[t] = Tail(wire[t])
      /\ \A u \in Tunnels \ {t} : wire'[u] = wire[u]
  BY <1>1, <1>2, <1>4
<1>6. \A u \in Tunnels : \A i \in DOMAIN wire[u] :
         Genuine(wire[u][i], client, sent) /\ wire[u][i].type # "none"
  BY DEF IInv, Authentic
<1>7. \A i \in DOMAIN Tail(q) : i + 1 \in DOMAIN q /\ Tail(q)[i] = q[i + 1]
  BY <1>3, ReceiveCarries
<1>8. \A u \in Tunnels : \A i \in DOMAIN wire'[u] :
         Genuine(wire'[u][i], client, sent) /\ wire'[u][i].type # "none"
  <2>1. \A i \in DOMAIN q : Genuine(q[i], client, sent) /\ q[i].type # "none"
    BY <1>3, <1>6
  <2>2. \A i \in DOMAIN Tail(q) : Genuine(Tail(q)[i], client, sent) /\ Tail(q)[i].type # "none"
    BY <1>7, <2>1
  <2> QED
    BY <1>3, <1>5, <1>6, <2>2
<1> QED
  BY <1>1, <1>4, <1>5, <1>6, <1>8

(* A tunnel loses nothing by a receive but the frame that is received.     *)
LEMMA Shorter ==
  ASSUME IInv, Young, NEW t \in Tunnels, wire[t] # <<>>, NEW n \in 1..given[t],
         ~(Head(wire[t]).type = "data" /\ Head(wire[t]).seq = n)
  PROVE  /\ t \in live => Got(n) \/ Carries(Tail(wire[t]), n)
         /\ \A p \in DOMAIN Tail(wire[t]) :
               Tail(wire[t])[p].type = "close" => Got(n) \/ Ahead(Tail(wire[t]), p, n)
<1>1. PICK q \in Seq(Message) : q = wire[t] /\ q # <<>>
  BY DEF IInv, TypeOK
<1>2. t \in live => Got(n) \/ Carries(q, n)
  BY <1>1 DEF IInv, Underway
<1>3. \A p \in DOMAIN q : q[p].type = "close" => Got(n) \/ Ahead(q, p, n)
  BY <1>1 DEF IInv, Underway
<1>4. Carries(q, n) => Carries(Tail(q), n)
  BY <1>1, ReceiveCarries
<1>5. \A p \in DOMAIN Tail(q) : /\ p + 1 \in DOMAIN q /\ Tail(q)[p] = q[p + 1]
                                /\ Ahead(q, p + 1, n) => Ahead(Tail(q), p, n)
  BY <1>1, ReceiveCarries
<1> QED
  BY <1>1, <1>2, <1>3, <1>4, <1>5

(* Nor is a CLOSE announced by it.                                         *)
LEMMA QuietReceive ==
  ASSUME IInv, NEW t \in Tunnels, NEW m, m = Head(wire[t]), wire[t] # <<>>, Arrives(t, m),
         endedBy' \in {endedBy, "none"},
         \A i \in DOMAIN LetIn' : LetIn'[i].type = "close" =>
            \/ LetIn'[i].src = t /\ m.type = "close"
            \/ \E j \in DOMAIN LetIn : LetIn[j].type = "close" /\ LetIn[j].src = LetIn'[i].src
  PROVE  Unannounced'
<1>1. /\ UNCHANGED <<client, closing>> /\ wire'[t] = Tail(wire[t])
      /\ \A u \in Tunnels \ {t} : wire'[u] = wire[u]
  BY Taken
<1>2. PICK q \in Seq(Message) : q = wire[t] /\ q # <<>> /\ m = q[1] /\ 1 \in DOMAIN q
  BY DEF IInv, TypeOK
<1>3. \A i \in DOMAIN Tail(q) : i + 1 \in DOMAIN q /\ Tail(q)[i] = q[i + 1]
  BY <1>2, ReceiveCarries
<1>4. \A u \in closing : u \in Tunnels
  BY DEF IInv, TypeOK
<1>5. ASSUME NEW u \in closing
      PROVE  /\ \A i \in DOMAIN wire'[u] : wire'[u][i].type # "close"
             /\ u = t => m.type # "close"
  <2>1. \A i \in DOMAIN wire[u] : wire[u][i].type # "close"
    BY DEF IInv, Unannounced
  <2>2. CASE u = t
    <3>1. wire'[u] = Tail(q) /\ wire[u] = q
      BY <1>1, <1>2, <2>2
    <3> QED
      BY <1>2, <1>3, <2>1, <3>1
  <2>3. CASE u # t
    BY <1>1, <1>4, <2>1, <2>3
  <2> QED
    BY <2>2, <2>3
<1>6. ASSUME NEW u \in closing, NEW i \in DOMAIN LetIn', LetIn'[i].type = "close"
      PROVE  LetIn'[i].src # u
  BY <1>5, <1>6 DEF IInv, Unannounced
<1>7. \A u \in closing : client = "ending" /\ (endedBy' # "none" => endedBy' # u)
  BY DEF IInv, Unannounced
<1> QED
  BY <1>1, <1>5, <1>6, <1>7 DEF Unannounced

LEMMA DropInvariant ==
  ASSUME IInv, NEW t \in Tunnels, wire[t] # <<>>, DropUnknown(t) PROVE IInv'
<1>1. PICK m : m = Head(wire[t]) /\ Arrives(t, m) /\ ~registered /\ Ignores(m)
  BY DEF DropUnknown
<1>2. /\ UNCHANGED <<held, inbox, feedSeen, forgotten, dials, burying, tomb, registered, closed,
                     killed, endedBy, skipped, phase, accepted, stream>>
      /\ UNCHANGED bufferVars
  BY DEF DropUnknown, serverVars, sessionVars, inboxVars, tombVars, fateVars, bufferVars
<1>3. /\ m = wire[t][1]
      /\ UNCHANGED <<client, sent, closing, used, live, orphans, arriving, batch, greeted, given>>
      /\ wire' \in [Tunnels -> Seq(Message)]
      /\ \A u \in Tunnels \ {t} : wire'[u] = wire[u]
      /\ \A u \in Tunnels : \A i \in DOMAIN wire'[u] :
            Genuine(wire'[u][i], client, sent) /\ wire'[u][i].type # "none"
  BY <1>1, Taken
<1>4. TypeOK /\ greeted \subseteq Tunnels /\ live \subseteq Tunnels
  BY DEF IInv, TypeOK
<1>5. dials = 0 \/ Young => t \notin greeted
  <2>1. CASE dials = 0
    <3>1. ~tomb /\ (t \in greeted => wire[t][1] = Hello)
      BY <2>1 DEF IInv, Fresh
    <3>2. t \in greeted => ~Ignores(m)
      BY <1>3, <3>1 DEF Ignores, Hello
    <3> QED
      BY <1>1, <3>2
  <2>2. CASE Young /\ dials # 0
    BY <1>1, <1>4, <2>2 DEF Young, TypeOK
  <2> QED
    BY <2>1, <2>2
<1>6. Buffer!IInv' /\ Dedup!TypeOK'
  BY <1>2, BufferKept DEF IInv
<1>7. TypeOK'
  <2>1. TypeOK
    BY DEF IInv
  <2>2. /\ orphans \in Seq(Message) /\ batch \in [Tunnels -> Seq(Message)] /\ held \in Letter
        /\ feedSeen \subseteq Frames /\ forgotten \subseteq Frames
        /\ closing \subseteq live /\ live \subseteq used
    BY <2>1 DEF TypeOK
  <2> QED
    BY <1>2, <1>3, <1>6, <2>1, <2>2, TypeKept
<1>8. Authentic'
  BY <1>2, <1>3 DEF IInv, Authentic
<1>9. Fresh' /\ Present'
  BY <1>2, <1>3, <1>4, <1>5 DEF IInv, Fresh, Present
<1>10. LetIn' = LetIn /\ (\A n : Got(n)' <=> Got(n)) /\ (Young' <=> Young)
  BY <1>2 DEF LetIn, Got, Young
<1>11. Remembered' /\ FirstCopyOnly'
  BY <1>2, <1>10 DEF IInv, Remembered, FirstCopyOnly
<1>12. InStep' /\ CloseKeepsItsPlace'
  BY <1>2, <1>3 DEF IInv, InStep, Steady, CloseKeepsItsPlace, Ended, Received, bufferVars
<1>13. Underway'
  <2>1. Young => given[t] = 0
    BY <1>5 DEF IInv, Authentic
  <2>2. Young => 1..given[t] = {}
    BY <2>1
  <2> QED
    BY <1>2, <1>3, <1>4, <1>10, <2>2 DEF IInv, Underway
<1>14. Unannounced'
  BY <1>1, <1>2, <1>3, <1>10, QuietReceive
<1> QED
  BY <1>6, <1>7, <1>8, <1>9, <1>11, <1>12, <1>13, <1>14 DEF IInv

LEMMA FeedInvariant == IInv /\ Feed => IInv'
<1> SUFFICES ASSUME IInv, Feed PROVE IInv'
  OBVIOUS
<1>1. /\ held # Nothing /\ held' = Nothing
      /\ UNCHANGED <<client, sent, closing, used, live, orphans, arriving, batch, greeted, given,
                     wire, feedSeen, forgotten, dials, burying, tomb, registered, closed, killed,
                     endedBy, skipped, phase, accepted, stream>>
      /\ UNCHANGED bufferVars
  BY DEF Feed, Idle, clientVars, tunnelVars, pathVars, orphanVars, givenVars, sessionVars,
         tombVars, fateVars, bufferVars
<1>2. held.to = dials /\ dials # 0 /\ LetIn = Append(inbox, held)
  BY <1>1 DEF IInv, Present, LetIn
<1>3. \/ Room /\ inbox' = Append(inbox, held)
      \/ closed /\ inbox' = inbox
  BY <1>2 DEF Feed, Abandons
<1>4. TypeOK /\ held \in Letter /\ inbox \in Seq(Letter) /\ Nothing \in Letter
  <2>1. 0 \in 0..MaxFrame /\ 0 \in 0..MaxDials
    BY MultipathAssumption
  <2>2. Nothing \in Letter
    BY <2>1 DEF Nothing, Letter, Types
  <2> QED
    BY <2>2 DEF IInv, TypeOK
<1>5. LetIn' = inbox'
  BY <1>1, <1>2 DEF LetIn, Nothing
<1>6. /\ \A i \in DOMAIN LetIn' : i \in DOMAIN LetIn /\ LetIn'[i] = LetIn[i]
      /\ DOMAIN LetIn = 1..(Len(inbox) + 1) /\ LetIn[Len(inbox) + 1] = held
      /\ \A i \in DOMAIN inbox : LetIn[i] = inbox[i] /\ i \in 1..(Len(inbox) + 1)
      /\ inbox' \in Seq(Letter) /\ Len(inbox) \in Nat /\ Len(LetIn) = Len(inbox) + 1
  BY <1>2, <1>3, <1>4, <1>5
<1>7. Buffer!IInv' /\ Dedup!TypeOK'
  BY <1>1, BufferKept DEF IInv
<1>8. TypeOK'
  <2>1. InboxSize \in Nat
    BY MultipathAssumption
  <2>2. Len(inbox') <= InboxSize
    <3>1. CASE inbox' = Append(inbox, held) /\ Room
      <4>1. Len(inbox') = Len(inbox) + 1 /\ Len(inbox) < InboxSize
        BY <1>4, <3>1 DEF Room
      <4> QED
        BY <1>6, <2>1, <4>1
    <3>2. CASE inbox' = inbox
      BY <1>4, <3>2 DEF TypeOK
    <3> QED
      BY <1>3, <3>1, <3>2
  <2> QED
    BY <1>1, <1>4, <1>6, <1>7, <2>2 DEF TypeOK
<1>9. Authentic'
  <2>1. \A i \in DOMAIN LetIn : Genuine(LetIn[i], client, sent)
    <3>1. \A i \in 1..(Len(inbox) + 1) : i \in DOMAIN inbox \/ i = Len(inbox) + 1
      BY <1>4
    <3> QED
      BY <1>6, <3>1 DEF IInv, Authentic
  <2>2. \A i \in DOMAIN inbox' : Genuine(inbox'[i], client, sent)
    BY <1>5, <1>6, <2>1
  <2>3. Genuine(Nothing, client, sent)
    BY DEF Genuine, Nothing
  <2> QED
    BY <1>1, <2>2, <2>3 DEF IInv, Authentic
<1>10. Fresh' /\ Present'
  BY <1>1, <1>2 DEF IInv, Fresh, Present
<1>11. DataFrom(LetIn', 1) \subseteq DataFrom(LetIn, 1)
  BY <1>5, <1>6 DEF DataFrom
<1>12. Remembered' /\ FirstCopyOnly'
  <2>1. \A i \in DataFrom(LetIn', 1) : LetIn'[i] = LetIn[i] /\ i \in DataFrom(LetIn, 1)
    BY <1>5, <1>6, <1>11 DEF DataFrom
  <2> QED
    BY <1>1, <2>1 DEF IInv, Remembered, FirstCopyOnly
<1>13. InStep' /\ CloseKeepsItsPlace'
  BY <1>1 DEF IInv, InStep, Steady, CloseKeepsItsPlace, Ended, Received, bufferVars
<1>14. Underway'
  <2>1. CASE inbox' = Append(inbox, held)
    <3>1. LetIn' = LetIn
      BY <1>2, <1>5, <2>1
    <3>2. (\A n : Got(n)' <=> Got(n)) /\ (Young' <=> Young)
      BY <1>1, <3>1 DEF Got, Young
    <3> QED
      BY <1>1, <3>1, <3>2 DEF IInv, Underway
  <2>2. CASE closed
    <3>1. ~Young'
      BY <1>1, <1>2, <2>2 DEF IInv, Present, Young
    <3> QED
      BY <3>1 DEF Underway
  <2> QED
    BY <1>3, <2>1, <2>2
<1>15. Unannounced'
  BY <1>1, <1>6 DEF IInv, Unannounced
<1> QED
  BY <1>7, <1>8, <1>9, <1>10, <1>12, <1>13, <1>14, <1>15 DEF IInv

LEMMA GreetInvariant ==
  ASSUME IInv, NEW t \in Tunnels, wire[t] # <<>>, Greet(t) PROVE IInv'
<1>1. PICK m : m = Head(wire[t]) /\ Arrives(t, m) /\ ~registered /\ ~Ignores(m)
  BY DEF Greet
<1>2. /\ dials < MaxDials /\ dials' = dials + 1
      /\ registered' = TRUE /\ closed' = FALSE /\ killed' = FALSE
      /\ phase' = "dialing" /\ inbox' = <<>> /\ feedSeen' = {} /\ forgotten' = {}
      /\ endedBy' = "none" /\ skipped' = FALSE
      /\ UNCHANGED <<held, burying, tomb>>
  BY DEF Greet, tombVars
<1>3. /\ next' = 1 /\ pending' = {} /\ gap' = "none" /\ stream' = "open"
      /\ delivered' = <<>> /\ accepted' = {} /\ refused' = 0
  BY DEF Greet
<1>4. /\ held = Nothing /\ m \in Message /\ m.type = "hello"
      /\ UNCHANGED <<client, sent, closing, used, live, orphans, arriving, batch, greeted, given>>
      /\ wire' \in [Tunnels -> Seq(Message)]
      /\ wire'[t] = Tail(wire[t])
      /\ \A u \in Tunnels \ {t} : wire'[u] = wire[u]
      /\ \A u \in Tunnels : \A i \in DOMAIN wire'[u] :
            Genuine(wire'[u][i], client, sent) /\ wire'[u][i].type # "none"
  BY <1>1, Taken DEF Ignores
<1>5. /\ TypeOK /\ greeted \subseteq Tunnels /\ live \subseteq Tunnels
      /\ dials \in Nat /\ MaxDials \in Nat
  <2>1. TypeOK
    BY DEF IInv
  <2>2. greeted \subseteq Tunnels /\ live \subseteq Tunnels /\ dials \in 0..MaxDials
    BY <2>1 DEF TypeOK
  <2>3. MaxDials \in Nat
    BY MultipathAssumption
  <2> QED
    BY <2>1, <2>2, <2>3
<1>6. dials' \in 0..MaxDials /\ dials' # 0 /\ (dials' = 1 => dials = 0)
  BY <1>2, <1>5
<1>7. LetIn' = <<>>
  BY <1>2, <1>4, <1>6 DEF LetIn, Nothing
<1>8. <<>> \in Seq(Letter) /\ Len(<<>>) = 0 /\ DOMAIN <<>> = {}
      /\ <<>> \in Seq(1..MaxFrame) /\ Range(<<>>) = {} /\ <<>> \in Seq(Nat)
  BY DEF Range
<1>9. Buffer!IInv'
  <2>1. Buffer!Cardinality({}) = 0 /\ Buffer!IsFiniteSet({})
    <3>1. Cardinality({}) = 0 /\ IsFiniteSet({})
      BY FS_EmptySet
    <3> QED
      BY <3>1 DEF Buffer!Cardinality, Cardinality, Buffer!IsFiniteSet, IsFiniteSet
  <2>2. MaxFrame \in Nat /\ Cap \in Nat
    BY BufferAssumptions
  <2>3. Buffer!TypeOK'
    BY <1>3, <1>8, <2>2 DEF Buffer!TypeOK, Buffer!Seqs
  <2>4. Buffer!BacklogBounded'
    BY <1>3, <2>1, <2>2 DEF Buffer!BacklogBounded
  <2>5. Buffer!ExactlyOnce' /\ Buffer!NothingDropped' /\ Buffer!InOrderWhileOpen'
        /\ Buffer!DeliveredBehind'
    BY <1>3, <1>8
    DEF Buffer!ExactlyOnce, Buffer!NothingDropped, Buffer!InOrderWhileOpen,
        Buffer!DeliveredBehind, Buffer!IsInjective, Buffer!Ascending, Buffer!Range
  <2> QED
    BY <1>3, <2>1, <2>3, <2>4, <2>5 DEF Buffer!IInv
<1>10. TypeOK'
  <2>1. Dedup!TypeOK'
    BY <1>9 DEF Buffer!IInv, Buffer!TypeOK, Dedup!TypeOK, Buffer!Seqs, Dedup!Seqs
  <2>2. inbox' \in Seq(Letter) /\ Len(inbox') <= InboxSize
    <3>1. InboxSize \in Nat
      BY MultipathAssumption
    <3> QED
      BY <1>2, <1>8, <3>1
  <2>3. /\ phase' \in {"dialing", "early", "pump", "linger", "leaving", "over"}
        /\ registered' = TRUE /\ closed' \in BOOLEAN /\ killed' \in BOOLEAN
        /\ skipped' \in BOOLEAN /\ endedBy' \in Tunnels \cup {"none"}
        /\ feedSeen' \subseteq Frames /\ forgotten' \subseteq Frames
    BY <1>2
  <2> QED
    BY <1>2, <1>4, <1>5, <1>6, <2>1, <2>2, <2>3 DEF TypeOK
<1>11. Authentic'
  BY <1>2, <1>3, <1>4, <1>8 DEF IInv, Authentic
<1>12. Fresh' /\ Present'
  BY <1>2, <1>3, <1>4, <1>6 DEF Fresh, Present
<1>13. Remembered' /\ FirstCopyOnly'
  <2>1. DataFrom(<<>>, 1) = {}
    BY DEF DataFrom
  <2> QED
    BY <1>2, <1>3, <1>7, <2>1 DEF Remembered, FirstCopyOnly
<1>14. InStep'
  BY <1>3 DEF InStep, Steady, Buffer!Run
<1>15. ASSUME Young' PROVE dials = 0 /\ Young /\ \A n : ~Got(n)
  <2>1. dials = 0
    BY <1>6, <1>15 DEF Young
  <2>2. accepted = {} /\ inbox = <<>> /\ ~killed /\ ~skipped
    BY <2>1 DEF IInv, Fresh
  <2>3. \A i \in DOMAIN LetIn : LetIn[i].type = "none"
    BY <1>4, <2>2 DEF LetIn, Nothing
  <2> QED
    BY <2>1, <2>2, <2>3 DEF Young, Got, Carries
<1>16. Underway'
  <2>1. ASSUME Young', NEW u \in Tunnels, NEW n \in 1..given[u]
        PROVE  /\ u \in live => Carries(wire'[u], n)
               /\ \A p \in DOMAIN wire'[u] : wire'[u][p].type = "close" => Ahead(wire'[u], p, n)
    <3>1. CASE u = t
      BY <1>1, <1>4, <1>15, <2>1, <3>1, Shorter
    <3>2. CASE u # t
      BY <1>4, <1>5, <1>15, <2>1, <3>2 DEF IInv, Underway
    <3> QED
      BY <3>1, <3>2
  <2> QED
    BY <1>2, <1>4, <1>5, <1>7, <1>8, <2>1 DEF Underway
<1>17. CloseKeepsItsPlace'
  BY <1>2 DEF CloseKeepsItsPlace, Ended
<1>18. Unannounced'
  BY <1>1, <1>2, <1>7, QuietReceive
<1> QED
  BY <1>9, <1>10, <1>11, <1>12, <1>13, <1>14, <1>16, <1>17, <1>18 DEF IInv

(* A copy of a frame that has been let in is thrown away.                  *)
LEMMA RepeatedInvariant ==
  ASSUME IInv, NEW t \in Tunnels, wire[t] # <<>>, NEW m, m = Head(wire[t]),
         Arrives(t, m), registered, Repeated(m),
         UNCHANGED <<held, feedSeen, forgotten, sessionVars, phase, inbox, dials, tombVars,
                     fateVars, bufferVars>>
  PROVE  IInv'
<1>1. /\ m.type = "data" /\ m.seq \in feedSeen
      /\ UNCHANGED <<held, inbox, feedSeen, forgotten, dials, burying, tomb, registered, closed,
                     killed, endedBy, skipped, phase, accepted, stream>>
      /\ UNCHANGED bufferVars
  BY DEF Repeated, sessionVars, tombVars, fateVars, bufferVars
<1>2. /\ UNCHANGED <<client, sent, closing, used, live, orphans, arriving, batch, greeted, given>>
      /\ wire' \in [Tunnels -> Seq(Message)]
      /\ wire'[t] = Tail(wire[t])
      /\ \A u \in Tunnels \ {t} : wire'[u] = wire[u]
      /\ \A u \in Tunnels : \A i \in DOMAIN wire'[u] :
            Genuine(wire'[u][i], client, sent) /\ wire'[u][i].type # "none"
  BY Taken
<1>3. TypeOK /\ live \subseteq Tunnels /\ dials # 0
  BY DEF IInv, TypeOK, Fresh
<1>4. Buffer!IInv' /\ Dedup!TypeOK'
  BY <1>1, BufferKept DEF IInv
<1>5. TypeOK'
  <2>1. TypeOK
    BY DEF IInv
  <2>2. /\ orphans \in Seq(Message) /\ batch \in [Tunnels -> Seq(Message)] /\ held \in Letter
        /\ feedSeen \subseteq Frames /\ forgotten \subseteq Frames
        /\ closing \subseteq live /\ live \subseteq used
    BY <2>1 DEF TypeOK
  <2> QED
    BY <1>1, <1>2, <1>4, <2>1, <2>2, TypeKept
<1>6. Authentic'
  BY <1>1, <1>2 DEF IInv, Authentic
<1>7. Fresh' /\ Present'
  BY <1>1, <1>3 DEF IInv, Fresh, Present
<1>8. LetIn' = LetIn /\ (\A n : Got(n)' <=> Got(n)) /\ (Young' <=> Young)
  BY <1>1 DEF LetIn, Got, Young
<1>9. Remembered' /\ FirstCopyOnly'
  BY <1>1, <1>8 DEF IInv, Remembered, FirstCopyOnly
<1>10. InStep' /\ CloseKeepsItsPlace'
  BY <1>1, <1>2 DEF IInv, InStep, Steady, CloseKeepsItsPlace, Ended, Received, bufferVars
<1>11. Underway'
  <2>1. ASSUME Young, NEW u \in Tunnels, NEW n \in 1..given[u]
        PROVE  /\ u \in live => Got(n) \/ Carries(wire'[u], n)
               /\ \A p \in DOMAIN wire'[u] :
                     wire'[u][p].type = "close" => Got(n) \/ Ahead(wire'[u], p, n)
    <3>1. CASE u = t /\ n = m.seq
      <4>1. Got(n)
        BY <1>1, <2>1, <3>1 DEF IInv, Underway
      <4> QED
        BY <4>1
    <3>2. CASE u = t /\ n # m.seq
      BY <1>2, <2>1, <3>2, Shorter
    <3>3. CASE u # t
      BY <1>2, <1>3, <2>1, <3>3 DEF IInv, Underway
    <3> QED
      BY <3>1, <3>2, <3>3
  <2> QED
    BY <1>1, <1>2, <1>3, <1>8, <2>1 DEF IInv, Underway
<1>12. Unannounced'
  BY <1>1, <1>8, QuietReceive
<1> QED
  BY <1>4, <1>5, <1>6, <1>7, <1>9, <1>10, <1>11, <1>12 DEF IInv

(* A first copy, and anything but DATA, is held for the inbox.             *)
LEMMA HeldInvariant ==
  ASSUME IInv, NEW t \in Tunnels, wire[t] # <<>>, NEW m, m = Head(wire[t]),
         Arrives(t, m), registered, ~Repeated(m),
         held' = From(m, t),
         \/ m.type # "data" /\ UNCHANGED <<feedSeen, forgotten>>
         \/ /\ m.type = "data"
            /\ feedSeen' = Noted(m.seq) \ Dropped(m.seq)
            /\ forgotten' = forgotten \cup Dropped(m.seq),
         UNCHANGED <<sessionVars, phase, inbox, dials, tombVars, fateVars, bufferVars>>
  PROVE  IInv'
<1>1. /\ UNCHANGED <<inbox, dials, burying, tomb, registered, closed,
                     killed, endedBy, skipped, phase, accepted, stream>>
      /\ UNCHANGED bufferVars
  BY DEF sessionVars, tombVars, fateVars, bufferVars
<1>2. /\ held = Nothing /\ m \in Message /\ Genuine(m, client, sent) /\ m.type # "none"
      /\ m = wire[t][1]
      /\ UNCHANGED <<client, sent, closing, used, live, orphans, arriving, batch, greeted, given>>
      /\ wire' \in [Tunnels -> Seq(Message)]
      /\ wire'[t] = Tail(wire[t])
      /\ \A u \in Tunnels \ {t} : wire'[u] = wire[u]
      /\ \A u \in Tunnels : \A i \in DOMAIN wire'[u] :
            Genuine(wire'[u][i], client, sent) /\ wire'[u][i].type # "none"
  BY Taken
<1>3. TypeOK /\ live \subseteq Tunnels /\ dials # 0 /\ dials \in 0..MaxDials
  BY DEF IInv, TypeOK, Fresh
<1>4. PICK h \in Letter : /\ h = held' /\ h.type = m.type /\ h.seq = m.seq /\ h.to = dials
                          /\ m.type = "close" => h.src = t
  <2>1. m.type \in Types /\ m.seq \in 0..MaxFrame
    BY <1>2 DEF Message
  <2>2. m.type = "close" => m = Close
    BY <1>2 DEF Message, Close, Genuine
  <2>3. From(m, t) \in Letter
    BY <1>3, <2>1 DEF From, Letter
  <2>4. From(m, t).type = m.type /\ From(m, t).seq = m.seq /\ From(m, t).to = dials
        /\ (m = Close => From(m, t).src = t)
    BY DEF From
  <2> QED
    BY <2>2, <2>3, <2>4
<1>5. LetIn = inbox /\ LetIn' = Append(inbox, h)
  BY <1>1, <1>2, <1>3, <1>4 DEF LetIn, Nothing
<1>6. /\ inbox \in Seq(Letter) /\ Len(inbox) \in Nat /\ DOMAIN inbox = 1..Len(inbox)
      /\ LetIn' \in Seq(Letter) /\ DOMAIN LetIn' = 1..(Len(inbox) + 1)
      /\ \A i \in DOMAIN inbox : LetIn'[i] = LetIn[i]
      /\ LetIn'[Len(inbox) + 1] = h
      /\ Len(LetIn') = Len(inbox) + 1
  BY <1>3, <1>5 DEF TypeOK
<1>7. \A n : Got(n)' <=> Got(n) \/ (m.type = "data" /\ m.seq = n)
  BY <1>1, <1>4, <1>5, <1>6, SendCarries DEF Got
<1>8. /\ m.type = "data" => m.seq \in 1..sent /\ m.seq \notin feedSeen
      /\ feedSeen \cup forgotten \subseteq feedSeen' \cup forgotten'
      /\ forgotten \subseteq forgotten'
      /\ m.type = "data" => m.seq \in feedSeen' \cup forgotten'
      /\ feedSeen' \subseteq feedSeen \cup (IF m.type = "data" THEN {m.seq} ELSE {})
      /\ forgotten' \subseteq forgotten \cup feedSeen \cup (IF m.type = "data" THEN {m.seq} ELSE {})
  BY <1>2 DEF Repeated, Genuine, Noted, Dropped, Stale
<1>9. Buffer!IInv' /\ Dedup!TypeOK'
  BY <1>1, BufferKept DEF IInv
<1>10. TypeOK'
  <2>1. TypeOK
    BY DEF IInv
  <2>2. /\ orphans \in Seq(Message) /\ batch \in [Tunnels -> Seq(Message)] /\ held \in Letter
        /\ feedSeen \subseteq Frames /\ forgotten \subseteq Frames
        /\ closing \subseteq live /\ live \subseteq used
    BY <2>1 DEF TypeOK
  <2>3. 1..sent \subseteq Frames
    BY <2>1, MultipathAssumption DEF TypeOK, Frames
  <2>4. feedSeen' \subseteq Frames /\ forgotten' \subseteq Frames
    BY <1>8, <2>2, <2>3
  <2> QED
    BY <1>1, <1>2, <1>4, <1>9, <2>1, <2>2, <2>4, TypeKept
<1>11. Authentic'
  <2>1. Genuine(h, client, sent)
    BY <1>2, <1>4 DEF Genuine
  <2> QED
    BY <1>1, <1>2, <1>4, <2>1 DEF IInv, Authentic
<1>12. Fresh' /\ Present'
  BY <1>1, <1>3, <1>4 DEF IInv, Fresh, Present
<1>13. ASSUME NEW i \in DataFrom(LetIn', 1)
       PROVE  \/ i \in DataFrom(LetIn, 1) /\ LetIn'[i] = LetIn[i]
              \/ i = Len(inbox) + 1 /\ m.type = "data" /\ LetIn'[i].seq = m.seq
  <2>1. i \in 1..(Len(inbox) + 1) /\ LetIn'[i].type = "data"
    BY <1>6 DEF DataFrom
  <2>2. i \in 1..Len(inbox) \/ i = Len(inbox) + 1
    BY <1>6, <2>1
  <2> QED
    BY <1>4, <1>5, <1>6, <2>1, <2>2 DEF DataFrom
<1>14. Remembered'
  BY <1>1, <1>8, <1>13 DEF IInv, Remembered
<1>15. FirstCopyOnly'
  <2>1. ASSUME NEW i \in DataFrom(LetIn', 1), LetIn'[i].seq \notin forgotten',
               NEW j \in DataFrom(LetIn', 1), LetIn'[i].seq = LetIn'[j].seq
        PROVE  i = j
    BY <1>8, <1>13, <2>1 DEF IInv, Remembered, FirstCopyOnly
  <2>2. ASSUME NEW i \in DataFrom(LetIn', 1), LetIn'[i].seq \notin forgotten'
        PROVE  LetIn'[i].seq \notin accepted
    BY <1>8, <1>13, <2>2 DEF IInv, Remembered, FirstCopyOnly
  <2> QED
    BY <1>1, <2>1, <2>2 DEF FirstCopyOnly
<1>16. InStep' /\ CloseKeepsItsPlace'
  BY <1>1, <1>2 DEF IInv, InStep, Steady, CloseKeepsItsPlace, Ended, Received, bufferVars
<1>17. Underway'
  <2>1. ASSUME Young, NEW u \in Tunnels, NEW n \in 1..given[u]
        PROVE  /\ u \in live => Got(n)' \/ Carries(wire'[u], n)
               /\ \A p \in DOMAIN wire'[u] :
                     wire'[u][p].type = "close" => Got(n)' \/ Ahead(wire'[u], p, n)
    <3>1. CASE u = t /\ m.type = "data" /\ n = m.seq
      BY <1>7, <3>1
    <3>2. CASE u = t /\ ~(m.type = "data" /\ n = m.seq)
      BY <1>2, <1>7, <2>1, <3>2, Shorter
    <3>3. CASE u # t
      BY <1>2, <1>3, <1>7, <2>1, <3>3 DEF IInv, Underway
    <3> QED
      BY <3>1, <3>2, <3>3
  <2>2. ASSUME Young, NEW p \in DOMAIN LetIn', LetIn'[p].type = "close", LetIn'[p].src \in Tunnels,
               NEW n \in 1..given[LetIn'[p].src]
        PROVE  n \in accepted \/ Ahead(LetIn', p, n)
    <3>1. CASE p \in DOMAIN inbox
      <4>1. n \in accepted \/ Ahead(inbox, p, n)
        BY <1>5, <1>6, <2>2, <3>1 DEF IInv, Underway
      <4> QED
        BY <1>5, <1>6, <3>1, <4>1, SendCarries
    <3>2. CASE p = Len(inbox) + 1
      <4>1. LetIn'[p].src = t /\ n \in 1..given[t] /\ wire[t][1].type = "close"
        BY <1>2, <1>4, <1>6, <2>2, <3>2
      <4>2. PICK q \in Seq(Message) : q = wire[t] /\ 1 \in DOMAIN q
        BY <1>3 DEF TypeOK
      <4>3. Got(n) \/ Ahead(q, 1, n)
        BY <2>2, <4>1, <4>2 DEF IInv, Underway
      <4>4. ~Ahead(q, 1, n)
        BY <4>2 DEF Ahead
      <4>5. n \in accepted \/ Carries(inbox, n)
        BY <1>5, <4>3, <4>4 DEF Got
      <4> QED
        BY <1>5, <1>6, <3>2, <4>5, SendCarries
    <3> QED
      BY <1>6, <2>2, <3>1, <3>2
  <2>3. ASSUME Young, NEW n \in feedSeen' PROVE Got(n)'
    BY <1>7, <1>8, <2>3 DEF IInv, Underway
  <2>4. Young' <=> Young
    BY <1>1 DEF Young
  <2> QED
    BY <1>1, <1>2, <1>3, <2>1, <2>2, <2>3, <2>4 DEF Underway
<1>18. Unannounced'
  <2>1. ASSUME NEW i \in DOMAIN LetIn', LetIn'[i].type = "close"
        PROVE  \/ LetIn'[i].src = t /\ m.type = "close"
               \/ \E j \in DOMAIN LetIn : LetIn[j].type = "close" /\ LetIn[j].src = LetIn'[i].src
    <3>1. i \in DOMAIN inbox \/ i = Len(inbox) + 1
      BY <1>6
    <3> QED
      BY <1>4, <1>5, <1>6, <2>1, <3>1
  <2> QED
    BY <1>1, <2>1, QuietReceive
<1> QED
  BY <1>9, <1>10, <1>11, <1>12, <1>14, <1>15, <1>16, <1>17, <1>18 DEF IInv

LEMMA LookupInvariant ==
  ASSUME IInv, NEW t \in Tunnels, wire[t] # <<>>, Lookup(t) PROVE IInv'
<1>1. PICK m : /\ m = Head(wire[t]) /\ Arrives(t, m) /\ registered
               /\ IF Repeated(m) THEN UNCHANGED <<held, feedSeen, forgotten>>
                  ELSE /\ held' = From(m, t)
                       /\ IF m.type # "data" THEN UNCHANGED <<feedSeen, forgotten>>
                          ELSE /\ feedSeen' = Noted(m.seq) \ Dropped(m.seq)
                               /\ forgotten' = forgotten \cup Dropped(m.seq)
               /\ UNCHANGED <<sessionVars, phase, inbox, dials, tombVars, fateVars, bufferVars>>
  BY DEF Lookup
<1>2. CASE Repeated(m)
  <2>1. UNCHANGED <<held, feedSeen, forgotten, sessionVars, phase, inbox, dials, tombVars,
                    fateVars, bufferVars>>
    BY <1>1, <1>2
  <2> QED
    BY <1>1, <1>2, <2>1, RepeatedInvariant
<1>3. CASE ~Repeated(m)
  BY <1>1, <1>3, HeldInvariant
<1> QED
  BY <1>2, <1>3
-----------------------------------------------------------------------------
(* The handler takes what is first in the inbox.                           *)

(* What was let in moves up by one.                                        *)
LEMMA MovesUp ==
  ASSUME TypeOK, inbox # <<>>, inbox' = Tail(inbox), UNCHANGED <<held, dials>>
  PROVE  /\ LetIn \in Seq(Letter) /\ LetIn # <<>> /\ Head(LetIn) = Head(inbox)
         /\ 1 \in DOMAIN LetIn /\ LetIn[1] = Head(inbox)
         /\ LetIn' = Tail(LetIn)
<1>1. PICK q \in Seq(Letter), h \in Letter : q = inbox /\ h = held
  BY DEF TypeOK
<1>2. /\ Len(q) \in Nat /\ q # <<>> /\ Tail(q) \in Seq(Letter) /\ Len(Tail(q)) = Len(q) - 1
      /\ \A i \in 1..(Len(q) - 1) : Tail(q)[i] = q[i + 1]
      /\ Len(q) >= 1 /\ Head(q) = q[1]
  BY <1>1
<1>3. PICK a \in Seq(Letter) : /\ a = Append(q, h) /\ Len(a) = Len(q) + 1
                               /\ \A i \in 1..Len(q) : a[i] = q[i]
                               /\ a[Len(q) + 1] = h
  <2>1. /\ Append(q, h) \in Seq(Letter) /\ Len(Append(q, h)) = Len(q) + 1
        /\ \A i \in 1..Len(q) : Append(q, h)[i] = q[i]
        /\ Append(q, h)[Len(q) + 1] = h
    OBVIOUS
  <2> QED
    BY <2>1
<1>4. PICK b \in Seq(Letter) : /\ b = Append(Tail(q), h) /\ Len(b) = Len(q)
                               /\ \A i \in 1..(Len(q) - 1) : b[i] = Tail(q)[i]
                               /\ b[Len(q)] = h
  <2>1. /\ Append(Tail(q), h) \in Seq(Letter) /\ Len(Append(Tail(q), h)) = Len(Tail(q)) + 1
        /\ \A i \in 1..Len(Tail(q)) : Append(Tail(q), h)[i] = Tail(q)[i]
        /\ Append(Tail(q), h)[Len(Tail(q)) + 1] = h
    BY <1>2
  <2>2. Len(Tail(q)) + 1 = Len(q)
    BY <1>2
  <2> QED
    BY <1>2, <2>1, <2>2
<1>5. a # <<>> /\ Head(a) = q[1] /\ Tail(a) \in Seq(Letter) /\ Len(Tail(a)) = Len(q)
      /\ \A i \in 1..Len(q) : Tail(a)[i] = a[i + 1]
  BY <1>2, <1>3
<1>6. ASSUME NEW i \in 1..Len(q) PROVE Tail(a)[i] = b[i]
  <2>1. CASE i = Len(q)
    BY <1>3, <1>4, <1>5, <2>1
  <2>2. CASE i # Len(q)
    <3>1. PICK k \in Nat : k = Len(q)
      BY <1>2
    <3>2. i \in 1..(k - 1) /\ i + 1 \in 1..k
      BY <2>2, <3>1
    <3> QED
      BY <1>2, <1>3, <1>4, <1>5, <3>1, <3>2
  <2> QED
    BY <2>1, <2>2
<1>7. Tail(a) = b
  BY <1>4, <1>5, <1>6, SeqEqual
<1>8. CASE held.to = dials
  <2>1. LetIn = a /\ LetIn' = b
    BY <1>1, <1>3, <1>4, <1>8 DEF LetIn
  <2> QED
    BY <1>1, <1>2, <1>3, <1>5, <1>7, <2>1
<1>9. CASE held.to # dials
  <2>1. LetIn = q /\ LetIn' = Tail(q)
    BY <1>1, <1>9 DEF LetIn
  <2> QED
    BY <1>1, <1>2, <2>1
<1> QED
  BY <1>8, <1>9

(* What every step that takes a frame leaves alone, and what it finds.     *)
LEMMA TakesFirst ==
  ASSUME IInv, phase \in {"early", "pump", "linger"}, Takes, NEW p, Goto(p)
  PROVE  /\ UNCHANGED <<client, sent, closing, used, live, wire, orphans, arriving, batch,
                        greeted, given, held, feedSeen, forgotten,
                        dials, burying, tomb, registered, closed, killed>>
         /\ phase' = p /\ stream = "open" /\ endedBy = "none" /\ dials # 0 /\ registered
         /\ Head(inbox) \in Letter /\ Genuine(Head(inbox), client, sent)
         /\ inbox' \in Seq(Letter) /\ Len(inbox') <= InboxSize
         /\ \A i \in DOMAIN inbox' : Genuine(inbox'[i], client, sent)
         /\ \A i \in DataFrom(LetIn', 1) :
               i + 1 \in DataFrom(LetIn, 1) /\ LetIn'[i] = LetIn[i + 1] /\ i + 1 # 1
         /\ \A i \in DOMAIN LetIn' : \E j \in DOMAIN LetIn : LetIn'[i] = LetIn[j]
<1>1. /\ UNCHANGED <<client, sent, closing, used, live, wire, orphans, arriving, batch, greeted,
                     given, held, feedSeen, forgotten,
                     dials, burying, tomb, registered, closed, killed>>
      /\ phase' = p /\ inbox # <<>> /\ inbox' = Tail(inbox)
  BY DEF Takes, Goto, clientVars, tunnelVars, pathVars, orphanVars, givenVars, tombVars, sessionVars
<1>2. TypeOK /\ stream = "open" /\ endedBy = "none" /\ dials # 0 /\ registered
  BY DEF IInv, Present, Fresh, TypeOK
<1>3. PICK q \in Seq(Letter) : q = inbox
  BY <1>2 DEF TypeOK
<1>4. /\ q # <<>> /\ Len(q) \in Nat \ {0} /\ Head(q) = q[1] /\ Head(q) \in Letter
      /\ Tail(q) \in Seq(Letter) /\ Len(Tail(q)) = Len(q) - 1
      /\ DOMAIN q = 1..Len(q) /\ 1 \in DOMAIN q
      /\ \A i \in DOMAIN Tail(q) : i + 1 \in DOMAIN q /\ Tail(q)[i] = q[i + 1]
  BY <1>1, <1>3
<1>5. \A i \in DOMAIN q : Genuine(q[i], client, sent)
  BY <1>3 DEF IInv, Authentic
<1>6. Len(inbox') <= InboxSize
  <2>1. InboxSize \in Nat
    BY MultipathAssumption
  <2>2. Len(q) <= InboxSize
    BY <1>2, <1>3 DEF TypeOK
  <2> QED
    BY <1>1, <1>3, <1>4, <2>1, <2>2
<1>7. PICK l \in Seq(Letter) : l = LetIn /\ l # <<>> /\ LetIn' = Tail(l)
  BY <1>1, <1>2, MovesUp
<1>8. ASSUME NEW i \in DataFrom(Tail(l), 1)
      PROVE  i + 1 \in DataFrom(l, 1) /\ Tail(l)[i] = l[i + 1] /\ i + 1 # 1
  <2>1. /\ Len(l) \in Nat \ {0} /\ Len(Tail(l)) = Len(l) - 1
        /\ \A j \in 1..(Len(l) - 1) : Tail(l)[j] = l[j + 1]
    BY <1>7
  <2>2. i \in 1..(Len(l) - 1) /\ Tail(l)[i].type = "data"
    BY <2>1 DEF DataFrom
  <2>3. i + 1 \in 1..Len(l) /\ i + 1 # 1
    BY <2>1, <2>2
  <2> QED
    BY <2>1, <2>2, <2>3 DEF DataFrom
<1>9. ASSUME NEW i \in DOMAIN Tail(l) PROVE \E j \in DOMAIN l : Tail(l)[i] = l[j]
  BY <1>7, ReceiveCarries
<1> QED
  BY <1>1, <1>2, <1>3, <1>4, <1>5, <1>6, <1>7, <1>8, <1>9

(* A HELLO of another tunnel is passed over.                               *)
LEMMA HelloInvariant == IInv /\ TakeHello => IInv'
<1> SUFFICES ASSUME IInv, TakeHello PROVE IInv'
  OBVIOUS
<1>1. /\ phase \in {"early", "pump", "linger"} /\ Takes /\ Goto(phase)
      /\ Head(inbox).type = "hello"
      /\ UNCHANGED <<endedBy, skipped, accepted>> /\ UNCHANGED bufferVars
  BY DEF TakeHello, fateVars, bufferVars
<1>2. /\ UNCHANGED <<client, sent, closing, used, live, wire, orphans, arriving, batch, greeted,
                     given, held, feedSeen, forgotten,
                     dials, burying, tomb, registered, closed, killed, phase>>
      /\ dials # 0
      /\ inbox' \in Seq(Letter) /\ Len(inbox') <= InboxSize
      /\ \A i \in DOMAIN inbox' : Genuine(inbox'[i], client, sent)
      /\ \A i \in DataFrom(LetIn', 1) :
            i + 1 \in DataFrom(LetIn, 1) /\ LetIn'[i] = LetIn[i + 1]
      /\ \A i \in DOMAIN LetIn' : \E j \in DOMAIN LetIn : LetIn'[i] = LetIn[j]
  BY <1>1, TakesFirst
<1>3. PICK l \in Seq(Letter) : l = LetIn /\ l # <<>> /\ LetIn' = Tail(l) /\ Head(l).type = "hello"
  <2>1. TypeOK /\ inbox # <<>> /\ inbox' = Tail(inbox)
    BY <1>1 DEF IInv, Takes
  <2> QED
    BY <1>1, <1>2, <2>1, MovesUp
<1>4. Buffer!IInv' /\ Dedup!TypeOK'
  BY <1>1, BufferKept DEF IInv
<1>5. TypeOK'
  BY <1>1, <1>2, <1>4 DEF IInv, TypeOK
<1>6. Authentic'
  BY <1>1, <1>2 DEF IInv, Authentic
<1>7. Fresh' /\ Present'
  BY <1>1, <1>2 DEF IInv, Fresh, Present, bufferVars
<1>8. Remembered' /\ FirstCopyOnly'
  <2>1. \A i, j \in DataFrom(LetIn', 1) : i + 1 = j + 1 => i = j
    BY DEF DataFrom
  <2> QED
    BY <1>1, <1>2, <2>1 DEF IInv, Remembered, FirstCopyOnly
<1>9. InStep' /\ CloseKeepsItsPlace'
  BY <1>1, <1>2 DEF IInv, InStep, Steady, CloseKeepsItsPlace, Ended, Received, bufferVars
<1>10. \A n : Got(n) => Got(n)'
  BY <1>1, <1>3, ReceiveCarries DEF Got
<1>11. Underway'
  <2>1. Young' => Young
    BY <1>1, <1>2 DEF Young
  <2>2. ASSUME Young, NEW p \in DOMAIN LetIn', LetIn'[p].type = "close", LetIn'[p].src \in Tunnels,
               NEW n \in 1..given[LetIn'[p].src]
        PROVE  n \in accepted \/ Ahead(LetIn', p, n)
    <3>1. /\ p + 1 \in DOMAIN l /\ LetIn'[p] = l[p + 1]
          /\ Ahead(l, p + 1, n) => Ahead(LetIn', p, n)
      BY <1>3, <2>2, ReceiveCarries
    <3> QED
      BY <1>3, <2>2, <3>1 DEF IInv, Underway
  <2> QED
    BY <1>1, <1>2, <1>10, <2>1, <2>2 DEF IInv, Underway
<1>12. Unannounced'
  BY <1>1, <1>2 DEF IInv, Unannounced
<1> QED
  BY <1>4, <1>5, <1>6, <1>7, <1>8, <1>9, <1>11, <1>12 DEF IInv

(* When a CLOSE is taken, all its tunnel was given before is out.          *)
LEMMA CloseIsLast ==
  ASSUME IInv, phase \in {"early", "pump", "linger"}, Takes, UNCHANGED <<held, dials>>,
         NEW t \in Tunnels, Head(inbox).type = "close", Head(inbox).src = t,
         ~killed, ~skipped, dials = 1
  PROVE  Received(given[t])
<1>1. TypeOK /\ Buffer!IInv /\ stream = "open" /\ Young /\ inbox # <<>> /\ inbox' = Tail(inbox)
  BY DEF IInv, Present, Young, Takes
<1>2. PICK l \in Seq(Letter) : l = LetIn /\ 1 \in DOMAIN l /\ l[1] = Head(inbox)
  BY <1>1, MovesUp
<1>3. \A n \in 1..given[t] : n \in accepted \/ Ahead(l, 1, n)
  BY <1>1, <1>2 DEF IInv, Underway
<1>4. \A n : ~Ahead(l, 1, n)
  BY <1>2 DEF Ahead
<1>5. given[t] \in Nat
  <2>1. given[t] \in 0..MaxFrame
    BY <1>1 DEF TypeOK
  <2> QED
    BY <2>1, MultipathAssumption
<1>6. Steady
  BY <1>1 DEF IInv, InStep
<1>7. 1..given[t] \subseteq accepted
  BY <1>3, <1>4
<1> QED
  BY <1>1, <1>5, <1>6, <1>7, FirstAreOut

(* A CLOSE ends the session, whatever is then flushed.                     *)
LEMMA CloseInvariant == IInv /\ (EarlyClose \/ PumpClose) => IInv'
<1> SUFFICES ASSUME IInv, EarlyClose \/ PumpClose PROVE IInv'
  OBVIOUS
<1>1. /\ phase \in {"early", "pump", "linger"} /\ Takes /\ Goto("leaving")
      /\ Head(inbox).type = "close" /\ endedBy' = Head(inbox).src /\ skipped' = skipped
      /\ UNCHANGED bufferVars \/ Dedup!Flush
      /\ accepted' = accepted
  BY DEF EarlyClose, PumpClose, Dedup!Flush, bufferVars
<1>2. /\ UNCHANGED <<client, sent, closing, used, live, wire, orphans, arriving, batch, greeted,
                     given, held, feedSeen, forgotten,
                     dials, burying, tomb, registered, closed, killed>>
      /\ phase' = "leaving" /\ dials # 0 /\ registered
      /\ Head(inbox) \in Letter /\ Genuine(Head(inbox), client, sent)
      /\ inbox' \in Seq(Letter) /\ Len(inbox') <= InboxSize
      /\ \A i \in DOMAIN inbox' : Genuine(inbox'[i], client, sent)
      /\ \A i \in DataFrom(LetIn', 1) :
            i + 1 \in DataFrom(LetIn, 1) /\ LetIn'[i] = LetIn[i + 1]
      /\ \A i \in DOMAIN LetIn' : \E j \in DOMAIN LetIn : LetIn'[i] = LetIn[j]
  BY <1>1, TakesFirst
<1>3. Buffer!IInv' /\ Dedup!TypeOK'
  BY <1>1, BufferKept DEF IInv
<1>4. TypeOK'
  <2>1. endedBy' \in Tunnels \cup {"none"}
    BY <1>1, <1>2 DEF Letter
  <2>2. /\ phase' \in {"dialing", "early", "pump", "linger", "leaving", "over"}
        /\ skipped' \in BOOLEAN
    BY <1>1, <1>2 DEF IInv, TypeOK
  <2>3. TypeOK
    BY DEF IInv
  <2> QED
    BY <1>2, <1>3, <2>1, <2>2, <2>3 DEF TypeOK
<1>5. Authentic'
  BY <1>1, <1>2 DEF IInv, Authentic, Genuine
<1>6. Fresh' /\ Present'
  BY <1>1, <1>2 DEF IInv, Fresh, Present
<1>7. Remembered' /\ FirstCopyOnly'
  <2>1. \A i, j \in DataFrom(LetIn', 1) : i + 1 = j + 1 => i = j
    BY DEF DataFrom
  <2> QED
    BY <1>1, <1>2, <2>1 DEF IInv, Remembered, FirstCopyOnly
<1>8. InStep'
  <2>1. CASE UNCHANGED bufferVars
    BY <1>1, <2>1 DEF IInv, InStep, Steady, bufferVars
  <2>2. CASE Dedup!Flush
    BY <2>2 DEF InStep, Dedup!Flush
  <2> QED
    BY <1>1, <2>1, <2>2
<1>9. Underway'
  BY <1>2 DEF Underway, Young
<1>10. CloseKeepsItsPlace'
  <2>1. PICK t, k : t = Head(inbox).src /\ k = given[t]
    OBVIOUS
  <2>2. SUFFICES ASSUME ~killed, ~skipped, dials = 1, t \in Tunnels
                 PROVE  \A n \in 1..k : n <= Len(delivered') /\ delivered'[n] = n
    <3>1. t # "none" => t \in Tunnels
      BY <1>2, <2>1 DEF Letter
    <3>2. endedBy' = t /\ given'[endedBy'] = k
      BY <1>1, <1>2, <2>1
    <3> QED
      BY <1>1, <1>2, <3>1, <3>2 DEF CloseKeepsItsPlace, Ended, Received
  <2>3. Received(k)
    BY <1>1, <1>2, <2>1, <2>2, CloseIsLast
  <2>4. Len(delivered) <= Len(delivered') /\ \A i \in 1..Len(delivered) : delivered'[i] = delivered[i]
    <3>1. delivered \in Seq(Nat)
      BY BufferAssumptions, Buffer!DeliveredNat DEF IInv
    <3>2. CASE UNCHANGED bufferVars
      BY <3>1, <3>2 DEF bufferVars
    <3>3. CASE Dedup!Flush
      <4>1. PICK e \in Seq(Nat) : delivered' = delivered \o e
        BY <3>3, FlushIsCall, BufferAssumptions, Buffer!FlushAppends DEF IInv
      <4> QED
        BY <3>1, <4>1, AppendParts
    <3> QED
      BY <1>1, <3>2, <3>3
  <2>5. \A n \in 1..k : n \in 1..Len(delivered) /\ delivered[n] = n
    <3>1. Len(delivered) \in Nat /\ k \in Nat
      BY BufferAssumptions, Buffer!DeliveredNat, <2>1, <2>2, MultipathAssumption DEF IInv, TypeOK
    <3> QED
      BY <2>3, <3>1 DEF Received
  <2>6. \A n \in 1..k : n <= Len(delivered') /\ delivered'[n] = n
    <3>1. Len(delivered) \in Nat /\ Len(delivered') \in Nat
      BY <1>3, BufferAssumptions, Buffer!DeliveredNat DEF IInv, Buffer!IInv, Buffer!TypeOK
    <3> QED
      BY <2>4, <2>5, <3>1
  <2> QED
    BY <2>6
<1>11. Unannounced'
  <2>1. \A u \in closing : Head(inbox).src # u
    <3>1. Head(inbox) = LetIn[1] /\ 1 \in DOMAIN LetIn
      <4>1. TypeOK /\ inbox # <<>> /\ inbox' = Tail(inbox)
        BY <1>1 DEF IInv, Takes
      <4> QED
        BY <1>2, <4>1, MovesUp
    <3> QED
      BY <1>1, <3>1 DEF IInv, Unannounced
  <2> QED
    BY <1>1, <1>2, <2>1 DEF IInv, Unannounced
<1> QED
  BY <1>3, <1>4, <1>5, <1>6, <1>7, <1>8, <1>9, <1>10, <1>11 DEF IInv

(* A first copy is handed to the buffer; the write of what comes out may   *)
(* fail and end the session.                                               *)
LEMMA DataInvariant == IInv /\ TakeData => IInv'
<1> SUFFICES ASSUME IInv, TakeData PROVE IInv'
  OBVIOUS
<1>1. PICK p : /\ phase \in {"early", "pump", "linger"} /\ Takes /\ Goto(p)
               /\ p = "leaving" \/ (p = phase /\ ~Breaks)
  BY DEF TakeData
<1>2. PICK s : s = Head(inbox).seq
  OBVIOUS
<1>3. /\ Head(inbox).type = "data" /\ Dedup!Push(s) /\ endedBy' = endedBy
      /\ skipped' = (skipped \/ ~(next..(next' - 1) \subseteq Range(delivered')))
  BY <1>2 DEF TakeData
<1>4. /\ UNCHANGED <<client, sent, closing, used, live, wire, orphans, arriving, batch, greeted,
                     given, held, feedSeen, forgotten,
                     dials, burying, tomb, registered, closed, killed>>
      /\ phase' = p /\ endedBy = "none" /\ dials # 0 /\ registered
      /\ Genuine(Head(inbox), client, sent)
      /\ inbox' \in Seq(Letter) /\ Len(inbox') <= InboxSize
      /\ \A i \in DOMAIN inbox' : Genuine(inbox'[i], client, sent)
      /\ \A i \in DataFrom(LetIn', 1) :
            i + 1 \in DataFrom(LetIn, 1) /\ LetIn'[i] = LetIn[i + 1] /\ i + 1 # 1
      /\ \A i \in DOMAIN LetIn' : \E j \in DOMAIN LetIn : LetIn'[i] = LetIn[j]
  BY <1>1, TakesFirst
<1>5. TypeOK /\ Buffer!IInv /\ inbox # <<>> /\ inbox' = Tail(inbox)
  BY <1>1 DEF IInv, Takes
<1>6. s \in 1..sent /\ s \in Frames
  <2>1. s \in 1..sent
    BY <1>2, <1>3, <1>4 DEF Genuine
  <2>2. sent \in 0..MaxFrame /\ MaxFrame \in Nat
    BY <1>5, MultipathAssumption DEF TypeOK
  <2> QED
    BY <2>1, <2>2 DEF Frames
<1>7. Buffer!IInv' /\ Dedup!TypeOK'
  BY <1>3, <1>5, <1>6, BufferKept
<1>8. /\ stream = "open" /\ stream' \in {"open", "broken"}
      /\ accepted' = accepted \/ accepted' = accepted \cup {s}
      /\ Steady /\ stream' = "open" /\ ~skipped' => Steady' /\ s \in accepted'
  <2>1. Buffer!Push(s)
    BY <1>3, <1>6, PushIsCall
  <2>2. ~skipped' => next..(next' - 1) \subseteq Range(delivered')
    BY <1>3
  <2> QED
    BY <1>5, <1>6, <2>1, <2>2, PushContract
<1>9. p \in {"early", "pump", "linger", "leaving"} /\ (p # "leaving" => stream' = "open")
  BY <1>1, <1>8 DEF Breaks
<1>10. PICK l \in Seq(Letter) : /\ l = LetIn /\ l # <<>> /\ LetIn' = Tail(l)
                                /\ Head(l).type = "data" /\ Head(l).seq = s
                                /\ 1 \in DOMAIN l /\ l[1] = Head(l)
  BY <1>2, <1>3, <1>4, <1>5, MovesUp
<1>11. 1 \in DataFrom(LetIn, 1) /\ LetIn[1].seq = s
  BY <1>10 DEF DataFrom
<1>12. TypeOK'
  <2>1. /\ phase' \in {"dialing", "early", "pump", "linger", "leaving", "over"}
        /\ skipped' \in BOOLEAN
    BY <1>3, <1>4, <1>9
  <2> QED
    BY <1>3, <1>4, <1>5, <1>7, <2>1 DEF TypeOK
<1>13. Authentic'
  BY <1>3, <1>4, <1>6, <1>8 DEF IInv, Authentic
<1>14. Fresh' /\ Present'
  BY <1>1, <1>3, <1>4, <1>9 DEF IInv, Fresh, Present
<1>15. Remembered'
  BY <1>4, <1>8, <1>11 DEF IInv, Remembered
<1>16. FirstCopyOnly'
  <2>1. ASSUME NEW i \in DataFrom(LetIn', 1), LetIn'[i].seq \notin forgotten
        PROVE  LetIn'[i].seq \notin accepted'
    <3>1. LetIn'[i].seq \notin accepted
      BY <1>4, <2>1 DEF IInv, FirstCopyOnly
    <3>2. LetIn'[i].seq # s
      BY <1>4, <1>11, <2>1 DEF IInv, FirstCopyOnly
    <3> QED
      BY <1>8, <3>1, <3>2
  <2>2. \A i, j \in DataFrom(LetIn', 1) : i + 1 = j + 1 => i = j
    BY DEF DataFrom
  <2>3. ASSUME NEW i \in DataFrom(LetIn', 1), LetIn'[i].seq \notin forgotten,
               NEW j \in DataFrom(LetIn', 1), LetIn'[i].seq = LetIn'[j].seq
        PROVE  i = j
    BY <1>4, <2>2, <2>3 DEF IInv, FirstCopyOnly
  <2> QED
    BY <1>4, <2>1, <2>3 DEF FirstCopyOnly
<1>17. InStep'
  BY <1>3, <1>8 DEF IInv, InStep
<1>18. CloseKeepsItsPlace'
  BY <1>3, <1>4 DEF CloseKeepsItsPlace, Ended
<1>19. ASSUME Young' PROVE Young /\ s \in accepted'
  <2>1. Young
    BY <1>1, <1>3, <1>4, <1>19 DEF Young
  <2>2. stream' = "open" /\ ~skipped' /\ ~skipped
    BY <1>3, <1>4, <1>9, <1>19 DEF Young
  <2>3. Steady
    BY <1>8, <2>2 DEF IInv, InStep
  <2> QED
    BY <1>8, <2>1, <2>2, <2>3
<1>20. ASSUME Young', NEW n, Got(n) PROVE Got(n)'
  <2>1. CASE n = s
    BY <1>19, <1>20, <2>1 DEF Got
  <2>2. CASE n # s
    BY <1>8, <1>10, <1>20, <2>2, ReceiveCarries DEF Got
  <2> QED
    BY <2>1, <2>2
<1>21. ASSUME Young', NEW q \in DOMAIN LetIn', LetIn'[q].type = "close", LetIn'[q].src \in Tunnels,
              NEW n \in 1..given[LetIn'[q].src]
       PROVE  n \in accepted' \/ Ahead(LetIn', q, n)
  <2>1. /\ q + 1 \in DOMAIN l /\ LetIn'[q] = l[q + 1]
        /\ Ahead(l, q + 1, n) => Ahead(LetIn', q, n) \/ n = s
    BY <1>10, <1>21, ReceiveCarries
  <2>2. n \in accepted \/ Ahead(l, q + 1, n)
    BY <1>10, <1>19, <1>21, <2>1 DEF IInv, Underway
  <2> QED
    BY <1>8, <1>19, <1>21, <2>1, <2>2
<1>22. Underway'
  BY <1>4, <1>19, <1>20, <1>21 DEF IInv, Underway
<1>23. Unannounced'
  BY <1>3, <1>4 DEF IInv, Unannounced
<1> QED
  BY <1>7, <1>12, <1>13, <1>14, <1>15, <1>16, <1>17, <1>18, <1>22, <1>23 DEF IInv
-----------------------------------------------------------------------------
(* The theorems.                                                           *)

(* Nothing has happened yet.                                               *)
LEMMA InitInvariant == Init => IInv
<1> SUFFICES ASSUME Init PROVE IInv
  OBVIOUS
<1>1. Buffer!IInv
  BY BufferAtStart DEF Init
<1>2. Dedup!TypeOK
  BY <1>1 DEF Buffer!IInv, Buffer!TypeOK, Dedup!TypeOK, Buffer!Seqs, Dedup!Seqs
<1>3. /\ <<>> \in Seq(Message) /\ <<>> \in Seq(Letter) /\ Len(<<>>) = 0 /\ DOMAIN <<>> = {}
      /\ Nothing \in Letter /\ Nothing.type = "none" /\ Nothing.to = 0
  <2>1. 0 \in 0..MaxFrame /\ 0 \in 0..MaxDials
    BY MultipathAssumption
  <2> QED
    BY <2>1 DEF Nothing, Letter, Types
<1>4. TypeOK
  <2>1. 0 \in 0..MaxFrame /\ 0 \in 0..MaxDials /\ 0 <= InboxSize
    BY MultipathAssumption
  <2> QED
    BY <1>2, <1>3, <2>1, MultipathAssumption DEF Init, TypeOK
<1>5. Authentic /\ Fresh /\ Present
  BY <1>3 DEF Init, Authentic, Fresh, Present, Genuine
<1>6. LetIn = Append(<<>>, Nothing)
  BY <1>3 DEF Init, LetIn
<1>7. DOMAIN LetIn = {1} /\ LetIn[1] = Nothing
  BY <1>6
<1>8. DataFrom(LetIn, 1) = {} /\ \A n : ~Carries(LetIn, n)
  BY <1>3, <1>6, <1>7 DEF DataFrom, Carries
<1>9. Remembered /\ FirstCopyOnly
  BY <1>8 DEF Init, Remembered, FirstCopyOnly
<1>10. InStep
  BY DEF Init, InStep, Steady, Buffer!Run
<1>11. Underway
  <2>1. \A t \in Tunnels : 1..given[t] = {}
    BY DEF Init
  <2> QED
    BY <1>3, <1>7, <2>1, MultipathAssumption DEF Init, Underway
<1>12. CloseKeepsItsPlace
  BY DEF Init, CloseKeepsItsPlace, Ended
<1>13. Unannounced
  BY DEF Init, Unannounced
<1> QED
  BY <1>1, <1>4, <1>5, <1>9, <1>10, <1>11, <1>12, <1>13 DEF IInv

(* Every step keeps the invariant.                                         *)
LEMMA NextInvariant == IInv /\ [Next]_vars => IInv'
<1> SUFFICES ASSUME IInv, [Next]_vars PROVE IInv'
  OBVIOUS
<1>1. CASE Open
  BY <1>1, OpenInvariant
<1>2. CASE Send
  BY <1>2, SendInvariant
<1>3. CASE HangUp
  BY <1>3, HangUpInvariant
<1>4. ASSUME NEW t \in Tunnels, TunnelUp(t) \/ TakeOrphans(t) \/ PutBack(t) PROVE IInv'
  BY <1>4, UpInvariant
<1>5. ASSUME NEW t \in Tunnels, Die(t) PROVE IInv'
  BY <1>5, DieInvariant
<1>6. ASSUME NEW t \in Tunnels, wire[t] # <<>>, Lookup(t) PROVE IInv'
  BY <1>6, LookupInvariant
<1>7. ASSUME NEW t \in Tunnels, wire[t] # <<>>, DropUnknown(t) PROVE IInv'
  BY <1>7, DropInvariant
<1>8. ASSUME NEW t \in Tunnels, wire[t] # <<>>, Greet(t) PROVE IInv'
  BY <1>8, GreetInvariant
<1>9. CASE Feed
  BY <1>9, FeedInvariant
<1>10. CASE Kill
  BY <1>10, KillInvariant
<1>11. CASE Dialled
  BY <1>11, PhaseMoves DEF Dialled
<1>12. CASE DialFails
  BY <1>12, PhaseMoves DEF DialFails
<1>13. CASE Acked
  BY <1>13, PhaseMoves DEF Acked
<1>14. CASE AckFails
  BY <1>14, PhaseMoves DEF AckFails
<1>15. CASE EarlyClose \/ PumpClose
  BY <1>15, CloseInvariant
<1>16. CASE TakeData
  BY <1>16, DataInvariant
<1>17. CASE TakeHello
  BY <1>17, HelloInvariant
<1>18. CASE PumpDone
  BY <1>18, PhaseMoves DEF PumpDone
<1>19. CASE DestDone
  BY <1>19, PhaseMoves DEF DestDone
<1>20. CASE LingerOver
  BY <1>20, PhaseMoves DEF LingerOver
<1>21. CASE IdleTimeout
  BY <1>21, PhaseMoves DEF IdleTimeout
<1>22. CASE Leave
  BY <1>22, LeaveInvariant
<1>23. CASE Bury \/ TombExpires
  BY <1>23, TombInvariant
<1>24. CASE GapElapses
  BY <1>24, GapInvariant
<1>25. CASE UNCHANGED vars
  <2>1. UNCHANGED <<client, sent, closing, used, live, wire, orphans, arriving, batch, greeted,
                    given, held, inbox, feedSeen,
                    forgotten, dials, endedBy, skipped, registered, closed, killed, burying, tomb,
                    phase, accepted, stream>>
    BY <1>25 DEF vars, clientVars, tunnelVars, pathVars, orphanVars, givenVars, serverVars,
                 sessionVars, inboxVars, tombVars, fateVars, bufferVars
  <2>2. UNCHANGED <<clientVars, tunnelVars, pathVars, inboxVars, dials, fateVars, bufferVars>>
    BY <1>25 DEF vars, serverVars
  <2>3. TypeOK'
    <3>1. TypeOK /\ Dedup!TypeOK'
      BY <2>2, BufferKept DEF IInv
    <3> QED
      BY <2>1, <3>1 DEF TypeOK
  <2>4. Fresh' /\ Present'
    BY <2>1 DEF IInv, Fresh, Present
  <2>5. (Young' => Young) /\ (Ended' => Ended)
    BY <2>1 DEF Young, Ended
  <2> QED
    BY <2>1, <2>2, <2>3, <2>4, <2>5, Calm
<1>26. CASE ResponseEnds
  BY <1>26, ResponseInvariant
<1>27. ASSUME NEW t \in Tunnels, CloseBy(t) PROVE IInv'
  BY <1>27, CloseByInvariant
<1>28. ASSUME NEW t \in Tunnels, DrainNext(t) PROVE IInv'
  BY <1>28, DrainInvariant
<1>29. CASE Frontend
  BY <1>1, <1>2, <1>3, <1>26, <1>27, <1>29 DEF Frontend
<1>30. CASE Network
  BY <1>4, <1>5, <1>28, <1>30 DEF Network, Orphans
<1>31. CASE Dispatch
  BY <1>6, <1>7, <1>8, <1>31 DEF Dispatch
<1>32. CASE RunSession
  BY <1>11, <1>12, <1>13, <1>14, <1>15, <1>16, <1>17, <1>18, <1>20, <1>21, <1>22, <1>23, <1>32
  DEF RunSession, Dial, Drain, Pump, Timeout, Depart
<1> QED
  BY <1>9, <1>10, <1>19, <1>23, <1>24, <1>25, <1>29, <1>30, <1>31, <1>32 DEF Next

(* The inductive invariant holds in every reachable state: what is under   *)
(* way on the wires, in the dispatcher's hand, in the inbox and in the     *)
(* buffer of a session of Hub.sessions always adds up.                     *)
THEOREM Invariance == Spec => []IInv
<1>1. Init => IInv
  BY InitInvariant
<1>2. IInv /\ [Next]_vars => IInv'
  BY NextInvariant
<1> QED
  BY <1>1, <1>2, PTL DEF Spec

(* The state of the frontend, of the tunnels, of the hub and of runSession *)
(* stays in its types, and a session whose handler runs is in the hub.     *)
THEOREM TypeCorrect == Spec => []TypeOK
<1>1. IInv => TypeOK
  BY DEF IInv
<1> QED
  BY <1>1, Invariance, PTL

(* Session.feed lets in one copy of a frame: however many tunnels carry a  *)
(* number, it is waiting once or the buffer has had it, unless feedSeen    *)
(* was pruned of it.                                                       *)
THEOREM FirstCopies == Spec => []FirstCopyOnly
<1>1. IInv => FirstCopyOnly
  BY DEF IInv
<1> QED
  BY <1>1, Invariance, PTL

(* A session that ends by a CLOSE has handed its destination all that the  *)
(* tunnel of that CLOSE was given ahead of it, up to the first frame it    *)
(* was not: whatever the other tunnels lose, repeat or delay, and whatever *)
(* the client's pump still sends after the CLOSE of an ended response.     *)
THEOREM CloseInPlace == Spec => []CloseKeepsItsPlace
<1>1. IInv => CloseKeepsItsPlace
  BY DEF IInv
<1> QED
  BY <1>1, Invariance, PTL
=============================================================================
