----------------------------- MODULE DedupBuffer -----------------------------
(***************************************************************************)
(* internal/mpdedup/buffer.go: the reorder and dedup buffer at the         *)
(* receiving end of a session, under the mutex that makes each call one    *)
(* step.  A payload is its sequence number.  gapSince is a zero or nonzero *)
(* time compared with gapTimeout: `gap' says which of the three cases      *)
(* holds.  The stream ends when the pump that owns the buffer gets ErrFull *)
(* ("broken") or flushes it after a CLOSE ("closed").                      *)
(***************************************************************************)
EXTENDS Integers, Sequences, FiniteSets, Functions

CONSTANTS MaxSeq,           \* the frames of the stream are 1..MaxSeq
          Cap               \* Buffer.cap

ASSUME MaxSeqAssumption == MaxSeq \in Nat \ {0}
ASSUME CapAssumption    == Cap \in Nat \ {0}

VARIABLES next,             \* Buffer.next
          pending,          \* keys of Buffer.pending
          gap,              \* "none": gapSince is zero; "fresh"; "expired"
          stream,           \* "open", "broken" or "closed"
          delivered,        \* what was returned so far, in order
          accepted,         \* history: frames that were stored
          refused           \* history: the frame that got ErrFull, or 0

vars == <<next, pending, gap, stream, delivered, accepted, refused>>

Seqs == 1..MaxSeq
-----------------------------------------------------------------------------
(* The checks of Push and the moves of drainLocked and skipGapLocked.      *)

ForgetsDelivered(s) == s \in pending                       \* mutant
Duplicate(s)        == s < next \/ s \in pending
OneTooMany          == Cardinality(pending) > Cap           \* mutant
Full                == Cardinality(pending) >= Cap
GapOpen             == gap # "none"                         \* mutant
GapExpired          == gap = "expired"

\* drainLocked stops at k: everything from n up to k is there, k is not.
DrainsShort(P, n, k) == n <= k /\ n..(k-1) \subseteq P    \* mutant
DrainsTo(P, n, k) == n <= k /\ n..(k-1) \subseteq P /\ k \notin P
Run(n, k)         == [i \in 1..(k-n) |-> n + i - 1]
DropsBehind(P, n, k) == {q \in P : k <= q}                  \* mutant
Drained(P, n, k)  == P \ (n..(k-1))

\* skipGapLocked moves only forward, to the lowest pending frame m.
SkipsBack(P, n) == P # {}                                  \* mutant
CanSkip(P, n)  == P # {} /\ \A q \in P : n < q
SkipsFar(P, m) == m \in P /\ \A q \in P : q <= m           \* mutant
SkipsTo(P, m)  == m \in P /\ \A q \in P : m <= q

\* Flush hands out the pending frames sorted.
Ascending(d)       == \A i, j \in DOMAIN d : i < j => d[i] < d[j]
FlushesUnsorted(P, f) == Range(f) = P                      \* mutant
FlushesAs(P, f)    == Range(f) = P /\ Ascending(f)
ArmedBy(g)         == IF g = "none" THEN "fresh" ELSE g

Stale == {q \in pending : q < next}     \* pending behind the delivery point
-----------------------------------------------------------------------------
Init == /\ next = 1
        /\ pending = {}
        /\ gap = "none"
        /\ stream = "open"
        /\ delivered = <<>>
        /\ accepted = {}
        /\ refused = 0

Emit(d, n, P) == delivered' = delivered \o d /\ next' = n /\ pending' = P

PushDuplicate(s) == stream = "open" /\ Duplicate(s) /\ UNCHANGED vars

Pushed(s) == /\ stream = "open"
             /\ ~Duplicate(s)
             /\ accepted' = accepted \cup {s}
             /\ UNCHANGED <<stream, refused>>

\* The frame closes the gap: it and what follows it come out.
PushDelivers(s) ==
    /\ Pushed(s) /\ ~Full
    /\ LET P == pending \cup {s} IN
       \E k \in next..(MaxSeq + 1) :
          /\ DrainsTo(P, next, k) /\ k > next
          /\ Emit(Run(next, k), k, Drained(P, next, k))
    /\ gap' = "none"

\* The frame has to wait: the gap timer is armed unless it already runs.
PushWaits(s) ==
    /\ Pushed(s) /\ ~Full
    /\ next \notin pending \cup {s}
    /\ ~(GapExpired /\ CanSkip(pending \cup {s}, next))
    /\ Emit(<<>>, next, pending \cup {s})
    /\ gap' = ArmedBy(gap)

\* The gap has lasted too long: skip what is missing.
PushSkips(s) ==
    /\ Pushed(s) /\ ~Full
    /\ LET P == pending \cup {s} IN
       /\ next \notin P
       /\ GapExpired /\ CanSkip(P, next)
       /\ \E m \in Seqs, k \in Seqs \cup {MaxSeq + 1} :
             /\ SkipsTo(P, m) /\ DrainsTo(P, m, k)
             /\ Emit(Run(m, k), k, Drained(P, m, k))
    /\ gap' = "none"

\* A full buffer skips first and stores the frame afterwards.
PushRecovers(s) ==
    /\ Pushed(s) /\ Full
    /\ GapExpired /\ CanSkip(pending, next)
    /\ \E m \in Seqs, k, l \in Seqs \cup {MaxSeq + 1} :
          LET P == Drained(pending, m, k) \cup {s} IN
          /\ SkipsTo(pending, m) /\ DrainsTo(pending, m, k)
          /\ DrainsTo(P, k, l)
          /\ Emit(Run(m, k) \o Run(k, l), l, Drained(P, k, l))
    /\ gap' = "none"

\* ErrFull: the pump returns and the session with it.
PushRefused(s) ==
    /\ stream = "open" /\ ~Duplicate(s) /\ Full
    /\ ~(GapExpired /\ CanSkip(pending, next))
    /\ stream' = "broken" /\ refused' = s
    /\ UNCHANGED <<next, pending, gap, delivered, accepted>>

\* gapTimeout passes while the timer runs.
Elapse == /\ stream = "open" /\ gap = "fresh" /\ gap' = "expired"
          /\ UNCHANGED <<next, pending, stream, delivered, accepted, refused>>

Flush ==
    /\ stream = "open" /\ stream' = "closed"
    /\ \/ pending = {} /\ Emit(<<>>, next, {}) /\ UNCHANGED gap
       \/ /\ pending # {}
          /\ \E f \in [1..Cardinality(pending) -> pending] :
                FlushesAs(pending, f) /\ Emit(f, f[Len(f)] + 1, {})
          /\ gap' = "none"
    /\ UNCHANGED <<accepted, refused>>

Push(s) == \/ PushDuplicate(s) \/ PushDelivers(s) \/ PushWaits(s)
           \/ PushSkips(s) \/ PushRecovers(s) \/ PushRefused(s)

Next == (\E s \in Seqs : Push(s)) \/ Elapse \/ Flush

Spec == Init /\ [][Next]_vars
-----------------------------------------------------------------------------
(* Properties.                                                             *)

\* The values the buffer's fields take; the missing frame is never stored.
TypeOK == /\ next \in 1..(MaxSeq + 1)
          /\ pending \subseteq Seqs
          /\ next \notin pending
          /\ gap \in {"none", "fresh", "expired"}
          /\ stream \in {"open", "broken", "closed"}
          /\ delivered \in Seq(Seqs)
          /\ accepted \subseteq Seqs
          /\ refused \in 0..MaxSeq

\* The pool keeps at most Cap frames waiting, through Push's recovery path
\* too, which stores a frame without looking at the capacity again.
BacklogBounded == Cardinality(pending) <= Cap

\* No copy of a frame comes out twice, whichever mixture of waiting,
\* skipping, recovering and flushing its copies met.
ExactlyOnce == /\ IsInjective(delivered)
               /\ Range(delivered) \cap pending = {}

\* A frame Push stored is still waiting or has come out: neither a skip nor
\* the recovery of a full buffer throws stored frames away.
NothingDropped == accepted = Range(delivered) \cup pending

\* Until the flush of a CLOSE the bytes come out in sequence order, even
\* when recovery has stored a frame behind the delivery point.
InOrderWhileOpen == stream # "closed" => Ascending(delivered)

\* Flush keeps the order as long as no frame is stored behind next.
FlushKeepsOrder ==
    [][stream' = "closed" /\ stream = "open" /\ Stale = {}
          => Ascending(delivered')]_vars

\* A missing frame is given up only after gapTimeout.
NoEarlySkip ==
    [][stream' = "open" /\ ~(next..(next' - 1) \subseteq accepted')
          => gap = "expired"]_vars

\* A skip passes over what never arrived and nothing else: no waiting frame
\* is left behind the delivery point by it.
SkipsOnlyMissing ==
    [][stream' = "open" /\ Stale = {} /\ Cardinality(pending) < Cap
          => \A q \in pending' : next' < q]_vars

\* Once the timer has expired a new frame gets data moving, but for one case:
\* while a frame that the recovery of a full buffer stored behind next waits,
\* skipGapLocked gives up ("shouldn't happen", buffer.go:149-151), and then
\* only the frame next itself delivers anything, however long the gap lasts.
ExpiredGapMoves ==
    [][gap = "expired" /\ accepted' # accepted
          => (Len(delivered') > Len(delivered) <=> Stale = {} \/ next \in accepted')]_vars

\* The buffer implements the stream its users are promised.
Stream == INSTANCE OrderedStream WITH ended <- stream # "open"
StreamSpec == Stream!Spec

\* buffer.go:4-6: "this buffer presents them as a single in-order, dedup'd
\* byte stream".  Flushing a frame that recovery stored too late is not.
InOrder == Ascending(delivered)
=============================================================================
