-------------------------- MODULE TunnelPoolProofs --------------------------
(***************************************************************************)
(* The safety of the tunnel pool, for any number of slots, tunnels and     *)
(* frames, any depth of the channels and any room for orphans.             *)
(***************************************************************************)
EXTENDS TunnelPool, SequenceFacts

\* What maintainSlot holds in each of its phases: orphans only while it
\* drains, a frame only while it drains or rescues, and while it drains that
\* frame is the first of the orphans.  SendData sends the frame `next'.
Held == /\ \A p \in Procs : Busy(p) => cast[p].frame \in Frames
        /\ Busy(App) => cast[App].frame = next
        /\ \A i \in Slots :
              /\ worker[i] # "drain" => batch[i] = <<>>
              /\ Busy(i) => \/ worker[i] = "rescue"
                            \/ /\ worker[i] = "drain" /\ batch[i] # <<>>
                               /\ cast[i].frame = Head(batch[i])

\* A tunnel that is up is looked after, and listed.
LiveListed == live \subseteq Listed

\* Where the pool keeps a frame for certain.  A goroutine that has had a
\* tunnel take its frame is about to drop it, and the head of its batch with
\* it: neither counts, or two goroutines could vouch for each other's copy.
Left(i) == IF cast[i].sent /\ worker[i] = "drain" THEN Tail(batch[i]) ELSE batch[i]

Kept(f) == \/ \E t \in Tunnels : f \in Range(queue[t])
           \/ \E i \in Slots : ~cast[i].sent /\ cast[i].frame = f
           \/ \E i \in Slots : f \in Range(Left(i))
           \/ f \in Range(orphans)
           \/ f \in written
           \/ f \in lost

\* A frame reported sent, and one some tunnel took a moment ago, is kept.
SentIsKept == /\ \A f \in carried : Kept(f)
              /\ \A p \in Procs : cast[p].sent => Kept(cast[p].frame)

\* The inductive invariant.
IInv == TypeOK /\ Held /\ LiveListed /\ OnlyLateSendsStrand /\ SentIsKept

USE DEF slotVars, connVars, history

\* Every slot dials, nothing is sent, when the pool starts.
LEMMA InitIInv == Init => IInv
<1> SUFFICES ASSUME Init
             PROVE  IInv
  OBVIOUS
<1>1. TypeOK
  <2>1. cast \in [Procs -> [frame : 0..MaxFrame, todo : SUBSET used,
                           at : used \cup {None}, sent : BOOLEAN]]
    BY PoolAssumption DEF Init, Idle
  <2> QED
    BY <2>1, PoolAssumption DEF Init, TypeOK, Phases, Frames
<1>2. Held /\ LiveListed
  BY DEF Init, Held, LiveListed, Busy, Procs
<1>3. OnlyLateSendsStrand
  BY EmptyRange DEF Init, OnlyLateSendsStrand, Retired
<1>4. SentIsKept
  BY DEF Init, SentIsKept, Idle
<1> QED
  BY <1>1, <1>2, <1>3, <1>4 DEF IInv

\* A goroutine in Send, as the type invariant has it.
Casting == [frame : 0..MaxFrame, todo : SUBSET used, at : used \cup {None},
            sent : BOOLEAN]

\* What Send changes of the goroutine it runs in, going on to its next tunnel,
\* leaving one that refuses, and leaving one that has taken the frame.
LEMMA CastMoves ==
  ASSUME cast \in [Procs -> Casting], NEW p \in Procs,
         NEW S \in SUBSET used, NEW t \in used \cup {None},
         \/ cast' = [cast EXCEPT ![p].todo = S, ![p].at = t]
         \/ cast' = [cast EXCEPT ![p].at = t]
  PROVE  /\ cast' \in [Procs -> Casting]
         /\ \A q \in Procs : /\ cast'[q].frame = cast[q].frame
                             /\ cast'[q].sent = cast[q].sent
                             /\ q # p => cast'[q] = cast[q]
BY DEF Casting

LEMMA CastSent ==
  ASSUME cast \in [Procs -> Casting], NEW p \in Procs,
         cast' = [cast EXCEPT ![p].at = None, ![p].sent = TRUE]
  PROVE  /\ cast' \in [Procs -> Casting]
         /\ \A q \in Procs : /\ cast'[q].frame = cast[q].frame
                             /\ q # p => cast'[q] = cast[q]
         /\ cast'[p].sent
<1> DEFINE c == [cast[p] EXCEPT !.at = None]
<1>1. c \in Casting /\ c.frame = cast[p].frame
  BY DEF Casting
<1>2. [c EXCEPT !.sent = TRUE] \in Casting /\ [c EXCEPT !.sent = TRUE].sent
      /\ [c EXCEPT !.sent = TRUE].frame = cast[p].frame
  BY <1>1 DEF Casting
<1>3. cast' = [cast EXCEPT ![p] = [c EXCEPT !.sent = TRUE]]
  OBVIOUS
<1> QED
  BY <1>2, <1>3

\* A step that leaves what goroutines send alone, and only moves them on,
\* keeps the frames where they are.
LEMMA SameHands ==
  ASSUME Held, LiveListed, OnlyLateSendsStrand, SentIsKept,
         UNCHANGED <<slotVars, used, live, queue, orphans, next, history>>,
         \A q \in Procs : /\ cast'[q].frame = cast[q].frame
                          /\ cast'[q].sent = cast[q].sent
                          /\ Busy(q)' => Busy(q)
  PROVE  Held' /\ LiveListed' /\ OnlyLateSendsStrand' /\ SentIsKept'
<1>1. Slots \subseteq Procs /\ App \in Procs
  BY DEF Procs
<1>2. Held'
  BY <1>1 DEF Held
<1>3. LiveListed' /\ OnlyLateSendsStrand'
  BY DEF LiveListed, OnlyLateSendsStrand, Listed, Retired
<1>4. ASSUME NEW f, Kept(f)
      PROVE  Kept(f)'
  BY <1>1, <1>4 DEF Kept, Left
<1>5. SentIsKept'
  BY <1>4 DEF SentIsKept
<1> QED
  BY <1>2, <1>3, <1>5

\* Send looks at a tunnel's state.
LEMMA CheckKeepsIInv ==
  ASSUME IInv, NEW p \in Procs, Check(p)
  PROVE  IInv'
<1>1. PICK t \in cast[p].todo :
         cast' = [cast EXCEPT ![p].todo = @ \ {t},
                              ![p].at = IF t \in active THEN t ELSE None]
  BY DEF Check
<1>2. cast \in [Procs -> Casting] /\ active \subseteq used
  BY DEF IInv, TypeOK, Casting
<1>4. /\ cast' \in [Procs -> Casting]
      /\ \A q \in Procs : /\ cast'[q].frame = cast[q].frame
                          /\ cast'[q].sent = cast[q].sent
                          /\ q # p => cast'[q] = cast[q]
  <2>1. cast[p].todo \in SUBSET used
    BY <1>2 DEF Casting
  <2> DEFINE S == cast[p].todo \ {t}
             u == IF t \in active THEN t ELSE None
  <2>2. S \in SUBSET used /\ u \in used \cup {None}
    BY <1>2, <2>1
  <2>3. cast' = [cast EXCEPT ![p].todo = S, ![p].at = u]
    BY <1>1
  <2> HIDE DEF S, u
  <2> QED
    BY <1>2, <2>2, <2>3, CastMoves
<1>5. Busy(p) /\ UNCHANGED <<slotVars, connVars, queue, orphans, next, history>>
  BY DEF Check
<1>6. \A q \in Procs : /\ cast'[q].frame = cast[q].frame
                       /\ cast'[q].sent = cast[q].sent
                       /\ Busy(q)' => Busy(q)
  BY <1>4, <1>5 DEF Busy
<1>7. TypeOK'
  BY <1>4, <1>5 DEF IInv, TypeOK, Casting
<1> QED
  BY <1>5, <1>6, <1>7, SameHands DEF IInv

\* A goroutine starts on a frame, and is done with it.
LEMMA CastBegun ==
  ASSUME cast \in [Procs -> Casting], NEW p \in Procs, NEW f \in Frames,
         NEW T \in SUBSET used, Begin(p, f, T)
  PROVE  /\ cast' \in [Procs -> Casting]
         /\ cast'[p].frame = f /\ ~cast'[p].sent
         /\ \A q \in Procs : q # p => cast'[q] = cast[q]
BY DEF Begin, Casting, Frames

LEMMA CastFinished ==
  ASSUME cast \in [Procs -> Casting], NEW p \in Procs, Finish(p)
  PROVE  /\ cast' \in [Procs -> Casting]
         /\ cast'[p] = Idle /\ ~Busy(p)' /\ ~cast'[p].sent
         /\ \A q \in Procs : q # p => cast'[q] = cast[q]
<1>1. Idle \in Casting /\ ~Idle.sent
  BY PoolAssumption DEF Idle, Casting
<1> QED
  BY <1>1 DEF Finish, Busy

\* Two readings of the invariant the steps below start from.
LEMMA CastTyped == TypeOK => /\ cast \in [Procs -> Casting]
                             /\ Slots \subseteq Procs /\ App \in Procs
                             /\ Listed \subseteq used
BY DEF TypeOK, Casting, Procs, Listed

\* A tunnel takes the frame.  Where it is gone already the frame is late.
LEMMA QueueKeepsIInv ==
  ASSUME IInv, NEW p \in Procs, Queue(p)
  PROVE  IInv'
<1>1. /\ cast \in [Procs -> Casting] /\ Slots \subseteq Procs /\ App \in Procs
      /\ queue \in [Tunnels -> Seq(Frames)] /\ used \subseteq Tunnels
  BY CastTyped DEF IInv, TypeOK
<1>2. PICK t \in used, f \in Frames : t = cast[p].at /\ f = cast[p].frame
  BY <1>1 DEF Casting, IInv, Held, Queue
<1>3. /\ Busy(p) /\ t # None /\ HasRoom(t) /\ t \in Tunnels
      /\ queue' = [queue EXCEPT ![t] = Append(@, f)]
      /\ cast' = [cast EXCEPT ![p].at = None, ![p].sent = TRUE]
      /\ late' = IF t \in live THEN late ELSE late \cup {<<t, f>>}
      /\ UNCHANGED <<slotVars, connVars, orphans, next, carried, written, lost>>
  BY <1>1, <1>2 DEF Queue
<1>4. /\ cast' \in [Procs -> Casting]
      /\ \A q \in Procs : /\ cast'[q].frame = cast[q].frame
                          /\ q # p => cast'[q] = cast[q]
      /\ cast'[p].sent
  BY <1>1, <1>3, CastSent
<1>5. /\ queue' \in [Tunnels -> Seq(Frames)]
      /\ Len(queue'[t]) = Len(queue[t]) + 1
      /\ Range(queue'[t]) = Range(queue[t]) \cup {f}
      /\ \A u \in Tunnels : u # t => queue'[u] = queue[u]
  BY <1>1, <1>2, <1>3, SendRange
<1>6. TypeOK'
  <2>1. \A u \in Tunnels : Len(queue'[u]) <= Depth
    <3>1. Len(queue[t]) < Depth /\ Len(queue[t]) \in Nat
      BY <1>1, <1>2, <1>3 DEF HasRoom
    <3>2. \A u \in Tunnels : Len(queue[u]) <= Depth
      BY DEF IInv, TypeOK
    <3> QED
      BY <1>5, <3>1, <3>2, PoolAssumption
  <2>2. late' \subseteq Tunnels \X Frames
    BY <1>2, <1>3 DEF IInv, TypeOK
  <2> QED
    BY <1>2, <1>3, <1>4, <1>5, <2>1, <2>2 DEF IInv, TypeOK, Casting
<1>7. Held'
  <2>1. \A q \in Procs : Busy(q)' => Busy(q)
    BY <1>2, <1>3, <1>4 DEF Busy
  <2> QED
    BY <1>1, <1>2, <1>3, <1>4, <2>1 DEF IInv, Held
<1>8. LiveListed'
  BY <1>2, <1>3 DEF IInv, LiveListed, Listed
<1>9. OnlyLateSendsStrand'
  <2>1. t \in Retired => t \notin live
    BY DEF IInv, LiveListed, Listed, Retired
  <2>2. Retired' = Retired /\ Retired \subseteq Tunnels
    BY <1>1, <1>3 DEF Retired
  <2>3. \A u \in Retired : \A g \in Range(queue[u]) : <<u, g>> \in late
    BY DEF IInv, OnlyLateSendsStrand
  <2>4. late \subseteq late'
    BY <1>3
  <2>5. t \in Retired => <<t, f>> \in late'
    BY <1>3, <2>1
  <2>6. ASSUME NEW u \in Retired, NEW g \in Range(queue'[u])
        PROVE  <<u, g>> \in late'
    <3>1. CASE u # t
      BY <1>5, <2>2, <2>3, <2>4, <2>6, <3>1
    <3>2. CASE u = t
      BY <1>5, <2>3, <2>4, <2>5, <2>6, <3>2
    <3> QED
      BY <3>1, <3>2
  <2> QED
    BY <2>2, <2>6 DEF OnlyLateSendsStrand
<1>10. Kept(f)'
  BY <1>3, <1>5 DEF Kept
<1>11. ASSUME NEW g, Kept(g)
       PROVE  Kept(g)'
  <2>1. CASE \E u \in Tunnels : g \in Range(queue[u])
    BY <1>5, <2>1 DEF Kept
  <2>2. CASE \E i \in Slots : ~cast[i].sent /\ cast[i].frame = g
    <3>1. CASE g = f
      BY <1>10, <3>1
    <3>2. CASE g # f
      BY <1>1, <1>2, <1>4, <2>2, <3>2 DEF Kept
    <3> QED
      BY <3>1, <3>2
  <2>3. ASSUME NEW i \in Slots, g \in Range(Left(i))
        PROVE  Kept(g)'
    <3>1. CASE i # p
      BY <1>1, <1>2, <1>3, <1>4, <2>3, <3>1 DEF Kept, Left
    <3>2. CASE i = p /\ worker[i] # "drain"
      BY <1>2, <1>3, <2>3, <3>2 DEF Kept, Left
    <3>3. CASE i = p /\ worker[i] = "drain"
      <4>1. batch[i] # <<>> /\ f = Head(batch[i]) /\ batch[i] \in Seq(Frames)
        BY <1>2, <1>3, <3>3 DEF IInv, Held, TypeOK
      <4>2. Range(batch[i]) = {f} \cup Range(Tail(batch[i]))
        BY <4>1, ReceiveRange
      <4>3. Left(i)' = Tail(batch[i])
        BY <1>2, <1>3, <1>4, <3>3 DEF Left
      <4> QED
        BY <1>10, <2>3, <4>2, <4>3 DEF Kept, Left
    <3> QED
      BY <3>1, <3>2, <3>3
  <2> QED
    BY <1>2, <1>3, <1>11, <2>1, <2>2, <2>3 DEF Kept
<1>12. SentIsKept'
  BY <1>2, <1>3, <1>4, <1>10, <1>11 DEF IInv, SentIsKept
<1> QED
  BY <1>6, <1>7, <1>8, <1>9, <1>12 DEF IInv

\* A tunnel refuses the frame.
LEMMA RefuseKeepsIInv ==
  ASSUME IInv, NEW p \in Procs, Refuse(p)
  PROVE  IInv'
<1>1. /\ cast \in [Procs -> Casting]
      /\ Busy(p) /\ cast' = [cast EXCEPT ![p].at = None]
      /\ UNCHANGED <<slotVars, connVars, queue, orphans, next, history>>
  BY CastTyped DEF Refuse, IInv
<1>2. /\ cast' \in [Procs -> Casting]
      /\ \A q \in Procs : /\ cast'[q].frame = cast[q].frame
                          /\ cast'[q].sent = cast[q].sent
                          /\ q # p => cast'[q] = cast[q]
  BY <1>1, CastMoves
<1>3. TypeOK'
  BY <1>1, <1>2 DEF IInv, TypeOK, Casting
<1> QED
  BY <1>1, <1>2, <1>3, SameHands DEF IInv, Busy

\* SendData's own moves: no slot's hands are touched.
LEMMA SendDataKeepsIInv ==
  ASSUME IInv, SendData
  PROVE  IInv'
<1>1. /\ cast \in [Procs -> Casting] /\ Slots \subseteq Procs /\ App \in Procs
      /\ Listed \in SUBSET used /\ next \in 1..(MaxFrame + 1) /\ TypeOK
  BY CastTyped DEF IInv, TypeOK
<1>2. UNCHANGED <<slotVars, connVars, queue, orphans, written, lost, late>>
  BY DEF SendData, Broadcast, Sent, Retry, GiveUp
<1>3. Busy(App) => cast[App].frame = next /\ next \in Frames
  BY <1>1 DEF IInv, Held
<1>4. /\ cast' \in [Procs -> Casting] /\ ~cast'[App].sent
      /\ \A q \in Procs : q # App => cast'[q] = cast[q]
      /\ Busy(App)' => cast'[App].frame = next' /\ next' \in Frames
      /\ next' \in 1..(MaxFrame + 1)
      /\ carried' \subseteq carried \cup (IF cast[App].sent /\ Busy(App)
                                         THEN {cast[App].frame} ELSE {})
  <2>1. CASE Broadcast
    BY <1>1, <2>1, CastBegun DEF Broadcast
  <2>2. CASE Sent
    <3>1. Finish(App) /\ next' = next + 1 /\ Busy(App)
      BY <2>2 DEF Sent, Done
    <3>2. next' \in 1..(MaxFrame + 1)
      BY <1>3, <3>1, PoolAssumption DEF Frames
    <3> QED
      BY <1>1, <2>2, <3>1, <3>2, CastFinished DEF Sent
  <2>3. CASE Retry
    <3>1. Begin(App, next, Listed) /\ next \in Frames
      BY <1>3, <2>3 DEF Retry, Done
    <3> QED
      BY <1>1, <2>3, <3>1, CastBegun DEF Retry
  <2>4. CASE GiveUp
    <3>1. next' \in 1..(MaxFrame + 1)
      BY <2>4, PoolAssumption DEF GiveUp
    <3> QED
      BY <1>1, <2>4, <3>1, CastFinished DEF GiveUp
  <2> QED
    BY <2>1, <2>2, <2>3, <2>4 DEF SendData
<1>5. App \notin Slots /\ \A i \in Slots : cast'[i] = cast[i]
  BY <1>1, <1>4, PoolAssumption
<1>6. TypeOK'
  <2>1. carried' \subseteq Frames
    BY <1>1, <1>3, <1>4 DEF TypeOK
  <2> QED
    BY <1>1, <1>2, <1>4, <2>1 DEF TypeOK, Casting
<1>7. Held'
  <2>1. \A p \in Procs : Busy(p)' => cast'[p].frame \in Frames
    BY <1>1, <1>4 DEF IInv, Held, Busy
  <2> QED
    BY <1>2, <1>4, <1>5, <2>1 DEF IInv, Held, Busy
<1>8. LiveListed' /\ OnlyLateSendsStrand'
  BY <1>2 DEF IInv, LiveListed, OnlyLateSendsStrand, Listed, Retired
<1>9. ASSUME NEW f, Kept(f)
      PROVE  Kept(f)'
  BY <1>2, <1>5, <1>9 DEF Kept, Left
<1>10. SentIsKept'
  BY <1>1, <1>4, <1>9 DEF IInv, SentIsKept
<1> QED
  BY <1>6, <1>7, <1>8, <1>10 DEF IInv

\* A slot's goroutine that has no frame in hand has had none taken.
LEMMA EmptyHanded ==
  ASSUME NEW p, ~Busy(p)
  PROVE  ~cast[p].sent /\ cast[p].frame = 0
BY DEF Busy, Idle

\* What a step must not do to the frames the pool keeps.
LEMMA KeptKeeps ==
  ASSUME IInv, \A f \in Frames : Kept(f) => Kept(f)', UNCHANGED carried,
         \A p \in Procs : cast'[p].sent => cast[p].sent /\ cast'[p].frame = cast[p].frame
  PROVE  SentIsKept'
<1>1. carried \subseteq Frames
  BY DEF IInv, TypeOK
<1>2. \A p \in Procs : cast[p].sent => cast[p].frame \in Frames
  BY EmptyHanded DEF IInv, Held
<1> QED
  BY <1>1, <1>2 DEF IInv, SentIsKept

\* A dialled tunnel is listed, and up.
LEMMA DialKeepsIInv ==
  ASSUME IInv, NEW i \in Slots, Dial(i)
  PROVE  IInv'
<1>1. PICK t \in Tunnels \ used :
         /\ tunnel' = [tunnel EXCEPT ![i] = t]
         /\ used' = used \cup {t} /\ live' = live \cup {t}
         /\ active' = active \cup {t}
  BY DEF Dial
<1>2. /\ worker[i] = "dial" /\ worker' = [worker EXCEPT ![i] = "up"]
      /\ UNCHANGED <<batch, queue, orphans, cast, next, history>>
  BY DEF Dial
<1>3. /\ cast \in [Procs -> Casting] /\ Slots \subseteq Procs
      /\ worker \in [Slots -> Phases] /\ tunnel \in [Slots -> used \cup {None}]
  BY CastTyped DEF IInv, TypeOK
<1>4. TypeOK'
  <2>1. cast' \in [Procs -> [frame : 0..MaxFrame, todo : SUBSET used',
                            at : used' \cup {None}, sent : BOOLEAN]]
    BY <1>1, <1>2, <1>3 DEF Casting
  <2>2. /\ tunnel' \in [Slots -> used' \cup {None}]
        /\ \A j \in Slots : worker'[j] = "dial" <=> tunnel'[j] = None
    BY <1>1, <1>2, <1>3, PoolAssumption DEF IInv, TypeOK
  <2> QED
    BY <1>1, <1>2, <2>1, <2>2 DEF IInv, TypeOK, Phases
<1>5. Held'
  BY <1>2, <1>3 DEF IInv, Held, Busy
<1>6. LiveListed'
  BY <1>1, <1>2, <1>3 DEF IInv, LiveListed, Listed
<1>7. OnlyLateSendsStrand'
  <2>1. Retired' \subseteq Retired
    BY <1>1, <1>2, <1>3, PoolAssumption DEF IInv, TypeOK, Retired
  <2> QED
    BY <1>2, <2>1 DEF IInv, OnlyLateSendsStrand
<1>8. SentIsKept'
  <2>1. \A j \in Slots : Left(j)' = Left(j)
    BY <1>2, <1>3 DEF Left
  <2> QED
    BY <1>2, <2>1 DEF IInv, SentIsKept, Kept
<1> QED
  BY <1>4, <1>5, <1>6, <1>7, <1>8 DEF IInv

\* The goroutine takes the orphans, and runs the tunnel when none is left.
LEMMA TakeOrphansKeepsIInv ==
  ASSUME IInv, NEW i \in Slots, TakeOrphans(i)
  PROVE  IInv'
<1>1. /\ worker[i] = "up" /\ worker' = [worker EXCEPT ![i] = "drain"]
      /\ batch' = [batch EXCEPT ![i] = orphans] /\ orphans' = <<>>
      /\ UNCHANGED <<tunnel, connVars, queue, cast, next, history>>
  BY DEF TakeOrphans
<1>2. /\ worker \in [Slots -> Phases] /\ batch \in [Slots -> Seq(Frames)]
      /\ orphans \in Seq(Frames) /\ TypeOK
  BY DEF IInv, TypeOK
<1>3. ~Busy(i) /\ ~cast[i].sent /\ batch[i] = <<>>
  BY <1>1, EmptyHanded DEF IInv, Held
<1>4. TypeOK'
  BY <1>1, <1>2 DEF TypeOK, Phases
<1>5. Held'
  BY <1>1, <1>2, <1>3 DEF IInv, Held, Busy
<1>6. LiveListed'
  BY <1>1, <1>2 DEF IInv, LiveListed, Listed
<1>7. OnlyLateSendsStrand'
  BY <1>1 DEF IInv, OnlyLateSendsStrand, Retired
<1>8. ASSUME NEW f \in Frames, Kept(f)
      PROVE  Kept(f)'
  <2>1. /\ Left(i)' = orphans /\ Left(i) = <<>>
        /\ \A j \in Slots : j # i => Left(j)' = Left(j)
    BY <1>1, <1>2, <1>3 DEF Left
  <2>2. CASE f \in Range(orphans)
    BY <2>1, <2>2 DEF Kept
  <2>3. CASE f \notin Range(orphans)
    BY <1>1, <1>8, <2>1, <2>3, EmptyRange DEF Kept
  <2> QED
    BY <2>2, <2>3
<1>9. SentIsKept'
  BY <1>1, <1>8, KeptKeeps
<1> QED
  BY <1>4, <1>5, <1>6, <1>7, <1>9 DEF IInv

LEMMA RunKeepsIInv ==
  ASSUME IInv, NEW i \in Slots, Run(i)
  PROVE  IInv'
<1>1. /\ worker[i] = "drain" /\ ~Busy(i) /\ batch[i] = <<>>
      /\ worker' = [worker EXCEPT ![i] = "run"]
      /\ UNCHANGED <<tunnel, batch, connVars, queue, orphans, cast, next, history>>
  BY DEF Run
<1>2. worker \in [Slots -> Phases] /\ TypeOK
  BY DEF IInv, TypeOK
<1>3. TypeOK'
  BY <1>1, <1>2 DEF TypeOK, Phases
<1>4. Held'
  BY <1>1, <1>2 DEF IInv, Held, Busy
<1>5. LiveListed'
  BY <1>1, <1>2 DEF IInv, LiveListed, Listed
<1>6. OnlyLateSendsStrand'
  BY <1>1 DEF IInv, OnlyLateSendsStrand, Retired
<1>7. SentIsKept'
  <2>1. \A j \in Slots : Left(j)' = Left(j)
    BY <1>1, <1>2, EmptyHanded DEF Left
  <2> QED
    BY <1>1, <2>1 DEF IInv, SentIsKept, Kept
<1> QED
  BY <1>3, <1>4, <1>5, <1>6, <1>7 DEF IInv

\* The goroutine sends the first of its orphans, and drops it when the tunnel
\* took it.
LEMMA DrainNextKeepsIInv ==
  ASSUME IInv, NEW i \in Slots, DrainNext(i)
  PROVE  IInv'
<1>1. /\ cast \in [Procs -> Casting] /\ Slots \subseteq Procs /\ App \in Procs
      /\ App \notin Slots /\ batch[i] \in Seq(Frames) /\ TypeOK
  BY CastTyped, PoolAssumption DEF IInv, TypeOK
<1>2. /\ worker[i] = "drain" /\ ~Busy(i) /\ batch[i] # <<>>
      /\ Begin(i, Head(batch[i]), {tunnel[i]})
      /\ UNCHANGED <<slotVars, connVars, queue, orphans, next, history>>
  BY DEF DrainNext
<1>3. Head(batch[i]) \in Frames /\ {tunnel[i]} \in SUBSET used
  BY <1>1, <1>2, ReceiveRange DEF TypeOK
<1>4. /\ cast' \in [Procs -> Casting]
      /\ cast'[i].frame = Head(batch[i]) /\ ~cast'[i].sent
      /\ \A q \in Procs : q # i => cast'[q] = cast[q]
  BY <1>1, <1>2, <1>3, CastBegun
<1>5. TypeOK'
  BY <1>1, <1>2, <1>4 DEF TypeOK, Casting
<1>6. Held'
  BY <1>1, <1>2, <1>3, <1>4 DEF IInv, Held, Busy
<1>7. LiveListed' /\ OnlyLateSendsStrand'
  BY <1>2 DEF IInv, LiveListed, OnlyLateSendsStrand, Listed, Retired
<1>8. ASSUME NEW f \in Frames, Kept(f)
      PROVE  Kept(f)'
  <2>1. /\ ~cast[i].sent /\ cast[i].frame = 0 /\ f # 0
        /\ \A j \in Slots : Left(j)' = Left(j)
    BY <1>1, <1>2, <1>4, EmptyHanded DEF Left, Frames
  <2> QED
    BY <1>1, <1>2, <1>4, <1>8, <2>1 DEF Kept
<1>9. SentIsKept'
  BY <1>1, <1>2, <1>4, <1>8, KeptKeeps
<1> QED
  BY <1>5, <1>6, <1>7, <1>9 DEF IInv

LEMMA DrainedKeepsIInv ==
  ASSUME IInv, NEW i \in Slots, Drained(i)
  PROVE  IInv'
<1>1. /\ cast \in [Procs -> Casting] /\ Slots \subseteq Procs /\ App \in Procs
      /\ App \notin Slots /\ batch \in [Slots -> Seq(Frames)] /\ TypeOK
  BY CastTyped, PoolAssumption DEF IInv, TypeOK
<1>2. /\ worker[i] = "drain" /\ Busy(i) /\ cast[i].sent /\ Finish(i)
      /\ batch' = [batch EXCEPT ![i] = Tail(@)]
      /\ UNCHANGED <<worker, tunnel, connVars, queue, orphans, next, history>>
  BY DEF Drained, Done
<1>3. batch[i] # <<>>
  BY <1>2 DEF IInv, Held
<1>4. /\ batch' \in [Slots -> Seq(Frames)] /\ batch'[i] = Tail(batch[i])
      /\ \A j \in Slots : j # i => batch'[j] = batch[j]
  BY <1>1, <1>2, <1>3, ReceiveRange
<1>5. /\ cast' \in [Procs -> Casting]
      /\ cast'[i] = Idle /\ ~Busy(i)' /\ ~cast'[i].sent
      /\ \A q \in Procs : q # i => cast'[q] = cast[q]
  BY <1>1, <1>2, CastFinished
<1>6. TypeOK'
  BY <1>1, <1>2, <1>4, <1>5 DEF TypeOK, Casting
<1>7. Held'
  BY <1>1, <1>2, <1>4, <1>5 DEF IInv, Held, Busy
<1>8. LiveListed' /\ OnlyLateSendsStrand'
  BY <1>2 DEF IInv, LiveListed, OnlyLateSendsStrand, Listed, Retired
<1>9. ASSUME NEW f \in Frames, Kept(f)
      PROVE  Kept(f)'
  <2>1. \A j \in Slots : Left(j)' = Left(j)
    BY <1>1, <1>2, <1>4, <1>5 DEF Left
  <2> QED
    BY <1>1, <1>2, <1>5, <1>9, <2>1 DEF Kept
<1>10. SentIsKept'
  BY <1>1, <1>2, <1>5, <1>9, KeptKeeps
<1> QED
  BY <1>6, <1>7, <1>8, <1>10 DEF IInv

\* What the tunnel refused goes back to the orphans, with the rest.
LEMMA DrainFailsKeepsIInv ==
  ASSUME IInv, NEW i \in Slots, DrainFails(i)
  PROVE  IInv'
<1>1. /\ cast \in [Procs -> Casting] /\ Slots \subseteq Procs /\ App \in Procs
      /\ App \notin Slots /\ batch \in [Slots -> Seq(Frames)]
      /\ orphans \in Seq(Frames) /\ TypeOK
  BY CastTyped, PoolAssumption DEF IInv, TypeOK
<1>2. /\ worker[i] = "drain" /\ Busy(i) /\ ~cast[i].sent /\ Finish(i)
      /\ orphans' = batch[i] \o orphans
      /\ batch' = [batch EXCEPT ![i] = <<>>]
      /\ UNCHANGED <<worker, tunnel, connVars, queue, next, history>>
  BY DEF DrainFails, Done, PutBack
<1>3. /\ batch[i] # <<>> /\ cast[i].frame = Head(batch[i])
      /\ cast[i].frame \in Range(batch[i])
  BY <1>1, <1>2, ReceiveRange DEF IInv, Held
<1>4. /\ orphans' \in Seq(Frames)
      /\ Range(orphans') = Range(batch[i]) \cup Range(orphans)
  BY <1>1, <1>2, AppendRange
<1>5. /\ batch' \in [Slots -> Seq(Frames)] /\ batch'[i] = <<>>
      /\ \A j \in Slots : j # i => batch'[j] = batch[j]
  BY <1>1, <1>2
<1>6. /\ cast' \in [Procs -> Casting]
      /\ cast'[i] = Idle /\ ~Busy(i)' /\ ~cast'[i].sent
      /\ \A q \in Procs : q # i => cast'[q] = cast[q]
  BY <1>1, <1>2, CastFinished
<1>7. TypeOK'
  BY <1>1, <1>2, <1>4, <1>5, <1>6 DEF TypeOK, Casting
<1>8. Held'
  BY <1>1, <1>2, <1>5, <1>6 DEF IInv, Held, Busy
<1>9. LiveListed' /\ OnlyLateSendsStrand'
  BY <1>2 DEF IInv, LiveListed, OnlyLateSendsStrand, Listed, Retired
<1>10. ASSUME NEW f \in Frames, Kept(f)
       PROVE  Kept(f)'
  <2>1. CASE f \in Range(batch[i]) \cup Range(orphans)
    BY <1>4, <2>1 DEF Kept
  <2>2. CASE f \notin Range(batch[i]) \cup Range(orphans)
    <3>1. /\ Left(i) = batch[i] /\ f # cast[i].frame
          /\ \A j \in Slots : j # i => Left(j)' = Left(j)
      BY <1>1, <1>2, <1>3, <1>5, <1>6, <2>2 DEF Left
    <3> QED
      BY <1>1, <1>2, <1>6, <1>10, <2>2, <3>1 DEF Kept
  <2> QED
    BY <2>1, <2>2
<1>11. SentIsKept'
  BY <1>1, <1>2, <1>6, <1>10, KeptKeeps
<1> QED
  BY <1>7, <1>8, <1>9, <1>11 DEF IInv

\* The writer puts a frame on its connection, however late.
LEMMA WriteKeepsIInv ==
  ASSUME IInv, NEW i \in Slots, Write(i)
  PROVE  IInv'
<1>1. PICK t \in Tunnels :
         /\ queue[t] # <<>> /\ written' = written \cup {Head(queue[t])}
         /\ queue' = [queue EXCEPT ![t] = Tail(@)]
  <2>1. worker[i] = "run" /\ tunnel[i] \in Tunnels
    BY PoolAssumption DEF Write, Writes, IInv, TypeOK
  <2> QED
    BY <2>1 DEF Write
<1>2. UNCHANGED <<slotVars, connVars, orphans, cast, next, carried, lost, late>>
  BY DEF Write
<1>3. queue \in [Tunnels -> Seq(Frames)] /\ TypeOK
  BY DEF IInv, TypeOK
<1>4. /\ queue' \in [Tunnels -> Seq(Frames)] /\ Head(queue[t]) \in Frames
      /\ Len(queue'[t]) = Len(queue[t]) - 1 /\ Len(queue[t]) \in Nat
      /\ Range(queue[t]) = {Head(queue[t])} \cup Range(queue'[t])
      /\ \A u \in Tunnels : u # t => queue'[u] = queue[u]
  BY <1>1, <1>3, ReceiveRange
<1>5. TypeOK'
  <2>1. \A u \in Tunnels : Len(queue'[u]) <= Depth
    BY <1>1, <1>3, <1>4, PoolAssumption DEF TypeOK
  <2> QED
    BY <1>1, <1>2, <1>3, <1>4, <2>1 DEF TypeOK
<1>6. Held' /\ LiveListed'
  BY <1>2 DEF IInv, Held, LiveListed, Listed, Busy
<1>7. OnlyLateSendsStrand'
  <2>1. \A u \in Tunnels : Range(queue'[u]) \subseteq Range(queue[u])
    BY <1>4
  <2> QED
    BY <1>2, <1>3, <2>1 DEF IInv, TypeOK, OnlyLateSendsStrand, Retired
<1>8. ASSUME NEW f \in Frames, Kept(f)
      PROVE  Kept(f)'
  <2>1. \A j \in Slots : Left(j)' = Left(j)
    BY <1>2 DEF Left
  <2>2. CASE f = Head(queue[t])
    BY <1>1, <2>2 DEF Kept
  <2>3. CASE f # Head(queue[t])
    BY <1>1, <1>2, <1>4, <1>8, <2>1, <2>3 DEF Kept
  <2> QED
    BY <2>2, <2>3
<1>9. SentIsKept'
  BY <1>2, <1>8, KeptKeeps
<1> QED
  BY <1>5, <1>6, <1>7, <1>9 DEF IInv

\* A tunnel that is torn down leaves the list, and its slot when its channel
\* is empty.
LEMMA RetireKeepsIInv ==
  ASSUME IInv, NEW i \in Slots, Retire(i)
  PROVE  IInv'
<1>1. /\ worker[i] = "run" /\ tunnel[i] \notin live
      /\ worker' = [worker EXCEPT ![i] = "rescue"]
      /\ UNCHANGED <<tunnel, batch, connVars, queue, orphans, cast, next, history>>
  BY DEF Retire
<1>2. worker \in [Slots -> Phases] /\ TypeOK
  BY DEF IInv, TypeOK
<1>3. TypeOK'
  BY <1>1, <1>2 DEF TypeOK, Phases
<1>4. Held'
  BY <1>1, <1>2 DEF IInv, Held, Busy
<1>5. LiveListed'
  BY <1>1, <1>2 DEF IInv, LiveListed, Listed
<1>6. OnlyLateSendsStrand'
  BY <1>1 DEF IInv, OnlyLateSendsStrand, Retired
<1>7. SentIsKept'
  <2>1. \A j \in Slots : Left(j)' = Left(j)
    BY <1>1, <1>2 DEF Left
  <2> QED
    BY <1>1, <2>1 DEF IInv, SentIsKept, Kept
<1> QED
  BY <1>3, <1>4, <1>5, <1>6, <1>7 DEF IInv

LEMMA RescueEndsKeepsIInv ==
  ASSUME IInv, NEW i \in Slots, RescueEnds(i)
  PROVE  IInv'
<1>1. /\ worker[i] = "rescue" /\ ~Busy(i) /\ queue[tunnel[i]] = <<>>
      /\ worker' = [worker EXCEPT ![i] = "dial"]
      /\ tunnel' = [tunnel EXCEPT ![i] = None]
      /\ UNCHANGED <<batch, connVars, queue, orphans, cast, next, history>>
  BY DEF RescueEnds, NothingLeft
<1>2. /\ worker \in [Slots -> Phases] /\ tunnel \in [Slots -> used \cup {None}] /\ TypeOK
  BY DEF IInv, TypeOK
<1>3. TypeOK'
  BY <1>1, <1>2 DEF TypeOK, Phases
<1>4. Held'
  BY <1>1, <1>2 DEF IInv, Held, Busy
<1>5. LiveListed'
  BY <1>1, <1>2 DEF IInv, LiveListed, Listed
<1>6. OnlyLateSendsStrand'
  <2>1. \A t \in Retired' : t \in Retired \/ t = tunnel[i]
    BY <1>1, <1>2 DEF Retired
  <2> QED
    BY <1>1, <2>1, EmptyRange DEF IInv, OnlyLateSendsStrand
<1>7. SentIsKept'
  <2>1. \A j \in Slots : Left(j)' = Left(j)
    BY <1>1, <1>2 DEF Left
  <2> QED
    BY <1>1, <2>1 DEF IInv, SentIsKept, Kept
<1> QED
  BY <1>3, <1>4, <1>5, <1>6, <1>7 DEF IInv

\* A frame that was left in the channel is taken in hand, and is then with a
\* tunnel, among the orphans, or lost for want of room.
LEMMA RescueKeepsIInv ==
  ASSUME IInv, NEW i \in Slots, Rescue(i)
  PROVE  IInv'
<1>1. /\ cast \in [Procs -> Casting] /\ Slots \subseteq Procs /\ App \in Procs
      /\ App \notin Slots /\ queue \in [Tunnels -> Seq(Frames)]
      /\ Listed \in SUBSET used /\ TypeOK
  BY CastTyped, PoolAssumption DEF IInv, TypeOK
<1>2. PICK t \in Tunnels :
         /\ queue[t] # <<>> /\ Begin(i, Head(queue[t]), Listed)
         /\ queue' = [queue EXCEPT ![t] = Tail(@)]
  <2>1. worker[i] = "rescue" /\ tunnel[i] \in Tunnels
    BY PoolAssumption DEF Rescue, IInv, TypeOK
  <2> QED
    BY <2>1 DEF Rescue
<1>3. /\ worker[i] = "rescue" /\ ~Busy(i)
      /\ UNCHANGED <<slotVars, connVars, orphans, next, history>>
  BY DEF Rescue
<1>4. /\ queue' \in [Tunnels -> Seq(Frames)] /\ Head(queue[t]) \in Frames
      /\ Len(queue'[t]) = Len(queue[t]) - 1 /\ Len(queue[t]) \in Nat
      /\ Range(queue[t]) = {Head(queue[t])} \cup Range(queue'[t])
      /\ \A u \in Tunnels : u # t => queue'[u] = queue[u]
  BY <1>1, <1>2, ReceiveRange
<1>5. /\ cast' \in [Procs -> Casting]
      /\ cast'[i].frame = Head(queue[t]) /\ ~cast'[i].sent
      /\ \A q \in Procs : q # i => cast'[q] = cast[q]
  BY <1>1, <1>2, <1>4, CastBegun
<1>6. TypeOK'
  <2>1. \A u \in Tunnels : Len(queue'[u]) <= Depth
    BY <1>1, <1>2, <1>4, PoolAssumption DEF TypeOK
  <2> QED
    BY <1>1, <1>3, <1>4, <1>5, <2>1 DEF TypeOK, Casting
<1>7. Held'
  BY <1>1, <1>3, <1>4, <1>5 DEF IInv, Held, Busy
<1>8. LiveListed'
  BY <1>3 DEF IInv, LiveListed, Listed
<1>9. OnlyLateSendsStrand'
  <2>1. \A u \in Tunnels : Range(queue'[u]) \subseteq Range(queue[u])
    BY <1>4
  <2> QED
    BY <1>3, <1>1, <2>1 DEF IInv, TypeOK, OnlyLateSendsStrand, Retired
<1>10. ASSUME NEW f \in Frames, Kept(f)
       PROVE  Kept(f)'
  <2>1. ~cast[i].sent /\ cast[i].frame = 0 /\ f # 0
    BY <1>3, EmptyHanded DEF Frames
  <2>4. \A j \in Slots : Left(j)' = Left(j)
    BY <1>1, <1>3, <1>5, <2>1 DEF Left
  <2>2. CASE f = Head(queue[t])
    BY <1>5, <2>2 DEF Kept
  <2>3. CASE f # Head(queue[t])
    BY <1>1, <1>3, <1>4, <1>5, <1>10, <2>1, <2>3, <2>4 DEF Kept
  <2> QED
    BY <2>2, <2>3
<1>11. SentIsKept'
  BY <1>1, <1>3, <1>5, <1>10, KeptKeeps
<1> QED
  BY <1>6, <1>7, <1>8, <1>9, <1>11 DEF IInv

LEMMA RescuedKeepsIInv ==
  ASSUME IInv, NEW i \in Slots, Rescued(i)
  PROVE  IInv'
<1>1. /\ cast \in [Procs -> Casting] /\ Slots \subseteq Procs /\ App \in Procs
      /\ App \notin Slots /\ orphans \in Seq(Frames) /\ TypeOK
  BY CastTyped, PoolAssumption DEF IInv, TypeOK
<1>2. /\ worker[i] = "rescue" /\ Busy(i) /\ Finish(i)
      /\ UNCHANGED <<slotVars, connVars, queue, next, carried, written, late>>
  BY DEF Rescued, Done
<1>3. PICK f \in Frames : f = cast[i].frame
  BY <1>1, <1>2 DEF IInv, Held
<1>4. \/ cast[i].sent /\ UNCHANGED <<orphans, lost>>
      \/ orphans' = Append(orphans, f) /\ UNCHANGED lost
      \/ lost' = lost \cup {f} /\ UNCHANGED orphans
  BY <1>3 DEF Rescued
<1>5. /\ cast' \in [Procs -> Casting]
      /\ cast'[i] = Idle /\ ~Busy(i)' /\ ~cast'[i].sent
      /\ \A q \in Procs : q # i => cast'[q] = cast[q]
  BY <1>1, <1>2, CastFinished
<1>6. /\ orphans' \in Seq(Frames) /\ lost' \subseteq Frames
      /\ Range(orphans) \subseteq Range(orphans') /\ lost \subseteq lost'
      /\ ~cast[i].sent => f \in Range(orphans') \cup lost'
  <2>1. /\ Append(orphans, f) \in Seq(Frames)
        /\ Range(Append(orphans, f)) = Range(orphans) \cup {f}
    BY <1>1, <1>3, SendRange
  <2>2. lost \subseteq Frames
    BY <1>1 DEF TypeOK
  <2> QED
    BY <1>1, <1>3, <1>4, <2>1, <2>2
<1>7. TypeOK'
  BY <1>1, <1>2, <1>5, <1>6 DEF TypeOK, Casting
<1>8. Held'
  BY <1>1, <1>2, <1>5 DEF IInv, Held, Busy
<1>9. LiveListed' /\ OnlyLateSendsStrand'
  BY <1>2 DEF IInv, LiveListed, OnlyLateSendsStrand, Listed, Retired
<1>10. ASSUME NEW g \in Frames, Kept(g)
       PROVE  Kept(g)'
  <2>1. \A j \in Slots : Left(j)' = Left(j)
    BY <1>1, <1>2, <1>5 DEF Left
  <2>2. CASE g = f /\ ~cast[i].sent
    BY <1>6, <2>2 DEF Kept
  <2>3. CASE g # f \/ cast[i].sent
    BY <1>1, <1>2, <1>3, <1>5, <1>6, <1>10, <2>1, <2>3 DEF Kept
  <2> QED
    BY <2>2, <2>3
<1>11. SentIsKept'
  BY <1>1, <1>2, <1>5, <1>10, KeptKeeps
<1> QED
  BY <1>7, <1>8, <1>9, <1>11 DEF IInv

\* The network and the controller only touch the state of a tunnel.
LEMMA NetworkKeepsIInv ==
  ASSUME IInv, Network
  PROVE  IInv'
<1>1. UNCHANGED <<slotVars, used, queue, orphans, cast, next, history>>
  BY DEF Network, Die, SetState
<1>2. live' \subseteq live /\ active' \subseteq live'
  BY DEF Network, Die, SetState, IInv, TypeOK
<1>3. TypeOK'
  BY <1>1, <1>2 DEF IInv, TypeOK
<1>4. Held' /\ LiveListed' /\ OnlyLateSendsStrand'
  BY <1>1, <1>2 DEF IInv, Held, Busy, LiveListed, OnlyLateSendsStrand, Listed, Retired
<1>5. SentIsKept'
  BY <1>1 DEF IInv, SentIsKept, Kept, Left
<1> QED
  BY <1>3, <1>4, <1>5 DEF IInv

\* Every step of the pool keeps the invariant.
LEMMA NextIInv == IInv /\ [Next]_vars => IInv'
<1> SUFFICES ASSUME IInv, [Next]_vars
             PROVE  IInv'
  OBVIOUS
<1>1. ASSUME NEW p \in Procs, Sending(p)
      PROVE  IInv'
  BY <1>1, CheckKeepsIInv, QueueKeepsIInv, RefuseKeepsIInv DEF Sending
<1>2. ASSUME NEW i \in Slots, Dial(i) \/ Tending(i) \/ Write(i)
      PROVE  IInv'
  BY <1>2, DialKeepsIInv, TakeOrphansKeepsIInv, DrainNextKeepsIInv, DrainedKeepsIInv,
     DrainFailsKeepsIInv, RunKeepsIInv, WriteKeepsIInv, RetireKeepsIInv,
     RescueKeepsIInv, RescuedKeepsIInv, RescueEndsKeepsIInv DEF Tending
<1>3. CASE UNCHANGED vars
  <2>1. UNCHANGED <<slotVars, connVars, queue, orphans, cast, next, history>>
    BY <1>3 DEF vars
  <2> QED
    BY <2>1 DEF IInv, TypeOK, Held, Busy, LiveListed, OnlyLateSendsStrand, Listed,
        Retired, SentIsKept, Kept, Left
<1> QED
  BY <1>1, <1>2, <1>3, SendDataKeepsIInv, NetworkKeepsIInv DEF Next
-----------------------------------------------------------------------------
\* The invariant holds whatever the tunnels do.
THEOREM Invariance == Spec => []IInv
<1>1. Init => IInv
  BY InitIInv
<1>2. IInv /\ [Next]_vars => IInv'
  BY NextIInv
<1> QED
  BY <1>1, <1>2, PTL DEF Spec

\* The pool's fields keep their ranges: no channel holds more than its depth,
\* and a slot has a tunnel unless it dials.
THEOREM TypeCorrect == Spec => []TypeOK
<1>1. IInv => TypeOK
  BY DEF IInv
<1> QED
  BY <1>1, Invariance, PTL

\* rescueFrames leaves nothing in the channel of a tunnel that is gone, but
\* what a Send that had looked before the Close puts there afterwards.
THEOREM StrandedAreLate == Spec => []OnlyLateSendsStrand
<1>1. IInv => OnlyLateSendsStrand
  BY DEF IInv
<1> QED
  BY <1>1, Invariance, PTL

\* However many goroutines drain, put back and rescue beside each other, a
\* frame SendData reported sent is somewhere in the pool or has a known fate.
THEOREM NothingForgotten == Spec => []Accounted
<1>1. IInv => Accounted
  <2> SUFFICES ASSUME IInv, NEW f \in carried
               PROVE  f \in InTunnels \cup InPool \cup InHands \cup written \cup lost
    BY DEF Accounted
  <2>1. Kept(f)
    BY DEF IInv, SentIsKept
  <2>2. ASSUME NEW i \in Slots
        PROVE  Range(Left(i)) \subseteq Range(batch[i])
    <3>1. CASE Left(i) = batch[i]
      BY <3>1
    <3>2. CASE Left(i) # batch[i]
      <4>1. cast[i].sent /\ worker[i] = "drain" /\ Left(i) = Tail(batch[i])
        BY <3>2 DEF Left
      <4>2. batch[i] # <<>> /\ batch[i] \in Seq(Frames)
        BY <4>1, EmptyHanded DEF IInv, Held, TypeOK
      <4> QED
        BY <4>1, <4>2, ReceiveRange
    <3> QED
      BY <3>1, <3>2
  <2> QED
    BY <2>1, <2>2 DEF Kept, InTunnels, InPool, InHands
<1> QED
  BY <1>1, Invariance, PTL
=============================================================================
