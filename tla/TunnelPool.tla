------------------------------ MODULE TunnelPool ------------------------------
(***************************************************************************)
(* internal/mppool/pool.go on the sending side, under Session.SendData of  *)
(* internal/mphub/hub.go: one application goroutine broadcasts the DATA    *)
(* frames of a session, one maintainSlot goroutine per slot dials, drains  *)
(* the orphans into the new tunnel, runs it, and rescues what is left in   *)
(* its queue when it dies.  Send reads State and done, and only then       *)
(* selects between done and sendCh: the two are separate steps here.       *)
(* Tunnels are used once; how many there are bounds the reconnects.        *)
(***************************************************************************)
EXTENDS Naturals, Sequences, FiniteSets, Functions

CONSTANTS Slots, Tunnels,
          App,              \* the goroutine in SendData
          None,             \* no tunnel
          MaxFrame,         \* the session sends the frames 1..MaxFrame
          Depth,            \* sendBufferDepth
          MaxOrphans        \* maxOrphans

ASSUME PoolAssumption ==
    /\ MaxFrame \in Nat \ {0} /\ Depth \in Nat \ {0} /\ MaxOrphans \in Nat
    /\ App \notin Slots /\ None \notin Tunnels

VARIABLES worker,           \* where maintainSlot is, per slot
          tunnel,           \* the tunnel it looks after, or None
          batch,            \* the orphans drainOrphans still has to send
          used, live,       \* tunnels dialled so far; those with done open
          active,           \* live tunnels in StateActive
          queue,            \* sendCh, per tunnel
          orphans,          \* Pool.orphans
          cast,             \* the Broadcast or Send a goroutine is in
          next,             \* the frame the session sends next
          carried,          \* history: SendData reported it sent
          written,          \* history: a writer put it on its connection
          lost,             \* history: rescued with no room among the orphans
          late              \* history: queued after the tunnel's done closed

slotVars == <<worker, tunnel, batch>>
connVars == <<used, live, active>>
history  == <<carried, written, lost, late>>
vars == <<slotVars, connVars, queue, orphans, cast, next, history>>

Frames == 1..MaxFrame
Procs  == Slots \cup {App}

Idle == [frame |-> 0, todo |-> {}, at |-> None, sent |-> FALSE]
Busy(p) == cast[p] # Idle

\* snapshot: the tunnels in p.slotted.
ListsEmptySlots == {tunnel[i] : i \in Slots}                  \* mutant
Listed == {tunnel[i] : i \in {j \in Slots : worker[j] \in {"up", "drain", "run"}}}

Init == /\ worker = [i \in Slots |-> "dial"]
        /\ tunnel = [i \in Slots |-> None]
        /\ batch = [i \in Slots |-> <<>>]
        /\ used = {} /\ live = {} /\ active = {}
        /\ queue = [t \in Tunnels |-> <<>>]
        /\ orphans = <<>>
        /\ cast = [p \in Procs |-> Idle]
        /\ next = 1
        /\ carried = {} /\ written = {} /\ lost = {} /\ late = {}
-----------------------------------------------------------------------------
(* Send, tunnel by tunnel, of whatever goroutine is in it.                 *)

Begin(p, f, targets) ==
    cast' = [cast EXCEPT ![p] = [frame |-> f, todo |-> targets, at |-> None,
                                 sent |-> FALSE]]

Finish(p) == cast' = [cast EXCEPT ![p] = Idle]

Done(p) == Busy(p) /\ cast[p].todo = {} /\ cast[p].at = None

\* The first half of Send: Active, and not torn down yet.
Check(p) ==
    /\ Busy(p) /\ cast[p].at = None
    /\ \E t \in cast[p].todo :
          cast' = [cast EXCEPT ![p].todo = @ \ {t},
                               ![p].at = IF t \in active THEN t ELSE None]
    /\ UNCHANGED <<slotVars, connVars, queue, orphans, next, history>>

\* The select queues the frame if there is room.  With done closed meanwhile
\* both cases are ready and either is taken.
HasRoom(t) == Len(queue[t]) < Depth

Queue(p) ==
    LET t == cast[p].at IN
    /\ Busy(p) /\ t # None /\ HasRoom(t)
    /\ queue' = [queue EXCEPT ![t] = Append(@, cast[p].frame)]
    /\ cast' = [cast EXCEPT ![p].at = None, ![p].sent = TRUE]
    /\ late' = IF t \in live THEN late ELSE late \cup {<<t, cast[p].frame>>}
    /\ UNCHANGED <<slotVars, connVars, orphans, next, carried, written, lost>>

Refuse(p) ==
    LET t == cast[p].at IN
    /\ Busy(p) /\ t # None /\ (~HasRoom(t) \/ t \notin live)
    /\ cast' = [cast EXCEPT ![p].at = None]
    /\ UNCHANGED <<slotVars, connVars, queue, orphans, next, history>>
-----------------------------------------------------------------------------
(* SendData: broadcast, and again 100 ms later while no tunnel took it.    *)

Broadcast ==
    /\ ~Busy(App) /\ next \in Frames
    /\ Begin(App, next, Listed)
    /\ UNCHANGED <<slotVars, connVars, queue, orphans, next, history>>

Sent ==
    /\ Done(App) /\ cast[App].sent
    /\ Finish(App)
    /\ carried' = carried \cup {cast[App].frame}
    /\ next' = next + 1
    /\ UNCHANGED <<slotVars, connVars, queue, orphans, written, lost, late>>

Retry ==
    /\ Done(App) /\ ~cast[App].sent
    /\ Begin(App, next, Listed)
    /\ UNCHANGED <<slotVars, connVars, queue, orphans, next, history>>

\* 30 s have passed, or the session is closed: the pump stops sending.
GiveUp ==
    /\ Done(App) /\ ~cast[App].sent
    /\ Finish(App)
    /\ next' = MaxFrame + 1
    /\ UNCHANGED <<slotVars, connVars, queue, orphans, history>>
-----------------------------------------------------------------------------
(* maintainSlot.                                                           *)

\* A dial succeeds after some backoff: the tunnel is listed, and Active.
Dial(i) ==
    /\ worker[i] = "dial"
    /\ \E t \in Tunnels \ used :
          /\ tunnel' = [tunnel EXCEPT ![i] = t]
          /\ used' = used \cup {t} /\ live' = live \cup {t}
          /\ active' = active \cup {t}
    /\ worker' = [worker EXCEPT ![i] = "up"]
    /\ UNCHANGED <<batch, queue, orphans, cast, next, history>>

TakeOrphans(i) ==
    /\ worker[i] = "up"
    /\ worker' = [worker EXCEPT ![i] = "drain"]
    /\ batch' = [batch EXCEPT ![i] = orphans]
    /\ orphans' = <<>>
    /\ UNCHANGED <<tunnel, connVars, queue, cast, next, history>>

DrainNext(i) ==
    /\ worker[i] = "drain" /\ ~Busy(i) /\ batch[i] # <<>>
    /\ Begin(i, Head(batch[i]), {tunnel[i]})
    /\ UNCHANGED <<slotVars, connVars, queue, orphans, next, history>>

Drained(i) ==
    /\ worker[i] = "drain" /\ Done(i) /\ cast[i].sent
    /\ Finish(i)
    /\ batch' = [batch EXCEPT ![i] = Tail(@)]
    /\ UNCHANGED <<worker, tunnel, connVars, queue, orphans, next, history>>

\* The tunnel refused a frame: it goes back with those after it.
DropsRefused(i) == Tail(batch[i]) \o orphans                 \* mutant
PutBack(i)      == batch[i] \o orphans

DrainFails(i) ==
    /\ worker[i] = "drain" /\ Done(i) /\ ~cast[i].sent
    /\ Finish(i)
    /\ orphans' = PutBack(i)
    /\ batch' = [batch EXCEPT ![i] = <<>>]
    /\ UNCHANGED <<worker, tunnel, connVars, queue, next, history>>

Run(i) ==
    /\ worker[i] = "drain" /\ ~Busy(i) /\ batch[i] = <<>>
    /\ worker' = [worker EXCEPT ![i] = "run"]
    /\ UNCHANGED <<tunnel, batch, connVars, queue, orphans, cast, next, history>>

\* runTunnel's writer.  It too may pick sendCh with done already closed.
WritesIfActive(i) == worker[i] = "run" /\ tunnel[i] \in active    \* mutant
Writes(i)         == worker[i] = "run"

Write(i) ==
    LET t == tunnel[i] IN
    /\ Writes(i) /\ queue[t] # <<>>
    /\ written' = written \cup {Head(queue[t])}
    /\ queue' = [queue EXCEPT ![t] = Tail(@)]
    /\ UNCHANGED <<slotVars, connVars, orphans, cast, next, carried, lost, late>>

\* reader, writer and pinger have returned: the tunnel leaves the list.
Retire(i) ==
    /\ worker[i] = "run" /\ tunnel[i] \notin live
    /\ worker' = [worker EXCEPT ![i] = "rescue"]
    /\ UNCHANGED <<tunnel, batch, connVars, queue, orphans, cast, next, history>>

Rescue(i) ==
    LET t == tunnel[i] IN
    /\ worker[i] = "rescue" /\ ~Busy(i) /\ queue[t] # <<>>
    /\ Begin(i, Head(queue[t]), Listed)
    /\ queue' = [queue EXCEPT ![t] = Tail(@)]
    /\ UNCHANGED <<slotVars, connVars, orphans, next, history>>

Rescued(i) ==
    /\ worker[i] = "rescue" /\ Done(i)
    /\ Finish(i)
    /\ LET f == cast[i].frame IN
       \/ cast[i].sent /\ UNCHANGED <<orphans, lost>>
       \/ /\ ~cast[i].sent /\ Len(orphans) < MaxOrphans
          /\ orphans' = Append(orphans, f) /\ UNCHANGED lost
       \/ /\ ~cast[i].sent /\ Len(orphans) >= MaxOrphans
          /\ lost' = lost \cup {f} /\ UNCHANGED orphans
    /\ UNCHANGED <<slotVars, connVars, queue, next, carried, written, late>>

StopsEarly(i)  == TRUE                                       \* mutant
NothingLeft(i) == queue[tunnel[i]] = <<>>

RescueEnds(i) ==
    /\ worker[i] = "rescue" /\ ~Busy(i) /\ NothingLeft(i)
    /\ worker' = [worker EXCEPT ![i] = "dial"]
    /\ tunnel' = [tunnel EXCEPT ![i] = None]
    /\ UNCHANGED <<batch, connVars, queue, orphans, cast, next, history>>
-----------------------------------------------------------------------------
(* The network, and the adaptive controller.                               *)

\* A read or a write fails, or a SendAlways finds sendCh full.
Die(t) == /\ t \in live
          /\ live' = live \ {t} /\ active' = active \ {t}
          /\ UNCHANGED <<slotVars, used, queue, orphans, cast, next, history>>

SetState(t) ==
    /\ t \in Listed \cap live
    /\ active' = IF t \in active THEN active \ {t} ELSE active \cup {t}
    /\ UNCHANGED <<slotVars, used, live, queue, orphans, cast, next, history>>
-----------------------------------------------------------------------------
Sending(p)  == Check(p) \/ Queue(p) \/ Refuse(p)
SendData    == Broadcast \/ Sent \/ Retry \/ GiveUp
Tending(i)  == \/ TakeOrphans(i) \/ DrainNext(i) \/ Drained(i) \/ DrainFails(i)
               \/ Run(i) \/ Retire(i) \/ Rescue(i) \/ Rescued(i) \/ RescueEnds(i)
Network     == \E t \in Tunnels : Die(t) \/ SetState(t)

Next == \/ \E p \in Procs : Sending(p)
        \/ SendData
        \/ \E i \in Slots : Dial(i) \/ Tending(i) \/ Write(i)
        \/ Network

\* The goroutines run; nothing makes a tunnel die, recover or change state.
Fairness == /\ \A p \in Procs : WF_vars(Sending(p))
            /\ WF_vars(Broadcast \/ Sent)
            /\ \A i \in Slots : WF_vars(Tending(i)) /\ WF_vars(Write(i))

Spec == Init /\ [][Next]_vars /\ Fairness
-----------------------------------------------------------------------------
(* Properties.                                                             *)

Phases == {"dial", "up", "drain", "run", "rescue"}

\* The pool's fields; a worker holds a tunnel unless it is dialling.
TypeOK == /\ worker \in [Slots -> Phases]
          /\ tunnel \in [Slots -> used \cup {None}]
          /\ \A i \in Slots : worker[i] = "dial" <=> tunnel[i] = None
          /\ batch \in [Slots -> Seq(Frames)]
          /\ used \subseteq Tunnels /\ live \subseteq used /\ active \subseteq live
          /\ queue \in [Tunnels -> Seq(Frames)]
          /\ \A t \in Tunnels : Len(queue[t]) <= Depth
          /\ orphans \in Seq(Frames)
          /\ cast \in [Procs -> [frame : 0..MaxFrame, todo : SUBSET used,
                                 at : used \cup {None}, sent : BOOLEAN]]
          /\ next \in 1..(MaxFrame + 1)
          /\ carried \subseteq Frames /\ written \subseteq Frames
          /\ lost \subseteq Frames /\ late \subseteq Tunnels \X Frames

InTunnels == UNION {Range(queue[t]) : t \in Tunnels}
InPool    == (UNION {Range(batch[i]) : i \in Slots}) \cup Range(orphans)
InHands   == {cast[i].frame : i \in Slots}

\* A frame SendData reported sent is never forgotten by the pool: it is in a
\* queue, among the orphans, in a goroutine's hands, or has a known fate.
\* Drain, put-back and rescue run beside each other and lose none of it.
Accounted == carried \subseteq InTunnels \cup InPool \cup InHands
                                 \cup written \cup lost

Retired == used \ {tunnel[i] : i \in Slots}

\* Rescue leaves nothing behind: what is stuck in the queue of a tunnel that
\* is gone was put there by a Send that had passed its check before Close.
OnlyLateSendsStrand ==
    \A t \in Retired : \A f \in Range(queue[t]) : <<t, f>> \in late

Stranded == UNION {Range(queue[t]) : t \in Retired}

\* A frame that was sent does not rest in a queue, a batch or a goroutine:
\* a writer gets it, or it waits as an orphan, or there was no room for it
\* among them, or a late Send stranded it.
SentFramesSettle ==
    \A f \in Frames :
       f \in carried ~> f \in written \cup lost \cup Stranded \cup Range(orphans)
=============================================================================
