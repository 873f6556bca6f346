# XPlex: TLA+ models and proofs

XPlex sends every byte of a TCP session over several tunnels at once and puts
the copies together again at the other end. The modules here model the part of
it that is hard to get right: the reorder buffer, the tunnel pool, the adaptive
controller, the life of a session from one socket to the other, and how both of
its ends learn that it is over. TLC checks them on small instances. TLAPS proves
each safety property the passing runs check, invariant or action property, for
every size; liveness is model-checked only.

## The system

| Component | State | Operations | Talks to |
|---|---|---|---|
| `internal/mpdedup` buffer | next, pending, gapSince | Push, Flush | owned by a session's pump |
| `internal/mppool` pool | slotted and accepted tunnels, their sendCh, state and done, orphans | Send, SendAlways, Broadcast(Always), maintainSlot, drainOrphans, rescueFrames, runTunnel, AddConn, Close | connections; feeds the hub through inboundWithSrc |
| `internal/mphub` hub | sessions, win counters and their ring | dispatchLoop, deliver, creditWin, Register, livenessLoop, killAllSessions, Close | pool below, sessions above, `onUnknown` callback to the server |
| `internal/mphub` session | seqOut, closed, inboxCh, feedSeen, a buffer | SendData, SendControl, feed, DeliverData, FlushDedup, Close | pumps of frontend and server |
| `internal/mpserver` server | tombs | handleUnknown, runSession and its two pumps, tomb sweep | hub, destination sockets |
| `internal/mpfront` frontend | one goroutine group per client | SOCKS handshake, handle and its two pumps | hub, client sockets |
| `internal/mpadapt` controller | lastChange | evaluate | reads and resets the hub's counters, sets tunnel states |
| `cmd/xplex` | xray processes | supervisor, shutdown | all of the above |

A client socket is read by `pumpClientToHub`; `SendData` numbers the bytes and
broadcasts them over the Active tunnels, retrying while none takes them. HELLO
and CLOSE carry no number and go over all live tunnels. At the other end the
readers of all tunnels feed one channel and one dispatcher goroutine, which
blocks while a session's inbox is full. The session's pump pushes DATA through
the buffer and writes what comes out. The server opens a session at the first
HELLO, reads early DATA after its dial, and leaves a tomb for 30 s at the end.

Hard behaviours: `Send` checks a tunnel and queues into it in two steps while
the tunnel may die and be rescued between them; drains, rescues and broadcasts
of several goroutines meet in the same queues; the controller works on copies;
frames are lost, repeated and reordered across tunnels; CLOSE races DATA;
timers (gap, idle, tomb, kill, cooldown) race all of it; control frames die with
a tunnel and are not sent again; a server restarts without its session table;
one dispatcher serves every session and blocks on a socket nobody reads; shutdown closes channels others may still send on. `hazards` in
PROJECT.json lists them line by line.

Not modelled: frame and AEAD codecs, configuration, SOCKS5, link files, probes,
statistics, the xray runner, tools and test fakes. They are stateless, parse at
start-up, or only report. `mpcrypto` failures appear as tunnel deaths. The
intervals of timers (backoff of dials, the supervisor's delays, the 30 s before
a kill) are "sooner or later" everywhere: no property depends on their length.

## Modules

**OrderedStream** is what the receiving end promises: accepted frames come out
once, in order while the stream is open, and all of them when a CLOSE ends it.

**DedupBuffer** is `buffer.go`. A payload is its number. `Push` is six actions,
one for each way through it; `DrainsTo`, `SkipsTo` and `CanSkip` state what
`drainLocked` and `skipGapLocked` reach instead of their loops. `gap` says
whether `gapSince` is zero, younger or older than the timeout, and `Elapse` is
time passing. `ErrFull` ends the stream, as in both pumps. The mutex makes each
call one step. `delivered`, `accepted` and `refused` are history.
**DedupBufferLoss** puts the buffer at the end of a direction that lost some
frames for good.

**TunnelPool** is the sending side of `pool.go` under `SendData`. Each slot's
goroutine is a `worker` in one of "dial", "up", "drain", "run", "rescue";
`cast[p]` is the Broadcast or Send goroutine `p` is in the middle of, with
`Check` and `Queue`/`Refuse` its two halves. A tunnel is used once, so the
number of tunnels bounds the reconnects. `Die` stands for every way a tunnel
ends: a read or write error, the 90 s deadline, a full queue at `SendAlways`.
Only DATA is carried; PINGs and control frames are not rescued by the code. The
writer's buffer counts as the connection: `written` means handed to it.

**AdaptController** is `controller.go` with the counters of `hub.go`. A pass is
`Score` (copy the counters), one of `NoTunnels`, `RaiseToFloor`, `LowerToMax`,
`Swap`, `Keep` (look at tunnels and decide), `SetShadow`/`SetActive` one tunnel
at a time, and `Reset`. Credits, births and deaths happen between any two.
`active` is the state flag of every tunnel, dead ones included, which SetState
still writes; `Actives` and `Shadows` are `splitByState` of the live ones, and
`judged` is the actives the pass has found.
Sorting is stated as what it selects, ties open. The threshold is `Num/Den`.
`Win` is `creditWin`: the hub remembers the keys it credited in a ring, which
wraps after `RingSize` of them and is wiped with the counters, so a late copy of
an older frame is credited as new, as in the code. `latest` is history.

**Multipath** is one session in one direction, client to destination, and
composes DedupBuffer (as `Dedup`) with the frontend, the tunnels, the server's
hub and `runSession`. A tunnel is a FIFO from sendCh to the far reader, the
shared channel being merged into it. A Shadow and a full sendCh have the same
effect on DATA, so `Send` picks any nonempty set of live tunnels. CLOSE has two
ways out of `handle`: `HangUp` after the client's socket has ended, when no DATA
follows, and `ResponseEnds`, after which `CloseBy` takes the tunnels one by one
while the pump may `Send` on. `Die` keeps a prefix, loses a middle part and
rescues the DATA of the rest: what TunnelPool does in detail. A new tunnel is
listed by `TunnelUp` and drains the orphans only afterwards (`TakeOrphans`,
`DrainNext`, `PutBack`), so DATA and CLOSE may go ahead of them. `Lookup` and `Feed` are separate, because the dispatcher holds
a frame while the session it is for may close. `phase` is where `runSession`
is. A failed write is one way out of `TakeData`. Session contexts are not
cancelled here. `feedSeen` is pruned as in `feed`: with more than `MaxSeen`
numbers noted those below the new one less `Window` go, and the difference
wraps at `Wrap`. `given` (how far a tunnel was given the stream without a gap
before its CLOSE), `skipped`, `endedBy`, `killed`, `forgotten` are history.

**Duplex** is both ends of one session, and leaves the order of bytes to
Multipath: `phase`, `reading` and `writer` say where `handle` or `runSession`
and their two pumps are at the "client" and at the "server", `wire[e]` is what
is under way to an end, and one tunnel follows the other. What the ends share is
written once, with the end as a parameter; what differs are `Reject` and `Open`
on one side, `Greet`, the dial, `drainEarly`, `Acked`, the idle timer on the
other. `Die` loses what is under way, all or in one direction, except the DATA
that `rescueFrames` keeps as `orphans` for the next tunnel, which takes them as it
comes up, in any order; what may overtake them on the way is in Multipath. `Restart` is a crash
of the server: everything it holds is gone and the tunnel with it. A socket's
owner need not read (`writer` stays "writing") nor stop sending (`Chatter`).
`Leave` is the deferred `Session.Close` and the closing of the socket, which
ends both pumps. `silent` is history: the server's session ended in one of the
two ways that send nothing. A HELLO meets no tomb here, since only one copy of
it is under way.

**Shutdown** is how both programs stop: the supervisor and the end of
`runClient`, `Server.Run`, `Pool.Close`, `Hub.Close`, the slots, the readers of
slotted and accepted tunnels and the dispatcher. `stage` is where main is: the
deferred calls run last first, so the client closes hub, pool and xray, and the
server pool and hub. A frame is a count, a session is one that reads or does
not (`stalled`). A panic ends the process and is recorded in `panicked`; the
model does reach two of them, the send of an accepted tunnel's reader on the
closed channel and `Register` in the map that `Hub.Close` has set to nil. A
connection accepted between the cancel and `ln.Close` is left out.

In Multipath the response direction is only `DestDone`, its end as the upstream
sees it; Duplex has both directions.

## Runs

| Run | Bounds | Shows |
|---|---|---|
| dedup_buffer | 7 frames, capacity 3 | the buffer's invariants and that it implements OrderedStream |
| tunnel_pool | 2 slots, 2 tunnels, 2 frames, depth 2, 2 orphans | nothing sent is forgotten; only a late Send strands a frame; every sent frame settles |
| adapt | 3 tunnels, windows of 2 wins, 3 keys in a ring of 2, three settings | counters add up; the hub knows just what it credited last; no pass demotes below the floor it saw; bounds are reached under traffic |
| multipath | 2 tunnels, one of them late, 1 death, 2 frames, inbox 1, capacity 1, 2 sessions under one ID | the inbox takes first copies only, unless the number was forgotten; a CLOSE that ends the session comes after all its tunnel was given ahead of it |
| duplex | 1 DATA frame each way, inbox 1, 1 death or restart | dispatchers get free; without a fault, the server's last word is on its way or the client ends anyway; each end learns of the other's end, or a named exception holds for ever; a dead pool is noticed |
| shutdown | client or server, 2 slots, 2 accepted tunnels, channel of 1 | no slot sends on the closed channel; no tunnel outlives Pool.Close; the program ends unless one of three conditions holds for ever |

Seven frames at a capacity of three fill the buffer, leave two gaps, recover
from full and still have a frame behind the delivery point. Two slots are the
least for a rescue to meet a drain, two frames and two places for orphans for a
drain to fail in the middle of its batch. In Multipath two frames and a
capacity of one let a frame wait for another, be flushed past it, and find the
buffer full; a third frame that finds the timer expired is dedup_buffer's
matter. One death is enough to lose a copy that the other tunnel carries whole.
With MaxSeen = 1 and Window = 2 frame 1 arriving late makes the subtraction
wrap and every number is forgotten. With an inbox of one and the frame the
dispatcher holds, two frames wait to be taken. Two constraints (MultipathMC)
keep that run small without hiding anything the properties look at: it stops
once the last session is over, and a tunnel that finds no orphans has not
looked yet, which is all that a vain look would change. Three keys in a ring of
two let the first be overwritten and credited again. In Duplex one DATA frame
fills an inbox of one, so that the CLOSE behind it is held by the dispatcher;
one fault and one new tunnel are the least for a frame to die and for the ends
to be connected again afterwards. Two workers on a channel of one make a reader
wait in its select while Close runs. MaxWins, MaxFrame, MaxDials, MaxDeaths and
the sets of tunnels bound what the code does not; a tomb expires only while a
dial is left to be wrongly made.

Runs that TLC refutes, each against a sentence of the repository:

- dedup_order: a full buffer skips the gap and then stores the new frame, even
  one behind `next`; `Flush` hands it out last. InOrderWhileOpen shows that
  this is the only way: before the flush the order holds. Meanwhile the frame
  behind `next` is the lowest one waiting, and `skipGapLocked` returns nothing
  however long the gap lasts ("shouldn't happen", buffer.go:149-151).
  ExpiredGapMoves says exactly when: with such a frame waiting, only the frame
  `next` itself delivers anything.
- dedup_stall: the timer is looked at only when a new frame is pushed.
- adapt_swap: a swap needs more than MinActive Active tunnels, and the rule for
  MaxActive returns first when there are more than that. With DefaultConfig, 2
  and 2, the only setting the program uses, a Shadow that pass after pass finds
  better than an Active tunnel never returns unless an Active one dies.
- zero_visible_loss: a CLOSE on one tunnel overtakes DATA on another. No tunnel
  fails in the run. CloseKeepsItsPlace is what does hold.
- killed_cleanly: `Session.Close` returns early for a killed session, so it is
  never unregistered.
- never_hangs: the tunnel is down when the server's dial fails; the refusal goes
  nowhere, the tunnel comes back, and the client waits for ever. EndIsTold and
  DeadPoolIsNoticed are what does hold: nothing hangs while no tunnel dies, nor
  when all stay dead.

The bound of the orphan queue does not hold either: `drainOrphans` puts a batch
back on top of what was rescued meanwhile (pool.go:361). No property states it.
Nor is there a run for the floor of the controller: controller.go:6-7 has every
tunnel Active below MinActive "no matter its score", but `evaluate` returns
before that rule under MinFrames frames, and with no Active tunnel there are no
frames to count. Converges holds because it assumes traffic. And the wins
credited between `WinStats` and `ResetWinStats` are thrown away; WinsAddUp only
says that the counters agree.

## Fairness

Deadlock checking is off where a system may simply be done: the frames, wins,
tunnels and dials are bounded. TunnelPool: weak fairness for each goroutine in
Send, in maintainSlot and in the writer, none for dialling, deaths or giving
up. DedupBufferLoss: the clock, and the arrival of what was not lost.
AdaptController: the ticker's goroutine and the cooldown; `Spec` adds traffic
while `Quiet` does not. Multipath: the dispatcher once it holds a frame, and
`runSession`, whose dial and waits all have timeouts; nothing forces the client
or the network. Duplex: each program as a whole goes on while it can, the expiry
of its timers included, which is enough because each of its steps uses up a
frame, a phase or a timer. Socket owners, new tunnels and faults are free: the
exceptions in DispatcherMovesOn and ServerFollows (a destination that never
reads its early frames, or sends for ever without reading) and the condition
`Deaf` are about owners, whom no timeout of the code ends. Shutdown: every goroutine, and main after a signal. Where a
select takes one of several ready cases at random, and where a blocked send is
woken by the next receive, the fairness is strong. XrayExits, Break and the
application's reading are never forced; `Stuck` in StopsUnlessStuck names
exactly those three, and without any one of them TLC refutes the property.

## Proofs

Every theorem is of the form `Spec => []Inv` or `Spec => [][A]_vars`, proved by
an inductive invariant `IInv` of its module (theorem Invariance), except
Refinement, which maps steps. The constants are only assumed to be what their
`ASSUME` says: positive sizes, finite sets of tunnels, and the one restriction
named below. `SequenceFacts` has the lemmas on queues that the proofs share:
which elements `Append`, `Head`, `Tail` and `\o` put into one or leave there.

| Module | Theorem | Property |
|---|---|---|
| DedupBufferProofs | TypeCorrect, Bounded, Once, Conservation, Ordered | TypeOK, BacklogBounded, ExactlyOnce, NothingDropped, InOrderWhileOpen |
| | FlushOrdered, NeverSkipsEarly, SkipsAreGaps, ExpiryMoves | FlushKeepsOrder, NoEarlySkip, SkipsOnlyMissing, ExpiredGapMoves |
| | Refinement | StreamSpec |
| TunnelPoolProofs | TypeCorrect, StrandedAreLate, NothingForgotten | TypeOK, OnlyLateSendsStrand, Accounted |
| AdaptControllerProofs | TypeCorrect, RingIsRecent, RatesAreShares | TypeOK, KnowsTheLatest, WinsAddUp |
| | FloorKept, DemotionsJustified | DemotionKeepsFloor, DemotionHasReason |
| MultipathProofs | TypeCorrect, FirstCopies, CloseInPlace | TypeOK, FirstCopyOnly, CloseKeepsItsPlace |
| DuplexProofs | TypeCorrect, WordsAreSent | TypeOK, WordIsUnderWay |
| ShutdownProofs | TypeCorrect, SlotsSafe, TunnelsEnd | TypeOK, SlotsNeverPanic, NoTunnelOutlivesPool |

**DedupBufferProofs.** The invariants are not inductive alone. What makes them
so is the position of the delivery point: while the stream is open everything
delivered lies below `next`, so a run that starts there cannot repeat or precede
it, and nothing delivered is pending. Each action appends a run of consecutive
numbers from `next` or beyond; lemmas about such runs and about concatenation
carry the order, the injectivity and the range. The recovery of a full buffer
appends two runs, joined at the same point. The refinement follows action by
action: pushes are `Deliver` or stutter, ErrFull is `Break`, Flush is `Finish`.
The action properties follow from the same invariant, a step at a time.

**TunnelPoolProofs.** Accounted is not inductive: a frame can be in the hand of
two goroutines, a drain and a broadcast, say, and each could vouch for the
other's copy while both drop theirs. `SentIsKept` says where a frame is kept
*for certain*: in a channel, with the writer, among the orphans, in a batch that
no tunnel has just taken the head of, or in the hand of a goroutine no tunnel
has taken it from. `Held` ties a goroutine's frame to its batch, `LiveListed`
says that a live tunnel has a slot that will rescue it, and OnlyLateSendsStrand
that a channel left behind is empty but for late Sends. A step moves a frame
from one of these places to the next, and only the want of room for orphans
adds it to `lost`.

**AdaptControllerProofs.** `RingHolds` says which place of the ring holds which
of the latest credits, before and after it wraps, so that evicting the oldest
keeps set and ring equal. WinsAddUp counts `Tally`, the wins one by one, so that
no sum is recursive. `PassHolds` says what a pass knows: it demotes at most one
tunnel, only while more than MinActive of those it looked at still serve or have
died since, and it has a reason. This needs `FloorBelowCap`: MaxActive
is 0 or not below MinActive. `Run` does not check that; the program calls it
with DefaultConfig, 2 and 2 (`cmd/xplex/main.go:211`). With a cap under the floor
LowerToMax would demote below the floor and the property be false.

**MultipathProofs** uses the buffer's proofs: the session's calls are shown to
be steps of DedupBuffer, so its `IInv` carries over as a conjunct
(`Buffer == INSTANCE DedupBufferProofs`). FirstCopyOnly needs `Remembered`: what
waits or was accepted is in `feedSeen` or was pruned. CloseKeepsItsPlace
needs most: `Underway` says that while the first session runs, each tunnel still
carries every frame of `given` that has not arrived, ahead of its CLOSE if that
is on it too, and the inbox likewise; `Unannounced` that a tunnel the broadcast
of CLOSE has yet to reach carries none, so that what a pump sends meanwhile goes
ahead of it; `InStep` that without a skip the delivered stream is a beginning of
what was sent, with nothing stored that could have come out; `Authentic` that
only sent frames are about, `Fresh` that nothing is before the first session,
`Present` that the dispatcher never carries a frame from one session into the
next. When the CLOSE that ends the session is taken, every frame its tunnel was
given ahead of it has been accepted, and a buffer with all of a beginning has
delivered it.

**DuplexProofs.** `Handled` says where the handlers can be and that a session
that has one is in the hub. `Unbroken` is what no fault has disturbed: the
client's session is closed by nobody but its handler, nothing is on its way to
the server before HELLO and no end before the client is ending, and a server
that is ending has told the client (`Told`) unless it ended silently. Without the
clause about ends before the client's own, a CLOSE that came from nowhere
would let the server end without a word.

**ShutdownProofs.** Its `IInv` adds what Close relies on: the channel is closed
only after the slots are gone, an accepted tunnel that is up while the pool
closes is in the snapshot (AddConn and Close run in one goroutine), and only a
running worker has a tunnel.

Only model-checked, because liveness under fairness is out of the prover's reach:
SentFramesSettle, Converges, DispatcherMovesOn, ServerFollows, EndIsTold,
DeadPoolIsNoticed and StopsUnlessStuck; and, by their nature, the six
counterexamples. WordIsUnderWay is the safety half of EndIsTold: the word is on
its way, and that it arrives is the part under fairness.

## Plan

1. Done: OrderedStream, DedupBuffer, TunnelPool, AdaptController with the ring,
   Multipath with the pruning, Duplex, Shutdown, and proofs of each safety
   property the passing runs check.
2. Next: an abstract specification of the pool for one frame (accepted, then
   written or lost) with TunnelPool as its refinement; safety halves of
   the other liveness properties of Duplex under faults (who may still learn of
   the end by what); lemmas that bound `orphans` per drain.
3. Not planned: the lengths of backoffs and delays, and several sessions behind
   one dispatcher with back-pressure into the tunnels. DispatcherMovesOn already
   says when one session can hold up the others.
