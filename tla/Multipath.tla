------------------------------ MODULE Multipath ------------------------------
(***************************************************************************)
(* One session from the client's socket to the destination's: the frontend *)
(* (internal/mpfront/frontend.go) broadcasts HELLO, DATA and CLOSE over    *)
(* the tunnels, the server's hub (internal/mphub/hub.go) hands what        *)
(* arrives to the session or to handleUnknown, and runSession              *)
(* (internal/mpserver/server.go) dials, drains, pumps, closes and leaves a *)
(* tomb.  The buffer of a session is DedupBuffer.  A tunnel is a FIFO from *)
(* sendCh to the reader at the other end; TunnelPool has the inside of it. *)
(***************************************************************************)
EXTENDS Integers, Sequences, FiniteSets, Functions

CONSTANTS Tunnels,
          Initial,          \* the tunnels that are up at the start
          MaxFrame,         \* bound: the client has the frames 1..MaxFrame
          InboxSize,        \* SessionConfig.InboxBufferSize
          Cap,              \* SessionConfig.DedupCap
          MaxSeen, Window,  \* feed's 1024 and 512
          Wrap,             \* 2^64: sequence numbers are 64 bits wide
          MaxDials,         \* bound: sessions opened under the one ID
          MaxDeaths         \* bound: tunnels that die

ASSUME MultipathAssumption ==
    /\ Initial \subseteq Tunnels /\ Initial # {}
    /\ MaxFrame \in Nat \ {0} /\ InboxSize \in Nat \ {0} /\ Cap \in Nat \ {0}
    /\ MaxSeen \in Nat /\ Window \in Nat /\ Wrap \in Nat /\ Wrap > MaxFrame
    /\ MaxDials \in Nat \ {0} /\ MaxDeaths \in Nat

VARIABLES client,           \* "new", "open", "closed" or "ending"
          sent,             \* seqOut: frames SendData has sent
          closing,          \* tunnels the broadcast of CLOSE has yet to reach
          used, live,       \* tunnels ever up; tunnels up
          wire,             \* what a tunnel still carries to the server
          orphans,          \* rescued frames no tunnel took
          arriving, batch,  \* tunnels yet to call drainOrphans; what it took
          greeted,          \* history: tunnels given HELLO
          given,            \* history: they were given 1..given[t], then CLOSE
          held,             \* the frame deliver has for a session, or Nothing
          phase,            \* where runSession is
          registered,       \* the session is in Hub.sessions
          closed,           \* Session.closed, doneCh
          killed,           \* history: by killAllSessions
          inbox, feedSeen,  \* Session.inboxCh, feedSeen
          forgotten,        \* history: numbers feedSeen has dropped
          dials,            \* sessions opened so far
          burying,          \* an ended runSession has yet to call tomb
          tomb,             \* an unexpired tomb for the ID
          endedBy,          \* history: the tunnel whose CLOSE ended it, or "none"
          skipped,          \* history: the buffer gave up a missing frame
          next, pending, gap, stream, delivered, accepted, refused

clientVars  == <<client, sent, closing>>
tunnelVars  == <<used, live>>
orphanVars  == <<orphans, arriving, batch>>
givenVars   == <<greeted, given>>
pathVars    == <<wire, orphanVars, givenVars>>
sessionVars == <<registered, closed, killed>>
inboxVars   == <<held, inbox, feedSeen, forgotten>>
tombVars    == <<burying, tomb>>
bufferVars  == <<next, pending, gap, stream, delivered, accepted, refused>>
fateVars    == <<endedBy, skipped>>
serverVars  == <<sessionVars, inboxVars, phase, dials, tombVars, fateVars, bufferVars>>
vars == <<clientVars, tunnelVars, pathVars, serverVars>>

Dedup == INSTANCE DedupBuffer WITH MaxSeq <- MaxFrame

Frames  == 1..MaxFrame
Types   == {"none", "hello", "data", "close"}
Hello   == [type |-> "hello", seq |-> 0]
Close   == [type |-> "close", seq |-> 0]
Data(n) == [type |-> "data", seq |-> n]

\* What deliver holds: a frame, the tunnel it came by (only of a CLOSE does
\* it matter) and the session it was looked up for.
From(m, t) == [type |-> m.type, seq |-> m.seq, to |-> dials,
               src |-> IF m = Close THEN t ELSE "none"]
Nothing    == [type |-> "none", seq |-> 0, to |-> 0, src |-> "none"]

Init == /\ client = "new" /\ sent = 0 /\ closing = {}
        /\ used = Initial /\ live = Initial
        /\ wire = [t \in Tunnels |-> <<>>] /\ orphans = <<>>
        /\ arriving = {} /\ batch = [t \in Tunnels |-> <<>>]
        /\ greeted = {} /\ given = [t \in Tunnels |-> 0]
        /\ held = Nothing /\ phase = "over"
        /\ registered = FALSE /\ closed = FALSE /\ killed = FALSE
        /\ inbox = <<>> /\ feedSeen = {} /\ forgotten = {}
        /\ dials = 0 /\ burying = FALSE /\ tomb = FALSE
        /\ endedBy = "none" /\ skipped = FALSE
        /\ next = 1 /\ pending = {} /\ gap = "none" /\ stream = "open"
        /\ delivered = <<>> /\ accepted = {} /\ refused = 0
-----------------------------------------------------------------------------
(* The frontend.                                                           *)

Put(m, S) == wire' = [t \in Tunnels |-> IF t \in S THEN Append(wire[t], m)
                                                   ELSE wire[t]]

Open == /\ client = "new" /\ live # {}
        /\ client' = "open" /\ greeted' = live
        /\ Put(Hello, live)
        /\ UNCHANGED <<sent, closing, given, tunnelVars, orphanVars, serverVars>>

\* Broadcast passes over Shadows and tunnels whose sendCh is full; SendData
\* repeats it until at least one tunnel takes the frame.  The pump that
\* calls it may go on for 2 s after the CLOSE of a response that has ended.
BeforeClose(t) == client = "open" \/ t \in closing
Extends(t)     == t \in greeted /\ given[t] = sent /\ BeforeClose(t)

Send == /\ client \in {"open", "ending"} /\ sent < MaxFrame
        /\ \E S \in SUBSET live \ {{}} :
              /\ Put(Data(sent + 1), S)
              /\ given' = [t \in Tunnels |-> IF t \in S /\ Extends(t) THEN sent + 1
                                                                     ELSE given[t]]
        /\ sent' = sent + 1
        /\ UNCHANGED <<client, closing, greeted, tunnelVars, orphanVars, serverVars>>

\* The client's socket is at its end, or SendData gave up: CLOSE is the last
\* that goes through every tunnel.
HangUp == /\ client = "open" /\ client' = "closed"
          /\ Put(Close, live)
          /\ UNCHANGED <<sent, closing, tunnelVars, orphanVars, givenVars, serverVars>>

\* The response direction has ended: CLOSE goes through the tunnels one by
\* one while the pump that reads the client's socket may still send.
ResponseEnds == /\ client = "open" /\ client' = "ending"
                /\ closing' = live
                /\ UNCHANGED <<sent, tunnelVars, pathVars, serverVars>>

CloseBy(t) == /\ t \in closing /\ closing' = closing \ {t}
              /\ Put(Close, {t})
              /\ UNCHANGED <<client, sent, tunnelVars, orphanVars, givenVars, serverVars>>
-----------------------------------------------------------------------------
(* The tunnels.                                                            *)

\* The tunnel is listed before drainOrphans looks at the orphans: what is
\* broadcast meanwhile goes ahead of them.
TunnelUp(t) ==
    /\ t \notin used
    /\ used' = used \cup {t} /\ live' = live \cup {t}
    /\ arriving' = arriving \cup {t}
    /\ UNCHANGED <<clientVars, wire, orphans, batch, givenVars, serverVars>>

TakeOrphans(t) ==
    /\ t \in arriving /\ arriving' = arriving \ {t}
    /\ batch' = [batch EXCEPT ![t] = orphans] /\ orphans' = <<>>
    /\ UNCHANGED <<clientVars, tunnelVars, wire, givenVars, serverVars>>

\* Send takes the next of them, or it is full, a Shadow or dead, and the
\* rest goes back.
DrainNext(t) ==
    /\ batch[t] # <<>> /\ t \in live
    /\ Put(Head(batch[t]), {t})
    /\ batch' = [batch EXCEPT ![t] = Tail(@)]
    /\ UNCHANGED <<clientVars, tunnelVars, orphans, arriving, givenVars, serverVars>>

PutBack(t) ==
    /\ batch[t] # <<>>
    /\ orphans' = batch[t] \o orphans /\ batch' = [batch EXCEPT ![t] = <<>>]
    /\ UNCHANGED <<clientVars, tunnelVars, wire, arriving, givenVars, serverVars>>

\* The first k frames it carries still arrive, the next are lost, and DATA
\* after the l-th, still in sendCh, is rescued: broadcast again, or orphaned.
DataFrom(q, i) == {j \in i..Len(q) : q[j].type = "data"}

Falls(t, k, S, rescued) ==
    /\ wire' = [u \in Tunnels |-> CASE u = t   -> SubSeq(wire[t], 1, k)
                                    [] u \in S -> wire[u] \o rescued
                                    [] OTHER   -> wire[u]]
    /\ orphans' = IF S = {} THEN orphans \o rescued ELSE orphans

Die(t) ==
    /\ t \in live /\ live' = live \ {t} /\ closing' = closing \ {t}
    /\ Cardinality(used \ live) < MaxDeaths
    /\ \E k \in 0..Len(wire[t]) : \E l \in k..Len(wire[t]), S \in SUBSET live' :
          LET D == DataFrom(wire[t], l + 1) IN
          \E f \in [1..Cardinality(D) -> D] :
             Dedup!Ascending(f) /\ Falls(t, k, S, [n \in DOMAIN f |-> wire[t][f[n]]])
    /\ UNCHANGED <<client, sent, used, arriving, batch, givenVars, serverVars>>
-----------------------------------------------------------------------------
(* The server's hub: dispatchLoop takes one frame at a time.               *)

Idle == held = Nothing

Arrives(t, m) == /\ Idle /\ wire[t] # <<>> /\ m = Head(wire[t])
                 /\ wire' = [wire EXCEPT ![t] = Tail(@)]
                 /\ UNCHANGED <<clientVars, tunnelVars, orphanVars, givenVars>>

\* feed's gate for DATA: only the first copy of a sequence number passes.
\* With many numbers noted, those far below the new one are dropped; for a
\* new number under Window the difference wraps and every number goes.
Noted(n)   == feedSeen \cup {n}
Cutoff(n)  == (n - Window) % Wrap
Stale(n)   == {k \in Noted(n) : k < Cutoff(n)}
Dropped(n) == IF Cardinality(Noted(n)) > MaxSeen THEN Stale(n) ELSE {}

NeverRepeated(m) == FALSE                                    \* mutant
Repeated(m)      == m.type = "data" /\ m.seq \in feedSeen

Lookup(t) ==
    \E m \in {Head(wire[t])} :
       /\ Arrives(t, m) /\ registered
       /\ IF Repeated(m) THEN UNCHANGED <<held, feedSeen, forgotten>>
          ELSE /\ held' = From(m, t)
               /\ IF m.type # "data" THEN UNCHANGED <<feedSeen, forgotten>>
                  ELSE /\ feedSeen' = Noted(m.seq) \ Dropped(m.seq)
                       /\ forgotten' = forgotten \cup Dropped(m.seq)
       /\ UNCHANGED <<sessionVars, phase, inbox, dials, tombVars, fateVars, bufferVars>>

\* The end of feed: wait for room, or for the session to be closed.
Room          == Len(inbox) < InboxSize
DropsWhenFull == closed \/ ~Room                             \* mutant
Abandons      == closed

Feed ==
    /\ ~Idle /\ held' = Nothing
    /\ \/ /\ held.to = dials /\ Room
          /\ inbox' = Append(inbox, held)
       \/ (held.to # dials \/ Abandons) /\ UNCHANGED inbox
    /\ UNCHANGED <<clientVars, tunnelVars, pathVars, sessionVars, feedSeen, forgotten, phase,
                   dials, tombVars, fateVars, bufferVars>>

\* handleUnknown: anything but HELLO is dropped, a HELLO with a fresh tomb
\* answered with an error.
Ignores(m) == m.type # "hello" \/ tomb

DropUnknown(t) ==
    /\ \E m \in {Head(wire[t])} : Arrives(t, m) /\ ~registered /\ Ignores(m)
    /\ UNCHANGED serverVars

Greet(t) ==
    /\ \E m \in {Head(wire[t])} : Arrives(t, m) /\ ~registered /\ ~Ignores(m)
    /\ dials < MaxDials /\ dials' = dials + 1
    /\ registered' = TRUE /\ closed' = FALSE /\ killed' = FALSE
    /\ phase' = "dialing" /\ inbox' = <<>> /\ feedSeen' = {} /\ forgotten' = {}
    /\ endedBy' = "none" /\ skipped' = FALSE
    /\ next' = 1 /\ pending' = {} /\ gap' = "none" /\ stream' = "open"
    /\ delivered' = <<>> /\ accepted' = {} /\ refused' = 0
    /\ UNCHANGED <<held, tombVars>>

\* livenessLoop after 30 s without a tunnel.
Kill == /\ live = {} /\ registered /\ ~closed
        /\ closed' = TRUE /\ killed' = TRUE
        /\ UNCHANGED <<clientVars, tunnelVars, pathVars, inboxVars, registered,
                       phase, dials, tombVars, fateVars, bufferVars>>
-----------------------------------------------------------------------------
(* runSession.                                                             *)

Goto(p) == phase' = p /\ UNCHANGED <<clientVars, tunnelVars, pathVars, held,
                                     feedSeen, forgotten, dials, tombVars>>
Quietly == UNCHANGED <<sessionVars, inbox, fateVars, bufferVars>>

Dialled   == phase = "dialing" /\ Goto("early") /\ Quietly
DialFails == phase = "dialing" /\ Goto("leaving") /\ Quietly

Takes == inbox # <<>> /\ inbox' = Tail(inbox) /\ UNCHANGED sessionVars

\* DeliverData, and the write of what comes out, which may fail.
Breaks == stream' = "broken"
Writes == delivered' # delivered

TakeData ==
    /\ phase \in {"early", "pump", "linger"} /\ Takes
    /\ Head(inbox).type = "data"
    /\ Dedup!Push(Head(inbox).seq)
    /\ \/ ~Breaks /\ Goto(phase)
       \/ (Breaks \/ Writes) /\ Goto("leaving")
    /\ skipped' = (skipped \/ ~(next..(next' - 1) \subseteq Range(delivered')))
    /\ UNCHANGED endedBy

\* A HELLO that came by another tunnel.
TakeHello ==
    /\ phase \in {"early", "pump", "linger"} /\ Takes
    /\ Head(inbox).type = "hello"
    /\ Goto(phase) /\ UNCHANGED <<fateVars, bufferVars>>

\* drainEarly returns at a CLOSE as it is; the pump flushes the buffer.
EarlyClose ==
    /\ phase = "early" /\ Takes /\ Head(inbox).type = "close"
    /\ endedBy' = Head(inbox).src /\ Goto("leaving")
    /\ UNCHANGED <<skipped, bufferVars>>

PumpClose ==
    /\ phase \in {"pump", "linger"} /\ Takes /\ Head(inbox).type = "close"
    /\ endedBy' = Head(inbox).src /\ Goto("leaving")
    /\ Dedup!Flush /\ UNCHANGED skipped

\* The inbox is empty for a moment: acknowledge, and start the pumps.
Acked    == phase = "early" /\ inbox = <<>> /\ Goto("pump") /\ Quietly
AckFails == phase = "early" /\ inbox = <<>> /\ live = {} /\ Goto("leaving") /\ Quietly

GapElapses == Dedup!Elapse /\ Goto(phase) /\ UNCHANGED <<sessionVars, inbox, fateVars>>

\* The pump sees Done, and may see it before what is in the inbox.
PumpDone == phase \in {"pump", "linger"} /\ closed /\ Goto("leaving") /\ Quietly

\* The destination ended its side; the other direction has 5 s more.
DestDone     == phase = "pump" /\ Goto("linger") /\ Quietly
LingerOver   == phase = "linger" /\ Goto("leaving") /\ Quietly

\* 120 s without a byte in either direction.
IdleTimeout == phase = "pump" /\ inbox = <<>> /\ Goto("leaving") /\ Quietly

\* Deferred: Session.Close, and then tomb.  A session that was killed
\* before is closed already and Close returns at once.
Listed      == closed /\ registered

Leave ==
    /\ phase = "leaving" /\ ~burying
    /\ phase' = "over" /\ closed' = TRUE /\ registered' = Listed /\ burying' = TRUE
    /\ UNCHANGED <<clientVars, tunnelVars, pathVars, inboxVars, killed, dials, tomb,
                   fateVars, bufferVars>>

Bury == /\ burying /\ burying' = FALSE /\ tomb' = TRUE
        /\ UNCHANGED <<clientVars, tunnelVars, pathVars, sessionVars, inboxVars,
                       phase, dials, fateVars, bufferVars>>

\* Only where another session may follow: Greet stops at MaxDials.
TombExpires == /\ tomb /\ dials < MaxDials /\ tomb' = FALSE
               /\ UNCHANGED <<clientVars, tunnelVars, pathVars, sessionVars, inboxVars,
                              phase, dials, burying, fateVars, bufferVars>>
-----------------------------------------------------------------------------
Frontend == Open \/ Send \/ HangUp \/ ResponseEnds \/ \E t \in Tunnels : CloseBy(t)
Orphans  == \E t \in Tunnels : TakeOrphans(t) \/ DrainNext(t) \/ PutBack(t)
Network  == Orphans \/ \E t \in Tunnels : TunnelUp(t) \/ Die(t)
Dispatch == \E t \in Tunnels :
               wire[t] # <<>> /\ (Lookup(t) \/ DropUnknown(t) \/ Greet(t))
Dial     == Dialled \/ DialFails
Drain    == EarlyClose \/ Acked \/ AckFails
Pump     == TakeData \/ TakeHello \/ PumpClose \/ PumpDone
Timeout  == LingerOver \/ IdleTimeout
Depart   == Leave \/ Bury

RunSession == Dial \/ Drain \/ Pump \/ Timeout \/ Depart

Next == \/ Frontend \/ Network \/ Dispatch \/ Feed \/ Kill
        \/ RunSession \/ DestDone \/ GapElapses \/ TombExpires

\* The server's goroutines run, a dial returns within DialTimeout, and the
\* time of every timeout passes.
Spec == Init /\ [][Next]_vars /\ WF_vars(Feed) /\ WF_vars(RunSession)
-----------------------------------------------------------------------------
(* Properties.                                                             *)

Message == [type : Types, seq : 0..MaxFrame]
Letter  == [type : Types, seq : 0..MaxFrame, to : 0..MaxDials,
            src : Tunnels \cup {"none"}]

\* The variables' ranges; a session whose handler runs is in the hub.
TypeOK == /\ client \in {"new", "open", "closed", "ending"}
          /\ sent \in 0..MaxFrame /\ closing \subseteq live
          /\ used \subseteq Tunnels /\ live \subseteq used /\ greeted \subseteq used
          /\ arriving \subseteq used /\ given \in [Tunnels -> 0..MaxFrame]
          /\ wire \in [Tunnels -> Seq(Message)] /\ orphans \in Seq(Message)
          /\ batch \in [Tunnels -> Seq(Message)]
          /\ held \in Letter /\ inbox \in Seq(Letter) /\ Len(inbox) <= InboxSize
          /\ phase \in {"dialing", "early", "pump", "linger", "leaving", "over"}
          /\ (phase # "over" => registered)
          /\ registered \in BOOLEAN /\ closed \in BOOLEAN /\ killed \in BOOLEAN
          /\ feedSeen \subseteq Frames /\ forgotten \subseteq Frames /\ dials \in 0..MaxDials
          /\ burying \in BOOLEAN /\ tomb \in BOOLEAN /\ skipped \in BOOLEAN
          /\ endedBy \in Tunnels \cup {"none"}
          /\ Dedup!TypeOK

\* What has been let in: the inbox, and the frame that waits for room there.
LetIn == IF held.to = dials THEN Append(inbox, held) ELSE inbox

\* A copy of a frame that was let in before never takes a place in the inbox,
\* nor waits for one, whichever tunnels the copies came by and wherever the
\* first has got to, unless feed has dropped the frame's number since.
FirstCopyOnly ==
    \A i \in DataFrom(LetIn, 1) : LetIn[i].seq \notin forgotten =>
        /\ LetIn[i].seq \notin accepted
        /\ \A j \in DataFrom(LetIn, 1) : LetIn[i].seq = LetIn[j].seq => i = j

Ended       == phase \in {"leaving", "over"} /\ endedBy # "none"
Received(k) == \A n \in 1..k : n <= Len(delivered) /\ delivered[n] = n

\* A CLOSE is as good as its own tunnel.  When it ends a session and nothing
\* was given up for late, the destination has received, in order, all that
\* its tunnel was given ahead of it, up to the first frame that tunnel
\* missed: whatever the other tunnels lost, repeated or delayed, whatever the
\* client still sends after CLOSE, and even when CLOSE is found before the
\* pumps start and nothing is flushed.
CloseKeepsItsPlace ==
    Ended /\ ~killed /\ ~skipped /\ dials = 1 => Received(given[endedBy])

\* README.md:152: "if any one tunnel is alive, bytes flow", with "zero visible
\* packet loss".  CLOSE goes by Shadows too and overtakes the DATA on an
\* Active tunnel: the end of the stream is lost though no tunnel failed and
\* nobody but the client has ended the session.
ZeroVisibleLoss ==
    Ended /\ ~killed /\ live = used /\ client = "closed" => Received(sent)

\* README.md:156: "sessions are killed cleanly if all tunnels die".  Close
\* returns early for a killed session and leaves it in the hub for ever.
KilledSessionsLeave == killed ~> ~registered
=============================================================================
