------------------------------- MODULE Duplex -------------------------------
(***************************************************************************)
(* How both ends of one session live and end: Frontend.handle with its two *)
(* pumps (internal/mpfront/frontend.go), runSession with its two           *)
(* (internal/mpserver/server.go), a hub at each end                        *)
(* (internal/mphub/hub.go), sockets whose owners may stop reading or go    *)
(* on sending, tunnels that die and a server that is restarted.  The order *)
(* of bytes over several tunnels is in Multipath and left out here: one    *)
(* tunnel after the other carries the session, so that no second copy of   *)
(* HELLO meets a tomb.  An end is "client" or "server".                    *)
(***************************************************************************)
EXTENDS Naturals, Sequences, FiniteSets, Functions

CONSTANTS MaxFrame,         \* bound: DATA frames a socket's owner writes
          InboxSize,        \* SessionConfig.InboxBufferSize
          MaxFaults         \* bound: tunnels that die, restarts of the server

ASSUME DuplexAssumption ==
    MaxFrame \in Nat \ {0} /\ InboxSize \in Nat \ {0} /\ MaxFaults \in Nat

VARIABLES live,             \* a tunnel is up
          faults,           \* so far
          wire,             \* wire[e]: what is under way to the hub of e
          orphans,          \* DATA for an end that no tunnel took
          registered,       \* the session is in the end's Hub.sessions
          closed,           \* Session.closed, doneCh
          held,             \* the frame deliver has for a session, or Nothing
          inbox, seen,      \* Session.inboxCh, feedSeen
          phase,            \* where handle or runSession is
          reading,          \* the pump from the socket runs
          writer,           \* the pump to the socket: "idle", "writing", "done"
          sent,             \* seqOut
          quiet,            \* the server's idleTimer has run down
          silent            \* history: the server's session ended untold

faultVars   == <<live, faults>>
pathVars    == <<wire, orphans>>
hubVars     == <<registered, closed, held, inbox, seen>>
pumpVars    == <<reading, writer, sent, quiet>>
vars == <<faultVars, pathVars, hubVars, phase, pumpVars, silent>>

Ends   == {"client", "server"}
Far(e) == IF e = "client" THEN "server" ELSE "client"
Frames == 1..MaxFrame

Types      == {"none", "hello", "ack", "refusal", "data", "close"}
Control(y) == [type |-> y, n |-> 0]
Data(k)    == [type |-> "data", n |-> k]
Nothing    == Control("none")
Messages   == {Control(y) : y \in Types \ {"data"}} \cup {Data(k) : k \in Frames}

Init == /\ live = TRUE /\ faults = 0
        /\ wire = [e \in Ends |-> <<>>]
        /\ orphans = [e \in Ends |-> {}]
        /\ registered = [e \in Ends |-> FALSE] /\ closed = [e \in Ends |-> FALSE]
        /\ held = [e \in Ends |-> Nothing]
        /\ inbox = [e \in Ends |-> <<>>] /\ seen = [e \in Ends |-> {}]
        /\ phase = [e \in Ends |-> "none"]
        /\ reading = [e \in Ends |-> FALSE] /\ writer = [e \in Ends |-> "done"]
        /\ sent = [e \in Ends |-> 0] /\ quiet = FALSE
        /\ silent = FALSE
-----------------------------------------------------------------------------
(* The tunnels.                                                            *)

\* BroadcastAlways: SendControl and sendAck use tunnels in any state.
With(w, e, m) == IF live THEN [w EXCEPT ![Far(e)] = Append(@, m)] ELSE w
Tell(e, m)    == wire' = With(wire, e, m)

DataIn(q) == {q[i].n : i \in {j \in DOMAIN q : q[j].type = "data"}}
Queued(S) == Bijection(1..Cardinality(S), {Data(k) : k \in S})

TunnelUp == /\ ~live /\ live' = TRUE
            /\ \E c \in Queued(orphans["client"]), s \in Queued(orphans["server"]) :
                  wire' = [e \in Ends |-> wire[e] \o IF e = "client" THEN c ELSE s]
            /\ orphans' = [e \in Ends |-> {}]
            /\ UNCHANGED <<faults, hubVars, phase, pumpVars, silent>>

\* What is under way to an end arrives or is lost with the tunnel: HELLO,
\* HELLO_ACK and CLOSE for good, while DATA yet in sendCh is rescued.
Sever(S) == /\ live' = FALSE /\ faults < MaxFaults /\ faults' = faults + 1
            /\ wire' = [e \in Ends |-> IF e \in S THEN <<>> ELSE wire[e]]

Rescues(S, x) ==
    /\ \A e \in Ends : x[e] \subseteq IF live /\ e \in S THEN DataIn(wire[e]) ELSE {}
    /\ orphans' = [e \in Ends |-> orphans[e] \cup x[e]]

Die == /\ live
       /\ \E S \in SUBSET Ends, x \in [Ends -> SUBSET Frames] : Sever(S) /\ Rescues(S, x)
       /\ UNCHANGED <<hubVars, phase, pumpVars, silent>>

\* The server's process ends and another is started: its hub, sessions,
\* tombs and queues are gone, and so is the tunnel.
Restart ==
    /\ \E S \in {{"server"}, Ends}, K \in SUBSET Frames :
          /\ Sever(S)
          /\ K \subseteq IF live THEN DataIn(wire["server"]) ELSE {}
          /\ orphans' = [client |-> {}, server |-> orphans["server"] \cup K]
    /\ registered' = [registered EXCEPT !["server"] = FALSE]
    /\ closed' = [closed EXCEPT !["server"] = FALSE]
    /\ held' = [held EXCEPT !["server"] = Nothing]
    /\ inbox' = [inbox EXCEPT !["server"] = <<>>]
    /\ seen' = [seen EXCEPT !["server"] = {}]
    /\ phase' = [phase EXCEPT !["server"] = "none"]
    /\ reading' = [reading EXCEPT !["server"] = FALSE]
    /\ writer' = [writer EXCEPT !["server"] = "done"]
    /\ sent' = [sent EXCEPT !["server"] = 0] /\ quiet' = FALSE
    /\ silent' = FALSE
-----------------------------------------------------------------------------
(* A hub: dispatchLoop takes one frame at a time.                          *)

Idle(e) == held[e] = Nothing

Arrives(e) == Idle(e) /\ wire[e] # <<>> /\ wire' = [wire EXCEPT ![e] = Tail(@)]

\* feed: only the first copy of a DATA frame passes; it goes into the inbox,
\* or the dispatcher holds it until there is room or the session is closed.
\* The inbox of a session that is over is left as if it were full.
Repeated(e, m)   == m.type = "data" /\ m.n \in seen[e]
Room(e)          == phase[e] # "over" /\ Len(inbox[e]) < InboxSize
NeverAbandons(e) == FALSE                                    \* mutant
Abandons(e)      == closed[e]

Enqueue(e, m) == inbox' = [inbox EXCEPT ![e] = Append(@, m)]
Hold(e, m)    == held' = [held EXCEPT ![e] = m]

Lookup(e, m) ==
    /\ Arrives(e) /\ registered[e]
    /\ \/ Repeated(e, m) /\ UNCHANGED <<held, inbox>>
       \/ ~Repeated(e, m) /\ Room(e) /\ Enqueue(e, m) /\ UNCHANGED held
       \/ ~Repeated(e, m) /\ ~Room(e) /\ Hold(e, m) /\ UNCHANGED inbox
    /\ seen' = [seen EXCEPT ![e] = IF m.type = "data" THEN @ \cup {m.n} ELSE @]
    /\ UNCHANGED <<faultVars, orphans, registered, closed, phase, pumpVars, silent>>

Feed(e) ==
    /\ ~Idle(e) /\ Hold(e, Nothing)
    /\ \/ Room(e) /\ Enqueue(e, held[e])
       \/ Abandons(e) /\ UNCHANGED inbox
    /\ UNCHANGED <<faultVars, pathVars, registered, closed, seen, phase, pumpVars, silent>>

\* A frame for no session: the client's hub has no onUnknown, the server's
\* handleUnknown opens a session at a HELLO and drops anything else.
Opens(e, m) == e = "server" /\ m = Control("hello")

Drop(e, m) == /\ Arrives(e) /\ ~registered[e] /\ ~Opens(e, m)
              /\ UNCHANGED <<faultVars, orphans, hubVars, phase, pumpVars, silent>>

Greet(e, m) ==
    /\ Arrives(e) /\ ~registered[e] /\ Opens(e, m)
    /\ registered' = [registered EXCEPT ![e] = TRUE]
    /\ phase' = [phase EXCEPT ![e] = "dialing"]
    /\ writer' = [writer EXCEPT ![e] = "idle"]
    /\ UNCHANGED <<faultVars, orphans, closed, held, inbox, seen, reading, sent, quiet, silent>>

\* livenessLoop after 30 s without a tunnel.
NeverKills(e) == FALSE                                       \* mutant
Dead(e)       == ~live
Unlists(e)    == registered' = [registered EXCEPT ![e] = FALSE]  \* mutant
MarksOnly(e)  == UNCHANGED registered
Kill(e) == /\ Dead(e) /\ registered[e] /\ ~closed[e]
           /\ closed' = [closed EXCEPT ![e] = TRUE] /\ MarksOnly(e)
           /\ UNCHANGED <<faultVars, pathVars, held, inbox, seen, phase, pumpVars, silent>>
-----------------------------------------------------------------------------
(* What ends a session: the deferred closes of handle and runSession.      *)
(* Session.Close returns early when the session was killed; closing the    *)
(* socket ends both pumps.                                                 *)

Leave(e) ==
    /\ phase' = [phase EXCEPT ![e] = "over"]
    /\ registered' = [registered EXCEPT ![e] = @ /\ closed[e]]
    /\ closed' = [closed EXCEPT ![e] = TRUE]
    /\ reading' = [reading EXCEPT ![e] = FALSE]
    /\ writer' = [writer EXCEPT ![e] = "done"]
    /\ inbox' = [inbox EXCEPT ![e] = <<>>] /\ seen' = [seen EXCEPT ![e] = {}]
    /\ quiet' = (quiet /\ e = "client")
    /\ UNCHANGED <<faultVars, orphans, held, sent>>

Goto(e, p) == phase' = [phase EXCEPT ![e] = p]
-----------------------------------------------------------------------------
(* handle, from the end of the SOCKS5 handshake.                           *)

\* No tunnel for 2 s.
Reject == /\ phase["client"] = "none" /\ ~live
          /\ Goto("client", "over")
          /\ UNCHANGED <<faultVars, pathVars, hubVars, pumpVars, silent>>

\* Register, HELLO, the 0-RTT reply and both pumps.  When the application is
\* gone before the reply, handle returns and says nothing more.
Open ==
    /\ phase["client"] = "none" /\ live
    /\ Tell("client", Control("hello"))
    /\ \/ /\ Goto("client", "open")
          /\ registered' = [registered EXCEPT !["client"] = TRUE]
          /\ reading' = [reading EXCEPT !["client"] = TRUE]
          /\ writer' = [writer EXCEPT !["client"] = "idle"]
          /\ UNCHANGED closed
       \/ /\ Goto("client", "over")
          /\ closed' = [closed EXCEPT !["client"] = TRUE]
          /\ UNCHANGED <<registered, reading, writer>>
    /\ UNCHANGED <<faultVars, orphans, held, inbox, seen, sent, quiet, silent>>
-----------------------------------------------------------------------------
(* runSession, up to its pumps.                                            *)

Dialled == /\ phase["server"] = "dialing" /\ Goto("server", "early")
           /\ UNCHANGED <<faultVars, pathVars, hubVars, pumpVars, silent>>

FailsMute == UNCHANGED wire                                   \* mutant
TellsFail == Tell("server", Control("refusal"))
DialFails == phase["server"] = "dialing" /\ Leave("server") /\ TellsFail /\ UNCHANGED silent

\* drainEarly, which the pump's actions share, has emptied the inbox.
Drained  == phase["server"] = "early" /\ writer["server"] = "idle" /\ inbox["server"] = <<>>
AckFails == Drained /\ ~live /\ Leave("server") /\ UNCHANGED <<wire, silent>>
Acked    == /\ Drained /\ live /\ Goto("server", "open")
            /\ Tell("server", Control("ack"))
            /\ reading' = [reading EXCEPT !["server"] = TRUE]
            /\ UNCHANGED <<faultVars, orphans, hubVars, writer, sent, quiet, silent>>
-----------------------------------------------------------------------------
(* The pumps.  Their select takes Done or the inbox, whichever it likes.   *)

Running(e) == phase[e] \in {"early", "open", "closing"}
Early(e)   == phase[e] = "early"
Takes(e)   == Running(e) /\ writer[e] = "idle" /\ inbox[e] # <<>>
Pops(e)    == inbox' = [inbox EXCEPT ![e] = Tail(@)]
Writer(e, w) == /\ writer' = [writer EXCEPT ![e] = w]
                /\ UNCHANGED <<faultVars, orphans, registered, closed, held, seen, phase,
                               reading, sent, silent>>
Stirs(e)   == quiet' = (quiet /\ e = "client")

TakeData(e) == /\ Takes(e) /\ Head(inbox[e]).type = "data"
               /\ Pops(e) /\ Stirs(e) /\ Writer(e, "writing") /\ UNCHANGED wire

\* The buffer refuses the frame: a pump ends, drainEarly says so and returns.
Overflows(e) ==
    /\ Takes(e) /\ Head(inbox[e]).type = "data"
    /\ IF Early(e) THEN Leave(e) /\ Tell(e, Control("refusal")) /\ UNCHANGED silent
       ELSE Pops(e) /\ Stirs(e) /\ Writer(e, "done") /\ UNCHANGED wire

\* A second HELLO, or an acknowledgement without an error.
Ignore(e) == /\ Takes(e) /\ Head(inbox[e]).type \in {"hello", "ack"}
             /\ Pops(e) /\ Writer(e, "idle") /\ UNCHANGED <<wire, quiet>>

Final(m) == m.type \in {"close", "refusal"}
TakeEnd(e) ==
    /\ Takes(e) /\ Final(Head(inbox[e])) /\ UNCHANGED wire
    /\ IF Early(e) THEN Leave(e) /\ UNCHANGED silent
       ELSE Pops(e) /\ Writer(e, "done") /\ UNCHANGED quiet

PumpDone(e) == /\ phase[e] \in {"open", "closing"} /\ writer[e] = "idle" /\ closed[e]
               /\ Writer(e, "done") /\ UNCHANGED <<inbox, wire, quiet>>

\* The write returns when the socket's owner reads, or fails.
WriteDone(e) == /\ writer[e] = "writing" /\ Writer(e, "idle")
                /\ UNCHANGED <<inbox, wire, quiet>>
WriteFails(e) ==
    /\ writer[e] = "writing" /\ UNCHANGED wire
    /\ IF Early(e) THEN Leave(e) /\ silent' = TRUE
       ELSE Writer(e, "done") /\ UNCHANGED <<inbox, quiet>>

\* SendData of what was read, which some Active tunnels take.
Read(e) ==
    /\ reading[e] /\ ~closed[e] /\ sent[e] < MaxFrame
    /\ sent' = [sent EXCEPT ![e] = @ + 1]
    /\ live /\ Tell(e, Data(sent[e] + 1))
    /\ Stirs(e)
    /\ UNCHANGED <<faultVars, orphans, hubVars, phase, reading, writer, silent>>

\* The owner's end of file, a read error, or SendData that gives up.
ReadEnds(e) ==
    /\ reading[e] /\ reading' = [reading EXCEPT ![e] = FALSE]
    /\ UNCHANGED <<faultVars, pathVars, hubVars, phase, writer, sent, quiet, silent>>

\* The destination keeps sending, past the bound on frames.
Chatter ==
    /\ reading["server"] /\ sent["server"] = MaxFrame /\ live
    /\ quiet /\ quiet' = FALSE
    /\ UNCHANGED <<faultVars, pathVars, hubVars, phase, reading, writer, sent, silent>>
-----------------------------------------------------------------------------
(* The end of handle and runSession.                                       *)

\* clientDone, destDone or hubDone: tell the other end, and wait a little
\* for the second pump.
ClosesMute(e) == UNCHANGED wire                              \* mutant
SendsClose(e) == Tell(e, Control("close"))
PumpEnds(e) ==
    /\ phase[e] = "open" /\ (~reading[e] \/ writer[e] = "done")
    /\ SendsClose(e) /\ Goto(e, "closing")
    /\ UNCHANGED <<faultVars, orphans, hubVars, pumpVars, silent>>

WaitsForPump(e) == ~reading[e]                               \* mutant
WaitOver(e)     == TRUE
WaitEnds(e)     == /\ phase[e] = "closing" /\ WaitOver(e)
                   /\ Leave(e) /\ UNCHANGED <<wire, silent>>
Finish(e)       == PumpEnds(e) \/ WaitEnds(e)

\* The server's idleTimer: 120 s without a byte read or taken to be written.
Elapse      == /\ phase["server"] = "open" /\ ~quiet /\ quiet' = TRUE
               /\ UNCHANGED <<faultVars, pathVars, hubVars, phase, reading, writer, sent, silent>>
IdleTimeout == /\ phase["server"] = "open" /\ quiet
               /\ Leave("server") /\ silent' = TRUE /\ UNCHANGED wire
-----------------------------------------------------------------------------
Dispatch(e) == \/ Feed(e)
               \/ /\ wire[e] # <<>>
                  /\ \E m \in {Head(wire[e])} : Lookup(e, m) \/ Drop(e, m) \/ Greet(e, m)
Handle      == Reject \/ Open \/ Finish("client")
RunSession  == Dialled \/ DialFails \/ AckFails \/ Acked \/ Finish("server") \/ IdleTimeout
Pump(e)     == TakeData(e) \/ Overflows(e) \/ Ignore(e) \/ TakeEnd(e) \/ PumpDone(e)

Client  == Dispatch("client") \/ Pump("client") \/ Kill("client") \/ Handle
Server  == Dispatch("server") \/ Pump("server") \/ Kill("server") \/ RunSession \/ Elapse
Owner(e) == WriteDone(e) \/ WriteFails(e) \/ Read(e) \/ ReadEnds(e)
Network == TunnelUp \/ Die \/ Restart

Next == Client \/ Server \/ Network \/ Chatter \/ \E e \in Ends : Owner(e)

\* Both programs go on while they can, and timeouts pass.  No step of theirs
\* can be put off for ever by others: each uses up a frame, a phase or a
\* timer, and only Chatter winds one up again.  Owners and network are free.
Spec == Init /\ [][Next]_vars /\ WF_vars(Client) /\ WF_vars(Server)
-----------------------------------------------------------------------------
(* Properties.                                                             *)

Typed == /\ live \in BOOLEAN /\ faults \in 0..MaxFaults
         /\ wire \in [Ends -> Seq(Messages)]
         /\ orphans \in [Ends -> SUBSET Frames]
         /\ registered \in [Ends -> BOOLEAN] /\ closed \in [Ends -> BOOLEAN]
         /\ held \in [Ends -> Messages] /\ inbox \in [Ends -> Seq(Messages)]
         /\ \A e \in Ends : Len(inbox[e]) <= InboxSize
         /\ seen \in [Ends -> SUBSET Frames]
         /\ phase \in [Ends -> {"none", "dialing", "early", "open", "closing", "over"}]
         /\ reading \in [Ends -> BOOLEAN] /\ writer \in [Ends -> {"idle", "writing", "done"}]
         /\ sent \in [Ends -> 0..MaxFrame]
         /\ quiet \in BOOLEAN /\ silent \in BOOLEAN

\* The variables' ranges; a session whose handle or runSession has yet to
\* return is in the hub, whatever killed it meanwhile.
TypeOK == /\ Typed
          /\ \A e \in Ends : phase[e] \notin {"none", "over"} => registered[e]

\* What has been sent to an end and its pump has not taken.
Coming(e) == Range(wire[e]) \cup {held[e]} \cup Range(inbox[e])

\* While no tunnel has died, the end of the server's session is never known
\* to the server alone, unless it is one that is told to nobody: the client's
\* handler is ending too, or is about to, or the last word is on its way to it.
WordIsUnderWay ==
    faults = 0 /\ phase["server"] = "over" /\ ~silent =>
        \/ phase["client"] \in {"closing", "over"} \/ writer["client"] = "done"
        \/ \E m \in Coming("client") : Final(m)

Deaf(e)  == writer[e] = "writing"
Chatty   == []<><<Chatter>>_vars

\* A frame the dispatcher holds for one session's full inbox is taken or
\* dropped in the end, unless that session's socket is never read again: on
\* the server's side only while runSession still drains early frames, or the
\* destination goes on sending and so keeps the idle timer from ending it.
DispatcherMovesOn ==
    /\ ~Idle("client") ~> Idle("client") \/ Deaf("client")
    /\ \/ ~Idle("server") ~> Idle("server")
       \/ <>[](Deaf("server") /\ Early("server"))
       \/ Chatty

\* When the client's handler is over, the server's ends too, whatever was
\* lost, unless the destination does not read early frames or talks on.
ServerFollows ==
    \/ phase["client"] = "over" ~> phase["server"] \in {"none", "over"}
    \/ <>[](Deaf("server") /\ Early("server"))
    \/ Chatty

\* While no tunnel dies and the application reads, the client's end follows
\* the server's, except where the server says nothing: the idle timer, and a
\* write that fails in drainEarly.
EndIsTold ==
    [](faults = 0) /\ ~<>[]Deaf("client") =>
        (phase["server"] = "over" /\ ~silent ~> phase["client"] = "over")

\* With every tunnel gone for good no application waits for ever.
DeadPoolIsNoticed ==
    <>[](~live) /\ ~<>[]Deaf("client") => <>(phase["client"] = "over")

\* internal/mpfront/download_test.go:376: "The session must NOT hang".  A
\* CLOSE or a refusal that dies with its tunnel is not sent again, and the
\* client has no timer of its own.
NeverHangs == phase["server"] = "over" /\ ~silent /\ ~Deaf("client")
                  ~> phase["client"] = "over" \/ Deaf("client")
=============================================================================
