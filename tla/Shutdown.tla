------------------------------ MODULE Shutdown ------------------------------
(***************************************************************************)
(* How both programs stop: runClient and the xray supervisor of            *)
(* cmd/xplex/main.go, Run of internal/mpserver/server.go, Pool.Close with  *)
(* the slots and readers it waits for or not (internal/mppool/pool.go),    *)
(* and Hub.Close with the dispatcher (internal/mphub/hub.go).  Deferred    *)
(* calls run last first: the client closes its hub and then its pool, the  *)
(* server its pool and then its hub.  A panic ends the process.            *)
(***************************************************************************)
EXTENDS Naturals

CONSTANTS Slots,            \* the client's dialers
          Accepted,         \* tunnels the server may accept
          Size              \* capacity of inboundWithSrc

ASSUME ShutdownAssumption == Size \in Nat \ {0} /\ Slots \cap Accepted = {}

VARIABLES role,             \* "client" or "server"
          stage,            \* of main: "run", "join", "hub", "pool", "kill", "done"
          ctx,              \* the program's context is cancelled
          xray, supervisor, \* the process runs; "wait", "delay" or "gone"
          shaking,          \* a frontend handler is not yet registered
          worker,           \* maintainSlot, or the goroutine of AddConn
          link,             \* a worker's tunnel: "none", "up", "down" (done)
          reader,           \* its reader: "gone", "read", "send"
          inbound, shut,    \* frames in inboundWithSrc; it is closed
          pool, victims,    \* Pool.Close: "open", "closing", "closed"; its snapshot
          hub, dispatcher,  \* Hub.Close: "open", "waiting", "closed"; dispatchLoop
          stalled,          \* the session a frame is for has a full inbox
          panicked          \* history: what panicked, or "no"

mainVars   == <<role, stage, ctx>>
clientVars == <<xray, supervisor, shaking>>
tunnelVars == <<worker, link, reader>>
poolVars   == <<inbound, shut, pool, victims>>
hubVars    == <<hub, dispatcher, stalled>>
vars == <<mainVars, clientVars, tunnelVars, poolVars, hubVars, panicked>>

Ends   == Slots \cup Accepted
Client == role = "client"
Server == role = "server"

Init == /\ role \in {"client", "server"} /\ stage = "run" /\ ctx = FALSE
        /\ xray = TRUE /\ shaking = FALSE
        /\ supervisor = IF Client THEN "wait" ELSE "gone"
        /\ worker = [e \in Ends |-> IF Client /\ e \in Slots THEN "idle" ELSE "gone"]
        /\ link = [e \in Ends |-> "none"] /\ reader = [e \in Ends |-> "gone"]
        /\ inbound = 0 /\ shut = FALSE /\ pool = "open" /\ victims = {}
        /\ hub = "open" /\ dispatcher = "select" /\ stalled = FALSE
        /\ panicked = "no"

\* The process has neither ended nor panicked.
Running == panicked = "no" /\ stage # "done"

\* Contexts derived from the program's.
PoolDone == ctx \/ pool # "open"
HubDone  == ctx \/ hub # "open"
-----------------------------------------------------------------------------
(* Workers and their tunnels.                                              *)

Top(i) ==
    /\ Running /\ worker[i] = "idle"
    /\ worker' = [worker EXCEPT ![i] = IF PoolDone THEN "gone" ELSE "dial"]
    /\ UNCHANGED <<mainVars, clientVars, link, reader, poolVars, hubVars, panicked>>

Up(e) == /\ worker' = [worker EXCEPT ![e] = "run"]
         /\ link' = [link EXCEPT ![e] = "up"]
         /\ reader' = [reader EXCEPT ![e] = "read"]
         /\ UNCHANGED <<mainVars, clientVars, poolVars, hubVars, panicked>>

\* The dialer does not look at its context, nor maintainSlot at p.closed.
DialOk(i) == Running /\ worker[i] = "dial" /\ Up(i)

DialFails(i) ==
    /\ Running /\ worker[i] = "dial"
    /\ worker' = [worker EXCEPT ![i] = "idle"]
    /\ UNCHANGED <<mainVars, clientVars, link, reader, poolVars, hubVars, panicked>>

\* Accept and AddConn run in the goroutine that closes the pool later.
AddConn(a) ==
    /\ Running /\ Server /\ stage = "run"
    /\ worker[a] = "gone" /\ link[a] = "none" /\ Up(a)

Break(e) ==
    /\ Running /\ link[e] = "up" /\ link' = [link EXCEPT ![e] = "down"]
    /\ UNCHANGED <<mainVars, clientVars, worker, reader, poolVars, hubVars, panicked>>

\* A frame arrives; a PING would leave the reader where it is.
Read(e) ==
    /\ Running /\ reader[e] = "read" /\ link[e] = "up"
    /\ reader' = [reader EXCEPT ![e] = "send"]
    /\ UNCHANGED <<mainVars, clientVars, worker, link, poolVars, hubVars, panicked>>

ReadFails(e) ==
    /\ Running /\ reader[e] = "read" /\ link[e] = "down"
    /\ reader' = [reader EXCEPT ![e] = "gone"]
    /\ UNCHANGED <<mainVars, clientVars, worker, link, poolVars, hubVars, panicked>>

\* The reader's select: of the ready cases any is taken, and a send on a
\* closed channel is ready.
Room    == inbound < Size
NeverQuits(e) == FALSE                                       \* mutant
Quits(e)      == link[e] = "down" \/ PoolDone

Deliver(e) ==
    /\ Running /\ reader[e] = "send" /\ ~shut /\ Room
    /\ inbound' = inbound + 1 /\ reader' = [reader EXCEPT ![e] = "read"]
    /\ UNCHANGED <<mainVars, clientVars, worker, link, shut, pool, victims, hubVars,
                   panicked>>

Quit(e) ==
    /\ Running /\ reader[e] = "send" /\ Quits(e)
    /\ reader' = [reader EXCEPT ![e] = "gone"]
    /\ UNCHANGED <<mainVars, clientVars, worker, link, poolVars, hubVars, panicked>>

SendOnClosed(e) ==
    /\ Running /\ reader[e] = "send" /\ shut
    /\ panicked' = IF e \in Slots THEN "slot" ELSE "accepted"
    /\ UNCHANGED <<mainVars, clientVars, tunnelVars, poolVars, hubVars>>

\* runTunnel returns when reader, writer and pinger have: the last two only
\* once done is closed.
ReturnsAtOnce(e) == TRUE                                     \* mutant
Joined(e)        == reader[e] = "gone"

RunEnds(e) ==
    /\ Running /\ worker[e] = "run" /\ link[e] = "down" /\ Joined(e)
    /\ worker' = [worker EXCEPT ![e] = IF e \in Slots THEN "idle" ELSE "gone"]
    /\ link' = IF e \in Slots THEN [link EXCEPT ![e] = "none"] ELSE link
    /\ UNCHANGED <<mainVars, clientVars, reader, poolVars, hubVars, panicked>>
-----------------------------------------------------------------------------
(* Pool.Close.                                                             *)

SlottedOnly == {e \in Slots : worker[e] = "run"}             \* mutant
Snapshot    == {e \in Ends : worker[e] = "run"}

ClosePool ==
    /\ Running /\ stage = "pool" /\ pool = "open"
    /\ pool' = "closing" /\ victims' = Snapshot
    /\ UNCHANGED <<mainVars, clientVars, tunnelVars, inbound, shut, hubVars, panicked>>

CloseTunnel(e) ==
    /\ Running /\ pool = "closing" /\ e \in victims
    /\ victims' = victims \ {e}
    /\ link' = IF link[e] = "up" THEN [link EXCEPT ![e] = "down"] ELSE link
    /\ UNCHANGED <<mainVars, clientVars, worker, reader, inbound, shut, pool, hubVars,
                   panicked>>

\* wg.Wait, which counts the slots, and close(inboundWithSrc).
DoesNotWait == TRUE                                          \* mutant
SlotsGone   == \A i \in Slots : worker[i] = "gone"

PoolCloses ==
    /\ Running /\ pool = "closing" /\ victims = {} /\ SlotsGone
    /\ pool' = "closed" /\ shut' = TRUE
    /\ stage' = IF Client THEN "kill" ELSE "hub"
    /\ UNCHANGED <<role, ctx, clientVars, tunnelVars, inbound, victims, hubVars,
                   panicked>>
-----------------------------------------------------------------------------
(* The hub.                                                                *)

Take ==
    /\ Running /\ dispatcher = "select" /\ inbound > 0
    /\ dispatcher' = "feed" /\ inbound' = inbound - 1
    /\ UNCHANGED <<mainVars, clientVars, tunnelVars, shut, pool, victims, hub, stalled,
                   panicked>>

Fed == /\ Running /\ dispatcher = "feed" /\ ~stalled
       /\ dispatcher' = "select"
       /\ UNCHANGED <<mainVars, clientVars, tunnelVars, poolVars, hub, stalled, panicked>>

DispatchEnds ==
    /\ Running /\ dispatcher = "select" /\ (HubDone \/ (shut /\ inbound = 0))
    /\ dispatcher' = "gone"
    /\ UNCHANGED <<mainVars, clientVars, tunnelVars, poolVars, hub, stalled, panicked>>

\* The application stops reading, or reads again.
Stall == /\ Running /\ stalled' = ~stalled
         /\ UNCHANGED <<mainVars, clientVars, tunnelVars, poolVars, hub, dispatcher,
                        panicked>>

CloseHub ==
    /\ Running /\ stage = "hub" /\ hub = "open" /\ hub' = "waiting"
    /\ UNCHANGED <<mainVars, clientVars, tunnelVars, poolVars, dispatcher, stalled,
                   panicked>>

\* The dispatcher is waited for before any session is closed.
HubCloses ==
    /\ Running /\ hub = "waiting" /\ dispatcher = "gone"
    /\ hub' = "closed"
    /\ stage' = IF Client THEN "pool" ELSE "done"
    /\ UNCHANGED <<role, ctx, clientVars, tunnelVars, poolVars, dispatcher, stalled,
                   panicked>>
-----------------------------------------------------------------------------
(* The frontend's handlers, the supervisor and main.                       *)

\* A connection accepted between the cancel and ln.Close is left out: it
\* meets Register late just like one whose handshake was going on before.
Handshake ==
    /\ Running /\ Client /\ ~ctx /\ ~shaking /\ shaking' = TRUE
    /\ UNCHANGED <<mainVars, xray, supervisor, tunnelVars, poolVars, hubVars, panicked>>

\* Register, in a map that Hub.Close has set to nil.
Register ==
    /\ Running /\ shaking /\ shaking' = FALSE
    /\ panicked' = IF hub = "closed" THEN "register" ELSE panicked
    /\ UNCHANGED <<mainVars, xray, supervisor, tunnelVars, poolVars, hubVars>>

XrayExits ==
    /\ Running /\ Client /\ xray /\ xray' = FALSE
    /\ UNCHANGED <<mainVars, supervisor, shaking, tunnelVars, poolVars, hubVars, panicked>>

\* Cmd.Wait returns with the process's end; a cancelled context ends the
\* supervisor then, or during the delay before a restart.
ForgetsContext == FALSE                                      \* mutant
Stopping       == ctx

Supervise ==
    /\ Running
    /\ \/ /\ supervisor = "wait" /\ ~xray
          /\ supervisor' = IF Stopping THEN "gone" ELSE "delay"
          /\ UNCHANGED xray
       \/ supervisor = "delay" /\ Stopping /\ supervisor' = "gone" /\ UNCHANGED xray
       \/ supervisor = "delay" /\ supervisor' = "wait" /\ xray' \in BOOLEAN
    /\ UNCHANGED <<mainVars, shaking, tunnelVars, poolVars, hubVars, panicked>>

Signal ==
    /\ Running /\ ~ctx /\ ctx' = TRUE
    /\ UNCHANGED <<role, stage, clientVars, tunnelVars, poolVars, hubVars, panicked>>

\* After a signal, or when the client's frontend fails or the server's Accept
\* does: that leaves the server's context alone.
Stop ==
    /\ Running /\ stage = "run"
    /\ stage' = IF Client THEN "join" ELSE "pool"
    /\ ctx' = (ctx \/ Client)
    /\ UNCHANGED <<role, clientVars, tunnelVars, poolVars, hubVars, panicked>>

\* procDone and monDone; probes have timeouts.
Join ==
    /\ Running /\ stage = "join" /\ supervisor = "gone" /\ stage' = "hub"
    /\ UNCHANGED <<role, ctx, clientVars, tunnelVars, poolVars, hubVars, panicked>>

\* runner.Stop, the last of the deferred calls.
KillXray ==
    /\ Running /\ stage = "kill"
    /\ stage' = "done" /\ xray' = FALSE
    /\ UNCHANGED <<role, ctx, supervisor, shaking, tunnelVars, poolVars, hubVars,
                   panicked>>
-----------------------------------------------------------------------------
Slot(i)   == Top(i) \/ DialOk(i) \/ DialFails(i)
Reader(e) == ReadFails(e) \/ Deliver(e) \/ Quit(e) \/ SendOnClosed(e) \/ RunEnds(e)
Main      == \/ Join \/ CloseHub \/ HubCloses \/ ClosePool \/ PoolCloses \/ KillXray
             \/ \E e \in Ends : CloseTunnel(e)
Outside   == \/ Stall \/ Signal \/ Stop \/ Handshake \/ Register \/ XrayExits
             \/ \E a \in Accepted : AddConn(a)
             \/ \E e \in Ends : Break(e) \/ Read(e)

Next == \/ Main \/ Take \/ Fed \/ DispatchEnds \/ Supervise \/ Outside
        \/ \E i \in Slots : Slot(i)
        \/ \E e \in Ends : Reader(e)

\* The goroutines run, and dials time out.  A select whose ready cases are
\* taken at random takes each of them in the end, and a receive wakes the
\* dispatcher blocked in a send.
Fairness == /\ WF_vars(Main) /\ WF_vars(ctx /\ Stop) /\ WF_vars(Take)
            /\ WF_vars(Supervise) /\ SF_vars(Fed) /\ SF_vars(DispatchEnds)
            /\ \A i \in Slots : WF_vars(Slot(i))
            /\ \A e \in Ends : WF_vars(Reader(e))

Spec == Init /\ [][Next]_vars /\ Fairness
-----------------------------------------------------------------------------
(* Properties.                                                             *)

\* The variables' ranges; a reader has a tunnel.
TypeOK == /\ role \in {"client", "server"} /\ ctx \in BOOLEAN
          /\ stage \in {"run", "join", "hub", "pool", "kill", "done"}
          /\ xray \in BOOLEAN /\ supervisor \in {"wait", "delay", "gone"}
          /\ shaking \in BOOLEAN
          /\ worker \in [Ends -> {"idle", "dial", "run", "gone"}]
          /\ link \in [Ends -> {"none", "up", "down"}]
          /\ reader \in [Ends -> {"gone", "read", "send"}]
          /\ \A e \in Ends : reader[e] # "gone" => worker[e] = "run"
          /\ inbound \in 0..Size /\ shut \in BOOLEAN
          /\ pool \in {"open", "closing", "closed"} /\ victims \subseteq Ends
          /\ hub \in {"open", "waiting", "closed"}
          /\ dispatcher \in {"select", "feed", "gone"} /\ stalled \in BOOLEAN
          /\ panicked \in {"no", "slot", "accepted", "register"}

\* No reader of a slot ever sends on the closed inboundWithSrc, whenever the
\* slot's dial came back; the readers that AddConn starts may.
SlotsNeverPanic == panicked # "slot"

\* No tunnel survives Pool.Close, on either side, whatever was dialled or
\* accepted around it.
NoTunnelOutlivesPool == pool = "closed" => \A e \in Ends : link[e] # "up"

\* What can hold the shutdown up for ever: an xray that main has not killed
\* yet, a session whose application does not read, and a tunnel dialled
\* after Pool.Close took its snapshot.
Stuck == \/ stage = "join" /\ supervisor = "wait" /\ xray
         \/ hub = "waiting" /\ dispatcher = "feed" /\ stalled
         \/ pool = "closing" /\ victims = {} /\ \E i \in Slots : link[i] = "up"

Over == stage = "done" \/ panicked # "no"

\* A program told to stop ends unless one of these three keeps it.
StopsUnlessStuck == <>(ctx \/ stage # "run") => (<>Over \/ <>[]Stuck)
=============================================================================
