--------------------------- MODULE ShutdownProofs ---------------------------
(***************************************************************************)
(* The safety of a shutdown, for any number of slots, of accepted tunnels  *)
(* and any capacity of the channel.                                        *)
(***************************************************************************)
EXTENDS Shutdown, TLAPS

\* Pool.Close waits for the slots, so once it has closed the channel they are
\* gone; it has listed every accepted tunnel that is up, because AddConn and
\* Close run in one goroutine.
Closing == /\ stage = "run" => pool = "open"
           /\ pool # "open" => \A a \in Accepted : link[a] = "up" => a \in victims
           /\ pool = "closed" => victims = {} /\ \A i \in Slots : worker[i] = "gone"

\* The inductive invariant: besides, only a running worker has a tunnel.
IInv == /\ TypeOK
        /\ shut => pool = "closed"
        /\ \A e \in Ends : link[e] = "up" => worker[e] = "run"
        /\ Closing
        /\ SlotsNeverPanic

USE DEF vars, mainVars, clientVars, tunnelVars, poolVars, hubVars

\* No tunnel exists and nothing is closed when main starts.
LEMMA InitIInv == Init => IInv
<1> SUFFICES ASSUME Init
             PROVE  IInv
  OBVIOUS
<1>1. /\ ctx \in BOOLEAN /\ xray \in BOOLEAN /\ shaking \in BOOLEAN
      /\ shut \in BOOLEAN /\ ~shut /\ stalled \in BOOLEAN
  BY Zenon DEF Init
<1>2. worker \in [Ends -> {"idle", "dial", "run", "gone"}]
  BY DEF Init
<1>3. supervisor \in {"wait", "delay", "gone"} /\ inbound \in 0..Size
  BY ShutdownAssumption DEF Init
<1>4. link = [e \in Ends |-> "none"] /\ reader = [e \in Ends |-> "gone"]
  BY DEF Init
<1> QED
  BY <1>1, <1>2, <1>3, <1>4 DEF Init, IInv, TypeOK, Closing, SlotsNeverPanic

\* The dialers and Accept bring a tunnel up before the pool is closed.
LEMMA UpKeepsIInv ==
  ASSUME IInv, NEW e \in Ends, Up(e), e \in Slots => pool # "closed",
         e \in Accepted => pool = "open"
  PROVE  IInv'
BY DEF IInv, TypeOK, Closing, SlotsNeverPanic, Up, Ends

\* maintainSlot looks at its context at the top of the loop only, but is
\* waited for.
LEMMA SlotKeepsIInv ==
  ASSUME IInv, NEW i \in Slots, Slot(i)
  PROVE  IInv'
<1>0. i \in Ends
  BY DEF Ends
<1>1. CASE Top(i)
  BY <1>0, <1>1 DEF IInv, TypeOK, Closing, SlotsNeverPanic, Top, PoolDone
<1>2. CASE DialOk(i)
  <2>1. Up(i) /\ pool # "closed"
    BY <1>2 DEF DialOk, IInv, Closing
  <2>2. i \notin Accepted
    BY ShutdownAssumption
  <2> QED
    BY <1>0, <2>1, <2>2, UpKeepsIInv
<1>3. CASE DialFails(i)
  BY <1>0, <1>3 DEF IInv, TypeOK, Closing, SlotsNeverPanic, DialFails
<1> QED
  BY <1>1, <1>2, <1>3 DEF Slot

\* A reader at its select belongs to a running worker: no slot's, once the
\* channel is closed.
LEMMA ReaderKeepsIInv ==
  ASSUME IInv, NEW e \in Ends, Reader(e)
  PROVE  IInv'
<1>1. CASE ReadFails(e)
  BY <1>1 DEF IInv, TypeOK, Closing, SlotsNeverPanic, ReadFails
<1>2. CASE Deliver(e)
  <2>1. inbound' \in 0..Size
    BY <1>2, ShutdownAssumption DEF IInv, TypeOK, Deliver, Room
  <2> QED
    BY <1>2, <2>1 DEF IInv, TypeOK, Closing, SlotsNeverPanic, Deliver
<1>3. CASE Quit(e)
  BY <1>3 DEF IInv, TypeOK, Closing, SlotsNeverPanic, Quit
<1>4. CASE SendOnClosed(e)
  <2>1. e \notin Slots
    BY <1>4 DEF IInv, TypeOK, Closing, SendOnClosed
  <2> QED
    BY <1>4, <2>1 DEF IInv, TypeOK, Closing, SlotsNeverPanic, SendOnClosed
<1>5. CASE RunEnds(e)
  BY <1>5 DEF IInv, TypeOK, Closing, SlotsNeverPanic, RunEnds, Joined
<1> QED
  BY <1>1, <1>2, <1>3, <1>4, <1>5 DEF Reader

\* The steps of the two Close functions and of main around them.
LEMMA MainKeepsIInv ==
  ASSUME IInv, Main
  PROVE  IInv'
<1>1. CASE Join
  BY <1>1 DEF IInv, TypeOK, Closing, SlotsNeverPanic, Join
<1>2. CASE CloseHub
  BY <1>2 DEF IInv, TypeOK, Closing, SlotsNeverPanic, CloseHub
<1>3. CASE HubCloses
  BY <1>3 DEF IInv, TypeOK, Closing, SlotsNeverPanic, HubCloses
<1>4. CASE ClosePool
  <2>1. victims' = Snapshot
    BY <1>4 DEF ClosePool
  <2>2. \A a \in Accepted : link[a] = "up" => a \in Snapshot
    BY DEF IInv, Snapshot, Ends
  <2>3. Snapshot \subseteq Ends
    BY DEF Snapshot
  <2> QED
    BY <1>4, <2>1, <2>2, <2>3 DEF IInv, TypeOK, Closing, SlotsNeverPanic, ClosePool
<1>5. CASE PoolCloses
  BY <1>5 DEF IInv, TypeOK, Closing, SlotsNeverPanic, PoolCloses, SlotsGone
<1>6. CASE KillXray
  <2>1. xray' \in BOOLEAN
    BY <1>6 DEF KillXray
  <2> QED
    BY <1>6, <2>1 DEF IInv, TypeOK, Closing, SlotsNeverPanic, KillXray
<1>7. ASSUME NEW e \in Ends, CloseTunnel(e)
      PROVE  IInv'
  BY <1>7 DEF IInv, TypeOK, Closing, SlotsNeverPanic, CloseTunnel, Ends
<1> QED
  BY <1>1, <1>2, <1>3, <1>4, <1>5, <1>6, <1>7 DEF Main

\* Signals, peers and the application.
LEMMA OutsideKeepsIInv ==
  ASSUME IInv, Outside
  PROVE  IInv'
<1>1. CASE Stall
  BY <1>1 DEF IInv, TypeOK, Closing, SlotsNeverPanic, Stall
<1>2. CASE Signal
  BY <1>2 DEF IInv, TypeOK, Closing, SlotsNeverPanic, Signal
<1>3. CASE Stop
  BY <1>3 DEF IInv, TypeOK, Closing, SlotsNeverPanic, Stop, Client
<1>4. CASE Handshake
  BY <1>4 DEF IInv, TypeOK, Closing, SlotsNeverPanic, Handshake
<1>5. CASE Register
  <2>1. shaking' \in BOOLEAN
    BY <1>5 DEF Register
  <2> QED
    BY <1>5, <2>1 DEF IInv, TypeOK, Closing, SlotsNeverPanic, Register
<1>6. CASE XrayExits
  <2>1. xray' \in BOOLEAN
    BY <1>6 DEF XrayExits
  <2> QED
    BY <1>6, <2>1 DEF IInv, TypeOK, Closing, SlotsNeverPanic, XrayExits
<1>7. ASSUME NEW a \in Accepted, AddConn(a)
      PROVE  IInv'
  <2>1. Up(a) /\ pool = "open" /\ a \in Ends
    BY <1>7 DEF AddConn, IInv, Closing, Ends
  <2> QED
    BY <2>1, UpKeepsIInv
<1>8. ASSUME NEW e \in Ends, Break(e)
      PROVE  IInv'
  BY <1>8 DEF IInv, TypeOK, Closing, SlotsNeverPanic, Break, Ends
<1>9. ASSUME NEW e \in Ends, Read(e)
      PROVE  IInv'
  BY <1>9 DEF IInv, TypeOK, Closing, SlotsNeverPanic, Read
<1> QED
  BY <1>1, <1>2, <1>3, <1>4, <1>5, <1>6, <1>7, <1>8, <1>9 DEF Outside

\* Every step of either program keeps the invariant.
LEMMA NextIInv == IInv /\ [Next]_vars => IInv'
<1> SUFFICES ASSUME IInv, [Next]_vars
             PROVE  IInv'
  OBVIOUS
<1>1. CASE Take
  <2>1. inbound' \in 0..Size
    BY <1>1, ShutdownAssumption DEF IInv, TypeOK, Take
  <2> QED
    BY <1>1, <2>1 DEF IInv, TypeOK, Closing, SlotsNeverPanic, Take
<1>2. CASE Fed
  BY <1>2 DEF IInv, TypeOK, Closing, SlotsNeverPanic, Fed
<1>3. CASE DispatchEnds
  BY <1>3 DEF IInv, TypeOK, Closing, SlotsNeverPanic, DispatchEnds
<1>4. CASE Supervise
  BY <1>4 DEF IInv, TypeOK, Closing, SlotsNeverPanic, Supervise
<1>5. CASE UNCHANGED vars
  BY <1>5 DEF IInv, TypeOK, Closing, SlotsNeverPanic
<1> QED
  BY <1>1, <1>2, <1>3, <1>4, <1>5, MainKeepsIInv, OutsideKeepsIInv, SlotKeepsIInv,
     ReaderKeepsIInv DEF Next

\* The invariant holds throughout a run and its shutdown.
THEOREM Invariance == Spec => []IInv
<1>1. Init => IInv
  BY InitIInv
<1>2. IInv /\ [Next]_vars => IInv'
  BY NextIInv
<1> QED
  BY <1>1, <1>2, PTL DEF Spec

\* The variables keep their ranges, whatever stops when.
THEOREM TypeCorrect == Spec => []TypeOK
<1>1. IInv => TypeOK
  BY DEF IInv
<1> QED
  BY <1>1, Invariance, PTL

\* Pool.Close never makes a slot's reader panic: it waits for all of them
\* before it closes inboundWithSrc.
THEOREM SlotsSafe == Spec => []SlotsNeverPanic
<1>1. IInv => SlotsNeverPanic
  BY DEF IInv
<1> QED
  BY <1>1, Invariance, PTL

\* When Pool.Close has returned no tunnel is up, neither one dialled after its
\* snapshot nor one accepted before it.
THEOREM TunnelsEnd == Spec => []NoTunnelOutlivesPool
<1>1. IInv => NoTunnelOutlivesPool
  <2> SUFFICES ASSUME IInv, pool = "closed", NEW e \in Ends
               PROVE  link[e] # "up"
    BY DEF NoTunnelOutlivesPool
  <2>1. CASE e \in Slots
    BY <2>1 DEF IInv, Closing
  <2>2. CASE e \in Accepted
    BY <2>2 DEF IInv, Closing
  <2> QED
    BY <2>1, <2>2 DEF Ends
<1> QED
  BY <1>1, Invariance, PTL
=============================================================================
