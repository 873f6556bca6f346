----------------------------- MODULE DuplexProofs -----------------------------
(***************************************************************************)
(* Proofs about both ends of one session, for any number of frames and     *)
(* faults and any size of the inboxes.                                     *)
(***************************************************************************)
EXTENDS Duplex, SequenceFacts, FiniteSetTheorems
-----------------------------------------------------------------------------
(* The inductive invariant.                                                *)

(* Where the handlers can be, and what runs and is in the hub then.        *)
Handled == /\ phase["client"] \in {"none", "open", "closing", "over"}
           /\ \A e \in Ends : /\ reading[e] => phase[e] \in {"open", "closing"}
                              /\ phase[e] \notin {"none", "over"} => registered[e]

(* The client is ending, or a word that makes it end is under way.         *)
Told == \/ phase["client"] \in {"closing", "over"} \/ writer["client"] = "done"
        \/ \E m \in Coming("client") : Final(m)

(* While no tunnel has died nobody kills the client's session; nothing     *)
(* reaches the server before the client's HELLO, and no end of the session *)
(* before its CLOSE; and a server that ends has said so.                   *)
Unbroken ==
    faults = 0 =>
        /\ live
        /\ closed["client"] => phase["client"] = "over"
        /\ phase["client"] = "none" => phase["server"] = "none" /\ wire["server"] = <<>>
        /\ phase["client"] \in {"none", "open"} => \A m \in Coming("server") : ~Final(m)
        /\ phase["server"] = "closing" \/ (phase["server"] = "over" /\ ~silent) => Told

IInv == Typed /\ Handled /\ Unbroken
-----------------------------------------------------------------------------
(* Sending, receiving, and the inboxes.                                    *)

(* What is sent is a message, and no end unless it says so.                *)
LEMMA ControlTyped ==
  /\ \A y \in Types \ {"data"} : Control(y) \in Messages /\ Control(y).type = y
  /\ \A k \in Frames : Data(k) \in Messages /\ Data(k).type = "data"
  /\ Nothing \in Messages /\ ~Final(Nothing)
BY DEF Messages, Control, Data, Nothing, Types, Final

(* What is told to the other end comes last on its wire.                   *)
LEMMA TellWire ==
  ASSUME Typed, NEW e \in Ends, NEW m \in Messages, Tell(e, m)
  PROVE  /\ wire' \in [Ends -> Seq(Messages)]
         /\ wire'[e] = wire[e]
         /\ Range(wire[Far(e)]) \subseteq Range(wire'[Far(e)])
         /\ Range(wire'[Far(e)]) \subseteq Range(wire[Far(e)]) \cup {m}
         /\ live => m \in Range(wire'[Far(e)])
<1>1. Far(e) \in Ends /\ Far(e) # e
  BY DEF Far, Ends
<1>2. PICK q \in Seq(Messages) : q = wire[Far(e)] /\ wire[e] \in Seq(Messages)
  BY <1>1 DEF Typed
<1>3. CASE live
  <2>1. /\ wire' \in [Ends -> Seq(Messages)] /\ wire'[e] = wire[e]
        /\ wire'[Far(e)] = Append(q, m)
    BY <1>1, <1>2, <1>3 DEF Tell, With, Typed
  <2>2. Range(Append(q, m)) = Range(q) \cup {m}
    BY SendRange
  <2> QED
    BY <1>2, <2>1, <2>2
<1>4. CASE ~live
  <2>1. wire' = wire
    BY <1>4 DEF Tell, With
  <2> QED
    BY <1>4, <2>1 DEF Typed
<1> QED
  BY <1>3, <1>4

(* What arrives was the first on its wire.                                 *)
LEMMA ArriveWire ==
  ASSUME Typed, NEW e \in Ends, Arrives(e), NEW m, m = Head(wire[e])
  PROVE  /\ held[e] = Nothing /\ m \in Messages
         /\ wire' \in [Ends -> Seq(Messages)]
         /\ wire'[Far(e)] = wire[Far(e)]
         /\ Range(wire[e]) = {m} \cup Range(wire'[e])
<1>1. Far(e) \in Ends /\ Far(e) # e
  BY DEF Far, Ends
<1>2. PICK q \in Seq(Messages) : q = wire[e] /\ q # <<>> /\ held[e] = Nothing
  BY DEF Typed, Arrives, Idle
<1>3. /\ Head(q) \in Messages /\ Tail(q) \in Seq(Messages)
      /\ Range(q) = {Head(q)} \cup Range(Tail(q))
  BY <1>2, ReceiveRange
<1>4. /\ wire' \in [Ends -> Seq(Messages)] /\ wire'[Far(e)] = wire[Far(e)]
      /\ wire'[e] = Tail(q)
  BY <1>1, <1>2, <1>3 DEF Arrives, Typed
<1> QED
  BY <1>2, <1>3, <1>4

(* What is put into an inbox with room.                                    *)
LEMMA EnqueueInbox ==
  ASSUME Typed, NEW e \in Ends, NEW m \in Messages, Room(e), Enqueue(e, m)
  PROVE  /\ inbox' \in [Ends -> Seq(Messages)]
         /\ \A d \in Ends : Len(inbox'[d]) <= InboxSize
         /\ inbox'[Far(e)] = inbox[Far(e)]
         /\ Range(inbox'[e]) = Range(inbox[e]) \cup {m}
<1>1. Far(e) \in Ends /\ Far(e) # e /\ Ends = {e, Far(e)}
  BY DEF Far, Ends
<1>2. PICK q \in Seq(Messages) : q = inbox[e] /\ Len(q) < InboxSize
  BY DEF Typed, Room
<1>3. /\ Append(q, m) \in Seq(Messages) /\ Len(Append(q, m)) = Len(q) + 1
      /\ Range(Append(q, m)) = Range(q) \cup {m}
  BY SendRange
<1>4. /\ inbox' \in [Ends -> Seq(Messages)] /\ inbox'[Far(e)] = inbox[Far(e)]
      /\ inbox'[e] = Append(q, m)
  BY <1>1, <1>2, <1>3 DEF Enqueue, Typed
<1>5. Len(q) + 1 <= InboxSize
  BY <1>2, DuplexAssumption
<1> QED
  BY <1>1, <1>2, <1>3, <1>4, <1>5 DEF Typed

(* What a pump takes was the first in its inbox.                           *)
LEMMA PopInbox ==
  ASSUME Typed, NEW e \in Ends, Takes(e)
  PROVE  /\ Head(inbox[e]) \in Messages /\ Head(inbox[e]) \in Coming(e)
         /\ Pops(e) =>
               /\ inbox' \in [Ends -> Seq(Messages)]
               /\ \A d \in Ends : Len(inbox'[d]) <= InboxSize
               /\ inbox'[Far(e)] = inbox[Far(e)]
               /\ Range(inbox[e]) = {Head(inbox[e])} \cup Range(inbox'[e])
<1>1. Far(e) \in Ends /\ Far(e) # e /\ Ends = {e, Far(e)}
  BY DEF Far, Ends
<1>2. PICK q \in Seq(Messages) : q = inbox[e] /\ q # <<>> /\ Len(q) <= InboxSize
  BY DEF Typed, Takes
<1>3. /\ Head(q) \in Messages /\ Tail(q) \in Seq(Messages)
      /\ Len(q) \in Nat \ {0} /\ Len(Tail(q)) = Len(q) - 1
      /\ Range(q) = {Head(q)} \cup Range(Tail(q))
  BY <1>2, ReceiveRange
<1>4. Len(Tail(q)) <= InboxSize
  BY <1>2, <1>3, DuplexAssumption
<1>5. Head(q) \in Coming(e)
  BY <1>2, <1>3 DEF Coming
<1>6. ASSUME Pops(e)
      PROVE  /\ inbox' \in [Ends -> Seq(Messages)] /\ inbox'[Far(e)] = inbox[Far(e)]
             /\ inbox'[e] = Tail(q)
  BY <1>1, <1>2, <1>3, <1>6 DEF Pops, Typed
<1> QED
  BY <1>1, <1>2, <1>3, <1>4, <1>5, <1>6 DEF Typed

(* The DATA that was rescued, in whatever order.                           *)
LEMMA QueuedTyped ==
  ASSUME NEW S \in SUBSET Frames, NEW q \in Queued(S)
  PROVE  q \in Seq(Messages)
<1>1. IsFiniteSet(Frames)
  BY FS_Interval, DuplexAssumption DEF Frames
<1>2. IsFiniteSet(S)
  BY <1>1, FS_Subset
<1>3. Cardinality(S) \in Nat
  BY <1>2, FS_CardinalityType
<1>4. PICK n \in Nat : n = Cardinality(S)
  BY <1>3
<1>5. q \in [1..n -> {Data(k) : k \in S}]
  BY <1>4 DEF Queued, Bijection, Injection
<1>6. {Data(k) : k \in S} \subseteq Messages
  BY DEF Messages
<1>7. q \in [1..n -> Messages]
  BY <1>5, <1>6
<1> QED
  BY <1>7, TableIsSequence
-----------------------------------------------------------------------------
(* Steps that leave the handlers where they are.                           *)

(* A step keeps the invariant that brings no end to the server and takes   *)
(* none from the client unless its pump is done.                           *)
LEMMA Calm ==
  ASSUME IInv, Typed', Handled',
         UNCHANGED <<faults, live, phase, registered, closed, silent>>,
         writer["client"] = "done" => writer'["client"] = "done",
         phase["client"] = "none" /\ wire["server"] = <<>> => wire'["server"] = <<>>,
         \A m \in Coming("server")' : Final(m) => m \in Coming("server"),
         \/ writer'["client"] = "done"
         \/ faults = 0 /\ phase["client"] = "open" =>
               \A m \in Coming("client") : Final(m) => m \in Coming("client")'
  PROVE  IInv'
<1>1. Told /\ faults = 0 /\ phase["client"] # "none" => Told'
  BY DEF Told, IInv, Handled
<1>2. Unbroken'
  <2>1. SUFFICES ASSUME faults' = 0 PROVE Unbroken'
    BY DEF Unbroken
  <2>2. phase'["server"] = "closing" \/ (phase'["server"] = "over" /\ ~silent') => Told'
    BY <1>1, <2>1 DEF IInv, Unbroken
  <2> QED
    BY <2>1, <2>2 DEF IInv, Unbroken
<1> QED
  BY <1>2 DEF IInv

(* The dispatcher looks a frame up: it throws a copy away, puts the frame  *)
(* into the inbox, or holds it.                                            *)
LEMMA LookupInvariant ==
  ASSUME IInv, NEW e \in Ends, NEW m, m = Head(wire[e]), wire[e] # <<>>, Lookup(e, m)
  PROVE  IInv'
<1>1. /\ Arrives(e) /\ registered[e]
      /\ \/ Repeated(e, m) /\ UNCHANGED <<held, inbox>>
         \/ Room(e) /\ Enqueue(e, m) /\ UNCHANGED held
         \/ Hold(e, m) /\ UNCHANGED inbox
      /\ seen' = [seen EXCEPT ![e] = IF m.type = "data" THEN @ \cup {m.n} ELSE @]
      /\ UNCHANGED <<live, faults, orphans, registered, closed, phase, reading, writer, sent,
                     quiet, silent>>
  BY DEF Lookup, faultVars, pumpVars
<1>2. Typed /\ Handled
  BY DEF IInv
<1>3. /\ held[e] = Nothing /\ m \in Messages
      /\ wire' \in [Ends -> Seq(Messages)]
      /\ wire'[Far(e)] = wire[Far(e)]
      /\ Range(wire[e]) = {m} \cup Range(wire'[e])
  BY <1>1, <1>2, ArriveWire
<1>4. Far(e) \in Ends /\ Far(e) # e /\ Ends = {"client", "server"}
  BY DEF Far, Ends
<1>5. /\ inbox' \in [Ends -> Seq(Messages)] /\ \A d \in Ends : Len(inbox'[d]) <= InboxSize
      /\ held' \in [Ends -> Messages]
      /\ inbox'[Far(e)] = inbox[Far(e)] /\ held'[Far(e)] = held[Far(e)]
      /\ Range(inbox'[e]) \cup {held'[e]} \subseteq Range(inbox[e]) \cup {held[e], m}
      /\ Range(inbox[e]) \subseteq Range(inbox'[e])
      /\ Final(m) => m \in Range(inbox'[e]) \cup {held'[e]}
  <2>1. CASE Repeated(e, m) /\ UNCHANGED <<held, inbox>>
    BY <1>2, <2>1 DEF Repeated, Final, Typed
  <2>2. CASE Room(e) /\ Enqueue(e, m) /\ UNCHANGED held
    <3>1. /\ inbox' \in [Ends -> Seq(Messages)]
          /\ \A d \in Ends : Len(inbox'[d]) <= InboxSize
          /\ inbox'[Far(e)] = inbox[Far(e)]
          /\ Range(inbox'[e]) = Range(inbox[e]) \cup {m}
      BY <1>2, <1>3, <2>2, EnqueueInbox
    <3> QED
      BY <1>2, <2>2, <3>1 DEF Typed
  <2>3. CASE Hold(e, m) /\ UNCHANGED inbox
    <3>1. held' \in [Ends -> Messages] /\ held'[e] = m /\ held'[Far(e)] = held[Far(e)]
      BY <1>2, <1>3, <1>4, <2>3 DEF Hold, Typed
    <3> QED
      BY <1>2, <2>3, <3>1 DEF Typed
  <2> QED
    BY <1>1, <2>1, <2>2, <2>3
<1>6. Typed'
  <2>1. m.type = "data" => m.n \in Frames
    BY <1>3 DEF Messages, Data, Control, Types
  <2>2. seen' \in [Ends -> SUBSET Frames]
    BY <1>1, <1>2, <2>1 DEF Typed
  <2> QED
    BY <1>1, <1>2, <1>3, <1>5, <2>2 DEF Typed
<1>7. Handled'
  BY <1>1, <1>2 DEF Handled
<1>8. Coming(e)' \subseteq Coming(e)
  BY <1>3, <1>5 DEF Coming
<1>9. \A x \in Coming(e) : Final(x) => x \in Coming(e)'
  BY <1>3, <1>5, ControlTyped DEF Coming
<1>10. Coming(Far(e))' = Coming(Far(e))
  BY <1>3, <1>5 DEF Coming
<1>11. phase["client"] = "none" /\ wire["server"] = <<>> => wire'["server"] = <<>>
  <2>1. e = "server" => wire["server"] # <<>>
    OBVIOUS
  <2>2. e = "client" => Far(e) = "server"
    BY DEF Far
  <2> QED
    BY <1>3, <1>4, <2>1, <2>2
<1>12. (e = "client" /\ Far(e) = "server") \/ (e = "server" /\ Far(e) = "client")
  BY <1>4
<1> QED
  BY <1>1, <1>6, <1>7, <1>8, <1>9, <1>10, <1>11, <1>12, Calm

(* A frame that waited for room is put into the inbox, or dropped because  *)
(* the session has been closed.                                            *)
LEMMA FeedInvariant == ASSUME IInv, NEW e \in Ends, Feed(e) PROVE IInv'
<1>1. /\ held[e] # Nothing /\ Hold(e, Nothing)
      /\ \/ Room(e) /\ Enqueue(e, held[e])
         \/ closed[e] /\ UNCHANGED inbox
      /\ UNCHANGED <<live, faults, wire, orphans, registered, closed, seen, phase, reading,
                     writer, sent, quiet, silent>>
  BY DEF Feed, Idle, Abandons, faultVars, pathVars, pumpVars
<1>2. Typed /\ Handled
  BY DEF IInv
<1>3. Far(e) \in Ends /\ Far(e) # e /\ Ends = {"client", "server"}
  BY DEF Far, Ends
<1>4. held' \in [Ends -> Messages] /\ held'[e] = Nothing /\ held'[Far(e)] = held[Far(e)]
  BY <1>1, <1>2, <1>3, ControlTyped DEF Hold, Typed
<1>5. /\ inbox' \in [Ends -> Seq(Messages)] /\ \A d \in Ends : Len(inbox'[d]) <= InboxSize
      /\ inbox'[Far(e)] = inbox[Far(e)]
      /\ Range(inbox'[e]) \subseteq Range(inbox[e]) \cup {held[e]}
      /\ Range(inbox[e]) \cup {held[e]} \subseteq Range(inbox'[e]) \/ closed[e]
  <2>1. CASE Room(e) /\ Enqueue(e, held[e])
    <3>1. held[e] \in Messages
      BY <1>2 DEF Typed
    <3>2. /\ inbox' \in [Ends -> Seq(Messages)]
          /\ \A d \in Ends : Len(inbox'[d]) <= InboxSize
          /\ inbox'[Far(e)] = inbox[Far(e)]
          /\ Range(inbox'[e]) = Range(inbox[e]) \cup {held[e]}
      BY <1>2, <2>1, <3>1, EnqueueInbox
    <3> QED
      BY <3>2
  <2>2. CASE closed[e] /\ UNCHANGED inbox
    BY <1>2, <2>2 DEF Typed
  <2> QED
    BY <1>1, <2>1, <2>2
<1>6. Typed'
  BY <1>1, <1>2, <1>4, <1>5 DEF Typed
<1>7. Handled'
  BY <1>1, <1>2 DEF Handled
<1>8. \A x \in Coming(e)' : Final(x) => x \in Coming(e)
  BY <1>1, <1>4, <1>5, ControlTyped DEF Coming
<1>9. Coming(e) \subseteq Coming(e)' \/ closed[e]
  BY <1>1, <1>5 DEF Coming
<1>10. Coming(Far(e))' = Coming(Far(e))
  BY <1>1, <1>4, <1>5 DEF Coming
<1>11. closed["client"] /\ faults = 0 => phase["client"] = "over"
  BY DEF IInv, Unbroken
<1>12. (e = "client" /\ Far(e) = "server") \/ (e = "server" /\ Far(e) = "client")
  BY <1>3 DEF Far
<1> QED
  BY <1>1, <1>6, <1>7, <1>8, <1>9, <1>10, <1>11, <1>12, Calm

(* A frame for no session is dropped: before its session the server has    *)
(* none to drop, and the client's session is in its hub until it is over.  *)
LEMMA DropInvariant ==
  ASSUME IInv, NEW e \in Ends, NEW m, m = Head(wire[e]), wire[e] # <<>>, Drop(e, m)
  PROVE  IInv'
<1>1. /\ Arrives(e) /\ ~registered[e]
      /\ UNCHANGED <<live, faults, orphans, registered, closed, held, inbox, seen, phase,
                     reading, writer, sent, quiet, silent>>
  BY DEF Drop, faultVars, hubVars, pumpVars
<1>2. Typed /\ Handled
  BY DEF IInv
<1>3. /\ wire' \in [Ends -> Seq(Messages)]
      /\ wire'[Far(e)] = wire[Far(e)]
      /\ Range(wire[e]) = {m} \cup Range(wire'[e])
  BY <1>1, <1>2, ArriveWire
<1>4. Ends = {"client", "server"}
      /\ ((e = "client" /\ Far(e) = "server") \/ (e = "server" /\ Far(e) = "client"))
  BY DEF Far, Ends
<1>5. Typed'
  BY <1>1, <1>2, <1>3 DEF Typed
<1>6. Handled'
  BY <1>1, <1>2 DEF Handled
<1>7. Coming(e)' \subseteq Coming(e) /\ Coming(Far(e))' = Coming(Far(e))
  BY <1>1, <1>3 DEF Coming
<1>8. phase["client"] = "open" => registered["client"]
  BY <1>2, <1>4 DEF Handled
<1> QED
  BY <1>1, <1>3, <1>4, <1>5, <1>6, <1>7, <1>8, Calm

(* A step of a pump that takes at most what no end depends on.             *)
LEMMA WriterInvariant ==
  ASSUME IInv, NEW e \in Ends, NEW w \in {"idle", "writing", "done"}, Writer(e, w),
         UNCHANGED wire, quiet' \in BOOLEAN,
         UNCHANGED inbox \/ (Takes(e) /\ Pops(e)),
         w = "done" \/ writer[e] # "done",
         UNCHANGED inbox \/ w = "done" \/ ~Final(Head(inbox[e]))
  PROVE  IInv'
<1>1. /\ writer' = [writer EXCEPT ![e] = w]
      /\ UNCHANGED <<live, faults, wire, orphans, registered, closed, held, seen, phase,
                     reading, sent, silent>>
  BY DEF Writer, faultVars
<1>2. Typed /\ Handled
  BY DEF IInv
<1>3. Ends = {"client", "server"}
      /\ ((e = "client" /\ Far(e) = "server") \/ (e = "server" /\ Far(e) = "client"))
  BY DEF Far, Ends
<1>4. writer' \in [Ends -> {"idle", "writing", "done"}] /\ writer'[e] = w
      /\ writer'[Far(e)] = writer[Far(e)]
  BY <1>1, <1>2, <1>3 DEF Typed
<1>5. /\ inbox' \in [Ends -> Seq(Messages)] /\ \A d \in Ends : Len(inbox'[d]) <= InboxSize
      /\ inbox'[Far(e)] = inbox[Far(e)]
      /\ Range(inbox'[e]) \subseteq Range(inbox[e])
      /\ UNCHANGED inbox \/ Range(inbox[e]) = {Head(inbox[e])} \cup Range(inbox'[e])
  <2>1. CASE UNCHANGED inbox
    BY <1>2, <2>1 DEF Typed
  <2>2. CASE Takes(e) /\ Pops(e)
    BY <1>2, <2>2, PopInbox
  <2> QED
    BY <2>1, <2>2
<1>6. Typed'
  BY <1>1, <1>2, <1>4, <1>5 DEF Typed
<1>7. Handled'
  BY <1>1, <1>2 DEF Handled
<1>8. Coming(e)' \subseteq Coming(e) /\ Coming(Far(e))' = Coming(Far(e))
  BY <1>1, <1>5 DEF Coming
<1>9. w = "done" \/ \A x \in Coming(e) : Final(x) => x \in Coming(e)'
  BY <1>1, <1>5 DEF Coming
<1> QED
  BY <1>1, <1>3, <1>4, <1>6, <1>7, <1>8, <1>9, Calm

(* What a socket's owner writes goes to the other end as DATA.             *)
LEMMA ReadInvariant == ASSUME IInv, NEW e \in Ends, Read(e) PROVE IInv'
<1>1. /\ reading[e] /\ sent[e] < MaxFrame /\ sent' = [sent EXCEPT ![e] = @ + 1]
      /\ Tell(e, Data(sent[e] + 1))
      /\ quiet' = (quiet /\ e = "client")
      /\ UNCHANGED <<live, faults, orphans, registered, closed, held, inbox, seen, phase,
                     reading, writer, silent>>
  BY DEF Read, Stirs, faultVars, hubVars
<1>2. Typed /\ Handled
  BY DEF IInv
<1>3. Ends = {"client", "server"}
      /\ ((e = "client" /\ Far(e) = "server") \/ (e = "server" /\ Far(e) = "client"))
  BY DEF Far, Ends
<1>4. sent[e] + 1 \in Frames /\ sent' \in [Ends -> 0..MaxFrame]
  <2>1. sent[e] \in 0..MaxFrame /\ MaxFrame \in Nat
    BY <1>2, DuplexAssumption DEF Typed
  <2>2. sent[e] + 1 \in 1..MaxFrame /\ sent[e] + 1 \in 0..MaxFrame
    BY <1>1, <2>1
  <2> QED
    BY <1>1, <1>2, <2>2 DEF Typed, Frames
<1>5. PICK m \in Messages : m = Data(sent[e] + 1) /\ m.type = "data"
  BY <1>4, ControlTyped
<1>6. /\ wire' \in [Ends -> Seq(Messages)] /\ wire'[e] = wire[e]
      /\ Range(wire[Far(e)]) \subseteq Range(wire'[Far(e)])
      /\ Range(wire'[Far(e)]) \subseteq Range(wire[Far(e)]) \cup {m}
  BY <1>1, <1>2, <1>5, TellWire
<1>7. Typed'
  <2>1. quiet' \in BOOLEAN
    BY <1>1, <1>2 DEF Typed
  <2> QED
    BY <1>1, <1>2, <1>4, <1>6, <2>1 DEF Typed
<1>8. Handled'
  BY <1>1, <1>2 DEF Handled
<1>9. /\ \A x \in Coming(Far(e))' : Final(x) => x \in Coming(Far(e))
      /\ Coming(Far(e)) \subseteq Coming(Far(e))' /\ Coming(e)' = Coming(e)
  BY <1>1, <1>5, <1>6 DEF Coming, Final
<1>10. e = "client" => phase["client"] # "none"
  <2>1. phase[e] \in {"open", "closing"}
    BY <1>1, <1>2 DEF Handled
  <2> QED
    BY <2>1
<1> QED
  BY <1>1, <1>3, <1>6, <1>7, <1>8, <1>9, <1>10, Calm

(* The pump from a socket ends.                                            *)
LEMMA ReadEndsInvariant == ASSUME IInv, NEW e \in Ends, ReadEnds(e) PROVE IInv'
<1>1. /\ reading' = [reading EXCEPT ![e] = FALSE]
      /\ UNCHANGED <<live, faults, wire, orphans, registered, closed, held, inbox, seen, phase,
                     writer, sent, quiet, silent>>
  BY DEF ReadEnds, faultVars, pathVars, hubVars
<1>2. Typed'
  BY <1>1 DEF IInv, Typed
<1>3. Handled'
  <2>1. \A d \in Ends : reading'[d] => reading[d]
    BY <1>1 DEF IInv, Typed
  <2>2. Handled /\ phase' = phase /\ registered' = registered
    BY <1>1 DEF IInv
  <2>3. phase'["client"] \in {"none", "open", "closing", "over"}
    BY <2>2 DEF Handled
  <2>4. ASSUME NEW d \in Ends
        PROVE  /\ reading'[d] => phase'[d] \in {"open", "closing"}
               /\ phase'[d] \notin {"none", "over"} => registered'[d]
    BY <2>1, <2>2, <2>4 DEF Handled
  <2> QED
    BY <2>3, <2>4 DEF Handled
<1>4. \A e_1 \in Ends : Coming(e_1)' = Coming(e_1)
  BY <1>1 DEF Coming
<1> QED
  BY <1>1, <1>2, <1>3, <1>4, Calm DEF Ends

(* The idle timer runs down or is set again.                               *)
LEMMA QuietInvariant == IInv /\ (Chatter \/ Elapse) => IInv'
<1> SUFFICES ASSUME IInv, Chatter \/ Elapse PROVE IInv'
  OBVIOUS
<1>1. /\ quiet' \in BOOLEAN
      /\ UNCHANGED <<live, faults, wire, orphans, registered, closed, held, inbox, seen, phase,
                     reading, writer, sent, silent>>
  BY DEF Chatter, Elapse, faultVars, pathVars, hubVars
<1>2. Typed' /\ Handled'
  BY <1>1 DEF IInv, Typed, Handled
<1>3. \A e \in Ends : Coming(e)' = Coming(e)
  BY <1>1 DEF Coming
<1> QED
  BY <1>1, <1>2, <1>3, Calm DEF Ends

(* The pump's steps that do not end the handler.                           *)
LEMMA PumpInvariant ==
  ASSUME IInv, NEW e \in Ends, ~Early(e) \/ ~(Overflows(e) \/ TakeEnd(e) \/ WriteFails(e)),
         Pump(e) \/ WriteDone(e) \/ WriteFails(e)
  PROVE  IInv'
<1>1. quiet \in BOOLEAN
  BY DEF IInv, Typed
<1>2. CASE TakeData(e)
  BY <1>1, <1>2, WriterInvariant DEF TakeData, Stirs, Final, Takes
<1>3. CASE Overflows(e)
  BY <1>1, <1>3, WriterInvariant DEF Overflows, Stirs
<1>4. CASE Ignore(e)
  BY <1>1, <1>4, WriterInvariant DEF Ignore, Final, Takes
<1>5. CASE TakeEnd(e)
  BY <1>1, <1>5, WriterInvariant DEF TakeEnd
<1>6. CASE PumpDone(e)
  BY <1>1, <1>6, WriterInvariant DEF PumpDone
<1>7. CASE WriteDone(e)
  BY <1>1, <1>7, WriterInvariant DEF WriteDone
<1>8. CASE WriteFails(e)
  BY <1>1, <1>8, WriterInvariant DEF WriteFails
<1> QED
  BY <1>2, <1>3, <1>4, <1>5, <1>6, <1>7, <1>8 DEF Pump

(* The liveness loop closes a session when no tunnel has come back.        *)
LEMMA KillInvariant == ASSUME IInv, NEW e \in Ends, Kill(e) PROVE IInv'
<1>1. /\ ~live /\ closed' = [closed EXCEPT ![e] = TRUE]
      /\ UNCHANGED <<live, faults, wire, orphans, registered, held, inbox, seen, phase, reading,
                     writer, sent, quiet, silent>>
  BY DEF Kill, Dead, MarksOnly, faultVars, pathVars, pumpVars
<1>2. Typed'
  BY <1>1 DEF IInv, Typed
<1>3. Handled'
  BY <1>1 DEF IInv, Handled
<1>4. faults' # 0
  BY <1>1 DEF IInv, Unbroken
<1> QED
  BY <1>2, <1>3, <1>4 DEF IInv, Unbroken
-----------------------------------------------------------------------------
(* Steps of the network.                                                   *)

(* Another tunnel comes up and carries on what was rescued.                *)
LEMMA UpInvariant == IInv /\ TunnelUp => IInv'
<1> SUFFICES ASSUME IInv, TunnelUp PROVE IInv'
  OBVIOUS
<1>1. PICK c \in Queued(orphans["client"]), s \in Queued(orphans["server"]) :
         wire' = [e \in Ends |-> wire[e] \o IF e = "client" THEN c ELSE s]
  BY DEF TunnelUp
<1>2. /\ ~live /\ live' = TRUE /\ orphans' = [e \in Ends |-> {}]
      /\ UNCHANGED <<faults, registered, closed, held, inbox, seen, phase, reading, writer, sent,
                     quiet, silent>>
  BY DEF TunnelUp, hubVars, pumpVars
<1>3. Typed /\ orphans["client"] \in SUBSET Frames /\ orphans["server"] \in SUBSET Frames
  BY DEF IInv, Typed, Ends
<1>4. c \in Seq(Messages) /\ s \in Seq(Messages)
  BY <1>3, QueuedTyped
<1>5. wire' \in [Ends -> Seq(Messages)]
  <2>1. \A e \in Ends : wire[e] \o (IF e = "client" THEN c ELSE s) \in Seq(Messages)
    BY <1>3, <1>4, ConcatProperties DEF Typed
  <2> QED
    BY <1>1, <2>1
<1>6. Typed'
  BY <1>2, <1>3, <1>5 DEF Typed
<1>7. Handled'
  BY <1>2 DEF IInv, Handled
<1>8. faults' # 0
  BY <1>2 DEF IInv, Unbroken
<1> QED
  BY <1>6, <1>7, <1>8 DEF IInv, Unbroken

(* A tunnel dies, and some of what it carried with it.                     *)
LEMMA DieInvariant == IInv /\ Die => IInv'
<1> SUFFICES ASSUME IInv, Die PROVE IInv'
  OBVIOUS
<1>1. PICK S \in SUBSET Ends, x \in [Ends -> SUBSET Frames] : Sever(S) /\ Rescues(S, x)
  BY DEF Die
<1>2. UNCHANGED <<registered, closed, held, inbox, seen, phase, reading, writer, sent, quiet, silent>>
  BY DEF Die, hubVars, pumpVars
<1>3. Typed
  BY DEF IInv
<1>4. /\ live' = FALSE /\ faults' \in 0..MaxFaults /\ faults' # 0
      /\ wire' \in [Ends -> Seq(Messages)]
  <2>1. faults \in 0..MaxFaults /\ faults < MaxFaults /\ faults' = faults + 1 /\ MaxFaults \in Nat
    BY <1>1, <1>3, DuplexAssumption DEF Sever, Typed
  <2>2. faults' \in 0..MaxFaults /\ faults' # 0
    BY <2>1
  <2>3. <<>> \in Seq(Messages)
    OBVIOUS
  <2> QED
    BY <1>1, <1>3, <2>2, <2>3 DEF Sever, Typed
<1>5. orphans' \in [Ends -> SUBSET Frames]
  BY <1>1, <1>3 DEF Rescues, Typed
<1>6. Typed'
  BY <1>2, <1>3, <1>4, <1>5 DEF Typed
<1>7. Handled'
  BY <1>2 DEF IInv, Handled
<1> QED
  BY <1>4, <1>6, <1>7 DEF IInv, Unbroken

(* The server is started again.                                            *)
LEMMA RestartInvariant == IInv /\ Restart => IInv'
<1> SUFFICES ASSUME IInv, Restart PROVE IInv'
  OBVIOUS
<1>1. PICK S \in {{"server"}, Ends}, K \in SUBSET Frames :
         Sever(S) /\ orphans' = [client |-> {}, server |-> orphans["server"] \cup K]
  BY DEF Restart
<1>2. /\ registered' = [registered EXCEPT !["server"] = FALSE]
      /\ closed' = [closed EXCEPT !["server"] = FALSE]
      /\ held' = [held EXCEPT !["server"] = Nothing]
      /\ inbox' = [inbox EXCEPT !["server"] = <<>>]
      /\ seen' = [seen EXCEPT !["server"] = {}]
      /\ phase' = [phase EXCEPT !["server"] = "none"]
      /\ reading' = [reading EXCEPT !["server"] = FALSE]
      /\ writer' = [writer EXCEPT !["server"] = "done"]
      /\ sent' = [sent EXCEPT !["server"] = 0] /\ quiet' = FALSE
      /\ silent' = FALSE
  BY DEF Restart
<1>3. Typed /\ "server" \in Ends /\ Ends = {"client", "server"}
  BY DEF IInv, Ends
<1>4. /\ live' = FALSE /\ faults' \in 0..MaxFaults /\ faults' # 0
      /\ wire' \in [Ends -> Seq(Messages)]
  <2>1. faults \in 0..MaxFaults /\ faults < MaxFaults /\ faults' = faults + 1 /\ MaxFaults \in Nat
    BY <1>1, <1>3, DuplexAssumption DEF Sever, Typed
  <2>2. faults' \in 0..MaxFaults /\ faults' # 0
    BY <2>1
  <2>3. <<>> \in Seq(Messages)
    OBVIOUS
  <2> QED
    BY <1>1, <1>3, <2>2, <2>3 DEF Sever, Typed
<1>5. orphans' \in [Ends -> SUBSET Frames]
  BY <1>1, <1>3 DEF Typed
<1>6. inbox' \in [Ends -> Seq(Messages)] /\ \A e \in Ends : Len(inbox'[e]) <= InboxSize
  <2>1. <<>> \in Seq(Messages) /\ Len(<<>>) = 0 /\ InboxSize \in Nat
    BY DuplexAssumption
  <2> QED
    BY <1>2, <1>3, <2>1 DEF Typed
<1>7. Typed'
  <2>1. held' \in [Ends -> Messages] /\ sent' \in [Ends -> 0..MaxFrame]
    BY <1>2, <1>3, ControlTyped, DuplexAssumption DEF Typed
  <2> QED
    BY <1>2, <1>3, <1>4, <1>5, <1>6, <2>1 DEF Typed
<1>8. Handled'
  BY <1>2, <1>3 DEF IInv, Handled, Typed
<1> QED
  BY <1>4, <1>7, <1>8 DEF IInv, Unbroken
-----------------------------------------------------------------------------
(* How handlers begin and end.                                             *)

(* A handler leaves.  A server whose end is not silent has told the client *)
(* before, or does with the refusal it sends; a client tells nobody.       *)
LEMMA LeaveInvariant ==
  ASSUME IInv, NEW e \in Ends, Leave(e), phase[e] # "none",
         wire' \in [Ends -> Seq(Messages)], wire'[e] = wire[e],
         Range(wire[Far(e)]) \subseteq Range(wire'[Far(e)]),
         silent' \in BOOLEAN,
         e = "client" => wire' = wire /\ silent' = silent,
         \/ e = "client" \/ faults # 0 \/ silent' \/ Told
         \/ \E m \in Range(wire'["client"]) : Final(m)
  PROVE  IInv'
<1>1. /\ phase' = [phase EXCEPT ![e] = "over"]
      /\ registered' = [registered EXCEPT ![e] = @ /\ closed[e]]
      /\ closed' = [closed EXCEPT ![e] = TRUE]
      /\ reading' = [reading EXCEPT ![e] = FALSE]
      /\ writer' = [writer EXCEPT ![e] = "done"]
      /\ inbox' = [inbox EXCEPT ![e] = <<>>] /\ seen' = [seen EXCEPT ![e] = {}]
      /\ quiet' = (quiet /\ e = "client")
      /\ UNCHANGED <<live, faults, orphans, held, sent>>
  BY DEF Leave, faultVars
<1>2. Typed /\ Handled
  BY DEF IInv
<1>3. Ends = {"client", "server"}
      /\ ((e = "client" /\ Far(e) = "server") \/ (e = "server" /\ Far(e) = "client"))
  BY DEF Far, Ends
<1>4. /\ phase'[e] = "over" /\ phase'[Far(e)] = phase[Far(e)]
      /\ registered'[Far(e)] = registered[Far(e)] /\ closed'[Far(e)] = closed[Far(e)]
      /\ writer'[Far(e)] = writer[Far(e)] /\ inbox'[Far(e)] = inbox[Far(e)]
      /\ inbox'[e] = <<>> /\ reading'[e] = FALSE /\ reading'[Far(e)] = reading[Far(e)]
  BY <1>1, <1>2, <1>3 DEF Typed
<1>5. Typed'
  <2>1. /\ <<>> \in Seq(Messages) /\ Len(<<>>) = 0 /\ InboxSize \in Nat
    BY DuplexAssumption
  <2>2. inbox' \in [Ends -> Seq(Messages)] /\ \A d \in Ends : Len(inbox'[d]) <= InboxSize
    BY <1>1, <1>2, <2>1 DEF Typed
  <2>3. /\ registered' \in [Ends -> BOOLEAN] /\ closed' \in [Ends -> BOOLEAN]
        /\ reading' \in [Ends -> BOOLEAN] /\ quiet' \in BOOLEAN
    BY <1>1, <1>2 DEF Typed
  <2> QED
    BY <1>1, <1>2, <2>2, <2>3 DEF Typed
<1>6. Handled'
  BY <1>2, <1>3, <1>4 DEF Handled
<1>7. Coming("server")' \subseteq Coming("server")
  BY <1>1, <1>3, <1>4, EmptyRange DEF Coming
<1>8. e = "server" => Coming("client") \subseteq Coming("client")'
  BY <1>1, <1>3, <1>4 DEF Coming
<1>9. CASE e = "client"
  BY <1>1, <1>3, <1>4, <1>5, <1>6, <1>9 DEF IInv, Unbroken, Told
<1>10. CASE e = "server"
  <2>1. Told \/ (\E m \in Range(wire'["client"]) : Final(m)) => Told'
    BY <1>3, <1>4, <1>8, <1>10 DEF Told, Coming
  <2> QED
    BY <1>1, <1>3, <1>4, <1>5, <1>6, <1>7, <1>10, <2>1 DEF IInv, Unbroken
<1> QED
  BY <1>3, <1>9, <1>10

(* What drainEarly ends with: a refusal, a word that came from the client, *)
(* or a write that fails, of which nothing is said.                        *)
LEMMA EarlyEndInvariant ==
  ASSUME IInv, NEW e \in Ends, Early(e), Overflows(e) \/ TakeEnd(e) \/ WriteFails(e)
  PROVE  IInv'
<1>1. e = "server" /\ Far(e) = "client" /\ phase["server"] = "early" /\ "client" \in Ends
  BY DEF IInv, Handled, Early, Ends, Far
<1>2. Typed
  BY DEF IInv
<1>3. Leave(e)
  BY DEF Overflows, TakeEnd, WriteFails
<1>4. CASE Overflows(e)
  <2>1. Tell(e, Control("refusal")) /\ silent' = silent
    BY <1>4 DEF Overflows
  <2>2. PICK m \in Messages : m = Control("refusal") /\ Final(m)
    BY ControlTyped DEF Types, Final
  <2>3. /\ wire' \in [Ends -> Seq(Messages)] /\ wire'[e] = wire[e]
        /\ Range(wire[Far(e)]) \subseteq Range(wire'[Far(e)])
        /\ live => m \in Range(wire'[Far(e)])
    BY <1>2, <2>1, <2>2, TellWire
  <2>4. faults = 0 => live
    BY DEF IInv, Unbroken
  <2>5. silent' \in BOOLEAN
    BY <1>2, <2>1 DEF Typed
  <2> QED
    BY <1>1, <1>3, <2>2, <2>3, <2>4, <2>5, LeaveInvariant
<1>5. CASE TakeEnd(e)
  <2>1. Takes(e) /\ Final(Head(inbox[e])) /\ wire' = wire /\ silent' = silent
    BY <1>5 DEF TakeEnd
  <2>2. Head(inbox[e]) \in Coming("server")
    BY <1>1, <1>2, <2>1, PopInbox
  <2>3. faults # 0 \/ Told
    BY <2>1, <2>2 DEF IInv, Unbroken, Handled, Told
  <2>4. silent' \in BOOLEAN /\ wire' \in [Ends -> Seq(Messages)]
    BY <1>2, <2>1 DEF Typed
  <2> QED
    BY <1>1, <1>3, <2>1, <2>3, <2>4, LeaveInvariant
<1>6. CASE WriteFails(e)
  <2>1. wire' = wire /\ silent' = TRUE
    BY <1>6 DEF WriteFails
  <2>2. wire' \in [Ends -> Seq(Messages)]
    BY <1>2, <2>1 DEF Typed
  <2> QED
    BY <1>1, <1>3, <2>1, <2>2, LeaveInvariant
<1> QED
  BY <1>4, <1>5, <1>6

(* The end of a dial that fails, of an acknowledgement no tunnel takes, of *)
(* the wait for the second pump and of a session nobody uses.              *)
LEMMA WaitOverInvariant ==
  ASSUME IInv, NEW e \in Ends, \/ WaitEnds(e)
                               \/ e = "server" /\ (DialFails \/ AckFails \/ IdleTimeout)
  PROVE  IInv'
<1>1. Typed /\ (faults = 0 => live)
  BY DEF IInv, Unbroken
<1>2. CASE WaitEnds(e)
  <2>1. Leave(e) /\ wire' = wire /\ silent' = silent /\ phase[e] = "closing"
    BY <1>2 DEF WaitEnds
  <2>2. silent' \in BOOLEAN /\ wire' \in [Ends -> Seq(Messages)]
    BY <1>1, <2>1 DEF Typed
  <2>3. e = "server" /\ faults = 0 => Told
    BY <2>1 DEF IInv, Unbroken
  <2> QED
    BY <2>1, <2>2, <2>3, LeaveInvariant DEF Ends
<1>3. CASE e = "server" /\ AckFails
  <2>1. Leave(e) /\ wire' = wire /\ silent' = silent /\ phase[e] = "early" /\ ~live
    BY <1>3 DEF AckFails, Drained
  <2>2. silent' \in BOOLEAN /\ wire' \in [Ends -> Seq(Messages)]
    BY <1>1, <2>1 DEF Typed
  <2> QED
    BY <1>1, <1>3, <2>1, <2>2, LeaveInvariant
<1>4. CASE e = "server" /\ IdleTimeout
  <2>1. Leave(e) /\ wire' = wire /\ silent' = TRUE /\ phase[e] = "open"
    BY <1>4 DEF IdleTimeout
  <2>2. wire' \in [Ends -> Seq(Messages)]
    BY <1>1, <2>1 DEF Typed
  <2> QED
    BY <1>4, <2>1, <2>2, LeaveInvariant
<1>5. CASE e = "server" /\ DialFails
  <2>1. Leave(e) /\ Tell(e, Control("refusal")) /\ silent' = silent /\ phase[e] = "dialing"
    BY <1>5 DEF DialFails, TellsFail
  <2>2. PICK m \in Messages : m = Control("refusal") /\ Final(m)
    BY ControlTyped DEF Types, Final
  <2>3. Far(e) = "client"
    BY <1>5 DEF Far
  <2>4. /\ wire' \in [Ends -> Seq(Messages)] /\ wire'[e] = wire[e]
        /\ Range(wire[Far(e)]) \subseteq Range(wire'[Far(e)])
        /\ live => m \in Range(wire'[Far(e)])
    BY <1>1, <2>1, <2>2, TellWire
  <2>5. silent' \in BOOLEAN
    BY <1>1, <2>1 DEF Typed
  <2> QED
    BY <1>1, <1>5, <2>1, <2>2, <2>3, <2>4, <2>5, LeaveInvariant
<1> QED
  BY <1>2, <1>3, <1>4, <1>5

(* The first pump to end makes its handler send CLOSE.                     *)
LEMMA PumpEndsInvariant == ASSUME IInv, NEW e \in Ends, PumpEnds(e) PROVE IInv'
<1>1. /\ phase[e] = "open" /\ Tell(e, Control("close"))
      /\ phase' = [phase EXCEPT ![e] = "closing"]
      /\ UNCHANGED <<live, faults, orphans, registered, closed, held, inbox, seen, reading,
                     writer, sent, quiet, silent>>
  BY DEF PumpEnds, SendsClose, Goto, faultVars, hubVars, pumpVars
<1>2. Typed /\ Handled /\ (faults = 0 => live)
  BY DEF IInv, Unbroken
<1>3. Ends = {"client", "server"}
      /\ ((e = "client" /\ Far(e) = "server") \/ (e = "server" /\ Far(e) = "client"))
  BY DEF Far, Ends
<1>4. PICK m \in Messages : m = Control("close") /\ Final(m)
  BY ControlTyped DEF Types, Final
<1>5. /\ wire' \in [Ends -> Seq(Messages)] /\ wire'[e] = wire[e]
      /\ Range(wire[Far(e)]) \subseteq Range(wire'[Far(e)])
      /\ live => m \in Range(wire'[Far(e)])
  BY <1>1, <1>2, <1>4, TellWire
<1>6. phase'[e] = "closing" /\ phase'[Far(e)] = phase[Far(e)]
  BY <1>1, <1>2, <1>3 DEF Typed
<1>7. Typed' /\ Handled'
  <2>1. Typed'
    BY <1>1, <1>2, <1>5 DEF Typed
  <2>2. Handled'
    BY <1>1, <1>2, <1>3, <1>6 DEF Handled
  <2> QED
    BY <2>1, <2>2
<1>8. Coming(e)' = Coming(e) /\ Coming(Far(e)) \subseteq Coming(Far(e))'
      /\ (live => m \in Coming(Far(e))')
  BY <1>1, <1>5 DEF Coming
<1>9. CASE e = "client"
  BY <1>1, <1>2, <1>3, <1>6, <1>7, <1>8, <1>9 DEF IInv, Unbroken, Told
<1>10. CASE e = "server"
  <2>1. live => Told'
    BY <1>3, <1>4, <1>8, <1>10 DEF Told
  <2> QED
    BY <1>1, <1>2, <1>3, <1>6, <1>7, <1>8, <1>10, <2>1 DEF IInv, Unbroken
<1> QED
  BY <1>3, <1>9, <1>10

(* The server's hub opens a session at a HELLO.                            *)
LEMMA GreetInvariant ==
  ASSUME IInv, NEW e \in Ends, NEW m, m = Head(wire[e]), wire[e] # <<>>, Greet(e, m)
  PROVE  IInv'
<1>1. /\ e = "server" /\ Arrives(e)
      /\ registered' = [registered EXCEPT !["server"] = TRUE]
      /\ phase' = [phase EXCEPT !["server"] = "dialing"]
      /\ writer' = [writer EXCEPT !["server"] = "idle"]
      /\ UNCHANGED <<live, faults, orphans, closed, held, inbox, seen, reading, sent, quiet, silent>>
  BY DEF Greet, Opens, faultVars
<1>2. Typed /\ Handled
  BY DEF IInv
<1>3. Ends = {"client", "server"} /\ Far(e) = "client"
  BY <1>1 DEF Far, Ends
<1>4. /\ wire' \in [Ends -> Seq(Messages)] /\ wire'["client"] = wire["client"]
      /\ Range(wire'["server"]) \subseteq Range(wire["server"])
  BY <1>1, <1>2, <1>3, ArriveWire
<1>5. /\ phase'["server"] = "dialing" /\ phase'["client"] = phase["client"]
      /\ registered'["client"] = registered["client"]
  BY <1>1, <1>2, <1>3 DEF Typed
<1>6. Typed'
  BY <1>1, <1>2, <1>4 DEF Typed
<1>7. Handled'
  <2>1. ~registered["server"] /\ registered'["server"] = TRUE
    BY <1>1, <1>2, <1>3 DEF Greet, Typed
  <2>2. /\ "server" \in Ends /\ ~registered["server"]
        /\ \A d \in Ends : /\ reading[d] => phase[d] \in {"open", "closing"}
                           /\ phase[d] \notin {"none", "over"} => registered[d]
    BY <1>2, <1>3, <2>1 DEF Handled
  <2>3. ~reading["server"]
    BY <2>2
  <2> QED
    BY <1>1, <1>2, <1>3, <1>5, <2>1, <2>3 DEF Handled
<1>8. Coming("server")' \subseteq Coming("server")
  BY <1>1, <1>4 DEF Coming
<1> QED
  BY <1>1, <1>3, <1>5, <1>6, <1>7, <1>8 DEF IInv, Unbroken

(* The client finds no tunnel and gives up before it has said anything.    *)
LEMMA RejectInvariant == IInv /\ Reject => IInv'
<1> SUFFICES ASSUME IInv, Reject PROVE IInv'
  OBVIOUS
<1>1. /\ phase["client"] = "none" /\ ~live /\ phase' = [phase EXCEPT !["client"] = "over"]
      /\ UNCHANGED <<live, faults, wire, orphans, registered, closed, held, inbox, seen, reading,
                     writer, sent, quiet, silent>>
  BY DEF Reject, Goto, faultVars, pathVars, hubVars, pumpVars
<1>2. Typed' /\ Handled'
  BY <1>1 DEF IInv, Typed, Handled, Ends
<1>3. faults' # 0
  BY <1>1 DEF IInv, Unbroken
<1> QED
  BY <1>2, <1>3 DEF IInv, Unbroken

(* The client's HELLO, with the session behind it or the application gone. *)
LEMMA OpenInvariant == IInv /\ Open => IInv'
<1> SUFFICES ASSUME IInv, Open PROVE IInv'
  OBVIOUS
<1>1. /\ phase["client"] = "none" /\ live /\ Tell("client", Control("hello"))
      /\ \/ /\ phase' = [phase EXCEPT !["client"] = "open"]
            /\ registered' = [registered EXCEPT !["client"] = TRUE]
            /\ reading' = [reading EXCEPT !["client"] = TRUE]
            /\ writer' = [writer EXCEPT !["client"] = "idle"]
            /\ UNCHANGED closed
         \/ /\ phase' = [phase EXCEPT !["client"] = "over"]
            /\ closed' = [closed EXCEPT !["client"] = TRUE]
            /\ UNCHANGED <<registered, reading, writer>>
      /\ UNCHANGED <<live, faults, orphans, held, inbox, seen, sent, quiet, silent>>
  BY DEF Open, Goto, faultVars
<1>2. Typed /\ Handled
  BY DEF IInv
<1>3. Ends = {"client", "server"} /\ Far("client") = "server"
  BY DEF Far, Ends
<1>4. PICK m \in Messages : m = Control("hello") /\ ~Final(m)
  BY ControlTyped DEF Types, Final
<1>5. /\ wire' \in [Ends -> Seq(Messages)] /\ wire'["client"] = wire["client"]
      /\ Range(wire'["server"]) \subseteq Range(wire["server"]) \cup {m}
  BY <1>1, <1>2, <1>3, <1>4, TellWire
<1>6. /\ phase'["client"] \in {"open", "over"} /\ phase'["server"] = phase["server"]
      /\ phase'["client"] = "open" =>
            closed' = closed /\ registered'["client"] /\ reading'["client"]
      /\ phase'["client"] = "over" => reading' = reading /\ registered' = registered
      /\ registered'["server"] = registered["server"] /\ reading'["server"] = reading["server"]
  BY <1>1, <1>2, <1>3 DEF Typed
<1>7. Typed' /\ Handled'
  <2>1. Typed'
    BY <1>1, <1>2, <1>5 DEF Typed
  <2>2. Handled'
    BY <1>1, <1>2, <1>3, <1>6 DEF Handled
  <2> QED
    BY <2>1, <2>2
<1>8. \A x \in Coming("server")' : Final(x) => x \in Coming("server")
  BY <1>1, <1>4, <1>5 DEF Coming
<1>9. faults = 0 => phase["server"] = "none" /\ ~closed["client"]
  BY <1>1 DEF IInv, Unbroken
<1> QED
  BY <1>1, <1>6, <1>7, <1>8, <1>9 DEF IInv, Unbroken

(* The dial has succeeded; the early frames are drained and acknowledged.  *)
LEMMA DialledInvariant == IInv /\ (Dialled \/ Acked) => IInv'
<1> SUFFICES ASSUME IInv, Dialled \/ Acked PROVE IInv'
  OBVIOUS
<1>1. Typed /\ Handled /\ Ends = {"client", "server"} /\ Far("server") = "client"
  BY DEF IInv, Far, Ends
<1>2. PICK p \in {"early", "open"} : phase' = [phase EXCEPT !["server"] = p]
  BY DEF Dialled, Acked, Goto
<1>3. /\ phase["server"] \in {"dialing", "early"}
      /\ UNCHANGED <<live, faults, orphans, registered, closed, held, inbox, seen, writer, sent,
                     quiet, silent>>
      /\ \/ UNCHANGED <<wire, reading>>
         \/ /\ Tell("server", Control("ack")) /\ phase'["server"] = "open"
            /\ reading' = [reading EXCEPT !["server"] = TRUE]
  BY <1>1 DEF Dialled, Acked, Goto, Drained, faultVars, pathVars, hubVars, pumpVars, Typed
<1>4. Control("ack") \in Messages
  BY ControlTyped DEF Types
<1>5. /\ wire' \in [Ends -> Seq(Messages)] /\ wire'["server"] = wire["server"]
      /\ reading' \in [Ends -> BOOLEAN] /\ reading'["client"] = reading["client"]
  <2>1. CASE UNCHANGED <<wire, reading>>
    BY <1>1, <2>1 DEF Typed
  <2>2. CASE Tell("server", Control("ack")) /\ reading' = [reading EXCEPT !["server"] = TRUE]
    <3>1. wire' \in [Ends -> Seq(Messages)] /\ wire'["server"] = wire["server"]
      BY <1>1, <1>4, <2>2, TellWire
    <3> QED
      BY <1>1, <2>2, <3>1 DEF Typed
  <2> QED
    BY <1>3, <2>1, <2>2
<1>6. phase'["server"] = p /\ phase'["client"] = phase["client"]
  BY <1>1, <1>2 DEF Typed
<1>7. Typed'
  BY <1>1, <1>2, <1>3, <1>5 DEF Typed
<1>8. Handled'
  <2>0. /\ "server" \in Ends /\ phase["server"] \in {"dialing", "early"}
        /\ \A d \in Ends : /\ reading[d] => phase[d] \in {"open", "closing"}
                           /\ phase[d] \notin {"none", "over"} => registered[d]
    BY <1>1, <1>3 DEF Handled
  <2>1. registered["server"] /\ ~reading["server"]
    BY <2>0
  <2>2. reading'["server"] => phase'["server"] = "open"
    BY <1>1, <1>3, <2>1
  <2> QED
    BY <1>1, <1>3, <1>5, <1>6, <2>1, <2>2 DEF Handled
<1>9. Coming("server")' = Coming("server")
  BY <1>3, <1>5 DEF Coming
<1> QED
  BY <1>3, <1>5, <1>6, <1>7, <1>8, <1>9 DEF IInv, Unbroken
-----------------------------------------------------------------------------
(* The theorems.                                                           *)

(* At the start nothing is under way.                                      *)
LEMMA InitInvariant == Init => IInv
<1> SUFFICES ASSUME Init PROVE IInv
  OBVIOUS
<1>1. /\ <<>> \in Seq(Messages) /\ Len(<<>>) = 0 /\ InboxSize \in Nat /\ MaxFrame \in Nat
      /\ MaxFaults \in Nat
  BY DuplexAssumption
<1>2. Typed
  <2>1. inbox \in [Ends -> Seq(Messages)] /\ \A e \in Ends : Len(inbox[e]) <= InboxSize
    BY <1>1 DEF Init
  <2>2. wire \in [Ends -> Seq(Messages)] /\ held \in [Ends -> Messages]
    BY <1>1, ControlTyped DEF Init
  <2>3. sent \in [Ends -> 0..MaxFrame] /\ faults \in 0..MaxFaults
    BY <1>1 DEF Init
  <2>4. live \in BOOLEAN /\ quiet \in BOOLEAN /\ silent \in BOOLEAN
    BY Zenon DEF Init
  <2> QED
    BY <2>1, <2>2, <2>3, <2>4 DEF Init, Typed
<1>3. Handled
  BY DEF Init, Handled, Ends
<1>4. Coming("server") = {Nothing}
  BY EmptyRange DEF Init, Coming, Ends
<1>5. Unbroken
  BY <1>4, ControlTyped DEF Init, Unbroken, Ends
<1> QED
  BY <1>2, <1>3, <1>5 DEF IInv

(* Every step keeps the invariant.                                         *)
LEMMA NextInvariant == IInv /\ [Next]_vars => IInv'
<1> SUFFICES ASSUME IInv, [Next]_vars PROVE IInv'
  OBVIOUS
<1>1. ASSUME NEW e \in Ends, Dispatch(e) PROVE IInv'
  <2>1. CASE Feed(e)
    BY <2>1, FeedInvariant
  <2>2. ASSUME NEW m, m = Head(wire[e]), wire[e] # <<>>,
               Lookup(e, m) \/ Drop(e, m) \/ Greet(e, m)
        PROVE  IInv'
    BY <2>2, LookupInvariant, DropInvariant, GreetInvariant
  <2> QED
    BY <1>1, <2>1, <2>2 DEF Dispatch
<1>2. ASSUME NEW e \in Ends, Pump(e) \/ WriteDone(e) \/ WriteFails(e) PROVE IInv'
  <2>1. CASE Early(e) /\ (Overflows(e) \/ TakeEnd(e) \/ WriteFails(e))
    BY <2>1, EarlyEndInvariant
  <2>2. CASE ~(Early(e) /\ (Overflows(e) \/ TakeEnd(e) \/ WriteFails(e)))
    BY <1>2, <2>2, PumpInvariant
  <2> QED
    BY <2>1, <2>2
<1>3. ASSUME NEW e \in Ends, Read(e) \/ ReadEnds(e) PROVE IInv'
  BY <1>3, ReadInvariant, ReadEndsInvariant
<1>4. ASSUME NEW e \in Ends, Kill(e) PROVE IInv'
  BY <1>4, KillInvariant
<1>5. ASSUME NEW e \in Ends, Finish(e) PROVE IInv'
  BY <1>5, PumpEndsInvariant, WaitOverInvariant DEF Finish
<1>6. CASE Reject \/ Open
  BY <1>6, RejectInvariant, OpenInvariant
<1>7. CASE Dialled \/ Acked
  BY <1>7, DialledInvariant
<1>8. CASE DialFails \/ AckFails \/ IdleTimeout
  BY <1>8, WaitOverInvariant DEF Ends
<1>9. CASE Chatter \/ Elapse
  BY <1>9, QuietInvariant
<1>10. CASE Network
  BY <1>10, UpInvariant, DieInvariant, RestartInvariant DEF Network
<1>11. CASE UNCHANGED vars
  <2>1. UNCHANGED <<live, faults, wire, orphans, registered, closed, held, inbox, seen, phase,
                    reading, writer, sent, quiet, silent>>
    BY <1>11 DEF vars, faultVars, pathVars, hubVars, pumpVars
  <2>2. Typed' /\ Handled'
    BY <2>1 DEF IInv, Typed, Handled
  <2>3. \A e \in Ends : Coming(e)' = Coming(e)
    BY <2>1 DEF Coming
  <2> QED
    BY <2>1, <2>2, <2>3, Calm DEF Ends
<1>12. "client" \in Ends /\ "server" \in Ends
  BY DEF Ends
<1>13. CASE Client
  BY <1>1, <1>2, <1>4, <1>5, <1>6, <1>12, <1>13 DEF Client, Handle
<1>14. CASE Server
  BY <1>1, <1>2, <1>4, <1>5, <1>7, <1>8, <1>9, <1>12, <1>14 DEF Server, RunSession
<1>15. ASSUME NEW e \in Ends, Owner(e) PROVE IInv'
  BY <1>2, <1>3, <1>15 DEF Owner
<1> QED
  BY <1>9, <1>10, <1>11, <1>13, <1>14, <1>15 DEF Next

(* The inductive invariant holds in every reachable state of both programs *)
(* and of what is between them.                                            *)
THEOREM Invariance == Spec => []IInv
<1>1. Init => IInv
  BY InitInvariant
<1>2. IInv /\ [Next]_vars => IInv'
  BY NextInvariant
<1> QED
  BY <1>1, <1>2, PTL DEF Spec

(* The state of both hubs, of handle and of runSession stays in its types; *)
(* no inbox outgrows InboxBufferSize, and a session whose handle or        *)
(* runSession has yet to return is in the hub, killed or not.              *)
THEOREM TypeCorrect == Spec => []TypeOK
<1>1. IInv => TypeOK
  BY DEF IInv, Handled, TypeOK
<1> QED
  BY <1>1, Invariance, PTL

(* While no tunnel has died, runSession does not end without the client's  *)
(* having been told, or being about to end by itself, except where the     *)
(* code says nothing: the idle timer and a failing write of early frames.  *)
THEOREM WordsAreSent == Spec => []WordIsUnderWay
<1>1. IInv => WordIsUnderWay
  BY DEF IInv, Unbroken, Told, WordIsUnderWay
<1> QED
  BY <1>1, Invariance, PTL
=============================================================================
