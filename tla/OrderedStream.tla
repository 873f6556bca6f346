---------------------------- MODULE OrderedStream ----------------------------
(***************************************************************************)
(* What the receiving end of one direction of a session promises to the    *)
(* socket it writes to, whatever the tunnels did to the frames: the bytes  *)
(* of an accepted frame come out once, in increasing sequence order while  *)
(* the stream is open, and none of them is left behind when a CLOSE ends   *)
(* it.  Which frames are accepted, and when they come out, is left open.   *)
(***************************************************************************)
EXTENDS Naturals, Sequences, Functions

CONSTANT MaxSeq             \* highest sequence number of the stream

VARIABLES accepted,         \* sequence numbers taken in
          delivered,        \* sequence numbers in the order they came out
          ended             \* nothing more will come out

vars == <<accepted, delivered, ended>>

Seqs == 1..MaxSeq

Ascending(d)  == \A i, j \in DOMAIN d : i < j => d[i] < d[j]
Extends(d, e) == Len(e) <= Len(d) /\ \A i \in DOMAIN e : d[i] = e[i]

Init == accepted = {} /\ delivered = <<>> /\ ended = FALSE

Progress == /\ ~ended
            /\ accepted \subseteq accepted'
            /\ accepted' \subseteq Seqs
            /\ Extends(delivered', delivered)
            /\ Range(delivered') \subseteq accepted'
            /\ IsInjective(delivered')

Deliver == Progress /\ Ascending(delivered') /\ UNCHANGED ended
Finish  == Progress /\ Range(delivered') = accepted' /\ ended' = TRUE
Break   == ~ended /\ ended' = TRUE /\ UNCHANGED <<accepted, delivered>>

Next == Deliver \/ Finish \/ Break
Spec == Init /\ [][Next]_vars
=============================================================================
