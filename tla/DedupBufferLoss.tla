--------------------------- MODULE DedupBufferLoss ---------------------------
(***************************************************************************)
(* The dedup buffer at the end of a direction on which some frames were    *)
(* lost with the tunnels that carried them.  Every other frame arrives,    *)
(* time passes, and no CLOSE comes: the session stays up.                  *)
(***************************************************************************)
EXTENDS DedupBuffer

CONSTANT Lost               \* frames no tunnel delivered

Arrives(s) == s \notin Lost /\ Push(s)

LossNext == (\E s \in Seqs : Arrives(s)) \/ Elapse

LossSpec == /\ Init /\ [][LossNext]_vars
            /\ WF_vars(Elapse)
            /\ \A s \in Seqs : WF_vars(Arrives(s))

\* buffer.go:8-11: skipping "prevents permanent stalls when frames are lost
\* due to tunnel death".  The timer is only looked at when Push is given
\* another new frame, so the last frames before a pause wait for ever.
NoPermanentStall ==
    [](pending # {} => <>(pending = {} \/ stream # "open"))
=============================================================================
