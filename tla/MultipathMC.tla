----------------------------- MODULE MultipathMC -----------------------------
(* Multipath, explored while something is left that could reach a handler.  *)
EXTENDS Multipath

\* A session runs or may still be opened.  With the last one over, or without
\* a copy of HELLO under way, no frame is delivered any more, and what the
\* properties say of the end they said when the handler left.
HelloLeft == client = "new" \/ \E t \in Tunnels : Hello \in Range(wire[t])
Going     == phase # "over" \/ (dials < MaxDials /\ HelloLeft)

\* A tunnel that finds no orphans waits until there are some, or for ever: to
\* have looked in vain differs from not having looked in nothing else.
FindsOrphans == arriving \subseteq arriving' \/ orphans # <<>>
=============================================================================
