--------------------------- MODULE AdaptController ---------------------------
(***************************************************************************)
(* internal/mpadapt/controller.go with the win counters of                 *)
(* internal/mphub/hub.go it reads and resets, and the pool's tunnels that  *)
(* come up and die meanwhile.  One evaluate pass is several steps: it      *)
(* copies the counters, looks at the tunnels and their states, sets states *)
(* one tunnel at a time, and resets the counters; wins are credited and    *)
(* tunnels change between them.  Each tunnel is used once.  Which frames   *)
(* were credited the hub remembers in a ring.                              *)
(***************************************************************************)
EXTENDS Integers, Sequences, FiniteSets, FiniteSetsExt, Functions

CONSTANTS Tunnels,
          Configs,          \* the [min, max] settings of MinActive, MaxActive
          MinFrames,
          Keys,             \* session and sequence number of a DATA frame
          RingSize,         \* seenRingSize
          Num, Den,         \* DemoteThreshold is Num / Den
          MaxWins           \* bound: wins counted per tunnel in one window

NoKey == "none"             \* an empty place of the ring

ASSUME AdaptAssumption ==
    /\ IsFiniteSet(Tunnels)
    /\ \A c \in Configs : c.min \in Nat \ {0} /\ c.max \in Nat
    /\ MinFrames \in Nat \ {0} /\ MaxWins \in Nat
    /\ RingSize \in Nat \ {0} /\ NoKey \notin Keys
    /\ Num \in Nat /\ Den \in Nat \ {0}

\* main.go:211 has DefaultConfig, 2 and 2: no cap lies under the floor, which
\* Run would not notice.
ASSUME FloorBelowCap == \A c \in Configs : c.max = 0 \/ c.min <= c.max

VARIABLES config,           \* MinActive and MaxActive, chosen at the start
          used, live,       \* tunnels ever up; tunnels in the pool
          active,           \* tunnels whose state is StateActive, dead or alive
          wins, frames,     \* Hub.winCount, Hub.frameCount
          known, ring, at,  \* Hub.seen, seenRing, seenIdx
          latest,           \* history: keys of the last RingSize credits
          phase,            \* "idle", "scored", "applying"
          score,            \* the copy of wins the pass works on
          total,            \* the copy of frames
          seen, judged,     \* the tunnels the pass looked at; its actives
          down, up,         \* what the pass still has to set Shadow, Active
          changed,          \* evaluate will return true
          cooldown          \* CooldownAfterChange has not passed

tunnelVars == <<used, live, active>>
ringVars   == <<known, ring, at, latest>>
winVars    == <<wins, frames, ringVars>>
passVars   == <<phase, score, total, seen, judged, down, up, changed>>
vars == <<config, tunnelVars, winVars, passVars, cooldown>>

Zero   == [t \in Tunnels |-> 0]
Places == 0..(RingSize - 1)
Empty  == [i \in Places |-> NoKey]

Init == /\ config \in Configs
        /\ used = {} /\ live = {} /\ active = {}
        /\ wins = Zero /\ frames = 0
        /\ known = {} /\ ring = Empty /\ at = 0 /\ latest = <<>>
        /\ phase = "idle" /\ score = Zero /\ total = 0
        /\ seen = {} /\ judged = {} /\ down = {} /\ up = {}
        /\ changed = FALSE /\ cooldown = FALSE
-----------------------------------------------------------------------------
(* The pool and the hub, at any time.                                      *)

\* New tunnels start Active.
TunnelUp(t) ==
    /\ t \notin used
    /\ used' = used \cup {t} /\ live' = live \cup {t} /\ active' = active \cup {t}
    /\ UNCHANGED <<config, winVars, passVars, cooldown>>

TunnelDown(t) ==
    /\ t \in live
    /\ live' = live \ {t}
    /\ UNCHANGED <<config, used, active, winVars, passVars, cooldown>>

\* creditWin: t delivered a frame first; t may have died since.
Counted     == frames + 1
Credited(t) == wins[t] + 1

\* The key takes the place of the oldest one, which is forgotten.
RunsOff == at + 1                                            \* mutant
Onward  == (at + 1) % RingSize

Remember(k) ==
    /\ ring' = [ring EXCEPT ![at] = k]
    /\ at' = Onward
    /\ known' = (known \ {ring[at]}) \cup {k}
    /\ LET all == Append(latest, k) IN
       latest' = IF Len(all) > RingSize THEN Tail(all) ELSE all

Win(t, k) ==
    /\ t \in used /\ k \notin known /\ wins[t] < MaxWins
    /\ wins' = [wins EXCEPT ![t] = Credited(t)]
    /\ frames' = Counted
    /\ Remember(k)
    /\ UNCHANGED <<config, tunnelVars, passVars, cooldown>>
-----------------------------------------------------------------------------
(* evaluate.                                                               *)

\* A tick outside the cooldown, with enough frames to judge by.
Score ==
    /\ phase = "idle" /\ ~cooldown /\ frames >= MinFrames
    /\ phase' = "scored" /\ score' = wins /\ total' = frames
    /\ UNCHANGED <<config, tunnelVars, winVars, seen, judged, down, up, changed, cooldown>>

\* splitByState looks at the tunnels of the pool alone.
Actives == live \cap active
Shadows == live \ active
Atop(P, S)   == \A p \in P, q \in S \ P : score[q] <= score[p]
Worst(a)     == a \in Actives /\ \A b \in Actives : score[a] <= score[b]
Best(s)      == s \in Shadows /\ \A q \in Shadows : score[q] <= score[s]
AtMax        == config.max > 0 /\ Cardinality(Actives) >= config.max   \* mutant
OverMax      == config.max > 0 /\ Cardinality(Actives) > config.max
AtFloor      == Cardinality(Actives) >= config.min            \* mutant
AboveFloor   == Cardinality(Actives) > config.min
FarBelow     == Cardinality(Actives) + 1 < config.min         \* mutant
BelowFloor   == Cardinality(Actives) < config.min
Missing      == Min({config.min - Cardinality(Actives), Cardinality(Shadows)})
LosesOften(a) == score[a] * Den < Num * total

Plan(lower, raise) ==
    /\ phase = "scored" /\ live # {}
    /\ phase' = "applying" /\ seen' = live /\ judged' = Actives
    /\ down' = lower /\ up' = raise /\ changed' = (lower \cup raise # {})
    /\ score' = Zero /\ total' = 0
    /\ UNCHANGED <<config, tunnelVars, winVars, cooldown>>

\* No tunnel at all: return without resetting the counters.
NoTunnels ==
    /\ phase = "scored" /\ live = {}
    /\ phase' = "idle" /\ score' = Zero /\ total' = 0
    /\ UNCHANGED <<config, tunnelVars, winVars, seen, judged, down, up, changed, cooldown>>

\* The min-active rule: promote the top Shadows.
RaiseToFloor ==
    /\ BelowFloor
    /\ \E P \in kSubset(Missing, Shadows) : Atop(P, Shadows) /\ Plan({}, P)

\* Over MaxActive: demote the worst.
LowerToMax ==
    /\ ~BelowFloor /\ OverMax
    /\ \E a \in Actives : Worst(a) /\ Plan({a}, {})

MaySwap(a, s) == AboveFloor /\ LosesOften(a) /\ score[a] < score[s]

\* The demote rule: swap the worst Active for a Shadow that did better.
Swap ==
    /\ ~BelowFloor /\ ~OverMax
    /\ \E a \in Actives, s \in Shadows :
          Worst(a) /\ Best(s) /\ MaySwap(a, s) /\ Plan({a}, {s})

Keep ==
    /\ ~BelowFloor /\ ~OverMax
    /\ \A a \in Actives, s \in Shadows : Worst(a) /\ Best(s) => ~MaySwap(a, s)
    /\ Plan({}, {})

\* SetState, one tunnel at a time; a swap demotes first.  The tunnel may have
\* died meanwhile: its state is stored all the same.
SetShadow(t) ==
    /\ phase = "applying" /\ t \in down
    /\ down' = down \ {t} /\ active' = active \ {t}
    /\ UNCHANGED <<config, used, live, winVars, phase, score, total, seen, judged,
                   up, changed, cooldown>>

SetActive(t) ==
    /\ phase = "applying" /\ down = {} /\ t \in up
    /\ up' = up \ {t} /\ active' = active \cup {t}
    /\ UNCHANGED <<config, used, live, winVars, phase, score, total, seen, judged,
                   down, changed, cooldown>>

\* ResetWinStats on the way out, and lastChange if anything changed.
KeepsFrames == frames                                        \* mutant
Restarted   == 0
KeepsRing   == ring                                          \* mutant
Wiped       == Empty

Reset ==
    /\ phase = "applying" /\ down = {} /\ up = {}
    /\ phase' = "idle" /\ seen' = {} /\ judged' = {} /\ changed' = FALSE
    /\ wins' = Zero /\ frames' = Restarted
    /\ known' = {} /\ ring' = Wiped /\ at' = 0 /\ latest' = <<>>
    /\ cooldown' = changed
    /\ UNCHANGED <<config, tunnelVars, score, total, down, up>>

CooldownOver ==
    /\ cooldown /\ cooldown' = FALSE
    /\ UNCHANGED <<config, tunnelVars, winVars, passVars>>
-----------------------------------------------------------------------------
Evaluate == \/ Score \/ NoTunnels \/ RaiseToFloor \/ LowerToMax \/ Swap \/ Keep
            \/ \E t \in Tunnels : SetShadow(t) \/ SetActive(t)
            \/ Reset
Traffic == \E t \in Tunnels, k \in Keys : Win(t, k)
Churn   == \E t \in Tunnels : TunnelUp(t) \/ TunnelDown(t)

Next == Evaluate \/ CooldownOver \/ Traffic \/ Churn

\* The controller's goroutine runs and time passes; traffic may stop.
Quiet == Init /\ [][Next]_vars /\ WF_vars(Evaluate) /\ WF_vars(CooldownOver)

\* Frames keep coming in while a tunnel is up.
Spec  == Quiet /\ WF_vars(Traffic)
-----------------------------------------------------------------------------
(* Properties.                                                             *)

\* The counters, the sets and what a pass holds on to.
TypeOK == /\ config \in Configs
          /\ used \subseteq Tunnels /\ live \subseteq used /\ active \subseteq used
          /\ wins \in [Tunnels -> 0..MaxWins] /\ frames \in Nat
          /\ known \subseteq Keys /\ at \in Places
          /\ ring \in [Places -> Keys \cup {NoKey}] /\ latest \in Seq(Keys)
          /\ phase \in {"idle", "scored", "applying"}
          /\ score \in [Tunnels -> 0..MaxWins] /\ total \in Nat
          /\ seen \subseteq used /\ judged \subseteq seen /\ down \subseteq seen /\ up \subseteq seen
          /\ changed \in BOOLEAN /\ cooldown \in BOOLEAN

\* The wins winCount has counted, one by one.
Tally == {w \in Tunnels \X (1..MaxWins) : w[2] <= wins[w[1]]}

\* frameCount is the sum of winCount, whatever credits, deaths and resets
\* came between: the rates a pass computes are shares of one window.
WinsAddUp == frames = Cardinality(Tally)

\* The hub knows just the frames it credited last, as many as the ring has
\* places, since the counters were reset: none of those is credited again,
\* whoever brings it next, and no older one is kept for ever.
KnowsTheLatest == known = Range(latest)

\* No demotion leaves fewer than MinActive of the tunnels a pass looked at in
\* StateActive, at any moment of a swap and whichever tunnels come meanwhile.
\* What dies after the look still counts: only a death takes the pool lower.
DemotionKeepsFloor ==
    [][\A t \in active \ active' : Cardinality(active' \cap seen) >= config.min]_vars

\* A tunnel is demoted only because the pass found more Active tunnels than
\* MaxActive, or to make room for a Shadow that the same pass promotes next.
DemotionHasReason ==
    [][\A t \in active \ active' : \/ config.max > 0 /\ Cardinality(judged) > config.max
                                  \/ up # {}]_vars

Floor   == Cardinality(Actives) >= Min({config.min, Cardinality(live)})
Ceiling == config.max = 0 \/ Cardinality(Actives) <= config.max

\* While frames keep coming, the pool settles between MinActive and MaxActive
\* once tunnels stop coming and going.
Converges == <>[](Floor /\ Ceiling)

\* The pass finds s the best Shadow, and better than an Active tunnel that
\* wins less than DemoteThreshold.
Outdone(s) == \E a \in Actives : Worst(a) /\ LosesOften(a) /\ score[a] < score[s]
Finds(s)   == phase = "scored" /\ phase' = "applying" /\ Best(s) /\ Outdone(s)

\* README.md:19: "Shadows get promoted back if conditions change."  Under
\* DefaultConfig, 2 and 2, a Shadow that pass after pass finds better than an
\* Active one stays Shadow for ever: there is never an Active above the floor.
ShadowsReturn == \A s \in Tunnels : []<><<Finds(s)>>_vars => []<>(s \notin Shadows)
=============================================================================
