------------------------ MODULE AdaptControllerProofs ------------------------
(***************************************************************************)
(* The safety of the controller, for any number of tunnels, any settings   *)
(* with the cap above the floor, any size of the ring and any traffic.     *)
(***************************************************************************)
EXTENDS AdaptController, SequenceFacts, FiniteSetTheorems

\* The ring holds the keys credited last, the oldest where the next one goes
\* once it is full, and no key twice.
Place(j) == IF at + j - 1 < RingSize THEN at + j - 1 ELSE at + j - 1 - RingSize

RingHolds ==
    /\ KnowsTheLatest
    /\ Len(latest) <= RingSize
    /\ \A i, j \in 1..Len(latest) : latest[i] = latest[j] => i = j
    /\ Len(latest) < RingSize =>
          /\ Len(latest) = at
          /\ \A p \in Places : ring[p] = IF p < at THEN latest[p + 1] ELSE NoKey
    /\ Len(latest) = RingSize => \A j \in 1..RingSize : ring[Place(j)] = latest[j]

\* Those a pass looked at that are Active still, dead or alive.
Serving == active \cap seen

\* A pass that has a tunnel to demote has that one only, has more than
\* MinActive serving, and a reason.  Between passes nothing is left to set.
PassHolds ==
    /\ phase # "applying" => down = {} /\ up = {}
    /\ \A s, t \in down : s = t
    /\ down # {} => /\ Cardinality(Serving) > config.min
                    /\ up # {} \/ (config.max > 0 /\ Cardinality(judged) > config.max)

\* The inductive invariant.
IInv == TypeOK /\ RingHolds /\ PassHolds /\ WinsAddUp

USE DEF tunnelVars, ringVars, winVars, passVars

\* A subset of the tunnels a pass looked at is finite, and so countable.
LEMMA TunnelsFinite ==
  ASSUME NEW S \in SUBSET Tunnels
  PROVE  IsFiniteSet(S) /\ Cardinality(S) \in Nat
BY AdaptAssumption, FS_Subset, FS_CardinalityType

\* So are the wins of one window.
LEMMA TallyFinite == IsFiniteSet(Tally) /\ Cardinality(Tally) \in Nat
<1>1. IsFiniteSet(1..MaxWins)
  BY AdaptAssumption, FS_Interval
<1>2. IsFiniteSet(Tunnels \X (1..MaxWins))
  BY <1>1, AdaptAssumption, FS_Product
<1> QED
  BY <1>2, FS_Subset, FS_CardinalityType DEF Tally

\* With the counters at zero there are none.
LEMMA EmptyTally ==
  ASSUME NEW w \in Tunnels \X (1..MaxWins)
  PROVE  ~(w[2] <= Zero[w[1]])
<1>1. w[1] \in Tunnels /\ w[2] \in 1..MaxWins
  OBVIOUS
<1> QED
  BY <1>1, AdaptAssumption DEF Zero

\* Counting one more win of a tunnel.
LEMMA TallyGrows ==
  ASSUME TypeOK, WinsAddUp, NEW t \in Tunnels, wins[t] < MaxWins,
         wins' = [wins EXCEPT ![t] = wins[t] + 1], frames' = frames + 1
  PROVE  WinsAddUp'
<1> DEFINE w == <<t, wins[t] + 1>>
<1>1. wins[t] \in Nat /\ wins[t] + 1 \in 1..MaxWins
  BY AdaptAssumption DEF TypeOK
<1>2. Tally' = Tally \cup {w}
  <2>1. ASSUME NEW v \in Tunnels \X (1..MaxWins)
        PROVE  v[2] <= wins'[v[1]] <=> v[2] <= wins[v[1]] \/ v = w
    <3>1. v[1] \in Tunnels /\ v[2] \in 1..MaxWins /\ v = <<v[1], v[2]>>
      OBVIOUS
    <3>2. CASE v[1] = t
      <4>1. wins'[v[1]] = wins[t] + 1 /\ wins[v[1]] = wins[t]
        BY <3>1, <3>2 DEF TypeOK
      <4>2. v = w <=> v[2] = wins[t] + 1
        BY <3>1, <3>2
      <4> QED
        BY <1>1, <3>1, <4>1, <4>2
    <3>3. CASE v[1] # t
      BY <3>1, <3>3 DEF TypeOK
    <3> QED
      BY <3>2, <3>3
  <2> QED
    BY <1>1, <2>1 DEF Tally
<1>3. w \notin Tally
  BY <1>1 DEF Tally
<1> HIDE DEF w
<1> QED
  BY <1>2, <1>3, TallyFinite, FS_AddElement DEF WinsAddUp

\* An empty ring with nothing credited, at the start and after a reset.
LEMMA EmptyRing ==
  ASSUME known = {}, ring = Empty, at = 0, latest = <<>>
  PROVE  RingHolds
<1>1. Len(latest) = 0 /\ RingSize \in Nat /\ RingSize > 0
  BY AdaptAssumption
<1>2. KnowsTheLatest
  BY EmptyRange DEF KnowsTheLatest
<1>3. \A p \in Places : ring[p] = NoKey /\ ~(p < at)
  BY AdaptAssumption DEF Places, Empty
<1> QED
  BY <1>1, <1>2, <1>3 DEF RingHolds

\* The next place of the ring.
LEMMA NextPlace ==
  ASSUME at \in Places
  PROVE  /\ Onward = IF at + 1 = RingSize THEN 0 ELSE at + 1
         /\ Onward \in Places
BY AdaptAssumption DEF Places, Onward

LEMMA InitIInv == Init => IInv
<1> SUFFICES ASSUME Init
             PROVE  IInv
  OBVIOUS
<1>1. TypeOK
  <2>1. Zero \in [Tunnels -> 0..MaxWins] /\ 0 \in Places
    BY AdaptAssumption DEF Zero, Places
  <2>2. Empty \in [Places -> Keys \cup {NoKey}]
    BY DEF Empty
  <2> QED
    BY <2>1, <2>2 DEF Init, TypeOK
<1>2. RingHolds
  BY EmptyRing DEF Init
<1>3. PassHolds
  BY DEF Init, PassHolds
<1>4. WinsAddUp
  <2>1. Tally = {}
    BY EmptyTally DEF Init, Tally
  <2> QED
    BY <2>1, FS_EmptySet DEF Init, WinsAddUp
<1> QED
  BY <1>1, <1>2, <1>3, <1>4 DEF IInv

\* Remembering a key in a ring that has room: it goes behind the others.
LEMMA RememberWithRoom ==
  ASSUME TypeOK, RingHolds, NEW k \in Keys, k \notin known, Remember(k),
         Len(latest) < RingSize
  PROVE  RingHolds'
<1>1. /\ latest \in Seq(Keys) /\ at \in Places /\ ring \in [Places -> Keys \cup {NoKey}]
      /\ Len(latest) \in Nat /\ RingSize \in Nat \ {0}
      /\ Len(latest) = at /\ ring[at] = NoKey
  BY AdaptAssumption DEF TypeOK, RingHolds, Places
<1>2. /\ latest' = Append(latest, k) /\ latest' \in Seq(Keys)
      /\ Len(latest') = at + 1
      /\ \A i \in 1..at : latest'[i] = latest[i]
      /\ latest'[at + 1] = k
      /\ Range(latest') = Range(latest) \cup {k}
  BY <1>1, SendRange DEF Remember
<1>3. KnowsTheLatest'
  <2>1. known' = known \cup {k}
    BY <1>1, AdaptAssumption DEF Remember, TypeOK
  <2> QED
    BY <1>2, <2>1 DEF RingHolds, KnowsTheLatest
<1>4. \A i, j \in 1..Len(latest') : latest'[i] = latest'[j] => i = j
  <2>1. \A i \in 1..at : latest[i] # k
    BY <1>1 DEF RingHolds, KnowsTheLatest, Range
  <2> QED
    BY <1>1, <1>2, <2>1 DEF RingHolds
<1>5. \A p \in Places : ring'[p] = IF p < at + 1 THEN latest'[p + 1] ELSE NoKey
  BY <1>1, <1>2 DEF RingHolds, Remember, Places
<1>6. /\ at' = IF at + 1 = RingSize THEN 0 ELSE at + 1
      /\ Len(latest') <= RingSize
  BY <1>1, <1>2, NextPlace DEF Remember
<1>7. ASSUME at + 1 = RingSize, NEW j \in 1..RingSize
      PROVE  ring'[Place(j)'] = latest'[j]
  <2>1. Place(j)' = j - 1 /\ j - 1 \in Places /\ j - 1 < at + 1
    BY <1>1, <1>6, <1>7 DEF Place, Places
  <2> QED
    BY <1>1, <1>5, <2>1
<1>8. Len(latest') < RingSize =>
         /\ Len(latest') = at'
         /\ \A p \in Places : ring'[p] = IF p < at' THEN latest'[p + 1] ELSE NoKey
  <2>1. Len(latest') < RingSize => at' = at + 1
    BY <1>1, <1>2, <1>6 DEF Places
  <2> QED
    BY <1>2, <1>5, <2>1
<1>9. Len(latest') = RingSize => \A j \in 1..RingSize : ring'[Place(j)'] = latest'[j]
  BY <1>1, <1>2, <1>7
<1> QED
  BY <1>3, <1>4, <1>6, <1>8, <1>9 DEF RingHolds

\* Remembering a key in a full ring: it takes the oldest one's place.
LEMMA RememberWhenFull ==
  ASSUME TypeOK, RingHolds, NEW k \in Keys, k \notin known, Remember(k),
         Len(latest) = RingSize
  PROVE  RingHolds'
<1>1. /\ latest \in Seq(Keys) /\ at \in Places /\ ring \in [Places -> Keys \cup {NoKey}]
      /\ RingSize \in Nat \ {0} /\ latest # <<>>
  BY AdaptAssumption DEF TypeOK
<1>2. ring[at] = latest[1]
  <2>1. Place(1) = at /\ 1 \in 1..RingSize
    BY <1>1 DEF Place, Places
  <2> QED
    BY <2>1 DEF RingHolds
<1> DEFINE all == Append(latest, k)
<1>3. /\ all \in Seq(Keys) /\ Len(all) = RingSize + 1 /\ all # <<>>
      /\ \A i \in 1..RingSize : all[i] = latest[i]
      /\ all[RingSize + 1] = k
  BY <1>1, SendRange
<1>4. latest' = Tail(all)
  BY <1>1, <1>3 DEF Remember
<1> HIDE DEF all
<1>5. /\ Len(latest') = RingSize /\ latest' \in Seq(Keys)
      /\ \A i \in 1..RingSize : latest'[i] = all[i + 1]
  BY <1>1, <1>3, <1>4, ReceiveRange
<1>6. /\ \A i \in 1..(RingSize - 1) : latest'[i] = latest[i + 1]
      /\ latest'[RingSize] = k
  BY <1>1, <1>3, <1>5
<1>7. \A i \in 1..RingSize : latest[i] \in known
  BY <1>1 DEF RingHolds, KnowsTheLatest, Range
<1>8. \A i, j \in 1..Len(latest') : latest'[i] = latest'[j] => i = j
  <2>1. ASSUME NEW i \in 1..RingSize, NEW j \in 1..RingSize, latest'[i] = latest'[j]
        PROVE  i = j
    <3>1. CASE i < RingSize /\ j < RingSize
      <4>1. i + 1 \in 1..RingSize /\ j + 1 \in 1..RingSize /\ latest[i + 1] = latest[j + 1]
        BY <1>1, <1>6, <2>1, <3>1
      <4>2. i + 1 = j + 1
        BY <4>1 DEF RingHolds
      <4> QED
        BY <4>2
    <3>2. \A l \in 1..(RingSize - 1) : latest'[l] # k
      <4>1. \A l \in 1..(RingSize - 1) : l + 1 \in 1..RingSize
        BY <1>1
      <4> QED
        BY <1>6, <1>7, <4>1
    <3> QED
      BY <1>1, <1>6, <2>1, <3>1, <3>2
  <2> QED
    BY <1>5, <2>1
<1>9. Range(latest') = (Range(latest) \ {latest[1]}) \cup {k}
  <2>1. /\ Range(latest') = {latest'[i] : i \in 1..RingSize}
        /\ Range(latest) = {latest[i] : i \in 1..RingSize}
    <3>1. DOMAIN latest = 1..RingSize /\ DOMAIN latest' = 1..RingSize
      BY <1>1, <1>5
    <3> QED
      BY <3>1 DEF Range
  <2>2. ASSUME NEW i \in 1..RingSize
        PROVE  latest'[i] \in (Range(latest) \ {latest[1]}) \cup {k}
    <3>1. CASE i = RingSize
      BY <1>6, <3>1
    <3>2. CASE i # RingSize
      <4>1. i \in 1..(RingSize - 1) /\ i + 1 \in 1..RingSize /\ i + 1 # 1 /\ 1 \in 1..RingSize
        BY <1>1, <3>2
      <4>2. latest[i + 1] # latest[1]
        BY <4>1 DEF RingHolds
      <4> QED
        BY <1>6, <2>1, <4>1, <4>2
    <3> QED
      BY <3>1, <3>2
  <2>3. ASSUME NEW i \in 1..RingSize, latest[i] # latest[1]
        PROVE  latest[i] \in Range(latest')
    <3>1. i - 1 \in 1..(RingSize - 1) /\ (i - 1) + 1 = i /\ i - 1 \in 1..RingSize
      BY <1>1, <2>3
    <3>2. latest'[i - 1] = latest[i]
      BY <1>6, <3>1
    <3> QED
      BY <2>1, <3>1, <3>2
  <2>4. k \in Range(latest')
    BY <1>1, <1>6, <2>1
  <2> QED
    BY <2>1, <2>2, <2>3, <2>4
<1>10. KnowsTheLatest'
  BY <1>2, <1>9 DEF RingHolds, KnowsTheLatest, Remember
<1>11. ASSUME NEW j \in 1..RingSize
       PROVE  ring'[Place(j)'] = latest'[j]
  <2>1. at' = IF at + 1 = RingSize THEN 0 ELSE at + 1
    BY <1>1, NextPlace DEF Remember
  <2>2. /\ ring'[at] = k
        /\ \A p \in Places : p # at => ring'[p] = ring[p]
    BY <1>1 DEF Remember
  <2>3. CASE j = RingSize
    <3>1. Place(j)' = at
      BY <1>1, <2>1, <2>3 DEF Place, Places
    <3> QED
      BY <1>6, <2>2, <2>3, <3>1
  <2>4. CASE j # RingSize
    <3>1. /\ j + 1 \in 1..RingSize /\ j \in 1..(RingSize - 1)
          /\ Place(j)' = Place(j + 1) /\ Place(j + 1) \in Places /\ Place(j + 1) # at
      BY <1>1, <2>1, <2>4 DEF Place, Places
    <3>2. ring[Place(j + 1)] = latest[j + 1]
      BY <3>1 DEF RingHolds
    <3> QED
      BY <1>6, <2>2, <3>1, <3>2
  <2> QED
    BY <2>3, <2>4
<1> QED
  BY <1>1, <1>5, <1>8, <1>10, <1>11 DEF RingHolds

\* A step that leaves the counters and the ring alone.
LEMMA SameCounters ==
  ASSUME RingHolds, WinsAddUp, UNCHANGED winVars
  PROVE  RingHolds' /\ WinsAddUp'
BY DEF RingHolds, KnowsTheLatest, Place, WinsAddUp, Tally

\* creditWin touches nothing a pass holds on to.
LEMMA WinKeepsIInv ==
  ASSUME IInv, NEW t \in Tunnels, NEW k \in Keys, Win(t, k)
  PROVE  IInv'
<1>1. /\ k \notin known /\ wins[t] < MaxWins
      /\ wins' = [wins EXCEPT ![t] = wins[t] + 1] /\ frames' = frames + 1
      /\ Remember(k) /\ UNCHANGED <<config, tunnelVars, passVars, cooldown>>
  BY DEF Win, Credited, Counted
<1>2. RingHolds'
  <2>1. Len(latest) < RingSize \/ Len(latest) = RingSize
    BY AdaptAssumption DEF IInv, TypeOK, RingHolds
  <2> QED
    BY <1>1, <2>1, RememberWithRoom, RememberWhenFull DEF IInv
<1>3. TypeOK'
  <2>1. wins' \in [Tunnels -> 0..MaxWins] /\ frames' \in Nat
    BY <1>1, AdaptAssumption DEF IInv, TypeOK
  <2>2. ring' \in [Places -> Keys \cup {NoKey}] /\ known' \subseteq Keys
    BY <1>1 DEF IInv, TypeOK, Remember
  <2>3. at' \in Places
    BY <1>1, NextPlace DEF IInv, TypeOK, Remember
  <2>4. latest' \in Seq(Keys)
    <3>1. Append(latest, k) \in Seq(Keys) /\ Append(latest, k) # <<>>
      <4>1. latest \in Seq(Keys) /\ Len(latest) \in Nat
        BY DEF IInv, TypeOK
      <4>2. Append(latest, k) \in Seq(Keys) /\ Len(Append(latest, k)) = Len(latest) + 1
        BY <4>1, SendRange
      <4> QED
        BY <4>1, <4>2
    <3> QED
      BY <1>1, <3>1, ReceiveRange DEF Remember
  <2> QED
    BY <1>1, <2>1, <2>2, <2>3, <2>4 DEF IInv, TypeOK
<1>4. PassHolds'
  BY <1>1 DEF IInv, PassHolds, Serving
<1>5. WinsAddUp'
  BY <1>1, TallyGrows DEF IInv
<1> QED
  BY <1>2, <1>3, <1>4, <1>5 DEF IInv

\* What a rule decides holds of the tunnels it looked at when the pass begins
\* to set states.
LEMMA PlanKeepsIInv ==
  ASSUME IInv, NEW lower \in SUBSET Actives, NEW raise \in SUBSET live,
         Plan(lower, raise), \A s, t \in lower : s = t,
         lower # {} => /\ Cardinality(Actives) > config.min
                       /\ \/ raise # {}
                          \/ config.max > 0 /\ Cardinality(Actives) > config.max
  PROVE  IInv'
<1>1. /\ phase = "scored" /\ phase' = "applying" /\ seen' = live /\ judged' = Actives
      /\ down' = lower /\ up' = raise /\ changed' = (lower \cup raise # {})
      /\ score' = Zero /\ total' = 0
      /\ UNCHANGED <<config, tunnelVars, winVars, cooldown>>
  BY DEF Plan
<1>2. TypeOK'
  <2>1. changed' \in BOOLEAN
    BY <1>1
  <2>2. score' \in [Tunnels -> 0..MaxWins]
    BY <1>1, AdaptAssumption DEF Zero
  <2> QED
    BY <1>1, <2>1, <2>2 DEF IInv, TypeOK, Actives
<1>3. PassHolds'
  <2>1. Serving' = Actives /\ judged' = Actives
    BY <1>1 DEF IInv, TypeOK, Serving, Actives
  <2> QED
    BY <1>1, <2>1 DEF PassHolds
<1> QED
  BY <1>1, <1>2, <1>3, SameCounters DEF IInv

\* The four rules.  The cap lies above the floor, so a pool over its cap is
\* above its floor as well.
LEMMA RulesKeepIInv ==
  ASSUME IInv, RaiseToFloor \/ LowerToMax \/ Swap \/ Keep
  PROVE  IInv'
<1>1. /\ config.min \in Nat \ {0} /\ config.max \in Nat
      /\ config.max = 0 \/ config.min <= config.max
      /\ Cardinality(Actives) \in Nat /\ Actives \subseteq live
  BY AdaptAssumption, FloorBelowCap, TunnelsFinite DEF IInv, TypeOK, Actives
<1>2. CASE RaiseToFloor
  <2>1. PICK P \in kSubset(Missing, Shadows) : Plan({}, P)
    BY <1>2 DEF RaiseToFloor
  <2>2. P \in SUBSET live
    BY <2>1 DEF kSubset, Shadows
  <2> QED
    BY <2>1, <2>2, PlanKeepsIInv
<1>3. CASE LowerToMax
  <2>1. PICK a \in Actives : Plan({a}, {})
    BY <1>3 DEF LowerToMax
  <2>2. /\ Cardinality(Actives) > config.min
        /\ config.max > 0 /\ Cardinality(Actives) > config.max
    BY <1>1, <1>3 DEF LowerToMax, OverMax
  <2> QED
    BY <2>1, <2>2, PlanKeepsIInv
<1>4. CASE Swap
  <2>1. PICK a \in Actives, s \in Shadows : MaySwap(a, s) /\ Plan({a}, {s})
    BY <1>4 DEF Swap
  <2>2. Cardinality(Actives) > config.min /\ {s} \in SUBSET live
    BY <2>1 DEF MaySwap, AboveFloor, Shadows
  <2> QED
    BY <2>1, <2>2, PlanKeepsIInv
<1>5. CASE Keep
  BY <1>5, PlanKeepsIInv DEF Keep
<1> QED
  BY <1>2, <1>3, <1>4, <1>5

\* The rest of a pass.
LEMMA PassKeepsIInv ==
  ASSUME IInv, \/ Score \/ NoTunnels \/ Reset
               \/ \E t \in Tunnels : SetShadow(t) \/ SetActive(t)
  PROVE  IInv'
<1>1. CASE Score
  BY <1>1, SameCounters DEF Score, IInv, TypeOK, PassHolds, Serving
<1>2. CASE NoTunnels
  <2>1. Zero \in [Tunnels -> 0..MaxWins]
    BY AdaptAssumption DEF Zero
  <2> QED
    BY <1>2, <2>1, SameCounters DEF NoTunnels, IInv, TypeOK, PassHolds, Serving
<1>3. CASE Reset
  <2>1. RingHolds'
    <3>1. known' = {} /\ ring' = Empty /\ at' = 0 /\ latest' = <<>>
      BY <1>3 DEF Reset, Wiped
    <3>2. Len(latest') = 0 /\ RingSize \in Nat /\ RingSize > 0
      BY <3>1, AdaptAssumption
    <3>3. KnowsTheLatest'
      BY <3>1, EmptyRange DEF KnowsTheLatest
    <3>4. \A p \in Places : ring'[p] = NoKey /\ ~(p < at')
      BY <3>1, AdaptAssumption DEF Places, Empty
    <3> QED
      BY <3>1, <3>2, <3>3, <3>4 DEF RingHolds
  <2>2. TypeOK'
    <3>1. Zero \in [Tunnels -> 0..MaxWins] /\ 0 \in Places
      BY AdaptAssumption DEF Zero, Places
    <3>2. Empty \in [Places -> Keys \cup {NoKey}]
      BY DEF Empty
    <3>3. changed' \in BOOLEAN /\ cooldown' \in BOOLEAN
      BY <1>3 DEF Reset, IInv, TypeOK
    <3> QED
      BY <1>3, <3>1, <3>2, <3>3 DEF Reset, Restarted, Wiped, IInv, TypeOK
  <2>3. PassHolds'
    BY <1>3 DEF Reset, PassHolds
  <2>4. WinsAddUp'
    <3>1. Tally' = {} /\ frames' = 0
      BY <1>3, EmptyTally DEF Reset, Restarted, Tally
    <3> QED
      BY <3>1, FS_EmptySet DEF WinsAddUp
  <2> QED
    BY <2>1, <2>2, <2>3, <2>4 DEF IInv
<1>4. ASSUME NEW t \in Tunnels, SetShadow(t)
      PROVE  IInv'
  <2>1. down' = {}
    BY <1>4 DEF SetShadow, IInv, PassHolds
  <2>2. PassHolds'
    BY <1>4, <2>1 DEF SetShadow, IInv, PassHolds
  <2> QED
    BY <1>4, <2>2, SameCounters DEF SetShadow, IInv, TypeOK
<1>5. ASSUME NEW t \in Tunnels, SetActive(t)
      PROVE  IInv'
  <2>1. PassHolds'
    BY <1>5 DEF SetActive, IInv, PassHolds
  <2> QED
    BY <1>5, <2>1, SameCounters DEF SetActive, IInv, TypeOK
<1> QED
  BY <1>1, <1>2, <1>3, <1>4, <1>5

\* Tunnels come and go during a pass.  A tunnel that dies keeps its state, and
\* one that comes up was not among those the pass looked at.
LEMMA ChurnKeepsIInv ==
  ASSUME IInv, Churn
  PROVE  IInv'
<1>1. UNCHANGED <<config, winVars, passVars, cooldown>>
  BY DEF Churn, TunnelUp, TunnelDown
<1>2. ASSUME NEW t \in Tunnels, TunnelUp(t)
      PROVE  TypeOK' /\ Serving' = Serving
  BY <1>1, <1>2 DEF TunnelUp, IInv, TypeOK, Serving
<1>3. ASSUME NEW t \in Tunnels, TunnelDown(t)
      PROVE  TypeOK' /\ Serving' = Serving
  BY <1>1, <1>3 DEF TunnelDown, IInv, TypeOK, Serving
<1>4. TypeOK' /\ Serving' = Serving
  BY <1>2, <1>3 DEF Churn
<1>5. PassHolds'
  BY <1>1, <1>4 DEF IInv, PassHolds
<1> QED
  BY <1>1, <1>4, <1>5, SameCounters DEF IInv

\* Every step keeps the invariant.
LEMMA NextIInv == IInv /\ [Next]_vars => IInv'
<1> SUFFICES ASSUME IInv, [Next]_vars
             PROVE  IInv'
  OBVIOUS
<1>1. CASE Evaluate
  BY <1>1, RulesKeepIInv, PassKeepsIInv DEF Evaluate
<1>2. CASE CooldownOver
  BY <1>2, SameCounters DEF CooldownOver, IInv, TypeOK, PassHolds, Serving
<1>3. CASE Traffic
  BY <1>3, WinKeepsIInv DEF Traffic
<1>4. CASE UNCHANGED vars
  BY <1>4, SameCounters DEF vars, IInv, TypeOK, PassHolds, Serving
<1> QED
  BY <1>1, <1>2, <1>3, <1>4, ChurnKeepsIInv DEF Next

\* Only SetShadow demotes a tunnel.
LEMMA WhoDemotes ==
  ASSUME IInv, [Next]_vars, NEW t \in active \ active'
  PROVE  SetShadow(t)
<1>1. t \in Tunnels
  BY DEF IInv, TypeOK
<1> QED
  BY <1>1 DEF Next, vars, Evaluate, Score, NoTunnels, RaiseToFloor, LowerToMax, Swap,
     Keep, Plan, SetShadow, SetActive, Reset, CooldownOver, Traffic, Win, Churn,
     TunnelUp, TunnelDown
-----------------------------------------------------------------------------
\* The invariant holds whatever tunnels and traffic do.
THEOREM Invariance == Spec => []IInv
<1>1. Init => IInv
  BY InitIInv
<1>2. IInv /\ [Next]_vars => IInv'
  BY NextIInv
<1> QED
  BY <1>1, <1>2, PTL DEF Spec, Quiet

\* The counters, the ring and what a pass holds on to keep their ranges.
THEOREM TypeCorrect == Spec => []TypeOK
<1>1. IInv => TypeOK
  BY DEF IInv
<1> QED
  BY <1>1, Invariance, PTL

\* Hub.seen and its ring agree, for every size of the ring: just the frames
\* credited last are remembered, and none of them is credited again.
THEOREM RingIsRecent == Spec => []KnowsTheLatest
<1>1. IInv => KnowsTheLatest
  BY DEF IInv, RingHolds
<1> QED
  BY <1>1, Invariance, PTL

\* frameCount is the sum of winCount at every moment, so the rates a pass
\* computes are shares of one window.
THEOREM RatesAreShares == Spec => []WinsAddUp
<1>1. IInv => WinsAddUp
  BY DEF IInv
<1> QED
  BY <1>1, Invariance, PTL

\* No demotion leaves fewer than MinActive of the tunnels a pass looked at in
\* StateActive, at any moment of a swap and whatever comes and dies meanwhile.
THEOREM FloorKept == Spec => DemotionKeepsFloor
<1>1. ASSUME IInv, [Next]_vars, NEW t \in active \ active'
      PROVE  Cardinality(active' \cap seen) >= config.min
  <2>1. SetShadow(t) /\ t \in down
    BY <1>1, WhoDemotes DEF SetShadow
  <2>2. t \in seen /\ Serving \in SUBSET Tunnels /\ t \in Serving
    BY <1>1, <2>1 DEF IInv, TypeOK, SetShadow, Serving
  <2>3. active' \cap seen = Serving \ {t}
    BY <2>1, <2>2 DEF SetShadow, Serving
  <2>4. Cardinality(Serving) > config.min
    BY <1>1, <2>1 DEF IInv, PassHolds
  <2>5. /\ IsFiniteSet(Serving) /\ Cardinality(Serving) \in Nat
        /\ Cardinality(Serving \ {t}) = Cardinality(Serving) - 1
    BY <2>2, TunnelsFinite, FS_RemoveElement
  <2>6. config.min \in Nat
    BY <1>1, AdaptAssumption DEF IInv, TypeOK
  <2>7. Cardinality(Serving \ {t}) >= config.min
    BY <2>4, <2>5, <2>6
  <2> QED
    BY <2>3, <2>7
<1>2. IInv /\ [Next]_vars =>
        [\A t \in active \ active' : Cardinality(active' \cap seen) >= config.min]_vars
  BY <1>1
<1> QED
  BY <1>2, Invariance, PTL DEF Spec, Quiet, DemotionKeepsFloor

\* A tunnel is demoted only if its pass found more Active ones than MaxActive,
\* or while the Shadow it makes room for is still to be promoted.
THEOREM DemotionsJustified == Spec => DemotionHasReason
<1>1. ASSUME IInv, [Next]_vars, NEW t \in active \ active'
      PROVE  (config.max > 0 /\ Cardinality(judged) > config.max) \/ up # {}
  BY <1>1, WhoDemotes DEF SetShadow, IInv, PassHolds
<1>2. IInv /\ [Next]_vars =>
        [\A t \in active \ active' : \/ config.max > 0 /\ Cardinality(judged) > config.max
                                    \/ up # {}]_vars
  BY <1>1
<1> QED
  BY <1>2, Invariance, PTL DEF Spec, Quiet, DemotionHasReason
=============================================================================
