---------------------------- MODULE FailoverProofs ----------------------------
(***************************************************************************)
(* The promises of health.Select for any number of gateways, devices and   *)
(* targets: no two gateways share a metric, one that answers is preferred  *)
(* to one that does not, a flap behind one device does not change the      *)
(* order of the gateways behind the others, and the two loops of the code  *)
(* compute the same as counting the gateways that sort before one.         *)
(***************************************************************************)
EXTENDS Failover, PlannerProofs

(* The candidates are finitely many positions, each up or not.             *)
LEMMA UpType ==
    ASSUME NEW h \in Hop, NEW fam, NEW host
    PROVE  /\ Candidates(h, fam) \in SUBSET Nat
           /\ IsFiniteSet(Candidates(h, fam))
           /\ Evaluated(h, fam, host) \in [Candidates(h, fam) -> BOOLEAN]
<1>1. Candidates(h, fam) \in SUBSET (DOMAIN Gateways(h))
  BY DEF Candidates
<1>2. IsFiniteSet(Candidates(h, fam)) /\ Candidates(h, fam) \in SUBSET Nat
  BY <1>1, GatewaysType, FS_Subset
<1>3. \A i : EvaluateCandidate(Gateways(h)[i], fam, host) \in BOOLEAN
  BY DEF EvaluateCandidate
<1> QED
  BY <1>2, <1>3 DEF Evaluated

(* Metrics compare as the places do, and no two are the same.              *)
LEMMA MetricsCompare ==
    ASSUME hop \in Hops, NEW fam, NEW host, NEW i \in Candidates(hop, fam),
           NEW j \in Candidates(hop, fam)
    PROVE  /\ Evaluated(hop, fam, host) \in [Candidates(hop, fam) -> BOOLEAN]
           /\ MetricOf(fam, i, host) < MetricOf(fam, j, host)
                <=> Ahead(Evaluated(hop, fam, host), i, j)
           /\ MetricOf(fam, i, host) = MetricOf(fam, j, host) => i = j
<1> DEFINE C == Candidates(hop, fam)
           up == Evaluated(hop, fam, host)
<1>1. hop \in Hop
  BY FailoverAssumption
<1>2. C \in SUBSET Nat /\ IsFiniteSet(C) /\ up \in [C -> BOOLEAN]
  BY <1>1, UpType
<1>3. MetricOf(fam, i, host) = Metric(up, i) /\ MetricOf(fam, j, host) = Metric(up, j)
  BY DEF MetricOf, HopOf
<1>4. i \in C /\ j \in C
  BY DEF C
<1> HIDE DEF C, up
<1>5. \A k, l \in C : Ahead(up, k, l) => Metric(up, k) < Metric(up, l)
  BY <1>2, MetricOrders
<1>6. \A k \in C : Metric(up, k) \in Nat
  BY <1>2, MetricType
<1>7. i = j \/ Ahead(up, i, j) \/ Ahead(up, j, i)
  BY <1>2, <1>4, AheadOrder
<1>8. CASE i = j
  BY <1>2, <1>3, <1>4, <1>6, <1>8, AheadOrder DEF C, up
<1>9. CASE Ahead(up, i, j)
  <2>1. Metric(up, i) < Metric(up, j)
    BY <1>4, <1>5, <1>9
  <2> QED
    BY <1>2, <1>3, <1>4, <1>6, <1>9, <2>1 DEF C, up
<1>10. CASE Ahead(up, j, i)
  <2>1. Metric(up, j) < Metric(up, i)
    BY <1>4, <1>5, <1>10
  <2>2. ~Ahead(up, i, j)
    BY <1>2, <1>4, <1>10, AheadOrder
  <2> QED
    BY <1>2, <1>3, <1>4, <1>6, <2>1, <2>2 DEF C, up
<1> QED
  BY <1>7, <1>8, <1>9, <1>10

(* The hop never changes.                                                  *)
LEMMA HopInvariant == Spec => [](hop \in Hops)
<1>1. Init => hop \in Hops
  BY DEF Init
<1>2. hop \in Hops /\ [Next]_<<hop, reach>> => (hop \in Hops)'
  BY DEF Next, Change
<1> QED
  BY <1>1, <1>2, PTL DEF Spec

(* Whatever answers, two gateways of a next hop never get the same metric, *)
(* so the kernel accepts a route through each of them.                     *)
THEOREM NoTieEver == Spec => []NoTie
<1>1. hop \in Hops => NoTie
  BY MetricsCompare DEF NoTie
<1> QED
  BY <1>1, HopInvariant, PTL

(* Whatever answers, a gateway with an answering target has a lower metric *)
(* than every gateway without: traffic leaves through it.                  *)
THEOREM AnsweringAlwaysPreferred == Spec => []AnsweringPreferred
<1>1. ASSUME hop \in Hops
      PROVE  AnsweringPreferred
  <2> SUFFICES ASSUME NEW fam \in Fams, NEW i \in Candidates(hop, fam),
                      NEW j \in Candidates(hop, fam),
                      Answers(fam, i), ~Answers(fam, j)
               PROVE  MetricOf(fam, i, w) < MetricOf(fam, j, w)
    BY DEF AnsweringPreferred
  <2>1. hop \in Hop
    BY <1>1, FailoverAssumption
  <2> DEFINE C == Candidates(hop, fam)
             up == Evaluated(hop, fam, w)
  <2>2. ASSUME NEW k \in C
        PROVE  up[k] <=> Answers(fam, k)
    <3> DEFINE gw == Gateways(hop)[k]
               targets == IF gw.targets = {} THEN DefaultTargets(fam) ELSE gw.targets
    <3>1. targets \subseteq Addr
      <4>1. gw \in Gateway
        BY <2>1, GatewaysType DEF Candidates
      <4>2. DefaultTargets(fam) \subseteq Addr
        BY DEF DefaultTargets, Addr, Zeros, Ones, Bits
      <4> QED
        BY <4>1, <4>2 DEF Gateway
    <3>2. up[k] = EvaluateCandidate(gw, fam, w)
      BY DEF Evaluated
    <3>3. EvaluateCandidate(gw, fam, w) <=>
            \E t \in targets : t.fam = fam /\ <<gw.dev, t>> \in reach
      BY DEF EvaluateCandidate, w
    <3>4. Answers(fam, k) <=>
            \E t \in Addr : t.fam = fam /\ t \in targets /\ <<gw.dev, t>> \in reach
      BY DEF Answers
    <3> HIDE DEF gw, targets
    <3> QED
      BY <3>1, <3>2, <3>3, <3>4
  <2>3. up[i] /\ ~up[j]
    BY <2>2
  <2>4. Ahead(up, i, j)
    BY <2>3 DEF Ahead
  <2> QED
    BY <1>1, <2>4, MetricsCompare
<1> QED
  BY <1>1, HopInvariant, PTL

-----------------------------------------------------------------------------
(* Flaps *)

(* What the host answers when the pairs in r do.                           *)
HostOf(r) == [links |-> Links, reach |-> r]

(* A ping seen through one device says nothing of a gateway behind         *)
(* another: the ping of evaluateCandidate is bound to the device.          *)
LEMMA FlapElsewhere ==
    ASSUME NEW fam, NEW pair, Change(pair), NEW i \in Candidates(hop, fam),
           Gateways(hop)[i].dev # pair[1]
    PROVE  Evaluated(hop, fam, HostOf(reach))[i] <=> Evaluated(hop, fam, HostOf(reach'))[i]
<1>1. \A t : <<Gateways(hop)[i].dev, t>> \in reach <=> <<Gateways(hop)[i].dev, t>> \in reach'
  BY DEF Change
<1> QED
  BY <1>1 DEF Evaluated, EvaluateCandidate, HostOf

(* Whatever flaps behind one device, Select keeps the order of the         *)
(* gateways behind the others, for any gateways: see OthersKeepOrder.      *)
THEOREM OthersAlwaysKeepOrder == Spec => OthersKeepOrder
<1> DEFINE Kept(pair, fam, host, next) ==
        \A i, j \in Candidates(hop, fam) :
            pair[1] \notin {Gateways(hop)[i].dev, Gateways(hop)[j].dev} =>
                (MetricOf(fam, i, host) < MetricOf(fam, j, host)
                   <=> MetricOf(fam, i, next) < MetricOf(fam, j, next))
<1>1. ASSUME hop \in Hops, NEW pair \in Pingable, Change(pair), NEW fam \in Fams
      PROVE  Kept(pair, fam, HostOf(reach), HostOf(reach'))
  <2> SUFFICES ASSUME NEW i \in Candidates(hop, fam), NEW j \in Candidates(hop, fam),
                      Gateways(hop)[i].dev # pair[1], Gateways(hop)[j].dev # pair[1]
               PROVE  MetricOf(fam, i, HostOf(reach)) < MetricOf(fam, j, HostOf(reach))
                        <=> MetricOf(fam, i, HostOf(reach')) < MetricOf(fam, j, HostOf(reach'))
    OBVIOUS
  <2> DEFINE C == Candidates(hop, fam)
             up == Evaluated(hop, fam, HostOf(reach))
             upn == Evaluated(hop, fam, HostOf(reach'))
  <2>1. /\ up \in [C -> BOOLEAN] /\ upn \in [C -> BOOLEAN]
        /\ MetricOf(fam, i, HostOf(reach)) < MetricOf(fam, j, HostOf(reach)) <=> Ahead(up, i, j)
        /\ MetricOf(fam, i, HostOf(reach')) < MetricOf(fam, j, HostOf(reach')) <=> Ahead(upn, i, j)
    BY <1>1, MetricsCompare
  <2>2. (up[i] <=> upn[i]) /\ (up[j] <=> upn[j])
    BY <1>1, FlapElsewhere
  <2>3. up[i] = upn[i] /\ up[j] = upn[j]
    BY <2>1, <2>2, Zenon
  <2>4. Ahead(up, i, j) <=> Ahead(upn, i, j)
    BY <2>3 DEF Ahead
  <2> QED
    BY <2>1, <2>4
<1>2. w = HostOf(reach) /\ w' = HostOf(reach')
  BY DEF w, HostOf
<1>3. (hop \in Hops) /\ [Next]_<<hop, reach>> =>
         [\A pair \in Pingable : Change(pair) =>
            \A fam \in Fams : \A i, j \in Candidates(hop, fam) :
                pair[1] \notin {Gateways(hop)[i].dev, Gateways(hop)[j].dev} =>
                    (MetricOf(fam, i, w) < MetricOf(fam, j, w)
                       <=> MetricOf(fam, i, w') < MetricOf(fam, j, w'))
         ]_<<hop, reach>>
  BY <1>1, <1>2
<1> QED
  BY <1>3, HopInvariant, PTL DEF Spec, OthersKeepOrder

-----------------------------------------------------------------------------
(* The loops of health.Select *)

(* As many kept indexes precede the k-th as its place says.                *)
LEMMA InOrderPlace ==
    ASSUME NEW S \in SUBSET Nat, IsFiniteSet(S), NEW k \in 1 .. Cardinality(S)
    PROVE  /\ InOrder(S)[k] \in S
           /\ Cardinality({j \in S : j < InOrder(S)[k]}) = k - 1
<1> DEFINE x == InOrder(S)[k]
           T == {j \in S : j < x}
<1>1. x \in S /\ Cardinality({j \in S : j <= x}) = k
  BY InOrderFacts
<1> HIDE DEF x
<1>2. {j \in S : j <= x} = T \cup {x} /\ x \notin T
  <2>1. \A j \in S : j <= x <=> j < x \/ j = x
    BY <1>1
  <2>2. ~(x < x)
    BY <1>1
  <2> QED
    BY <1>1, <2>1, <2>2, Zenon
<1>3. IsFiniteSet(T)
  <2>1. T \in SUBSET S
    OBVIOUS
  <2> QED
    BY <2>1, FS_Subset
<1> HIDE DEF T
<1>4. Cardinality(T) \in Nat /\ Cardinality(T \cup {x}) = Cardinality(T) + 1
  BY <1>2, <1>3, FS_CardinalityType, FS_AddElement
<1>5. Cardinality(T) = k - 1
  BY <1>1, <1>2, <1>4
<1> QED
  BY <1>1, <1>5 DEF T, x

(* The list with the healthy candidates moved to the front.                *)
HealthyFirst(D, healthy) ==
    IF healthy # {} THEN InOrder(healthy) \o InOrder(D \ healthy) ELSE InOrder(D)

(* Each candidate is at the place that the declarative Position gives it.  *)
LEMMA OrderedPlaces ==
    ASSUME NEW D \in SUBSET Nat, IsFiniteSet(D), NEW up \in [D -> BOOLEAN],
           NEW healthy \in SUBSET D, \A x \in D : up[x] <=> x \in healthy
    PROVE  /\ \A x \in D : \E k \in DOMAIN HealthyFirst(D, healthy) : HealthyFirst(D, healthy)[k] = x
           /\ \A k \in DOMAIN HealthyFirst(D, healthy) :
                 /\ k \in Nat /\ HealthyFirst(D, healthy)[k] \in D
                 /\ Position(up, HealthyFirst(D, healthy)[k]) = k - 1
<1> DEFINE ordered == HealthyFirst(D, healthy)
           sick == D \ healthy
           a == Cardinality(healthy)
           b == Cardinality(sick)
<1>1. /\ healthy \in SUBSET D /\ sick \in SUBSET D
      /\ healthy \in SUBSET Nat /\ sick \in SUBSET Nat
      /\ healthy \cap sick = {} /\ healthy \cup sick = D
  OBVIOUS
<1>2. IsFiniteSet(healthy) /\ IsFiniteSet(sick)
  BY <1>1, FS_Subset
<1>3. \A x \in D : up[x] <=> x \in healthy
  OBVIOUS
<1>4. DOMAIN up = D
  OBVIOUS
<1> HIDE DEF sick
<1>5. ordered = InOrder(healthy) \o InOrder(sick)
  <2>1. CASE healthy # {}
    BY <2>1 DEF sick, HealthyFirst
  <2>2. CASE healthy = {}
    <3>1. sick = D
      BY <1>1, <2>2
    <3>2. Cardinality({}) = 0
      BY FS_EmptySet
    <3>3. InOrder({}) = <<>>
      <4>1. IsFiniteSet({}) /\ {} \in SUBSET Nat
        BY FS_EmptySet
      <4>2. InOrder({}) \in Seq({}) /\ Len(InOrder({})) = 0
        BY <3>2, <4>1, InOrderFacts
      <4> QED
        BY <4>2
    <3>4. InOrder(D) \in Seq(D)
      BY InOrderFacts
    <3>5. <<>> \o InOrder(D) = InOrder(D)
      BY <3>4
    <3> QED
      BY <2>2, <3>1, <3>3, <3>5 DEF HealthyFirst
  <2> QED
    BY <2>1, <2>2
<1> HIDE DEF ordered
<1>6. /\ a \in Nat /\ InOrder(healthy) \in Seq(D) /\ Len(InOrder(healthy)) = a
      /\ \A x \in healthy : \E k \in 1 .. a : InOrder(healthy)[k] = x
  <2>1. a \in Nat /\ InOrder(healthy) \in Seq(healthy) /\ Len(InOrder(healthy)) = a
    BY <1>1, <1>2, InOrderFacts
  <2>2. InOrder(healthy) \in Seq(D)
    BY <1>1, <2>1
  <2> QED
    BY <1>1, <1>2, <2>1, <2>2, InOrderFacts
<1>7. /\ b \in Nat /\ InOrder(sick) \in Seq(D) /\ Len(InOrder(sick)) = b
      /\ \A x \in sick : \E k \in 1 .. b : InOrder(sick)[k] = x
  <2>1. b \in Nat /\ InOrder(sick) \in Seq(sick) /\ Len(InOrder(sick)) = b
    BY <1>1, <1>2, InOrderFacts
  <2>2. InOrder(sick) \in Seq(D)
    BY <1>1, <2>1
  <2> QED
    BY <1>1, <1>2, <2>1, <2>2, InOrderFacts
<1>8. /\ DOMAIN ordered = 1 .. a + b
      /\ \A k \in 1 .. a : ordered[k] = InOrder(healthy)[k]
      /\ \A k \in 1 .. b : ordered[a + k] = InOrder(sick)[k]
  <2> DEFINE s == InOrder(healthy)
             t == InOrder(sick)
  <2>1. s \in Seq(D) /\ Len(s) = a /\ t \in Seq(D) /\ Len(t) = b /\ a \in Nat /\ b \in Nat
    BY <1>6, <1>7
  <2>2. ordered = s \o t
    BY <1>5
  <2> HIDE DEF s, t, a, b
  <2>3. /\ DOMAIN (s \o t) = 1 .. a + b
        /\ \A k \in 1 .. a : (s \o t)[k] = s[k]
        /\ \A k \in 1 .. b : (s \o t)[a + k] = t[k]
    BY <2>1
  <2> QED
    BY <2>2, <2>3 DEF s, t
<1>9. ASSUME NEW x \in D
      PROVE  \E k \in DOMAIN ordered : ordered[k] = x
  <2>1. CASE x \in healthy
    <3>1. PICK k \in 1 .. a : InOrder(healthy)[k] = x
      BY <1>6, <2>1
    <3>2. k \in 1 .. a + b
      BY <1>6, <1>7
    <3> QED
      BY <1>8, <3>1, <3>2
  <2>2. CASE x \in sick
    <3>1. PICK k \in 1 .. b : InOrder(sick)[k] = x
      BY <1>7, <2>2
    <3>2. a + k \in 1 .. a + b
      BY <1>6, <1>7
    <3> QED
      BY <1>8, <3>1, <3>2
  <2> QED
    BY <1>1, <2>1, <2>2
<1>10. ASSUME NEW k \in 1 .. a
       PROVE  ordered[k] \in D /\ Position(up, ordered[k]) = k - 1
  <2> DEFINE x == InOrder(healthy)[k]
  <2>1. x \in healthy /\ Cardinality({j \in healthy : j < x}) = k - 1
    BY <1>1, <1>2, InOrderPlace
  <2>2. ordered[k] = x
    BY <1>8
  <2> HIDE DEF x
  <2>3. {j \in D : Ahead(up, j, x)} = {j \in healthy : j < x}
    BY <1>1, <1>3, <2>1 DEF Ahead
  <2> QED
    BY <1>1, <1>4, <2>1, <2>2, <2>3 DEF Position
<1>11. ASSUME NEW k \in 1 .. b
       PROVE  ordered[a + k] \in D /\ Position(up, ordered[a + k]) = a + k - 1
  <2> DEFINE x == InOrder(sick)[k]
             T == {j \in sick : j < x}
  <2>1. x \in sick /\ Cardinality(T) = k - 1
    BY <1>1, <1>2, InOrderPlace
  <2>2. ordered[a + k] = x
    BY <1>8
  <2> HIDE DEF x
  <2>3. {j \in D : Ahead(up, j, x)} = healthy \cup T
    <3>1. x \in D /\ x \notin healthy /\ ~up[x]
      BY <1>1, <1>3, <2>1
    <3>2. \A j \in D : Ahead(up, j, x) <=> j \in healthy \/ (j \in sick /\ j < x)
      <4> SUFFICES ASSUME NEW j \in D
                   PROVE  Ahead(up, j, x) <=> j \in healthy \/ (j \in sick /\ j < x)
        OBVIOUS
      <4>1. CASE j \in healthy
        <5>1. up[j] # up[x] /\ up[j]
          BY <1>3, <3>1, <4>1
        <5> QED
          BY <4>1, <5>1 DEF Ahead
      <4>2. CASE j \notin healthy
        <5>1. up[j] = up[x] /\ j \in sick
          BY <1>1, <1>3, <3>1, <4>2
        <5> QED
          BY <4>2, <5>1 DEF Ahead
      <4> QED
        BY <4>1, <4>2
    <3> QED
      BY <1>1, <3>2, Zenon
  <2>4. T \in SUBSET sick /\ IsFiniteSet(T) /\ healthy \cap T = {}
    BY <1>1, <1>2, FS_Subset
  <2> HIDE DEF T
  <2>5. Cardinality(healthy \cup T) = a + (k - 1)
    <3>1. Cardinality(healthy \cap T) = 0
      BY <2>4, FS_EmptySet
    <3>2. Cardinality(healthy \cup T) = Cardinality(healthy) + Cardinality(T) - Cardinality(healthy \cap T)
      BY <1>2, <2>4, FS_Union
    <3> QED
      BY <1>6, <2>1, <3>1, <3>2
  <2>6. x \in D
    BY <1>1, <2>1
  <2> QED
    BY <1>4, <1>6, <2>2, <2>3, <2>5, <2>6 DEF Position
<1>12. ASSUME NEW k \in DOMAIN ordered
       PROVE  k \in Nat /\ ordered[k] \in D /\ Position(up, ordered[k]) = k - 1
  <2>1. k \in 1 .. a + b
    BY <1>8
  <2>2. CASE k =< a
    BY <1>6, <1>10, <2>1, <2>2
  <2>3. CASE ~(k =< a)
    <3> DEFINE j == k - a
    <3>1. j \in 1 .. b /\ k = a + j /\ k \in Nat
      BY <1>6, <1>7, <2>1, <2>3
    <3> HIDE DEF j
    <3>2. ordered[a + j] \in D /\ Position(up, ordered[a + j]) = a + j - 1
      BY <1>11, <3>1
    <3> QED
      BY <1>6, <1>7, <3>1, <3>2
  <2> QED
    BY <2>2, <2>3
<1> QED
  BY <1>9, <1>12 DEF ordered

(* The planner's declarative order of the gateways is the one the loops of *)
(* health.go compute, with the same metrics, for any number of gateways    *)
(* and whatever answers.                                                   *)
THEOREM LoopsComputeSelect == Spec => []SelectMatchesLoops
<1>1. ASSUME hop \in Hops
      PROVE  SelectMatchesLoops
  <2> SUFFICES ASSUME NEW fam \in Fams
               PROVE  Select(hop, fam, w) = ToSet(SelectLoop(hop, fam))
    BY DEF SelectMatchesLoops
  <2>1. hop \in Hop
    BY <1>1, FailoverAssumption
  <2> DEFINE gws == Gateways(hop)
             C == Candidates(hop, fam)
             up == Evaluated(hop, fam, w)
             healthy == {k \in C : EvaluateCandidate(gws[k], fam, w)}
             ordered == IF healthy # {} THEN InOrder(healthy) \o InOrder(C \ healthy)
                        ELSE InOrder(C)
             R(k, m) == [link   |-> Links[gws[k].dev],
                         via    |-> CandidateVia(gws[k], fam),
                         onlink |-> gws[k].onlink,
                         metric |-> m]
             M(k) == metricBase + (k - 1) * metricStep
                       + IF healthy # {} /\ ordered[k] \notin healthy
                         THEN unhealthyMetricOffset ELSE 0
  <2>2. C \in SUBSET Nat /\ IsFiniteSet(C) /\ up \in [C -> BOOLEAN]
    BY <2>1, UpType
  <2>3. \A k \in C : up[k] = EvaluateCandidate(gws[k], fam, w)
    BY DEF Evaluated
  <2>4. healthy = {k \in C : up[k]}
    BY <2>3
  <2>5. Select(hop, fam, w) = {R(k, Metric(up, k)) : k \in C}
    BY DEF Select, HopOf, Evaluated, w
  <2>6. SelectLoop(hop, fam) = [k \in DOMAIN ordered |-> R(ordered[k], M(k))]
    BY DEF SelectLoop
  <2> DEFINE s == ordered
  <2>7. s = ordered
    OBVIOUS
  <2> HIDE DEF gws, C, up, healthy, ordered, s
  <2>8. /\ \A x \in C : \E k \in DOMAIN ordered : ordered[k] = x
        /\ \A k \in DOMAIN ordered : k \in Nat /\ ordered[k] \in C /\ Position(up, ordered[k]) = k - 1
    <3>1. ordered = HealthyFirst(C, healthy)
      BY DEF ordered, HealthyFirst
    <3>2. healthy \in SUBSET C /\ \A k \in C : up[k] <=> k \in healthy
      BY <2>4, Zenon
    <3> QED
      BY <2>2, <2>4, <3>1, <3>2, OrderedPlaces
  <2>9. ASSUME NEW k \in DOMAIN ordered
        PROVE  M(k) = Metric(up, ordered[k])
    <3>1. DOMAIN up = C
      BY <2>2
    <3>2. ordered[k] \in C /\ k \in Nat /\ Position(up, ordered[k]) = k - 1
      BY <2>8
    <3>3. /\ ordered[k] \notin healthy <=> ~up[ordered[k]]
          /\ healthy # {} <=> \E j \in DOMAIN up : up[j]
      BY <2>4, <3>1, <3>2
    <3> DEFINE offset == IF healthy # {} /\ ordered[k] \notin healthy
                         THEN unhealthyMetricOffset ELSE 0
               offset2 == IF ~up[ordered[k]] /\ \E j \in DOMAIN up : up[j]
                          THEN unhealthyMetricOffset ELSE 0
    <3>4. offset = offset2 /\ offset \in Nat
      BY <3>3 DEF unhealthyMetricOffset
    <3>5. M(k) = metricBase + (k - 1) * metricStep + offset
      OBVIOUS
    <3>6. Metric(up, ordered[k]) = metricBase + metricStep * Position(up, ordered[k]) + offset2
      BY DEF Metric
    <3> HIDE DEF offset, offset2, M
    <3> QED
      BY <3>2, <3>4, <3>5, <3>6 DEF metricBase, metricStep
  <2> HIDE DEF M, R
  <2>10. ToSet(SelectLoop(hop, fam)) = {R(ordered[k], M(k)) : k \in DOMAIN ordered}
    BY <2>6 DEF ToSet
  <2>11. {R(ordered[k], M(k)) : k \in DOMAIN ordered} = {R(k, Metric(up, k)) : k \in C}
    BY <2>8, <2>9
  <2> QED
    BY <2>5, <2>10, <2>11
<1> QED
  BY <1>1, HopInvariant, PTL
=============================================================================
