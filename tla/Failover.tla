------------------------------- MODULE Failover -------------------------------
(***************************************************************************)
(* Gateway failover as the health ticker drives it: which pings are        *)
(* answered changes at any time, and every evaluation orders the gateways  *)
(* of a next hop anew (health.Select).                                     *)
(***************************************************************************)
EXTENDS Health

CONSTANTS
    Hops,      \* next hops with their gateways
    Links,     \* device indexes
    Pingable   \* the <<device, address>> pairs that may answer

ASSUME FailoverAssumption == Hops \subseteq Hop /\ Links \in [Dev -> Nat]

VARIABLES hop, reach

w == [links |-> Links, reach |-> reach]

Init == hop \in Hops /\ reach \in SUBSET Pingable

(* A target starts or stops answering through a device.                    *)
Change(pair) ==
    /\ reach' = IF pair \in reach THEN reach \ {pair} ELSE reach \cup {pair}
    /\ UNCHANGED hop

Next == \E pair \in Pingable : Change(pair)

Spec == Init /\ [][Next]_<<hop, reach>>

-----------------------------------------------------------------------------
(* Select as health.go computes it: the candidates are collected in order, *)
(* the healthy ones moved to the front, and numbered.                      *)
SelectLoop(h, fam) ==
    LET gws        == Gateways(h)
        items      == Candidates(h, fam)
        healthy    == {i \in items : EvaluateCandidate(gws[i], fam, w)}
        hasHealthy == healthy # {}
        ordered    == IF hasHealthy THEN InOrder(healthy) \o InOrder(items \ healthy)
                      ELSE InOrder(items)
    IN  [k \in DOMAIN ordered |->
            [link   |-> Links[gws[ordered[k]].dev],
             via    |-> CandidateVia(gws[ordered[k]], fam),
             onlink |-> gws[ordered[k]].onlink,
             metric |-> metricBase + (k - 1) * metricStep
                          + IF hasHealthy /\ ordered[k] \notin healthy
                            THEN unhealthyMetricOffset ELSE 0]]

(* The declarative Select of module Health, which the planner uses, agrees *)
(* with the loops of health.go.                                            *)
SelectMatchesLoops ==
    \A fam \in Fams : Select(hop, fam, w) = ToSet(SelectLoop(hop, fam))

(* The metric of the i-th gateway of hop, a candidate for the family.      *)
MetricOf(fam, i, host) == HopOf(hop, fam, host)[i].metric

(* No two gateways get the same metric: a second route for a destination   *)
(* with that metric would be EEXIST, and silently missing.                 *)
NoTie ==
    \A fam \in Fams : \A i, j \in Candidates(hop, fam) :
        MetricOf(fam, i, w) = MetricOf(fam, j, w) => i = j

(* One of the i-th gateway's ping targets answers through its device.      *)
Answers(fam, i) ==
    LET gw == Gateways(hop)[i]
    IN  \E t \in Addr :
            /\ t.fam = fam
            /\ t \in IF gw.targets = {} THEN DefaultTargets(fam) ELSE gw.targets
            /\ <<gw.dev, t>> \in reach

(* Traffic goes through a gateway that answers as long as there is one: it *)
(* has a lower metric than every gateway that does not.                    *)
AnsweringPreferred ==
    \A fam \in Fams : \A i, j \in Candidates(hop, fam) :
        Answers(fam, i) /\ ~Answers(fam, j) => MetricOf(fam, i, w) < MetricOf(fam, j, w)

(* A flap seen through one device does not reorder the gateways that use   *)
(* other devices, be their addresses the same or not.                      *)
OthersKeepOrder ==
    [][\A pair \in Pingable : Change(pair) =>
          \A fam \in Fams : \A i, j \in Candidates(hop, fam) :
              pair[1] \notin {Gateways(hop)[i].dev, Gateways(hop)[j].dev} =>
                  (MetricOf(fam, i, w) < MetricOf(fam, j, w)
                     <=> MetricOf(fam, i, w') < MetricOf(fam, j, w'))]_<<hop, reach>>
=============================================================================
