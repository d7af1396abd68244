-------------------------------- MODULE Health --------------------------------
(***************************************************************************)
(* internal/health and the candidate resolution of internal/app: from the  *)
(* configured gateways of a next hop to the hops a plan uses, with the     *)
(* metric that orders them.                                                *)
(*                                                                         *)
(* A world w is what the host answers while a plan is built:               *)
(*   w.links   the index of each network device, 0 when there is none      *)
(*   w.reach   the <<device, address>> pairs that answer a ping            *)
(***************************************************************************)
EXTENDS Rtnl, Slices

CONSTANT Dev     \* device names, "" (not given) included

NoDev == ""

ASSUME DevAssumption == NoDev \in Dev

(* config.GatewayConfig, and the same fields of a config.NextHopConfig.    *)
Gateway == [dev : Dev, via : Addr \cup {NoAddr}, via4 : Addr \cup {NoAddr},
            via6 : Addr \cup {NoAddr}, onlink : BOOLEAN,
            targets : SUBSET Addr]

(* config.NextHopConfig *)
Hop == [dev : Dev, via : Addr \cup {NoAddr}, via4 : Addr \cup {NoAddr},
        via6 : Addr \cup {NoAddr}, onlink : BOOLEAN, targets : SUBSET Addr,
        gateways : Seq(Gateway)]

(* A nil *NextHopConfig: Validate rejects a hop with neither device nor    *)
(* gateways.                                                               *)
NoHop == [dev |-> NoDev, via |-> NoAddr, via4 |-> NoAddr, via6 |-> NoAddr,
          onlink |-> FALSE, targets |-> {}, gateways |-> <<>>]

-----------------------------------------------------------------------------
(* Candidates *)

(* candidatesFromGateway: a gateway falls back on its parent's settings.   *)
Merge(h, gw) ==
    [dev     |-> IF gw.dev # NoDev THEN gw.dev ELSE h.dev,
     via     |-> gw.via, via4 |-> gw.via4, via6 |-> gw.via6,
     onlink  |-> gw.onlink \/ h.onlink,
     targets |-> IF gw.targets # {} THEN gw.targets ELSE h.targets]

(* gatewaysFromTarget and gatewaysFromNextHop: a hop without gateways is   *)
(* its own only one.                                                       *)
Gateways(h) ==
    LET listed == IF h.gateways = <<>> THEN <<h>> ELSE h.gateways
    IN  [i \in DOMAIN listed |-> Merge(h, listed[i])]

(* candidatesFromHop, then filterCandidatesByFamily: via counts only when  *)
(* neither via4 nor via6 is given.                                         *)
CandidateVia(gw, fam) ==
    LET specific == IF fam = 4 THEN gw.via4 ELSE gw.via6
        given    == IF gw.via4 # NoAddr \/ gw.via6 # NoAddr THEN specific ELSE gw.via
    IN  IF given.fam = fam THEN given ELSE NoAddr

(* The gateways of h that have an address of the family, in their order.   *)
Candidates(h, fam) ==
    {i \in DOMAIN Gateways(h) : CandidateVia(Gateways(h)[i], fam) # NoAddr}

(* resolveCandidates evaluates IPv6 only for "dual" and "ipv6".            *)
HopFams(family) == IF family = "" THEN {4} ELSE FamsOf(family)

-----------------------------------------------------------------------------
(* Select *)

DefaultTargets(fam) == {[fam |-> fam, n |-> Zeros], [fam |-> fam, n |-> Ones]}

EvaluateAnyDevice(gw, fam, w) ==   \* mutant: the ping is not bound to the device
    LET targets == IF gw.targets = {} THEN DefaultTargets(fam) ELSE gw.targets
    IN  \E t \in targets : t.fam = fam /\ \E d \in Dev : <<d, t>> \in w.reach

EvaluateAnyTarget(gw, fam, w) ==   \* mutant: targets of the other family count
    LET targets == IF gw.targets = {} THEN DefaultTargets(fam) ELSE gw.targets
    IN  \E t \in targets : <<gw.dev, t>> \in w.reach

(* evaluateCandidate: one target of the family that answers is enough.     *)
(* The ping is bound to the device, not to the gateway.                    *)
EvaluateCandidate(gw, fam, w) ==
    LET targets == IF gw.targets = {} THEN DefaultTargets(fam) ELSE gw.targets
    IN  \E t \in targets : t.fam = fam /\ <<gw.dev, t>> \in w.reach

metricBase            == 100
metricStep            == 10
unhealthyMetricOffset == 1000

AheadAsConfigured(up, i, j) == i < j   \* mutant: no promotion

(* i comes before j in Select's "ordered": the healthy ones in configured  *)
(* order, then the others in configured order.                             *)
Ahead(up, i, j) == IF up[i] # up[j] THEN up[i] ELSE i < j

Position(up, i) == Cardinality({k \in DOMAIN up : Ahead(up, k, i)})

MetricByHealth(up, i) ==   \* mutant: the position is left out
    metricBase
      + IF ~up[i] /\ \E k \in DOMAIN up : up[k] THEN unhealthyMetricOffset ELSE 0

Metric(up, i) ==
    metricBase + metricStep * Position(up, i)
      + IF ~up[i] /\ \E k \in DOMAIN up : up[k] THEN unhealthyMetricOffset ELSE 0

ResolvedHop == [link : Nat, via : Addr, onlink : BOOLEAN, metric : Nat]

(* Which candidates answer.                                                *)
Evaluated(h, fam, w) ==
    [i \in Candidates(h, fam) |-> EvaluateCandidate(Gateways(h)[i], fam, w)]

(* The hop of each candidate, by its place in the configuration.           *)
HopOf(h, fam, w) ==
    LET gws == Gateways(h)
        up  == Evaluated(h, fam, w)
    IN  [i \in Candidates(h, fam) |->
            [link   |-> w.links[gws[i].dev],
             via    |-> CandidateVia(gws[i], fam),
             onlink |-> gws[i].onlink,
             metric |-> Metric(up, i)]]

Select(h, fam, w) == {HopOf(h, fam, w)[i] : i \in Candidates(h, fam)}

(* resolveCandidates *)
ResolveCandidates(h, family, w) == UNION {Select(h, fam, w) : fam \in HopFams(family)}

(* LinkIndexByName fails for a device some candidate needs.                *)
CandidateLinkMissing(h, family, w) ==
    \E fam \in HopFams(family) : \E i \in Candidates(h, fam) :
        w.links[Gateways(h)[i].dev] = 0
=============================================================================
