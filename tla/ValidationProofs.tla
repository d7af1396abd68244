--------------------------- MODULE ValidationProofs ---------------------------
(***************************************************************************)
(* What an accepted configuration is worth, for every file and command     *)
(* line and not only for the edits TLC tries.                              *)
(*                                                                         *)
(* The invariant is only that the file is one decoding may deliver; the    *)
(* work is in following a setting from the file through validateNextHop    *)
(* and the merge of a gateway with its parent to the candidate, the rule   *)
(* or the route the plan makes of it.                                      *)
(***************************************************************************)
EXTENDS Validation, PlannerProofs

Inputs == file \in ConfigFile /\ opts \in Options

(* Every file of a behaviour is one decoding may deliver.                  *)
LEMMA InputsInvariance == Spec => []Inputs
<1>1. Init => Inputs
  BY InputsAssumption DEF Init, Inputs
<1>2. Inputs /\ [Next]_<<file, opts, edits>> => Inputs'
  BY DEF Inputs, Next, Edit
<1> QED
  BY <1>1, <1>2, PTL DEF Spec

-----------------------------------------------------------------------------
(* From the file to the groups *)

(* A group of the plans comes from a group of the file that is valid.      *)
LEMMA GroupOrigin ==
    ASSUME Inputs, NEW g \in AcceptedGroups
    PROVE  /\ g \in Group
           /\ EffectiveConfig \in Config
           /\ \E f \in GroupFile : ValidGroup(f) /\ g = GroupOfFile(f)
<1> DEFINE c  == LoadConfig(opts, file)
           gs == Groups(c)
<1>1. Accepted
  BY DEF AcceptedGroups
<1>2. EffectiveConfig \in Config
  BY <1>1, InputsAssumption, AcceptedIsWellFormed DEF Inputs, Accepted, EffectiveConfig
<1>3. c \in ConfigFile
  BY InputsAssumption, LoadConfigType DEF Inputs
<1>4. Validate(c)
  BY <1>1 DEF Accepted, Loads
<1>5. EffectiveConfig = Effective(c)
  BY DEF EffectiveConfig
<1> HIDE DEF c
<1>6. gs \in Seq(GroupFile)
  BY <1>3, InputsAssumption, GroupsType
<1>7. EffectiveConfig.groups = [i \in DOMAIN gs |-> GroupOfFile(gs[i])]
  BY <1>5 DEF Effective
<1>8. PICK i \in DOMAIN gs : g = GroupOfFile(gs[i])
  BY <1>1, <1>7 DEF AcceptedGroups
<1>9. ValidGroup(gs[i]) /\ gs[i] \in GroupFile
  BY <1>4, <1>6 DEF Validate
<1>10. GroupOfFile(gs[i]) \in Group
  BY <1>9, GroupType
<1> QED
  BY <1>2, <1>8, <1>9, <1>10

(* A next hop of the plans comes from one of the file that is valid, and   *)
(* has a device or gateways.                                               *)
LEMMA HopOrigin ==
    ASSUME NEW f \in GroupFile, ValidGroup(f), NEW h \in HopsOf(GroupOfFile(f))
    PROVE  \E fh \in HopFile : \E b \in BOOLEAN :
              /\ h = HopOfFile(fh)
              /\ ValidNextHop(coalesce(f.family, "dual"), fh, b)
              /\ fh.dev # NoDev \/ fh.gateways # <<>>
<1>1. /\ GroupOfFile(f).hop = HopOfFile(f.hop)
      /\ GroupOfFile(f).default = IF f.hasDefault THEN HopOfFile(f.default) ELSE NoHop
  BY DEF GroupOfFile
<1>2. f.hop \in HopFile /\ f.default \in HopFile
  BY DEF GroupFile
<1>3. CASE h = HopOfFile(f.hop)
  BY <1>2, <1>3 DEF ValidGroup
<1>4. CASE f.hasDefault /\ h = HopOfFile(f.default)
  <2>1. ValidNextHop(coalesce(f.family, "dual"), f.default, TRUE)
    BY <1>4 DEF ValidGroup
  <2>2. f.default.dev # NoDev \/ f.default.gateways # <<>>
    BY <2>1 DEF ValidNextHop
  <2> QED
    BY <1>2, <1>4, <2>1, <2>2
<1> QED
  BY <1>1, <1>3, <1>4 DEF HopsOf

-----------------------------------------------------------------------------
(* Candidates *)

(* The gateways of a hop, if it has any, and the hop itself otherwise.     *)
LEMMA GatewaysOfHop ==
    ASSUME NEW h \in Hop, NEW i \in DOMAIN Gateways(h)
    PROVE  \/ h.gateways = <<>> /\ Gateways(h)[i] = Merge(h, h)
           \/ /\ h.gateways # <<>> /\ i \in DOMAIN h.gateways
              /\ Gateways(h)[i] = Merge(h, h.gateways[i])
<1>1. CASE h.gateways = <<>>
  <2>1. i \in DOMAIN <<h>> /\ Gateways(h)[i] = Merge(h, <<h>>[i])
    BY <1>1 DEF Gateways
  <2>2. i = 1
    BY <2>1
  <2> QED
    BY <1>1, <2>1, <2>2
<1>2. CASE h.gateways # <<>>
  BY <1>2 DEF Gateways
<1> QED
  BY <1>1, <1>2

(* The merge that is validated and the merge that is used agree.           *)
LEMMA MergesAgree ==
    ASSUME NEW family, NEW fh \in HopFile, NEW b, ValidNextHop(family, fh, b),
           HopOfFile(fh) \in Hop, NEW i \in DOMAIN HopOfFile(fh).gateways
    PROVE  LET gw == Merge(HopOfFile(fh), HopOfFile(fh).gateways[i])
               m  == MergeNextHop(fh, fh.gateways[i])
           IN  /\ ValidGateway(family, fh, fh.gateways[i])
               /\ gw.dev = m.dev /\ gw.targets = m.targets
               /\ gw.via = m.via /\ gw.via4 = m.via4 /\ gw.via6 = m.via6
<1> DEFINE h  == HopOfFile(fh)
           fg == fh.gateways[i]
<1>1. h.gateways = [j \in DOMAIN fh.gateways |-> GatewayOfFile(fh.gateways[j])]
  BY DEF HopOfFile
<1>2. i \in DOMAIN fh.gateways /\ h.gateways[i] = GatewayOfFile(fg)
  BY <1>1
<1>3. h.dev = fh.dev /\ h.targets = fh.targets
  BY DEF HopOfFile
<1>4. ValidGateway(family, fh, fg)
  BY <1>2 DEF ValidNextHop
<1>5. /\ Merge(h, GatewayOfFile(fg)).dev = MergeNextHop(fh, fg).dev
      /\ Merge(h, GatewayOfFile(fg)).targets = MergeNextHop(fh, fg).targets
      /\ Merge(h, GatewayOfFile(fg)).via = MergeNextHop(fh, fg).via
      /\ Merge(h, GatewayOfFile(fg)).via4 = MergeNextHop(fh, fg).via4
      /\ Merge(h, GatewayOfFile(fg)).via6 = MergeNextHop(fh, fg).via6
  BY <1>3 DEF Merge, GatewayOfFile, MergeNextHop, mergeHealthChecks, coalesce, NoDev
<1> QED
  BY <1>2, <1>4, <1>5

(* Every gateway of a valid hop has a device and valid targets.            *)
LEMMA GatewaySound ==
    ASSUME NEW family, NEW fh \in HopFile, NEW b \in BOOLEAN, ValidNextHop(family, fh, b),
           fh.dev # NoDev \/ fh.gateways # <<>>, NEW i \in DOMAIN Gateways(HopOfFile(fh))
    PROVE  /\ Gateways(HopOfFile(fh))[i].dev # NoDev
           /\ Gateways(HopOfFile(fh))[i].targets \subseteq Addr
<1> DEFINE h  == HopOfFile(fh)
           gw == Gateways(h)[i]
<1>1. h \in Hop
  BY HopType
<1>2. gw \in Gateway
  BY <1>1, GatewaysType
<1>3. gw.targets \subseteq Addr
  BY <1>2 DEF Gateway
<1>4. CASE h.gateways = <<>>
  <2>1. gw = Merge(h, h)
    BY <1>1, <1>4, GatewaysOfHop
  <2>2. fh.gateways = <<>>
    <3>1. DOMAIN h.gateways = DOMAIN fh.gateways /\ fh.gateways \in Seq(GatewayFile)
      BY DEF HopOfFile, HopFile
    <3> QED
      BY <1>4, <3>1
  <2>3. h.dev # NoDev
    BY <2>2 DEF HopOfFile
  <2> QED
    BY <1>3, <2>1, <2>3 DEF Merge
<1>5. CASE h.gateways # <<>>
  <2>1. i \in DOMAIN h.gateways /\ gw = Merge(h, h.gateways[i])
    BY <1>1, <1>5, GatewaysOfHop
  <2>2. ValidGateway(family, fh, fh.gateways[i]) /\ gw.dev = MergeNextHop(fh, fh.gateways[i]).dev
    BY <1>1, <2>1, MergesAgree
  <2> QED
    BY <1>3, <2>2 DEF ValidGateway
<1> QED
  BY <1>4, <1>5

(* What validateNextHop has checked is what the candidates are made of.    *)
LEMMA SoundCandidates == Inputs => CandidatesSound
<1> SUFFICES ASSUME Inputs PROVE CandidatesSound
  OBVIOUS
<1> SUFFICES ASSUME NEW g \in AcceptedGroups, NEW h \in HopsOf(g), NEW fam \in HopFams(g.family),
                    NEW i \in Candidates(h, fam)
             PROVE  /\ Gateways(h)[i].dev # NoDev
                    /\ Gateways(h)[i].targets \subseteq Addr
                    /\ CandidateVia(Gateways(h)[i], fam) \in Addr
  BY DEF CandidatesSound
<1>1. PICK f \in GroupFile : ValidGroup(f) /\ g = GroupOfFile(f)
  BY GroupOrigin
<1>2. PICK fh \in HopFile : \E b \in BOOLEAN :
            /\ h = HopOfFile(fh)
            /\ ValidNextHop(coalesce(f.family, "dual"), fh, b)
            /\ fh.dev # NoDev \/ fh.gateways # <<>>
  BY <1>1, HopOrigin
<1>3. i \in DOMAIN Gateways(h) /\ CandidateVia(Gateways(h)[i], fam) # NoAddr
  BY DEF Candidates
<1>4. h \in Hop
  BY <1>2, HopType
<1>5. CandidateVia(Gateways(h)[i], fam) \in Addr
  BY <1>3, <1>4, GatewaysType, CandidateViaType
<1>6. Gateways(h)[i].dev # NoDev /\ Gateways(h)[i].targets \subseteq Addr
  BY <1>2, <1>3, GatewaySound
<1> QED
  BY <1>5, <1>6

(* No file that is accepted gives a candidate without a device to look up, *)
(* with a target that cannot be pinged or without an address: see          *)
(* CandidatesSound.                                                        *)
THEOREM CandidatesAlwaysSound == Spec => []CandidatesSound
BY SoundCandidates, InputsInvariance, PTL

(* No gateway of a dual group that is accepted is left out of both         *)
(* families: see DualGatewaysCount.                                        *)
THEOREM DualGatewaysAlwaysCount == Spec => []DualGatewaysCount
<1>1. ASSUME Inputs PROVE DualGatewaysCount
  <2> SUFFICES ASSUME NEW g \in AcceptedGroups, g.family = "dual", NEW h \in HopsOf(g),
                      NEW i \in DOMAIN h.gateways
               PROVE  \E fam \in HopFams(g.family) : i \in Candidates(h, fam)
    BY DEF DualGatewaysCount
  <2>1. PICK f \in GroupFile : ValidGroup(f) /\ g = GroupOfFile(f)
    BY <1>1, GroupOrigin
  <2>2. PICK fh \in HopFile : \E b \in BOOLEAN :
              h = HopOfFile(fh) /\ ValidNextHop(coalesce(f.family, "dual"), fh, b)
    BY <2>1, HopOrigin
  <2>3. coalesce(f.family, "dual") = "dual"
    BY <2>1 DEF GroupOfFile, coalesce
  <2>4. PICK b \in BOOLEAN : ValidNextHop("dual", fh, b)
    BY <2>2, <2>3
  <2>5. h \in Hop
    BY <2>2, HopType
  <2> DEFINE gw == Merge(h, h.gateways[i])
             m  == MergeNextHop(fh, fh.gateways[i])
  <2>6. /\ ValidGateway("dual", fh, fh.gateways[i])
        /\ gw.via = m.via /\ gw.via4 = m.via4 /\ gw.via6 = m.via6
    BY <2>2, <2>4, <2>5, MergesAgree
  <2>7. \/ gw.via4 # NoAddr /\ gw.via4.fam = 4
        \/ gw.via6 # NoAddr /\ gw.via6.fam = 6
    BY <2>6 DEF ValidGateway, ValidAddresses
  <2>8. i \in DOMAIN Gateways(h) /\ Gateways(h)[i] = gw
    <3>1. h.gateways # <<>>
      BY <2>5 DEF Hop
    <3> QED
      BY <3>1 DEF Gateways
  <2> HIDE DEF gw, m
  <2>9. \E fam \in {4, 6} : CandidateVia(gw, fam) # NoAddr
    BY <2>7 DEF CandidateVia
  <2>10. HopFams(g.family) = {4, 6}
    BY DEF HopFams, FamsOf, Fams
  <2> QED
    BY <2>8, <2>9, <2>10 DEF Candidates
<1> QED
  BY <1>1, InputsInvariance, PTL

-----------------------------------------------------------------------------
(* Rules *)

(* The families of the four values of target.family.                       *)
LEMMA FamsOfCases ==
    ASSUME NEW family \in Families
    PROVE  /\ 4 \in FamsOf(family) <=> family # "ipv6"
           /\ 6 \in FamsOf(family) <=> family # "ipv4"
<1>1. CASE family = "ipv6"
  BY <1>1 DEF FamsOf
<1>2. CASE family = "ipv4"
  BY <1>2 DEF FamsOf
<1>3. CASE family # "ipv6" /\ family # "ipv4"
  BY <1>3, Zenon DEF FamsOf, Fams
<1> QED
  BY <1>1, <1>2, <1>3

(* Which rules of a well-formed group are listed as they were planned: the *)
(* request, what the kernel keeps of it and CurrentOwned's filter.         *)
LEMMA RuleListed ==
    ASSUME NEW c \in Config, NEW g \in Group, NEW r \in DesiredRules(g)
    PROVE  /\ IsOwnedRule(RuleRequest(r), c, g) /\ Reported(RuleRequest(r)) = r
                 <=> RuleListedAsPlanned(c, g)
           /\ OwnedRules(<<RuleRequest(r)>>, c, g) = {r} <=> RuleListedAsPlanned(c, g)
<1> DEFINE k == RuleRequest(r)
<1>1. /\ g.rule \in RuleConfig /\ g.table \in Nat /\ g.family \in Families
      /\ c.base \in Nat /\ c.step \in Nat
  BY DEF Group, Config
<1>2. /\ g.rule.prio \in Nat /\ g.rule.mark \in Nat /\ g.rule.mask \in Nat
      /\ g.rule.from \in RawPrefix \cup {NoPrefix}
  BY <1>1 DEF RuleConfig
<1>3. r = [prio |-> g.rule.prio, table |-> g.table, hasMark |-> g.rule.mask # 0,
           mark |-> g.rule.mark, mask |-> g.rule.mask, from |-> g.rule.from]
  BY DEF DesiredRules
<1>4. /\ k.prio = g.rule.prio /\ k.table = g.table
      /\ k.fam = IF g.rule.from = NoPrefix THEN 4 ELSE g.rule.from.fam
      /\ k.mark = IF g.rule.mask # 0 THEN g.rule.mark ELSE 0
      /\ k.mask = g.rule.mask
      /\ k.from = IF g.rule.from.bits = 0 THEN NoPrefix ELSE Masked(g.rule.from)
  BY <1>2, <1>3 DEF RuleRequest
<1>5. 4 \in FamsOf(g.family) <=> g.family # "ipv6"
  BY <1>1, FamsOfCases
<1>6. g.rule.from # NoPrefix => g.rule.from.fam \in Fams /\ g.rule.from.bits \in Nat
  BY <1>2 DEF RawPrefix
<1>7. NoPrefix.bits = 0 /\ \A p \in RawPrefix : p # NoPrefix
  BY DEF NoPrefix, RawPrefix, Fams
<1>8. k.from = g.rule.from <=>
         \/ g.rule.from = NoPrefix
         \/ g.rule.from.bits > 0 /\ Masked(g.rule.from) = g.rule.from
  BY <1>2, <1>4, <1>6, <1>7
<1>9. Reported(k) = [prio |-> k.prio, table |-> k.table,
                     hasMark |-> k.mark # 0 \/ k.mask # 0, mark |-> k.mark, mask |-> k.mask,
                     from |-> k.from]
  BY DEF Reported
<1>10. Reported(k) = r <=> (g.rule.mask = 0 => g.rule.mark = 0) /\ k.from = g.rule.from
  <2>1. k.prio = r.prio /\ k.table = r.table /\ k.mask = r.mask
    BY <1>3, <1>4
  <2>2. k.mark = r.mark <=> (g.rule.mask = 0 => g.rule.mark = 0)
    BY <1>2, <1>3, <1>4
  <2>3. (k.mark # 0 \/ k.mask # 0) = r.hasMark
    BY <1>3, <1>4
  <2>4. k.from = r.from <=> k.from = g.rule.from
    BY <1>3
  <2>5. Reported(k) = r <=> k.mark = r.mark /\ k.from = r.from
    <3>1. Reported(k).mark = k.mark /\ Reported(k).from = k.from
      BY <1>9
    <3>2. ASSUME k.mark = r.mark, k.from = r.from PROVE Reported(k) = r
      <4>1. r = [prio |-> r.prio, table |-> r.table, hasMark |-> r.hasMark,
                 mark |-> r.mark, mask |-> r.mask, from |-> r.from]
        BY <1>3
      <4> QED
        BY <1>9, <2>1, <2>3, <3>2, <4>1
    <3> QED
      BY <3>1, <3>2
  <2> QED
    BY <2>2, <2>4, <2>5
<1>11. IsOwnedRule(k, c, g) <=>
         /\ IF g.rule.from = NoPrefix THEN g.family # "ipv6"
            ELSE g.rule.from.fam \in FamsOf(g.family)
         /\ g.rule.prio >= c.base /\ g.rule.prio < c.base + 1000 * c.step
  <2>1. c.step * 1000 = 1000 * c.step
    BY <1>1
  <2> QED
    BY <1>4, <1>5, <2>1 DEF IsOwnedRule
<1>12. IsOwnedRule(k, c, g) /\ Reported(k) = r <=> RuleListedAsPlanned(c, g)
  BY <1>8, <1>10, <1>11 DEF RuleListedAsPlanned
<1>13. OwnedRules(<<k>>, c, g) = {Reported(x) : x \in {q \in {k} : IsOwnedRule(q, c, g)}}
  <2>1. ToSet(<<k>>) = {k}
    BY DEF ToSet
  <2> QED
    BY <2>1 DEF OwnedRules
<1> HIDE DEF k
<1>14. OwnedRules(<<k>>, c, g) = {r} <=> IsOwnedRule(k, c, g) /\ Reported(k) = r
  BY <1>13
<1> QED
  BY <1>12, <1>14 DEF k

(* Of the rules of every file that is accepted, exactly those settle that  *)
(* RuleListedAsPlanned describes: see RuleSettles.                         *)
THEOREM RulesAlwaysSettle == Spec => []RuleSettles
<1>1. ASSUME Inputs PROVE RuleSettles
  BY <1>1, GroupOrigin, RuleListed DEF RuleSettles
<1> QED
  BY <1>1, InputsInvariance, PTL

-----------------------------------------------------------------------------
(* Routes *)

(* A resolved hop is of the family it was resolved for, is that of one     *)
(* candidate's device, has a metric and shares it with no other.           *)
LEMMA SelectedHop ==
    ASSUME NEW h \in Hop, NEW fam \in Fams, NEW w \in World
    PROVE  /\ \A hop \in Select(h, fam, w) :
                 /\ hop.via.fam = fam /\ hop.metric # 0
                 /\ \E i \in Candidates(h, fam) : hop.link = w.links[Gateways(h)[i].dev]
           /\ \A x, y \in Select(h, fam, w) : x.metric = y.metric => x = y
           /\ Candidates(h, fam) # {} <=> Select(h, fam, w) # {}
<1> DEFINE gws == Gateways(h)
           C   == Candidates(h, fam)
           up  == [i \in C |-> EvaluateCandidate(gws[i], fam, w)]
           R(i) == [link   |-> w.links[gws[i].dev],
                    via    |-> CandidateVia(gws[i], fam),
                    onlink |-> gws[i].onlink,
                    metric |-> Metric(up, i)]
<1>1. Select(h, fam, w) = {R(i) : i \in C}
  BY DEF Select, HopOf, Evaluated
<1>2. C \in SUBSET (DOMAIN gws)
  BY DEF Candidates
<1>3. C \in SUBSET Nat /\ IsFiniteSet(C) /\ up \in [C -> BOOLEAN] /\ DOMAIN up = C
  <2>1. \A i : EvaluateCandidate(gws[i], fam, w) \in BOOLEAN
    BY DEF EvaluateCandidate
  <2> QED
    BY <1>2, <2>1, GatewaysType, FS_Subset
<1>4. ASSUME NEW i \in C
      PROVE  CandidateVia(gws[i], fam).fam = fam
  BY <1>4 DEF Candidates, CandidateVia
<1>5. \A i \in C : /\ R(i).via.fam = fam /\ R(i).metric = Metric(up, i)
                    /\ R(i).link = w.links[gws[i].dev]
  BY <1>4
<1> HIDE DEF R, C, up
<1>6. \A i \in C : Metric(up, i) \in Nat /\ Metric(up, i) # 0
  BY <1>3, MetricType
<1>7. ASSUME NEW i \in C, NEW j \in C, Metric(up, i) = Metric(up, j)
      PROVE  i = j
  <2>1. \A k, l \in C : Ahead(up, k, l) => Metric(up, k) < Metric(up, l)
    BY <1>3, MetricOrders
  <2>2. ~Ahead(up, i, j) /\ ~Ahead(up, j, i)
    BY <1>6, <1>7, <2>1
  <2> QED
    BY <1>3, <2>2, AheadOrder
<1>8. \A x, y \in Select(h, fam, w) : x.metric = y.metric => x = y
  BY <1>1, <1>5, <1>7
<1> QED
  BY <1>1, <1>5, <1>6, <1>8 DEF C

(* The gateways of an accepted hop have devices.                           *)
Sound(g, h) ==
    \A fam \in HopFams(g.family) : \A i \in Candidates(h, fam) : Gateways(h)[i].dev # NoDev

(* The hops for destinations of a family: there are some exactly when the  *)
(* family is resolved and a gateway has an address of it.                  *)
LEMMA MatchingHops ==
    ASSUME NEW g \in Group, NEW h \in Hop, Sound(g, h), NEW fam \in Fams,
           NEW M, M = {hop \in ResolveCandidates(h, g.family, Host) : hop.via.fam = fam}
    PROVE  /\ M # {} <=> Gatewayed(g, h, fam)
           /\ \A hop \in M : hop.metric # 0 /\ hop.link \in Live(Host)
           /\ \A x, y \in M : x.metric = y.metric => x = y
<1>1. HopFams(g.family) \subseteq Fams
  BY FamsOfType, Zenon DEF HopFams, Fams
<1>2. ResolveCandidates(h, g.family, Host) = UNION {Select(h, f, Host) : f \in HopFams(g.family)}
  BY DEF ResolveCandidates
<1>3. \A f \in HopFams(g.family) : \A hop \in Select(h, f, Host) :
         hop.via.fam = f /\ hop.metric # 0
  BY <1>1, HostAssumption, SelectedHop
<1>4. M = {hop \in Select(h, fam, Host) : fam \in HopFams(g.family)}
  BY <1>2, <1>3
<1>5. /\ Candidates(h, fam) # {} <=> Select(h, fam, Host) # {}
      /\ \A x, y \in Select(h, fam, Host) : x.metric = y.metric => x = y
  BY HostAssumption, SelectedHop
<1>6. ASSUME fam \in HopFams(g.family), NEW hop \in Select(h, fam, Host)
      PROVE  hop.link \in Live(Host)
  <2>1. PICK i \in Candidates(h, fam) : hop.link = Host.links[Gateways(h)[i].dev]
    BY HostAssumption, SelectedHop
  <2>2. Gateways(h)[i].dev # NoDev
    BY <1>6 DEF Sound
  <2>3. Gateways(h)[i].dev \in Dev
    <3>1. i \in DOMAIN Gateways(h)
      BY DEF Candidates
    <3> QED
      BY <3>1, GatewaysType DEF Gateway
  <2> QED
    BY <2>1, <2>2, <2>3, HostAssumption DEF Live
<1> QED
  BY <1>3, <1>4, <1>5, <1>6 DEF Gatewayed

(* The kernel stores an IPv4 route as it is, and an IPv6 route unless it   *)
(* has no metric or is a throw route.                                      *)
LEMMA InstalledAsPlanned ==
    ASSUME NEW r \in Route, r.type = "throw" => r.link = 0 /\ r.via = NoAddr /\ r.onlink = FALSE
    PROVE  Installed(r) = r <=> (r.dst.fam = 6 => r.metric # 0 /\ r.type # "throw")
<1>1. RouteRequest(r) = r
  BY DEF RouteRequest, Route
<1>2. Installed(r) = Stored(r)
  BY <1>1 DEF Installed
<1>3. r.dst.fam = 4 \/ r.dst.fam = 6
  BY DEF Route, Prefix, RawPrefix, Fams
<1>4. CASE r.dst.fam = 4
  BY <1>2, <1>4 DEF Stored
<1>5. CASE r.dst.fam = 6
  <2>1. /\ Stored(r).metric = IF r.metric = 0 THEN IPv6DefaultMetric ELSE r.metric
        /\ Stored(r).link = IF r.type = "throw" THEN LoopbackIndex ELSE r.link
        /\ Stored(r).table = r.table /\ Stored(r).proto = r.proto /\ Stored(r).type = r.type
        /\ Stored(r).via = r.via /\ Stored(r).onlink = r.onlink /\ Stored(r).dst = r.dst
    BY <1>5 DEF Stored, Route
  <2>2. CASE r.metric = 0 \/ r.type = "throw"
    BY <1>2, <1>5, <2>1, <2>2 DEF IPv6DefaultMetric, LoopbackIndex
  <2>3. CASE r.metric # 0 /\ r.type # "throw"
    <3>1. Installed(r) \in Route
      BY InstalledType
    <3> QED
      BY <1>2, <1>5, <2>1, <2>3, <3>1, RouteEqual
  <2> QED
    BY <2>2, <2>3
<1> QED
  BY <1>3, <1>4, <1>5

(* A plan comes to be held by the kernel exactly when the kernel takes     *)
(* each of its routes as it is and no two of them share a slot.            *)
Taken(r) == Installed(r) = r /\ (r.type # "throw" => r.link \in Live(Host))

LEMMA StoredRouteByRoute ==
    ASSUME NEW plan \in SUBSET Route
    PROVE  StoredAsPlanned(plan) <=>
              /\ \A r \in plan : Taken(r)
              /\ \A q, r \in plan : SameSlot(q, r) => q = r
<1> DEFINE Slotted(r) == \E q \in plan \ {r} : SameSlot(q, Installed(r))
<1>1. ASSUME NEW r \in plan
      PROVE  /\ AddRouteError(plan \ {r}, Live(Host), r) = "nil"
                   <=> (r.type # "throw" => r.link \in Live(Host)) /\ ~Slotted(r)
             /\ AddRoute(plan \ {r}, r) = plan <=> ~Slotted(r) /\ Installed(r) = r
  <2>1. AddRouteError(plan \ {r}, Live(Host), r) = "nil"
           <=> (r.type # "throw" => r.link \in Live(Host)) /\ ~Slotted(r)
    BY DEF AddRouteError
  <2>2. CASE Slotted(r)
    BY <2>1, <2>2 DEF AddRoute
  <2>3. CASE ~Slotted(r)
    <3>1. AddRoute(plan \ {r}, r) = (plan \ {r}) \cup {Installed(r)}
      BY <2>3 DEF AddRoute
    <3> QED
      BY <2>1, <2>3, <3>1
  <2> QED
    BY <2>2, <2>3, <2>1
<1>2. StoredAsPlanned(plan) <=> \A r \in plan : Taken(r) /\ ~Slotted(r)
  BY <1>1 DEF StoredAsPlanned, Taken
<1>3. (\A r \in plan : Taken(r) /\ ~Slotted(r)) <=>
         /\ \A r \in plan : Taken(r)
         /\ \A q, r \in plan : SameSlot(q, r) => q = r
  BY DEF Taken
<1> QED
  BY <1>2, <1>3

(* The routes for a destination: whether the kernel takes them, that they  *)
(* never share a slot, and whether they leave that of a throw route free.  *)
LEMMA RoutesViaSettle ==
    ASSUME NEW proto \in Nat, NEW g \in Group, NEW h \in Hop, Sound(g, h),
           NEW p \in Prefix, p.fam \in FamsOf(g.family), NEW routes,
           routes = RoutesVia(proto, g, h, ResolveCandidates(h, g.family, Host),
                              Host.links[h.dev], p)
    PROVE  /\ routes \in SUBSET Route
           /\ \A r \in routes : r.type = "unicast" /\ r.dst = p /\ r.table = g.table
           /\ (\A r \in routes : Taken(r)) <=> Storable(g, h, p.fam)
           /\ \A q, r \in routes : q.metric = r.metric => q = r
           /\ (\A r \in routes : r.metric # 0) <=> Gatewayed(g, h, p.fam)
<1> DEFINE hops == ResolveCandidates(h, g.family, Host)
           M == {hop \in hops : hop.via.fam = p.fam}
           link == Host.links[h.dev]
           R(l, via, onlink, metric) ==
                [table |-> g.table, proto |-> proto, type |-> "unicast", link |-> l,
                 via |-> via, onlink |-> onlink, metric |-> metric, dst |-> p]
<1>1. h.dev \in Dev /\ link \in Nat /\ (link \in Live(Host) <=> h.dev # NoDev)
  <2>1. h.dev \in Dev
    BY DEF Hop
  <2> QED
    BY <2>1, HostAssumption DEF World, Live
<1>2. routes \in SUBSET Route
  <2>1. hops \in SUBSET ResolvedHop
    BY HostAssumption, SelectType DEF ResolveCandidates
  <2> HIDE DEF hops, link
  <2>2. RoutesVia(proto, g, h, hops, link, p) \subseteq RoutesOf(proto, g)
    BY <1>1, <2>1, RoutesViaOwned
  <2> QED
    BY <2>2 DEF hops, link, RoutesOf
<1>3. p.fam \in Fams
  BY DEF Prefix, RawPrefix
<1>4. /\ M # {} <=> Gatewayed(g, h, p.fam)
      /\ \A hop \in M : hop.metric # 0 /\ hop.link \in Live(Host)
      /\ \A x, y \in M : x.metric = y.metric => x = y
  <2>1. M = {hop \in ResolveCandidates(h, g.family, Host) : hop.via.fam = p.fam}
    OBVIOUS
  <2> HIDE DEF M
  <2> QED
    BY <1>3, <2>1, MatchingHops
<1>5. routes = IF M = {} THEN {R(link, NextHopVia(h, p), h.onlink, 0)}
               ELSE {R(hop.link, hop.via, hop.onlink, hop.metric) : hop \in M}
  BY DEF RoutesVia
<1>6. \A l, via, onlink, metric :
         /\ R(l, via, onlink, metric).metric = metric
         /\ R(l, via, onlink, metric).link = l
         /\ R(l, via, onlink, metric).type = "unicast"
         /\ R(l, via, onlink, metric).dst = p
         /\ R(l, via, onlink, metric).table = g.table
  OBVIOUS
<1> HIDE DEF R, M, link, hops
<1>7. \A r \in routes : r.type = "unicast" /\ r.dst = p /\ r.table = g.table
  BY <1>5, <1>6
<1>8. \A r \in routes : Taken(r) <=> (p.fam = 6 => r.metric # 0) /\ r.link \in Live(Host)
  BY <1>2, <1>7, InstalledAsPlanned DEF Taken
<1>9. CASE M = {}
  <2> DEFINE r == R(link, NextHopVia(h, p), h.onlink, 0)
  <2>1. routes = {r} /\ r.metric = 0 /\ r.link = link
    BY <1>5, <1>6, <1>9
  <2>2. Taken(r) <=> p.fam # 6 /\ h.dev # NoDev
    BY <1>1, <1>8, <2>1
  <2> HIDE DEF r
  <2>3. p.fam # 6 <=> p.fam = 4
    BY <1>3 DEF Fams
  <2> QED
    BY <1>2, <1>4, <1>7, <1>9, <2>1, <2>2, <2>3 DEF Storable
<1>10. CASE M # {}
  <2>1. routes = {R(hop.link, hop.via, hop.onlink, hop.metric) : hop \in M}
    BY <1>5, <1>10
  <2>2. \A r \in routes : r.metric # 0 /\ r.link \in Live(Host)
    BY <1>4, <1>6, <2>1
  <2>3. \A q, r \in routes : q.metric = r.metric => q = r
    BY <1>4, <1>6, <2>1
  <2> QED
    BY <1>2, <1>4, <1>7, <1>8, <1>10, <2>2, <2>3 DEF Storable
<1> QED
  BY <1>9, <1>10

(* Whether all the routes of a group are stored as planned.                *)
LEMMA GroupRoutesSettle ==
    ASSUME NEW proto \in Nat, NEW g \in Group, Sound(g, g.hop),
           g.default # NoHop => Sound(g, g.default),
           NEW list \in SUBSET Prefix, NEW prefixes,
           prefixes = RemovePrefixesCoveringAddrs(g, FilterFamily(list, g.family), Host),
           g.default = NoHop \/ prefixes \cap DefaultPrefixes(g.family) = {},
           NEW D, D = DesiredRoutes(proto, g, list, Resolve(g, Host), Host)
    PROVE  StoredAsPlanned(D) <=> RoutesStorable(g, prefixes)
<1> DEFINE res == Resolve(g, Host)
           Target(p)  == RoutesVia(proto, g, g.hop, res.hops, res.link, p)
           Default(p) == RoutesVia(proto, g, g.default, res.dhops, res.dlink, p)
           Throw(p) == ThrowRoute(proto, g, p)
           excluded == FilterFamily(MaskAll(g.excludePrefixes), g.family)
           ends == IF g.default = NoHop THEN {} ELSE DefaultPrefixes(g.family)
           targets  == UNION {Target(p) : p \in prefixes}
           throws   == {Throw(p) : p \in excluded}
           defaults == UNION {Default(p) : p \in ends}
<1>1. D = targets \cup throws \cup defaults
  <2> DEFINE all == UNION {Default(p) : p \in DefaultPrefixes(g.family)}
  <2>1. D = targets \cup throws \cup (IF g.default = NoHop THEN {} ELSE all)
    BY Zenon DEF DesiredRoutes
  <2>2. defaults = IF g.default = NoHop THEN {} ELSE all
    OBVIOUS
  <2> HIDE DEF targets, throws, defaults, all
  <2> QED
    BY <2>1, <2>2
<1>2. /\ g.hop \in Hop /\ g.default \in Hop /\ g.excludePrefixes \in SUBSET RawPrefix
      /\ res.hops = ResolveCandidates(g.hop, g.family, Host)
      /\ res.link = Host.links[g.hop.dev]
      /\ g.default # NoHop => res.dhops = ResolveCandidates(g.default, g.family, Host)
      /\ res.dlink = Host.links[g.default.dev]
  BY DEF Resolve, Group
<1>3. ASSUME NEW p \in prefixes
      PROVE  /\ Target(p) \in SUBSET Route
             /\ \A r \in Target(p) : r.type = "unicast" /\ r.dst = p /\ r.table = g.table
             /\ (\A r \in Target(p) : Taken(r)) <=> Storable(g, g.hop, p.fam)
             /\ \A q, r \in Target(p) : q.metric = r.metric => q = r
             /\ (\A r \in Target(p) : r.metric # 0) <=> Gatewayed(g, g.hop, p.fam)
  <2>1. p \in Prefix /\ p.fam \in FamsOf(g.family)
    BY DEF RemovePrefixesCoveringAddrs, FilterFamily
  <2> HIDE DEF res
  <2> QED
    BY <1>2, <2>1, RoutesViaSettle
<1>4. ASSUME NEW p \in ends
      PROVE  /\ Default(p) \in SUBSET Route
             /\ \A r \in Default(p) : r.type = "unicast" /\ r.dst = p /\ r.table = g.table
             /\ (\A r \in Default(p) : Taken(r)) <=> Storable(g, g.default, p.fam)
             /\ \A q, r \in Default(p) : q.metric = r.metric => q = r
             /\ (\A r \in Default(p) : r.metric # 0) <=> Gatewayed(g, g.default, p.fam)
  <2>1. p \in Prefix /\ p.fam \in FamsOf(g.family) /\ g.default # NoHop
    BY <1>4, ZerosType, FamsOfType DEF DefaultPrefixes
  <2> HIDE DEF res, ends
  <2> QED
    BY <1>2, <2>1, RoutesViaSettle
<1>5. ASSUME NEW p \in excluded
      PROVE  /\ Throw(p) \in Route /\ Throw(p).type = "throw" /\ Throw(p).dst = p
             /\ Throw(p).metric = 0 /\ Throw(p).table = g.table
             /\ Taken(Throw(p)) <=> p.fam = 4
  <2> DEFINE r == Throw(p)
  <2>1. p \in Prefix
    BY <1>2, MaskAllType DEF FilterFamily
  <2>2. /\ r \in Route /\ r.type = "throw" /\ r.dst = p /\ r.metric = 0 /\ r.table = g.table
        /\ r.link = 0 /\ r.via = NoAddr /\ r.onlink = FALSE
    BY <2>1 DEF ThrowRoute, Route, RouteTypes, Group
  <2> HIDE DEF r
  <2>3. Installed(r) = r <=> (r.dst.fam = 6 => r.metric # 0 /\ r.type # "throw")
    BY <2>2, InstalledAsPlanned
  <2>4. p.fam # 6 <=> p.fam = 4
    BY <2>1 DEF Prefix, RawPrefix, Fams
  <2>5. Taken(r) <=> p.fam = 4
    BY <2>2, <2>3, <2>4 DEF Taken
  <2> QED
    BY <2>2, <2>5 DEF r
<1>6. RoutesStorable(g, prefixes) <=>
         /\ \A p \in prefixes : Storable(g, g.hop, p.fam)
         /\ \A p \in ends : Storable(g, g.default, p.fam)
         /\ \A p \in excluded : /\ p.fam = 4
                                /\ p \in prefixes => Gatewayed(g, g.hop, 4)
                                /\ p \in ends => Gatewayed(g, g.default, 4)
  <2>1. (\A fam \in FamsOf(g.family) : Storable(g, g.default, fam))
           <=> \A p \in DefaultPrefixes(g.family) : Storable(g, g.default, p.fam)
    <3>1. \A p \in DefaultPrefixes(g.family) : p.fam \in FamsOf(g.family)
      BY DEF DefaultPrefixes
    <3>2. \A fam \in FamsOf(g.family) : \E p \in DefaultPrefixes(g.family) : p.fam = fam
      <4> SUFFICES ASSUME NEW fam \in FamsOf(g.family)
                   PROVE  \E p \in DefaultPrefixes(g.family) : p.fam = fam
        OBVIOUS
      <4>1. [fam |-> fam, n |-> Zeros, bits |-> 0] \in DefaultPrefixes(g.family)
        BY DEF DefaultPrefixes
      <4> QED
        BY <4>1
    <3> QED
      BY <3>1, <3>2
  <2>2. (g.default # NoHop => \A fam \in FamsOf(g.family) : Storable(g, g.default, fam))
           <=> \A p \in ends : Storable(g, g.default, p.fam)
    BY <2>1
  <2>3. \A p : p \in ends <=> g.default # NoHop /\ p \in DefaultPrefixes(g.family)
    OBVIOUS
  <2> HIDE DEF ends, excluded
  <2>4. RoutesStorable(g, prefixes) <=>
           /\ \A p \in prefixes : Storable(g, g.hop, p.fam)
           /\ g.default # NoHop => \A fam \in FamsOf(g.family) : Storable(g, g.default, fam)
           /\ \A p \in excluded :
                 /\ p.fam = 4
                 /\ p \in prefixes => Gatewayed(g, g.hop, 4)
                 /\ g.default # NoHop /\ p \in DefaultPrefixes(g.family) => Gatewayed(g, g.default, 4)
    BY Zenon DEF RoutesStorable, excluded
  <2>5. \A p \in excluded :
           (p \in ends => Gatewayed(g, g.default, 4))
             <=> (g.default # NoHop /\ p \in DefaultPrefixes(g.family)
                     => Gatewayed(g, g.default, 4))
    BY <2>3, Zenon
  <2> QED
    BY <2>2, <2>4, <2>5, Zenon
<1>7. prefixes \cap ends = {}
  OBVIOUS
<1> HIDE DEF res, Target, Default, Throw, excluded, ends
<1>8. D \in SUBSET Route
  BY <1>1, <1>3, <1>4, <1>5
<1>9. /\ \A p \in prefixes : \A r \in Target(p) : r \in D
      /\ \A p \in ends : \A r \in Default(p) : r \in D
      /\ \A p \in excluded : Throw(p) \in D
      /\ \A r \in D : \/ \E p \in prefixes : r \in Target(p)
                      \/ \E p \in ends : r \in Default(p)
                      \/ \E p \in excluded : r = Throw(p)
  BY <1>1
<1> HIDE DEF targets, throws, defaults
<1>10. (\A r \in D : Taken(r)) <=>
          /\ \A p \in prefixes : Storable(g, g.hop, p.fam)
          /\ \A p \in ends : Storable(g, g.default, p.fam)
          /\ \A p \in excluded : p.fam = 4
  <2>1. (\A p \in prefixes : \A r \in Target(p) : Taken(r))
           <=> \A p \in prefixes : Storable(g, g.hop, p.fam)
    BY <1>3
  <2>2. (\A p \in ends : \A r \in Default(p) : Taken(r))
           <=> \A p \in ends : Storable(g, g.default, p.fam)
    BY <1>4
  <2>3. (\A p \in excluded : Taken(Throw(p))) <=> \A p \in excluded : p.fam = 4
    BY <1>5
  <2>4. (\A r \in D : Taken(r)) <=>
           /\ \A p \in prefixes : \A r \in Target(p) : Taken(r)
           /\ \A p \in ends : \A r \in Default(p) : Taken(r)
           /\ \A p \in excluded : Taken(Throw(p))
    BY <1>9
  <2> QED
    BY <2>1, <2>2, <2>3, <2>4
<1>11. ASSUME \A p \in excluded : p.fam = 4
       PROVE  (\A q, r \in D : SameSlot(q, r) => q = r) <=>
                 \A p \in excluded : /\ p \in prefixes => Gatewayed(g, g.hop, 4)
                                     /\ p \in ends => Gatewayed(g, g.default, 4)
  <2>1. ASSUME \A q, r \in D : SameSlot(q, r) => q = r, NEW p \in excluded
        PROVE  /\ p \in prefixes => Gatewayed(g, g.hop, 4)
               /\ p \in ends => Gatewayed(g, g.default, 4)
    <3>1. ASSUME NEW r \in D, r.type = "unicast", r.dst = p, r.table = g.table
          PROVE  r.metric # 0
      <4>1. Throw(p) \in D /\ Throw(p) # r
        BY <1>5, <1>9, <3>1
      <4>2. ~SameSlot(r, Throw(p))
        BY <2>1, <4>1
      <4> QED
        BY <1>5, <3>1, <4>2 DEF SameSlot
    <3>2. p.fam = 4
      BY <1>11
    <3>3. ASSUME p \in prefixes PROVE Gatewayed(g, g.hop, 4)
      <4>1. \A r \in Target(p) : r.metric # 0
        BY <1>3, <1>9, <3>1, <3>3
      <4> QED
        BY <1>3, <3>2, <3>3, <4>1
    <3>4. ASSUME p \in ends PROVE Gatewayed(g, g.default, 4)
      <4>1. \A r \in Default(p) : r.metric # 0
        BY <1>4, <1>9, <3>1, <3>4
      <4> QED
        BY <1>4, <3>2, <3>4, <4>1
    <3> QED
      BY <3>3, <3>4
  <2>2. ASSUME \A p \in excluded : /\ p \in prefixes => Gatewayed(g, g.hop, 4)
                                   /\ p \in ends => Gatewayed(g, g.default, 4),
               NEW q \in D, NEW r \in D, SameSlot(q, r)
        PROVE  q = r
    <3> DEFINE p == r.dst
               At(x) == \/ p \in prefixes /\ x \in Target(p)
                        \/ p \in ends /\ x \in Default(p)
                        \/ p \in excluded /\ x = Throw(p)
    <3>1. q.dst = p /\ q.metric = r.metric
      BY <2>2 DEF SameSlot
    <3>2. ASSUME NEW x \in D, x.dst = p PROVE At(x)
      <4>1. CASE \E d \in prefixes : x \in Target(d)
        BY <1>3, <3>2, <4>1
      <4>2. CASE \E d \in ends : x \in Default(d)
        BY <1>4, <3>2, <4>2
      <4>3. CASE \E d \in excluded : x = Throw(d)
        BY <1>5, <3>2, <4>3
      <4> QED
        BY <1>9, <4>1, <4>2, <4>3
    <3>3. At(q) /\ At(r)
      BY <3>1, <3>2
    <3> HIDE DEF p
    <3>4. ASSUME NEW x, NEW y, x.metric = y.metric, p \in excluded, y = Throw(p),
                 (p \in prefixes /\ x \in Target(p)) \/ (p \in ends /\ x \in Default(p))
          PROVE  FALSE
      <4>1. y.metric = 0 /\ p.fam = 4
        BY <1>5, <1>11, <3>4
      <4>2. CASE p \in prefixes /\ x \in Target(p)
        <5> Gatewayed(g, g.hop, 4)
          BY <2>2, <3>4, <4>2, Zenon
        <5>1. Gatewayed(g, g.hop, p.fam)
          BY <4>1, Zenon
        <5>2. \A z \in Target(p) : z.metric # 0
          BY <1>3, <4>2, <5>1
        <5> QED
          BY <3>4, <4>1, <4>2, <5>2
      <4>3. CASE p \in ends /\ x \in Default(p)
        <5> Gatewayed(g, g.default, 4)
          BY <2>2, <3>4, <4>3, Zenon
        <5>1. Gatewayed(g, g.default, p.fam)
          BY <4>1, Zenon
        <5>2. \A z \in Default(p) : z.metric # 0
          BY <1>4, <4>3, <5>1
        <5> QED
          BY <3>4, <4>1, <4>3, <5>2
      <4> QED
        BY <3>4, <4>2, <4>3
    <3>5. CASE p \in prefixes /\ q \in Target(p) /\ r \in Target(p)
      BY <1>3, <3>1, <3>5
    <3>6. CASE p \in ends /\ q \in Default(p) /\ r \in Default(p)
      BY <1>4, <3>1, <3>6
    <3>7. p \notin prefixes \/ p \notin ends
      BY <1>7
    <3>8. CASE p \in excluded /\ q = Throw(p)
      <4>1. ~(p \in prefixes /\ r \in Target(p)) /\ ~(p \in ends /\ r \in Default(p))
        BY <3>1, <3>4, <3>8, Zenon
      <4> QED
        BY <3>3, <3>8, <4>1, Zenon
    <3>9. CASE p \in excluded /\ r = Throw(p)
      <4>1. ~(p \in prefixes /\ q \in Target(p)) /\ ~(p \in ends /\ q \in Default(p))
        BY <3>1, <3>4, <3>9, Zenon
      <4> QED
        BY <3>3, <3>9, <4>1, Zenon
    <3> QED
      BY <3>3, <3>5, <3>6, <3>7, <3>8, <3>9, Zenon
  <2> QED
    BY <2>1, <2>2
<1>12. StoredAsPlanned(D) <=>
          /\ \A r \in D : Taken(r)
          /\ \A q, r \in D : SameSlot(q, r) => q = r
  BY <1>8, StoredRouteByRoute
<1>13. CASE \A p \in excluded : p.fam = 4
  BY <1>6, <1>10, <1>11, <1>12, <1>13
<1>14. CASE ~ \A p \in excluded : p.fam = 4
  <2>1. ~ \A r \in D : Taken(r)
    BY <1>10, <1>14, Zenon
  <2>2. ~ RoutesStorable(g, prefixes)
    BY <1>6, <1>14, Zenon
  <2> QED
    BY <1>12, <2>1, <2>2, Zenon
<1> QED
  BY <1>13, <1>14

(* Of the groups of every file that is accepted, exactly those come to     *)
(* rest, for every list, that RoutesStorable describes: see RoutesSettle.  *)
THEOREM RoutesAlwaysSettle == Spec => []RoutesSettle
<1>1. ASSUME Inputs PROVE RoutesSettle
  <2> SUFFICES ASSUME NEW g \in AcceptedGroups, NEW list \in Fetched, NEW prefixes,
                      prefixes = RemovePrefixesCoveringAddrs(g, FilterFamily(list, g.family), Host),
                      g.default = NoHop \/ prefixes \cap DefaultPrefixes(g.family) = {}
               PROVE  StoredAsPlanned(DesiredRoutes(EffectiveConfig.proto, g, list,
                                                    Resolve(g, Host), Host))
                      <=> RoutesStorable(g, prefixes)
    BY DEF RoutesSettle
  <2>1. g \in Group /\ EffectiveConfig \in Config
    BY <1>1, GroupOrigin
  <2>2. EffectiveConfig.proto \in Nat /\ list \in SUBSET Prefix
    BY <2>1, FetchedAssumption DEF Config
  <2>3. \A h \in HopsOf(g) : Sound(g, h)
    BY <1>1, SoundCandidates DEF CandidatesSound, Sound
  <2>4. Sound(g, g.hop) /\ (g.default # NoHop => Sound(g, g.default))
    BY <2>3 DEF HopsOf
  <2> QED
    BY <2>1, <2>2, <2>4, GroupRoutesSettle
<1> QED
  BY <1>1, InputsInvariance, PTL
=============================================================================
