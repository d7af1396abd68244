------------------------------- MODULE Planner -------------------------------
(***************************************************************************)
(* internal/planner, the inputs internal/app prepares for it, and the      *)
(* listing half of internal/reconcile: what one route group should own in  *)
(* the kernel, what it owns now, and the calls that lead from one to the   *)
(* other.                                                                  *)
(*                                                                         *)
(* A plan is a sequence of batches.  A batch is the set of calls of one    *)
(* range statement: where the slice ranged over was filled from a Go map   *)
(* its order is arbitrary.                                                 *)
(***************************************************************************)
EXTENDS Health, Source

CONSTANTS
    Names,       \* route group names
    NonPrivate   \* the addresses that pass localNonPrivatePrefixes' filter

(* config.RuleConfig and config.RouteGroup (an enabled one, validated).    *)
RuleConfig == [enabled : BOOLEAN, prio : Nat, mark : Nat, mask : Nat,
               from : RawPrefix \cup {NoPrefix}]

Group == [name : Names, table : Nat, family : Families, hop : Hop,
          default : Hop, excludePrefixes : SUBSET RawPrefix,
          excludeLocalIPs : BOOLEAN, rule : RuleConfig]

(* config.Config: the global settings a plan depends on, and Groups().     *)
Config == [proto : Nat, base : Nat, step : Nat, aggregate : BOOLEAN,
           groups : Seq(Group)]

(* What the host answers while a plan is built: Health's part, the result  *)
(* of each group's Fetch, and the addresses of the interfaces.             *)
World == [links : [Dev -> Nat], reach : SUBSET (Dev \X Addr),
          local : SUBSET RawPrefix,
          source : [Names -> [ok : BOOLEAN, prefixes : SUBSET RawPrefix]]]

(* The indexes of the devices there are.                                   *)
Live(w) == {w.links[d] : d \in Dev} \ {0}

-----------------------------------------------------------------------------
(* What a group should own *)

(* localNonPrivatePrefixes, then prefixAddrs: the address tested and kept  *)
(* is the interface's address after addrPrefix has masked it.              *)
LocalAddrs(w) == {a \in {[fam |-> p.fam, n |-> Masked(p).n] : p \in w.local} : a \in NonPrivate}

(* exclusionInputs, then removePrefixesCoveringAddrs.                      *)
RemovePrefixesCoveringAddrs(g, prefixes, w) ==
    IF g.excludeLocalIPs
    THEN {p \in prefixes : ~ \E a \in LocalAddrs(w) : Covers(p, a)}
    ELSE prefixes

(* nextHopVia: the address for p when no candidate of its family exists.   *)
NextHopVia(h, p) ==
    LET specific == IF p.fam = 4 THEN h.via4 ELSE h.via6
    IN  IF specific # NoAddr THEN specific
        ELSE IF h.via.fam = p.fam THEN h.via ELSE NoAddr

RoutesViaNoMetric(proto, g, h, hops, link, p) ==   \* mutant: gateways without metric
    {[table |-> g.table, proto |-> proto, type |-> "unicast", link |-> hop.link,
      via |-> hop.via, onlink |-> hop.onlink, metric |-> 0, dst |-> p] :
        hop \in {o \in hops : o.via.fam = p.fam}}

(* The routes for destination p through next hop h: one per resolved hop   *)
(* of its family (matchingHops), else one without metric.                  *)
RoutesVia(proto, g, h, hops, link, p) ==
    LET matching == {hop \in hops : hop.via.fam = p.fam}
        R(l, via, onlink, metric) ==
            [table |-> g.table, proto |-> proto, type |-> "unicast", link |-> l,
             via |-> via, onlink |-> onlink, metric |-> metric, dst |-> p]
    IN  IF matching = {} THEN {R(link, NextHopVia(h, p), h.onlink, 0)}
        ELSE {R(hop.link, hop.via, hop.onlink, hop.metric) : hop \in matching}

ThrowRoute(proto, g, p) ==
    [table |-> g.table, proto |-> proto, type |-> "throw", link |-> 0,
     via |-> NoAddr, onlink |-> FALSE, metric |-> 0, dst |-> p]

DefaultPrefixes(family) == {[fam |-> fam, n |-> Zeros, bits |-> 0] : fam \in FamsOf(family)}

(* What BuildPlan resolves for a group: device indexes and hops.           *)
Resolved == [link : Nat, dlink : Nat, hops : SUBSET ResolvedHop,
             dhops : SUBSET ResolvedHop]

Resolve(g, w) ==
    [link  |-> w.links[g.hop.dev],
     dlink |-> w.links[g.default.dev],
     hops  |-> ResolveCandidates(g.hop, g.family, w),
     dhops |-> IF g.default = NoHop THEN {}
               ELSE ResolveCandidates(g.default, g.family, w)]

(* target, and target.default if there is one.                             *)
HopsOf(g) == {g.hop} \cup ({g.default} \ {NoHop})

LinkMissing(g, w) ==
    \E h \in HopsOf(g) : \/ h.dev # NoDev /\ w.links[h.dev] = 0
                        \/ CandidateLinkMissing(h, g.family, w)

(* Build's prefixes, then desiredRoutes.                                   *)
DesiredRoutes(proto, g, fetched, res, w) ==
    LET prefixes == RemovePrefixesCoveringAddrs(g, FilterFamily(fetched, g.family), w)
        targets  == UNION {RoutesVia(proto, g, g.hop, res.hops, res.link, p) : p \in prefixes}
        throws   == {ThrowRoute(proto, g, p) :
                        p \in FilterFamily(MaskAll(g.excludePrefixes), g.family)}
        defaults == UNION {RoutesVia(proto, g, g.default, res.dhops, res.dlink, p) :
                              p \in DefaultPrefixes(g.family)}
    IN  targets \cup throws \cup (IF g.default = NoHop THEN {} ELSE defaults)

DesiredRules(g) ==
    IF ~g.rule.enabled THEN {}
    ELSE {[prio |-> g.rule.prio, table |-> g.table, hasMark |-> g.rule.mask # 0,
           mark |-> g.rule.mark, mask |-> g.rule.mask, from |-> g.rule.from]}

-----------------------------------------------------------------------------
(* What a group owns *)

(* routes.CurrentOwned *)
OwnedRoutes(fib, c, g) ==
    UNION {ListRoutes(fib, g.table, fam, c.proto) : fam \in FamsOf(g.family)}

IsRuleOfTable(k, c, g) ==   \* mutant: any priority in the band
    /\ k.fam \in FamsOf(g.family)
    /\ k.table = g.table
    /\ k.prio >= c.base
    /\ k.prio < c.base + c.step * 1000

IsOwnedRuleClosedBand(k, c, g) ==   \* mutant: the end of the band is included
    /\ k.fam \in FamsOf(g.family)
    /\ k.table = g.table
    /\ k.prio = g.rule.prio
    /\ k.prio >= c.base
    /\ k.prio <= c.base + c.step * 1000

(* rules.CurrentOwned: the filter, and the rules it lets through.          *)
IsOwnedRule(k, c, g) ==
    /\ k.fam \in FamsOf(g.family)
    /\ k.table = g.table
    /\ k.prio = g.rule.prio
    /\ k.prio >= c.base
    /\ k.prio < c.base + c.step * 1000

OwnedRules(rules, c, g) ==
    {Reported(k) : k \in {q \in ToSet(rules) : IsOwnedRule(q, c, g)}}

-----------------------------------------------------------------------------
(* The calls of a plan *)

Batch == [op : {"AddRoute", "DeleteRoute"}, args : SUBSET Route]
           \cup [op : {"AddRule", "DeleteRule"}, args : SUBSET Rule]

Call(op, args) == [op |-> op, args |-> args]

NoConflictingRouteRemovals(add, remove) == {}   \* mutant: no removal before the adds

(* conflictingRouteRemovals: routeIdentity is the destination alone.       *)
ConflictingRouteRemovals(add, remove) == {r \in remove : \E a \in add : a.dst = r.dst}

RuleCallsRenewAll(want, have) ==   \* mutant: removes what has not changed
    <<Call("AddRule", want \ have), Call("DeleteRule", have)>>

(* diffRules and one round of rules.Apply.                                 *)
RuleCalls(want, have) ==
    <<Call("AddRule", want \ have), Call("DeleteRule", have \ want)>>

ReplaceAllOf(want, have) ==   \* mutant: replaces what has not changed
    <<Call("DeleteRoute", {r \in have : \E a \in want : a.dst = r.dst}),
      Call("AddRoute", want)>>

ReplaceAddsFirst(want, have) ==   \* mutant: adds before the slot is free
    <<Call("AddRoute", want \ have),
      Call("DeleteRoute", ConflictingRouteRemovals(want \ have, have \ want))>>

(* diffRoutes and one group's share of the two loops of routes.Apply.      *)
Replace(want, have) ==
    <<Call("DeleteRoute", ConflictingRouteRemovals(want \ have, have \ want)),
      Call("AddRoute", want \ have)>>

RetireNothing(want, have) == <<Call("DeleteRoute", {})>>   \* mutant

Retire(want, have) ==
    <<Call("DeleteRoute",
           (have \ want) \ ConflictingRouteRemovals(want \ have, have \ want))>>

CleanupDesiredRule(rules, c, g) == <<Call("DeleteRule", DesiredRules(g))>>
    \* mutant: removes the configured rule, not the listed ones

CleanupRulesAnyOrder(rules, c, g) ==   \* mutant: not in the order of the listing
    <<Call("DeleteRule",
           {Reported(k) : k \in {x \in ToSet(rules) : g.rule.enabled /\ IsOwnedRule(x, c, g)}})>>

(* BuildCleanupPlan removes the listed rules of a group one by one, IPv4   *)
(* first, each family in the kernel's order.                               *)
CleanupRuleCalls(rules, c, g) ==
    LET Listed(fam) ==
            [i \in DOMAIN rules |->
                Call("DeleteRule",
                     IF g.rule.enabled /\ rules[i].fam = fam /\ IsOwnedRule(rules[i], c, g)
                     THEN {Reported(rules[i])} ELSE {})]
    IN  Listed(4) \o Listed(6)
=============================================================================
