------------------------------ MODULE Validation ------------------------------
(***************************************************************************)
(* What it takes for a configuration to be accepted, and what that is      *)
(* worth to the plans built from it: an operator edits the file, one       *)
(* setting at a time, and loadConfig is asked after every edit.            *)
(***************************************************************************)
EXTENDS Config

CONSTANTS
    FirstFiles,   \* the files the operator starts from
    Variants(_),  \* the files one edit may turn a file into
    Flags,        \* the command lines in use
    MaxEdits,     \* how many settings differ from the first file
    Host,         \* what the host answers, for the routes of a plan
    Fetched       \* the lists, normalized, that a plan may be built from

ASSUME MaxEditsAssumption == MaxEdits \in Nat
ASSUME InputsAssumption ==
    FirstFiles \subseteq ConfigFile /\ Flags \subseteq Options /\ RUName \in Names
ASSUME FetchedAssumption == Fetched \subseteq SUBSET Prefix
(* Every device that a file may name is there.                             *)
ASSUME HostAssumption ==
    Host \in World /\ \A d \in Dev : Host.links[d] = 0 <=> d = NoDev

VARIABLES file, opts, edits

Init == file \in FirstFiles /\ opts \in Flags /\ edits = 0

Edit ==
    /\ edits < MaxEdits
    /\ edits' = edits + 1
    /\ file' \in Variants(file) /\ file' \in ConfigFile   \* what decoding may deliver
    /\ UNCHANGED opts

Next == Edit

Spec == Init /\ [][Next]_<<file, opts, edits>>

-----------------------------------------------------------------------------
Accepted == Loads(opts, file)

EffectiveConfig == Effective(LoadConfig(opts, file))

AcceptedGroups ==
    IF Accepted THEN {EffectiveConfig.groups[i] : i \in DOMAIN EffectiveConfig.groups}
    ELSE {}

(* validateNextHop merges a gateway with its parent in one way and         *)
(* candidatesFromGateway, much later, in another.  Every candidate of an   *)
(* accepted group has a device to look up and valid targets to ping, so    *)
(* that nothing but the host can make its evaluation fail.                 *)
CandidatesSound ==
    \A g \in AcceptedGroups : \A h \in HopsOf(g) : \A fam \in HopFams(g.family) :
        \A i \in Candidates(h, fam) :
            /\ Gateways(h)[i].dev # NoDev
            /\ Gateways(h)[i].targets \subseteq Addr
            /\ CandidateVia(Gateways(h)[i], fam) \in Addr

(* No gateway of an accepted dual group is silently dropped: each is a     *)
(* candidate in at least one family (an ambiguous "via" is refused).       *)
DualGatewaysCount ==
    \A g \in AcceptedGroups : g.family = "dual" =>
        \A h \in HopsOf(g) : \A i \in DOMAIN h.gateways :
            \E fam \in HopFams(g.family) : i \in Candidates(h, fam)

(* A rule that is listed as it was planned.                                *)
RuleListedAsPlanned(c, g) ==
    /\ g.rule.prio >= c.base /\ g.rule.prio < c.base + 1000 * c.step
    /\ g.rule.mask = 0 => g.rule.mark = 0
    /\ IF g.rule.from = NoPrefix THEN g.family # "ipv6"
       ELSE g.rule.from.fam \in FamsOf(g.family)
            /\ g.rule.from.bits > 0 /\ Masked(g.rule.from) = g.rule.from

(* Which accepted rules settle: once installed, the rule is found again by *)
(* CurrentOwned and equals the planned one exactly when its priority is in *)
(* the band, no mark stands beside the mask 0 and the source is masked, of *)
(* positive length and of a family the group manages.  Every other rule is *)
(* planned anew in every run.                                              *)
RuleSettles ==
    \A g \in AcceptedGroups : \A r \in DesiredRules(g) :
        OwnedRules(<<RuleRequest(r)>>, EffectiveConfig, g) = {r}
            <=> RuleListedAsPlanned(EffectiveConfig, g)

(* The kernel may come to hold the plan: whichever of its routes is added  *)
(* last, the kernel takes it and holds the routes of the plan then, as     *)
(* they were planned.                                                      *)
StoredAsPlanned(plan) ==
    \A r \in plan :
        /\ AddRouteError(plan \ {r}, Live(Host), r) = "nil"
        /\ AddRoute(plan \ {r}, r) = plan

(* Next hop h has gateways for the family, or its device alone will do.    *)
Gatewayed(g, h, fam) == fam \in HopFams(g.family) /\ Candidates(h, fam) # {}

Storable(g, h, fam) == Gatewayed(g, h, fam) \/ (fam = 4 /\ h.dev # NoDev)

(* A plan for the given prefixes without a route that the kernel refuses,  *)
(* stores otherwise or has no room for.                                    *)
RoutesStorable(g, prefixes) ==
    /\ \A p \in prefixes : Storable(g, g.hop, p.fam)
    /\ g.default # NoHop => \A fam \in FamsOf(g.family) : Storable(g, g.default, fam)
    /\ \A p \in FilterFamily(MaskAll(g.excludePrefixes), g.family) :
        /\ p.fam = 4
        /\ p \in prefixes => Gatewayed(g, g.hop, 4)
        /\ g.default # NoHop /\ p \in DefaultPrefixes(g.family) => Gatewayed(g, g.default, 4)

(* Which accepted groups come to rest in the kernel: those whose every     *)
(* prefix, the default's included, has a gateway of its family or, in      *)
(* IPv4, at least a device, that exclude no IPv6 prefix, and that exclude  *)
(* no prefix they also route without gateways, since a throw route takes   *)
(* the same slot.  Every other plan has a route that the kernel refuses    *)
(* (no device), stores with another metric or device, or has no room for,  *)
(* in every run again.  A list with 0.0.0.0/0 or ::/0 beside a default of  *)
(* the group's own is left out: their gateways clash by metric.            *)
RoutesSettle ==
    \A g \in AcceptedGroups : \A list \in Fetched :
        LET prefixes == RemovePrefixesCoveringAddrs(g, FilterFamily(list, g.family), Host)
            plan     == DesiredRoutes(EffectiveConfig.proto, g, list, Resolve(g, Host), Host)
        IN  g.default = NoHop \/ prefixes \cap DefaultPrefixes(g.family) = {} =>
                (StoredAsPlanned(plan) <=> RoutesStorable(g, prefixes))
=============================================================================
