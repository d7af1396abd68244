--------------------------- MODULE ReconcileProofs ---------------------------
(***************************************************************************)
(* What route-sync promises, for any number of processes, groups,          *)
(* configurations, worlds, devices, addresses and faults and any address   *)
(* width.  First type correctness, and that what it does not own is never  *)
(* touched.                                                                *)
(*                                                                         *)
(* The type invariant is not inductive: the group a process has come to    *)
(* must exist (ControlInv), and the deletions in a plan must be known to   *)
(* concern only what is owned (DataInv), because they are carried out long *)
(* after the listing they were computed from.                              *)
(*                                                                         *)
(* Then what a run leaves behind: an undisturbed reconcile that reports    *)
(* success has converged (ReconcileConverges), on its way takes away       *)
(* nothing it wants (WantedIsKept), leaves an address without a route only *)
(* while it replaces one (CoverageIsKept) and leaves a group without a     *)
(* list as it is (OutageIsHarmless); an undisturbed cleanup that reports   *)
(* success has removed everything (CleanupCleans), and so has a disturbed  *)
(* one where there is no other process (LoneCleanupCleans); and without    *)
(* faults a run fails only for want of a device (NobodyElseToBlame).       *)
(***************************************************************************)
EXTENDS Reconcile, PlannerProofs

OurRoutes == {r \in Route : ~ForeignRoute(r)}
OurRules  == {r \in Rule : ~ForeignRule(r)}

OurBatch == [op : {"AddRoute", "DeleteRoute"}, args : SUBSET OurRoutes]
              \cup [op : {"AddRule", "DeleteRule"}, args : SUBSET OurRules]
OurPlan  == [rules : Seq(OurBatch), pass1 : Seq(OurBatch), pass2 : Seq(OurBatch)]
OurDraft == [prefixes : SUBSET Prefix, res : Resolved, routes : SUBSET OurRoutes]

HostInv ==
    /\ fib \subseteq Route
    /\ rules \in Seq(KernelRule)
    /\ store \in [Names -> State]
    /\ world \in Worlds
    /\ faults \in 0 .. MaxFaults
    /\ calm \in [Procs -> BOOLEAN]

(* A process between runs starts with the first group; one that plans has  *)
(* come to a group there is.                                               *)
ControlInv ==
    /\ pc \in [Procs -> PlanningLabels \cup {"idle", "planned", "apply"}]
    /\ kind \in [Procs -> Kinds]
    /\ cfg \in [Procs -> Configs]
    /\ at \in [Procs -> Nat \ {0}]
    /\ result \in [Procs -> {"none", "ok", "failed"}]
    /\ \A p \in Procs : pc[p] = "idle" => at[p] = 1
    /\ \A p \in Procs : pc[p] \in PlanningLabels => at[p] =< Len(cfg[p].groups)

(* What a process has listed and planned is owned by some group.           *)
DataInv ==
    /\ draft \in [Procs -> OurDraft]
    /\ plan \in [Procs -> OurPlan]
    /\ calls \in [Procs -> Seq(OurBatch)]
    /\ want \in [Procs -> Want]

IInv == HostInv /\ ControlInv /\ DataInv

-----------------------------------------------------------------------------
(* Sequences over a smaller set are sequences over a larger one.           *)
LEMMA SeqMonotone ==
    ASSUME NEW S, NEW T, S \subseteq T, NEW s \in Seq(S)
    PROVE  s \in Seq(T)
OBVIOUS

(* Plans and drafts about owned entries are plans and drafts.              *)
LEMMA OursAreOurs ==
    /\ OurRoutes \subseteq Route
    /\ OurRules \subseteq Rule
    /\ OurBatch \subseteq Batch
    /\ OurPlan \subseteq Plan
    /\ OurDraft \subseteq Draft
<1>1. OurRoutes \subseteq Route /\ OurRules \subseteq Rule
  BY DEF OurRoutes, OurRules
<1>2. OurBatch \subseteq Batch
  BY <1>1 DEF OurBatch, Batch
<1>3. Seq(OurBatch) \subseteq Seq(Batch)
  BY <1>2, SeqMonotone
<1>4. OurPlan \subseteq Plan
  BY <1>3 DEF OurPlan, Plan
<1>5. OurDraft \subseteq Draft
  BY <1>1 DEF OurDraft, Draft
<1> QED
  BY <1>1, <1>2, <1>4, <1>5

(* The inductive invariant implies the type invariant.                     *)
LEMMA IInvTypeOK == IInv => TypeOK
<1> SUFFICES ASSUME IInv PROVE TypeOK
  OBVIOUS
<1>1. draft \in [Procs -> Draft] /\ plan \in [Procs -> Plan]
  BY OursAreOurs DEF IInv, DataInv
<1>2. Seq(OurBatch) \subseteq Seq(Batch)
  BY OursAreOurs, SeqMonotone
<1>3. calls \in [Procs -> Seq(Batch)]
  BY <1>2 DEF IInv, DataInv
<1> QED
  BY <1>1, <1>3 DEF IInv, HostInv, ControlInv, DataInv, TypeOK

(* The empty values are values of their types.                             *)
LEMMA Empties ==
    /\ NoState \in State
    /\ NoDraft \in OurDraft
    /\ NoPlan \in OurPlan
    /\ <<>> \in Seq(OurBatch)
    /\ NoWant \in Want
<1>1. NoResolved \in Resolved
  BY DEF NoResolved, Resolved
<1>2. <<>> \in Seq(OurBatch)
  OBVIOUS
<1> QED
  BY <1>1, <1>2 DEF NoState, State, NoDraft, OurDraft, NoPlan, OurPlan, NoWant, Want

(* A configured group, and what its routes and rules are.                  *)
LEMMA GroupFacts ==
    ASSUME NEW c \in Configs, NEW i \in Nat \ {0}, i =< Len(c.groups)
    PROVE  /\ c \in Config
           /\ c.proto \in Nat
           /\ c.groups[i] \in Group
           /\ c.groups[i] \in GroupsOf(c)
           /\ RoutesOf(c.proto, c.groups[i]) \subseteq OurRoutes
           /\ RulesOf(c.groups[i]) \subseteq OurRules
<1>1. c \in Config /\ c.proto \in Nat /\ c.groups \in Seq(Group)
  BY ConfigsAssumption DEF Config
<1>2. i \in DOMAIN c.groups
  BY <1>1
<1>3. c.groups[i] \in Group /\ c.groups[i] \in GroupsOf(c)
  BY <1>1, <1>2 DEF GroupsOf
<1>4. RoutesOf(c.proto, c.groups[i]) \subseteq OurRoutes
  BY <1>3 DEF RoutesOf, OurRoutes, ForeignRoute
<1>5. RulesOf(c.groups[i]) \subseteq OurRules
  BY <1>3 DEF RulesOf, OurRules, ForeignRule
<1> QED
  BY <1>1, <1>3, <1>4, <1>5

-----------------------------------------------------------------------------
(* The inductive invariant holds before any process has run.               *)
LEMMA InitIInv == Init => IInv
<1> SUFFICES ASSUME Init PROVE IInv
  OBVIOUS
<1>1. HostInv
  BY Empties, ForeignAssumption, MaxFaultsAssumption DEF Init, HostInv
<1>2. (CHOOSE k \in Kinds : TRUE) \in Kinds
  BY KindsAssumption
<1>3. (CHOOSE c \in Configs : TRUE) \in Configs
  BY ConfigsAssumption
<1>4. ControlInv
  BY <1>2, <1>3 DEF Init, ControlInv, PlanningLabels
<1>5. DataInv
  BY Empties DEF Init, DataInv
<1> QED
  BY <1>1, <1>4, <1>5 DEF IInv

(* The end of a run keeps the invariant's control and data parts.          *)
LEMMA EndKeeps ==
    ASSUME IInv, NEW p \in Procs, NEW r \in {"none", "ok", "failed"}, End(p, r)
    PROVE  ControlInv' /\ DataInv'
<1>1. ControlInv'
  BY DEF IInv, ControlInv, End, job, PlanningLabels
<1>2. DataInv'
  BY Empties DEF IInv, DataInv, End
<1> QED
  BY <1>1, <1>2

(* So does the step to the next group, which may not exist.                *)
LEMMA AdvanceKeeps ==
    ASSUME IInv, NEW p \in Procs, Advance(p), UNCHANGED <<kind, cfg, result>>
    PROVE  ControlInv' /\ draft' \in [Procs -> OurDraft]
<1>1. draft' \in [Procs -> OurDraft]
  BY Empties DEF IInv, DataInv, Advance
<1>2. Len(cfg[p].groups) \in Nat /\ at[p] + 1 \in Nat \ {0}
  BY ConfigsAssumption DEF IInv, ControlInv, Config
<1> DEFINE label == Phase(kind[p], cfg[p], at[p] + 1)
<1>3. /\ label \in PlanningLabels \cup {"planned"}
      /\ label \in PlanningLabels => at[p] + 1 =< Len(cfg[p].groups)
  BY <1>2 DEF Phase, PlanningLabels
<1> HIDE DEF label
<1>4. pc' = [pc EXCEPT ![p] = label] /\ at' = [at EXCEPT ![p] = at[p] + 1]
  BY DEF Advance, Goto, label
<1>5. label # "idle"
  BY <1>3 DEF PlanningLabels
<1> QED
  BY <1>1, <1>2, <1>3, <1>4, <1>5 DEF IInv, ControlInv

-----------------------------------------------------------------------------
(* One lemma per action *)

(* A run starts with the first group, if there is one.                     *)
LEMMA StartKeeps ==
    ASSUME IInv, NEW p \in Procs, NEW k \in Kinds, NEW c \in Configs, Start(p, k, c)
    PROVE  IInv'
<1>1. HostInv'
  BY DEF IInv, HostInv, Start
<1>2. DataInv'
  BY DEF IInv, DataInv, Start, mem
<1>3. Len(c.groups) \in Nat
  BY ConfigsAssumption DEF Config
<1> DEFINE label == Phase(k, c, 1)
<1>4. /\ label \in PlanningLabels \cup {"planned"}
      /\ label \in PlanningLabels => 1 =< Len(c.groups)
      /\ label # "idle"
  BY <1>3 DEF Phase, PlanningLabels
<1> HIDE DEF label
<1>5. /\ pc[p] = "idle"
      /\ pc' = [pc EXCEPT ![p] = label]
      /\ kind' = [kind EXCEPT ![p] = k]
      /\ cfg' = [cfg EXCEPT ![p] = c]
      /\ result' = [result EXCEPT ![p] = "none"]
      /\ at' = at
  BY DEF Start, label, mem
<1>6. ControlInv'
  BY <1>4, <1>5 DEF IInv, ControlInv
<1> QED
  BY <1>1, <1>2, <1>6 DEF IInv

(* The group a planning process has come to.                               *)
LEMMA CurrentFacts ==
    ASSUME IInv, NEW p \in Procs, pc[p] \in PlanningLabels
    PROVE  /\ cfg[p] \in Configs
           /\ cfg[p] \in Config
           /\ cfg[p].proto \in Nat
           /\ Current(p) \in Group
           /\ Current(p).name \in Names
           /\ Current(p) \in GroupsOf(cfg[p])
           /\ RoutesOf(cfg[p].proto, Current(p)) \subseteq OurRoutes
           /\ RulesOf(Current(p)) \subseteq OurRules
<1>1. cfg[p] \in Configs /\ at[p] \in Nat \ {0} /\ at[p] =< Len(cfg[p].groups)
  BY DEF IInv, ControlInv
<1>2. Current(p) \in Group => Current(p).name \in Names
  BY DEF Group
<1> QED
  BY <1>1, <1>2, GroupFacts DEF Current

(* Normalized prefixes are prefixes.                                       *)
LEMMA TookKeeps ==
    ASSUME IInv, NEW p \in Procs, NEW raw \in SUBSET RawPrefix, Took(p, raw)
    PROVE  draft' \in [Procs -> OurDraft]
<1>1. Normalize(raw, cfg[p].aggregate) \in SUBSET Prefix
  BY NormalizeType
<1> QED
  BY <1>1 DEF Took, IInv, DataInv, OurDraft

(* Fetching, falling back and skipping keep the invariant.                 *)
LEMMA FetchGroupKeeps ==
    ASSUME IInv, NEW p \in Procs, FetchGroup(p)
    PROVE  IInv'
<1> DEFINE source == world.source[Current(p).name]
           saved  == store[Current(p).name]
<1>1. pc[p] = "fetch" /\ pc[p] \in PlanningLabels
  BY DEF FetchGroup, PlanningLabels
<1>2. Current(p).name \in Names
  BY <1>1, CurrentFacts
<1>3. source.prefixes \in SUBSET RawPrefix
  BY <1>2, WorldsAssumption DEF IInv, HostInv, World
<1>4. saved.prefixes \in SUBSET RawPrefix
  BY <1>2 DEF IInv, HostInv, State, Prefix
<1>5. HostInv'
  BY DEF IInv, HostInv, FetchGroup
<1> HIDE DEF source, saved
<1>6. ASSUME NEW label \in {"save", "resolve"}, Goto(p, label),
             UNCHANGED <<at, kind, cfg, result>>
      PROVE  ControlInv'
  BY <1>1, <1>6 DEF Goto, IInv, ControlInv, PlanningLabels
<1>7. UNCHANGED <<kind, cfg, result, plan, want, calls>>
  BY DEF FetchGroup, job
<1>8. ControlInv' /\ draft' \in [Procs -> OurDraft]
  <2>1. CASE Took(p, source.prefixes) /\ Goto(p, "save") /\ UNCHANGED at
    BY <1>3, <1>6, <1>7, <2>1, TookKeeps
  <2>2. CASE Took(p, saved.prefixes) /\ Goto(p, "resolve") /\ UNCHANGED at
    BY <1>4, <1>6, <1>7, <2>2, TookKeeps
  <2>3. CASE Skip(p)
    BY <1>7, <2>3, AdvanceKeeps DEF Skip
  <2> QED
    BY <2>1, <2>2, <2>3 DEF FetchGroup, source, saved
<1>9. DataInv'
  BY <1>7, <1>8 DEF IInv, DataInv
<1> QED
  BY <1>5, <1>8, <1>9 DEF IInv

(* A process disturbs only others, and only if it changes something.       *)
LEMMA DisturbsOthers ==
    ASSUME IInv, NEW p \in Procs, Disturbs(p)
    PROVE  /\ calm' \in [Procs -> BOOLEAN]
           /\ calm'[p] = calm[p]
           /\ \A q \in Procs : calm'[q] => calm[q]
           /\ \A q \in Procs : calm'[q] /\ q # p => UNCHANGED <<fib, rules, store>>
<1>1. calm' = [q \in Procs |-> calm[q] /\ (q = p \/ UNCHANGED <<fib, rules, store>>)]
  BY Zenon DEF Disturbs
<1>2. calm \in [Procs -> BOOLEAN]
  BY DEF IInv, HostInv
<1>3. calm' \in [Procs -> BOOLEAN]
  BY <1>1, <1>2, Zenon
<1>4. \A q \in Procs : calm'[q] = (calm[q] /\ (q = p \/ UNCHANGED <<fib, rules, store>>))
  BY <1>1, Zenon
<1>5. calm'[p] = calm[p]
  BY <1>2, <1>4, Zenon
<1> QED
  BY <1>3, <1>4, <1>5, Zenon

(* Saving keeps it, also when the save fails.                              *)
LEMMA SaveGroupKeeps ==
    ASSUME IInv, NEW p \in Procs, SaveGroup(p)
    PROVE  IInv'
<1>1. pc[p] = "save" /\ pc[p] \in PlanningLabels
  BY DEF SaveGroup, PlanningLabels
<1>2. Current(p).name \in Names
  BY <1>1, CurrentFacts
<1>3. Saved(draft[p].prefixes) \in State
  BY DEF IInv, DataInv, OurDraft, Saved, State
<1>4. store' \in [Names -> State] /\ faults' \in 0 .. MaxFaults
  BY <1>2, <1>3, Empties, MaxFaultsAssumption DEF SaveGroup, IInv, HostInv
<1>5. HostInv'
  BY <1>4, DisturbsOthers DEF SaveGroup, IInv, HostInv
<1>6. ControlInv'
  BY <1>1 DEF SaveGroup, Goto, job, IInv, ControlInv, PlanningLabels
<1>7. DataInv'
  BY DEF SaveGroup, IInv, DataInv
<1> QED
  BY <1>5, <1>6, <1>7 DEF IInv

(* Resolving devices and hops keeps it, also when a device is missing.     *)
LEMMA ResolveGroupKeeps ==
    ASSUME IInv, NEW p \in Procs, ResolveGroup(p)
    PROVE  IInv'
<1>1. pc[p] = "resolve" /\ pc[p] \in PlanningLabels
  BY DEF ResolveGroup, PlanningLabels
<1>2. HostInv'
  BY DEF ResolveGroup, IInv, HostInv
<1>3. CASE LinkMissing(Current(p), world)
  BY <1>2, <1>3, EndKeeps DEF ResolveGroup, IInv
<1>4. CASE ~LinkMissing(Current(p), world)
  <2>1. Resolve(Current(p), world) \in Resolved
    BY <1>1, CurrentFacts, ResolveType, WorldsAssumption DEF IInv, HostInv
  <2>2. draft' = [draft EXCEPT ![p].res = Resolve(Current(p), world)]
    BY <1>4 DEF ResolveGroup
  <2>3. Goto(p, "routes") /\ UNCHANGED <<at, plan, want, calls, result, kind, cfg>>
    BY <1>4 DEF ResolveGroup, job
  <2>4. ControlInv'
    BY <1>1, <2>3 DEF Goto, IInv, ControlInv, PlanningLabels
  <2>5. DataInv'
    BY <2>1, <2>2, <2>3 DEF IInv, DataInv, OurDraft
  <2> QED
    BY <1>2, <2>4, <2>5 DEF IInv
<1> QED
  BY <1>3, <1>4

(* The routes listed for a group are owned ones.                           *)
LEMMA ListGroupRoutesKeeps ==
    ASSUME IInv, NEW p \in Procs, ListGroupRoutes(p)
    PROVE  IInv'
<1>1. pc[p] = "routes" /\ pc[p] \in PlanningLabels
  BY DEF ListGroupRoutes, PlanningLabels
<1>2. HostInv'
  BY DEF ListGroupRoutes, IInv, HostInv
<1>3. OwnedRoutes(fib, cfg[p], Current(p)) \in SUBSET OurRoutes
  BY <1>1, CurrentFacts, OwnedRoutesOwned DEF IInv, HostInv
<1>4. ControlInv'
  BY <1>1 DEF ListGroupRoutes, Goto, job, IInv, ControlInv, PlanningLabels
<1>5. DataInv'
  BY <1>3 DEF ListGroupRoutes, IInv, DataInv, OurDraft
<1> QED
  BY <1>2, <1>4, <1>5 DEF IInv

(* What planner.Build and BuildCleanupPlan make of owned sets is owned.    *)
LEMMA BatchesOwned ==
    ASSUME NEW want1 \in SUBSET OurRoutes, NEW have \in SUBSET OurRoutes,
           NEW wantRules \in SUBSET OurRules, NEW haveRules \in SUBSET OurRules
    PROVE  /\ Replace(want1, have) \in Seq(OurBatch)
           /\ Retire(want1, have) \in Seq(OurBatch)
           /\ RuleCalls(wantRules, haveRules) \in Seq(OurBatch)
<1>1. \A R \in SUBSET OurRoutes : Call("AddRoute", R) \in OurBatch /\ Call("DeleteRoute", R) \in OurBatch
  BY DEF Call, OurBatch
<1>2. \A R \in SUBSET OurRules : Call("AddRule", R) \in OurBatch /\ Call("DeleteRule", R) \in OurBatch
  BY DEF Call, OurBatch
<1>3. ConflictingRouteRemovals(want1 \ have, have \ want1) \in SUBSET OurRoutes
  BY DEF ConflictingRouteRemovals
<1> DEFINE conflicting == ConflictingRouteRemovals(want1 \ have, have \ want1)
<1> HIDE DEF conflicting
<1>4. /\ Call("DeleteRoute", conflicting) \in OurBatch
      /\ Call("AddRoute", want1 \ have) \in OurBatch
      /\ Call("DeleteRoute", (have \ want1) \ conflicting) \in OurBatch
  BY <1>1, <1>3 DEF conflicting
<1>5. /\ Call("AddRule", wantRules \ haveRules) \in OurBatch
      /\ Call("DeleteRule", haveRules \ wantRules) \in OurBatch
  BY <1>2
<1>6. \A a, b \in OurBatch : <<a, b>> \in Seq(OurBatch) /\ <<a>> \in Seq(OurBatch)
  OBVIOUS
<1> QED
  BY <1>4, <1>5, <1>6 DEF Replace, Retire, RuleCalls, conflicting

(* The rule deletions a cleanup plans are of owned rules.                  *)
LEMMA CleanupRuleCallsOwned ==
    ASSUME NEW s \in Seq(KernelRule), NEW c, NEW g, RulesOf(g) \subseteq OurRules
    PROVE  CleanupRuleCalls(s, c, g) \in Seq(OurBatch)
<1> DEFINE Args(i, fam) == IF g.rule.enabled /\ s[i].fam = fam /\ IsOwnedRule(s[i], c, g)
                           THEN {Reported(s[i])} ELSE {}
           Listed(fam) == [i \in DOMAIN s |-> Call("DeleteRule", Args(i, fam))]
<1>1. ASSUME NEW fam
      PROVE  Listed(fam) \in Seq(OurBatch)
  <2>1. \A i \in DOMAIN s : Args(i, fam) \in SUBSET OurRules
    <3> SUFFICES ASSUME NEW i \in DOMAIN s PROVE Args(i, fam) \in SUBSET OurRules
      OBVIOUS
    <3>1. s[i] \in KernelRule
      OBVIOUS
    <3>2. IsOwnedRule(s[i], c, g) => Reported(s[i]) \in OurRules
      BY <3>1, ReportedOwned
    <3> QED
      BY <3>2
  <2> HIDE DEF Args
  <2>2. \A i \in DOMAIN s : Call("DeleteRule", Args(i, fam)) \in OurBatch
    BY <2>1 DEF Call, OurBatch
  <2>3. DOMAIN s = 1 .. Len(s) /\ Len(s) \in Nat
    OBVIOUS
  <2> QED
    BY <2>2, <2>3
<1>2. CleanupRuleCalls(s, c, g) = Listed(4) \o Listed(6)
  BY DEF CleanupRuleCalls
<1> HIDE DEF Listed
<1> QED
  BY <1>1, <1>2

(* A reconcile plans changes of owned entries only.                        *)
LEMMA PlanGroupKeeps ==
    ASSUME IInv, NEW p \in Procs, PlanGroup(p)
    PROVE  IInv'
<1> DEFINE c == cfg[p]
           g == Current(p)
           have == draft[p].routes
           routes == DesiredRoutes(c.proto, g, draft[p].prefixes, draft[p].res, world)
           ruleCalls == RuleCalls(DesiredRules(g), OwnedRules(rules, c, g))
<1>1. pc[p] \in PlanningLabels
  BY DEF PlanGroup, PlanningLabels
<1>2. HostInv'
  BY DEF PlanGroup, IInv, HostInv
<1>3. ControlInv' /\ draft' \in [Procs -> OurDraft]
  BY AdvanceKeeps DEF PlanGroup, job
<1>4. draft[p] \in OurDraft /\ plan[p] \in OurPlan /\ want[p] \in Want
  BY DEF IInv, DataInv
<1>5. routes \in SUBSET OurRoutes /\ have \in SUBSET OurRoutes
  BY <1>1, <1>4, CurrentFacts, DesiredRoutesOwned DEF OurDraft
<1>6. DesiredRules(g) \in SUBSET OurRules /\ OwnedRules(rules, c, g) \in SUBSET OurRules
  BY <1>1, CurrentFacts, DesiredRulesOwned, OwnedRulesOwned DEF IInv, HostInv
<1>7. /\ ruleCalls \in Seq(OurBatch)
      /\ Replace(routes, have) \in Seq(OurBatch)
      /\ Retire(routes, have) \in Seq(OurBatch)
  BY <1>5, <1>6, BatchesOwned
<1>8. /\ plan' = [plan EXCEPT ![p] =
                    [rules |-> plan[p].rules \o ruleCalls,
                     pass1 |-> plan[p].pass1 \o Replace(routes, have),
                     pass2 |-> plan[p].pass2 \o Retire(routes, have)]]
      /\ want' = [want EXCEPT ![p] =
                    [routes |-> want[p].routes \cup routes,
                     rules |-> want[p].rules \cup DesiredRules(g)]]
      /\ calls' = calls
  BY DEF PlanGroup
<1> HIDE DEF routes, ruleCalls, have, g, c
<1>9. [rules |-> plan[p].rules \o ruleCalls,
       pass1 |-> plan[p].pass1 \o Replace(routes, have),
       pass2 |-> plan[p].pass2 \o Retire(routes, have)] \in OurPlan
  BY <1>4, <1>7 DEF OurPlan
<1>10. [routes |-> want[p].routes \cup routes,
        rules |-> want[p].rules \cup DesiredRules(g)] \in Want
  BY <1>4, <1>5, <1>6, OursAreOurs DEF Want
<1>11. DataInv'
  BY <1>3, <1>8, <1>9, <1>10 DEF IInv, DataInv
<1> QED
  BY <1>2, <1>3, <1>11 DEF IInv

(* So does a cleanup.                                                      *)
LEMMA PlanCleanupGroupKeeps ==
    ASSUME IInv, NEW p \in Procs, PlanCleanupGroup(p)
    PROVE  IInv'
<1> DEFINE ruleCalls == CleanupRuleCalls(rules, cfg[p], Current(p))
           retired == Retire({}, draft[p].routes)
<1>1. pc[p] \in PlanningLabels
  BY DEF PlanCleanupGroup, PlanningLabels
<1>2. HostInv'
  BY DEF PlanCleanupGroup, IInv, HostInv
<1>3. ControlInv' /\ draft' \in [Procs -> OurDraft]
  BY AdvanceKeeps DEF PlanCleanupGroup, job
<1>4. draft[p] \in OurDraft /\ plan[p] \in OurPlan
  BY DEF IInv, DataInv
<1>5. ruleCalls \in Seq(OurBatch)
  BY <1>1, CurrentFacts, CleanupRuleCallsOwned DEF IInv, HostInv
<1>6. retired \in Seq(OurBatch)
  BY <1>4, BatchesOwned DEF OurDraft
<1>7. /\ plan' = [plan EXCEPT ![p] = [rules |-> plan[p].rules \o ruleCalls,
                                       pass1 |-> plan[p].pass1,
                                       pass2 |-> plan[p].pass2 \o retired]]
      /\ want' = want /\ calls' = calls
  BY DEF PlanCleanupGroup
<1> HIDE DEF ruleCalls, retired
<1>8. [rules |-> plan[p].rules \o ruleCalls, pass1 |-> plan[p].pass1,
       pass2 |-> plan[p].pass2 \o retired] \in OurPlan
  BY <1>4, <1>5, <1>6 DEF OurPlan
<1>9. DataInv'
  BY <1>3, <1>7, <1>8 DEF IInv, DataInv
<1> QED
  BY <1>2, <1>3, <1>9 DEF IInv

(* The calls to make are those of the plan.                                *)
LEMMA FinishPlanKeeps ==
    ASSUME IInv, NEW p \in Procs, FinishPlan(p)
    PROVE  IInv'
<1>1. HostInv'
  BY DEF FinishPlan, IInv, HostInv
<1>2. CASE End(p, "ok")
  BY <1>1, <1>2, EndKeeps DEF IInv
<1>3. CASE /\ calls' = [calls EXCEPT ![p] = Schedule(plan[p])]
           /\ Goto(p, "apply")
           /\ plan' = [plan EXCEPT ![p] = NoPlan]
           /\ UNCHANGED <<at, draft, want, result>>
           /\ UNCHANGED job
  <2>1. Schedule(plan[p]) \in Seq(OurBatch)
    BY DEF Schedule, IInv, DataInv, OurPlan
  <2>2. ControlInv'
    BY <1>3 DEF IInv, ControlInv, Goto, job, PlanningLabels
  <2>3. DataInv'
    BY <1>3, <2>1, Empties DEF IInv, DataInv
  <2> QED
    BY <1>1, <2>2, <2>3 DEF IInv
<1> QED
  BY <1>2, <1>3 DEF FinishPlan

(* One call, taken off a batch, leaves owned batches.                      *)
LEMMA MadeKeeps ==
    ASSUME IInv, NEW p \in Procs, NEW i \in DOMAIN calls[p], NEW r, Made(p, i, r)
    PROVE  /\ ControlInv' /\ DataInv'
           /\ UNCHANGED <<store, world, faults>>
           /\ calm' \in [Procs -> BOOLEAN]
<1>1. ControlInv'
  BY DEF Made, job, IInv, ControlInv
<1>2. calls[p] \in Seq(OurBatch) /\ calls[p][i] \in OurBatch
  BY DEF IInv, DataInv
<1> DEFINE b == [calls[p][i] EXCEPT !.args = @ \ {r}]
           s == [calls[p] EXCEPT ![i] = b]
<1>3. b \in OurBatch
  BY <1>2 DEF OurBatch
<1> HIDE DEF b
<1>4. s \in Seq(OurBatch)
  BY <1>2, <1>3
<1>5. calls' = [calls EXCEPT ![p] = s]
  BY DEF Made, b
<1> HIDE DEF s
<1>6. DataInv'
  BY <1>4, <1>5 DEF Made, IInv, DataInv
<1>7. calm' \in [Procs -> BOOLEAN]
  BY DisturbsOthers DEF Made
<1> QED
  BY <1>1, <1>6, <1>7 DEF Made

(* The arguments of the calls that may be made.                            *)
LEMMA CallFacts ==
    ASSUME IInv, NEW p \in Procs, NEW op, NEW i \in DOMAIN calls[p],
           NEW r \in calls[p][i].args, Succeeds(p, op, i, r)
    PROVE  /\ op \in {"AddRoute", "DeleteRoute"} => r \in OurRoutes
           /\ op \in {"AddRule", "DeleteRule"} => r \in OurRules
<1>1. calls[p][i] \in OurBatch /\ calls[p][i].op = op
  BY DEF IInv, DataInv, Succeeds
<1> QED
  BY <1>1 DEF OurBatch

(* The calls of rules.Apply and routes.Apply: the types, and which routes  *)
(* and rules they leave alone.                                             *)
LEMMA ApplyKeeps ==
    ASSUME IInv, NEW p \in Procs,
           \/ ApplyAddRule(p) \/ ApplyDeleteRule(p)
           \/ ApplyAddRoute(p) \/ ApplyDeleteRoute(p)
    PROVE  /\ IInv'
           /\ {q \in fib' : ForeignRoute(q)} = {q \in fib : ForeignRoute(q)}
           /\ {k \in ToSet(rules') : ForeignRule(k)} = {k \in ToSet(rules) : ForeignRule(k)}
<1> DEFINE Kept == /\ {q \in fib' : ForeignRoute(q)} = {q \in fib : ForeignRoute(q)}
                   /\ {k \in ToSet(rules') : ForeignRule(k)}
                        = {k \in ToSet(rules) : ForeignRule(k)}
<1>0. fib \subseteq Route /\ rules \in Seq(KernelRule)
  BY DEF IInv, HostInv
<1>1. ASSUME NEW i \in DOMAIN calls[p], NEW r, Made(p, i, r),
             fib' \subseteq Route, rules' \in Seq(KernelRule)
      PROVE  IInv'
  <2>1. /\ ControlInv' /\ DataInv'
        /\ UNCHANGED <<store, world, faults>>
        /\ calm' \in [Procs -> BOOLEAN]
    BY <1>1, MadeKeeps
  <2>2. HostInv'
    BY <1>1, <2>1 DEF IInv, HostInv
  <2> QED
    BY <2>1, <2>2 DEF IInv
<1>2. CASE ApplyAddRule(p)
  <2>0. PICK i \in DOMAIN calls[p] : \E r \in calls[p][i].args :
          /\ Succeeds(p, "AddRule", i, r)
          /\ rules' = AddRule(rules, r)
          /\ UNCHANGED fib
          /\ Made(p, i, r)
    BY <1>2 DEF ApplyAddRule
  <2>1. PICK r \in calls[p][i].args :
          /\ Succeeds(p, "AddRule", i, r)
          /\ rules' = AddRule(rules, r)
          /\ UNCHANGED fib
          /\ Made(p, i, r)
    BY <2>0
  <2>2. r \in Rule /\ ~ForeignRule(r)
    BY <2>1, CallFacts DEF OurRules
  <2>3. rules' \in Seq(KernelRule)
    BY <1>0, <2>1, <2>2, AddRuleType
  <2>4. ~ForeignRule(RuleRequest(r))
    BY <2>2, RuleRequestType DEF ForeignRule
  <2>5. \A k : ForeignRule(k) => (k \in ToSet(rules') <=> k \in ToSet(rules))
    BY <1>0, <2>1, <2>2, <2>4, AddRuleElements
  <2> QED
    BY <1>0, <1>1, <2>1, <2>3, <2>5
<1>3. CASE ApplyDeleteRule(p)
  <2>0. PICK i \in DOMAIN calls[p] : \E r \in calls[p][i].args :
          /\ Succeeds(p, "DeleteRule", i, r)
          /\ rules' = DeleteRule(rules, r)
          /\ UNCHANGED fib
          /\ Made(p, i, r)
    BY <1>3 DEF ApplyDeleteRule
  <2>1. PICK r \in calls[p][i].args :
          /\ Succeeds(p, "DeleteRule", i, r)
          /\ rules' = DeleteRule(rules, r)
          /\ UNCHANGED fib
          /\ Made(p, i, r)
    BY <2>0
  <2>2. r \in Rule /\ ~ForeignRule(r)
    BY <2>1, CallFacts DEF OurRules
  <2>3. rules' \in Seq(KernelRule)
    BY <1>0, <2>1, DeleteRuleType
  <2>4. ASSUME NEW k, ForeignRule(k)
        PROVE  ~RuleMatches(RuleRequest(r), k)
    BY <2>2, <2>4, RuleRequestType DEF ForeignRule, RuleMatches
  <2>5. \A k : ForeignRule(k) => (k \in ToSet(rules') <=> k \in ToSet(rules))
    BY <1>0, <2>1, <2>4, DeleteRuleType
  <2> QED
    BY <1>0, <1>1, <2>1, <2>3, <2>5
<1>4. CASE ApplyAddRoute(p)
  <2>0. PICK i \in DOMAIN calls[p] : \E r \in calls[p][i].args :
          /\ Succeeds(p, "AddRoute", i, r)
          /\ fib' = AddRoute(fib, r)
          /\ UNCHANGED rules
          /\ Made(p, i, r)
    BY <1>4 DEF ApplyAddRoute
  <2>1. PICK r \in calls[p][i].args :
          /\ Succeeds(p, "AddRoute", i, r)
          /\ fib' = AddRoute(fib, r)
          /\ UNCHANGED rules
          /\ Made(p, i, r)
    BY <2>0
  <2>2. r \in Route /\ ~ForeignRoute(r)
    BY <2>1, CallFacts DEF OurRoutes
  <2>3. ~ForeignRoute(Installed(r))
    BY <2>2, InstalledType DEF ForeignRoute
  <2>4. \A q : ForeignRoute(q) => (q \in fib' <=> q \in fib)
    BY <2>1, <2>3 DEF AddRoute
  <2>5. fib' \subseteq Route
    BY <1>0, <2>1, <2>2, AddRouteType
  <2> QED
    BY <1>0, <1>1, <2>1, <2>4, <2>5
<1>5. CASE ApplyDeleteRoute(p)
  <2>0. PICK i \in DOMAIN calls[p] : \E r \in calls[p][i].args :
          /\ Succeeds(p, "DeleteRoute", i, r)
          /\ fib' = DeleteRoute(fib, r)
          /\ UNCHANGED rules
          /\ Made(p, i, r)
    BY <1>5 DEF ApplyDeleteRoute
  <2>1. PICK r \in calls[p][i].args :
          /\ Succeeds(p, "DeleteRoute", i, r)
          /\ fib' = DeleteRoute(fib, r)
          /\ UNCHANGED rules
          /\ Made(p, i, r)
    BY <2>0
  <2>2. r \in Route /\ ~ForeignRoute(r)
    BY <2>1, CallFacts DEF OurRoutes
  <2>3. ASSUME NEW q, ForeignRoute(q)
        PROVE  q \notin Doomed(fib, r)
    <3>1. /\ RouteRequest(r).table = r.table
          /\ RouteRequest(r).proto = r.proto
          /\ RouteRequest(r).dst = r.dst
      BY <2>2 DEF RouteRequest, Route
    <3> QED
      BY <2>2, <2>3, <3>1 DEF ForeignRoute, Doomed, RouteMatches
  <2>4. fib' \subseteq fib /\ fib \ fib' \subseteq Doomed(fib, r)
    BY <2>1 DEF DeleteRoute
  <2>5. \A q : ForeignRoute(q) => (q \in fib' <=> q \in fib)
    BY <2>3, <2>4
  <2> QED
    BY <1>0, <1>1, <2>1, <2>4, <2>5
<1> QED
  BY <1>2, <1>3, <1>4, <1>5

(* An error, the end of the calls, a failed request or a kill.             *)
LEMMA StopKeeps ==
    ASSUME IInv, NEW p \in Procs,
           ApplyRejected(p) \/ ApplyDone(p) \/ NetlinkFails(p) \/ Crash(p)
    PROVE  IInv'
<1>1. ControlInv' /\ DataInv'
  BY EndKeeps DEF ApplyRejected, ApplyDone, NetlinkFails, Crash
<1>2. HostInv'
  <2>1. CASE ApplyRejected(p) \/ ApplyDone(p)
    BY <2>1 DEF ApplyRejected, ApplyDone, IInv, HostInv
  <2>2. CASE NetlinkFails(p)
    BY <2>2, MaxFaultsAssumption DEF NetlinkFails, IInv, HostInv
  <2>3. CASE Crash(p)
    <3>1. store' \in [Names -> State]
      <4>1. CASE UNCHANGED store
        BY <4>1 DEF IInv, HostInv
      <4>2. CASE pc[p] = "save" /\ store' = [store EXCEPT ![Current(p).name] = NoState]
        BY <4>2, Empties DEF IInv, HostInv
      <4> QED
        BY <2>3, <4>1, <4>2 DEF Crash
    <3> QED
      BY <2>3, <3>1, DisturbsOthers, MaxFaultsAssumption DEF Crash, IInv, HostInv
  <2> QED
    BY <2>1, <2>2, <2>3
<1> QED
  BY <1>1, <1>2 DEF IInv

(* Changes of the host and of other programs keep the invariant.           *)
LEMMA EnvironmentKeeps ==
    ASSUME IInv, WorldChange \/ ForeignChange
    PROVE  IInv'
<1>1. UNCHANGED <<rules, store, pc, kind, cfg, at, draft, plan, calls, result, want>>
  BY DEF WorldChange, ForeignChange, job, mem
<1>2. ControlInv' /\ DataInv'
  BY <1>1 DEF IInv, ControlInv, DataInv
<1>3. /\ world' \in Worlds
      /\ faults' \in 0 .. MaxFaults
      /\ calm' \in [Procs -> BOOLEAN]
  <2>1. calm' = [p \in Procs |-> FALSE]
    BY Zenon DEF WorldChange, ForeignChange
  <2>2. faults < MaxFaults /\ faults' = faults + 1
    BY Zenon DEF WorldChange, ForeignChange
  <2>3. world' \in Worlds
    BY Zenon DEF WorldChange, ForeignChange, IInv, HostInv
  <2>4. faults' \in 0 .. MaxFaults
    BY <2>2, MaxFaultsAssumption DEF IInv, HostInv
  <2> QED
    BY <2>1, <2>3, <2>4
<1>4. fib' \subseteq Route
  <2>1. CASE WorldChange
    BY <2>1 DEF WorldChange, IInv, HostInv
  <2>2. CASE ForeignChange
    <3>1. PICK q \in ForeignRoutes : fib' = IF q \in fib THEN fib \ {q} ELSE AddRoute(fib, q)
      BY <2>2 DEF ForeignChange
    <3> QED
      BY <3>1, ForeignAssumption, AddRouteType DEF IInv, HostInv
  <2> QED
    BY <2>1, <2>2
<1>5. HostInv'
  BY <1>1, <1>3, <1>4 DEF IInv, HostInv
<1> QED
  BY <1>2, <1>5 DEF IInv

(* Every step keeps the invariant.                                         *)
LEMMA NextIInv == IInv /\ [Next]_vars => IInv'
<1> SUFFICES ASSUME IInv, [Next]_vars PROVE IInv'
  OBVIOUS
<1>1. CASE UNCHANGED vars
  BY <1>1 DEF vars, IInv, HostInv, ControlInv, DataInv
<1>2. ASSUME NEW p \in Procs, StartSome(p)
      PROVE  IInv'
  BY <1>2, StartKeeps DEF StartSome
<1>3. ASSUME NEW p \in Procs, Step(p)
      PROVE  IInv'
  BY <1>3, FetchGroupKeeps, SaveGroupKeeps, ResolveGroupKeeps, ListGroupRoutesKeeps,
     PlanGroupKeeps, PlanCleanupGroupKeeps, FinishPlanKeeps, ApplyKeeps, StopKeeps
     DEF Step
<1>4. ASSUME NEW p \in Procs, NetlinkFails(p) \/ Crash(p)
      PROVE  IInv'
  BY <1>4, StopKeeps
<1>5. CASE WorldChange \/ ForeignChange
  BY <1>5, EnvironmentKeeps
<1> QED
  BY <1>1, <1>2, <1>3, <1>4, <1>5 DEF Next

-----------------------------------------------------------------------------
(* The inductive invariant holds in every behaviour.                       *)
THEOREM Invariance == Spec => []IInv
<1> QED
  BY InitIInv, NextIInv, PTL DEF Spec

(* Type correctness: among others, the fib holds only well-formed routes   *)
(* with masked destinations, whatever host bits the sources and the        *)
(* configuration carry, and a process that plans is at an existing group.  *)
THEOREM TypeCorrect == Spec => []TypeOK
<1> QED
  BY Invariance, IInvTypeOK, PTL

(* route-sync changes nothing it does not own: no step of any process, in  *)
(* whatever order processes, failures, kills and changes of the host       *)
(* happen, adds or removes a route or rule that no configured group stands *)
(* for.  The deletions of routes.Apply and rules.Apply are patterns        *)
(* computed from an earlier listing, so this rests on DataInv.             *)
THEOREM NothingForeignTouched == Spec => ForeignUntouched
<1> DEFINE A == (\E p \in Procs : Step(p)) =>
                   /\ {q \in fib' : ForeignRoute(q)} = {q \in fib : ForeignRoute(q)}
                   /\ {k \in ToSet(rules') : ForeignRule(k)}
                        = {k \in ToSet(rules) : ForeignRule(k)}
<1>1. ASSUME IInv, [Next]_vars
      PROVE  [A]_vars
  <2> SUFFICES ASSUME NEW p \in Procs, Step(p)
               PROVE  /\ {q \in fib' : ForeignRoute(q)} = {q \in fib : ForeignRoute(q)}
                      /\ {k \in ToSet(rules') : ForeignRule(k)}
                           = {k \in ToSet(rules) : ForeignRule(k)}
    OBVIOUS
  <2>1. CASE \/ ApplyAddRule(p) \/ ApplyDeleteRule(p)
             \/ ApplyAddRoute(p) \/ ApplyDeleteRoute(p)
    BY <1>1, <2>1, ApplyKeeps
  <2>2. CASE \/ FetchGroup(p) \/ SaveGroup(p) \/ ResolveGroup(p) \/ ListGroupRoutes(p)
             \/ PlanGroup(p) \/ PlanCleanupGroup(p) \/ FinishPlan(p)
             \/ ApplyRejected(p) \/ ApplyDone(p)
    <3>1. UNCHANGED <<fib, rules>>
      BY <2>2 DEF FetchGroup, SaveGroup, ResolveGroup, ListGroupRoutes, PlanGroup,
         PlanCleanupGroup, FinishPlan, ApplyRejected, ApplyDone
    <3> QED
      BY <3>1
  <2> QED
    BY <2>1, <2>2 DEF Step
<1> QED
  BY <1>1, Invariance, PTL DEF Spec, ForeignUntouched

-----------------------------------------------------------------------------
(***************************************************************************)
(* Convergence: what a run leaves behind.                                  *)
(*                                                                         *)
(* The argument is one of bookkeeping.  An undisturbed process knows the   *)
(* truth about the group it has come to (DraftInv), so that what a group   *)
(* holds and what it needs differ at any time exactly by the calls that    *)
(* are still to be made: those of the plan while it is being made, those   *)
(* left while it is applied (RoutesInv, RulesInv, CleanRoutesInv,          *)
(* CleanRulesInv, with the accounts RoutePlan, RouteCallsLeft, RulePlan    *)
(* and RuleCallsLeft of PlannerProofs).  When no call is left, they are    *)
(* the same.                                                               *)
(*                                                                         *)
(* The hypotheses are about the configurations, and named: OwnTables and   *)
(* RuleHypotheses of module Reconcile.                                     *)
(***************************************************************************)

(* The groups of p's configuration by their place: their tables, what they *)
(* should own and what they own now.                                       *)
Indexes(p)    == DOMAIN cfg[p].groups
Tables(p)     == [i \in Indexes(p) |-> cfg[p].groups[i].table]
Needs(p)      == [i \in Indexes(p) |-> WantedNow(cfg[p], cfg[p].groups[i])]
Holds(p)      == [i \in Indexes(p) |-> OwnedRoutes(fib, cfg[p], cfg[p].groups[i])]
NeedsRules(p) == [i \in Indexes(p) |-> DesiredRules(cfg[p].groups[i])]
HoldsRules(p) == [i \in Indexes(p) |-> OwnedRules(rules, cfg[p], cfg[p].groups[i])]

(* The groups p has passed, and those of them that are in its plan.        *)
Past(p) == {i \in Indexes(p) : i < at[p]}
Done(p) == {i \in Past(p) : Available(cfg[p].groups[i])}

Planning(p) == pc[p] \in PlanningLabels \cup {"planned"}

(* A process that is not at work has no local variables, one that is has   *)
(* no result; a cleanup fetches and resolves nothing; and a complete plan  *)
(* has all the groups.                                                     *)
LocalInv(p) ==
    /\ pc[p] = "idle" => /\ draft[p] = NoDraft /\ plan[p] = NoPlan
                         /\ calls[p] = <<>> /\ want[p] = NoWant
    /\ pc[p] # "idle" => result[p] = "none"
    /\ pc[p] \in {"fetch", "save", "resolve"} => kind[p] # "cleanup"
    /\ pc[p] \in {"planned", "apply"} => at[p] > Len(cfg[p].groups)
    /\ InPasses(plan[p])

(* What an undisturbed process has found out about the group it has come   *)
(* to is still so.                                                         *)
DraftInv(p) ==
    /\ pc[p] = "save" => world.source[Current(p).name].ok
    /\ pc[p] \in {"save", "resolve", "routes", "rules"} /\ kind[p] # "cleanup" =>
          /\ Available(Current(p))
          /\ draft[p].prefixes = ListNow(cfg[p], Current(p))
    /\ pc[p] \in {"routes", "rules"} /\ kind[p] # "cleanup" =>
          draft[p].res = Resolve(Current(p), world)
    /\ pc[p] = "rules" => draft[p].routes = OwnedRoutes(fib, cfg[p], Current(p))

-----------------------------------------------------------------------------
(* Steps of others, and steps of one's own *)

LocalsKept(p) ==
    /\ pc'[p] = pc[p] /\ kind'[p] = kind[p] /\ cfg'[p] = cfg[p] /\ at'[p] = at[p]
    /\ draft'[p] = draft[p] /\ plan'[p] = plan[p] /\ calls'[p] = calls[p]
    /\ result'[p] = result[p] /\ want'[p] = want[p]

(* Nothing changes that p could notice.                                    *)
Unnoticed(p) == calm[p] /\ LocalsKept(p) /\ UNCHANGED <<fib, rules, store, world>>

Acts(p) == Step(p) \/ NetlinkFails(p) \/ Crash(p)

(* The end of a run of q is no concern of p's.                             *)
LEMMA EndLocal ==
    ASSUME IInv, NEW p \in Procs, NEW q \in Procs, q # p, NEW r, End(q, r)
    PROVE  LocalsKept(p)
BY DEF IInv, ControlInv, DataInv, End, job, LocalsKept

(* The next group of q's plan is no concern of p's.                        *)
LEMMA AdvanceLocal ==
    ASSUME IInv, NEW p \in Procs, NEW q \in Procs, q # p, Advance(q),
           plan'[p] = plan[p], want'[p] = want[p], UNCHANGED <<kind, cfg, calls, result>>
    PROVE  LocalsKept(p)
BY DEF IInv, ControlInv, DataInv, Advance, Goto, LocalsKept

(* Nor is the next step q takes with its group.                            *)
LEMMA GotoLocal ==
    ASSUME IInv, NEW p \in Procs, NEW q \in Procs, q # p, NEW label, Goto(q, label),
           draft'[p] = draft[p], calls'[p] = calls[p], plan'[p] = plan[p],
           UNCHANGED <<kind, cfg, at, result, want>>
    PROVE  LocalsKept(p)
BY DEF IInv, ControlInv, DataInv, Goto, LocalsKept

(* What a process does leaves the others' local variables alone.           *)
LEMMA OthersKeepLocals ==
    ASSUME IInv, NEW p \in Procs, NEW q \in Procs, q # p, StartSome(q) \/ Acts(q)
    PROVE  LocalsKept(p)
<1>1. CASE StartSome(q)
  BY <1>1 DEF StartSome, Start, mem, LocalsKept, IInv, ControlInv, DataInv
<1>2. CASE FetchGroup(q)
  <2>1. CASE Skip(q)
    BY <1>2, <2>1, AdvanceLocal DEF FetchGroup, job, Skip
  <2>2. ASSUME NEW label, Goto(q, label), NEW s, Took(q, s), UNCHANGED at
        PROVE  LocalsKept(p)
    <3>1. draft'[p] = draft[p]
      BY <2>2 DEF Took, IInv, DataInv
    <3> QED
      BY <1>2, <2>2, <3>1, GotoLocal DEF FetchGroup, job
  <2> QED
    BY <1>2, <2>1, <2>2 DEF FetchGroup
<1>3. CASE SaveGroup(q)
  BY <1>3, GotoLocal DEF SaveGroup, job
<1>4. CASE ResolveGroup(q)
  <2>1. CASE End(q, "failed")
    BY <2>1, EndLocal
  <2>2. CASE /\ draft' = [draft EXCEPT ![q].res = Resolve(Current(q), world)]
             /\ Goto(q, "routes")
             /\ UNCHANGED <<at, plan, want, calls, result>>
             /\ UNCHANGED job
    <3>1. draft'[p] = draft[p]
      BY <2>2 DEF IInv, DataInv
    <3> QED
      BY <2>2, <3>1, GotoLocal DEF job
  <2> QED
    BY <1>4, <2>1, <2>2 DEF ResolveGroup
<1>5. CASE ListGroupRoutes(q)
  <2>1. draft'[p] = draft[p]
    BY <1>5 DEF ListGroupRoutes, IInv, DataInv
  <2> QED
    BY <1>5, <2>1, GotoLocal DEF ListGroupRoutes, job
<1>6. CASE PlanGroup(q)
  <2>1. plan'[p] = plan[p] /\ want'[p] = want[p]
    BY <1>6 DEF PlanGroup, IInv, DataInv
  <2> QED
    BY <1>6, <2>1, AdvanceLocal DEF PlanGroup, job
<1>7. CASE PlanCleanupGroup(q)
  <2>1. plan'[p] = plan[p]
    BY <1>7 DEF PlanCleanupGroup, IInv, DataInv
  <2> QED
    BY <1>7, <2>1, AdvanceLocal DEF PlanCleanupGroup, job
<1>8. CASE FinishPlan(q)
  <2>1. CASE End(q, "ok")
    BY <2>1, EndLocal
  <2>2. CASE /\ calls' = [calls EXCEPT ![q] = Schedule(plan[q])]
             /\ Goto(q, "apply")
             /\ plan' = [plan EXCEPT ![q] = NoPlan]
             /\ UNCHANGED <<at, draft, want, result>>
             /\ UNCHANGED job
    <3>1. calls'[p] = calls[p] /\ plan'[p] = plan[p]
      BY <2>2 DEF IInv, DataInv
    <3> QED
      BY <2>2, <3>1, GotoLocal DEF job
  <2> QED
    BY <1>8, <2>1, <2>2 DEF FinishPlan
<1>9. ASSUME NEW i, NEW r, Made(q, i, r)
      PROVE  LocalsKept(p)
  <2>1. calls'[p] = calls[p]
    BY <1>9 DEF Made, IInv, DataInv
  <2> QED
    BY <1>9, <2>1 DEF Made, job, LocalsKept
<1>10. CASE ApplyAddRule(q) \/ ApplyDeleteRule(q) \/ ApplyAddRoute(q) \/ ApplyDeleteRoute(q)
  BY <1>9, <1>10 DEF ApplyAddRule, ApplyDeleteRule, ApplyAddRoute, ApplyDeleteRoute
<1>11. CASE ApplyRejected(q) \/ ApplyDone(q) \/ NetlinkFails(q) \/ Crash(q)
  BY <1>11, EndLocal DEF ApplyRejected, ApplyDone, NetlinkFails, Crash
<1> QED
  BY <1>1, <1>2, <1>3, <1>4, <1>5, <1>6, <1>7, <1>8, <1>10, <1>11 DEF Acts, Step

(* A process that acts is not calmer than before, and another that stays   *)
(* calm notices nothing.                                                   *)
LEMMA ActsDisturb ==
    ASSUME IInv, NEW p \in Procs, NEW q \in Procs, Acts(q), calm'[p]
    PROVE  calm[p] /\ (q # p => UNCHANGED <<fib, rules, store, world>>)
<1>1. CASE Disturbs(q)
  <2>1. UNCHANGED world
    BY <1>1 DEF Acts, Step, FetchGroup, SaveGroup, ResolveGroup, ListGroupRoutes, PlanGroup,
         PlanCleanupGroup, FinishPlan, ApplyAddRule, ApplyDeleteRule, ApplyAddRoute,
         ApplyDeleteRoute, Made, ApplyRejected, ApplyDone, NetlinkFails, Crash
  <2> QED
    BY <1>1, <2>1, DisturbsOthers
<1>2. CASE UNCHANGED <<fib, rules, store, world, calm>>
  BY <1>2
<1> QED
  BY <1>1, <1>2 DEF Acts, Step, FetchGroup, SaveGroup, ResolveGroup, ListGroupRoutes, PlanGroup,
     PlanCleanupGroup, FinishPlan, ApplyAddRule, ApplyDeleteRule, ApplyAddRoute,
     ApplyDeleteRoute, Made, ApplyRejected, ApplyDone, NetlinkFails, Crash

(* The steps after which p is calm.                                        *)
LEMMA CalmStep ==
    ASSUME IInv, [Next]_vars, NEW p \in Procs, calm'[p]
    PROVE  Unnoticed(p) \/ StartSome(p) \/ (calm[p] /\ Acts(p))
<1>1. CASE UNCHANGED vars
  BY <1>1 DEF vars, Unnoticed, LocalsKept
<1>2. ASSUME NEW q \in Procs, StartSome(q), q # p
      PROVE  Unnoticed(p)
  <2>1. UNCHANGED <<fib, rules, store, world>> /\ calm'[p] = calm[p]
    BY <1>2 DEF StartSome, Start, IInv, HostInv
  <2> QED
    BY <1>2, <2>1, OthersKeepLocals DEF Unnoticed
<1>3. ASSUME NEW q \in Procs, Acts(q), q # p
      PROVE  Unnoticed(p)
  BY <1>3, ActsDisturb, OthersKeepLocals DEF Unnoticed
<1>4. Acts(p) => calm[p]
  BY ActsDisturb
<1>5. CASE WorldChange \/ ForeignChange
  <2>1. calm' = [q \in Procs |-> FALSE]
    BY <1>5, Zenon DEF WorldChange, ForeignChange
  <2> QED
    BY <2>1, Zenon
<1> QED
  BY <1>1, <1>2, <1>3, <1>4, <1>5 DEF Next, Acts

(* Any step, as p sees it.                                                 *)
LEMMA AnyStep ==
    ASSUME IInv, [Next]_vars, NEW p \in Procs
    PROVE  LocalsKept(p) \/ StartSome(p) \/ Acts(p)
<1>1. CASE UNCHANGED vars
  BY <1>1 DEF vars, LocalsKept
<1>2. ASSUME NEW q \in Procs, StartSome(q) \/ Acts(q), q # p
      PROVE  LocalsKept(p)
  BY <1>2, OthersKeepLocals
<1>3. CASE WorldChange \/ ForeignChange
  BY <1>3 DEF WorldChange, ForeignChange, job, mem, LocalsKept
<1> QED
  BY <1>1, <1>2, <1>3 DEF Next, Acts

(* Where a run starts.                                                     *)
LEMMA StartsAt ==
    ASSUME IInv, NEW p \in Procs, NEW k \in Kinds, NEW c \in Configs, Start(p, k, c)
    PROVE  /\ pc[p] = "idle" /\ at[p] = 1
           /\ kind'[p] = k /\ cfg'[p] = c /\ result'[p] = "none" /\ at'[p] = at[p]
           /\ draft'[p] = draft[p] /\ plan'[p] = plan[p] /\ want'[p] = want[p]
           /\ calls'[p] = calls[p] /\ UNCHANGED <<fib, rules, store, world>>
           /\ pc'[p] \in {"fetch", "routes", "planned"}
           /\ pc'[p] = "routes" => k = "cleanup"
           /\ pc'[p] = "fetch" => k # "cleanup"
           /\ pc'[p] = "planned" => at[p] > Len(c.groups)
<1>1. pc'[p] = Phase(k, c, 1)
  BY DEF Start, IInv, ControlInv
<1>2. Len(c.groups) \in Nat
  BY ConfigsAssumption DEF Config
<1> QED
  BY <1>1, <1>2 DEF Start, mem, Phase, IInv, ControlInv

(* Where Advance leads to.                                                 *)
LEMMA AdvancesTo ==
    ASSUME IInv, NEW p \in Procs, Advance(p)
    PROVE  /\ at'[p] = at[p] + 1 /\ draft'[p] = NoDraft
           /\ pc'[p] \in {"fetch", "routes", "planned"}
           /\ pc'[p] = "routes" => kind[p] = "cleanup"
           /\ pc'[p] = "fetch" => kind[p] # "cleanup"
           /\ pc'[p] = "planned" => at[p] + 1 > Len(cfg[p].groups)
<1>1. pc'[p] = Phase(kind[p], cfg[p], at[p] + 1)
  BY DEF Advance, Goto, IInv, ControlInv
<1>2. Len(cfg[p].groups) \in Nat /\ at[p] \in Nat
  BY ConfigsAssumption DEF Config, IInv, ControlInv
<1>3. at'[p] = at[p] + 1 /\ draft'[p] = NoDraft
  BY DEF Advance, IInv, ControlInv, DataInv
<1> QED
  BY <1>1, <1>2, <1>3 DEF Phase

(* Where a run ends.                                                       *)
LEMMA EndsAt ==
    ASSUME IInv, NEW p \in Procs, NEW r, End(p, r)
    PROVE  /\ pc'[p] = "idle" /\ result'[p] = r /\ at'[p] = 1 /\ draft'[p] = NoDraft
           /\ plan'[p] = NoPlan /\ calls'[p] = <<>> /\ want'[p] = NoWant
           /\ UNCHANGED <<kind, cfg>>
BY DEF End, job, IInv, ControlInv, DataInv

(* The steps of a run and what they do to the local variables.             *)
LEMMA ActsAt ==
    ASSUME IInv, NEW p \in Procs, Acts(p)
    PROVE  \/ End(p, "failed") \/ End(p, "none")
           \/ ApplyDone(p)
           \/ /\ pc[p] = "planned" /\ kind[p] = "check" /\ End(p, "ok")
              /\ UNCHANGED <<fib, rules, store, world>>
           \/ FetchGroup(p) \/ SaveGroup(p)
           \/ ResolveGroup(p) /\ ~LinkMissing(Current(p), world)
           \/ ListGroupRoutes(p) \/ PlanGroup(p) \/ PlanCleanupGroup(p)
           \/ /\ pc[p] = "planned" /\ kind[p] # "check"
              /\ calls'[p] = Schedule(plan[p]) /\ pc'[p] = "apply" /\ plan'[p] = NoPlan
              /\ UNCHANGED <<fib, rules, store, world, at, draft, want, result, kind, cfg>>
           \/ ApplyAddRule(p) \/ ApplyDeleteRule(p) \/ ApplyAddRoute(p) \/ ApplyDeleteRoute(p)
<1>1. CASE FinishPlan(p)
  BY <1>1 DEF FinishPlan, Goto, job, IInv, ControlInv, DataInv
<1>2. CASE ResolveGroup(p)
  BY <1>2 DEF ResolveGroup
<1>3. CASE ApplyRejected(p) \/ NetlinkFails(p) \/ Crash(p)
  BY <1>3 DEF ApplyRejected, NetlinkFails, Crash
<1> QED
  BY <1>1, <1>2, <1>3 DEF Acts, Step

(* One of the four calls, and what it leaves alone.                        *)
LEMMA CallMade ==
    ASSUME IInv, NEW p \in Procs, NEW i \in DOMAIN calls[p], NEW r \in calls[p][i].args,
           NEW op, Succeeds(p, op, i, r), Made(p, i, r)
    PROVE  /\ pc[p] = "apply"
           /\ calls[p] \in Seq(Batch)
           /\ calls[p][i].op = op
           /\ \A j \in DOMAIN calls[p] : j < i => calls[p][j].args = {}
           /\ calls'[p] = TakenOff(calls[p], i, r)
           /\ UNCHANGED <<store, world, pc, at, draft, plan, want, result, kind, cfg>>
           /\ op \in {"AddRoute", "DeleteRoute"} => r \in Route
           /\ op \in {"AddRule", "DeleteRule"} => r \in Rule
<1>1. pc[p] = "apply" /\ i \in Ready(p) /\ calls[p][i].op = op
  BY DEF Succeeds
<1>2. calls[p] \in Seq(Batch)
  BY OursAreOurs, SeqMonotone DEF IInv, DataInv
<1>3. \A j \in DOMAIN calls[p] : j < i => j \in 1 .. i - 1
  BY <1>2
<1>4. \A j \in DOMAIN calls[p] : j < i => calls[p][j].args = {}
  BY <1>1, <1>3 DEF Ready
<1>5. calls'[p] = TakenOff(calls[p], i, r)
  BY DEF Made, TakenOff, IInv, DataInv
<1>6. /\ op \in {"AddRoute", "DeleteRoute"} => r \in Route
      /\ op \in {"AddRule", "DeleteRule"} => r \in Rule
  BY CallFacts, OursAreOurs
<1> QED
  BY <1>1, <1>2, <1>4, <1>5, <1>6 DEF Made, job

-----------------------------------------------------------------------------
(* The kernel's routes, and processes between runs *)

FibInv == Fib(fib)

(* Other programs install no two routes in one slot.                       *)
LEMMA InitFib == Init => FibInv
BY ForeignAssumption DEF Init, FibInv, Fib, SlotsUnique

(* Whoever adds a route, the kernel stores it as it stores it, and one to  *)
(* a slot.                                                                 *)
LEMMA AddRouteFib ==
    ASSUME NEW f, Fib(f), NEW r \in Route
    PROVE  Fib(AddRoute(f, r))
<1>1. f \in SUBSET Route /\ SlotsUnique(f) /\ \A q \in f : Installed(q) = q
  BY DEF Fib
<1>2. AddRoute(f, r) \subseteq Route /\ SlotsUnique(AddRoute(f, r))
  BY <1>1, AddRouteType, AddRouteKeepsSlots
<1>3. \A q \in AddRoute(f, r) : Installed(q) = q
  BY <1>1, InstalledTwice DEF AddRoute
<1> QED
  BY <1>2, <1>3 DEF Fib

(* Removing routes cannot put two into one slot.                           *)
LEMMA SmallerFib ==
    ASSUME NEW f, Fib(f), NEW e \in SUBSET f
    PROVE  Fib(e)
BY DEF Fib, SlotsUnique

(* No step puts two routes into one slot, or a route the kernel would      *)
(* store otherwise.                                                        *)
LEMMA NextFib ==
    ASSUME IInv, FibInv, [Next]_vars
    PROVE  FibInv'
<1>1. CASE UNCHANGED fib
  BY <1>1 DEF FibInv
<1>2. ASSUME NEW p \in Procs, ApplyAddRoute(p)
      PROVE  FibInv'
  <2>1. PICK i \in DOMAIN calls[p] : \E r \in calls[p][i].args :
           Succeeds(p, "AddRoute", i, r) /\ fib' = AddRoute(fib, r) /\ Made(p, i, r)
    BY <1>2 DEF ApplyAddRoute
  <2>2. PICK r \in calls[p][i].args :
           Succeeds(p, "AddRoute", i, r) /\ fib' = AddRoute(fib, r) /\ Made(p, i, r)
    BY <2>1
  <2>3. r \in Route
    BY <2>2, CallMade
  <2> QED
    BY <2>2, <2>3, AddRouteFib DEF FibInv
<1>3. ASSUME NEW p \in Procs, ApplyDeleteRoute(p)
      PROVE  FibInv'
  <2>1. fib' \subseteq fib
    BY <1>3 DEF ApplyDeleteRoute, DeleteRoute
  <2> QED
    BY <2>1, SmallerFib DEF FibInv
<1>4. CASE WorldChange
  <2>1. fib' \subseteq fib
    BY <1>4 DEF WorldChange
  <2> QED
    BY <2>1, SmallerFib DEF FibInv
<1>5. CASE ForeignChange
  <2>1. PICK q \in ForeignRoutes : fib' = IF q \in fib THEN fib \ {q} ELSE AddRoute(fib, q)
    BY <1>5 DEF ForeignChange
  <2>2. q \in Route
    BY ForeignAssumption
  <2>3. fib \ {q} \subseteq fib
    OBVIOUS
  <2> QED
    BY <2>1, <2>2, <2>3, AddRouteFib, SmallerFib DEF FibInv
<1>6. ASSUME NEW p \in Procs, ~ApplyAddRoute(p), ~ApplyDeleteRoute(p), StartSome(p) \/ Acts(p)
      PROVE  UNCHANGED fib
  BY <1>6 DEF Acts, Step, StartSome, Start, FetchGroup, SaveGroup, ResolveGroup,
     ListGroupRoutes, PlanGroup, PlanCleanupGroup, FinishPlan, ApplyAddRule, ApplyDeleteRule,
     ApplyRejected, ApplyDone, NetlinkFails, Crash
<1> QED
  BY <1>1, <1>2, <1>3, <1>4, <1>5, <1>6 DEF Next, Acts, vars

(* The empty plan.                                                         *)
LEMMA EmptyPlan ==
    /\ \A op : ArgsOf(<<>>, op) = {}
    /\ InPasses(NoPlan)
    /\ DisjointDeletes(<<>>) /\ DeletesFirst(<<>>)
<1>1. \A op : ArgsOf(<<>>, op) = {}
  BY DEF ArgsOf
<1> QED
  BY <1>1 DEF InPasses, NoPlan, DisjointDeletes, DeletesFirst

(* The parts of a plan are batches.                                        *)
LEMMA PlanBatches ==
    ASSUME IInv, NEW p \in Procs
    PROVE  /\ plan[p].rules \in Seq(Batch)
           /\ plan[p].pass1 \in Seq(Batch)
           /\ plan[p].pass2 \in Seq(Batch)
           /\ calls[p] \in Seq(Batch)
<1>1. plan[p] \in Plan
  BY OursAreOurs DEF IInv, DataInv
<1>2. calls[p] \in Seq(Batch)
  BY OursAreOurs, SeqMonotone DEF IInv, DataInv
<1> QED
  BY <1>1, <1>2 DEF Plan

(* The calls of a plan are those of its parts.                             *)
LEMMA ScheduleArgs ==
    ASSUME IInv, NEW p \in Procs
    PROVE  \A op : ArgsOf(Schedule(plan[p]), op)
                     = ArgsOf(plan[p].rules, op) \cup ArgsOf(plan[p].pass1, op)
                          \cup ArgsOf(plan[p].pass2, op)
<1> DEFINE pl    == plan[p]
           first == pl.rules \o pl.pass1
<1>1. pl.rules \in Seq(Batch) /\ pl.pass1 \in Seq(Batch) /\ pl.pass2 \in Seq(Batch)
  BY PlanBatches
<1> HIDE DEF pl
<1>2. first \in Seq(Batch) /\ \A op : ArgsOf(first, op) = ArgsOf(pl.rules, op) \cup ArgsOf(pl.pass1, op)
  BY <1>1, ArgsOfConcat
<1>3. \A op : ArgsOf(first \o pl.pass2, op) = ArgsOf(first, op) \cup ArgsOf(pl.pass2, op)
  BY <1>1, <1>2, ArgsOfConcat
<1>4. Schedule(pl) = first \o pl.pass2
  BY DEF Schedule
<1> HIDE DEF first
<1> QED
  BY <1>2, <1>3, <1>4 DEF pl

(* The batches a planned group adds.                                       *)
LEMMA NewBatches ==
    ASSUME IInv, NEW p \in Procs, pc[p] \in PlanningLabels, NEW prefixes \in SUBSET Prefix, NEW res \in Resolved
    PROVE  LET routes == DesiredRoutes(cfg[p].proto, Current(p), prefixes, res, world)
           IN  /\ RuleCalls(DesiredRules(Current(p)), OwnedRules(rules, cfg[p], Current(p))) \in Seq(Batch)
               /\ Replace(routes, draft[p].routes) \in Seq(Batch)
               /\ Retire(routes, draft[p].routes) \in Seq(Batch)
               /\ Retire({}, draft[p].routes) \in Seq(Batch)
               /\ CleanupRuleCalls(rules, cfg[p], Current(p)) \in Seq(Batch)
<1> DEFINE g == Current(p)
           routes == DesiredRoutes(cfg[p].proto, g, prefixes, res, world)
<1>1. routes \in SUBSET OurRoutes
  BY CurrentFacts, DesiredRoutesOwned
<1>2. draft[p].routes \in SUBSET OurRoutes
  BY DEF IInv, DataInv, OurDraft
<1>3. DesiredRules(g) \in SUBSET OurRules /\ OwnedRules(rules, cfg[p], g) \in SUBSET OurRules
  BY CurrentFacts, DesiredRulesOwned, OwnedRulesOwned DEF IInv, HostInv
<1>4. CleanupRuleCalls(rules, cfg[p], g) \in Seq(OurBatch)
  BY CurrentFacts, CleanupRuleCallsOwned DEF IInv, HostInv
<1>5. {} \in SUBSET OurRoutes
  OBVIOUS
<1> HIDE DEF routes, g
<1>6. Seq(OurBatch) \subseteq Seq(Batch)
  BY OursAreOurs, SeqMonotone
<1> QED
  BY <1>1, <1>2, <1>3, <1>4, <1>5, <1>6, BatchesOwned DEF routes, g

(* What PlanGroup leaves in the local variables.                           *)
LEMMA PlansGroup ==
    ASSUME IInv, NEW p \in Procs, PlanGroup(p),
           NEW routes, routes = DesiredRoutes(cfg[p].proto, Current(p), draft[p].prefixes, draft[p].res, world),
           NEW calls1, calls1 = RuleCalls(DesiredRules(Current(p)), OwnedRules(rules, cfg[p], Current(p)))
    PROVE  /\ plan'[p].rules = plan[p].rules \o calls1
           /\ plan'[p].pass1 = plan[p].pass1 \o Replace(routes, draft[p].routes)
           /\ plan'[p].pass2 = plan[p].pass2 \o Retire(routes, draft[p].routes)
           /\ want'[p].routes = want[p].routes \cup routes
           /\ want'[p].rules = want[p].rules \cup DesiredRules(Current(p))
           /\ calls1 \in Seq(Batch)
           /\ Replace(routes, draft[p].routes) \in Seq(Batch)
           /\ Retire(routes, draft[p].routes) \in Seq(Batch)
<1> DEFINE have == draft[p].routes
<1>1. plan' = [plan EXCEPT ![p] = [rules |-> plan[p].rules \o calls1,
                                    pass1 |-> plan[p].pass1 \o Replace(routes, have),
                                    pass2 |-> plan[p].pass2 \o Retire(routes, have)]]
  BY DEF PlanGroup
<1>2. want' = [want EXCEPT ![p] = [routes |-> want[p].routes \cup routes,
                                    rules |-> want[p].rules \cup DesiredRules(Current(p))]]
  BY DEF PlanGroup
<1>3. plan \in [Procs -> OurPlan] /\ want \in [Procs -> Want]
  BY DEF IInv, DataInv
<1>4. /\ calls1 \in Seq(Batch)
      /\ Replace(routes, have) \in Seq(Batch)
      /\ Retire(routes, have) \in Seq(Batch)
  <2>1. draft[p].prefixes \in SUBSET Prefix /\ draft[p].res \in Resolved /\ pc[p] \in PlanningLabels
    BY DEF IInv, DataInv, OurDraft, PlanGroup, PlanningLabels
  <2> QED
    BY <2>1, NewBatches
<1> QED
  BY <1>1, <1>2, <1>3, <1>4

(* And PlanCleanupGroup.                                                   *)
LEMMA PlansCleanup ==
    ASSUME IInv, NEW p \in Procs, PlanCleanupGroup(p)
    PROVE  /\ plan'[p].rules = plan[p].rules \o CleanupRuleCalls(rules, cfg[p], Current(p))
           /\ plan'[p].pass1 = plan[p].pass1
           /\ plan'[p].pass2 = plan[p].pass2 \o Retire({}, draft[p].routes)
           /\ CleanupRuleCalls(rules, cfg[p], Current(p)) \in Seq(Batch)
           /\ Retire({}, draft[p].routes) \in Seq(Batch)
<1> DEFINE a == CleanupRuleCalls(rules, cfg[p], Current(p))
           b == Retire({}, draft[p].routes)
<1>1. plan' = [plan EXCEPT ![p] = [rules |-> plan[p].rules \o a,
                                    pass1 |-> plan[p].pass1,
                                    pass2 |-> plan[p].pass2 \o b]]
  BY DEF PlanCleanupGroup
<1>2. plan \in [Procs -> OurPlan]
  BY DEF IInv, DataInv
<1>3. a \in Seq(Batch) /\ b \in Seq(Batch)
  <2>1. draft[p].prefixes \in SUBSET Prefix /\ draft[p].res \in Resolved /\ pc[p] \in PlanningLabels
    BY DEF IInv, DataInv, OurDraft, PlanCleanupGroup, PlanningLabels
  <2> QED
    BY <2>1, NewBatches
<1> HIDE DEF a, b
<1>4. /\ plan'[p].rules = plan[p].rules \o a
      /\ plan'[p].pass1 = plan[p].pass1
      /\ plan'[p].pass2 = plan[p].pass2 \o b
  BY <1>1, <1>2
<1> QED
  BY <1>3, <1>4 DEF a, b

(* At first no process is at work.                                         *)
LEMMA InitLocal ==
    ASSUME Init, NEW p \in Procs
    PROVE  LocalInv(p)
BY EmptyPlan DEF Init, LocalInv

(* Every step, of p or of others, keeps p's local variables in order.      *)
LEMMA NextLocal ==
    ASSUME IInv, [Next]_vars, NEW p \in Procs, LocalInv(p)
    PROVE  LocalInv(p)'
<1>1. CASE LocalsKept(p)
  BY <1>1 DEF LocalsKept, LocalInv
<1>2. CASE StartSome(p)
  BY <1>2, StartsAt DEF StartSome, LocalInv
<1>3. ASSUME NEW r, End(p, r)
      PROVE  LocalInv(p)'
  BY <1>3, EndsAt, EmptyPlan DEF LocalInv
<1>4. CASE ApplyDone(p)
  BY <1>3, <1>4 DEF ApplyDone
<1>5. CASE FetchGroup(p)
  <2>1. pc[p] = "fetch" /\ UNCHANGED <<plan, want, calls, result, kind, cfg>>
    BY <1>5 DEF FetchGroup, job
  <2>2. pc'[p] \in {"save", "resolve"} \/ Advance(p)
    BY <1>5 DEF FetchGroup, Goto, Skip, IInv, ControlInv
  <2>3. /\ pc'[p] # "idle" /\ pc'[p] # "apply" /\ (pc'[p] = "planned" => at'[p] > Len(cfg[p].groups))
        /\ pc'[p] \in {"fetch", "save", "resolve"} => kind[p] # "cleanup"
    BY <2>1, <2>2, AdvancesTo DEF LocalInv
  <2> QED
    BY <2>1, <2>3 DEF LocalInv
<1>6. CASE SaveGroup(p)
  BY <1>6 DEF SaveGroup, Goto, job, LocalInv, IInv, ControlInv
<1>7. CASE ResolveGroup(p) /\ ~LinkMissing(Current(p), world)
  BY <1>7 DEF ResolveGroup, Goto, job, LocalInv, IInv, ControlInv
<1>8. CASE ListGroupRoutes(p)
  BY <1>8 DEF ListGroupRoutes, Goto, job, LocalInv, IInv, ControlInv
<1>9. CASE PlanGroup(p)
  <2>1. pc[p] = "rules" /\ UNCHANGED <<result, kind, cfg>> /\ Advance(p)
    BY <1>9 DEF PlanGroup, job
  <2>2. /\ pc'[p] # "idle" /\ pc'[p] # "apply" /\ (pc'[p] = "planned" => at'[p] > Len(cfg[p].groups))
        /\ pc'[p] \in {"fetch", "save", "resolve"} => kind[p] # "cleanup"
    BY <2>1, AdvancesTo
  <2> DEFINE routes == DesiredRoutes(cfg[p].proto, Current(p), draft[p].prefixes, draft[p].res, world)
             calls1 == RuleCalls(DesiredRules(Current(p)), OwnedRules(rules, cfg[p], Current(p)))
             one == Replace(routes, draft[p].routes)
             two == Retire(routes, draft[p].routes)
  <2>3. /\ plan'[p].rules = plan[p].rules \o calls1
        /\ plan'[p].pass1 = plan[p].pass1 \o one
        /\ plan'[p].pass2 = plan[p].pass2 \o two
        /\ calls1 \in Seq(Batch) /\ one \in Seq(Batch) /\ two \in Seq(Batch)
    BY <1>9, PlansGroup
  <2>4. \A op \in {"AddRoute", "DeleteRoute"} : ArgsOf(calls1, op) = {}
    BY RuleCallsParts
  <2>5. \A op \in {"AddRule", "DeleteRule"} : ArgsOf(one, op) = {}
    BY ReplaceParts
  <2> HIDE DEF routes
  <2>6. \A op \in {"AddRule", "DeleteRule", "AddRoute"} : ArgsOf(two, op) = {}
    BY RetireParts
  <2> HIDE DEF calls1, one, two
  <2>7. InPasses(plan'[p])
    BY <2>3, <2>4, <2>5, <2>6, SortedGrows, PlanBatches DEF LocalInv
  <2> QED
    BY <2>1, <2>2, <2>7 DEF LocalInv
<1>10. CASE PlanCleanupGroup(p)
  <2>1. pc[p] = "rules" /\ UNCHANGED <<result, kind, cfg>> /\ Advance(p)
    BY <1>10 DEF PlanCleanupGroup, job
  <2>2. /\ pc'[p] # "idle" /\ pc'[p] # "apply" /\ (pc'[p] = "planned" => at'[p] > Len(cfg[p].groups))
        /\ pc'[p] \in {"fetch", "save", "resolve"} => kind[p] # "cleanup"
    BY <2>1, AdvancesTo
  <2> DEFINE a == CleanupRuleCalls(rules, cfg[p], Current(p))
             b == Retire({}, draft[p].routes)
             none == <<>>
  <2>3. /\ plan'[p].rules = plan[p].rules \o a
        /\ plan'[p].pass1 = plan[p].pass1 \o none
        /\ plan'[p].pass2 = plan[p].pass2 \o b
        /\ a \in Seq(Batch) /\ b \in Seq(Batch) /\ none \in Seq(Batch)
    <3>1. /\ plan'[p].rules = plan[p].rules \o a
          /\ plan'[p].pass1 = plan[p].pass1
          /\ plan'[p].pass2 = plan[p].pass2 \o b
          /\ a \in Seq(Batch) /\ b \in Seq(Batch)
      BY <1>10, PlansCleanup
    <3>2. plan[p].pass1 = plan[p].pass1 \o none /\ none \in Seq(Batch)
      BY PlanBatches
    <3> QED
      BY <3>1, <3>2
  <2>4. Current(p) \in Group /\ rules \in Seq(KernelRule)
    BY <2>1, CurrentFacts DEF IInv, HostInv, PlanningLabels
  <2>5. \A op \in {"AddRoute", "DeleteRoute"} : ArgsOf(a, op) = {}
    BY <2>4, CleanupCallsParts
  <2>6. \A op \in {"AddRule", "DeleteRule", "AddRoute"} : ArgsOf(b, op) = {}
    BY RetireParts
  <2>7. \A op : ArgsOf(none, op) = {}
    BY EmptyPlan
  <2> HIDE DEF a, b, none
  <2>8. InPasses(plan'[p])
    BY <2>3, <2>5, <2>6, <2>7, SortedGrows, PlanBatches DEF LocalInv
  <2> QED
    BY <2>1, <2>2, <2>8 DEF LocalInv
<1>11. CASE /\ pc[p] = "planned" /\ pc'[p] = "apply" /\ plan'[p] = NoPlan
            /\ UNCHANGED <<at, draft, want, result, kind, cfg>>
  BY <1>11, EmptyPlan DEF LocalInv
<1>12. ASSUME NEW i, NEW r, Made(p, i, r), pc[p] = "apply"
       PROVE  LocalInv(p)'
  BY <1>12 DEF Made, job, LocalInv
<1>13. CASE ApplyAddRule(p) \/ ApplyDeleteRule(p) \/ ApplyAddRoute(p) \/ ApplyDeleteRoute(p)
  BY <1>12, <1>13 DEF ApplyAddRule, ApplyDeleteRule, ApplyAddRoute, ApplyDeleteRoute, Succeeds
<1> QED
  BY <1>1, <1>2, <1>3, <1>4, <1>5, <1>6, <1>7, <1>8, <1>9, <1>10, <1>11, <1>13, AnyStep, ActsAt

-----------------------------------------------------------------------------
(* What does not depend on others *)

(* What the groups of p own, and should own of rules, only changes with    *)
(* the kernel and the configuration.                                       *)
LEMMA SameHolds ==
    ASSUME NEW p, UNCHANGED <<fib, rules>>, cfg'[p] = cfg[p]
    PROVE  /\ Holds(p)' = Holds(p)
           /\ HoldsRules(p)' = HoldsRules(p)
BY DEF Holds, HoldsRules, Indexes

(* The groups of a run depend on its configuration alone.                  *)
LEMMA SameConfig ==
    ASSUME NEW p, cfg'[p] = cfg[p]
    PROVE  /\ Indexes(p)' = Indexes(p)
           /\ Tables(p)' = Tables(p)
           /\ NeedsRules(p)' = NeedsRules(p)
           /\ at'[p] = at[p] => Past(p)' = Past(p)
BY DEF Tables, NeedsRules, Indexes, Past

(* What they should own of routes only changes with the world and, where   *)
(* the source is down, the saved list.                                     *)
LEMMA SameList ==
    ASSUME NEW c, NEW g, UNCHANGED world,
           store'[g.name] = store[g.name] \/ world.source[g.name].ok
    PROVE  /\ Available(g)' <=> Available(g)
           /\ ListNow(c, g)' = ListNow(c, g)
           /\ WantedNow(c, g)' = WantedNow(c, g)
<1>1. Available(g)' <=> Available(g)
  BY DEF Available
<1>2. ListNow(c, g)' = ListNow(c, g)
  BY DEF ListNow
<1>3. WantedNow(c, g)' = WantedNow(c, g)
  BY <1>2 DEF WantedNow
<1> QED
  BY <1>1, <1>2, <1>3

(* What the groups need changes only with the host, or with a saved list   *)
(* whose source is down.                                                   *)
LEMMA SameNeeds ==
    ASSUME NEW p, cfg'[p] = cfg[p], UNCHANGED world,
           \A i \in Indexes(p) : LET n == cfg[p].groups[i].name
                                 IN  store'[n] = store[n] \/ world.source[n].ok
    PROVE  /\ Needs(p)' = Needs(p)
           /\ at'[p] = at[p] => Done(p)' = Done(p)
<1> DEFINE c == cfg[p]
<1>1. \A i \in DOMAIN c.groups :
        /\ Available(c.groups[i])' <=> Available(c.groups[i])
        /\ WantedNow(c, c.groups[i])' = WantedNow(c, c.groups[i])
  BY SameList DEF Indexes
<1>2. Needs(p)' = Needs(p)
  BY <1>1 DEF Needs, Indexes
<1>3. at'[p] = at[p] => Done(p)' = Done(p)
  BY <1>1 DEF Done, Past, Indexes
<1> QED
  BY <1>2, <1>3

(* The groups there are.                                                   *)
LEMMA GroupAt ==
    ASSUME IInv, NEW p \in Procs, NEW i \in Indexes(p)
    PROVE  /\ i \in Nat \ {0} /\ i =< Len(cfg[p].groups) /\ Len(cfg[p].groups) \in Nat
           /\ cfg[p] \in Configs /\ cfg[p] \in Config /\ cfg[p].proto \in Nat
           /\ cfg[p].groups[i] \in Group
           /\ cfg[p].groups[i] \in GroupsOf(cfg[p])
<1>1. cfg[p] \in Configs
  BY DEF IInv, ControlInv
<1>2. cfg[p].groups \in Seq(Group)
  BY <1>1, ConfigsAssumption DEF Config
<1>3. i \in Nat \ {0} /\ i =< Len(cfg[p].groups) /\ Len(cfg[p].groups) \in Nat
  BY <1>2 DEF Indexes
<1> QED
  BY <1>1, <1>3, GroupFacts

(* All of it, where nothing is noticed.                                    *)
LEMMA UnnoticedKeeps ==
    ASSUME NEW p, Unnoticed(p)
    PROVE  /\ Indexes(p)' = Indexes(p) /\ Tables(p)' = Tables(p)
           /\ Needs(p)' = Needs(p) /\ Holds(p)' = Holds(p)
           /\ NeedsRules(p)' = NeedsRules(p) /\ HoldsRules(p)' = HoldsRules(p)
           /\ Past(p)' = Past(p) /\ Done(p)' = Done(p)
<1>1. UNCHANGED <<fib, rules, store, world>> /\ cfg'[p] = cfg[p] /\ at'[p] = at[p]
  BY DEF Unnoticed, LocalsKept
<1> QED
  BY <1>1, SameHolds, SameConfig, SameNeeds

(* A step of p before it applies anything changes none of it either,       *)
(* SaveGroup included: the list is saved when the source has answered.     *)
LEMMA PlanningKeeps ==
    ASSUME IInv, NEW p \in Procs, pc[p] \in PlanningLabels, DraftInv(p),
           FetchGroup(p) \/ SaveGroup(p) \/ ResolveGroup(p) \/ ListGroupRoutes(p)
              \/ PlanGroup(p) \/ PlanCleanupGroup(p), cfg'[p] = cfg[p]
    PROVE  /\ Indexes(p)' = Indexes(p) /\ Tables(p)' = Tables(p)
           /\ Needs(p)' = Needs(p) /\ Holds(p)' = Holds(p)
           /\ NeedsRules(p)' = NeedsRules(p) /\ HoldsRules(p)' = HoldsRules(p)
           /\ at'[p] = at[p] => Past(p)' = Past(p) /\ Done(p)' = Done(p)
           /\ \A i \in Indexes(p) : Available(cfg[p].groups[i])' <=> Available(cfg[p].groups[i])
           /\ UNCHANGED <<fib, rules, world>>
<1>1. UNCHANGED <<fib, rules, world>>
  BY DEF FetchGroup, SaveGroup, ResolveGroup, ListGroupRoutes, PlanGroup, PlanCleanupGroup
<1>2. ASSUME NEW n \in Names
      PROVE  store'[n] = store[n] \/ world.source[n].ok
  <2>1. CASE UNCHANGED store
    BY <2>1
  <2>2. CASE SaveGroup(p)
    <3>1. world.source[Current(p).name].ok
      BY <2>2 DEF DraftInv, SaveGroup
    <3>2. n # Current(p).name => store'[n] = store[n]
      BY <2>2 DEF SaveGroup, IInv, HostInv
    <3> QED
      BY <3>1, <3>2
  <2> QED
    BY <2>1, <2>2 DEF FetchGroup, ResolveGroup, ListGroupRoutes, PlanGroup, PlanCleanupGroup
<1>3. \A i \in Indexes(p) : cfg[p].groups[i].name \in Names
  BY GroupAt DEF Group
<1>4. \A i \in Indexes(p) : LET n == cfg[p].groups[i].name
                            IN  store'[n] = store[n] \/ world.source[n].ok
  BY <1>2, <1>3
<1>5. \A i \in Indexes(p) : Available(cfg[p].groups[i])' <=> Available(cfg[p].groups[i])
  BY <1>1, <1>4, SameList
<1> QED
  BY <1>1, <1>4, <1>5, SameHolds, SameConfig, SameNeeds

(* While p is undisturbed, what it has found out about its group stays     *)
(* true.                                                                   *)
LEMMA NextDraft ==
    ASSUME IInv, [Next]_vars, NEW p \in Procs, calm[p] => DraftInv(p), calm'[p]
    PROVE  DraftInv(p)'
<1>1. CASE Unnoticed(p)
  <2>1. /\ UNCHANGED <<fib, rules, store, world>>
        /\ pc'[p] = pc[p] /\ kind'[p] = kind[p] /\ cfg'[p] = cfg[p] /\ at'[p] = at[p]
        /\ draft'[p] = draft[p] /\ DraftInv(p)
    BY <1>1 DEF Unnoticed, LocalsKept
  <2>2. Current(p)' = Current(p)
    BY <2>1 DEF Current
  <2>3. /\ Available(Current(p))' <=> Available(Current(p))
        /\ ListNow(cfg[p], Current(p))' = ListNow(cfg[p], Current(p))
    BY <2>1, <2>2 DEF Available, ListNow
  <2> QED
    BY <2>1, <2>2, <2>3 DEF DraftInv
<1>2. ASSUME pc'[p] \in {"fetch", "planned", "apply", "idle"}
             \/ (pc'[p] = "routes" /\ kind'[p] = "cleanup")
      PROVE  DraftInv(p)'
  BY <1>2 DEF DraftInv
<1>3. CASE StartSome(p)
  BY <1>2, <1>3, StartsAt DEF StartSome
<1>4. ASSUME NEW r, End(p, r)
      PROVE  DraftInv(p)'
  BY <1>2, <1>4, EndsAt
<1>5. ASSUME Advance(p), UNCHANGED kind
      PROVE  DraftInv(p)'
  BY <1>2, <1>5, AdvancesTo
<1>6. CASE FetchGroup(p)
  <2>1. /\ UNCHANGED <<fib, rules, store, world, kind, cfg>>
        /\ pc[p] = "fetch"
    BY <1>6 DEF FetchGroup, job
  <2>2. ASSUME UNCHANGED at
        PROVE  /\ Current(p)' = Current(p)
               /\ Available(Current(p))' <=> Available(Current(p))
               /\ ListNow(cfg[p], Current(p))' = ListNow(cfg[p], Current(p))
    BY <2>1, <2>2 DEF Current, Available, ListNow
  <2>3. CASE /\ world.source[Current(p).name].ok
             /\ Took(p, world.source[Current(p).name].prefixes)
             /\ Goto(p, "save")
             /\ UNCHANGED at
    <3>1. draft'[p].prefixes = ListNow(cfg[p], Current(p))
      BY <2>3 DEF Took, ListNow, IInv, DataInv, OurDraft
    <3>2. Available(Current(p)) /\ pc'[p] = "save"
      BY <2>3 DEF Available, Goto, IInv, ControlInv
    <3> QED
      BY <2>1, <2>2, <2>3, <3>1, <3>2 DEF DraftInv
  <2>4. CASE /\ ~world.source[Current(p).name].ok /\ store[Current(p).name].ok
             /\ Took(p, store[Current(p).name].prefixes)
             /\ Goto(p, "resolve")
             /\ UNCHANGED at
    <3>1. draft'[p].prefixes = ListNow(cfg[p], Current(p))
      BY <2>4 DEF Took, ListNow, IInv, DataInv, OurDraft
    <3>2. Available(Current(p)) /\ pc'[p] = "resolve"
      BY <2>4 DEF Available, Goto, IInv, ControlInv
    <3> QED
      BY <2>1, <2>2, <2>4, <3>1, <3>2 DEF DraftInv
  <2>5. CASE Skip(p)
    BY <1>5, <2>1, <2>5 DEF Skip
  <2> QED
    BY <1>6, <2>3, <2>4, <2>5 DEF FetchGroup
<1>7. CASE calm[p] /\ SaveGroup(p)
  <2>1. /\ UNCHANGED <<fib, rules, world, at, draft, kind, cfg>>
        /\ pc[p] = "save" /\ pc'[p] = "resolve" /\ DraftInv(p)
    BY <1>7 DEF SaveGroup, job, Goto, IInv, ControlInv
  <2>2. Current(p)' = Current(p)
    BY <2>1 DEF Current
  <2>3. world.source[Current(p).name].ok
    BY <2>1 DEF DraftInv
  <2>4. /\ Available(Current(p))'
        /\ ListNow(cfg[p], Current(p))' = ListNow(cfg[p], Current(p))
    BY <2>1, <2>2, <2>3 DEF Available, ListNow
  <2> QED
    BY <2>1, <2>2, <2>4 DEF DraftInv
<1>8. CASE calm[p] /\ ResolveGroup(p) /\ ~LinkMissing(Current(p), world)
  <2>1. /\ UNCHANGED <<fib, rules, store, world, at, kind, cfg>>
        /\ pc[p] = "resolve" /\ pc'[p] = "routes" /\ DraftInv(p)
        /\ draft' = [draft EXCEPT ![p].res = Resolve(Current(p), world)]
    BY <1>8 DEF ResolveGroup, job, Goto, IInv, ControlInv
  <2>2. draft'[p].res = Resolve(Current(p), world) /\ draft'[p].prefixes = draft[p].prefixes
    BY <2>1 DEF IInv, DataInv, OurDraft
  <2>3. /\ Current(p)' = Current(p)
        /\ Available(Current(p))' <=> Available(Current(p))
        /\ ListNow(cfg[p], Current(p))' = ListNow(cfg[p], Current(p))
    BY <2>1 DEF Current, Available, ListNow
  <2> QED
    BY <2>1, <2>2, <2>3 DEF DraftInv
<1>9. CASE calm[p] /\ ListGroupRoutes(p)
  <2>1. /\ UNCHANGED <<fib, rules, store, world, at, kind, cfg>>
        /\ pc[p] = "routes" /\ pc'[p] = "rules" /\ DraftInv(p)
        /\ draft' = [draft EXCEPT ![p].routes = OwnedRoutes(fib, cfg[p], Current(p))]
    BY <1>9 DEF ListGroupRoutes, job, Goto, IInv, ControlInv
  <2>2. /\ draft'[p].routes = OwnedRoutes(fib, cfg[p], Current(p))
        /\ draft'[p].prefixes = draft[p].prefixes /\ draft'[p].res = draft[p].res
    BY <2>1 DEF IInv, DataInv, OurDraft
  <2>3. /\ Current(p)' = Current(p)
        /\ Available(Current(p))' <=> Available(Current(p))
        /\ ListNow(cfg[p], Current(p))' = ListNow(cfg[p], Current(p))
    BY <2>1 DEF Current, Available, ListNow
  <2> QED
    BY <2>1, <2>2, <2>3 DEF DraftInv
<1>10. CASE PlanGroup(p) \/ PlanCleanupGroup(p)
  BY <1>5, <1>10 DEF PlanGroup, PlanCleanupGroup, job
<1>11. CASE pc'[p] = "apply"
  BY <1>2, <1>11
<1>12. CASE ApplyAddRule(p) \/ ApplyDeleteRule(p) \/ ApplyAddRoute(p) \/ ApplyDeleteRoute(p)
  BY <1>11, <1>12 DEF ApplyAddRule, ApplyDeleteRule, ApplyAddRoute, ApplyDeleteRoute,
     Succeeds, Made
<1>13. CASE ApplyDone(p)
  BY <1>4, <1>13 DEF ApplyDone
<1> QED
  BY <1>1, <1>3, <1>4, <1>6, <1>7, <1>8, <1>9, <1>10, <1>11, <1>12, <1>13, CalmStep, ActsAt

(* What holds of every configuration.                                      *)
BaseInv ==
    /\ IInv
    /\ FibInv
    /\ \A p \in Procs : LocalInv(p) /\ (calm[p] => DraftInv(p))

(* The base invariant holds at first.                                      *)
LEMMA InitBase == Init => BaseInv
<1> SUFFICES ASSUME Init PROVE BaseInv
  OBVIOUS
<1>1. \A p \in Procs : ~calm[p]
  BY Zenon DEF Init
<1> QED
  BY <1>1, InitIInv, InitFib, InitLocal DEF BaseInv

(* Every step keeps the base invariant.                                    *)
LEMMA NextBase == BaseInv /\ [Next]_vars => BaseInv'
<1> SUFFICES ASSUME BaseInv, [Next]_vars PROVE BaseInv'
  OBVIOUS
<1>1. IInv' /\ FibInv'
  BY NextIInv, NextFib DEF BaseInv
<1>2. ASSUME NEW p \in Procs
      PROVE  LocalInv(p)' /\ (calm'[p] => DraftInv(p)')
  BY NextLocal, NextDraft DEF BaseInv
<1> QED
  BY <1>1, <1>2 DEF BaseInv

(* What every later argument starts from: well-typed and owned entries,    *)
(* one route per slot, local variables in order, and drafts that are true  *)
(* as long as their process is undisturbed.                                *)
THEOREM BaseInvariance == Spec => []BaseInv
<1> QED
  BY InitBase, NextBase, PTL DEF Spec

-----------------------------------------------------------------------------
(* Routes *)

RoutesInv(p) ==
    /\ Planning(p) /\ kind[p] # "cleanup" =>
          RoutePlan(plan[p], want[p].routes, Done(p), Needs(p), Holds(p))
    /\ pc[p] = "apply" /\ kind[p] # "cleanup" =>
          RouteCallsLeft(calls[p], want[p].routes, fib, Done(p), Needs(p), Holds(p), Tables(p))
    /\ result[p] = "ok" /\ kind[p] = "apply" =>
          \A g \in GroupsOf(cfg[p]) : Available(g) => RoutesConverged(cfg[p], g)

(* What a plan built now would want is of the group's own.                 *)
LEMMA WantedNowOwned ==
    ASSUME IInv, NEW c \in Configs, NEW g \in Group
    PROVE  WantedNow(c, g) \subseteq RoutesOf(c.proto, g)
<1>1. c.proto \in Nat /\ g.name \in Names /\ world \in World
  BY ConfigsAssumption, WorldsAssumption DEF Config, Group, IInv, HostInv
<1>2. world.source[g.name].prefixes \in SUBSET RawPrefix
  BY <1>1 DEF World
<1>3. store[g.name].prefixes \in SUBSET RawPrefix
  BY <1>1 DEF IInv, HostInv, State, Prefix
<1>4. ListNow(c, g) \in SUBSET Prefix
  BY <1>2, <1>3, NormalizeType DEF ListNow
<1>5. Resolve(g, world) \in Resolved
  BY <1>1, ResolveType
<1> QED
  BY <1>1, <1>4, <1>5, DesiredRoutesOwned DEF WantedNow

(* Each group has its own table, needs and holds only routes of it.        *)
LEMMA SeparateGroups ==
    ASSUME IInv, OwnTables, NEW p \in Procs, NEW D \in SUBSET Indexes(p)
    PROVE  /\ DOMAIN Needs(p) = Indexes(p)
           /\ Separate(D, Needs(p), Holds(p), Tables(p))
           /\ \A i \in Indexes(p) : Holds(p)[i] \subseteq fib
<1>1. ASSUME NEW i \in Indexes(p)
      PROVE  /\ \A r \in Needs(p)[i] \cup Holds(p)[i] : r.table = Tables(p)[i]
             /\ Holds(p)[i] \subseteq fib
  <2> DEFINE g == cfg[p].groups[i]
  <2>1. cfg[p] \in Configs /\ cfg[p] \in Config /\ g \in Group
    BY GroupAt
  <2>2. WantedNow(cfg[p], g) \subseteq RoutesOf(cfg[p].proto, g)
    BY <2>1, WantedNowOwned
  <2>3. OwnedRoutes(fib, cfg[p], g) \subseteq RoutesOf(cfg[p].proto, g)
    BY <2>1, OwnedRoutesOwned DEF IInv, HostInv
  <2>4. OwnedRoutes(fib, cfg[p], g) \subseteq fib
    BY DEF OwnedRoutes, ListRoutes
  <2> QED
    BY <2>2, <2>3, <2>4 DEF Needs, Holds, Tables, RoutesOf
<1>2. \A i, j \in Indexes(p) : Tables(p)[i] = Tables(p)[j] => i = j
  BY DEF OwnTables, Tables, Indexes, IInv, ControlInv
<1>3. DOMAIN Needs(p) = Indexes(p)
  BY DEF Needs
<1> QED
  BY <1>1, <1>2, <1>3 DEF Separate

(* Before the first group, and past the last.                              *)
LEMMA StartsEmpty ==
    ASSUME IInv', NEW p \in Procs, at'[p] = 1
    PROVE  Past(p)' = {} /\ Done(p)' = {}
<1>1. cfg'[p].groups \in Seq(Group)
  BY ConfigsAssumption DEF IInv, ControlInv, Config
<1>2. \A i \in DOMAIN cfg'[p].groups : i \in Nat \ {0}
  BY <1>1
<1> QED
  BY <1>2 DEF Past, Done, Indexes

(* A process that has passed the last group has passed them all.           *)
LEMMA LastGroup ==
    ASSUME NEW p, IInv, p \in Procs, at[p] > Len(cfg[p].groups)
    PROVE  Past(p) = Indexes(p)
<1>1. \A i \in Indexes(p) : /\ i \in Nat \ {0} /\ i =< Len(cfg[p].groups)
                            /\ Len(cfg[p].groups) \in Nat
  BY GroupAt
<1>2. at[p] \in Nat
  BY DEF IInv, ControlInv
<1> QED
  BY <1>1, <1>2 DEF Past

(* One more group.                                                         *)
LEMMA NextGroup ==
    ASSUME IInv, NEW p \in Procs, pc[p] \in PlanningLabels, DraftInv(p),
           FetchGroup(p) \/ PlanGroup(p) \/ PlanCleanupGroup(p), Advance(p)
    PROVE  /\ at[p] \in Indexes(p) /\ at[p] \notin Past(p)
           /\ Past(p)' = Past(p) \cup {at[p]}
           /\ Done(p)' = Done(p) \cup (IF Available(Current(p)) THEN {at[p]} ELSE {})
<1>1. UNCHANGED cfg /\ at'[p] = at[p] + 1
  BY AdvancesTo DEF FetchGroup, PlanGroup, PlanCleanupGroup, job
<1>2. /\ Indexes(p)' = Indexes(p)
      /\ \A i \in Indexes(p) : Available(cfg[p].groups[i])' <=> Available(cfg[p].groups[i])
  BY <1>1, PlanningKeeps
<1>3. at[p] \in Nat \ {0} /\ at[p] =< Len(cfg[p].groups)
  BY DEF IInv, ControlInv
<1>4. cfg[p].groups \in Seq(Group)
  BY ConfigsAssumption DEF IInv, ControlInv, Config
<1>5. at[p] \in Indexes(p) /\ \A i \in Indexes(p) : i \in Nat
  BY <1>3, <1>4 DEF Indexes
<1>6. Past(p)' = Past(p) \cup {at[p]}
  BY <1>1, <1>2, <1>3, <1>5 DEF Past
<1>7. \A i \in Past(p) \cup {at[p]} : Available(cfg[p].groups[i])' <=> Available(cfg[p].groups[i])
  BY <1>2, <1>5 DEF Past
<1>8. Done(p)' = {i \in Past(p) \cup {at[p]} : Available(cfg[p].groups[i])}
  BY <1>1, <1>6, <1>7 DEF Done
<1> QED
  BY <1>5, <1>6, <1>8 DEF Past, Done, Current

(* The steps that find out what to plan.                                   *)
LEMMA FindsOut ==
    ASSUME IInv, NEW p \in Procs,
           FetchGroup(p) \/ SaveGroup(p) \/ (ResolveGroup(p) /\ ~LinkMissing(Current(p), world))
              \/ ListGroupRoutes(p)
    PROVE  /\ pc[p] \in PlanningLabels /\ pc'[p] # "apply" /\ pc'[p] # "idle"
           /\ plan'[p] = plan[p] /\ want'[p] = want[p] /\ UNCHANGED <<kind, cfg>>
           /\ UNCHANGED at \/ (Advance(p) /\ FetchGroup(p) /\ ~Available(Current(p)))
<1>1. CASE FetchGroup(p)
  <2>1. pc[p] = "fetch" /\ UNCHANGED <<plan, want, kind, cfg>>
    BY <1>1 DEF FetchGroup, job
  <2>2. \/ pc'[p] \in {"save", "resolve"} /\ UNCHANGED at
        \/ Advance(p) /\ ~Available(Current(p))
    BY <1>1 DEF FetchGroup, Skip, Goto, Available, IInv, ControlInv
  <2>3. pc'[p] # "apply" /\ pc'[p] # "idle"
    BY <2>2, AdvancesTo
  <2> QED
    BY <1>1, <2>1, <2>2, <2>3 DEF PlanningLabels
<1>2. CASE SaveGroup(p)
  BY <1>2 DEF SaveGroup, Goto, job, PlanningLabels, IInv, ControlInv
<1>3. CASE ResolveGroup(p) /\ ~LinkMissing(Current(p), world)
  BY <1>3 DEF ResolveGroup, Goto, job, PlanningLabels, IInv, ControlInv
<1>4. CASE ListGroupRoutes(p)
  BY <1>4 DEF ListGroupRoutes, Goto, job, PlanningLabels, IInv, ControlInv
<1> QED
  BY <1>1, <1>2, <1>3, <1>4

(* No batch is ready: all calls are made.                                  *)
LEMMA NoneReady ==
    ASSUME IInv, NEW p \in Procs, Ready(p) = {}
    PROVE  \A op : ArgsOf(calls[p], op) = {}
<1> DEFINE left == {i \in DOMAIN calls[p] : calls[p][i].args # {}}
<1>1. left \subseteq Nat
  BY PlanBatches
<1>2. ASSUME left # {} PROVE FALSE
  <2>1. PICK i \in left : \A j \in left : i =< j
    BY <1>1, <1>2, LeastOfNats
  <2>2. ASSUME NEW j \in 1 .. i - 1 PROVE calls[p][j].args = {}
    <3>1. j \in DOMAIN calls[p] /\ j \in Nat /\ i \in Nat /\ ~(i =< j)
      BY <2>1, PlanBatches
    <3> QED
      BY <2>1, <3>1
  <2> QED
    BY <2>1, <2>2 DEF Ready
<1>3. \A i \in DOMAIN calls[p] : calls[p][i].args = {}
  BY <1>2
<1> QED
  BY <1>3, ArgsOfDef

(* With all calls made, the groups have converged.                         *)
LEMMA AllMade ==
    ASSUME BaseInv, OwnTables, NEW p \in Procs, at[p] > Len(cfg[p].groups),
           \A op : ArgsOf(calls[p], op) = {},
           RouteCallsLeft(calls[p], want[p].routes, fib, Done(p), Needs(p), Holds(p), Tables(p)),
           NEW g \in GroupsOf(cfg[p]), Available(g)
    PROVE  RoutesConverged(cfg[p], g)
<1> DEFINE W == want[p].routes
<1>0. IInv
  BY DEF BaseInv
<1>1. PICK i \in Indexes(p) : g = cfg[p].groups[i]
  BY DEF GroupsOf, Indexes
<1>2. i \in Done(p) /\ Done(p) \subseteq Indexes(p)
  BY <1>0, <1>1, LastGroup DEF Done, Past
<1>3. /\ W = Gather(Needs(p), Done(p))
      /\ \A r \in W : \E q \in fib : SameSlot(q, Installed(r))
      /\ \A q \in Holds(p)[i] : \E r \in W : q = Installed(r)
  BY <1>2 DEF RouteCallsLeft
<1>4. Separate(Done(p), Needs(p), Holds(p), Tables(p))
  BY <1>0, <1>2, SeparateGroups
<1>5. Needs(p)[i] = WantedNow(cfg[p], g) /\ Holds(p)[i] = OwnedRoutes(fib, cfg[p], g)
  BY <1>1 DEF Needs, Holds
<1>6. ASSUME NEW q \in Holds(p)[i]
      PROVE  \E r \in Needs(p)[i] : q = Installed(r)
  <2>1. PICK r \in W : q = Installed(r)
    BY <1>3
  <2>2. PICK j \in Done(p) : r \in Needs(p)[j]
    BY <1>3, GatherDef
  <2>3. r.table = Tables(p)[j] /\ q.table = Tables(p)[i]
    BY <1>2, <1>4, <2>2 DEF Separate
  <2>4. r \in Route
    <3>1. cfg[p].groups[j] \in Group /\ cfg[p] \in Configs
      BY <1>0, <1>2, GroupAt
    <3>2. Needs(p)[j] = WantedNow(cfg[p], cfg[p].groups[j])
      BY <1>2 DEF Needs
    <3> QED
      BY <1>0, <2>2, <3>1, <3>2, WantedNowOwned DEF RoutesOf
  <2>5. q.table = r.table
    BY <2>1, <2>4, InstalledType
  <2>6. i = j
    BY <1>2, <1>4, <2>3, <2>5 DEF Separate
  <2> QED
    BY <2>1, <2>2, <2>6
<1>7. OwnedRoutes(fib, cfg[p], g) \subseteq {Installed(r) : r \in WantedNow(cfg[p], g)}
  BY <1>5, <1>6
<1>8. ASSUME NEW r \in WantedNow(cfg[p], g)
      PROVE  \E q \in fib : SameSlot(q, Installed(r))
  <2>1. i \in Done(p) /\ r \in Needs(p)[i]
    BY <1>2, <1>5
  <2>2. r \in W
    BY <1>3, <2>1, GatherDef
  <2> QED
    BY <1>3, <2>2
<1> QED
  BY <1>7, <1>8 DEF RoutesConverged

(* What the groups hold after a route is added or deleted.                 *)
LEMMA HoldsAfter ==
    ASSUME NEW p, cfg'[p] = cfg[p], NEW i \in Indexes(p), NEW r
    PROVE  /\ fib' = AddRoute(fib, r) => Holds(p)'[i] \subseteq Holds(p)[i] \cup {Installed(r)}
           /\ fib' = fib \ {r} => Holds(p)'[i] \subseteq Holds(p)[i] \ {r}
<1>1. /\ Holds(p)[i] = OwnedRoutes(fib, cfg[p], cfg[p].groups[i])
      /\ Holds(p)'[i] = OwnedRoutes(fib', cfg[p], cfg[p].groups[i])
  BY DEF Holds, Indexes
<1> QED
  BY <1>1 DEF OwnedRoutes, ListRoutes, AddRoute

(* Every step keeps the account of the routes of an undisturbed run.       *)
LEMMA NextRoutes ==
    ASSUME BaseInv, BaseInv', OwnTables, [Next]_vars, NEW p \in Procs,
           calm[p] => RoutesInv(p), calm'[p]
    PROVE  RoutesInv(p)'
<1>0. IInv /\ IInv' /\ LocalInv(p) /\ LocalInv(p)' /\ Fib(fib)
  BY DEF BaseInv, FibInv
<1>1. CASE Unnoticed(p)
  <2>1. /\ UNCHANGED <<fib, rules, store, world>>
        /\ pc'[p] = pc[p] /\ kind'[p] = kind[p] /\ cfg'[p] = cfg[p] /\ plan'[p] = plan[p]
        /\ calls'[p] = calls[p] /\ result'[p] = result[p] /\ want'[p] = want[p] /\ RoutesInv(p)
    BY <1>1 DEF Unnoticed, LocalsKept
  <2>2. /\ Tables(p)' = Tables(p) /\ Needs(p)' = Needs(p) /\ Holds(p)' = Holds(p)
        /\ Done(p)' = Done(p)
    BY <1>1, UnnoticedKeeps
  <2>3. ASSUME NEW g
        PROVE  /\ Available(g)' <=> Available(g)
               /\ RoutesConverged(cfg[p], g)' <=> RoutesConverged(cfg[p], g)
    <3>1. /\ Available(g)' <=> Available(g)
          /\ WantedNow(cfg[p], g)' = WantedNow(cfg[p], g)
      BY <2>1 DEF Available, WantedNow, ListNow
    <3> QED
      BY <2>1, <3>1 DEF RoutesConverged
  <2>4. GroupsOf(cfg[p])' = GroupsOf(cfg[p])
    BY <2>1
  <2> QED
    BY <2>1, <2>2, <2>3, <2>4 DEF RoutesInv, Planning
<1>2. ASSUME pc'[p] = "idle", result'[p] # "ok" \/ kind'[p] # "apply"
      PROVE  RoutesInv(p)'
  BY <1>2 DEF RoutesInv, Planning, PlanningLabels
<1>3. ASSUME NEW r, r # "ok", End(p, r)
      PROVE  RoutesInv(p)'
  BY <1>0, <1>2, <1>3, EndsAt
<1>4. ASSUME kind'[p] = "cleanup"
      PROVE  RoutesInv(p)'
  BY <1>4 DEF RoutesInv
<1>5. CASE StartSome(p)
  <2>1. /\ plan'[p] = NoPlan /\ want'[p] = NoWant /\ at'[p] = 1 /\ result'[p] = "none"
        /\ pc'[p] # "apply"
    BY <1>0, <1>5, StartsAt DEF StartSome, LocalInv
  <2>2. Done(p)' = {}
    BY <1>0, <2>1, StartsEmpty
  <2>3. \A f : Gather(f, {}) = {}
    BY DEF Gather
  <2>4. RoutePlan(NoPlan, {}, {}, Needs(p)', Holds(p)')
    BY <2>3, EmptyPlan DEF RoutePlan, NoPlan
  <2> QED
    BY <2>1, <2>2, <2>4 DEF RoutesInv, NoWant
<1>6. CASE /\ calm[p]
           /\ FetchGroup(p) \/ SaveGroup(p) \/ (ResolveGroup(p) /\ ~LinkMissing(Current(p), world))
              \/ ListGroupRoutes(p)
  <2>1. /\ pc[p] \in PlanningLabels /\ pc'[p] # "apply" /\ pc'[p] # "idle"
        /\ plan'[p] = plan[p] /\ want'[p] = want[p] /\ UNCHANGED <<kind, cfg>>
        /\ UNCHANGED at \/ (Advance(p) /\ FetchGroup(p) /\ ~Available(Current(p)))
    BY <1>0, <1>6, FindsOut
  <2>2. DraftInv(p) /\ RoutesInv(p)
    BY <1>6 DEF BaseInv
  <2>3. Needs(p)' = Needs(p) /\ Holds(p)' = Holds(p) /\ (UNCHANGED at => Done(p)' = Done(p))
    BY <1>0, <1>6, <2>1, <2>2, PlanningKeeps
  <2>4. Done(p)' = Done(p)
    BY <1>0, <2>1, <2>2, <2>3, NextGroup
  <2>5. result'[p] = "none"
    BY <1>0, <2>1 DEF LocalInv
  <2> QED
    BY <2>1, <2>2, <2>3, <2>4, <2>5 DEF RoutesInv, Planning
<1>7. CASE calm[p] /\ PlanGroup(p)
  <2>1. pc[p] = "rules" /\ kind[p] # "cleanup" /\ UNCHANGED <<kind, cfg>> /\ Advance(p)
    BY <1>7 DEF PlanGroup, job
  <2>2. pc[p] \in PlanningLabels /\ DraftInv(p) /\ RoutesInv(p)
    BY <1>7, <2>1 DEF BaseInv, PlanningLabels
  <2>3. pc'[p] # "apply" /\ pc'[p] # "idle" /\ result'[p] = "none"
    BY <1>0, <2>1, AdvancesTo DEF LocalInv
  <2> DEFINE n == at[p]
             routes == DesiredRoutes(cfg[p].proto, Current(p), draft[p].prefixes, draft[p].res, world)
             one == Replace(routes, draft[p].routes)
             two == Retire(routes, draft[p].routes)
             D == Done(p)
             need == Needs(p)
             hold == Holds(p)
             W == want[p].routes
  <2>4. /\ plan'[p].pass1 = plan[p].pass1 \o one
        /\ plan'[p].pass2 = plan[p].pass2 \o two
        /\ one \in Seq(Batch) /\ two \in Seq(Batch)
        /\ want'[p].routes = W \cup routes
    BY <1>0, <1>7, PlansGroup
  <2>5. n \in Indexes(p) /\ n \notin D /\ D \subseteq Indexes(p) /\ Done(p)' = D \cup {n}
    <3>1. Available(Current(p))
      BY <2>1, <2>2 DEF DraftInv
    <3> QED
      BY <1>0, <1>7, <2>1, <2>2, <3>1, NextGroup DEF Done, Past
  <2>6. Needs(p)' = need /\ Holds(p)' = hold
    BY <1>0, <1>7, <2>1, <2>2, PlanningKeeps
  <2>7. need[n] = routes /\ hold[n] = draft[p].routes
    BY <2>1, <2>2, <2>5 DEF Needs, Holds, WantedNow, DraftInv, Current
  <2>8. DOMAIN need = Indexes(p) /\ Separate(D \cup {n}, need, hold, Tables(p))
    BY <1>0, <2>5, SeparateGroups
  <2>9. RoutePlan(plan[p], W, D, need, hold) /\ InPasses(plan[p])
    BY <1>0, <2>1, <2>2 DEF RoutesInv, Planning, LocalInv
  <2>10. one = Replace(need[n], hold[n]) /\ two = Retire(need[n], hold[n])
    BY <2>7
  <2> HIDE DEF n, routes, one, two, D, need, hold, W
  <2>11. RoutePlan(plan'[p], W \cup need[n], D \cup {n}, need, hold)
    BY <1>0, <2>4, <2>5, <2>8, <2>9, <2>10, PlanBatches, RoutePlanGrows
  <2>12. RoutePlan(plan'[p], want'[p].routes, Done(p)', Needs(p)', Holds(p)')
    BY <2>4, <2>5, <2>6, <2>7, <2>11
  <2> QED
    BY <2>3, <2>12 DEF RoutesInv
<1>8. CASE PlanCleanupGroup(p)
  BY <1>4, <1>8 DEF PlanCleanupGroup, job
<1>9. CASE /\ calm[p] /\ pc[p] = "planned" /\ kind[p] # "check"
           /\ calls'[p] = Schedule(plan[p]) /\ pc'[p] = "apply" /\ plan'[p] = NoPlan
           /\ UNCHANGED <<fib, rules, store, world, at, draft, want, result, kind, cfg>>
  <2>0. CASE kind[p] = "cleanup"
    BY <1>4, <1>9, <2>0
  <2> SUFFICES ASSUME kind[p] # "cleanup" PROVE RoutesInv(p)'
    BY <2>0
  <2>1. /\ RoutePlan(plan[p], want[p].routes, Done(p), Needs(p), Holds(p))
        /\ InPasses(plan[p]) /\ result[p] = "none"
    BY <1>0, <1>9 DEF RoutesInv, Planning, LocalInv
  <2>2. Done(p) \subseteq Indexes(p)
    BY DEF Done, Past
  <2>3. /\ DOMAIN Needs(p) = Indexes(p)
        /\ Separate(Done(p), Needs(p), Holds(p), Tables(p))
        /\ \A i \in Done(p) : Holds(p)[i] \subseteq fib
    BY <1>0, <2>2, SeparateGroups
  <2>4. RouteCallsLeft(Schedule(plan[p]), want[p].routes, fib, Done(p), Needs(p), Holds(p), Tables(p))
    BY <1>0, <2>1, <2>2, <2>3, PlanBatches, PlanToRouteCalls DEF Schedule
  <2>5. /\ Tables(p)' = Tables(p) /\ Needs(p)' = Needs(p) /\ Holds(p)' = Holds(p)
        /\ Done(p)' = Done(p)
    BY <1>9, SameHolds, SameConfig, SameNeeds
  <2> QED
    BY <1>9, <2>1, <2>4, <2>5 DEF RoutesInv, Planning, PlanningLabels
<1>10. ASSUME calm[p], NEW op, NEW i \in DOMAIN calls[p], NEW r \in calls[p][i].args,
              Succeeds(p, op, i, r), Made(p, i, r),
              \/ op \in {"AddRule", "DeleteRule"} /\ UNCHANGED fib
              \/ op = "AddRoute" /\ fib' = AddRoute(fib, r)
              \/ op = "DeleteRoute" /\ fib' = DeleteRoute(fib, r)
       PROVE  RoutesInv(p)'
  <2>0. CASE kind[p] = "cleanup"
    BY <1>4, <1>10, <2>0 DEF Made, job
  <2> SUFFICES ASSUME kind[p] # "cleanup" PROVE RoutesInv(p)'
    BY <2>0
  <2>1. /\ pc[p] = "apply"
        /\ calls[p] \in Seq(Batch)
        /\ calls[p][i].op = op
        /\ \A j \in DOMAIN calls[p] : j < i => calls[p][j].args = {}
        /\ calls'[p] = TakenOff(calls[p], i, r)
        /\ UNCHANGED <<store, world, pc, at, draft, plan, want, result, kind, cfg>>
        /\ op \in {"AddRoute", "DeleteRoute"} => r \in Route
    BY <1>0, <1>10, CallMade
  <2>2. Tables(p)' = Tables(p) /\ Needs(p)' = Needs(p) /\ Done(p)' = Done(p)
    BY <2>1, SameConfig, SameNeeds
  <2>3. result'[p] = "none" /\ pc'[p] = "apply"
    BY <1>0, <2>1 DEF LocalInv
  <2> DEFINE W == want[p].routes
             D == Done(p)
             need == Needs(p)
             hold == Holds(p)
             hold2 == Holds(p)'
             table == Tables(p)
  <2>4. D \subseteq Indexes(p)
    BY DEF Done, Past
  <2>5. RouteCallsLeft(calls[p], W, fib, D, need, hold, table)
    BY <1>10, <2>1 DEF RoutesInv
  <2>6. RouteCallsLeft(calls'[p], W, fib', D, need, hold2, table)
    <3>1. CASE op \in {"AddRule", "DeleteRule"} /\ UNCHANGED fib
      <4>1. hold2 = hold
        BY <2>1, <3>1 DEF Holds, Indexes
      <4> HIDE DEF W, D, need, hold, hold2, table
      <4> QED
        BY <2>1, <2>5, <3>1, <4>1, RuleCallMade
    <3>2. CASE op = "AddRoute" /\ fib' = AddRoute(fib, r)
      <4>1. \A j \in D : hold2[j] \subseteq hold[j] \cup {Installed(r)}
        BY <2>1, <2>4, <3>2, HoldsAfter
      <4> HIDE DEF W, D, need, hold, hold2, table
      <4> QED
        BY <1>0, <2>1, <2>5, <3>2, <4>1, RouteAdded
    <3>3. CASE op = "DeleteRoute" /\ fib' = DeleteRoute(fib, r)
      <4>1. r \in fib
        <5>1. r \in ArgsOf(calls[p], "DeleteRoute")
          BY <2>1, <3>3, ArgsOfDef
        <5> QED
          BY <2>5, <5>1 DEF RouteCallsLeft
      <4>2. fib' = fib \ {r}
        BY <1>0, <2>1, <3>3, <4>1, DeleteRouteExact DEF Fib
      <4>3. \A j \in D : hold2[j] \subseteq hold[j] \ {r}
        BY <2>1, <2>4, <4>2, HoldsAfter
      <4> HIDE DEF W, D, need, hold, hold2, table
      <4> QED
        BY <1>0, <2>1, <2>5, <3>3, <4>2, <4>3, RouteDeleted
    <3> QED
      BY <1>10, <3>1, <3>2, <3>3
  <2> QED
    BY <2>1, <2>2, <2>3, <2>6 DEF RoutesInv, Planning, PlanningLabels
<1>11. CASE calm[p] /\ ApplyAddRule(p)
  BY <1>10, <1>11 DEF ApplyAddRule
<1>12. CASE calm[p] /\ ApplyDeleteRule(p)
  BY <1>10, <1>12 DEF ApplyDeleteRule
<1>13. CASE calm[p] /\ ApplyAddRoute(p)
  BY <1>10, <1>13 DEF ApplyAddRoute
<1>14. CASE calm[p] /\ ApplyDeleteRoute(p)
  BY <1>10, <1>14 DEF ApplyDeleteRoute
<1>15. CASE calm[p] /\ ApplyDone(p)
  <2>1. /\ pc[p] = "apply" /\ Ready(p) = {} /\ End(p, "ok")
        /\ UNCHANGED <<fib, rules, store, world>>
    BY <1>15 DEF ApplyDone
  <2>2. pc'[p] = "idle" /\ UNCHANGED <<kind, cfg>>
    BY <1>0, <2>1, EndsAt
  <2>3. CASE kind[p] # "apply"
    BY <1>2, <2>2, <2>3
  <2>4. CASE kind[p] = "apply"
    <3>1. \A op : ArgsOf(calls[p], op) = {}
      BY <1>0, <2>1, NoneReady
    <3>2. at[p] > Len(cfg[p].groups)
      BY <1>0, <2>1 DEF LocalInv
    <3>3. RouteCallsLeft(calls[p], want[p].routes, fib, Done(p), Needs(p), Holds(p), Tables(p))
      BY <1>15, <2>1, <2>4 DEF RoutesInv
    <3>4. \A g \in GroupsOf(cfg[p]) : Available(g) => RoutesConverged(cfg[p], g)
      BY <3>1, <3>2, <3>3, AllMade
    <3>5. ASSUME NEW g
          PROVE  /\ Available(g)' <=> Available(g)
                 /\ RoutesConverged(cfg[p], g)' <=> RoutesConverged(cfg[p], g)
      <4>1. /\ Available(g)' <=> Available(g)
            /\ WantedNow(cfg[p], g)' = WantedNow(cfg[p], g)
        BY <2>1, <2>2 DEF Available, WantedNow, ListNow
      <4> QED
        BY <2>1, <2>2, <4>1 DEF RoutesConverged
    <3>6. \A g \in GroupsOf(cfg[p])' : Available(g)' => RoutesConverged(cfg[p], g)'
      BY <2>2, <3>4, <3>5
    <3> QED
      BY <2>2, <3>6 DEF RoutesInv, Planning, PlanningLabels
  <2> QED
    BY <2>3, <2>4
<1>16. CASE pc[p] = "planned" /\ kind[p] = "check" /\ End(p, "ok")
  BY <1>0, <1>2, <1>16, EndsAt
<1> QED
  BY <1>0, <1>1, <1>3, <1>5, <1>6, <1>7, <1>8, <1>9, <1>11, <1>12, <1>13, <1>14, <1>15, <1>16,
     CalmStep, ActsAt

RoutesSafe == BaseInv /\ \A p \in Procs : calm[p] => RoutesInv(p)

(* The account of the routes is right in every reachable state.            *)
LEMMA RoutesInvariance ==
    ASSUME OwnTables
    PROVE  Spec => []RoutesSafe
<1>1. ASSUME Init PROVE RoutesSafe
  <2>1. \A p \in Procs : ~calm[p]
    BY <1>1, Zenon DEF Init
  <2> QED
    BY <1>1, <2>1, InitBase DEF RoutesSafe
<1>2. ASSUME RoutesSafe, [Next]_vars PROVE RoutesSafe'
  <2>1. BaseInv'
    BY <1>2, NextBase DEF RoutesSafe
  <2>2. ASSUME NEW p \in Procs, calm'[p]
        PROVE  RoutesInv(p)'
    BY <1>2, <2>1, <2>2, NextRoutes DEF RoutesSafe
  <2> QED
    BY <2>1, <2>2 DEF RoutesSafe
<1> QED
  BY <1>1, <1>2, PTL DEF Spec

(* A reconcile that reports success has brought the routes of every group  *)
(* it had a list for to what they should be.                               *)
THEOREM RoutesConverge ==
    ASSUME OwnTables
    PROVE  Spec => [](\A p \in Procs :
                         result[p] = "ok" /\ kind[p] = "apply" /\ calm[p] =>
                             \A g \in GroupsOf(cfg[p]) : Available(g) => RoutesConverged(cfg[p], g))
<1>1. RoutesSafe =>
         \A p \in Procs :
            result[p] = "ok" /\ kind[p] = "apply" /\ calm[p] =>
                \A g \in GroupsOf(cfg[p]) : Available(g) => RoutesConverged(cfg[p], g)
  BY DEF RoutesSafe, RoutesInv
<1> QED
  BY <1>1, RoutesInvariance, PTL

(* What an undisturbed reconcile does to the routes, one call at a time.   *)
LEMMA ApplyingRoutes ==
    ASSUME RoutesSafe, NEW p \in Procs, Applying(p)
    PROVE  \/ UNCHANGED fib
           \/ \E r \in ArgsOf(calls[p], "AddRoute") : r \in Route /\ fib' = AddRoute(fib, r)
           \/ \E i \in DOMAIN calls[p] : \E r \in calls[p][i].args :
                 /\ calls[p][i].op = "DeleteRoute"
                 /\ \A j \in DOMAIN calls[p] : j < i => calls[p][j].args = {}
                 /\ fib' = fib \ {r}
<1>0. IInv /\ Fib(fib) /\ calm[p] /\ pc[p] = "apply" /\ kind[p] = "apply" /\ Step(p)
  BY DEF RoutesSafe, BaseInv, FibInv, Applying
<1>1. RouteCallsLeft(calls[p], want[p].routes, fib, Done(p), Needs(p), Holds(p), Tables(p))
  BY <1>0 DEF RoutesSafe, RoutesInv
<1>2. CASE ApplyAddRoute(p)
  <2>1. PICK i \in DOMAIN calls[p] : \E r \in calls[p][i].args :
           Succeeds(p, "AddRoute", i, r) /\ fib' = AddRoute(fib, r) /\ Made(p, i, r)
    BY <1>2 DEF ApplyAddRoute
  <2>2. PICK r \in calls[p][i].args :
           Succeeds(p, "AddRoute", i, r) /\ fib' = AddRoute(fib, r) /\ Made(p, i, r)
    BY <2>1
  <2>3. r \in Route /\ calls[p][i].op = "AddRoute"
    BY <1>0, <2>2, CallMade
  <2> QED
    BY <2>2, <2>3, ArgsOfDef
<1>3. CASE ApplyDeleteRoute(p)
  <2>1. PICK i \in DOMAIN calls[p] : \E r \in calls[p][i].args :
           Succeeds(p, "DeleteRoute", i, r) /\ fib' = DeleteRoute(fib, r) /\ Made(p, i, r)
    BY <1>3 DEF ApplyDeleteRoute
  <2>2. PICK r \in calls[p][i].args :
           Succeeds(p, "DeleteRoute", i, r) /\ fib' = DeleteRoute(fib, r) /\ Made(p, i, r)
    BY <2>1
  <2>3. /\ r \in Route /\ calls[p][i].op = "DeleteRoute"
        /\ \A j \in DOMAIN calls[p] : j < i => calls[p][j].args = {}
    BY <1>0, <2>2, CallMade
  <2>4. r \in fib
    BY <1>1, <2>2, <2>3, ArgsOfDef DEF RouteCallsLeft
  <2>5. fib' = fib \ {r}
    BY <1>0, <2>2, <2>3, <2>4, DeleteRouteExact DEF Fib
  <2> QED
    BY <2>3, <2>5
<1>4. CASE ~ApplyAddRoute(p) /\ ~ApplyDeleteRoute(p)
  BY <1>0, <1>4 DEF Step, FetchGroup, SaveGroup, ResolveGroup,
     ListGroupRoutes, PlanGroup, PlanCleanupGroup, FinishPlan, ApplyAddRule, ApplyDeleteRule,
     ApplyRejected, ApplyDone
<1> QED
  BY <1>2, <1>3, <1>4

(* A route that a plan wants leaves the kernel only if it is kept there in *)
(* another form than planned, and then the same run adds it again.         *)
LEMMA WantedRoutesStay ==
    ASSUME RoutesSafe, NEW p \in Procs, Applying(p),
           NEW r \in want[p].routes, Installed(r) \in fib \ fib'
    PROVE  /\ Installed(r) # r
           /\ \E j \in DOMAIN calls'[p] :
                 calls'[p][j].op = "AddRoute" /\ r \in calls'[p][j].args
<1> DEFINE C == calls[p]
           x == Installed(r)
<1>0. IInv /\ Fib(fib) /\ pc[p] = "apply" /\ Step(p)
  BY DEF RoutesSafe, BaseInv, FibInv, Applying
<1>1. /\ ArgsOf(C, "DeleteRoute") \cap want[p].routes = {}
      /\ \A q \in want[p].routes \ ArgsOf(C, "AddRoute") :
            \E o \in fib \ ArgsOf(C, "DeleteRoute") : SameSlot(o, Installed(q))
  BY DEF RoutesSafe, RoutesInv, RouteCallsLeft, Applying
<1>2. ApplyDeleteRoute(p)
  BY <1>0 DEF Step, FetchGroup, SaveGroup, ResolveGroup, ListGroupRoutes, PlanGroup,
     PlanCleanupGroup, FinishPlan, ApplyAddRule, ApplyDeleteRule, ApplyAddRoute, AddRoute,
     ApplyRejected, ApplyDone
<1>3. PICK i \in DOMAIN C : \E q \in C[i].args :
         Succeeds(p, "DeleteRoute", i, q) /\ fib' = DeleteRoute(fib, q) /\ Made(p, i, q)
  BY <1>2 DEF ApplyDeleteRoute
<1>4. PICK q \in C[i].args :
         Succeeds(p, "DeleteRoute", i, q) /\ fib' = DeleteRoute(fib, q) /\ Made(p, i, q)
  BY <1>3
<1>5. C[i].op = "DeleteRoute" /\ calls' = [calls EXCEPT ![p][i].args = @ \ {q}]
  BY <1>4 DEF Succeeds, Made
<1>6. x \in ArgsOf(C, "DeleteRoute")
  BY <1>3, ApplyingRoutes, ArgsOfDef DEF AddRoute
<1>7. x # r
  BY <1>1, <1>6
<1>8. r \in ArgsOf(C, "AddRoute")
  <2>1. SlotsUnique(fib) /\ x \in fib
    BY <1>0 DEF Fib
  <2> QED
    BY <1>1, <1>6, <2>1 DEF SlotsUnique
<1>9. PICK j \in DOMAIN C : C[j].op = "AddRoute" /\ r \in C[j].args
  BY <1>8, ArgsOfDef
<1>10. j # i /\ p \in DOMAIN calls
  BY <1>0, <1>5, <1>9 DEF IInv, ControlInv, DataInv
<1>11. DOMAIN calls'[p] = DOMAIN C /\ calls'[p][j] = C[j]
  BY <1>5, <1>10
<1> QED
  BY <1>7, <1>9, <1>11

(* Obsolete destinations go last.                                          *)
LEMMA CoverageStays ==
    ASSUME RoutesSafe, NEW p \in Procs, Applying(p),
           NEW q \in fib \ fib', NEW a, Routed(want[p].routes, q.table, a),
           ~Routed(fib', q.table, a)
    PROVE  \E r \in want[p].routes : r.table = q.table /\ r.dst = q.dst
<1> DEFINE W == want[p].routes
           C == calls[p]
<1>1. /\ ArgsOf(C, "AddRoute") \subseteq W
      /\ RetiresLast(C, W)
      /\ W = Gather(Needs(p), Done(p))
      /\ \A r \in W \ ArgsOf(C, "AddRoute") :
          \E o \in fib \ ArgsOf(C, "DeleteRoute") : SameSlot(o, Installed(r))
  BY DEF RoutesSafe, RoutesInv, RouteCallsLeft, Applying
<1>2. PICK i \in DOMAIN C : \E r \in C[i].args :
                 /\ C[i].op = "DeleteRoute"
                 /\ \A j \in DOMAIN C : j < i => C[j].args = {}
                 /\ fib' = fib \ {r}
  BY ApplyingRoutes DEF AddRoute
<1>3. /\ q \in C[i].args
      /\ C[i].op = "DeleteRoute"
      /\ \A j \in DOMAIN C : j < i => C[j].args = {}
      /\ fib' = fib \ {q}
  BY <1>2
<1> SUFFICES ASSUME ~ \E w \in W : SameDst(q, w) PROVE FALSE
  BY DEF SameDst
<1>4. ArgsOf(C, "AddRoute") = {}
  <2> SUFFICES ASSUME NEW j \in DOMAIN C, C[j].op = "AddRoute", NEW y \in C[j].args PROVE FALSE
    BY ArgsOfDef
  <2>1. j < i
    BY <1>1, <1>3 DEF RetiresLast
  <2> QED
    BY <1>3, <2>1
<1>5. PICK w \in W : w.table = q.table /\ Covers(w.dst, a)
  BY DEF Routed
<1>6. PICK o \in fib \ ArgsOf(C, "DeleteRoute") : SameSlot(o, Installed(w))
  BY <1>1, <1>4
<1>7. w \in Route
  <2>1. want[p] \in Want
    BY DEF RoutesSafe, BaseInv, IInv, DataInv
  <2> QED
    BY <2>1 DEF Want
<1>8. o.table = q.table /\ o.dst = w.dst
  BY <1>5, <1>6, <1>7, InstalledType DEF SameSlot
<1>9. o # q
  BY <1>3, <1>6, ArgsOfDef
<1> QED
  BY <1>3, <1>5, <1>6, <1>8, <1>9 DEF Routed

(* A reconcile leaves the tables alone of groups it has no list for.       *)
LEMMA OutageStays ==
    ASSUME RoutesSafe, OwnTables, NEW p \in Procs, Applying(p),
           NEW g \in GroupsOf(cfg[p]), ~Available(g)
    PROVE  OwnedRoutes(fib', cfg[p], g) = OwnedRoutes(fib, cfg[p], g)
<1>0. IInv
  BY DEF RoutesSafe, BaseInv
<1>1. PICK k \in Indexes(p) : g = cfg[p].groups[k]
  BY DEF GroupsOf, Indexes
<1>2. k \notin Done(p) /\ Done(p) \subseteq Indexes(p)
  BY <1>1 DEF Done, Past
<1>3. /\ ArgsOf(calls[p], "AddRoute") \subseteq Gather(Needs(p), Done(p))
      /\ \A x \in ArgsOf(calls[p], "DeleteRoute") : \E i \in Done(p) : x.table = Tables(p)[i]
  BY DEF RoutesSafe, RoutesInv, RouteCallsLeft, Applying
<1>4. Separate(Indexes(p), Needs(p), Holds(p), Tables(p))
  BY <1>0, SeparateGroups
<1>5. \A i \in Done(p) : Tables(p)[i] # g.table
  BY <1>1, <1>2, <1>4 DEF Separate, Tables
<1>6. \A x \in ArgsOf(calls[p], "DeleteRoute") : x.table # g.table
  BY <1>3, <1>5
<1>7. \A x \in ArgsOf(calls[p], "AddRoute") : x.table # g.table
  <2> SUFFICES ASSUME NEW x \in ArgsOf(calls[p], "AddRoute") PROVE x.table # g.table
    OBVIOUS
  <2>1. PICK i \in Done(p) : x \in Needs(p)[i]
    BY <1>3, GatherDef
  <2> QED
    BY <1>2, <1>4, <1>5, <2>1 DEF Separate
<1>8. \A q : q.table = g.table => (q \in fib' <=> q \in fib)
  <2>1. ASSUME NEW r \in Route, r \in ArgsOf(calls[p], "AddRoute"), fib' = AddRoute(fib, r)
        PROVE  \A q : q.table = g.table => (q \in fib' <=> q \in fib)
    BY <1>7, <2>1, InstalledType DEF AddRoute
  <2> QED
    BY <1>6, <2>1, ApplyingRoutes, ArgsOfDef
<1> QED
  BY <1>8 DEF OwnedRoutes, ListRoutes

(* An undisturbed reconcile takes a route that its plan wants out of the   *)
(* kernel only to add it again, where the kernel keeps it in another form  *)
(* than planned: diffRoutes puts no other wanted route on a removal list,  *)
(* no delete request matches a route it is not for, and a destination's    *)
(* removals come before its additions.                                     *)
THEOREM WantedIsKept ==
    ASSUME OwnTables
    PROVE  Spec => WantedStays
<1> DEFINE A == \A p \in Procs : Applying(p) =>
                   \A r \in want[p].routes : Installed(r) \in fib \ fib' =>
                       /\ Installed(r) # r
                       /\ \E i \in DOMAIN calls'[p] :
                             calls'[p][i].op = "AddRoute" /\ r \in calls'[p][i].args
<1>1. ASSUME RoutesSafe, [Next]_vars PROVE [A]_vars
  <2> SUFFICES A
    OBVIOUS
  <2> QED
    BY <1>1, WantedRoutesStay
<1> QED
  BY <1>1, RoutesInvariance, PTL DEF Spec, WantedStays

(* Obsolete destinations go last: an undisturbed reconcile leaves an       *)
(* address that its plan wants routed without a route only while it        *)
(* replaces a route for a destination that the plan wants.                 *)
THEOREM CoverageIsKept ==
    ASSUME OwnTables
    PROVE  Spec => CoverageKept
<1> DEFINE A == \A p \in Procs : Applying(p) =>
                   \A q \in fib \ fib' : \A a \in AddrsOf(q.dst) :
                      /\ Routed(want[p].routes, q.table, a)
                      /\ ~Routed(fib', q.table, a)
                      => \E r \in want[p].routes : r.table = q.table /\ r.dst = q.dst
<1>1. ASSUME RoutesSafe, [Next]_vars PROVE [A]_vars
  <2> SUFFICES A
    OBVIOUS
  <2> QED
    BY <1>1, CoverageStays
<1> QED
  BY <1>1, RoutesInvariance, PTL DEF Spec, CoverageKept

(* A group whose source is down and has no saved state keeps its routes    *)
(* while the other groups of the plan are reconciled.                      *)
THEOREM OutageIsHarmless ==
    ASSUME OwnTables
    PROVE  Spec => OutageKeepsRoutes
<1> DEFINE A == \A p \in Procs : Applying(p) =>
                   \A g \in GroupsOf(cfg[p]) : ~Available(g) =>
                      OwnedRoutes(fib', cfg[p], g) = OwnedRoutes(fib, cfg[p], g)
<1>1. ASSUME RoutesSafe, [Next]_vars PROVE [A]_vars
  <2> SUFFICES A
    OBVIOUS
  <2> QED
    BY <1>1, OutageStays
<1> QED
  BY <1>1, RoutesInvariance, PTL DEF Spec, OutageKeepsRoutes

-----------------------------------------------------------------------------
(* Rules *)

(* The rules the configurations ask for, as the kernel keeps them.         *)
Requested == {RuleRequest(r) : r \in ConfiguredRules}

(* p will only add rules for a group.                                      *)
AsksFor(p) ==
    /\ want[p].rules \subseteq ConfiguredRules
    /\ ArgsOf(plan[p].rules, "AddRule") \subseteq ConfiguredRules
    /\ ArgsOf(calls[p], "AddRule") \subseteq ConfiguredRules

(* Every rule is another program's or was added for a group, once.         *)
KernelRulesInv ==
    /\ \A k \in ToSet(rules) : ForeignRule(k) \/ k \in Requested
    /\ Once(rules, Requested)
    /\ \A p \in Procs : AsksFor(p)

(* A rule of a configured group.                                           *)
LEMMA ConfiguredRule ==
    ASSUME NEW r \in ConfiguredRules
    PROVE  /\ r \in Rule
           /\ RuleRequest(r) \in Requested
           /\ RuleRequest(r).table = r.table
           /\ ~ForeignRule(RuleRequest(r))
           /\ RulesRecognized => Reported(RuleRequest(r)) = r
<1>1. PICK c \in Configs : \E g \in GroupsOf(c) : r \in DesiredRules(g)
  BY DEF ConfiguredRules
<1>2. PICK g \in GroupsOf(c) : r \in DesiredRules(g)
  BY <1>1
<1>3. g \in Group
  BY ConfigsAssumption DEF Config, GroupsOf
<1>4. r \in RulesOf(g)
  BY <1>2, <1>3, DesiredRulesOwned
<1>5. r \in Rule /\ r.table = g.table /\ r.prio = g.rule.prio
  BY <1>4 DEF RulesOf
<1>6. RuleRequest(r).table = g.table /\ RuleRequest(r).prio = g.rule.prio
  BY <1>5, RuleRequestType
<1>7. ~ForeignRule(RuleRequest(r))
  BY <1>6 DEF ForeignRule
<1> QED
  BY <1>2, <1>5, <1>6, <1>7 DEF Requested, RulesRecognized

(* A group's rules are configured ones.                                    *)
LEMMA GroupsRules ==
    ASSUME NEW c \in Configs, NEW g \in GroupsOf(c)
    PROVE  DesiredRules(g) \subseteq ConfiguredRules
BY DEF ConfiguredRules

(* The rules a group owns were added for a group.                          *)
LEMMA OwnedConfigured ==
    ASSUME KernelRulesInv, RuleHypotheses, NEW c \in Configs, NEW g \in GroupsOf(c),
           NEW x \in OwnedRules(rules, c, g)
    PROVE  x \in ConfiguredRules /\ RuleRequest(x) \in ToSet(rules)
<1>1. PICK k \in ToSet(rules) : IsOwnedRule(k, c, g) /\ x = Reported(k)
  BY DEF OwnedRules
<1>2. ~ForeignRule(k)
  BY <1>1 DEF IsOwnedRule, ForeignRule
<1>3. PICK r \in ConfiguredRules : k = RuleRequest(r)
  BY <1>2 DEF KernelRulesInv, Requested
<1>4. x = r
  BY <1>1, <1>3, ConfiguredRule DEF RuleHypotheses
<1> QED
  BY <1>1, <1>3, <1>4

(* The kernel after a configured rule is deleted, and what a group then    *)
(* owns.                                                                   *)
LEMMA ConfiguredRuleDeleted ==
    ASSUME IInv, KernelRulesInv, RuleHypotheses, NEW x \in ConfiguredRules,
           NEW rest, rest = DeleteRule(rules, x)
    PROVE  /\ ToSet(rest) = ToSet(rules) \ {RuleRequest(x)}
           /\ \A c \in Configs : \A g \in GroupsOf(c) :
                 OwnedRules(rest, c, g) \subseteq OwnedRules(rules, c, g) \ {x}
<1>0. rules \in Seq(KernelRule)
  BY DEF IInv, HostInv
<1>1. RuleRequest(x) \in Requested /\ x \in Rule /\ ~ForeignRule(RuleRequest(x))
  BY ConfiguredRule
<1>2. ASSUME NEW k \in ToSet(rules), RuleMatches(RuleRequest(x), k)
      PROVE  k = RuleRequest(x)
  <2>1. k.table = RuleRequest(x).table /\ k.prio = RuleRequest(x).prio
    BY <1>2 DEF RuleMatches
  <2>2. ~ForeignRule(k)
    BY <1>1, <2>1 DEF ForeignRule
  <2>3. PICK r \in ConfiguredRules : k = RuleRequest(r)
    BY <2>2 DEF KernelRulesInv, Requested
  <2> QED
    BY <1>2, <2>3 DEF RuleHypotheses, RulesDistinct
<1>3. ToSet(rest) = ToSet(rules) \ {RuleRequest(x)}
  BY <1>0, <1>1, <1>2, DeleteRuleExact DEF KernelRulesInv
<1>4. ASSUME NEW c \in Configs, NEW g \in GroupsOf(c), NEW y \in OwnedRules(rest, c, g)
      PROVE  y \in OwnedRules(rules, c, g) /\ y # x
  <2>1. PICK k \in ToSet(rest) : IsOwnedRule(k, c, g) /\ y = Reported(k)
    BY DEF OwnedRules
  <2>2. k \in ToSet(rules) /\ k # RuleRequest(x)
    BY <1>3, <2>1
  <2>3. ~ForeignRule(k)
    BY <2>1 DEF IsOwnedRule, ForeignRule
  <2>4. PICK r \in ConfiguredRules : k = RuleRequest(r)
    BY <2>2, <2>3 DEF KernelRulesInv, Requested
  <2>5. y = r
    BY <2>1, <2>4, ConfiguredRule DEF RuleHypotheses
  <2> QED
    BY <2>1, <2>2, <2>4, <2>5 DEF OwnedRules
<1> QED
  BY <1>3, <1>4

(* And after it is added.                                                  *)
LEMMA ConfiguredRuleAdded ==
    ASSUME IInv, KernelRulesInv, RuleHypotheses, NEW x \in ConfiguredRules,
           NEW more, more = AddRule(rules, x)
    PROVE  /\ ToSet(more) = ToSet(rules) \cup {RuleRequest(x)}
           /\ \A c \in Configs : \A g \in GroupsOf(c) : \A y \in OwnedRules(more, c, g) :
                 y \in OwnedRules(rules, c, g) \/ (y = x /\ x.table = g.table)
<1>0. rules \in Seq(KernelRule)
  BY DEF IInv, HostInv
<1>1. ToSet(more) = ToSet(rules) \cup {RuleRequest(x)}
  BY <1>0, AddRuleExact, ConfiguredRule DEF KernelRulesInv
<1>2. ASSUME NEW c \in Configs, NEW g \in GroupsOf(c), NEW y \in OwnedRules(more, c, g)
      PROVE  y \in OwnedRules(rules, c, g) \/ (y = x /\ x.table = g.table)
  <2>1. PICK k \in ToSet(more) : IsOwnedRule(k, c, g) /\ y = Reported(k)
    BY DEF OwnedRules
  <2>2. CASE k \in ToSet(rules)
    BY <2>1, <2>2 DEF OwnedRules
  <2>3. CASE k = RuleRequest(x)
    <3>1. y = x
      BY <2>1, <2>3, ConfiguredRule DEF RuleHypotheses
    <3>2. x.table = g.table
      BY <2>1, <2>3, ConfiguredRule DEF IsOwnedRule
    <3> QED
      BY <3>1, <3>2
  <2> QED
    BY <1>1, <2>1, <2>2, <2>3
<1> QED
  BY <1>1, <1>2

(* At first there are only the rules of other programs.                    *)
LEMMA InitKernelRules ==
    ASSUME Init, OthersRules
    PROVE  KernelRulesInv
<1>1. rules = ForeignRules
  BY DEF Init
<1>2. \A k \in ToSet(rules) : ForeignRule(k)
  BY <1>1 DEF OthersRules
<1>3. \A k \in Requested : ~ForeignRule(k)
  BY ConfiguredRule DEF Requested
<1>4. Once(rules, Requested)
  <2> SUFFICES ASSUME NEW i \in DOMAIN rules, rules[i] \in Requested PROVE FALSE
    BY DEF Once
  <2>1. rules[i] \in ToSet(rules)
    BY <1>1, ForeignAssumption DEF ToSet
  <2> QED
    BY <1>2, <1>3, <2>1
<1>5. \A p \in Procs : want[p] = NoWant /\ plan[p] = NoPlan /\ calls[p] = <<>>
  BY DEF Init
<1> QED
  BY <1>2, <1>4, <1>5, EmptyPlan DEF KernelRulesInv, AsksFor, NoWant, NoPlan

(* Every step of a process plans and requests only configured rules.       *)
LEMMA NextAsksFor ==
    ASSUME IInv, [Next]_vars, NEW p \in Procs, LocalInv(p), AsksFor(p)
    PROVE  AsksFor(p)'
<1>1. CASE want'[p] = want[p] /\ plan'[p] = plan[p] /\ calls'[p] = calls[p]
  BY <1>1 DEF AsksFor
<1>2. CASE LocalsKept(p)
  BY <1>1, <1>2 DEF LocalsKept
<1>3. CASE StartSome(p)
  BY <1>1, <1>3, StartsAt DEF StartSome
<1>4. ASSUME NEW r, End(p, r)
      PROVE  AsksFor(p)'
  BY <1>4, EndsAt, EmptyPlan DEF AsksFor, NoPlan, NoWant
<1>5. CASE FetchGroup(p) \/ SaveGroup(p) \/ (ResolveGroup(p) /\ ~LinkMissing(Current(p), world))
           \/ ListGroupRoutes(p)
  BY <1>1, <1>5 DEF FetchGroup, SaveGroup, ResolveGroup, ListGroupRoutes
<1>6. CASE PlanGroup(p)
  <2> DEFINE routes == DesiredRoutes(cfg[p].proto, Current(p), draft[p].prefixes, draft[p].res, world)
             ask == DesiredRules(Current(p))
             have == OwnedRules(rules, cfg[p], Current(p))
             new == RuleCalls(ask, have)
  <2>1. /\ plan'[p].rules = plan[p].rules \o new
        /\ want'[p].rules = want[p].rules \cup ask
        /\ new \in Seq(Batch)
    BY <1>6, PlansGroup
  <2>2. UNCHANGED calls
    BY <1>6 DEF PlanGroup
  <2>3. ask \subseteq ConfiguredRules
    <3>1. cfg[p] \in Configs /\ Current(p) \in GroupsOf(cfg[p])
      BY <1>6, CurrentFacts DEF PlanGroup, PlanningLabels
    <3> QED
      BY <3>1, GroupsRules
  <2>4. ArgsOf(new, "AddRule") = ask \ have
    BY RuleCallsParts
  <2> HIDE DEF ask, have, new
  <2>5. ArgsOf(plan'[p].rules, "AddRule") = ArgsOf(plan[p].rules, "AddRule") \cup (ask \ have)
    BY <2>1, <2>4, PlanBatches, ArgsOfConcat
  <2> QED
    BY <2>1, <2>2, <2>3, <2>5 DEF AsksFor
<1>7. CASE PlanCleanupGroup(p)
  <2> DEFINE new == CleanupRuleCalls(rules, cfg[p], Current(p))
  <2>1. plan'[p].rules = plan[p].rules \o new /\ new \in Seq(Batch)
    BY <1>7, PlansCleanup
  <2>2. UNCHANGED <<calls, want>>
    BY <1>7 DEF PlanCleanupGroup
  <2>3. Current(p) \in Group /\ rules \in Seq(KernelRule)
    BY <1>7, CurrentFacts DEF IInv, HostInv, PlanCleanupGroup, PlanningLabels
  <2>4. ArgsOf(new, "AddRule") = {}
    BY <2>3, CleanupCallsParts
  <2> HIDE DEF new
  <2>5. plan[p].rules \in Seq(Batch)
    BY PlanBatches
  <2>6. ArgsOf(plan'[p].rules, "AddRule")
           = ArgsOf(plan[p].rules, "AddRule") \cup ArgsOf(new, "AddRule")
    BY <2>1, <2>5, ArgsOfConcat
  <2> QED
    BY <2>2, <2>4, <2>6 DEF AsksFor
<1>8. CASE calls'[p] = Schedule(plan[p]) /\ plan'[p] = NoPlan /\ UNCHANGED want
  <2>1. ArgsOf(Schedule(plan[p]), "AddRule") = ArgsOf(plan[p].rules, "AddRule")
    BY ScheduleArgs DEF LocalInv, InPasses
  <2> QED
    BY <1>8, <2>1, EmptyPlan DEF AsksFor, NoPlan
<1>9. ASSUME NEW op, NEW i \in DOMAIN calls[p], NEW r \in calls[p][i].args,
             Succeeds(p, op, i, r), Made(p, i, r)
      PROVE  AsksFor(p)'
  <2>1. /\ calls[p] \in Seq(Batch) /\ calls'[p] = TakenOff(calls[p], i, r)
        /\ UNCHANGED <<plan, want>>
    BY <1>9, CallMade
  <2>2. ArgsOf(calls'[p], "AddRule") \subseteq ArgsOf(calls[p], "AddRule")
    BY <2>1, TakenOffSets
  <2> QED
    BY <2>1, <2>2 DEF AsksFor
<1>10. CASE ApplyAddRule(p) \/ ApplyDeleteRule(p) \/ ApplyAddRoute(p) \/ ApplyDeleteRoute(p)
  BY <1>9, <1>10 DEF ApplyAddRule, ApplyDeleteRule, ApplyAddRoute, ApplyDeleteRoute
<1>11. CASE ApplyDone(p)
  BY <1>4, <1>11 DEF ApplyDone
<1> QED
  BY <1>2, <1>3, <1>4, <1>5, <1>6, <1>7, <1>8, <1>10, <1>11, AnyStep, ActsAt

(* Every step keeps each configured rule in the kernel at most once.       *)
LEMMA NextKernelRules ==
    ASSUME BaseInv, KernelRulesInv, RuleHypotheses, [Next]_vars
    PROVE  KernelRulesInv'
<1>0. IInv /\ rules \in Seq(KernelRule) /\ \A p \in Procs : LocalInv(p) /\ AsksFor(p)
  BY DEF BaseInv, IInv, HostInv, KernelRulesInv
<1>1. \A p \in Procs : AsksFor(p)'
  BY <1>0, NextAsksFor
<1> SUFFICES /\ \A k \in ToSet(rules') : ForeignRule(k) \/ k \in Requested
             /\ Once(rules', Requested)
  BY <1>1 DEF KernelRulesInv, ForeignRule
<1>2. CASE UNCHANGED rules
  BY <1>2 DEF KernelRulesInv
<1>3. ASSUME NEW p \in Procs, ApplyAddRule(p)
      PROVE  /\ \A k \in ToSet(rules') : ForeignRule(k) \/ k \in Requested
             /\ Once(rules', Requested)
  <2>1. PICK i \in DOMAIN calls[p] : \E r \in calls[p][i].args :
           calls[p][i].op = "AddRule" /\ rules' = AddRule(rules, r)
    BY <1>3 DEF ApplyAddRule, Succeeds
  <2>2. PICK r \in calls[p][i].args : rules' = AddRule(rules, r)
    BY <2>1
  <2>3. r \in ArgsOf(calls[p], "AddRule")
    BY <2>1, <2>2, ArgsOfDef
  <2>4. r \in ConfiguredRules
    BY <1>0, <2>3 DEF AsksFor
  <2>5. r \in Rule /\ RuleRequest(r) \in Requested
    BY <2>4, ConfiguredRule
  <2> QED
    BY <1>0, <2>2, <2>5, AddRuleExact DEF KernelRulesInv
<1>4. ASSUME NEW p \in Procs, ApplyDeleteRule(p)
      PROVE  /\ \A k \in ToSet(rules') : ForeignRule(k) \/ k \in Requested
             /\ Once(rules', Requested)
  <2>1. PICK r : rules' = DeleteRule(rules, r)
    BY <1>4 DEF ApplyDeleteRule
  <2> QED
    BY <1>0, <2>1, DeleteRuleType, DeleteRuleOnce DEF KernelRulesInv
<1>5. ASSUME NEW p \in Procs, ~ApplyAddRule(p), ~ApplyDeleteRule(p), StartSome(p) \/ Acts(p)
      PROVE  UNCHANGED rules
  <2>1. StartSome(p) \/ NetlinkFails(p) \/ Crash(p) => UNCHANGED rules
    BY DEF StartSome, Start, NetlinkFails, Crash
  <2>2. FetchGroup(p) \/ SaveGroup(p) \/ ResolveGroup(p) \/ ListGroupRoutes(p) => UNCHANGED rules
    BY DEF FetchGroup, SaveGroup, ResolveGroup, ListGroupRoutes
  <2>3. PlanGroup(p) => UNCHANGED rules
    BY DEF PlanGroup
  <2>4. PlanCleanupGroup(p) \/ FinishPlan(p) => UNCHANGED rules
    BY DEF PlanCleanupGroup, FinishPlan
  <2>5. ApplyAddRoute(p) \/ ApplyDeleteRoute(p) \/ ApplyRejected(p) \/ ApplyDone(p) => UNCHANGED rules
    BY DEF ApplyAddRoute, ApplyDeleteRoute, ApplyRejected, ApplyDone
  <2> QED
    BY <1>5, <2>1, <2>2, <2>3, <2>4, <2>5 DEF Acts, Step
<1> QED
  BY <1>2, <1>3, <1>4, <1>5 DEF Next, Acts, vars, WorldChange, ForeignChange
(* Between the plan and the kernel, for the rules.                         *)
RulesInv(p) ==
    /\ Planning(p) /\ kind[p] # "cleanup" =>
          RulePlan(plan[p], want[p].rules, Done(p), NeedsRules(p), HoldsRules(p))
    /\ pc[p] = "apply" /\ kind[p] # "cleanup" =>
          RuleCallsLeft(calls[p], want[p].rules, ToSet(rules), Done(p), NeedsRules(p),
                        HoldsRules(p), ConfiguredRules)
    /\ result[p] = "ok" /\ kind[p] = "apply" =>
          \A g \in GroupsOf(cfg[p]) : Available(g) => RulesConverged(cfg[p], g)

(* Each group needs and holds only rules for its own table.                *)
LEMMA SeparateRules ==
    ASSUME IInv, OwnTables, NEW p \in Procs, NEW D \in SUBSET Indexes(p)
    PROVE  /\ DOMAIN NeedsRules(p) = Indexes(p)
           /\ Separate(D, NeedsRules(p), HoldsRules(p), Tables(p))
<1>1. ASSUME NEW i \in Indexes(p)
      PROVE  \A r \in NeedsRules(p)[i] \cup HoldsRules(p)[i] : r.table = Tables(p)[i]
  <2> DEFINE g == cfg[p].groups[i]
  <2>1. cfg[p] \in Config /\ g \in Group
    BY GroupAt
  <2>2. DesiredRules(g) \subseteq RulesOf(g)
    BY <2>1, DesiredRulesOwned
  <2>3. OwnedRules(rules, cfg[p], g) \subseteq RulesOf(g)
    BY <2>1, OwnedRulesOwned DEF IInv, HostInv
  <2> QED
    BY <2>2, <2>3 DEF NeedsRules, HoldsRules, Tables, RulesOf
<1>2. \A i, j \in Indexes(p) : Tables(p)[i] = Tables(p)[j] => i = j
  BY DEF OwnTables, Tables, Indexes, IInv, ControlInv
<1>3. DOMAIN NeedsRules(p) = Indexes(p)
  BY DEF NeedsRules
<1> QED
  BY <1>1, <1>2, <1>3 DEF Separate

(* With all calls made, the rules have converged.                          *)
LEMMA AllRuleCallsMade ==
    ASSUME BaseInv, RuleHypotheses, NEW p \in Procs, at[p] > Len(cfg[p].groups),
           \A op : ArgsOf(calls[p], op) = {},
           RuleCallsLeft(calls[p], want[p].rules, ToSet(rules), Done(p), NeedsRules(p),
                         HoldsRules(p), ConfiguredRules),
           NEW g \in GroupsOf(cfg[p]), Available(g)
    PROVE  RulesConverged(cfg[p], g)
<1>0. IInv
  BY DEF BaseInv
<1>1. PICK i \in Indexes(p) : g = cfg[p].groups[i]
  BY DEF GroupsOf, Indexes
<1>2. i \in Done(p)
  BY <1>0, <1>1, LastGroup DEF Done
<1>3. /\ want[p].rules = Gather(NeedsRules(p), Done(p))
      /\ \A r \in want[p].rules : RuleRequest(r) \in ToSet(rules)
      /\ HoldsRules(p)[i] \subseteq NeedsRules(p)[i]
  BY <1>2 DEF RuleCallsLeft
<1>4. NeedsRules(p)[i] = DesiredRules(g) /\ HoldsRules(p)[i] = OwnedRules(rules, cfg[p], g)
  BY <1>1 DEF NeedsRules, HoldsRules
<1>5. ASSUME NEW r \in DesiredRules(g)
      PROVE  r \in OwnedRules(rules, cfg[p], g)
  <2>1. RuleRequest(r) \in ToSet(rules)
    BY <1>2, <1>3, <1>4, GatherDef
  <2>2. IsOwnedRule(RuleRequest(r), cfg[p], g) /\ Reported(RuleRequest(r)) = r
    BY <1>0 DEF RuleHypotheses, RulesRecognized, IInv, ControlInv
  <2> QED
    BY <2>1, <2>2 DEF OwnedRules
<1> QED
  BY <1>3, <1>4, <1>5 DEF RulesConverged

(* What the rule lists of p's groups become.                               *)
LEMMA HoldsRulesAfter ==
    ASSUME IInv, KernelRulesInv, RuleHypotheses, NEW p \in Procs, cfg'[p] = cfg[p],
           NEW i \in Indexes(p), NEW x \in ConfiguredRules
    PROVE  /\ rules' = AddRule(rules, x) =>
                 \A y \in HoldsRules(p)'[i] :
                    y \in HoldsRules(p)[i] \/ (y = x /\ x.table = Tables(p)[i])
           /\ rules' = DeleteRule(rules, x) =>
                 HoldsRules(p)'[i] \subseteq HoldsRules(p)[i] \ {x}
<1> DEFINE g == cfg[p].groups[i]
<1>1. cfg[p] \in Configs /\ g \in GroupsOf(cfg[p])
  BY GroupAt
<1>2. /\ HoldsRules(p)[i] = OwnedRules(rules, cfg[p], g)
      /\ HoldsRules(p)'[i] = OwnedRules(rules', cfg[p], g)
      /\ Tables(p)[i] = g.table
  BY DEF HoldsRules, Indexes, Tables
<1>3. ASSUME rules' = AddRule(rules, x), NEW y \in OwnedRules(rules', cfg[p], g)
      PROVE  y \in OwnedRules(rules, cfg[p], g) \/ (y = x /\ x.table = g.table)
  BY <1>1, <1>3, ConfiguredRuleAdded
<1>4. ASSUME rules' = DeleteRule(rules, x)
      PROVE  OwnedRules(rules', cfg[p], g) \subseteq OwnedRules(rules, cfg[p], g) \ {x}
  BY <1>1, <1>4, ConfiguredRuleDeleted
<1> QED
  BY <1>2, <1>3, <1>4

(* Every step keeps the account of the rules of an undisturbed run.        *)
LEMMA NextRules ==
    ASSUME BaseInv, BaseInv', KernelRulesInv, OwnTables, RuleHypotheses, [Next]_vars,
           NEW p \in Procs, calm[p] => RulesInv(p), calm'[p]
    PROVE  RulesInv(p)'
<1>0. IInv /\ IInv' /\ LocalInv(p) /\ LocalInv(p)' /\ AsksFor(p)
  BY DEF BaseInv, KernelRulesInv
<1>1. CASE Unnoticed(p)
  <2>1. /\ UNCHANGED <<fib, rules, store, world>>
        /\ pc'[p] = pc[p] /\ kind'[p] = kind[p] /\ cfg'[p] = cfg[p] /\ plan'[p] = plan[p]
        /\ calls'[p] = calls[p] /\ result'[p] = result[p] /\ want'[p] = want[p] /\ RulesInv(p)
    BY <1>1 DEF Unnoticed, LocalsKept
  <2>2. /\ NeedsRules(p)' = NeedsRules(p) /\ HoldsRules(p)' = HoldsRules(p)
        /\ Done(p)' = Done(p)
    BY <1>1, UnnoticedKeeps
  <2>3. ASSUME NEW g
        PROVE  /\ Available(g)' <=> Available(g)
               /\ RulesConverged(cfg[p], g)' <=> RulesConverged(cfg[p], g)
    BY <2>1 DEF Available, RulesConverged
  <2>4. GroupsOf(cfg[p])' = GroupsOf(cfg[p])
    BY <2>1
  <2> QED
    BY <2>1, <2>2, <2>3, <2>4 DEF RulesInv, Planning
<1>2. ASSUME pc'[p] = "idle", result'[p] # "ok" \/ kind'[p] # "apply"
      PROVE  RulesInv(p)'
  BY <1>2 DEF RulesInv, Planning, PlanningLabels
<1>3. ASSUME NEW r, r # "ok", End(p, r)
      PROVE  RulesInv(p)'
  BY <1>0, <1>2, <1>3, EndsAt
<1>4. ASSUME kind'[p] = "cleanup"
      PROVE  RulesInv(p)'
  BY <1>4 DEF RulesInv
<1>5. CASE StartSome(p)
  <2>1. /\ plan'[p] = NoPlan /\ want'[p] = NoWant /\ at'[p] = 1 /\ result'[p] = "none"
        /\ pc'[p] # "apply"
    BY <1>0, <1>5, StartsAt DEF StartSome, LocalInv
  <2>2. Done(p)' = {}
    BY <1>0, <2>1, StartsEmpty
  <2>3. \A f : Gather(f, {}) = {}
    BY DEF Gather
  <2>4. RulePlan(NoPlan, {}, {}, NeedsRules(p)', HoldsRules(p)')
    BY <2>3, EmptyPlan DEF RulePlan, NoPlan
  <2> QED
    BY <2>1, <2>2, <2>4 DEF RulesInv, NoWant
<1>6. CASE /\ calm[p]
           /\ FetchGroup(p) \/ SaveGroup(p) \/ (ResolveGroup(p) /\ ~LinkMissing(Current(p), world))
              \/ ListGroupRoutes(p)
  <2>1. /\ pc[p] \in PlanningLabels /\ pc'[p] # "apply" /\ pc'[p] # "idle"
        /\ plan'[p] = plan[p] /\ want'[p] = want[p] /\ UNCHANGED <<kind, cfg>>
        /\ UNCHANGED at \/ (Advance(p) /\ FetchGroup(p) /\ ~Available(Current(p)))
    BY <1>0, <1>6, FindsOut
  <2>2. DraftInv(p) /\ RulesInv(p)
    BY <1>6 DEF BaseInv
  <2>3. /\ NeedsRules(p)' = NeedsRules(p) /\ HoldsRules(p)' = HoldsRules(p)
        /\ UNCHANGED at => Done(p)' = Done(p)
    BY <1>0, <1>6, <2>1, <2>2, PlanningKeeps
  <2>4. Done(p)' = Done(p)
    BY <1>0, <2>1, <2>2, <2>3, NextGroup
  <2>5. result'[p] = "none"
    BY <1>0, <2>1 DEF LocalInv
  <2> QED
    BY <2>1, <2>2, <2>3, <2>4, <2>5 DEF RulesInv, Planning
<1>7. CASE calm[p] /\ PlanGroup(p)
  <2>1. pc[p] = "rules" /\ kind[p] # "cleanup" /\ UNCHANGED <<kind, cfg>> /\ Advance(p)
    BY <1>7 DEF PlanGroup, job
  <2>2. pc[p] \in PlanningLabels /\ DraftInv(p) /\ RulesInv(p)
    BY <1>7, <2>1 DEF BaseInv, PlanningLabels
  <2>3. pc'[p] # "apply" /\ pc'[p] # "idle" /\ result'[p] = "none"
    BY <1>0, <2>1, AdvancesTo DEF LocalInv
  <2> DEFINE n == at[p]
             routes == DesiredRoutes(cfg[p].proto, Current(p), draft[p].prefixes, draft[p].res, world)
             one == RuleCalls(DesiredRules(Current(p)), OwnedRules(rules, cfg[p], Current(p)))
             D == Done(p)
             need == NeedsRules(p)
             hold == HoldsRules(p)
             W == want[p].rules
  <2>4. /\ plan'[p].rules = plan[p].rules \o one
        /\ one \in Seq(Batch)
        /\ want'[p].rules = W \cup DesiredRules(Current(p))
    BY <1>0, <1>7, PlansGroup
  <2>5. n \in Indexes(p) /\ Done(p)' = D \cup {n}
    <3>1. Available(Current(p))
      BY <2>1, <2>2 DEF DraftInv
    <3> QED
      BY <1>0, <1>7, <2>1, <2>2, <3>1, NextGroup
  <2>6. NeedsRules(p)' = need /\ HoldsRules(p)' = hold
    BY <1>0, <1>7, <2>1, <2>2, PlanningKeeps
  <2>7. /\ need[n] = DesiredRules(Current(p))
        /\ hold[n] = OwnedRules(rules, cfg[p], Current(p))
        /\ DOMAIN need = Indexes(p)
    BY <2>5 DEF NeedsRules, HoldsRules, Current
  <2>8. RulePlan(plan[p], W, D, need, hold)
    BY <2>1, <2>2 DEF RulesInv, Planning
  <2>9. one = RuleCalls(need[n], hold[n])
    BY <2>7
  <2> HIDE DEF n, one, D, need, hold, W
  <2>10. RulePlan(plan'[p], W \cup need[n], D \cup {n}, need, hold)
    <3>1. plan[p].rules \in Seq(Batch) /\ n \in DOMAIN need
      BY <1>0, <2>5, <2>7, PlanBatches
    <3> HIDE <2>7
    <3> QED
      BY <2>4, <2>8, <2>9, <3>1, RulePlanGrows
  <2>11. RulePlan(plan'[p], want'[p].rules, Done(p)', NeedsRules(p)', HoldsRules(p)')
    BY <2>4, <2>5, <2>6, <2>7, <2>10
  <2> QED
    BY <2>3, <2>11 DEF RulesInv
<1>8. CASE PlanCleanupGroup(p)
  BY <1>4, <1>8 DEF PlanCleanupGroup, job
<1>9. CASE /\ calm[p] /\ pc[p] = "planned" /\ kind[p] # "check"
           /\ calls'[p] = Schedule(plan[p]) /\ pc'[p] = "apply" /\ plan'[p] = NoPlan
           /\ UNCHANGED <<fib, rules, store, world, at, draft, want, result, kind, cfg>>
  <2>0. CASE kind[p] = "cleanup"
    BY <1>4, <1>9, <2>0
  <2> SUFFICES ASSUME kind[p] # "cleanup" PROVE RulesInv(p)'
    BY <2>0
  <2>1. /\ RulePlan(plan[p], want[p].rules, Done(p), NeedsRules(p), HoldsRules(p))
        /\ InPasses(plan[p]) /\ result[p] = "none"
    BY <1>0, <1>9 DEF RulesInv, Planning, LocalInv
  <2>2. Done(p) \subseteq Indexes(p)
    BY DEF Done, Past
  <2>3. /\ DOMAIN NeedsRules(p) = Indexes(p)
        /\ Separate(Done(p), NeedsRules(p), HoldsRules(p), Tables(p))
    BY <1>0, <2>2, SeparateRules
  <2>4. \A i \in Done(p) : \A r \in HoldsRules(p)[i] :
           r \in ConfiguredRules /\ RuleRequest(r) \in ToSet(rules)
    <3> SUFFICES ASSUME NEW i \in Done(p), NEW r \in HoldsRules(p)[i]
                 PROVE  r \in ConfiguredRules /\ RuleRequest(r) \in ToSet(rules)
      OBVIOUS
    <3>1. cfg[p] \in Configs /\ cfg[p].groups[i] \in GroupsOf(cfg[p])
      BY <1>0, <2>2, GroupAt
    <3>2. r \in OwnedRules(rules, cfg[p], cfg[p].groups[i])
      BY <2>2 DEF HoldsRules
    <3> QED
      BY <3>1, <3>2, OwnedConfigured
  <2>5. RuleCallsLeft(Schedule(plan[p]), want[p].rules, ToSet(rules), Done(p), NeedsRules(p),
                      HoldsRules(p), ConfiguredRules)
    BY <1>0, <2>1, <2>2, <2>3, <2>4, PlanBatches, PlanToRuleCalls DEF Schedule
  <2>6. NeedsRules(p)' = NeedsRules(p) /\ HoldsRules(p)' = HoldsRules(p) /\ Done(p)' = Done(p)
    BY <1>9, SameHolds, SameConfig, SameNeeds
  <2> QED
    BY <1>9, <2>1, <2>5, <2>6 DEF RulesInv, Planning, PlanningLabels
<1>10. ASSUME calm[p], NEW op, NEW i \in DOMAIN calls[p], NEW r \in calls[p][i].args,
              Succeeds(p, op, i, r), Made(p, i, r),
              \/ op \in {"AddRoute", "DeleteRoute"} /\ UNCHANGED rules
              \/ op = "AddRule" /\ rules' = AddRule(rules, r)
              \/ op = "DeleteRule" /\ rules' = DeleteRule(rules, r)
       PROVE  RulesInv(p)'
  <2>0. CASE kind[p] = "cleanup"
    BY <1>4, <1>10, <2>0 DEF Made, job
  <2> SUFFICES ASSUME kind[p] # "cleanup" PROVE RulesInv(p)'
    BY <2>0
  <2>1. /\ pc[p] = "apply"
        /\ calls[p] \in Seq(Batch)
        /\ calls[p][i].op = op
        /\ calls'[p] = TakenOff(calls[p], i, r)
        /\ UNCHANGED <<store, world, pc, at, draft, plan, want, result, kind, cfg>>
    BY <1>0, <1>10, CallMade
  <2>2. NeedsRules(p)' = NeedsRules(p) /\ Done(p)' = Done(p)
    BY <2>1, SameConfig, SameNeeds
  <2>3. result'[p] = "none" /\ pc'[p] = "apply"
    BY <1>0, <2>1 DEF LocalInv
  <2> DEFINE W == want[p].rules
             D == Done(p)
             need == NeedsRules(p)
             hold == HoldsRules(p)
             hold2 == HoldsRules(p)'
             K == ConfiguredRules
             k == ToSet(rules)
             k2 == ToSet(rules')
  <2>4. D \subseteq Indexes(p)
    BY DEF Done, Past
  <2>5. RuleCallsLeft(calls[p], W, k, D, need, hold, K) /\ W \subseteq K
    BY <1>0, <1>10, <2>1 DEF RulesInv, AsksFor
  <2>6. r \in ArgsOf(calls[p], op)
    BY <2>1, ArgsOfDef
  <2>7. RuleCallsLeft(calls'[p], W, k2, D, need, hold2, K)
    <3>1. CASE op \in {"AddRoute", "DeleteRoute"} /\ UNCHANGED rules
      <4>1. hold2 = hold /\ k2 = k
        BY <2>1, <3>1 DEF HoldsRules, Indexes
      <4> HIDE DEF W, D, need, hold, hold2, K, k, k2
      <4> QED
        BY <2>1, <2>5, <3>1, <4>1, RouteCallMade
    <3>2. CASE op = "AddRule" /\ rules' = AddRule(rules, r)
      <4>1. r \in W /\ W = Gather(need, D)
        BY <2>5, <2>6, <3>2 DEF RuleCallsLeft
      <4>2. r \in K
        BY <2>5, <4>1
      <4>3. k2 = k \cup {RuleRequest(r)}
        BY <1>0, <3>2, <4>2, ConfiguredRuleAdded
      <4>4. ASSUME NEW j \in D, NEW y \in hold2[j]
            PROVE  y \in hold[j] \cup need[j]
        <5>1. y \in hold[j] \/ (y = r /\ r.table = Tables(p)[j])
          BY <1>0, <2>1, <2>4, <3>2, <4>2, HoldsRulesAfter
        <5>2. PICK m \in D : r \in need[m]
          BY <4>1, GatherDef
        <5>3. Separate(D, need, hold, Tables(p))
          BY <1>0, <2>4, SeparateRules
        <5>4. r.table = Tables(p)[j] => m = j
          BY <5>2, <5>3 DEF Separate
        <5> QED
          BY <5>1, <5>2, <5>4
      <4> HIDE DEF W, D, need, hold, hold2, K, k, k2
      <4> QED
        BY <2>1, <2>5, <3>2, <4>3, <4>4, RuleAdded
    <3>3. CASE op = "DeleteRule" /\ rules' = DeleteRule(rules, r)
      <4>1. r \in K
        BY <2>5, <2>6, <3>3 DEF RuleCallsLeft
      <4>2. k2 = k \ {RuleRequest(r)}
        BY <1>0, <3>3, <4>1, ConfiguredRuleDeleted
      <4>3. \A j \in D : hold2[j] \subseteq hold[j] \ {r}
        BY <1>0, <2>1, <2>4, <3>3, <4>1, HoldsRulesAfter
      <4>4. \A x \in K : RuleRequest(x) = RuleRequest(r) => x = r
        BY <4>1, ConfiguredRule DEF RuleHypotheses
      <4> HIDE DEF W, D, need, hold, hold2, K, k, k2
      <4> QED
        BY <2>1, <2>5, <3>3, <4>2, <4>3, <4>4, RuleDeleted
    <3> QED
      BY <1>10, <3>1, <3>2, <3>3
  <2> QED
    BY <2>1, <2>2, <2>3, <2>7 DEF RulesInv, Planning, PlanningLabels
<1>11. CASE calm[p] /\ ApplyAddRule(p)
  BY <1>10, <1>11 DEF ApplyAddRule
<1>12. CASE calm[p] /\ ApplyDeleteRule(p)
  BY <1>10, <1>12 DEF ApplyDeleteRule
<1>13. CASE calm[p] /\ ApplyAddRoute(p)
  BY <1>10, <1>13 DEF ApplyAddRoute
<1>14. CASE calm[p] /\ ApplyDeleteRoute(p)
  BY <1>10, <1>14 DEF ApplyDeleteRoute
<1>15. CASE calm[p] /\ ApplyDone(p)
  <2>1. /\ pc[p] = "apply" /\ Ready(p) = {} /\ End(p, "ok")
        /\ UNCHANGED <<fib, rules, store, world>>
    BY <1>15 DEF ApplyDone
  <2>2. pc'[p] = "idle" /\ UNCHANGED <<kind, cfg>>
    BY <1>0, <2>1, EndsAt
  <2>3. CASE kind[p] # "apply"
    BY <1>2, <2>2, <2>3
  <2>4. CASE kind[p] = "apply"
    <3>1. \A op : ArgsOf(calls[p], op) = {}
      BY <1>0, <2>1, NoneReady
    <3>2. at[p] > Len(cfg[p].groups)
      BY <1>0, <2>1 DEF LocalInv
    <3>3. RuleCallsLeft(calls[p], want[p].rules, ToSet(rules), Done(p), NeedsRules(p),
                        HoldsRules(p), ConfiguredRules)
      BY <1>15, <2>1, <2>4 DEF RulesInv
    <3>4. \A g \in GroupsOf(cfg[p]) : Available(g) => RulesConverged(cfg[p], g)
      BY <3>1, <3>2, <3>3, AllRuleCallsMade
    <3>5. ASSUME NEW g
          PROVE  /\ Available(g)' <=> Available(g)
                 /\ RulesConverged(cfg[p], g)' <=> RulesConverged(cfg[p], g)
      BY <2>1, <2>2 DEF Available, RulesConverged
    <3>6. \A g \in GroupsOf(cfg[p])' : Available(g)' => RulesConverged(cfg[p], g)'
      BY <2>2, <3>4, <3>5
    <3> QED
      BY <2>2, <3>6 DEF RulesInv, Planning, PlanningLabels
  <2> QED
    BY <2>3, <2>4
<1>16. CASE pc[p] = "planned" /\ kind[p] = "check" /\ End(p, "ok")
  BY <1>0, <1>2, <1>16, EndsAt
<1> QED
  BY <1>0, <1>1, <1>3, <1>5, <1>6, <1>7, <1>8, <1>9, <1>11, <1>12, <1>13, <1>14, <1>15, <1>16,
     CalmStep, ActsAt

(* Both halves together.                                                   *)
ReconcileSafe ==
    /\ RoutesSafe
    /\ KernelRulesInv
    /\ \A p \in Procs : calm[p] => RulesInv(p)

(* The accounts of routes and rules are right in every reachable state.    *)
LEMMA ReconcileInvariance ==
    ASSUME OwnTables, RuleHypotheses
    PROVE  Spec => []ReconcileSafe
<1>1. ASSUME Init PROVE ReconcileSafe
  <2>1. \A p \in Procs : ~calm[p]
    BY <1>1, Zenon DEF Init
  <2>2. RoutesSafe
    BY <1>1, <2>1, InitBase DEF RoutesSafe
  <2>3. KernelRulesInv
    BY <1>1, InitKernelRules DEF RuleHypotheses
  <2> QED
    BY <2>1, <2>2, <2>3 DEF ReconcileSafe
<1>2. ASSUME ReconcileSafe, [Next]_vars PROVE ReconcileSafe'
  <2>1. BaseInv'
    BY <1>2, NextBase DEF ReconcileSafe, RoutesSafe
  <2>2. ASSUME NEW p \in Procs, calm'[p]
        PROVE  RoutesInv(p)' /\ RulesInv(p)'
    BY <1>2, <2>1, <2>2, NextRoutes, NextRules DEF ReconcileSafe, RoutesSafe
  <2>3. KernelRulesInv'
    BY <1>2, NextKernelRules DEF ReconcileSafe, RoutesSafe
  <2> QED
    BY <2>1, <2>2, <2>3 DEF ReconcileSafe, RoutesSafe
<1> QED
  BY <1>1, <1>2, PTL DEF Spec

(* A reconcileOnce that reports success, undisturbed, has brought the      *)
(* routes and the rules of every group it had a list for to exactly what   *)
(* the group should own, whatever earlier runs have left behind: crashed,  *)
(* failed, for other configurations, or interleaved with one another.      *)
THEOREM ReconcileConverges ==
    ASSUME OwnTables, RuleHypotheses
    PROVE  Spec => []SuccessConverges
<1>1. ReconcileSafe => SuccessConverges
  BY DEF ReconcileSafe, RoutesSafe, RoutesInv, RulesInv, SuccessConverges, Converged
<1> QED
  BY <1>1, ReconcileInvariance, PTL

(* With rules that are told apart, those a plan wants are never taken      *)
(* away.                                                                   *)
LEMMA DistinctRulesStay ==
    ASSUME ReconcileSafe, RuleHypotheses, NEW p \in Procs, Applying(p),
           NEW r \in want[p].rules, RuleRequest(r) \in ToSet(rules)
    PROVE  RuleRequest(r) \in ToSet(rules')
<1>0. /\ IInv /\ KernelRulesInv /\ AsksFor(p) /\ rules \in Seq(KernelRule)
      /\ pc[p] = "apply" /\ kind[p] = "apply" /\ calm[p] /\ Step(p)
  BY DEF ReconcileSafe, RoutesSafe, BaseInv, KernelRulesInv, IInv, HostInv, Applying
<1>1. ArgsOf(calls[p], "DeleteRule") \subseteq ConfiguredRules \ want[p].rules
  BY <1>0 DEF ReconcileSafe, RulesInv, RuleCallsLeft
<1>2. CASE ApplyAddRule(p)
  <2>1. PICK i \in DOMAIN calls[p] : \E x \in calls[p][i].args :
           calls[p][i].op = "AddRule" /\ rules' = AddRule(rules, x)
    BY <1>2 DEF ApplyAddRule, Succeeds
  <2>2. PICK x \in calls[p][i].args : rules' = AddRule(rules, x)
    BY <2>1
  <2>3. x \in ConfiguredRules
    BY <1>0, <2>1, <2>2, ArgsOfDef DEF AsksFor
  <2> QED
    BY <1>0, <2>2, <2>3, ConfiguredRuleAdded
<1>3. CASE ApplyDeleteRule(p)
  <2>1. PICK i \in DOMAIN calls[p] : \E x \in calls[p][i].args :
           calls[p][i].op = "DeleteRule" /\ rules' = DeleteRule(rules, x)
    BY <1>3 DEF ApplyDeleteRule, Succeeds
  <2>2. PICK x \in calls[p][i].args : rules' = DeleteRule(rules, x)
    BY <2>1
  <2>3. x \in ConfiguredRules /\ x # r
    BY <1>1, <2>1, <2>2, ArgsOfDef
  <2>4. r \in ConfiguredRules
    BY <1>0 DEF AsksFor
  <2>5. RuleRequest(x) # RuleRequest(r)
    BY <2>3, <2>4, ConfiguredRule DEF RuleHypotheses
  <2> QED
    BY <1>0, <2>2, <2>3, <2>5, ConfiguredRuleDeleted
<1>4. CASE ~ApplyAddRule(p) /\ ~ApplyDeleteRule(p)
  <2>1. FetchGroup(p) \/ SaveGroup(p) \/ ResolveGroup(p) \/ ListGroupRoutes(p)
          \/ PlanGroup(p) \/ PlanCleanupGroup(p) \/ FinishPlan(p) => FALSE
    BY <1>0 DEF FetchGroup, SaveGroup, ResolveGroup, ListGroupRoutes, PlanGroup,
       PlanCleanupGroup, FinishPlan
  <2>2. ApplyAddRoute(p) \/ ApplyDeleteRoute(p) \/ ApplyRejected(p) \/ ApplyDone(p)
          => UNCHANGED rules
    BY DEF ApplyAddRoute, ApplyDeleteRoute, ApplyRejected, ApplyDone
  <2> QED
    BY <1>0, <1>4, <2>1, <2>2 DEF Step
<1> QED
  BY <1>2, <1>3, <1>4

(* An undisturbed reconcile never takes away a rule that its plan wants, if *)
(* no delete request for one configured rule matches another: see          *)
(* WantedRulesStay for what happens otherwise.                             *)
THEOREM DistinctRulesAreKept ==
    ASSUME OwnTables, RuleHypotheses
    PROVE  Spec => [][\A p \in Procs : Applying(p) =>
                         {RuleRequest(r) : r \in want[p].rules} \cap ToSet(rules)
                            \subseteq ToSet(rules')]_vars
<1> DEFINE A == \A p \in Procs : Applying(p) =>
                   {RuleRequest(r) : r \in want[p].rules} \cap ToSet(rules)
                      \subseteq ToSet(rules')
<1>1. ASSUME ReconcileSafe, [Next]_vars PROVE [A]_vars
  BY <1>1, DistinctRulesStay
<1> QED
  BY <1>1, ReconcileInvariance, PTL DEF Spec

-----------------------------------------------------------------------------
(* Cleanup *)

(* Nobody else has given p's groups anything since p started: nothing has  *)
(* changed at all, or p is the only process and other programs do not      *)
(* pretend to be route-sync.                                               *)
Undisputed(p) == calm[p] \/ (Procs = {p} /\ OthersRoutes)

(* As p sees the steps of others: its groups can only lose routes.         *)
Losing(p) ==
    /\ Undisputed(p) /\ LocalsKept(p) /\ UNCHANGED rules
    /\ \A i \in Indexes(p) : Holds(p)'[i] \subseteq Holds(p)[i]

(* A route that comes or goes with another program or with a device is no  *)
(* group's gain.                                                           *)
LEMMA EnvironmentTakes ==
    ASSUME IInv, NEW p \in Procs, OthersRoutes, WorldChange \/ ForeignChange, cfg'[p] = cfg[p]
    PROVE  \A i \in Indexes(p) : Holds(p)'[i] \subseteq Holds(p)[i]
<1>1. \A q \in fib' : q \in fib \/ q \in ForeignRoutes
  <2>1. CASE WorldChange
    BY <2>1 DEF WorldChange
  <2>2. CASE ForeignChange
    BY <2>2, ForeignAssumption DEF ForeignChange, AddRoute
  <2> QED
    BY <2>1, <2>2
<1> SUFFICES ASSUME NEW i \in Indexes(p), NEW q \in Holds(p)'[i]
             PROVE  q \in Holds(p)[i]
  OBVIOUS
<1> DEFINE g == cfg[p].groups[i]
<1>2. cfg[p] \in Configs /\ g \in GroupsOf(cfg[p])
  BY GroupAt
<1>3. Holds(p)'[i] = OwnedRoutes(fib', cfg[p], g) /\ Holds(p)[i] = OwnedRoutes(fib, cfg[p], g)
  BY DEF Holds, Indexes
<1> HIDE DEF g
<1>4. /\ q \in fib' /\ q.table = g.table /\ q.proto = cfg[p].proto
      /\ q.dst.fam \in FamsOf(g.family)
  BY <1>3 DEF OwnedRoutes, ListRoutes
<1>5. ~ForeignRoute(q)
  BY <1>2, <1>4 DEF ForeignRoute
<1>6. q \in fib
  BY <1>1, <1>4, <1>5 DEF OthersRoutes
<1> QED
  BY <1>3, <1>4, <1>6 DEF OwnedRoutes, ListRoutes

(* The steps after which p's groups are undisputed.                        *)
LEMMA UndisputedStep ==
    ASSUME IInv, [Next]_vars, NEW p \in Procs, Undisputed(p)'
    PROVE  Losing(p) \/ StartSome(p) \/ (Undisputed(p) /\ Acts(p))
<1>1. CASE calm'[p]
  <2>1. Unnoticed(p) => Losing(p)
    BY UnnoticedKeeps DEF Unnoticed, Losing, Undisputed
  <2> QED
    BY <1>1, <2>1, CalmStep DEF Undisputed
<1>2. CASE Procs = {p} /\ OthersRoutes
  <2>1. CASE WorldChange \/ ForeignChange
    <3>1. LocalsKept(p) /\ UNCHANGED rules
      BY <2>1 DEF WorldChange, ForeignChange, job, mem, LocalsKept
    <3>2. \A i \in Indexes(p) : Holds(p)'[i] \subseteq Holds(p)[i]
      BY <1>2, <2>1, <3>1, EnvironmentTakes DEF LocalsKept
    <3> QED
      BY <1>2, <3>1, <3>2 DEF Losing, Undisputed
  <2>2. CASE UNCHANGED vars
    <3>1. LocalsKept(p) /\ UNCHANGED <<fib, rules>>
      BY <2>2 DEF vars, LocalsKept
    <3>2. Holds(p)' = Holds(p)
      BY <3>1, SameHolds DEF LocalsKept
    <3> QED
      BY <1>2, <3>1, <3>2 DEF Losing, Undisputed
  <2> QED
    BY <1>2, <2>1, <2>2 DEF Next, Acts, Undisputed
<1> QED
  BY <1>1, <1>2 DEF Undisputed

(* Whatever a group that cleanupOwned has passed holds is on the list of   *)
(* what is to be removed, what the group it has come to holds is in the    *)
(* listing, and nothing is on the list of what is to be added.             *)
CleanRoutesInv(p) ==
    /\ pc[p] = "rules" /\ kind[p] = "cleanup" /\ at[p] \in Indexes(p) =>
          Holds(p)[at[p]] \subseteq draft[p].routes
    /\ Planning(p) /\ kind[p] = "cleanup" =>
          /\ ArgsOf(plan[p].pass1, "AddRoute") = {}
          /\ \A i \in Past(p) : Holds(p)[i] \subseteq ArgsOf(plan[p].pass2, "DeleteRoute")
    /\ pc[p] = "apply" /\ kind[p] = "cleanup" =>
          /\ ArgsOf(calls[p], "AddRoute") = {}
          /\ \A i \in Indexes(p) : Holds(p)[i] \subseteq ArgsOf(calls[p], "DeleteRoute")
    /\ result[p] = "ok" /\ kind[p] = "cleanup" =>
          \A i \in Indexes(p) : Holds(p)[i] = {}

(* The groups whose rule is enabled: cleanup looks at no other's.          *)
Ruled(p) == {i \in Indexes(p) : cfg[p].groups[i].rule.enabled}

CleanRulesInv(p) ==
    /\ Planning(p) /\ kind[p] = "cleanup" =>
          /\ ArgsOf(plan[p].rules, "AddRule") = {}
          /\ ArgsOf(plan[p].rules, "DeleteRule") \subseteq ConfiguredRules
          /\ \A i \in Past(p) \cap Ruled(p) :
                HoldsRules(p)[i] \subseteq ArgsOf(plan[p].rules, "DeleteRule")
    /\ pc[p] = "apply" /\ kind[p] = "cleanup" =>
          /\ ArgsOf(calls[p], "AddRule") = {}
          /\ ArgsOf(calls[p], "DeleteRule") \subseteq ConfiguredRules
          /\ \A i \in Ruled(p) : HoldsRules(p)[i] \subseteq ArgsOf(calls[p], "DeleteRule")
    /\ result[p] = "ok" /\ kind[p] = "cleanup" =>
          \A i \in Ruled(p) : HoldsRules(p)[i] = {}

(* A cleanup fetches nothing: it only lists and plans.                     *)
LEMMA CleanupSteps ==
    ASSUME BaseInv, BaseInv', NEW p \in Procs, kind'[p] = "cleanup",
           FetchGroup(p) \/ SaveGroup(p) \/ (ResolveGroup(p) /\ ~LinkMissing(Current(p), world))
              \/ ListGroupRoutes(p)
    PROVE  /\ Planning(p) /\ kind[p] = "cleanup" /\ pc'[p] # "apply" /\ result'[p] = "none"
           /\ plan'[p] = plan[p] /\ Holds(p)' = Holds(p) /\ HoldsRules(p)' = HoldsRules(p)
           /\ cfg'[p] = cfg[p]
           /\ Past(p)' = Past(p)
           /\ pc'[p] = "rules" /\ at'[p] \in Indexes(p) => Holds(p)[at'[p]] \subseteq draft'[p].routes
<1>0. IInv /\ LocalInv(p) /\ LocalInv(p)'
  BY DEF BaseInv
<1>1. /\ pc[p] \in PlanningLabels /\ pc'[p] # "apply" /\ pc'[p] # "idle"
      /\ plan'[p] = plan[p] /\ UNCHANGED <<kind, cfg>>
      /\ UNCHANGED at \/ (Advance(p) /\ FetchGroup(p) /\ ~Available(Current(p)))
  BY <1>0, FindsOut
<1>2. UNCHANGED at
  BY <1>0, <1>1 DEF FetchGroup, LocalInv
<1>3. Holds(p)' = Holds(p) /\ HoldsRules(p)' = HoldsRules(p) /\ Past(p)' = Past(p)
  <2>1. UNCHANGED <<fib, rules>>
    BY DEF FetchGroup, SaveGroup, ResolveGroup, ListGroupRoutes
  <2> QED
    BY <1>1, <1>2, <2>1, SameHolds, SameConfig
<1>4. ASSUME pc'[p] = "rules", at'[p] \in Indexes(p)
      PROVE  Holds(p)[at'[p]] \subseteq draft'[p].routes
  <2>1. ListGroupRoutes(p)
    BY <1>0, <1>1, <1>2, <1>4 DEF FetchGroup, SaveGroup, ResolveGroup, Goto, Skip, Advance, Phase,
       IInv, ControlInv
  <2>2. draft'[p].routes = OwnedRoutes(fib, cfg[p], Current(p))
    BY <1>0, <2>1 DEF ListGroupRoutes, IInv, DataInv, OurDraft
  <2> QED
    BY <1>2, <1>4, <2>2 DEF Holds, Current
<1> QED
  BY <1>0, <1>1, <1>3, <1>4 DEF Planning, LocalInv

(* The group cleanup has come to is passed.                                *)
LEMMA CleanupPasses ==
    ASSUME IInv, NEW p \in Procs, PlanCleanupGroup(p)
    PROVE  /\ at[p] \in Indexes(p) /\ Past(p)' = Past(p) \cup {at[p]}
           /\ Holds(p)' = Holds(p) /\ HoldsRules(p)' = HoldsRules(p)
<1>1. /\ pc[p] \in PlanningLabels /\ UNCHANGED <<cfg, fib, rules>>
      /\ at'[p] = at[p] + 1
  BY AdvancesTo DEF PlanCleanupGroup, job, PlanningLabels
<1>2. Indexes(p)' = Indexes(p) /\ Holds(p)' = Holds(p) /\ HoldsRules(p)' = HoldsRules(p)
  BY <1>1, SameConfig, SameHolds
<1>3. at[p] \in Nat \ {0} /\ at[p] =< Len(cfg[p].groups)
  BY <1>1 DEF IInv, ControlInv
<1>4. cfg[p].groups \in Seq(Group)
  BY ConfigsAssumption DEF IInv, ControlInv, Config
<1>5. at[p] \in Indexes(p) /\ \A i \in Indexes(p) : i \in Nat
  BY <1>3, <1>4 DEF Indexes
<1>6. Past(p)' = Past(p) \cup {at[p]}
  BY <1>1, <1>2, <1>3, <1>5 DEF Past
<1> QED
  BY <1>2, <1>5, <1>6

(* Which groups have a rule depends on the configuration alone.            *)
LEMMA SameRuled ==
    ASSUME NEW p, cfg'[p] = cfg[p]
    PROVE  Ruled(p)' = Ruled(p)
BY DEF Ruled, Indexes

(* Every step keeps the account of the routes of an undisturbed cleanup.   *)
LEMMA NextCleanRoutes ==
    ASSUME BaseInv, BaseInv', [Next]_vars, NEW p \in Procs,
           Undisputed(p) => CleanRoutesInv(p), Undisputed(p)'
    PROVE  CleanRoutesInv(p)'
<1>0. IInv /\ IInv' /\ LocalInv(p) /\ LocalInv(p)' /\ Fib(fib)
  BY DEF BaseInv, FibInv
<1>1. CASE Losing(p)
  <2>1. /\ pc'[p] = pc[p] /\ kind'[p] = kind[p] /\ plan'[p] = plan[p] /\ draft'[p] = draft[p]
        /\ calls'[p] = calls[p] /\ result'[p] = result[p] /\ CleanRoutesInv(p)
        /\ at'[p] = at[p]
    BY <1>1 DEF Losing, LocalsKept
  <2>2. /\ Indexes(p)' = Indexes(p) /\ Past(p)' = Past(p) /\ Past(p) \subseteq Indexes(p)
        /\ \A i \in Indexes(p) : Holds(p)'[i] \subseteq Holds(p)[i]
    BY <1>1, SameConfig DEF Losing, LocalsKept, Past
  <2>3. /\ Planning(p)' <=> Planning(p)
        /\ \A X : \A i \in Indexes(p) : Holds(p)[i] \subseteq X => Holds(p)'[i] \subseteq X
        /\ \A i \in Indexes(p) : Holds(p)[i] = {} => Holds(p)'[i] = {}
    BY <2>1, <2>2 DEF Planning
  <2> QED
    BY <2>1, <2>2, <2>3 DEF CleanRoutesInv
<1>2. ASSUME pc'[p] = "idle", result'[p] # "ok" \/ kind'[p] # "cleanup"
      PROVE  CleanRoutesInv(p)'
  BY <1>2 DEF CleanRoutesInv, Planning, PlanningLabels
<1>3. ASSUME NEW r, r # "ok", End(p, r)
      PROVE  CleanRoutesInv(p)'
  BY <1>0, <1>2, <1>3, EndsAt
<1>4. ASSUME kind'[p] # "cleanup"
      PROVE  CleanRoutesInv(p)'
  BY <1>4 DEF CleanRoutesInv
<1>5. CASE StartSome(p)
  <2>1. /\ plan'[p] = NoPlan /\ at'[p] = 1 /\ result'[p] = "none" /\ pc'[p] # "apply"
        /\ pc'[p] # "rules"
    BY <1>0, <1>5, StartsAt DEF StartSome, LocalInv
  <2>2. Past(p)' = {}
    BY <1>0, <2>1, StartsEmpty
  <2> QED
    BY <2>1, <2>2, EmptyPlan DEF CleanRoutesInv, NoPlan
<1>6. CASE /\ Undisputed(p)
           /\ FetchGroup(p) \/ SaveGroup(p) \/ (ResolveGroup(p) /\ ~LinkMissing(Current(p), world))
              \/ ListGroupRoutes(p)
  <2> SUFFICES ASSUME kind'[p] = "cleanup" PROVE CleanRoutesInv(p)'
    BY <1>4
  <2>1. /\ Planning(p) /\ kind[p] = "cleanup" /\ pc'[p] # "apply" /\ result'[p] = "none"
        /\ plan'[p] = plan[p] /\ Holds(p)' = Holds(p) /\ Past(p)' = Past(p)
        /\ Indexes(p)' = Indexes(p)
        /\ pc'[p] = "rules" /\ at'[p] \in Indexes(p) => Holds(p)[at'[p]] \subseteq draft'[p].routes
    BY <1>6, CleanupSteps, SameConfig
  <2> QED
    BY <1>6, <2>1 DEF CleanRoutesInv
<1>7. CASE PlanGroup(p)
  BY <1>4, <1>7 DEF PlanGroup, job
<1>8. CASE Undisputed(p) /\ PlanCleanupGroup(p)
  <2>1. pc[p] = "rules" /\ kind[p] = "cleanup" /\ UNCHANGED <<kind, cfg>> /\ Advance(p)
    BY <1>8 DEF PlanCleanupGroup, job
  <2>2. CleanRoutesInv(p)
    BY <1>8
  <2>3. pc'[p] # "apply" /\ pc'[p] # "idle" /\ pc'[p] # "rules" /\ result'[p] = "none"
    BY <1>0, <2>1, AdvancesTo DEF LocalInv, Advance, Goto, Phase, IInv, ControlInv
  <2> DEFINE two == Retire({}, draft[p].routes)
  <2>4. /\ plan'[p].pass1 = plan[p].pass1
        /\ plan'[p].pass2 = plan[p].pass2 \o two
        /\ two \in Seq(Batch)
    BY <1>0, <1>8, PlansCleanup
  <2>5. at[p] \in Indexes(p) /\ Past(p)' = Past(p) \cup {at[p]}
    BY <1>0, <1>8, CleanupPasses
  <2>6. Holds(p)' = Holds(p)
    BY <1>0, <1>8, CleanupPasses
  <2>7. Holds(p)[at[p]] \subseteq draft[p].routes
    BY <2>1, <2>2, <2>5 DEF CleanRoutesInv
  <2>8. ArgsOf(two, "DeleteRoute") = draft[p].routes
    <3>1. ArgsOf(two, "DeleteRoute")
             = (draft[p].routes \ {}) \ ConflictingRouteRemovals({} \ draft[p].routes, draft[p].routes \ {})
      BY RetireParts
    <3> QED
      BY <3>1 DEF ConflictingRouteRemovals
  <2> HIDE DEF two
  <2>9. ArgsOf(plan'[p].pass2, "DeleteRoute")
           = ArgsOf(plan[p].pass2, "DeleteRoute") \cup ArgsOf(two, "DeleteRoute")
    <3>1. plan[p].pass2 \in Seq(Batch)
      BY <1>0, PlanBatches
    <3> QED
      BY <2>4, <3>1, ArgsOfConcat
  <2>10. /\ ArgsOf(plan[p].pass1, "AddRoute") = {}
         /\ \A i \in Past(p) : Holds(p)[i] \subseteq ArgsOf(plan[p].pass2, "DeleteRoute")
    BY <2>1, <2>2 DEF CleanRoutesInv, Planning, PlanningLabels
  <2>11. \A i \in Past(p)' : Holds(p)'[i] \subseteq ArgsOf(plan'[p].pass2, "DeleteRoute")
    BY <2>5, <2>6, <2>7, <2>8, <2>9, <2>10
  <2> QED
    BY <2>3, <2>4, <2>10, <2>11 DEF CleanRoutesInv
<1>9. CASE /\ Undisputed(p) /\ pc[p] = "planned" /\ kind[p] # "check"
           /\ calls'[p] = Schedule(plan[p]) /\ pc'[p] = "apply" /\ plan'[p] = NoPlan
           /\ UNCHANGED <<fib, rules, store, world, at, draft, want, result, kind, cfg>>
  <2> SUFFICES ASSUME kind[p] = "cleanup" PROVE CleanRoutesInv(p)'
    BY <1>4, <1>9
  <2>1. /\ ArgsOf(plan[p].pass1, "AddRoute") = {}
        /\ \A i \in Past(p) : Holds(p)[i] \subseteq ArgsOf(plan[p].pass2, "DeleteRoute")
        /\ InPasses(plan[p]) /\ result[p] = "none"
    BY <1>0, <1>9 DEF CleanRoutesInv, Planning, LocalInv
  <2>2. Past(p) = Indexes(p)
    BY <1>0, <1>9, LastGroup DEF LocalInv
  <2>3. /\ ArgsOf(Schedule(plan[p]), "AddRoute") = {}
        /\ ArgsOf(plan[p].pass2, "DeleteRoute") \subseteq ArgsOf(Schedule(plan[p]), "DeleteRoute")
    BY <1>0, <2>1, ScheduleArgs DEF InPasses
  <2>4. Indexes(p)' = Indexes(p) /\ Holds(p)' = Holds(p)
    BY <1>9, SameHolds, SameConfig
  <2> QED
    BY <1>9, <2>1, <2>2, <2>3, <2>4 DEF CleanRoutesInv, Planning, PlanningLabels
<1>10. ASSUME Undisputed(p), NEW op, NEW i \in DOMAIN calls[p], NEW r \in calls[p][i].args,
              Succeeds(p, op, i, r), Made(p, i, r),
              \/ op \in {"AddRule", "DeleteRule"} /\ UNCHANGED fib
              \/ op = "AddRoute"
              \/ op = "DeleteRoute" /\ fib' = DeleteRoute(fib, r)
       PROVE  CleanRoutesInv(p)'
  <2>1. /\ pc[p] = "apply"
        /\ calls[p] \in Seq(Batch)
        /\ calls[p][i].op = op
        /\ calls'[p] = TakenOff(calls[p], i, r)
        /\ UNCHANGED <<store, world, pc, at, draft, plan, want, result, kind, cfg>>
        /\ op \in {"AddRoute", "DeleteRoute"} => r \in Route
    BY <1>0, <1>10, CallMade
  <2> SUFFICES ASSUME kind[p] = "cleanup" PROVE CleanRoutesInv(p)'
    BY <1>4, <2>1
  <2>2. Indexes(p)' = Indexes(p) /\ result'[p] = "none" /\ pc'[p] = "apply"
    BY <1>0, <2>1, SameConfig DEF LocalInv
  <2>3. /\ ArgsOf(calls[p], "AddRoute") = {}
        /\ \A j \in Indexes(p) : Holds(p)[j] \subseteq ArgsOf(calls[p], "DeleteRoute")
    BY <1>10, <2>1 DEF CleanRoutesInv
  <2>4. /\ \A o : ArgsOf(calls'[p], o) \subseteq ArgsOf(calls[p], o)
        /\ \A o : o # op => ArgsOf(calls'[p], o) = ArgsOf(calls[p], o)
        /\ \A o : ArgsOf(calls[p], o) \subseteq ArgsOf(calls'[p], o) \cup {r}
        /\ r \in ArgsOf(calls[p], op)
    BY <2>1, TakenOffSets
  <2>5. op # "AddRoute"
    BY <2>3, <2>4
  <2>6. CASE op = "DeleteRoute" /\ fib' = DeleteRoute(fib, r)
    <3>1. fib' \subseteq fib \ {r}
      BY <1>0, <2>1, <2>6, DeleteRouteExact DEF Fib
    <3>2. \A j \in Indexes(p) : Holds(p)'[j] \subseteq Holds(p)[j] \ {r}
      BY <2>1, <2>2, <3>1 DEF Holds, Indexes, OwnedRoutes, ListRoutes
    <3>3. \A j \in Indexes(p) : Holds(p)'[j] \subseteq ArgsOf(calls'[p], "DeleteRoute")
      BY <2>3, <2>4, <3>2
    <3> QED
      BY <2>2, <2>3, <2>4, <3>3 DEF CleanRoutesInv, Planning, PlanningLabels
  <2>7. CASE op \in {"AddRule", "DeleteRule"} /\ UNCHANGED fib
    <3>1. Holds(p)' = Holds(p)
      BY <2>1, <2>7 DEF Holds, Indexes
    <3> QED
      BY <2>2, <2>3, <2>4, <2>7, <3>1 DEF CleanRoutesInv, Planning, PlanningLabels
  <2> QED
    BY <1>10, <2>5, <2>6, <2>7
<1>11. CASE Undisputed(p) /\ ApplyAddRule(p)
  BY <1>10, <1>11 DEF ApplyAddRule
<1>12. CASE Undisputed(p) /\ ApplyDeleteRule(p)
  BY <1>10, <1>12 DEF ApplyDeleteRule
<1>13. CASE Undisputed(p) /\ ApplyAddRoute(p)
  BY <1>10, <1>13 DEF ApplyAddRoute
<1>14. CASE Undisputed(p) /\ ApplyDeleteRoute(p)
  BY <1>10, <1>14 DEF ApplyDeleteRoute
<1>15. CASE Undisputed(p) /\ ApplyDone(p)
  <2>1. /\ pc[p] = "apply" /\ Ready(p) = {} /\ End(p, "ok")
        /\ UNCHANGED <<fib, rules>>
    BY <1>15 DEF ApplyDone
  <2>2. pc'[p] = "idle" /\ UNCHANGED <<kind, cfg>>
    BY <1>0, <2>1, EndsAt
  <2> SUFFICES ASSUME kind[p] = "cleanup" PROVE CleanRoutesInv(p)'
    BY <1>4, <2>2
  <2>3. \A i \in Indexes(p) : Holds(p)[i] = {}
    BY <1>0, <1>15, <2>1, NoneReady DEF CleanRoutesInv
  <2>4. Indexes(p)' = Indexes(p) /\ Holds(p)' = Holds(p)
    BY <2>1, <2>2, SameHolds, SameConfig
  <2> QED
    BY <2>2, <2>3, <2>4 DEF CleanRoutesInv, Planning, PlanningLabels
<1>16. CASE pc[p] = "planned" /\ kind[p] = "check" /\ End(p, "ok")
  BY <1>0, <1>2, <1>16, EndsAt
<1> QED
  BY <1>0, <1>1, <1>3, <1>5, <1>6, <1>7, <1>8, <1>9, <1>11, <1>12, <1>13, <1>14, <1>15, <1>16,
     UndisputedStep, ActsAt

(* Every step keeps the account of the rules of an undisturbed cleanup.    *)
LEMMA NextCleanRules ==
    ASSUME BaseInv, BaseInv', KernelRulesInv, RuleHypotheses, [Next]_vars, NEW p \in Procs,
           Undisputed(p) => CleanRulesInv(p), Undisputed(p)'
    PROVE  CleanRulesInv(p)'
<1>0. IInv /\ IInv' /\ LocalInv(p) /\ LocalInv(p)' /\ rules \in Seq(KernelRule)
  BY DEF BaseInv, IInv, HostInv
<1>1. CASE Losing(p)
  <2>1. /\ pc'[p] = pc[p] /\ kind'[p] = kind[p] /\ plan'[p] = plan[p]
        /\ calls'[p] = calls[p] /\ result'[p] = result[p] /\ CleanRulesInv(p)
    BY <1>1 DEF Losing, LocalsKept
  <2>2. Ruled(p)' = Ruled(p) /\ Past(p)' = Past(p) /\ HoldsRules(p)' = HoldsRules(p)
    BY <1>1, SameConfig, SameRuled DEF Losing, LocalsKept, HoldsRules, Indexes
  <2> QED
    BY <2>1, <2>2 DEF CleanRulesInv, Planning
<1>2. ASSUME pc'[p] = "idle", result'[p] # "ok" \/ kind'[p] # "cleanup"
      PROVE  CleanRulesInv(p)'
  BY <1>2 DEF CleanRulesInv, Planning, PlanningLabels
<1>3. ASSUME NEW r, r # "ok", End(p, r)
      PROVE  CleanRulesInv(p)'
  BY <1>0, <1>2, <1>3, EndsAt
<1>4. ASSUME kind'[p] # "cleanup"
      PROVE  CleanRulesInv(p)'
  BY <1>4 DEF CleanRulesInv
<1>5. CASE StartSome(p)
  <2>1. plan'[p] = NoPlan /\ at'[p] = 1 /\ result'[p] = "none" /\ pc'[p] # "apply"
    BY <1>0, <1>5, StartsAt DEF StartSome, LocalInv
  <2>2. Past(p)' = {}
    BY <1>0, <2>1, StartsEmpty
  <2> QED
    BY <2>1, <2>2, EmptyPlan DEF CleanRulesInv, NoPlan
<1>6. CASE /\ Undisputed(p)
           /\ FetchGroup(p) \/ SaveGroup(p) \/ (ResolveGroup(p) /\ ~LinkMissing(Current(p), world))
              \/ ListGroupRoutes(p)
  <2> SUFFICES ASSUME kind'[p] = "cleanup" PROVE CleanRulesInv(p)'
    BY <1>4
  <2>1. /\ Planning(p) /\ kind[p] = "cleanup" /\ pc'[p] # "apply" /\ result'[p] = "none"
        /\ plan'[p] = plan[p] /\ HoldsRules(p)' = HoldsRules(p) /\ Past(p)' = Past(p)
        /\ Ruled(p)' = Ruled(p)
    BY <1>6, CleanupSteps, SameRuled
  <2> QED
    BY <1>6, <2>1 DEF CleanRulesInv
<1>7. CASE PlanGroup(p)
  BY <1>4, <1>7 DEF PlanGroup, job
<1>8. CASE Undisputed(p) /\ PlanCleanupGroup(p)
  <2>1. pc[p] = "rules" /\ kind[p] = "cleanup" /\ UNCHANGED <<kind, cfg>> /\ Advance(p)
    BY <1>8 DEF PlanCleanupGroup, job
  <2>2. pc[p] \in PlanningLabels /\ CleanRulesInv(p)
    BY <1>8, <2>1 DEF PlanningLabels
  <2>3. pc'[p] # "apply" /\ pc'[p] # "idle" /\ result'[p] = "none"
    BY <1>0, <2>1, AdvancesTo DEF LocalInv
  <2> DEFINE n   == at[p]
             g   == Current(p)
             new == CleanupRuleCalls(rules, cfg[p], g)
  <2>4. plan'[p].rules = plan[p].rules \o new /\ new \in Seq(Batch)
    BY <1>0, <1>8, PlansCleanup
  <2>5. n \in Indexes(p) /\ Past(p)' = Past(p) \cup {n}
    BY <1>0, <1>8, CleanupPasses
  <2>6. HoldsRules(p)' = HoldsRules(p) /\ Ruled(p)' = Ruled(p)
    BY <1>0, <1>8, <2>1, CleanupPasses, SameRuled
  <2>7. /\ HoldsRules(p)[n] = OwnedRules(rules, cfg[p], g)
        /\ n \in Ruled(p) <=> g.rule.enabled
    BY <2>5 DEF HoldsRules, Current, Ruled
  <2>8. /\ ArgsOf(new, "DeleteRule") = IF g.rule.enabled THEN OwnedRules(rules, cfg[p], g) ELSE {}
        /\ ArgsOf(new, "AddRule") = {}
    <3>1. g \in Group
      BY <1>0, <2>2, CurrentFacts
    <3> QED
      BY <1>0, <3>1, CleanupCallsParts
  <2>9. OwnedRules(rules, cfg[p], g) \subseteq ConfiguredRules
    <3>1. cfg[p] \in Configs /\ g \in GroupsOf(cfg[p])
      BY <1>0, <2>2, CurrentFacts
    <3> QED
      BY <3>1, OwnedConfigured
  <2> HIDE DEF new, g, n
  <2>10. \A op : ArgsOf(plan'[p].rules, op) = ArgsOf(plan[p].rules, op) \cup ArgsOf(new, op)
    <3>1. plan[p].rules \in Seq(Batch)
      BY <1>0, PlanBatches
    <3> QED
      BY <2>4, <3>1, ArgsOfConcat
  <2>11. /\ ArgsOf(plan[p].rules, "AddRule") = {}
         /\ ArgsOf(plan[p].rules, "DeleteRule") \subseteq ConfiguredRules
         /\ \A i \in Past(p) \cap Ruled(p) :
                HoldsRules(p)[i] \subseteq ArgsOf(plan[p].rules, "DeleteRule")
    BY <2>1, <2>2 DEF CleanRulesInv, Planning
  <2>12. \A i \in Past(p)' \cap Ruled(p)' :
            HoldsRules(p)'[i] \subseteq ArgsOf(plan'[p].rules, "DeleteRule")
    BY <2>5, <2>6, <2>7, <2>8, <2>10, <2>11
  <2>13. /\ ArgsOf(plan'[p].rules, "AddRule") = {}
         /\ ArgsOf(plan'[p].rules, "DeleteRule") \subseteq ConfiguredRules
    BY <2>8, <2>9, <2>10, <2>11
  <2> QED
    BY <2>3, <2>12, <2>13 DEF CleanRulesInv
<1>9. CASE /\ Undisputed(p) /\ pc[p] = "planned" /\ kind[p] # "check"
           /\ calls'[p] = Schedule(plan[p]) /\ pc'[p] = "apply" /\ plan'[p] = NoPlan
           /\ UNCHANGED <<fib, rules, store, world, at, draft, want, result, kind, cfg>>
  <2> SUFFICES ASSUME kind[p] = "cleanup" PROVE CleanRulesInv(p)'
    BY <1>4, <1>9
  <2>1. /\ ArgsOf(plan[p].rules, "AddRule") = {}
        /\ ArgsOf(plan[p].rules, "DeleteRule") \subseteq ConfiguredRules
        /\ \A i \in Past(p) \cap Ruled(p) :
              HoldsRules(p)[i] \subseteq ArgsOf(plan[p].rules, "DeleteRule")
        /\ InPasses(plan[p]) /\ result[p] = "none"
    BY <1>0, <1>9 DEF CleanRulesInv, Planning, LocalInv
  <2>2. Past(p) \cap Ruled(p) = Ruled(p)
    BY <1>0, <1>9, LastGroup DEF LocalInv, Ruled
  <2>3. \A op \in {"AddRule", "DeleteRule"} :
           ArgsOf(Schedule(plan[p]), op) = ArgsOf(plan[p].rules, op)
    <3>1. \A op \in {"AddRule", "DeleteRule"} :
             ArgsOf(plan[p].pass1, op) = {} /\ ArgsOf(plan[p].pass2, op) = {}
      BY <2>1 DEF InPasses
    <3>2. \A op : ArgsOf(Schedule(plan[p]), op)
                     = ArgsOf(plan[p].rules, op) \cup ArgsOf(plan[p].pass1, op)
                          \cup ArgsOf(plan[p].pass2, op)
      BY <1>0, ScheduleArgs
    <3> QED
      BY <3>1, <3>2
  <2>4. Ruled(p)' = Ruled(p) /\ HoldsRules(p)' = HoldsRules(p)
    BY <1>9, SameHolds, SameRuled
  <2> QED
    BY <1>9, <2>1, <2>2, <2>3, <2>4 DEF CleanRulesInv, Planning, PlanningLabels
<1>10. ASSUME Undisputed(p), NEW op, NEW i \in DOMAIN calls[p], NEW r \in calls[p][i].args,
              Succeeds(p, op, i, r), Made(p, i, r),
              \/ op \in {"AddRoute", "DeleteRoute"} /\ UNCHANGED rules
              \/ op = "AddRule"
              \/ op = "DeleteRule" /\ rules' = DeleteRule(rules, r)
       PROVE  CleanRulesInv(p)'
  <2>1. /\ pc[p] = "apply"
        /\ calls[p] \in Seq(Batch)
        /\ calls[p][i].op = op
        /\ calls'[p] = TakenOff(calls[p], i, r)
        /\ UNCHANGED <<store, world, pc, at, draft, plan, want, result, kind, cfg>>
    BY <1>0, <1>10, CallMade
  <2> SUFFICES ASSUME kind[p] = "cleanup" PROVE CleanRulesInv(p)'
    BY <1>4, <2>1
  <2>2. Ruled(p)' = Ruled(p) /\ result'[p] = "none" /\ pc'[p] = "apply"
    BY <1>0, <2>1, SameRuled DEF LocalInv
  <2>3. /\ ArgsOf(calls[p], "AddRule") = {}
        /\ ArgsOf(calls[p], "DeleteRule") \subseteq ConfiguredRules
        /\ \A j \in Ruled(p) : HoldsRules(p)[j] \subseteq ArgsOf(calls[p], "DeleteRule")
    BY <1>10, <2>1 DEF CleanRulesInv
  <2>4. /\ \A o : ArgsOf(calls'[p], o) \subseteq ArgsOf(calls[p], o)
        /\ \A o : o # op => ArgsOf(calls'[p], o) = ArgsOf(calls[p], o)
        /\ \A o : ArgsOf(calls[p], o) \subseteq ArgsOf(calls'[p], o) \cup {r}
        /\ r \in ArgsOf(calls[p], op)
    BY <2>1, TakenOffSets
  <2>5. op # "AddRule"
    BY <2>3, <2>4
  <2>6. CASE op = "DeleteRule" /\ rules' = DeleteRule(rules, r)
    <3>1. r \in ConfiguredRules
      BY <2>3, <2>4, <2>6
    <3>2. \A j \in Ruled(p) : HoldsRules(p)'[j] \subseteq HoldsRules(p)[j] \ {r}
      BY <1>0, <2>1, <2>6, <3>1, HoldsRulesAfter DEF Ruled
    <3>3. \A j \in Ruled(p) : HoldsRules(p)'[j] \subseteq ArgsOf(calls'[p], "DeleteRule")
      BY <2>3, <2>4, <3>2
    <3> QED
      BY <2>2, <2>3, <2>4, <3>3 DEF CleanRulesInv, Planning, PlanningLabels
  <2>7. CASE op \in {"AddRoute", "DeleteRoute"} /\ UNCHANGED rules
    <3>1. HoldsRules(p)' = HoldsRules(p)
      BY <2>1, <2>7 DEF HoldsRules, Indexes
    <3> QED
      BY <2>2, <2>3, <2>4, <2>7, <3>1 DEF CleanRulesInv, Planning, PlanningLabels
  <2> QED
    BY <1>10, <2>5, <2>6, <2>7
<1>11. CASE Undisputed(p) /\ ApplyAddRule(p)
  BY <1>10, <1>11 DEF ApplyAddRule
<1>12. CASE Undisputed(p) /\ ApplyDeleteRule(p)
  BY <1>10, <1>12 DEF ApplyDeleteRule
<1>13. CASE Undisputed(p) /\ ApplyAddRoute(p)
  BY <1>10, <1>13 DEF ApplyAddRoute
<1>14. CASE Undisputed(p) /\ ApplyDeleteRoute(p)
  BY <1>10, <1>14 DEF ApplyDeleteRoute
<1>15. CASE Undisputed(p) /\ ApplyDone(p)
  <2>1. /\ pc[p] = "apply" /\ Ready(p) = {} /\ End(p, "ok")
        /\ UNCHANGED <<fib, rules>>
    BY <1>15 DEF ApplyDone
  <2>2. pc'[p] = "idle" /\ UNCHANGED <<kind, cfg>>
    BY <1>0, <2>1, EndsAt
  <2> SUFFICES ASSUME kind[p] = "cleanup" PROVE CleanRulesInv(p)'
    BY <1>4, <2>2
  <2>3. \A i \in Ruled(p) : HoldsRules(p)[i] = {}
    BY <1>0, <1>15, <2>1, NoneReady DEF CleanRulesInv
  <2>4. Ruled(p)' = Ruled(p) /\ HoldsRules(p)' = HoldsRules(p)
    BY <2>1, <2>2, SameHolds, SameRuled
  <2> QED
    BY <2>2, <2>3, <2>4 DEF CleanRulesInv, Planning, PlanningLabels
<1>16. CASE pc[p] = "planned" /\ kind[p] = "check" /\ End(p, "ok")
  BY <1>0, <1>2, <1>16, EndsAt
<1> QED
  BY <1>0, <1>1, <1>3, <1>5, <1>6, <1>7, <1>8, <1>9, <1>11, <1>12, <1>13, <1>14, <1>15, <1>16,
     UndisputedStep, ActsAt

(* What cleanup leaves.                                                    *)
CleanRoutesSafe == BaseInv /\ \A p \in Procs : Undisputed(p) => CleanRoutesInv(p)

CleanSafe ==
    /\ CleanRoutesSafe
    /\ KernelRulesInv
    /\ \A p \in Procs : Undisputed(p) => CleanRulesInv(p)

(* The accounts are in order before anything has run.                      *)
LEMMA InitClean ==
    ASSUME Init
    PROVE  CleanRoutesSafe /\ \A p \in Procs : CleanRulesInv(p)
<1>1. \A p \in Procs : pc[p] = "idle" /\ result[p] = "none"
  BY DEF Init
<1>2. \A p \in Procs : CleanRoutesInv(p) /\ CleanRulesInv(p)
  BY <1>1 DEF CleanRoutesInv, CleanRulesInv, Planning, PlanningLabels
<1> QED
  BY <1>2, InitBase DEF CleanRoutesSafe

(* Every step keeps the accounts of the routes.                            *)
LEMMA NextCleanRoutesSafe ==
    ASSUME CleanRoutesSafe, [Next]_vars PROVE CleanRoutesSafe'
<1>1. BaseInv'
  BY NextBase DEF CleanRoutesSafe
<1>2. ASSUME NEW p \in Procs, Undisputed(p)' PROVE CleanRoutesInv(p)'
  BY <1>1, <1>2, NextCleanRoutes DEF CleanRoutesSafe
<1> QED
  BY <1>1, <1>2 DEF CleanRoutesSafe

(* A cleanup that reports success leaves no route of any group, whatever   *)
(* the configuration, also with two groups in one table: if nothing has    *)
(* disturbed it, or if it is the only process and other programs keep to   *)
(* routes of their own.                                                    *)
THEOREM CleanupRemovesRoutes ==
    Spec => [](\A p \in Procs :
                  result[p] = "ok" /\ kind[p] = "cleanup" /\ Undisputed(p) =>
                      \A g \in GroupsOf(cfg[p]) : OwnedRoutes(fib, cfg[p], g) = {})
<1>1. Init => CleanRoutesSafe
  BY InitClean
<1>2. CleanRoutesSafe /\ [Next]_vars => CleanRoutesSafe'
  BY NextCleanRoutesSafe
<1>3. CleanRoutesSafe =>
         \A p \in Procs :
            result[p] = "ok" /\ kind[p] = "cleanup" /\ Undisputed(p) =>
                \A g \in GroupsOf(cfg[p]) : OwnedRoutes(fib, cfg[p], g) = {}
  BY DEF CleanRoutesSafe, CleanRoutesInv, GroupsOf, Holds, Indexes
<1> QED
  BY <1>1, <1>2, <1>3, PTL DEF Spec

(* Routes and rules together.                                              *)
LEMMA CleanInvariance ==
    ASSUME RuleHypotheses
    PROVE  Spec => []CleanSafe
<1>1. ASSUME Init PROVE CleanSafe
  BY <1>1, InitClean, InitKernelRules DEF CleanSafe, RuleHypotheses
<1>2. ASSUME CleanSafe, [Next]_vars PROVE CleanSafe'
  <2>1. CleanRoutesSafe'
    BY <1>2, NextCleanRoutesSafe DEF CleanSafe
  <2>2. ASSUME NEW p \in Procs, Undisputed(p)' PROVE CleanRulesInv(p)'
    BY <1>2, <2>1, <2>2, NextCleanRules DEF CleanSafe, CleanRoutesSafe
  <2>3. KernelRulesInv'
    BY <1>2, NextKernelRules DEF CleanSafe, CleanRoutesSafe
  <2> QED
    BY <2>1, <2>2, <2>3 DEF CleanSafe
<1> QED
  BY <1>1, <1>2, PTL DEF Spec

(* What is left when the account says that nothing is.                     *)
LEMMA CleanedUp ==
    ASSUME CleanSafe, NEW p \in Procs, Undisputed(p), result[p] = "ok", kind[p] = "cleanup",
           NEW g \in GroupsOf(cfg[p])
    PROVE  /\ OwnedRoutes(fib, cfg[p], g) = {}
           /\ g.rule.enabled => OwnedRules(rules, cfg[p], g) = {}
<1>1. PICK i \in Indexes(p) : g = cfg[p].groups[i]
  BY DEF GroupsOf, Indexes
<1>2. Holds(p)[i] = {} /\ (g.rule.enabled => HoldsRules(p)[i] = {})
  BY <1>1 DEF CleanSafe, CleanRoutesSafe, CleanRoutesInv, CleanRulesInv, Ruled
<1> QED
  BY <1>1, <1>2 DEF Holds, HoldsRules

(* A cleanup that reports success, undisturbed, leaves neither a route nor *)
(* a rule of any group (no rule of a group whose rule is enabled).         *)
THEOREM CleanupCleans ==
    ASSUME RuleHypotheses
    PROVE  Spec => []SuccessCleans
<1>1. CleanSafe => SuccessCleans
  BY CleanedUp DEF SuccessCleans, Undisputed
<1> QED
  BY <1>1, CleanInvariance, PTL

(* What a cleanup that reports success leaves, disturbed or not.           *)
LeavesNothing ==
    \A p \in Procs :
        result[p] = "ok" /\ kind[p] = "cleanup" =>
            \A g \in GroupsOf(cfg[p]) :
                /\ OwnedRoutes(fib, cfg[p], g) = {}
                /\ g.rule.enabled => OwnedRules(rules, cfg[p], g) = {}

(* Where there is one process, nothing that happens during its cleanup     *)
(* matters: devices may come and go and other programs change their own    *)
(* routes meanwhile.                                                       *)
THEOREM LoneCleanupCleans ==
    ASSUME RuleHypotheses, OthersRoutes, \A p, q \in Procs : p = q
    PROVE  Spec => []LeavesNothing
<1>1. CleanSafe => LeavesNothing
  <2>1. \A p \in Procs : Undisputed(p)
    BY DEF Undisputed
  <2> QED
    BY <2>1, CleanedUp DEF LeavesNothing
<1> QED
  BY <1>1, CleanInvariance, PTL

-----------------------------------------------------------------------------
(* Failures *)

(* What health.Select resolves a candidate to.                             *)
LEMMA SelectsCandidates ==
    ASSUME NEW h, NEW fam, NEW w
    PROVE  /\ \A i \in Candidates(h, fam) :
                 \E hop \in Select(h, fam, w) : hop.via = CandidateVia(Gateways(h)[i], fam)
           /\ \A hop \in Select(h, fam, w) :
                 \E i \in Candidates(h, fam) : hop.link = w.links[Gateways(h)[i].dev]
<1> DEFINE gws == Gateways(h)
           up  == [i \in Candidates(h, fam) |-> EvaluateCandidate(gws[i], fam, w)]
           R(i) == [link   |-> w.links[gws[i].dev],
                    via    |-> CandidateVia(gws[i], fam),
                    onlink |-> gws[i].onlink,
                    metric |-> Metric(up, i)]
<1>1. Select(h, fam, w) = {R(i) : i \in Candidates(h, fam)}
  BY DEF Select, HopOf, Evaluated
<1>2. \A i : R(i).via = CandidateVia(gws[i], fam) /\ R(i).link = w.links[gws[i].dev]
  OBVIOUS
<1> HIDE DEF R, up
<1> QED
  BY <1>1, <1>2

(* With the devices it needs, a group has a live device for every route    *)
(* through one of its next hops.                                           *)
LEMMA LiveRoutesVia ==
    ASSUME NEW g \in Group, NEW w \in World, ~LinkMissing(g, w), ~Deviceless(g, w),
           NEW h \in HopsOf(g), NEW proto, NEW p, p.fam \in FamsOf(g.family),
           NEW hops, hops = ResolveCandidates(h, g.family, w),
           NEW r \in RoutesVia(proto, g, h, hops, w.links[h.dev], p)
    PROVE  r.link \in Live(w)
<1> DEFINE gws == Gateways(h)
           matching == {hop \in hops : hop.via.fam = p.fam}
<1>1. h \in Hop
  BY DEF HopsOf, Group
<1>2. \A d \in Dev : w.links[d] # 0 => w.links[d] \in Live(w)
  BY DEF Live
<1>3. ASSUME NEW fam \in HopFams(g.family), NEW i \in Candidates(h, fam)
      PROVE  /\ w.links[gws[i].dev] \in Live(w)
             /\ CandidateVia(gws[i], fam).fam = fam
             /\ \E hop \in hops : hop.via = CandidateVia(gws[i], fam)
  <2>1. w.links[gws[i].dev] # 0
    BY DEF LinkMissing, CandidateLinkMissing
  <2>2. gws[i] \in Gateway
    BY <1>1, GatewaysType DEF Candidates
  <2>3. gws[i].dev \in Dev
    BY <2>2 DEF Gateway
  <2>4. CandidateVia(gws[i], fam) # NoAddr
    BY DEF Candidates
  <2>5. CandidateVia(gws[i], fam).fam = fam
    BY <2>4 DEF CandidateVia
  <2>6. \E hop \in Select(h, fam, w) : hop.via = CandidateVia(gws[i], fam)
    BY SelectsCandidates
  <2> QED
    BY <1>2, <2>1, <2>3, <2>5, <2>6 DEF ResolveCandidates
<1>4. ASSUME NEW hop \in hops PROVE hop.link \in Live(w)
  <2>1. PICK fam \in HopFams(g.family) : hop \in Select(h, fam, w)
    BY DEF ResolveCandidates
  <2>2. PICK i \in Candidates(h, fam) : hop.link = w.links[gws[i].dev]
    BY <2>1, SelectsCandidates
  <2> QED
    BY <1>3, <2>2
<1>5. CASE matching = {}
  <2>1. r.link = w.links[h.dev]
    BY <1>5 DEF RoutesVia
  <2>2. ~(p.fam \in HopFams(g.family) /\ Candidates(h, p.fam) # {})
    BY <1>3, <1>5
  <2>3. w.links[h.dev] # 0
    BY <2>2 DEF Deviceless
  <2> QED
    BY <1>1, <1>2, <2>1, <2>3 DEF Hop
<1>6. CASE matching # {}
  <2>1. PICK hop \in matching : r.link = hop.link
    BY <1>6 DEF RoutesVia
  <2> QED
    BY <1>4, <2>1
<1> QED
  BY <1>5, <1>6

(* So the kernel accepts every route the group wants.                      *)
Accepted(r) == r.type = "throw" \/ r.link \in Live(world)

(* A route planned for a group that lacks no device is one the kernel      *)
(* accepts.                                                                *)
LEMMA DesiredAccepted ==
    ASSUME NEW g \in Group, world \in World, ~LinkMissing(g, world), ~Deviceless(g, world),
           NEW proto, NEW fetched,
           NEW r \in DesiredRoutes(proto, g, fetched, Resolve(g, world), world)
    PROVE  Accepted(r)
<1> DEFINE res      == Resolve(g, world)
           prefixes == RemovePrefixesCoveringAddrs(g, FilterFamily(fetched, g.family), world)
<1>1. ASSUME NEW p \in prefixes, r \in RoutesVia(proto, g, g.hop, res.hops, res.link, p)
      PROVE  Accepted(r)
  <2>1. p.fam \in FamsOf(g.family)
    BY DEF RemovePrefixesCoveringAddrs, FilterFamily
  <2>2. /\ g.hop \in HopsOf(g) /\ res.hops = ResolveCandidates(g.hop, g.family, world)
        /\ res.link = world.links[g.hop.dev]
    BY DEF HopsOf, Resolve
  <2> HIDE DEF res, prefixes
  <2> QED
    BY <1>1, <2>1, <2>2, LiveRoutesVia DEF Accepted
<1>2. ASSUME NEW p \in FilterFamily(MaskAll(g.excludePrefixes), g.family), r = ThrowRoute(proto, g, p)
      PROVE  Accepted(r)
  BY <1>2 DEF ThrowRoute, Accepted
<1>3. ASSUME g.default # NoHop, NEW p \in DefaultPrefixes(g.family),
             r \in RoutesVia(proto, g, g.default, res.dhops, res.dlink, p)
      PROVE  Accepted(r)
  <2>1. p.fam \in FamsOf(g.family)
    BY DEF DefaultPrefixes
  <2>2. /\ g.default \in HopsOf(g) /\ res.dhops = ResolveCandidates(g.default, g.family, world)
        /\ res.dlink = world.links[g.default.dev]
    BY <1>3 DEF HopsOf, Resolve
  <2> HIDE DEF res
  <2> QED
    BY <1>3, <2>1, <2>2, LiveRoutesVia DEF Accepted
<1> HIDE DEF res
<1> QED
  BY <1>1, <1>2, <1>3 DEF DesiredRoutes, res, prefixes

(* Nothing has gone wrong yet, and configuration c has all its devices.    *)
NoCause(c) ==
    /\ faults = 0
    /\ \A g \in GroupsOf(c) : ~LinkMissing(g, world) /\ ~Deviceless(g, world)

(* Then the hops in the draft are right, whatever other processes do, and  *)
(* the routes that are going to be added are accepted.                     *)
BlamelessInv(p) ==
    NoCause(cfg[p]) =>
       /\ result[p] # "failed"
       /\ pc[p] \in {"routes", "rules"} /\ kind[p] # "cleanup" =>
             draft[p].res = Resolve(Current(p), world)
       /\ \A r \in ArgsOf(plan[p].pass1, "AddRoute") \cup ArgsOf(calls[p], "AddRoute") : Accepted(r)

(* Until something goes wrong the world does not change.                   *)
LEMMA FaultsRemain ==
    ASSUME IInv, [Next]_vars, faults' = 0
    PROVE  faults = 0 /\ UNCHANGED world
<1>0. faults \in Nat
  BY DEF IInv, HostInv
<1>1. UNCHANGED <<faults, world>> \/ faults' = faults + 1
  <2>1. ASSUME NEW p \in Procs,
               StartSome(p) \/ FetchGroup(p) \/ ResolveGroup(p) \/ ListGroupRoutes(p)
                 \/ PlanCleanupGroup(p) \/ FinishPlan(p) \/ ApplyRejected(p) \/ ApplyDone(p)
        PROVE  UNCHANGED <<faults, world>>
    BY <2>1 DEF StartSome, Start, FetchGroup, ResolveGroup, ListGroupRoutes, PlanCleanupGroup,
       FinishPlan, ApplyRejected, ApplyDone
  <2>2. ASSUME NEW p \in Procs, PlanGroup(p)
        PROVE  UNCHANGED <<faults, world>>
    BY <2>2 DEF PlanGroup
  <2>3. ASSUME NEW p \in Procs, ApplyAddRule(p) \/ ApplyDeleteRule(p) \/ ApplyAddRoute(p)
                 \/ ApplyDeleteRoute(p)
        PROVE  UNCHANGED <<faults, world>>
    BY <2>3 DEF ApplyAddRule, ApplyDeleteRule, ApplyAddRoute, ApplyDeleteRoute, Made
  <2>4. ASSUME NEW p \in Procs, SaveGroup(p) \/ NetlinkFails(p) \/ Crash(p)
        PROVE  UNCHANGED <<faults, world>> \/ faults' = faults + 1
    BY <2>4 DEF SaveGroup, NetlinkFails, Crash
  <2>5. CASE WorldChange \/ ForeignChange
    BY <2>5 DEF WorldChange, ForeignChange
  <2>6. CASE UNCHANGED vars
    BY <2>6 DEF vars
  <2> QED
    BY <2>1, <2>2, <2>3, <2>4, <2>5, <2>6 DEF Next, Step
<1> QED
  BY <1>0, <1>1

(* None of the calls p has left can be refused.                            *)
LEMMA NoneRefused ==
    ASSUME IInv, NEW p \in Procs, BlamelessInv(p), NoCause(cfg[p]), NEW i \in DOMAIN calls[p],
           NEW r \in calls[p][i].args
    PROVE  Outcome(calls[p][i].op, r) = "nil"
<1>1. calls[p][i].op \in {"AddRoute", "DeleteRoute", "AddRule", "DeleteRule"}
  <2>1. calls[p] \in Seq(Batch)
    BY PlanBatches
  <2> QED
    BY <2>1 DEF Batch
<1>2. calls[p][i].op = "AddRoute" => Accepted(r)
  BY ArgsOfDef DEF BlamelessInv
<1>3. CASE calls[p][i].op = "AddRoute"
  BY <1>2, <1>3 DEF Outcome, AddRouteError, ignoreExists, Accepted
<1>4. CASE calls[p][i].op = "DeleteRoute"
  BY <1>4 DEF Outcome, DeleteRouteError, ignoreNotFound
<1>5. CASE calls[p][i].op = "AddRule"
  BY <1>5 DEF Outcome, AddRuleError, ignoreExists
<1>6. CASE calls[p][i].op = "DeleteRule"
  BY <1>6 DEF Outcome, DeleteRuleError, ignoreNotFound
<1> QED
  BY <1>1, <1>3, <1>4, <1>5, <1>6

(* Every step keeps a run without faults free of calls the kernel would    *)
(* refuse.                                                                 *)
LEMMA NextBlameless ==
    ASSUME IInv, [Next]_vars, NEW p \in Procs, LocalInv(p), LocalInv(p)', BlamelessInv(p)
    PROVE  BlamelessInv(p)'
<1> SUFFICES ASSUME NoCause(cfg[p])'
             PROVE  BlamelessInv(p)'
  BY DEF BlamelessInv
<1>0. faults = 0 /\ faults' = 0 /\ UNCHANGED world
  BY FaultsRemain DEF NoCause
<1>1. \A r : Accepted(r)' <=> Accepted(r)
  BY <1>0 DEF Accepted
<1>2. cfg'[p] = cfg[p] => NoCause(cfg[p])
  BY <1>0 DEF NoCause
<1>3. CASE LocalsKept(p)
  <2>1. /\ pc'[p] = pc[p] /\ kind'[p] = kind[p] /\ cfg'[p] = cfg[p] /\ at'[p] = at[p]
        /\ draft'[p] = draft[p] /\ plan'[p] = plan[p] /\ calls'[p] = calls[p]
        /\ result'[p] = result[p]
    BY <1>3 DEF LocalsKept
  <2>2. Current(p)' = Current(p)
    BY <2>1 DEF Current
  <2> QED
    BY <1>0, <1>1, <1>2, <2>1, <2>2 DEF BlamelessInv
<1>4. CASE StartSome(p)
  <2>1. /\ plan'[p] = NoPlan /\ calls'[p] = <<>> /\ result'[p] = "none"
        /\ pc'[p] \in {"fetch", "planned"} \/ kind'[p] = "cleanup"
    BY <1>4, StartsAt DEF StartSome, LocalInv
  <2> QED
    BY <2>1, EmptyPlan DEF BlamelessInv, NoPlan
<1>5. ASSUME NEW r, r # "failed", End(p, r)
      PROVE  BlamelessInv(p)'
  BY <1>5, EndsAt, EmptyPlan DEF BlamelessInv, NoPlan
<1>6. ASSUME cfg'[p] = cfg[p], result'[p] = "none", NEW X,
             X \subseteq ArgsOf(plan[p].pass1, "AddRoute") \cup ArgsOf(calls[p], "AddRoute"),
             X = ArgsOf(plan'[p].pass1, "AddRoute") \cup ArgsOf(calls'[p], "AddRoute"),
             pc'[p] \in {"routes", "rules"} /\ kind'[p] # "cleanup" =>
                draft'[p].res = Resolve(Current(p)', world)
      PROVE  BlamelessInv(p)'
  BY <1>0, <1>1, <1>2, <1>6 DEF BlamelessInv
<1>7. CASE FetchGroup(p) \/ SaveGroup(p)
  <2>1. /\ UNCHANGED <<plan, calls, cfg, kind>>
        /\ pc'[p] # "idle"
        /\ pc'[p] \in {"routes", "rules"} => kind[p] = "cleanup"
    <3>1. CASE SaveGroup(p)
      BY <3>1 DEF SaveGroup, Goto, job, IInv, ControlInv
    <3>2. CASE FetchGroup(p)
      <4>1. UNCHANGED <<plan, calls, cfg, kind>>
        BY <3>2 DEF FetchGroup, job
      <4>2. pc'[p] \in {"save", "resolve"} \/ Advance(p)
        BY <3>2 DEF FetchGroup, Skip, Goto, IInv, ControlInv
      <4> QED
        BY <4>1, <4>2, AdvancesTo
    <3> QED
      BY <1>7, <3>1, <3>2
  <2>2. result'[p] = "none"
    BY <2>1 DEF LocalInv
  <2> QED
    BY <1>6, <2>1, <2>2
<1>8. CASE ResolveGroup(p) /\ ~LinkMissing(Current(p), world)
  <2>1. /\ UNCHANGED <<plan, calls, cfg, kind, at>> /\ pc'[p] = "routes"
        /\ draft' = [draft EXCEPT ![p].res = Resolve(Current(p), world)]
    BY <1>8 DEF ResolveGroup, Goto, job, IInv, ControlInv
  <2>2. draft'[p].res = Resolve(Current(p)', world)
    BY <2>1 DEF IInv, DataInv, OurDraft, Current
  <2>3. result'[p] = "none"
    BY <2>1 DEF LocalInv
  <2> QED
    BY <1>6, <2>1, <2>2, <2>3
<1>9. CASE ListGroupRoutes(p)
  <2>1. /\ UNCHANGED <<plan, calls, cfg, kind, at>> /\ pc[p] = "routes" /\ pc'[p] = "rules"
        /\ draft' = [draft EXCEPT ![p].routes = OwnedRoutes(fib, cfg[p], Current(p))]
    BY <1>9 DEF ListGroupRoutes, Goto, job, IInv, ControlInv
  <2>2. draft'[p].res = draft[p].res /\ Current(p)' = Current(p)
    BY <2>1 DEF IInv, DataInv, OurDraft, Current
  <2>3. result'[p] = "none"
    BY <2>1 DEF LocalInv
  <2> QED
    BY <1>2, <1>6, <2>1, <2>2, <2>3 DEF BlamelessInv
<1>10. CASE PlanGroup(p)
  <2>1. /\ UNCHANGED <<cfg, kind, calls>> /\ Advance(p) /\ pc[p] = "rules" /\ kind[p] # "cleanup"
    BY <1>10 DEF PlanGroup, job
  <2>2. pc'[p] \in {"fetch", "planned"}
    BY <2>1, AdvancesTo
  <2>3. result'[p] = "none"
    BY <2>2 DEF LocalInv
  <2> DEFINE routes == DesiredRoutes(cfg[p].proto, Current(p), draft[p].prefixes, draft[p].res, world)
             new == Replace(routes, draft[p].routes)
  <2>4. plan'[p].pass1 = plan[p].pass1 \o new /\ new \in Seq(Batch)
    BY <1>10, PlansGroup
  <2>5. ArgsOf(new, "AddRoute") \subseteq routes
    BY ReplaceAdds
  <2>6. \A r \in routes : Accepted(r)
    <3>1. /\ Current(p) \in Group /\ Current(p) \in GroupsOf(cfg[p])
          /\ world \in World
      BY <2>1, CurrentFacts, WorldsAssumption DEF PlanningLabels, IInv, HostInv
    <3>2. draft[p].res = Resolve(Current(p), world)
      BY <1>2, <2>1 DEF BlamelessInv
    <3>3. ~LinkMissing(Current(p), world) /\ ~Deviceless(Current(p), world)
      BY <1>2, <2>1, <3>1 DEF NoCause
    <3> QED
      BY <3>1, <3>2, <3>3, DesiredAccepted
  <2> HIDE DEF routes, new
  <2>7. ArgsOf(plan'[p].pass1, "AddRoute") = ArgsOf(plan[p].pass1, "AddRoute") \cup ArgsOf(new, "AddRoute")
    <3>1. plan[p].pass1 \in Seq(Batch)
      BY PlanBatches
    <3> QED
      BY <2>4, <3>1, ArgsOfConcat
  <2>8. \A r \in ArgsOf(plan'[p].pass1, "AddRoute") \cup ArgsOf(calls'[p], "AddRoute") : Accepted(r)
    BY <1>2, <2>1, <2>5, <2>6, <2>7 DEF BlamelessInv
  <2> QED
    BY <1>1, <2>2, <2>3, <2>8 DEF BlamelessInv
<1>11. CASE PlanCleanupGroup(p)
  <2>1. /\ UNCHANGED <<cfg, kind, calls>> /\ Advance(p) /\ kind[p] = "cleanup"
    BY <1>11 DEF PlanCleanupGroup, job
  <2>2. plan'[p].pass1 = plan[p].pass1
    BY <1>11, PlansCleanup
  <2>3. result'[p] = "none"
    BY <2>1, AdvancesTo DEF LocalInv
  <2> QED
    BY <1>6, <2>1, <2>2, <2>3
<1>12. CASE /\ pc[p] = "planned" /\ kind[p] # "check"
            /\ calls'[p] = Schedule(plan[p]) /\ pc'[p] = "apply" /\ plan'[p] = NoPlan
            /\ UNCHANGED <<fib, rules, store, world, at, draft, want, result, kind, cfg>>
  <2>1. ArgsOf(Schedule(plan[p]), "AddRoute") = ArgsOf(plan[p].pass1, "AddRoute")
    BY ScheduleArgs DEF LocalInv, InPasses
  <2>2. ArgsOf(plan'[p].pass1, "AddRoute") = {}
    BY <1>12, EmptyPlan DEF NoPlan
  <2>3. result'[p] = "none"
    BY <1>12 DEF LocalInv
  <2> QED
    BY <1>6, <1>12, <2>1, <2>2, <2>3
<1>13. ASSUME NEW op, NEW i \in DOMAIN calls[p], NEW r \in calls[p][i].args,
              Succeeds(p, op, i, r), Made(p, i, r)
       PROVE  BlamelessInv(p)'
  <2>1. /\ calls[p] \in Seq(Batch) /\ calls'[p] = TakenOff(calls[p], i, r)
        /\ pc[p] = "apply" /\ UNCHANGED <<pc, plan, result, cfg>>
    BY <1>13, CallMade
  <2>2. ArgsOf(calls'[p], "AddRoute") \subseteq ArgsOf(calls[p], "AddRoute")
    BY <2>1, TakenOffSets
  <2>3. result'[p] = "none"
    BY <2>1 DEF LocalInv
  <2> QED
    BY <1>6, <2>1, <2>2, <2>3
<1>14. CASE ApplyAddRule(p) \/ ApplyDeleteRule(p) \/ ApplyAddRoute(p) \/ ApplyDeleteRoute(p)
  BY <1>13, <1>14 DEF ApplyAddRule, ApplyDeleteRule, ApplyAddRoute, ApplyDeleteRoute
<1>15. CASE ApplyDone(p)
  BY <1>5, <1>15 DEF ApplyDone
<1>16. CASE FinishPlan(p)
  <2>1. CASE End(p, "ok")
    BY <1>5, <2>1
  <2> QED
    BY <1>12, <1>16, <2>1 DEF FinishPlan, Goto, job, IInv, ControlInv, DataInv
<1>17. CASE ResolveGroup(p) /\ LinkMissing(Current(p), world)
  <2>1. pc[p] = "resolve" /\ End(p, "failed")
    BY <1>17 DEF ResolveGroup
  <2>2. Current(p) \in GroupsOf(cfg[p]) /\ UNCHANGED cfg
    BY <2>1, CurrentFacts, EndsAt DEF PlanningLabels
  <2> QED
    BY <1>2, <1>17, <2>2 DEF NoCause
<1>18. CASE ApplyRejected(p)
  <2>1. UNCHANGED cfg
    BY <1>18, EndsAt DEF ApplyRejected
  <2> QED
    BY <1>2, <1>18, <2>1, NoneRefused DEF ApplyRejected, Ready
<1>19. CASE NetlinkFails(p) \/ Crash(p)
  BY <1>0, <1>19 DEF NetlinkFails, Crash
<1> QED
  BY <1>3, <1>4, <1>7, <1>8, <1>9, <1>10, <1>11, <1>14, <1>15, <1>16, <1>17, <1>18, <1>19,
     AnyStep DEF Acts, Step

(* Processes at work at the same time do not make one another fail: with   *)
(* no fault in the environment, a run fails only for want of a device,     *)
(* however the processes interleave and whatever they delete or add before *)
(* one another.                                                            *)
THEOREM NobodyElseToBlame == Spec => []FailuresHaveACause
<1> DEFINE Inv == BaseInv /\ \A p \in Procs : BlamelessInv(p)
<1>1. Init => Inv
  <2> SUFFICES ASSUME Init PROVE Inv
    OBVIOUS
  <2>1. \A p \in Procs : /\ result[p] = "none" /\ pc[p] = "idle"
                         /\ plan[p] = NoPlan /\ calls[p] = <<>>
    BY DEF Init
  <2> QED
    BY <2>1, InitBase, EmptyPlan DEF BlamelessInv, NoPlan
<1>2. Inv /\ [Next]_vars => Inv'
  <2> SUFFICES ASSUME Inv, [Next]_vars PROVE Inv'
    OBVIOUS
  <2>1. BaseInv'
    BY NextBase
  <2>2. ASSUME NEW p \in Procs PROVE BlamelessInv(p)'
    BY <2>1, NextBlameless DEF BaseInv
  <2> QED
    BY <2>1, <2>2
<1>3. Inv => FailuresHaveACause
  <2> SUFFICES ASSUME Inv, NEW p \in Procs, result[p] = "failed", ~(faults > 0)
               PROVE  \E g \in GroupsOf(cfg[p]) : LinkMissing(g, world) \/ Deviceless(g, world)
    BY DEF FailuresHaveACause
  <2>1. faults = 0
    BY DEF BaseInv, IInv, HostInv
  <2> QED
    BY <2>1 DEF BlamelessInv, NoCause
<1> QED
  BY <1>1, <1>2, <1>3, PTL DEF Spec
=============================================================================
