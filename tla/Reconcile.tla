------------------------------ MODULE Reconcile ------------------------------
(***************************************************************************)
(* The reconciliation core: reconcileOnce and cleanupOwned of internal/app *)
(* with the Apply functions of internal/reconcile, as several route-sync   *)
(* processes run them against one kernel and one state directory: the      *)
(* daemon and any apply, check or cleanup started beside it.  There is no  *)
(* lock between them.                                                      *)
(*                                                                         *)
(* Each access to something shared (a fetch with its save, a round of      *)
(* lookups and pings, a listing, one netlink change) is a step of its own. *)
(*                                                                         *)
(* The environment may change what the host answers (taking the routes of  *)
(* a vanished device with it), add or remove routes of other protocols,    *)
(* make a netlink call fail, make a save fail and kill a process.          *)
(***************************************************************************)
EXTENDS Planner

CONSTANTS
    Procs,           \* route-sync processes
    Daemons,         \* those that run the daemon command
    Configs,         \* the configurations a process may run with
    Worlds,          \* what the host may answer
    Kinds,           \* the commands in use, a subset of AllKinds
    ForeignRoutes,   \* routes other programs add and remove
    ForeignRules,    \* the rules of other programs, in their order
    MaxFaults        \* how often the environment interferes, in all

AllKinds == {"apply", "check", "cleanup"}

ASSUME DaemonsAssumption   == Daemons \subseteq Procs
ASSUME ConfigsAssumption   == Configs \subseteq Config /\ Configs # {}
ASSUME WorldsAssumption    == Worlds \subseteq World
ASSUME KindsAssumption     == Kinds \subseteq AllKinds /\ Kinds # {}
ASSUME ForeignAssumption   ==
    /\ ForeignRoutes \subseteq Route /\ \A q \in ForeignRoutes : Installed(q) = q
    /\ ForeignRules \in Seq(KernelRule)
ASSUME MaxFaultsAssumption == MaxFaults \in Nat

VARIABLES
    fib,      \* the kernel's routes
    rules,    \* the kernel's policy rules
    store,    \* the state directory: the saved prefixes of each group
    world,    \* what the host answers now
    pc,       \* what each process does next
    kind,     \* the command a process runs
    cfg,      \* the configuration it runs with
    at,       \* the group its plan has come to
    draft,    \* that group's planner.InputGroup, as far as it is known
    plan,     \* the calls planned for the groups before it
    calls,    \* the calls still to be made
    result,   \* how its last run ended
    faults,   \* interferences so far
    want,     \* history: what the groups of the plan should own
    calm      \* history: nothing but the process itself has changed the
              \* kernel or a saved list, and the world has not changed,
              \* since it started

job  == <<kind, cfg>>
mem  == <<at, draft, plan, want>>
vars == <<fib, rules, store, world, pc, kind, cfg, at, draft, plan, calls,
          result, faults, want, calm>>

(* A group's state file: readable or not (never written, or cut short).    *)
NoState  == [ok |-> FALSE, prefixes |-> {}]
Saved(s) == [ok |-> TRUE, prefixes |-> s]
State    == [ok : BOOLEAN, prefixes : SUBSET Prefix]

Draft    == [prefixes : SUBSET Prefix, res : Resolved, routes : SUBSET Route]

NoResolved == [link |-> 0, dlink |-> 0, hops |-> {}, dhops |-> {}]
NoDraft    == [prefixes |-> {}, res |-> NoResolved, routes |-> {}]

Plan   == [rules : Seq(Batch), pass1 : Seq(Batch), pass2 : Seq(Batch)]
NoPlan == [rules |-> <<>>, pass1 |-> <<>>, pass2 |-> <<>>]

Want   == [routes : SUBSET Route, rules : SUBSET Rule]
NoWant == [routes |-> {}, rules |-> {}]

(* Where a process works on one group of its plan.                         *)
PlanningLabels == {"fetch", "save", "resolve", "routes", "rules"}

(* The group p's plan has come to.                                         *)
Current(p) == cfg[p].groups[at[p]]

GroupsOf(c) == {c.groups[i] : i \in DOMAIN c.groups}

Init ==
    /\ fib \in SUBSET ForeignRoutes
    /\ \A q, r \in fib : SameSlot(q, r) => q = r
    /\ rules = ForeignRules
    /\ store = [n \in Names |-> NoState]
    /\ world \in Worlds
    /\ pc = [p \in Procs |-> "idle"]
    /\ kind = [p \in Procs |-> CHOOSE k \in Kinds : TRUE]
    /\ cfg = [p \in Procs |-> CHOOSE c \in Configs : TRUE]
    /\ at = [p \in Procs |-> 1]
    /\ draft = [p \in Procs |-> NoDraft]
    /\ plan = [p \in Procs |-> NoPlan]
    /\ calls = [p \in Procs |-> <<>>]
    /\ result = [p \in Procs |-> "none"]
    /\ faults = 0
    /\ want = [p \in Procs |-> NoWant]
    /\ calm = [p \in Procs |-> FALSE]

-----------------------------------------------------------------------------
(* A run begins and ends *)

PhaseStopsEarly(k, c, i) ==   \* mutant: the last of several groups is left out
    IF i >= Len(c.groups) /\ i > 1 THEN "planned"
    ELSE IF k = "cleanup" THEN "routes" ELSE "fetch"

(* Where a run of command k goes on with the i-th group of its config.     *)
Phase(k, c, i) ==
    IF i > Len(c.groups) THEN "planned"
    ELSE IF k = "cleanup" THEN "routes" ELSE "fetch"

(* app.Run, or one turn of runDaemon's loop.                               *)
Start(p, k, c) ==
    /\ pc[p] = "idle"
    /\ pc' = [pc EXCEPT ![p] = Phase(k, c, 1)]
    /\ kind' = [kind EXCEPT ![p] = k]
    /\ cfg' = [cfg EXCEPT ![p] = c]
    /\ result' = [result EXCEPT ![p] = "none"]
    /\ calm' = [calm EXCEPT ![p] = TRUE]
    /\ UNCHANGED <<fib, rules, store, world, faults, calls>>
    /\ UNCHANGED mem

(* The process returns; its local variables are gone.                      *)
End(p, r) ==
    /\ pc' = [pc EXCEPT ![p] = "idle"]
    /\ result' = [result EXCEPT ![p] = r]
    /\ at' = [at EXCEPT ![p] = 1]
    /\ draft' = [draft EXCEPT ![p] = NoDraft]
    /\ plan' = [plan EXCEPT ![p] = NoPlan]
    /\ calls' = [calls EXCEPT ![p] = <<>>]
    /\ want' = [want EXCEPT ![p] = NoWant]
    /\ UNCHANGED job

(* Who else is at work sees what p changes.                                *)
Disturbs(p) ==
    calm' = [q \in Procs |-> calm[q] /\ (q = p \/ UNCHANGED <<fib, rules, store>>)]

-----------------------------------------------------------------------------
(* BuildPlan and BuildCleanupPlan *)

Goto(p, label) == pc' = [pc EXCEPT ![p] = label]

(* On to the next group.                                                   *)
Advance(p) ==
    /\ Goto(p, Phase(kind[p], cfg[p], at[p] + 1))
    /\ at' = [at EXCEPT ![p] = @ + 1]
    /\ draft' = [draft EXCEPT ![p] = NoDraft]

Took(p, prefixes) ==
    draft' = [draft EXCEPT ![p].prefixes = Normalize(prefixes, cfg[p].aggregate)]

SkipAsEmpty(p) ==   \* mutant: no state counts as an empty list
    Took(p, {}) /\ Goto(p, "resolve") /\ UNCHANGED at

(* "no last known good state available; skipping group"                    *)
Skip(p) == Advance(p)

(* Fetch and Normalize: with the source down, the last known good state    *)
(* takes its place; without one the group is skipped.                      *)
FetchGroup(p) ==
    /\ pc[p] = "fetch"
    /\ LET source == world.source[Current(p).name]
           saved  == store[Current(p).name]
       IN  \/ /\ source.ok
              /\ Took(p, source.prefixes)
              /\ Goto(p, "save")
              /\ UNCHANGED at
           \/ /\ ~source.ok /\ saved.ok
              /\ Took(p, saved.prefixes)
              /\ Goto(p, "resolve")
              /\ UNCHANGED at
           \/ /\ ~source.ok /\ ~saved.ok
              /\ Skip(p)
    /\ UNCHANGED <<fib, rules, store, world, plan, want, calls, result, faults, calm>>
    /\ UNCHANGED job

(* SaveGroup.  A failure is only logged: the file is then as it was, or    *)
(* truncated.                                                              *)
SaveGroup(p) ==
    /\ pc[p] = "save"
    /\ \/ /\ store' = [store EXCEPT ![Current(p).name] = Saved(draft[p].prefixes)]
          /\ UNCHANGED faults
       \/ /\ faults < MaxFaults
          /\ store' \in {store, [store EXCEPT ![Current(p).name] = NoState]}
          /\ faults' = faults + 1
    /\ Goto(p, "resolve")
    /\ UNCHANGED <<fib, rules, world, at, draft, plan, want, calls, result>>
    /\ UNCHANGED job
    /\ Disturbs(p)

(* LinkIndexByName, resolveTargetHops and resolveDefaultHops: one missing  *)
(* device ends the run, whatever the other groups of the plan.             *)
ResolveGroup(p) ==
    /\ pc[p] = "resolve"
    /\ \/ /\ ~LinkMissing(Current(p), world)
          /\ draft' = [draft EXCEPT ![p].res = Resolve(Current(p), world)]
          /\ Goto(p, "routes")
          /\ UNCHANGED <<at, plan, want, calls, result>>
          /\ UNCHANGED job
       \/ /\ LinkMissing(Current(p), world)
          /\ End(p, "failed")
    /\ UNCHANGED <<fib, rules, store, world, faults, calm>>

(* routes.CurrentOwned *)
ListGroupRoutes(p) ==
    /\ pc[p] = "routes"
    /\ draft' = [draft EXCEPT ![p].routes = OwnedRoutes(fib, cfg[p], Current(p))]
    /\ Goto(p, "rules")
    /\ UNCHANGED <<fib, rules, store, world, at, plan, want, calls, result, faults, calm>>
    /\ UNCHANGED job

(* rules.CurrentOwned and exclusionInputs complete the group's input; its  *)
(* part of planner.Build follows from it.                                  *)
PlanGroup(p) ==
    LET c      == cfg[p]
        g      == Current(p)
        have   == draft[p].routes
        routes == DesiredRoutes(c.proto, g, draft[p].prefixes, draft[p].res, world)
    IN  /\ pc[p] = "rules"
        /\ kind[p] # "cleanup"
        /\ plan' = [plan EXCEPT ![p] =
                [rules |-> @.rules \o RuleCalls(DesiredRules(g), OwnedRules(rules, c, g)),
                 pass1 |-> @.pass1 \o Replace(routes, have),
                 pass2 |-> @.pass2 \o Retire(routes, have)]]
        /\ want' = [want EXCEPT ![p] =
                [routes |-> @.routes \cup routes, rules |-> @.rules \cup DesiredRules(g)]]
        /\ Advance(p)
        /\ UNCHANGED <<fib, rules, store, world, calls, result, faults, calm>>
        /\ UNCHANGED job

(* BuildCleanupPlan's part for a group: everything listed goes.            *)
PlanCleanupGroup(p) ==
    /\ pc[p] = "rules"
    /\ kind[p] = "cleanup"
    /\ plan' = [plan EXCEPT ![p] =
            [rules |-> @.rules \o CleanupRuleCalls(rules, cfg[p], Current(p)),
             pass1 |-> @.pass1,
             pass2 |-> @.pass2 \o Retire({}, draft[p].routes)]]
    /\ Advance(p)
    /\ UNCHANGED <<fib, rules, store, world, want, calls, result, faults, calm>>
    /\ UNCHANGED job

ScheduleRetireFirst(pl) == pl.rules \o pl.pass2 \o pl.pass1   \* mutant

(* rules.Apply over all groups, then the two loops of routes.Apply.        *)
Schedule(pl) == pl.rules \o pl.pass1 \o pl.pass2

(* reconcileOnce and cleanupOwned: print the plan; a dry run ends here.    *)
FinishPlan(p) ==
    /\ pc[p] = "planned"
    /\ \/ /\ kind[p] = "check"
          /\ End(p, "ok")
       \/ /\ kind[p] # "check"
          /\ calls' = [calls EXCEPT ![p] = Schedule(plan[p])]
          /\ Goto(p, "apply")
          /\ plan' = [plan EXCEPT ![p] = NoPlan]
          /\ UNCHANGED <<at, draft, want, result>>
          /\ UNCHANGED job
    /\ UNCHANGED <<fib, rules, store, world, faults, calm>>

-----------------------------------------------------------------------------
(* rules.Apply, then routes.Apply *)

(* The batch being worked on: the first with calls left.                   *)
Ready(p) ==
    {i \in DOMAIN calls[p] : /\ calls[p][i].args # {}
                             /\ \A j \in 1 .. i - 1 : calls[p][j].args = {}}

(* What the call reports: rtnl turns "already there" and "already gone"    *)
(* into success.                                                           *)
Outcome(op, r) ==
    CASE op = "AddRoute"    -> ignoreExists(AddRouteError(fib, Live(world), r))
      [] op = "DeleteRoute" -> ignoreNotFound(DeleteRouteError(fib, r))
      [] op = "AddRule"     -> ignoreExists(AddRuleError(rules, r))
      [] op = "DeleteRule"  -> ignoreNotFound(DeleteRuleError(rules, r))

(* p may make the call op(r) of batch i next, and it succeeds.             *)
Succeeds(p, op, i, r) ==
    /\ pc[p] = "apply"
    /\ i \in Ready(p)
    /\ calls[p][i].op = op
    /\ r \in calls[p][i].args
    /\ Outcome(op, r) = "nil"

(* One call is made.                                                       *)
Made(p, i, r) ==
    /\ calls' = [calls EXCEPT ![p][i].args = @ \ {r}]
    /\ UNCHANGED <<store, world, pc, at, draft, plan, want, result, faults>>
    /\ UNCHANGED job
    /\ Disturbs(p)

ApplyAddRule(p) ==
    \E i \in DOMAIN calls[p] : \E r \in calls[p][i].args :
        /\ Succeeds(p, "AddRule", i, r)
        /\ rules' = AddRule(rules, r)
        /\ UNCHANGED fib
        /\ Made(p, i, r)

ApplyDeleteRule(p) ==
    \E i \in DOMAIN calls[p] : \E r \in calls[p][i].args :
        /\ Succeeds(p, "DeleteRule", i, r)
        /\ rules' = DeleteRule(rules, r)
        /\ UNCHANGED fib
        /\ Made(p, i, r)

ApplyAddRoute(p) ==
    \E i \in DOMAIN calls[p] : \E r \in calls[p][i].args :
        /\ Succeeds(p, "AddRoute", i, r)
        /\ fib' = AddRoute(fib, r)
        /\ UNCHANGED rules
        /\ Made(p, i, r)

ApplyDeleteRoute(p) ==
    \E i \in DOMAIN calls[p] : \E r \in calls[p][i].args :
        /\ Succeeds(p, "DeleteRoute", i, r)
        /\ fib' = DeleteRoute(fib, r)
        /\ UNCHANGED rules
        /\ Made(p, i, r)

(* Apply returns the first error it gets.                                  *)
ApplyRejected(p) ==
    /\ pc[p] = "apply"
    /\ \E i \in Ready(p) : \E r \in calls[p][i].args : Outcome(calls[p][i].op, r) # "nil"
    /\ End(p, "failed")
    /\ UNCHANGED <<fib, rules, store, world, faults, calm>>

ApplyDone(p) ==
    /\ pc[p] = "apply"
    /\ Ready(p) = {}
    /\ End(p, "ok")
    /\ UNCHANGED <<fib, rules, store, world, faults, calm>>

-----------------------------------------------------------------------------
(* The environment *)

(* A netlink request fails: the run is over, with what it has done so far. *)
NetlinkFails(p) ==
    /\ pc[p] \in {"resolve", "routes", "rules"} \/ (pc[p] = "apply" /\ Ready(p) # {})
    /\ faults < MaxFaults
    /\ faults' = faults + 1
    /\ End(p, "failed")
    /\ UNCHANGED <<fib, rules, store, world, calm>>

(* The process is killed; in SaveGroup, it may have truncated the file.    *)
Crash(p) ==
    /\ pc[p] # "idle"
    /\ faults < MaxFaults
    /\ faults' = faults + 1
    /\ \/ UNCHANGED store
       \/ /\ pc[p] = "save"
          /\ store' = [store EXCEPT ![Current(p).name] = NoState]
    /\ End(p, "none")
    /\ UNCHANGED <<fib, rules, world>>
    /\ Disturbs(p)

(* The kernel drops the routes of a device that disappears.                *)
WorldChange ==
    /\ faults < MaxFaults
    /\ faults' = faults + 1
    /\ world' \in Worlds \ {world}
    /\ fib' = {q \in fib : q.link \in {0, LoopbackIndex} \cup Live(world')}
    /\ calm' = [p \in Procs |-> FALSE]
    /\ UNCHANGED <<rules, store, pc, calls, result>>
    /\ UNCHANGED <<job, mem>>

ForeignChange ==
    /\ faults < MaxFaults
    /\ faults' = faults + 1
    /\ \E q \in ForeignRoutes :
          fib' = IF q \in fib THEN fib \ {q} ELSE AddRoute(fib, q)
    /\ calm' = [p \in Procs |-> FALSE]
    /\ UNCHANGED <<rules, store, world, pc, calls, result>>
    /\ UNCHANGED <<job, mem>>

-----------------------------------------------------------------------------
(* What a running process does next.                                       *)
Step(p) ==
    \/ FetchGroup(p) \/ SaveGroup(p) \/ ResolveGroup(p) \/ ListGroupRoutes(p)
    \/ PlanGroup(p) \/ PlanCleanupGroup(p) \/ FinishPlan(p)
    \/ ApplyAddRule(p) \/ ApplyDeleteRule(p) \/ ApplyAddRoute(p)
    \/ ApplyDeleteRoute(p) \/ ApplyRejected(p) \/ ApplyDone(p)

StartSome(p) == \E k \in Kinds, c \in Configs : Start(p, k, c)

Next ==
    \/ \E p \in Procs : StartSome(p) \/ Step(p) \/ NetlinkFails(p) \/ Crash(p)
    \/ WorldChange
    \/ ForeignChange

Spec == Init /\ [][Next]_vars

(* The daemon's run goes on and its tickers start the next one.  Nothing   *)
(* is assumed of the commands beside it.                                   *)
Fairness == \A p \in Daemons : WF_vars(Step(p)) /\ WF_vars(StartSome(p))

FairSpec == Spec /\ Fairness

-----------------------------------------------------------------------------
(* Properties *)

TypeOK ==
    /\ fib \subseteq Route
    /\ rules \in Seq(KernelRule)
    /\ store \in [Names -> State]
    /\ world \in Worlds
    /\ pc \in [Procs -> PlanningLabels \cup {"idle", "planned", "apply"}]
    /\ kind \in [Procs -> Kinds]
    /\ cfg \in [Procs -> Configs]
    /\ at \in [Procs -> Nat \ {0}]
    /\ draft \in [Procs -> Draft]
    /\ plan \in [Procs -> Plan]
    /\ calls \in [Procs -> Seq(Batch)]
    /\ result \in [Procs -> {"none", "ok", "failed"}]
    /\ faults \in 0 .. MaxFaults
    /\ want \in [Procs -> Want]
    /\ calm \in [Procs -> BOOLEAN]

(* A route or rule that no configured group stands for: another table,     *)
(* another protocol, a family the group does not manage; another priority. *)
ForeignRoute(q) ==
    \A c \in Configs : \A g \in GroupsOf(c) :
        q.table # g.table \/ q.proto # c.proto \/ q.dst.fam \notin FamsOf(g.family)

ForeignRule(k) ==
    \A c \in Configs : \A g \in GroupsOf(c) : k.table # g.table \/ k.prio # g.rule.prio

(* What the configurations must be for the runs to converge.  Validate     *)
(* checks none of it; the properties below that speak of what a group owns *)
(* do not hold without it.                                                 *)

(* Each group of a configuration has a table of its own.                   *)
OwnTables ==
    \A c \in Configs : \A i, j \in DOMAIN c.groups :
        c.groups[i].table = c.groups[j].table => i = j

ConfiguredRules == UNION {DesiredRules(g) : g \in UNION {GroupsOf(c) : c \in Configs}}

(* A rule added for a group is listed for it, and as it was asked for.     *)
RulesRecognized ==
    \A c \in Configs : \A g \in GroupsOf(c) : \A r \in DesiredRules(g) :
        IsOwnedRule(RuleRequest(r), c, g) /\ Reported(RuleRequest(r)) = r

(* A delete request for one configured rule does not match another.        *)
RulesDistinct ==
    \A q, r \in ConfiguredRules : RuleMatches(RuleRequest(q), RuleRequest(r)) => q = r

(* The rules and routes of other programs are not taken for a group's own. *)
OthersRules  == \A k \in ToSet(ForeignRules) : ForeignRule(k)
OthersRoutes == \A q \in ForeignRoutes : ForeignRoute(q)

RuleHypotheses == RulesRecognized /\ RulesDistinct /\ OthersRules

(* No step of any process adds, removes or replaces a route or rule that   *)
(* is not owned, whatever it had listed before and whatever has changed    *)
(* since: the delete requests are patterns.                                *)
ForeignUntouched ==
    [][(\E p \in Procs : Step(p)) =>
          /\ {q \in fib' : ForeignRoute(q)} = {q \in fib : ForeignRoute(q)}
          /\ {k \in ToSet(rules') : ForeignRule(k)} = {k \in ToSet(rules) : ForeignRule(k)}]_vars

(* Has the group prefixes to work with: a source that answers, or a saved  *)
(* state?                                                                  *)
Available(g) == world.source[g.name].ok \/ store[g.name].ok

(* What a plan built now would take for the group's list, and want of it.  *)
ListNow(c, g) ==
    Normalize(IF world.source[g.name].ok THEN world.source[g.name].prefixes
              ELSE store[g.name].prefixes, c.aggregate)

WantedNow(c, g) == DesiredRoutes(c.proto, g, ListNow(c, g), Resolve(g, world), world)

(* The group owns exactly what it should, as the kernel stores it, except  *)
(* for routes whose slot in the table another program holds, or another    *)
(* route the group wants: a throw for a fetched prefix and the route for   *)
(* it, when neither has a metric.                                          *)
RoutesConverged(c, g) ==
    LET have == OwnedRoutes(fib, c, g)
        need == {Installed(r) : r \in WantedNow(c, g)}
    IN  /\ have \subseteq need
        /\ \A r \in need \ have : \E q \in fib : SameSlot(q, r) /\ (q \in have => q \in need)

RulesConverged(c, g) == OwnedRules(rules, c, g) = DesiredRules(g)

Converged(c, g) == RoutesConverged(c, g) /\ RulesConverged(c, g)

(* A reconcileOnce that reports success, undisturbed, has converged, from  *)
(* whatever an earlier crash, failure, outage or other configuration has   *)
(* left behind; also for IPv6 routes that the kernel lists other than they *)
(* were planned, which every run removes and adds again.                   *)
SuccessConverges ==
    \A p \in Procs :
        result[p] = "ok" /\ kind[p] = "apply" /\ calm[p] =>
            \A g \in GroupsOf(cfg[p]) : Available(g) => Converged(cfg[p], g)

(* A cleanup that reports success, undisturbed, leaves nothing owned.      *)
SuccessCleans ==
    \A p \in Procs :
        result[p] = "ok" /\ kind[p] = "cleanup" /\ calm[p] =>
            \A g \in GroupsOf(cfg[p]) :
                /\ OwnedRoutes(fib, cfg[p], g) = {}
                /\ g.rule.enabled => OwnedRules(rules, cfg[p], g) = {}

Applying(p) == pc[p] = "apply" /\ kind[p] = "apply" /\ calm[p] /\ Step(p)

(* An undisturbed reconcile takes a route that its own plan wants, in the  *)
(* form the kernel keeps it, out of the kernel only when that is not the   *)
(* form it was planned in (an IPv6 throw, an IPv6 route without a metric), *)
(* and then it is still to add it again: only what differs is replaced.    *)
WantedStays ==
    [][\A p \in Procs : Applying(p) =>
          \A r \in want[p].routes : Installed(r) \in fib \ fib' =>
              /\ Installed(r) # r
              /\ \E i \in DOMAIN calls'[p] :
                    calls'[p][i].op = "AddRoute" /\ r \in calls'[p][i].args]_vars

(* A rule that the plan of an undisturbed reconcile wants is lost only in  *)
(* place of an obsolete one whose delete request matches it too: that one  *)
(* is then left for the next run to find.                                  *)
WantedRulesStay ==
    [][\A p \in Procs : Applying(p) =>
          \A r \in want[p].rules : RuleRequest(r) \in ToSet(rules) \ ToSet(rules') =>
              \E k \in ToSet(rules') :
                  /\ RuleMatches(k, RuleRequest(r))
                  /\ \A w \in want[p].rules : k # RuleRequest(w)]_vars

Routed(routes, table, a) == \E q \in routes : q.table = table /\ Covers(q.dst, a)

(* Obsolete destinations go last: an undisturbed reconcile leaves an       *)
(* address that the plan wants routed without a route only while it        *)
(* replaces a route for a destination the plan itself wants.               *)
CoverageKept ==
    [][\A p \in Procs : Applying(p) =>
          \A q \in fib \ fib' : \A a \in AddrsOf(q.dst) :
              /\ Routed(want[p].routes, q.table, a)
              /\ ~Routed(fib', q.table, a)
              => \E r \in want[p].routes : r.table = q.table /\ r.dst = q.dst]_vars

(* A group whose source is down and has no saved state keeps its routes.   *)
OutageKeepsRoutes ==
    [][\A p \in Procs : Applying(p) =>
          \A g \in GroupsOf(cfg[p]) : ~Available(g) =>
              OwnedRoutes(fib', cfg[p], g) = OwnedRoutes(fib, cfg[p], g)]_vars

(* The group has prefixes of a family for which a next hop of it has       *)
(* neither a gateway nor a device.                                         *)
Deviceless(g, w) ==
    \E h \in HopsOf(g) : \E fam \in FamsOf(g.family) :
        /\ w.links[h.dev] = 0
        /\ fam \in HopFams(g.family) => Candidates(h, fam) = {}

(* Processes at work at the same time do not make one another fail: what   *)
(* one finds already added or already gone is not an error to it.          *)
FailuresHaveACause ==
    \A p \in Procs :
        result[p] = "failed" =>
            \/ faults > 0
            \/ \E g \in GroupsOf(cfg[p]) : LinkMissing(g, world) \/ Deviceless(g, world)

(* Nothing stands in the way of configuration c in the present world.      *)
Viable(c) ==
    \A g \in GroupsOf(c) :
        /\ Available(g)
        /\ ~LinkMissing(g, world)
        /\ \A r \in WantedNow(c, g) : r.type = "throw" \/ r.link \in Live(world)

(* Once the environment leaves it alone, the daemon reaches and keeps the  *)
(* wanted state, unless a source or a device is missing for good.          *)
EventuallyConverged ==
    <>[](\A c \in Configs : Viable(c) => \A g \in GroupsOf(c) : Converged(c, g))

-----------------------------------------------------------------------------
(* What the documentation says and the code does not do *)

(* "exclude_local_ips: skip fetched prefixes that contain this host's      *)
(* non-private local IPs" (README.md:228).  The code tests the network     *)
(* address of each interface, not the host's address.                      *)
LocalIPsExcluded ==
    \A p \in Procs : \A g \in GroupsOf(cfg[p]) : \A r \in want[p].routes :
        g.excludeLocalIPs /\ r.table = g.table /\ r.dst \notin DefaultPrefixes(g.family) =>
            ~ \E a \in NonPrivate :
                /\ \E l \in world.local : l.fam = a.fam /\ l.n = a.n
                /\ Covers(r.dst, a)
=============================================================================
