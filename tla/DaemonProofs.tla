----------------------------- MODULE DaemonProofs -----------------------------
(***************************************************************************)
(* The daemon's loop implements the reconciliation core, and loses no      *)
(* reload, for any files, flags and hosts and any number of signals, edits *)
(* and kills.                                                              *)
(*                                                                         *)
(* Both rest on what the loop works with: "active" is what some file and   *)
(* some flags that are accepted together give (Working), and it is what    *)
(* the present file gives unless the file has been edited and nobody has   *)
(* asked for it to be read (Current).  The second has to speak of the time *)
(* before the signals are listened to, which ReloadNotLost leaves out.     *)
(*                                                                         *)
(* What is proved of the core is then carried over (Core): a run of the    *)
(* daemon that reports success has converged, and a daemon that has        *)
(* cleaned up at its end leaves nothing.                                   *)
(***************************************************************************)
EXTENDS Daemon, PlannerProofs

Inputs == file \in Files /\ opts \in Flags

Loadable(c) ==
    \E o \in Flags, f \in Files : Loads(o, f) /\ c = LoadConfig(o, f)

Working == loop \notin Ended => Loadable(active)

Current ==
    asked /\ ~reload /\ loop \in {"booting", "ready", "run", "closing"} /\ Loads(opts, file) =>
        active = LoadConfig(opts, file)

IInv == Inputs /\ Working /\ Current

-----------------------------------------------------------------------------
(* What a configuration that loads gives is one of Reconcile's.            *)
LEMMA LoadableIsLoaded ==
    ASSUME NEW c, Loadable(c)
    PROVE  Effective(c) \in LoadedConfigs
<1>1. PICK o \in Flags, f \in Files : Loads(o, f) /\ c = LoadConfig(o, f)
  BY DEF Loadable
<1>2. <<o, f>> \in {x \in Flags \X Files : Loads(x[1], x[2])}
  BY <1>1
<1> QED
  BY <1>1, <1>2 DEF LoadedConfigs

(***************************************************************************)
(* A daemon whose files hold whatever YAML decoding can deliver only runs  *)
(* with what module Reconcile assumes of its configurations: the theorems  *)
(* about Reconcile hold of the runs of the daemon.                         *)
(***************************************************************************)
THEOREM RunsWithConfigs == LoadedConfigs \subseteq R!Config
<1>1. ASSUME NEW o \in Flags, NEW f \in Files, Loads(o, f)
      PROVE  Effective(LoadConfig(o, f)) \in Config
  BY <1>1, FilesAssumption, NamesAssumption, AcceptedIsWellFormed
<1>2. LoadedConfigs \subseteq Config
  BY <1>1 DEF LoadedConfigs
<1>3. R!Bits = Bits /\ R!Fams = Fams /\ R!Families = Families
  BY DEF R!Bits, Bits, R!Fams, Fams, R!Families, Families
<1>4. /\ R!Addr = Addr /\ R!RawPrefix = RawPrefix
      /\ R!NoAddr = NoAddr /\ R!NoPrefix = NoPrefix
  BY <1>3 DEF R!Addr, Addr, R!RawPrefix, RawPrefix, R!NoAddr, NoAddr, R!NoPrefix, NoPrefix,
              R!Zeros, Zeros
<1>5. R!Hop = Hop /\ R!RuleConfig = RuleConfig
  BY <1>4 DEF R!Hop, Hop, R!Gateway, Gateway, R!RuleConfig, RuleConfig
<1>6. R!Config = Config
  BY <1>3, <1>4, <1>5 DEF R!Config, Config, R!Group, Group
<1> QED
  BY <1>2, <1>6

(* Nothing is asked of the loop before the daemon is started.              *)
LEMMA InitIInv == Init => IInv
BY DEF Init, IInv, Inputs, Working, Current, Ended

(* Every step keeps the invariant.                                         *)
LEMMA NextIInv == IInv /\ [Next]_vars => IInv'
<1> SUFFICES ASSUME IInv, [Next]_vars PROVE IInv'
  OBVIOUS
<1> USE DEF IInv, Inputs, Working, Current, Ended
<1>1. CASE UNCHANGED vars
  BY <1>1 DEF vars, loopVars, hostVars, opVars
<1>2. CASE Boot
  BY <1>2 DEF Boot, Loadable
<1>3. CASE Listen
  BY <1>3 DEF Listen, BeginRun, Panic, hostVars, opVars
<1>4. CASE ReadFile
  BY <1>4 DEF ReadFile, BeginRun, Panic, hostVars, opVars, Loadable
<1>5. CASE RunStep
  BY <1>5 DEF RunStep, hostVars, opVars
<1>6. CASE TakeReload
  BY <1>6 DEF TakeReload, hostVars, opVars
<1>7. CASE TakeDone
  BY <1>7 DEF TakeDone, hostVars, opVars
<1>8. CASE \E t \in Tickers : Tick(t) \/ TakeTick(t)
  BY <1>8 DEF Tick, TakeTick, BeginRun, hostVars, opVars
<1>9. CASE Sighup \/ Sigterm \/ SigtermInBody \/ BodyClosed
  BY <1>9 DEF Sighup, Sigterm, SigtermInBody, BodyClosed, hostVars, opVars, loopVars
<1>10. CASE SignalTooEarly \/ Kill \/ KillRun
  BY <1>10 DEF SignalTooEarly, Kill, KillRun, hostVars, opVars
<1>11. CASE Edit
  BY <1>11 DEF Edit, hostVars, loopVars
<1>12. CASE HostChange \/ ForeignChange
  BY <1>12 DEF HostChange, ForeignChange, hostVars, opVars, loopVars
<1> QED
  BY <1>1, <1>2, <1>3, <1>4, <1>5, <1>6, <1>7, <1>8, <1>9, <1>10, <1>11, <1>12
     DEF Next, Proceed

(* The loop always works with a configuration that is accepted, the        *)
(* newest one asked for.                                                   *)
THEOREM Invariance == Spec => []IInv
<1> QED
  BY InitIInv, NextIInv, PTL DEF Spec

-----------------------------------------------------------------------------
(* A SIGHUP is never lost, however it falls between the steps of a run and *)
(* the edits of the file: see ReloadNotLost.                               *)
THEOREM NoReloadLost == Spec => []ReloadNotLost
<1>1. IInv => ReloadNotLost
  BY DEF IInv, Current, ReloadNotLost
<1> QED
  BY <1>1, Invariance, PTL

-----------------------------------------------------------------------------
(* A step that leaves the run and the answers of the host alone.           *)
LEMMA QuietStutters ==
    ASSUME UNCHANGED runVars, UNCHANGED hostVars
    PROVE  UNCHANGED R!vars
BY DEF runVars, hostVars, Answers, R!vars

(* A run the loop starts is a run of Reconcile.                            *)
LEMMA StartIsNext ==
    ASSUME NEW c, Loadable(c), NEW k \in {"apply", "check", "cleanup"},
           R!Start(Self, k, Effective(c))
    PROVE  R!Next
<1>1. R!StartSome(Self)
  BY LoadableIsLoaded DEF R!StartSome
<1> QED
  BY <1>1 DEF R!Next

(* A step of the daemon is a step of Reconcile or changes nothing there.   *)
LEMMA StepSimulates ==
    IInv /\ [Next]_vars => [R!Next]_(R!vars)
<1> SUFFICES ASSUME IInv, [Next]_vars PROVE R!Next \/ UNCHANGED R!vars
  OBVIOUS
<1>0. RunKind \in {"apply", "check", "cleanup"}
  BY DEF RunKind
<1>1. CASE UNCHANGED vars
  BY <1>1, QuietStutters DEF vars
<1>2. CASE Boot
  <2>1. CASE Answers' # Answers
    BY <1>2, <2>1 DEF Boot, R!Next
  <2>2. CASE Answers' = Answers
    BY <1>2, <2>2 DEF Boot, runVars, R!vars
  <2> QED
    BY <2>1, <2>2
<1>3. CASE Listen
  <2>1. Loadable(active)
    BY <1>3 DEF IInv, Working, Listen, Ended
  <2> QED
    BY <1>0, <1>3, <2>1, StartIsNext, QuietStutters DEF Listen, BeginRun, Panic
<1>4. CASE ReadFile
  <2>1. Loads(opts, file) => Loadable(LoadConfig(opts, file))
    BY DEF IInv, Inputs, Loadable
  <2> QED
    BY <1>0, <1>4, <2>1, StartIsNext, QuietStutters DEF ReadFile, BeginRun, Panic
<1>5. CASE RunStep
  BY <1>5 DEF RunStep, R!Next
<1>6. CASE TakeDone
  <2>1. Loadable(active)
    BY <1>6 DEF IInv, Working, TakeDone, Ended
  <2> QED
    BY <1>6, <2>1, StartIsNext, QuietStutters DEF TakeDone
<1>7. ASSUME NEW t \in Tickers, TakeTick(t)
      PROVE  R!Next
  <2>1. Loadable(active)
    BY <1>7 DEF IInv, Working, TakeTick, Ended
  <2> QED
    BY <1>0, <1>7, <2>1, StartIsNext DEF TakeTick, BeginRun
<1>8. CASE \/ TakeReload \/ Sighup \/ SignalTooEarly \/ Edit \/ Kill
           \/ \E t \in Tickers : Tick(t)
  BY <1>8, QuietStutters DEF TakeReload, Sighup, SignalTooEarly, Edit, Kill, Tick
<1>9. CASE Sigterm \/ SigtermInBody \/ BodyClosed \/ KillRun \/ HostChange \/ ForeignChange
  BY <1>9 DEF Sigterm, SigtermInBody, BodyClosed, KillRun, HostChange, ForeignChange, R!Next
<1> QED
  BY <1>1, <1>2, <1>3, <1>4, <1>5, <1>6, <1>7, <1>8, <1>9 DEF Next, Proceed

(* The daemon implements the reconciliation core: see ImplementsReconcile. *)
THEOREM Implements == Spec => ImplementsReconcile
<1>1. Init => R!Init
  BY DEF Init
<1> QED
  BY <1>1, StepSimulates, Invariance, PTL DEF Spec, ImplementsReconcile, R!Spec
-----------------------------------------------------------------------------
(* Dry runs *)

(* With --dry-run every run is a check, never gets to apply anything, and  *)
(* the shutdown starts no cleanup.                                         *)
Dry ==
    /\ Self \in DOMAIN pc /\ Self \in DOMAIN kind
    /\ loop = "run" /\ opts.dryRun => kind[Self] = "check" /\ pc[Self] # "apply"
    /\ loop = "closing" => ~opts.dryRun

(* A step of a check leaves the kernel alone and does not lead to Apply.   *)
LEMMA CheckStep ==
    ASSUME Self \in DOMAIN pc, kind[Self] = "check", pc[Self] # "apply",
           R!Step(Self) \/ R!NetlinkFails(Self)
    PROVE  /\ UNCHANGED <<fib, rules, kind>>
           /\ DOMAIN pc' = DOMAIN pc /\ pc'[Self] # "apply"
<1> USE DEF R!Goto, R!Advance, R!Phase, R!End, R!job
<1>1. CASE R!FetchGroup(Self)
  BY <1>1 DEF R!FetchGroup, R!Skip
<1>2. CASE R!SaveGroup(Self)
  BY <1>2 DEF R!SaveGroup
<1>3. CASE R!ResolveGroup(Self)
  BY <1>3 DEF R!ResolveGroup
<1>4. CASE R!ListGroupRoutes(Self)
  BY <1>4 DEF R!ListGroupRoutes
<1>5. CASE R!PlanGroup(Self)
  BY <1>5 DEF R!PlanGroup
<1>6. CASE R!PlanCleanupGroup(Self)
  BY <1>6 DEF R!PlanCleanupGroup
<1>7. CASE R!FinishPlan(Self)
  BY <1>7 DEF R!FinishPlan
<1>8. CASE R!ApplyAddRule(Self) \/ R!ApplyDeleteRule(Self)
  BY <1>8 DEF R!ApplyAddRule, R!ApplyDeleteRule, R!Succeeds
<1>9. CASE R!ApplyAddRoute(Self) \/ R!ApplyDeleteRoute(Self)
  BY <1>9 DEF R!ApplyAddRoute, R!ApplyDeleteRoute, R!Succeeds
<1>10. CASE R!ApplyRejected(Self) \/ R!ApplyDone(Self) \/ R!NetlinkFails(Self)
  BY <1>10 DEF R!ApplyRejected, R!ApplyDone, R!NetlinkFails
<1> QED
  BY <1>1, <1>2, <1>3, <1>4, <1>5, <1>6, <1>7, <1>8, <1>9, <1>10 DEF R!Step

(* Any step of a run keeps the process and its command.                    *)
LEMMA StepKeepsShape ==
    ASSUME R!Step(Self) \/ R!NetlinkFails(Self) \/ R!Crash(Self)
    PROVE  DOMAIN pc' = DOMAIN pc /\ UNCHANGED kind
<1> USE DEF R!Goto, R!Advance, R!End, R!job
<1>1. CASE R!FetchGroup(Self) \/ R!SaveGroup(Self)
  BY <1>1 DEF R!FetchGroup, R!Skip, R!SaveGroup
<1>2. CASE R!ResolveGroup(Self) \/ R!ListGroupRoutes(Self)
  BY <1>2 DEF R!ResolveGroup, R!ListGroupRoutes
<1>3. CASE R!PlanGroup(Self) \/ R!PlanCleanupGroup(Self) \/ R!FinishPlan(Self)
  BY <1>3 DEF R!PlanGroup, R!PlanCleanupGroup, R!FinishPlan
<1>4. CASE R!ApplyAddRule(Self) \/ R!ApplyDeleteRule(Self)
  BY <1>4 DEF R!ApplyAddRule, R!ApplyDeleteRule, R!Made
<1>5. CASE R!ApplyAddRoute(Self) \/ R!ApplyDeleteRoute(Self)
  BY <1>5 DEF R!ApplyAddRoute, R!ApplyDeleteRoute, R!Made
<1>6. CASE R!ApplyRejected(Self) \/ R!ApplyDone(Self)
  BY <1>6 DEF R!ApplyRejected, R!ApplyDone
<1>7. CASE R!NetlinkFails(Self) \/ R!Crash(Self)
  BY <1>7 DEF R!NetlinkFails, R!Crash
<1> QED
  BY <1>1, <1>2, <1>3, <1>4, <1>5, <1>6, <1>7 DEF R!Step

(* A run that begins is a check if --dry-run asks for one.                 *)
LEMMA BeginRunDry ==
    ASSUME Dry, NEW c, BeginRun(c), UNCHANGED opts
    PROVE  Dry'
BY DEF Dry, BeginRun, RunKind, R!Start, R!Phase

(* Every step keeps Dry.                                                   *)
LEMMA NextDry == Dry /\ [Next]_vars => Dry'
<1> SUFFICES ASSUME Dry, [Next]_vars PROVE Dry'
  OBVIOUS
<1>1. CASE UNCHANGED vars
  BY <1>1 DEF Dry, vars, runVars, loopVars, opVars
<1>2. CASE Boot
  <2>1. UNCHANGED <<pc, kind>>
    BY <1>2 DEF Boot, R!WorldChange, R!job, runVars
  <2> QED
    BY <1>2, <2>1 DEF Boot, Dry
<1>3. CASE Listen \/ ReadFile \/ \E t \in Tickers : TakeTick(t)
  <2>1. CASE \E c : BeginRun(c)
    BY <1>3, <2>1, BeginRunDry DEF Listen, ReadFile, TakeTick, opVars
  <2>2. CASE loop' \in {"panicked", "ready"} /\ UNCHANGED runVars
    BY <2>2 DEF Dry, runVars
  <2> QED
    BY <1>3, <2>1, <2>2 DEF Listen, ReadFile, TakeTick, Panic
<1>4. CASE RunStep
  <2>1. DOMAIN pc' = DOMAIN pc /\ UNCHANGED kind
    BY <1>4, StepKeepsShape DEF RunStep
  <2>2. loop = "run" /\ opts.dryRun => pc'[Self] # "apply"
    BY <1>4, CheckStep DEF RunStep, Dry
  <2> QED
    BY <1>4, <2>1, <2>2 DEF RunStep, Dry, opVars
<1>5. CASE TakeDone
  BY <1>5 DEF TakeDone, Dry, opVars, runVars, R!Start
<1>6. CASE KillRun
  <2>1. DOMAIN pc' = DOMAIN pc /\ UNCHANGED kind
    BY <1>6, StepKeepsShape DEF KillRun
  <2> QED
    BY <1>6, <2>1 DEF KillRun, Dry
<1>7. CASE Sigterm \/ SigtermInBody \/ BodyClosed \/ HostChange \/ ForeignChange
  BY <1>7 DEF Sigterm, SigtermInBody, BodyClosed, HostChange, ForeignChange, R!WorldChange, R!ForeignChange, R!job,
              Dry, opVars, loopVars
<1>8. CASE \/ TakeReload \/ Sighup \/ SignalTooEarly \/ Edit \/ Kill
           \/ \E t \in Tickers : Tick(t)
  BY <1>8 DEF TakeReload, Sighup, SignalTooEarly, Edit, Kill, Tick, Dry, runVars, opVars,
              loopVars
<1> QED
  BY <1>1, <1>2, <1>3, <1>4, <1>5, <1>6, <1>7, <1>8 DEF Next, Proceed

(* A daemon with --dry-run changes nothing in the kernel, in its runs and  *)
(* at its end, whatever signals and reloads it gets: see                   *)
(* DryRunTouchesNothing.                                                   *)
THEOREM DryRunIsDry == Spec => DryRunTouchesNothing
<1>1. Init => Dry
  BY DEF Init, R!Init, Dry
<1>2. Dry /\ [Next]_vars =>
        [opts.dryRun /\ opts' = opts /\ RunStep => UNCHANGED <<fib, rules>>]_vars
  BY CheckStep DEF Dry, RunStep
<1> QED
  BY <1>1, <1>2, NextDry, PTL DEF Spec, DryRunTouchesNothing
-----------------------------------------------------------------------------
(* The theorems about the core *)

(* Module Reconcile as the daemon uses it, with what is proved about it.   *)
(* Its definitions are those of R, one by one.                             *)
Core == INSTANCE ReconcileProofs WITH
        Procs   <- {Self},
        Daemons <- {Self},
        Configs <- LoadedConfigs,
        Worlds  <- Heard,
        Kinds   <- {"apply", "check", "cleanup"},
        world   <- Answers

(* What Reconcile assumes of its constants holds of the daemon's.          *)
LEMMA CoreAssumptions ==
    /\ LoadedConfigs \subseteq Core!Config /\ LoadedConfigs # {}
    /\ Heard \subseteq Core!World
    /\ {"apply", "check", "cleanup"} \subseteq Core!AllKinds
    /\ ForeignRoutes \subseteq Core!Route /\ \A q \in ForeignRoutes : Core!Installed(q) = q
    /\ ForeignRules \in Seq(Core!KernelRule)
    /\ Core!NoDev \in Dev
<1>1. Core!Bits = Bits /\ Core!Fams = Fams /\ Core!Families = Families
  BY DEF Core!Bits, Bits, Core!Fams, Fams, Core!Families, Families
<1>2. /\ Core!Addr = Addr /\ Core!RawPrefix = RawPrefix
      /\ Core!NoAddr = NoAddr /\ Core!NoPrefix = NoPrefix
  BY <1>1 DEF Core!Addr, Addr, Core!RawPrefix, RawPrefix, Core!NoAddr, NoAddr,
              Core!NoPrefix, NoPrefix, Core!Zeros, Zeros
<1>3. Core!Prefix = Prefix
  BY <1>2, Zenon DEF Core!Prefix, Prefix, Core!Masked, Masked, Core!MaskedN, MaskedN
<1>4. LoadedConfigs \subseteq Core!Config
  <2>1. R!Config = Core!Config
    BY Zenon DEF R!Config, Core!Config, R!Group, Core!Group, R!Families, Core!Families, R!Hop,
                 Core!Hop, R!RawPrefix, Core!RawPrefix, R!RuleConfig, Core!RuleConfig, R!Addr,
                 Core!Addr, R!NoAddr, Core!NoAddr, R!Gateway, Core!Gateway, R!Fams, Core!Fams,
                 R!Bits, Core!Bits, R!NoPrefix, Core!NoPrefix, R!Zeros, Core!Zeros
  <2> QED
    BY <2>1, RunsWithConfigs
<1>5. LoadedConfigs # {}
  BY FilesAssumption, LoadableIsLoaded DEF Loadable
<1>6. Core!World = World
  BY <1>2 DEF Core!World, World
<1>7. Heard \subseteq World
  <2>1. ASSUME NEW h \in Hosts PROVE CutOff(h) \in World
    BY HostsAssumption DEF CutOff, World
  <2>2. ASSUME NEW h \in Hosts, NEW n \in Names, NEW k \in Hosts, NEW l \in Parts(k, n)
        PROVE  CutShort(h, n, l) \in World
    <3>1. l \in SUBSET RawPrefix
      BY <2>2, HostsAssumption, SourcesAssumption DEF Parts, World
    <3> QED
      BY <2>1, <3>1 DEF CutShort, World
  <2> QED
    BY <2>1, <2>2, HostsAssumption DEF Heard
<1>8. Core!Route = Route /\ Core!KernelRule = KernelRule
  BY <1>1, <1>2, <1>3, Zenon DEF Core!Route, Route, Core!KernelRule, KernelRule,
                                 Core!RouteTypes, RouteTypes
<1>9. ASSUME NEW q \in ForeignRoutes PROVE Core!Installed(q) = Installed(q)
  BY Zenon DEF Core!Installed, Installed, Core!Stored, Stored, Core!RouteRequest, RouteRequest,
               Core!IPv6DefaultMetric, IPv6DefaultMetric, Core!LoopbackIndex, LoopbackIndex,
               Core!NoAddr, NoAddr, Core!Zeros, Zeros
<1> QED
  BY <1>4, <1>5, <1>6, <1>7, <1>8, <1>9, HostsAssumption, ForeignAssumption, DevAssumption
     DEF Core!AllKinds, Core!NoDev, NoDev

(* A candidate's position is the same in both.                             *)
LEMMA CorePosition ==
    ASSUME NEW up, NEW i
    PROVE  R!Position(up, i) = Core!Position(up, i)
<1>1. ASSUME NEW S PROVE R!Cardinality(S) = Core!Cardinality(S)
  BY Zenon DEF R!Cardinality, Core!Cardinality
<1> QED
  BY Zenon, <1>1 DEF R!Position, Core!Position, R!Ahead, Core!Ahead

(* So is its metric.                                                       *)
LEMMA CoreMetric ==
    ASSUME NEW up, NEW i
    PROVE  R!Metric(up, i) = Core!Metric(up, i)
BY Zenon, CorePosition
   DEF R!Metric, Core!Metric, R!metricBase, Core!metricBase, R!metricStep, Core!metricStep,
       R!unhealthyMetricOffset, Core!unhealthyMetricOffset

(* So is what health.Select answers.                                       *)
LEMMA CoreSelect ==
    ASSUME NEW h, NEW fam, NEW w
    PROVE  R!Select(h, fam, w) = Core!Select(h, fam, w)
<1> DEFINE gws == R!Gateways(h)
           up  == [i \in R!Candidates(h, fam) |-> R!EvaluateCandidate(gws[i], fam, w)]
           Resolved1(i) == [link   |-> w.links[gws[i].dev],
                            via    |-> R!CandidateVia(gws[i], fam),
                            onlink |-> gws[i].onlink,
                            metric |-> R!Metric(up, i)]
           Resolved2(i) == [link   |-> w.links[gws[i].dev],
                            via    |-> R!CandidateVia(gws[i], fam),
                            onlink |-> gws[i].onlink,
                            metric |-> Core!Metric(up, i)]
<1>1. \A i : Resolved1(i) = Resolved2(i)
  BY Zenon, CoreMetric
<1>2. R!Select(h, fam, w) = {Resolved1(i) : i \in R!Candidates(h, fam)}
  BY Zenon DEF R!Select, R!HopOf, R!Evaluated
<1>3. Core!Select(h, fam, w) = {Resolved2(i) : i \in R!Candidates(h, fam)}
  BY Zenon DEF Core!Select, Core!HopOf, Core!Evaluated, R!Candidates, Core!Candidates, R!Gateways, Core!Gateways,
               R!CandidateVia,
               Core!CandidateVia, R!NoAddr, Core!NoAddr, R!Merge, Core!Merge, R!Zeros, Core!Zeros,
               R!NoDev, Core!NoDev, R!EvaluateCandidate, Core!EvaluateCandidate, R!DefaultTargets,
               Core!DefaultTargets, R!Ones, Core!Ones
<1> HIDE DEF Resolved1, Resolved2
<1> QED
  BY <1>1, <1>2, <1>3, Zenon

(* So is what a group's next hops resolve to.                              *)
LEMMA CoreResolve ==
    ASSUME NEW g, NEW w
    PROVE  R!Resolve(g, w) = Core!Resolve(g, w)
<1>1. ASSUME NEW h, NEW family
      PROVE  R!ResolveCandidates(h, family, w) = Core!ResolveCandidates(h, family, w)
  <2>1. R!ResolveCandidates(h, family, w) =
          UNION {R!Select(h, fam, w) : fam \in R!HopFams(family)}
    BY Zenon DEF R!ResolveCandidates
  <2>2. Core!ResolveCandidates(h, family, w) =
          UNION {Core!Select(h, fam, w) : fam \in R!HopFams(family)}
    BY Zenon DEF Core!ResolveCandidates, R!HopFams, Core!HopFams, R!FamsOf, Core!FamsOf, R!Fams,
                 Core!Fams
  <2> QED
    BY <2>1, <2>2, CoreSelect, Zenon
<1> QED
  BY <1>1, Zenon DEF R!Resolve, Core!Resolve, R!NoHop, Core!NoHop, R!NoDev, Core!NoDev, R!NoAddr,
                     Core!NoAddr, R!Zeros, Core!Zeros

(* The steps that plan are the same.                                       *)
LEMMA CorePlans ==
    /\ R!FetchGroup(Self) <=> Core!FetchGroup(Self)
    /\ R!SaveGroup(Self) <=> Core!SaveGroup(Self)
    /\ R!ResolveGroup(Self) <=> Core!ResolveGroup(Self)
    /\ R!ListGroupRoutes(Self) <=> Core!ListGroupRoutes(Self)
    /\ R!PlanGroup(Self) <=> Core!PlanGroup(Self)
    /\ R!PlanCleanupGroup(Self) <=> Core!PlanCleanupGroup(Self)
    /\ R!FinishPlan(Self) <=> Core!FinishPlan(Self)
<1> USE DEF R!Current, Core!Current, R!Took, Core!Took, R!Goto, Core!Goto, R!Skip, Core!Skip, R!job,
            Core!job, R!Normalize, Core!Normalize, R!Advance, Core!Advance, R!Aggregated,
            Core!Aggregated, R!MaskAll, Core!MaskAll, R!Phase, Core!Phase, R!NoDraft, Core!NoDraft,
            R!AddrsIn, Core!AddrsIn, R!Prefix, Core!Prefix, R!AddrsOf, Core!AddrsOf, R!CoveredBy,
            Core!CoveredBy, R!Masked, Core!Masked, R!NoResolved, Core!NoResolved, R!RawPrefix,
            Core!RawPrefix, R!Addr, Core!Addr, R!Covers, Core!Covers, R!MaskedN, Core!MaskedN,
            R!Fams, Core!Fams, R!Bits, Core!Bits, R!Saved, Core!Saved, R!NoState, Core!NoState,
            R!Disturbs, Core!Disturbs, R!End, Core!End, R!NoPlan, Core!NoPlan, R!NoWant,
            Core!NoWant, R!OwnedRoutes, Core!OwnedRoutes, R!ListRoutes, Core!ListRoutes, R!FamsOf,
            Core!FamsOf, R!DesiredRoutes, Core!DesiredRoutes, R!RuleCalls, Core!RuleCalls,
            R!DesiredRules, Core!DesiredRules, R!OwnedRules, Core!OwnedRules, R!Replace,
            Core!Replace, R!Retire, Core!Retire, R!RemovePrefixesCoveringAddrs,
            Core!RemovePrefixesCoveringAddrs, R!FilterFamily, Core!FilterFamily, R!RoutesVia,
            Core!RoutesVia, R!ThrowRoute, Core!ThrowRoute, R!DefaultPrefixes, Core!DefaultPrefixes,
            R!NoHop, Core!NoHop, R!Call, Core!Call, R!Reported, Core!Reported, R!ToSet, Core!ToSet,
            R!IsOwnedRule, Core!IsOwnedRule, R!ConflictingRouteRemovals,
            Core!ConflictingRouteRemovals, R!LocalAddrs, Core!LocalAddrs, R!NextHopVia,
            Core!NextHopVia, R!NoAddr, Core!NoAddr, R!Zeros, Core!Zeros, R!NoDev, Core!NoDev,
            R!CleanupRuleCalls, Core!CleanupRuleCalls, R!Schedule, Core!Schedule
<1>0. ASSUME NEW g, NEW w PROVE R!LinkMissing(g, w) <=> Core!LinkMissing(g, w)
  BY Zenon DEF R!LinkMissing, Core!LinkMissing, R!HopsOf, Core!HopsOf, R!NoDev, Core!NoDev,
               R!CandidateLinkMissing, Core!CandidateLinkMissing, R!NoHop, Core!NoHop, R!HopFams,
               Core!HopFams, R!Candidates, Core!Candidates, R!Gateways, Core!Gateways, R!NoAddr,
               Core!NoAddr, R!FamsOf, Core!FamsOf, R!CandidateVia, Core!CandidateVia, R!Merge,
               Core!Merge, R!Zeros, Core!Zeros, R!Fams, Core!Fams
<1>1. R!FetchGroup(Self) <=> Core!FetchGroup(Self)
  BY Zenon DEF R!FetchGroup, Core!FetchGroup
<1>2. R!SaveGroup(Self) <=> Core!SaveGroup(Self)
  BY Zenon DEF R!SaveGroup, Core!SaveGroup
<1>3. R!ResolveGroup(Self) <=> Core!ResolveGroup(Self)
  BY Zenon, CoreResolve, <1>0 DEF R!ResolveGroup, Core!ResolveGroup
<1>4. R!ListGroupRoutes(Self) <=> Core!ListGroupRoutes(Self)
  BY Zenon DEF R!ListGroupRoutes, Core!ListGroupRoutes
<1>5. R!PlanGroup(Self) <=> Core!PlanGroup(Self)
  BY Zenon DEF R!PlanGroup, Core!PlanGroup
<1>6. R!PlanCleanupGroup(Self) <=> Core!PlanCleanupGroup(Self)
  BY Zenon DEF R!PlanCleanupGroup, Core!PlanCleanupGroup
<1>7. R!FinishPlan(Self) <=> Core!FinishPlan(Self)
  BY Zenon DEF R!FinishPlan, Core!FinishPlan
<1> QED
  BY <1>1, <1>2, <1>3, <1>4, <1>5, <1>6, <1>7

(* So are those that apply a plan or end a run.                            *)
LEMMA CoreApplies ==
    /\ R!ApplyAddRule(Self) <=> Core!ApplyAddRule(Self)
    /\ R!ApplyDeleteRule(Self) <=> Core!ApplyDeleteRule(Self)
    /\ R!ApplyAddRoute(Self) <=> Core!ApplyAddRoute(Self)
    /\ R!ApplyDeleteRoute(Self) <=> Core!ApplyDeleteRoute(Self)
    /\ R!ApplyRejected(Self) <=> Core!ApplyRejected(Self)
    /\ R!ApplyDone(Self) <=> Core!ApplyDone(Self)
    /\ R!NetlinkFails(Self) <=> Core!NetlinkFails(Self)
    /\ R!Crash(Self) <=> Core!Crash(Self)
<1> USE DEF R!Succeeds, Core!Succeeds, R!AddRule, Core!AddRule, R!Made, Core!Made, R!Ready,
            Core!Ready, R!Outcome, Core!Outcome, R!RuleRequest, Core!RuleRequest, R!ToSet,
            Core!ToSet, R!job, Core!job, R!Disturbs, Core!Disturbs, R!ignoreExists,
            Core!ignoreExists, R!AddRouteError, Core!AddRouteError, R!Live, Core!Live,
            R!ignoreNotFound, Core!ignoreNotFound, R!DeleteRouteError, Core!DeleteRouteError,
            R!AddRuleError, Core!AddRuleError, R!DeleteRuleError, Core!DeleteRuleError, R!NoPrefix,
            Core!NoPrefix, R!Masked, Core!Masked, R!SameSlot, Core!SameSlot, R!Installed,
            Core!Installed, R!Doomed, Core!Doomed, R!RuleMatches, Core!RuleMatches, R!Zeros,
            Core!Zeros, R!MaskedN, Core!MaskedN, R!Stored, Core!Stored, R!RouteRequest,
            Core!RouteRequest, R!RouteMatches, Core!RouteMatches, R!IPv6DefaultMetric,
            Core!IPv6DefaultMetric, R!LoopbackIndex, Core!LoopbackIndex, R!NoAddr, Core!NoAddr,
            R!DeleteRule, Core!DeleteRule, R!RemoveFirstMatch, Core!RemoveFirstMatch, R!RemoveAt,
            Core!RemoveAt, R!SelectInSeq, Core!SelectInSeq, R!Min, Core!Min, R!AddRoute,
            Core!AddRoute, R!DeleteRoute, Core!DeleteRoute, R!End, Core!End, R!NoDraft,
            Core!NoDraft, R!NoPlan, Core!NoPlan, R!NoWant, Core!NoWant, R!NoResolved,
            Core!NoResolved, R!Current, Core!Current, R!NoState, Core!NoState
<1>1. R!ApplyAddRule(Self) <=> Core!ApplyAddRule(Self)
  BY Zenon DEF R!ApplyAddRule, Core!ApplyAddRule
<1>2. R!ApplyDeleteRule(Self) <=> Core!ApplyDeleteRule(Self)
  BY Zenon DEF R!ApplyDeleteRule, Core!ApplyDeleteRule
<1>3. R!ApplyAddRoute(Self) <=> Core!ApplyAddRoute(Self)
  BY Zenon DEF R!ApplyAddRoute, Core!ApplyAddRoute
<1>4. R!ApplyDeleteRoute(Self) <=> Core!ApplyDeleteRoute(Self)
  BY Zenon DEF R!ApplyDeleteRoute, Core!ApplyDeleteRoute
<1>5. R!ApplyRejected(Self) <=> Core!ApplyRejected(Self)
  BY Zenon DEF R!ApplyRejected, Core!ApplyRejected
<1>6. R!ApplyDone(Self) <=> Core!ApplyDone(Self)
  BY Zenon DEF R!ApplyDone, Core!ApplyDone
<1>7. R!NetlinkFails(Self) <=> Core!NetlinkFails(Self)
  BY Zenon DEF R!NetlinkFails, Core!NetlinkFails
<1>8. R!Crash(Self) <=> Core!Crash(Self)
  BY Zenon DEF R!Crash, Core!Crash
<1> QED
  BY <1>1, <1>2, <1>3, <1>4, <1>5, <1>6, <1>7, <1>8

(* A behaviour of the core, as the daemon uses it, has all that is proved  *)
(* of the core.                                                            *)
LEMMA CoreSpec == R!Spec => Core!Spec
<1>1. R!Init => Core!Init
  BY Zenon DEF R!Init, Core!Init, R!SameSlot, Core!SameSlot, R!NoState, Core!NoState, R!NoDraft,
               Core!NoDraft, R!NoPlan, Core!NoPlan, R!NoWant, Core!NoWant, R!NoResolved,
               Core!NoResolved
<1>2. R!WorldChange <=> Core!WorldChange
  BY Zenon DEF R!WorldChange, Core!WorldChange, R!LoopbackIndex, Core!LoopbackIndex, R!Live,
               Core!Live, R!job, Core!job, R!mem, Core!mem
<1>3. R!ForeignChange <=> Core!ForeignChange
  BY Zenon DEF R!ForeignChange, Core!ForeignChange, R!AddRoute, Core!AddRoute, R!job, Core!job,
               R!mem, Core!mem, R!SameSlot, Core!SameSlot, R!Installed, Core!Installed, R!Stored,
               Core!Stored, R!RouteRequest, Core!RouteRequest, R!IPv6DefaultMetric,
               Core!IPv6DefaultMetric, R!LoopbackIndex, Core!LoopbackIndex, R!NoAddr, Core!NoAddr,
               R!Zeros, Core!Zeros
<1>4. R!Step(Self) <=> Core!Step(Self)
  BY Zenon, CorePlans, CoreApplies DEF R!Step, Core!Step
<1>5. R!StartSome(Self) <=> Core!StartSome(Self)
  BY Zenon DEF R!StartSome, Core!StartSome, R!Start, Core!Start, R!Phase, Core!Phase, R!mem,
               Core!mem
<1>6. R!Next <=> Core!Next
  BY Zenon, <1>2, <1>3, <1>4, <1>5, CoreApplies DEF R!Next, Core!Next
<1>7. [R!Next]_(R!vars) => [Core!Next]_(Core!vars)
  BY <1>6 DEF R!vars, Core!vars
<1> QED
  BY <1>1, <1>7, PTL DEF R!Spec, Core!Spec

-----------------------------------------------------------------------------
(* Shutdown *)

(* The last run before the daemon returns is the cleanup, if there is one, *)
(* and its configuration is the one in use.                                *)
Closing ==
    /\ Self \in DOMAIN pc /\ Self \in DOMAIN kind /\ Self \in DOMAIN cfg
    /\ loop = "closing" => kind[Self] = "cleanup" /\ cfg[Self] = Effective(active)
    /\ loop = "exited" /\ active.cleanup /\ ~opts.dryRun =>
          kind[Self] = "cleanup" /\ cfg[Self] = Effective(active)

(* Any step of a run keeps its configuration.                              *)
LEMMA StepKeepsConfig ==
    ASSUME R!Step(Self) \/ R!NetlinkFails(Self) \/ R!Crash(Self)
    PROVE  UNCHANGED cfg
<1> USE DEF R!Goto, R!Advance, R!End, R!job
<1>1. CASE R!FetchGroup(Self) \/ R!SaveGroup(Self)
  BY <1>1 DEF R!FetchGroup, R!Skip, R!SaveGroup
<1>2. CASE R!ResolveGroup(Self) \/ R!ListGroupRoutes(Self)
  BY <1>2 DEF R!ResolveGroup, R!ListGroupRoutes
<1>3. CASE R!PlanGroup(Self) \/ R!PlanCleanupGroup(Self) \/ R!FinishPlan(Self)
  BY <1>3 DEF R!PlanGroup, R!PlanCleanupGroup, R!FinishPlan
<1>4. CASE R!ApplyAddRule(Self) \/ R!ApplyDeleteRule(Self)
  BY <1>4 DEF R!ApplyAddRule, R!ApplyDeleteRule, R!Made
<1>5. CASE R!ApplyAddRoute(Self) \/ R!ApplyDeleteRoute(Self)
  BY <1>5 DEF R!ApplyAddRoute, R!ApplyDeleteRoute, R!Made
<1>6. CASE R!ApplyRejected(Self) \/ R!ApplyDone(Self)
  BY <1>6 DEF R!ApplyRejected, R!ApplyDone
<1>7. CASE R!NetlinkFails(Self) \/ R!Crash(Self)
  BY <1>7 DEF R!NetlinkFails, R!Crash
<1> QED
  BY <1>1, <1>2, <1>3, <1>4, <1>5, <1>6, <1>7 DEF R!Step

(* Every step keeps Closing.                                               *)
LEMMA NextClosing == Closing /\ [Next]_vars => Closing'
<1> SUFFICES ASSUME Closing, [Next]_vars PROVE Closing'
  OBVIOUS
<1>1. CASE UNCHANGED vars
  BY <1>1 DEF Closing, vars, runVars, loopVars, opVars
<1>2. CASE Boot
  <2>1. UNCHANGED <<pc, kind, cfg>>
    BY <1>2 DEF Boot, R!WorldChange, R!job, runVars
  <2> QED
    BY <1>2, <2>1 DEF Boot, Closing
<1>3. CASE Listen \/ ReadFile \/ \E t \in Tickers : TakeTick(t)
  <2>1. CASE \E c : BeginRun(c)
    BY <2>1 DEF Closing, BeginRun, R!Start
  <2>2. CASE loop' \in {"panicked", "ready"} /\ UNCHANGED runVars
    BY <2>2 DEF Closing, runVars
  <2> QED
    BY <1>3, <2>1, <2>2 DEF Listen, ReadFile, TakeTick, Panic
<1>4. CASE RunStep
  <2>1. DOMAIN pc' = DOMAIN pc /\ UNCHANGED <<kind, cfg>>
    BY <1>4, StepKeepsShape, StepKeepsConfig DEF RunStep
  <2> QED
    BY <1>4, <2>1 DEF RunStep, Closing, opVars
<1>5. CASE TakeDone
  BY <1>5 DEF TakeDone, Closing, opVars, runVars, R!Start
<1>6. CASE KillRun
  <2>1. DOMAIN pc' = DOMAIN pc /\ UNCHANGED <<kind, cfg>>
    BY <1>6, StepKeepsShape, StepKeepsConfig DEF KillRun
  <2> QED
    BY <1>6, <2>1 DEF KillRun, Closing
<1>7. CASE Sigterm \/ SigtermInBody \/ BodyClosed \/ HostChange \/ ForeignChange
  BY <1>7 DEF Sigterm, SigtermInBody, BodyClosed, HostChange, ForeignChange, R!WorldChange, R!ForeignChange, R!job,
              Closing, opVars, loopVars
<1>8. CASE \/ TakeReload \/ Sighup \/ SignalTooEarly \/ Edit \/ Kill
           \/ \E t \in Tickers : Tick(t)
  BY <1>8 DEF TakeReload, Sighup, SignalTooEarly, Edit, Kill, Tick, Closing, runVars, opVars,
              loopVars
<1> QED
  BY <1>1, <1>2, <1>3, <1>4, <1>5, <1>6, <1>7, <1>8 DEF Next, Proceed

(* A daemon that returns after its cleanup has succeeded leaves nothing it *)
(* owns, whatever the host, other programs, the signals and the edits of   *)
(* the file did during the cleanup and do after it: see ShutdownCleans.    *)
(* It takes that the rules of the configurations are told apart and        *)
(* recognised, and that other programs keep to their own routes and rules. *)
THEOREM ShutdownLeavesNothing ==
    ASSUME R!RuleHypotheses, R!OthersRoutes
    PROVE  Spec => []ShutdownCleans
<1>1. Core!RuleHypotheses /\ Core!OthersRoutes
  <2>1. R!RuleHypotheses <=> Core!RuleHypotheses
    BY Zenon DEF R!RuleHypotheses, Core!RuleHypotheses, R!RulesRecognized, Core!RulesRecognized,
                 R!RulesDistinct, Core!RulesDistinct, R!OthersRules, Core!OthersRules, R!GroupsOf,
                 Core!GroupsOf, R!DesiredRules, Core!DesiredRules, R!IsOwnedRule, Core!IsOwnedRule,
                 R!RuleRequest, Core!RuleRequest, R!Reported, Core!Reported, R!ConfiguredRules,
                 Core!ConfiguredRules, R!RuleMatches, Core!RuleMatches, R!ToSet, Core!ToSet,
                 R!ForeignRule, Core!ForeignRule, R!FamsOf, Core!FamsOf, R!NoPrefix, Core!NoPrefix,
                 R!Masked, Core!Masked, R!Fams, Core!Fams, R!Zeros, Core!Zeros, R!MaskedN,
                 Core!MaskedN
  <2>2. R!OthersRoutes <=> Core!OthersRoutes
    BY Zenon DEF R!OthersRoutes, Core!OthersRoutes, R!ForeignRoute, Core!ForeignRoute, R!GroupsOf,
                 Core!GroupsOf, R!FamsOf, Core!FamsOf, R!Fams, Core!Fams
  <2> QED
    BY <2>1, <2>2
<1>2. Core!Spec => []Core!LeavesNothing
  BY <1>1, CoreAssumptions, WidthAssumption, MaxFaultsAssumption, Core!LoneCleanupCleans
<1>3. /\ \A c : Core!GroupsOf(c) = R!GroupsOf(c)
      /\ \A c, g : Core!OwnedRoutes(fib, c, g) = OwnedRoutes(fib, c, g)
      /\ \A c, g : Core!OwnedRules(rules, c, g) = OwnedRules(rules, c, g)
  BY Zenon DEF Core!GroupsOf, R!GroupsOf, Core!OwnedRoutes, OwnedRoutes, Core!ListRoutes, ListRoutes,
               Core!FamsOf, FamsOf, Core!Fams, Fams, Core!OwnedRules, OwnedRules, Core!Reported,
               Reported, Core!ToSet, ToSet, Core!IsOwnedRule, IsOwnedRule
<1>4. Closing /\ Core!LeavesNothing => ShutdownCleans
  BY <1>3 DEF Closing, ShutdownCleans, Core!LeavesNothing
<1>5. Init => Closing
  BY DEF Init, R!Init, Closing
<1> QED
  BY <1>2, <1>4, <1>5, NextClosing, CoreSpec, Implements, PTL DEF Spec, ImplementsReconcile

-----------------------------------------------------------------------------
(* Convergence *)

(* A run of the daemon that reports success, undisturbed, has brought the  *)
(* kernel to what the configuration in use asks for: SuccessConverges of   *)
(* the core, under its hypotheses, for every configuration that a file the *)
(* daemon has accepted can give.                                           *)
THEOREM DaemonConverges ==
    ASSUME R!OwnTables, R!RuleHypotheses
    PROVE  Spec => []R!SuccessConverges
<1>1. Core!OwnTables /\ Core!RuleHypotheses
  <2>1. R!OwnTables <=> Core!OwnTables
    BY Zenon DEF R!OwnTables, Core!OwnTables
  <2>2. R!RuleHypotheses <=> Core!RuleHypotheses
    BY Zenon DEF R!RuleHypotheses, Core!RuleHypotheses, R!RulesRecognized, Core!RulesRecognized,
                 R!RulesDistinct, Core!RulesDistinct, R!OthersRules, Core!OthersRules, R!GroupsOf,
                 Core!GroupsOf, R!DesiredRules, Core!DesiredRules, R!IsOwnedRule, Core!IsOwnedRule,
                 R!RuleRequest, Core!RuleRequest, R!Reported, Core!Reported, R!ConfiguredRules,
                 Core!ConfiguredRules, R!RuleMatches, Core!RuleMatches, R!ToSet, Core!ToSet,
                 R!ForeignRule, Core!ForeignRule, R!FamsOf, Core!FamsOf, R!NoPrefix, Core!NoPrefix,
                 R!Masked, Core!Masked, R!Fams, Core!Fams, R!Zeros, Core!Zeros, R!MaskedN,
                 Core!MaskedN
  <2> QED
    BY <2>1, <2>2
<1>2. Core!Spec => []Core!SuccessConverges
  BY <1>1, CoreAssumptions, WidthAssumption, MaxFaultsAssumption, Core!ReconcileConverges
<1>3. ASSUME NEW c, NEW g PROVE R!WantedNow(c, g) = Core!WantedNow(c, g)
  <2>1. R!ListNow(c, g) = Core!ListNow(c, g)
    BY Zenon DEF R!ListNow, Core!ListNow, R!Normalize, Core!Normalize, R!Aggregated,
                 Core!Aggregated, R!MaskAll, Core!MaskAll, R!AddrsIn, Core!AddrsIn, R!Prefix,
                 Core!Prefix, R!AddrsOf, Core!AddrsOf, R!CoveredBy, Core!CoveredBy, R!Masked,
                 Core!Masked, R!RawPrefix, Core!RawPrefix, R!Addr, Core!Addr, R!Covers, Core!Covers,
                 R!MaskedN, Core!MaskedN, R!Fams, Core!Fams, R!Bits, Core!Bits
  <2>2. ASSUME NEW res
        PROVE  R!DesiredRoutes(c.proto, g, R!ListNow(c, g), res, Answers) =
                 Core!DesiredRoutes(c.proto, g, R!ListNow(c, g), res, Answers)
    BY Zenon DEF R!DesiredRoutes, Core!DesiredRoutes, R!RemovePrefixesCoveringAddrs,
                 Core!RemovePrefixesCoveringAddrs, R!FilterFamily, Core!FilterFamily, R!RoutesVia,
                 Core!RoutesVia, R!ThrowRoute, Core!ThrowRoute, R!MaskAll, Core!MaskAll,
                 R!DefaultPrefixes, Core!DefaultPrefixes, R!NoHop, Core!NoHop, R!LocalAddrs,
                 Core!LocalAddrs, R!Covers, Core!Covers, R!FamsOf, Core!FamsOf, R!NextHopVia,
                 Core!NextHopVia, R!NoAddr, Core!NoAddr, R!Masked, Core!Masked, R!Zeros, Core!Zeros,
                 R!NoDev, Core!NoDev, R!MaskedN, Core!MaskedN, R!Fams, Core!Fams
  <2> QED
    BY <2>1, <2>2, CoreResolve, Zenon DEF R!WantedNow, Core!WantedNow
<1>4. ASSUME NEW c, NEW g PROVE Core!RoutesConverged(c, g) => R!RoutesConverged(c, g)
  BY Zenon, <1>3
     DEF R!RoutesConverged, Core!RoutesConverged, R!OwnedRoutes, Core!OwnedRoutes, R!Installed,
         Core!Installed, R!SameSlot, Core!SameSlot, R!ListRoutes, Core!ListRoutes, R!FamsOf,
         Core!FamsOf, R!Stored, Core!Stored, R!RouteRequest, Core!RouteRequest, R!Fams, Core!Fams,
         R!IPv6DefaultMetric, Core!IPv6DefaultMetric, R!LoopbackIndex, Core!LoopbackIndex, R!NoAddr,
         Core!NoAddr, R!Zeros, Core!Zeros
<1>5. ASSUME NEW c, NEW g PROVE Core!RulesConverged(c, g) => R!RulesConverged(c, g)
  BY Zenon DEF R!RulesConverged, Core!RulesConverged, R!OwnedRules, Core!OwnedRules, R!DesiredRules,
               Core!DesiredRules, R!Reported, Core!Reported, R!ToSet, Core!ToSet, R!IsOwnedRule,
               Core!IsOwnedRule, R!FamsOf, Core!FamsOf, R!Fams, Core!Fams
<1>6. ASSUME NEW c, NEW g PROVE Core!Converged(c, g) => R!Converged(c, g)
  BY <1>4, <1>5 DEF R!Converged, Core!Converged
<1>7. Core!SuccessConverges => R!SuccessConverges
  BY <1>6 DEF R!SuccessConverges, Core!SuccessConverges, R!GroupsOf, Core!GroupsOf,
              R!Available, Core!Available
<1> QED
  BY <1>2, <1>7, CoreSpec, Implements, PTL DEF ImplementsReconcile
=============================================================================
