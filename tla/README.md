# A TLA+ model of route-sync

route-sync keeps a subset of the Linux routing tables and policy rules in step
with fetched prefix lists and with the health of gateways. This directory holds
a model of it, TLC instances that check it, and TLAPS proofs of the
results that matter most. Line numbers refer to the sources under `src/`.

## 1. The system

| Part | State | Operations | Talks to |
|---|---|---|---|
| source providers (`source/ripe`, `source/txt`) | none | `Fetch`, `open`, `Parse` | HTTP, files; called by `BuildPlan` |
| normalisation (`source`) | none | `Normalize`, `Aggregate`, `FilterFamily` | called by app and planner |
| state store (`state`) | one JSON file per group | `SaveGroup`, `LoadGroup` | called by `BuildPlan` |
| health (`health`, candidates in `app`) | none; pings | `Select`, `evaluateCandidate` | `ping`, `LinkIndexByName` |
| planner (`planner`) | none | `Build`: desired routes and rules, diffs | input from `BuildPlan` |
| reconcilers (`reconcile/routes`, `reconcile/rules`) | none | `CurrentOwned`, `Apply` | the `rtnl.Kernel` interface |
| netlink adapter (`rtnl`) | the kernel's tables and rules | list, add, delete | netlink |
| commands (`app`) | none | `BuildPlan`, `reconcileOnce`, `cleanupOwned` | all of the above |
| daemon (`runDaemon`, `signals`) | active configuration, two tickers, a reload channel with one slot, a context | the `select` loop: tick, reload, shutdown | the commands; signals; the configuration file |
| configuration (`config`, `loadConfig`) | none | `Load`, `ApplyDefaults`, `Validate`, `Groups`, overriding flags | YAML |
| metrics (`metrics`) | counters and gauges behind one mutex | `Inc`, `Set`, the handler of `/metrics` | the loop and HTTP clients, concurrently |
| logging, flags | none | output, parsing | stderr |

A run of `apply`, and each turn of the daemon's loop, goes through all groups:
fetch (or fall back on the saved list, or skip the group), normalise, save, look
up devices, ping the gateways, list what the group owns in the kernel; from that
the planner computes what to add and remove; then `rules.Apply` and
`routes.Apply` make one netlink call after another. `cleanup` lists what every
group owns and removes it. `check` stops before the first change.

Ownership is by marks in the kernel only: a route belongs to a group when it
has the group's table and the configured protocol; a rule when it has the
group's table and priority.

What is hard here:

- there is no lock: a daemon and any command run side by side, and everything
  between a listing and the calls computed from it is a window;
- delete requests are patterns, and adding what exists or deleting what is gone
  counts as success;
- a run can stop at any call (an error, a kill) and the next one has only the
  kernel's listing to go by;
- sources, devices, gateways and the state file fail independently of one
  another;
- a plan is a diff: anything that the kernel reports differently from how it was
  requested never converges;
- the daemon reads signals only between runs, and SIGTERM takes the context from
  under the run in progress: from then on its fetches and pings fail, while its
  netlink calls still succeed, and a text list that is just being read ends there
  without an error;
- the file changes whenever the operator likes, and what `Validate` accepts is
  used by code that merges and parses it again in its own way;
- a body may break at any byte, or never come;
- a scrape holds the mutex that every run has to take.

What makes each part correct: aggregation keeps exactly the addresses, ends, and
returns the shortest list; `Select` prefers gateways that answer and never gives
two the same metric; a run that reports success has converged, from wherever
the last one stopped; what is wanted and as planned is not taken away, what is
obsolete goes last; a group in an outage keeps what it has; nothing foreign is ever
touched; processes side by side do not make one another fail; and once the
environment calms down, the daemon gets there. The loop starts one run at a time
with one configuration each, loses no reload, ends on SIGTERM and cleans up if
asked to. A provider answers in bounded time: RIPE's with the whole list or an
error, the text provider, which takes the end of a broken body for the end of the
list, with no more damage than that. What is accepted as a configuration is
well-formed. A metrics page is of one moment, and a client stops the loop only by
not reading any more.

## 2. Modules

| Module | Models | Notes |
|---|---|---|
| `Netip` | `net/netip` as used | an address is a family and `Width` bits; prefixes with host bits are `RawPrefix` |
| `Rtnl` | `internal/rtnl` and the kernel's side | `fib` is a set of routes, `rules` a sequence |
| `Source` | `source.go` | lists as sets; aggregation by its result |
| `Aggregate` | `aggregate.go` | the loops, one turn a step |
| `Health` | `health.go`, candidates in `app.go` | `Select` in declarative form |
| `Failover` | repeated evaluation while pings come and go | `Select` as the loops of the code, compared with `Health` |
| `Planner` | `planner.go`, inputs from `app.go`, `CurrentOwned` | the calls of a plan as batches |
| `Reconcile` | `app.go`, `Apply`, `state.go` | processes, kernel, state directory, environment |
| `Config` | `config.go`, `loadConfig` | operators: from what YAML delivers to `Planner`'s `Config` |
| `Validation` | an operator who edits the file, one setting at a time | what acceptance is worth to the plans |
| `Daemon` | `Run` up to `runDaemon`, its loop, `signals` | around the runs of `Reconcile`, which it implements |
| `Fetch` | what callers expect of `source.Provider` | the abstract specification: the whole list or an error |
| `Provider` | `txt.go`, `ripe.go`, `providerFor` | line by line; `ripe` implements `Fetch` |
| `Metrics` | `metrics.go` | registry, mutex, handlers, buffers of connections |
| `MC*` | constants for TLC | |
| `Slices` | what a filtering loop over a slice selects | used by `Config`, `Fetch` and `Failover` |
| `PlannerProofs` | lemmas about the operators of `Slices`, `Source`, `Health`, `Rtnl`, `Planner` and `Config` | no specification of its own |
| `ReconcileProofs`, `DaemonProofs`, `ValidationProofs`, `AggregateProofs`, `FailoverProofs`, `ProviderProofs`, `MetricsProofs` | theorems about the module named | section 5 |

`Reconcile` extends `Planner`, which extends `Health` and `Source`; both rest on
`Rtnl` and `Netip`. `Config` extends `Planner`; `Validation` and `Daemon` extend
`Config`. `Daemon` composes the loop with the core: it instantiates `Reconcile`
with itself as the only process, with the configurations its files and flags
give, and with the host as the running context lets it be heard. Likewise
`Provider` instantiates `Fetch`.

`SaveGroup` is one step, also where it fails or the process is killed in it. That
`os.WriteFile` truncates the file first is seen in these two cases; another
process that loads the file in between would find it damaged, and skip a group
whose source is down, without any fault.

### Reconcile: state and steps

The kernel is `fib` and `rules`, the state directory `store`, and `world` is what
the host answers at the moment: device indexes, answered pings, interface
addresses and the result of each source. Each process has a label (`pc`), its
command and configuration, the group it has come to (`at`), that group's input
so far (`draft`), the planned calls (`plan`), the calls left (`calls`) and the
outcome of its last run. `want` and `calm` are history: what the plan should
achieve, and whether anything but the process itself has changed the kernel or
the world since it started.

| Action | Code |
|---|---|
| `Start` | a command of `Run`, or a turn of `runDaemon` with the configuration then active |
| `FetchGroup` | `Fetch`, else `LoadGroup`, else skip; `Normalize` (`app.go:138-154`) |
| `SaveGroup` | `app.go:155-159`, `state.go:23-36`; may fail, may leave the file truncated |
| `ResolveGroup` | `LinkIndexByName`, pings, `Select` (`app.go:160-181`) |
| `ListGroupRoutes`, `PlanGroup` | the two listings, exclusions, `planner.Build` (`app.go:182-196`) |
| `PlanCleanupGroup` | `BuildCleanupPlan` |
| `FinishPlan` | dry run or go on (`app.go:413-434`, `464-486`) |
| `ApplyAddRule` ... `ApplyDeleteRoute` | one netlink call of `rules.Apply` or `routes.Apply` |
| `ApplyRejected`, `ApplyDone` | the kernel refuses a call; all calls are made |
| `NetlinkFails`, `Crash` | an I/O error; the process is killed |
| `WorldChange`, `ForeignChange` | the host; other programs |

A step is one access to something shared, with three simplifications: the
lookups and pings of one group are one step, so are the listings of the two
families of a group, and the interface addresses are read together with the
rules. A batch of calls that ranges over a slice filled from a Go map may be
worked through in any order.

A plan is computed group by group although `planner.Build` runs after all
inputs are complete: it is a pure function of each group's input.

### Daemon: state and steps

`loop` says where `runDaemon` is, `active` is the configuration in use, `reload`
the slot of the channel, `due` the tickers whose channel holds a tick,
`cancelled` that the context is done. `file`, `opts` and `host` are the
operator's file, the command line and what the host answers; `Answers`, which
`Reconcile` sees as its `world`, is the host cut off once the context is done.
`torn` is the fetch, if any, whose body a SIGTERM has cut short: of the groups in
`TextSources` (`type: txt` with an HTTP URL) `txt.Parse` then returns a part of
the list without an error, any of `Parts`, and the run saves and applies it.
`asked` is history: the file has been read, or a SIGHUP sent, since it was last
edited.

| Action | Code |
|---|---|
| `Boot` | `Run`: flags, `loadConfig` (`app.go:39-79`); a file that is not accepted does not start |
| `Listen` | `signals.Notify`, `NewTicker` (panics for a negative interval), `run("startup")` (`488-504`) |
| `TakeTick`, `TakeReload`, `TakeDone` | the cases of the `select` |
| `ReadFile` | `loadConfig`, `active = next`, `Reset`, `run("reload")` (`522-530`) |
| `RunStep` | `reconcileOnce` or `cleanupOwned`, one step of `Reconcile` |
| `Tick`, `Sighup`, `Sigterm` | the runtime fills the channels, dropping what finds them full |
| `SigtermInBody`, `BodyClosed` | the context is cancelled while `Parse` reads a body (`txt.go:66-89`); the body is closed when `Fetch` returns |
| `SignalTooEarly` | a signal before `Notify` ends the process |
| `Edit`, `Kill`, `KillRun`, `HostChange`, `ForeignChange` | the environment |

`TakeReload` and `ReadFile` are two steps because a SIGHUP or an edit may fall
between the receive and the read: the signal is then kept for another turn. That
a reload reads the newest file rests on it.

The body that a SIGTERM cuts short is heard by one fetch only, and it counts as two
changes of the world, one when it is cut short and one when it is closed.

### Provider and Metrics

A list is a sequence of lines that are CIDRs, nothing, invalid, or at least 64
KiB long. A connection may end after any line or inside one; then the beginning
of a line may parse: of a CIDR with a shorter length ("10.0.0.0/24" cut to
"10.0.0.0/2"), of an invalid line as a prefix nobody has listed ("192.0.2.0/33"
of `testdata/txt/malformed.txt` cut to "192.0.2.0/3"), of a long line as the CIDR
before its comment. `CutsOf` enumerates these. `txt.Parse` never asks why its
scanner stopped, so a broken body is a shorter list; `ripe.Fetch` reads everything
before it decodes.

In `Metrics` the loop makes the calls a run makes, one lock each; a handler locks,
writes name by name in any order and unlocks. A client reads as much as it likes
and may ask again before it has read the last page, as a kept-alive connection
lets it; its connection takes `Buffer` unread lines, less than a page.

### Data that is abstracted

Names, wording, log lines and metrics are gone. Prefix lists are sets. A ping is
a pair of a device and an address that answers or not; timeouts are not told
apart from refusals. `Route` and `Rule` leave out `Group` and `Dev`, which no
comparison looks at. The rule's table is the group's table: `validateGroup`
demands it (`config.go:267`).

What is assumed of the kernel and of the netlink library (external in the map):
one route per table, destination and metric; deletions remove the first match by
metric; rules are deleted by the first match; IPv6 turns metric 0 into 1024 and
hangs throw routes on the loopback device; a rule without a source is IPv4; the
default route is listed with destination 0/0; a vanished device takes its routes
with it.

## 3. Runs

Bounds are named constants: `MaxFaults` limits how often the environment
interferes in a behaviour (failures, kills, changes of the world, foreign
changes); the number of runs of a process is not bounded.

| Run | Instance | Checks |
|---|---|---|
| `alone` | one process, `apply`/`check`/`cleanup`, two configurations of one group, four worlds, two faults | `TypeOK`, `SuccessConverges`, `SuccessCleans`, `ForeignUntouched`, `WantedStays`, `CoverageKept` |
| `groups` | two groups (one dual, local addresses excluded), a source each, a device that may be gone, three faults | `SuccessConverges`, `OutageKeepsRoutes`, `WantedStays` |
| `race` | daemon and command, `apply`/`cleanup`, a list that changes, a foreign route, two faults | `SuccessConverges`, `FailuresHaveACause`, `ForeignUntouched` |
| `live` | daemon and command, `apply`, outages, the only device gone, two faults, `FairSpec` | `EventuallyConverged` |
| `failover` | three next hops, up to four gateways, nine pings that come and go | `SelectMatchesLoops`, `NoTie`, `AnsweringPreferred`, `OthersKeepOrder` |
| `aggregate` | all sets of IPv4 prefixes of length 1 to 3 over three bits, and sets of prefixes of both families with host bits | `TypeOK`, `SameAddresses`, `RemoveCoveredMatchesLoop`, `ReturnsShortest`, `PassesShorten`, `Terminates` |
| `config` | files up to two settings away from one of two sensible ones, about 25000, each with two command lines; lists of nothing, one prefix, or all of one length | `CandidatesSound`, `DualGatewaysCount`, `RuleSettles`, `RoutesSettle` |
| `daemon` | three files (one with a negative interval), with and without `--dry-run`, two hosts with different text lists, one whose gateway does not answer, two faults, two edits or kills | `ReloadNotLost`, `ShutdownCleans`, `ExitLeavesOneList`, `DryRunTouchesNothing`, `WantedRulesStay` |
| `daemon_live` | three files (one not accepted), one host, a foreign route, one fault, two edits or kills, `FairSpec` | `ImplementsReconcile`, `ShutdownEnds`, `FileTakesEffect` |
| `fetch` | both providers, all lists of up to three lines of five kinds, well-formed or not, `FairSpec` | `DamageIsBounded`, `FetchEnds`, `ImplementsFetch` |
| `metrics` | two clients that may pipeline and stop reading, buffers for two lines of a page of five, two runs, `FairSpec` | `PageIsCoherent`, `RunsGoOn` |
| `doc_local` | a host with a local address inside a fetched prefix | `LocalIPsExcluded`, violated: section 6 |

Why the bounds are enough to be interesting:

- two bits give a prefix, its halves and its quarters: a list can grow, be
  aggregated, be covered by an exclusion or by the default route;
- the four worlds of `alone` are a list, another list with the primary gateway
  down, an outage and a missing device; the two configurations use both kinds of
  next hop, a throw exclusion, a default route, and rules by source and by mark,
  so moving between them replaces routes, metrics and rules;
- one foreign route sits in a slot a planned route needs, one elsewhere in the
  table, and a foreign rule has the same table and another priority;
- two faults allow an interrupted run in a world that changes afterwards; three
  in `groups` allow a damaged state file, an outage and a recovery;
- three bits let aggregation merge twice in a row and need several passes;
- four gateways over three devices share a device, inherit one, and have targets
  of one family, of both and none;
- the instance of `groups` has an IPv6 throw route, which the kernel lists
  differently from how it was planned: it is removed and added again in every
  run and in place at the end of each; in one of its worlds the device of one
  group is gone, which ends the runs for both;
- in `daemon` and `daemon_live` the delete request for one file's rule, by mark,
  matches that of another, by mark and source. So a run that moves back after an
  interrupted one does lose the rule it wants, the case that `WantedRulesStay`
  leaves open; the next run adds it again, and a cleanup that finds both rules
  has to delete them in the order in which they are listed;
- the fetch of the text list in `daemon` may be cut short anywhere by a SIGTERM;
  `CutLine` is a line cut to a shorter length;
- two edits let a good file be replaced by a slip and the slip by another file
  between a SIGHUP and its reading; two faults let a SIGTERM fall into a run and
  the next daemon find what it left; the files of `daemon` have a negative
  interval, so that `Panic` happens, those of `daemon_live` a slip that a reload
  has to reject;
- lengths of prefixes are written to the base `Radix`; two, with three bits of
  address, gives a length that is a valid length when cut short;
- the lines that `fetch` takes for invalid or too long begin with prefixes that
  parse, one of them the prefix of a valid line of the instance;
- two unread lines fill a connection of `metrics` before the page is written: a
  handler waits there with the mutex, and for good if its client never reads on.

`SuccessConverges` includes the exceptions the code makes: a wanted route is not
installed, and the run still succeeds, when another route holds its slot (table,
destination, metric). That is a route of another program, or another route the
same group wants: a throw for an excluded prefix that is fetched too, when
neither has a metric. Routes are compared as the kernel stores them.

Its instances use configurations for which it can hold: `OwnTables` and
`RuleHypotheses`, the hypotheses of the theorems of section 5, are ASSUMEs of
`MCReconcile` and `MCDaemon`, so TLC evaluates them on every run; `RulesDistinct`
alone does not hold in the two daemon runs. `RuleSettles`
and `RoutesSettle` say, for whatever is accepted, exactly which rules and routes
come to rest. `RoutesSettle` asks whether `AddRoute` can bring the kernel to hold
a whole plan. It cannot if the kernel refuses one of the routes (an IPv4 group
whose gateways are all IPv6 and whose hop has no device is accepted, and plans
routes without a device), stores it otherwise (IPv6 without a metric, an IPv6
throw), or has no room for it (a throw for an excluded prefix beside a route to
that prefix without a gateway: the reverse file of `MCValidation` with a device
and no gateways).

Deadlock is checked except where the system may stop: the aggregation loop ends,
a daemon that has ended need not be started again and the operator may run out
of edits, the clients of `Metrics` of requests.

### Fairness

`FairSpec` assumes weak fairness of a daemon's `Step` and `StartSome`. The first
says that a run that can go on does so: every external call in it has a timeout
(`http_timeout`, the ping deadline) or is a local system call. The second is the
pair of tickers of `runDaemon`, which start another run again and again whatever
the last one reported. Nothing is assumed of a command run beside it: it may
stop between any two calls for good.

`Daemon`'s `FairSpec` assumes that the process goes on (`Proceed`), that the
tickers tick, and strong fairness of each case of the `select`: Go chooses among
the ready cases at random, so a case that is ready again and again is taken with
probability one. Weak fairness would not do: a case is not ready while a run is
in progress. Nobody is assumed to send a signal, to edit or to restart.

`Provider`'s assumes that the client's timeout comes (`GiveUp`) and that local
files are read; a server owes nothing. A negative `http_timeout`, which nothing
rejects, would mean no timeout, and `FetchEnds` is not claimed for it.
`Metrics`' assumes that who waits for a `sync.Mutex` gets it, which its
starvation mode provides, and that a handler that can write does. That clients
read on is not assumed of them but is the premise of `RunsGoOn`
(`EveryClientReadsOn`): the server has no write timeout, and without the premise
TLC shows how one client that stops reading stops the loop.

## 4. Properties

Safety, in `Reconcile`: `SuccessConverges` and `SuccessCleans` (what an
undisturbed run that reports success has achieved, from any state earlier runs
left), `FailuresHaveACause`. Action properties: `ForeignUntouched`,
`WantedStays`, `WantedRulesStay` (checked of the daemon), `CoverageKept`,
`OutageKeepsRoutes`. Liveness: `EventuallyConverged`.

In `Aggregate`: `SameAddresses`, `ReturnsShortest` and `RemoveCoveredMatchesLoop`,
the action property `PassesShorten`, liveness `Terminates`. In `Failover`: `NoTie`,
`AnsweringPreferred`, `OthersKeepOrder`, and `SelectMatchesLoops`.

In `Daemon`: `ReloadNotLost`, `ShutdownCleans`, `ExitLeavesOneList`,
`DryRunTouchesNothing`, liveness `ShutdownEnds` and `FileTakesEffect`, and the
refinement `ImplementsReconcile`. In `Validation`: which accepted gateways become
candidates, which accepted rules and routes settle. In `Provider`:
`DamageIsBounded`, `FetchEnds` and the refinement `ImplementsFetch`. In
`Metrics`: `PageIsCoherent`, `RunsGoOn`. The comments in the modules state each in
words; section 5 says which of them are proved for every value of the constants.
Every property is paired with a plausible slip in the code that breaks it; these
variants stand in the modules just before the definition they vary, marked
"mutant".

## 5. Proofs

| Theorem | Says | Hypotheses |
|---|---|---|
| *ReconcileProofs* | | |
| `TypeCorrect`, `Invariance` | `Spec => []TypeOK`, `Spec => []IInv` | |
| `NothingForeignTouched` | `Spec => ForeignUntouched` | |
| `NobodyElseToBlame` | `Spec => []FailuresHaveACause` | |
| `RoutesConverge` | the routes' part of `SuccessConverges` | `OwnTables` |
| `CoverageIsKept` | `Spec => CoverageKept` | `OwnTables` |
| `OutageIsHarmless` | `Spec => OutageKeepsRoutes` | `OwnTables` |
| `ReconcileConverges` | `Spec => []SuccessConverges` | `OwnTables`, `RuleHypotheses` |
| `WantedIsKept` | `Spec => WantedStays` | `OwnTables` |
| `DistinctRulesAreKept` | no rule that a plan wants is taken away, even for a moment | `OwnTables`, `RuleHypotheses` |
| `CleanupRemovesRoutes` | the routes' part of `SuccessCleans` | |
| `CleanupCleans` | `Spec => []SuccessCleans` | `RuleHypotheses` |
| `LoneCleanupCleans` | the same of the only process, disturbed or not | `RuleHypotheses`, `OthersRoutes` |
| *DaemonProofs* | | |
| `Implements` | `Spec => ImplementsReconcile` | |
| `NoReloadLost` | `Spec => []ReloadNotLost` | |
| `DryRunIsDry` | `Spec => DryRunTouchesNothing` | |
| `RunsWithConfigs` | the daemon meets `Reconcile`'s `ConfigsAssumption` | |
| `ShutdownLeavesNothing` | `Spec => []ShutdownCleans` | `RuleHypotheses`, `OthersRoutes` |
| `DaemonConverges` | `SuccessConverges`, of the daemon's runs | `OwnTables`, `RuleHypotheses` |
| *others* | | |
| `AcceptedIsWellFormed` | what `loadConfig` accepts is in `Planner`'s `Config` | |
| `CandidatesAlwaysSound`, `DualGatewaysAlwaysCount`, `RulesAlwaysSettle`, `RoutesAlwaysSettle` | the four properties of `Validation` | |
| `AggregateKeepsAddresses`, `AggregateTypeCorrect` | no turn of the loops adds or loses an address | |
| `LoopMatchesRemoveCovered` | `Spec => []RemoveCoveredMatchesLoop` | |
| `AggregateReturnsShortest` | `Spec => []ReturnsShortest` | |
| `EveryPassShortens` | `Spec => PassesShorten` | |
| `FetchIsImplemented` | `Spec => ImplementsFetch` | |
| `DamageAlwaysBounded` | `Spec => []DamageIsBounded` | |
| `NoTieEver` | metrics never tie | |
| `LoopsComputeSelect` | `Spec => []SelectMatchesLoops` | |
| `AnsweringAlwaysPreferred`, `OthersAlwaysKeepOrder` | answering gateways come first; a flap leaves the others in order | |
| `PagesAreCoherent` | `Spec => []PageIsCoherent` | |

### From which assumptions

The theorems hold for every number of processes, groups, devices, worlds and
faults, and for every address width. Most named assumptions of the modules say
no more than that the constants have their types and that there is something to
run with. These say more:

- `OwnTables`: the groups of one configuration have different tables. `Validate`
  does not check it (`config.go:208`), and with a shared table each group takes
  the other's routes for obsolete.
- `RulesRecognized`: a rule, once installed, is listed for its group as it was
  planned. `RuleSettles` says which accepted rules these are.
- `RulesDistinct`: a delete request for one configured rule does not match
  another one. Otherwise a rule with fewer matchers takes another with it: a run
  that moves from one to the other and is killed between `AddRule` and
  `DeleteRule` leaves both, and moving back then removes the wrong one.
- `OthersRules`, `OthersRoutes`: what other programs install is not taken for a
  group's own. The three about rules together are `RuleHypotheses`. The
  convergence of an undisturbed run needs nothing about others' routes; a cleanup
  that is disturbed does.
- `HostAssumption` (module `Validation`): the host that plans are measured on has
  every device a file may name. `FetchedAssumption` there says that the lists are
  normalized, as they are when the planner gets them.
- `SourcesAssumption` (module `Daemon`): a group whose list is a text fetched over
  HTTP has no local file for it.

All of them are assumptions TLC evaluates on the instances of section 3, those
about rules, tables and other programs as `ConvergesAssumption` of `MCReconcile`
and `MCDaemon`: the hypotheses have models, among them every instance checked, but
for `RulesDistinct` in the two daemon runs, whose properties hold without it.

### Along which arguments

`NothingForeignTouched`: a deletion is carried out long after its listing, as a
pattern, so looking at one step is not enough. The inductive invariant `IInv` adds
to the types that everything a process carries about (the listing in `draft`,
the batches in `plan` and `calls`) names the table, protocol and family, or the
table and priority, of some configured group (`DataInv`), and that a process that
plans is at a group there is (`ControlInv`). A request built from such an entry
matches only entries with the same table, protocol and family, or table and
priority; these are not foreign. Listings establish `DataInv` because
`CurrentOwned` filters by the same marks; desired entries because they are built
from the group.

Convergence speaks of the end of a run and has to be carried through all of it.
`BaseInv` is `IInv` with: the kernel has one route per slot, each as it stores
them (`FibInv`); an idle process has no plan and one at work no result, and a
complete plan has all the groups (`LocalInv`); what an undisturbed process has
found out about the group it has come to is still so (`DraftInv`). On top of it
stands, for each undisturbed process, `RoutesInv`: while it plans, the plan
accounts for the groups it has passed (`RoutePlan`); while it applies, the calls
left do (`RouteCallsLeft`): only unwanted routes that are there will be deleted, a
wanted route that is not to be added any more has its slot taken by a route that
stays, and what a group holds is wanted or going to be deleted. When no call is
left, that is `RoutesConverged`. The order of the calls enters as `DeletesFirst`
(what occupies a slot goes before its successor comes) and `RetiresLast` (a
destination nothing wants goes after all that is wanted has come); the latter is
`CoverageKept`. A delete request is a pattern, but what is to be deleted is in the
table, the kernel takes the least metric first and a slot has one route: it
takes exactly the route meant (`DeleteRouteExact`). Groups do not get in one
another's way because their tables differ, which is where `OwnTables` enters.

`WantedIsKept` rests on the same: a removal is only listed for what is not wanted
as the kernel has it, takes exactly that, and comes before the additions for its
destination, among which a wanted route is that the kernel keeps in another form.

For rules (`RulesInv`, `RuleCallsLeft`) the kernel's list has no slots, and a
request can match many. `KernelRulesInv` says that every rule is another program's
or was asked for by some configuration and is there once; with `RulesDistinct` a
delete request then takes exactly the rule meant. That is an invariant of all
processes together, disturbed or not.

Cleanup (`CleanRoutesInv`, `CleanRulesInv`) is about lists that only have to be
long enough: what a group holds is among what is to be deleted. So it survives
routes that vanish, and it is stated for processes that are `Undisputed`: calm, or
alone among programs that keep to their own. Other processes could add to a group
already listed.

`NobodyElseToBlame`: as long as there was no fault and the configuration has its
devices, hops in a draft are right whatever other processes do, every route to
be added has a device, and the errors of a lost race are ignored ones
(`BlamelessInv`).

For the daemon, `IInv` says that `active` comes from some accepted file and flags
whenever the process lives (`Working`), and that it comes from the present file
unless that was edited and not asked for, also before the signals are listened
to (`Current`). The first is what the refinement needs: each step of the loop is
a `Start` with a configuration of `Reconcile`, a step of the run, a change of the
world (SIGTERM, and the start after it) or a stutter. `Dry` adds that a daemon with
`--dry-run` only runs checks, which never get to apply. The theorems about
`Reconcile` carry over through the refinement: `Core` is module `ReconcileProofs`
with the daemon's constants, its assumptions are shown (`CoreAssumptions`), and
its definitions are shown to be those of `R`, which `Daemon` uses (`CoreSpec`).
`ShutdownLeavesNothing` adds `Closing`: the last run before the daemon returns is
the cleanup, with the configuration in use. After a SIGTERM the world has
changed, so the run is seldom calm; that is why `LoneCleanupCleans` is needed.

`AcceptedIsWellFormed` starts from the types of what decoding may deliver
(`ConfigFile`, `Options`): text that is not one the code knows, addresses and
prefixes that do not parse, any integers. Defaults and flags stay inside these
types; then each check of `Validate` is what one field of `Group` needs. The one
place where nothing checks, the addresses of a hop that has gateways, is why
`HopOfFile` follows `nextHopVia` in taking an unparsable address for none. The
theorems of `ValidationProofs` rest on it: their invariant is only that the file
is one decoding may deliver, and the work is in following one setting through
validation, merging and planning. For `RoutesAlwaysSettle` a plan is held whole
exactly if no two of its routes share a slot and each has a device and is kept as
planned; which two can share one is a matter of their metrics, and those of the
gateways of a hop differ (`SelectedHop`).

For aggregation, `SameAddresses` together with the types is inductive. The two
lemmas that carry it: two different prefixes of one length with one parent cover
exactly that parent (`MergePairExact`), and removing covered prefixes keeps the
addresses (`RemoveCoveredExact`; every prefix lies in a maximal one by the least
length). `SortedElements` shows that sorting loses nothing, by counting.

`AggregateReturnsShortest` asks why it is enough to look at neighbours. `ScanInv`
adds that the list is sorted and, while it is scanned, an antichain, and that a
scan that has merged nothing has put out what it read and has found no mergeable
neighbours so far. At the end of such a scan the list is an antichain in which
no two neighbours merge; then no two elements at all do, because nothing sorts
between the two halves of a prefix that neither covers (`NothingBetweenHalves`,
`NeighboursSuffice`). And an antichain without halves is the shortest list: if a
prefix lies in the covered addresses and no element covers it, then its lower half
or its upper half is again such a prefix unless both are elements, down to a
single address, which an element must contain (`CoveredWhole`,
`ShortestIsAggregated`; the induction is by the greatest length of a
counterexample). `EveryPassShortens` needs `PassInv`: a scan puts out no more than
it has read, and less once it has merged.

`LoopMatchesRemoveCovered` compares the declarative `RemoveCovered` with the fold
over the sorted list. A prefix sorts after those that cover it (`CoverSortsBefore`),
so keeping one more turns the maximal prefixes of what came before into those
with it (`KeepMaximal`). The fold is a recursive function over sets of positions;
the set of maximal prefixes at these positions, sorted, solves its equation, and
a least set on which two solutions differ cannot exist (`LoopRemovesCovered`).

For failover, the order `Ahead` is a strict total order, so positions differ and
grow with it, and the penalty only ever goes to the later part of the order
(`MetricOrders`). A ping bound to one device does not change what `Select` finds of
a gateway behind another (`FlapElsewhere`), and so not their order. The two loops
of `Select` (`LoopsComputeSelect`) put each gateway where counting puts it:
`InOrderPlace` says where a filter leaves an element, `OrderedPlaces` adds up the
healthy ones before the others.

For the providers, `AnswerInv` says that there is an answer exactly when the
fetch is done; with it each step is one of `Fetch` or changes nothing there, where
what a text list returns counts as an error (`NextMaps`). `DamageInv` says that
`Parse`'s result so far is the valid entries of the lines read: a line more adds
what parses of it (`EntriesStep`). Where the reading stops inside a line that
parses, a length cut short is a shorter length, so what is left of it is a network
that contains the line's (`CutContains`); of what is left of an invalid line
nothing more can be said than that it is one network.

For metrics, `LoopInv` says by how much the counters may differ between two calls
of a run, and `PageInv` that the part of a page already written is the registry as
it is, because the handler holds the mutex.

### Only model-checked

- All liveness properties (`EventuallyConverged`, `Terminates`, `ShutdownEnds`,
  `FileTakesEffect`, `FetchEnds`, `RunsGoOn`): fairness and `ENABLED` are out of
  the proof system's reach. Of `Terminates` the safety part is proved:
  `PassesShorten`.
- `ExitLeavesOneList`: it holds of groups without exclusions and default
  routes only, and compares lists over all hosts; it is a property of the
  instance.
- `WantedRulesStay`: what happens to rules whose delete requests match one
  another. `DistinctRulesAreKept` proves more where they do not.

## 6. Where documentation and code part

- `exclude_local_ips` is documented to skip fetched prefixes that contain the
  host's addresses (`README.md:228`); `addrPrefix` masks the address first
  (`app.go:392`), so it is the network address that is compared. Run `doc_local`
  ends in a plan with such a prefix: `LocalIPsExcluded` is violated.

Other places where they part, which the model shows without a run of their own:

- `cleanup` is documented to remove owned rules (`README.md:102`); the rule of an
  IPv6 group without `from` is installed as an IPv4 rule
  (`netlink_linux.go:117`), and no listing for the group finds it. With `mask: 0`
  the rule is to be installed without a mark matcher (`README.md:238`); if
  `fwmark` is set too, the planned rule never equals the listed one
  (`planner.go:191`), and every second reconcile removes it. Rules are documented
  to be owned inside the managed priority band (`README.md:31`); `validateGroup`
  accepts any positive priority (`config.go:264`), and a rule outside the band is
  installed and never found again (`rules.go:18`). `RuleSettles` says that, of
  the accepted files, exactly the ones that avoid these cases have rules that
  come to rest.
- A reload with an invalid file is documented to keep the last valid one
  (`README.md:720`); a negative interval is not found invalid, and `Ticker.Reset`
  panics (`app.go:528`): action `Panic` of `Daemon`, which run `daemon` takes.
- `--cleanup-on-shutdown` is documented to remove the owned routes when the daemon
  exits (`app.go:90`), ownership being the protocol (`README.md:24`); a table that
  a reload took out of the configuration is never looked at again (`app.go:527`).
  `ShutdownCleans` is therefore about the last configuration.
- Valid entries of a text list are documented to be processed whatever stands
  beside them (`README.md:166-167`); a line of 64 KiB ends the list, and nobody
  asks the scanner for its error (`txt.go:70`). `DamageIsBounded` says what is
  left of the promise.

## 7. Plan

Done: `Rtnl`, `Source`, `Health`, `Planner`, `Reconcile`, then `Aggregate` and
`Failover` for the loops behind two of their operators; then `Config` with
`Validation`, `Daemon` composed with `Reconcile`, `Fetch` and `Provider`,
`Metrics`; proofs beside each.

Proved since: what a run leaves behind (convergence, coverage, outages, cleanup,
causes of failure), the daemon's dry runs and shutdown, what acceptance is
worth, the coherence of a metrics page, the order of gateways through flaps; that
the loops of aggregation and of `Select` compute what the planner's operators
say, what a fetch delivers, whole or cut short.

Next, most important first:

1. An abstract specification of ownership, in which a run replaces what a group
   owns in one step, and `Reconcile` shown to implement it for one undisturbed
   process: `RouteCallsLeft` is most of the refinement mapping.
2. `ExitLeavesOneList`, restated so that it covers exclusions and default
   routes, which `DraftInv` should then give.

### Not modelled

- Log lines, the text of plans and of metrics, usage and exit codes: output that
  nothing reads back.
- HTTP, YAML and JSON themselves, and the parsing of flags, durations, addresses
  and CIDRs: they are libraries, modelled by whether and to what they parse.
- The dry run of `cleanup`, which changes nothing, and the stub for other
  operating systems, which only returns errors.
- Two groups with the same table, or with the same name and so one state file:
  nothing rejects them and nothing is promised of them. With a shared table each
  run of the one takes the routes of the other for obsolete; no property of
  convergence could hold.
