-------------------------------- MODULE Daemon --------------------------------
(***************************************************************************)
(* The daemon command: app.Run up to runDaemon, its select loop, and       *)
(* internal/signals, around the runs that module Reconcile models.         *)
(*                                                                         *)
(* The loop waits for two tickers, a reload channel with one slot and the  *)
(* cancellation of a context.  The runs it starts use that context: once   *)
(* SIGTERM has cancelled it, pings and HTTP requests fail at once, while   *)
(* files are still read and netlink calls still made.  So what the host    *)
(* answers, Reconcile's "world", is the host cut off after a SIGTERM.  One *)
(* fetch is no failure then: that of a text list whose body is being read, *)
(* since txt.Parse takes the end of what has come for the end of the list. *)
(*                                                                         *)
(* The operator edits the file, sends signals, and starts the daemon again *)
(* after it has ended.                                                     *)
(***************************************************************************)
EXTENDS Config

CONSTANTS
    Files,          \* the contents the configuration file may have
    Flags,          \* the command lines the daemon is started with
    Hosts,          \* what the host may answer
    Tickers,        \* the refresh ticker and the health ticker, or one of them
    LocalSources,   \* the names of groups whose list is a local file
    TextSources,    \* those whose list is a text fetched over HTTP
    BrokenLines,    \* what a line of such a text may read as, cut short
    ForeignRoutes,  \* routes other programs add and remove
    ForeignRules,   \* the rules of other programs
    MaxFaults,      \* as in Reconcile; a SIGTERM and the start after it count
    MaxActs         \* edits, and kills of a daemon that waits, in all

VARIABLES
    fib, rules, store, pc, kind, cfg, at, draft, plan, calls, result, faults,
    want, calm,   \* as in Reconcile
    host,         \* what the host answers
    file,         \* the configuration file
    opts,         \* the command line
    active,       \* the configuration in use
    loop,         \* where runDaemon is
    reload,       \* the reload channel holds a signal
    due,          \* the tickers whose channel holds a tick
    cancelled,    \* SIGINT or SIGTERM has been received
    torn,         \* the fetch whose body it has cut short, if any
    acts,         \* edits and kills so far
    asked         \* history: since its last edit the file has been read by a
                  \* start of the daemon, or a SIGHUP has asked for it

Self == "daemon"

(* Requests with a cancelled context fail; the devices are as they were.   *)
CutOff(h) ==
    [h EXCEPT !.reach = {},
              !.source = [n \in Names |-> IF n \in LocalSources THEN @[n]
                                          ELSE [ok |-> FALSE, prefixes |-> {}]]]

(* The part of group n's list that txt.Parse returns when the connection   *)
(* ends in the middle of it: some of its entries, and possibly what is     *)
(* left of the line after them.                                            *)
Parts(h, n) ==
    IF n \in TextSources /\ h.source[n].ok
    THEN {e \cup x : e \in SUBSET h.source[n].prefixes, x \in {{}} \cup {{b} : b \in BrokenLines}}
            \ {h.source[n].prefixes}
    ELSE {}

CutShort(h, n, part) == [CutOff(h) EXCEPT !.source[n] = [ok |-> TRUE, prefixes |-> part]]

Intact == [at |-> 0, name |-> RUName, part |-> {}]   \* no body is cut short

Answers ==
    IF ~cancelled THEN host
    ELSE IF torn = Intact THEN CutOff(host)
    ELSE CutShort(host, torn.name, torn.part)

(* All that a run may be answered.                                         *)
Heard ==
    Hosts \cup {CutOff(h) : h \in Hosts}
          \cup UNION {{CutShort(h, n, l) : l \in UNION {Parts(k, n) : k \in Hosts}} :
                           h \in Hosts, n \in Names}

LoadedConfigs ==
    {Effective(LoadConfig(x[1], x[2])) : x \in {y \in Flags \X Files : Loads(y[1], y[2])}}

R == INSTANCE Reconcile WITH
        Procs   <- {Self},
        Daemons <- {Self},
        Configs <- LoadedConfigs,
        Worlds  <- Heard,
        Kinds   <- {"apply", "check", "cleanup"},
        world   <- Answers

(* SIGTERM is seen by what a run gets to hear: some request of it is       *)
(* answered on every host.                                                 *)
ASSUME HostsAssumption == Hosts \subseteq World /\ \A h \in Hosts : CutOff(h) \notin Hosts

ASSUME SourcesAssumption ==
    TextSources \subseteq Names \ LocalSources /\ BrokenLines \subseteq RawPrefix

(* Some file is accepted.                                                  *)
ASSUME FilesAssumption ==
    /\ Files \subseteq ConfigFile /\ Flags \subseteq Options
    /\ \E o \in Flags, f \in Files : Loads(o, f)

ASSUME NamesAssumption == RUName \in Names

ASSUME ForeignAssumption ==
    /\ ForeignRoutes \subseteq Route /\ \A q \in ForeignRoutes : Installed(q) = q
    /\ ForeignRules \in Seq(KernelRule)

ASSUME MaxFaultsAssumption == MaxFaults \in Nat

runVars  == <<fib, rules, store, pc, kind, cfg, at, draft, plan, calls, result,
              faults, want, calm>>
loopVars == <<active, loop, reload, due>>
hostVars == <<host, cancelled, torn>>
opVars   == <<file, opts, acts, asked>>
vars     == <<runVars, loopVars, hostVars, opVars>>

Ended == {"off", "exited", "panicked"}   \* killed, returned, panicked

Init ==
    /\ host \in Hosts
    /\ file \in Files
    /\ opts \in Flags
    /\ active = ApplyDefaults(file)
    /\ loop = "off"
    /\ reload = FALSE
    /\ due = {}
    /\ cancelled = FALSE
    /\ torn = Intact
    /\ acts = 0
    /\ asked = FALSE
    /\ R!Init

-----------------------------------------------------------------------------
(* Starting *)

(* Run: parse the flags, load the file.  An invalid one ends it there.     *)
Boot ==
    /\ loop \in Ended
    /\ opts' \in Flags
    /\ Loads(opts', file)
    /\ active' = LoadConfig(opts', file)
    /\ loop' = "booting"
    /\ reload' = FALSE
    /\ due' = {}
    /\ cancelled' = FALSE
    /\ torn' = Intact
    /\ asked' = TRUE
    /\ UNCHANGED <<host, file, acts>>
    /\ IF Answers' = Answers THEN UNCHANGED runVars ELSE R!WorldChange

(* time.NewTicker and Ticker.Reset panic unless the interval is positive.  *)
CanTick(c) == c.refresh > 0 /\ c.health > 0

RunKindAlwaysApply == "apply"   \* mutant: --dry-run is forgotten

RunKind == IF opts.dryRun THEN "check" ELSE "apply"

(* run(reason) *)
BeginRun(c) ==
    /\ loop' = "run"
    /\ R!Start(Self, RunKind, Effective(c))

Panic == loop' = "panicked" /\ UNCHANGED runVars

(* signals.Notify, the tickers, run("startup").                            *)
Listen ==
    /\ loop = "booting"
    /\ UNCHANGED <<hostVars, opVars, active, reload, due>>
    /\ IF CanTick(active) THEN BeginRun(active) ELSE Panic

-----------------------------------------------------------------------------
(* The loop *)

(* A tick that finds its channel full is dropped.                          *)
Tick(t) ==
    /\ loop \notin Ended \cup {"booting"}
    /\ due' = due \cup {t}
    /\ UNCHANGED <<hostVars, opVars, active, loop, reload, runVars>>

TakeTick(t) ==
    /\ loop = "ready" /\ torn = Intact
    /\ t \in due
    /\ due' = due \ {t}
    /\ UNCHANGED <<hostVars, opVars, active, reload>>
    /\ BeginRun(active)

TakeReload ==
    /\ loop = "ready" /\ torn = Intact
    /\ reload
    /\ reload' = FALSE
    /\ loop' = "reload"
    /\ UNCHANGED <<hostVars, opVars, active, due, runVars>>

ReadFileKeepsOld ==   \* mutant: the run uses the new file, the loop keeps the old one
    /\ loop = "reload"
    /\ UNCHANGED <<hostVars, opVars, active, reload, due>>
    /\ IF Loads(opts, file) THEN BeginRun(LoadConfig(opts, file))
       ELSE loop' = "ready" /\ UNCHANGED runVars

ReadFileDuringRun ==   \* mutant: reloads are handled beside the run in progress
    /\ loop = "run"
    /\ reload /\ reload' = FALSE
    /\ Loads(opts, file)
    /\ active' = LoadConfig(opts, file)
    /\ cfg' = [cfg EXCEPT ![Self] = Effective(active')]
    /\ UNCHANGED <<hostVars, opVars, loop, due, fib, rules, store, pc, kind, at, draft, plan,
                   calls, result, faults, want, calm>>

(* loadConfig and what follows it.  A file that is not accepted leaves     *)
(* everything as it is, without a run.                                     *)
ReadFile ==
    /\ loop = "reload"
    /\ UNCHANGED <<hostVars, opVars, reload, due>>
    /\ \/ /\ ~Loads(opts, file)
          /\ loop' = "ready"
          /\ UNCHANGED <<active, runVars>>
       \/ /\ Loads(opts, file)
          /\ active' = LoadConfig(opts, file)
          /\ IF CanTick(active') THEN BeginRun(active') ELSE Panic

TakeDoneLast ==   \* mutant: shutdown only when nothing else is waiting
    /\ loop = "ready"
    /\ cancelled /\ ~reload /\ due = {}
    /\ UNCHANGED <<hostVars, opVars, active, reload, due>>
    /\ IF active.cleanup /\ ~opts.dryRun
       THEN loop' = "closing" /\ R!Start(Self, "cleanup", Effective(active))
       ELSE loop' = "exited" /\ UNCHANGED runVars

TakeDoneNoCleanup ==   \* mutant: only the flag of the command line counts
    /\ loop = "ready"
    /\ cancelled
    /\ UNCHANGED <<hostVars, opVars, active, reload, due>>
    /\ IF opts.cleanup /\ ~opts.dryRun
       THEN loop' = "closing" /\ R!Start(Self, "cleanup", Effective(active))
       ELSE loop' = "exited" /\ UNCHANGED runVars

(* The context is done: clean up if asked to, and return.  A dry run of    *)
(* cleanupOwned lists and prints.                                          *)
TakeDone ==
    /\ loop = "ready"
    /\ cancelled
    /\ UNCHANGED <<hostVars, opVars, active, reload, due>>
    /\ IF active.cleanup /\ ~opts.dryRun
       THEN loop' = "closing" /\ R!Start(Self, "cleanup", Effective(active))
       ELSE loop' = "exited" /\ UNCHANGED runVars

(* reconcileOnce or cleanupOwned goes on; when it returns, whatever it     *)
(* returns, so does the loop.                                              *)
RunStep ==
    /\ loop \in {"run", "closing"}
    /\ pc[Self] = "fetch" => torn = Intact \/ torn.at = at[Self]
    /\ UNCHANGED <<hostVars, opVars, active, reload, due>>
    /\ R!Step(Self) \/ R!NetlinkFails(Self)
    /\ loop' = IF pc'[Self] # "idle" THEN loop
               ELSE IF loop = "run" THEN "ready" ELSE "exited"

-----------------------------------------------------------------------------
(* Signals, the operator, the host *)

SighupUnbuffered ==   \* mutant: a channel without a slot, as Notify never waits
    /\ loop \notin Ended \cup {"booting"}
    /\ reload' = (reload \/ loop = "ready")
    /\ asked' = TRUE
    /\ UNCHANGED <<hostVars, file, opts, acts, active, loop, due, runVars>>

(* signal.Notify(reload, SIGHUP): a signal that finds the slot taken is    *)
(* dropped.                                                                *)
Sighup ==
    /\ loop \notin Ended \cup {"booting"}
    /\ reload' = TRUE
    /\ asked' = TRUE
    /\ UNCHANGED <<hostVars, file, opts, acts, active, loop, due, runVars>>

(* signal.NotifyContext(parent, SIGINT, SIGTERM); one signal is enough.    *)
Sigterm ==
    /\ loop \notin Ended \cup {"booting"}
    /\ ~cancelled
    /\ cancelled' = TRUE
    /\ UNCHANGED <<host, torn, opVars, loopVars>>
    /\ R!WorldChange

(* The signal comes while the run reads the body of a text list: the fetch *)
(* it is at returns the part that has come, without an error.              *)
SigtermInBody ==
    /\ loop = "run" /\ pc[Self] = "fetch"
    /\ ~cancelled
    /\ cancelled' = TRUE
    /\ LET n == R!Current(Self).name
       IN  \E l \in Parts(host, n) : torn' = [at |-> at[Self], name |-> n, part |-> l]
    /\ UNCHANGED <<host, opVars, loopVars>>
    /\ R!WorldChange

(* That body is closed: the next request for it fails like every other.    *)
BodyClosed ==
    /\ torn # Intact
    /\ loop = "ready" \/ (loop = "run" /\ ~(pc[Self] = "fetch" /\ at[Self] = torn.at))
    /\ torn' = Intact
    /\ UNCHANGED <<host, cancelled, opVars, loopVars>>
    /\ R!WorldChange

(* Before Notify every one of these signals ends the process.              *)
SignalTooEarly ==
    /\ loop = "booting"
    /\ acts < MaxActs
    /\ acts' = acts + 1
    /\ loop' = "off"
    /\ UNCHANGED <<hostVars, file, opts, asked, active, reload, due, runVars>>

Edit ==
    /\ acts < MaxActs
    /\ acts' = acts + 1
    /\ file' \in Files \ {file}
    /\ asked' = FALSE
    /\ UNCHANGED <<hostVars, opts, loopVars, runVars>>

(* A kill while the loop waits, and in the middle of a run.                *)
Kill ==
    /\ loop \in {"ready", "reload"}
    /\ acts < MaxActs
    /\ acts' = acts + 1
    /\ loop' = "off"
    /\ UNCHANGED <<hostVars, file, opts, asked, active, reload, due, runVars>>

KillRun ==
    /\ loop \in {"run", "closing"}
    /\ loop' = "off"
    /\ UNCHANGED <<hostVars, opVars, active, reload, due>>
    /\ R!Crash(Self)

HostChange ==
    /\ host' \in Hosts
    /\ UNCHANGED <<cancelled, torn, opVars, loopVars>>
    /\ R!WorldChange

ForeignChange ==
    /\ UNCHANGED <<hostVars, opVars, loopVars>>
    /\ R!ForeignChange

-----------------------------------------------------------------------------
(* What the process does when it does not wait.                            *)
Proceed == Listen \/ ReadFile \/ RunStep \/ BodyClosed

Next ==
    \/ Boot \/ Proceed \/ TakeReload \/ TakeDone
    \/ \E t \in Tickers : Tick(t) \/ TakeTick(t)
    \/ Sighup \/ Sigterm \/ SigtermInBody \/ SignalTooEarly \/ Edit \/ Kill \/ KillRun
    \/ HostChange \/ ForeignChange

Spec == Init /\ [][Next]_vars

(* The process goes on and the tickers tick.  select chooses among the     *)
(* cases that are ready at random, so one that is ready time and again is  *)
(* chosen in the end: strong fairness.  Nobody has to start the daemon     *)
(* again, to send a signal or to edit the file.                            *)
Fairness ==
    /\ WF_vars(Proceed)
    /\ SF_vars(TakeReload) /\ SF_vars(TakeDone)
    /\ \A t \in Tickers : WF_vars(Tick(t)) /\ SF_vars(TakeTick(t))

FairSpec == Spec /\ Fairness

-----------------------------------------------------------------------------
(* Properties *)

(* The loop only ever makes the steps of module Reconcile: a run starts    *)
(* when the last one is over, keeps its configuration to its end, and a    *)
(* signal changes nothing in it but what the host answers.                 *)
ImplementsReconcile == R!Spec

(* No SIGHUP is lost, however many arrive during a run and however the     *)
(* file changes meanwhile: if one has come after the last edit and none is *)
(* waiting, the file, if it is accepted, is what the daemon works with.    *)
ReloadNotLost ==
    asked /\ ~reload /\ loop \in {"ready", "run", "closing"} /\ Loads(opts, file) =>
        active = LoadConfig(opts, file)

(* A daemon that has returned after a cleanup that succeeded leaves        *)
(* nothing that its last configuration owns: no run comes after it, also   *)
(* when the setting has only come with a reload.                           *)
ShutdownCleans ==
    loop = "exited" /\ active.cleanup /\ ~opts.dryRun /\ result[Self] = "ok" =>
        \A g \in R!GroupsOf(Effective(active)) :
            /\ OwnedRoutes(fib, Effective(active), g) = {}
            /\ g.rule.enabled => OwnedRules(rules, Effective(active), g) = {}

(* A SIGTERM in the middle of a run turns every fetch and every ping after *)
(* it into a failure, and may cut short the text list that is just being   *)
(* read; the run goes on to its end.  If it then reports success, and the  *)
(* daemon returns without a cleanup, a group is left with one list that a  *)
(* fetch has returned, just now or before: a whole one, or a part if its   *)
(* source is a text fetched over HTTP, but never with two of them mixed.   *)
ExitLeavesOneList ==
    loop = "exited" /\ ~active.cleanup /\ ~opts.dryRun /\ result[Self] = "ok" =>
        \A g \in R!GroupsOf(Effective(active)) :
            LET destinations == {q.dst : q \in OwnedRoutes(fib, Effective(active), g)}
                Whole == {h.source[g.name].prefixes : h \in Hosts}
                Part  == UNION {Parts(h, g.name) : h \in Hosts}
            IN  destinations # {} =>
                    \E l \in Whole \cup Part :
                        destinations = FilterFamily(Normalize(l, active.aggregate), g.family)

(* Also where the delete request for the rule of one file matches that of  *)
(* another, a run loses the rule it wants only in place of an obsolete one *)
(* that an interrupted run has left.                                       *)
WantedRulesStay == R!WantedRulesStay

(* With --dry-run neither the runs nor the shutdown change the kernel,     *)
(* whatever an earlier daemon has left there.                              *)
DryRunTouchesNothing ==
    [][opts.dryRun /\ opts' = opts /\ RunStep => UNCHANGED <<fib, rules>>]_vars

(* SIGTERM ends the daemon, however often the tickers and SIGHUP compete   *)
(* with it for the loop's attention.                                       *)
ShutdownEnds == cancelled ~> (loop \in Ended \/ ~cancelled)

InForce ==
    LET c == Effective(LoadConfig(opts, file))
    IN  /\ active = LoadConfig(opts, file)
        /\ R!Viable(c) => \A g \in R!GroupsOf(c) : R!Converged(c, g)

(* Edit the file, send SIGHUP, wait: if the file is accepted, and nobody   *)
(* ends the daemon, the kernel comes to be what the file asks for.         *)
FileTakesEffect ==
    <>[](asked /\ Loads(opts, file) /\ ~opts.dryRun /\ ~cancelled /\ loop \in {"ready", "run"}
            => InForce)
=============================================================================
