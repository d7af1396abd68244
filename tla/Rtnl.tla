--------------------------------- MODULE Rtnl ---------------------------------
(***************************************************************************)
(* internal/rtnl: the routes and policy rules route-sync exchanges with    *)
(* the kernel, and what the netlink requests it sends do to the kernel.    *)
(*                                                                         *)
(* A fib is a set of routes.  The kernel holds at most one route for a     *)
(* table, destination and metric: adding to an occupied slot is EEXIST.    *)
(* A policy database is a sequence of rules in the order they were added;  *)
(* a delete request is a pattern that removes the first rule it matches.   *)
(* The kernel's and the netlink library's part of each operation is        *)
(* external to the repository.                                             *)
(***************************************************************************)
EXTENDS Netip, Sequences, SequencesExt

RouteTypes == {"unicast", "throw"}

(* rtnl.Route without Group and Dev, which no comparison looks at.         *)
Route == [table : Nat, proto : Nat, type : RouteTypes, link : Nat,
          via : Addr \cup {NoAddr}, onlink : BOOLEAN, metric : Nat,
          dst : Prefix]

(* rtnl.Rule without Group.                                                *)
Rule == [prio : Nat, table : Nat, hasMark : BOOLEAN, mark : Nat, mask : Nat,
         from : RawPrefix \cup {NoPrefix}]

(* A rule as the kernel keeps it: it belongs to one address family.        *)
KernelRule == [fam : Fams, prio : Nat, table : Nat, mark : Nat, mask : Nat,
               from : Prefix \cup {NoPrefix}]

-----------------------------------------------------------------------------
(* Routes *)

(* The request AddRoute and DeleteRoute build: a throw route carries       *)
(* neither device nor gateway nor flags.                                   *)
RouteRequest(r) ==
    IF r.type = "throw"
    THEN [r EXCEPT !.link = 0, !.via = NoAddr, !.onlink = FALSE]
    ELSE r

LoopbackIndex     == 1
IPv6DefaultMetric == 1024

(* What the kernel stores for a request: IPv6 has no metric 0 and hangs a  *)
(* throw route on the loopback device.                                     *)
Stored(n) ==
    IF n.dst.fam = 4 THEN n
    ELSE [n EXCEPT
            !.metric = IF n.metric = 0 THEN IPv6DefaultMetric ELSE n.metric,
            !.link   = IF n.type = "throw" THEN LoopbackIndex ELSE n.link]

Installed(r) == Stored(RouteRequest(r))

SameSlot(q, r) == q.table = r.table /\ q.dst = r.dst /\ q.metric = r.metric

(* The kernel's answer to NetlinkKernel.AddRoute.  live is the set of the  *)
(* indexes of the devices there are.                                       *)
AddRouteError(fib, live, r) ==
    CASE r.type # "throw" /\ r.link \notin live -> "ENODEV"
      [] \E q \in fib : SameSlot(q, Installed(r)) -> "EEXIST"
      [] OTHER -> "nil"

AddRoute(fib, r) ==
    IF \E q \in fib : SameSlot(q, Installed(r)) THEN fib
    ELSE fib \cup {Installed(r)}

(* A delete request matches on what it gives; zero means "any".            *)
RouteMatches(n, q) ==
    /\ q.table = n.table
    /\ q.dst = n.dst
    /\ q.proto = n.proto
    /\ n.type = "throw" => q.type = "throw"
    /\ n.metric # 0 => q.metric = n.metric
    /\ n.link # 0 => q.link = n.link
    /\ n.via # NoAddr => q.via = n.via

Doomed(fib, r) == {q \in fib : RouteMatches(RouteRequest(r), q)}

DeleteRouteError(fib, r) == IF Doomed(fib, r) = {} THEN "ESRCH" ELSE "nil"

(* NetlinkKernel.DeleteRoute: the kernel walks the routes of a destination *)
(* by increasing metric and removes the first match.                       *)
DeleteRoute(fib, r) ==
    LET matching == Doomed(fib, r)
    IN  fib \ {q \in matching : \A o \in matching : q.metric <= o.metric}

ListRoutesOfTable(fib, table, fam, proto) ==   \* mutant: any protocol
    {q \in fib : q.table = table /\ q.dst.fam = fam}

(* NetlinkKernel.ListRoutes *)
ListRoutes(fib, table, fam, proto) ==
    {q \in fib : q.table = table /\ q.dst.fam = fam /\ q.proto = proto}

-----------------------------------------------------------------------------
(* Policy rules *)

(* The request AddRule and DeleteRule build.  No family is set on it: the  *)
(* library takes the one of the source prefix, else IPv4.  The source is   *)
(* masked on the way, and a source of length 0 is no matcher.              *)
RuleRequest(r) ==
    [fam   |-> IF r.from = NoPrefix THEN 4 ELSE r.from.fam,
     prio  |-> r.prio,
     table |-> r.table,
     mark  |-> IF r.hasMark THEN r.mark ELSE 0,
     mask  |-> IF r.hasMark THEN r.mask ELSE 0,
     from  |-> IF r.from.bits = 0 THEN NoPrefix ELSE Masked(r.from)]

(* NetlinkKernel.AddRule *)
AddRuleError(rules, r) == IF RuleRequest(r) \in ToSet(rules) THEN "EEXIST" ELSE "nil"

AddRule(rules, r) ==
    IF RuleRequest(r) \in ToSet(rules) THEN rules
    ELSE Append(rules, RuleRequest(r))

RuleMatches(n, q) ==
    /\ q.fam = n.fam
    /\ q.prio = n.prio
    /\ q.table = n.table
    /\ n.mark # 0 => q.mark = n.mark
    /\ n.mask # 0 => q.mask = n.mask
    /\ n.from # NoPrefix => q.from = n.from

(* NetlinkKernel.DeleteRule *)
DeleteRuleError(rules, r) ==
    IF \E q \in ToSet(rules) : RuleMatches(RuleRequest(r), q) THEN "nil" ELSE "ENOENT"

DeleteRule(rules, r) ==
    LET Matches(q) == RuleMatches(RuleRequest(r), q)
    IN  RemoveFirstMatch(rules, Matches)

(* NetlinkKernel.ListRules: the kernel reports a mask with every mark.     *)
Reported(q) ==
    [prio |-> q.prio, table |-> q.table,
     hasMark |-> q.mark # 0 \/ q.mask # 0, mark |-> q.mark, mask |-> q.mask,
     from |-> q.from]

-----------------------------------------------------------------------------
(* Errors *)

ignoreExists(err) == IF err = "EEXIST" THEN "nil" ELSE err

ignoreNoEntry(err) == IF err = "ENOENT" THEN "nil" ELSE err   \* mutant: not ESRCH

ignoreNotFound(err) == IF err \in {"ESRCH", "ENOENT"} THEN "nil" ELSE err
=============================================================================
