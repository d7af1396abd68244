------------------------------- MODULE MCDaemon -------------------------------
(***************************************************************************)
(* Instances of Daemon for TLC: one group with a gateway, a list of one    *)
(* prefix and one of two, the second while the gateway does not answer.    *)
(***************************************************************************)
EXTENDS Daemon

V4(b) == [fam |-> 4, n |-> [k \in 1 .. Width |-> b]]
P4(a, b) == [fam |-> 4, n |-> <<a, b>>, bits |-> 2]

MCDev   == {"", "wan", "wg"}
MCNames == {"ru_default"}

Gw(dev, via) ==
    [name |-> "", dev |-> dev, via |-> NoAddr, via4 |-> via, via6 |-> NoAddr,
     onlink |-> FALSE, targets |-> {}, timeout |-> 0]

FileHop(gateways) ==
    [dev |-> "", via |-> NoAddr, via4 |-> NoAddr, via6 |-> NoAddr, onlink |-> FALSE,
     targets |-> {}, timeout |-> 0, gateways |-> gateways]

Ru(table) ==
    [name |-> "", enabled |-> TRUE,
     source |-> [type |-> "txt", country |-> "", url |-> "other"],
     table |-> table, hop |-> FileHop(<<Gw("wan", V4(0))>>),
     family |-> "ipv4", hasDefault |-> FALSE, default |-> FileHop(<<>>),
     excludePrefixes |-> {}, excludeLocalIPs |-> FALSE,
     rule |-> [enabled |-> TRUE, prio |-> 1500, mark |-> 7, mask |-> 255, table |-> table,
               from |-> P4(1, 0)]]

File ==
    [readable |-> TRUE, refresh |-> 0, health |-> 0, format |-> "", proto |-> 0, base |-> 0,
     step |-> 0, aggregate |-> FALSE, cleanup |-> FALSE, builtin |-> "",
     ru |-> Ru(100), zones |-> <<>>]

(* A rule whose delete request matches the first one too, and cleanup on   *)
(* shutdown; a slip; a negative interval.                                  *)
Changed == [File EXCEPT !.ru.rule.from = NoPrefix, !.cleanup = TRUE]
Slip    == [Changed EXCEPT !.ru.family = "other"]
NegativeInterval == [File EXCEPT !.refresh = -1]

NoFlags == [disableRU |-> FALSE, format |-> "", interval |-> 0, cleanup |-> FALSE,
            dryRun |-> FALSE]
DryRun  == [NoFlags EXCEPT !.dryRun = TRUE, !.cleanup = TRUE]

MCHost(reach, list) ==
    [links |-> [d \in MCDev |-> CASE d = "wan" -> 2 [] d = "wg" -> 3 [] OTHER -> 0],
     reach |-> reach \X {V4(0)}, local |-> {},
     source |-> [n \in MCNames |-> [ok |-> TRUE, prefixes |-> list]]]

H1 == MCHost({"wan"}, {P4(0, 0)})
H2 == MCHost({}, {P4(0, 1), P4(1, 0)})

Static == [table |-> 100, proto |-> 4, type |-> "unicast", link |-> 2, via |-> NoAddr,
           onlink |-> FALSE, metric |-> 50, dst |-> P4(0, 0)]

MCFiles     == {File, Changed, Slip}
PanicFiles  == {File, Changed, NegativeInterval}
BothFlags   == {NoFlags, DryRun}
BothHosts   == {H1, H2}
FirstHost   == {H1}
CutLine     == {[P4(1, 0) EXCEPT !.bits = 1]}
FirstFlags  == {NoFlags}
MCForeign   == {Static}
NoForeignRules == <<>>

(* What the theorems about the daemon's runs take of its files holds here, *)
(* but for the rules being told apart (RulesDistinct).                     *)
ASSUME ConvergesAssumption ==
    R!OwnTables /\ R!RulesRecognized /\ R!OthersRules /\ R!OthersRoutes /\ ~R!RulesDistinct
=============================================================================
