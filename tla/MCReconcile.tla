----------------------------- MODULE MCReconcile -----------------------------
(***************************************************************************)
(* Instances of Reconcile for TLC.  Addresses have two bits, so a family   *)
(* has seven prefixes.                                                     *)
(***************************************************************************)
EXTENDS Reconcile

BitsOf(k) == [j \in 1 .. Width |-> (k \div 2^(Width - j)) % 2]
V4(k) == [fam |-> 4, n |-> BitsOf(k)]
V6(k) == [fam |-> 6, n |-> BitsOf(k)]
P4(k, b) == [fam |-> 4, n |-> BitsOf(k), bits |-> b]
P6(k, b) == [fam |-> 6, n |-> BitsOf(k), bits |-> b]

MCDev == {"", "wan", "wg"}
MCNonPrivate == {V4(0), V4(1), V4(2), V6(0)}

Gw(dev, via4, via6) ==
    [dev |-> dev, via4 |-> via4, via6 |-> via6, via |-> NoAddr, onlink |-> FALSE,
     targets |-> {}]

OneHop(dev, via4) == [NoHop EXCEPT !.dev = dev, !.via4 = via4]

Failover(gws) == [NoHop EXCEPT !.gateways = gws]

NoRule == [enabled |-> FALSE, prio |-> 1500, mark |-> 0, mask |-> 0, from |-> NoPrefix]
FromRule(p) == [NoRule EXCEPT !.enabled = TRUE, !.from = p]
MarkRule(m) == [NoRule EXCEPT !.enabled = TRUE, !.mark = m, !.mask = 255]

Ru == [name |-> "ru", table |-> 100, family |-> "ipv4",
       hop |-> Failover(<<Gw("wan", V4(1), NoAddr), Gw("wg", V4(2), NoAddr)>>),
       default |-> NoHop, excludePrefixes |-> {}, excludeLocalIPs |-> FALSE,
       rule |-> FromRule(P4(2, 1))]

(* Reverse mode: local WAN for the fetched prefixes, a throw exclusion,    *)
(* the tunnel for the rest.                                                *)
RuReverse == [Ru EXCEPT !.hop = OneHop("wan", V4(1)), !.default = OneHop("wg", V4(2)),
                        !.excludePrefixes = {P4(3, 1)}, !.rule = MarkRule(7)]

Cfg(gs) == [proto |-> 99, base |-> 1000, step |-> 10, aggregate |-> TRUE, groups |-> gs]

Up   == {"wan", "wg"} \X {V4(0), V6(0)}
Wan  == [d \in MCDev |-> CASE d = "wan" -> 2 [] d = "wg" -> 3 [] OTHER -> 0]
Down == [ok |-> FALSE, prefixes |-> {}]
Lists(ps) == [ok |-> TRUE, prefixes |-> ps]

MCWorld(reach, links, src) ==
    [links |-> links, reach |-> reach, local |-> {},
     source |-> [n \in Names |-> src]]

W1 == MCWorld(Up, Wan, Lists({P4(0, 1)}))
(* The list has grown, and the primary gateway has stopped answering.      *)
W2 == MCWorld(Up \ {<<"wan", V4(0)>>}, Wan, Lists({P4(0, 2), P4(2, 2)}))
(* The source is down.                                                     *)
W3 == MCWorld(Up, Wan, Down)
(* The tunnel device is gone.                                              *)
W4 == MCWorld(Up, [Wan EXCEPT !["wg"] = 0], Lists({P4(0, 1)}))

(* Another list.                                                           *)
W5 == MCWorld(Up, Wan, Lists({P4(2, 1)}))
(* Another list, and the only device of the configuration is gone.         *)
W6 == MCWorld(Up, [Wan EXCEPT !["wan"] = 0], Lists({P4(2, 1)}))

MCNames   == {"ru"}
MCWorlds  == {W1, W2, W3, W4}
MCConfigs == {Cfg(<<Ru>>), Cfg(<<RuReverse>>)}

Static(table, dst) ==
    [table |-> table, proto |-> 4, type |-> "unicast", link |-> 2, via |-> NoAddr,
     onlink |-> FALSE, metric |-> 100, dst |-> dst]

(* One in the slot a route of ours needs, one elsewhere in its table.      *)
MCForeignRoutes == {Static(100, P4(0, 1)), Static(100, P4(1, 2))}
MCForeignRules  == <<[fam |-> 4, prio |-> 1400, table |-> 100, mark |-> 0, mask |-> 0,
                      from |-> P4(2, 1)]>>

-----------------------------------------------------------------------------
(* Two processes: one gateway, a list that changes with it.                *)

RaceConfigs == {Cfg(<<[Ru EXCEPT !.hop = Failover(<<Gw("wan", V4(1), NoAddr)>>)]>>)}
RaceWorlds  == {W1, W5}
LiveWorlds  == {W1, W3, W5, W6}
RaceForeign == {Static(100, P4(1, 2))}

-----------------------------------------------------------------------------
(* Two groups, both families, a source each.                               *)

Zone == [name |-> "zone", table |-> 200, family |-> "dual",
         hop |-> Failover(<<Gw("wan", V4(1), V6(1)), Gw("wg", V4(2), NoAddr)>>),
         default |-> NoHop, excludePrefixes |-> {P6(3, 2)}, excludeLocalIPs |-> TRUE,
         rule |-> [MarkRule(3) EXCEPT !.prio = 1200]]

(* No gateway, so no metric, and an exclusion that the list may have too.  *)
Tunnel == [Ru EXCEPT !.hop = OneHop("wg", NoAddr), !.excludePrefixes = {P4(0, 1)}]

GroupsNames   == {"ru", "zone"}
GroupsConfigs == {Cfg(<<Tunnel, Zone>>)}

GroupsWorld(ru, zone, here) ==
    [links |-> Wan, reach |-> Up, local |-> here,
     source |-> [n \in Names |-> IF n = "ru" THEN ru ELSE zone]]

G1 == GroupsWorld(Lists({P4(0, 1)}), Lists({P4(0, 2), P6(2, 1)}), {})
G2 == GroupsWorld(Down, Lists({P4(0, 2), P4(2, 1)}), {P4(2, 2)})
G3 == GroupsWorld(Lists({P4(0, 2)}), Down, {})
(* The device of one group is gone: no group is reconciled.                *)
G4 == [G1 EXCEPT !.links["wg"] = 0]

GroupsWorlds == {G1, G2, G3, G4}

-----------------------------------------------------------------------------
(* Where documentation and code part.                                      *)

(* The host's address is 1 of the network 0/1; the list has 1/2.           *)
LocalConfigs == {Cfg(<<[Ru EXCEPT !.excludeLocalIPs = TRUE]>>)}
LocalWorlds  == {[W1 EXCEPT !.local = {P4(1, 1)}, !.source["ru"] = Lists({P4(1, 2)})]}

-----------------------------------------------------------------------------
(* The configurations above are such that the runs can converge.           *)
ASSUME ConvergesAssumption ==
    OwnTables /\ RulesRecognized /\ RulesDistinct /\ OthersRules /\ OthersRoutes
=============================================================================
