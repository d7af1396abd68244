----------------------------- MODULE MCValidation -----------------------------
(***************************************************************************)
(* An instance of Validation for TLC: a file close to the packaged one and *)
(* the edits of single settings, sensible ones and slips.                  *)
(***************************************************************************)
EXTENDS Validation

V4 == [fam |-> 4, n |-> Ones]
V6 == [fam |-> 6, n |-> Ones]
P4 == [fam |-> 4, n |-> Zeros, bits |-> 1]
P6 == [fam |-> 6, n |-> Zeros, bits |-> 1]

MCDev == {"", "wan", "wg"}
MCNames == {"ru_default", "zone"}

Gw(dev, via4, via6) ==
    [name |-> "", dev |-> dev, via |-> NoAddr, via4 |-> via4, via6 |-> via6,
     onlink |-> FALSE, targets |-> {}, timeout |-> 0]

FileHop(dev, gateways) ==
    [dev |-> dev, via |-> NoAddr, via4 |-> NoAddr, via6 |-> NoAddr, onlink |-> FALSE,
     targets |-> {}, timeout |-> 0, gateways |-> gateways]

FileRule(prio, table) ==
    [enabled |-> TRUE, prio |-> prio, mark |-> 7, mask |-> 255, table |-> table,
     from |-> NoPrefix]

FileGroup(name, table, prio) ==
    [name |-> name, enabled |-> TRUE,
     source |-> [type |-> "", country |-> "", url |-> "other"],
     table |-> table, hop |-> FileHop("wan", <<Gw("", V4, V6)>>), family |-> "dual",
     hasDefault |-> FALSE, default |-> FileHop("", <<>>), excludePrefixes |-> {},
     excludeLocalIPs |-> FALSE, rule |-> FileRule(prio, table)]

File ==
    [readable |-> TRUE, refresh |-> 0, health |-> 0, format |-> "", proto |-> 0, base |-> 0,
     step |-> 0, aggregate |-> TRUE, cleanup |-> FALSE, builtin |-> "",
     ru |-> FileGroup("", 100, 2000),
     zones |-> <<[FileGroup("zone", 200, 1500) EXCEPT !.source.type = "txt"]>>]

(* The settings of a next hop.                                             *)
HopVariants(h) ==
    {[h EXCEPT !.dev = d] : d \in MCDev}
      \cup {[h EXCEPT !.via = a] : a \in {V4, BadAddr}}
      \cup {[h EXCEPT !.via6 = a] : a \in {V6, V4}}
      \cup {[h EXCEPT !.targets = {a}] : a \in {V4, BadAddr}}
      \cup {[h EXCEPT !.timeout = -1],
            [h EXCEPT !.gateways = <<>>],
            [h EXCEPT !.gateways = <<Gw("wg", NoAddr, NoAddr)>>],
            [h EXCEPT !.gateways = <<Gw("", V4, NoAddr), Gw("wg", NoAddr, V6)>>],
            [h EXCEPT !.gateways = <<[Gw("wg", NoAddr, NoAddr) EXCEPT !.via = V6]>>],
            [h EXCEPT !.gateways = <<[Gw("", V6, NoAddr) EXCEPT !.name = " "]>>]}

RuleVariants(r) ==
    {[r EXCEPT !.enabled = ~@], [r EXCEPT !.table = 0], [r EXCEPT !.mask = 0],
     [r EXCEPT !.mark = 0]}
      \cup {[r EXCEPT !.prio = n] : n \in {0, 999, 1000, 1999, 10999, 11000}}
      \cup {[r EXCEPT !.from = p] :
               p \in {P4, P6, BadPrefix, [P4 EXCEPT !.n = Ones], [P4 EXCEPT !.bits = 0]}}

GroupVariants(g) ==
    {[g EXCEPT !.hop = h] : h \in HopVariants(g.hop)}
      \cup {[g EXCEPT !.hasDefault = TRUE, !.default = h] : h \in HopVariants(g.default)}
      \cup {[g EXCEPT !.rule = r] : r \in RuleVariants(g.rule)}
      \cup {[g EXCEPT !.family = f] : f \in {"", "ipv4", "ipv6", "other"}}
      \cup {[g EXCEPT !.excludePrefixes = {p}] : p \in {P4, [P4 EXCEPT !.bits = 0], P6, BadPrefix}}
      \cup {[g EXCEPT !.enabled = FALSE], [g EXCEPT !.name = ""], [g EXCEPT !.table = 0],
            [g EXCEPT !.source.type = "txt"], [g EXCEPT !.source.url = ""]}

MCVariants(f) ==
    {[f EXCEPT !.ru = g] : g \in GroupVariants(f.ru)}
      \cup {[f EXCEPT !.zones = <<g>>] : g \in GroupVariants(f.zones[1])}
      \cup {[f EXCEPT !.readable = FALSE], [f EXCEPT !.format = "other"], [f EXCEPT !.proto = 256],
            [f EXCEPT !.base = -1], [f EXCEPT !.step = 1], [f EXCEPT !.builtin = "false"]}

(* Nothing, one prefix, or all of one length.                              *)
MCFetched ==
    {{}} \cup {{p} : p \in Prefix} \cup {{p \in Prefix : p.bits = b} : b \in 0 .. Width}

MCFlags ==
    {[disableRU |-> d, format |-> "", interval |-> 0, cleanup |-> FALSE, dryRun |-> FALSE] :
        d \in BOOLEAN}

MCHost ==
    [links |-> [d \in MCDev |-> CASE d = "wan" -> 2 [] d = "wg" -> 3 [] OTHER -> 0], reach |-> {}, local |-> {},
     source |-> [n \in MCNames |-> [ok |-> TRUE, prefixes |-> {}]]]

(* Reverse mode: a default of its own, exclusions, a rule by source.       *)
ReverseFile ==
    [File EXCEPT !.ru.family = "ipv4",
                 !.ru.hop = FileHop("", <<Gw("wan", V4, NoAddr)>>),
                 !.ru.hasDefault = TRUE,
                 !.ru.default = FileHop("wg", <<Gw("", V4, NoAddr), Gw("", NoAddr, V6)>>),
                 !.ru.excludePrefixes = {P4},
                 !.ru.rule = [FileRule(1600, 100) EXCEPT !.mark = 0, !.mask = 0, !.from = P4]]

BothFiles == {File, ReverseFile}
=============================================================================
