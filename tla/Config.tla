-------------------------------- MODULE Config --------------------------------
(***************************************************************************)
(* internal/config and loadConfig of internal/app: from the text of the    *)
(* configuration file and the command line to the configuration the plans  *)
(* are built with.                                                         *)
(*                                                                         *)
(* A file is a record of what YAML decoding delivers.  Of its text fields  *)
(* it matters whether they are empty, whether they parse and to what; the  *)
(* state directory, the listen address and the HTTP timeout, which nothing *)
(* checks, are left out.  Validate collects every complaint; here it says  *)
(* whether there is one.                                                   *)
(***************************************************************************)
EXTENDS Planner

(* Text that is neither empty nor an address, or a CIDR prefix.            *)
BadAddr   == [fam |-> -1, n |-> Zeros]
BadPrefix == [fam |-> -1, n |-> Zeros, bits |-> 0]

RUName == "ru_default"

(* What decoding may deliver: config.GatewayConfig, NextHopConfig (and the *)
(* same fields of TargetConfig), RouteGroup with what it contains, Config. *)
(* A negative priority, refused of an enabled rule and nowhere in the      *)
(* kernel, is left out.                                                    *)
Text(known) == known \cup {"", "other"}   \* the texts the code tells apart

AddrText   == Addr \cup {NoAddr, BadAddr}
PrefixText == RawPrefix \cup {BadPrefix}

GatewayFile ==
    [name : Text({" "}), dev : Dev, via : AddrText, via4 : AddrText, via6 : AddrText,
     onlink : BOOLEAN, targets : SUBSET (Addr \cup {BadAddr}), timeout : Int]

HopFile ==
    [dev : Dev, via : AddrText, via4 : AddrText, via6 : AddrText, onlink : BOOLEAN,
     targets : SUBSET (Addr \cup {BadAddr}), timeout : Int, gateways : Seq(GatewayFile)]

SourceFile == [type : Text({"ripe_country", "txt"}), country : Text({"RU"}), url : Text({})]

RuleFile ==
    [enabled : BOOLEAN, prio : Nat, mark : Nat, mask : Nat, table : Int,
     from : PrefixText \cup {NoPrefix}]

GroupFile ==
    [name : Names \cup {""}, enabled : BOOLEAN, source : SourceFile, table : Int,
     hop : HopFile, family : Text({"dual", "ipv4", "ipv6"}), hasDefault : BOOLEAN, default : HopFile,
     excludePrefixes : SUBSET PrefixText, excludeLocalIPs : BOOLEAN, rule : RuleFile]

ConfigFile ==
    [readable : BOOLEAN, refresh : Int, health : Int, format : Text({"text", "json"}),
     proto : Int, base : Int, step : Int, aggregate : BOOLEAN, cleanup : BOOLEAN,
     builtin : {"", "true", "false"}, ru : GroupFile, zones : Seq(GroupFile)]

(* The flags of the command line that bear on the configuration.           *)
Options == [disableRU : BOOLEAN, format : Text({"text", "json"}), interval : Int, cleanup : BOOLEAN,
            dryRun : BOOLEAN]

-----------------------------------------------------------------------------
(* Defaults *)

coalesce(v, default) == IF v # "" THEN v ELSE default

NonZero(v, default) == IF v # 0 THEN v ELSE default

DefaultRefresh == 3600
DefaultHealth  == 5

(* A RU group without a source type gets type and country.                 *)
DefaultRU(g) ==
    [g EXCEPT !.name   = coalesce(@, RUName),
              !.source = IF @.type # "" THEN @
                         ELSE [type |-> "ripe_country", country |-> "RU", url |-> @.url]]

(* The built-in source is on unless the file says otherwise.               *)
ApplyDefaults(c) ==
    [c EXCEPT !.refresh = NonZero(@, DefaultRefresh),
              !.health  = NonZero(@, DefaultHealth),
              !.format  = coalesce(@, "text"),
              !.proto   = NonZero(@, 99),
              !.base    = NonZero(@, 1000),
              !.step    = NonZero(@, 10),
              !.builtin = coalesce(@, "true"),
              !.ru      = DefaultRU(@)]

-----------------------------------------------------------------------------
(* Groups *)

DisableRUDefault(c) == [c EXCEPT !.builtin = "false", !.ru.enabled = FALSE]

HasRUDefault(c) == c.ru.enabled /\ c.builtin = "true"

EnabledZones(zones) ==
    LET on == InOrder({i \in DOMAIN zones : zones[i].enabled})
    IN  [k \in DOMAIN on |-> zones[on[k]]]

(* The RU group first, under its fixed name.                               *)
Groups(c) ==
    (IF HasRUDefault(c) THEN <<[c.ru EXCEPT !.name = RUName]>> ELSE <<>>)
      \o EnabledZones(c.zones)

-----------------------------------------------------------------------------
(* Validate *)

ValidHealthCheck(h) == h.targets \subseteq Addr /\ h.timeout >= 0

mergeHealthChecks(parent, child) ==
    [targets |-> IF child.targets # {} THEN child.targets ELSE parent.targets,
     timeout |-> NonZero(child.timeout, parent.timeout)]

(* What validateNextHop checks for a gateway: its settings, with those of  *)
(* its parent where it has none.                                           *)
MergeNextHop(h, gw) ==
    LET check == mergeHealthChecks(h, gw)
    IN  [dev |-> coalesce(gw.dev, h.dev), via |-> gw.via, via4 |-> gw.via4, via6 |-> gw.via6,
         onlink |-> gw.onlink \/ h.onlink,
         targets |-> check.targets, timeout |-> check.timeout]

(* validateNextHop for a hop without gateways.                             *)
ValidAddresses(family, h) ==
    /\ h.via # NoAddr =>
          h.via # BadAddr /\ (family = "dual" => h.via4 # NoAddr \/ h.via6 # NoAddr)
    /\ h.via4 # NoAddr => h.via4.fam = 4
    /\ h.via6 # NoAddr => h.via6.fam = 6

ValidGatewayAnyDev(family, h, gw) ==   \* mutant: the device is not required
    LET merged == MergeNextHop(h, gw)
    IN  /\ merged.via # NoAddr \/ merged.via4 # NoAddr \/ merged.via6 # NoAddr
        /\ gw.name # " "
        /\ ValidHealthCheck(merged)
        /\ ValidAddresses(family, merged)

ValidGatewayAnyVia(family, h, gw) ==   \* mutant: no address is required
    LET merged == MergeNextHop(h, gw)
    IN  /\ gw.name # " "
        /\ ValidHealthCheck(merged)
        /\ merged.dev # NoDev
        /\ ValidAddresses(family, merged)

ValidGateway(family, h, gw) ==
    LET merged == MergeNextHop(h, gw)
    IN  /\ merged.via # NoAddr \/ merged.via4 # NoAddr \/ merged.via6 # NoAddr
        /\ gw.name # " "
        /\ ValidHealthCheck(merged)
        /\ merged.dev # NoDev
        /\ ValidAddresses(family, merged)

(* With gateways, the hop's own addresses are not looked at.               *)
ValidNextHop(family, h, requireDev) ==
    /\ ValidHealthCheck(h)
    /\ \A i \in DOMAIN h.gateways : ValidGateway(family, h, h.gateways[i])
    /\ h.gateways = <<>> =>
          (requireDev => h.dev # NoDev) /\ ValidAddresses(family, h)

ValidSource(s) ==
    \/ s.type = "ripe_country" /\ s.country # ""
    \/ s.type = "txt" /\ s.url # ""

ValidRule(g) ==
    g.rule.enabled =>
        /\ g.rule.prio > 0 /\ g.rule.table > 0
        /\ g.rule.table = g.table
        /\ g.rule.from \in RawPrefix \cup {NoPrefix}

(* validateGroup.  It sets an empty family to "dual" in its own copy.      *)
ValidGroup(g) ==
    LET family == coalesce(g.family, "dual")
    IN  /\ g.name # ""
        /\ ValidSource(g.source)
        /\ g.table > 0
        /\ g.hop.dev # NoDev \/ g.hop.gateways # <<>>
        /\ family \in Families
        /\ ValidNextHop(family, g.hop, FALSE)
        /\ g.hasDefault => ValidNextHop(family, g.default, TRUE)
        /\ g.excludePrefixes \subseteq RawPrefix
        /\ ValidRule(g)

Validate(c) ==
    /\ c.format \in {"text", "json"}
    /\ c.proto \in 1 .. 255
    /\ c.base > 0 /\ c.step > 0
    /\ \A i \in DOMAIN Groups(c) : ValidGroup(Groups(c)[i])
    /\ HasRUDefault(c) /\ c.ru.rule.enabled =>
          \A i \in DOMAIN c.zones :
              c.zones[i].enabled /\ c.zones[i].rule.enabled =>
                  c.zones[i].rule.prio < c.ru.rule.prio

-----------------------------------------------------------------------------
(* loadConfig *)

(* The flags of the command line that override settings of the file.       *)
Override(opts, c) ==
    LET d == IF opts.disableRU THEN DisableRUDefault(c) ELSE c
    IN  [d EXCEPT !.format  = coalesce(opts.format, @),
                  !.refresh = NonZero(opts.interval, @),
                  !.cleanup = @ \/ opts.cleanup]

(* config.Load has validated the file by itself before the flags apply.    *)
LoadConfig(opts, file) == Override(opts, ApplyDefaults(file))

Loads(opts, file) ==
    /\ file.readable
    /\ Validate(ApplyDefaults(file))
    /\ Validate(LoadConfig(opts, file))

-----------------------------------------------------------------------------
(* The part of it a plan depends on: the types of modules Health, Planner. *)

GatewayOfFile(gw) ==
    [dev |-> gw.dev, via |-> gw.via, via4 |-> gw.via4, via6 |-> gw.via6,
     onlink |-> gw.onlink, targets |-> gw.targets]

(* The addresses of a hop with gateways are not checked; nextHopVia, which *)
(* may still need them, takes one that does not parse for none, and does   *)
(* not go on to "via" then.                                                *)
HopOfFile(h) ==
    [dev |-> h.dev,
     via |-> IF BadAddr \in {h.via, IF h.via.fam = 4 THEN h.via4 ELSE h.via6} THEN NoAddr
             ELSE h.via,
     via4 |-> IF h.via4 = BadAddr THEN NoAddr ELSE h.via4,
     via6 |-> IF h.via6 = BadAddr THEN NoAddr ELSE h.via6,
     onlink |-> h.onlink, targets |-> h.targets,
     gateways |-> [i \in DOMAIN h.gateways |-> GatewayOfFile(h.gateways[i])]]

(* The source of a rule that is not enabled is never parsed.               *)
GroupOfFile(g) ==
    [name |-> g.name, table |-> g.table, family |-> g.family,
     hop |-> HopOfFile(g.hop),
     default |-> IF g.hasDefault THEN HopOfFile(g.default) ELSE NoHop,
     excludePrefixes |-> g.excludePrefixes, excludeLocalIPs |-> g.excludeLocalIPs,
     rule |-> [enabled |-> g.rule.enabled, prio |-> g.rule.prio, mark |-> g.rule.mark,
               mask |-> g.rule.mask,
               from |-> IF g.rule.enabled THEN g.rule.from ELSE NoPrefix]]

Effective(c) ==
    [proto |-> c.proto, base |-> c.base, step |-> c.step, aggregate |-> c.aggregate,
     groups |-> [i \in DOMAIN Groups(c) |-> GroupOfFile(Groups(c)[i])]]
=============================================================================
