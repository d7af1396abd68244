------------------------------ MODULE MCFailover ------------------------------
(***************************************************************************)
(* Next hops with up to four gateways over three devices.                  *)
(***************************************************************************)
EXTENDS Failover

BitsOf(k) == [j \in 1 .. Width |-> (k \div 2^(Width - j)) % 2]
V4(k) == [fam |-> 4, n |-> BitsOf(k)]
V6(k) == [fam |-> 6, n |-> BitsOf(k)]

MCDev   == {"", "a", "b", "c"}
MCLinks == [d \in MCDev |-> CASE d = "a" -> 2 [] d = "b" -> 3 [] d = "c" -> 4 [] OTHER -> 0]

Gw(dev, via, via4, via6, targets) ==
    [dev |-> dev, via |-> via, via4 |-> via4, via6 |-> via6, onlink |-> FALSE,
     targets |-> targets]

(* Own targets, inherited ones, and both families.                         *)
Mixed == [NoHop EXCEPT !.dev = "c", !.targets = {V4(3), V6(3)},
    !.gateways = <<Gw("a", NoAddr, V4(0), V6(0), {V4(0), V6(0)}),
                   Gw("b", V4(1), NoAddr, NoAddr, {}),
                   Gw("", NoAddr, V4(2), V6(2), {}),
                   Gw("b", NoAddr, V4(3), V6(3), {V4(0), V6(3)})>>]

(* The default targets, and one address on two devices.                    *)
Plain == [NoHop EXCEPT !.onlink = TRUE,
    !.gateways = <<Gw("a", V4(0), NoAddr, NoAddr, {}), Gw("b", V4(0), NoAddr, NoAddr, {}),
                   Gw("c", V6(0), NoAddr, NoAddr, {})>>]

(* No list: the hop is its only gateway.                                   *)
Single == [NoHop EXCEPT !.dev = "a", !.via4 = V4(1)]

MCHops == {Mixed, Plain, Single}
MCPingable == {"a", "b", "c"} \X {V4(0), V4(3), V6(3)}
=============================================================================
