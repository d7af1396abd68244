-------------------------------- MODULE Netip --------------------------------
(***************************************************************************)
(* Addresses and CIDR prefixes, as route-sync uses net/netip.              *)
(*                                                                         *)
(* An address is a family (4 or 6) and Width bits, the most significant    *)
(* first; a prefix adds a length.  The real widths are 32 and 128: nothing *)
(* in the code depends on them except through masking and containment.     *)
(***************************************************************************)
EXTENDS Integers

CONSTANT Width   \* bits of an address

ASSUME WidthAssumption == Width \in Nat

Fams == {4, 6}

(* target.family of a route group; "" and "dual" both stand for both.      *)
Families == {"", "dual", "ipv4", "ipv6"}

FamsOf(family) ==
    CASE family = "ipv4" -> {4}
      [] family = "ipv6" -> {6}
      [] OTHER           -> Fams

Bits  == [1 .. Width -> {0, 1}]
Zeros == [k \in 1 .. Width |-> 0]
Ones  == [k \in 1 .. Width |-> 1]

Addr == [fam : Fams, n : Bits]

(* The zero netip.Addr and the zero netip.Prefix: "not given".             *)
NoAddr   == [fam |-> 0, n |-> Zeros]
NoPrefix == [fam |-> 0, n |-> Zeros, bits |-> 0]

(* ParsePrefix keeps the host bits it is given; Masked() clears them.      *)
RawPrefix == [fam : Fams, n : Bits, bits : 0 .. Width]

MaskedN(n, bits) == [k \in 1 .. Width |-> IF k <= bits THEN n[k] ELSE 0]

Masked(p) == [fam |-> p.fam, n |-> MaskedN(p.n, p.bits), bits |-> p.bits]

Prefix == {p \in RawPrefix : Masked(p) = p}

(* Prefix.Contains *)
Covers(p, a) == p.fam = a.fam /\ MaskedN(a.n, p.bits) = p.n

AddrsOf(p) == {a \in Addr : Covers(p, a)}
=============================================================================
