-------------------------------- MODULE Source --------------------------------
(***************************************************************************)
(* internal/source: what Normalize and FilterFamily deliver.               *)
(*                                                                         *)
(* The code works on slices; every consumer treats them as sets, so lists  *)
(* of prefixes are sets here.  With aggregation Normalize is defined by    *)
(* its result, the maximal prefixes inside the covered address space;      *)
(* module Aggregate models the loop that computes it.                      *)
(***************************************************************************)
EXTENDS Netip

MaskAllKeepsHostBits(raw) == raw   \* mutant

MaskAll(raw) == {Masked(p) : p \in raw}

(* The addresses a set of prefixes stands for.                             *)
AddrsIn(prefixes) == UNION {AddrsOf(p) : p \in prefixes}

CoveredBy(p, q) == q.fam = p.fam /\ q.bits <= p.bits /\ MaskedN(p.n, q.bits) = q.n

Aggregated(prefixes) ==
    LET covered == AddrsIn(prefixes)
        inside  == {p \in Prefix : AddrsOf(p) \subseteq covered}
    IN  {p \in inside : \A q \in inside : CoveredBy(p, q) => q = p}

Normalize(raw, aggregate) ==
    IF aggregate THEN Aggregated(MaskAll(raw)) ELSE MaskAll(raw)

FilterFamily(prefixes, family) == {p \in prefixes : p.fam \in FamsOf(family)}
=============================================================================
