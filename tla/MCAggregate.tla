----------------------------- MODULE MCAggregate -----------------------------
(***************************************************************************)
(* Three-bit addresses: every set of prefixes of one family (but for the   *)
(* one that covers all), and every set of some of both families, with host *)
(* bits, with duplicates once masked and with the prefixes that cover all. *)
(***************************************************************************)
EXTENDS Aggregate

OneFamily == SUBSET {p \in Prefix : p.fam = 4 /\ p.bits > 0}

Raw(fam, a, b, c, bits) == [fam |-> fam, n |-> <<a, b, c>>, bits |-> bits]

BothFamilies ==
    SUBSET {Raw(4, 1, 0, 1, 2), Raw(4, 1, 1, 1, 2), Raw(4, 0, 1, 1, 1), Raw(4, 0, 0, 0, 1),
            Raw(6, 1, 0, 1, 2), Raw(6, 1, 1, 0, 2), Raw(6, 0, 0, 1, 3), Raw(6, 0, 1, 0, 0)}

MCInputs == OneFamily \cup BothFamilies
=============================================================================
