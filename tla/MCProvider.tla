------------------------------ MODULE MCProvider ------------------------------
(***************************************************************************)
(* Lists of up to three lines; lengths are written in binary, so that a    *)
(* prefix of length 3 ("11") cut short is one of length 1.  The lines that *)
(* do not parse have beginnings that do.                                   *)
(***************************************************************************)
EXTENDS Provider

P(fam, n, bits) == [fam |-> fam, n |-> n, bits |-> bits]

Lines ==
    {[kind |-> "cidr", prefix |-> P(4, <<1, 0, 1>>, 3)],
     [kind |-> "cidr", prefix |-> P(6, <<1, 1, 1>>, 2)],
     [kind |-> "blank"],
     [kind |-> "bad", starts |-> {P(4, <<1, 0, 1>>, 3), P(4, <<1, 0, 1>>, 1)}],
     [kind |-> "long", starts |-> {P(6, <<0, 1, 0>>, 2)}]}

ThreeLines == UNION {[1 .. n -> Lines] : n \in 0 .. 3}
=============================================================================
