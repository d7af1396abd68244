-------------------------------- MODULE Slices --------------------------------
(***************************************************************************)
(* What a loop of the form "for i, x := range xs { if keep(x) { out =      *)
(* append(out, x) } }" selects: the indexes it keeps, in their order.  By  *)
(* counting, since the provers know nothing of SelectSeq: the k-th is the  *)
(* one with k kept indexes up to it.                                       *)
(***************************************************************************)
EXTENDS Integers, FiniteSets

InOrder(kept) ==
    LET Rank(i) == Cardinality({j \in kept : j <= i})
    IN  [k \in 1 .. Cardinality(kept) |-> CHOOSE i \in kept : Rank(i) = k]
=============================================================================
