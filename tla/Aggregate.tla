------------------------------ MODULE Aggregate ------------------------------
(***************************************************************************)
(* internal/source/aggregate.go: the loop that turns a sorted list of      *)
(* prefixes into the shortest list for the same addresses.                 *)
(*                                                                         *)
(* One pass scans the list once and replaces neighbours that are the two   *)
(* halves of a prefix by that prefix; covered prefixes are removed before  *)
(* the first pass and after each; the loop ends with a pass that changed   *)
(* nothing.                                                                *)
(***************************************************************************)
EXTENDS Source, Sequences, SequencesExt, FiniteSets

CONSTANT Inputs   \* the sets of prefixes handed to Normalize

ASSUME InputsAssumption ==
    \A input \in Inputs : input \subseteq RawPrefix /\ IsFiniteSet(input)

VARIABLES
    raw,       \* what Normalize was given
    list,      \* "current" in Aggregate
    i,         \* where the scan of mergeOnePass is in list
    out,       \* what the scan has put out
    changed,   \* whether it has merged anything
    pc

vars == <<raw, list, i, out, changed, pc>>

Less(m, n) ==
    \E k \in 1 .. Width : m[k] < n[k] /\ \A j \in 1 .. k - 1 : m[j] = n[j]

(* sortPrefixes: IPv4 first, by address, shorter prefixes first.           *)
SortsBefore(p, q) ==
    \/ p.fam < q.fam
    \/ p.fam = q.fam /\ Less(p.n, q.n)
    \/ p.fam = q.fam /\ p.n = q.n /\ p.bits < q.bits

Sorted(S) ==
    LET before == [p \in S |-> Cardinality({q \in S : SortsBefore(q, p)})]
    IN  [k \in 1 .. Cardinality(S) |-> CHOOSE p \in S : before[p] = k - 1]

RemoveEqual(s) == Sorted(ToSet(s))   \* mutant: only duplicates go

(* removeCovered: sorted, and without the prefixes that another covers.    *)
RemoveCovered(s) ==
    Sorted({p \in ToSet(s) : \A q \in ToSet(s) : CoveredBy(p, q) => q = p})

(* sort.Slice, by counting: with duplicates, an element goes after those   *)
(* that sort before it and its equals to the left.                         *)
SortPrefixes(s) ==
    LET Before(j, k) == SortsBefore(s[j], s[k]) \/ (s[j] = s[k] /\ j < k)
        place == [k \in DOMAIN s |-> Cardinality({j \in DOMAIN s : Before(j, k)})]
    IN  [k \in DOMAIN s |-> s[CHOOSE j \in DOMAIN s : place[j] = k - 1]]

KeepUncovered(kept, p) ==
    IF \E q \in ToSet(kept) : CoveredBy(p, q) THEN kept ELSE Append(kept, p)

(* The same as the loop computes it: sortPrefixes, then keep a prefix      *)
(* unless one kept before covers it.                                       *)
RemoveCoveredLoop(s) == FoldLeft(KeepUncovered, <<>>, SortPrefixes(s))

Parent(p) == Masked([p EXCEPT !.bits = p.bits - 1])

MergeableNeighbours(a, b) ==   \* mutant: any two of one length
    a.fam = b.fam /\ a.bits = b.bits /\ a.bits # 0 /\ a # b

(* mergePair reports ok *)
Mergeable(a, b) ==
    /\ a.fam = b.fam
    /\ a.bits = b.bits
    /\ a.bits # 0
    /\ a # b
    /\ Parent(a) = Parent(b)

(* Normalize has masked, deduplicated and sorted the input.                *)
Init ==
    /\ raw \in Inputs
    /\ list = Sorted(MaskAll(raw))
    /\ i = 1
    /\ out = <<>>
    /\ changed = FALSE
    /\ pc = "start"

(* mergeOnePass sorts its list again, which is sorted already.             *)
BeginPass(l) ==
    /\ list' = l
    /\ i' = 1
    /\ out' = <<>>
    /\ changed' = FALSE
    /\ pc' = "scan"

Return(l) ==
    /\ list' = l
    /\ pc' = "done"
    /\ UNCHANGED <<i, out, changed>>

(* Aggregate up to its loop.                                               *)
Start ==
    /\ pc = "start"
    /\ IF Len(list) < 2 THEN Return(list) ELSE BeginPass(RemoveCovered(list))
    /\ UNCHANGED raw

CanMerge == i + 1 <= Len(list) /\ Mergeable(list[i], list[i + 1])

(* mergeOnePass, one turn of its loop.                                     *)
ScanMerge ==
    /\ pc = "scan"
    /\ CanMerge
    /\ out' = Append(out, Parent(list[i]))
    /\ changed' = TRUE
    /\ i' = i + 2
    /\ UNCHANGED <<raw, list, pc>>

ScanKeep ==
    /\ pc = "scan"
    /\ i <= Len(list)
    /\ ~CanMerge
    /\ out' = Append(out, list[i])
    /\ i' = i + 1
    /\ UNCHANGED <<raw, list, changed, pc>>

SettledAtOnce(next) == TRUE                             \* mutant: one pass only
SettledOnShrink(next) == ~changed /\ Len(next) < Len(list)   \* mutant

(* The pass is over: return, or go round again.                            *)
Settled(next) == ~changed /\ Len(next) = Len(list)

EndPass ==
    /\ pc = "scan"
    /\ i > Len(list)
    /\ IF Settled(RemoveCovered(out)) THEN Return(RemoveCovered(out))
       ELSE BeginPass(RemoveCovered(out))
    /\ UNCHANGED raw

Next == Start \/ ScanMerge \/ ScanKeep \/ EndPass

Spec == Init /\ [][Next]_vars /\ WF_vars(Next)

-----------------------------------------------------------------------------
TypeOK ==
    /\ raw \in Inputs
    /\ list \in Seq(Prefix)
    /\ i \in Nat \ {0}
    /\ out \in Seq(Prefix)
    /\ changed \in BOOLEAN
    /\ pc \in {"start", "scan", "done"}

(* What is in hand: put out already, or still to be scanned.               *)
InHand == IF pc = "scan" THEN ToSet(out) \cup {list[k] : k \in i .. Len(list)}
          ELSE ToSet(list)

(* Aggregation neither adds nor loses an address, at any point: a scan     *)
(* merges only the two halves of one prefix.                               *)
SameAddresses == AddrsIn(InHand) = AddrsIn(MaskAll(raw))

(* The declarative RemoveCovered agrees with the loop of removeCovered     *)
(* wherever Aggregate calls it: the sort has put every covering prefix     *)
(* before the prefixes it covers.                                          *)
RemoveCoveredMatchesLoop ==
    /\ pc = "start" => RemoveCovered(list) = RemoveCoveredLoop(list)
    /\ pc = "scan" /\ i > Len(list) => RemoveCovered(out) = RemoveCoveredLoop(out)

(* Looking at neighbours only is enough: what Aggregate returns is the     *)
(* unique shortest list, without duplicates, sorted.                       *)
ReturnsShortest ==
    pc = "done" =>
        /\ ToSet(list) = Aggregated(MaskAll(raw))
        /\ \A k \in 1 .. Len(list) - 1 : SortsBefore(list[k], list[k + 1])

(* No pass begins with a list as long as the one before it: what a pass    *)
(* merged, or removeCovered after it, has made the list shorter, or the    *)
(* loop returns.                                                           *)
PassesShorten ==
    [][pc = "scan" /\ i > Len(list) /\ pc' = "scan" => Len(list') < Len(list)]_vars

(* The loop ends.                                                          *)
Terminates == <>(pc = "done")
=============================================================================
