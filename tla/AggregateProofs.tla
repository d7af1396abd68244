--------------------------- MODULE AggregateProofs ---------------------------
(***************************************************************************)
(* Aggregation, for every address width and every finite input: it neither *)
(* adds nor loses an address (SameAddresses), the loop of removeCovered    *)
(* removes exactly the covered prefixes (RemoveCoveredMatchesLoop), what   *)
(* is returned is the shortest list (ReturnsShortest), and no pass is      *)
(* followed by one over a list as long (PassesShorten).                    *)
(***************************************************************************)
EXTENDS Aggregate, PlannerProofs

-----------------------------------------------------------------------------
(* mergePair *)

(* The parent of two mergeable prefixes is a prefix and covers exactly     *)
(* their addresses: the two differ in the last bit of their length.        *)
LEMMA MergePairExact ==
    ASSUME NEW a \in Prefix, NEW b \in Prefix, Mergeable(a, b)
    PROVE  Parent(a) \in Prefix /\ AddrsOf(Parent(a)) = AddrsOf(a) \cup AddrsOf(b)
<1> DEFINE m == a.bits
           q == Parent(a)
<1>1. /\ a.fam \in Fams /\ a.n \in Bits /\ m \in 1 .. Width
      /\ b.fam = a.fam /\ b.n \in Bits /\ b.bits = m
      /\ m - 1 \in 0 .. Width
  BY WidthAssumption DEF Mergeable, Prefix, RawPrefix
<1>2. /\ [a EXCEPT !.bits = a.bits - 1] \in RawPrefix
      /\ [b EXCEPT !.bits = b.bits - 1] \in RawPrefix
  BY <1>1 DEF RawPrefix, Prefix
<1>3. /\ q \in Prefix /\ q.bits = m - 1 /\ q.fam = a.fam
      /\ q.n = MaskedN(a.n, m - 1) /\ q.n = MaskedN(b.n, m - 1)
  <2>1. Parent(a) = Parent(b)
    BY DEF Mergeable
  <2>2. Parent(a) \in Prefix
    BY <1>2, MaskedType DEF Parent
  <2>3. Parent(a).bits = m - 1 /\ Parent(a).fam = a.fam /\ Parent(a).n = MaskedN(a.n, m - 1)
    BY <1>1, <1>2 DEF Parent, Masked, RawPrefix, Prefix
  <2>4. Parent(b).n = MaskedN(b.n, m - 1)
    BY <1>1, <1>2 DEF Parent, Masked, RawPrefix, Prefix
  <2> QED
    BY <2>1, <2>2, <2>3, <2>4
<1> HIDE DEF q
<1>4. \A k \in 1 .. Width : k =< m - 1 => a.n[k] = q.n[k] /\ b.n[k] = q.n[k]
  BY <1>1, <1>3 DEF MaskedN
<1>5. a.n[m] # b.n[m]
  <2> SUFFICES ASSUME a.n[m] = b.n[m] PROVE FALSE
    OBVIOUS
  <2>1. \A k \in 1 .. Width : k =< a.bits => b.n[k] = a.n[k]
    <3> SUFFICES ASSUME NEW k \in 1 .. Width, k =< m PROVE b.n[k] = a.n[k]
      OBVIOUS
    <3>1. k = m \/ k =< m - 1
      BY <1>1
    <3> QED
      BY <1>4, <3>1
  <2>2. CoveredBy(b, a)
    BY <1>1, <2>1, CoveredByBits
  <2>3. b = a
    BY <1>1, <2>2, CoveredByOrder
  <2> QED
    BY <2>3 DEF Mergeable
<1>6. ASSUME NEW x \in Addr
      PROVE  Covers(q, x) <=> Covers(a, x) \/ Covers(b, x)
  <2>1. x.n \in Bits
    BY DEF Addr
  <2>2. x.n[m] = a.n[m] \/ x.n[m] = b.n[m]
    BY <1>1, <1>5, <2>1 DEF Bits
  <2>3. \A k \in 1 .. Width : k =< m <=> k =< m - 1 \/ k = m
    BY <1>1
  <2> HIDE DEF m
  <2>4. Covers(q, x) <=> q.fam = x.fam /\ \A k \in 1 .. Width : k =< m - 1 => x.n[k] = q.n[k]
    BY <1>3, CoversBits
  <2>5. Covers(a, x) <=> a.fam = x.fam /\ \A k \in 1 .. Width : k =< m => x.n[k] = a.n[k]
    BY CoversBits DEF m
  <2>6. Covers(b, x) <=> b.fam = x.fam /\ \A k \in 1 .. Width : k =< m => x.n[k] = b.n[k]
    BY <1>1, CoversBits
  <2>7. m \in 1 .. Width
    BY <1>1
  <2>8. ASSUME Covers(q, x) PROVE Covers(a, x) \/ Covers(b, x)
    BY <1>1, <1>3, <1>4, <2>2, <2>3, <2>4, <2>5, <2>6, <2>8
  <2>9. ASSUME Covers(a, x) \/ Covers(b, x) PROVE Covers(q, x)
    BY <1>1, <1>3, <1>4, <2>3, <2>4, <2>5, <2>6, <2>9
  <2> QED
    BY <2>8, <2>9
<1> QED
  BY <1>3, <1>6 DEF AddrsOf, q

-----------------------------------------------------------------------------
(* sortPrefixes *)

(* Addresses are compared bit by bit, most significant first: a strict     *)
(* total order.                                                            *)
LEMMA LessOrder ==
    /\ \A m \in Bits : ~Less(m, m)
    /\ \A l, m, n \in Bits : Less(l, m) /\ Less(m, n) => Less(l, n)
    /\ \A m, n \in Bits : Less(m, n) \/ Less(n, m) \/ m = n
<1>1. \A m \in Bits : ~Less(m, m)
  BY DEF Less, Bits
<1>2. ASSUME NEW l \in Bits, NEW m \in Bits, NEW n \in Bits, Less(l, m), Less(m, n)
      PROVE  Less(l, n)
  <2>1. PICK j \in 1 .. Width : l[j] < m[j] /\ \A i0 \in 1 .. j - 1 : l[i0] = m[i0]
    BY <1>2 DEF Less
  <2>2. PICK k \in 1 .. Width : m[k] < n[k] /\ \A i0 \in 1 .. k - 1 : m[i0] = n[i0]
    BY <1>2 DEF Less
  <2>3. \A x \in 1 .. Width : l[x] \in {0, 1} /\ m[x] \in {0, 1} /\ n[x] \in {0, 1}
    BY DEF Bits
  <2>4. CASE j < k
    <3>1. l[j] < n[j]
      BY <2>1, <2>2, <2>4
    <3>2. \A i0 \in 1 .. j - 1 : l[i0] = n[i0]
      BY <2>1, <2>2, <2>4
    <3> QED
      BY <3>1, <3>2 DEF Less
  <2>5. CASE k < j
    <3>1. l[k] < n[k]
      BY <2>1, <2>2, <2>5
    <3>2. \A i0 \in 1 .. k - 1 : l[i0] = n[i0]
      BY <2>1, <2>2, <2>5
    <3> QED
      BY <3>1, <3>2 DEF Less
  <2>6. CASE j = k
    <3>1. l[k] < n[k]
      BY <2>1, <2>2, <2>3, <2>6
    <3>2. \A i0 \in 1 .. k - 1 : l[i0] = n[i0]
      BY <2>1, <2>2, <2>6
    <3> QED
      BY <3>1, <3>2 DEF Less
  <2> QED
    BY <2>4, <2>5, <2>6
<1>3. ASSUME NEW m \in Bits, NEW n \in Bits, m # n
      PROVE  Less(m, n) \/ Less(n, m)
  <2> DEFINE D == {k \in 1 .. Width : m[k] # n[k]}
  <2>1. D # {}
    <3> SUFFICES ASSUME \A k \in 1 .. Width : m[k] = n[k] PROVE FALSE
      OBVIOUS
    <3>1. m = [k \in 1 .. Width |-> m[k]] /\ n = [k \in 1 .. Width |-> n[k]]
      BY DEF Bits
    <3>2. [k \in 1 .. Width |-> m[k]] = [k \in 1 .. Width |-> n[k]]
      OBVIOUS
    <3> QED
      BY <1>3, <3>1, <3>2, Zenon
  <2>2. D \subseteq Nat
    OBVIOUS
  <2>3. PICK k \in D : \A j \in D : k =< j
    BY <2>1, <2>2, LeastOfNats
  <2>4. ASSUME NEW j \in 1 .. k - 1 PROVE m[j] = n[j]
    <3>1. j \in 1 .. Width /\ ~(k =< j)
      BY <2>3, WidthAssumption
    <3> QED
      BY <2>3, <3>1
  <2>5. m[k] < n[k] \/ n[k] < m[k]
    BY <2>3 DEF Bits
  <2> QED
    BY <2>3, <2>4, <2>5 DEF Less
<1> QED
  BY <1>1, <1>2, <1>3

(* So is the order of the prefixes.                                        *)
LEMMA SortsBeforeOrder ==
    /\ \A p \in Prefix : ~SortsBefore(p, p)
    /\ \A p, q, r \in Prefix : SortsBefore(p, q) /\ SortsBefore(q, r) => SortsBefore(p, r)
    /\ \A p, q \in Prefix : SortsBefore(p, q) \/ SortsBefore(q, p) \/ p = q
<1>0. \A p \in Prefix : p.fam \in Nat /\ p.n \in Bits /\ p.bits \in Nat
  BY DEF Prefix, RawPrefix, Fams
<1>1. \A p \in Prefix : ~SortsBefore(p, p)
  BY <1>0, LessOrder DEF SortsBefore
<1>2. ASSUME NEW p \in Prefix, NEW q \in Prefix, NEW r \in Prefix,
             SortsBefore(p, q), SortsBefore(q, r)
      PROVE  SortsBefore(p, r)
  BY <1>0, <1>2, LessOrder DEF SortsBefore
<1>3. ASSUME NEW p \in Prefix, NEW q \in Prefix, ~SortsBefore(p, q), ~SortsBefore(q, p)
      PROVE  p = q
  <2>1. p.fam = q.fam /\ p.n = q.n /\ p.bits = q.bits
    BY <1>0, <1>3, LessOrder DEF SortsBefore
  <2>2. /\ p = [fam |-> p.fam, n |-> MaskedN(p.n, p.bits), bits |-> p.bits]
        /\ q = [fam |-> q.fam, n |-> MaskedN(q.n, q.bits), bits |-> q.bits]
    BY DEF Prefix, Masked
  <2> QED
    BY <2>1, <2>2
<1> QED
  BY <1>1, <1>2, <1>3

(* Every prefix of the list sorts before the ones after it.                *)
Ordered(s) == \A j, k \in 1 .. Len(s) : j < k => SortsBefore(s[j], s[k])

(* How many elements of S the relation R puts before each.                 *)
Ranks(S, R) == [x \in S |-> Cardinality({y \in S : <<y, x>> \in R})]

(* On a finite set a strict total order counts its elements from 0.        *)
LEMMA RanksCount ==
    ASSUME NEW S, IsFiniteSet(S), NEW R,
           \A x \in S : <<x, x>> \notin R,
           \A x, y, z \in S : <<x, y>> \in R /\ <<y, z>> \in R => <<x, z>> \in R,
           \A x, y \in S : <<x, y>> \in R \/ <<y, x>> \in R \/ x = y
    PROVE  /\ Cardinality(S) \in Nat
           /\ Ranks(S, R) \in [S -> 0 .. Cardinality(S) - 1]
           /\ \A x, y \in S : Ranks(S, R)[x] = Ranks(S, R)[y] => x = y
           /\ \A x, y \in S : <<x, y>> \in R => Ranks(S, R)[x] < Ranks(S, R)[y]
           /\ \A k \in 1 .. Cardinality(S) : \E x \in S : Ranks(S, R)[x] = k - 1
<1> DEFINE n == Cardinality(S)
           Before(x) == {y \in S : <<y, x>> \in R}
           rank == Ranks(S, R)
<1>1. n \in Nat
  BY FS_CardinalityType
<1>2. ASSUME NEW x \in S
      PROVE  IsFiniteSet(Before(x)) /\ rank[x] = Cardinality(Before(x)) /\ rank[x] \in 0 .. n - 1
  <2>1. Before(x) \in SUBSET S /\ x \notin Before(x)
    OBVIOUS
  <2>2. rank[x] = Cardinality(Before(x))
    BY DEF Ranks
  <2> HIDE DEF Before, rank
  <2>3. IsFiniteSet(Before(x)) /\ Cardinality(Before(x)) =< n /\ Cardinality(Before(x)) # n
    BY <2>1, FS_Subset
  <2>4. Cardinality(Before(x)) \in Nat
    BY <2>3, FS_CardinalityType
  <2> QED
    BY <1>1, <2>2, <2>3, <2>4
<1>3. ASSUME NEW x \in S, NEW y \in S, <<x, y>> \in R
      PROVE  rank[x] < rank[y]
  <2>1. Before(x) \in SUBSET Before(y) /\ x \in Before(y) /\ x \notin Before(x)
    BY <1>3
  <2>2. /\ IsFiniteSet(Before(y))
        /\ rank[x] = Cardinality(Before(x)) /\ rank[x] \in 0 .. n - 1
        /\ rank[y] = Cardinality(Before(y)) /\ rank[y] \in 0 .. n - 1
    BY <1>2
  <2> HIDE DEF Before, rank
  <2>3. Cardinality(Before(y)) # Cardinality(Before(x)) /\ Cardinality(Before(x)) =< Cardinality(Before(y))
    BY <2>1, <2>2, FS_Subset
  <2> QED
    BY <2>2, <2>3
<1>4. rank \in [S -> 0 .. n - 1]
  <2>1. rank = [x \in S |-> rank[x]]
    BY DEF Ranks
  <2> HIDE DEF rank
  <2> QED
    BY <1>2, <2>1
<1> HIDE DEF rank
<1>5. ASSUME NEW x \in S, NEW y \in S, x # y
      PROVE  rank[x] # rank[y]
  <2>1. rank[x] \in Int /\ rank[y] \in Int
    BY <1>1, <1>4
  <2>2. rank[x] < rank[y] \/ rank[y] < rank[x]
    BY <1>3, <1>5
  <2> QED
    BY <2>1, <2>2
<1>6. rank \in Injection(S, 0 .. n - 1)
  BY <1>4, <1>5 DEF Injection, IsInjective
<1>7. IsFiniteSet(0 .. n - 1) /\ Cardinality(0 .. n - 1) = n
  <2>1. 0 \in Int /\ n - 1 \in Int /\ (IF 0 > n - 1 THEN 0 ELSE n - 1 - 0 + 1) = n
    BY <1>1
  <2> HIDE DEF n
  <2> QED
    BY <2>1, FS_Interval, Zenon
<1>8. rank \in Surjection(S, 0 .. n - 1)
  BY <1>6, <1>7, FS_Injection
<1>9. ASSUME NEW k \in 1 .. n
      PROVE  \E x \in S : rank[x] = k - 1
  <2>1. k - 1 \in 0 .. n - 1
    BY <1>1
  <2> QED
    BY <1>8, <2>1 DEF Surjection
<1> QED
  BY <1>1, <1>3, <1>4, <1>5, <1>9 DEF rank

(* SortsBefore as a relation on a set of prefixes.                         *)
SortOrder(S) == {e \in S \X S : SortsBefore(e[1], e[2])}

(* Sorting a finite set of prefixes loses and adds nothing and puts them   *)
(* in order: the k-th is the one with k - 1 before it.                     *)
LEMMA SortedElements ==
    ASSUME NEW S \in SUBSET Prefix, IsFiniteSet(S)
    PROVE  /\ Sorted(S) \in Seq(Prefix) /\ ToSet(Sorted(S)) = S
           /\ Ordered(Sorted(S))
           /\ Len(Sorted(S)) = Cardinality(S) /\ Cardinality(S) \in Nat
           /\ \A k \in 1 .. Cardinality(S) :
                 /\ Sorted(S)[k] \in S
                 /\ Cardinality({q \in S : SortsBefore(q, Sorted(S)[k])}) = k - 1
           /\ \A p, q \in S : Cardinality({r \in S : SortsBefore(r, p)}) =
                               Cardinality({r \in S : SortsBefore(r, q)}) => p = q
<1> DEFINE n == Cardinality(S)
           R == SortOrder(S)
           rank == Ranks(S, R)
<1>1. \A p, q \in S : <<p, q>> \in R <=> SortsBefore(p, q)
  BY DEF SortOrder
<1> HIDE DEF R
<1>2. /\ n \in Nat /\ rank \in [S -> 0 .. n - 1]
      /\ \A p, q \in S : rank[p] = rank[q] => p = q
      /\ \A p, q \in S : SortsBefore(p, q) => rank[p] < rank[q]
      /\ \A k \in 1 .. n : \E p \in S : rank[p] = k - 1
  <2>1. /\ \A p \in S : <<p, p>> \notin R
        /\ \A p, q, r \in S : <<p, q>> \in R /\ <<q, r>> \in R => <<p, r>> \in R
        /\ \A p, q \in S : <<p, q>> \in R \/ <<q, p>> \in R \/ p = q
    BY <1>1, SortsBeforeOrder
  <2>2. /\ n \in Nat /\ rank \in [S -> 0 .. n - 1]
        /\ \A p, q \in S : rank[p] = rank[q] => p = q
        /\ \A p, q \in S : <<p, q>> \in R => rank[p] < rank[q]
        /\ \A k \in 1 .. n : \E p \in S : rank[p] = k - 1
    BY <2>1, RanksCount
  <2> QED
    BY <1>1, <2>2
<1>3. \A p \in S : rank[p] = Cardinality({q \in S : SortsBefore(q, p)})
  <2> SUFFICES ASSUME NEW p \in S PROVE rank[p] = Cardinality({q \in S : SortsBefore(q, p)})
    OBVIOUS
  <2>1. {q \in S : <<q, p>> \in R} = {q \in S : SortsBefore(q, p)}
    BY <1>1
  <2> QED
    BY <2>1 DEF Ranks
<1> HIDE DEF rank
<1> DEFINE s == [k \in 1 .. n |-> CHOOSE p \in S : rank[p] = k - 1]
<1>10. Sorted(S) = s
  <2>1. rank = [p \in S |-> Cardinality({q \in S : SortsBefore(q, p)})]
    BY <1>2, <1>3
  <2> QED
    BY <2>1 DEF Sorted
<1>11. \A k \in 1 .. n : s[k] \in S /\ rank[s[k]] = k - 1
  BY <1>2
<1> HIDE DEF s
<1>12. s \in [1 .. n -> S]
  BY <1>11 DEF s
<1>13. s \in Seq(Prefix) /\ Len(s) = n /\ DOMAIN s = 1 .. n
  BY <1>2, <1>12
<1>14. ASSUME NEW p \in S
       PROVE  \E k \in 1 .. n : s[k] = p
  <2>1. rank[p] + 1 \in 1 .. n
    BY <1>2
  <2>2. s[rank[p] + 1] \in S /\ rank[s[rank[p] + 1]] = rank[p]
    BY <1>2, <1>11, <2>1
  <2> QED
    BY <1>2, <2>1, <2>2
<1>15. ToSet(s) = S
  BY <1>12, <1>13, <1>14 DEF ToSet
<1>16. ASSUME NEW j \in 1 .. n, NEW k \in 1 .. n, j < k
       PROVE  SortsBefore(s[j], s[k])
  <2>1. s[j] \in S /\ s[k] \in S /\ rank[s[j]] = j - 1 /\ rank[s[k]] = k - 1
    BY <1>11
  <2>2. ~SortsBefore(s[k], s[j]) /\ s[j] # s[k]
    BY <1>2, <1>16, <2>1
  <2> QED
    BY <2>1, <2>2, SortsBeforeOrder
<1>17. Ordered(s)
  BY <1>13, <1>16 DEF Ordered
<1>18. \A k \in 1 .. n : s[k] \in S /\ Cardinality({q \in S : SortsBefore(q, s[k])}) = k - 1
  BY <1>3, <1>11
<1>19. \A p, q \in S : Cardinality({r \in S : SortsBefore(r, p)}) =
                       Cardinality({r \in S : SortsBefore(r, q)}) => p = q
  BY <1>2, <1>3
<1> QED
  BY <1>2, <1>10, <1>13, <1>15, <1>17, <1>18, <1>19

-----------------------------------------------------------------------------
(* removeCovered *)

(* A list has finitely many elements.                                      *)
LEMMA ToSetFinite ==
    ASSUME NEW S, NEW s \in Seq(S)
    PROVE  IsFiniteSet(ToSet(s)) /\ ToSet(s) \subseteq S
<1>1. Len(s) \in Nat /\ DOMAIN s = 1 .. Len(s) /\ s \in [1 .. Len(s) -> S]
  OBVIOUS
<1>2. s \in Surjection(1 .. Len(s), ToSet(s))
  BY <1>1 DEF Surjection, ToSet
<1>3. IsFiniteSet(1 .. Len(s))
  BY <1>1, FS_Interval
<1> QED
  BY <1>1, <1>2, <1>3, FS_Surjection DEF ToSet

(* No prefix covers another.                                               *)
Antichain(S) == \A p, q \in S : CoveredBy(p, q) => q = p

(* Among the prefixes that cover a given one a shortest is not covered by  *)
(* another.                                                                *)
LEMMA MaximalCovers ==
    ASSUME NEW S \in SUBSET Prefix, NEW p \in S
    PROVE  \E q \in S : CoveredBy(p, q) /\ \A r \in S : CoveredBy(q, r) => r = q
<1> DEFINE C == {q \in S : CoveredBy(p, q)}
           L == {q.bits : q \in C}
<1>1. p \in C
  BY CoveredByOrder
<1>2. L \in SUBSET Nat /\ L # {}
  BY <1>1 DEF Prefix, RawPrefix
<1>3. PICK l \in L : \A k \in L : l =< k
  BY <1>2, LeastOfNats
<1>4. PICK q \in C : q.bits = l
  BY <1>3
<1>5. ASSUME NEW r \in S, CoveredBy(q, r)
      PROVE  r = q
  <2>1. CoveredBy(p, r)
    BY <1>4, <1>5, CoveredByOrder
  <2>2. q.bits =< r.bits
    BY <1>3, <1>4, <2>1
  <2>3. r.bits =< q.bits
    BY <1>5 DEF CoveredBy
  <2>4. q.bits = r.bits
    BY <1>4, <2>2, <2>3 DEF Prefix, RawPrefix
  <2> QED
    BY <1>4, <1>5, <2>4, CoveredByOrder
<1> QED
  BY <1>4, <1>5

(* removeCovered keeps the addresses, for among the prefixes that cover a  *)
(* given one a shortest is not covered by another; it sorts, leaves no     *)
(* covered prefix, and changes nothing where there was none.               *)
LEMMA RemoveCoveredExact ==
    ASSUME NEW s \in Seq(Prefix)
    PROVE  /\ RemoveCovered(s) \in Seq(Prefix)
           /\ AddrsIn(ToSet(RemoveCovered(s))) = AddrsIn(ToSet(s))
           /\ Ordered(RemoveCovered(s))
           /\ Antichain(ToSet(RemoveCovered(s)))
           /\ Antichain(ToSet(s)) => ToSet(RemoveCovered(s)) = ToSet(s)
<1> DEFINE S == ToSet(s)
           M == {p \in S : \A q \in S : CoveredBy(p, q) => q = p}
<1>1. IsFiniteSet(S) /\ S \subseteq Prefix
  BY ToSetFinite
<1> HIDE DEF S
<1>2. M \in SUBSET S
  OBVIOUS
<1>3. IsFiniteSet(M) /\ M \in SUBSET Prefix
  BY <1>1, <1>2, FS_Subset
<1>4. RemoveCovered(s) = Sorted(M)
  BY DEF RemoveCovered, S
<1>5. /\ RemoveCovered(s) \in Seq(Prefix) /\ ToSet(RemoveCovered(s)) = M
      /\ Ordered(RemoveCovered(s))
  <2>1. Sorted(M) \in Seq(Prefix) /\ ToSet(Sorted(M)) = M /\ Ordered(Sorted(M))
    BY <1>3, SortedElements
  <2> QED
    BY <1>4, <2>1
<1>6. ASSUME NEW p \in S
      PROVE  \E q \in M : CoveredBy(p, q)
  <2>1. S \in SUBSET Prefix
    BY <1>1
  <2> QED
    BY <2>1, MaximalCovers
<1>7. AddrsIn(M) \subseteq AddrsIn(S)
  BY <1>2 DEF AddrsIn
<1>8. AddrsIn(S) \subseteq AddrsIn(M)
  <2> SUFFICES ASSUME NEW p \in S, NEW x \in AddrsOf(p) PROVE x \in AddrsIn(M)
    BY DEF AddrsIn
  <2>1. PICK q \in M : CoveredBy(p, q)
    BY <1>6
  <2>2. x \in AddrsOf(q)
    BY <1>1, <2>1, CoveredByOrder
  <2> QED
    BY <2>1, <2>2 DEF AddrsIn
<1>9. Antichain(M) /\ (Antichain(S) => M = S)
  BY DEF Antichain
<1> QED
  BY <1>5, <1>7, <1>8, <1>9 DEF S

-----------------------------------------------------------------------------
(* removeCovered's loop *)

(* sortPrefixes puts a list in order, whatever duplicates it has: the same *)
(* elements, each before or equal to the ones after it.                    *)
LEMMA SortPrefixesElements ==
    ASSUME NEW s \in Seq(Prefix)
    PROVE  /\ SortPrefixes(s) \in Seq(Prefix) /\ Len(SortPrefixes(s)) = Len(s)
           /\ ToSet(SortPrefixes(s)) = ToSet(s)
           /\ \A j, k \in 1 .. Len(s) : j < k =>
                 \/ SortsBefore(SortPrefixes(s)[j], SortPrefixes(s)[k])
                 \/ SortPrefixes(s)[j] = SortPrefixes(s)[k]
<1> DEFINE D == DOMAIN s
           n == Len(s)
           Before(j, k) == SortsBefore(s[j], s[k]) \/ (s[j] = s[k] /\ j < k)
           R == {e \in D \X D : Before(e[1], e[2])}
           rank == Ranks(D, R)
<1>1. /\ n \in Nat /\ D = 1 .. n /\ s \in [D -> Prefix]
  OBVIOUS
<1>2. IsFiniteSet(D) /\ Cardinality(D) = n
  <2>1. 1 \in Int /\ n \in Int /\ (IF 1 > n THEN 0 ELSE n - 1 + 1) = n
    BY <1>1
  <2> HIDE DEF D, n
  <2>2. IsFiniteSet(1 .. n) /\ Cardinality(1 .. n) = n
    BY <2>1, FS_Interval, Zenon
  <2> QED
    BY <1>1, <2>2
<1> HIDE DEF D, n
<1>3. \A j, k \in D : <<j, k>> \in R <=> Before(j, k)
  OBVIOUS
<1> HIDE DEF R
<1>4. /\ \A j \in D : ~Before(j, j)
      /\ \A j, k \in D : Before(j, k) \/ Before(k, j) \/ j = k
      /\ \A j, k, l \in D : Before(j, k) /\ Before(k, l) => Before(j, l)
  <2>1. \A j \in D : s[j] \in Prefix /\ j \in Nat
    BY <1>1
  <2>2. ASSUME NEW j \in D PROVE ~Before(j, j)
    BY <2>1, SortsBeforeOrder
  <2>3. ASSUME NEW j \in D, NEW k \in D, j # k PROVE Before(j, k) \/ Before(k, j)
    BY <2>1, <2>3, SortsBeforeOrder
  <2>4. ASSUME NEW j \in D, NEW k \in D, NEW l \in D, Before(j, k), Before(k, l)
        PROVE  Before(j, l)
    <3>1. s[j] = s[k] /\ s[k] = s[l] => j < l
      <4>1. \A x \in D : ~SortsBefore(s[x], s[x])
        BY <2>1, SortsBeforeOrder
      <4> QED
        BY <2>1, <2>4, <4>1
    <3>2. SortsBefore(s[j], s[k]) /\ SortsBefore(s[k], s[l]) => SortsBefore(s[j], s[l])
      BY <2>1, SortsBeforeOrder
    <3> QED
      BY <2>4, <3>1, <3>2
  <2> QED
    BY <2>2, <2>3, <2>4
<1>5. /\ rank \in [D -> 0 .. n - 1]
      /\ \A j, k \in D : rank[j] = rank[k] => j = k
      /\ \A j, k \in D : Before(j, k) => rank[j] < rank[k]
      /\ \A k \in 1 .. n : \E j \in D : rank[j] = k - 1
  <2> HIDE DEF Before
  <2>1. /\ \A j \in D : <<j, j>> \notin R
        /\ \A j, k, l \in D : <<j, k>> \in R /\ <<k, l>> \in R => <<j, l>> \in R
        /\ \A j, k \in D : <<j, k>> \in R \/ <<k, j>> \in R \/ j = k
    BY <1>3, <1>4
  <2>2. /\ rank \in [D -> 0 .. Cardinality(D) - 1]
        /\ \A j, k \in D : rank[j] = rank[k] => j = k
        /\ \A j, k \in D : <<j, k>> \in R => rank[j] < rank[k]
        /\ \A k \in 1 .. Cardinality(D) : \E j \in D : rank[j] = k - 1
    BY <1>2, <2>1, RanksCount
  <2> QED
    BY <1>2, <1>3, <2>2
<1>6. rank = [k \in D |-> Cardinality({j \in D : Before(j, k)})]
  <2>1. \A k \in D : {j \in D : <<j, k>> \in R} = {j \in D : Before(j, k)}
    BY <1>3
  <2> HIDE DEF Before
  <2> QED
    BY <2>1 DEF Ranks
<1> DEFINE at == [k \in 1 .. n |-> CHOOSE j \in D : rank[j] = k - 1]
           t == [k \in D |-> s[at[k]]]
<1>7. SortPrefixes(s) = t
  <2> DEFINE place == [k \in D |-> Cardinality({j \in D : Before(j, k)})]
  <2>1. SortPrefixes(s) = [k \in D |-> s[CHOOSE j \in D : place[j] = k - 1]]
    BY DEF SortPrefixes, D
  <2>2. rank = place
    BY <1>6
  <2> HIDE DEF rank, place
  <2>3. SortPrefixes(s) = [k \in D |-> s[CHOOSE j \in D : rank[j] = k - 1]]
    BY <2>1, <2>2, Zenon
  <2>4. \A k \in D : at[k] = CHOOSE j \in D : rank[j] = k - 1
    BY <1>1
  <2> HIDE DEF at
  <2> QED
    BY <2>3, <2>4
<1> HIDE DEF rank
<1>8. \A k \in 1 .. n : at[k] \in D /\ rank[at[k]] = k - 1
  BY <1>5
<1> HIDE DEF at
<1>9. t \in [1 .. n -> Prefix] /\ \A k \in 1 .. n : t[k] = s[at[k]]
  BY <1>1, <1>8
<1> HIDE DEF t
<1>10. t \in Seq(Prefix) /\ Len(t) = n /\ DOMAIN t = 1 .. n
  BY <1>1, <1>9
<1>11. ASSUME NEW j \in D
       PROVE  \E k \in 1 .. n : t[k] = s[j]
  <2>1. rank[j] + 1 \in 1 .. n
    BY <1>1, <1>5
  <2>2. at[rank[j] + 1] \in D /\ rank[at[rank[j] + 1]] = rank[j]
    BY <1>5, <1>8, <2>1
  <2>3. at[rank[j] + 1] = j
    BY <1>5, <2>2
  <2> QED
    BY <1>9, <2>1, <2>3
<1>12. ToSet(t) = ToSet(s)
  <2>1. \A k \in 1 .. n : t[k] \in ToSet(s)
    BY <1>8, <1>9 DEF ToSet, D
  <2> QED
    BY <1>10, <1>11, <2>1 DEF ToSet, D
<1>13. ASSUME NEW j \in 1 .. n, NEW k \in 1 .. n, j < k
       PROVE  SortsBefore(t[j], t[k]) \/ t[j] = t[k]
  <2>1. at[j] \in D /\ at[k] \in D /\ rank[at[j]] = j - 1 /\ rank[at[k]] = k - 1
    BY <1>8
  <2>2. ~Before(at[k], at[j]) /\ at[j] # at[k]
    BY <1>5, <1>13, <2>1
  <2>3. Before(at[j], at[k])
    BY <1>4, <2>1, <2>2
  <2> QED
    BY <1>9, <2>3
<1> QED
  BY <1>7, <1>10, <1>12, <1>13 DEF n

(* A prefix sorts after the prefixes that cover it.                        *)
LEMMA CoverSortsBefore ==
    ASSUME NEW p \in Prefix, NEW q \in Prefix, CoveredBy(p, q), p # q
    PROVE  SortsBefore(q, p)
<1>1. /\ p.n \in Bits /\ q.n \in Bits /\ p.bits \in Nat /\ q.bits \in Nat
      /\ q.fam = p.fam /\ q.bits =< p.bits /\ q.n = MaskedN(p.n, q.bits)
  BY DEF Prefix, RawPrefix, CoveredBy
<1>2. p.bits # q.bits
  BY CoveredByOrder
<1>3. ~Less(p.n, q.n)
  <2> SUFFICES ASSUME NEW k \in 1 .. Width, p.n[k] < q.n[k] PROVE FALSE
    BY DEF Less
  <2>1. p.n[k] \in {0, 1}
    BY <1>1 DEF Bits
  <2>2. q.n[k] = IF k <= q.bits THEN p.n[k] ELSE 0
    BY <1>1 DEF MaskedN
  <2> QED
    BY <2>1, <2>2
<1>4. Less(q.n, p.n) \/ q.n = p.n
  BY <1>1, <1>3, LessOrder
<1>5. q.bits < p.bits
  BY <1>1, <1>2
<1> QED
  BY <1>1, <1>4, <1>5 DEF SortsBefore

(* Something that sorts after all of a set comes last.                     *)
LEMMA SortedAppend ==
    ASSUME NEW S \in SUBSET Prefix, IsFiniteSet(S), NEW p \in Prefix,
           \A q \in S : SortsBefore(q, p)
    PROVE  Sorted(S \cup {p}) = Append(Sorted(S), p)
<1> DEFINE T == S \cup {p}
           n == Cardinality(S)
           s == Sorted(S)
           t == Sorted(T)
           Place(X, q) == Cardinality({r \in X : SortsBefore(r, q)})
<1>1. T \in SUBSET Prefix /\ IsFiniteSet(T) /\ Cardinality(T) = n + 1
  <2>1. p \notin S
    BY SortsBeforeOrder
  <2> QED
    BY <2>1, FS_AddElement
<1>2. p \in T /\ \A q \in S : q \in T
  OBVIOUS
<1>3. {r \in T : SortsBefore(r, p)} = S
  BY SortsBeforeOrder
<1>4. ASSUME NEW q \in S
      PROVE  {r \in T : SortsBefore(r, q)} = {r \in S : SortsBefore(r, q)}
  <2>1. ~SortsBefore(p, q)
    BY SortsBeforeOrder
  <2> QED
    BY <2>1
<1> HIDE DEF T
<1>5. /\ s \in Seq(Prefix) /\ Len(s) = n /\ n \in Nat
      /\ \A k \in 1 .. n : s[k] \in S /\ Place(S, s[k]) = k - 1
  BY SortedElements
<1>6. /\ t \in Seq(Prefix) /\ Len(t) = n + 1
      /\ \A k \in 1 .. n + 1 : t[k] \in T /\ Place(T, t[k]) = k - 1
      /\ \A q, r \in T : Place(T, q) = Place(T, r) => q = r
  BY <1>1, SortedElements
<1>7. Place(T, p) = n /\ \A q \in S : Place(T, q) = Place(S, q)
  BY <1>3, <1>4
<1> HIDE DEF s, t, n, Place
<1>8. ASSUME NEW k \in 1 .. n
      PROVE  t[k] = s[k]
  <2>1. k \in 1 .. n + 1 /\ s[k] \in S /\ s[k] \in T /\ t[k] \in T
    BY <1>2, <1>5, <1>6
  <2>2. Place(T, s[k]) = Place(T, t[k])
    BY <1>5, <1>6, <1>7, <2>1
  <2> QED
    BY <1>6, <2>1, <2>2
<1>9. t[n + 1] = p
  <2>1. n + 1 \in 1 .. n + 1 /\ n + 1 - 1 = n
    BY <1>5
  <2>2. t[n + 1] \in T /\ Place(T, t[n + 1]) = n + 1 - 1
    BY <1>5, <1>6, <2>1
  <2> QED
    BY <1>2, <1>6, <1>7, <2>1, <2>2
<1>10. t = Append(s, p)
  <2> DEFINE u == Append(s, p)
  <2>1. u \in Seq(Prefix) /\ Len(u) = n + 1
    BY <1>5
  <2>2. u[n + 1] = p /\ \A k \in 1 .. n : u[k] = s[k]
    BY <1>5
  <2> HIDE DEF u
  <2>3. \A k \in 1 .. n + 1 : k \in 1 .. n \/ k = n + 1
    BY <1>5
  <2>4. \A k \in 1 .. n + 1 : t[k] = u[k]
    BY <1>8, <1>9, <2>2, <2>3
  <2>5. t = u
    BY <1>6, <2>1, <2>4
  <2> QED
    BY <2>5 DEF u
<1> QED
  BY <1>10 DEF s, t, T

(* The prefixes of a set that no other covers.                             *)
Maximal(S) == {p \in S : \A q \in S : CoveredBy(p, q) => q = p}

(* Keeping a prefix that sorts after a set, or is in it, unless the        *)
(* maximal ones of the set cover it, gives the maximal ones with it.       *)
LEMMA KeepMaximal ==
    ASSUME NEW S \in SUBSET Prefix, IsFiniteSet(S), NEW p \in Prefix,
           \A q \in S : SortsBefore(q, p) \/ q = p
    PROVE  KeepUncovered(Sorted(Maximal(S)), p) = Sorted(Maximal(S \cup {p}))
<1> DEFINE M == Maximal(S)
           T == S \cup {p}
<1>1. M \in SUBSET S /\ M \in SUBSET Prefix
  BY DEF Maximal
<1>2. IsFiniteSet(M)
  BY <1>1, FS_Subset
<1>3. ToSet(Sorted(M)) = M
  BY <1>1, <1>2, SortedElements
<1>4. ASSUME NEW q \in S, CoveredBy(q, p)
      PROVE  q = p
  <2> SUFFICES ASSUME q # p PROVE FALSE
    OBVIOUS
  <2>1. SortsBefore(p, q)
    BY <1>4, CoverSortsBefore
  <2>2. SortsBefore(q, p)
    OBVIOUS
  <2> QED
    BY <2>1, <2>2, SortsBeforeOrder
<1>5. CASE \E q \in M : CoveredBy(p, q)
  <2>1. KeepUncovered(Sorted(M), p) = Sorted(M)
    BY <1>3, <1>5 DEF KeepUncovered
  <2>2. PICK q \in M : CoveredBy(p, q)
    BY <1>5
  <2>3. q \in S
    BY <1>1
  <2>4. ASSUME NEW x \in M PROVE x \in Maximal(T)
    <3>1. x \in S /\ \A r \in S : CoveredBy(x, r) => r = x
      BY DEF Maximal
    <3>2. CoveredBy(x, p) => p = x
      BY <1>4, <3>1
    <3> QED
      BY <3>1, <3>2 DEF Maximal
  <2>5. ASSUME NEW x \in Maximal(T) PROVE x \in M
    <3>1. x \in T /\ \A r \in T : CoveredBy(x, r) => r = x
      BY DEF Maximal
    <3>2. x \in S
      BY <2>2, <2>3, <3>1
    <3> QED
      BY <3>1, <3>2 DEF Maximal
  <2>6. Maximal(T) = M
    BY <2>4, <2>5
  <2> QED
    BY <2>1, <2>6
<1>6. CASE ~\E q \in M : CoveredBy(p, q)
  <2>1. KeepUncovered(Sorted(M), p) = Append(Sorted(M), p)
    BY <1>3, <1>6 DEF KeepUncovered
  <2>2. ASSUME NEW q \in S PROVE ~CoveredBy(p, q)
    <3> SUFFICES ASSUME CoveredBy(p, q) PROVE FALSE
      OBVIOUS
    <3>1. PICK r \in M : CoveredBy(q, r)
      BY MaximalCovers DEF Maximal
    <3>2. CoveredBy(p, r)
      BY <1>1, <3>1, CoveredByOrder
    <3> QED
      BY <1>6, <3>2
  <2>3. p \notin S
    BY <2>2, CoveredByOrder
  <2>4. ASSUME NEW x \in M \cup {p} PROVE x \in Maximal(T)
    <3>1. CASE x = p
      BY <2>2, <3>1 DEF Maximal
    <3>2. CASE x \in M
      <4>1. x \in S /\ \A r \in S : CoveredBy(x, r) => r = x
        BY <3>2 DEF Maximal
      <4>2. ~CoveredBy(x, p)
        BY <1>4, <2>3, <4>1
      <4> QED
        BY <4>1, <4>2 DEF Maximal
    <3> QED
      BY <3>1, <3>2
  <2>5. ASSUME NEW x \in Maximal(T) PROVE x \in M \cup {p}
    BY DEF Maximal
  <2>6. Maximal(T) = M \cup {p}
    BY <2>4, <2>5
  <2>7. \A q \in M : SortsBefore(q, p)
    BY <1>1, <2>3
  <2>8. Sorted(M \cup {p}) = Append(Sorted(M), p)
    BY <1>1, <1>2, <2>7, SortedAppend
  <2> QED
    BY <2>1, <2>6, <2>8
<1> QED
  BY <1>5, <1>6

(* A set of positions has a last one.                                      *)
LEMMA LastPosition ==
    ASSUME NEW n \in Nat, NEW s \in SUBSET (1 .. n), s # {}
    PROVE  Max(s) \in s /\ \A k \in s : k <= Max(s)
<1> DEFINE L == {n - k : k \in s}
<1>1. L \in SUBSET Nat /\ L # {}
  <2>1. \A k \in s : n - k \in Nat
    OBVIOUS
  <2>2. PICK k \in s : TRUE
    OBVIOUS
  <2> QED
    BY <2>1, <2>2
<1>2. PICK l \in L : \A m \in L : l =< m
  BY <1>1, LeastOfNats
<1>3. PICK x \in s : l = n - x
  BY <1>2
<1>4. \A k \in s : x >= k
  BY <1>2, <1>3
<1>5. Max(s) \in s /\ \A k \in s : Max(s) >= k
  BY <1>4, Zenon DEF Max
<1> QED
  BY <1>5

(* The loop computes what RemoveCovered is defined to be, for every list:  *)
(* the recursion that the fold unfolds to has one solution, the maximal    *)
(* prefixes among those at the positions folded, in order.                 *)
LEMMA LoopRemovesCovered ==
    ASSUME NEW s \in Seq(Prefix)
    PROVE  RemoveCoveredLoop(s) = RemoveCovered(s)
<1> DEFINE t == SortPrefixes(s)
           n == Len(s)
           D == DOMAIN t
           At(x) == {t[k] : k \in x}
           Solves(g) == g = [x \in SUBSET D |->
                               IF x = {} THEN <<>>
                               ELSE KeepUncovered(g[x \ {Max(x)}], t[Max(x)])]
           h == [x \in SUBSET D |-> Sorted(Maximal(At(x)))]
           f == CHOOSE g : Solves(g)
<1>1. /\ t \in Seq(Prefix) /\ Len(t) = n /\ n \in Nat /\ D = 1 .. n
      /\ ToSet(t) = ToSet(s)
      /\ \A j, k \in 1 .. n : j < k => SortsBefore(t[j], t[k]) \/ t[j] = t[k]
  BY SortPrefixesElements
<1>2. RemoveCoveredLoop(s) = f[D]
  BY DEF RemoveCoveredLoop, FoldLeft, MapThenFoldSet
<1> HIDE DEF t, n
<1>3. IsFiniteSet(D) /\ \A k \in D : t[k] \in Prefix
  BY <1>1, FS_Interval
<1> HIDE DEF D
<1>4. ASSUME NEW x \in SUBSET D
      PROVE  At(x) \in SUBSET Prefix /\ IsFiniteSet(At(x)) /\ IsFiniteSet(x)
  <2>1. IsFiniteSet(x)
    BY <1>3, FS_Subset
  <2>2. [k \in x |-> t[k]] \in Surjection(x, At(x))
    BY DEF Surjection
  <2>3. IsFiniteSet(At(x))
    BY <2>1, <2>2, FS_Surjection
  <2> QED
    BY <1>3, <2>1, <2>3
<1>5. ASSUME NEW x \in SUBSET D
      PROVE  h[x] = IF x = {} THEN <<>> ELSE KeepUncovered(h[x \ {Max(x)}], t[Max(x)])
  <2>1. CASE x = {}
    <3>1. Maximal(At(x)) = {}
      BY <2>1 DEF Maximal
    <3>2. Sorted({}) \in Seq(Prefix) /\ Len(Sorted({})) = 0
      BY FS_EmptySet, SortedElements
    <3>3. Sorted({}) = <<>>
      BY <3>2
    <3> QED
      BY <2>1, <3>1, <3>3
  <2>2. CASE x # {}
    <3> DEFINE m == Max(x)
               y == x \ {m}
    <3>1. m \in x /\ \A k \in x : k <= m
      BY <1>1, <2>2, LastPosition
    <3> HIDE DEF m
    <3>2. y \in SUBSET D /\ m \in D /\ At(x) = At(y) \cup {t[m]}
      BY <3>1
    <3>3. \A q \in At(y) : SortsBefore(q, t[m]) \/ q = t[m]
      <4> SUFFICES ASSUME NEW k \in y PROVE SortsBefore(t[k], t[m]) \/ t[k] = t[m]
        OBVIOUS
      <4>1. k \in 1 .. n /\ m \in 1 .. n /\ k < m
        BY <1>1, <3>1, <3>2
      <4> QED
        BY <1>1, <4>1
    <3> HIDE DEF y
    <3>4. At(y) \in SUBSET Prefix /\ IsFiniteSet(At(y)) /\ t[m] \in Prefix
      BY <1>3, <1>4, <3>2
    <3> HIDE DEF At
    <3>5. KeepUncovered(Sorted(Maximal(At(y))), t[m]) = Sorted(Maximal(At(x)))
      BY <3>2, <3>3, <3>4, KeepMaximal
    <3>6. h[y] = Sorted(Maximal(At(y))) /\ h[x] = Sorted(Maximal(At(x)))
      BY <3>2
    <3> QED
      BY <2>2, <3>5, <3>6 DEF m, y
  <2> QED
    BY <2>1, <2>2
<1>6. Solves(h)
  <2>1. h = [x \in SUBSET D |-> h[x]]
    OBVIOUS
  <2> HIDE DEF h
  <2> QED
    BY <1>5, <2>1
<1>7. Solves(f)
  BY <1>6
<1> HIDE DEF f, h
<1>8. f[D] = h[D]
  <2> DEFINE B == {x \in SUBSET D : f[x] # h[x]}
             L == {Cardinality(x) : x \in B}
  <2> SUFFICES ASSUME f[D] # h[D] PROVE FALSE
    OBVIOUS
  <2>1. L \in SUBSET Nat /\ L # {}
    <3>1. \A x \in B : Cardinality(x) \in Nat
      BY <1>4, FS_CardinalityType
    <3>2. D \in B
      OBVIOUS
    <3> QED
      BY <3>1, <3>2
  <2>2. PICK l \in L : \A m \in L : l =< m
    BY <2>1, LeastOfNats
  <2>3. PICK x \in B : l = Cardinality(x)
    BY <2>2
  <2>4. x \in SUBSET D /\ f[x] # h[x] /\ IsFiniteSet(x)
    BY <1>4
  <2>5. x # {}
    BY <1>6, <1>7, <2>4
  <2>6. Max(x) \in x
    BY <1>1, <2>4, <2>5, LastPosition
  <2> DEFINE y == x \ {Max(x)}
  <2>7. y \in SUBSET D /\ Cardinality(y) = l - 1 /\ l \in Nat
    BY <2>1, <2>3, <2>4, <2>6, FS_RemoveElement
  <2>8. y \notin B
    <3>1. ASSUME y \in B PROVE FALSE
      <4>1. l - 1 \in L
        BY <2>7, <3>1
      <4> QED
        BY <2>2, <2>7, <4>1
    <3> QED
      BY <3>1
  <2>9. f[y] = h[y]
    BY <2>7, <2>8
  <2>10. f[x] = KeepUncovered(f[y], t[Max(x)])
    BY <1>7, <2>4, <2>5
  <2>11. h[x] = KeepUncovered(h[y], t[Max(x)])
    BY <1>6, <2>4, <2>5
  <2> QED
    BY <2>4, <2>9, <2>10, <2>11
<1>9. h[D] = Sorted(Maximal(ToSet(s)))
  <2>1. At(D) = ToSet(t)
    BY DEF ToSet, D
  <2> QED
    BY <1>1, <2>1 DEF h
<1>10. RemoveCovered(s) = Sorted(Maximal(ToSet(s)))
  BY DEF RemoveCovered, Maximal
<1> QED
  BY <1>2, <1>8, <1>9, <1>10

-----------------------------------------------------------------------------
(* The shortest list *)

(* A masked prefix has no bit set beyond its length.                       *)
LEMMA HostBitsZero ==
    ASSUME NEW p \in Prefix
    PROVE  /\ p.fam \in Fams /\ p.n \in Bits /\ p.bits \in 0 .. Width
           /\ \A k \in 1 .. Width : p.bits < k => p.n[k] = 0
<1>1. p.fam \in Fams /\ p.n \in Bits /\ p.bits \in 0 .. Width /\ p.n = MaskedN(p.n, p.bits)
  BY DEF Prefix, RawPrefix, Masked
<1>2. ASSUME NEW k \in 1 .. Width, p.bits < k
      PROVE  p.n[k] = 0
  <2>1. ~(k =< p.bits)
    BY <1>1, <1>2
  <2> QED
    BY <1>1, <2>1 DEF MaskedN
<1> QED
  BY <1>1, <1>2

(* mergePair takes two halves of one prefix: the same bits but the last.   *)
LEMMA MergeableBits ==
    ASSUME NEW a \in Prefix, NEW b \in Prefix
    PROVE  Mergeable(a, b) <=> /\ a.fam = b.fam /\ a.bits = b.bits /\ a.bits # 0 /\ a # b
                               /\ \A k \in 1 .. Width : k < a.bits => a.n[k] = b.n[k]
<1>1. /\ a.n \in Bits /\ a.bits \in 0 .. Width
      /\ b.n \in Bits /\ b.bits \in 0 .. Width
  BY DEF Prefix, RawPrefix
<1> SUFFICES ASSUME a.fam = b.fam, a.bits = b.bits, a.bits # 0
             PROVE  Parent(a) = Parent(b) <=> \A k \in 1 .. Width : k < a.bits => a.n[k] = b.n[k]
  BY DEF Mergeable
<1>2. /\ Parent(a) = [fam |-> a.fam, n |-> MaskedN(a.n, a.bits - 1), bits |-> a.bits - 1]
      /\ Parent(b) = [fam |-> a.fam, n |-> MaskedN(b.n, a.bits - 1), bits |-> a.bits - 1]
  BY DEF Parent, Masked, Prefix, RawPrefix
<1>3. Parent(a) = Parent(b) <=> MaskedN(a.n, a.bits - 1) = MaskedN(b.n, a.bits - 1)
  BY <1>2
<1>4. MaskedN(a.n, a.bits - 1) = MaskedN(b.n, a.bits - 1)
        <=> \A k \in 1 .. Width : MaskedN(a.n, a.bits - 1)[k] = MaskedN(b.n, a.bits - 1)[k]
  BY DEF MaskedN
<1>5. \A k \in 1 .. Width : k =< a.bits - 1 <=> k < a.bits
  BY <1>1, WidthAssumption
<1>6. ASSUME NEW k \in 1 .. Width
      PROVE  MaskedN(a.n, a.bits - 1)[k] = MaskedN(b.n, a.bits - 1)[k] <=> (k < a.bits => a.n[k] = b.n[k])
  BY <1>5 DEF MaskedN
<1> QED
  BY <1>3, <1>4, <1>6

(* Two halves of one prefix differ in the last bit of their length.        *)
LEMMA MergeableLast ==
    ASSUME NEW a \in Prefix, NEW b \in Prefix, Mergeable(a, b)
    PROVE  a.bits \in 1 .. Width /\ a.n[a.bits] # b.n[a.bits]
<1>1. a.bits \in 1 .. Width /\ b.bits = a.bits /\ a.fam = b.fam
  BY WidthAssumption DEF Mergeable, Prefix, RawPrefix
<1>2. \A k \in 1 .. Width : k < a.bits => a.n[k] = b.n[k]
  BY MergeableBits
<1> SUFFICES ASSUME a.n[a.bits] = b.n[a.bits] PROVE FALSE
  BY <1>1
<1>3. \A k \in 1 .. Width : k =< a.bits => b.n[k] = a.n[k]
  <2> SUFFICES ASSUME NEW k \in 1 .. Width, k =< a.bits PROVE b.n[k] = a.n[k]
    OBVIOUS
  <2>1. k = a.bits \/ k < a.bits
    BY <1>1
  <2> QED
    BY <1>2, <2>1
<1>4. b = a
  BY <1>1, <1>3, CoveredByBits, CoveredByOrder
<1> QED
  BY <1>4 DEF Mergeable

(* Looking at neighbours is enough: what sorts between the two halves of a *)
(* prefix is covered by the first of them or covers it.                    *)
LEMMA NothingBetweenHalves ==
    ASSUME NEW S \in SUBSET Prefix, Antichain(S),
           NEW a \in S, NEW b \in S, NEW c \in S, Mergeable(a, b),
           SortsBefore(a, c), SortsBefore(c, b)
    PROVE  FALSE
<1> DEFINE m == a.bits
<1>1. /\ m \in 1 .. Width /\ b.bits = m /\ a.n[m] # b.n[m] /\ b.fam = a.fam
      /\ \A k \in 1 .. Width : k < m => a.n[k] = b.n[k]
  BY MergeableBits, MergeableLast DEF Mergeable
<1>2. /\ a.fam \in Nat /\ b.fam \in Nat /\ c.fam \in Nat /\ c.bits \in 0 .. Width
      /\ \A k \in 1 .. Width : a.n[k] \in {0, 1} /\ b.n[k] \in {0, 1} /\ c.n[k] \in {0, 1}
  <2>1. ASSUME NEW p \in S
        PROVE  p.fam \in Nat /\ p.bits \in 0 .. Width /\ \A k \in 1 .. Width : p.n[k] \in {0, 1}
    <3>1. p.fam \in Fams /\ p.n \in Bits /\ p.bits \in 0 .. Width
      BY HostBitsZero
    <3>2. p.fam \in Nat
      BY <3>1 DEF Fams
    <3>3. \A k \in 1 .. Width : p.n[k] \in {0, 1}
      BY <3>1 DEF Bits
    <3> QED
      BY <3>1, <3>2, <3>3
  <2> QED
    BY <2>1
<1>3. a.n \in Bits /\ b.n \in Bits /\ c.n \in Bits /\ Width \in Nat
  BY WidthAssumption DEF Prefix, RawPrefix
<1>4. ASSUME NEW p \in Prefix, NEW k \in 1 .. Width, p.bits < k
      PROVE  p.n[k] = 0
  BY <1>4, HostBitsZero
<1>5. c.fam = a.fam
  BY <1>1, <1>2 DEF SortsBefore
<1>6. /\ Less(a.n, c.n) \/ a.n = c.n
      /\ Less(c.n, b.n) \/ (c.n = b.n /\ c.bits < m)
  BY <1>1, <1>2, <1>5 DEF SortsBefore
<1>7. \A k \in 1 .. Width : k < m => c.n[k] = a.n[k]
  <2> DEFINE D == {k \in 1 .. Width : k < m /\ c.n[k] # a.n[k]}
  <2> SUFFICES ASSUME D # {} PROVE FALSE
    OBVIOUS
  <2>1. D \in SUBSET Nat
    OBVIOUS
  <2>2. PICK k \in D : \A j \in D : k =< j
    BY <2>1, LeastOfNats
  <2>3. \A j \in 1 .. Width : j < k => c.n[j] = a.n[j] /\ c.n[j] = b.n[j]
    BY <1>1, <1>3, <2>2
  <2>4. c.n[k] # a.n[k] /\ c.n[k] # b.n[k] /\ k \in 1 .. Width /\ a.n[k] = b.n[k]
    BY <1>1, <2>2
  <2> HIDE DEF D
  <2>5. Less(a.n, c.n) /\ Less(c.n, b.n)
    BY <1>6, <2>4
  <2>6. PICK x \in 1 .. Width : a.n[x] < c.n[x] /\ \A j \in 1 .. x - 1 : a.n[j] = c.n[j]
    BY <2>5 DEF Less
  <2>7. PICK y \in 1 .. Width : c.n[y] < b.n[y] /\ \A j \in 1 .. y - 1 : c.n[j] = b.n[j]
    BY <2>5 DEF Less
  <2>8. x = k
    <3>1. ~(x < k)
      BY <1>2, <2>3, <2>6
    <3>2. ~(k < x)
      BY <2>4, <2>6
    <3> QED
      BY <2>4, <3>1, <3>2
  <2>9. y = k
    <3>1. ~(y < k)
      BY <1>2, <2>3, <2>7
    <3>2. ~(k < y)
      BY <2>4, <2>7
    <3> QED
      BY <2>4, <3>1, <3>2
  <2> QED
    BY <1>2, <2>4, <2>6, <2>7, <2>8, <2>9
<1>8. CASE c.n[m] = a.n[m]
  <2>1. \A k \in 1 .. Width : k =< m => c.n[k] = a.n[k]
    <3> SUFFICES ASSUME NEW k \in 1 .. Width, k =< m PROVE c.n[k] = a.n[k]
      OBVIOUS
    <3>1. k = m \/ k < m
      BY <1>1
    <3> QED
      BY <1>7, <1>8, <3>1
  <2>2. CoveredBy(c, a) \/ CoveredBy(a, c)
    <3>1. CASE m =< c.bits
      BY <1>5, <2>1, <3>1, CoveredByBits
    <3>2. CASE c.bits =< m
      <4>1. \A k \in 1 .. Width : k =< c.bits => a.n[k] = c.n[k]
        BY <1>1, <1>2, <2>1, <3>2
      <4> QED
        BY <1>5, <3>2, <4>1, CoveredByBits
    <3> QED
      BY <1>1, <1>2, <3>1, <3>2
  <2>3. c = a
    BY <2>2 DEF Antichain
  <2> QED
    BY <2>3, SortsBeforeOrder
<1>9. CASE c.n[m] # a.n[m]
  <2>1. c.n[m] = b.n[m]
    BY <1>1, <1>2, <1>9
  <2>2. \A k \in 1 .. Width : k =< m => c.n[k] = b.n[k]
    <3> SUFFICES ASSUME NEW k \in 1 .. Width, k =< m PROVE c.n[k] = b.n[k]
      OBVIOUS
    <3>1. k = m \/ k < m
      BY <1>1
    <3> QED
      BY <1>1, <1>7, <2>1, <3>1
  <2>3. ~Less(c.n, b.n)
    <3> SUFFICES ASSUME NEW k \in 1 .. Width, c.n[k] < b.n[k] PROVE FALSE
      BY DEF Less
    <3>1. ~(k =< m)
      BY <1>2, <2>2
    <3>2. b.n[k] = 0
      BY <1>1, <1>4, <3>1
    <3> QED
      BY <1>2, <3>2
  <2>4. c.n = b.n /\ c.bits < m
    BY <1>6, <2>3
  <2>5. c.n[m] = 0 /\ b.n[m] = 0 /\ a.n[m] = 1
    BY <1>1, <1>2, <1>4, <2>1, <2>4
  <2>6. ~Less(a.n, b.n)
    <3> SUFFICES ASSUME NEW k \in 1 .. Width, a.n[k] < b.n[k], \A j \in 1 .. k - 1 : a.n[j] = b.n[j]
                 PROVE  FALSE
      BY DEF Less
    <3>1. ~(k < m)
      BY <1>1, <1>2
    <3>2. ~(k = m)
      BY <1>2, <2>5
    <3>3. m \in 1 .. k - 1
      BY <1>1, <3>1, <3>2
    <3> QED
      BY <1>1, <3>3
  <2> QED
    BY <1>1, <1>6, <2>4, <2>6
<1> QED
  BY <1>8, <1>9

(* So in a sorted list without covered prefixes the two halves of a prefix *)
(* are neighbours: where no neighbours merge, no two merge.                *)
LEMMA NeighboursSuffice ==
    ASSUME NEW s \in Seq(Prefix), Ordered(s), Antichain(ToSet(s)),
           \A k \in 1 .. Len(s) - 1 : ~Mergeable(s[k], s[k + 1])
    PROVE  \A p, q \in ToSet(s) : ~Mergeable(p, q)
<1>1. Len(s) \in Nat /\ DOMAIN s = 1 .. Len(s) /\ ToSet(s) \in SUBSET Prefix
  BY DEF ToSet
<1>2. ASSUME NEW j \in 1 .. Len(s), NEW k \in 1 .. Len(s), j < k, Mergeable(s[j], s[k])
      PROVE  FALSE
  <2>1. s[j] \in ToSet(s) /\ s[k] \in ToSet(s)
    BY <1>1 DEF ToSet
  <2>2. CASE k = j + 1
    BY <1>1, <1>2, <2>2
  <2>3. CASE j + 1 < k
    <3>1. j + 1 \in 1 .. Len(s) /\ j < j + 1
      BY <1>1, <2>3
    <3>2. s[j + 1] \in ToSet(s) /\ SortsBefore(s[j], s[j + 1]) /\ SortsBefore(s[j + 1], s[k])
      BY <1>1, <2>3, <3>1 DEF ToSet, Ordered
    <3> QED
      BY <1>1, <1>2, <2>1, <3>2, NothingBetweenHalves
  <2> QED
    BY <1>1, <1>2, <2>2, <2>3
<1> SUFFICES ASSUME NEW p \in ToSet(s), NEW q \in ToSet(s), Mergeable(p, q)
             PROVE  FALSE
  OBVIOUS
<1>3. PICK j \in 1 .. Len(s), k \in 1 .. Len(s) : p = s[j] /\ q = s[k]
  BY <1>1 DEF ToSet
<1>4. Mergeable(q, p)
  BY DEF Mergeable
<1>5. j # k
  BY <1>3 DEF Mergeable
<1> QED
  BY <1>1, <1>2, <1>3, <1>4, <1>5

(* A prefix with room for one more bit has two halves, which merge.        *)
LEMMA HalvesOf ==
    ASSUME NEW q \in Prefix, q.bits < Width
    PROVE  \E g, h \in Prefix : /\ Mergeable(g, h)
                                /\ g.bits = q.bits + 1 /\ h.bits = q.bits + 1
                                /\ CoveredBy(g, q) /\ CoveredBy(h, q)
                                /\ AddrsOf(g) \subseteq AddrsOf(q) /\ AddrsOf(h) \subseteq AddrsOf(q)
<1> DEFINE m == q.bits + 1
           Half(v) == [fam |-> q.fam, n |-> [q.n EXCEPT ![m] = v], bits |-> m]
<1>1. q.fam \in Fams /\ q.n \in Bits /\ q.bits \in 0 .. Width /\ m \in 1 .. Width
  BY WidthAssumption DEF Prefix, RawPrefix
<1>2. \A k \in 1 .. Width : q.bits < k => q.n[k] = 0
  BY HostBitsZero
<1>3. ASSUME NEW v \in {0, 1}
      PROVE  /\ Half(v) \in Prefix
             /\ Half(v).fam = q.fam /\ Half(v).bits = m /\ Half(v).n[m] = v
             /\ \A k \in 1 .. Width : k < m => Half(v).n[k] = q.n[k]
  <2> DEFINE n == [q.n EXCEPT ![m] = v]
  <2>1. n \in Bits /\ n[m] = v /\ \A k \in 1 .. Width : k # m => n[k] = q.n[k]
    BY <1>1 DEF Bits
  <2>2. \A k \in 1 .. Width : ~(k =< m) => n[k] = 0
    BY <1>1, <1>2, <2>1
  <2> HIDE DEF n
  <2>3. MaskedN(n, m) = n
    <3>1. n = [k \in 1 .. Width |-> n[k]]
      BY <2>1 DEF Bits
    <3>2. \A k \in 1 .. Width : n[k] = IF k =< m THEN n[k] ELSE 0
      BY <2>2
    <3> QED
      BY <3>1, <3>2 DEF MaskedN
  <2>4. Half(v) = [fam |-> q.fam, n |-> n, bits |-> m]
    BY DEF n
  <2>5. Half(v) \in RawPrefix /\ Masked(Half(v)) = Half(v)
    BY <1>1, <2>1, <2>3, <2>4 DEF RawPrefix, Masked
  <2>6. \A k \in 1 .. Width : k < m => n[k] = q.n[k]
    BY <1>1, <2>1
  <2>7. Half(v).fam = q.fam /\ Half(v).bits = m /\ Half(v).n = n
    BY <2>4
  <2> HIDE DEF Half
  <2>8. Half(v) \in Prefix
    BY <2>5 DEF Prefix
  <2> QED
    BY <2>1, <2>6, <2>7, <2>8
<1> DEFINE g == Half(0)
           h == Half(1)
<1>4. /\ g \in Prefix /\ g.fam = q.fam /\ g.bits = m /\ g.n[m] = 0
      /\ \A k \in 1 .. Width : k < m => g.n[k] = q.n[k]
  BY <1>3
<1>5. /\ h \in Prefix /\ h.fam = q.fam /\ h.bits = m /\ h.n[m] = 1
      /\ \A k \in 1 .. Width : k < m => h.n[k] = q.n[k]
  BY <1>3
<1> HIDE DEF g, h, Half
<1>6. CoveredBy(g, q) /\ CoveredBy(h, q)
  BY <1>1, <1>4, <1>5, CoveredByBits
<1>7. Mergeable(g, h)
  <2>1. g # h /\ g.bits # 0
    BY <1>1, <1>4, <1>5
  <2> QED
    BY <1>1, <1>4, <1>5, <2>1, MergeableBits
<1> QED
  BY <1>4, <1>5, <1>6, <1>7, CoveredByOrder

(* Where no prefix covers another and no two merge, every prefix whose     *)
(* addresses are all there is covered by one of the list.                  *)
LEMMA CoveredWhole ==
    ASSUME NEW S \in SUBSET Prefix, \A p, q \in S : ~Mergeable(p, q)
    PROVE  \A q \in Prefix : AddrsOf(q) \subseteq AddrsIn(S) => \E l \in S : CoveredBy(q, l)
<1> DEFINE Bad == {q \in Prefix : AddrsOf(q) \subseteq AddrsIn(S) /\ \A l \in S : ~CoveredBy(q, l)}
           L == {Width - q.bits : q \in Bad}
<1> SUFFICES ASSUME Bad # {} PROVE FALSE
  OBVIOUS
<1>1. \A q \in Prefix : q.bits \in 0 .. Width /\ q.fam \in Fams /\ q.n \in Bits
  BY DEF Prefix, RawPrefix
<1>2. L \in SUBSET Nat /\ L # {}
  BY <1>1, WidthAssumption
<1>3. PICK x \in L : \A y \in L : x =< y
  BY <1>2, LeastOfNats
<1>4. PICK q \in Bad : x = Width - q.bits
  BY <1>3
<1>5. ASSUME NEW p \in Prefix, AddrsOf(p) \subseteq AddrsOf(q), p.bits = q.bits + 1
      PROVE  \E l \in S : CoveredBy(p, l)
  <2> SUFFICES ASSUME p \in Bad PROVE FALSE
    BY <1>4, <1>5
  <2>1. Width - q.bits =< Width - p.bits
    BY <1>3, <1>4
  <2> QED
    BY <1>1, <1>5, <2>1, WidthAssumption
<1> HIDE DEF L
<1>6. CASE q.bits = Width
  <2> DEFINE a == [fam |-> q.fam, n |-> q.n]
  <2>1. a \in Addr /\ a.fam = q.fam /\ a.n = q.n
    BY <1>1, <1>4 DEF Addr
  <2> HIDE DEF a
  <2>2. Covers(q, a)
    BY <1>4, <2>1, CoversBits
  <2>3. a \in AddrsOf(q)
    BY <2>1, <2>2 DEF AddrsOf
  <2>4. PICK l \in S : a \in AddrsOf(l)
    BY <1>4, <2>3 DEF AddrsIn
  <2>5. Covers(l, a) /\ l.bits =< q.bits
    BY <1>1, <1>6, <2>4, WidthAssumption DEF AddrsOf
  <2>6. CoveredBy(q, l)
    BY <1>4, <2>1, <2>5 DEF Covers, CoveredBy
  <2> QED
    BY <1>4, <2>6
<1>7. CASE q.bits < Width
  <2>1. PICK g \in Prefix, h \in Prefix :
             /\ Mergeable(g, h)
             /\ g.bits = q.bits + 1 /\ h.bits = q.bits + 1
             /\ CoveredBy(g, q) /\ CoveredBy(h, q)
             /\ AddrsOf(g) \subseteq AddrsOf(q) /\ AddrsOf(h) \subseteq AddrsOf(q)
    BY <1>4, <1>7, HalvesOf
  <2>2. ASSUME NEW p \in Prefix, CoveredBy(p, q), p.bits = q.bits + 1,
               NEW l \in S, CoveredBy(p, l)
        PROVE  l = p
    <3>1. q \in Prefix /\ l \in Prefix
      BY <1>4
    <3>2. ~CoveredBy(q, l)
      BY <1>4
    <3>3. l.bits =< q.bits + 1 /\ l.fam = p.fam /\ q.fam = p.fam
      BY <2>2 DEF CoveredBy
    <3>4. ~(l.bits =< q.bits)
      <4> SUFFICES ASSUME l.bits =< q.bits PROVE CoveredBy(q, l)
        BY <3>2
      <4>1. \A k \in 1 .. Width : k =< q.bits => p.n[k] = q.n[k]
        BY <2>2, <3>1, CoveredByBits
      <4>2. \A k \in 1 .. Width : k =< l.bits => p.n[k] = l.n[k]
        BY <2>2, <3>1, CoveredByBits
      <4>3. \A k \in 1 .. Width : k =< l.bits => q.n[k] = l.n[k]
        BY <1>1, <3>1, <4>1, <4>2
      <4> QED
        BY <3>1, <3>3, <4>3, CoveredByBits
    <3>5. l.bits = p.bits
      BY <1>1, <2>2, <3>1, <3>3, <3>4
    <3> QED
      BY <2>2, <3>1, <3>5, CoveredByOrder
  <2>3. g \in S
    BY <1>5, <2>1, <2>2
  <2>4. h \in S
    BY <1>5, <2>1, <2>2
  <2> QED
    BY <2>1, <2>3, <2>4
<1> QED
  BY <1>1, <1>4, <1>6, <1>7, WidthAssumption

(* Such a list is the set of the maximal prefixes in its address space.    *)
LEMMA ShortestIsAggregated ==
    ASSUME NEW S \in SUBSET Prefix, Antichain(S), \A p, q \in S : ~Mergeable(p, q),
           NEW P, AddrsIn(S) = AddrsIn(P)
    PROVE  S = Aggregated(P)
<1> DEFINE inside == {p \in Prefix : AddrsOf(p) \subseteq AddrsIn(S)}
<1>1. Aggregated(P) = {p \in inside : \A q \in inside : CoveredBy(p, q) => q = p}
  BY DEF Aggregated
<1>2. S \subseteq inside
  BY DEF AddrsIn
<1>3. \A q \in inside : \E l \in S : CoveredBy(q, l)
  BY CoveredWhole
<1> HIDE DEF inside
<1>4. inside \subseteq Prefix
  BY DEF inside
<1>5. ASSUME NEW p \in S, NEW q \in inside, CoveredBy(p, q)
      PROVE  q = p
  <2>1. PICK l \in S : CoveredBy(q, l)
    BY <1>3
  <2>2. CoveredBy(p, l)
    BY <1>4, <1>5, <2>1, CoveredByOrder
  <2>3. l = p
    BY <2>2 DEF Antichain
  <2>4. p.bits = q.bits
    BY <1>4, <1>5, <2>1, <2>3 DEF CoveredBy, Prefix, RawPrefix
  <2> QED
    BY <1>4, <1>5, <2>4, CoveredByOrder
<1>6. ASSUME NEW p \in inside, \A q \in inside : CoveredBy(p, q) => q = p
      PROVE  p \in S
  BY <1>2, <1>3, <1>6
<1> QED
  BY <1>1, <1>2, <1>5, <1>6

-----------------------------------------------------------------------------
(* The loop *)

(* Normalize's masked prefixes are finitely many.                          *)
LEMMA MaskAllFinite ==
    ASSUME NEW S \in SUBSET RawPrefix, IsFiniteSet(S)
    PROVE  IsFiniteSet(MaskAll(S)) /\ MaskAll(S) \in SUBSET Prefix
<1> DEFINE f == [p \in S |-> Masked(p)]
<1>1. f \in Surjection(S, MaskAll(S))
  BY DEF Surjection, MaskAll
<1> HIDE DEF f
<1> QED
  BY <1>1, FS_Surjection, MaskAllType

IInv == TypeOK /\ SameAddresses

(* Starting a pass with a list, or returning it, has that list in hand.    *)
LEMMA NewList ==
    ASSUME IInv, NEW l \in Seq(Prefix), AddrsIn(ToSet(l)) = AddrsIn(MaskAll(raw)),
           BeginPass(l) \/ Return(l), raw' = raw
    PROVE  IInv'
<1>1. TypeOK'
  <2>1. changed' \in BOOLEAN
    BY Zenon DEF IInv, TypeOK, BeginPass, Return
  <2>2. /\ raw' \in Inputs /\ list' \in Seq(Prefix) /\ i' \in Nat \ {0}
        /\ out' \in Seq(Prefix) /\ pc' \in {"start", "scan", "done"}
    <3>1. <<>> \in Seq(Prefix)
      OBVIOUS
    <3>2. CASE BeginPass(l)
      BY <3>1, <3>2 DEF IInv, TypeOK, BeginPass
    <3>3. CASE Return(l)
      BY <3>3 DEF IInv, TypeOK, Return
    <3> QED
      BY <3>2, <3>3
  <2> QED
    BY <2>1, <2>2 DEF TypeOK
<1>2. InHand' = ToSet(l)
  <2>1. CASE BeginPass(l)
    <3>1. ToSet(<<>>) = {}
      BY DEF ToSet
    <3>2. ToSet(l) = {l[k] : k \in 1 .. Len(l)}
      BY DEF ToSet
    <3> QED
      BY <2>1, <3>1, <3>2 DEF BeginPass, InHand
  <2>2. CASE Return(l)
    BY <2>2 DEF Return, InHand
  <2> QED
    BY <2>1, <2>2
<1> QED
  BY <1>1, <1>2 DEF IInv, SameAddresses

(* Appending to a list adds one element.                                   *)
LEMMA AppendElements ==
    ASSUME NEW S, NEW s \in Seq(S), NEW e \in S
    PROVE  Append(s, e) \in Seq(S) /\ ToSet(Append(s, e)) = ToSet(s) \cup {e}
<1>1. /\ Append(s, e) \in Seq(S)
      /\ Len(Append(s, e)) = Len(s) + 1
      /\ \A k \in 1 .. Len(s) : Append(s, e)[k] = s[k]
      /\ Append(s, e)[Len(s) + 1] = e
  OBVIOUS
<1>2. ToSet(Append(s, e)) \subseteq ToSet(s) \cup {e}
  <2> SUFFICES ASSUME NEW k \in 1 .. Len(s) + 1
               PROVE  Append(s, e)[k] \in ToSet(s) \cup {e}
    BY <1>1 DEF ToSet
  <2>1. k \in 1 .. Len(s) \/ k = Len(s) + 1
    OBVIOUS
  <2> QED
    BY <1>1, <2>1 DEF ToSet
<1>3. ToSet(s) \cup {e} \subseteq ToSet(Append(s, e))
  BY <1>1 DEF ToSet
<1> QED
  BY <1>1, <1>2, <1>3

(* Normalize hands Aggregate a sorted list of exactly the masked input.    *)
LEMMA InitIInv == Init => IInv
<1> SUFFICES ASSUME Init PROVE IInv
  OBVIOUS
<1>1. IsFiniteSet(MaskAll(raw)) /\ MaskAll(raw) \in SUBSET Prefix
  BY InputsAssumption, MaskAllFinite DEF Init
<1>2. list \in Seq(Prefix) /\ ToSet(list) = MaskAll(raw)
  BY <1>1, SortedElements DEF Init
<1>3. TypeOK
  <2>1. changed \in BOOLEAN
    BY Zenon DEF Init
  <2>2. <<>> \in Seq(Prefix)
    OBVIOUS
  <2> QED
    BY <1>2, <2>1, <2>2 DEF Init, TypeOK
<1>4. SameAddresses
  BY <1>2 DEF Init, SameAddresses, InHand
<1> QED
  BY <1>3, <1>4 DEF IInv

(* A turn of mergeOnePass exchanges the addresses of what it takes from    *)
(* the list for the same addresses in what it puts out.                    *)
LEMMA ScanKeeps ==
    ASSUME IInv, ScanMerge \/ ScanKeep
    PROVE  IInv'
<1> DEFINE rest(j) == {list[k] : k \in j .. Len(list)}
<1>1. /\ pc = "scan" /\ pc' = "scan" /\ raw' = raw /\ list' = list
      /\ list \in Seq(Prefix) /\ out \in Seq(Prefix) /\ i \in Nat \ {0}
      /\ Len(list) \in Nat
      /\ AddrsIn(ToSet(out) \cup rest(i)) = AddrsIn(MaskAll(raw))
  BY DEF ScanMerge, ScanKeep, IInv, TypeOK, SameAddresses, InHand
<1>2. \A S, x : x \in AddrsIn(S) <=> \E p \in S : x \in AddrsOf(p)
  BY DEF AddrsIn
<1>4. CASE ScanMerge
  <2> DEFINE a == list[i]
             b == list[i + 1]
  <2>1. i + 1 =< Len(list) /\ Mergeable(a, b)
    BY <1>4 DEF ScanMerge, CanMerge
  <2>2. a \in Prefix /\ b \in Prefix
    BY <1>1, <2>1
  <2>3. Parent(a) \in Prefix /\ AddrsOf(Parent(a)) = AddrsOf(a) \cup AddrsOf(b)
    BY <2>1, <2>2, MergePairExact
  <2>4. out' = Append(out, Parent(a)) /\ i' = i + 2 /\ changed' = TRUE
    BY <1>4 DEF ScanMerge
  <2>5. out' \in Seq(Prefix) /\ ToSet(out') = ToSet(out) \cup {Parent(a)}
    BY <1>1, <2>3, <2>4, AppendElements
  <2>6. rest(i) = ({a} \cup {b}) \cup rest(i + 2)
    BY <1>1, <2>1
  <2> HIDE DEF a, b, rest
  <2>7. AddrsIn(ToSet(out') \cup rest(i + 2)) = AddrsIn(ToSet(out) \cup rest(i))
    <3> SUFFICES ASSUME NEW x
                 PROVE  x \in AddrsIn(ToSet(out') \cup rest(i + 2))
                          <=> x \in AddrsIn(ToSet(out) \cup rest(i))
      OBVIOUS
    <3>1. x \in AddrsOf(Parent(a)) <=> x \in AddrsOf(a) \/ x \in AddrsOf(b)
      BY <2>3
    <3> QED
      BY <1>2, <2>5, <2>6, <3>1
  <2>8. InHand' = ToSet(out') \cup rest(i + 2)
    BY <1>1, <2>4 DEF InHand, rest
  <2>9. TypeOK'
    BY <1>1, <2>4, <2>5 DEF IInv, TypeOK
  <2> QED
    BY <1>1, <2>7, <2>8, <2>9 DEF IInv, SameAddresses
<1>5. CASE ScanKeep
  <2> DEFINE a == list[i]
  <2>1. i =< Len(list) /\ out' = Append(out, a) /\ i' = i + 1 /\ changed' = changed
    BY <1>5 DEF ScanKeep
  <2>2. a \in Prefix
    BY <1>1, <2>1
  <2>3. out' \in Seq(Prefix) /\ ToSet(out') = ToSet(out) \cup {a}
    BY <1>1, <2>1, <2>2, AppendElements
  <2>4. rest(i) = {a} \cup rest(i + 1)
    BY <1>1, <2>1
  <2> HIDE DEF a, rest
  <2>5. ToSet(out') \cup rest(i + 1) = ToSet(out) \cup rest(i)
    BY <2>3, <2>4
  <2>6. InHand' = ToSet(out') \cup rest(i + 1)
    BY <1>1, <2>1 DEF InHand, rest
  <2>7. TypeOK'
    BY <1>1, <2>1, <2>3 DEF IInv, TypeOK
  <2> QED
    BY <1>1, <2>5, <2>6, <2>7 DEF IInv, SameAddresses
<1> QED
  BY <1>4, <1>5

(* Every turn of the loops keeps the types and the addresses.              *)
LEMMA NextIInv == IInv /\ [Next]_vars => IInv'
<1> SUFFICES ASSUME IInv, [Next]_vars PROVE IInv'
  OBVIOUS
<1>1. CASE UNCHANGED vars
  BY <1>1 DEF vars, IInv, TypeOK, SameAddresses, InHand
<1>2. CASE Start
  <2>1. list \in Seq(Prefix) /\ AddrsIn(ToSet(list)) = AddrsIn(MaskAll(raw))
    BY <1>2 DEF Start, IInv, TypeOK, SameAddresses, InHand
  <2>2. /\ RemoveCovered(list) \in Seq(Prefix)
        /\ AddrsIn(ToSet(RemoveCovered(list))) = AddrsIn(MaskAll(raw))
    BY <2>1, RemoveCoveredExact
  <2>3. (Return(list) \/ BeginPass(RemoveCovered(list))) /\ raw' = raw
    BY <1>2 DEF Start
  <2> QED
    BY <2>1, <2>2, <2>3, NewList
<1>3. CASE ScanMerge \/ ScanKeep
  BY <1>3, ScanKeeps
<1>4. CASE EndPass
  <2>1. out \in Seq(Prefix) /\ i \in Nat /\ i > Len(list) /\ Len(list) \in Nat /\ pc = "scan"
    BY <1>4 DEF EndPass, IInv, TypeOK
  <2>2. InHand = ToSet(out)
    BY <2>1 DEF InHand
  <2>3. /\ RemoveCovered(out) \in Seq(Prefix)
        /\ AddrsIn(ToSet(RemoveCovered(out))) = AddrsIn(MaskAll(raw))
    BY <2>1, <2>2, RemoveCoveredExact DEF IInv, SameAddresses
  <2>4. (Return(RemoveCovered(out)) \/ BeginPass(RemoveCovered(out))) /\ raw' = raw
    BY <1>4 DEF EndPass
  <2> QED
    BY <2>3, <2>4, NewList
<1> QED
  BY <1>1, <1>2, <1>3, <1>4 DEF Next

(* Type correctness of the aggregation loop.                               *)
THEOREM AggregateTypeCorrect == Spec => []TypeOK
<1>1. IInv => TypeOK
  BY DEF IInv
<1> QED
  BY <1>1, InitIInv, NextIInv, PTL DEF Spec

(* Whatever the sources deliver, and for 32 and 128 bits as for 3, source. *)
(* Aggregate stands at every point for exactly the addresses Normalize was *)
(* given: no address leaves the tunnel or enters it by aggregation.        *)
THEOREM AggregateKeepsAddresses == Spec => []SameAddresses
<1>1. IInv => SameAddresses
  BY DEF IInv
<1> QED
  BY <1>1, InitIInv, NextIInv, PTL DEF Spec

(* Wherever Aggregate calls removeCovered, on a list in any order and with *)
(* duplicates, the loop over the sorted list leaves exactly the prefixes   *)
(* that no other covers: nothing kept early has to be taken back.          *)
THEOREM LoopMatchesRemoveCovered == Spec => []RemoveCoveredMatchesLoop
<1>1. IInv => RemoveCoveredMatchesLoop
  BY LoopRemovesCovered DEF IInv, TypeOK, RemoveCoveredMatchesLoop
<1> QED
  BY <1>1, InitIInv, NextIInv, PTL DEF Spec

(* What makes neighbours enough: the list is sorted and, while it is       *)
(* scanned, without covered prefixes; a scan that has merged nothing has   *)
(* put out what it read, and no neighbours up to there merge.              *)
ScanInv ==
    /\ Ordered(list)
    /\ pc = "scan" =>
         /\ Antichain(ToSet(list))
         /\ ~changed =>
              /\ Len(out) = i - 1
              /\ i =< Len(list) + 1
              /\ \A k \in 1 .. i - 1 : out[k] = list[k]
              /\ \A k \in 1 .. i - 1 : k < Len(list) => ~Mergeable(list[k], list[k + 1])
    /\ pc = "done" =>
         /\ Antichain(ToSet(list))
         /\ \A p, q \in ToSet(list) : ~Mergeable(p, q)

(* A pass starts at the beginning of its list.                             *)
LEMMA BeginPassScanInv ==
    ASSUME NEW l, Ordered(l), Antichain(ToSet(l)), Len(l) \in Nat, BeginPass(l)
    PROVE  ScanInv'
<1>1. list' = l /\ i' = 1 /\ out' = <<>> /\ pc' = "scan"
  BY DEF BeginPass
<1>2. Len(<<>>) = 0 /\ 1 .. 1 - 1 = {}
  OBVIOUS
<1> QED
  BY <1>1, <1>2 DEF ScanInv

(* Normalize hands Aggregate a sorted list.                                *)
LEMMA InitScanInv == Init => ScanInv
<1> SUFFICES ASSUME Init PROVE ScanInv
  OBVIOUS
<1>1. IsFiniteSet(MaskAll(raw)) /\ MaskAll(raw) \in SUBSET Prefix
  BY InputsAssumption, MaskAllFinite DEF Init
<1>2. Ordered(list) /\ pc = "start"
  BY <1>1, SortedElements DEF Init
<1> QED
  BY <1>2 DEF ScanInv

(* Each turn of the loops keeps it; the pass that merges nothing returns a *)
(* list of which no two prefixes merge.                                    *)
LEMMA NextScanInv == IInv /\ ScanInv /\ [Next]_vars => ScanInv'
<1> SUFFICES ASSUME IInv, ScanInv, [Next]_vars PROVE ScanInv'
  OBVIOUS
<1>0. /\ list \in Seq(Prefix) /\ out \in Seq(Prefix) /\ i \in Nat \ {0}
      /\ Len(list) \in Nat /\ Len(out) \in Nat /\ Ordered(list)
  BY DEF IInv, TypeOK, ScanInv
<1>1. CASE UNCHANGED vars
  BY <1>1 DEF vars, ScanInv
<1>2. CASE Start
  <2>1. CASE Len(list) < 2
    <3>1. list' = list /\ pc' = "done"
      BY <1>2, <2>1 DEF Start, Return
    <3>2. \A p, q \in ToSet(list) : p = q
      BY <1>0, <2>1 DEF ToSet
    <3>3. Antichain(ToSet(list)) /\ \A p, q \in ToSet(list) : ~Mergeable(p, q)
      BY <3>2 DEF Antichain, Mergeable
    <3> QED
      BY <1>0, <3>1, <3>3 DEF ScanInv
  <2>2. CASE ~(Len(list) < 2)
    <3>1. BeginPass(RemoveCovered(list))
      BY <1>2, <2>2 DEF Start
    <3>2. /\ RemoveCovered(list) \in Seq(Prefix)
          /\ Ordered(RemoveCovered(list)) /\ Antichain(ToSet(RemoveCovered(list)))
      BY <1>0, RemoveCoveredExact
    <3>3. Len(RemoveCovered(list)) \in Nat
      BY <3>2
    <3> QED
      BY <3>1, <3>2, <3>3, BeginPassScanInv
  <2> QED
    BY <2>1, <2>2
<1>3. CASE ScanMerge
  <2>1. pc = "scan" /\ changed' = TRUE /\ list' = list /\ pc' = pc
    BY <1>3 DEF ScanMerge
  <2> QED
    BY <2>1 DEF ScanInv
<1>4. CASE ScanKeep
  <2>1. /\ pc = "scan" /\ pc' = pc /\ list' = list /\ changed' = changed
        /\ out' = Append(out, list[i]) /\ i' = i + 1 /\ i =< Len(list) /\ ~CanMerge
    BY <1>4 DEF ScanKeep
  <2>2. Antichain(ToSet(list))
    BY <2>1 DEF ScanInv
  <2>3. ASSUME ~changed
        PROVE  /\ Len(out') = i' - 1
               /\ i' =< Len(list) + 1
               /\ \A k \in 1 .. i' - 1 : out'[k] = list[k]
               /\ \A k \in 1 .. i' - 1 : k < Len(list) => ~Mergeable(list[k], list[k + 1])
    <3>1. /\ Len(out) = i - 1
          /\ \A k \in 1 .. i - 1 : out[k] = list[k]
          /\ \A k \in 1 .. i - 1 : k < Len(list) => ~Mergeable(list[k], list[k + 1])
      BY <2>1, <2>3 DEF ScanInv
    <3>2. list[i] \in Prefix
      BY <1>0, <2>1
    <3>3. /\ Len(out') = Len(out) + 1 /\ out'[Len(out) + 1] = list[i]
          /\ \A k \in 1 .. Len(out) : out'[k] = out[k]
      BY <1>0, <2>1, <3>2
    <3>4. \A k \in 1 .. i' - 1 : k \in 1 .. i - 1 \/ k = i
      BY <1>0, <2>1
    <3>5. i < Len(list) => ~Mergeable(list[i], list[i + 1])
      BY <1>0, <2>1 DEF CanMerge
    <3>6. Len(out') = i' - 1 /\ i' =< Len(list) + 1
      BY <1>0, <2>1, <3>1, <3>3
    <3>7. \A k \in 1 .. i' - 1 : out'[k] = list[k]
      BY <1>0, <3>1, <3>3, <3>4
    <3>8. \A k \in 1 .. i' - 1 : k < Len(list) => ~Mergeable(list[k], list[k + 1])
      BY <3>1, <3>4, <3>5
    <3> QED
      BY <3>6, <3>7, <3>8
  <2> QED
    BY <1>0, <2>1, <2>2, <2>3 DEF ScanInv
<1>5. CASE EndPass
  <2> DEFINE l == RemoveCovered(out)
  <2>1. /\ l \in Seq(Prefix) /\ Ordered(l) /\ Antichain(ToSet(l))
        /\ Antichain(ToSet(out)) => ToSet(l) = ToSet(out)
    BY <1>0, RemoveCoveredExact
  <2>2. Len(l) \in Nat
    BY <2>1
  <2>3. pc = "scan" /\ i > Len(list)
    BY <1>5 DEF EndPass
  <2>4. CASE Settled(l)
    <3>1. list' = l /\ pc' = "done" /\ ~changed
      BY <1>5, <2>4 DEF EndPass, Return, Settled
    <3>2. /\ Antichain(ToSet(list)) /\ Len(out) = i - 1 /\ i =< Len(list) + 1
          /\ \A k \in 1 .. i - 1 : out[k] = list[k]
          /\ \A k \in 1 .. i - 1 : k < Len(list) => ~Mergeable(list[k], list[k + 1])
      BY <2>3, <3>1 DEF ScanInv
    <3>3. i - 1 = Len(list)
      BY <1>0, <2>3, <3>2
    <3>4. ToSet(out) = ToSet(list)
      BY <1>0, <3>2, <3>3 DEF ToSet
    <3>5. \A k \in 1 .. Len(list) - 1 : ~Mergeable(list[k], list[k + 1])
      BY <1>0, <3>2, <3>3
    <3>6. \A p, q \in ToSet(list) : ~Mergeable(p, q)
      BY <1>0, <3>2, <3>5, NeighboursSuffice
    <3>7. ToSet(l) = ToSet(list)
      BY <2>1, <3>2, <3>4
    <3> HIDE DEF l
    <3> QED
      BY <2>1, <3>1, <3>6, <3>7 DEF ScanInv
  <2>5. CASE ~Settled(l)
    <3>1. BeginPass(l)
      BY <1>5, <2>5 DEF EndPass
    <3> HIDE DEF l
    <3> QED
      BY <2>1, <2>2, <3>1, BeginPassScanInv
  <2> QED
    BY <2>4, <2>5
<1> QED
  BY <1>1, <1>2, <1>3, <1>4, <1>5 DEF Next

(* What source.Aggregate returns is the unique shortest list for the       *)
(* addresses it was given, sorted and without duplicates, for every input  *)
(* and every address width: merging neighbours only, and stopping at the   *)
(* first pass that merged none, misses nothing.                            *)
THEOREM AggregateReturnsShortest == Spec => []ReturnsShortest
<1>1. IInv /\ ScanInv => ReturnsShortest
  <2> SUFFICES ASSUME IInv, ScanInv, pc = "done"
               PROVE  /\ ToSet(list) = Aggregated(MaskAll(raw))
                      /\ \A k \in 1 .. Len(list) - 1 : SortsBefore(list[k], list[k + 1])
    BY DEF ReturnsShortest
  <2>1. list \in Seq(Prefix) /\ Len(list) \in Nat
    BY DEF IInv, TypeOK
  <2>2. ToSet(list) \in SUBSET Prefix
    BY <2>1, ToSetFinite
  <2>3. AddrsIn(ToSet(list)) = AddrsIn(MaskAll(raw))
    BY DEF IInv, SameAddresses, InHand
  <2>4. Antichain(ToSet(list)) /\ \A p, q \in ToSet(list) : ~Mergeable(p, q)
    BY DEF ScanInv
  <2>5. ToSet(list) = Aggregated(MaskAll(raw))
    BY <2>2, <2>3, <2>4, ShortestIsAggregated
  <2>6. \A k \in 1 .. Len(list) - 1 : SortsBefore(list[k], list[k + 1])
    BY <2>1 DEF ScanInv, Ordered
  <2> QED
    BY <2>5, <2>6
<1> QED
  BY <1>1, InitIInv, NextIInv, InitScanInv, NextScanInv, PTL DEF Spec

-----------------------------------------------------------------------------
(* Why the loop ends *)

(* removeCovered makes no list longer.                                     *)
LEMMA RemoveCoveredShortens ==
    ASSUME NEW s \in Seq(Prefix)
    PROVE  Len(RemoveCovered(s)) \in 0 .. Len(s)
<1> DEFINE S == ToSet(s)
           n == Len(s)
<1>1. IsFiniteSet(S) /\ S \in SUBSET Prefix
  BY ToSetFinite
<1>2. n \in Nat /\ DOMAIN s = 1 .. n /\ s \in Surjection(1 .. n, S)
  BY DEF Surjection, ToSet
<1> HIDE DEF S, n
<1>3. IsFiniteSet(1 .. n) /\ Cardinality(1 .. n) = n
  <2>1. 1 \in Int /\ n \in Int /\ (IF 1 > n THEN 0 ELSE n - 1 + 1) = n
    BY <1>2
  <2> QED
    BY <2>1, FS_Interval, Zenon
<1>4. Cardinality(S) <= n
  BY <1>2, <1>3, FS_Surjection
<1>5. Maximal(S) \in SUBSET S /\ Maximal(S) \in SUBSET Prefix
  BY <1>1 DEF Maximal
<1>6. IsFiniteSet(Maximal(S)) /\ Cardinality(Maximal(S)) <= Cardinality(S)
  BY <1>1, <1>5, FS_Subset
<1>7. Len(Sorted(Maximal(S))) = Cardinality(Maximal(S)) /\ Cardinality(Maximal(S)) \in Nat
  BY <1>5, <1>6, SortedElements
<1>8. Cardinality(S) \in Nat
  BY <1>1, FS_CardinalityType
<1>9. RemoveCovered(s) = Sorted(Maximal(S))
  BY DEF RemoveCovered, Maximal, S
<1> QED
  BY <1>2, <1>4, <1>6, <1>7, <1>8, <1>9 DEF n

(* A scan puts out no more than it has read, and less once it has merged.  *)
PassInv ==
    pc = "scan" =>
        /\ i \in 1 .. Len(list) + 1
        /\ Len(out) <= i - 1
        /\ changed => Len(out) < i - 1

(* A pass begins at the first prefix, with nothing put out.                *)
LEMMA BeginPassPassInv ==
    ASSUME NEW l \in Seq(Prefix), BeginPass(l)
    PROVE  PassInv'
BY DEF BeginPass, PassInv

(* Every step keeps it.                                                    *)
LEMMA NextPassInv == IInv /\ PassInv /\ [Next]_vars => PassInv'
<1> SUFFICES ASSUME IInv, PassInv, [Next]_vars PROVE PassInv'
  OBVIOUS
<1>1. list \in Seq(Prefix) /\ out \in Seq(Prefix) /\ i \in Nat
  BY DEF IInv, TypeOK
<1>2. CASE UNCHANGED vars
  BY <1>2 DEF vars, PassInv
<1>3. CASE Start
  <2>1. RemoveCovered(list) \in Seq(Prefix)
    BY <1>1, RemoveCoveredExact
  <2>2. BeginPass(RemoveCovered(list)) \/ pc' = "done"
    BY <1>3 DEF Start, Return
  <2>3. CASE pc' = "done"
    BY <2>3 DEF PassInv
  <2> QED
    BY <2>1, <2>2, <2>3, BeginPassPassInv
<1>4. CASE ScanMerge
  <2>1. /\ list' = list /\ i' = i + 2 /\ i + 1 <= Len(list) /\ pc = "scan"
        /\ out' = Append(out, Parent(list[i]))
    BY <1>4 DEF ScanMerge, CanMerge
  <2>2. Len(out') = Len(out) + 1 /\ Len(out) \in Nat /\ Len(list) \in Nat
    BY <1>1, <2>1
  <2> QED
    BY <1>1, <2>1, <2>2 DEF PassInv
<1>5. CASE ScanKeep
  <2>1. /\ list' = list /\ i' = i + 1 /\ i <= Len(list) /\ pc = "scan"
        /\ out' = Append(out, list[i]) /\ changed' = changed
    BY <1>5 DEF ScanKeep
  <2>2. Len(out') = Len(out) + 1 /\ Len(out) \in Nat /\ Len(list) \in Nat
    BY <1>1, <2>1
  <2> QED
    BY <1>1, <2>1, <2>2 DEF PassInv
<1>6. CASE EndPass
  <2>1. RemoveCovered(out) \in Seq(Prefix)
    BY <1>1, RemoveCoveredExact
  <2>2. BeginPass(RemoveCovered(out)) \/ pc' = "done"
    BY <1>6 DEF EndPass, Return
  <2>3. CASE pc' = "done"
    BY <2>3 DEF PassInv
  <2> QED
    BY <2>1, <2>2, <2>3, BeginPassPassInv
<1> QED
  BY <1>2, <1>3, <1>4, <1>5, <1>6 DEF Next

(* A pass that is followed by another has shortened the list.              *)
LEMMA NextShortens ==
    IInv /\ PassInv /\ [Next]_vars =>
        [pc = "scan" /\ i > Len(list) /\ pc' = "scan" => Len(list') < Len(list)]_vars
<1> SUFFICES ASSUME IInv, PassInv, Next, pc = "scan", i > Len(list), pc' = "scan"
             PROVE  Len(list') < Len(list)
  OBVIOUS
<1>1. /\ list \in Seq(Prefix) /\ out \in Seq(Prefix) /\ i \in Nat
      /\ Len(list) \in Nat /\ Len(out) \in Nat
  BY DEF IInv, TypeOK
<1>2. i = Len(list) + 1
  BY <1>1 DEF PassInv
<1>3. EndPass
  BY <1>1 DEF Next, Start, ScanMerge, CanMerge, ScanKeep
<1>4. ~Settled(RemoveCovered(out)) /\ list' = RemoveCovered(out)
  BY <1>3 DEF EndPass, Return, BeginPass
<1>5. Len(RemoveCovered(out)) \in 0 .. Len(out)
  BY <1>1, RemoveCoveredShortens
<1>6. Len(out) <= Len(list) /\ (changed => Len(out) < Len(list))
  BY <1>1, <1>2 DEF PassInv
<1> QED
  BY <1>1, <1>4, <1>5, <1>6 DEF Settled

(* The loop of Aggregate cannot go round for ever: each pass works on a    *)
(* shorter list than the one before.  That it goes on at all is the        *)
(* fairness of Spec.                                                       *)
THEOREM EveryPassShortens == Spec => PassesShorten
<1>1. Init => PassInv
  BY DEF Init, PassInv
<1> QED
  BY <1>1, InitIInv, NextIInv, NextPassInv, NextShortens, PTL DEF Spec, PassesShorten
=============================================================================
