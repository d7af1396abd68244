---------------------------- MODULE PlannerProofs ----------------------------
(***************************************************************************)
(* What the operators of the planner, of the modules below it and of the   *)
(* configuration return: prefixes and their coverage, kernel routes and    *)
(* rules, gateways with their order and metrics, for every address width   *)
(* and any number of gateways; and that what loadConfig accepts, whatever  *)
(* text the file holds, is a configuration the plans are defined for.      *)
(***************************************************************************)
EXTENDS Config, FiniteSetTheorems, WellFoundedInduction, TLAPS

(* A nonempty set of naturals has a least element.                         *)
LEMMA LeastOfNats ==
    ASSUME NEW S \in SUBSET Nat, S # {}
    PROVE  \E x \in S : \A y \in S : x =< y
<1>1. PICK x \in S : \A y \in S : ~ (<<y, x>> \in OpToRel(<, Nat))
  <2>1. S \subseteq Nat /\ S # {}
    OBVIOUS
  <2> QED
    BY <2>1, NatLessThanWellFounded, WFMin
<1>2. ASSUME NEW y \in S, y < x
      PROVE  <<y, x>> \in OpToRel(<, Nat)
  BY <1>2 DEF OpToRel
<1>3. \A y \in S : ~ (y < x)
  BY <1>1, <1>2, Zenon
<1> QED
  BY <1>3

-----------------------------------------------------------------------------
(* Slices *)

(* A filter keeps every index it should, once, in order: the k-th of the   *)
(* kept indexes is the one with k of them up to it.                        *)
LEMMA InOrderFacts ==
    ASSUME NEW S \in SUBSET Nat, IsFiniteSet(S)
    PROVE  /\ Cardinality(S) \in Nat
           /\ InOrder(S) \in [1 .. Cardinality(S) -> S]
           /\ InOrder(S) \in Seq(S) /\ Len(InOrder(S)) = Cardinality(S)
           /\ \A k \in 1 .. Cardinality(S) : Cardinality({j \in S : j <= InOrder(S)[k]}) = k
           /\ \A x \in S : \E k \in 1 .. Cardinality(S) : InOrder(S)[k] = x
           /\ \A x, y \in S : Cardinality({j \in S : j <= x}) = Cardinality({j \in S : j <= y}) => x = y
<1> DEFINE n == Cardinality(S)
           UpTo(x) == {j \in S : j <= x}
           rank == [x \in S |-> Cardinality(UpTo(x))]
<1>1. n \in Nat
  BY FS_CardinalityType
<1>2. ASSUME NEW x \in S
      PROVE  IsFiniteSet(UpTo(x)) /\ rank[x] \in 1 .. n
  <2>1. UpTo(x) \in SUBSET S /\ x \in UpTo(x)
    OBVIOUS
  <2> HIDE DEF UpTo
  <2>2. IsFiniteSet(UpTo(x)) /\ Cardinality(UpTo(x)) =< n
    BY <2>1, FS_Subset
  <2>3. Cardinality(UpTo(x)) \in Nat /\ Cardinality(UpTo(x)) # 0
    BY <2>1, <2>2, FS_CardinalityType, FS_EmptySet
  <2> QED
    BY <1>1, <2>2, <2>3
<1>3. ASSUME NEW x \in S, NEW y \in S, x < y
      PROVE  rank[x] # rank[y]
  <2>0. x \in Nat /\ y \in Nat /\ \A j \in S : j \in Nat
    OBVIOUS
  <2>4. \A j \in S : j <= x => j <= y
    BY <1>3, <2>0
  <2>5. y <= y /\ ~(y <= x)
    BY <1>3, <2>0
  <2>1. UpTo(x) \in SUBSET UpTo(y) /\ y \in UpTo(y) /\ y \notin UpTo(x)
    BY <2>4, <2>5, Zenon
  <2>2. IsFiniteSet(UpTo(y))
    BY <1>2
  <2> HIDE DEF UpTo
  <2>3. Cardinality(UpTo(y)) # Cardinality(UpTo(x))
    BY <2>1, <2>2, FS_Subset
  <2> QED
    BY <2>3
<1>4. rank \in [S -> 1 .. n]
  BY <1>2
<1>5. \A x, y \in S : rank[x] = rank[y] => x = y
  <2> HIDE DEF rank
  <2>1. \A x, y \in S : x < y \/ y < x \/ x = y
    OBVIOUS
  <2> QED
    BY <1>3, <2>1
<1> HIDE DEF rank
<1>6. rank \in Injection(S, 1 .. n)
  BY <1>4, <1>5 DEF Injection, IsInjective
<1>7. IsFiniteSet(1 .. n) /\ Cardinality(1 .. n) = n
  BY <1>1, FS_Interval
<1>8. rank \in Surjection(S, 1 .. n)
  BY <1>6, <1>7, FS_Injection
<1>9. \A k \in 1 .. n : \E x \in S : rank[x] = k
  BY <1>8 DEF Surjection
<1>15. \A x \in S : Cardinality(UpTo(x)) = rank[x]
  BY DEF rank
<1> DEFINE s == [k \in 1 .. n |-> CHOOSE x \in S : Cardinality(UpTo(x)) = k]
<1>10. InOrder(S) = s
  BY DEF InOrder
<1> HIDE DEF UpTo
<1>11. ASSUME NEW k \in 1 .. n
       PROVE  s[k] \in S /\ rank[s[k]] = k
  <2> DEFINE c == CHOOSE x \in S : Cardinality(UpTo(x)) = k
  <2>1. \E x \in S : Cardinality(UpTo(x)) = k
    BY <1>9, <1>15
  <2>2. c \in S /\ Cardinality(UpTo(c)) = k
    BY <2>1
  <2>3. s[k] = c
    OBVIOUS
  <2> HIDE DEF s, c
  <2> QED
    BY <1>15, <2>2, <2>3
<1> HIDE DEF s
<1>12. s \in [1 .. n -> S]
  BY <1>11 DEF s
<1>13. s \in Seq(S) /\ Len(s) = n
  BY <1>1, <1>12
<1>14. ASSUME NEW x \in S
       PROVE  \E k \in 1 .. n : s[k] = x
  <2>1. rank[x] \in 1 .. n
    BY <1>4
  <2>2. s[rank[x]] \in S /\ rank[s[rank[x]]] = rank[x]
    BY <1>11, <2>1
  <2> QED
    BY <1>5, <2>1, <2>2
<1>16. \A k \in 1 .. n : Cardinality(UpTo(s[k])) = k
  BY <1>11, <1>15
<1>17. \A x, y \in S : Cardinality(UpTo(x)) = Cardinality(UpTo(y)) => x = y
  BY <1>5, <1>15
<1> HIDE DEF n
<1> QED
  BY <1>1, <1>10, <1>12, <1>13, <1>14, <1>16, <1>17 DEF n, UpTo

(* One index more, after all others, is appended.                          *)
LEMMA InOrderAppend ==
    ASSUME NEW S \in SUBSET Nat, IsFiniteSet(S), NEW m \in Nat, \A x \in S : x < m
    PROVE  InOrder(S \cup {m}) = Append(InOrder(S), m)
<1> DEFINE T == S \cup {m}
           n == Cardinality(S)
           s == InOrder(S)
           t == InOrder(T)
<1>1. T \in SUBSET Nat /\ IsFiniteSet(T) /\ Cardinality(T) = n + 1
  <2>1. m \notin S
    OBVIOUS
  <2> QED
    BY <2>1, FS_AddElement
<1> HIDE DEF T
<1>2. /\ n \in Nat /\ s \in [1 .. n -> S] /\ s \in Seq(S) /\ Len(s) = n
      /\ \A k \in 1 .. n : Cardinality({j \in S : j <= s[k]}) = k
  BY InOrderFacts
<1>3. /\ t \in [1 .. n + 1 -> T] /\ t \in Seq(T) /\ Len(t) = n + 1
      /\ \A k \in 1 .. n + 1 : Cardinality({j \in T : j <= t[k]}) = k
      /\ \A x, y \in T : Cardinality({j \in T : j <= x}) = Cardinality({j \in T : j <= y}) => x = y
  BY <1>1, InOrderFacts
<1> HIDE DEF s, t
<1>4. ASSUME NEW k \in 1 .. n
      PROVE  t[k] = s[k]
  <2>1. s[k] \in S /\ s[k] \in T /\ k \in 1 .. n + 1
    BY <1>2 DEF T
  <2>2. {j \in T : j <= s[k]} = {j \in S : j <= s[k]}
    <3>1. s[k] \in Nat /\ s[k] < m
      BY <2>1
    <3>2. ~(m <= s[k])
      BY <3>1
    <3> QED
      BY <3>2 DEF T
  <2>3. Cardinality({j \in T : j <= s[k]}) = k
    BY <1>2, <2>2
  <2>4. t[k] \in T /\ Cardinality({j \in T : j <= t[k]}) = k
    BY <1>3, <2>1
  <2> QED
    BY <1>3, <2>1, <2>3, <2>4
<1>5. t[n + 1] = m
  <2>0. \A j \in S \cup {m} : j <= m
    OBVIOUS
  <2>1. {j \in T : j <= m} = T /\ m \in T
    BY <2>0, Zenon DEF T
  <2>2. n + 1 \in 1 .. n + 1
    BY <1>2
  <2>3. t[n + 1] \in T /\ Cardinality({j \in T : j <= t[n + 1]}) = n + 1
    BY <1>3, <2>2
  <2> QED
    BY <1>1, <1>3, <2>1, <2>3
<1>6. /\ Append(s, m) \in Seq(T) /\ Len(Append(s, m)) = n + 1
      /\ \A k \in 1 .. n : Append(s, m)[k] = s[k]
      /\ Append(s, m)[n + 1] = m
  <2>1. s \in Seq(T) /\ m \in T
    BY <1>2 DEF T
  <2> QED
    BY <1>2, <2>1
<1>7. \A k \in 1 .. n + 1 : t[k] = Append(s, m)[k]
  BY <1>2, <1>4, <1>5, <1>6
<1>8. t = Append(s, m)
  BY <1>2, <1>3, <1>6, <1>7
<1> QED
  BY <1>8 DEF s, t, T

-----------------------------------------------------------------------------
(* Netip and Source *)

(* Masking yields a masked prefix.                                         *)
LEMMA MaskedType ==
    ASSUME NEW p \in RawPrefix
    PROVE  Masked(p) \in Prefix
<1>1. MaskedN(p.n, p.bits) \in Bits
  BY DEF MaskedN, Bits, RawPrefix
<1>2. MaskedN(MaskedN(p.n, p.bits), p.bits) = MaskedN(p.n, p.bits)
  BY DEF MaskedN
<1> QED
  BY <1>1, <1>2 DEF Masked, Prefix, RawPrefix

(* Masking makes prefixes of whatever was fetched.                         *)
LEMMA MaskAllType ==
    ASSUME NEW raw \in SUBSET RawPrefix
    PROVE  MaskAll(raw) \subseteq Prefix
BY MaskedType DEF MaskAll

(* Normalize delivers masked prefixes, aggregated or not.                  *)
LEMMA NormalizeType ==
    ASSUME NEW raw \in SUBSET RawPrefix, NEW aggregate
    PROVE  Normalize(raw, aggregate) \subseteq Prefix
<1>1. Aggregated(MaskAll(raw)) \subseteq Prefix
  BY DEF Aggregated
<1> QED
  BY <1>1, MaskAllType DEF Normalize

(* The zero bits are bits.                                                 *)
LEMMA ZerosType ==
    /\ Zeros \in Bits
    /\ Ones \in Bits
    /\ \A fam \in Fams : [fam |-> fam, n |-> Zeros, bits |-> 0] \in Prefix
<1>1. Zeros \in Bits /\ Ones \in Bits
  BY DEF Zeros, Ones, Bits
<1>2. MaskedN(Zeros, 0) = Zeros
  BY DEF MaskedN, Zeros
<1> QED
  BY <1>1, <1>2, WidthAssumption DEF Prefix, RawPrefix, Masked

(* A configured family stands for address families.                        *)
LEMMA FamsOfType ==
    ASSUME NEW family PROVE FamsOf(family) \subseteq Fams
BY DEF FamsOf, Fams

-----------------------------------------------------------------------------
(* Coverage *)

(* What a prefix covers, bit by bit.                                       *)
LEMMA CoversBits ==
    ASSUME NEW p \in Prefix, NEW a \in Addr
    PROVE  Covers(p, a) <=> p.fam = a.fam /\ \A k \in 1 .. Width : k =< p.bits => a.n[k] = p.n[k]
<1>1. p.n = MaskedN(p.n, p.bits) /\ p.n \in Bits /\ p.bits \in 0 .. Width /\ a.n \in Bits
  BY DEF Prefix, Masked, RawPrefix, Addr
<1>2. ASSUME NEW k \in 1 .. Width, ~(k =< p.bits)
      PROVE  p.n[k] = 0
  BY <1>1, <1>2 DEF MaskedN
<1>3. MaskedN(a.n, p.bits) = p.n <=> \A k \in 1 .. Width : MaskedN(a.n, p.bits)[k] = p.n[k]
  BY <1>1 DEF MaskedN, Bits
<1>4. \A k \in 1 .. Width : MaskedN(a.n, p.bits)[k] = IF k =< p.bits THEN a.n[k] ELSE 0
  BY DEF MaskedN
<1> QED
  BY <1>2, <1>3, <1>4 DEF Covers

(* The prefix relation of removeCovered, bit by bit.                       *)
LEMMA CoveredByBits ==
    ASSUME NEW p \in Prefix, NEW q \in Prefix
    PROVE  CoveredBy(p, q) <=> /\ q.fam = p.fam /\ q.bits =< p.bits
                               /\ \A k \in 1 .. Width : k =< q.bits => p.n[k] = q.n[k]
<1> DEFINE a == [fam |-> p.fam, n |-> p.n]
<1>1. a \in Addr /\ a.fam = p.fam /\ a.n = p.n
  BY DEF Addr, Prefix, RawPrefix
<1>2. CoveredBy(p, q) <=> q.bits =< p.bits /\ Covers(q, a)
  BY <1>1 DEF CoveredBy, Covers
<1> HIDE DEF a
<1> QED
  BY <1>1, <1>2, CoversBits

(* It is an order, and a covered prefix has no address of its own.         *)
LEMMA CoveredByOrder ==
    /\ \A p \in Prefix : CoveredBy(p, p)
    /\ \A p, q, r \in Prefix : CoveredBy(p, q) /\ CoveredBy(q, r) => CoveredBy(p, r)
    /\ \A p, q \in Prefix : CoveredBy(p, q) /\ p.bits = q.bits => p = q
    /\ \A p, q \in Prefix : CoveredBy(p, q) => AddrsOf(p) \subseteq AddrsOf(q)
<1>0. \A p \in Prefix : p.bits \in 0 .. Width /\ p.n \in Bits
  BY DEF Prefix, RawPrefix
<1>1. \A p \in Prefix : CoveredBy(p, p)
  BY <1>0, CoveredByBits, WidthAssumption
<1>2. ASSUME NEW p \in Prefix, NEW q \in Prefix, NEW r \in Prefix,
             CoveredBy(p, q), CoveredBy(q, r)
      PROVE  CoveredBy(p, r)
  <2>1. p.bits \in Nat /\ q.bits \in Nat /\ r.bits \in Nat
    BY <1>0, WidthAssumption
  <2> QED
    BY <1>2, <2>1, CoveredByBits, WidthAssumption
<1>3. ASSUME NEW p \in Prefix, NEW q \in Prefix, CoveredBy(p, q), p.bits = q.bits
      PROVE  p = q
  <2>1. p.fam = q.fam /\ MaskedN(p.n, p.bits) = q.n
    BY <1>3 DEF CoveredBy
  <2>2. /\ p = [fam |-> p.fam, n |-> MaskedN(p.n, p.bits), bits |-> p.bits]
        /\ q = [fam |-> q.fam, n |-> MaskedN(q.n, q.bits), bits |-> q.bits]
    BY DEF Prefix, Masked
  <2>3. MaskedN(q.n, q.bits) = q.n
    BY <2>2
  <2> QED
    BY <1>3, <2>1, <2>2, <2>3
<1>4. ASSUME NEW p \in Prefix, NEW q \in Prefix, CoveredBy(p, q)
      PROVE  AddrsOf(p) \subseteq AddrsOf(q)
  <2> SUFFICES ASSUME NEW a \in Addr, Covers(p, a) PROVE Covers(q, a)
    BY DEF AddrsOf
  <2>1. p.bits \in Nat /\ q.bits \in Nat
    BY <1>0, WidthAssumption
  <2> QED
    BY <1>4, <2>1, CoversBits, CoveredByBits, WidthAssumption
<1> QED
  BY <1>1, <1>2, <1>3, <1>4

-----------------------------------------------------------------------------
(* Rtnl *)

(* What the kernel stores for a route is a route.                          *)
LEMMA InstalledType ==
    ASSUME NEW r \in Route
    PROVE  /\ Installed(r) \in Route
           /\ Installed(r).table = r.table
           /\ Installed(r).proto = r.proto
           /\ Installed(r).dst = r.dst
<1> DEFINE n == RouteRequest(r)
<1>1. n \in Route /\ n.table = r.table /\ n.proto = r.proto /\ n.dst = r.dst
  BY DEF RouteRequest, Route
<1> HIDE DEF n
<1>2. CASE n.dst.fam = 4
  BY <1>1, <1>2 DEF Installed, Stored, n
<1>3. CASE n.dst.fam # 4
  <2> DEFINE m == IF n.metric = 0 THEN IPv6DefaultMetric ELSE n.metric
             l == IF n.type = "throw" THEN LoopbackIndex ELSE n.link
  <2>1. m \in Nat /\ l \in Nat
    BY <1>1 DEF Route, IPv6DefaultMetric, LoopbackIndex
  <2>2. Installed(r) = [n EXCEPT !.metric = m, !.link = l]
    BY <1>3 DEF Installed, Stored, n
  <2> HIDE DEF m, l
  <2> QED
    BY <1>1, <2>1, <2>2 DEF Route
<1> QED
  BY <1>2, <1>3

(* AddRoute leaves a set of routes.                                        *)
LEMMA AddRouteType ==
    ASSUME NEW f \in SUBSET Route, NEW r \in Route
    PROVE  AddRoute(f, r) \subseteq Route
BY InstalledType DEF AddRoute

(* Routes with the same fields are equal.                                  *)
LEMMA RouteEqual ==
    ASSUME NEW q \in Route, NEW r \in Route,
           q.table = r.table, q.proto = r.proto, q.type = r.type, q.link = r.link,
           q.via = r.via, q.onlink = r.onlink, q.metric = r.metric, q.dst = r.dst
    PROVE  q = r
BY DEF Route

(* What the kernel has stored is stored as it is.                          *)
LEMMA InstalledTwice ==
    ASSUME NEW r \in Route
    PROVE  Installed(Installed(r)) = Installed(r)
<1> DEFINE n == RouteRequest(r)
           m == Installed(r)
<1>1. n \in Route /\ RouteRequest(n) = n
  BY DEF RouteRequest, Route
<1>2. m = Stored(n)
  BY DEF Installed
<1> SUFFICES Installed(m) = m
  OBVIOUS
<1> HIDE DEF n, m
<1>3. CASE n.dst.fam = 4
  <2>1. m = n
    BY <1>2, <1>3 DEF Stored
  <2> QED
    BY <1>1, <1>3, <2>1 DEF Installed, Stored
<1>4. CASE n.dst.fam # 4
  <2> DEFINE metric == IF n.metric = 0 THEN IPv6DefaultMetric ELSE n.metric
             link   == IF n.type = "throw" THEN LoopbackIndex ELSE n.link
  <2>1. m = [n EXCEPT !.metric = metric, !.link = link]
    BY <1>2, <1>4 DEF Stored
  <2>2. metric # 0 /\ metric \in Nat /\ link \in Nat
    BY <1>1 DEF Route, IPv6DefaultMetric, LoopbackIndex
  <2>3. n.type = "throw" => link = LoopbackIndex /\ n.via = NoAddr /\ n.onlink = FALSE
    BY <1>1 DEF RouteRequest, Route
  <2> HIDE DEF metric, link
  <2>4. /\ m.metric = metric /\ m.link = link /\ m.type = n.type /\ m.dst = n.dst
        /\ m.via = n.via /\ m.onlink = n.onlink /\ m \in Route
    BY <1>1, <2>1, <2>2 DEF Route
  <2>5. CASE n.type = "throw"
    <3>1. RouteRequest(m) = [m EXCEPT !.link = 0]
      BY <2>3, <2>4, <2>5 DEF RouteRequest, Route
    <3>2. Installed(m) = [[m EXCEPT !.link = 0] EXCEPT !.metric = metric, !.link = LoopbackIndex]
      BY <1>4, <2>2, <2>4, <2>5, <3>1 DEF Installed, Stored, Route
    <3>3. Installed(m) \in Route
      BY <2>4, InstalledType
    <3> QED
      BY <2>3, <2>4, <2>5, <3>2, <3>3, RouteEqual DEF Route
  <2>6. CASE n.type # "throw"
    <3>1. RouteRequest(m) = m
      BY <2>4, <2>6 DEF RouteRequest
    <3>2. Installed(m) = [m EXCEPT !.metric = metric, !.link = m.link]
      BY <1>4, <2>2, <2>4, <2>6, <3>1 DEF Installed, Stored
    <3>3. Installed(m) \in Route
      BY <2>4, InstalledType
    <3> QED
      BY <2>4, <3>2, <3>3, RouteEqual DEF Route
  <2> QED
    BY <2>5, <2>6
<1> QED
  BY <1>3, <1>4

(* The kernel holds at most one route for a table, destination and metric. *)
SlotsUnique(f) == \A q, r \in f : SameSlot(q, r) => q = r

(* A delete request, though a pattern, removes exactly the route it was    *)
(* made from, if that is still there.                                      *)
LEMMA DeleteRouteExact ==
    ASSUME NEW f \in SUBSET Route, SlotsUnique(f), NEW r \in Route
    PROVE  /\ DeleteRoute(f, r) \subseteq f
           /\ r \notin DeleteRoute(f, r)
           /\ r \in f => DeleteRoute(f, r) = f \ {r}
<1> DEFINE n == RouteRequest(r)
           least == {q \in Doomed(f, r) : \A o \in Doomed(f, r) : q.metric <= o.metric}
<1>1. /\ n.table = r.table /\ n.dst = r.dst /\ n.proto = r.proto
      /\ n.metric = r.metric /\ n.type = r.type
      /\ n.link \in {0, r.link} /\ n.via \in {NoAddr, r.via}
  BY DEF RouteRequest, Route
<1>2. DeleteRoute(f, r) = f \ least
  BY DEF DeleteRoute
<1>3. ASSUME r \in f
      PROVE  least = {r}
  <2>1. r \in Doomed(f, r)
    BY <1>1, <1>3 DEF Doomed, RouteMatches
  <2>2. ASSUME NEW q \in Doomed(f, r)
        PROVE  /\ q \in f /\ q.table = r.table /\ q.dst = r.dst
               /\ r.metric # 0 => q.metric = r.metric
               /\ q.metric \in Nat /\ r.metric \in Nat
    BY <1>1, <2>2 DEF Doomed, RouteMatches, Route
  <2>3. ASSUME NEW q \in Doomed(f, r), q.metric <= r.metric
        PROVE  q = r
    BY <1>3, <2>2, <2>3 DEF SlotsUnique, SameSlot
  <2>4. r \in least
    <3> SUFFICES ASSUME NEW o \in Doomed(f, r) PROVE r.metric <= o.metric
      BY <2>1
    <3> QED
      BY <2>2
  <2> QED
    BY <2>1, <2>3, <2>4
<1> QED
  BY <1>2, <1>3

(* Adding keeps slots unique and routes as the kernel stores them.         *)
LEMMA AddRouteKeepsSlots ==
    ASSUME NEW f \in SUBSET Route, SlotsUnique(f), NEW r \in Route
    PROVE  SlotsUnique(AddRoute(f, r))
BY DEF SlotsUnique, AddRoute, SameSlot

(* A rule request is a rule as the kernel keeps it.                        *)
LEMMA RuleRequestType ==
    ASSUME NEW r \in Rule
    PROVE  /\ RuleRequest(r) \in KernelRule
           /\ RuleRequest(r).prio = r.prio
           /\ RuleRequest(r).table = r.table
<1> DEFINE k == RuleRequest(r)
<1>1. (IF r.from = NoPrefix THEN 4 ELSE r.from.fam) \in Fams
  BY DEF Rule, RawPrefix, Fams
<1>2. (IF r.from.bits = 0 THEN NoPrefix ELSE Masked(r.from)) \in Prefix \cup {NoPrefix}
  <2>1. CASE r.from \in RawPrefix
    BY <2>1, MaskedType
  <2>2. CASE r.from = NoPrefix
    BY <2>2 DEF NoPrefix
  <2> QED
    BY <2>1, <2>2 DEF Rule
<1>3. /\ (IF r.hasMark THEN r.mark ELSE 0) \in Nat
      /\ (IF r.hasMark THEN r.mask ELSE 0) \in Nat
      /\ r.prio \in Nat /\ r.table \in Nat
  BY DEF Rule
<1> QED
  BY <1>1, <1>2, <1>3 DEF RuleRequest, KernelRule

(* AddRule leaves a list of rules.                                         *)
LEMMA AddRuleType ==
    ASSUME NEW s \in Seq(KernelRule), NEW r \in Rule
    PROVE  AddRule(s, r) \in Seq(KernelRule)
BY RuleRequestType DEF AddRule

(* AddRule adds nothing but the requested rule, and removes nothing.       *)
LEMMA AddRuleElements ==
    ASSUME NEW s \in Seq(KernelRule), NEW r \in Rule, NEW k, k # RuleRequest(r)
    PROVE  k \in ToSet(AddRule(s, r)) <=> k \in ToSet(s)
<1> DEFINE n == RuleRequest(r)
<1>1. n \in KernelRule
  BY RuleRequestType
<1> HIDE DEF n
<1>2. /\ Len(Append(s, n)) = Len(s) + 1
      /\ \A i \in 1 .. Len(s) : Append(s, n)[i] = s[i]
      /\ Append(s, n)[Len(s) + 1] = n
      /\ Append(s, n) \in Seq(KernelRule)
  BY <1>1
<1>3. k \in ToSet(Append(s, n)) => k \in ToSet(s)
  <2> SUFFICES ASSUME NEW i \in 1 .. Len(s) + 1, k = Append(s, n)[i] PROVE k \in ToSet(s)
    BY <1>2 DEF ToSet
  <2> QED
    BY <1>2 DEF ToSet, n
<1>4. k \in ToSet(s) => k \in ToSet(Append(s, n))
  <2> SUFFICES ASSUME NEW i \in 1 .. Len(s), k = s[i] PROVE k \in ToSet(Append(s, n))
    BY DEF ToSet
  <2> QED
    BY <1>2 DEF ToSet
<1> QED
  BY <1>3, <1>4 DEF AddRule, n

(* What DeleteRule does to the list: nothing, or the first match goes.     *)
LEMMA DeleteRuleShape ==
    ASSUME NEW s \in Seq(KernelRule), NEW r
    PROVE  \/ /\ DeleteRule(s, r) = s
              /\ \A k \in ToSet(s) : ~RuleMatches(RuleRequest(r), k)
           \/ \E m \in 1 .. Len(s) :
                 /\ RuleMatches(RuleRequest(r), s[m])
                 /\ DeleteRule(s, r) \in Seq(KernelRule)
                 /\ Len(DeleteRule(s, r)) = Len(s) - 1
                 /\ \A i \in 1 .. m - 1 : DeleteRule(s, r)[i] = s[i]
                 /\ \A i \in m .. Len(s) - 1 : DeleteRule(s, r)[i] = s[i + 1]
<1> DEFINE n == RuleRequest(r)
           I == {i \in 1 .. Len(s) : RuleMatches(n, s[i])}
           m == Min(I)
<1>1. CASE I = {}
  <2>1. DeleteRule(s, r) = s
    BY <1>1 DEF DeleteRule, RemoveFirstMatch
  <2> QED
    BY <1>1, <2>1 DEF ToSet
<1>2. CASE I # {}
  <2>1. m \in I
    <3>1. \E x \in I : \A y \in I : x =< y
      <4>1. I \subseteq Nat
        OBVIOUS
      <4> QED
        BY <1>2, <4>1, LeastOfNats
    <3> QED
      BY <3>1 DEF Min
  <2> DEFINE t == SubSeq(s, 1, m - 1) \o SubSeq(s, m + 1, Len(s))
  <2>2. DeleteRule(s, r) = t
    BY <1>2 DEF DeleteRule, RemoveFirstMatch, RemoveAt, SelectInSeq
  <2> HIDE DEF m
  <2>3. /\ SubSeq(s, 1, m - 1) \in Seq(KernelRule)
        /\ Len(SubSeq(s, 1, m - 1)) = m - 1
        /\ \A i \in 1 .. m - 1 : SubSeq(s, 1, m - 1)[i] = s[i]
    BY <2>1
  <2>4. /\ SubSeq(s, m + 1, Len(s)) \in Seq(KernelRule)
        /\ Len(SubSeq(s, m + 1, Len(s))) = Len(s) - m
        /\ \A i \in 1 .. Len(s) - m : SubSeq(s, m + 1, Len(s))[i] = s[m + i]
    BY <2>1
  <2>5. /\ t \in Seq(KernelRule)
        /\ Len(t) = Len(s) - 1
        /\ \A i \in 1 .. m - 1 : t[i] = s[i]
        /\ \A i \in m .. Len(s) - 1 : t[i] = s[i + 1]
    <3> DEFINE a == SubSeq(s, 1, m - 1)
               b == SubSeq(s, m + 1, Len(s))
    <3>1. m \in Nat /\ Len(s) \in Nat /\ 1 =< m /\ m =< Len(s)
      BY <2>1
    <3> HIDE DEF a, b
    <3>2. a \in Seq(KernelRule) /\ b \in Seq(KernelRule)
      BY <2>3, <2>4 DEF a, b
    <3>3. Len(a) = m - 1 /\ Len(b) = Len(s) - m
      BY <2>3, <2>4 DEF a, b
    <3>4. /\ a \o b \in Seq(KernelRule)
          /\ Len(a \o b) = Len(a) + Len(b)
          /\ \A i \in 1 .. Len(a) : (a \o b)[i] = a[i]
          /\ \A i \in Len(a) + 1 .. Len(a) + Len(b) : (a \o b)[i] = b[i - Len(a)]
      BY <3>2
    <3>5. t = a \o b
      BY DEF a, b
    <3>6. ASSUME NEW i \in m .. Len(s) - 1
          PROVE  (a \o b)[i] = s[i + 1]
      <4>1. i \in Len(a) + 1 .. Len(a) + Len(b)
        BY <3>1, <3>3
      <4>2. i - Len(a) \in 1 .. Len(s) - m /\ m + (i - Len(a)) = i + 1
        BY <3>1, <3>3
      <4> QED
        BY <2>4, <3>4, <4>1, <4>2 DEF b
    <3>7. \A i \in 1 .. m - 1 : (a \o b)[i] = s[i]
      BY <2>3, <3>3, <3>4 DEF a
    <3>8. Len(a \o b) = Len(s) - 1
      BY <3>1, <3>3, <3>4
    <3> HIDE DEF t
    <3> QED
      BY <3>4, <3>5, <3>6, <3>7, <3>8
  <2> HIDE DEF t
  <2>6. m \in 1 .. Len(s) /\ RuleMatches(n, s[m])
    BY <2>1
  <2> QED
    BY <2>2, <2>5, <2>6
<1> QED
  BY <1>1, <1>2

(* Removing the first match removes one element, which matches, and keeps  *)
(* the others.                                                             *)
LEMMA DeleteRuleType ==
    ASSUME NEW s \in Seq(KernelRule), NEW r
    PROVE  /\ DeleteRule(s, r) \in Seq(KernelRule)
           /\ ToSet(DeleteRule(s, r)) \subseteq ToSet(s)
           /\ \A k \in ToSet(s) :
                 ~RuleMatches(RuleRequest(r), k) => k \in ToSet(DeleteRule(s, r))
<1> DEFINE t == DeleteRule(s, r)
           n == RuleRequest(r)
<1>1. CASE t = s
  BY <1>1
<1>2. ASSUME NEW m \in 1 .. Len(s),
             RuleMatches(n, s[m]),
             t \in Seq(KernelRule),
             Len(t) = Len(s) - 1,
             \A i \in 1 .. m - 1 : t[i] = s[i],
             \A i \in m .. Len(s) - 1 : t[i] = s[i + 1]
      PROVE  /\ ToSet(t) \subseteq ToSet(s)
             /\ \A k \in ToSet(s) : ~RuleMatches(n, k) => k \in ToSet(t)
  <2> HIDE DEF t, n
  <2>6. ToSet(t) \subseteq ToSet(s)
    <3> SUFFICES ASSUME NEW i \in 1 .. Len(t) PROVE t[i] \in ToSet(s)
      BY <1>2 DEF ToSet
    <3>1. i \in 1 .. m - 1 \/ i \in m .. Len(s) - 1
      BY <1>2
    <3>2. CASE i \in 1 .. m - 1
      BY <1>2, <3>2 DEF ToSet
    <3>3. CASE i \in m .. Len(s) - 1
      <4>1. i + 1 \in 1 .. Len(s)
        BY <3>3
      <4> QED
        BY <1>2, <3>3, <4>1 DEF ToSet
    <3> QED
      BY <3>1, <3>2, <3>3
  <2>7. ASSUME NEW k \in ToSet(s), ~RuleMatches(n, k)
        PROVE  k \in ToSet(t)
    <3>1. PICK i \in 1 .. Len(s) : k = s[i]
      BY DEF ToSet
    <3>2. i # m
      BY <1>2, <2>7, <3>1
    <3>3. CASE i < m
      BY <1>2, <3>1, <3>3 DEF ToSet
    <3>4. CASE i > m
      <4>1. i - 1 \in 1 .. Len(t) /\ t[i - 1] = s[i]
        BY <1>2, <3>1, <3>4
      <4> QED
        BY <1>2, <3>1, <4>1 DEF ToSet
    <3> QED
      BY <3>1, <3>2, <3>3, <3>4
  <2> QED
    BY <2>6, <2>7
<1> HIDE DEF t
<1> QED
  BY <1>1, <1>2, DeleteRuleShape DEF t

(* Where a set of rules is listed at most once each, it stays so.          *)
Once(s, K) == \A i, j \in DOMAIN s : s[i] \in K /\ s[i] = s[j] => i = j

(* Whatever a delete request matches.                                      *)
LEMMA DeleteRuleOnce ==
    ASSUME NEW s \in Seq(KernelRule), NEW K, Once(s, K), NEW r
    PROVE  Once(DeleteRule(s, r), K)
<1> DEFINE t == DeleteRule(s, r)
<1> SUFFICES Once(t, K)
  OBVIOUS
<1>1. ASSUME NEW m \in 1 .. Len(s),
             t \in Seq(KernelRule),
             Len(t) = Len(s) - 1,
             \A i \in 1 .. m - 1 : t[i] = s[i],
             \A i \in m .. Len(s) - 1 : t[i] = s[i + 1]
      PROVE  Once(t, K)
  <2> HIDE DEF t
  <2> DEFINE old(i) == IF i < m THEN i ELSE i + 1
  <2>1. \A i \in 1 .. Len(t) : old(i) \in 1 .. Len(s) /\ t[i] = s[old(i)]
    BY <1>1
  <2>2. \A i, j \in 1 .. Len(t) : old(i) = old(j) => i = j
    OBVIOUS
  <2>3. DOMAIN t = 1 .. Len(t) /\ DOMAIN s = 1 .. Len(s)
    BY <1>1
  <2> HIDE DEF old
  <2> QED
    BY <2>1, <2>2, <2>3 DEF Once
<1>2. \/ t = s
      \/ \E m \in 1 .. Len(s) :
             /\ t \in Seq(KernelRule)
             /\ Len(t) = Len(s) - 1
             /\ \A i \in 1 .. m - 1 : t[i] = s[i]
             /\ \A i \in m .. Len(s) - 1 : t[i] = s[i + 1]
  BY DeleteRuleShape
<1> HIDE DEF t
<1> QED
  BY <1>1, <1>2

(* A delete request that matches nothing but itself removes exactly that.  *)
LEMMA DeleteRuleExact ==
    ASSUME NEW s \in Seq(KernelRule), NEW K, Once(s, K), NEW r, RuleRequest(r) \in K,
           \A k \in ToSet(s) : RuleMatches(RuleRequest(r), k) => k = RuleRequest(r)
    PROVE  /\ ToSet(DeleteRule(s, r)) = ToSet(s) \ {RuleRequest(r)}
           /\ Once(DeleteRule(s, r), K)
<1> DEFINE t == DeleteRule(s, r)
           n == RuleRequest(r)
<1>0. RuleMatches(n, n)
  BY DEF RuleMatches
<1>1. CASE t = s /\ \A k \in ToSet(s) : ~RuleMatches(n, k)
  BY <1>0, <1>1
<1>2. ASSUME NEW m \in 1 .. Len(s),
             RuleMatches(n, s[m]),
             t \in Seq(KernelRule),
             Len(t) = Len(s) - 1,
             \A i \in 1 .. m - 1 : t[i] = s[i],
             \A i \in m .. Len(s) - 1 : t[i] = s[i + 1]
      PROVE  ToSet(t) = ToSet(s) \ {n} /\ Once(t, K)
  <2>1. s[m] = n
    BY <1>2 DEF ToSet
  <2>2. /\ ToSet(t) \subseteq ToSet(s)
        /\ \A k \in ToSet(s) : ~RuleMatches(n, k) => k \in ToSet(t)
    BY DeleteRuleType
  <2> HIDE DEF t, n
  <2> DEFINE old(i) == IF i < m THEN i ELSE i + 1
  <2>3. \A i \in 1 .. Len(t) : /\ old(i) \in 1 .. Len(s) /\ old(i) # m
                               /\ t[i] = s[old(i)]
    BY <1>2
  <2>4. \A i, j \in 1 .. Len(t) : old(i) = old(j) => i = j
    OBVIOUS
  <2>5. DOMAIN t = 1 .. Len(t) /\ DOMAIN s = 1 .. Len(s)
    BY <1>2
  <2> HIDE DEF old
  <2>6. Once(t, K)
    BY <2>3, <2>4, <2>5 DEF Once
  <2>7. n \notin ToSet(t)
    <3> SUFFICES ASSUME NEW i \in 1 .. Len(t), t[i] = n PROVE FALSE
      BY <2>5 DEF ToSet
    <3>1. s[old(i)] = n /\ old(i) \in DOMAIN s /\ old(i) # m
      BY <2>3, <2>5
    <3> QED
      BY <2>1, <2>5, <3>1 DEF Once, n
  <2>8. \A k \in ToSet(s) : k # n => k \in ToSet(t)
    BY <2>2 DEF n
  <2> QED
    BY <2>2, <2>6, <2>7, <2>8
<1> HIDE DEF t, n
<1>3. \/ t = s /\ \A k \in ToSet(s) : ~RuleMatches(n, k)
      \/ \E m \in 1 .. Len(s) :
             /\ RuleMatches(n, s[m])
             /\ t \in Seq(KernelRule)
             /\ Len(t) = Len(s) - 1
             /\ \A i \in 1 .. m - 1 : t[i] = s[i]
             /\ \A i \in m .. Len(s) - 1 : t[i] = s[i + 1]
  BY DeleteRuleShape DEF t, n
<1>4. ToSet(t) = ToSet(s) \ {n} /\ Once(t, K)
  <2>1. CASE t = s /\ \A k \in ToSet(s) : ~RuleMatches(n, k)
    BY <1>1, <2>1 DEF t, n
  <2>2. CASE t # s \/ ~ \A k \in ToSet(s) : ~RuleMatches(n, k)
    <3>1. PICK m \in 1 .. Len(s) :
             /\ RuleMatches(n, s[m])
             /\ t \in Seq(KernelRule)
             /\ Len(t) = Len(s) - 1
             /\ \A i \in 1 .. m - 1 : t[i] = s[i]
             /\ \A i \in m .. Len(s) - 1 : t[i] = s[i + 1]
      BY <1>3, <2>2
    <3> QED
      BY <1>2, <3>1
  <2> QED
    BY <2>1, <2>2
<1> QED
  BY <1>4 DEF t, n

(* AddRule makes sure that the rule is there, once.                        *)
LEMMA AddRuleExact ==
    ASSUME NEW s \in Seq(KernelRule), NEW K, Once(s, K), NEW r \in Rule
    PROVE  /\ ToSet(AddRule(s, r)) = ToSet(s) \cup {RuleRequest(r)}
           /\ Once(AddRule(s, r), K)
<1> DEFINE n == RuleRequest(r)
           t == Append(s, n)
<1>1. n \in KernelRule
  BY RuleRequestType
<1>2. CASE n \in ToSet(s)
  BY <1>2 DEF AddRule
<1>3. CASE n \notin ToSet(s)
  <2> HIDE DEF n
  <2>1. /\ t \in Seq(KernelRule) /\ Len(t) = Len(s) + 1
        /\ \A i \in 1 .. Len(s) : t[i] = s[i]
        /\ t[Len(s) + 1] = n
    BY <1>1
  <2>2. AddRule(s, r) = t
    BY <1>3 DEF AddRule, n
  <2> HIDE DEF t
  <2>3. /\ DOMAIN t = 1 .. Len(s) + 1 /\ DOMAIN s = 1 .. Len(s) /\ Len(s) \in Nat
        /\ \A i \in 1 .. Len(s) + 1 : i \in 1 .. Len(s) \/ i = Len(s) + 1
    BY <2>1
  <2>4. \A i \in 1 .. Len(s) : s[i] \in ToSet(s) /\ s[i] # n
    BY <1>3 DEF ToSet
  <2>5. Once(t, K)
    BY <2>1, <2>3, <2>4 DEF Once
  <2>6. ToSet(t) \subseteq ToSet(s) \cup {n}
    BY <2>1, <2>3 DEF ToSet
  <2>7. n \in ToSet(t)
    <3>1. Len(s) + 1 \in DOMAIN t
      BY <2>3
    <3> QED
      BY <2>1, <3>1 DEF ToSet
  <2>8. ToSet(s) \subseteq ToSet(t)
    <3> SUFFICES ASSUME NEW i \in 1 .. Len(s) PROVE s[i] \in ToSet(t)
      BY <2>3 DEF ToSet
    <3>1. i \in DOMAIN t /\ t[i] = s[i]
      BY <2>1, <2>3
    <3> QED
      BY <3>1 DEF ToSet
  <2> QED
    BY <2>2, <2>5, <2>6, <2>7, <2>8 DEF n
<1> QED
  BY <1>2, <1>3

-----------------------------------------------------------------------------
(* Health *)

(* A gateway completed from its parent is a gateway.                       *)
LEMMA MergeType ==
    ASSUME NEW h \in Hop, NEW gw \in Gateway \cup Hop
    PROVE  Merge(h, gw) \in Gateway
BY DEF Merge, Hop, Gateway

(* A next hop has finitely many gateways, all of them complete.            *)
LEMMA GatewaysType ==
    ASSUME NEW h \in Hop
    PROVE  /\ DOMAIN Gateways(h) \subseteq Nat
           /\ IsFiniteSet(DOMAIN Gateways(h))
           /\ \A i \in DOMAIN Gateways(h) : Gateways(h)[i] \in Gateway
<1> DEFINE listed == IF h.gateways = <<>> THEN <<h>> ELSE h.gateways
<1>1. listed \in Seq(Gateway \cup Hop)
  <2>1. h.gateways \in Seq(Gateway)
    BY DEF Hop
  <2>2. h.gateways \in Seq(Gateway \cup Hop)
    BY <2>1
  <2>3. <<h>> \in Seq(Gateway \cup Hop)
    OBVIOUS
  <2> QED
    BY <2>2, <2>3
<1> HIDE DEF listed
<1>2. DOMAIN listed = 1 .. Len(listed) /\ Len(listed) \in Nat
  BY <1>1
<1>3. Gateways(h) = [i \in DOMAIN listed |-> Merge(h, listed[i])]
  BY DEF Gateways, listed
<1>4. \A i \in DOMAIN listed : listed[i] \in Gateway \cup Hop
  BY <1>1
<1>5. IsFiniteSet(1 .. Len(listed))
  BY <1>2, FS_Interval
<1> QED
  BY <1>2, <1>3, <1>4, <1>5, MergeType

(* A candidate has an address or none.                                     *)
LEMMA CandidateViaType ==
    ASSUME NEW gw \in Gateway, NEW fam
    PROVE  CandidateVia(gw, fam) \in Addr \cup {NoAddr}
BY DEF CandidateVia, Gateway

(* A metric is a positive number however many gateways there are.          *)
LEMMA MetricType ==
    ASSUME NEW up, IsFiniteSet(DOMAIN up), NEW i
    PROVE  Metric(up, i) \in Nat /\ Metric(up, i) # 0
<1>1. Position(up, i) \in Nat
  <2> DEFINE T == {k \in DOMAIN up : Ahead(up, k, i)}
  <2>1. T \in SUBSET (DOMAIN up)
    OBVIOUS
  <2> HIDE DEF T
  <2>2. IsFiniteSet(T)
    BY <2>1, FS_Subset
  <2>3. Cardinality(T) \in Nat
    BY <2>2, FS_CardinalityType
  <2> QED
    BY <2>3 DEF Position, T
<1> QED
  BY <1>1 DEF Metric, metricBase, metricStep, unhealthyMetricOffset

(* The order of health.Select is strict.                                   *)
LEMMA AheadOrder ==
    ASSUME NEW D \in SUBSET Nat, NEW up \in [D -> BOOLEAN]
    PROVE  /\ \A x \in D : ~Ahead(up, x, x)
           /\ \A x, y, z \in D : Ahead(up, x, y) /\ Ahead(up, y, z) => Ahead(up, x, z)
           /\ \A x, y \in D : x # y => Ahead(up, x, y) \/ Ahead(up, y, x)
<1>1. \A x \in D : ~Ahead(up, x, x)
  BY DEF Ahead
<1>2. ASSUME NEW x \in D, NEW y \in D, NEW z \in D, Ahead(up, x, y), Ahead(up, y, z)
      PROVE  Ahead(up, x, z)
  BY <1>2 DEF Ahead
<1>3. ASSUME NEW x \in D, NEW y \in D, x # y
      PROVE  Ahead(up, x, y) \/ Ahead(up, y, x)
  BY <1>3 DEF Ahead
<1> QED
  BY <1>1, <1>2, <1>3

(* A gateway that comes before another has the lower metric: the offset of *)
(* the unhealthy ones never overtakes it.                                  *)
LEMMA MetricOrders ==
    ASSUME NEW D \in SUBSET Nat, IsFiniteSet(D), NEW up \in [D -> BOOLEAN],
           NEW x \in D, NEW y \in D, Ahead(up, x, y)
    PROVE  Metric(up, x) < Metric(up, y)
<1> DEFINE Before(z) == {k \in DOMAIN up : Ahead(up, k, z)}
           offset(z) == IF ~up[z] /\ \E k \in DOMAIN up : up[k]
                        THEN unhealthyMetricOffset ELSE 0
<1>1. Before(x) \in SUBSET Before(y) /\ Before(y) \in SUBSET D
  BY AheadOrder
<1>2. x \in Before(y) /\ x \notin Before(x)
  BY AheadOrder
<1>3. Position(up, x) = Cardinality(Before(x)) /\ Position(up, y) = Cardinality(Before(y))
  BY DEF Position
<1> HIDE DEF Before
<1>4. IsFiniteSet(Before(y))
  BY <1>1, FS_Subset
<1>5. /\ IsFiniteSet(Before(x))
      /\ Cardinality(Before(x)) =< Cardinality(Before(y))
      /\ Cardinality(Before(x)) # Cardinality(Before(y))
  BY <1>1, <1>2, <1>4, FS_Subset
<1>6. Position(up, x) \in Nat /\ Position(up, y) \in Nat
  BY <1>3, <1>4, <1>5, FS_CardinalityType
<1>7. Position(up, x) < Position(up, y)
  BY <1>3, <1>5, <1>6
<1>8. offset(x) \in Nat /\ offset(y) \in Nat /\ offset(x) =< offset(y)
  <2>1. ~up[x] => ~up[y]
    BY DEF Ahead
  <2>2. up[x] \in BOOLEAN /\ up[y] \in BOOLEAN
    OBVIOUS
  <2> QED
    BY <2>1, <2>2 DEF unhealthyMetricOffset
<1>9. /\ Metric(up, x) = metricBase + metricStep * Position(up, x) + offset(x)
      /\ Metric(up, y) = metricBase + metricStep * Position(up, y) + offset(y)
  BY DEF Metric
<1> HIDE DEF offset
<1> QED
  BY <1>6, <1>7, <1>8, <1>9 DEF metricBase, metricStep

(* Select yields resolved hops.                                            *)
LEMMA SelectType ==
    ASSUME NEW h \in Hop, NEW fam, NEW w \in World
    PROVE  Select(h, fam, w) \subseteq ResolvedHop
<1> DEFINE gws == Gateways(h)
           up  == [i \in Candidates(h, fam) |-> EvaluateCandidate(gws[i], fam, w)]
           R(i) == [link   |-> w.links[gws[i].dev],
                    via    |-> CandidateVia(gws[i], fam),
                    onlink |-> gws[i].onlink,
                    metric |-> Metric(up, i)]
<1>1. Candidates(h, fam) \in SUBSET (DOMAIN gws)
  BY DEF Candidates
<1>2. IsFiniteSet(Candidates(h, fam))
  BY <1>1, GatewaysType, FS_Subset
<1>3. DOMAIN up = Candidates(h, fam)
  OBVIOUS
<1> HIDE DEF up, gws
<1>4. ASSUME NEW i \in Candidates(h, fam)
      PROVE  R(i) \in ResolvedHop
  <2>1. Metric(up, i) \in Nat
    BY <1>2, <1>3, MetricType
  <2>2. gws[i] \in Gateway
    BY <1>1, GatewaysType DEF gws
  <2>3. CandidateVia(gws[i], fam) \in Addr
    BY <2>2, CandidateViaType DEF Candidates, gws
  <2>4. w.links[gws[i].dev] \in Nat /\ gws[i].onlink \in BOOLEAN
    BY <2>2 DEF World, Gateway
  <2> QED
    BY <2>1, <2>3, <2>4 DEF ResolvedHop
<1> QED
  BY <1>4 DEF Select, HopOf, Evaluated, up, gws

-----------------------------------------------------------------------------
(* Planner *)

(* What BuildPlan resolves for a group is well formed.                     *)
LEMMA ResolveType ==
    ASSUME NEW g \in Group, NEW w \in World
    PROVE  Resolve(g, w) \in Resolved
<1>1. g.hop \in Hop /\ g.default \in Hop
  BY DEF Group
<1>2. w.links[g.hop.dev] \in Nat /\ w.links[g.default.dev] \in Nat
  BY <1>1 DEF World, Hop
<1>3. ResolveCandidates(g.hop, g.family, w) \subseteq ResolvedHop
  BY <1>1, SelectType DEF ResolveCandidates
<1>4. ResolveCandidates(g.default, g.family, w) \subseteq ResolvedHop
  BY <1>1, SelectType DEF ResolveCandidates
<1> QED
  BY <1>2, <1>3, <1>4 DEF Resolve, Resolved

(* The routes group g may own under protocol proto, and its rules.         *)
RoutesOf(proto, g) ==
    {r \in Route : /\ r.table = g.table
                   /\ r.proto = proto
                   /\ r.dst.fam \in FamsOf(g.family)}

RulesOf(g) == {r \in Rule : r.table = g.table /\ r.prio = g.rule.prio}

(* The routes planned for a destination belong to the group.               *)
LEMMA RoutesViaOwned ==
    ASSUME NEW proto \in Nat, NEW g \in Group, NEW h \in Hop,
           NEW hops \in SUBSET ResolvedHop, NEW link \in Nat,
           NEW p \in Prefix, p.fam \in FamsOf(g.family)
    PROVE  RoutesVia(proto, g, h, hops, link, p) \subseteq RoutesOf(proto, g)
<1> DEFINE R(l, via, onlink, metric) ==
              [table |-> g.table, proto |-> proto, type |-> "unicast", link |-> l,
               via |-> via, onlink |-> onlink, metric |-> metric, dst |-> p]
<1>1. ASSUME NEW l \in Nat, NEW via \in Addr \cup {NoAddr}, NEW onlink \in BOOLEAN,
             NEW metric \in Nat
      PROVE  R(l, via, onlink, metric) \in RoutesOf(proto, g)
  BY DEF RoutesOf, Route, RouteTypes, Group
<1>2. NextHopVia(h, p) \in Addr \cup {NoAddr} /\ h.onlink \in BOOLEAN
  BY DEF NextHopVia, Hop
<1>3. R(link, NextHopVia(h, p), h.onlink, 0) \in RoutesOf(proto, g)
  BY <1>1, <1>2
<1>4. \A hop \in hops : R(hop.link, hop.via, hop.onlink, hop.metric) \in RoutesOf(proto, g)
  BY <1>1 DEF ResolvedHop
<1> QED
  BY <1>3, <1>4 DEF RoutesVia

(* Everything a group wants is its own: its table, the configured          *)
(* protocol, one of its families.                                          *)
LEMMA DesiredRoutesOwned ==
    ASSUME NEW proto \in Nat, NEW g \in Group, NEW fetched \in SUBSET Prefix,
           NEW res \in Resolved, NEW w
    PROVE  DesiredRoutes(proto, g, fetched, res, w) \subseteq RoutesOf(proto, g)
<1> DEFINE prefixes == RemovePrefixesCoveringAddrs(g, FilterFamily(fetched, g.family), w)
<1>1. g.hop \in Hop /\ g.default \in Hop /\ g.excludePrefixes \in SUBSET RawPrefix
  BY DEF Group
<1>2. /\ res.link \in Nat /\ res.dlink \in Nat
      /\ res.hops \in SUBSET ResolvedHop /\ res.dhops \in SUBSET ResolvedHop
  BY DEF Resolved
<1>3. \A p \in prefixes : p \in Prefix /\ p.fam \in FamsOf(g.family)
  BY DEF RemovePrefixesCoveringAddrs, FilterFamily
<1>4. \A p \in DefaultPrefixes(g.family) : p \in Prefix /\ p.fam \in FamsOf(g.family)
  BY ZerosType, FamsOfType DEF DefaultPrefixes
<1>5. \A p \in FilterFamily(MaskAll(g.excludePrefixes), g.family) :
          p \in Prefix /\ p.fam \in FamsOf(g.family)
  BY <1>1, MaskAllType DEF FilterFamily
<1>6. \A p \in prefixes :
          RoutesVia(proto, g, g.hop, res.hops, res.link, p) \subseteq RoutesOf(proto, g)
  BY <1>1, <1>2, <1>3, RoutesViaOwned
<1>7. \A p \in DefaultPrefixes(g.family) :
          RoutesVia(proto, g, g.default, res.dhops, res.dlink, p) \subseteq RoutesOf(proto, g)
  BY <1>1, <1>2, <1>4, RoutesViaOwned
<1>8. \A p \in FilterFamily(MaskAll(g.excludePrefixes), g.family) :
          ThrowRoute(proto, g, p) \in RoutesOf(proto, g)
  BY <1>5 DEF ThrowRoute, RoutesOf, Route, RouteTypes, Group
<1> HIDE DEF prefixes
<1>9. UNION {RoutesVia(proto, g, g.hop, res.hops, res.link, p) : p \in prefixes}
         \subseteq RoutesOf(proto, g)
  BY <1>6
<1>10. {ThrowRoute(proto, g, p) : p \in FilterFamily(MaskAll(g.excludePrefixes), g.family)}
         \subseteq RoutesOf(proto, g)
  BY <1>8
<1>11. UNION {RoutesVia(proto, g, g.default, res.dhops, res.dlink, p) :
                 p \in DefaultPrefixes(g.family)} \subseteq RoutesOf(proto, g)
  BY <1>7
<1> QED
  BY <1>9, <1>10, <1>11, Zenon DEF DesiredRoutes, prefixes

(* The rule planned for a group belongs to it.                             *)
LEMMA DesiredRulesOwned ==
    ASSUME NEW g \in Group
    PROVE  DesiredRules(g) \subseteq RulesOf(g)
<1>1. g.rule \in RuleConfig /\ g.table \in Nat
  BY DEF Group
<1>2. (g.rule.mask # 0) \in BOOLEAN
  OBVIOUS
<1>3. [prio |-> g.rule.prio, table |-> g.table, hasMark |-> g.rule.mask # 0,
       mark |-> g.rule.mark, mask |-> g.rule.mask, from |-> g.rule.from] \in RulesOf(g)
  BY <1>1, <1>2 DEF RulesOf, Rule, RuleConfig
<1> QED
  BY <1>3 DEF DesiredRules

(* What the listings return is owned too.                                  *)
LEMMA OwnedRoutesOwned ==
    ASSUME NEW f \in SUBSET Route, NEW c \in Config, NEW g \in Group
    PROVE  OwnedRoutes(f, c, g) \subseteq RoutesOf(c.proto, g)
BY DEF OwnedRoutes, ListRoutes, RoutesOf

(* A rule that passes the filter of CurrentOwned belongs to the group.     *)
LEMMA ReportedOwned ==
    ASSUME NEW k \in KernelRule, NEW c, NEW g, IsOwnedRule(k, c, g)
    PROVE  Reported(k) \in RulesOf(g)
<1>1. k.from \in RawPrefix \cup {NoPrefix}
  BY DEF KernelRule, Prefix
<1> QED
  BY <1>1 DEF Reported, IsOwnedRule, RulesOf, Rule, KernelRule

(* So do all the rules CurrentOwned returns.                               *)
LEMMA OwnedRulesOwned ==
    ASSUME NEW s \in Seq(KernelRule), NEW c, NEW g
    PROVE  OwnedRules(s, c, g) \subseteq RulesOf(g)
BY ReportedOwned DEF OwnedRules, ToSet

-----------------------------------------------------------------------------
(* Batches *)

(* The arguments of all the calls op of a sequence of batches.             *)
ArgsOf(s, op) == UNION {s[i].args : i \in {j \in DOMAIN s : s[j].op = op}}

SameDst(x, y) == x.table = y.table /\ x.dst = y.dst

(* No route is deleted twice.                                              *)
DisjointDeletes(s) ==
    \A i, j \in DOMAIN s :
        s[i].op = "DeleteRoute" /\ s[j].op = "DeleteRoute" /\ i # j =>
            s[i].args \cap s[j].args = {}

(* What is in the way of an addition is deleted before it.                 *)
DeletesFirst(s) ==
    \A i, j \in DOMAIN s :
        s[i].op = "DeleteRoute" /\ s[j].op = "AddRoute" =>
            \A x \in s[i].args, y \in s[j].args : SameDst(x, y) => i < j

(* A destination that is not wanted is deleted after every addition.       *)
RetiresLast(s, W) ==
    \A i, j \in DOMAIN s :
        s[i].op = "DeleteRoute" /\ s[j].op = "AddRoute" =>
            \A x \in s[i].args, y \in s[j].args : (\E w \in W : SameDst(x, w)) \/ j < i

(* The parts of a concatenation.                                           *)
LEMMA ConcatParts ==
    ASSUME NEW S, NEW s \in Seq(S), NEW t \in Seq(S)
    PROVE  /\ DOMAIN s \subseteq DOMAIN (s \o t)
           /\ \A i \in DOMAIN s : (s \o t)[i] = s[i]
           /\ \A i \in DOMAIN t : Len(s) + i \in DOMAIN (s \o t) /\ (s \o t)[Len(s) + i] = t[i]
           /\ \A k \in DOMAIN (s \o t) :
                 k \in DOMAIN s \/ \E i \in DOMAIN t : k = Len(s) + i
<1>1. /\ Len(s) \in Nat /\ Len(t) \in Nat
      /\ DOMAIN s = 1 .. Len(s) /\ DOMAIN t = 1 .. Len(t)
      /\ s \o t \in Seq(S) /\ Len(s \o t) = Len(s) + Len(t)
  OBVIOUS
<1>2. DOMAIN (s \o t) = 1 .. Len(s) + Len(t)
  BY <1>1
<1>3. /\ \A i \in 1 .. Len(s) : (s \o t)[i] = s[i]
      /\ \A i \in 1 .. Len(t) : (s \o t)[Len(s) + i] = t[i]
  OBVIOUS
<1>4. ASSUME NEW k \in 1 .. Len(s) + Len(t), ~(k =< Len(s))
      PROVE  \E i \in 1 .. Len(t) : k = Len(s) + i
  <2>1. k - Len(s) \in 1 .. Len(t) /\ k = Len(s) + (k - Len(s))
    BY <1>1, <1>4
  <2> QED
    BY <2>1
<1>5. DOMAIN s \subseteq DOMAIN (s \o t)
  BY <1>1, <1>2
<1>6. \A i \in DOMAIN t : Len(s) + i \in DOMAIN (s \o t)
  BY <1>1, <1>2
<1>7. ASSUME NEW k \in DOMAIN (s \o t), k \notin DOMAIN s
      PROVE  \E i \in DOMAIN t : k = Len(s) + i
  BY <1>1, <1>2, <1>4, <1>7
<1> QED
  BY <1>1, <1>3, <1>5, <1>6, <1>7

(* Membership in ArgsOf.                                                   *)
LEMMA ArgsOfDef ==
    ASSUME NEW s, NEW op, NEW x
    PROVE  x \in ArgsOf(s, op) <=> \E i \in DOMAIN s : s[i].op = op /\ x \in s[i].args
BY DEF ArgsOf

(* The arguments of a concatenation.                                       *)
LEMMA ArgsOfConcat ==
    ASSUME NEW s \in Seq(Batch), NEW t \in Seq(Batch), NEW op
    PROVE  ArgsOf(s \o t, op) = ArgsOf(s, op) \cup ArgsOf(t, op)
<1>1. ASSUME NEW x, x \in ArgsOf(s \o t, op)
      PROVE  x \in ArgsOf(s, op) \/ x \in ArgsOf(t, op)
  <2>1. PICK k \in DOMAIN (s \o t) : (s \o t)[k].op = op /\ x \in (s \o t)[k].args
    BY <1>1, ArgsOfDef
  <2>2. CASE k \in DOMAIN s
    BY <2>1, <2>2, ArgsOfDef, ConcatParts
  <2>3. ASSUME NEW i \in DOMAIN t, k = Len(s) + i
        PROVE  x \in ArgsOf(t, op)
    BY <2>1, <2>3, ArgsOfDef, ConcatParts
  <2> QED
    BY <2>2, <2>3, ConcatParts
<1>2. ASSUME NEW x, x \in ArgsOf(s, op)
      PROVE  x \in ArgsOf(s \o t, op)
  <2>1. PICK i \in DOMAIN s : s[i].op = op /\ x \in s[i].args
    BY <1>2, ArgsOfDef
  <2>2. i \in DOMAIN (s \o t) /\ (s \o t)[i] = s[i]
    BY ConcatParts
  <2> QED
    BY <2>1, <2>2, ArgsOfDef
<1>3. ASSUME NEW x, x \in ArgsOf(t, op)
      PROVE  x \in ArgsOf(s \o t, op)
  <2>1. PICK i \in DOMAIN t : t[i].op = op /\ x \in t[i].args
    BY <1>3, ArgsOfDef
  <2>2. Len(s) + i \in DOMAIN (s \o t) /\ (s \o t)[Len(s) + i] = t[i]
    BY ConcatParts
  <2> QED
    BY <2>1, <2>2, ArgsOfDef
<1> QED
  BY <1>1, <1>2, <1>3

(* What concatenation does to batches, for the lemmas that follow.         *)
LEMMA BatchesConcat ==
    ASSUME NEW s \in Seq(Batch), NEW t \in Seq(Batch)
    PROVE  /\ Len(s) \in Nat
           /\ \A i \in DOMAIN s : i \in Nat /\ i =< Len(s) /\ (s \o t)[i] = s[i]
           /\ \A i \in DOMAIN t : i \in Nat /\ i > 0 /\ (s \o t)[Len(s) + i] = t[i]
           /\ \A k \in DOMAIN (s \o t) : k \in DOMAIN s \/ \E i \in DOMAIN t : k = Len(s) + i
<1>1. /\ Len(s) \in Nat
      /\ \A i \in DOMAIN s : i \in Nat /\ i =< Len(s)
      /\ \A i \in DOMAIN t : i \in Nat /\ i > 0
  OBVIOUS
<1> QED
  BY <1>1, ConcatParts

(* Two sequences whose deletions differ.                                   *)
LEMMA DisjointConcat ==
    ASSUME NEW s \in Seq(Batch), NEW t \in Seq(Batch),
           DisjointDeletes(s), DisjointDeletes(t),
           ArgsOf(s, "DeleteRoute") \cap ArgsOf(t, "DeleteRoute") = {}
    PROVE  DisjointDeletes(s \o t)
<1> DEFINE u == s \o t
           n == Len(s)
<1>2. /\ n \in Nat
      /\ \A i \in DOMAIN s : i \in Nat /\ i =< n /\ u[i] = s[i]
      /\ \A i \in DOMAIN t : i \in Nat /\ i > 0 /\ u[n + i] = t[i]
      /\ \A k \in DOMAIN u : k \in DOMAIN s \/ \E i \in DOMAIN t : k = n + i
  BY BatchesConcat
<1> HIDE DEF u, n
<1> SUFFICES ASSUME NEW k \in DOMAIN u, NEW l \in DOMAIN u, NEW x,
                    u[k].op = "DeleteRoute", u[l].op = "DeleteRoute", k # l,
                    x \in u[k].args, x \in u[l].args
             PROVE  FALSE
  BY DEF DisjointDeletes, u
<1>3. k \in DOMAIN s => x \in ArgsOf(s, "DeleteRoute")
  BY <1>2, ArgsOfDef
<1>4. l \in DOMAIN s => x \in ArgsOf(s, "DeleteRoute")
  BY <1>2, ArgsOfDef
<1>5. k \notin DOMAIN s => x \in ArgsOf(t, "DeleteRoute")
  BY <1>2, ArgsOfDef
<1>6. l \notin DOMAIN s => x \in ArgsOf(t, "DeleteRoute")
  BY <1>2, ArgsOfDef
<1>7. CASE k \in DOMAIN s /\ l \in DOMAIN s
  BY <1>2, <1>7 DEF DisjointDeletes
<1>8. CASE k \notin DOMAIN s /\ l \notin DOMAIN s
  <2>1. PICK i \in DOMAIN t : k = n + i
    BY <1>2, <1>8
  <2>2. PICK j \in DOMAIN t : l = n + j
    BY <1>2, <1>8
  <2> QED
    BY <1>2, <2>1, <2>2 DEF DisjointDeletes
<1> QED
  BY <1>3, <1>4, <1>5, <1>6, <1>7, <1>8

(* No deletion of the second is in the way of an addition of the first.    *)
LEMMA FirstConcat ==
    ASSUME NEW s \in Seq(Batch), NEW t \in Seq(Batch),
           DeletesFirst(s), DeletesFirst(t),
           \A x \in ArgsOf(t, "DeleteRoute"), y \in ArgsOf(s, "AddRoute") : ~SameDst(x, y)
    PROVE  DeletesFirst(s \o t)
<1> DEFINE u == s \o t
           n == Len(s)
<1>2. /\ n \in Nat
      /\ \A i \in DOMAIN s : i \in Nat /\ i =< n /\ u[i] = s[i]
      /\ \A i \in DOMAIN t : i \in Nat /\ i > 0 /\ u[n + i] = t[i]
      /\ \A k \in DOMAIN u : k \in DOMAIN s \/ \E i \in DOMAIN t : k = n + i
  BY BatchesConcat
<1> HIDE DEF u, n
<1> SUFFICES ASSUME NEW k \in DOMAIN u, NEW l \in DOMAIN u,
                    u[k].op = "DeleteRoute", u[l].op = "AddRoute",
                    NEW x \in u[k].args, NEW y \in u[l].args, SameDst(x, y)
             PROVE  k < l
  BY DEF DeletesFirst, u
<1>3. CASE k \in DOMAIN s /\ l \in DOMAIN s
  BY <1>2, <1>3 DEF DeletesFirst
<1>4. CASE k \in DOMAIN s /\ l \notin DOMAIN s
  BY <1>2, <1>4
<1>5. CASE k \notin DOMAIN s /\ l \in DOMAIN s
  <2>1. x \in ArgsOf(t, "DeleteRoute") /\ y \in ArgsOf(s, "AddRoute")
    BY <1>2, <1>5, ArgsOfDef
  <2> QED
    BY <2>1
<1>6. CASE k \notin DOMAIN s /\ l \notin DOMAIN s
  <2>1. PICK i \in DOMAIN t : k = n + i
    BY <1>2, <1>6
  <2>2. PICK j \in DOMAIN t : l = n + j
    BY <1>2, <1>6
  <2>3. i < j
    BY <1>2, <2>1, <2>2 DEF DeletesFirst
  <2> QED
    BY <1>2, <2>1, <2>2, <2>3
<1> QED
  BY <1>3, <1>4, <1>5, <1>6

(* Nothing is added after the first deletes what is not wanted.            *)
LEMMA LastConcat ==
    ASSUME NEW s \in Seq(Batch), NEW t \in Seq(Batch), NEW W,
           RetiresLast(s, W), RetiresLast(t, W),
           \A x \in ArgsOf(s, "DeleteRoute"), y \in ArgsOf(t, "AddRoute") :
              \E w \in W : SameDst(x, w)
    PROVE  RetiresLast(s \o t, W)
<1> DEFINE u == s \o t
           n == Len(s)
<1>2. /\ n \in Nat
      /\ \A i \in DOMAIN s : i \in Nat /\ i =< n /\ u[i] = s[i]
      /\ \A i \in DOMAIN t : i \in Nat /\ i > 0 /\ u[n + i] = t[i]
      /\ \A k \in DOMAIN u : k \in DOMAIN s \/ \E i \in DOMAIN t : k = n + i
  BY BatchesConcat
<1> HIDE DEF u, n
<1> SUFFICES ASSUME NEW k \in DOMAIN u, NEW l \in DOMAIN u,
                    u[k].op = "DeleteRoute", u[l].op = "AddRoute",
                    NEW x \in u[k].args, NEW y \in u[l].args,
                    ~ \E w \in W : SameDst(x, w)
             PROVE  l < k
  BY DEF RetiresLast, u
<1>3. CASE k \in DOMAIN s /\ l \in DOMAIN s
  BY <1>2, <1>3 DEF RetiresLast
<1>4. CASE k \notin DOMAIN s /\ l \in DOMAIN s
  BY <1>2, <1>4
<1>5. CASE k \in DOMAIN s /\ l \notin DOMAIN s
  <2>1. x \in ArgsOf(s, "DeleteRoute") /\ y \in ArgsOf(t, "AddRoute")
    BY <1>2, <1>5, ArgsOfDef
  <2> QED
    BY <2>1
<1>6. CASE k \notin DOMAIN s /\ l \notin DOMAIN s
  <2>1. PICK i \in DOMAIN t : k = n + i
    BY <1>2, <1>6
  <2>2. PICK j \in DOMAIN t : l = n + j
    BY <1>2, <1>6
  <2>3. j < i
    BY <1>2, <2>1, <2>2 DEF RetiresLast
  <2> QED
    BY <1>2, <2>1, <2>2, <2>3
<1> QED
  BY <1>3, <1>4, <1>5, <1>6

(* One call, taken off a batch.                                            *)
TakenOff(s, i, x) == [s EXCEPT ![i].args = @ \ {x}]

(* What a call that has been made changes in the calls left, and what it   *)
(* keeps of their order.                                                   *)
LEMMA TakenOffArgs ==
    ASSUME NEW s \in Seq(Batch), NEW i \in DOMAIN s, NEW x \in s[i].args, NEW W
    PROVE  LET t == TakenOff(s, i, x)
           IN  /\ \A op : ArgsOf(t, op) \subseteq ArgsOf(s, op)
               /\ \A op : op # s[i].op => ArgsOf(t, op) = ArgsOf(s, op)
               /\ \A op : ArgsOf(s, op) \subseteq ArgsOf(t, op) \cup {x}
               /\ x \in ArgsOf(s, s[i].op)
               /\ DisjointDeletes(s) => DisjointDeletes(t)
               /\ DeletesFirst(s) => DeletesFirst(t)
               /\ RetiresLast(s, W) => RetiresLast(t, W)
               /\ DisjointDeletes(s) /\ s[i].op = "DeleteRoute" => x \notin ArgsOf(t, "DeleteRoute")
<1> DEFINE t == TakenOff(s, i, x)
<1>0. s[i] \in Batch /\ \A j \in DOMAIN s : s[j] \in Batch
  OBVIOUS
<1>1. /\ DOMAIN t = DOMAIN s
      /\ \A j \in DOMAIN s : j # i => t[j] = s[j]
      /\ t[i] = [s[i] EXCEPT !.args = @ \ {x}]
  BY DEF TakenOff
<1>2. t[i].op = s[i].op /\ t[i].args = s[i].args \ {x}
  BY <1>0, <1>1 DEF Batch
<1> HIDE DEF t
<1>3. \A j \in DOMAIN s : t[j].op = s[j].op /\ t[j].args \subseteq s[j].args
  BY <1>1, <1>2
<1>4. \A op : ArgsOf(t, op) \subseteq ArgsOf(s, op)
  BY <1>1, <1>3, ArgsOfDef
<1>5. \A op : op # s[i].op => ArgsOf(t, op) = ArgsOf(s, op)
  <2> SUFFICES ASSUME NEW op, op # s[i].op PROVE ArgsOf(t, op) = ArgsOf(s, op)
    OBVIOUS
  <2> SUFFICES ASSUME NEW y \in ArgsOf(s, op) PROVE y \in ArgsOf(t, op)
    BY <1>4
  <2>1. PICK j \in DOMAIN s : s[j].op = op /\ y \in s[j].args
    BY ArgsOfDef
  <2> QED
    BY <1>1, <2>1, ArgsOfDef
<1>6. \A op : ArgsOf(s, op) \subseteq ArgsOf(t, op) \cup {x}
  <2> SUFFICES ASSUME NEW op, NEW y \in ArgsOf(s, op), y # x PROVE y \in ArgsOf(t, op)
    OBVIOUS
  <2>1. PICK j \in DOMAIN s : s[j].op = op /\ y \in s[j].args
    BY ArgsOfDef
  <2>2. t[j].op = op /\ y \in t[j].args
    BY <1>1, <1>2, <2>1
  <2> QED
    BY <1>1, <2>1, <2>2, ArgsOfDef
<1>7. x \in ArgsOf(s, s[i].op)
  BY ArgsOfDef
<1>8. DisjointDeletes(s) => DisjointDeletes(t)
  <2> SUFFICES ASSUME DisjointDeletes(s), NEW k \in DOMAIN t, NEW l \in DOMAIN t,
                      t[k].op = "DeleteRoute", t[l].op = "DeleteRoute", k # l
               PROVE  t[k].args \cap t[l].args = {}
    BY DEF DisjointDeletes
  <2>1. s[k].args \cap s[l].args = {}
    BY <1>1, <1>3 DEF DisjointDeletes
  <2> QED
    BY <1>1, <1>3, <2>1
<1>9. DeletesFirst(s) => DeletesFirst(t)
  <2> SUFFICES ASSUME DeletesFirst(s), NEW k \in DOMAIN t, NEW l \in DOMAIN t,
                      t[k].op = "DeleteRoute", t[l].op = "AddRoute",
                      NEW a \in t[k].args, NEW b \in t[l].args, SameDst(a, b)
               PROVE  k < l
    BY DEF DeletesFirst
  <2>1. s[k].op = "DeleteRoute" /\ s[l].op = "AddRoute" /\ a \in s[k].args /\ b \in s[l].args
    BY <1>1, <1>3
  <2> QED
    BY <1>1, <2>1 DEF DeletesFirst
<1>10. RetiresLast(s, W) => RetiresLast(t, W)
  <2> SUFFICES ASSUME RetiresLast(s, W), NEW k \in DOMAIN t, NEW l \in DOMAIN t,
                      t[k].op = "DeleteRoute", t[l].op = "AddRoute",
                      NEW a \in t[k].args, NEW b \in t[l].args,
                      ~ \E w \in W : SameDst(a, w)
               PROVE  l < k
    BY DEF RetiresLast
  <2>1. s[k].op = "DeleteRoute" /\ s[l].op = "AddRoute" /\ a \in s[k].args /\ b \in s[l].args
    BY <1>1, <1>3
  <2> QED
    BY <1>1, <2>1 DEF RetiresLast
<1>11. DisjointDeletes(s) /\ s[i].op = "DeleteRoute" => x \notin ArgsOf(t, "DeleteRoute")
  <2> SUFFICES ASSUME DisjointDeletes(s), s[i].op = "DeleteRoute",
                      NEW j \in DOMAIN s, s[j].op = "DeleteRoute", x \in t[j].args
               PROVE  FALSE
    BY <1>1, <1>3, ArgsOfDef
  <2>1. j # i /\ x \in s[j].args
    BY <1>1, <1>2
  <2> QED
    BY <2>1 DEF DisjointDeletes
<1> QED
  BY <1>4, <1>5, <1>6, <1>7, <1>8, <1>9, <1>10, <1>11 DEF t

-----------------------------------------------------------------------------
(* Plans *)

(* The members of f[i] for all i of D.                                     *)
Gather(f, D) == UNION {f[i] : i \in D}

(* The additions and removals diffRoutes and diffRules compute for each    *)
(* group, from what it needs and what it holds; and how routes.Apply       *)
(* divides the removals between its two loops.                             *)
Additions(need, hold) == [i \in DOMAIN need |-> need[i] \ hold[i]]
Removals(need, hold)  == [i \in DOMAIN need |-> hold[i] \ need[i]]
Conflicts(need, hold) ==
    [i \in DOMAIN need |-> ConflictingRouteRemovals(need[i] \ hold[i], hold[i] \ need[i])]
Leftovers(need, hold) ==
    [i \in DOMAIN need |->
        (hold[i] \ need[i]) \ ConflictingRouteRemovals(need[i] \ hold[i], hold[i] \ need[i])]

(* Membership in Gather.                                                   *)
LEMMA GatherDef ==
    ASSUME NEW f, NEW D, NEW x
    PROVE  x \in Gather(f, D) <=> \E i \in D : x \in f[i]
BY DEF Gather

(* One more group.                                                         *)
LEMMA GatherMore ==
    ASSUME NEW f, NEW D, NEW n
    PROVE  Gather(f, D \cup {n}) = Gather(f, D) \cup f[n]
BY DEF Gather

(* A plan for the routes of the groups D, and for their rules.             *)
RoutePlan(pl, W, D, need, hold) ==
    /\ W = Gather(need, D)
    /\ ArgsOf(pl.pass1, "AddRoute") = Gather(Additions(need, hold), D)
    /\ ArgsOf(pl.pass1, "DeleteRoute") = Gather(Conflicts(need, hold), D)
    /\ ArgsOf(pl.pass2, "DeleteRoute") = Gather(Leftovers(need, hold), D)
    /\ DisjointDeletes(pl.pass1) /\ DisjointDeletes(pl.pass2)
    /\ DeletesFirst(pl.pass1)

RulePlan(pl, W, D, need, hold) ==
    /\ W = Gather(need, D)
    /\ ArgsOf(pl.rules, "AddRule") = Gather(Additions(need, hold), D)
    /\ ArgsOf(pl.rules, "DeleteRule") = Gather(Removals(need, hold), D)

(* Each part of a plan has calls of its own kind only.                     *)
InPasses(pl) ==
    /\ \A op \in {"AddRoute", "DeleteRoute"} : ArgsOf(pl.rules, op) = {}
    /\ \A op \in {"AddRule", "DeleteRule"} : ArgsOf(pl.pass1, op) = {} /\ ArgsOf(pl.pass2, op) = {}
    /\ ArgsOf(pl.pass2, "AddRoute") = {}

(* The groups of D have a table each, and need and hold routes of it.      *)
Separate(D, need, hold, table) ==
    /\ \A i \in D : \A r \in need[i] \cup hold[i] : r.table = table[i]
    /\ \A i, j \in D : table[i] = table[j] => i = j

(* The arguments of one batch and of two.                                  *)
LEMMA OneBatch ==
    ASSUME NEW a, NEW A, NEW op
    PROVE  ArgsOf(<<Call(a, A)>>, op) = IF a = op THEN A ELSE {}
<1> DEFINE t == <<Call(a, A)>>
<1>1. DOMAIN t = {1} /\ t[1].op = a /\ t[1].args = A
  BY DEF Call
<1> HIDE DEF t
<1>2. \A x : x \in ArgsOf(t, op) <=> (a = op /\ x \in A)
  BY <1>1, ArgsOfDef
<1>3. ArgsOf(t, op) = IF a = op THEN A ELSE {}
  BY <1>2
<1> QED
  BY <1>3 DEF t

(* The arguments of two batches of different operations.                   *)
LEMMA TwoBatches ==
    ASSUME NEW a, NEW b, a # b, NEW A, NEW B
    PROVE  /\ ArgsOf(<<Call(a, A), Call(b, B)>>, a) = A
           /\ ArgsOf(<<Call(a, A), Call(b, B)>>, b) = B
           /\ \A op : op # a /\ op # b => ArgsOf(<<Call(a, A), Call(b, B)>>, op) = {}
<1> DEFINE s == <<Call(a, A), Call(b, B)>>
<1>1. DOMAIN s = {1, 2} /\ s[1].op = a /\ s[1].args = A /\ s[2].op = b /\ s[2].args = B
  BY DEF Call
<1> HIDE DEF s
<1>2. \A op, x : x \in ArgsOf(s, op) <=> (a = op /\ x \in A) \/ (b = op /\ x \in B)
  BY <1>1, ArgsOfDef
<1>3. ArgsOf(s, a) = A
  BY <1>2
<1>4. ArgsOf(s, b) = B
  BY <1>2
<1>5. ASSUME NEW op, op # a, op # b
      PROVE  ArgsOf(s, op) = {}
  BY <1>2, <1>5
<1> QED
  BY <1>3, <1>4, <1>5 DEF s

(* The batches one group adds to a plan.                                   *)
LEMMA ReplaceParts ==
    ASSUME NEW want, NEW have, NEW s, s = Replace(want, have)
    PROVE  /\ ArgsOf(s, "AddRoute") = want \ have
           /\ ArgsOf(s, "DeleteRoute") = ConflictingRouteRemovals(want \ have, have \ want)
           /\ \A op \in {"AddRule", "DeleteRule"} : ArgsOf(s, op) = {}
           /\ DisjointDeletes(s) /\ DeletesFirst(s)
<1> DEFINE clash == ConflictingRouteRemovals(want \ have, have \ want)
           add == want \ have
<1>1. s = <<Call("DeleteRoute", clash), Call("AddRoute", add)>>
  BY DEF Replace
<1> HIDE DEF clash, add
<1>2. /\ ArgsOf(s, "AddRoute") = add
      /\ ArgsOf(s, "DeleteRoute") = clash
  BY <1>1, TwoBatches
<1>3. \A op \in {"AddRule", "DeleteRule"} : ArgsOf(s, op) = {}
  BY <1>1, TwoBatches
<1>4. DisjointDeletes(s) /\ DeletesFirst(s)
  BY <1>1 DEF DisjointDeletes, DeletesFirst, Call
<1> QED
  BY <1>2, <1>3, <1>4 DEF clash, add

(* The first pass of routes.Apply adds what is wanted and not there.       *)
LEMMA ReplaceAdds ==
    ASSUME NEW want, NEW have
    PROVE  ArgsOf(Replace(want, have), "AddRoute") = want \ have
<1> DEFINE add   == want \ have
           clash == ConflictingRouteRemovals(add, have \ want)
<1>1. Replace(want, have) = <<Call("DeleteRoute", clash), Call("AddRoute", add)>>
  BY DEF Replace
<1> SUFFICES ArgsOf(Replace(want, have), "AddRoute") = add
  OBVIOUS
<1> HIDE DEF clash, add
<1> QED
  BY <1>1, TwoBatches

(* The second pass removes what is obsolete and not in the way of an       *)
(* addition, and nothing twice.                                            *)
LEMMA RetireParts ==
    ASSUME NEW want, NEW have, NEW s, s = Retire(want, have)
    PROVE  /\ ArgsOf(s, "DeleteRoute")
                 = (have \ want) \ ConflictingRouteRemovals(want \ have, have \ want)
           /\ \A op \in {"AddRoute", "AddRule", "DeleteRule"} : ArgsOf(s, op) = {}
           /\ DisjointDeletes(s)
<1> DEFINE rest == (have \ want) \ ConflictingRouteRemovals(want \ have, have \ want)
<1>1. s = <<Call("DeleteRoute", rest)>>
  BY DEF Retire
<1> HIDE DEF rest
<1>2. ArgsOf(s, "DeleteRoute") = rest
  BY <1>1, OneBatch
<1>3. \A op \in {"AddRoute", "AddRule", "DeleteRule"} : ArgsOf(s, op) = {}
  BY <1>1, OneBatch
<1>4. DisjointDeletes(s)
  BY <1>1 DEF DisjointDeletes, Call
<1> QED
  BY <1>2, <1>3, <1>4 DEF rest

(* rules.Apply adds what is wanted and not there, and removes what is      *)
(* there and not wanted.                                                   *)
LEMMA RuleCallsParts ==
    ASSUME NEW want, NEW have, NEW s, s = RuleCalls(want, have)
    PROVE  /\ ArgsOf(s, "AddRule") = want \ have
           /\ ArgsOf(s, "DeleteRule") = have \ want
           /\ \A op \in {"AddRoute", "DeleteRoute"} : ArgsOf(s, op) = {}
<1>1. s = <<Call("AddRule", want \ have), Call("DeleteRule", have \ want)>>
  BY DEF RuleCalls
<1>2. /\ ArgsOf(s, "AddRule") = want \ have
      /\ ArgsOf(s, "DeleteRule") = have \ want
  BY <1>1, TwoBatches
<1>3. \A op \in {"AddRoute", "DeleteRoute"} : ArgsOf(s, op) = {}
  BY <1>1, TwoBatches
<1> QED
  BY <1>2, <1>3

(* PlanGroup's part of a plan, for the routes.                             *)
LEMMA RoutePlanGrows ==
    ASSUME NEW pl, pl.pass1 \in Seq(Batch), pl.pass2 \in Seq(Batch), InPasses(pl),
           NEW W, NEW D, NEW need, NEW hold, NEW table,
           RoutePlan(pl, W, D, need, hold), D \subseteq DOMAIN need,
           NEW n \in DOMAIN need, n \notin D,
           Separate(D \cup {n}, need, hold, table),
           NEW one \in Seq(Batch), one = Replace(need[n], hold[n]),
           NEW two \in Seq(Batch), two = Retire(need[n], hold[n]),
           NEW pl2, pl2.pass1 = pl.pass1 \o one, pl2.pass2 = pl.pass2 \o two
    PROVE  RoutePlan(pl2, W \cup need[n], D \cup {n}, need, hold)
<1> DEFINE add   == Additions(need, hold)
           clash == Conflicts(need, hold)
           rest  == Leftovers(need, hold)
<1>1. /\ \A i \in DOMAIN need : add[i] = need[i] \ hold[i]
      /\ \A i \in DOMAIN need : clash[i] = ConflictingRouteRemovals(need[i] \ hold[i], hold[i] \ need[i])
      /\ \A i \in DOMAIN need : rest[i] = (hold[i] \ need[i]) \ clash[i]
  BY DEF Additions, Conflicts, Leftovers
<1>2. \A i \in DOMAIN need : clash[i] \subseteq hold[i] \ need[i]
  BY <1>1 DEF ConflictingRouteRemovals
<1> HIDE DEF add, clash, rest
<1>3. /\ ArgsOf(one, "AddRoute") = add[n]
      /\ ArgsOf(one, "DeleteRoute") = clash[n]
      /\ ArgsOf(two, "DeleteRoute") = rest[n]
      /\ DisjointDeletes(one) /\ DisjointDeletes(two) /\ DeletesFirst(one)
  <2>1. /\ add[n] = need[n] \ hold[n]
        /\ clash[n] = ConflictingRouteRemovals(need[n] \ hold[n], hold[n] \ need[n])
        /\ rest[n] = (hold[n] \ need[n])
                       \ ConflictingRouteRemovals(need[n] \ hold[n], hold[n] \ need[n])
    BY <1>1
  <2>2. /\ ArgsOf(one, "AddRoute") = add[n]
        /\ ArgsOf(one, "DeleteRoute") = clash[n]
        /\ DisjointDeletes(one) /\ DeletesFirst(one)
    <3>1. ArgsOf(one, "AddRoute") = need[n] \ hold[n]
      BY ReplaceAdds, Zenon
    <3>2. ArgsOf(one, "DeleteRoute")
             = ConflictingRouteRemovals(need[n] \ hold[n], hold[n] \ need[n])
      BY ReplaceParts, Zenon
    <3>3. DisjointDeletes(one) /\ DeletesFirst(one)
      BY ReplaceParts, Zenon
    <3> QED
      BY <2>1, <3>1, <3>2, <3>3
  <2>3. ArgsOf(two, "DeleteRoute") = rest[n] /\ DisjointDeletes(two)
    <3>1. /\ ArgsOf(two, "DeleteRoute") = (hold[n] \ need[n])
                \ ConflictingRouteRemovals(need[n] \ hold[n], hold[n] \ need[n])
          /\ DisjointDeletes(two)
      BY RetireParts, Zenon
    <3> QED
      BY <2>1, <3>1
  <2> QED
    BY <2>2, <2>3
<1>4. /\ ArgsOf(pl.pass1, "AddRoute") = Gather(add, D)
      /\ ArgsOf(pl.pass1, "DeleteRoute") = Gather(clash, D)
      /\ ArgsOf(pl.pass2, "DeleteRoute") = Gather(rest, D)
      /\ DisjointDeletes(pl.pass1) /\ DisjointDeletes(pl.pass2) /\ DeletesFirst(pl.pass1)
      /\ W = Gather(need, D)
  BY DEF RoutePlan, add, clash, rest
<1>5. /\ W \cup need[n] = Gather(need, D \cup {n})
      /\ ArgsOf(pl2.pass1, "AddRoute") = Gather(add, D \cup {n})
      /\ ArgsOf(pl2.pass1, "DeleteRoute") = Gather(clash, D \cup {n})
      /\ ArgsOf(pl2.pass2, "DeleteRoute") = Gather(rest, D \cup {n})
  <2>1. \A op : /\ ArgsOf(pl2.pass1, op) = ArgsOf(pl.pass1, op) \cup ArgsOf(one, op)
                /\ ArgsOf(pl2.pass2, op) = ArgsOf(pl.pass2, op) \cup ArgsOf(two, op)
    BY ArgsOfConcat
  <2>2. \A f : Gather(f, D \cup {n}) = Gather(f, D) \cup f[n]
    BY GatherMore
  <2> QED
    BY <1>3, <1>4, <2>1, <2>2
<1>6. ASSUME NEW f, \A i \in D \cup {n} : f[i] \subseteq need[i] \cup hold[i]
      PROVE  /\ \A x \in f[n] : x.table = table[n]
             /\ \A x \in Gather(f, D) : x.table # table[n]
  <2>1. \A x \in f[n] : x.table = table[n]
    BY <1>6 DEF Separate
  <2>2. ASSUME NEW x \in Gather(f, D)
        PROVE  x.table # table[n]
    <3>1. PICK i \in D : x \in f[i]
      BY GatherDef
    <3>2. x.table = table[i] /\ i # n
      BY <1>6, <3>1 DEF Separate
    <3> QED
      BY <3>2 DEF Separate
  <2> QED
    BY <2>1, <2>2
<1>7. /\ \A x \in add[n] \cup clash[n] \cup rest[n] : x.table = table[n]
      /\ \A x \in Gather(add, D) : x.table # table[n]
      /\ \A x \in Gather(clash, D) : x.table # table[n]
      /\ \A x \in Gather(rest, D) : x.table # table[n]
  <2>1. \A i \in D \cup {n} : /\ add[i] \subseteq need[i] \cup hold[i]
                              /\ clash[i] \subseteq need[i] \cup hold[i]
                              /\ rest[i] \subseteq need[i] \cup hold[i]
    BY <1>1, <1>2
  <2>2. (\A x \in add[n] : x.table = table[n]) /\ \A x \in Gather(add, D) : x.table # table[n]
    BY <1>6, <2>1
  <2>3. (\A x \in clash[n] : x.table = table[n]) /\ \A x \in Gather(clash, D) : x.table # table[n]
    BY <1>6, <2>1
  <2>4. (\A x \in rest[n] : x.table = table[n]) /\ \A x \in Gather(rest, D) : x.table # table[n]
    BY <1>6, <2>1
  <2> QED
    BY <2>2, <2>3, <2>4
<1>8. DisjointDeletes(pl2.pass1)
  <2>1. ArgsOf(pl.pass1, "DeleteRoute") \cap ArgsOf(one, "DeleteRoute") = {}
    BY <1>3, <1>4, <1>7
  <2> QED
    BY <1>3, <1>4, <2>1, DisjointConcat
<1>9. DisjointDeletes(pl2.pass2)
  <2>1. ArgsOf(pl.pass2, "DeleteRoute") \cap ArgsOf(two, "DeleteRoute") = {}
    BY <1>3, <1>4, <1>7
  <2> QED
    BY <1>3, <1>4, <2>1, DisjointConcat
<1>10. DeletesFirst(pl2.pass1)
  <2>1. \A x \in ArgsOf(one, "DeleteRoute"), y \in ArgsOf(pl.pass1, "AddRoute") : ~SameDst(x, y)
    BY <1>3, <1>4, <1>7 DEF SameDst
  <2> QED
    BY <1>3, <1>4, <2>1, FirstConcat
<1> QED
  BY <1>5, <1>8, <1>9, <1>10 DEF RoutePlan, add, clash, rest

(* And for the rules.                                                      *)
LEMMA RulePlanGrows ==
    ASSUME NEW pl, pl.rules \in Seq(Batch),
           NEW W, NEW D, NEW need, NEW hold,
           RulePlan(pl, W, D, need, hold),
           NEW n \in DOMAIN need,
           NEW one \in Seq(Batch), one = RuleCalls(need[n], hold[n]),
           NEW pl2, pl2.rules = pl.rules \o one
    PROVE  RulePlan(pl2, W \cup need[n], D \cup {n}, need, hold)
<1> DEFINE add    == Additions(need, hold)
           remove == Removals(need, hold)
<1>1. add[n] = need[n] \ hold[n] /\ remove[n] = hold[n] \ need[n]
  BY DEF Additions, Removals
<1> HIDE DEF add, remove
<1>3. ArgsOf(one, "AddRule") = add[n] /\ ArgsOf(one, "DeleteRule") = remove[n]
  BY <1>1, RuleCallsParts
<1>4. /\ ArgsOf(pl.rules, "AddRule") = Gather(add, D)
      /\ ArgsOf(pl.rules, "DeleteRule") = Gather(remove, D)
      /\ W = Gather(need, D)
  BY DEF RulePlan, add, remove
<1>5. /\ W \cup need[n] = Gather(need, D \cup {n})
      /\ ArgsOf(pl2.rules, "AddRule") = Gather(add, D \cup {n})
      /\ ArgsOf(pl2.rules, "DeleteRule") = Gather(remove, D \cup {n})
  <2>1. \A op : ArgsOf(pl2.rules, op) = ArgsOf(pl.rules, op) \cup ArgsOf(one, op)
    BY ArgsOfConcat
  <2>2. \A f : Gather(f, D \cup {n}) = Gather(f, D) \cup f[n]
    BY GatherMore
  <2> QED
    BY <1>3, <1>4, <2>1, <2>2
<1> QED
  BY <1>5 DEF RulePlan, add, remove

-----------------------------------------------------------------------------
(* The calls of a plan, while they are made *)

(* What is true of the route calls still to be made, C: the wanted routes  *)
(* W are those of the groups D; only unwanted routes of the kernel's table *)
(* f are deleted; what is not to be added any more has its slot taken by a *)
(* route that stays; what a group of D holds is wanted or to be deleted.   *)
RouteCallsLeft(C, W, f, D, need, hold, table) ==
    /\ W = Gather(need, D)
    /\ ArgsOf(C, "AddRoute") \subseteq W
    /\ ArgsOf(C, "DeleteRoute") \subseteq f \ W
    /\ DisjointDeletes(C) /\ DeletesFirst(C) /\ RetiresLast(C, W)
    /\ \A r \in W \ ArgsOf(C, "AddRoute") :
          \E q \in f \ ArgsOf(C, "DeleteRoute") : SameSlot(q, Installed(r))
    /\ \A i \in D : \A q \in hold[i] \ ArgsOf(C, "DeleteRoute") : \E r \in W : q = Installed(r)
    /\ \A x \in ArgsOf(C, "DeleteRoute") : \E i \in D : x.table = table[i]

(* The kernel's routes: well-formed, as it stores them, one to a slot.     *)
Fib(f) == /\ f \subseteq Route
          /\ \A q \in f : Installed(q) = q
          /\ SlotsUnique(f)

(* No calls, nothing out of order.                                         *)
LEMMA NothingOutOfOrder ==
    ASSUME NEW s, ArgsOf(s, "DeleteRoute") = {} \/ ArgsOf(s, "AddRoute") = {}, NEW W
    PROVE  /\ DeletesFirst(s) /\ RetiresLast(s, W)
           /\ ArgsOf(s, "DeleteRoute") = {} => DisjointDeletes(s)
<1>1. \A op : \A i \in DOMAIN s : \A x \in s[i].args : s[i].op = op => x \in ArgsOf(s, op)
  BY ArgsOfDef
<1>2. DeletesFirst(s)
  BY <1>1 DEF DeletesFirst
<1>3. RetiresLast(s, W)
  BY <1>1 DEF RetiresLast
<1>4. ArgsOf(s, "DeleteRoute") = {} => DisjointDeletes(s)
  BY <1>1 DEF DisjointDeletes
<1> QED
  BY <1>2, <1>3, <1>4

(* A finished plan becomes the calls: rules, then the two loops over the   *)
(* routes.                                                                 *)
LEMMA PlanToRouteCalls ==
    ASSUME NEW pl, pl.rules \in Seq(Batch), pl.pass1 \in Seq(Batch), pl.pass2 \in Seq(Batch),
           InPasses(pl),
           NEW W, NEW D, NEW need, NEW hold, NEW table, D \subseteq DOMAIN need,
           RoutePlan(pl, W, D, need, hold), Separate(D, need, hold, table),
           NEW f, Fib(f), \A i \in D : hold[i] \subseteq f
    PROVE  RouteCallsLeft(pl.rules \o pl.pass1 \o pl.pass2, W, f, D, need, hold, table)
<1> DEFINE add   == Additions(need, hold)
           clash == Conflicts(need, hold)
           rest  == Leftovers(need, hold)
           first == pl.rules \o pl.pass1
           C     == first \o pl.pass2
<1>1. /\ \A i \in D : add[i] = need[i] \ hold[i]
      /\ \A i \in D : clash[i] = ConflictingRouteRemovals(need[i] \ hold[i], hold[i] \ need[i])
      /\ \A i \in D : rest[i] = (hold[i] \ need[i]) \ clash[i]
  BY DEF Additions, Conflicts, Leftovers
<1>2. \A i \in D : clash[i] = {x \in hold[i] \ need[i] : \E a \in add[i] : a.dst = x.dst}
  BY <1>1 DEF ConflictingRouteRemovals
<1>3. /\ ArgsOf(pl.pass1, "AddRoute") = Gather(add, D)
      /\ ArgsOf(pl.pass1, "DeleteRoute") = Gather(clash, D)
      /\ ArgsOf(pl.pass2, "DeleteRoute") = Gather(rest, D)
      /\ DisjointDeletes(pl.pass1) /\ DisjointDeletes(pl.pass2) /\ DeletesFirst(pl.pass1)
      /\ W = Gather(need, D)
  BY DEF RoutePlan
<1>4. /\ ArgsOf(pl.rules, "AddRoute") = {} /\ ArgsOf(pl.rules, "DeleteRoute") = {}
      /\ ArgsOf(pl.pass2, "AddRoute") = {}
  BY DEF InPasses
<1> HIDE DEF add, clash, rest
<1>5. first \in Seq(Batch)
  OBVIOUS
<1>6. /\ ArgsOf(first, "AddRoute") = Gather(add, D)
      /\ ArgsOf(first, "DeleteRoute") = Gather(clash, D)
  <2>1. \A op : ArgsOf(first, op) = ArgsOf(pl.rules, op) \cup ArgsOf(pl.pass1, op)
    BY ArgsOfConcat
  <2> HIDE DEF first
  <2> QED
    BY <1>3, <1>4, <2>1
<1>7. /\ ArgsOf(C, "AddRoute") = Gather(add, D)
      /\ ArgsOf(C, "DeleteRoute") = Gather(clash, D) \cup Gather(rest, D)
  <2>1. \A op : ArgsOf(C, op) = ArgsOf(first, op) \cup ArgsOf(pl.pass2, op)
    BY <1>5, ArgsOfConcat
  <2> HIDE DEF first, C
  <2> QED
    BY <1>3, <1>4, <1>6, <2>1
<1>8. \A i, j \in D : \A x \in need[i] \cup hold[i] : \A y \in need[j] \cup hold[j] :
         x.table = y.table => i = j
  BY DEF Separate
<1>9. /\ \A x \in Gather(add, D) : \E i \in D : x \in need[i] /\ x \notin hold[i]
      /\ \A x \in Gather(clash, D) : \E i \in D : /\ x \in hold[i] /\ x \notin need[i]
                                                  /\ x \in clash[i]
                                                  /\ \E a \in need[i] : SameDst(x, a)
      /\ \A x \in Gather(rest, D) : \E i \in D : /\ x \in hold[i] /\ x \notin need[i]
                                                 /\ x \notin clash[i]
  <2>1. \A x \in Gather(add, D) : \E i \in D : x \in need[i] /\ x \notin hold[i]
    BY <1>1, GatherDef
  <2>2. ASSUME NEW x \in Gather(clash, D)
        PROVE  \E i \in D : /\ x \in hold[i] /\ x \notin need[i]
                            /\ x \in clash[i]
                            /\ \E a \in need[i] : SameDst(x, a)
    <3>1. PICK i \in D : x \in clash[i]
      BY GatherDef
    <3>2. PICK a \in add[i] : a.dst = x.dst
      BY <1>2, <3>1
    <3>3. x \in hold[i] /\ x \notin need[i] /\ a \in need[i]
      BY <1>1, <1>2, <3>1
    <3>4. SameDst(x, a)
      BY <3>2, <3>3 DEF Separate, SameDst
    <3> QED
      BY <3>1, <3>3, <3>4
  <2>3. ASSUME NEW x \in Gather(rest, D)
        PROVE  \E i \in D : x \in hold[i] /\ x \notin need[i] /\ x \notin clash[i]
    <3>1. PICK i \in D : x \in rest[i]
      BY GatherDef
    <3> QED
      BY <1>1, <3>1
  <2> QED
    BY <2>1, <2>2, <2>3
<1>10. \A x \in ArgsOf(C, "DeleteRoute") : \E i \in D : x \in hold[i] /\ x \notin need[i]
  <2> HIDE DEF C
  <2> QED
    BY <1>7, <1>9
<1>11. DisjointDeletes(C)
  <2>1. DisjointDeletes(first)
    <3>1. DisjointDeletes(pl.rules)
      BY <1>4, NothingOutOfOrder
    <3>2. ArgsOf(pl.rules, "DeleteRoute") \cap ArgsOf(pl.pass1, "DeleteRoute") = {}
      BY <1>4
    <3> QED
      BY <1>3, <3>1, <3>2, DisjointConcat
  <2>2. ArgsOf(first, "DeleteRoute") \cap ArgsOf(pl.pass2, "DeleteRoute") = {}
    <3> HIDE DEF first
    <3> SUFFICES ASSUME NEW x \in Gather(clash, D), x \in Gather(rest, D) PROVE FALSE
      BY <1>3, <1>6
    <3>1. PICK i \in D : x \in hold[i] /\ x \in clash[i]
      BY <1>9
    <3>2. PICK j \in D : x \in hold[j] /\ x \notin clash[j]
      BY <1>9
    <3> QED
      BY <1>8, <3>1, <3>2
  <2> HIDE DEF first
  <2> QED
    BY <1>3, <1>5, <2>1, <2>2, DisjointConcat
<1>12. DeletesFirst(C)
  <2>1. DeletesFirst(first)
    <3>1. DeletesFirst(pl.rules)
      BY <1>4, NothingOutOfOrder
    <3>2. \A x \in ArgsOf(pl.pass1, "DeleteRoute"), y \in ArgsOf(pl.rules, "AddRoute") : ~SameDst(x, y)
      BY <1>4
    <3> QED
      BY <1>3, <3>1, <3>2, FirstConcat
  <2>2. DeletesFirst(pl.pass2)
    BY <1>4, NothingOutOfOrder
  <2>3. ASSUME NEW x \in ArgsOf(pl.pass2, "DeleteRoute"), NEW y \in ArgsOf(first, "AddRoute"),
               SameDst(x, y)
        PROVE  FALSE
    <3> HIDE DEF first
    <3>1. PICK i \in D : x \in hold[i] /\ x \notin need[i] /\ x \notin clash[i]
      BY <1>3, <1>9
    <3>2. PICK j \in D : y \in add[j]
      BY <1>6, GatherDef
    <3>3. y \in need[j]
      BY <1>1, <3>2
    <3>4. i = j
      BY <1>8, <2>3, <3>1, <3>3 DEF SameDst
    <3> QED
      BY <1>2, <2>3, <3>1, <3>2, <3>4 DEF SameDst
  <2> HIDE DEF first
  <2> QED
    BY <1>5, <2>1, <2>2, <2>3, FirstConcat
<1>13. RetiresLast(C, W)
  <2>1. RetiresLast(first, W)
    <3>1. RetiresLast(pl.rules, W)
      BY <1>4, NothingOutOfOrder
    <3>2. RetiresLast(pl.pass1, W)
      <4> SUFFICES ASSUME NEW x \in ArgsOf(pl.pass1, "DeleteRoute")
                   PROVE  \E w \in W : SameDst(x, w)
        BY ArgsOfDef DEF RetiresLast
      <4> QED
        BY <1>3, <1>9, GatherDef
    <3>3. \A x \in ArgsOf(pl.rules, "DeleteRoute"), y \in ArgsOf(pl.pass1, "AddRoute") :
             \E w \in W : SameDst(x, w)
      BY <1>4
    <3> QED
      BY <3>1, <3>2, <3>3, LastConcat
  <2>2. RetiresLast(pl.pass2, W)
    BY <1>4, NothingOutOfOrder
  <2>3. \A x \in ArgsOf(first, "DeleteRoute"), y \in ArgsOf(pl.pass2, "AddRoute") :
           \E w \in W : SameDst(x, w)
    BY <1>4
  <2> HIDE DEF first
  <2> QED
    BY <1>5, <2>1, <2>2, <2>3, LastConcat
<1> HIDE DEF C
<1>14. ArgsOf(C, "AddRoute") \subseteq W
  BY <1>3, <1>7, <1>9, GatherDef
<1>15. ASSUME NEW x \in ArgsOf(C, "DeleteRoute")
       PROVE  x \in f /\ x \notin W /\ \E i \in D : x.table = table[i]
  <2>1. PICK i \in D : x \in hold[i] /\ x \notin need[i]
    BY <1>10
  <2>2. ASSUME NEW j \in D PROVE x \notin need[j]
    BY <1>8, <2>1
  <2> QED
    BY <1>3, <2>1, <2>2, GatherDef DEF Separate
<1>16. ASSUME NEW r \in W, r \notin ArgsOf(C, "AddRoute")
       PROVE  \E q \in f \ ArgsOf(C, "DeleteRoute") : SameSlot(q, Installed(r))
  <2>1. PICK i \in D : r \in need[i]
    BY <1>3, GatherDef
  <2>2. r \notin add[i]
    BY <1>7, <1>16, GatherDef
  <2>3. r \in f /\ Installed(r) = r
    BY <1>1, <2>1, <2>2 DEF Fib
  <2>4. r \notin ArgsOf(C, "DeleteRoute") /\ SameSlot(r, Installed(r))
    BY <1>15, <2>3 DEF SameSlot
  <2> QED
    BY <2>3, <2>4
<1>17. ASSUME NEW i \in D, NEW q \in hold[i], q \notin ArgsOf(C, "DeleteRoute")
       PROVE  q \in W /\ q = Installed(q)
  <2>1. q \notin clash[i] /\ q \notin rest[i]
    BY <1>7, <1>17, GatherDef
  <2>2. q \in need[i]
    BY <1>1, <1>2, <2>1
  <2> QED
    BY <1>3, <2>2, GatherDef DEF Fib
<1>18. RouteCallsLeft(C, W, f, D, need, hold, table)
  BY <1>3, <1>11, <1>12, <1>13, <1>14, <1>15, <1>16, <1>17 DEF RouteCallsLeft
<1> QED
  BY <1>18 DEF C

(* One call fewer.                                                         *)
LEMMA TakenOffOrder ==
    ASSUME NEW s \in Seq(Batch), NEW i \in DOMAIN s, NEW x \in s[i].args, NEW W,
           NEW t, t = TakenOff(s, i, x),
           DisjointDeletes(s), DeletesFirst(s), RetiresLast(s, W)
    PROVE  DisjointDeletes(t) /\ DeletesFirst(t) /\ RetiresLast(t, W)
BY TakenOffArgs

(* The arguments of the calls left when one has been made.                 *)
LEMMA TakenOffSets ==
    ASSUME NEW s \in Seq(Batch), NEW i \in DOMAIN s, NEW x \in s[i].args,
           NEW t, t = TakenOff(s, i, x)
    PROVE  /\ \A op : ArgsOf(t, op) \subseteq ArgsOf(s, op)
           /\ \A op : op # s[i].op => ArgsOf(t, op) = ArgsOf(s, op)
           /\ \A op : ArgsOf(s, op) \subseteq ArgsOf(t, op) \cup {x}
           /\ x \in ArgsOf(s, s[i].op)
           /\ DisjointDeletes(s) /\ s[i].op = "DeleteRoute" => ArgsOf(t, "DeleteRoute") = ArgsOf(s, "DeleteRoute") \ {x}
<1>1. /\ \A op : ArgsOf(t, op) \subseteq ArgsOf(s, op)
      /\ \A op : op # s[i].op => ArgsOf(t, op) = ArgsOf(s, op)
      /\ \A op : ArgsOf(s, op) \subseteq ArgsOf(t, op) \cup {x}
      /\ x \in ArgsOf(s, s[i].op)
  BY TakenOffArgs
<1>2. DisjointDeletes(s) /\ s[i].op = "DeleteRoute" => x \notin ArgsOf(t, "DeleteRoute")
  BY TakenOffArgs
<1> QED
  BY <1>1, <1>2

(* A call of rules.Apply leaves the route calls as they are.               *)
LEMMA RuleCallMade ==
    ASSUME NEW C \in Seq(Batch), NEW i \in DOMAIN C, NEW x \in C[i].args,
           C[i].op \notin {"AddRoute", "DeleteRoute"},
           NEW W, NEW f, NEW D, NEW need, NEW hold, NEW table,
           RouteCallsLeft(C, W, f, D, need, hold, table)
    PROVE  RouteCallsLeft(TakenOff(C, i, x), W, f, D, need, hold, table)
<1> DEFINE t == TakenOff(C, i, x)
<1>1. ArgsOf(t, "AddRoute") = ArgsOf(C, "AddRoute") /\ ArgsOf(t, "DeleteRoute") = ArgsOf(C, "DeleteRoute")
  BY TakenOffSets
<1>2. DisjointDeletes(t) /\ DeletesFirst(t) /\ RetiresLast(t, W)
  BY TakenOffOrder DEF RouteCallsLeft
<1> HIDE DEF t
<1>3. RouteCallsLeft(t, W, f, D, need, hold, table)
  BY <1>1, <1>2 DEF RouteCallsLeft
<1> QED
  BY <1>3 DEF t

(* AddRoute for a wanted route: when the slot is taken, the route that has *)
(* it stays, because what is deleted for the destination is gone already.  *)
LEMMA RouteAdded ==
    ASSUME NEW C \in Seq(Batch), NEW i \in DOMAIN C, NEW x \in C[i].args,
           C[i].op = "AddRoute", \A j \in DOMAIN C : j < i => C[j].args = {},
           NEW W, NEW f, NEW D, NEW need, NEW hold, NEW hold2, NEW table,
           RouteCallsLeft(C, W, f, D, need, hold, table), x \in Route, Fib(f),
           \A j \in D : hold2[j] \subseteq hold[j] \cup {Installed(x)}
    PROVE  RouteCallsLeft(TakenOff(C, i, x), W, AddRoute(f, x), D, need, hold2, table)
<1> DEFINE t  == TakenOff(C, i, x)
           f2 == AddRoute(f, x)
           deleted == ArgsOf(C, "DeleteRoute")
<1>1. /\ ArgsOf(t, "AddRoute") \subseteq ArgsOf(C, "AddRoute")
      /\ ArgsOf(t, "DeleteRoute") = deleted
      /\ ArgsOf(C, "AddRoute") \subseteq ArgsOf(t, "AddRoute") \cup {x}
      /\ x \in ArgsOf(C, "AddRoute")
  BY TakenOffSets
<1>2. DisjointDeletes(t) /\ DeletesFirst(t) /\ RetiresLast(t, W)
  BY TakenOffOrder DEF RouteCallsLeft
<1> HIDE DEF t
<1>3. /\ W = Gather(need, D)
      /\ ArgsOf(C, "AddRoute") \subseteq W
      /\ deleted \subseteq f \ W
      /\ \A r \in W \ ArgsOf(C, "AddRoute") :
            \E q \in f \ deleted : SameSlot(q, Installed(r))
      /\ \A j \in D : \A q \in hold[j] \ deleted : \E r \in W : q = Installed(r)
      /\ \A y \in deleted : \E j \in D : y.table = table[j]
      /\ DeletesFirst(C)
  BY DEF RouteCallsLeft
<1>4. f \subseteq f2 /\ x \in W
  BY <1>1, <1>3 DEF AddRoute
<1>5. \E q \in f2 \ deleted : SameSlot(q, Installed(x))
  <2>1. CASE \E q \in f : SameSlot(q, Installed(x))
    <3>1. PICK q \in f : SameSlot(q, Installed(x))
      BY <2>1
    <3>2. SameDst(q, x)
      BY <3>1, InstalledType DEF SameSlot, SameDst
    <3>3. ASSUME q \in deleted PROVE FALSE
      <4>1. PICK j \in DOMAIN C : C[j].op = "DeleteRoute" /\ q \in C[j].args
        BY <3>3, ArgsOfDef
      <4>2. j < i
        BY <1>3, <3>2, <4>1 DEF DeletesFirst
      <4> QED
        BY <4>1, <4>2
    <3> QED
      BY <1>4, <3>1, <3>3
  <2>2. CASE ~ \E q \in f : SameSlot(q, Installed(x))
    <3>1. Installed(x) \in f2 /\ SameSlot(Installed(x), Installed(x))
      BY <2>2 DEF AddRoute, SameSlot
    <3>2. Installed(x) \notin f
      BY <2>2 DEF SameSlot
    <3> QED
      BY <1>3, <3>1, <3>2
  <2> QED
    BY <2>1, <2>2
<1> HIDE DEF f2, deleted
<1>6. ASSUME NEW r \in W, r \notin ArgsOf(t, "AddRoute")
      PROVE  \E q \in f2 \ deleted : SameSlot(q, Installed(r))
  <2>1. CASE r = x
    BY <1>5, <2>1
  <2>2. CASE r # x
    <3>1. PICK q \in f \ deleted : SameSlot(q, Installed(r))
      BY <1>1, <1>3, <1>6, <2>2
    <3> QED
      BY <1>4, <3>1
  <2> QED
    BY <2>1, <2>2
<1>7. ASSUME NEW j \in D, NEW q \in hold2[j], q \notin deleted
      PROVE  \E r \in W : q = Installed(r)
  BY <1>3, <1>4, <1>7
<1>8. RouteCallsLeft(t, W, f2, D, need, hold2, table)
  BY <1>1, <1>2, <1>3, <1>4, <1>6, <1>7 DEF RouteCallsLeft
<1> QED
  BY <1>8 DEF t, f2

(* DeleteRoute removes exactly the route it was planned for.               *)
LEMMA RouteDeleted ==
    ASSUME NEW C \in Seq(Batch), NEW i \in DOMAIN C, NEW x \in C[i].args,
           C[i].op = "DeleteRoute",
           NEW W, NEW f, NEW D, NEW need, NEW hold, NEW hold2, NEW table,
           RouteCallsLeft(C, W, f, D, need, hold, table), x \in Route, Fib(f),
           \A j \in D : hold2[j] \subseteq hold[j] \ {x}
    PROVE  RouteCallsLeft(TakenOff(C, i, x), W, f \ {x}, D, need, hold2, table)
<1> DEFINE t  == TakenOff(C, i, x)
           deleted == ArgsOf(C, "DeleteRoute")
<1>0. DisjointDeletes(C)
  BY DEF RouteCallsLeft
<1>1. /\ ArgsOf(t, "AddRoute") = ArgsOf(C, "AddRoute")
      /\ ArgsOf(t, "DeleteRoute") = deleted \ {x}
  BY <1>0, TakenOffSets
<1>2. DisjointDeletes(t) /\ DeletesFirst(t) /\ RetiresLast(t, W)
  BY TakenOffOrder DEF RouteCallsLeft
<1> HIDE DEF t, deleted
<1>3. /\ W = Gather(need, D)
      /\ ArgsOf(C, "AddRoute") \subseteq W
      /\ deleted \subseteq f \ W
      /\ \A r \in W \ ArgsOf(C, "AddRoute") :
            \E q \in f \ deleted : SameSlot(q, Installed(r))
      /\ \A j \in D : \A q \in hold[j] \ deleted : \E r \in W : q = Installed(r)
      /\ \A y \in deleted : \E j \in D : y.table = table[j]
  BY DEF RouteCallsLeft, deleted
<1>4. x \in deleted
  BY ArgsOfDef DEF deleted
<1>5. \A r \in W \ ArgsOf(t, "AddRoute") :
            \E q \in (f \ {x}) \ (deleted \ {x}) : SameSlot(q, Installed(r))
  BY <1>1, <1>3, <1>4
<1>6. \A j \in D : \A q \in hold2[j] \ (deleted \ {x}) : \E r \in W : q = Installed(r)
  BY <1>3
<1>7. RouteCallsLeft(t, W, f \ {x}, D, need, hold2, table)
  BY <1>1, <1>2, <1>3, <1>5, <1>6 DEF RouteCallsLeft
<1> QED
  BY <1>7 DEF t

-----------------------------------------------------------------------------
(* The rule calls still to be made: the same, for rules, K those that any  *)
(* configuration asks for.                                                 *)
RuleCallsLeft(C, W, k, D, need, hold, K) ==
    /\ W = Gather(need, D)
    /\ ArgsOf(C, "AddRule") \subseteq W
    /\ ArgsOf(C, "DeleteRule") \subseteq K \ W
    /\ \A r \in W \ ArgsOf(C, "AddRule") : RuleRequest(r) \in k
    /\ \A i \in D : hold[i] \subseteq need[i] \cup ArgsOf(C, "DeleteRule")

(* A complete plan, scheduled, accounts for the rules of all its groups.   *)
LEMMA PlanToRuleCalls ==
    ASSUME NEW pl, pl.rules \in Seq(Batch), pl.pass1 \in Seq(Batch), pl.pass2 \in Seq(Batch),
           InPasses(pl),
           NEW W, NEW D, NEW need, NEW hold, NEW table, D \subseteq DOMAIN need,
           RulePlan(pl, W, D, need, hold), Separate(D, need, hold, table),
           NEW k, \A i \in D : \A r \in need[i] \cap hold[i] : RuleRequest(r) \in k,
           NEW K, \A i \in D : hold[i] \subseteq K
    PROVE  RuleCallsLeft(pl.rules \o pl.pass1 \o pl.pass2, W, k, D, need, hold, K)
<1> DEFINE add    == Additions(need, hold)
           remove == Removals(need, hold)
           first  == pl.rules \o pl.pass1
           C      == first \o pl.pass2
<1>1. \A i \in D : add[i] = need[i] \ hold[i] /\ remove[i] = hold[i] \ need[i]
  BY DEF Additions, Removals
<1>2. /\ ArgsOf(pl.rules, "AddRule") = Gather(add, D)
      /\ ArgsOf(pl.rules, "DeleteRule") = Gather(remove, D)
      /\ W = Gather(need, D)
  BY DEF RulePlan
<1>3. \A op \in {"AddRule", "DeleteRule"} : ArgsOf(pl.pass1, op) = {} /\ ArgsOf(pl.pass2, op) = {}
  BY DEF InPasses
<1> HIDE DEF add, remove
<1>4. first \in Seq(Batch) /\ \A op : ArgsOf(first, op) = ArgsOf(pl.rules, op) \cup ArgsOf(pl.pass1, op)
  BY ArgsOfConcat
<1>5. \A op : ArgsOf(C, op) = ArgsOf(first, op) \cup ArgsOf(pl.pass2, op)
  BY <1>4, ArgsOfConcat
<1> HIDE DEF first, C
<1>6. ArgsOf(C, "AddRule") = Gather(add, D) /\ ArgsOf(C, "DeleteRule") = Gather(remove, D)
  BY <1>2, <1>3, <1>4, <1>5
<1>7. ArgsOf(C, "AddRule") \subseteq W
  BY <1>1, <1>2, <1>6, GatherDef
<1>8. ASSUME NEW x \in Gather(remove, D)
      PROVE  x \in K /\ x \notin W
  <2>1. PICK i \in D : x \in hold[i] /\ x \notin need[i]
    BY <1>1, GatherDef
  <2>2. ASSUME NEW j \in D PROVE x \notin need[j]
    BY <2>1 DEF Separate
  <2> QED
    BY <1>2, <2>1, <2>2, GatherDef
<1>9. ASSUME NEW r \in W, r \notin Gather(add, D)
      PROVE  RuleRequest(r) \in k
  <2>1. PICK i \in D : r \in need[i]
    BY <1>2, GatherDef
  <2> QED
    BY <1>1, <1>9, <2>1, GatherDef
<1>10. ASSUME NEW i \in D, NEW q \in hold[i], q \notin need[i]
       PROVE  q \in Gather(remove, D)
  BY <1>1, <1>10, GatherDef
<1>11. RuleCallsLeft(C, W, k, D, need, hold, K)
  BY <1>2, <1>6, <1>7, <1>8, <1>9, <1>10 DEF RuleCallsLeft
<1> QED
  BY <1>11 DEF C, first

(* A call of routes.Apply leaves the rule calls as they are.               *)
LEMMA RouteCallMade ==
    ASSUME NEW C \in Seq(Batch), NEW i \in DOMAIN C, NEW x \in C[i].args,
           C[i].op \notin {"AddRule", "DeleteRule"},
           NEW W, NEW k, NEW D, NEW need, NEW hold, NEW K,
           RuleCallsLeft(C, W, k, D, need, hold, K)
    PROVE  RuleCallsLeft(TakenOff(C, i, x), W, k, D, need, hold, K)
<1> DEFINE t == TakenOff(C, i, x)
<1>1. ArgsOf(t, "AddRule") = ArgsOf(C, "AddRule") /\ ArgsOf(t, "DeleteRule") = ArgsOf(C, "DeleteRule")
  BY TakenOffSets
<1> HIDE DEF t
<1>3. RuleCallsLeft(t, W, k, D, need, hold, K)
  BY <1>1 DEF RuleCallsLeft
<1> QED
  BY <1>3 DEF t

(* A rule that has been added keeps the account.                           *)
LEMMA RuleAdded ==
    ASSUME NEW C \in Seq(Batch), NEW i \in DOMAIN C, NEW x \in C[i].args, C[i].op = "AddRule",
           NEW W, NEW k, NEW k2, NEW D, NEW need, NEW hold, NEW hold2, NEW K,
           RuleCallsLeft(C, W, k, D, need, hold, K),
           k2 = k \cup {RuleRequest(x)},
           \A j \in D : hold2[j] \subseteq hold[j] \cup need[j]
    PROVE  RuleCallsLeft(TakenOff(C, i, x), W, k2, D, need, hold2, K)
<1> DEFINE t == TakenOff(C, i, x)
<1>1. /\ ArgsOf(t, "AddRule") \subseteq ArgsOf(C, "AddRule")
      /\ ArgsOf(C, "AddRule") \subseteq ArgsOf(t, "AddRule") \cup {x}
      /\ ArgsOf(t, "DeleteRule") = ArgsOf(C, "DeleteRule")
  BY TakenOffSets
<1> HIDE DEF t
<1>2. \A r \in W \ ArgsOf(t, "AddRule") : RuleRequest(r) \in k2
  BY <1>1 DEF RuleCallsLeft
<1>3. \A j \in D : hold2[j] \subseteq need[j] \cup ArgsOf(t, "DeleteRule")
  BY <1>1 DEF RuleCallsLeft
<1>4. RuleCallsLeft(t, W, k2, D, need, hold2, K)
  BY <1>1, <1>2, <1>3 DEF RuleCallsLeft
<1> QED
  BY <1>4 DEF t

(* So does a rule that has been removed, unless its request stands for     *)
(* another.                                                                *)
LEMMA RuleDeleted ==
    ASSUME NEW C \in Seq(Batch), NEW i \in DOMAIN C, NEW x \in C[i].args, C[i].op = "DeleteRule",
           NEW W, NEW k, NEW D, NEW need, NEW hold, NEW hold2, NEW K,
           RuleCallsLeft(C, W, k, D, need, hold, K), W \subseteq K,
           \A r \in K : RuleRequest(r) = RuleRequest(x) => r = x,
           \A j \in D : hold2[j] \subseteq hold[j] \ {x}
    PROVE  RuleCallsLeft(TakenOff(C, i, x), W, k \ {RuleRequest(x)}, D, need, hold2, K)
<1> DEFINE t == TakenOff(C, i, x)
<1>1. /\ ArgsOf(t, "AddRule") = ArgsOf(C, "AddRule")
      /\ ArgsOf(t, "DeleteRule") \subseteq ArgsOf(C, "DeleteRule")
      /\ ArgsOf(C, "DeleteRule") \subseteq ArgsOf(t, "DeleteRule") \cup {x}
      /\ x \in ArgsOf(C, "DeleteRule")
  BY TakenOffSets
<1> HIDE DEF t
<1>2. \A r \in W \ ArgsOf(t, "AddRule") : RuleRequest(r) \in k \ {RuleRequest(x)}
  BY <1>1 DEF RuleCallsLeft
<1>3. \A j \in D : hold2[j] \subseteq need[j] \cup ArgsOf(t, "DeleteRule")
  BY <1>1 DEF RuleCallsLeft
<1>4. RuleCallsLeft(t, W, k \ {RuleRequest(x)}, D, need, hold2, K)
  BY <1>1, <1>2, <1>3 DEF RuleCallsLeft
<1> QED
  BY <1>4 DEF t

-----------------------------------------------------------------------------
(* Cleanup plans *)

(* A cleanup plan's rule calls are the deletions of the rules listed for   *)
(* an enabled rule, whatever their family.                                 *)
LEMMA CleanupCallsParts ==
    ASSUME NEW s \in Seq(KernelRule), NEW c, NEW g, g \in Group,
           NEW t, t = CleanupRuleCalls(s, c, g)
    PROVE  /\ ArgsOf(t, "DeleteRule") = IF g.rule.enabled THEN OwnedRules(s, c, g) ELSE {}
           /\ \A op : op # "DeleteRule" => ArgsOf(t, op) = {}
<1> DEFINE Args(i, fam) == IF g.rule.enabled /\ s[i].fam = fam /\ IsOwnedRule(s[i], c, g)
                           THEN {Reported(s[i])} ELSE {}
           Listed(fam) == [i \in DOMAIN s |-> Call("DeleteRule", Args(i, fam))]
<1>1. t = Listed(4) \o Listed(6)
  BY DEF CleanupRuleCalls
<1>2. ASSUME NEW fam
      PROVE  /\ DOMAIN Listed(fam) = DOMAIN s
             /\ \A i \in DOMAIN s : Listed(fam)[i].op = "DeleteRule" /\ Listed(fam)[i].args = Args(i, fam)
  BY DEF Call
<1>3. ASSUME NEW fam
      PROVE  Listed(fam) \in Seq(Batch)
  <2>1. ASSUME NEW i \in DOMAIN s
        PROVE  Call("DeleteRule", Args(i, fam)) \in Batch
    <3>1. s[i] \in KernelRule
      OBVIOUS
    <3>2. IsOwnedRule(s[i], c, g) => Reported(s[i]) \in Rule
      BY <3>1, ReportedOwned DEF RulesOf
    <3>3. Args(i, fam) \in SUBSET Rule
      BY <3>2
    <3> HIDE DEF Args
    <3> QED
      BY <3>3 DEF Call, Batch
  <2> HIDE DEF Args
  <2> QED
    BY <2>1
<1> HIDE DEF Listed
<1>4. \A op : ArgsOf(t, op) = ArgsOf(Listed(4), op) \cup ArgsOf(Listed(6), op)
  BY <1>1, <1>3, ArgsOfConcat
<1>5. \A op, x : \A fam \in {4, 6} : x \in ArgsOf(Listed(fam), op) <=>
         op = "DeleteRule" /\ \E i \in DOMAIN s : x \in Args(i, fam)
  <2> SUFFICES ASSUME NEW op, NEW x, NEW fam
               PROVE  x \in ArgsOf(Listed(fam), op) <=>
                        op = "DeleteRule" /\ \E i \in DOMAIN s : x \in Args(i, fam)
    OBVIOUS
  <2> DEFINE L == Listed(fam)
             A(i) == Args(i, fam)
  <2>1. DOMAIN L = DOMAIN s /\ \A i \in DOMAIN s : L[i].op = "DeleteRule" /\ L[i].args = A(i)
    BY <1>2
  <2> HIDE DEF L, A
  <2>2. x \in ArgsOf(L, op) <=> op = "DeleteRule" /\ \E i \in DOMAIN s : x \in A(i)
    BY <2>1, ArgsOfDef
  <2> QED
    BY <2>2 DEF L, A
<1>6. \A op : op # "DeleteRule" => ArgsOf(t, op) = {}
  BY <1>4, <1>5
<1>7. ASSUME NEW i \in DOMAIN s, IsOwnedRule(s[i], c, g)
      PROVE  s[i].fam \in {4, 6}
  <2>1. s[i] \in KernelRule
    OBVIOUS
  <2> QED
    BY <2>1 DEF KernelRule, Fams
<1>8. \A x : x \in OwnedRules(s, c, g) <=>
         \E i \in DOMAIN s : IsOwnedRule(s[i], c, g) /\ x = Reported(s[i])
  BY DEF OwnedRules, ToSet
<1>9. \A x : x \in ArgsOf(t, "DeleteRule") <=> g.rule.enabled /\ x \in OwnedRules(s, c, g)
  <2>1. \A x : x \in ArgsOf(t, "DeleteRule") <=>
           \E i \in DOMAIN s : x \in Args(i, 4) \/ x \in Args(i, 6)
    BY <1>4, <1>5
  <2> QED
    BY <1>7, <1>8, <2>1
<1>10. ArgsOf(t, "DeleteRule") = IF g.rule.enabled THEN OwnedRules(s, c, g) ELSE {}
  BY <1>9
<1> QED
  BY <1>6, <1>10

(* Plans keep their parts sorted as they grow.                             *)
LEMMA SortedGrows ==
    ASSUME NEW pl, pl.rules \in Seq(Batch), pl.pass1 \in Seq(Batch), pl.pass2 \in Seq(Batch),
           InPasses(pl),
           NEW r \in Seq(Batch), NEW one \in Seq(Batch), NEW two \in Seq(Batch),
           \A op \in {"AddRoute", "DeleteRoute"} : ArgsOf(r, op) = {},
           \A op \in {"AddRule", "DeleteRule"} : ArgsOf(one, op) = {} /\ ArgsOf(two, op) = {},
           ArgsOf(two, "AddRoute") = {},
           NEW pl2, pl2.rules = pl.rules \o r, pl2.pass1 = pl.pass1 \o one,
           pl2.pass2 = pl.pass2 \o two
    PROVE  InPasses(pl2)
<1>1. \A op : /\ ArgsOf(pl2.rules, op) = ArgsOf(pl.rules, op) \cup ArgsOf(r, op)
              /\ ArgsOf(pl2.pass1, op) = ArgsOf(pl.pass1, op) \cup ArgsOf(one, op)
              /\ ArgsOf(pl2.pass2, op) = ArgsOf(pl.pass2, op) \cup ArgsOf(two, op)
  BY ArgsOfConcat
<1> QED
  BY <1>1 DEF InPasses

-----------------------------------------------------------------------------
(* Config *)

(* Defaults keep the types.                                                *)
LEMMA DefaultSourceType ==
    ASSUME NEW s \in SourceFile
    PROVE  (IF s.type # "" THEN s
            ELSE [type |-> "ripe_country", country |-> "RU", url |-> s.url]) \in SourceFile
<1>1. s.url \in Text({})
  BY DEF SourceFile
<1>2. [type |-> "ripe_country", country |-> "RU", url |-> s.url] \in SourceFile
  BY <1>1 DEF SourceFile, Text
<1> QED
  BY <1>2

(* The defaults of the RU group leave it a group of a file.                *)
LEMMA DefaultRUType ==
    ASSUME RUName \in Names, NEW g \in GroupFile
    PROVE  DefaultRU(g) \in GroupFile
<1> DEFINE s == IF g.source.type # "" THEN g.source
                ELSE [type |-> "ripe_country", country |-> "RU", url |-> g.source.url]
<1>1. coalesce(g.name, RUName) \in Names \cup {""}
  BY DEF GroupFile, coalesce
<1>2. g.source \in SourceFile
  BY DEF GroupFile
<1>3. s \in SourceFile
  BY <1>2, DefaultSourceType
<1>4. DefaultRU(g) = [g EXCEPT !.name = coalesce(g.name, RUName), !.source = s]
  BY DEF DefaultRU, GroupFile
<1> HIDE DEF s
<1> QED
  BY <1>1, <1>3, <1>4 DEF GroupFile

(* A default for a number is a number.                                     *)
LEMMA NonZeroType ==
    ASSUME NEW v \in Int, NEW d \in Int
    PROVE  NonZero(v, d) \in Int
BY DEF NonZero

(* Flags keep them as well.                                                *)
LEMMA LoadConfigType ==
    ASSUME RUName \in Names, NEW o \in Options, NEW f \in ConfigFile
    PROVE  LoadConfig(o, f) \in ConfigFile
<1>1. DefaultRU(f.ru) \in GroupFile
  BY DefaultRUType DEF ConfigFile
<1>2. ApplyDefaults(f) \in ConfigFile
  <2>1. /\ f.refresh \in Int /\ f.health \in Int
        /\ f.proto \in Int /\ f.base \in Int /\ f.step \in Int
        /\ f.format \in Text({"text", "json"})
        /\ f.builtin \in {"", "true", "false"}
    BY DEF ConfigFile
  <2> DEFINE refresh == NonZero(f.refresh, DefaultRefresh)
             health  == NonZero(f.health, DefaultHealth)
             proto   == NonZero(f.proto, 99)
             base    == NonZero(f.base, 1000)
             step    == NonZero(f.step, 10)
  <2>n. /\ refresh \in Int /\ health \in Int
        /\ proto \in Int /\ base \in Int /\ step \in Int
    <3>1. DefaultRefresh \in Int /\ DefaultHealth \in Int
      BY DEF DefaultRefresh, DefaultHealth
    <3>2. refresh \in Int /\ health \in Int
      BY <2>1, <3>1, NonZeroType
    <3>3. PICK p \in Int, b \in Int, t \in Int : p = 99 /\ b = 1000 /\ t = 10
      OBVIOUS
    <3>4. NonZero(f.proto, p) \in Int /\ NonZero(f.base, b) \in Int /\ NonZero(f.step, t) \in Int
      BY <2>1, NonZeroType
    <3>5. proto \in Int /\ base \in Int /\ step \in Int
      BY <3>3, <3>4, Zenon
    <3> QED
      BY <3>2, <3>5
  <2>2. coalesce(f.format, "text") \in Text({"text", "json"})
    BY <2>1 DEF coalesce, Text
  <2>3. coalesce(f.builtin, "true") \in {"", "true", "false"}
    BY <2>1 DEF coalesce
  <2> DEFINE c1 == [f EXCEPT !.refresh = refresh]
             c2 == [c1 EXCEPT !.health = health]
             c3 == [c2 EXCEPT !.format = coalesce(f.format, "text")]
             c4 == [c3 EXCEPT !.proto = proto]
             c5 == [c4 EXCEPT !.base = base]
             c6 == [c5 EXCEPT !.step = step]
             c7 == [c6 EXCEPT !.builtin = coalesce(f.builtin, "true")]
             c8 == [c7 EXCEPT !.ru = DefaultRU(f.ru)]
  <2>4. ApplyDefaults(f) = c8
    BY DEF ApplyDefaults
  <2> HIDE DEF refresh, health, proto, base, step, c1, c2, c3, c4, c5, c6, c7, c8
  <2>5. c1 \in ConfigFile
    BY <2>n DEF c1, ConfigFile
  <2>6. c2 \in ConfigFile
    BY <2>n, <2>5 DEF c2, ConfigFile
  <2>7. c3 \in ConfigFile
    BY <2>2, <2>6 DEF c3, ConfigFile
  <2>8. c4 \in ConfigFile
    BY <2>n, <2>7 DEF c4, ConfigFile
  <2>9. c5 \in ConfigFile
    BY <2>n, <2>8 DEF c5, ConfigFile
  <2>10. c6 \in ConfigFile
    BY <2>n, <2>9 DEF c6, ConfigFile
  <2>11. c7 \in ConfigFile
    BY <2>3, <2>10 DEF c7, ConfigFile
  <2>12. c8 \in ConfigFile
    BY <1>1, <2>11 DEF c8, ConfigFile
  <2> QED
    BY <2>4, <2>12
<1>3. ASSUME NEW c \in ConfigFile
      PROVE  DisableRUDefault(c) \in ConfigFile
  <2>1. [c.ru EXCEPT !.enabled = FALSE] \in GroupFile
    BY DEF ConfigFile, GroupFile
  <2> QED
    BY <2>1 DEF DisableRUDefault, ConfigFile
<1>4. ASSUME NEW c \in ConfigFile
      PROVE  Override(o, c) \in ConfigFile
  <2> DEFINE d == IF o.disableRU THEN DisableRUDefault(c) ELSE c
  <2>1. d \in ConfigFile
    BY <1>3, <1>4
  <2> HIDE DEF d
  <2>2. [d EXCEPT !.format  = coalesce(o.format, @),
                  !.refresh = NonZero(o.interval, @),
                  !.cleanup = @ \/ o.cleanup] \in ConfigFile
    BY <2>1 DEF ConfigFile, Options, coalesce, NonZero
  <2> QED
    BY <2>2 DEF Override, d
<1> QED
  BY <1>2, <1>4 DEF LoadConfig

-----------------------------------------------------------------------------
(* Every place of EnabledZones is taken by an enabled zone.                *)
LEMMA EnabledZonesType ==
    ASSUME NEW S, NEW zones \in Seq(S)
    PROVE  EnabledZones(zones) \in Seq(S)
<1> DEFINE set == {z \in DOMAIN zones : zones[z].enabled}
           on  == InOrder(set)
<1>1. set \in SUBSET (1 .. Len(zones)) /\ Len(zones) \in Nat /\ set \in SUBSET Nat
  OBVIOUS
<1>2. IsFiniteSet(set)
  BY <1>1, FS_Interval, FS_Subset
<1> HIDE DEF set
<1>3. on \in [1 .. Cardinality(set) -> set] /\ Cardinality(set) \in Nat
  BY <1>1, <1>2, InOrderFacts
<1> HIDE DEF on
<1>4. EnabledZones(zones) = [k \in DOMAIN on |-> zones[on[k]]]
  BY DEF EnabledZones, on, set
<1>5. DOMAIN on = 1 .. Cardinality(set) /\ \A k \in DOMAIN on : on[k] \in 1 .. Len(zones)
  BY <1>1, <1>3
<1>6. EnabledZones(zones) \in [1 .. Cardinality(set) -> S]
  <2>1. \A k \in DOMAIN on : zones[on[k]] \in S
    BY <1>5
  <2> QED
    BY <1>4, <1>5, <2>1
<1> QED
  BY <1>3, <1>6

(* The groups of a configuration are groups of the file.                   *)
LEMMA GroupsType ==
    ASSUME RUName \in Names, NEW c \in ConfigFile
    PROVE  Groups(c) \in Seq(GroupFile)
<1>1. [c.ru EXCEPT !.name = RUName] \in GroupFile
  BY DEF ConfigFile, GroupFile
<1>2. EnabledZones(c.zones) \in Seq(GroupFile)
  BY EnabledZonesType DEF ConfigFile
<1> QED
  BY <1>1, <1>2 DEF Groups

-----------------------------------------------------------------------------
(* An address that is not checked for its family is one of them, or none.  *)
LEMMA AddrTextCases ==
    ASSUME NEW a \in AddrText
    PROVE  /\ a \in Addr \/ a = NoAddr \/ a = BadAddr
           /\ a # BadAddr => a \in Addr \cup {NoAddr}
           /\ a.fam \in {4, 6} => a \in Addr
BY DEF AddrText, Addr, NoAddr, BadAddr

(* validateNextHop leaves no address of a gateway unparsed.                *)
LEMMA GatewayType ==
    ASSUME NEW family, NEW h \in HopFile, NEW gw \in GatewayFile,
           ValidGateway(family, h, gw)
    PROVE  GatewayOfFile(gw) \in Gateway
<1>1. /\ gw.dev \in Dev /\ gw.onlink \in BOOLEAN
      /\ gw.via \in AddrText /\ gw.via4 \in AddrText /\ gw.via6 \in AddrText
  BY DEF GatewayFile
<1>2. /\ gw.via # BadAddr
      /\ gw.via4 # NoAddr => gw.via4.fam = 4
      /\ gw.via6 # NoAddr => gw.via6.fam = 6
  <2> DEFINE m == MergeNextHop(h, gw)
  <2>1. ValidAddresses(family, m)
    BY DEF ValidGateway
  <2>2. m.via = gw.via /\ m.via4 = gw.via4 /\ m.via6 = gw.via6
    BY DEF MergeNextHop
  <2>3. BadAddr # NoAddr
    BY DEF BadAddr, NoAddr
  <2> HIDE DEF m
  <2>4. /\ m.via # NoAddr => m.via # BadAddr
        /\ m.via4 # NoAddr => m.via4.fam = 4
        /\ m.via6 # NoAddr => m.via6.fam = 6
    BY <2>1 DEF ValidAddresses
  <2> QED
    BY <2>2, <2>3, <2>4
<1>3. /\ gw.via \in Addr \cup {NoAddr} /\ gw.via4 \in Addr \cup {NoAddr}
      /\ gw.via6 \in Addr \cup {NoAddr}
  BY <1>1, <1>2, AddrTextCases
<1>4. gw.targets \in SUBSET Addr
  <2>1. (IF gw.targets # {} THEN gw.targets ELSE h.targets) \subseteq Addr
    BY DEF ValidGateway, ValidHealthCheck, MergeNextHop, mergeHealthChecks
  <2> QED
    BY <2>1
<1> QED
  BY <1>1, <1>3, <1>4 DEF GatewayOfFile, Gateway

(* A next hop that passes validateNextHop has only addresses that parse.   *)
LEMMA HopType ==
    ASSUME NEW family, NEW h \in HopFile, NEW b \in BOOLEAN, ValidNextHop(family, h, b)
    PROVE  HopOfFile(h) \in Hop
<1>1. /\ h.dev \in Dev /\ h.onlink \in BOOLEAN /\ h.gateways \in Seq(GatewayFile)
      /\ h.via \in AddrText /\ h.via4 \in AddrText /\ h.via6 \in AddrText
  BY DEF HopFile
<1>2. h.targets \in SUBSET Addr
  BY DEF ValidNextHop, ValidHealthCheck
<1> DEFINE gws == [z \in DOMAIN h.gateways |-> GatewayOfFile(h.gateways[z])]
<1>3. gws \in Seq(Gateway)
  <2>1. ASSUME NEW z \in DOMAIN h.gateways
        PROVE  GatewayOfFile(h.gateways[z]) \in Gateway
    <3>1. h.gateways[z] \in GatewayFile
      BY <1>1
    <3>2. ValidGateway(family, h, h.gateways[z])
      BY DEF ValidNextHop
    <3> QED
      BY <3>1, <3>2, GatewayType
  <2>2. DOMAIN h.gateways = 1 .. Len(h.gateways) /\ Len(h.gateways) \in Nat
    BY <1>1
  <2>3. gws \in [1 .. Len(h.gateways) -> Gateway]
    BY <2>1, <2>2, Zenon
  <2> HIDE DEF gws
  <2> QED
    BY <2>2, <2>3
<1> HIDE DEF gws
<1> DEFINE other == IF h.via.fam = 4 THEN h.via4 ELSE h.via6
           via  == IF BadAddr \in {h.via, other} THEN NoAddr ELSE h.via
           via4 == IF h.via4 = BadAddr THEN NoAddr ELSE h.via4
           via6 == IF h.via6 = BadAddr THEN NoAddr ELSE h.via6
<1>4. via \in Addr \cup {NoAddr} /\ via4 \in Addr \cup {NoAddr} /\ via6 \in Addr \cup {NoAddr}
  BY <1>1, AddrTextCases
<1>5. HopOfFile(h) = [dev |-> h.dev, via |-> via, via4 |-> via4, via6 |-> via6,
                      onlink |-> h.onlink, targets |-> h.targets, gateways |-> gws]
  BY DEF HopOfFile, gws
<1> HIDE DEF via, via4, via6
<1> QED
  BY <1>1, <1>2, <1>3, <1>4, <1>5 DEF Hop

(* A group without a default has the empty next hop for one.               *)
LEMMA NoHopType == NoHop \in Hop
<1>1. NoAddr \in Addr \cup {NoAddr} /\ {} \in SUBSET Addr /\ << >> \in Seq(Gateway)
  OBVIOUS
<1> QED
  BY <1>1, DevAssumption DEF NoHop, Hop

(* What validateGroup accepts is a group the planner can work on.          *)
LEMMA GroupType ==
    ASSUME NEW g \in GroupFile, ValidGroup(g)
    PROVE  GroupOfFile(g) \in Group
<1> DEFINE family == coalesce(g.family, "dual")
           default == IF g.hasDefault THEN HopOfFile(g.default) ELSE NoHop
           from == IF g.rule.enabled THEN g.rule.from ELSE NoPrefix
           rule == [enabled |-> g.rule.enabled, prio |-> g.rule.prio, mark |-> g.rule.mark,
                    mask |-> g.rule.mask, from |-> from]
<1>1. /\ g.name \in Names \cup {""} /\ g.table \in Int /\ g.hop \in HopFile
      /\ g.hasDefault \in BOOLEAN /\ g.default \in HopFile
      /\ g.excludeLocalIPs \in BOOLEAN /\ g.rule \in RuleFile
  BY DEF GroupFile
<1>2. /\ g.name # "" /\ g.table > 0
      /\ family \in Families
      /\ ValidNextHop(family, g.hop, FALSE)
      /\ g.hasDefault => ValidNextHop(family, g.default, TRUE)
      /\ g.excludePrefixes \subseteq RawPrefix
      /\ g.rule.enabled => g.rule.from \in RawPrefix \cup {NoPrefix}
  BY DEF ValidGroup, ValidRule
<1>3. /\ g.name \in Names /\ g.table \in Nat
      /\ g.excludePrefixes \in SUBSET RawPrefix
  <2>1. g.name \in Names
    BY <1>1, <1>2, Zenon
  <2>2. g.table \in Nat
    <3> DEFINE t == g.table
    <3>1. t \in Int /\ t > 0
      BY <1>1, <1>2
    <3> HIDE DEF t
    <3>2. t \in Nat
      BY <3>1
    <3> QED
      BY <3>2 DEF t
  <2> QED
    BY <1>2, <2>1, <2>2
<1>4. g.family \in Families
  BY <1>2 DEF coalesce, Families
<1> HIDE DEF family
<1>5. HopOfFile(g.hop) \in Hop
  BY <1>1, <1>2, HopType
<1>6. default \in Hop
  <2>1. CASE g.hasDefault
    BY <1>1, <1>2, <2>1, HopType
  <2>2. CASE ~g.hasDefault
    BY <2>2, NoHopType
  <2> QED
    BY <2>1, <2>2
<1>7. rule \in RuleConfig
  <2>1. from \in RawPrefix \cup {NoPrefix}
    BY <1>2
  <2>2. /\ g.rule.enabled \in BOOLEAN /\ g.rule.prio \in Nat
        /\ g.rule.mark \in Nat /\ g.rule.mask \in Nat
    BY <1>1 DEF RuleFile
  <2> HIDE DEF from
  <2> QED
    BY <2>1, <2>2 DEF RuleConfig
<1>8. GroupOfFile(g) = [name |-> g.name, table |-> g.table, family |-> g.family,
                        hop |-> HopOfFile(g.hop), default |-> default,
                        excludePrefixes |-> g.excludePrefixes,
                        excludeLocalIPs |-> g.excludeLocalIPs, rule |-> rule]
  BY DEF GroupOfFile
<1> DEFINE mainHop == HopOfFile(g.hop)
<1>9. mainHop \in Hop
  BY <1>5
<1> HIDE DEF default, rule, mainHop
<1>10. [name |-> g.name, table |-> g.table, family |-> g.family, hop |-> mainHop,
        default |-> default, excludePrefixes |-> g.excludePrefixes,
        excludeLocalIPs |-> g.excludeLocalIPs, rule |-> rule] \in Group
  BY <1>1, <1>3, <1>4, <1>6, <1>7, <1>9 DEF Group
<1> QED
  BY <1>8, <1>10 DEF mainHop

(***************************************************************************)
(* Config.Load and loadConfig let nothing through that the reconciler is   *)
(* not defined for: whatever the file and the command line say, if both    *)
(* validations succeed every group has its name, table, family, parsed     *)
(* addresses, health targets and prefixes.                                 *)
(***************************************************************************)
THEOREM AcceptedIsWellFormed ==
    ASSUME RUName \in Names, NEW o \in Options, NEW f \in ConfigFile, Loads(o, f)
    PROVE  Effective(LoadConfig(o, f)) \in Config
<1> DEFINE c == LoadConfig(o, f)
           gs == Groups(c)
           groups == [z \in DOMAIN gs |-> GroupOfFile(gs[z])]
<1>1. c \in ConfigFile
  BY LoadConfigType
<1>2. Validate(c)
  BY DEF Loads
<1> HIDE DEF c
<1>3. gs \in Seq(GroupFile)
  BY <1>1, GroupsType
<1>4. \A z \in DOMAIN gs : ValidGroup(gs[z])
  BY <1>2 DEF Validate
<1>5. Effective(c) = [proto |-> c.proto, base |-> c.base, step |-> c.step,
                      aggregate |-> c.aggregate, groups |-> groups]
  BY DEF Effective
<1> HIDE DEF gs
<1>6. groups \in Seq(Group)
  <2>1. ASSUME NEW z \in DOMAIN gs
        PROVE  GroupOfFile(gs[z]) \in Group
    <3>1. gs[z] \in GroupFile
      BY <1>3
    <3> QED
      BY <1>4, <3>1, GroupType
  <2>2. DOMAIN gs = 1 .. Len(gs) /\ Len(gs) \in Nat
    BY <1>3
  <2>3. groups \in [1 .. Len(gs) -> Group]
    BY <2>1, <2>2, Zenon
  <2> HIDE DEF groups
  <2> QED
    BY <2>2, <2>3
<1> HIDE DEF groups
<1>7. c.proto \in Nat /\ c.base \in Nat /\ c.step \in Nat /\ c.aggregate \in BOOLEAN
  <2>1. c.proto \in Int /\ c.base \in Int /\ c.step \in Int /\ c.aggregate \in BOOLEAN
    BY <1>1 DEF ConfigFile
  <2>2. c.proto > 0 /\ c.base > 0 /\ c.step > 0
    BY <1>2, <2>1 DEF Validate
  <2> QED
    BY <2>1, <2>2
<1> QED
  BY <1>5, <1>6, <1>7 DEF Config, c
=============================================================================
