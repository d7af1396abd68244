---------------------------- MODULE ProviderProofs ----------------------------
(***************************************************************************)
(* What fetching a list delivers, whatever the publisher serves and        *)
(* wherever the connection breaks: ripe.Fetch implements module Fetch, and *)
(* what txt.Fetch returns of a list that is cut short is bounded by what   *)
(* was read, for every list, address width and radix.                      *)
(***************************************************************************)
EXTENDS Provider, PlannerProofs

(* An answer is given exactly when the fetch is done.                      *)
AnswerInv ==
    /\ phase \in {"open", "read", "done"}
    /\ phase # "done" => answer = F!Pending
    /\ phase = "done" => answer.state \in {"ok", "error"}

(* An answer ends a request that is under way.                             *)
LEMMA ReturnAnswers ==
    ASSUME NEW a, Return(a), a.state \in {"ok", "error"}
    PROVE  AnswerInv'
BY DEF Return, AnswerInv

(* The three answers are different.                                        *)
LEMMA AnswerStates ==
    /\ F!Pending.state = "pending" /\ F!Failed.state = "error"
    /\ \A ps : F!Ok(ps).state = "ok" /\ F!Ok(ps).prefixes = ps
BY DEF F!Pending, F!Failed, F!Ok

(* A request begins unanswered.                                            *)
LEMMA InitAnswerInv == Init => AnswerInv
BY DEF Init, AnswerInv

(* Every step keeps it.                                                    *)
LEMMA NextAnswerInv == AnswerInv /\ [Next]_vars => AnswerInv'
<1> SUFFICES ASSUME AnswerInv, [Next]_vars PROVE AnswerInv'
  OBVIOUS
<1>1. CASE UNCHANGED vars
  BY <1>1 DEF vars, AnswerInv
<1>2. CASE Ask
  BY <1>2 DEF Ask, Begin, AnswerInv
<1>3. CASE Open \/ Scan \/ ReadSome
  BY <1>3 DEF Open, Scan, ReadSome, request, AnswerInv
<1>4. CASE OpenFails \/ ReadBreaks
  <2>1. Return(F!Failed)
    BY <1>4 DEF OpenFails, ReadBreaks
  <2> QED
    BY <2>1, AnswerStates, ReturnAnswers
<1>5. CASE ScanEnds \/ ScanBreaks
  <2>1. \E ps : Return(F!Ok(ps))
    BY <1>5 DEF ScanEnds, ScanBreaks
  <2> QED
    BY <2>1, AnswerStates, ReturnAnswers
<1>6. CASE ReadAll
  <2>1. Return(F!Failed) \/ \E ps : Return(F!Ok(ps))
    BY <1>6 DEF ReadAll
  <2> QED
    BY <2>1, AnswerStates, ReturnAnswers
<1> QED
  BY <1>1, <1>2, <1>3, <1>4, <1>5, <1>6 DEF Next

-----------------------------------------------------------------------------
(* ripe.Fetch, and txt.Fetch where it fails, refine Fetch *)

(* A request begins as one of Fetch.                                       *)
LEMMA InitMaps == Init => F!Init
<1> SUFFICES ASSUME Init PROVE F!Init
  OBVIOUS
<1>1. list \in Lists /\ answer = F!Pending
  BY DEF Init
<1>2. Vouched = F!Pending
  BY <1>1, AnswerStates DEF Vouched
<1> QED
  BY <1>1, <1>2 DEF F!Init

(* While a request is under way nothing is vouched for; what a step        *)
(* returns is either nothing, or an error, or all the valid entries.       *)
LEMMA AnswerMaps ==
    ASSUME AnswerInv, phase # "done", UNCHANGED list,
           Vouched' \in {F!Failed, F!Ok(F!Entries(list))}
    PROVE  F!Answer
<1>1. Vouched = F!Pending
  BY AnswerStates DEF AnswerInv, Vouched
<1> QED
  BY <1>1 DEF F!Answer

(* Every step is one of Fetch or changes nothing there.                    *)
LEMMA NextMaps ==
    AnswerInv /\ [Next]_vars => [F!Next]_<<list, Vouched>>
<1> SUFFICES ASSUME AnswerInv, [Next]_vars PROVE [F!Next]_<<list, Vouched>>
  OBVIOUS
<1>1. CASE UNCHANGED vars
  BY <1>1 DEF vars, Vouched
<1>2. CASE Ask
  <2>1. list' \in Lists /\ answer' = F!Pending /\ phase = "done"
    BY <1>2 DEF Ask, Begin
  <2>2. Vouched' = F!Pending
    BY <2>1, AnswerStates DEF Vouched
  <2>3. Vouched # F!Pending
    <3>1. Vouched.state \in {"ok", "error"}
      BY <2>1 DEF Vouched, AnswerInv
    <3> QED
      BY <3>1, AnswerStates
  <2>4. F!Ask
    BY <2>1, <2>2, <2>3 DEF F!Ask
  <2> QED
    BY <2>4 DEF F!Next
<1>3. CASE Open \/ Scan \/ ReadSome
  <2>1. list' = list /\ type' = type /\ answer' = answer
    BY <1>3 DEF Open, Scan, ReadSome, request
  <2>2. Vouched' = Vouched
    BY <2>1 DEF Vouched
  <2> QED
    BY <2>1, <2>2
<1>4. CASE OpenFails \/ ReadBreaks
  <2>1. Return(F!Failed) /\ phase # "done"
    BY <1>4 DEF OpenFails, ReadBreaks
  <2>2. list' = list /\ answer' = F!Failed
    BY <2>1 DEF Return, request
  <2>3. Vouched' = F!Failed
    BY <2>2, AnswerStates DEF Vouched
  <2> QED
    BY <2>1, <2>2, <2>3, AnswerMaps DEF F!Next
<1>5. CASE ScanEnds \/ ScanBreaks
  <2>1. /\ type = "txt" /\ phase # "done"
        /\ \E ps : Return(F!Ok(ps))
    BY <1>5 DEF ScanEnds, ScanBreaks
  <2>2. PICK ps : Return(F!Ok(ps))
    BY <2>1
  <2>3. list' = list /\ type' = "txt" /\ answer' = F!Ok(ps)
    BY <2>1, <2>2 DEF Return, request
  <2>4. Vouched' = F!Failed
    BY <2>3, AnswerStates DEF Vouched, F!Failed
  <2> QED
    BY <2>1, <2>3, <2>4, AnswerMaps DEF F!Next
<1>6. CASE ReadAll
  <2>1. /\ type = "ripe_country" /\ phase # "done"
        /\ Return(F!Failed) \/ Return(F!Ok(F!Entries(list)))
    BY <1>6 DEF ReadAll
  <2>2. list' = list /\ type' = "ripe_country" /\ answer' \in {F!Failed, F!Ok(F!Entries(list))}
    BY <2>1 DEF Return, request
  <2>3. Vouched' = answer'
    BY <2>2 DEF Vouched
  <2> QED
    BY <2>1, <2>2, <2>3, AnswerMaps DEF F!Next
<1> QED
  BY <1>1, <1>2, <1>3, <1>4, <1>5, <1>6 DEF Next

(* What BuildPlan relies on, and stores as the last known good list, holds *)
(* of ripe.Fetch for every document and every way to break off: the        *)
(* answer is an error or all the valid entries, in order.                  *)
THEOREM FetchIsImplemented == Spec => ImplementsFetch
BY InitAnswerInv, NextAnswerInv, InitMaps, NextMaps, PTL DEF Spec, ImplementsFetch, F!Spec

-----------------------------------------------------------------------------
(* Entries *)

(* The places of the entries that parse.                                   *)
Valid(lines) == {k \in DOMAIN lines : F!IsCIDR(lines[k])}

(* A filter of finitely many lines.                                        *)
LEMMA ValidFacts ==
    ASSUME NEW lines \in Seq(Line)
    PROVE  /\ Valid(lines) \in SUBSET Nat /\ IsFiniteSet(Valid(lines))
           /\ Valid(lines) \subseteq 1 .. Len(lines)
           /\ F!Entries(lines) = [k \in DOMAIN InOrder(Valid(lines)) |->
                                    Masked(lines[InOrder(Valid(lines))[k]].prefix)]
           /\ DOMAIN InOrder(Valid(lines)) = 1 .. Cardinality(Valid(lines))
           /\ \A k \in DOMAIN InOrder(Valid(lines)) : InOrder(Valid(lines))[k] \in Valid(lines)
           /\ Cardinality(Valid(lines)) \in Nat
<1>1. /\ Valid(lines) \in SUBSET (1 .. Len(lines)) /\ Len(lines) \in Nat
      /\ Valid(lines) \in SUBSET Nat
  BY DEF Valid
<1>2. IsFiniteSet(Valid(lines))
  <2>1. IsFiniteSet(1 .. Len(lines))
    BY <1>1, FS_Interval
  <2> QED
    BY <1>1, <2>1, FS_Subset
<1>3. F!InOrder(Valid(lines)) = InOrder(Valid(lines))
  BY Zenon DEF F!InOrder, InOrder, F!Cardinality, Cardinality
<1>4. \A p : F!Masked(p) = Masked(p)
  BY DEF F!Masked, Masked, F!MaskedN, MaskedN
<1>5. F!Entries(lines) = [k \in DOMAIN InOrder(Valid(lines)) |->
                             Masked(lines[InOrder(Valid(lines))[k]].prefix)]
  BY <1>3, <1>4 DEF F!Entries, Valid
<1> QED
  BY <1>1, <1>2, <1>5, InOrderFacts

(* An entry that parses is a prefix once masked.                           *)
LEMMA ParsedType ==
    ASSUME NEW line \in Line
    PROVE  /\ F!IsCIDR(line) => Masked(line.prefix) \in Prefix
           /\ Parsed(line) \in Seq(Prefix)
<1>1. F!IsCIDR(line) => Masked(line.prefix) \in Prefix
  <2> SUFFICES ASSUME line.kind = "cidr" PROVE Masked(line.prefix) \in Prefix
    BY DEF F!IsCIDR
  <2>1. line.prefix \in RawPrefix
    BY DEF Line
  <2> QED
    BY <2>1, MaskedType
<1> QED
  BY <1>1 DEF Parsed

(* Entries yields prefixes, and every entry that parses is among them.     *)
LEMMA EntriesType ==
    ASSUME NEW lines \in Seq(Line)
    PROVE  /\ F!Entries(lines) \in Seq(Prefix)
           /\ \A k \in Valid(lines) : \E j \in DOMAIN F!Entries(lines) :
                 F!Entries(lines)[j] = Masked(lines[k].prefix)
<1> DEFINE V == Valid(lines)
           s == InOrder(V)
<1>1. /\ V \in SUBSET Nat /\ IsFiniteSet(V) /\ DOMAIN s = 1 .. Cardinality(V)
      /\ F!Entries(lines) = [k \in DOMAIN s |-> Masked(lines[s[k]].prefix)]
      /\ \A k \in DOMAIN s : s[k] \in V
      /\ Cardinality(V) \in Nat
  BY ValidFacts
<1>2. \A x \in V : \E k \in 1 .. Cardinality(V) : s[k] = x
  BY <1>1, InOrderFacts
<1>3. \A k \in V : Masked(lines[k].prefix) \in Prefix
  BY ParsedType DEF Valid
<1> HIDE DEF V, s
<1>4. F!Entries(lines) \in [1 .. Cardinality(V) -> Prefix]
  BY <1>1, <1>3
<1>5. F!Entries(lines) \in Seq(Prefix)
  BY <1>1, <1>4
<1>6. \A k \in V : \E j \in DOMAIN F!Entries(lines) : F!Entries(lines)[j] = Masked(lines[k].prefix)
  BY <1>1, <1>2
<1> QED
  BY <1>5, <1>6 DEF V

(* One line more adds what Parse makes of it.                              *)
LEMMA EntriesStep ==
    ASSUME NEW lines \in Seq(Line), NEW n \in Nat, n < Len(lines)
    PROVE  F!Entries(SubSeq(lines, 1, n + 1)) = F!Entries(SubSeq(lines, 1, n)) \o Parsed(lines[n + 1])
<1> DEFINE a == SubSeq(lines, 1, n)
           b == SubSeq(lines, 1, n + 1)
           A == Valid(a)
           B == Valid(b)
           line == lines[n + 1]
<1>1. /\ a \in Seq(Line) /\ Len(a) = n /\ b \in Seq(Line) /\ Len(b) = n + 1
      /\ \A k \in 1 .. n : a[k] = lines[k]
      /\ \A k \in 1 .. n + 1 : b[k] = lines[k]
      /\ DOMAIN a = 1 .. n /\ DOMAIN b = 1 .. n + 1
      /\ line \in Line
  OBVIOUS
<1> HIDE DEF a, b, line
<1>2. /\ A \in SUBSET Nat /\ IsFiniteSet(A) /\ A \subseteq 1 .. n
      /\ DOMAIN InOrder(A) = 1 .. Cardinality(A) /\ Cardinality(A) \in Nat
      /\ F!Entries(a) = [k \in DOMAIN InOrder(A) |-> Masked(a[InOrder(A)[k]].prefix)]
      /\ \A k \in DOMAIN InOrder(A) : InOrder(A)[k] \in A
  BY <1>1, ValidFacts
<1>3. /\ F!Entries(b) = [k \in DOMAIN InOrder(B) |-> Masked(b[InOrder(B)[k]].prefix)]
  BY <1>1, ValidFacts
<1>4. F!Entries(a) \in Seq(Prefix) /\ Parsed(line) \in Seq(Prefix)
  BY <1>1, EntriesType, ParsedType
<1>5. line = b[n + 1]
  BY <1>1 DEF line
<1>6. ASSUME NEW k \in 1 .. n
      PROVE  k \in B <=> k \in A
  BY <1>1 DEF Valid
<1>7. B \subseteq 1 .. n + 1 /\ (n + 1 \in B <=> F!IsCIDR(line))
  BY <1>1, <1>5 DEF Valid
<1> HIDE DEF A, B
<1>8. CASE ~F!IsCIDR(line)
  <2>1. B = A
    <3>1. \A k \in B : k \in 1 .. n
      BY <1>7, <1>8
    <3> QED
      BY <1>2, <1>6, <3>1
  <2>2. ASSUME NEW k \in DOMAIN InOrder(A)
        PROVE  b[InOrder(A)[k]] = a[InOrder(A)[k]]
    <3>1. InOrder(A)[k] \in 1 .. n
      BY <1>2
    <3>2. InOrder(A)[k] \in 1 .. n + 1
      BY <3>1
    <3> QED
      BY <1>1, <3>1, <3>2
  <2>3. F!Entries(b) = F!Entries(a)
    BY <1>2, <1>3, <2>1, <2>2
  <2>4. Parsed(line) = <<>>
    BY <1>8 DEF Parsed
  <2>5. F!Entries(a) \o <<>> = F!Entries(a)
    BY <1>4
  <2> QED
    BY <2>3, <2>4, <2>5 DEF a, b, line
<1>9. CASE F!IsCIDR(line)
  <2> DEFINE s == InOrder(A)
             c == Cardinality(A)
             p == Masked(line.prefix)
  <2>1. B = A \cup {n + 1}
    <3>1. \A k \in B : k \in 1 .. n \/ k = n + 1
      BY <1>7
    <3> QED
      BY <1>2, <1>6, <1>7, <1>9, <3>1
  <2>2. InOrder(B) = Append(s, n + 1)
    <3>1. \A x \in A : x < n + 1
      BY <1>2
    <3> QED
      BY <1>2, <2>1, <3>1, InOrderAppend
  <2>3. s \in Seq(Nat) /\ Len(s) = c
    <3>1. s \in [1 .. c -> A] /\ Len(s) = c
      BY <1>2, InOrderFacts
    <3>2. s \in [1 .. c -> Nat]
      BY <1>2, <3>1
    <3> QED
      BY <1>2, <3>1, <3>2
  <2>4. /\ DOMAIN InOrder(B) = 1 .. c + 1
        /\ \A k \in 1 .. c : InOrder(B)[k] = s[k]
        /\ InOrder(B)[c + 1] = n + 1
    BY <1>2, <2>2, <2>3
  <2> HIDE DEF s, c
  <2>5. c \in Nat /\ DOMAIN s = 1 .. c /\ \A k \in 1 .. c : s[k] \in 1 .. n
    BY <1>2 DEF s, c
  <2>6. \A k \in 1 .. c : F!Entries(b)[k] = F!Entries(a)[k]
    <3> SUFFICES ASSUME NEW k \in 1 .. c PROVE F!Entries(b)[k] = F!Entries(a)[k]
      OBVIOUS
    <3>1. k \in 1 .. c + 1 /\ s[k] \in 1 .. n
      BY <2>5
    <3>2. F!Entries(b)[k] = Masked(b[s[k]].prefix)
      BY <1>3, <2>4, <3>1
    <3>3. F!Entries(a)[k] = Masked(a[s[k]].prefix)
      BY <1>2, <2>5 DEF s
    <3>4. b[s[k]] = a[s[k]]
      BY <1>1, <3>1
    <3> QED
      BY <3>2, <3>3, <3>4
  <2>7. F!Entries(b)[c + 1] = p /\ DOMAIN F!Entries(b) = 1 .. c + 1
    <3>1. c + 1 \in 1 .. c + 1
      BY <2>5
    <3> QED
      BY <1>3, <1>5, <2>4, <3>1
  <2>8. Len(F!Entries(a)) = c
    BY <1>2, <1>4, <2>5 DEF s
  <2>9. Parsed(line) = <<p>> /\ p \in Prefix
    BY <1>1, <1>9, ParsedType DEF Parsed
  <2> HIDE DEF p
  <2> DEFINE u == F!Entries(a)
             v == F!Entries(b)
  <2>10. u \in Seq(Prefix) /\ Len(u) = c /\ v \in Seq(Prefix) /\ Len(v) = c + 1
    <3>1. v \in Seq(Prefix)
      BY <1>1, EntriesType
    <3> QED
      BY <1>4, <2>5, <2>7, <2>8, <3>1
  <2> HIDE DEF u, v
  <2>11. /\ u \o <<p>> \in Seq(Prefix) /\ Len(u \o <<p>>) = c + 1
         /\ \A k \in 1 .. c : (u \o <<p>>)[k] = u[k]
         /\ (u \o <<p>>)[c + 1] = p
    BY <2>5, <2>9, <2>10
  <2>12. \A k \in 1 .. c + 1 : v[k] = (u \o <<p>>)[k]
    <3> SUFFICES ASSUME NEW k \in 1 .. c + 1 PROVE v[k] = (u \o <<p>>)[k]
      OBVIOUS
    <3>1. k \in 1 .. c \/ k = c + 1
      BY <2>5
    <3> QED
      BY <2>6, <2>7, <2>11, <3>1 DEF u, v
  <2>13. v = u \o <<p>>
    BY <2>10, <2>11, <2>12
  <2> QED
    BY <2>9, <2>13 DEF u, v, a, b, line
<1> QED
  BY <1>8, <1>9

(* Of no line, none.                                                       *)
LEMMA EntriesNone ==
    ASSUME NEW lines \in Seq(Line)
    PROVE  F!Entries(SubSeq(lines, 1, 0)) = <<>>
<1> DEFINE a == SubSeq(lines, 1, 0)
<1>1. a \in Seq(Line) /\ Len(a) = 0
  OBVIOUS
<1> HIDE DEF a
<1>2. Valid(a) = {}
  <2>1. Valid(a) \subseteq 1 .. Len(a)
    BY <1>1, ValidFacts
  <2>2. 1 .. Len(a) = {}
    BY <1>1
  <2> QED
    BY <2>1, <2>2
<1>3. Cardinality(Valid(a)) = 0
  BY <1>2, FS_EmptySet
<1>4. F!Entries(a) \in Seq(Prefix)
  BY <1>1, EntriesType
<1>5. DOMAIN F!Entries(a) = 1 .. 0
  BY <1>1, <1>3, ValidFacts
<1>6. Len(F!Entries(a)) = 0
  BY <1>4, <1>5
<1> QED
  BY <1>4, <1>6 DEF a

-----------------------------------------------------------------------------
(* txt.Fetch of a list that is cut short *)

(* A length cut short is no longer than the length.                        *)
LEMMA ShorterIsShorter ==
    ASSUME NEW bits \in Nat, NEW b \in ShorterLengths(bits)
    PROVE  b \in 0 .. bits
<1>1. ASSUME NEW r \in Nat \ {0}
      PROVE  bits \div r \in 0 .. bits
  OBVIOUS
<1>2. Radix \in Nat \ {0} /\ Radix * Radix \in Nat \ {0}
  BY RadixAssumption
<1> QED
  BY <1>1, <1>2 DEF ShorterLengths

(* Masking a number twice is masking it to the shorter length.             *)
LEMMA MaskedTwice ==
    ASSUME NEW n \in Bits, NEW bits \in 0 .. Width, NEW b \in 0 .. bits
    PROVE  MaskedN(MaskedN(n, bits), b) = MaskedN(n, b)
BY WidthAssumption DEF MaskedN, Bits

(* The beginnings of a line that parse are prefixes, and those of a CIDR   *)
(* are networks that contain the line's own.                               *)
LEMMA CutContains ==
    ASSUME NEW line \in Line, NEW p \in CutsOf(line)
    PROVE  /\ p \in RawPrefix
           /\ \/ line.kind \in {"bad", "long"}
              \/ F!IsCIDR(line) /\ CoveredBy(Masked(line.prefix), Masked(p))
<1>1. CASE line.kind \in {"bad", "long"}
  <2>1. CutsOf(line) = line.starts
    BY <1>1 DEF CutsOf
  <2>2. line.starts \in SUBSET RawPrefix
    BY <1>1 DEF Line
  <2> QED
    BY <1>1, <2>1, <2>2
<1>2. CASE line.kind = "blank"
  BY <1>2 DEF CutsOf
<1>3. CASE line.kind = "cidr"
  <2> DEFINE q == line.prefix
  <2>1. q \in RawPrefix
    BY <1>3 DEF Line
  <2>2. p = q \/ \E b \in ShorterLengths(q.bits) : p = [q EXCEPT !.bits = b]
    BY <1>3 DEF CutsOf
  <2> HIDE DEF q
  <2>3. q.bits \in 0 .. Width /\ q = [q EXCEPT !.bits = q.bits]
    BY <2>1 DEF RawPrefix
  <2>4. PICK b \in 0 .. q.bits : p = [q EXCEPT !.bits = b]
    BY <2>2, <2>3, ShorterIsShorter, WidthAssumption
  <2>5. /\ q.n \in Bits /\ b \in 0 .. Width
        /\ p \in RawPrefix /\ p.bits = b /\ p.n = q.n /\ p.fam = q.fam
    BY <2>1, <2>3, <2>4, WidthAssumption DEF RawPrefix
  <2>6. MaskedN(MaskedN(q.n, q.bits), b) = MaskedN(p.n, b)
    BY <2>3, <2>5, MaskedTwice
  <2>7. CoveredBy(Masked(q), Masked(p))
    BY <2>3, <2>5, <2>6 DEF CoveredBy, Masked
  <2> QED
    BY <1>3, <2>5, <2>7 DEF F!IsCIDR, q
<1> QED
  BY <1>1, <1>2, <1>3 DEF Line

(* The two parts of a concatenation.                                       *)
LEMMA PartsOf ==
    ASSUME NEW S, NEW u \in Seq(S), NEW v \in Seq(S)
    PROVE  /\ SubSeq(u \o v, 1, Len(u)) = u
           /\ SubSeq(u \o v, Len(u) + 1, Len(u \o v)) = v
<1> DEFINE w == u \o v
<1>1. w \in Seq(S) /\ Len(w) = Len(u) + Len(v) /\ Len(u) \in Nat /\ Len(v) \in Nat
  OBVIOUS
<1>2. /\ \A i \in 1 .. Len(u) : w[i] = u[i]
      /\ \A i \in 1 .. Len(v) : w[Len(u) + i] = v[i]
  OBVIOUS
<1> HIDE DEF w
<1> DEFINE x == SubSeq(w, 1, Len(u))
           y == SubSeq(w, Len(u) + 1, Len(w))
<1>3. x \in Seq(S) /\ Len(x) = Len(u) /\ \A i \in 1 .. Len(u) : x[i] = u[i]
  BY <1>1, <1>2
<1>4. y \in Seq(S) /\ Len(y) = Len(v) /\ \A i \in 1 .. Len(v) : y[i] = v[i]
  BY <1>1, <1>2
<1> HIDE DEF x, y
<1>5. x = u
  BY <1>3
<1>6. y = v
  BY <1>4
<1> QED
  BY <1>5, <1>6 DEF x, y, w

(* While a txt list is read, the result so far is what the lines read hold *)
(* of valid entries; the answer is given from it.                          *)
DamageInv ==
    /\ list \in Seq(Line) /\ pos \in 0 .. Len(list)
    /\ phase # "done" => answer = F!Pending
    /\ type = "txt" /\ phase # "done" => out = F!Entries(SubSeq(list, 1, pos))
    /\ DamageIsBounded

(* An answer that is not a list of prefixes is within the bound.           *)
LEMMA NoListNoDamage == answer.state # "ok" => DamageIsBounded
BY DEF DamageIsBounded

(* The valid entries read, and what the last piece of a line held.         *)
LEMMA AnswerIsBounded ==
    ASSUME list' \in Seq(Line), pos' \in 0 .. Len(list'),
           NEW extra \in Seq(Prefix),
           answer'.prefixes = F!Entries(SubSeq(list', 1, pos')) \o extra,
           \/ extra = <<>>
           \/ /\ stop' = "broken" /\ pos' < Len(list') /\ Len(extra) = 1
              /\ \/ list'[pos' + 1].kind \in {"bad", "long"}
                 \/ /\ F!IsCIDR(list'[pos' + 1])
                    /\ CoveredBy(Masked(list'[pos' + 1].prefix), extra[1]),
           stop' = "eof" => pos' = Len(list')
    PROVE  DamageIsBounded'
<1> DEFINE whole == F!Entries(list')
           read  == F!Entries(SubSeq(list', 1, pos'))
<1>1. SubSeq(list', 1, pos') \in Seq(Line)
  OBVIOUS
<1>2. read \in Seq(Prefix) /\ whole \in Seq(Prefix)
  BY <1>1, EntriesType
<1>3. /\ SubSeq(answer'.prefixes, 1, Len(read)) = read
      /\ SubSeq(answer'.prefixes, Len(read) + 1, Len(answer'.prefixes)) = extra
  BY <1>2, PartsOf
<1>4. ASSUME stop' = "eof" PROVE answer'.prefixes = whole
  <2>1. SubSeq(list', 1, pos') = list' /\ extra = <<>>
    BY <1>4
  <2>2. read = whole
    BY <2>1
  <2>3. whole \o <<>> = whole
    BY <1>2
  <2> QED
    BY <2>1, <2>2, <2>3
<1> HIDE DEF whole, read
<1> QED
  BY <1>3, <1>4 DEF DamageIsBounded, whole, read

(* A request begins with nothing read.                                     *)
LEMMA InitDamageInv == Init => DamageInv
<1> SUFFICES ASSUME Init PROVE DamageInv
  OBVIOUS
<1>1. list \in Lists /\ pos = 0 /\ answer = F!Pending /\ out = <<>>
  BY Zenon DEF Init
<1>2. list \in Seq(Line)
  BY <1>1, ListsAssumption
<1>3. F!Entries(SubSeq(list, 1, pos)) = <<>>
  BY <1>1, <1>2, EntriesNone
<1>4. DamageIsBounded
  BY <1>1, AnswerStates, NoListNoDamage
<1> QED
  BY <1>1, <1>2, <1>3, <1>4 DEF DamageInv

(* Every step keeps it.                                                    *)
LEMMA NextDamageInv == DamageInv /\ [Next]_vars => DamageInv'
<1> SUFFICES ASSUME DamageInv, [Next]_vars PROVE DamageInv'
  OBVIOUS
<1> USE DEF DamageInv
<1>1. CASE UNCHANGED vars
  BY <1>1 DEF vars, DamageIsBounded
<1>2. CASE Ask
  <2>0. list' \in Lists /\ pos' = 0 /\ answer' = F!Pending /\ out' = <<>>
    BY <1>2, Zenon DEF Ask, Begin
  <2>1. list' \in Seq(Line)
    BY <2>0, ListsAssumption
  <2>2. F!Entries(SubSeq(list', 1, pos')) = <<>>
    BY <2>0, <2>1, EntriesNone
  <2>3. DamageIsBounded'
    BY <2>0, AnswerStates DEF DamageIsBounded
  <2> QED
    BY <2>0, <2>1, <2>2, <2>3
<1>3. CASE Open
  <2>1. /\ list' = list /\ pos' = pos /\ type' = type /\ out' = out /\ answer' = answer
        /\ phase # "done" /\ answer = F!Pending
    BY <1>3 DEF Open, request
  <2>2. DamageIsBounded'
    BY <2>1, AnswerStates DEF DamageIsBounded
  <2> QED
    BY <2>1, <2>2
<1>4. CASE Scan
  <2>1. /\ list' = list /\ pos' = pos + 1 /\ type' = type /\ answer' = answer
        /\ phase' = phase /\ phase # "done" /\ answer = F!Pending
        /\ type = "txt" /\ pos < Len(list) /\ out' = out \o Parsed(list[pos + 1])
    BY <1>4 DEF Scan, request
  <2>2. pos \in Nat /\ pos' \in 0 .. Len(list)
    BY <2>1
  <2>3. out' = F!Entries(SubSeq(list, 1, pos + 1))
    BY <2>1, <2>2, EntriesStep
  <2>4. DamageIsBounded'
    BY <2>1, AnswerStates DEF DamageIsBounded
  <2> QED
    BY <2>1, <2>2, <2>3, <2>4
<1>5. CASE ReadSome
  <2>1. /\ list' = list /\ pos' = pos + 1 /\ type' = type /\ answer' = answer
        /\ phase # "done" /\ answer = F!Pending
        /\ type # "txt" /\ pos < Len(list)
    BY <1>5 DEF ReadSome, request
  <2>2. pos' \in 0 .. Len(list)
    BY <2>1
  <2>3. DamageIsBounded'
    BY <2>1, AnswerStates DEF DamageIsBounded
  <2> QED
    BY <2>1, <2>2, <2>3
<1>6. CASE OpenFails \/ ReadBreaks
  <2>1. list' = list /\ pos' = pos /\ phase' = "done" /\ answer' = F!Failed
    BY <1>6 DEF OpenFails, ReadBreaks, Return, request
  <2>2. DamageIsBounded'
    BY <2>1, AnswerStates DEF DamageIsBounded
  <2> QED
    BY <2>1, <2>2
<1>7. CASE ReadAll
  <2>1. list' = list /\ pos' = pos /\ phase' = "done" /\ type' # "txt"
    BY <1>7 DEF ReadAll, Return, request
  <2>2. DamageIsBounded'
    BY <2>1 DEF DamageIsBounded
  <2> QED
    BY <2>1, <2>2
<1>8. CASE ScanEnds
  <2>1. /\ list' = list /\ pos' = pos /\ phase' = "done" /\ answer' = F!Ok(out)
        /\ out = F!Entries(SubSeq(list, 1, pos))
        /\ stop' = "eof" => pos = Len(list)
    BY <1>8 DEF ScanEnds, Return, request
  <2>2. SubSeq(list, 1, pos) \in Seq(Line)
    OBVIOUS
  <2>3. out \in Seq(Prefix)
    BY <2>1, <2>2, EntriesType
  <2>4. answer'.prefixes = F!Entries(SubSeq(list', 1, pos')) \o <<>>
    BY <2>1, <2>3, AnswerStates
  <2>5. /\ list' \in Seq(Line) /\ pos' \in 0 .. Len(list')
        /\ stop' = "eof" => pos' = Len(list')
    BY <2>1
  <2>6. <<>> \in Seq(Prefix)
    OBVIOUS
  <2>7. DamageIsBounded'
    BY <2>4, <2>5, <2>6, AnswerIsBounded
  <2> QED
    BY <2>1, <2>5, <2>7
<1>9. CASE ScanBreaks
  <2> DEFINE line == list[pos + 1]
  <2>1. /\ list' = list /\ pos' = pos /\ phase' = "done" /\ answer' = F!Ok(out')
        /\ out = F!Entries(SubSeq(list, 1, pos)) /\ stop' = "broken"
        /\ pos < Len(list)
        /\ out' = out \/ \E p \in CutsOf(line) : out' = Append(out, Masked(p))
    BY <1>9 DEF ScanBreaks, Return, request
  <2>2. pos + 1 \in DOMAIN list /\ line \in Line /\ list'[pos' + 1] = line
    BY <2>1
  <2> HIDE DEF line
  <2>3. SubSeq(list, 1, pos) \in Seq(Line)
    OBVIOUS
  <2>4. out \in Seq(Prefix)
    BY <2>1, <2>3, EntriesType
  <2>5. /\ list' \in Seq(Line) /\ pos' \in 0 .. Len(list') /\ stop' # "eof"
        /\ pos' < Len(list')
    BY <2>1
  <2>6. ASSUME out' = out PROVE DamageIsBounded'
    <3>1. answer'.prefixes = F!Entries(SubSeq(list', 1, pos')) \o <<>> /\ <<>> \in Seq(Prefix)
      BY <2>1, <2>4, <2>6, AnswerStates
    <3> QED
      BY <2>5, <3>1, AnswerIsBounded
  <2>7. ASSUME \E p \in CutsOf(line) : out' = Append(out, Masked(p)) PROVE DamageIsBounded'
    <3>1. PICK p \in CutsOf(line) : out' = Append(out, Masked(p))
      BY <2>7
    <3>2. /\ p \in RawPrefix
          /\ \/ line.kind \in {"bad", "long"}
             \/ F!IsCIDR(line) /\ CoveredBy(Masked(line.prefix), Masked(p))
      BY <2>2, CutContains
    <3>3. Masked(p) \in Prefix
      BY <3>2, MaskedType
    <3> DEFINE extra == <<Masked(p)>>
    <3>4. /\ extra \in Seq(Prefix) /\ Len(extra) = 1 /\ extra[1] = Masked(p)
          /\ Append(out, Masked(p)) = out \o extra
      BY <2>4, <3>3
    <3>5. answer'.prefixes = F!Entries(SubSeq(list', 1, pos')) \o extra
      BY <2>1, <3>1, <3>4, AnswerStates
    <3> HIDE DEF extra
    <3>6. /\ stop' = "broken"
          /\ \/ list'[pos' + 1].kind \in {"bad", "long"}
             \/ /\ F!IsCIDR(list'[pos' + 1])
                /\ CoveredBy(Masked(list'[pos' + 1].prefix), extra[1])
      BY <2>1, <2>2, <3>2, <3>4
    <3> QED
      BY <2>5, <3>4, <3>5, <3>6, AnswerIsBounded
  <2>8. DamageIsBounded'
    BY <2>1, <2>6, <2>7
  <2> QED
    BY <2>1, <2>5, <2>8
<1> QED
  BY <1>1, <1>2, <1>3, <1>4, <1>5, <1>6, <1>7, <1>8, <1>9 DEF Next

(* What txt.Fetch makes of a list that is cut short, anywhere: the entries *)
(* above the cut, and at most one network more, which contains the entry   *)
(* that the cut goes through or stems from an invalid line; and nothing is *)
(* missing where the reading reached the end.                              *)
THEOREM DamageAlwaysBounded == Spec => []DamageIsBounded
<1>1. Init => DamageInv
  BY InitDamageInv
<1>2. DamageInv /\ [Next]_vars => DamageInv'
  BY NextDamageInv
<1>3. DamageInv => DamageIsBounded
  BY DEF DamageInv
<1> QED
  BY <1>1, <1>2, <1>3, PTL DEF Spec
=============================================================================
