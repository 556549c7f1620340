---------------------------- MODULE GatewayProofs ---------------------------
(***************************************************************************)
(* What the rules of a declaration do to a connection, for every           *)
(* declaration Validate passed, every host, and whatever happens to its    *)
(* lines and its declaration while the connection lasts.                   *)
(***************************************************************************)
EXTENDS Gateway, TLAPS, FiniteSetTheorems, NaturalsInduction

\* A set of natural numbers has a least one.
LEMMA Least ==
    ASSUME NEW S \in SUBSET Nat, S # {}
    PROVE  \E n \in S : \A m \in S : n <= m
<1>1. PICK n \in S : \A m \in S : ~(<<m, n>> \in OpToRel(<, Nat))
  BY NatLessThanWellFounded, WFMin
<1>2. \A m \in S : ~(m < n)
  BY <1>1 DEF OpToRel
<1> QED
  BY <1>2

-----------------------------------------------------------------------------
(***************************************************************************)
(* The numbers.                                                            *)
(***************************************************************************)
\* The numbers from first to before n that are not in S.
FreeBelow(S, first, n) == {m \in first .. n - 1 : m \notin S}

\* The free numbers below one are finitely many.
LEMMA FreeBelowFinite ==
    ASSUME NEW S, NEW first \in Nat, NEW n \in Nat
    PROVE  IsFiniteSet(FreeBelow(S, first, n)) /\ Cardinality(FreeBelow(S, first, n)) \in Nat
<1>1. n - 1 \in Int /\ first \in Int
  OBVIOUS
<1>2. IsFiniteSet(first .. n - 1)
  BY <1>1, FS_Interval
<1> QED
  BY <1>2, FS_Subset, FS_CardinalityType DEF FreeBelow

\* One number further there is one more free number at most.
LEMMA FreeBelowNext ==
    ASSUME NEW S, NEW first \in Nat, NEW n \in Nat, n >= first
    PROVE  /\ n \in S => FreeBelow(S, first, n + 1) = FreeBelow(S, first, n)
           /\ n \notin S => Cardinality(FreeBelow(S, first, n + 1)) = Cardinality(FreeBelow(S, first, n)) + 1
<1>1. n \in S => FreeBelow(S, first, n + 1) = FreeBelow(S, first, n)
  BY DEF FreeBelow
<1>2. n \notin S => FreeBelow(S, first, n + 1) = FreeBelow(S, first, n) \cup {n}
  BY DEF FreeBelow
<1>3. n \notin FreeBelow(S, first, n)
  BY DEF FreeBelow
<1> QED
  BY <1>1, <1>2, <1>3, FreeBelowFinite, FS_AddElement

\* There are k free numbers among the first k and as many as S has.
LEMMA FreeEnough ==
    ASSUME NEW S, IsFiniteSet(S), NEW first \in Nat, NEW k \in Nat
    PROVE  Cardinality(FreeBelow(S, first, first + Cardinality(S) + k)) >= k
<1> DEFINE n == first + Cardinality(S) + k
           B == FreeBelow(S, first, n)
           C == S \cap (first .. n - 1)
<1>1. Cardinality(S) \in Nat /\ n \in Nat
  BY FS_CardinalityType
<1>2. IsFiniteSet(first .. n - 1) /\ Cardinality(first .. n - 1) = n - first
  <2>1. n - 1 \in Int /\ first \in Int
    BY <1>1
  <2>2. IsFiniteSet(first .. n - 1) /\ Cardinality(first .. n - 1) = IF first > n - 1 THEN 0 ELSE (n - 1) - first + 1
    BY <2>1, FS_Interval
  <2> QED
    BY <1>1, <2>2
<1>3. IsFiniteSet(B) /\ Cardinality(B) \in Nat
  BY <1>1, FreeBelowFinite
<1>4. IsFiniteSet(C) /\ Cardinality(C) \in Nat /\ Cardinality(C) <= Cardinality(S)
  BY FS_Intersection, FS_CardinalityType
<1>5. B \cup C = first .. n - 1 /\ B \cap C = {}
  BY DEF FreeBelow
<1>6. Cardinality(B \cup C) = Cardinality(B) + Cardinality(C) - Cardinality(B \cap C)
  BY <1>3, <1>4, FS_Union
<1>7. Cardinality(B \cap C) = 0
  BY <1>5, FS_EmptySet
<1> HIDE DEF B, C
<1>8. n - first = Cardinality(B) + Cardinality(C) - 0
  BY <1>2, <1>5, <1>6, <1>7, Zenon
<1> HIDE DEF n
<1>9. Cardinality(B) >= n - first - Cardinality(S)
  BY <1>1, <1>3, <1>4, <1>8
<1> QED
  BY <1>1, <1>9 DEF n, B

\* allocator.next: there is a k-th free number, and as many free ones before it as came first.
LEMMA NthFreeExists ==
    ASSUME NEW S, IsFiniteSet(S), NEW first \in Nat, NEW k \in Nat, k >= 1
    PROVE  \E n \in Nat : /\ first <= n /\ n <= first + Cardinality(S) + k /\ n \notin S
                          /\ Cardinality(FreeBelow(S, first, n)) = k - 1
<1> DEFINE top == first + Cardinality(S) + k
           T == {n \in Nat : first <= n /\ Cardinality(FreeBelow(S, first, n + 1)) >= k}
<1>1. Cardinality(S) \in Nat /\ top \in Nat /\ top - 1 \in Nat /\ first <= top - 1 /\ (top - 1) + 1 = top
  BY FS_CardinalityType
<1>2. top - 1 \in T
  BY <1>1, FreeEnough
<1>3. PICK n \in T : \A m \in T : n <= m
  <2> HIDE DEF top
  <2>1. T \in SUBSET Nat /\ T # {}
    BY <1>2
  <2> HIDE DEF T
  <2> QED
    BY <2>1, Least
<1>4. n \in Nat /\ first <= n /\ n <= top - 1
  BY <1>2, <1>3
<1>5. /\ Cardinality(FreeBelow(S, first, n)) \in Nat
      /\ Cardinality(FreeBelow(S, first, n)) < k
  <2>1. Cardinality(FreeBelow(S, first, n)) \in Nat
    BY <1>4, FreeBelowFinite
  <2>2. CASE n = first
    <3>1. FreeBelow(S, first, n) = {}
      BY <2>2 DEF FreeBelow
    <3> QED
      BY <3>1, FS_EmptySet
  <2>3. CASE n # first
    <3>1. n - 1 \in Nat /\ first <= n - 1 /\ (n - 1) + 1 = n /\ n - 1 \notin T
      BY <1>3, <1>4, <2>3
    <3> QED
      BY <2>1, <3>1
  <2> QED
    BY <2>1, <2>2, <2>3
<1>6. n \notin S /\ Cardinality(FreeBelow(S, first, n + 1)) = Cardinality(FreeBelow(S, first, n)) + 1
  <2>1. Cardinality(FreeBelow(S, first, n + 1)) >= k
    BY <1>3
  <2> QED
    BY <1>4, <1>5, <2>1, FreeBelowNext
<1>7. Cardinality(FreeBelow(S, first, n)) = k - 1
  BY <1>3, <1>5, <1>6
<1> QED
  BY <1>1, <1>4, <1>6, <1>7

\* Numbers!NthFree is that number.
LEMMA NthFreeAt ==
    ASSUME NEW S, IsFiniteSet(S), NEW first \in Nat, NEW k \in Nat, k >= 1
    PROVE  LET n == NthFree(S, first, k)
           IN /\ n \in Nat /\ first <= n /\ n <= first + Cardinality(S) + k /\ n \notin S
              /\ Cardinality(FreeBelow(S, first, n)) = k - 1
<1> DEFINE free == (first .. first + Cardinality(S) + k) \ S
           Below(n) == {m \in free : m < n}
<1>1. Cardinality(S) \in Nat
  BY FS_CardinalityType
<1>2. ASSUME NEW n \in free
      PROVE  n \in Nat /\ first <= n /\ n <= first + Cardinality(S) + k /\ n \notin S /\ Below(n) = FreeBelow(S, first, n)
  BY <1>1 DEF FreeBelow
<1>3. PICK n \in free : Cardinality(FreeBelow(S, first, n)) = k - 1
  <2>1. PICK n \in Nat : /\ first <= n /\ n <= first + Cardinality(S) + k /\ n \notin S
                         /\ Cardinality(FreeBelow(S, first, n)) = k - 1
    BY NthFreeExists
  <2>2. n \in free
    BY <1>1, <2>1
  <2> QED
    BY <2>1, <2>2
<1>4. NthFree(S, first, k) = CHOOSE x \in free : Cardinality(Below(x)) = k - 1
  BY DEF NthFree
<1> HIDE DEF free, Below
<1>5. /\ NthFree(S, first, k) \in free
      /\ Cardinality(Below(NthFree(S, first, k))) = k - 1
  BY <1>2, <1>3, <1>4
<1> QED
  BY <1>2, <1>5

\* Two places have two numbers.
LEMMA NthFreeApart ==
    ASSUME NEW S, IsFiniteSet(S), NEW first \in Nat, NEW k \in Nat, k >= 1, NEW l \in Nat, l >= 1,
           NthFree(S, first, k) = NthFree(S, first, l)
    PROVE  k = l
<1>1. Cardinality(FreeBelow(S, first, NthFree(S, first, k))) = k - 1
  BY NthFreeAt
<1>2. Cardinality(FreeBelow(S, first, NthFree(S, first, l))) = l - 1
  BY NthFreeAt
<1>3. k - 1 = l - 1
  BY <1>1, <1>2, Zenon
<1> QED
  BY <1>3

-----------------------------------------------------------------------------
(***************************************************************************)
(* The orders, and the places in them.                                     *)
(***************************************************************************)
\* deriveRouting: policies are numbered by family, and then by priority.
LEMMA PolicyOrder ==
    ASSUME NEW d, PoliciesPassed(d), NEW p \in d.egress, NEW q \in d.egress
    PROVE  /\ ~(Precedes(p, q) /\ Precedes(q, p)) /\ (p # q => Precedes(p, q) \/ Precedes(q, p))
           /\ \A r \in d.egress : Precedes(p, q) /\ Precedes(q, r) => Precedes(p, r)
<1>1. \A x \in d.egress :
        /\ x.priority \in Int /\ PriorityOf(x) = x.priority
        /\ Rank[x.name] \in Nat /\ FamilyRank[x.family] \in Nat
        /\ x.family \in {"ipv4", "ipv6"}
  BY NumberAssumption, RankAssumption DEF PoliciesPassed, PriorityOf, FamilyRank, Family
<1>2. p # q => Rank[p.name] # Rank[q.name]
  BY RankAssumption DEF PoliciesPassed
<1>3. \A x, y \in d.egress : FamilyRank[x.family] = FamilyRank[y.family] <=> x.family = y.family
  BY <1>1 DEF FamilyRank
<1> QED
  BY <1>1, <1>2, <1>3 DEF Precedes

\* deriveForwardReturns: and uplinks by family, and then by name.
LEMMA ReturnOrder ==
    ASSUME NEW d, ForwardsPassed(d), NEW r \in Returns(d), NEW s \in Returns(d)
    PROVE  /\ ~(ReturnPrecedes(r, s) /\ ReturnPrecedes(s, r)) /\ (r # s => ReturnPrecedes(r, s) \/ ReturnPrecedes(s, r))
           /\ \A t \in Returns(d) : ReturnPrecedes(r, s) /\ ReturnPrecedes(s, t) => ReturnPrecedes(r, t)
<1>1. \A f \in d.forwards : f.egress \in DOMAIN Rank /\ f.family \in {"ipv4", "ipv6"}
  BY HostAssumption DEF ForwardsPassed, Family
<1>2. \A x \in Returns(d) : /\ x.uplink \in DOMAIN Rank /\ x.family \in {"ipv4", "ipv6"}
                             /\ x = [uplink |-> x.uplink, family |-> x.family]
  BY <1>1 DEF Returns
<1>3. \A x \in Returns(d) : Rank[x.uplink] \in Nat /\ FamilyRank[x.family] \in Nat
  BY <1>2, RankAssumption DEF FamilyRank
<1>4. \A x, y \in Returns(d) : FamilyRank[x.family] = FamilyRank[y.family] <=> x.family = y.family
  BY <1>2 DEF FamilyRank
<1>5. r # s => r.uplink # s.uplink \/ r.family # s.family
  BY <1>2
<1>6. Rank[r.uplink] = Rank[s.uplink] => r.uplink = s.uplink
  BY <1>2, RankAssumption
<1> QED
  BY <1>3, <1>4, <1>5, <1>6 DEF ReturnPrecedes

\* There are no more images than elements.
LEMMA Counted ==
    ASSUME NEW X, IsFiniteSet(X), NEW f
    PROVE  IsFiniteSet({f[x] : x \in X}) /\ Cardinality({f[x] : x \in X}) <= Cardinality(X)
<1> DEFINE T == {f[x] : x \in X}
           g == [x \in X |-> f[x]]
<1>1. g \in Surjection(X, T)
  BY DEF Surjection
<1> HIDE DEF g, T
<1>2. IsFiniteSet(T) /\ Cardinality(T) <= Cardinality(X)
  BY <1>1, FS_Surjection
<1> QED
  BY <1>2 DEF T

\* The sets that are counted are finite.
LEMMA FiniteSets ==
    ASSUME NEW d, PoliciesPassed(d), ForwardsPassed(d)
    PROVE  /\ IsFiniteSet(Returns(d)) /\ Cardinality(Returns(d)) <= Cardinality(d.forwards)
           /\ IsFiniteSet(MarkPins(d)) /\ IsFiniteSet(TablePins(d) \cup ReservedTables)
           /\ Cardinality(TablePins(d) \cup ReservedTables) <= Cardinality(d.egress) + 4
<1>1. IsFiniteSet(Returns(d)) /\ Cardinality(Returns(d)) <= Cardinality(d.forwards)
  <2> DEFINE f == [g \in d.forwards |-> [uplink |-> g.egress, family |-> g.family]]
  <2>1. {f[g] : g \in d.forwards} = Returns(d)
    BY DEF Returns
  <2> HIDE DEF f
  <2> QED
    BY <2>1, Counted DEF ForwardsPassed
<1>2. IsFiniteSet(MarkPins(d))
  <2> DEFINE f == [p \in d.egress |-> p.mark]
             T == {p.mark : p \in d.egress}
  <2>1. {f[p] : p \in d.egress} = T
    OBVIOUS
  <2> HIDE DEF f, T
  <2>2. IsFiniteSet(T)
    BY <2>1, Counted DEF PoliciesPassed
  <2>3. MarkPins(d) \subseteq T
    BY DEF MarkPins, T
  <2> QED
    BY <2>2, <2>3, FS_Subset
<1>3. /\ IsFiniteSet(TablePins(d)) /\ Cardinality(TablePins(d)) \in Nat
      /\ Cardinality(TablePins(d)) <= Cardinality(d.egress) /\ Cardinality(d.egress) \in Nat
  <2> DEFINE f == [p \in d.egress |-> p.table]
             T == {p.table : p \in d.egress}
  <2>1. {f[p] : p \in d.egress} = T
    OBVIOUS
  <2> HIDE DEF f, T
  <2>2. IsFiniteSet(T) /\ Cardinality(T) <= Cardinality(d.egress) /\ IsFiniteSet(d.egress)
    BY <2>1, Counted DEF PoliciesPassed
  <2>3. TablePins(d) \subseteq T
    BY DEF TablePins, T
  <2>4. IsFiniteSet(TablePins(d)) /\ Cardinality(TablePins(d)) <= Cardinality(T)
    BY <2>2, <2>3, FS_Subset
  <2> QED
    BY <2>2, <2>4, FS_CardinalityType
<1>4. IsFiniteSet(ReservedTables) /\ Cardinality(ReservedTables) \in Nat /\ Cardinality(ReservedTables) <= 4
  <2>1. ReservedTables = (({0} \cup {253}) \cup {254}) \cup {255}
    BY DEF ReservedTables
  <2>2. IsFiniteSet({0}) /\ Cardinality({0}) = 1
    BY FS_Singleton
  <2>3. 253 \notin {0} /\ 254 \notin {0} \cup {253} /\ 255 \notin ({0} \cup {253}) \cup {254}
    OBVIOUS
  <2>4. IsFiniteSet({0} \cup {253}) /\ Cardinality({0} \cup {253}) = 2
    BY <2>2, <2>3, FS_AddElement
  <2>5. IsFiniteSet(({0} \cup {253}) \cup {254}) /\ Cardinality(({0} \cup {253}) \cup {254}) = 3
    BY <2>3, <2>4, FS_AddElement
  <2> QED
    BY <2>1, <2>3, <2>5, FS_AddElement
<1>5. /\ IsFiniteSet(TablePins(d) \cup ReservedTables)
      /\ Cardinality(TablePins(d) \cup ReservedTables)
           = Cardinality(TablePins(d)) + Cardinality(ReservedTables) - Cardinality(TablePins(d) \cap ReservedTables)
  BY <1>3, <1>4, FS_Union
<1>6. Cardinality(TablePins(d) \cap ReservedTables) \in Nat
  BY <1>3, FS_Intersection, FS_CardinalityType
<1> QED
  BY <1>1, <1>2, <1>3, <1>4, <1>5, <1>6

\* What comes before one of two comes before the other too, if the one does.
PolicyAt(X, p) == Cardinality({q \in X : Precedes(q, p)})
ReturnAt(d, r) == Cardinality({s \in Returns(d) : ReturnPrecedes(s, r)})

\* A policy has its own place among those that are numbered.
LEMMA PolicyPlaces ==
    ASSUME NEW d, PoliciesPassed(d), NEW X \in SUBSET d.egress, NEW p \in X
    PROVE  /\ IsFiniteSet(X) /\ Cardinality(X) \in Nat /\ Cardinality(X) <= Cardinality(d.egress)
           /\ PolicyAt(X, p) \in Nat /\ PolicyAt(X, p) < Cardinality(X)
           /\ \A q \in X : PolicyAt(X, p) = PolicyAt(X, q) => p = q
<1> DEFINE before(x) == {y \in X : Precedes(y, x)}
<1>1. IsFiniteSet(X) /\ Cardinality(X) \in Nat /\ Cardinality(X) <= Cardinality(d.egress)
  BY FS_Subset, FS_CardinalityType DEF PoliciesPassed
<1>2. ASSUME NEW x \in X PROVE IsFiniteSet(before(x)) /\ Cardinality(before(x)) \in Nat
  BY <1>1, FS_Subset, FS_CardinalityType
<1>3. Cardinality(before(p)) < Cardinality(X)
  <2>1. before(p) \subseteq X /\ p \notin before(p)
    BY PolicyOrder
  <2> HIDE DEF before
  <2>2. before(p) # X
    BY <2>1
  <2>3. Cardinality(before(p)) <= Cardinality(X) /\ (Cardinality(before(p)) = Cardinality(X) => before(p) = X)
    BY <1>1, <2>1, FS_Subset
  <2> QED
    BY <1>1, <1>2, <2>2, <2>3
<1>4. ASSUME NEW x \in X, NEW y \in X, Precedes(x, y) PROVE Cardinality(before(x)) # Cardinality(before(y))
  <2>1. before(x) \subseteq before(y) /\ x \in before(y) /\ x \notin before(x)
    BY <1>4, PolicyOrder
  <2> HIDE DEF before
  <2> QED
    BY <1>2, <2>1, FS_Subset
<1>5. \A q \in X : Cardinality(before(p)) = Cardinality(before(q)) => p = q
  <2> HIDE DEF before
  <2> QED
    BY <1>4, PolicyOrder
<1> QED
  BY <1>1, <1>2, <1>3, <1>5 DEF PolicyAt

\* And so has an uplink.
LEMMA ReturnPlaces ==
    ASSUME NEW d, PoliciesPassed(d), ForwardsPassed(d), NEW r \in Returns(d)
    PROVE  /\ ReturnAt(d, r) \in Nat /\ ReturnAt(d, r) < Cardinality(Returns(d)) /\ Cardinality(Returns(d)) \in Nat
           /\ \A s \in Returns(d) : ReturnAt(d, r) = ReturnAt(d, s) => r = s
<1> DEFINE X == Returns(d)
           before(x) == {y \in X : ReturnPrecedes(y, x)}
<1>1. IsFiniteSet(X) /\ Cardinality(X) \in Nat
  BY FiniteSets, FS_CardinalityType
<1>2. ASSUME NEW x \in X PROVE IsFiniteSet(before(x)) /\ Cardinality(before(x)) \in Nat
  BY <1>1, FS_Subset, FS_CardinalityType
<1>3. Cardinality(before(r)) < Cardinality(X)
  <2>1. before(r) \subseteq X /\ r \notin before(r)
    BY ReturnOrder
  <2> HIDE DEF before, X
  <2>2. before(r) # X
    BY <2>1 DEF X
  <2>3. Cardinality(before(r)) <= Cardinality(X) /\ (Cardinality(before(r)) = Cardinality(X) => before(r) = X)
    BY <1>1, <2>1, FS_Subset
  <2> QED
    BY <1>1, <1>2, <2>2, <2>3 DEF X
<1>4. ASSUME NEW x \in X, NEW y \in X, ReturnPrecedes(x, y) PROVE Cardinality(before(x)) # Cardinality(before(y))
  <2>1. before(x) \subseteq before(y) /\ x \in before(y) /\ x \notin before(x)
    BY <1>4, ReturnOrder
  <2> HIDE DEF before
  <2> QED
    BY <1>2, <2>1, FS_Subset
<1>5. \A s \in X : Cardinality(before(r)) = Cardinality(before(s)) => r = s
  <2> HIDE DEF before
  <2> QED
    BY <1>4, ReturnOrder
<1> QED
  BY <1>1, <1>2, <1>3, <1>5 DEF ReturnAt
-----------------------------------------------------------------------------
(***************************************************************************)
(* The marks and tables of a declaration.                                  *)
(***************************************************************************)
Unmarked(d) == {q \in d.egress : q.mark = None}
MarkPlace(d, p) == PolicyAt(Unmarked(d), p)

\* The mark of a policy nobody pinned is the free number at its place.
LEMMA MarkPlaces ==
    ASSUME NEW d, PoliciesPassed(d), NEW p \in Unmarked(d)
    PROVE  /\ PolicyMark(d, p) = NthFree(MarkPins(d), FirstMark, 1 + MarkPlace(d, p))
           /\ MarkPlace(d, p) \in Nat /\ MarkPlace(d, p) < Cardinality(Unmarked(d))
           /\ \A q \in Unmarked(d) : MarkPlace(d, p) = MarkPlace(d, q) => p = q
<1>1. Unmarked(d) \in SUBSET d.egress
  BY DEF Unmarked
<1>2. /\ MarkPlace(d, p) \in Nat /\ MarkPlace(d, p) < Cardinality(Unmarked(d))
      /\ \A q \in Unmarked(d) : MarkPlace(d, p) = MarkPlace(d, q) => p = q
  BY <1>1, PolicyPlaces DEF MarkPlace
<1>3. {q \in Unmarked(d) : Precedes(q, p)} = {q \in d.egress : q.mark = None /\ Precedes(q, p)} /\ p.mark = None
  BY DEF Unmarked
<1>4. PolicyMark(d, p) = NthFree(MarkPins(d), FirstMark, 1 + MarkPlace(d, p))
  BY <1>3, Zenon DEF PolicyMark, MarkPlace, PolicyAt
<1> QED
  BY <1>2, <1>4

\* derive.go deriveRouting: a policy's mark is its own, and no unmarked packet's.
LEMMA PolicyMarksApart ==
    ASSUME NEW d, PoliciesPassed(d), ForwardsPassed(d), NEW p \in d.egress
    PROVE  /\ PolicyMark(d, p) \in Nat \ {0}
           /\ \A q \in d.egress : PolicyMark(d, p) = PolicyMark(d, q) => p = q
<1>0. FirstMark \in Nat /\ FirstMark > 0 /\ IsFiniteSet(MarkPins(d))
  <2>1. IsFiniteSet(MarkPins(d))
    BY FiniteSets
  <2> QED
    BY <2>1 DEF FirstMark
<1>1. ASSUME NEW q \in Unmarked(d)
      PROVE  PolicyMark(d, q) \in Nat /\ PolicyMark(d, q) >= FirstMark /\ PolicyMark(d, q) \notin MarkPins(d)
  <2>1. 1 + MarkPlace(d, q) \in Nat /\ 1 + MarkPlace(d, q) >= 1
    BY <1>1, MarkPlaces
  <2> QED
    BY <1>0, <2>1, MarkPlaces, NthFreeAt
<1>2. ASSUME NEW q \in d.egress, q \notin Unmarked(d)
      PROVE  PolicyMark(d, q) = q.mark /\ q.mark \in MarkPins(d) /\ q.mark \in Nat \ {0} /\ q.mark # None
  BY <1>2 DEF Unmarked, PolicyMark, MarkPins, PoliciesPassed
<1>3. ASSUME NEW q \in Unmarked(d), p \in Unmarked(d), PolicyMark(d, p) = PolicyMark(d, q) PROVE p = q
  <2>1. /\ 1 + MarkPlace(d, q) \in Nat /\ 1 + MarkPlace(d, q) >= 1
        /\ 1 + MarkPlace(d, p) \in Nat /\ 1 + MarkPlace(d, p) >= 1
    BY <1>3, MarkPlaces
  <2>2. NthFree(MarkPins(d), FirstMark, 1 + MarkPlace(d, p)) = NthFree(MarkPins(d), FirstMark, 1 + MarkPlace(d, q))
    BY <1>3, MarkPlaces
  <2>3. 1 + MarkPlace(d, p) = 1 + MarkPlace(d, q)
    BY <1>0, <2>1, <2>2, NthFreeApart
  <2> QED
    BY <1>3, <2>3, MarkPlaces
<1>4. PolicyMark(d, p) \in Nat \ {0}
  BY <1>0, <1>1, <1>2
<1>5. ASSUME NEW q \in d.egress, PolicyMark(d, p) = PolicyMark(d, q) PROVE p = q
  <2>1. CASE p \in Unmarked(d) /\ q \in Unmarked(d)
    BY <1>3, <1>5, <2>1
  <2>2. CASE p \notin Unmarked(d) /\ q \notin Unmarked(d)
    BY <1>2, <1>5, <2>2 DEF PoliciesPassed
  <2>3. CASE (p \in Unmarked(d)) # (q \in Unmarked(d))
    BY <1>1, <1>2, <1>5, <2>3
  <2> QED
    BY <2>1, <2>2, <2>3
<1> QED
  BY <1>4, <1>5

\* derive.go deriveForwardReturns: the mark of an uplink is its own, and no policy's.
LEMMA ReturnMarksApart ==
    ASSUME NEW d, PoliciesPassed(d), ForwardsPassed(d), NEW r \in Returns(d)
    PROVE  /\ ReturnMark(d, r) \in Nat \ {0}
           /\ \A s \in Returns(d) : ReturnMark(d, r) = ReturnMark(d, s) => r = s
           /\ \A p \in d.egress : PolicyMark(d, p) # ReturnMark(d, r)
<1> DEFINE u == Cardinality(Unmarked(d))
           at(s) == u + 1 + ReturnAt(d, s)
<1>0. /\ FirstMark \in Nat /\ FirstMark > 0 /\ IsFiniteSet(MarkPins(d)) /\ u \in Nat
  <2>1. IsFiniteSet(Unmarked(d))
    BY FS_Subset DEF Unmarked, PoliciesPassed
  <2>2. IsFiniteSet(MarkPins(d))
    BY FiniteSets
  <2>3. u \in Nat
    BY <2>1, FS_CardinalityType
  <2> QED
    BY <2>2, <2>3 DEF FirstMark
<1>1. ASSUME NEW s \in Returns(d)
      PROVE  /\ ReturnMark(d, s) = NthFree(MarkPins(d), FirstMark, at(s))
             /\ ReturnAt(d, s) \in Nat /\ at(s) \in Nat /\ at(s) >= u + 1
  <2>1. ReturnMark(d, s) = NthFree(MarkPins(d), FirstMark, at(s))
    BY DEF ReturnMark, Unmarked, ReturnAt
  <2>2. ReturnAt(d, s) \in Nat
    BY ReturnPlaces
  <2> QED
    BY <1>0, <2>1, <2>2
<1>2. \A s \in Returns(d) : ReturnAt(d, r) = ReturnAt(d, s) => r = s
  BY ReturnPlaces
<1>3. /\ ReturnMark(d, r) \in Nat /\ ReturnMark(d, r) >= FirstMark /\ ReturnMark(d, r) \notin MarkPins(d)
  <2>1. at(r) \in Nat /\ at(r) >= 1
    BY <1>0, <1>1
  <2> HIDE DEF at
  <2> QED
    BY <1>0, <1>1, <2>1, NthFreeAt
<1>4. ASSUME NEW s \in Returns(d), ReturnMark(d, r) = ReturnMark(d, s) PROVE r = s
  <2>1. at(r) \in Nat /\ at(r) >= 1 /\ at(s) \in Nat /\ at(s) >= 1
    BY <1>0, <1>1
  <2>2. at(r) = at(s)
    <3> HIDE DEF at
    <3> QED
      BY <1>0, <1>1, <1>4, <2>1, NthFreeApart
  <2> QED
    BY <1>0, <1>1, <1>2, <2>2
<1>5. ASSUME NEW p \in d.egress, PolicyMark(d, p) = ReturnMark(d, r) PROVE FALSE
  <2>1. CASE p \notin Unmarked(d)
    <3>1. PolicyMark(d, p) \in MarkPins(d)
      BY <2>1 DEF Unmarked, PolicyMark, MarkPins
    <3> QED
      BY <1>3, <1>5, <3>1
  <2>2. CASE p \in Unmarked(d)
    <3> DEFINE k == 1 + MarkPlace(d, p)
    <3>1. PolicyMark(d, p) = NthFree(MarkPins(d), FirstMark, k) /\ k \in Nat /\ k >= 1 /\ k < u + 1
      BY <1>0, <2>2, MarkPlaces
    <3>2. at(r) \in Nat /\ at(r) >= 1 /\ at(r) >= u + 1
      BY <1>0, <1>1
    <3> HIDE DEF at, k, u
    <3>3. k = at(r)
      BY <1>0, <1>1, <1>5, <3>1, <3>2, NthFreeApart
    <3> QED
      BY <1>0, <3>1, <3>2, <3>3
  <2> QED
    BY <2>1, <2>2
<1> QED
  BY <1>0, <1>3, <1>4, <1>5

\* uplink.go renderPolicyRouting: the rules of the uplinks come before the main table.
LEMMA ReturnTablesFirst ==
    ASSUME NEW d, WellDeclared(d), NEW r \in Returns(d)
    PROVE  ReturnTable(d, r) \in Nat /\ ReturnTable(d, r) < MainPriority
<1> DEFINE S == TablePins(d) \cup ReservedTables
           U == {q \in d.egress : q.table = None}
           k == Cardinality(U) + 1 + ReturnAt(d, r)
           e == Cardinality(d.egress)
           f == Cardinality(d.forwards)
<1>1. /\ IsFiniteSet(S) /\ Cardinality(S) <= e + 4 /\ Cardinality(Returns(d)) <= f /\ 2 * e + f < 32000
  BY FiniteSets DEF WellDeclared, TablesPassed
<1>2. e \in Nat /\ f \in Nat /\ Cardinality(S) \in Nat /\ Cardinality(U) \in Nat /\ Cardinality(U) <= e
  <2>1. IsFiniteSet(d.egress) /\ IsFiniteSet(d.forwards)
    BY DEF WellDeclared, PoliciesPassed, ForwardsPassed
  <2>2. U \subseteq d.egress
    OBVIOUS
  <2> HIDE DEF U
  <2> QED
    BY <1>1, <2>1, <2>2, FS_Subset, FS_CardinalityType
<1>3. ReturnAt(d, r) \in Nat /\ ReturnAt(d, r) < f
  BY <1>1, <1>2, ReturnPlaces DEF WellDeclared
<1>4. ReturnTable(d, r) = NthFree(S, FirstTable, k)
  BY DEF ReturnTable, ReturnAt
<1>5. k \in Nat /\ k >= 1 /\ k <= e + f /\ FirstTable \in Nat
  BY <1>2, <1>3 DEF FirstTable
<1> HIDE DEF S, k, e, f
<1>6. /\ NthFree(S, FirstTable, k) \in Nat
      /\ NthFree(S, FirstTable, k) <= FirstTable + Cardinality(S) + k
  <2>1. IsFiniteSet(S) /\ FirstTable \in Nat /\ k \in Nat /\ k >= 1
    BY <1>1, <1>5
  <2> QED
    BY <2>1, NthFreeAt
<1> QED
  BY <1>1, <1>2, <1>4, <1>5, <1>6 DEF FirstTable, MainPriority

\* A policy's table is a number, pinned or not.
LEMMA PolicyTablesTyped ==
    ASSUME NEW d, PoliciesPassed(d), ForwardsPassed(d), NEW p \in d.egress
    PROVE  PolicyTable(d, p) \in Nat
<1>1. CASE p.table # None
  BY <1>1 DEF PolicyTable, PoliciesPassed
<1>2. CASE p.table = None
  <2> DEFINE S == TablePins(d) \cup ReservedTables
             U == {q \in d.egress : q.table = None}
             k == 1 + PolicyAt(U, p)
  <2>1. U \in SUBSET d.egress /\ p \in U
    BY <1>2
  <2>2. PolicyTable(d, p) = NthFree(S, FirstTable, k)
    <3>1. {q \in U : Precedes(q, p)} = {q \in d.egress : q.table = None /\ Precedes(q, p)}
      OBVIOUS
    <3> QED
      BY <1>2, <3>1, Zenon DEF PolicyTable, PolicyAt
  <2>3. PolicyAt(U, p) \in Nat
    <3> HIDE DEF U
    <3> QED
      BY <2>1, PolicyPlaces
  <2>4. IsFiniteSet(S)
    BY FiniteSets
  <2>5. k \in Nat /\ k >= 1 /\ FirstTable \in Nat
    BY <2>3 DEF FirstTable
  <2> HIDE DEF S, k
  <2> QED
    BY <2>2, <2>4, <2>5, NthFreeAt
<1> QED
  BY <1>1, <1>2

\* And so do those of the policies nobody pinned.
LEMMA PolicyTablesFirst ==
    ASSUME NEW d, WellDeclared(d), NEW p \in d.egress, p.table # None => p.table < MainPriority
    PROVE  PolicyTable(d, p) \in Nat /\ PolicyTable(d, p) < MainPriority
<1>1. CASE p.table # None
  BY <1>1 DEF PolicyTable, WellDeclared, PoliciesPassed
<1>2. CASE p.table = None
  <2> DEFINE S == TablePins(d) \cup ReservedTables
             U == {q \in d.egress : q.table = None}
             place == PolicyAt(U, p)
             k == 1 + place
             e == Cardinality(d.egress)
             f == Cardinality(d.forwards)
  <2>1. /\ IsFiniteSet(S) /\ Cardinality(S) <= e + 4 /\ 2 * e + f < 32000 /\ f \in Nat
    BY FiniteSets, FS_CardinalityType DEF WellDeclared, TablesPassed, ForwardsPassed
  <2>2. PoliciesPassed(d) /\ U \in SUBSET d.egress /\ p \in U
    BY <1>2 DEF WellDeclared
  <2>3. place \in Nat /\ place < Cardinality(U) /\ Cardinality(U) \in Nat /\ Cardinality(U) <= e
    <3> HIDE DEF U
    <3> QED
      BY <2>2, PolicyPlaces
  <2>4. PolicyTable(d, p) = NthFree(S, FirstTable, k)
    <3>1. {q \in U : Precedes(q, p)} = {q \in d.egress : q.table = None /\ Precedes(q, p)}
      OBVIOUS
    <3> QED
      BY <1>2, <3>1, Zenon DEF PolicyTable, PolicyAt
  <2>5. k \in Nat /\ k >= 1 /\ FirstTable \in Nat /\ e \in Nat /\ Cardinality(S) \in Nat
    BY <2>1, <2>2, <2>3, FS_CardinalityType DEF FirstTable, PoliciesPassed
  <2>6. k <= e
    BY <2>3, <2>5
  <2> HIDE DEF S, k, e, f
  <2>7. /\ NthFree(S, FirstTable, k) \in Nat
        /\ NthFree(S, FirstTable, k) <= FirstTable + Cardinality(S) + k
    <3>1. IsFiniteSet(S) /\ FirstTable \in Nat /\ k \in Nat /\ k >= 1
      BY <2>1, <2>5
    <3> QED
      BY <3>1, NthFreeAt
  <2> QED
    BY <2>1, <2>4, <2>5, <2>6, <2>7 DEF FirstTable, MainPriority
<1> QED
  BY <1>1, <1>2
-----------------------------------------------------------------------------
(***************************************************************************)
(* Routing.                                                                *)
(***************************************************************************)
\* uplink.go renderForwardReturnRouting: the mark of an uplink leads out of it.
LEMMA ReturnRouted ==
    ASSUME NEW d, WellDeclared(d), routing = RoutingRules(d), NEW r \in Returns(d), r.uplink \in up,
           NEW dst, FamilyOf[dst] = r.family
    PROVE  Route(dst, ReturnMark(d, r)) = r.uplink
<1> DEFINE rule == TableAndRule(r.uplink, r.family, ReturnTable(d, r), ReturnMark(d, r))
           chosen == {x \in routing : /\ x.mark = ReturnMark(d, r) /\ x.family = FamilyOf[dst]
                                      /\ x.uplink \in up /\ x.table < MainPriority}
<1>1. /\ ReturnTable(d, r) \in Nat /\ ReturnTable(d, r) < MainPriority
      /\ \A s \in Returns(d) : ReturnMark(d, r) = ReturnMark(d, s) => r = s
      /\ \A p \in d.egress : PolicyMark(d, p) # ReturnMark(d, r)
  BY ReturnTablesFirst, ReturnMarksApart DEF WellDeclared
<1>2. rule \in chosen
  BY <1>1 DEF RoutingRules, TableAndRule
<1>3. ASSUME NEW x \in chosen PROVE x = rule
  <2>1. CASE \E p \in d.egress : x = TableAndRule(p.egress, p.family, PolicyTable(d, p), PolicyMark(d, p))
    BY <1>1, <2>1 DEF TableAndRule
  <2>2. CASE \E s \in Returns(d) : x = TableAndRule(s.uplink, s.family, ReturnTable(d, s), ReturnMark(d, s))
    BY <1>1, <2>2 DEF TableAndRule
  <2> QED
    BY <2>1, <2>2 DEF RoutingRules
<1>4. rule.table <= rule.table /\ rule.uplink = r.uplink
  BY <1>1 DEF TableAndRule
<1>5. Route(dst, ReturnMark(d, r)) =
        IF chosen = {} THEN MainRoute(dst) ELSE (CHOOSE x \in chosen : \A q \in chosen : x.table <= q.table).uplink
  BY DEF Route
<1> HIDE DEF chosen, rule
<1> QED
  BY <1>2, <1>3, <1>4, <1>5

\* uplink.go renderPolicyRouting: the mark of a policy leads out of its uplink, as long as
\* that is up.
LEMMA PolicyRouted ==
    ASSUME NEW d, WellDeclared(d), routing = RoutingRules(d), NEW p \in d.egress,
           p.table # None => p.table < MainPriority, NEW dst, FamilyOf[dst] = p.family
    PROVE  Route(dst, PolicyMark(d, p)) = IF p.egress \in up THEN p.egress ELSE MainRoute(dst)
<1> DEFINE rule == TableAndRule(p.egress, p.family, PolicyTable(d, p), PolicyMark(d, p))
           chosen == {x \in routing : /\ x.mark = PolicyMark(d, p) /\ x.family = FamilyOf[dst]
                                      /\ x.uplink \in up /\ x.table < MainPriority}
<1>1. /\ PolicyTable(d, p) \in Nat /\ PolicyTable(d, p) < MainPriority
      /\ \A q \in d.egress : PolicyMark(d, p) = PolicyMark(d, q) => p = q
      /\ \A s \in Returns(d) : PolicyMark(d, p) # ReturnMark(d, s)
  BY PolicyTablesFirst, PolicyMarksApart, ReturnMarksApart DEF WellDeclared
<1>2. p.egress \in up => rule \in chosen
  BY <1>1 DEF RoutingRules, TableAndRule
<1>3. ASSUME NEW x \in chosen PROVE x = rule
  <2>1. CASE \E q \in d.egress : x = TableAndRule(q.egress, q.family, PolicyTable(d, q), PolicyMark(d, q))
    BY <1>1, <2>1 DEF TableAndRule
  <2>2. CASE \E s \in Returns(d) : x = TableAndRule(s.uplink, s.family, ReturnTable(d, s), ReturnMark(d, s))
    BY <1>1, <2>2 DEF TableAndRule
  <2> QED
    BY <2>1, <2>2 DEF RoutingRules
<1>4. rule.table <= rule.table /\ rule.uplink = p.egress /\ \A x \in chosen : x.uplink \in up
  BY <1>1 DEF TableAndRule
<1>5. Route(dst, PolicyMark(d, p)) =
        IF chosen = {} THEN MainRoute(dst) ELSE (CHOOSE x \in chosen : \A q \in chosen : x.table <= q.table).uplink
  BY DEF Route
<1> HIDE DEF chosen, rule
<1> QED
  BY <1>2, <1>3, <1>4, <1>5

\* A packet without a mark goes by the main table.
LEMMA UnmarkedRouted ==
    ASSUME NEW d, WellDeclared(d), routing = RoutingRules(d), NEW dst
    PROVE  Route(dst, 0) = MainRoute(dst)
<1>1. \A p \in d.egress : PolicyMark(d, p) # 0
  BY PolicyMarksApart DEF WellDeclared
<1>2. \A r \in Returns(d) : ReturnMark(d, r) # 0
  BY ReturnMarksApart DEF WellDeclared
<1>3. \A x \in routing : x.mark # 0
  BY <1>1, <1>2 DEF RoutingRules, TableAndRule
<1> QED
  BY <1>3 DEF Route

\* The main table leads out of a link, or nowhere.
LEMMA MainRouteIs ==
    ASSUME net \in Revision, NEW dst \in Addr
    PROVE  /\ MainRoute(dst) \in Link \cup {None}
           /\ dst \notin Inside => MainRoute(dst) \in (Uplink \cap up) \cup {None}
<1> DEFINE defaults == Declared[net].defaults
           lines == {i \in DOMAIN defaults : defaults[i] \in up /\ Own[defaults[i]][FamilyOf[dst]] # None}
<1>1. /\ DOMAIN defaults \subseteq Nat
      /\ \A i \in DOMAIN defaults : defaults[i] \in Uplink
  BY DeclaredAssumption DEF WellDeclared, LinksPassed
<1>2. lines # {} => \E i \in lines : \A j \in lines : i <= j
  <2>1. lines \in SUBSET Nat
    BY <1>1
  <2> HIDE DEF lines
  <2> QED
    BY <2>1, Least
<1>3. lines # {} => (CHOOSE i \in lines : \A j \in lines : i <= j) \in lines
  <2> HIDE DEF lines
  <2> QED
    BY <1>2
<1>4. \A i \in lines : defaults[i] \in Uplink \cap up
  BY <1>1
<1>5. dst \in Inside => MainRoute(dst) \in Link
  BY HostAssumption DEF MainRoute
<1>6. dst \notin Inside =>
        MainRoute(dst) = IF lines = {} THEN None ELSE defaults[CHOOSE i \in lines : \A j \in lines : i <= j]
  BY DEF MainRoute
<1> HIDE DEF lines, defaults
<1>7. Uplink \subseteq Link
  BY HostAssumption
<1> QED
  BY <1>3, <1>4, <1>5, <1>6, <1>7

\* Whatever a packet was marked with, it leaves by a link, or goes nowhere.
LEMMA RouteIs ==
    ASSUME net \in Revision, routing = RoutingRules(Declared[net]), NEW dst \in Addr, NEW mark
    PROVE  Route(dst, mark) \in Link \cup {None} /\ (dst \in Inside => Route(dst, mark) \in Link)
<1> DEFINE chosen == {r \in routing : /\ r.mark = mark /\ r.family = FamilyOf[dst]
                                      /\ r.uplink \in up /\ r.table < MainPriority}
           d == Declared[net]
<1>0. WellDeclared(d)
  BY DeclaredAssumption
<1>1. \A r \in chosen : r.uplink \in Link /\ r.table \in Nat
  <2>1. \A p \in d.egress : p.egress \in Link
    BY <1>0, HostAssumption DEF WellDeclared, PoliciesPassed, LinksPassed
  <2>2. \A r \in Returns(d) : r.uplink \in Link
    BY <1>0, HostAssumption DEF Returns, WellDeclared, ForwardsPassed, LinksPassed
  <2>3. \A p \in d.egress : PolicyTable(d, p) \in Nat
    BY <1>0, PolicyTablesTyped DEF WellDeclared
  <2>4. \A r \in Returns(d) : ReturnTable(d, r) \in Nat
    BY <1>0, ReturnTablesFirst
  <2> QED
    BY <2>1, <2>2, <2>3, <2>4 DEF RoutingRules, TableAndRule
<1>2. chosen # {} => \E r \in chosen : \A q \in chosen : r.table <= q.table
  <2> DEFINE T == {r.table : r \in chosen}
  <2>1. T \in SUBSET Nat /\ (chosen # {} => T # {})
    BY <1>1
  <2> HIDE DEF chosen
  <2>2. chosen # {} => \E n \in T : \A m \in T : n <= m
    <3> HIDE DEF T
    <3> QED
      BY <2>1, Least
  <2> QED
    BY <2>2
<1>3. Route(dst, mark) =
        IF chosen = {} THEN MainRoute(dst) ELSE (CHOOSE r \in chosen : \A q \in chosen : r.table <= q.table).uplink
  BY DEF Route
<1>4. dst \in Inside => MainRoute(dst) \in Link
  BY HostAssumption DEF MainRoute
<1> HIDE DEF chosen
<1> QED
  BY <1>1, <1>2, <1>3, <1>4, MainRouteIs
-----------------------------------------------------------------------------
(***************************************************************************)
(* The mark chain.                                                         *)
(***************************************************************************)
\* What the kernel sees of any packet.
Plain(p) ==
    /\ p.iif \in Link /\ p.oif \in Link /\ p.proto \in Proto
    /\ p.src \in Addr /\ p.dst \in Addr /\ FamilyOf[p.dst] \in Family
    /\ p.sport \in Port \cup {None} /\ p.dport \in Port \cup {None}

\* linkName: an uplink is called by its own name.
LEMMA UplinkName ==
    ASSUME NEW d, LinksPassed(d), NEW u \in d.uplinks
    PROVE  LinkName(d, u) = u
BY DEF LinkName, LinksPassed

\* What each rule of the chain matches, and what it does.
LEMMA RestoreMatches ==
    ASSUME NEW p, Plain(p), NEW held
    PROVE  /\ Matches(RestoreRule, p, held) <=> {"reply", "marked"} \subseteq p.ct
           /\ RestoreRule.at[1] = 0 /\ RestoreRule.do[1] = "restore"
BY DEF Matches, RestoreRule, Everything, Plain

\* The rule that saves matches what a forward readdressed on its uplink.
LEMMA SaveMatches ==
    ASSUME NEW d, LinksPassed(d), ForwardsPassed(d), NEW r \in Returns(d), NEW p, Plain(p), NEW held
    PROVE  /\ Matches(SaveRule(d, r), p, held) <=>
                p.iif = r.uplink /\ FamilyOf[p.dst] = r.family /\ {"new", "dnat"} \subseteq p.ct
           /\ SaveRule(d, r).at = <<1, FamilyRank[r.family], Rank[r.uplink], 0>>
           /\ SaveRule(d, r).do[1] = "save" /\ SaveRule(d, r).do[2] = ReturnMark(d, r)
<1>1. LinkName(d, r.uplink) = r.uplink
  BY UplinkName DEF Returns, ForwardsPassed
<1> QED
  BY <1>1 DEF Matches, SaveRule, Everything, Plain

\* The rules of a policy match what one way of its sources covers.
LEMMA MarkMatches ==
    ASSUME NEW d, NEW q \in d.egress, NEW way, NEW p, Plain(p), NEW held
    PROVE  /\ Matches(MarkRule(d, q, way), p, held) <=>
                /\ FamilyOf[p.dst] = q.family /\ p.dst \notin OfFamily(q.family, q.exclude)
                /\ p.src \in way.addrs /\ \A s \in way.sets : p.src \in held[s]
           /\ MarkRule(d, q, way).at = PolicyPlace(q)
           /\ MarkRule(d, q, way).do[1] = "mark" /\ MarkRule(d, q, way).do[2] = PolicyMark(d, q)
BY DEF Matches, MarkRule, Everything, Plain

\* renderMarkChain: the rules there are.
LEMMA MarkChainIs ==
    ASSUME NEW d
    PROVE  /\ \A h \in MarkChain(d) :
                \/ h = RestoreRule /\ Returns(d) # {}
                \/ \E r \in Returns(d) : h = SaveRule(d, r)
                \/ \E q \in d.egress : \E way \in SourceAlternatives(q) : h = MarkRule(d, q, way)
           /\ Returns(d) # {} => RestoreRule \in MarkChain(d)
           /\ \A r \in Returns(d) : SaveRule(d, r) \in MarkChain(d)
           /\ \A q \in d.egress : \A way \in SourceAlternatives(q) : MarkRule(d, q, way) \in MarkChain(d)
BY DEF MarkChain, ForwardReturnRules, MarkRules

\* The rules of the chain by what they do.
LEMMA Doing ==
    ASSUME NEW d, LinksPassed(d), ForwardsPassed(d), NEW p, Plain(p), NEW h \in MarkChain(d)
    PROVE  /\ h.do[1] = "restore" => h = RestoreRule
           /\ h.do[1] = "save" => \E r \in Returns(d) : h = SaveRule(d, r)
           /\ h.do[1] = "mark" => \E q \in d.egress : \E way \in SourceAlternatives(q) : h = MarkRule(d, q, way)
           /\ h.do[1] \in {"restore", "save", "mark"}
<1>1. RestoreRule.do[1] = "restore"
  BY DEF RestoreRule, Everything
<1>2. \A r \in Returns(d) : SaveRule(d, r).do[1] = "save"
  BY DEF SaveRule, Everything
<1>3. \A q \in d.egress : \A way \in SourceAlternatives(q) : MarkRule(d, q, way).do[1] = "mark"
  BY DEF MarkRule, Everything
<1> QED
  BY <1>1, <1>2, <1>3, MarkChainIs

\* A packet that does not open a connection leaves the connection's mark alone.
LEMMA MarkKept ==
    ASSUME NEW d, LinksPassed(d), ForwardsPassed(d), chains = Render(d), NEW p, Plain(p), NEW mark, "new" \notin p.ct
    PROVE  Marked(p, mark).conn = mark
<1> DEFINE hits == Hits(chains.mark, p, Held)
           ends == {h \in hits : h.do[1] \in {"restore", "mark"}}
           saves == {h \in hits : h.do[1] = "save" /\ \A end \in ends : Ahead(h.at, end.at)}
<1>1. chains.mark = MarkChain(d)
  BY DEF Render
<1>2. saves = {}
  <2> SUFFICES ASSUME NEW h \in hits, h.do[1] = "save" PROVE FALSE
    OBVIOUS
  <2>1. h \in MarkChain(d) /\ Matches(h, p, Held)
    BY <1>1 DEF Hits
  <2>2. PICK r \in Returns(d) : h = SaveRule(d, r)
    BY <2>1, Doing
  <2> QED
    BY <2>1, <2>2, SaveMatches
<1>3. Marked(p, mark).conn = IF saves = {} THEN mark ELSE Last(saves).do[2]
  BY DEF Marked
<1> HIDE DEF saves
<1> QED
  BY <1>2, <1>3

\* The rule that saves the mark of the uplink a packet came by is the only one it meets.
LEMMA OneSaves ==
    ASSUME NEW d, LinksPassed(d), ForwardsPassed(d), chains = Render(d), NEW p, Plain(p), NEW mark
    PROVE  \/ Marked(p, mark).conn = mark
           \/ \E r \in Returns(d) : r.uplink = p.iif /\ r.family = FamilyOf[p.dst] /\ Marked(p, mark).conn = ReturnMark(d, r)
<1> DEFINE hits == Hits(chains.mark, p, Held)
           ends == {h \in hits : h.do[1] \in {"restore", "mark"}}
           saves == {h \in hits : h.do[1] = "save" /\ \A end \in ends : Ahead(h.at, end.at)}
<1>1. chains.mark = MarkChain(d)
  BY DEF Render
<1>2. ASSUME NEW h \in saves
      PROVE  \E r \in Returns(d) : h = SaveRule(d, r) /\ r.uplink = p.iif /\ r.family = FamilyOf[p.dst]
  <2>1. h \in MarkChain(d) /\ Matches(h, p, Held) /\ h.do[1] = "save"
    BY <1>1 DEF Hits
  <2>2. PICK r \in Returns(d) : h = SaveRule(d, r)
    BY <2>1, Doing
  <2> QED
    BY <2>1, <2>2, SaveMatches
<1>3. Marked(p, mark).conn = IF saves = {} THEN mark ELSE Last(saves).do[2]
  BY DEF Marked
<1>4. \A r, s \in Returns(d) : r.uplink = s.uplink /\ r.family = s.family => r = s
  BY DEF Returns
<1> HIDE DEF saves
<1>5. ASSUME saves # {} PROVE \E r \in Returns(d) : r.uplink = p.iif /\ r.family = FamilyOf[p.dst] /\ Last(saves).do[2] = ReturnMark(d, r)
  <2>1. PICK h \in saves : TRUE
    BY <1>5
  <2>2. PICK r \in Returns(d) : h = SaveRule(d, r) /\ r.uplink = p.iif /\ r.family = FamilyOf[p.dst]
    BY <1>2
  <2>3. \A g \in saves : g = h
    BY <1>2, <1>4, <2>2
  <2>4. ~Ahead(h.at, h.at)
    <3>1. Rank[r.uplink] \in Nat /\ FamilyRank[r.family] \in Nat
      <4>1. r.uplink \in DOMAIN Rank /\ r.family \in {"ipv4", "ipv6"}
        BY HostAssumption DEF Returns, ForwardsPassed, Family
      <4> QED
        BY <4>1, RankAssumption DEF FamilyRank
    <3>2. h.at = <<1, FamilyRank[r.family], Rank[r.uplink], 0>>
      BY <2>2, SaveMatches
    <3> QED
      BY <3>1, <3>2 DEF Ahead
  <2>5. Last(saves) = h
    BY <2>3, <2>4 DEF Last
  <2>6. h.do[2] = ReturnMark(d, r)
    BY <2>2, SaveMatches
  <2> QED
    BY <2>2, <2>5, <2>6
<1> QED
  BY <1>3, <1>5

\* forwardReturnRules: the first packet of a connection a forward readdressed is met by it.
LEMMA ArrivedSaved ==
    ASSUME NEW d, LinksPassed(d), ForwardsPassed(d), chains = Render(d), NEW p, Plain(p), NEW mark,
           NEW r \in Returns(d), r.uplink = p.iif, r.family = FamilyOf[p.dst], {"new", "dnat"} \subseteq p.ct, "reply" \notin p.ct
    PROVE  Marked(p, mark).conn = ReturnMark(d, r)
<1> DEFINE hits == Hits(chains.mark, p, Held)
           ends == {h \in hits : h.do[1] \in {"restore", "mark"}}
           saves == {h \in hits : h.do[1] = "save" /\ \A end \in ends : Ahead(h.at, end.at)}
           save == SaveRule(d, r)
<1>1. chains.mark = MarkChain(d)
  BY DEF Render
<1>2. \A s \in Returns(d) : s.uplink = r.uplink /\ s.family = r.family => s = r
  BY DEF Returns
<1>3. save \in hits /\ save.do[1] = "save" /\ save.at[1] = 1
  BY <1>1, SaveMatches, MarkChainIs DEF Hits
<1>4. \A end \in ends : Ahead(save.at, end.at)
  <2> SUFFICES ASSUME NEW end \in ends PROVE Ahead(save.at, end.at)
    OBVIOUS
  <2>1. end \in MarkChain(d) /\ Matches(end, p, Held) /\ end.do[1] \in {"restore", "mark"}
    BY <1>1 DEF Hits
  <2>2. end # RestoreRule
    BY <2>1, RestoreMatches
  <2>3. PICK q \in d.egress : \E way \in SourceAlternatives(q) : end = MarkRule(d, q, way)
    BY <2>1, <2>2, Doing
  <2>4. end.at[1] = 2
    BY <2>3, MarkMatches DEF PolicyPlace
  <2> QED
    BY <1>3, <2>4 DEF Ahead
<1>5. save \in saves
  BY <1>3, <1>4
<1>6. ASSUME NEW h \in saves PROVE h = save
  <2>1. h \in MarkChain(d) /\ Matches(h, p, Held) /\ h.do[1] = "save"
    BY <1>1 DEF Hits
  <2>2. PICK s \in Returns(d) : h = SaveRule(d, s)
    BY <2>1, Doing
  <2> QED
    BY <1>2, <2>1, <2>2, SaveMatches
<1>7. ~Ahead(save.at, save.at)
  <2>1. r.uplink \in DOMAIN Rank /\ r.family \in {"ipv4", "ipv6"}
    BY HostAssumption DEF Returns, ForwardsPassed, Family
  <2>2. Rank[r.uplink] \in Nat /\ FamilyRank[r.family] \in Nat
    BY <2>1, RankAssumption DEF FamilyRank
  <2>3. save.at = <<1, FamilyRank[r.family], Rank[r.uplink], 0>>
    BY SaveMatches
  <2> QED
    BY <2>2, <2>3 DEF Ahead
<1>8. Marked(p, mark).conn = IF saves = {} THEN mark ELSE Last(saves).do[2]
  BY DEF Marked
<1>9. save.do[2] = ReturnMark(d, r)
  BY SaveMatches
<1> HIDE DEF saves, save
<1>10. Last(saves) = save
  BY <1>5, <1>6, <1>7 DEF Last
<1> QED
  BY <1>5, <1>8, <1>9, <1>10

\* forwardReturnRules: a reply is given its connection's mark, before any policy is asked.
LEMMA ReplyMarked ==
    ASSUME NEW d, LinksPassed(d), ForwardsPassed(d), chains = Render(d), NEW p, Plain(p), NEW mark,
           Returns(d) # {}, {"reply", "marked"} \subseteq p.ct
    PROVE  Marked(p, mark).packet = mark
<1> DEFINE hits == Hits(chains.mark, p, Held)
           ends == {h \in hits : h.do[1] \in {"restore", "mark"}}
<1>1. chains.mark = MarkChain(d)
  BY DEF Render
<1>2. RestoreRule \in ends /\ RestoreRule.at[1] = 0 /\ RestoreRule.do[1] = "restore"
  BY <1>1, RestoreMatches, MarkChainIs DEF Hits
<1>3. ASSUME NEW end \in ends, end # RestoreRule PROVE Ahead(RestoreRule.at, end.at) /\ ~Ahead(end.at, RestoreRule.at)
  <2>1. end \in MarkChain(d) /\ end.do[1] \in {"restore", "mark"}
    BY <1>1 DEF Hits
  <2>2. PICK q \in d.egress : \E way \in SourceAlternatives(q) : end = MarkRule(d, q, way)
    BY <1>3, <2>1, Doing
  <2>3. end.at[1] = 2
    BY <2>2, MarkMatches DEF PolicyPlace
  <2> QED
    BY <1>2, <2>3 DEF Ahead
<1>4. ~Ahead(RestoreRule.at, RestoreRule.at)
  BY DEF Ahead, RestoreRule, Everything
<1>5. Marked(p, mark).packet =
        IF ends = {} THEN 0 ELSE IF First(ends).do[1] = "restore" THEN mark ELSE First(ends).do[2]
  BY DEF Marked
<1> HIDE DEF ends
<1>6. First(ends) = RestoreRule
  BY <1>2, <1>3, <1>4 DEF First
<1> QED
  BY <1>2, <1>5, <1>6
-----------------------------------------------------------------------------
(***************************************************************************)
(* The first rule that matches.                                            *)
(***************************************************************************)
\* Of the rules that match one is first, since places are numbers.
LEMMA FirstIs ==
    ASSUME NEW hits, hits # {}, \A h \in hits : h.at[1] \in Nat /\ h.at[2] \in Nat /\ h.at[3] \in Nat /\ h.at[4] \in Nat
    PROVE  First(hits) \in hits /\ \A g \in hits : ~Ahead(g.at, First(hits).at)
<1>1. PICK a \in hits : \A g \in hits : a.at[1] <= g.at[1]
  <2> DEFINE T == {h.at[1] : h \in hits}
  <2>1. T \in SUBSET Nat /\ T # {}
    OBVIOUS
  <2>2. \E n \in T : \A m \in T : n <= m
    <3> HIDE DEF T
    <3> QED
      BY <2>1, Least
  <2> QED
    BY <2>2
<1> DEFINE H1 == {h \in hits : h.at[1] = a.at[1]}
<1>2. PICK b \in H1 : \A g \in H1 : b.at[2] <= g.at[2]
  <2> DEFINE T == {h.at[2] : h \in H1}
  <2>1. T \in SUBSET Nat /\ T # {}
    OBVIOUS
  <2>2. \E n \in T : \A m \in T : n <= m
    <3> HIDE DEF T
    <3> QED
      BY <2>1, Least
  <2> QED
    BY <2>2
<1> DEFINE H2 == {h \in H1 : h.at[2] = b.at[2]}
<1>3. PICK c \in H2 : \A g \in H2 : c.at[3] <= g.at[3]
  <2> DEFINE T == {h.at[3] : h \in H2}
  <2>1. T \in SUBSET Nat /\ T # {}
    OBVIOUS
  <2>2. \E n \in T : \A m \in T : n <= m
    <3> HIDE DEF T
    <3> QED
      BY <2>1, Least
  <2> QED
    BY <2>2
<1> DEFINE H3 == {h \in H2 : h.at[3] = c.at[3]}
<1>4. PICK e \in H3 : \A g \in H3 : e.at[4] <= g.at[4]
  <2> DEFINE T == {h.at[4] : h \in H3}
  <2>1. T \in SUBSET Nat /\ T # {}
    OBVIOUS
  <2>2. \E n \in T : \A m \in T : n <= m
    <3> HIDE DEF T
    <3> QED
      BY <2>1, Least
  <2> QED
    BY <2>2
<1>5. e \in hits /\ \A g \in hits : ~Ahead(g.at, e.at)
  BY <1>1, <1>2, <1>3, <1>4 DEF Ahead
<1> QED
  BY <1>5 DEF First
-----------------------------------------------------------------------------
(***************************************************************************)
(* Translating the destination.                                            *)
(***************************************************************************)
\* The installed table and the read files are those of declared revisions.
HostKnown ==
    /\ nft \in Revision /\ net \in Revision /\ up \subseteq Uplink
    /\ chains = Render(Declared[nft]) /\ routing = RoutingRules(Declared[net])

\* Uplink sets hold the address of an uplink that is up.
LEMMA UplinkHeld ==
    ASSUME NEW d, chains = Render(d), NEW u \in d.uplinks, NEW f \in Family
    PROVE  Held[UplinkSet(u, f)] = IF u \in up THEN {Own[u][f]} \ {None} ELSE {}
<1> DEFINE s == UplinkSet(u, f)
<1>1. s \in DOMAIN chains.sets
  BY DEF Render, Sets
<1>2. s[1] = "uplink" /\ s[2] = f /\ s[3] = u
  BY DEF UplinkSet
<1> HIDE DEF s
<1> QED
  BY <1>1, <1>2 DEF Held, s

\* forwardDNAT: the rule for what arrives on the uplink.
LEMMA ArrivingMatches ==
    ASSUME NEW d, LinksPassed(d), ForwardsPassed(d), NEW f \in d.forwards, NEW p, Plain(p), NEW held
    PROVE  /\ Matches(Arriving(d, f), p, held) <=>
                p.iif = f.egress /\ FamilyOf[p.dst] = f.family /\ p.proto = f.proto /\ p.dport \in f.ports
           /\ Arriving(d, f).at = <<0, Rank[f.name], 0, 0>>
           /\ Arriving(d, f).do = <<"dnat", f.target, f.tports>>
<1>1. LinkName(d, f.egress) = f.egress
  BY UplinkName DEF ForwardsPassed
<1> QED
  BY <1>1 DEF Matches, Arriving, Everything, Plain

\* And the rule for what comes from anywhere else.
LEMMA ReturningMatches ==
    ASSUME NEW d, LinksPassed(d), ForwardsPassed(d), NEW f \in d.forwards, NEW p, Plain(p), NEW held
    PROVE  /\ Matches(Returning(d, f), p, held) <=>
                /\ p.iif # f.egress /\ FamilyOf[p.dst] = f.family /\ p.proto = f.proto /\ p.dport \in f.ports
                /\ p.dst \in held[UplinkSet(f.egress, f.family)]
           /\ Returning(d, f).at = <<0, Rank[f.name], 0, 0>>
           /\ Returning(d, f).do = <<"dnat", f.target, f.tports>>
<1>1. LinkName(d, f.egress) = f.egress
  BY UplinkName DEF ForwardsPassed
<1> QED
  BY <1>1 DEF Matches, Returning, Arriving, Everything, Plain

\* forwardDNAT: the rule that translates a packet is one of a forward it is for.
Takes(d, f, p) ==
    /\ FamilyOf[p.dst] = f.family /\ p.proto = f.proto /\ p.dport \in f.ports
    /\ p.iif # f.egress => f.hairpin /\ f.egress \in up /\ p.dst = Own[f.egress][f.family]

\* The rule that decides is one of a forward that takes the packet.
LEMMA FirstForward ==
    ASSUME NEW d, LinksPassed(d), ForwardsPassed(d), chains = Render(d), NEW p, Plain(p), Hits(chains.dnat, p, Held) # {}
    PROVE  \E f \in d.forwards :
             /\ Takes(d, f, p)
             /\ First(Hits(chains.dnat, p, Held)).do = <<"dnat", f.target, f.tports>>
<1> DEFINE hits == Hits(chains.dnat, p, Held)
<1>1. ASSUME NEW h \in hits
      PROVE  \E f \in d.forwards : /\ h = Arriving(d, f) \/ (f.hairpin /\ h = Returning(d, f))
                                   /\ Matches(h, p, Held)
  <2>1. h \in DNATChain(d) /\ Matches(h, p, Held)
    BY DEF Render, Hits
  <2>2. PICK f \in d.forwards : h \in ForwardDNAT(d, f)
    BY <2>1 DEF DNATChain
  <2>3. h = Arriving(d, f) \/ (f.hairpin /\ h = Returning(d, f))
    <3>1. CASE f.hairpin
      BY <2>2, <3>1 DEF ForwardDNAT
    <3>2. CASE ~f.hairpin
      BY <2>2, <3>2 DEF ForwardDNAT
    <3> QED
      BY <3>1, <3>2
  <2> QED
    BY <2>1, <2>3
<1>2. ASSUME NEW h \in hits
      PROVE  h.at[1] \in Nat /\ h.at[2] \in Nat /\ h.at[3] \in Nat /\ h.at[4] \in Nat
  <2>1. PICK f \in d.forwards : /\ h = Arriving(d, f) \/ (f.hairpin /\ h = Returning(d, f))
                                /\ Matches(h, p, Held)
    BY <1>1
  <2>2. h.at = <<0, Rank[f.name], 0, 0>>
    BY <2>1, ArrivingMatches, ReturningMatches
  <2>3. Rank[f.name] \in Nat
    BY RankAssumption DEF ForwardsPassed
  <2> QED
    BY <2>2, <2>3
<1> HIDE DEF hits
<1>3. First(hits) \in hits
  BY <1>2, FirstIs DEF hits
<1>4. PICK f \in d.forwards : /\ First(hits) = Arriving(d, f) \/ (f.hairpin /\ First(hits) = Returning(d, f))
                              /\ Matches(First(hits), p, Held)
  BY <1>1, <1>3
<1>5. First(hits).do = <<"dnat", f.target, f.tports>>
  BY <1>4, ArrivingMatches, ReturningMatches
<1>6. Takes(d, f, p)
  <2>1. CASE First(hits) = Arriving(d, f)
    BY <1>4, <2>1, ArrivingMatches DEF Takes
  <2>2. CASE f.hairpin /\ First(hits) = Returning(d, f)
    <3>1. /\ FamilyOf[p.dst] = f.family /\ p.proto = f.proto /\ p.dport \in f.ports
          /\ p.dst \in Held[UplinkSet(f.egress, f.family)]
      BY <1>4, <2>2, ReturningMatches
    <3>2. f.egress \in d.uplinks /\ f.family \in Family
      BY HostAssumption DEF ForwardsPassed
    <3>3. Held[UplinkSet(f.egress, f.family)] = IF f.egress \in up THEN {Own[f.egress][f.family]} \ {None} ELSE {}
      BY <3>2, UplinkHeld
    <3>4. f.egress \in up /\ p.dst = Own[f.egress][f.family]
      BY <3>1, <3>3
    <3> QED
      BY <2>2, <3>1, <3>4 DEF Takes
  <2> QED
    BY <1>4, <2>1, <2>2
<1> QED
  BY <1>5, <1>6 DEF hits

\* The packets that open a connection.
First1(p) ==
    /\ Plain(p) /\ p.ct = {"new"} /\ p.proto \in Transport /\ p.sport = ClientPort /\ p.dport \in Port
    /\ p = Packet(p.iif, p.src, p.dst, p.proto, p.sport, p.dport, p.ct)
    /\ FamilyOf[p.src] = FamilyOf[p.dst]
    /\ p.iif \in Uplink => p.dst \in Inside \/ p.dst = Own[p.iif][FamilyOf[p.dst]]
    /\ p.src \in IF p.iif \in Uplink THEN Outside ELSE Inside

\* What the first packet of a connection may be.
LEMMA FirstPacketIs ==
    ASSUME HostKnown, NEW p \in FirstPackets, Sendable(p)
    PROVE  First1(p)
<1>1. /\ FamilyOf[p.src] = FamilyOf[p.dst] /\ p.dst \in Addr /\ FamilyOf[p.dst] \in Family
      /\ p.iif \in Uplink => p.dst \in Inside \/ p.dst = Own[p.iif][FamilyOf[p.dst]]
  BY HostAssumption DEF Sendable
<1>2. CASE \E src \in Inside, dst \in Addr, proto \in Transport, dport \in Port \ {ClientPort} :
             p = Packet(LinkTo[src], src, dst, proto, ClientPort, dport, {"new"})
  <2>1. PICK src \in Inside, dst \in Addr, proto \in Transport, dport \in Port \ {ClientPort} :
             p = Packet(LinkTo[src], src, dst, proto, ClientPort, dport, {"new"})
    BY <1>2
  <2>2. LinkTo[src] \in Link \ Uplink /\ src \in Addr /\ proto \in Proto /\ ClientPort \in Port
    BY HostAssumption
  <2> QED
    BY <1>1, <2>1, <2>2 DEF First1, Plain, Packet
<1>3. CASE \E u \in up, src \in Outside, dst \in {Own[l][f] : l \in up, f \in Family} \cup OfFamily("ipv6", Inside),
              proto \in Transport, dport \in Port \ {ClientPort} :
             p = Packet(u, src, dst, proto, ClientPort, dport, {"new"})
  <2>1. PICK u \in up, src \in Outside, dst \in {Own[l][f] : l \in up, f \in Family} \cup OfFamily("ipv6", Inside),
              proto \in Transport, dport \in Port \ {ClientPort} :
             p = Packet(u, src, dst, proto, ClientPort, dport, {"new"})
    BY <1>3
  <2>2. u \in Link /\ u \in Uplink /\ src \in Addr /\ src \in Outside /\ proto \in Proto /\ ClientPort \in Port
    BY HostAssumption DEF HostKnown, Outside
  <2> QED
    BY <1>1, <2>1, <2>2 DEF First1, Plain, Packet
<1> QED
  BY <1>2, <1>3 DEF FirstPackets

\* A packet whose destination was translated.
LEMMA PacketTurned ==
    ASSUME NEW p, p = Packet(p.iif, p.src, p.dst, p.proto, p.sport, p.dport, {"new"}), NEW dst, NEW dport
    PROVE  [p EXCEPT !.dst = dst, !.dport = dport, !.ct = @ \cup {"dnat"}]
             = Packet(p.iif, p.src, dst, p.proto, p.sport, dport, {"new", "dnat"})
<1>1. PICK iif, src, to, proto, sport, port : p = Packet(iif, src, to, proto, sport, port, {"new"})
  OBVIOUS
<1>2. p.iif = iif /\ p.src = src /\ p.proto = proto /\ p.sport = sport /\ p.ct = {"new"}
  BY <1>1 DEF Packet
<1>3. [p EXCEPT !.dst = dst] = Packet(iif, src, dst, proto, sport, port, {"new"})
  BY <1>1 DEF Packet
<1>4. [p EXCEPT !.dst = dst, !.dport = dport] = Packet(iif, src, dst, proto, sport, dport, {"new"})
  <2>1. [Packet(iif, src, dst, proto, sport, port, {"new"}) EXCEPT !.dport = dport]
          = Packet(iif, src, dst, proto, sport, dport, {"new"})
    BY DEF Packet
  <2> QED
    BY <1>3, <2>1
<1>5. [p EXCEPT !.dst = dst, !.dport = dport, !.ct = {"new", "dnat"}]
        = Packet(iif, src, dst, proto, sport, dport, {"new", "dnat"})
  <2>1. [Packet(iif, src, dst, proto, sport, dport, {"new"}) EXCEPT !.ct = {"new", "dnat"}]
          = Packet(iif, src, dst, proto, sport, dport, {"new", "dnat"})
    BY DEF Packet
  <2> QED
    BY <1>4, <2>1
<1>6. p.ct \cup {"dnat"} = {"new", "dnat"}
  BY <1>2
<1>7. Packet(iif, src, dst, proto, sport, dport, {"new", "dnat"})
        = Packet(p.iif, p.src, dst, p.proto, p.sport, dport, {"new", "dnat"})
  BY <1>2
<1> QED
  BY <1>5, <1>6, <1>7

\* What a packet is after the rules for translating its destination.
LEMMA ReaddressedIs ==
    ASSUME NEW d, LinksPassed(d), ForwardsPassed(d), chains = Render(d), NEW p, First1(p), NEW q \in Readdressed(p)
    PROVE  /\ Plain(q) /\ q.iif = p.iif /\ q.oif = p.oif /\ q.src = p.src /\ q.proto = p.proto /\ q.sport = p.sport
           /\ q = Packet(q.iif, q.src, q.dst, q.proto, q.sport, q.dport, q.ct)
           /\ q.dport \in Port /\ FamilyOf[q.dst] = FamilyOf[p.dst]
           /\ \/ q = p /\ q.ct = {"new"} /\ Hits(chains.dnat, p, Held) = {}
              \/ /\ q.ct = {"new", "dnat"}
                 /\ \E f \in d.forwards : Takes(d, f, p) /\ q.dst = f.target /\ q.dport \in f.tports
<1>1. CASE Hits(chains.dnat, p, Held) = {}
  BY <1>1 DEF Readdressed, First1
<1>2. CASE Hits(chains.dnat, p, Held) # {}
  <2>1. PICK f \in d.forwards : /\ Takes(d, f, p)
                                /\ First(Hits(chains.dnat, p, Held)).do = <<"dnat", f.target, f.tports>>
    BY <1>2, FirstForward DEF First1
  <2>2. PICK port \in IF p.dport \in f.tports THEN {p.dport} ELSE f.tports :
          q = [p EXCEPT !.dst = f.target, !.dport = port, !.ct = @ \cup {"dnat"}]
    <3> DEFINE do == First(Hits(chains.dnat, p, Held)).do
    <3>1. Readdressed(p) =
            {[p EXCEPT !.dst = do[2], !.dport = port, !.ct = @ \cup {"dnat"}] :
                port \in IF p.dport \in do[3] THEN {p.dport} ELSE do[3]}
      BY <1>2 DEF Readdressed
    <3>2. do[2] = f.target /\ do[3] = f.tports
      BY <2>1
    <3> HIDE DEF do
    <3>3. PICK port \in IF p.dport \in do[3] THEN {p.dport} ELSE do[3] :
             q = [p EXCEPT !.dst = do[2], !.dport = port, !.ct = @ \cup {"dnat"}]
      BY <3>1
    <3> QED
      BY <3>2, <3>3
  <2>3. f.target \in Addr /\ FamilyOf[f.target] = f.family /\ f.tports \subseteq Port /\ f.family \in Family
    BY HostAssumption DEF ForwardsPassed
  <2>4. port \in f.tports /\ port \in Port
    BY <2>2, <2>3
  <2>5. q = Packet(p.iif, p.src, f.target, p.proto, p.sport, port, {"new", "dnat"})
    <3>1. p = Packet(p.iif, p.src, p.dst, p.proto, p.sport, p.dport, {"new"})
      BY DEF First1
    <3>2. [p EXCEPT !.dst = f.target, !.dport = port, !.ct = @ \cup {"dnat"}]
            = Packet(p.iif, p.src, f.target, p.proto, p.sport, port, {"new", "dnat"})
      BY <3>1, PacketTurned
    <3> QED
      BY <2>2, <3>2
  <2>6. FamilyOf[p.dst] = f.family
    BY <2>1 DEF Takes
  <2> QED
    BY <2>1, <2>3, <2>4, <2>5, <2>6 DEF First1, Plain, Packet
<1> QED
  BY <1>1, <1>2

\* forwardDNAT: on an uplink only what is published there is translated.
LEMMA ArrivesOnItsOwn ==
    ASSUME HostKnown, NEW d, LinksPassed(d), ForwardsPassed(d), NEW p, First1(p), NEW f \in d.forwards, Takes(d, f, p),
           p.iif \in Uplink
    PROVE  p.iif = f.egress
<1>1. SUFFICES ASSUME p.iif # f.egress PROVE FALSE
  OBVIOUS
<1>2. p.dst = Own[f.egress][f.family] /\ f.egress \in Link /\ f.family \in Family /\ p.dst \in Addr
  BY <1>1, HostAssumption DEF Takes, ForwardsPassed, LinksPassed, First1, Plain
<1>3. Own[f.egress][f.family] # None /\ p.iif \in Link
  BY <1>2, HostAssumption
<1>4. p.dst \notin Inside /\ Own[p.iif][f.family] # p.dst
  BY <1>1, <1>2, <1>3, HostAssumption
<1> QED
  BY <1>4 DEF First1, Takes
-----------------------------------------------------------------------------
(***************************************************************************)
(* A walk through the hooks.                                               *)
(***************************************************************************)
\* Routing changes nothing of a packet but the link it leaves by.
LEMMA PacketRouted ==
    ASSUME NEW p, p = Packet(p.iif, p.src, p.dst, p.proto, p.sport, p.dport, p.ct), NEW out
    PROVE  LET q == [p EXCEPT !.oif = out]
           IN /\ q.iif = p.iif /\ q.oif = out /\ q.src = p.src /\ q.dst = p.dst /\ q.proto = p.proto
              /\ q.sport = p.sport /\ q.dport = p.dport /\ q.ct = p.ct
<1>1. PICK iif, src, dst, proto, sport, dport, ct : p = Packet(iif, src, dst, proto, sport, dport, ct)
  OBVIOUS
<1> QED
  BY <1>1 DEF Packet

\* The parts of a walk, and of one that had no address to leave with.
LEMMA WalkIs ==
    ASSUME NEW p, NEW mark
    PROVE  LET w == Walk(p, mark)
           IN /\ w.mark = Marked(p, mark).conn /\ w.out = Route(p.dst, Marked(p, mark).packet)
              /\ w.packet = [p EXCEPT !.oif = w.out]
              /\ Local(p.dst) => w.fate = IF Filtered(chains.input, p) THEN "local" ELSE "dropped"
              /\ ~Local(p.dst) /\ w.out = None => w.fate = "unreachable"
              /\ ~Local(p.dst) /\ w.out # None =>
                    w.fate = IF Filtered(chains.forward, w.packet) THEN "forwarded" ELSE "dropped"
  BY DEF Walk

\* A packet that had no address to leave with went nowhere, and is otherwise the same.
LEMMA TranslatedIs ==
    ASSUME NEW p, NEW mark
    PROVE  LET w == Walk(p, mark)
               t == Translated(w)
           IN /\ t.mark = w.mark /\ t.out = w.out /\ t.packet = w.packet
              /\ t.fate = IF SourceOf(w) = None THEN "unreachable" ELSE w.fate
              /\ t.fate = "forwarded" => SourceOf(t) = SourceOf(w) /\ SourceOf(w) # None
<1> DEFINE w == Walk(p, mark)
<1>1. w = [mark |-> w.mark, packet |-> w.packet, out |-> w.out, fate |-> w.fate]
  BY DEF Walk
<1>2. PICK m, q, o, f : w = [mark |-> m, packet |-> q, out |-> o, fate |-> f]
  BY <1>1
<1> HIDE DEF w
<1>3. [w EXCEPT !.fate = "unreachable"] = [mark |-> m, packet |-> q, out |-> o, fate |-> "unreachable"]
  BY <1>2
<1>4. CASE SourceOf(w) = None
  <2>1. Translated(w) = [mark |-> m, packet |-> q, out |-> o, fate |-> "unreachable"]
    BY <1>3, <1>4 DEF Translated
  <2> QED
    BY <1>2, <1>4, <2>1 DEF w
<1>5. CASE SourceOf(w) # None
  <2>1. Translated(w) = w
    BY <1>5 DEF Translated
  <2> QED
    BY <1>5, <2>1 DEF w
<1> QED
  BY <1>4, <1>5
-----------------------------------------------------------------------------
(***************************************************************************)
(* Translating the source.                                                 *)
(***************************************************************************)
\* sourceNAT: the rules of a SourceNAT match what it translates.
LEMMA SourceNATMatches ==
    ASSUME NEW d, LinksPassed(d), SourceNATsPassed(d), NEW n \in d.nats, NEW q, Plain(q),
           FamilyOf[q.src] = FamilyOf[q.dst], NEW held
    PROVE  (\E h \in SourceNAT(d, n) : Matches(h, q, held)) <=> (q.oif = n.egress /\ Translates(n, q))
<1> DEFINE out == [Everything EXCEPT !.at = <<1, Rank[n.name], 0, 0>>,
                                     !.oif = {LinkName(d, n.egress)}, !.do = <<"masquerade">>]
           families == {f \in Family : OfFamily(f, n.src) \cup OfFamily(f, n.exclude) # {}}
           narrowed(f) == [out EXCEPT !.family = {f},
                                      !.src = IF OfFamily(f, n.src) = {} THEN Addr ELSE OfFamily(f, n.src),
                                      !.dst = Addr \ OfFamily(f, n.exclude)]
           family == FamilyOf[q.dst]
<1>1. SourceNAT(d, n) = IF families = {} THEN {out} ELSE {narrowed(f) : f \in families}
  BY DEF SourceNAT
<1>2. LinkName(d, n.egress) = n.egress
  BY UplinkName DEF SourceNATsPassed
<1>3. Matches(out, q, held) <=> q.oif = n.egress
  BY <1>2 DEF Matches, Everything, Plain
<1>4. ASSUME NEW f \in Family
      PROVE  Matches(narrowed(f), q, held) <=>
               /\ q.oif = n.egress /\ f = family
               /\ q.src \in IF OfFamily(f, n.src) = {} THEN Addr ELSE OfFamily(f, n.src)
               /\ q.dst \in Addr \ OfFamily(f, n.exclude)
  BY <1>2 DEF Matches, Everything, Plain
<1>5. \A a \in n.src \cup n.exclude : a \in Addr /\ FamilyOf[a] \in Family
  BY HostAssumption DEF SourceNATsPassed
<1>6. family \in Family /\ q.src \in Addr /\ q.dst \in Addr
  BY DEF Plain
<1>7. Translates(n, q) <=>
        /\ n.src \cup n.exclude = {} \/ OfFamily(family, n.src \cup n.exclude) # {}
        /\ OfFamily(family, n.src) = {} \/ q.src \in n.src
        /\ q.dst \notin n.exclude
  BY DEF Translates
<1>8. CASE families = {}
  <2>1. n.src = {} /\ n.exclude = {}
    BY <1>5, <1>8 DEF OfFamily
  <2>2. Translates(n, q)
    BY <1>7, <2>1 DEF OfFamily
  <2>3. SourceNAT(d, n) = {out}
    BY <1>1, <1>8
  <2> HIDE DEF out
  <2> QED
    BY <1>3, <2>2, <2>3
<1>9. CASE families # {}
  <2>1. n.src \cup n.exclude # {}
    BY <1>9 DEF OfFamily
  <2>2. OfFamily(family, n.src \cup n.exclude) # {} <=> family \in families
    BY <1>6 DEF OfFamily
  <2>3. (q.src \in IF OfFamily(family, n.src) = {} THEN Addr ELSE OfFamily(family, n.src))
          <=> (OfFamily(family, n.src) = {} \/ q.src \in n.src)
    BY <1>6 DEF OfFamily
  <2>4. q.dst \in Addr \ OfFamily(family, n.exclude) <=> q.dst \notin n.exclude
    BY <1>6 DEF OfFamily
  <2>5. SourceNAT(d, n) = {narrowed(f) : f \in families} /\ families \subseteq Family
    BY <1>1, <1>9
  <2>6. (\E h \in SourceNAT(d, n) : Matches(h, q, held)) <=> \E f \in families : Matches(narrowed(f), q, held)
    <3> HIDE DEF narrowed, families
    <3> QED
      BY <2>5
  <2>7. (\E f \in families : Matches(narrowed(f), q, held)) <=> family \in families /\ Matches(narrowed(family), q, held)
    <3> HIDE DEF narrowed, families
    <3> QED
      BY <1>4, <2>5
  <2>8. Matches(narrowed(family), q, held) <=>
          q.oif = n.egress /\ (OfFamily(family, n.src) = {} \/ q.src \in n.src) /\ q.dst \notin n.exclude
    <3> HIDE DEF narrowed
    <3> QED
      BY <1>4, <1>6, <2>3, <2>4
  <2> QED
    <3> HIDE DEF narrowed, families
    <3> QED
      BY <1>7, <2>1, <2>2, <2>6, <2>7, <2>8
<1> QED
  BY <1>8, <1>9

\* forwardHairpinSNAT: and the rule of a forward what it sent back in.
LEMMA HairpinMatches ==
    ASSUME NEW d, LinksPassed(d), ForwardsPassed(d), NEW f \in d.forwards, NEW q, Plain(q), NEW held
    PROVE  (\E h \in ForwardHairpinSNAT(d, f) : Matches(h, q, held)) <=> Hairpinned(f, q)
<1>1. LinkName(d, f.egress) = f.egress
  BY UplinkName DEF ForwardsPassed
<1>2. f.target \in Addr /\ f.family = FamilyOf[f.target]
  BY DEF ForwardsPassed
<1>3. CASE f.hairpin
  <2> DEFINE h == [Everything EXCEPT !.at = <<0, Rank[f.name], 0, 0>>,
                             !.iif = Link \ {LinkName(d, f.egress)}, !.ct = {"dnat"},
                             !.family = {f.family}, !.proto = {f.proto},
                             !.dst = {f.target}, !.dport = f.tports, !.do = <<"masquerade">>]
  <2>1. ForwardHairpinSNAT(d, f) = {h}
    BY <1>3 DEF ForwardHairpinSNAT
  <2>2. Matches(h, q, held) <=> /\ q.iif # f.egress /\ "dnat" \in q.ct /\ FamilyOf[q.dst] = f.family
                                /\ q.proto = f.proto /\ q.dst = f.target /\ q.dport \in f.tports
    BY <1>1 DEF Matches, Everything, Plain
  <2> HIDE DEF h
  <2>3. (\E g \in ForwardHairpinSNAT(d, f) : Matches(g, q, held)) <=> Matches(h, q, held)
    BY <2>1
  <2> QED
    BY <1>2, <1>3, <2>2, <2>3 DEF Hairpinned
<1>4. CASE ~f.hairpin
  BY <1>4 DEF ForwardHairpinSNAT, Hairpinned
<1> QED
  BY <1>3, <1>4

\* A packet is translated exactly by those.
LEMMA MasqueradedIs ==
    ASSUME NEW d, LinksPassed(d), ForwardsPassed(d), SourceNATsPassed(d), chains = Render(d),
           NEW q, Plain(q), FamilyOf[q.src] = FamilyOf[q.dst]
    PROVE  Masqueraded(q) <=> \/ \E n \in d.nats : n.egress = q.oif /\ Translates(n, q)
                              \/ \E f \in d.forwards : Hairpinned(f, q)
<1>1. Masqueraded(q) <=> \E h \in SNATChain(d) : Matches(h, q, Held)
  BY DEF Masqueraded, Hits, Render
<1>2. (\E h \in SNATChain(d) : Matches(h, q, Held)) <=>
        \/ \E f \in d.forwards : \E h \in ForwardHairpinSNAT(d, f) : Matches(h, q, Held)
        \/ \E n \in d.nats : \E h \in SourceNAT(d, n) : Matches(h, q, Held)
  BY Zenon DEF SNATChain
<1>3. (\E f \in d.forwards : \E h \in ForwardHairpinSNAT(d, f) : Matches(h, q, Held)) <=> \E f \in d.forwards : Hairpinned(f, q)
  BY HairpinMatches
<1>4. (\E n \in d.nats : \E h \in SourceNAT(d, n) : Matches(h, q, Held)) <=> \E n \in d.nats : n.egress = q.oif /\ Translates(n, q)
  BY SourceNATMatches
<1> QED
  BY <1>1, <1>2, <1>3, <1>4
-----------------------------------------------------------------------------
(***************************************************************************)
(* The inductive invariant.                                                *)
(***************************************************************************)
ReturnOf(c) == [uplink |-> c.first.iif, family |-> FamilyOf[c.target]]

\* What is true of a tracked connection: what it is made of, that a forward's came from
\* outside or carries no address of a host inside, and that one that came from outside keeps
\* the mark of the uplink it came by, as the declaration of that day numbered it.
Connected(c) ==
    /\ DOMAIN c = {"first", "target", "tport", "dnat", "masq", "seen", "out", "mark", "under"}
    /\ c.first.iif \in Link /\ c.first.src \in Addr /\ c.first.proto \in Transport
    /\ c.first.src \in IF c.first.iif \in Uplink THEN Outside ELSE Inside
    /\ c.target \in Addr /\ c.tport \in Port /\ FamilyOf[c.first.src] = FamilyOf[c.target]
    /\ c.dnat \in BOOLEAN /\ c.masq \in BOOLEAN
    /\ c.seen \in Addr /\ c.out \in Link /\ c.mark \in Nat /\ c.under \in Revision
    /\ c.dnat => c.seen \notin Inside
    /\ c.dnat /\ c.first.iif \in Uplink =>
         ReturnOf(c) \in Returns(Declared[c.under]) /\ c.mark = ReturnMark(Declared[c.under], ReturnOf(c))

IInv == HostKnown /\ (conn # None => Connected(conn))

\* A declared revision is well declared.
LEMMA Passed ==
    ASSUME NEW v \in Revision
    PROVE  /\ WellDeclared(Declared[v]) /\ PoliciesPassed(Declared[v]) /\ ForwardsPassed(Declared[v])
           /\ FiltersPassed(Declared[v]) /\ SourceNATsPassed(Declared[v]) /\ LinksPassed(Declared[v])
  BY DeclaredAssumption DEF WellDeclared

\* What the first packet of a connection became, and where it went.
LEMMA OpenedBy ==
    ASSUME HostKnown, NEW p \in FirstPackets, Sendable(p), NEW q \in Readdressed(p)
    PROVE  LET w == Translated(Walk(q, 0))
           IN /\ First1(p) /\ Plain(q) /\ q.iif = p.iif /\ q.src = p.src /\ q.proto = p.proto /\ q.sport = p.sport
              /\ q.dport \in Port /\ FamilyOf[q.dst] = FamilyOf[p.dst] /\ FamilyOf[q.src] = FamilyOf[q.dst]
              /\ "reply" \notin q.ct /\ (q.ct = {"new"} \/ q.ct = {"new", "dnat"})
              /\ "dnat" \in q.ct => \E f \in Declared[nft].forwards :
                                      Takes(Declared[nft], f, p) /\ q.dst = f.target /\ q.dport \in f.tports
              /\ w.mark = Marked(q, 0).conn /\ w.out = Route(q.dst, Marked(q, 0).packet)
              /\ w.out \in Link \cup {None}
              /\ w.packet.iif = q.iif /\ w.packet.src = q.src /\ w.packet.dst = q.dst /\ w.packet.proto = q.proto
              /\ w.packet.sport = q.sport /\ w.packet.dport = q.dport /\ w.packet.ct = q.ct /\ w.packet.oif = w.out
              /\ w.fate = "forwarded" => ~Local(q.dst) /\ w.out \in Link /\ Plain(w.packet)
              /\ SourceOf(w) # None
              /\ SourceOf(w) = IF w.fate = "forwarded" /\ Masqueraded(w.packet) THEN Own[w.out][FamilyOf[q.src]] ELSE q.src
<1> DEFINE d == Declared[nft]
           w0 == Walk(q, 0)
           w == Translated(w0)
<1>1. First1(p)
  BY FirstPacketIs
<1>2. LinksPassed(d) /\ ForwardsPassed(d) /\ chains = Render(d)
  BY Passed DEF HostKnown
<1>3. /\ Plain(q) /\ q.iif = p.iif /\ q.src = p.src /\ q.proto = p.proto /\ q.sport = p.sport
      /\ q = Packet(q.iif, q.src, q.dst, q.proto, q.sport, q.dport, q.ct)
      /\ q.dport \in Port /\ FamilyOf[q.dst] = FamilyOf[p.dst]
      /\ \/ q.ct = {"new"}
         \/ /\ q.ct = {"new", "dnat"}
            /\ \E f \in d.forwards : Takes(d, f, p) /\ q.dst = f.target /\ q.dport \in f.tports
  <2> HIDE DEF d
  <2> QED
    BY <1>1, <1>2, ReaddressedIs
<1>4. FamilyOf[q.src] = FamilyOf[q.dst]
  BY <1>1, <1>3 DEF First1
<1>5. /\ w0.mark = Marked(q, 0).conn /\ w0.out = Route(q.dst, Marked(q, 0).packet)
      /\ w0.packet = [q EXCEPT !.oif = w0.out]
      /\ w0.fate = "forwarded" => ~Local(q.dst) /\ w0.out # None
  BY WalkIs
<1>6. w0.out \in Link \cup {None}
  BY <1>3, <1>5, RouteIs DEF HostKnown, Plain
<1>7. /\ w0.packet.iif = q.iif /\ w0.packet.oif = w0.out /\ w0.packet.src = q.src /\ w0.packet.dst = q.dst
      /\ w0.packet.proto = q.proto /\ w0.packet.sport = q.sport /\ w0.packet.dport = q.dport /\ w0.packet.ct = q.ct
  <2>1. q = Packet(q.iif, q.src, q.dst, q.proto, q.sport, q.dport, q.ct)
    BY <1>3
  <2> DEFINE q1(out) == [q EXCEPT !.oif = out]
  <2>2. \A out : /\ q1(out).iif = q.iif /\ q1(out).oif = out /\ q1(out).src = q.src /\ q1(out).dst = q.dst
                 /\ q1(out).proto = q.proto /\ q1(out).sport = q.sport /\ q1(out).dport = q.dport /\ q1(out).ct = q.ct
    BY <2>1, PacketRouted
  <2>3. w0.packet = q1(w0.out)
    BY <1>5
  <2> HIDE DEF q1, w0
  <2> QED
    BY <2>2, <2>3
<1>8. /\ w.mark = w0.mark /\ w.out = w0.out /\ w.packet = w0.packet
      /\ w.fate = IF SourceOf(w0) = None THEN "unreachable" ELSE w0.fate
      /\ w.fate = "forwarded" => SourceOf(w) = SourceOf(w0) /\ SourceOf(w0) # None
  BY TranslatedIs
<1> HIDE DEF w0, w
<1>9. w.fate = "forwarded" => ~Local(q.dst) /\ w.out \in Link /\ Plain(w.packet)
  <2>1. w.fate = "forwarded" => ~Local(q.dst) /\ w.out \in Link
    BY <1>5, <1>6, <1>8
  <2> QED
    BY <1>3, <1>7, <1>8, <2>1 DEF Plain
<1>10. SourceOf(w) = IF w.fate = "forwarded" /\ Masqueraded(w.packet) THEN Own[w.out][FamilyOf[q.src]] ELSE q.src
  BY <1>7, <1>8 DEF SourceOf
<1>11. SourceOf(w) # None
  <2>1. q.src # None
    BY <1>3, HostAssumption DEF Plain
  <2>2. w.fate # "forwarded" => SourceOf(w) = q.src
    BY <1>10
  <2> QED
    BY <1>8, <2>1, <2>2
<1>12. "reply" \notin q.ct /\ (q.ct = {"new"} \/ q.ct = {"new", "dnat"})
  BY <1>3
<1>13. "dnat" \in q.ct => \E f \in d.forwards : Takes(d, f, p) /\ q.dst = f.target /\ q.dport \in f.tports
  BY <1>3
<1> HIDE DEF d
<1>14. /\ w.mark = Marked(q, 0).conn /\ w.out = Route(q.dst, Marked(q, 0).packet) /\ w.out \in Link \cup {None}
       /\ w.packet.iif = q.iif /\ w.packet.src = q.src /\ w.packet.dst = q.dst /\ w.packet.proto = q.proto
       /\ w.packet.sport = q.sport /\ w.packet.dport = q.dport /\ w.packet.ct = q.ct /\ w.packet.oif = w.out
  BY <1>5, <1>6, <1>7, <1>8
<1> QED
  BY <1>1, <1>3, <1>4, <1>9, <1>10, <1>11, <1>12, <1>13, <1>14 DEF w, w0, d

\* What the kernel keeps of a connection that was opened.
Opening(p, w) ==
    [first |-> p, target |-> w.packet.dst, tport |-> w.packet.dport,
     dnat |-> "dnat" \in w.packet.ct, masq |-> SourceOf(w) # p.src, seen |-> SourceOf(w),
     out |-> w.out, mark |-> w.mark, under |-> nft]

\* No host inside is seen by the target of a forward as itself: what came from inside was
\* translated on its way back in.
LEMMA HairpinnedUnseen ==
    ASSUME HostKnown, NEW p \in FirstPackets, Sendable(p), NEW q \in Readdressed(p),
           Translated(Walk(q, 0)).fate = "forwarded", "dnat" \in q.ct
    PROVE  SourceOf(Translated(Walk(q, 0))) \notin Inside
<1> DEFINE d == Declared[nft]
           w == Translated(Walk(q, 0))
<1>1. /\ First1(p) /\ Plain(q) /\ q.iif = p.iif /\ q.src = p.src /\ FamilyOf[q.src] = FamilyOf[q.dst] /\ q.proto = p.proto
      /\ \E f \in d.forwards : Takes(d, f, p) /\ q.dst = f.target /\ q.dport \in f.tports
      /\ w.packet.iif = q.iif /\ w.packet.src = q.src /\ w.packet.dst = q.dst /\ w.packet.proto = q.proto
      /\ w.packet.dport = q.dport /\ w.packet.ct = q.ct /\ w.out \in Link /\ Plain(w.packet)
      /\ SourceOf(w) # None
      /\ SourceOf(w) = IF Masqueraded(w.packet) THEN Own[w.out][FamilyOf[q.src]] ELSE q.src
  BY OpenedBy
<1>2. LinksPassed(d) /\ ForwardsPassed(d) /\ SourceNATsPassed(d) /\ chains = Render(d)
  BY Passed DEF HostKnown
<1>0. SUFFICES SourceOf(w) \notin Inside
  OBVIOUS
<1> HIDE DEF w, d
<1>3. FamilyOf[q.src] \in Family
  BY <1>1 DEF Plain
<1>4. CASE Masqueraded(w.packet)
  BY <1>1, <1>3, <1>4, HostAssumption
<1>5. CASE ~Masqueraded(w.packet)
  <2>1. SUFFICES p.iif \in Uplink
    <3>1. p.iif \in Uplink => q.src \in Outside
      BY <1>1 DEF First1
    <3> QED
      BY <1>1, <1>5, <3>1 DEF Outside
  <2>2. PICK f \in d.forwards : Takes(d, f, p) /\ q.dst = f.target /\ q.dport \in f.tports
    BY <1>1
  <2>3. SUFFICES ASSUME p.iif \notin Uplink PROVE FALSE
    OBVIOUS
  <2>4. p.iif # f.egress
    BY <1>2, <2>3 DEF ForwardsPassed, LinksPassed
  <2>5. Hairpinned(f, w.packet)
    BY <1>1, <2>2, <2>4 DEF Takes, Hairpinned
  <2>6. FamilyOf[w.packet.src] = FamilyOf[w.packet.dst]
    BY <1>1
  <2> QED
    BY <1>1, <1>2, <1>5, <2>5, <2>6, MasqueradedIs
<1> QED
  BY <1>4, <1>5

\* A connection that was opened has all that Connected says.
LEMMA OpenConnects ==
    ASSUME HostKnown, NEW p \in FirstPackets, Sendable(p), NEW q \in Readdressed(p),
           Translated(Walk(q, 0)).fate = "forwarded"
    PROVE  Connected(Opening(p, Translated(Walk(q, 0))))
<1> DEFINE d == Declared[nft]
           w == Translated(Walk(q, 0))
           c == Opening(p, w)
           r == ReturnOf(c)
<1>1. /\ First1(p) /\ Plain(q) /\ q.iif = p.iif /\ q.src = p.src /\ FamilyOf[q.src] = FamilyOf[q.dst]
      /\ q.ct = {"new"} \/ q.ct = {"new", "dnat"}
      /\ "dnat" \in q.ct => \E f \in d.forwards : Takes(d, f, p) /\ q.dst = f.target /\ q.dport \in f.tports
      /\ w.mark = Marked(q, 0).conn /\ w.out \in Link /\ q.dport \in Port
      /\ w.packet.src = q.src /\ w.packet.dst = q.dst /\ w.packet.dport = q.dport /\ w.packet.ct = q.ct
      /\ SourceOf(w) # None
      /\ SourceOf(w) = Own[w.out][FamilyOf[q.src]] \/ SourceOf(w) = q.src
  BY OpenedBy
<1>2. PoliciesPassed(d) /\ LinksPassed(d) /\ ForwardsPassed(d) /\ chains = Render(d) /\ nft \in Revision
  BY Passed DEF HostKnown
<1>3. "dnat" \in q.ct => SourceOf(w) \notin Inside
  BY HairpinnedUnseen
<1> HIDE DEF w, d
<1>4. w.mark \in Nat
  <2>1. w.mark = 0 \/ \E s \in Returns(d) : w.mark = ReturnMark(d, s)
    BY <1>1, <1>2, OneSaves
  <2> QED
    BY <1>2, <2>1, ReturnMarksApart
<1>5. SourceOf(w) \in Addr
  <2>1. FamilyOf[q.src] \in Family /\ q.src \in Addr
    BY <1>1 DEF Plain
  <2>2. Own[w.out][FamilyOf[q.src]] \in Addr \cup {None}
    BY <1>1, <2>1, HostAssumption
  <2> QED
    BY <1>1, <2>1, <2>2
<1>6. /\ c.first = p /\ c.target = q.dst /\ c.tport = q.dport /\ (c.dnat <=> "dnat" \in q.ct)
      /\ c.dnat \in BOOLEAN /\ c.masq \in BOOLEAN /\ c.seen = SourceOf(w) /\ c.out = w.out /\ c.mark = w.mark /\ c.under = nft
      /\ DOMAIN c = {"first", "target", "tport", "dnat", "masq", "seen", "out", "mark", "under"}
  <2>1. /\ c.first = p /\ c.target = w.packet.dst /\ c.tport = w.packet.dport
        /\ c.seen = SourceOf(w) /\ c.out = w.out /\ c.mark = w.mark /\ c.under = nft
        /\ DOMAIN c = {"first", "target", "tport", "dnat", "masq", "seen", "out", "mark", "under"}
    BY DEF Opening
  <2>2. c.dnat = ("dnat" \in w.packet.ct) /\ c.masq = (SourceOf(w) # p.src)
    BY Zenon DEF Opening
  <2>3. c.dnat \in BOOLEAN /\ c.masq \in BOOLEAN
    <3>1. ("dnat" \in w.packet.ct) \in BOOLEAN /\ (SourceOf(w) # p.src) \in BOOLEAN
      OBVIOUS
    <3> QED
      BY <2>2, <3>1, Zenon
  <2>4. c.dnat <=> "dnat" \in w.packet.ct
    BY <2>2, Zenon
  <2> QED
    BY <1>1, <2>1, <2>3, <2>4, Zenon
<1> HIDE DEF c
<1>7. /\ p.iif \in Link /\ p.src \in Addr /\ p.proto \in Transport /\ p.src \in IF p.iif \in Uplink THEN Outside ELSE Inside
      /\ q.dst \in Addr /\ FamilyOf[p.src] = FamilyOf[q.dst]
  BY <1>1 DEF First1, Plain
<1>8. ASSUME "dnat" \in q.ct, p.iif \in Uplink PROVE r \in Returns(d) /\ w.mark = ReturnMark(d, r)
  <2>1. PICK f \in d.forwards : Takes(d, f, p) /\ q.dst = f.target /\ q.dport \in f.tports
    BY <1>1, <1>8
  <2>2. p.iif = f.egress
    BY <1>1, <1>2, <1>8, <2>1, ArrivesOnItsOwn
  <2>3. FamilyOf[q.dst] = f.family
    BY <1>2, <2>1 DEF ForwardsPassed
  <2>4. r = [uplink |-> f.egress, family |-> f.family]
    BY <1>6, <2>2, <2>3 DEF ReturnOf
  <2>5. r \in Returns(d)
    BY <2>4 DEF Returns
  <2>6. r.uplink = q.iif /\ r.family = FamilyOf[q.dst]
    BY <1>1, <2>2, <2>3, <2>4
  <2>7. {"new", "dnat"} \subseteq q.ct /\ "reply" \notin q.ct
    BY <1>1, <1>8
  <2> HIDE DEF r
  <2>8. Marked(q, 0).conn = ReturnMark(d, r)
    BY <1>1, <1>2, <2>5, <2>6, <2>7, ArrivedSaved
  <2> QED
    BY <1>1, <2>5, <2>8
<1>9. c.dnat => c.seen \notin Inside
  BY <1>3, <1>6
<1>10. c.dnat /\ c.first.iif \in Uplink => ReturnOf(c) \in Returns(Declared[c.under]) /\ c.mark = ReturnMark(Declared[c.under], ReturnOf(c))
  BY <1>6, <1>8 DEF d
<1>11. Connected(c)
  BY <1>1, <1>2, <1>4, <1>5, <1>6, <1>7, <1>9, <1>10 DEF Connected
<1> QED
  BY <1>11 DEF c, w

\* The packets of an open connection.
MorePacket == Packet(conn.first.iif, conn.first.src, conn.target, conn.first.proto, ClientPort, conn.tport, Tracked({}))

AnswerLink == IF conn.target \in Inside THEN LinkTo[conn.target] ELSE conn.out
AnswerPacket == Packet(AnswerLink, conn.target, conn.first.src, conn.first.proto, conn.tport, ClientPort, Tracked({"reply"}))

\* What they look like.
LEMMA LaterPackets ==
    ASSUME conn # None, Connected(conn)
    PROVE  /\ Plain(MorePacket) /\ "new" \notin MorePacket.ct /\ "reply" \notin MorePacket.ct
           /\ Plain(AnswerPacket) /\ "new" \notin AnswerPacket.ct /\ "reply" \in AnswerPacket.ct
           /\ conn.mark # 0 => "marked" \in AnswerPacket.ct
           /\ conn.dnat => "dnat" \in AnswerPacket.ct
           /\ MorePacket.dst = conn.target /\ MorePacket.iif = conn.first.iif
           /\ AnswerPacket.src = conn.target /\ AnswerPacket.dst = conn.first.src /\ AnswerPacket.proto = conn.first.proto
           /\ AnswerPacket.sport = conn.tport /\ AnswerPacket.iif = AnswerLink
<1> DEFINE more == Tracked({})
           reply == Tracked({"reply"})
<1>1. "new" \notin more /\ "reply" \notin more /\ "new" \notin reply /\ "reply" \in reply
  BY DEF Tracked
<1>2. (conn.mark # 0 => "marked" \in reply) /\ (conn.dnat => "dnat" \in reply)
  BY DEF Tracked
<1>3. AnswerLink \in Link
  BY HostAssumption DEF AnswerLink, Connected
<1>4. /\ conn.first.iif \in Link /\ conn.first.src \in Addr /\ conn.first.proto \in Proto /\ conn.target \in Addr
      /\ conn.tport \in Port /\ ClientPort \in Port /\ FamilyOf[conn.target] \in Family /\ FamilyOf[conn.first.src] \in Family
  BY HostAssumption DEF Connected
<1> HIDE DEF more, reply
<1>5. /\ MorePacket.ct = more /\ MorePacket.dst = conn.target /\ MorePacket.iif = conn.first.iif /\ Plain(MorePacket)
  BY <1>4 DEF MorePacket, Packet, Plain, more
<1>6. /\ AnswerPacket.ct = reply /\ AnswerPacket.src = conn.target /\ AnswerPacket.dst = conn.first.src
      /\ AnswerPacket.proto = conn.first.proto /\ AnswerPacket.sport = conn.tport /\ AnswerPacket.iif = AnswerLink
      /\ Plain(AnswerPacket)
  BY <1>3, <1>4 DEF AnswerPacket, Packet, Plain, reply
<1> QED
  BY <1>1, <1>2, <1>5, <1>6

\* What the walk of such a packet leaves: the connection as it was, and the last packet.
LEMMA DeliveredIs ==
    ASSUME IInv, conn # None, NEW dir, NEW p, p = Packet(p.iif, p.src, p.dst, p.proto, p.sport, p.dport, p.ct),
           Plain(p), "new" \notin p.ct, Delivered(dir, p)
    PROVE  /\ DOMAIN conn' = DOMAIN conn
           /\ conn'.first = conn.first /\ conn'.target = conn.target /\ conn'.tport = conn.tport /\ conn'.dnat = conn.dnat
           /\ conn'.masq = conn.masq /\ conn'.seen = conn.seen /\ conn'.out = conn.out /\ conn'.mark = conn.mark
           /\ conn'.under = conn.under
           /\ sent'.dir = dir /\ sent'.out = Route(p.dst, Marked(p, conn.mark).packet)
           /\ sent'.out \in Link \cup {None}
           /\ sent'.fate \in {"forwarded", "local", "dropped", "unreachable"}
           /\ ~Local(p.dst) /\ sent'.out # None /\ sent'.fate # "forwarded" =>
                ~Filtered(chains.forward, [p EXCEPT !.oif = sent'.out])
<1> DEFINE w == Walk(p, conn.mark)
           d == Declared[nft]
<1>1. /\ sent' = [dir |-> dir, fate |-> w.fate, out |-> w.out, packet |-> w.packet, src |-> p.src]
      /\ conn' = [conn EXCEPT !.mark = w.mark]
  BY DEF Delivered
<1>2. LinksPassed(d) /\ ForwardsPassed(d) /\ chains = Render(d)
  BY Passed DEF IInv, HostKnown
<1>3. w.mark = Marked(p, conn.mark).conn /\ w.out = Route(p.dst, Marked(p, conn.mark).packet)
  BY DEF Walk
<1>4. w.mark = conn.mark
  <2> HIDE DEF w, d
  <2> QED
    BY <1>2, <1>3, MarkKept
<1>5. DOMAIN conn = {"first", "target", "tport", "dnat", "masq", "seen", "out", "mark", "under"}
  BY DEF IInv, Connected
<1>6. w.out \in Link \cup {None}
  BY <1>3, RouteIs DEF IInv, HostKnown, Plain
<1>7. /\ w.fate \in {"forwarded", "local", "dropped", "unreachable"}
      /\ ~Local(p.dst) /\ w.out # None /\ w.fate # "forwarded" => ~Filtered(chains.forward, [p EXCEPT !.oif = w.out])
  BY WalkIs
<1> HIDE DEF w
<1>8. sent'.dir = dir /\ sent'.out = w.out /\ sent'.fate = w.fate
  BY <1>1
<1>9. /\ DOMAIN conn' = DOMAIN conn
      /\ conn'.first = conn.first /\ conn'.target = conn.target /\ conn'.tport = conn.tport /\ conn'.dnat = conn.dnat
      /\ conn'.masq = conn.masq /\ conn'.seen = conn.seen /\ conn'.out = conn.out /\ conn'.mark = conn.mark
      /\ conn'.under = conn.under
  BY <1>1, <1>4, <1>5
<1> QED
  BY <1>3, <1>6, <1>7, <1>8, <1>9

\* A connection with the same parts is as connected.
LEMMA Remarked ==
    ASSUME NEW b, NEW c, Connected(c), DOMAIN b = DOMAIN c, b.first = c.first, b.target = c.target, b.tport = c.tport,
           b.dnat = c.dnat, b.masq = c.masq, b.seen = c.seen, b.out = c.out, b.mark = c.mark, b.under = c.under
    PROVE  Connected(b)
<1>1. ReturnOf(b) = ReturnOf(c)
  BY DEF ReturnOf
<1> QED
  BY <1>1 DEF Connected

\* A later packet leaves the connection as connected as it was.
LEMMA ConnectedStays ==
    ASSUME IInv, NEW dir, NEW p, p = Packet(p.iif, p.src, p.dst, p.proto, p.sport, p.dport, p.ct),
           Plain(p), "new" \notin p.ct, conn # None, Delivered(dir, p)
    PROVE  Connected(conn')
  BY DeliveredIs, Remarked DEF IInv

\* A new connection's first packet.
LEMMA Opens ==
    ASSUME IInv, Open
    PROVE  \E p \in FirstPackets : Sendable(p) /\ \E q \in Readdressed(p) :
             LET w == Translated(Walk(q, 0))
             IN /\ conn' = IF w.fate = "forwarded" THEN Opening(p, w) ELSE None
                /\ sent'.dir = "first" /\ sent'.fate = w.fate /\ sent'.out = w.out
                /\ sent'.packet = w.packet /\ sent'.src = SourceOf(w)
<1> DEFINE Becomes(w) == [dir |-> "first", fate |-> w.fate, out |-> w.out, packet |-> w.packet, src |-> SourceOf(w)]
<1>1. PICK p \in FirstPackets : Sendable(p) /\ \E w \in {Translated(Walk(q, 0)) : q \in Readdressed(p)} :
        sent' = Becomes(w) /\ conn' = IF w.fate = "forwarded" THEN Opening(p, w) ELSE None
  BY Zenon DEF Open, Kept, Opening
<1>2. PICK q \in Readdressed(p) :
        /\ sent' = Becomes(Translated(Walk(q, 0)))
        /\ conn' = IF Translated(Walk(q, 0)).fate = "forwarded" THEN Opening(p, Translated(Walk(q, 0))) ELSE None
  BY <1>1
<1> DEFINE w == Translated(Walk(q, 0))
<1>3. /\ sent'.dir = "first" /\ sent'.fate = w.fate /\ sent'.out = w.out
      /\ sent'.packet = w.packet /\ sent'.src = SourceOf(w)
  <2> HIDE DEF w
  <2> QED
    BY <1>2 DEF w
<1> QED
  BY <1>1, <1>2, <1>3

\* Nothing that happens to the host or to the connection breaks IInv: the mark of a connection a
\* forward let in stays what its declaration numbered it.
THEOREM Invariant ==
    Spec => []IInv
<1>1. Init => IInv
  BY DEF Init, IInv, HostKnown
<1>2. IInv /\ [Next]_vars => IInv'
  <2> SUFFICES ASSUME IInv, [Next]_vars PROVE IInv'
    OBVIOUS
  <2>1. CASE Open
    <3>1. HostKnown'
      BY <2>1 DEF Open, IInv, HostKnown, host
    <3>2. \E p \in FirstPackets : Sendable(p) /\ \E q \in Readdressed(p) :
            conn' = IF Translated(Walk(q, 0)).fate = "forwarded" THEN Opening(p, Translated(Walk(q, 0))) ELSE None
      BY <2>1, Opens
    <3>3. conn' # None => Connected(conn')
      BY <3>2, OpenConnects DEF IInv
    <3> QED
      BY <3>1, <3>3 DEF IInv
  <2>2. CASE Stray
    BY <2>2 DEF Stray, IInv, HostKnown, host
  <2>3. CASE More
    <3>1. HostKnown'
      BY <2>3 DEF More, Delivered, IInv, HostKnown, host
    <3>2. conn # None /\ Delivered("more", MorePacket)
      BY <2>3 DEF More, MorePacket
    <3>3. Plain(MorePacket) /\ "new" \notin MorePacket.ct
      BY <3>2, LaterPackets DEF IInv
    <3>4. MorePacket = Packet(MorePacket.iif, MorePacket.src, MorePacket.dst, MorePacket.proto,
                              MorePacket.sport, MorePacket.dport, MorePacket.ct)
      BY DEF MorePacket, Packet
    <3>5. Connected(conn')
      BY <3>2, <3>3, <3>4, ConnectedStays
    <3> QED
      BY <3>1, <3>5 DEF IInv
  <2>4. CASE Answer
    <3>1. HostKnown' /\ conn # None
      BY <2>4 DEF Answer, Delivered, IInv, HostKnown, host
    <3>2. conn' = conn \/ Delivered("reply", AnswerPacket)
      BY <2>4 DEF Answer, AnswerPacket, AnswerLink
    <3>3. Plain(AnswerPacket) /\ "new" \notin AnswerPacket.ct
      BY <3>1, LaterPackets DEF IInv
    <3>4. AnswerPacket = Packet(AnswerPacket.iif, AnswerPacket.src, AnswerPacket.dst, AnswerPacket.proto,
                                AnswerPacket.sport, AnswerPacket.dport, AnswerPacket.ct)
      BY DEF AnswerPacket, Packet
    <3>5. Connected(conn')
      BY <3>1, <3>2, <3>3, <3>4, ConnectedStays DEF IInv
    <3> QED
      BY <3>1, <3>5 DEF IInv
  <2>5. CASE Close
    BY <2>5 DEF Close, IInv, HostKnown, host
  <2>6. CASE LineUp
    BY <2>6 DEF LineUp, IInv, HostKnown, host
  <2>7. CASE LineDown
    BY <2>7 DEF LineDown, IInv, HostKnown, host
  <2>8. CASE InstallRuleset
    BY <2>8 DEF InstallRuleset, IInv, HostKnown
  <2>9. CASE ReloadNetworkd
    BY <2>9 DEF ReloadNetworkd, IInv, HostKnown
  <2>10. CASE UNCHANGED vars
    BY <2>10 DEF vars, host, IInv, HostKnown
  <2> QED
    BY <2>1, <2>2, <2>3, <2>4, <2>5, <2>6, <2>7, <2>8, <2>9, <2>10 DEF Next
<1> QED
  BY <1>1, <1>2, PTL DEF Spec
-----------------------------------------------------------------------------
(***************************************************************************)
(* The properties.                                                         *)
(***************************************************************************)
\* Every rule of the chains has the parts of a rule.
LEMMA ChainsTyped ==
    ASSUME NEW d
    PROVE  Chain(MarkChain(d)) /\ Chain(ForwardChain(d))
<1>1. Chain(MarkChain(d))
  <2>1. DOMAIN RestoreRule = DOMAIN Everything
    BY DEF RestoreRule, Everything
  <2>2. \A r \in Returns(d) : DOMAIN SaveRule(d, r) = DOMAIN Everything
    BY DEF SaveRule, Everything
  <2>3. \A q \in d.egress : \A way \in SourceAlternatives(q) : DOMAIN MarkRule(d, q, way) = DOMAIN Everything
    BY DEF MarkRule, Everything
  <2> QED
    BY <2>1, <2>2, <2>3, MarkChainIs DEF Chain
<1>2. Chain(ForwardChain(d))
  <2>1. ASSUME NEW f \in d.forwards, NEW h \in ForwardOpening(f) PROVE DOMAIN h = DOMAIN Everything
    BY DEF ForwardOpening, Everything
  <2>2. ASSUME NEW p \in d.policies PROVE DOMAIN Jump(d, p) = DOMAIN Everything
    BY DEF Jump, Everything
  <2> QED
    BY <2>1, <2>2 DEF ForwardChain, Chain
<1> QED
  BY <1>1, <1>2

\* What each step leaves in sent.
LEMMA AnswerIs ==
    ASSUME IInv, Answer
    PROVE  /\ conn # None /\ Connected(conn) /\ UNCHANGED <<host, up>>
           /\ AnswerLink \in Uplink => AnswerLink \in up
           /\ \/ /\ conn.seen \in Inside /\ conn.target \in Inside /\ LinkTo[conn.seen] = AnswerLink
                 /\ sent'.dir = "reply" /\ sent'.fate = "bypassed" /\ conn' = conn
              \/ Delivered("reply", AnswerPacket)
           /\ AnswerPacket = Packet(AnswerPacket.iif, AnswerPacket.src, AnswerPacket.dst, AnswerPacket.proto,
                                    AnswerPacket.sport, AnswerPacket.dport, AnswerPacket.ct)
<1>1. conn # None /\ (AnswerLink \in Uplink => AnswerLink \in up)
  BY DEF Answer, AnswerLink
<1>2. UNCHANGED <<host, up>>
  BY DEF Answer, Delivered
<1>3. \/ /\ conn.seen \in Inside /\ conn.target \in Inside /\ LinkTo[conn.seen] = AnswerLink
         /\ sent'.dir = "reply" /\ sent'.fate = "bypassed" /\ conn' = conn
      \/ Delivered("reply", AnswerPacket)
  BY DEF Answer, AnswerPacket, AnswerLink
<1>4. AnswerPacket = Packet(AnswerPacket.iif, AnswerPacket.src, AnswerPacket.dst, AnswerPacket.proto,
                            AnswerPacket.sport, AnswerPacket.dport, AnswerPacket.ct)
  BY DEF AnswerPacket, Packet
<1> QED
  BY <1>1, <1>2, <1>3, <1>4 DEF IInv

\* A later packet of the client.
LEMMA MoreIs ==
    ASSUME IInv, More
    PROVE  /\ conn # None /\ Connected(conn) /\ UNCHANGED <<host, up>> /\ Delivered("more", MorePacket)
           /\ MorePacket = Packet(MorePacket.iif, MorePacket.src, MorePacket.dst, MorePacket.proto,
                                  MorePacket.sport, MorePacket.dport, MorePacket.ct)
<1>1. conn # None /\ UNCHANGED <<host, up>> /\ Delivered("more", MorePacket)
  BY DEF More, MorePacket, Delivered
<1>2. MorePacket = Packet(MorePacket.iif, MorePacket.src, MorePacket.dst, MorePacket.proto,
                          MorePacket.sport, MorePacket.dport, MorePacket.ct)
  BY DEF MorePacket, Packet
<1> QED
  BY <1>1, <1>2 DEF IInv

\* A packet that belongs to no connection.
LEMMA StrayIs ==
    ASSUME Stray
    PROVE  /\ UNCHANGED <<host, up, conn>> /\ conn = None
           /\ \E p \in FirstPackets : /\ Sendable(p)
                                      /\ LET w == Walk([p EXCEPT !.ct = {"invalid"}], 0)
                                         IN /\ sent'.dir = "stray" /\ sent'.fate = w.fate /\ sent'.out = w.out
                                            /\ sent'.packet = w.packet /\ sent'.src = p.src
<1> DEFINE Becomes(p, w) == [dir |-> "stray", fate |-> w.fate, out |-> w.out, packet |-> w.packet, src |-> p.src]
           Walked(p) == Walk([p EXCEPT !.ct = {"invalid"}], 0)
<1>1. PICK p \in FirstPackets : Sendable(p) /\ sent' = Becomes(p, Walked(p))
  BY DEF Stray
<1>2. LET w == Walked(p)
      IN /\ sent'.dir = "stray" /\ sent'.fate = w.fate /\ sent'.out = w.out
         /\ sent'.packet = w.packet /\ sent'.src = p.src
  <2> HIDE DEF Walked
  <2> QED
    BY <1>1
<1> QED
  BY <1>1, <1>2 DEF Stray

\* Any other step leaves no packet.
LEMMA NothingSent ==
    ASSUME Close \/ LineUp \/ LineDown \/ InstallRuleset \/ ReloadNetworkd
    PROVE  sent' = None
  BY DEF Close, LineUp, LineDown, InstallRuleset, ReloadNetworkd

\* The directions and fates there are.
SentTyped ==
    sent # None =>
      /\ sent.dir \in {"first", "more", "reply", "stray"}
      /\ sent.fate \in {"forwarded", "local", "dropped", "unreachable", "bypassed"}

\* A walk ends in one of these.
LEMMA WalkFates ==
    ASSUME NEW p, NEW mark
    PROVE  /\ Walk(p, mark).fate \in {"forwarded", "local", "dropped", "unreachable"}
           /\ Translated(Walk(p, mark)).fate \in {"forwarded", "local", "dropped", "unreachable"}
<1>1. Walk(p, mark).fate \in {"forwarded", "local", "dropped", "unreachable"}
  BY DEF Walk
<1>2. Translated(Walk(p, mark)).fate \in {"unreachable", Walk(p, mark).fate}
  BY TranslatedIs
<1> QED
  BY <1>1, <1>2

\* The last packet went one of the ways there are.
LEMMA SentStaysTyped ==
    ASSUME IInv, SentTyped, [Next]_vars
    PROVE  SentTyped'
<1>1. CASE Open
  BY <1>1, Opens, WalkFates DEF SentTyped
<1>2. CASE Stray
  BY <1>2, StrayIs, WalkFates DEF SentTyped
<1>3. CASE More
  BY <1>3, MoreIs, LaterPackets, DeliveredIs DEF SentTyped
<1>4. CASE Answer
  BY <1>4, AnswerIs, LaterPackets, DeliveredIs DEF SentTyped
<1>5. CASE Close \/ LineUp \/ LineDown \/ InstallRuleset \/ ReloadNetworkd
  BY <1>5, NothingSent DEF SentTyped
<1>6. CASE UNCHANGED vars
  BY <1>6 DEF vars, SentTyped
<1> QED
  BY <1>1, <1>2, <1>3, <1>4, <1>5, <1>6 DEF Next

\* The tables, the files, the connection and the last packet are always those of declared revisions
\* and well typed.
THEOREM Typed ==
    Spec => []TypeOK
<1>1. Init => SentTyped
  BY DEF Init, SentTyped
<1>2. IInv /\ SentTyped /\ [Next]_vars => SentTyped'
  BY SentStaysTyped
<1>3. IInv /\ SentTyped => TypeOK
  <2> SUFFICES ASSUME IInv, SentTyped PROVE TypeOK
    OBVIOUS
  <2>1. Chain(chains.mark) /\ Chain(chains.forward)
    BY ChainsTyped DEF IInv, HostKnown, Render
  <2> QED
    BY <2>1 DEF TypeOK, IInv, HostKnown, Connected, SentTyped
<1> QED
  BY <1>1, <1>2, <1>3, Invariant, PTL DEF Spec

\* The answer that passes the router, and what the connection is afterwards.
LEMMA Answered ==
    ASSUME IInv, Answer, sent'.fate # "bypassed"
    PROVE  /\ conn # None /\ Connected(conn) /\ nft' = nft /\ net' = net /\ up' = up /\ chains' = chains
           /\ conn'.first = conn.first /\ conn'.target = conn.target /\ conn'.tport = conn.tport /\ conn'.dnat = conn.dnat
           /\ conn'.under = conn.under /\ conn'.mark = conn.mark /\ conn'.seen = conn.seen
           /\ Plain(AnswerPacket) /\ sent'.out = Route(AnswerPacket.dst, Marked(AnswerPacket, conn.mark).packet)
<1>1. conn # None /\ Connected(conn) /\ nft' = nft /\ net' = net /\ up' = up /\ chains' = chains /\ Delivered("reply", AnswerPacket)
  BY AnswerIs DEF host
<1>2. Plain(AnswerPacket) /\ "new" \notin AnswerPacket.ct
  BY <1>1, LaterPackets
<1> QED
  BY <1>1, <1>2, AnswerIs, DeliveredIs

\* forwardReturnRules: the mark the connection keeps leads its reply back to the uplink it
\* came by.
LEMMA ArrivedRouted ==
    ASSUME IInv, Answer, sent'.fate # "bypassed", Arrived, Settled, conn.first.iif \in up
    PROVE  sent'.out = conn.first.iif
<1> DEFINE d == Declared[nft]
           r == ReturnOf(conn)
<1>1. Connected(conn) /\ conn # None /\ conn.under = nft /\ nft = net /\ conn.dnat /\ conn.first.iif \in Uplink
  BY DEF Arrived, Settled, IInv
<1>2. r \in Returns(d) /\ conn.mark = ReturnMark(d, r)
  BY <1>1 DEF Connected
<1>3. WellDeclared(d) /\ PoliciesPassed(d) /\ LinksPassed(d) /\ ForwardsPassed(d) /\ chains = Render(d) /\ routing = RoutingRules(d)
  BY <1>1, Passed DEF IInv, HostKnown
<1>4. r.uplink = conn.first.iif /\ r.family = FamilyOf[conn.first.src]
  BY <1>1 DEF ReturnOf, Connected
<1>5. Plain(AnswerPacket) /\ sent'.out = Route(AnswerPacket.dst, Marked(AnswerPacket, conn.mark).packet)
  BY Answered
<1>6. "reply" \in AnswerPacket.ct /\ AnswerPacket.dst = conn.first.src /\ (conn.mark # 0 => "marked" \in AnswerPacket.ct)
  BY <1>1, LaterPackets
<1> HIDE DEF d, r
<1>7. conn.mark # 0
  BY <1>2, <1>3, ReturnMarksApart
<1>8. Marked(AnswerPacket, conn.mark).packet = conn.mark
  BY <1>2, <1>3, <1>5, <1>6, <1>7, ReplyMarked
<1>9. Route(conn.first.src, ReturnMark(d, r)) = r.uplink
  BY <1>2, <1>3, <1>4, ReturnRouted
<1> QED
  BY <1>2, <1>4, <1>5, <1>6, <1>8, <1>9

\* Every step keeps ReplyLeavesByArrival: only an answer can say anything of it.
LEMMA ReplyStep ==
    ASSUME IInv, ReplyLeavesByArrival, [Next]_vars
    PROVE  ReplyLeavesByArrival'
<1>1. CASE Open
  BY <1>1, Opens DEF ReplyLeavesByArrival
<1>2. CASE Stray
  BY <1>2, StrayIs DEF ReplyLeavesByArrival
<1>3. CASE More
  <2>1. sent'.dir = "more"
    BY <1>3, MoreIs, LaterPackets, DeliveredIs
  <2> QED
    BY <2>1 DEF ReplyLeavesByArrival
<1>4. CASE Answer
  <2> SUFFICES ASSUME sent'.fate = "forwarded", Arrived', Settled', conn'.first.iif \in up' PROVE sent'.out = conn'.first.iif
    BY DEF ReplyLeavesByArrival
  <2>1. /\ conn # None /\ nft' = nft /\ net' = net /\ up' = up /\ conn'.first = conn.first
        /\ conn'.under = conn.under /\ conn'.dnat = conn.dnat
    BY <1>4, Answered
  <2>2. Arrived /\ Settled /\ conn.first.iif \in up
    <3>1. conn.under = nft /\ nft = net /\ conn.first.iif \in Uplink /\ conn.first.iif \in up
      BY <2>1 DEF Arrived, Settled
    <3>2. conn.dnat
      BY <2>1, Zenon DEF Arrived
    <3> QED
      BY <2>1, <3>1, <3>2, Zenon DEF Arrived, Settled
  <2> QED
    BY <1>4, <2>1, <2>2, ArrivedRouted
<1>5. CASE Close \/ LineUp \/ LineDown \/ InstallRuleset \/ ReloadNetworkd
  BY <1>5, NothingSent DEF ReplyLeavesByArrival
<1>6. CASE UNCHANGED vars
  BY <1>6 DEF vars, host, ReplyLeavesByArrival, Arrived, Settled
<1> QED
  BY <1>1, <1>2, <1>3, <1>4, <1>5, <1>6 DEF Next

\* ADR 0020: the reply to a connection a forward let in leaves by the uplink it arrived on.
THEOREM ReplyByArrival ==
    Spec => []ReplyLeavesByArrival
<1>1. Init => ReplyLeavesByArrival
  BY DEF Init, ReplyLeavesByArrival
<1>2. IInv /\ ReplyLeavesByArrival /\ [Next]_vars => ReplyLeavesByArrival'
  BY ReplyStep
<1> QED
  BY <1>1, <1>2, Invariant, PTL DEF Spec

\* renderMarkChain: the rules that put a mark on a packet that is no reply are those of the
\* policies that cover it.
Marking(d, q) == {h \in Hits(chains.mark, q, Held) : h.do[1] \in {"restore", "mark"}}

\* They mark what a policy covers, at the place of the policy and with its mark.
LEMMA CoveredMarked ==
    ASSUME NEW d, PoliciesPassed(d), LinksPassed(d), ForwardsPassed(d), chains = Render(d),
           NEW q, Plain(q), FamilyOf[q.src] = FamilyOf[q.dst], "reply" \notin q.ct
    PROVE  /\ \A h \in Marking(d, q) : \E p \in d.egress : /\ Covers(d, p, q) /\ h.do[1] = "mark"
                                                        /\ h.at = PolicyPlace(p) /\ h.do[2] = PolicyMark(d, p)
           /\ \A p \in d.egress : Covers(d, p, q) =>
                \E h \in Marking(d, q) : h.do[1] = "mark" /\ h.at = PolicyPlace(p) /\ h.do[2] = PolicyMark(d, p)
<1>1. chains.mark = MarkChain(d)
  BY DEF Render
<1>2. ASSUME NEW p \in d.egress
      PROVE  Covers(d, p, q) <=> \E way \in SourceAlternatives(p) : Matches(MarkRule(d, p, way), q, Held)
  <2>1. \A way \in SourceAlternatives(p) :
          Matches(MarkRule(d, p, way), q, Held) <=>
            /\ FamilyOf[q.dst] = p.family /\ q.dst \notin OfFamily(p.family, p.exclude)
            /\ q.src \in way.addrs /\ \A s \in way.sets : q.src \in Held[s]
    BY MarkMatches
  <2>2. q.src \in Addr /\ q.dst \in Addr
    BY DEF Plain
  <2>3. FamilyOf[q.dst] = p.family => (q.dst \notin OfFamily(p.family, p.exclude) <=> q.dst \notin p.exclude)
    BY DEF OfFamily
  <2>4. ASSUME FamilyOf[q.dst] = p.family
        PROVE  (q.src \in p.sources \/ \E ref \in p.refs : q.src \in Held[AddressSet(ref)]) <=>
                 \E way \in SourceAlternatives(p) : q.src \in way.addrs /\ \A s \in way.sets : q.src \in Held[s]
    <3> DEFINE range == [addrs |-> OfFamily(p.family, p.sources), sets |-> {}]
               named(ref) == [addrs |-> Addr, sets |-> {AddressSet(ref)}]
               Lets(way) == q.src \in way.addrs /\ \A s \in way.sets : q.src \in Held[s]
    <3>1. SourceAlternatives(p) = (IF OfFamily(p.family, p.sources) = {} THEN {} ELSE {range}) \cup {named(ref) : ref \in p.refs}
      BY DEF SourceAlternatives
    <3>2. Lets(range) <=> q.src \in p.sources
      BY <2>4 DEF OfFamily
    <3>3. Lets(range) => OfFamily(p.family, p.sources) # {}
      OBVIOUS
    <3>4. \A ref : Lets(named(ref)) <=> q.src \in Held[AddressSet(ref)]
      BY <2>2
    <3> HIDE DEF range, named, Lets
    <3>5. (\E way \in SourceAlternatives(p) : Lets(way)) <=> Lets(range) \/ \E ref \in p.refs : Lets(named(ref))
      BY <3>1, <3>3
    <3>6. (\E way \in SourceAlternatives(p) : Lets(way)) <=> q.src \in p.sources \/ \E ref \in p.refs : q.src \in Held[AddressSet(ref)]
      BY <3>2, <3>4, <3>5
    <3> QED
      BY <3>6 DEF Lets
  <2> QED
    BY <2>1, <2>3, <2>4 DEF Covers
<1>3. ASSUME NEW h \in Marking(d, q)
      PROVE  \E p \in d.egress : Covers(d, p, q) /\ h.do[1] = "mark" /\ h.at = PolicyPlace(p) /\ h.do[2] = PolicyMark(d, p)
  <2>1. h \in MarkChain(d) /\ Matches(h, q, Held) /\ h.do[1] \in {"restore", "mark"}
    BY <1>1 DEF Marking, Hits
  <2>2. h # RestoreRule
    BY <2>1, RestoreMatches
  <2>3. PICK p \in d.egress : \E way \in SourceAlternatives(p) : h = MarkRule(d, p, way)
    BY <2>1, <2>2, Doing
  <2>4. Covers(d, p, q)
    BY <1>2, <2>1, <2>3
  <2>5. h.do[1] = "mark" /\ h.at = PolicyPlace(p) /\ h.do[2] = PolicyMark(d, p)
    BY <2>3, MarkMatches
  <2> QED
    BY <2>4, <2>5
<1>4. ASSUME NEW p \in d.egress, Covers(d, p, q)
      PROVE  \E h \in Marking(d, q) : h.do[1] = "mark" /\ h.at = PolicyPlace(p) /\ h.do[2] = PolicyMark(d, p)
  <2>1. PICK way \in SourceAlternatives(p) : Matches(MarkRule(d, p, way), q, Held)
    BY <1>2, <1>4
  <2>2. /\ MarkRule(d, p, way).do[1] = "mark" /\ MarkRule(d, p, way).at = PolicyPlace(p)
        /\ MarkRule(d, p, way).do[2] = PolicyMark(d, p)
    BY MarkMatches
  <2>3. MarkRule(d, p, way) \in MarkChain(d)
    BY MarkChainIs
  <2>4. MarkRule(d, p, way) \in Marking(d, q)
    BY <1>1, <2>1, <2>2, <2>3 DEF Marking, Hits
  <2> QED
    BY <2>2, <2>4
<1> QED
  BY <1>3, <1>4

\* Of two policies of a family that of the lower priority is asked first.
LEMMA PlacesInOrder ==
    ASSUME NEW d, PoliciesPassed(d), NEW p \in d.egress, NEW q \in d.egress, p.family = q.family
    PROVE  /\ PriorityOf(p) < PriorityOf(q) => Ahead(PolicyPlace(p), PolicyPlace(q)) /\ ~Ahead(PolicyPlace(q), PolicyPlace(p))
           /\ p # q => PriorityOf(p) < PriorityOf(q) \/ PriorityOf(q) < PriorityOf(p)
           /\ ~Ahead(PolicyPlace(p), PolicyPlace(p))
<1>1. PriorityOf(p) \in Int /\ PriorityOf(q) \in Int /\ p.priority = PriorityOf(p) /\ q.priority = PriorityOf(q)
  BY NumberAssumption DEF PoliciesPassed, PriorityOf
<1>2. p # q => PriorityOf(p) # PriorityOf(q)
  BY <1>1 DEF PoliciesPassed
<1>3. Rank[p.name] \in Nat /\ Rank[q.name] \in Nat
  BY RankAssumption DEF PoliciesPassed
<1>4. FamilyRank[p.family] \in Nat
  BY DEF PoliciesPassed, Family, FamilyRank
<1> QED
  BY <1>1, <1>2, <1>3, <1>4 DEF Ahead, PolicyPlace

\* A packet that is no reply is given the mark of the first policy that covers it.
LEMMA PolicyMarked ==
    ASSUME NEW d, PoliciesPassed(d), LinksPassed(d), ForwardsPassed(d), chains = Render(d),
           NEW q, Plain(q), FamilyOf[q.src] = FamilyOf[q.dst], "reply" \notin q.ct, NEW mark
    PROVE  /\ (\A p \in d.egress : ~Covers(d, p, q)) => Marked(q, mark).packet = 0
           /\ \A p \in d.egress :
                /\ Covers(d, p, q)
                /\ \A o \in d.egress : Covers(d, o, q) /\ o # p => PriorityOf(p) < PriorityOf(o)
                => Marked(q, mark).packet = PolicyMark(d, p)
<1>1. Marked(q, mark).packet = IF Marking(d, q) = {} THEN 0
                               ELSE IF First(Marking(d, q)).do[1] = "restore" THEN mark ELSE First(Marking(d, q)).do[2]
  BY DEF Marked, Marking
<1>2. /\ \A h \in Marking(d, q) : \E p \in d.egress : /\ Covers(d, p, q) /\ h.do[1] = "mark"
                                                   /\ h.at = PolicyPlace(p) /\ h.do[2] = PolicyMark(d, p)
      /\ \A p \in d.egress : Covers(d, p, q) =>
           \E h \in Marking(d, q) : h.do[1] = "mark" /\ h.at = PolicyPlace(p) /\ h.do[2] = PolicyMark(d, p)
  BY CoveredMarked
<1>3. ASSUME NEW p \in d.egress, Covers(d, p, q), \A o \in d.egress : Covers(d, o, q) /\ o # p => PriorityOf(p) < PriorityOf(o)
      PROVE  Marked(q, mark).packet = PolicyMark(d, p)
  <2>1. PICK h \in Marking(d, q) : h.do[1] = "mark" /\ h.at = PolicyPlace(p) /\ h.do[2] = PolicyMark(d, p)
    BY <1>2, <1>3
  <2>2. ASSUME NEW o \in d.egress, Covers(d, o, q), o # p PROVE Ahead(PolicyPlace(p), PolicyPlace(o)) /\ ~Ahead(PolicyPlace(o), PolicyPlace(p))
    <3>1. o.family = p.family
      BY <1>3, <2>2 DEF Covers
    <3> QED
      BY <1>3, <2>2, <3>1, PlacesInOrder
  <2>3. ~Ahead(PolicyPlace(p), PolicyPlace(p))
    BY PlacesInOrder
  <2>4. \A g \in Marking(d, q) : ~Ahead(g.at, h.at)
    BY <1>2, <2>1, <2>2, <2>3
  <2>5. First(Marking(d, q)) \in Marking(d, q) /\ \A g \in Marking(d, q) : ~Ahead(g.at, First(Marking(d, q)).at)
    BY <2>1, <2>4 DEF First
  <2>6. PICK o \in d.egress : /\ Covers(d, o, q) /\ First(Marking(d, q)).do[1] = "mark"
                             /\ First(Marking(d, q)).at = PolicyPlace(o) /\ First(Marking(d, q)).do[2] = PolicyMark(d, o)
    BY <1>2, <2>5
  <2>7. o = p
    BY <2>1, <2>2, <2>5, <2>6
  <2> QED
    BY <1>1, <2>1, <2>6, <2>7
<1>4. ASSUME \A p \in d.egress : ~Covers(d, p, q) PROVE Marked(q, mark).packet = 0
  BY <1>1, <1>2, <1>4
<1> QED
  BY <1>3, <1>4

\* chainMark: what goes to a host inside is not marked, when the policies exclude those, and
\* goes to the host's link.
ExcludesInside(d) == \A p \in d.egress : OfFamily(p.family, Inside) \subseteq p.exclude

\* So it goes by the main table, to the link of the host.
LEMMA InsideReached ==
    ASSUME HostKnown, nft = net, ExcludesInside(Declared[nft]), NEW q, Plain(q), FamilyOf[q.src] = FamilyOf[q.dst],
           "reply" \notin q.ct, q.dst \in Inside, NEW mark
    PROVE  Route(q.dst, Marked(q, mark).packet) = LinkTo[q.dst]
<1> DEFINE d == Declared[nft]
<1>1. /\ WellDeclared(d) /\ PoliciesPassed(d) /\ LinksPassed(d) /\ ForwardsPassed(d)
      /\ chains = Render(d) /\ routing = RoutingRules(d)
  BY Passed DEF HostKnown
<1>2. \A p \in d.egress : ~Covers(d, p, q)
  BY DEF ExcludesInside, Covers, OfFamily
<1> HIDE DEF d
<1>3. Marked(q, mark).packet = 0
  BY <1>1, <1>2, PolicyMarked
<1>4. Route(q.dst, 0) = MainRoute(q.dst)
  BY <1>1, UnmarkedRouted
<1>5. MainRoute(q.dst) = LinkTo[q.dst]
  BY DEF MainRoute
<1> QED
  BY <1>3, <1>4, <1>5

\* Every step keeps ForwardReachesTarget: only a first or a later packet says anything of it.
LEMMA TargetStep ==
    ASSUME IInv, ForwardReachesTarget, [Next]_vars
    PROVE  ForwardReachesTarget'
<1> DEFINE Applies == /\ Settled' /\ conn'.target \in Inside
                      /\ \A p \in Declared[nft'].egress : OfFamily(p.family, Inside) \subseteq p.exclude
<1>1. CASE Open
  <2> SUFFICES ASSUME Applies PROVE sent'.out = LinkTo[conn'.target]
    BY DEF ForwardReachesTarget
  <2>1. PICK p \in FirstPackets : Sendable(p) /\ \E q \in Readdressed(p) :
          LET w == Translated(Walk(q, 0))
          IN conn' = (IF w.fate = "forwarded" THEN Opening(p, w) ELSE None) /\ sent'.out = w.out
    BY <1>1, Opens
  <2>2. PICK q \in Readdressed(p) :
          LET w == Translated(Walk(q, 0))
          IN conn' = (IF w.fate = "forwarded" THEN Opening(p, w) ELSE None) /\ sent'.out = w.out
    BY <2>1
  <2> DEFINE w == Translated(Walk(q, 0))
  <2>3. /\ Plain(q) /\ FamilyOf[q.src] = FamilyOf[q.dst] /\ "reply" \notin q.ct
        /\ w.out = Route(q.dst, Marked(q, 0).packet) /\ w.packet.dst = q.dst
    BY <2>1, OpenedBy DEF IInv
  <2> HIDE DEF w
  <2>4. conn' = Opening(p, w) /\ sent'.out = w.out
    BY <2>2 DEF w, Settled
  <2>5. conn'.target = q.dst
    BY <2>3, <2>4 DEF Opening
  <2>6. nft' = nft /\ net' = net
    BY <1>1 DEF Open, host
  <2>7. HostKnown /\ nft = net /\ ExcludesInside(Declared[nft])
    BY <2>6 DEF Settled, IInv, ExcludesInside
  <2> QED
    BY <2>3, <2>4, <2>5, <2>7, InsideReached
<1>2. CASE Stray
  BY <1>2, StrayIs DEF ForwardReachesTarget
<1>3. CASE More
  <2> SUFFICES ASSUME Applies PROVE sent'.out = LinkTo[conn'.target]
    BY DEF ForwardReachesTarget
  <2>1. /\ conn # None /\ Connected(conn) /\ nft' = nft /\ net' = net
    BY <1>3, MoreIs DEF host
  <2>2. Plain(MorePacket) /\ "new" \notin MorePacket.ct /\ "reply" \notin MorePacket.ct /\ MorePacket.dst = conn.target
    BY <2>1, LaterPackets
  <2>3. conn'.target = conn.target /\ sent'.out = Route(MorePacket.dst, Marked(MorePacket, conn.mark).packet)
    BY <1>3, <2>2, MoreIs, DeliveredIs
  <2>4. HostKnown /\ nft = net /\ ExcludesInside(Declared[nft])
    BY <2>1 DEF Settled, IInv, ExcludesInside
  <2>5. FamilyOf[MorePacket.src] = FamilyOf[MorePacket.dst]
    BY <2>1 DEF MorePacket, Packet, Connected
  <2> QED
    BY <2>2, <2>3, <2>4, <2>5, InsideReached
<1>4. CASE Answer
  <2>1. sent'.dir = "reply"
    BY <1>4, AnswerIs, LaterPackets, DeliveredIs
  <2> QED
    BY <2>1 DEF ForwardReachesTarget
<1>5. CASE Close \/ LineUp \/ LineDown \/ InstallRuleset \/ ReloadNetworkd
  BY <1>5, NothingSent DEF ForwardReachesTarget
<1>6. CASE UNCHANGED vars
  BY <1>6 DEF vars, host, ForwardReachesTarget, Settled
<1> QED
  BY <1>1, <1>2, <1>3, <1>4, <1>5, <1>6 DEF Next

\* A readdressed packet goes to the link of the target and is never sent back out.
THEOREM TargetReached ==
    Spec => []ForwardReachesTarget
<1>1. Init => ForwardReachesTarget
  BY DEF Init, ForwardReachesTarget
<1>2. IInv /\ ForwardReachesTarget /\ [Next]_vars => ForwardReachesTarget'
  BY TargetStep
<1> QED
  BY <1>1, <1>2, Invariant, PTL DEF Spec

\* Of some policies of a family one has the lowest priority.
LEMMA FirstPolicy ==
    ASSUME NEW d, PoliciesPassed(d), NEW X \in SUBSET d.egress, X # {}, \A p, q \in X : p.family = q.family
    PROVE  \E p \in X : \A q \in X \ {p} : PriorityOf(p) < PriorityOf(q)
<1> DEFINE T == {PolicyAt(X, p) : p \in X}
<1>1. T \in SUBSET Nat /\ T # {}
  BY PolicyPlaces
<1>2. PICK n \in T : \A m \in T : n <= m
  <2> HIDE DEF T
  <2> QED
    BY <1>1, Least
<1>3. PICK p \in X : \A q \in X : PolicyAt(X, p) <= PolicyAt(X, q)
  BY <1>2
<1>4. ASSUME NEW q \in X, Precedes(q, p) PROVE FALSE
  <2> DEFINE before(x) == {y \in X : Precedes(y, x)}
  <2>1. before(q) \subseteq before(p) /\ q \in before(p) /\ q \notin before(q)
    BY <1>4, PolicyOrder
  <2>2. IsFiniteSet(before(p))
    <3>1. before(p) \subseteq X /\ IsFiniteSet(X)
      BY PolicyPlaces
    <3> QED
      BY <3>1, FS_Subset
  <2>3. PolicyAt(X, p) = Cardinality(before(p)) /\ PolicyAt(X, q) = Cardinality(before(q))
    BY DEF PolicyAt
  <2>4. PolicyAt(X, p) \in Nat /\ PolicyAt(X, q) \in Nat
    BY PolicyPlaces
  <2> HIDE DEF before
  <2>5. Cardinality(before(q)) <= Cardinality(before(p)) /\ Cardinality(before(q)) # Cardinality(before(p))
    BY <2>1, <2>2, FS_Subset
  <2> QED
    BY <1>3, <2>3, <2>4, <2>5
<1>5. ASSUME NEW q \in X \ {p} PROVE PriorityOf(p) < PriorityOf(q)
  <2>1. Precedes(p, q)
    BY <1>4, <1>5, PolicyOrder
  <2>2. p.family = q.family
    OBVIOUS
  <2>3. FamilyRank[p.family] \in Nat
    BY DEF PoliciesPassed, Family, FamilyRank
  <2>4. PriorityOf(p) < PriorityOf(q) \/ PriorityOf(p) = PriorityOf(q)
    BY <2>1, <2>2, <2>3 DEF Precedes
  <2>5. PriorityOf(p) < PriorityOf(q) \/ PriorityOf(q) < PriorityOf(p)
    BY <2>2, PlacesInOrder
  <2>6. PriorityOf(p) \in Int /\ PriorityOf(q) \in Int
    BY NumberAssumption DEF PoliciesPassed, PriorityOf
  <2> QED
    BY <2>4, <2>5, <2>6
<1> QED
  BY <1>3, <1>5

\* What a host sends by itself leaves by the uplink of the first policy that covers it.
Covering(d, q) == {p \in d.egress : Covers(d, p, q)}
FirstOf(X) == CHOOSE p \in X : \A q \in X \ {p} : PriorityOf(p) < PriorityOf(q)
PinnedFirst(d) == \A p \in d.egress : p.table # None => p.table < MainPriority

\* A packet that is no reply goes by the uplink of the first policy that covers it.
LEMMA CoveredRouted ==
    ASSUME HostKnown, nft = net, PinnedFirst(Declared[nft]), NEW q, Plain(q), FamilyOf[q.src] = FamilyOf[q.dst],
           "reply" \notin q.ct, NEW mark
    PROVE  Route(q.dst, Marked(q, mark).packet) =
             LET covering == Covering(Declared[nft], q)
             IN IF covering # {} /\ FirstOf(covering).egress \in up THEN FirstOf(covering).egress ELSE MainRoute(q.dst)
<1> DEFINE d == Declared[nft]
           covering == Covering(d, q)
<1>1. /\ WellDeclared(d) /\ PoliciesPassed(d) /\ LinksPassed(d) /\ ForwardsPassed(d)
      /\ chains = Render(d) /\ routing = RoutingRules(d)
  BY Passed DEF HostKnown
<1>2. PinnedFirst(d)
  OBVIOUS
<1> HIDE DEF d
<1>3. CASE covering = {}
  <2>1. \A p \in d.egress : ~Covers(d, p, q)
    BY <1>3 DEF Covering
  <2>2. Marked(q, mark).packet = 0
    BY <1>1, <2>1, PolicyMarked
  <2> QED
    BY <1>1, <1>3, <2>2, UnmarkedRouted DEF d
<1>4. CASE covering # {}
  <2>1. covering \in SUBSET d.egress /\ \A p \in covering : Covers(d, p, q)
    BY DEF Covering
  <2>2. \A p, o \in covering : p.family = o.family
    BY <2>1 DEF Covers
  <2> HIDE DEF covering
  <2>3. \E p \in covering : \A o \in covering \ {p} : PriorityOf(p) < PriorityOf(o)
    BY <1>1, <1>4, <2>1, <2>2, FirstPolicy
  <2> DEFINE p == FirstOf(covering)
  <2>4. p \in covering /\ \A o \in covering \ {p} : PriorityOf(p) < PriorityOf(o)
    BY <2>3 DEF FirstOf
  <2> HIDE DEF p
  <2>5. p \in d.egress /\ Covers(d, p, q) /\ \A o \in d.egress : Covers(d, o, q) /\ o # p => PriorityOf(p) < PriorityOf(o)
    BY <2>1, <2>4 DEF covering, Covering
  <2>6. Marked(q, mark).packet = PolicyMark(d, p)
    BY <1>1, <2>5, PolicyMarked
  <2>7. FamilyOf[q.dst] = p.family /\ (p.table # None => p.table < MainPriority)
    BY <1>2, <2>5 DEF Covers, PinnedFirst
  <2>8. Route(q.dst, PolicyMark(d, p)) = IF p.egress \in up THEN p.egress ELSE MainRoute(q.dst)
    BY <1>1, <2>5, <2>7, PolicyRouted
  <2> QED
    BY <1>4, <2>6, <2>8 DEF p, covering, d
<1> QED
  BY <1>3, <1>4

\* The main table and the router's addresses depend on the lines and on what networkd read.
MainRouteAt(v, lines, dst) ==
    IF dst \in Inside THEN LinkTo[dst]
    ELSE LET defaults == Declared[v].defaults
             usable == {i \in DOMAIN defaults : defaults[i] \in lines /\ Own[defaults[i]][FamilyOf[dst]] # None}
         IN IF usable = {} THEN None ELSE defaults[CHOOSE i \in usable : \A j \in usable : i <= j]

LocalAt(lines, dst) == \E l \in (Link \ Uplink) \cup lines, f \in Family : Own[l][f] = dst

\* Of a state and of the one after it.
LEMMA HostOnly ==
    /\ \A dst : MainRoute(dst) = MainRouteAt(net, up, dst) /\ (Local(dst) <=> LocalAt(up, dst))
    /\ MainRoute(sent.packet.dst)' = MainRouteAt(net', up', sent'.packet.dst)
    /\ Local(sent.packet.dst)' <=> LocalAt(up', sent'.packet.dst)
  BY DEF MainRoute, MainRouteAt, Local, LocalAt

\* What the sets hold changes with the host and its lines only.
LEMMA HeldStays ==
    ASSUME UNCHANGED <<host, up>>
    PROVE  Held' = Held /\ nft' = nft /\ net' = net /\ up' = up /\ chains' = chains /\ routing' = routing
<1>1. nft' = nft /\ net' = net /\ up' = up /\ chains' = chains /\ routing' = routing
  BY DEF host
<1>2. Held' = Held
  BY <1>1 DEF Held
<1> QED
  BY <1>1, <1>2

RoutedTo(out, q) ==
    LET covering == Covering(Declared[nft], q)
    IN out = IF covering # {} /\ FirstOf(covering).egress \in up THEN FirstOf(covering).egress ELSE MainRoute(q.dst)

\* Every step keeps RoutedByPolicy: only a first packet says anything of it.
LEMMA RoutedStep ==
    ASSUME IInv, RoutedByPolicy, [Next]_vars
    PROVE  RoutedByPolicy'
<1>1. CASE Open
  <2> SUFFICES ASSUME nft' = net', PinnedFirst(Declared[nft']) PROVE RoutedTo(sent.out, sent.packet)'
    BY DEF RoutedByPolicy, PinnedFirst, RoutedTo, Covering, FirstOf
  <2>1. PICK p \in FirstPackets : Sendable(p) /\ \E q \in Readdressed(p) :
          LET w == Translated(Walk(q, 0))
          IN sent'.packet = w.packet /\ sent'.out = w.out
    BY <1>1, Opens
  <2>2. PICK q \in Readdressed(p) :
          LET w == Translated(Walk(q, 0))
          IN sent'.packet = w.packet /\ sent'.out = w.out
    BY <2>1
  <2>3. /\ Plain(q) /\ FamilyOf[q.src] = FamilyOf[q.dst] /\ "reply" \notin q.ct
        /\ sent'.out = Route(q.dst, Marked(q, 0).packet) /\ sent'.packet.dst = q.dst /\ sent'.packet.src = q.src
    BY <2>1, <2>2, OpenedBy DEF IInv
  <2>4. UNCHANGED <<host, up>>
    BY <1>1 DEF Open
  <2>5. Held' = Held /\ nft' = nft /\ net' = net /\ up' = up
    BY <2>4, HeldStays
  <2>6. RoutedTo(sent'.out, q)
    BY <2>3, <2>5, CoveredRouted DEF IInv, RoutedTo
  <2>7. Covering(Declared[nft], sent.packet)' = Covering(Declared[nft], q)
    BY <2>3, <2>5 DEF Covering, Covers
  <2>8. MainRoute(sent.packet.dst)' = MainRoute(q.dst)
    BY <2>3, <2>5, HostOnly
  <2> QED
    BY <2>3, <2>5, <2>6, <2>7, <2>8 DEF RoutedTo
<1>2. CASE Stray
  BY <1>2, StrayIs DEF RoutedByPolicy
<1>3. CASE More
  <2>1. sent'.dir = "more"
    BY <1>3, MoreIs, LaterPackets, DeliveredIs
  <2> QED
    BY <2>1 DEF RoutedByPolicy
<1>4. CASE Answer
  <2>1. sent'.dir = "reply"
    BY <1>4, AnswerIs, LaterPackets, DeliveredIs
  <2> QED
    BY <2>1 DEF RoutedByPolicy
<1>5. CASE Close \/ LineUp \/ LineDown \/ InstallRuleset \/ ReloadNetworkd
  BY <1>5, NothingSent DEF RoutedByPolicy
<1>6. CASE UNCHANGED vars
  <2>1. UNCHANGED <<host, up>> /\ sent' = sent
    BY <1>6 DEF vars
  <2>2. Held' = Held /\ nft' = nft /\ net' = net /\ up' = up
    BY <2>1, HeldStays
  <2>3. Covering(Declared[nft], sent.packet)' = Covering(Declared[nft], sent.packet)
    BY <2>1, <2>2 DEF Covering, Covers
  <2>4. MainRoute(sent.packet.dst)' = MainRoute(sent.packet.dst) /\ (Local(sent.packet.dst)' <=> Local(sent.packet.dst))
    BY <2>1, <2>2, HostOnly
  <2>5. RoutedTo(sent.out, sent.packet)' <=> RoutedTo(sent.out, sent.packet)
    BY <2>1, <2>2, <2>3, <2>4 DEF RoutedTo
  <2> DEFINE Own1 == /\ sent # None /\ sent.dir = "first" /\ nft = net
                     /\ sent.packet.iif \notin Uplink /\ "dnat" \notin sent.packet.ct /\ sent.fate # "local"
                     /\ ~Local(sent.packet.dst) /\ PinnedFirst(Declared[nft])
  <2>6. RoutedByPolicy <=> (Own1 => RoutedTo(sent.out, sent.packet))
    BY DEF RoutedByPolicy, PinnedFirst, RoutedTo, Covering, FirstOf
  <2>7. RoutedByPolicy' <=> (Own1' => RoutedTo(sent.out, sent.packet)')
    BY DEF RoutedByPolicy, PinnedFirst, RoutedTo, Covering, FirstOf
  <2>8. Own1' <=> Own1
    BY <2>1, <2>2, <2>4 DEF PinnedFirst
  <2> QED
    BY <2>5, <2>6, <2>7, <2>8
<1> QED
  BY <1>1, <1>2, <1>3, <1>4, <1>5, <1>6 DEF Next

\* A host's own traffic leaves by the uplink of the first policy that covers it.
THEOREM RoutedAsDeclared ==
    Spec => []RoutedByPolicy
<1>1. Init => RoutedByPolicy
  BY DEF Init, RoutedByPolicy
<1>2. IInv /\ RoutedByPolicy /\ [Next]_vars => RoutedByPolicy'
  BY RoutedStep
<1> QED
  BY <1>1, <1>2, Invariant, PTL DEF Spec

\* Every step keeps TranslatedAsDeclared: only a first packet says anything of it.
LEMMA TranslatedStep ==
    ASSUME IInv, TranslatedAsDeclared, [Next]_vars
    PROVE  TranslatedAsDeclared'
<1>1. CASE Open
  <2> DEFINE d == Declared[nft]
  <2>1. PICK p \in FirstPackets : Sendable(p) /\ \E q \in Readdressed(p) :
          LET w == Translated(Walk(q, 0))
          IN sent'.packet = w.packet /\ sent'.out = w.out /\ sent'.fate = w.fate /\ sent'.src = SourceOf(w)
    BY <1>1, Opens
  <2>2. PICK q \in Readdressed(p) :
          LET w == Translated(Walk(q, 0))
          IN sent'.packet = w.packet /\ sent'.out = w.out /\ sent'.fate = w.fate /\ sent'.src = SourceOf(w)
    BY <2>1
  <2> DEFINE w == Translated(Walk(q, 0))
  <2>3. /\ w.fate = "forwarded" => Plain(w.packet)
        /\ w.packet.src = q.src /\ w.packet.dst = q.dst /\ w.packet.oif = w.out /\ FamilyOf[q.src] = FamilyOf[q.dst]
        /\ SourceOf(w) = IF w.fate = "forwarded" /\ Masqueraded(w.packet) THEN Own[w.out][FamilyOf[q.src]] ELSE q.src
    BY <2>1, OpenedBy DEF IInv
  <2>4. LinksPassed(d) /\ ForwardsPassed(d) /\ SourceNATsPassed(d) /\ chains = Render(d)
    BY Passed DEF IInv, HostKnown
  <2>5. nft' = nft
    BY <1>1 DEF Open, host
  <2> HIDE DEF w
  <2>6. sent'.packet = w.packet /\ sent'.out = w.out /\ sent'.fate = w.fate /\ sent'.src = SourceOf(w)
    BY <2>2 DEF w
  <2>7. ASSUME w.fate = "forwarded"
        PROVE  Masqueraded(w.packet) <=> \/ \E n \in d.nats : n.egress = w.out /\ Translates(n, w.packet)
                                         \/ \E f \in d.forwards : Hairpinned(f, w.packet)
    <3>1. Plain(w.packet) /\ FamilyOf[w.packet.src] = FamilyOf[w.packet.dst] /\ w.packet.oif = w.out
      BY <2>3, <2>7
    <3> HIDE DEF d
    <3> QED
      BY <2>4, <3>1, MasqueradedIs
  <2> QED
    BY <2>3, <2>5, <2>6, <2>7 DEF TranslatedAsDeclared
<1>2. CASE Stray
  BY <1>2, StrayIs DEF TranslatedAsDeclared
<1>3. CASE More
  <2>1. sent'.dir = "more"
    BY <1>3, MoreIs, LaterPackets, DeliveredIs
  <2> QED
    BY <2>1 DEF TranslatedAsDeclared
<1>4. CASE Answer
  <2>1. sent'.dir = "reply"
    BY <1>4, AnswerIs, LaterPackets, DeliveredIs
  <2> QED
    BY <2>1 DEF TranslatedAsDeclared
<1>5. CASE Close \/ LineUp \/ LineDown \/ InstallRuleset \/ ReloadNetworkd
  BY <1>5, NothingSent DEF TranslatedAsDeclared
<1>6. CASE UNCHANGED vars
  BY <1>6 DEF vars, host, TranslatedAsDeclared
<1> QED
  BY <1>1, <1>2, <1>3, <1>4, <1>5, <1>6 DEF Next

\* What leaves by an uplink carries its address exactly when the declaration says so.
THEOREM TranslatedRight ==
    Spec => []TranslatedAsDeclared
<1>1. Init => TranslatedAsDeclared
  BY DEF Init, TranslatedAsDeclared
<1>2. IInv /\ TranslatedAsDeclared /\ [Next]_vars => TranslatedAsDeclared'
  BY TranslatedStep
<1> QED
  BY <1>1, <1>2, Invariant, PTL DEF Spec

\* forwardOpening: the rules of a forward match what it opened, and let it through.
LEMMA OpeningMatches ==
    ASSUME NEW d, ForwardsPassed(d), NEW f \in d.forwards, NEW q, Plain(q), NEW held
    PROVE  /\ (\E h \in ForwardOpening(f) : Matches(h, q, held)) <=> Opened(f, q)
           /\ \A h \in ForwardOpening(f) : h.at = <<0, Rank[f.name], 0, 0>> /\ h.do = <<"accept">> /\ Rank[f.name] \in Nat
<1> DEFINE both == [Everything EXCEPT !.at = <<0, Rank[f.name], 0, 0>>, !.ct = {"dnat"}, !.family = {f.family},
                                      !.proto = {f.proto}, !.do = <<"accept">>]
           there == [both EXCEPT !.dst = {f.target}, !.dport = f.tports]
           back == [both EXCEPT !.src = {f.target}, !.sport = f.tports]
<1>1. CASE f.open
  <2>1. ForwardOpening(f) = {there, back}
    BY <1>1 DEF ForwardOpening
  <2>2. Matches(there, q, held) <=> /\ "dnat" \in q.ct /\ FamilyOf[q.dst] = f.family /\ q.proto = f.proto
                                    /\ q.dst = f.target /\ q.dport \in f.tports
    BY DEF Matches, Everything, Plain
  <2>3. Matches(back, q, held) <=> /\ "dnat" \in q.ct /\ FamilyOf[q.dst] = f.family /\ q.proto = f.proto
                                   /\ q.src = f.target /\ q.sport \in f.tports
    BY DEF Matches, Everything, Plain
  <2>4. /\ there.at = <<0, Rank[f.name], 0, 0>> /\ there.do = <<"accept">>
        /\ back.at = <<0, Rank[f.name], 0, 0>> /\ back.do = <<"accept">>
    BY DEF Everything
  <2>5. Rank[f.name] \in Nat
    BY RankAssumption DEF ForwardsPassed
  <2> HIDE DEF there, back
  <2>6. (\E h \in ForwardOpening(f) : Matches(h, q, held)) <=> Matches(there, q, held) \/ Matches(back, q, held)
    BY <2>1
  <2>7. (\E h \in ForwardOpening(f) : Matches(h, q, held)) <=> Opened(f, q)
    BY <1>1, <2>2, <2>3, <2>6 DEF Opened
  <2> QED
    BY <2>1, <2>4, <2>5, <2>7
<1>2. CASE ~f.open
  <2>1. ForwardOpening(f) = {}
    BY <1>2 DEF ForwardOpening
  <2>2. ~Opened(f, q)
    BY <1>2 DEF Opened
  <2> QED
    BY <2>1, <2>2
<1> QED
  BY <1>1, <1>2

\* renderFilterChains: the jumps come after the openings.
LEMMA JumpMatches ==
    ASSUME NEW d, NEW p \in d.policies, NEW q, Plain(q), NEW held
    PROVE  /\ Matches(Jump(d, p), q, held) <=>
                q.iif \in ZoneLinks(d, p.from) /\ (p.to = "self" \/ q.oif \in ZoneLinks(d, p.to))
           /\ Jump(d, p).at = <<1, Rank[p.from], Rank[p.to], Rank[p.name]>>
           /\ Jump(d, p).do = <<"jump", PolicyChain(d, p)>>
<1>1. CASE p.to = "self"
  BY <1>1 DEF Matches, Jump, Everything, Plain
<1>2. CASE p.to # "self"
  BY <1>2 DEF Matches, Jump, Everything, Plain
<1> QED
  BY <1>1, <1>2

\* forwardOpening: what a forward opened passes the forward chain, whatever the policies say.
LEMMA OpenedAccepted ==
    ASSUME NEW d, ForwardsPassed(d), chains = Render(d), NEW q, Plain(q), NEW f \in d.forwards, Opened(f, q)
    PROVE  Accepts(chains.forward, q)
<1> DEFINE hits == Hits(chains.forward, q, Held)
           openings == {h \in hits : \E g \in d.forwards : h \in ForwardOpening(g)}
<1>1. chains.forward = ForwardChain(d)
  BY DEF Render
<1>2. PICK h \in ForwardOpening(f) : Matches(h, q, Held)
  BY OpeningMatches
<1>3. h \in openings
  BY <1>1, <1>2 DEF Hits, ForwardChain
<1>4. \A g \in openings : /\ g.at[1] = 0 /\ g.do = <<"accept">>
                          /\ g.at[1] \in Nat /\ g.at[2] \in Nat /\ g.at[3] \in Nat /\ g.at[4] \in Nat
  <2> SUFFICES ASSUME NEW g \in openings PROVE /\ g.at[1] = 0 /\ g.do = <<"accept">>
                          /\ g.at[1] \in Nat /\ g.at[2] \in Nat /\ g.at[3] \in Nat /\ g.at[4] \in Nat
    OBVIOUS
  <2>1. PICK e \in d.forwards : g \in ForwardOpening(e)
    OBVIOUS
  <2>2. g.at = <<0, Rank[e.name], 0, 0>> /\ g.do = <<"accept">> /\ Rank[e.name] \in Nat
    BY <2>1, OpeningMatches
  <2> QED
    BY <2>2
<1>5. \A g \in hits : g \in openings \/ g.at[1] = 1
  <2> SUFFICES ASSUME NEW g \in hits, g \notin openings PROVE g.at[1] = 1
    OBVIOUS
  <2>1. PICK p \in d.policies : g = Jump(d, p)
    BY <1>1 DEF Hits, ForwardChain
  <2> HIDE DEF hits, openings
  <2>2. Jump(d, p).at = <<1, Rank[p.from], Rank[p.to], Rank[p.name]>>
    BY <2>1 DEF Jump, Everything
  <2> QED
    BY <2>1, <2>2
<1>6. openings \subseteq hits
  OBVIOUS
<1>7. Accepts(chains.forward, q) <=>
        /\ hits # {}
        /\ IF First(hits).do[1] = "jump" THEN First(Hits(First(hits).do[2], q, Held)).do[1] = "accept"
           ELSE First(hits).do[1] = "accept"
  BY DEF Accepts
<1> HIDE DEF hits, openings
<1>8. First(openings) \in openings /\ \A g \in openings : ~Ahead(g.at, First(openings).at)
  BY <1>3, <1>4, FirstIs
<1>9. \A g \in hits : ~Ahead(g.at, First(openings).at)
  BY <1>4, <1>5, <1>8 DEF Ahead
<1>10. First(hits) \in hits /\ \A g \in hits : ~Ahead(g.at, First(hits).at)
  BY <1>6, <1>8, <1>9 DEF First
<1>11. First(hits) \in openings
  <2>1. SUFFICES ASSUME First(hits).at[1] = 1 PROVE FALSE
    BY <1>5, <1>10
  <2>2. Ahead(h.at, First(hits).at)
    BY <1>3, <1>4, <2>1 DEF Ahead
  <2> QED
    BY <1>3, <1>6, <1>10, <2>2
<1>12. First(hits).do[1] = "accept"
  BY <1>4, <1>11
<1> QED
  BY <1>3, <1>6, <1>7, <1>12

\* No host but the router itself has an address of the router's.
LEMMA ElsewhereNotLocal ==
    ASSUME up \subseteq Uplink, NEW a \in Inside \cup Outside
    PROVE  ~Local(a)
  BY HostAssumption DEF Local, Outside

\* forwardOpening: an answer that passes the router is let through, wherever it leaves.
LEMMA AnsweredStep ==
    ASSUME IInv, ForwardIsAnswered, [Next]_vars
    PROVE  ForwardIsAnswered'
<1>1. CASE Open
  BY <1>1, Opens DEF ForwardIsAnswered
<1>2. CASE Stray
  BY <1>2, StrayIs DEF ForwardIsAnswered
<1>3. CASE More
  <2>1. sent'.dir = "more"
    BY <1>3, MoreIs, LaterPackets, DeliveredIs
  <2> QED
    BY <2>1 DEF ForwardIsAnswered
<1>4. CASE Answer
  <2> SUFFICES ASSUME Settled', conn'.dnat, conn'.first.iif \in Uplink => conn'.first.iif \in up',
                      NEW f \in Declared[nft'].forwards, f.open, f.proto = conn'.first.proto, f.target = conn'.target,
                      conn'.tport \in f.tports
               PROVE sent'.fate = "forwarded"
    BY DEF ForwardIsAnswered
  <2> DEFINE d == Declared[nft]
             p == AnswerPacket
  <2>1. sent'.fate # "bypassed"
    <3>1. Connected(conn) /\ (sent'.fate = "bypassed" /\ ~Delivered("reply", AnswerPacket) => conn.seen \in Inside /\ conn' = conn)
      BY <1>4, AnswerIs
    <3>2. Delivered("reply", AnswerPacket) => sent'.fate # "bypassed"
      BY <1>4, AnswerIs, LaterPackets, DeliveredIs
    <3>3. conn' = conn => conn.dnat
      BY Zenon
    <3>4. conn.dnat => conn.seen \notin Inside
      BY <3>1 DEF Connected
    <3> QED
      BY <3>1, <3>2, <3>3, <3>4, Zenon
  <2>2. /\ conn # None /\ Connected(conn) /\ nft' = nft /\ net' = net /\ up' = up /\ conn'.first = conn.first
        /\ conn'.target = conn.target /\ conn'.tport = conn.tport /\ conn'.under = conn.under /\ Plain(p)
    BY <1>4, <2>1, Answered
  <2>3. conn.dnat
    BY <1>4, <2>1, Answered, Zenon
  <2>4. conn.under = nft /\ nft = net /\ (conn.first.iif \in Uplink => conn.first.iif \in up)
    BY <2>2 DEF Settled
  <2>5. /\ Plain(p) /\ "new" \notin p.ct /\ "dnat" \in p.ct /\ p.src = conn.target /\ p.dst = conn.first.src
        /\ p.proto = conn.first.proto /\ p.sport = conn.tport
    BY <2>2, <2>3, LaterPackets
  <2>6. Delivered("reply", p) /\ p = Packet(p.iif, p.src, p.dst, p.proto, p.sport, p.dport, p.ct)
    BY <1>4, <2>1, AnswerIs, LaterPackets, DeliveredIs
  <2> HIDE DEF p
  <2>7. /\ sent'.out \in Link \cup {None} /\ sent'.out = Route(p.dst, Marked(p, conn.mark).packet)
        /\ ~Local(p.dst) /\ sent'.out # None /\ sent'.fate # "forwarded" =>
                ~Filtered(chains.forward, [p EXCEPT !.oif = sent'.out])
    BY <2>2, <2>5, <2>6, DeliveredIs
  <2>8. ~Local(p.dst)
    BY <2>2, <2>5, ElsewhereNotLocal DEF Connected, IInv, HostKnown
  <2>9. sent'.out \in Link
    <3>1. CASE conn.first.iif \in Uplink
      <4>1. Arrived /\ Settled /\ conn.first.iif \in up
        BY <2>2, <2>3, <2>4, <3>1, Zenon DEF Arrived, Settled
      <4>2. sent'.out = conn.first.iif
        BY <1>4, <2>1, <4>1, ArrivedRouted
      <4> QED
        BY <2>2, <4>2 DEF Connected
    <3>2. CASE conn.first.iif \notin Uplink
      <4>1. p.dst \in Inside /\ p.dst \in Addr
        BY <2>2, <2>5, <3>2 DEF Connected
      <4>2. net \in Revision /\ routing = RoutingRules(Declared[net])
        BY DEF IInv, HostKnown
      <4> QED
        BY <2>7, <4>1, <4>2, RouteIs
    <3> QED
      BY <3>1, <3>2
  <2> DEFINE q == [p EXCEPT !.oif = sent'.out]
  <2>10. /\ q.iif = p.iif /\ q.oif = sent'.out /\ q.src = p.src /\ q.dst = p.dst /\ q.proto = p.proto
         /\ q.sport = p.sport /\ q.dport = p.dport /\ q.ct = p.ct
    BY <2>6, PacketRouted
  <2> HIDE DEF q
  <2>11. Plain(q)
    BY <2>5, <2>9, <2>10 DEF Plain
  <2>12. ForwardsPassed(d) /\ chains = Render(d) /\ f \in d.forwards
    BY <2>2, Passed DEF IInv, HostKnown
  <2>13. Opened(f, q)
    <3>1. f.family = FamilyOf[q.dst]
      BY <2>2, <2>5, <2>10, <2>12 DEF ForwardsPassed, Connected
    <3> QED
      BY <2>2, <2>5, <2>10, <3>1 DEF Opened
  <2> HIDE DEF d
  <2>14. Accepts(chains.forward, q)
    BY <2>11, <2>12, <2>13, OpenedAccepted
  <2>15. Filtered(chains.forward, q)
    BY <2>14 DEF Filtered
  <2> QED
    BY <2>7, <2>8, <2>9, <2>15, HostAssumption DEF q
<1>5. CASE Close \/ LineUp \/ LineDown \/ InstallRuleset \/ ReloadNetworkd
  BY <1>5, NothingSent DEF ForwardIsAnswered
<1>6. CASE UNCHANGED vars
  BY <1>6 DEF vars, host, ForwardIsAnswered, Settled
<1> QED
  BY <1>1, <1>2, <1>3, <1>4, <1>5, <1>6 DEF Next

\* Every answer to a connection an open forward let in comes back through the router and
\* passes it.
THEOREM ForwardAnswered ==
    Spec => []ForwardIsAnswered
<1>1. Init => ForwardIsAnswered
  BY DEF Init, ForwardIsAnswered
<1>2. IInv /\ ForwardIsAnswered /\ [Next]_vars => ForwardIsAnswered'
  BY AnsweredStep
<1> QED
  BY <1>1, <1>2, Invariant, PTL DEF Spec
-----------------------------------------------------------------------------
(***************************************************************************)
(* The policies between zones.                                             *)
(***************************************************************************)
\* The addresses of a set are of the family it was declared with, whoever wrote them.
LEMMA HeldOfFamily ==
    ASSUME NEW d, FiltersPassed(d), chains.sets = Sets(d), Declared[nft] = d, NEW n \in DOMAIN d.sets
    PROVE  Held[AddressSet(n)] \subseteq OfFamily(d.sets[n].family, Addr)
<1> DEFINE s == AddressSet(n)
<1>1. s \in DOMAIN chains.sets
  BY DEF Sets
<1>2. s[1] = "addrset" /\ s[2] = n
  BY DEF AddressSet
<1>3. ~d.sets[n].derived => chains.sets[s] = d.sets[n].elements
  BY <1>2 DEF Sets
<1> HIDE DEF s
<1>4. Held[s] = IF d.sets[n].derived THEN Delegated[n] ELSE chains.sets[s]
  BY <1>1, <1>2 DEF Held
<1> QED
  BY <1>3, <1>4 DEF FiltersPassed, s

\* What the source or the destination of a rule says of an address.
Side(held, addr, addrs, refs) ==
    \/ addrs = {} /\ refs = {}
    \/ addr \in addrs
    \/ \E ref \in refs : addr \in held[AddressSet(ref)]

\* One way of writing it that an address of a family meets.
Meets(s, family, addr, held) ==
    family \in s.families /\ addr \in s.addrs /\ \A n \in s.sets : addr \in held[n]

\* firewallRule: the ways a rule's source or destination is written let through what it says.
LEMMA SideWritten ==
    ASSUME NEW d, NEW held, NEW addrs \in SUBSET Addr, NEW refs \in SUBSET DOMAIN d.sets, NEW addr \in Addr,
           FamilyOf \in [Addr -> Family],
           \A n \in DOMAIN d.sets : held[AddressSet(n)] \subseteq OfFamily(d.sets[n].family, Addr)
    PROVE  (\E s \in AddressAlternatives(d, addrs, refs) : Meets(s, FamilyOf[addr], addr, held))
             <=> Side(held, addr, addrs, refs)
<1> DEFINE range(f) == [families |-> {f}, addrs |-> OfFamily(f, addrs), sets |-> {}]
           named(ref) == [families |-> {d.sets[ref].family}, addrs |-> Addr, sets |-> {AddressSet(ref)}]
           any == [families |-> Family, addrs |-> Addr, sets |-> {}]
           families == {g \in Family : OfFamily(g, addrs) # {}}
           Met(s) == Meets(s, FamilyOf[addr], addr, held)
<1>1. AddressAlternatives(d, addrs, refs) =
        IF {range(f) : f \in families} \cup {named(ref) : ref \in refs} = {} THEN {any}
        ELSE {range(f) : f \in families} \cup {named(ref) : ref \in refs}
  BY DEF AddressAlternatives
<1>2. \A f : Met(range(f)) <=> FamilyOf[addr] = f /\ addr \in addrs
  BY DEF Meets, OfFamily
<1>3. \A ref \in refs : Met(named(ref)) <=> addr \in held[AddressSet(ref)]
  BY DEF Meets, OfFamily
<1>4. Met(any)
  BY DEF Meets
<1>5. addr \in addrs => FamilyOf[addr] \in families
  BY DEF OfFamily
<1>6. families = {} <=> addrs = {}
  BY DEF OfFamily
<1> HIDE DEF range, named, any, families, Met
<1>7. (\E s \in AddressAlternatives(d, addrs, refs) : Met(s)) <=>
        \/ families = {} /\ refs = {}
        \/ \E f \in families : Met(range(f))
        \/ \E ref \in refs : Met(named(ref))
  <2> DEFINE W == {range(f) : f \in families} \cup {named(ref) : ref \in refs}
  <2>1. W = {} <=> families = {} /\ refs = {}
    OBVIOUS
  <2>2. (\E s \in W : Met(s)) <=> (\E f \in families : Met(range(f))) \/ \E ref \in refs : Met(named(ref))
    OBVIOUS
  <2>3. W = {} => AddressAlternatives(d, addrs, refs) = {any}
    BY <1>1
  <2>4. W # {} => AddressAlternatives(d, addrs, refs) = W
    BY <1>1
  <2> HIDE DEF W
  <2>5. CASE W = {}
    BY <1>4, <2>1, <2>3, <2>5
  <2>6. CASE W # {}
    BY <2>1, <2>2, <2>4, <2>6
  <2> QED
    BY <2>5, <2>6
<1>8. (\E s \in AddressAlternatives(d, addrs, refs) : Met(s)) <=> Side(held, addr, addrs, refs)
  BY <1>2, <1>3, <1>5, <1>6, <1>7 DEF Side
<1> QED
  BY <1>8 DEF Met

\* firewallRule: the rules a rule became match what it says, and do what it says.
LEMMA RuleMatches ==
    ASSUME NEW d, FiltersPassed(d), chains = Render(d), Declared[nft] = d, NEW p \in d.policies, NEW i \in DOMAIN p.rules,
           NEW q, Plain(q), FamilyOf[q.src] = FamilyOf[q.dst], q.proto \in Transport
    PROVE  /\ (\E h \in FirewallRule(d, p.rules[i], i) : Matches(h, q, Held)) <=> Says(d, p.rules[i], q)
           /\ \A h \in FirewallRule(d, p.rules[i], i) : h.at = <<1, i, 0, 0>> /\ h.do = <<p.rules[i].action>>
<1> DEFINE r == p.rules[i]
           S == AddressAlternatives(d, r.src, r.srcRefs)
           T == AddressAlternatives(d, r.dst, r.dstRefs)
           family == FamilyOf[q.dst]
           Rest == /\ r.family \in {None, family}
                   /\ r.proto = {} \/ q.proto \in r.proto
                   /\ r.sport = {} \/ q.sport \in r.sport
                   /\ r.dport = {} \/ q.dport \in r.dport
<1>1. /\ r.family \in Family \cup {None} /\ r.src \subseteq Addr /\ r.dst \subseteq Addr
      /\ r.srcRefs \subseteq DOMAIN d.sets /\ r.dstRefs \subseteq DOMAIN d.sets
  BY DEF FiltersPassed
<1>2. chains.sets = Sets(d)
  BY DEF Render
<1>3. \A n \in DOMAIN d.sets : Held[AddressSet(n)] \subseteq OfFamily(d.sets[n].family, Addr)
  BY <1>2, HeldOfFamily
<1>4. q.src \in Addr /\ q.dst \in Addr /\ family \in Family /\ FamilyOf \in [Addr -> Family]
  BY HostAssumption DEF Plain
<1>5. (\E s \in S : Meets(s, family, q.src, Held)) <=> Side(Held, q.src, r.src, r.srcRefs)
  <2> HIDE DEF r
  <2> QED
    BY <1>1, <1>3, <1>4, SideWritten
<1>6. (\E t \in T : Meets(t, family, q.dst, Held)) <=> Side(Held, q.dst, r.dst, r.dstRefs)
  <2> HIDE DEF r
  <2> QED
    BY <1>1, <1>3, <1>4, SideWritten
<1>7. \A s, t : RuleOf(r, i, s, t).at = <<1, i, 0, 0>> /\ RuleOf(r, i, s, t).do = <<r.action>>
                /\ RuleOf(r, i, s, t).family = (IF r.family = None THEN Family ELSE {r.family}) \cap s.families \cap t.families
  BY DEF RuleOf, Everything
<1>8. q.proto \in ProtocolMatch(r) /\ q.sport \in PortMatch(r.sport) /\ q.dport \in PortMatch(r.dport) <=>
        /\ r.proto = {} \/ q.proto \in r.proto
        /\ r.sport = {} \/ q.sport \in r.sport
        /\ r.dport = {} \/ q.dport \in r.dport
  BY DEF ProtocolMatch, PortMatch, Plain
<1>9. \A s, t : Matches(RuleOf(r, i, s, t), q, Held) <=>
                  Rest /\ Meets(s, family, q.src, Held) /\ Meets(t, family, q.dst, Held)
  <2> TAKE s, t
  <2>1. Matches(RuleOf(r, i, s, t), q, Held) <=>
          /\ family \in (IF r.family = None THEN Family ELSE {r.family}) \cap s.families \cap t.families
          /\ q.proto \in ProtocolMatch(r) /\ q.sport \in PortMatch(r.sport) /\ q.dport \in PortMatch(r.dport)
          /\ q.src \in s.addrs /\ \A n \in s.sets : q.src \in Held[n]
          /\ q.dst \in t.addrs /\ \A n \in t.sets : q.dst \in Held[n]
    BY DEF Matches, RuleOf, Everything, Plain
  <2>2. family \in (IF r.family = None THEN Family ELSE {r.family}) <=> r.family \in {None, family}
    BY <1>1, <1>4
  <2> QED
    BY <1>8, <2>1, <2>2 DEF Meets
<1>10. FirewallRule(d, r, i) = {h \in {RuleOf(r, i, s, t) : s \in S, t \in T} : h.family # {}}
  BY DEF FirewallRule
<1>11. \A s, t : Matches(RuleOf(r, i, s, t), q, Held) => RuleOf(r, i, s, t).family # {}
  BY DEF Matches
<1>12. Says(d, r, q) <=> Rest /\ Side(Held, q.src, r.src, r.srcRefs) /\ Side(Held, q.dst, r.dst, r.dstRefs)
  BY DEF Says, Side
<1> HIDE DEF r, S, T, family, Rest
<1>13. (\E h \in FirewallRule(d, r, i) : Matches(h, q, Held)) <=> \E s \in S : \E t \in T : Matches(RuleOf(r, i, s, t), q, Held)
  BY <1>10, <1>11
<1>14. (\E h \in FirewallRule(d, r, i) : Matches(h, q, Held)) <=> Says(d, r, q)
  BY <1>5, <1>6, <1>9, <1>12, <1>13
<1>15. \A h \in FirewallRule(d, r, i) : h.at = <<1, i, 0, 0>> /\ h.do = <<r.action>>
  BY <1>7, <1>10
<1> QED
  BY <1>14, <1>15 DEF r

\* renderFilterChains: what decides a policy's chain, for a packet that keeps no state, is what
\* the policy says.
LEMMA PolicyDecides ==
    ASSUME NEW d, FiltersPassed(d), chains = Render(d), Declared[nft] = d, NEW p \in d.policies,
           NEW q, Plain(q), FamilyOf[q.src] = FamilyOf[q.dst], q.proto \in Transport, "established" \notin q.ct
    PROVE  First(Hits(PolicyChain(d, p), q, Held)).do[1] = "accept" <=> LetThrough(d, p, q)
<1> DEFINE hits == Hits(PolicyChain(d, p), q, Held)
           keeps == [Everything EXCEPT !.ct = {"established"}, !.do = <<"accept">>]
           drops == [Everything EXCEPT !.at = <<0, 1, 0, 0>>, !.ct = {"invalid"}, !.do = <<"drop">>]
           last == [Everything EXCEPT !.at = <<2, 0, 0, 0>>, !.do = <<p.default>>]
           says == {i \in DOMAIN p.rules : Says(d, p.rules[i], q)}
           Invalid == p.stateful /\ "invalid" \in q.ct
           rules(i) == FirewallRule(d, p.rules[i], i)
<1>1. DOMAIN p.rules \subseteq Nat /\ p.stateful \in BOOLEAN
  BY DEF FiltersPassed
<1>2. PolicyChain(d, p) = (IF p.stateful THEN {keeps, drops} ELSE {}) \cup (UNION {rules(i) : i \in DOMAIN p.rules}) \cup {last}
  BY DEF PolicyChain
<1>3. ~Matches(keeps, q, Held)
  BY DEF Matches, Everything
<1>4. Matches(drops, q, Held) <=> "invalid" \in q.ct
  BY DEF Matches, Everything, Plain
<1>5. Matches(last, q, Held)
  BY DEF Matches, Everything, Plain
<1>6. /\ drops.at = <<0, 1, 0, 0>> /\ drops.do = <<"drop">>
      /\ last.at = <<2, 0, 0, 0>> /\ last.do = <<p.default>>
  BY DEF Everything
<1>7. \A i \in DOMAIN p.rules : /\ (\E h \in rules(i) : Matches(h, q, Held)) <=> i \in says
                                /\ \A h \in rules(i) : h.at = <<1, i, 0, 0>> /\ h.do = <<p.rules[i].action>>
  BY RuleMatches
<1> HIDE DEF keeps, drops, last, says, rules
<1>8. \A h : h \in hits <=> \/ Invalid /\ h = drops
                            \/ \E i \in says : h \in rules(i) /\ Matches(h, q, Held)
                            \/ h = last
  <2>1. \A h : h \in hits <=> h \in PolicyChain(d, p) /\ Matches(h, q, Held)
    BY DEF Hits
  <2>2. \A h : h \in PolicyChain(d, p) <=> \/ p.stateful /\ (h = keeps \/ h = drops)
                                           \/ \E i \in DOMAIN p.rules : h \in rules(i)
                                           \/ h = last
    BY <1>1, <1>2
  <2>3. says \subseteq DOMAIN p.rules
    BY DEF says
  <2> HIDE DEF hits
  <2> QED
    BY <1>3, <1>4, <1>5, <1>7, <2>1, <2>2, <2>3
<1> HIDE DEF hits
<1>9. says \subseteq Nat /\ says \subseteq DOMAIN p.rules
  BY <1>1 DEF says
<1>10. \A h \in hits : h.at[1] \in Nat /\ h.at[2] \in Nat /\ h.at[3] \in Nat /\ h.at[4] \in Nat
  BY <1>6, <1>7, <1>8, <1>9
<1>11. First(hits) \in hits /\ \A g \in hits : ~Ahead(g.at, First(hits).at)
  BY <1>8, <1>10, FirstIs
<1>12. LetThrough(d, p, q) <=>
         IF Invalid THEN FALSE
         ELSE IF says = {} THEN p.default = "accept"
         ELSE p.rules[CHOOSE i \in says : \A j \in says : i <= j].action = "accept"
  BY DEF LetThrough, says
<1> DEFINE f == First(hits)
<1> HIDE DEF f
<1>13. f \in hits /\ \A g \in hits : ~Ahead(g.at, f.at)
  BY <1>11 DEF f
<1>14. CASE Invalid
  <2>1. drops \in hits
    BY <1>8, <1>14
  <2>2. f = drops
    <3>1. ~(f.at[1] = 1)
      BY <1>6, <1>13, <2>1 DEF Ahead
    <3>2. ~(f.at[1] = 2)
      BY <1>6, <1>13, <2>1 DEF Ahead
    <3> QED
      BY <1>6, <1>7, <1>8, <1>9, <1>13, <3>1, <3>2
  <2> QED
    BY <1>6, <1>12, <1>14, <2>2 DEF f, hits
<1>15. CASE ~Invalid /\ says = {}
  <2>1. f = last
    BY <1>8, <1>13, <1>15
  <2> QED
    BY <1>6, <1>12, <1>15, <2>1 DEF f, hits
<1>16. CASE ~Invalid /\ says # {}
  <2>1. ASSUME NEW j \in says PROVE \E g \in hits : g.at = <<1, j, 0, 0>>
    BY <1>7, <1>8, <1>9
  <2>2. PICK k \in says : \A j \in says : k <= j
    BY <1>9, <1>16, Least
  <2>3. PICK g \in hits : g.at = <<1, k, 0, 0>>
    BY <2>1
  <2>4. f # last
    BY <1>6, <1>13, <2>3 DEF Ahead
  <2>5. PICK i \in says : f \in rules(i)
    BY <1>8, <1>13, <1>16, <2>4
  <2>6. f.at = <<1, i, 0, 0>> /\ f.do = <<p.rules[i].action>>
    BY <1>7, <1>9, <2>5
  <2>7. ~(k < i)
    BY <1>13, <2>3, <2>6 DEF Ahead
  <2>8. i = k
    BY <1>9, <2>2, <2>7
  <2>9. (CHOOSE j \in says : \A l \in says : j <= l) = k
    <3>1. \A j \in says : (\A l \in says : j <= l) => j = k
      BY <1>9, <2>2
    <3> QED
      BY <2>2, <3>1
  <2>10. LetThrough(d, p, q) <=> p.rules[k].action = "accept"
    BY <1>12, <1>16, <2>9
  <2>11. f.do[1] = p.rules[k].action
    BY <2>6, <2>8
  <2> QED
    BY <2>10, <2>11 DEF f, hits
<1> QED
  BY <1>14, <1>15, <1>16

\* No link is in two zones.
ZonesApart(d) == \A y, z \in DOMAIN d.zones : y # z => ZoneLinks(d, y) \cap ZoneLinks(d, z) = {}

\* The policies a packet passes on its way between two links, or to the router.
Between(d, q) == {p \in d.policies : p.to # "self" /\ q.iif \in ZoneLinks(d, p.from) /\ q.oif \in ZoneLinks(d, p.to)}
ToRouter(d, q) == {p \in d.policies : p.to = "self" /\ q.iif \in ZoneLinks(d, p.from)}

\* There is one of them at most.
LEMMA OnePolicy ==
    ASSUME NEW d, FiltersPassed(d), ZonesApart(d), NEW q
    PROVE  /\ \A p, r \in Between(d, q) : p = r
           /\ \A p, r \in ToRouter(d, q) : p = r
<1>1. \A p \in d.policies : p.from \in DOMAIN d.zones /\ p.to \in DOMAIN d.zones \cup {"self"}
  BY DEF FiltersPassed
<1>2. \A p, r \in d.policies : q.iif \in ZoneLinks(d, p.from) /\ q.iif \in ZoneLinks(d, r.from) => p.from = r.from
  BY <1>1 DEF ZonesApart
<1>3. \A p, r \in d.policies :
        /\ p.to # "self" /\ r.to # "self" /\ q.oif \in ZoneLinks(d, p.to) /\ q.oif \in ZoneLinks(d, r.to) => p.to = r.to
  BY <1>1 DEF ZonesApart
<1>4. \A p, r \in d.policies : p.from = r.from /\ p.to = r.to => p = r
  BY DEF FiltersPassed
<1> QED
  BY <1>2, <1>3, <1>4 DEF Between, ToRouter

\* A chain whose matching rules are the jumps of some policies, one of them at most, lets
\* through what that policy does.
LEMMA JumpDecides ==
    ASSUME NEW d, FiltersPassed(d), chains = Render(d), Declared[nft] = d, NEW chain, NEW pair \in SUBSET d.policies,
           \A p, r \in pair : p = r,
           NEW q, Plain(q), FamilyOf[q.src] = FamilyOf[q.dst], q.proto \in Transport, "established" \notin q.ct,
           Hits(chain, q, Held) = {Jump(d, p) : p \in pair}
    PROVE  Accepts(chain, q) <=> \E p \in pair : LetThrough(d, p, q)
<1> DEFINE hits == Hits(chain, q, Held)
<1>1. Accepts(chain, q) <=>
        /\ hits # {}
        /\ IF First(hits).do[1] = "jump" THEN First(Hits(First(hits).do[2], q, Held)).do[1] = "accept"
           ELSE First(hits).do[1] = "accept"
  BY DEF Accepts
<1>2. hits = {Jump(d, p) : p \in pair}
  OBVIOUS
<1>3. CASE pair = {}
  <2> HIDE DEF hits
  <2> QED
    BY <1>1, <1>2, <1>3
<1>4. ASSUME NEW p \in pair PROVE Accepts(chain, q) <=> LetThrough(d, p, q)
  <2>1. pair = {p}
    BY <1>4
  <2>2. hits = {Jump(d, p)}
    BY <1>2, <2>1
  <2>3. /\ Jump(d, p).at = <<1, Rank[p.from], Rank[p.to], Rank[p.name]>>
        /\ Jump(d, p).do = <<"jump", PolicyChain(d, p)>>
    BY JumpMatches
  <2>4. Rank[p.from] \in Nat /\ Rank[p.to] \in Nat /\ Rank[p.name] \in Nat
    BY RankAssumption DEF FiltersPassed
  <2> HIDE DEF hits
  <2>5. First(hits) = Jump(d, p)
    <3>1. \A h \in hits : h.at[1] \in Nat /\ h.at[2] \in Nat /\ h.at[3] \in Nat /\ h.at[4] \in Nat
      BY <2>2, <2>3, <2>4
    <3>2. First(hits) \in hits
      BY <2>2, <3>1, FirstIs
    <3> QED
      BY <2>2, <3>2
  <2>6. First(hits).do[1] = "jump" /\ First(hits).do[2] = PolicyChain(d, p)
    BY <2>3, <2>5
  <2>7. Accepts(chain, q) <=> First(Hits(PolicyChain(d, p), q, Held)).do[1] = "accept"
    BY <1>1, <2>2, <2>6
  <2> QED
    BY <2>7, PolicyDecides
<1> QED
  BY <1>3, <1>4

\* renderFilterChains: what goes to the router passes by the policies written towards it.
LEMMA InputDecides ==
    ASSUME NEW d, FiltersPassed(d), ZonesApart(d), chains = Render(d), Declared[nft] = d,
           NEW q, Plain(q), FamilyOf[q.src] = FamilyOf[q.dst], q.proto \in Transport, "established" \notin q.ct
    PROVE  Accepts(chains.input, q) <=> \E p \in ToRouter(d, q) : LetThrough(d, p, q)
<1>1. chains.input = {Jump(d, p) : p \in {r \in d.policies : r.to = "self"}}
  BY DEF Render, InputChain
<1>2. \A p \in d.policies : p.to = "self" => (Matches(Jump(d, p), q, Held) <=> q.iif \in ZoneLinks(d, p.from))
  BY JumpMatches
<1>3. Hits(chains.input, q, Held) = {Jump(d, p) : p \in ToRouter(d, q)}
  BY <1>1, <1>2 DEF Hits, ToRouter
<1>4. ToRouter(d, q) \in SUBSET d.policies
  BY DEF ToRouter
<1> QED
  BY <1>3, <1>4, OnePolicy, JumpDecides

\* And what goes through it by the openings and by the policies between two zones.
LEMMA ForwardDecides ==
    ASSUME NEW d, FiltersPassed(d), ForwardsPassed(d), ZonesApart(d), chains = Render(d), Declared[nft] = d,
           NEW q, Plain(q), FamilyOf[q.src] = FamilyOf[q.dst], q.proto \in Transport, "established" \notin q.ct
    PROVE  Accepts(chains.forward, q) <=> \/ \E p \in Between(d, q) : LetThrough(d, p, q)
                                          \/ \E f \in d.forwards : Opened(f, q)
<1>1. CASE \E f \in d.forwards : Opened(f, q)
  BY <1>1, OpenedAccepted
<1>2. CASE ~\E f \in d.forwards : Opened(f, q)
  <2>1. chains.forward = (UNION {ForwardOpening(f) : f \in d.forwards}) \cup {Jump(d, p) : p \in {r \in d.policies : r.to # "self"}}
    BY DEF Render, ForwardChain
  <2>2. \A f \in d.forwards : \A h \in ForwardOpening(f) : ~Matches(h, q, Held)
    BY <1>2, OpeningMatches
  <2>3. \A p \in d.policies : p.to # "self" =>
          (Matches(Jump(d, p), q, Held) <=> q.iif \in ZoneLinks(d, p.from) /\ q.oif \in ZoneLinks(d, p.to))
    BY JumpMatches
  <2>4. Hits(chains.forward, q, Held) = {Jump(d, p) : p \in Between(d, q)}
    BY <2>1, <2>2, <2>3 DEF Hits, Between
  <2>5. Between(d, q) \in SUBSET d.policies
    BY DEF Between
  <2>6. Accepts(chains.forward, q) <=> \E p \in Between(d, q) : LetThrough(d, p, q)
    BY <2>4, <2>5, OnePolicy, JumpDecides
  <2> QED
    BY <1>2, <2>6
<1> QED
  BY <1>1, <1>2

\* What the declaration says of a packet, given what the sets hold and which lines are up.
SaysAt(held, d, r, q) ==
    /\ r.family \in {None, FamilyOf[q.dst]}
    /\ r.proto = {} \/ q.proto \in r.proto
    /\ Side(held, q.src, r.src, r.srcRefs) /\ Side(held, q.dst, r.dst, r.dstRefs)
    /\ r.sport = {} \/ q.sport \in r.sport
    /\ r.dport = {} \/ q.dport \in r.dport

LetThroughAt(held, d, p, q) ==
    LET says == {i \in DOMAIN p.rules : SaysAt(held, d, p.rules[i], q)}
    IN IF p.stateful /\ "invalid" \in q.ct THEN FALSE
       ELSE IF says = {} THEN p.default = "accept"
       ELSE p.rules[CHOOSE i \in says : \A j \in says : i <= j].action = "accept"

PassesAt(held, lines, d, q) ==
    LET pair == {p \in d.policies :
                   /\ q.iif \in ZoneLinks(d, p.from)
                   /\ IF LocalAt(lines, q.dst) THEN p.to = "self" ELSE p.to # "self" /\ q.oif \in ZoneLinks(d, p.to)}
    IN \/ d.policies = {}
       \/ \E p \in pair : LetThroughAt(held, d, p, q)
       \/ ~LocalAt(lines, q.dst) /\ \E f \in d.forwards : Opened(f, q)

Decided == sent # None /\ sent.dir \in {"first", "stray"} /\ sent.fate # "unreachable" /\ ZonesApart(Declared[nft])

\* FilteredAsDeclared says that, of a state and of the one after it.
LEMMA FilteredForm ==
    /\ \A d, p, q : LetThrough(d, p, q) <=> LetThroughAt(Held, d, p, q)
    /\ FilteredAsDeclared <=> (Decided => ((sent.fate # "dropped") <=> PassesAt(Held, up, Declared[nft], sent.packet)))
    /\ FilteredAsDeclared' <=>
         (Decided' => ((sent'.fate # "dropped") <=> PassesAt(Held', up', Declared[nft'], sent'.packet)))
<1>1. \A d, p, q : LetThrough(d, p, q) <=> LetThroughAt(Held, d, p, q)
  BY DEF LetThrough, LetThroughAt, Says, SaysAt, Side
<1>2. FilteredAsDeclared <=> (Decided => ((sent.fate # "dropped") <=> PassesAt(Held, up, Declared[nft], sent.packet)))
  BY DEF FilteredAsDeclared, Decided, ZonesApart, PassesAt, Local, LocalAt, LetThrough, LetThroughAt, Says, SaysAt, Side
<1>3. FilteredAsDeclared' <=>
         (Decided' => ((sent'.fate # "dropped") <=> PassesAt(Held', up', Declared[nft'], sent'.packet)))
  BY DEF FilteredAsDeclared, Decided, ZonesApart, PassesAt, Local, LocalAt, LetThrough, LetThroughAt, Says, SaysAt, Side
<1> QED
  BY <1>1, <1>2, <1>3

\* A policy does not ask by which link a packet leaves.
LEMMA LinkNotAsked ==
    ASSUME NEW held, NEW d, NEW p, NEW q, NEW t, t.src = q.src, t.dst = q.dst, t.proto = q.proto,
           t.sport = q.sport, t.dport = q.dport, t.ct = q.ct
    PROVE  LetThroughAt(held, d, p, t) <=> LetThroughAt(held, d, p, q)
<1>1. \A i \in DOMAIN p.rules : SaysAt(held, d, p.rules[i], t) <=> SaysAt(held, d, p.rules[i], q)
  BY DEF SaysAt
<1>2. {i \in DOMAIN p.rules : SaysAt(held, d, p.rules[i], t)} = {i \in DOMAIN p.rules : SaysAt(held, d, p.rules[i], q)}
  BY <1>1
<1> QED
  BY <1>2 DEF LetThroughAt

\* A packet that keeps no state is dropped exactly when the declaration does not let it through.
LEMMA WalkFiltered ==
    ASSUME HostKnown, ZonesApart(Declared[nft]), NEW q, Plain(q), FamilyOf[q.src] = FamilyOf[q.dst],
           q = Packet(q.iif, q.src, q.dst, q.proto, q.sport, q.dport, q.ct),
           q.proto \in Transport, "established" \notin q.ct, Walk(q, 0).fate # "unreachable"
    PROVE  (Walk(q, 0).fate # "dropped") <=> PassesAt(Held, up, Declared[nft], Walk(q, 0).packet)
<1> DEFINE d == Declared[nft]
           w == Walk(q, 0)
           t == w.packet
<1>1. FiltersPassed(d) /\ ForwardsPassed(d) /\ chains = Render(d) /\ ZonesApart(d) /\ Declared[nft] = d
  BY Passed DEF HostKnown
<1>2. /\ Local(q.dst) => w.fate = IF Filtered(chains.input, q) THEN "local" ELSE "dropped"
      /\ ~Local(q.dst) /\ w.out = None => w.fate = "unreachable"
      /\ ~Local(q.dst) /\ w.out # None => w.fate = IF Filtered(chains.forward, t) THEN "forwarded" ELSE "dropped"
      /\ t = [q EXCEPT !.oif = w.out] /\ w.out = Route(q.dst, Marked(q, 0).packet)
  BY WalkIs
<1> HIDE DEF w
<1>3. /\ t.iif = q.iif /\ t.oif = w.out /\ t.src = q.src /\ t.dst = q.dst /\ t.proto = q.proto
      /\ t.sport = q.sport /\ t.dport = q.dport /\ t.ct = q.ct
  BY <1>2, PacketRouted
<1>4. w.out \in Link \cup {None}
  BY <1>2, RouteIs DEF Plain, HostKnown
<1>5. Local(q.dst) <=> LocalAt(up, t.dst)
  BY <1>3, HostOnly
<1>6. chains.filters <=> d.policies # {}
  BY <1>1 DEF Render
<1>7. w.fate # "unreachable"
  BY DEF w
<1> HIDE DEF d, t
<1>8. CASE Local(q.dst)
  <2>1. PassesAt(Held, up, d, t) <=> d.policies = {} \/ \E p \in ToRouter(d, q) : LetThroughAt(Held, d, p, t)
    BY <1>3, <1>5, <1>8 DEF PassesAt, ToRouter
  <2>2. \A p : LetThrough(d, p, q) <=> LetThroughAt(Held, d, p, t)
    <3>1. \A p : LetThroughAt(Held, d, p, t) <=> LetThroughAt(Held, d, p, q)
      BY <1>3, LinkNotAsked
    <3> QED
      BY <3>1, FilteredForm
  <2>3. Accepts(chains.input, q) <=> \E p \in ToRouter(d, q) : LetThrough(d, p, q)
    BY <1>1, InputDecides
  <2>4. (w.fate # "dropped") <=> Filtered(chains.input, q)
    BY <1>2, <1>8
  <2>5. (w.fate # "dropped") <=> PassesAt(Held, up, d, t)
    BY <1>6, <2>1, <2>2, <2>3, <2>4 DEF Filtered
  <2> QED
    BY <2>5 DEF w, d, t
<1>9. CASE ~Local(q.dst)
  <2>1. w.out \in Link
    BY <1>2, <1>4, <1>7, <1>9
  <2>2. Plain(t) /\ FamilyOf[t.src] = FamilyOf[t.dst] /\ t.proto \in Transport /\ "established" \notin t.ct
    BY <1>3, <2>1 DEF Plain
  <2>3. PassesAt(Held, up, d, t) <=>
          \/ d.policies = {}
          \/ \E p \in Between(d, t) : LetThroughAt(Held, d, p, t)
          \/ \E f \in d.forwards : Opened(f, t)
    BY <1>5, <1>9 DEF PassesAt, Between
  <2>4. \A p : LetThrough(d, p, t) <=> LetThroughAt(Held, d, p, t)
    BY FilteredForm
  <2>5. Accepts(chains.forward, t) <=> \/ \E p \in Between(d, t) : LetThrough(d, p, t)
                                       \/ \E f \in d.forwards : Opened(f, t)
    BY <1>1, <2>2, ForwardDecides
  <2>6. (w.fate # "dropped") <=> Filtered(chains.forward, t)
    BY <1>2, <1>9, <2>1, HostAssumption
  <2>7. (w.fate # "dropped") <=> PassesAt(Held, up, d, t)
    BY <1>6, <2>3, <2>4, <2>5, <2>6 DEF Filtered
  <2> QED
    BY <2>7 DEF w, d, t
<1> QED
  BY <1>8, <1>9

\* A packet no connection is kept for is the first packet of one but for its state.
LEMMA PacketAstray ==
    ASSUME NEW p, First1(p)
    PROVE  LET q == [p EXCEPT !.ct = {"invalid"}]
           IN /\ q = Packet(q.iif, q.src, q.dst, q.proto, q.sport, q.dport, q.ct)
              /\ Plain(q) /\ FamilyOf[q.src] = FamilyOf[q.dst] /\ q.proto \in Transport /\ q.ct = {"invalid"}
<1>1. PICK iif, src, dst, proto, sport, dport : p = Packet(iif, src, dst, proto, sport, dport, {"new"})
  BY DEF First1
<1>2. [p EXCEPT !.ct = {"invalid"}] = Packet(iif, src, dst, proto, sport, dport, {"invalid"})
  BY <1>1 DEF Packet
<1>3. /\ p.iif = iif /\ p.src = src /\ p.dst = dst /\ p.proto = proto /\ p.sport = sport /\ p.dport = dport
      /\ p.oif = iif
  BY <1>1 DEF Packet
<1> QED
  BY <1>2, <1>3 DEF First1, Plain, Packet

\* Every step keeps FilteredAsDeclared: only a first packet and a stray one say anything of it.
LEMMA FilteredStep ==
    ASSUME IInv, FilteredAsDeclared, [Next]_vars
    PROVE  FilteredAsDeclared'
<1>1. CASE Open
  <2>0. HostKnown
    BY DEF IInv
  <2>1. PICK p \in FirstPackets : Sendable(p) /\ \E q \in Readdressed(p) :
          LET w == Translated(Walk(q, 0))
          IN sent'.packet = w.packet /\ sent'.fate = w.fate
    BY <1>1, Opens
  <2>2. PICK q \in Readdressed(p) :
          LET w == Translated(Walk(q, 0))
          IN sent'.packet = w.packet /\ sent'.fate = w.fate
    BY <2>1
  <2>3. First1(p) /\ Plain(q) /\ FamilyOf[q.src] = FamilyOf[q.dst] /\ q.proto = p.proto /\ "established" \notin q.ct
    BY <2>0, <2>1, OpenedBy
  <2>4. q = Packet(q.iif, q.src, q.dst, q.proto, q.sport, q.dport, q.ct)
    <3>1. LinksPassed(Declared[nft]) /\ ForwardsPassed(Declared[nft]) /\ chains = Render(Declared[nft])
      BY <2>0, Passed DEF HostKnown
    <3> QED
      BY <2>3, <3>1, ReaddressedIs
  <2>5. q.proto \in Transport
    BY <2>3 DEF First1
  <2>6. sent'.packet = Walk(q, 0).packet /\ (sent'.fate # "unreachable" => sent'.fate = Walk(q, 0).fate)
    BY <2>2, TranslatedIs
  <2>7. UNCHANGED <<host, up>>
    BY <1>1 DEF Open
  <2>8. Held' = Held /\ nft' = nft /\ up' = up
    BY <2>7, HeldStays
  <2>9. SUFFICES ASSUME Decided' PROVE (sent'.fate # "dropped") <=> PassesAt(Held', up', Declared[nft'], sent'.packet)
    BY FilteredForm
  <2>10. ZonesApart(Declared[nft]) /\ sent'.fate # "unreachable"
    BY <2>8, <2>9 DEF Decided, ZonesApart
  <2>11. (Walk(q, 0).fate # "dropped") <=> PassesAt(Held, up, Declared[nft], Walk(q, 0).packet)
    BY <2>0, <2>3, <2>4, <2>5, <2>6, <2>10, WalkFiltered
  <2> QED
    BY <2>6, <2>8, <2>10, <2>11
<1>2. CASE Stray
  <2>0. HostKnown
    BY DEF IInv
  <2>1. PICK p \in FirstPackets : /\ Sendable(p)
                                  /\ LET w == Walk([p EXCEPT !.ct = {"invalid"}], 0)
                                     IN sent'.packet = w.packet /\ sent'.fate = w.fate
    BY <1>2, StrayIs
  <2> DEFINE q == [p EXCEPT !.ct = {"invalid"}]
  <2>2. First1(p)
    BY <2>0, <2>1, FirstPacketIs
  <2>3. /\ q = Packet(q.iif, q.src, q.dst, q.proto, q.sport, q.dport, q.ct)
        /\ Plain(q) /\ FamilyOf[q.src] = FamilyOf[q.dst] /\ q.proto \in Transport /\ q.ct = {"invalid"}
    BY <2>2, PacketAstray
  <2>4. sent'.packet = Walk(q, 0).packet /\ sent'.fate = Walk(q, 0).fate
    BY <2>1
  <2> HIDE DEF q
  <2>5. UNCHANGED <<host, up>>
    BY <1>2, StrayIs
  <2>6. Held' = Held /\ nft' = nft /\ up' = up
    BY <2>5, HeldStays
  <2>7. SUFFICES ASSUME Decided' PROVE (sent'.fate # "dropped") <=> PassesAt(Held', up', Declared[nft'], sent'.packet)
    BY FilteredForm
  <2>8. ZonesApart(Declared[nft]) /\ sent'.fate # "unreachable"
    BY <2>6, <2>7 DEF Decided, ZonesApart
  <2>9. (Walk(q, 0).fate # "dropped") <=> PassesAt(Held, up, Declared[nft], Walk(q, 0).packet)
    BY <2>0, <2>3, <2>4, <2>8, WalkFiltered
  <2> QED
    BY <2>4, <2>6, <2>8, <2>9
<1>3. CASE More
  <2>1. sent'.dir = "more"
    BY <1>3, MoreIs, LaterPackets, DeliveredIs
  <2> QED
    BY <2>1 DEF FilteredAsDeclared
<1>4. CASE Answer
  <2>1. sent'.dir = "reply"
    BY <1>4, AnswerIs, LaterPackets, DeliveredIs
  <2> QED
    BY <2>1 DEF FilteredAsDeclared
<1>5. CASE Close \/ LineUp \/ LineDown \/ InstallRuleset \/ ReloadNetworkd
  BY <1>5, NothingSent DEF FilteredAsDeclared
<1>6. CASE UNCHANGED vars
  <2>1. UNCHANGED <<host, up>> /\ sent' = sent
    BY <1>6 DEF vars
  <2>2. Held' = Held /\ nft' = nft /\ up' = up
    BY <2>1, HeldStays
  <2>3. Decided' <=> Decided
    BY <2>1, <2>2 DEF Decided, ZonesApart
  <2> QED
    BY <2>1, <2>2, <2>3, FilteredForm
<1> QED
  BY <1>1, <1>2, <1>3, <1>4, <1>5, <1>6 DEF Next

\* What passes is what the declaration lets through: the policy of the pair of zones, read
\* rule by rule, and the openings of forwards.
THEOREM FilteredRight ==
    Spec => []FilteredAsDeclared
<1>1. Init => FilteredAsDeclared
  BY DEF Init, FilteredAsDeclared
<1>2. IInv /\ FilteredAsDeclared /\ [Next]_vars => FilteredAsDeclared'
  BY FilteredStep
<1> QED
  BY <1>1, <1>2, Invariant, PTL DEF Spec
=============================================================================
