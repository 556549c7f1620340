------------------------------- MODULE Numbers ------------------------------
(***************************************************************************)
(* The routing tables and firewall marks a declaration is given, stated as *)
(* what they are: the k-th policy without a number has the k-th number     *)
(* nobody pinned.  Module Load shows that the loops of                     *)
(* internal/config/derive.go compute this; module Gateway routes by it.    *)
(***************************************************************************)
EXTENDS Integers, FiniteSets

CONSTANTS
    None,
    Rank        \* the order of names

ASSUME NumberAssumption == None \notin Int

ASSUME RankAssumption ==
    \A a, b \in DOMAIN Rank : Rank[a] \in Nat /\ (Rank[a] = Rank[b] => a = b)

FirstTable == 100
FirstMark == 256

\* unspecified, default, main and local
ReservedTables == {0, 253, 254, 255}

FamilyRank == [ipv4 |-> 4, ipv6 |-> 6]

\* A policy without a priority is sorted last.
PriorityOf(p) == IF p.priority = None THEN 2 ^ 30 ELSE p.priority

\* The order policies are evaluated in: by family, by priority, by name.
Precedes(p, q) ==
    \/ FamilyRank[p.family] < FamilyRank[q.family]
    \/ /\ p.family = q.family
       /\ \/ PriorityOf(p) < PriorityOf(q)
          \/ PriorityOf(p) = PriorityOf(q) /\ Rank[p.name] < Rank[q.name]

\* One return path for each uplink and family a forward is published on.
Returns(d) == {[uplink |-> f.egress, family |-> f.family] : f \in d.forwards}

ReturnPrecedes(r, s) ==
    \/ FamilyRank[r.family] < FamilyRank[s.family]
    \/ r.family = s.family /\ Rank[r.uplink] < Rank[s.uplink]

\* The k-th number from first on that is not in S.
NthFree(S, first, k) ==
    LET free == (first .. first + Cardinality(S) + k) \ S
    IN CHOOSE n \in free : Cardinality({m \in free : m < n}) = k - 1

TablePins(d) == {p.table : p \in d.egress} \ {None}
MarkPins(d) == {p.mark : p \in d.egress} \ {None}

PolicyTable(d, p) ==
    IF p.table # None THEN p.table
    ELSE NthFree(TablePins(d) \cup ReservedTables, FirstTable,
                 1 + Cardinality({q \in d.egress : q.table = None /\ Precedes(q, p)}))

PolicyMark(d, p) ==
    IF p.mark # None THEN p.mark
    ELSE NthFree(MarkPins(d), FirstMark,
                 1 + Cardinality({q \in d.egress : q.mark = None /\ Precedes(q, p)}))

\* The uplinks come after the policies.
ReturnTable(d, r) ==
    NthFree(TablePins(d) \cup ReservedTables, FirstTable,
            Cardinality({q \in d.egress : q.table = None})
            + 1 + Cardinality({s \in Returns(d) : ReturnPrecedes(s, r)}))

ReturnMark(d, r) ==
    NthFree(MarkPins(d), FirstMark,
            Cardinality({q \in d.egress : q.mark = None})
            + 1 + Cardinality({s \in Returns(d) : ReturnPrecedes(s, r)}))
=============================================================================
